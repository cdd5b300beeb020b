------------------------- MODULE SignatureExchange -------------------------
(***************************************************************************)
(* How the validators of the bridge gather each other's signatures over    *)
(* one transfer.                                                           *)
(*                                                                         *)
(* A transfer is locked on its source chain and completed on the other.    *)
(* Every validator runs two block streamers and an HTTP API over a store   *)
(* with one record per transfer.  The source chain's streamer signs the    *)
(* transfer, stores the record, releases the store, broadcasts the record  *)
(* to every peer, takes the store again and merges the signatures that     *)
(* came back.  Peers push their records through the API at any moment, and *)
(* the destination chain's streamer marks the record completed.            *)
(*                                                                         *)
(* The transfer's data never changes, so its hash is a function of the     *)
(* expiration that is hashed with it: a hash is written as that expiration *)
(* (NoHash is the empty string) and a signature as the hash it signs.      *)
(* Each action is one critical section of a store's mutex.                 *)
(***************************************************************************)
EXTENDS Naturals, Sequences, FiniteSets, SignatureQuorums

CONSTANTS
  Validators,            \* the validators of the bridge
  TxType,                \* the chain the transfer is locked on
  SourceLog,             \* the source chain's events about this transfer
  SignaturesExpiration,  \* signatures-expiration, in units of block time
  NetworkFails,          \* may a call to a peer fail or its answer be lost?
  MayReset,              \* may a start be told to wipe the stores first?
  MaxRestarts,           \* bound on the crashes and graceful restarts
  NoTx,                  \* the store has no record of the transfer
  Idle                   \* the source streamer is not broadcasting

NoHash == 0

Event == [kind : {"lock", "request"}, time : Nat]

ASSUME ValidatorsAssumption == IsFiniteSet(Validators) /\ Validators # {}

ASSUME OptionsAssumption ==
  /\ TxType \in {"ethereum", "koinos"}
  /\ SignaturesExpiration \in Nat \ {0}
  /\ NetworkFails \in BOOLEAN
  /\ MayReset \in BOOLEAN
  /\ MaxRestarts \in Nat

\* The log of one transfer begins with the event that locks its tokens, which
\* gives the transfer its identifier; requests for new signatures follow.
ASSUME SourceLogAssumption ==
  /\ SourceLog \in Seq(Event)
  /\ \A i \in 1..Len(SourceLog) : SourceLog[i].kind = "lock" <=> i = 1

-----------------------------------------------------------------------------
(* A stored record.  The code keeps two parallel lists, Validators and     *)
(* Signatures.  An address is listed twice only with the same signature,   *)
(* so the lists are a map and the number of entries beyond one per address *)
(* (surplus).                                                              *)
Status == {"gathering_signatures", "signed", "completed"}

Tx == [status     : Status,
       hash       : Nat,
       signatures : [Validators -> Nat],
       surplus    : Nat]

NoSignatures == [w \in Validators |-> NoHash]

\* A broadcast in progress: what is sent, the peers that have not answered, and
\* the signatures of those that have.
Broadcast == [tx : Tx, waiting : SUBSET Validators,
              answers : [Validators -> Nat]]

ASSUME SentinelsAssumption == NoTx \notin Tx /\ Idle \notin Broadcast

Signers(tx) == {w \in Validators : tx.signatures[w] # NoHash}

\* len(tx.Signatures)
NumSignatures(tx) == Cardinality(Signers(tx)) + tx.surplus

\* Validators with a listed signature over the record's own hash.
ValidSigners(tx) == {w \in Signers(tx) : tx.signatures[w] = tx.hash}

\* The map that has every entry of a, and those of b for the other keys.
Overlay(a, b) == [w \in Validators |-> IF a[w] # NoHash THEN a[w] ELSE b[w]]

\* Mutants of MarkSigned: comparisons that are off by one.
MarkSignedEarly(tx, quorum) ==
  IF NumSignatures(tx) + 1 >= quorum
  THEN [tx EXCEPT !.status = "signed"] ELSE tx
MarkSignedLate(tx, quorum) ==
  IF NumSignatures(tx) > quorum THEN [tx EXCEPT !.status = "signed"] ELSE tx

MarkSigned(tx, quorum) ==
  IF NumSignatures(tx) >= quorum THEN [tx EXCEPT !.status = "signed"] ELSE tx

Entries == ConfiguredEntries(Cardinality(Validators))

-----------------------------------------------------------------------------
VARIABLES
  store,              \* store[n]: n's record of the transfer, or NoTx
  position,           \* position[n]: source events n's streamer has handled
  checkpoint,         \* checkpoint[n]: the position n resumes from
  broadcast,          \* broadcast[n]: the broadcast in progress, or Idle
  requests,           \* the records sent to SubmitSignature so far
  transferCompleted,  \* has the destination chain completed the transfer?
  completionRead,     \* completionRead[n]: n has read that it has
  restarts            \* crashes and graceful restarts so far

vars == <<store, position, checkpoint, broadcast, requests,
          transferCompleted, completionRead, restarts>>

TypeOK ==
  /\ store \in [Validators -> Tx \cup {NoTx}]
  /\ position \in [Validators -> 0..Len(SourceLog)]
  /\ checkpoint \in [Validators -> 0..Len(SourceLog)]
  /\ broadcast \in [Validators -> Broadcast \cup {Idle}]
  /\ requests \subseteq [from : Validators, tx : Tx]
  /\ transferCompleted \in BOOLEAN
  /\ completionRead \in [Validators -> BOOLEAN]
  /\ restarts \in 0..MaxRestarts

Init ==
  /\ store = [n \in Validators |-> NoTx]
  /\ position = [n \in Validators |-> 0]
  /\ checkpoint = [n \in Validators |-> 0]
  /\ broadcast = [n \in Validators |-> Idle]
  /\ requests = {}
  /\ transferCompleted = FALSE
  /\ completionRead = [n \in Validators |-> FALSE]
  /\ restarts = 0

-----------------------------------------------------------------------------
(* The source streamer.                                                    *)

\* n's streamer is free and its next event is of this kind.
Reads(n, kind) ==
  /\ broadcast[n] = Idle
  /\ position[n] < Len(SourceLog)
  /\ SourceLog[position[n] + 1].kind = kind

EventTime(n) == SourceLog[position[n] + 1].time

\* The hash n computes from its next event.
EventHash(n) == EventTime(n) + SignaturesExpiration

\* BroadcastTransaction marshals the record once and posts it to each peer.
StartBroadcast(n, tx) ==
  /\ broadcast' = [broadcast EXCEPT ![n] =
       [tx |-> tx, waiting |-> Validators \ {n}, answers |-> NoSignatures]]
  /\ requests' = requests \cup {[from |-> n, tx |-> tx]}

\* Mutant of HashMismatch: the check is left out.
HashNeverCompared(n) == FALSE

HashMismatch(n) ==
  store[n] # NoTx /\ store[n].hash \notin {NoHash, EventHash(n)}

\* Mutants of LockedTx: the status is set without looking at the record's, and
\* a completed record is left as it is.
LockedTxReopens(n) ==
  [status     |-> "gathering_signatures",
   hash       |-> EventHash(n),
   signatures |-> [IF store[n] = NoTx THEN NoSignatures ELSE store[n].signatures
                     EXCEPT ![n] = EventHash(n)],
   surplus    |-> 0]
LockedTxUnlessCompleted(n) ==
  IF store[n] # NoTx /\ store[n].status = "completed"
  THEN store[n] ELSE LockedTxReopens(n)

LockedTx(n) ==
  IF store[n] = NoTx
  THEN [status |-> "gathering_signatures", hash |-> EventHash(n),
        signatures |-> [NoSignatures EXCEPT ![n] = EventHash(n)],
        surplus |-> 0]
  ELSE [status |-> IF store[n].status = "completed"
                   THEN "completed" ELSE "gathering_signatures",
        hash |-> EventHash(n),
        signatures |-> [store[n].signatures EXCEPT ![n] = EventHash(n)],
        surplus |-> store[n].surplus
                      + IF n \in Signers(store[n]) THEN 1 ELSE 0]

TokensLocked(n) ==
  /\ Reads(n, "lock")
  /\ ~HashMismatch(n)
  /\ store' = [store EXCEPT ![n] = LockedTx(n)]
  /\ StartBroadcast(n, LockedTx(n))
  /\ UNCHANGED <<position, checkpoint, transferCompleted, completionRead,
                 restarts>>

ProcessEthereumTokensLockedEvent(n) == TxType = "ethereum" /\ TokensLocked(n)
ProcessKoinosTokensLockedEvent(n) == TxType = "koinos" /\ TokensLocked(n)

\* Mutants of RequestAllowed: a request counts as soon as the signatures have
\* expired, and only as long as the record is not reported signed.
RequestAllowedEarly(n) ==
  /\ store[n] # NoTx
  /\ store[n].status # "completed"
  /\ EventTime(n) >= store[n].hash
RequestAllowedUnsigned(n) ==
  /\ store[n] # NoTx
  /\ store[n].status = "gathering_signatures"
  /\ EventTime(n) >= store[n].hash + SignaturesExpiration

\* A request counts for a known, uncompleted transfer, one expiration time
\* after its signatures expired.
RequestAllowed(n) ==
  /\ store[n] # NoTx
  /\ store[n].status # "completed"
  /\ EventTime(n) >= store[n].hash + SignaturesExpiration

\* n's fresh signature, and those of the peers that match the new hash.
ResignedTx(n) ==
  [status |-> "gathering_signatures",
   hash |-> EventHash(n),
   signatures |-> [w \in Validators |->
     IF w = n \/ store[n].signatures[w] = EventHash(n)
     THEN EventHash(n) ELSE NoHash],
   surplus |-> 0]

RequestNewSignatures(n, quorum) ==
  /\ Reads(n, "request")
  /\ RequestAllowed(n)
  /\ LET tx == MarkSigned(ResignedTx(n), quorum) IN
       /\ store' = [store EXCEPT ![n] = tx]
       /\ StartBroadcast(n, tx)
  /\ UNCHANGED <<position, checkpoint, transferCompleted, completionRead,
                 restarts>>

ProcessEthereumRequestNewSignaturesEvent(n) ==
  TxType = "ethereum" /\ RequestNewSignatures(n, SubmitQuorum(Entries))
ProcessRequestNewSignaturesEvent(n) ==
  TxType = "koinos" /\ RequestNewSignatures(n, RequestQuorum(Entries))

\* Mutant of IgnoreRequest: the event is not left behind.
IgnoreRequestForever(n) ==
  /\ Reads(n, "request")
  /\ ~RequestAllowed(n)
  /\ UNCHANGED vars

IgnoreRequest(n) ==
  /\ Reads(n, "request")
  /\ ~RequestAllowed(n)
  /\ position' = [position EXCEPT ![n] = @ + 1]
  /\ UNCHANGED <<store, checkpoint, broadcast, requests, transferCompleted,
                 completionRead, restarts>>

\* The call to p failed, timed out or was refused: n goes on without it.
PeerFails(n, p) ==
  /\ NetworkFails
  /\ broadcast[n] # Idle
  /\ p \in broadcast[n].waiting
  /\ broadcast' = [broadcast EXCEPT ![n].waiting = @ \ {p}]
  /\ UNCHANGED <<store, position, checkpoint, requests, transferCompleted,
                 completionRead, restarts>>

\* Mutant of MergedTx: the record broadcast is not read again from the store.
StaleMergedTx(n) == [broadcast[n].tx EXCEPT
  !.signatures = Overlay(broadcast[n].answers, @), !.surplus = 0]

MergedTx(n) == [store[n] EXCEPT
  !.signatures = Overlay(broadcast[n].answers, @), !.surplus = 0]

\* Mutant of MergeAnswers: the handler does not wait for the calls it makes.
MergeAnswersAtOnce(n, kind, quorum) ==
  /\ broadcast[n] # Idle
  /\ SourceLog[position[n] + 1].kind = kind
  /\ store' = [store EXCEPT ![n] =
       IF store[n].status = "completed" THEN MergedTx(n)
       ELSE MarkSigned(MergedTx(n), quorum)]
  /\ broadcast' = [broadcast EXCEPT ![n] = Idle]
  /\ position' = [position EXCEPT ![n] = @ + 1]
  /\ UNCHANGED <<checkpoint, requests, transferCompleted, completionRead,
                 restarts>>

\* The second critical section: the record is read again and the answers win
\* over its own entries.
MergeAnswers(n, kind, quorum) ==
  /\ broadcast[n] # Idle
  /\ SourceLog[position[n] + 1].kind = kind
  /\ broadcast[n].waiting = {}
  /\ store' = [store EXCEPT ![n] =
       IF store[n].status = "completed" THEN MergedTx(n)
       ELSE MarkSigned(MergedTx(n), quorum)]
  /\ broadcast' = [broadcast EXCEPT ![n] = Idle]
  /\ position' = [position EXCEPT ![n] = @ + 1]
  /\ UNCHANGED <<checkpoint, requests, transferCompleted, completionRead,
                 restarts>>

MergeEthereumLock(n) ==
  TxType = "ethereum" /\ MergeAnswers(n, "lock", LockQuorum(Entries))
MergeKoinosLock(n) ==
  TxType = "koinos" /\ MergeAnswers(n, "lock", LockQuorum(Entries))
MergeEthereumRequest(n) ==
  TxType = "ethereum" /\ MergeAnswers(n, "request", RequestQuorum(Entries))
MergeKoinosRequest(n) ==
  TxType = "koinos" /\ MergeAnswers(n, "request", SubmitQuorum(Entries))

-----------------------------------------------------------------------------
(* The API.  A request may reach a peer late, more than once, or never.    *)

Awaits(n, p, tx) ==
  /\ broadcast[n] # Idle
  /\ broadcast[n].tx = tx
  /\ p \in broadcast[n].waiting

\* p answers m with the signature sig; NoHash stands for an empty body and
\* for an error status alike.
Answer(p, m, sig) ==
  \/ /\ Awaits(m.from, p, m.tx)
     /\ broadcast' = [broadcast EXCEPT ![m.from].waiting = @ \ {p},
                                       ![m.from].answers[p] = sig]
  \/ /\ NetworkFails \/ ~Awaits(m.from, p, m.tx)
     /\ UNCHANGED broadcast

\* Every listed signature recovers to its validator over the record's hash.
SignaturesVerify(tx) ==
  \A w \in Validators : tx.signatures[w] \in {NoHash, tx.hash}

SubmitRefused(p, m) ==
  /\ \/ ~SignaturesVerify(m.tx)
     \/ /\ store[p] # NoTx
        /\ store[p].status # "completed"
        /\ store[p].hash # m.tx.hash
  /\ Answer(p, m, NoHash)
  /\ UNCHANGED store

SubmitToCompleted(p, m) ==
  /\ SignaturesVerify(m.tx)
  /\ store[p] # NoTx
  /\ store[p].status = "completed"
  /\ Answer(p, m, store[p].signatures[p])
  /\ UNCHANGED store

\* p's own entries win over those that it receives.
SubmittedTx(p, m) == [store[p] EXCEPT
  !.signatures = Overlay(@, m.tx.signatures), !.surplus = 0]

\* Mutant of SubmitMerged: the hashes are not compared.
SubmitMergedAnyHash(p, m) ==
  /\ SignaturesVerify(m.tx)
  /\ store[p] # NoTx
  /\ store[p].status # "completed"
  /\ store' = [store EXCEPT ![p] =
       MarkSigned(SubmittedTx(p, m), SubmitQuorum(Entries))]
  /\ Answer(p, m, store[p].signatures[p])

SubmitMerged(p, m) ==
  /\ SignaturesVerify(m.tx)
  /\ store[p] # NoTx
  /\ store[p].status # "completed"
  /\ store[p].hash = m.tx.hash
  /\ store' = [store EXCEPT ![p] =
       MarkSigned(SubmittedTx(p, m), SubmitQuorum(Entries))]
  /\ Answer(p, m, store[p].signatures[p])

\* Mutant of SubmitAdopted: p adds a signature of its own.
SubmitAdoptedSigns(p, m) ==
  /\ SignaturesVerify(m.tx)
  /\ store[p] = NoTx
  /\ LET tx == [m.tx EXCEPT !.signatures[p] = m.tx.hash] IN
       store' = [store EXCEPT ![p] = MarkSigned(tx, SubmitQuorum(Entries))]
  /\ Answer(p, m, NoHash)

SubmitAdopted(p, m) ==
  /\ SignaturesVerify(m.tx)
  /\ store[p] = NoTx
  /\ store' = [store EXCEPT ![p] = MarkSigned(m.tx, SubmitQuorum(Entries))]
  /\ Answer(p, m, NoHash)

SubmitSignature(p, m) ==
  /\ m \in requests
  /\ p # m.from
  /\ \/ SubmitRefused(p, m)
     \/ SubmitToCompleted(p, m)
     \/ SubmitMerged(p, m)
     \/ SubmitAdopted(p, m)
  /\ UNCHANGED <<position, checkpoint, requests, transferCompleted,
                 completionRead, restarts>>

SubmitEthereumSignature(p, m) == TxType = "ethereum" /\ SubmitSignature(p, m)
SubmitKoinosSignature(p, m) == TxType = "koinos" /\ SubmitSignature(p, m)

-----------------------------------------------------------------------------
(* The destination chain and its streamer.                                 *)

\* The destination contract accepts a quorum of signatures over one hash,
\* which a relayer read from some validator.
CompleteTransfer ==
  /\ ~transferCompleted
  /\ \E n \in Validators :
       /\ store[n] # NoTx
       /\ Cardinality(ValidSigners(store[n])) >= SubmitQuorum(Entries)
  /\ transferCompleted' = TRUE
  /\ UNCHANGED <<store, position, checkpoint, broadcast, requests,
                 completionRead, restarts>>

\* Nothing of the broadcast in progress over the other chain is looked at.
TransferCompletedEvent(n) ==
  /\ transferCompleted
  /\ ~completionRead[n]
  /\ completionRead' = [completionRead EXCEPT ![n] = TRUE]
  /\ store' = [store EXCEPT ![n] =
       IF @ = NoTx
       THEN [status |-> "completed", hash |-> NoHash,
             signatures |-> NoSignatures, surplus |-> 0]
       ELSE [@ EXCEPT !.status = "completed"]]
  /\ UNCHANGED <<position, checkpoint, broadcast, requests,
                 transferCompleted, restarts>>

ProcessKoinosTransferCompletedEvent(n) ==
  TxType = "ethereum" /\ TransferCompletedEvent(n)
ProcessEthereumTransferCompletedEvent(n) ==
  TxType = "koinos" /\ TransferCompletedEvent(n)

-----------------------------------------------------------------------------
(* The process.                                                            *)

\* n starts again at position c of the source log, and reads the completion
\* again unless the destination streamer's saved position is behind it.
StartAt(n, c) ==
  /\ \E reset \in {FALSE, MayReset} :
       LET resume == IF reset THEN 0 ELSE c IN
       /\ position' = [position EXCEPT ![n] = resume]
       /\ checkpoint' = [checkpoint EXCEPT ![n] = resume]
       /\ store' = IF reset THEN [store EXCEPT ![n] = NoTx] ELSE store
       /\ \E read \in {FALSE, completionRead[n] /\ ~reset} :
            completionRead' = [completionRead EXCEPT ![n] = read]
  /\ broadcast' = [broadcast EXCEPT ![n] = Idle]
  /\ UNCHANGED <<requests, transferCompleted>>

CountRestart == restarts < MaxRestarts /\ restarts' = restarts + 1

\* Only a graceful stop saves the position.
Crash(n) == CountRestart /\ StartAt(n, checkpoint[n])

\* Mutant of GracefulRestart: the block after the last one parsed is saved.
GracefulRestartSkips(n) ==
  /\ broadcast[n] = Idle
  /\ CountRestart
  /\ \E c \in {0, position[n] + 1} : StartAt(n, c)

\* The streamer stops between two events.  It resumes from the beginning if
\* the block start is configured, or if it stops before it parsed a block.
GracefulRestart(n) ==
  /\ broadcast[n] = Idle
  /\ CountRestart
  /\ \E c \in {0, position[n]} : StartAt(n, c)

\* The stored record has another hash than the one computed from the event.
\* The container restarts the process as often as it panics: no bound.
PanicOnHashMismatch(n) ==
  /\ Reads(n, "lock")
  /\ HashMismatch(n)
  /\ StartAt(n, checkpoint[n])
  /\ UNCHANGED restarts

-----------------------------------------------------------------------------
SourceStep(n) ==
  \/ ProcessEthereumTokensLockedEvent(n)
  \/ ProcessKoinosTokensLockedEvent(n)
  \/ ProcessEthereumRequestNewSignaturesEvent(n)
  \/ ProcessRequestNewSignaturesEvent(n)
  \/ IgnoreRequest(n)
  \/ MergeEthereumLock(n)
  \/ MergeKoinosLock(n)
  \/ MergeEthereumRequest(n)
  \/ MergeKoinosRequest(n)

DestinationStep(n) ==
  \/ ProcessKoinosTransferCompletedEvent(n)
  \/ ProcessEthereumTransferCompletedEvent(n)

ApiStep(p, m) ==
  \/ SubmitEthereumSignature(p, m)
  \/ SubmitKoinosSignature(p, m)

ProcessStep(n) ==
  \/ Crash(n)
  \/ PanicOnHashMismatch(n)
  \/ GracefulRestart(n)

Next ==
  \/ \E n \in Validators : SourceStep(n) \/ DestinationStep(n)
  \/ \E n, p \in Validators : PeerFails(n, p)
  \/ \E p \in Validators : \E m \in requests : ApiStep(p, m)
  \/ CompleteTransfer
  \/ \E n \in Validators : ProcessStep(n)

Spec == Init /\ [][Next]_vars

\* Weak fairness of what the scheduler runs: the streamers poll for ever and
\* the HTTP client delivers each call or gives up on it.
FairSpec ==
  /\ Spec
  /\ \A n \in Validators :
       /\ WF_vars(SourceStep(n))
       /\ WF_vars(DestinationStep(n))
       /\ WF_vars(PanicOnHashMismatch(n))
  /\ \A n, p \in Validators :
       WF_vars(\E m \in requests :
         m.from = n /\ Awaits(n, p, m.tx) /\ ApiStep(p, m))

-----------------------------------------------------------------------------
\* n's streamer has handled, or is handling, the event that locks the tokens.
HasLocked(n) == broadcast[n] # Idle \/ position[n] > 0

\* Until the destination chain completes the transfer, a record never lists a
\* signature over another hash than its own, whatever the order in which the
\* validators re-sign, answer and are called late.
SignaturesMatchHash ==
  ~transferCompleted =>
    \A n \in Validators : store[n] # NoTx => SignaturesVerify(store[n])

\* Once a validator has read the lock event, its record always lists its own
\* signature over the record's current hash: it is what the API answers.
OwnSignatureIsCurrent ==
  \A n \in Validators : store[n] # NoTx /\ HasLocked(n) =>
    /\ store[n].hash # NoHash
    /\ store[n].signatures[n] = store[n].hash

\* Until the transfer is completed, a record is reported signed only with the
\* API's quorum of distinct validators that signed the record's hash, short of
\* at most one for each restart: a validator that reads the lock event again
\* lists its signature twice, and a peer counts both entries.
SignedIsBacked ==
  ~transferCompleted =>
    \A n \in Validators : store[n] # NoTx /\ store[n].status = "signed" =>
      Cardinality(ValidSigners(store[n])) + restarts >= SubmitQuorum(Entries)

\* The validators whose streamer signed the transfer with the hash h: each one
\* read that event on the source chain itself.
SignedBy(h) == {w \in Validators : \E m \in requests :
                  m.from = w /\ m.tx.hash = h}

\* The destination chain completes a transfer only after a quorum of validators
\* read one of its events on the source chain and signed it, whatever records
\* were adopted, merged or answered in between.
CompletionNeedsLocks ==
  transferCompleted =>
    \E h \in {m.tx.hash : m \in requests} :
      Cardinality(SignedBy(h)) >= SubmitQuorum(Entries)

\* No two validators, at whatever position, ever sign hashes that are valid at
\* the same time: a second hash is signed one expiration time after the first
\* has expired, in spite of adopted records, replays and wiped stores.
SignaturesNeverOverlap ==
  \A l, m \in requests : l.tx.hash < m.tx.hash =>
    l.tx.hash + 2 * SignaturesExpiration <= m.tx.hash

\* n has handled the lock event, is between two events and may still re-sign.
Settled(n) == position[n] > 0 /\ broadcast[n] = Idle
                /\ store[n].status # "completed"

\* Without restarts, two validators that have handled the same events have
\* agreed on the hash, whoever re-signed first and whatever the API merged; one
\* that has handled fewer is not ahead.
RecordsAgree ==
  restarts = 0 =>
    \A n, w \in Validators :
      Settled(n) /\ Settled(w) /\ position[n] <= position[w] =>
        store[n].hash <= store[w].hash

\* Without failed calls and restarts, two validators that have handled the same
\* events list each other's signature over the current hash, though each calls
\* the other only once for each hash and may be refused, or find a record that
\* is not yet signed; nothing needs to be sent again.
SettledRecordsAreFull ==
  ~NetworkFails /\ restarts = 0 =>
    \A n, w \in Validators :
      Settled(n) /\ Settled(w) /\ position[n] = position[w] =>
        w \in ValidSigners(store[n])

\* Without failed calls and restarts, the lock handler never finds another hash
\* in the record, though peers that have re-signed submit theirs to validators
\* that have not read the lock event.
MismatchNeedsFailure ==
  ~NetworkFails /\ restarts = 0 =>
    \A n \in Validators : ~(Reads(n, "lock") /\ HashMismatch(n))

\* Everybody's answers reach the threshold that a re-signing merges them with.
MergeThresholdInReach ==
  TxType = "koinos" \/ RequestQuorum(Entries) <= Cardinality(Validators)

\* All validators have handled the same events and may still re-sign.
AllSettledAt(i) == \A v \in Validators : Settled(v) /\ position[v] = i

\* Without failed calls and restarts, when all validators have handled the same
\* events, all of them but one at most report the transfer signed: whoever does
\* not lock last gets a call that completes its list, as the API's threshold is
\* within reach where LockQuorum is not.  After a re-signing an answer may be
\* what completes the list, for all but the first, and the threshold it is
\* merged with must be within reach as well: on Ethereum it is not with four
\* validators (nor with two, where only one can be affected).
AllButOneReportSigned ==
  ~NetworkFails /\ restarts = 0 /\ MergeThresholdInReach =>
    \A n, w \in Validators :
      n # w /\ AllSettledAt(position[n]) =>
        "signed" \in {store[n].status, store[w].status}

\* A completed record stays completed until the store is wiped, though its
\* streamer may be between the two halves of a handler when it completes.
CompletedIsFinal ==
  [][\A n \in Validators :
       store[n] # NoTx /\ store[n].status = "completed" =>
         \/ store'[n] # NoTx /\ store'[n].status = "completed"
         \/ MayReset /\ store'[n] = NoTx]_vars

\* A late or repeated request, a replayed event or a merge never brings an
\* older hash back.
HashNeverGoesBack ==
  [][\A n \in Validators : store[n] # NoTx =>
       \/ store'[n] # NoTx /\ store'[n].hash >= store[n].hash
       \/ MayReset /\ store'[n] = NoTx]_vars

\* Two critical sections of one handler enclose a broadcast during which the
\* API changes the record: no signature over the current hash is lost, unless
\* the record moves on to a newer hash.
SignaturesAreKept ==
  [][~transferCompleted =>
       \A n, w \in Validators :
         (store[n] # NoTx /\ w \in ValidSigners(store[n])) =>
           \/ MayReset /\ store'[n] = NoTx
           \/ store'[n].hash > store[n].hash
           \/ w \in ValidSigners(store'[n])]_vars

\* Without failures, every validator ends up, and stays, with everybody's
\* signature over its current hash, in whatever order the validators lock and
\* re-sign; only a completed record may miss some.
EverySignatureSpreads ==
  \A n, w \in Validators :
    <>[](/\ store[n] # NoTx
         /\ store[n].status = "completed" \/ w \in ValidSigners(store[n]))

\* Every streamer gets to the end of its chain's events: validators do not
\* wait on each other while they broadcast, and none is stuck on an event.
StreamersCatchUp ==
  \A n \in Validators :
    <>(position[n] = Len(SourceLog) /\ broadcast[n] = Idle)

\* "only keep signatures that match the new hash": after a re-signing, a record
\* that is not completed lists no signature over another hash.
KeptSignaturesMatch ==
  \A n \in Validators :
    store[n] # NoTx /\ store[n].status # "completed" =>
      SignaturesVerify(store[n])

\* Without failures, some validator reports the transfer signed, or reports
\* its completion, though no streamer may reach LockQuorum by itself.
SomebodyReportsSigned ==
  <>(\E n \in Validators :
       store[n] # NoTx /\ store[n].status \in {"signed", "completed"})

\* A completed transfer is in the end reported completed by everybody.
EverybodyCompletes ==
  transferCompleted ~>
    [](\A n \in Validators : store[n] # NoTx /\ store[n].status = "completed")

-----------------------------------------------------------------------------
(* The exchange implements TransferLedger.                                 *)

\* n's record as an entry of the ledger.
EntryOf(n) ==
  IF store[n] = NoTx
  THEN [hash |-> NoHash, signers |-> {}, completed |-> FALSE]
  ELSE [hash      |-> store[n].hash,
        signers   |-> ValidSigners(store[n]),
        completed |-> store[n].status = "completed"]

Ledger == INSTANCE TransferLedger WITH
  Quorums <- {Q \in SUBSET Validators :
                Cardinality(Q) >= SubmitQuorum(Entries)},
  ledger <- [n \in Validators |-> EntryOf(n)],
  closed <- transferCompleted

\* Handlers, broadcasts, late requests and restarts only ever move a record
\* forward, one record at a time, and none is reported completed before the
\* destination chain has accepted a quorum of one record's signatures.
KeepsLedger == Ledger!Spec
=============================================================================
