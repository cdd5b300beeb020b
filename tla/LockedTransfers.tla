---------------------------- MODULE LockedTransfers ----------------------------
(***************************************************************************)
(* One validator's source streamer over a chain that locks several         *)
(* transfers: the keys of their records, what is hashed and signed for     *)
(* them, what the peers make of it, and what they submit of their own.     *)
(*                                                                         *)
(* SignatureExchange follows one transfer through all validators; this is  *)
(* many transfers at one validator.  Its broadcasts are those of           *)
(* BroadcastTransaction and its hashes those of CompleteTransferHash.      *)
(***************************************************************************)
EXTENDS CompleteTransferHash, BroadcastTransaction

CONSTANTS
  Logs,                  \* the source chains and logs considered
  SignaturesExpiration,  \* signatures-expiration, in units of block time
  MaxCrashes,            \* bound on the crashes other than panics
  Submitters,            \* the peers that submit records to this validator
  NoRecord,              \* the store has nothing under a key
  Unknown,               \* a field that is not set yet
  Idle                   \* no broadcast is in progress

\* A request names a transaction and an operation, or no operation (0).
Event == [kind : {"lock", "request"}, transfer : Transfer, time : Nat]

\* An Ethereum event has no operation.
ASSUME LogsAssumption ==
  /\ Logs \subseteq [chain : Chains, events : Seq(Event)]
  /\ \A l \in Logs : l.chain = "ethereum" =>
       \A i \in 1..Len(l.events) : l.events[i].transfer.op = 0

ASSUME ExpirationAssumption ==
  SignaturesExpiration \in Nat \ {0} /\ MaxCrashes \in Nat

ASSUME SubmittersAssumption == Submitters \subseteq Validators \ {Self}

\* Ethereum records are kept under the transaction's hash alone.
Key == [tx : TxIds, op : OpIds]

KeyOf(t) == [tx |-> t.tx, op |-> t.op]

Record == [transfer  : Transfer \cup {Unknown},
           hash      : Hash \cup {Unknown},
           signers   : SUBSET Validators,
           completed : BOOLEAN]

ASSUME SentinelsAssumption ==
  /\ NoRecord \notin Record
  /\ Unknown \notin Transfer \cup Hash
  /\ Idle \notin Key

VARIABLES
  log,           \* the source chain and its events
  position,      \* the events that are handled
  store,         \* store[k]: the record under key k, or NoRecord
  broadcasting,  \* the key of the record being broadcast, or Idle
  panics,        \* the events whose handler has panicked
  crashes        \* the crashes so far, panics apart

vars == <<log, position, store, broadcasting, panics, crashes, broadcastVars>>

TypeOK ==
  /\ log \in Logs
  /\ position \in 0..Len(log.events)
  /\ store \in [Key -> Record \cup {NoRecord}]
  /\ broadcasting \in Key \cup {Idle}
  /\ panics \subseteq 1..Len(log.events)
  /\ crashes \in 0..MaxCrashes
  /\ BroadcastTypeOK

Init ==
  /\ log \in Logs
  /\ position = 0
  /\ store = [k \in Key |-> NoRecord]
  /\ broadcasting = Idle
  /\ panics = {}
  /\ crashes = 0
  /\ NoCallYet

-----------------------------------------------------------------------------
(* The handlers, up to their broadcast.                                    *)

NextEvent == log.events[position + 1]
NewExpiration == NextEvent.time + SignaturesExpiration

Reads(kind) ==
  /\ broadcasting = Idle
  /\ position < Len(log.events)
  /\ NextEvent.kind = kind

\* The record is put and its broadcast begins.
PutAndBroadcast(k, record) ==
  /\ store' = [store EXCEPT ![k] = record]
  /\ broadcasting' = k
  /\ ResetBroadcast
  /\ UNCHANGED <<log, position, panics, crashes>>

EventHash == LockHash(log.chain, NextEvent.transfer, NewExpiration)

\* Mutant of HashMismatch: the check is left out.
HashNeverCompared(k) == FALSE

\* Mutant of HashMismatch: a record without a hash is compared, too.
HashAlwaysCompared(k) == store[k] # NoRecord /\ store[k].hash # EventHash

\* The key's record is of another transfer, or of another signature.
HashMismatch(k) ==
  store[k] # NoRecord /\ store[k].hash \notin {Unknown, EventHash}

LockedRecord(k) ==
  [transfer  |-> NextEvent.transfer,
   hash      |-> EventHash,
   signers   |-> {Self} \cup IF store[k] = NoRecord THEN {} ELSE store[k].signers,
   completed |-> store[k] # NoRecord /\ store[k].completed]

TokensLocked ==
  LET k == KeyOf(NextEvent.transfer) IN
    /\ Reads("lock")
    /\ LockDecodes(log.chain, NextEvent.transfer)
    /\ ~HashMismatch(k)
    /\ PutAndBroadcast(k, LockedRecord(k))

\* Operation 1 is meant if none is named.
NamedKey(tx, op) ==
  [tx |-> tx, op |-> IF op = 0 /\ log.chain = "koinos" THEN 1 ELSE op]

\* Mutant of RequestedKey: operation 3 is looked up first.
RequestedKeyLast(tx, op) ==
  LET last == [tx |-> tx, op |-> 3] IN
    IF NamedKey(tx, op).op = 1 /\ store[last] # NoRecord
    THEN last ELSE NamedKey(tx, op)

\* Without a record for operation 1, operation 3 is tried.
RequestedKey(tx, op) ==
  IF NamedKey(tx, op).op = 1 /\ store[NamedKey(tx, op)] = NoRecord
  THEN [tx |-> tx, op |-> 3] ELSE NamedKey(tx, op)

RequestAllowed(k) ==
  /\ store[k] # NoRecord
  /\ ~store[k].completed
  /\ NextEvent.time >= store[k].hash.expiration + SignaturesExpiration

ResignedRecord(k) ==
  [store[k] EXCEPT
     !.hash = RecordHash(log.chain, store[k].transfer, NewExpiration),
     !.signers = {Self}]

RequestNewSignatures ==
  /\ Reads("request")
  /\ LET k == RequestedKey(NextEvent.transfer.tx, NextEvent.transfer.op) IN
       /\ RequestAllowed(k)
       /\ RecordDecodes(log.chain, store[k].transfer)
       /\ PutAndBroadcast(k, ResignedRecord(k))

IgnoreRequest ==
  /\ Reads("request")
  /\ ~RequestAllowed(RequestedKey(NextEvent.transfer.tx, NextEvent.transfer.op))
  /\ position' = position + 1
  /\ UNCHANGED <<log, store, broadcasting, panics, crashes, broadcastVars>>

\* The handler panics.  The process starts again with the same store and
\* reads the log from its beginning, since no position was saved.
Panics ==
  /\ panics' = panics \cup {position + 1}
  /\ position' = 0
  /\ UNCHANGED <<log, store, broadcasting, crashes, broadcastVars>>

\* The process ends for another reason, in a broadcast or between events.
Crash ==
  /\ crashes < MaxCrashes
  /\ crashes' = crashes + 1
  /\ position' = 0
  /\ broadcasting' = Idle
  /\ ResetBroadcast
  /\ UNCHANGED <<log, store, panics>>

PanicOnLock ==
  /\ Reads("lock")
  /\ \/ ~LockDecodes(log.chain, NextEvent.transfer)
     \/ HashMismatch(KeyOf(NextEvent.transfer))
  /\ Panics

PanicOnRequest ==
  /\ Reads("request")
  /\ LET k == RequestedKey(NextEvent.transfer.tx, NextEvent.transfer.op) IN
       /\ RequestAllowed(k)
       /\ ~RecordDecodes(log.chain, store[k].transfer)
  /\ Panics

-----------------------------------------------------------------------------
(* The broadcast and what follows it.                                      *)

\* A peer that answers with a signature, or adopts the record, has verified
\* it.  It may refuse it nevertheless, because its own record differs.
Answer(e, reply) ==
  /\ broadcasting # Idle
  /\ reply \in {"signature", "adopted"} =>
       Verifies(log.chain, store[broadcasting].transfer,
                store[broadcasting].hash)
  /\ PeerAnswers(e, reply)
  /\ UNCHANGED <<log, position, store, broadcasting, panics, crashes>>

VisitEntry(e) ==
  /\ broadcasting # Idle
  /\ SkipEntry(e) \/ CallFails(e)
  /\ UNCHANGED <<log, position, store, broadcasting, panics, crashes>>

MergeAnswers ==
  /\ broadcasting # Idle
  /\ unvisited = {}
  /\ store' = [store EXCEPT ![broadcasting].signers = @ \cup signatures]
  /\ broadcasting' = Idle
  /\ position' = position + 1
  /\ ResetBroadcast
  /\ UNCHANGED <<log, panics, crashes>>

-----------------------------------------------------------------------------
(* The destination chain's streamer completes any of the transfers.        *)

LockedKeys ==
  {KeyOf(log.events[i].transfer) :
     i \in {j \in 1..Len(log.events) : log.events[j].kind = "lock"}}

TransferCompleted(k) ==
  /\ k \in LockedKeys
  /\ store' = [store EXCEPT ![k] =
       IF @ = NoRecord
       THEN [transfer |-> Unknown, hash |-> Unknown, signers |-> {},
             completed |-> TRUE]
       ELSE [@ EXCEPT !.completed = TRUE]]
  /\ UNCHANGED <<log, position, broadcasting, panics, crashes,
                 broadcastVars>>

-----------------------------------------------------------------------------
(* SubmitSignature.  The peers run the same handlers on the same log, ahead  *)
(* of this validator or behind it.                                         *)

\* The locks that the record under k may stand for.
LocksOf(k) ==
  {i \in 1..Len(log.events) :
     log.events[i].kind = "lock" /\ KeyOf(log.events[i].transfer) = k}

\* The request at j, after the lock at i, is for the lock's transfer, and late
\* enough for its first signatures.
Resigns(i, j) ==
  LET t == log.events[i].transfer
      r == log.events[j].transfer
      named == NamedKey(r.tx, r.op) IN
    /\ i < j
    /\ log.events[j].kind = "request"
    /\ t.tx = r.tx
    /\ \/ t.op = named.op
       \/ t.op = 3 /\ named.op = 1 /\ \A m \in LocksOf(named) : m > j
    /\ RecordDecodes(log.chain, t)
    /\ log.events[j].time >= log.events[i].time + 2 * SignaturesExpiration

\* The hashes that handlers make for the transfer locked at i.
HashesOf(i) ==
  LET t == log.events[i].transfer
      Expiration(j) == log.events[j].time + SignaturesExpiration IN
    {LockHash(log.chain, t, Expiration(i))} \cup
      {RecordHash(log.chain, t, Expiration(j)) :
         j \in {m \in 1..Len(log.events) : Resigns(i, m)}}

\* A peer handles the lock at i, unless an earlier one has left another hash.
PeersLock(i) ==
  LET t == log.events[i].transfer IN
    /\ log.events[i].kind = "lock"
    /\ LockDecodes(log.chain, t)
    /\ \A j \in LocksOf(KeyOf(t)) : j < i =>
         LockHash(log.chain, t, log.events[i].time + SignaturesExpiration)
           \in HashesOf(j)

\* Mutant of SubmitAdopted: only a record that is there is compared with.
SubmitAdoptedUnverified(t, hash, peers) ==
  /\ store[KeyOf(t)] = NoRecord
  /\ \E completed \in BOOLEAN :
       store' = [store EXCEPT ![KeyOf(t)] =
         [transfer |-> t, hash |-> hash, signers |-> peers,
          completed |-> completed]]

\* The first record under its key is stored as it was sent, with its status.
SubmitAdopted(t, hash, peers) ==
  /\ Verifies(log.chain, t, hash)
  /\ store[KeyOf(t)] = NoRecord
  /\ \E completed \in BOOLEAN :
       store' = [store EXCEPT ![KeyOf(t)] =
         [transfer |-> t, hash |-> hash, signers |-> peers,
          completed |-> completed]]

\* Of a record with the same hash, the signatures are taken over.
SubmitMerged(t, hash, peers) ==
  LET k == KeyOf(t) IN
    /\ Verifies(log.chain, t, hash)
    /\ store[k] # NoRecord
    /\ ~store[k].completed
    /\ store[k].hash = hash
    /\ store' = [store EXCEPT ![k].signers = @ \cup peers]

\* A record that is signed by some of its submitters arrives.  One that is refused,
\* or of a transfer that is completed here, changes nothing.
SubmitSignature(i, peers) ==
  /\ PeersLock(i)
  /\ \E hash \in HashesOf(i) :
       \/ SubmitAdopted(log.events[i].transfer, hash, peers)
       \/ SubmitMerged(log.events[i].transfer, hash, peers)
  /\ UNCHANGED <<log, position, broadcasting, panics, crashes, broadcastVars>>

-----------------------------------------------------------------------------
StreamerStep ==
  \/ TokensLocked
  \/ RequestNewSignatures
  \/ IgnoreRequest
  \/ PanicOnLock
  \/ PanicOnRequest
  \/ \E e \in Entry : VisitEntry(e)
  \/ \E e \in Entry, reply \in {"signature", "adopted", "refused", "expired"} :
       Answer(e, reply)
  \/ MergeAnswers

Next ==
  \/ StreamerStep
  \/ Crash
  \/ \E k \in Key : TransferCompleted(k)
  \/ \E i \in 1..Len(log.events), peers \in (SUBSET Submitters) \ {{}} :
       SubmitSignature(i, peers)

Spec == Init /\ [][Next]_vars

\* The streamer goes on as long as it can: calls end, by the client's timeout.
FairSpec == Spec /\ WF_vars(StreamerStep)

-----------------------------------------------------------------------------
\* Another validator's signature in a record is over an amount that was locked.
\* Every lock handler signs the truncated amount of a wide one, but no
\* validator takes that signature over from another, neither in an answer nor
\* in a submission: the API parses the text.  So no record gathers a quorum for
\* it.  Koinos amounts of 2^63 and more are hashed as others by all of them.
GatheredAmountsWereLocked ==
  \A k \in Key : store[k] # NoRecord /\ store[k].signers \ {Self} # {} =>
    \E i \in LocksOf(k) :
      LET amount == log.events[i].transfer.amount IN
        \/ store[k].hash.amount = amount
        \/ log.chain = "koinos" /\ amount >= Half

\* What other validators have signed of a record is computed from its text, by
\* the peers that get it next and by the request handler.  The one exception is
\* a second lock in an Ethereum transaction that replaces the text by an amount
\* that is truncated to the same 64 bits, and leaves the hash as it is.
GatheredTextsVerify ==
  \A k \in Key : store[k] # NoRecord /\ store[k].signers \ {Self} # {} =>
    \/ /\ SubmittedDecodes(log.chain, store[k].transfer)
       /\ store[k].hash = SubmittedHash(log.chain, store[k].transfer,
                                        store[k].hash.expiration)
    \/ /\ log.chain = "ethereum"
       /\ \E i, j \in LocksOf(k) :
            LET a == log.events[i].transfer.amount
                b == log.events[j].transfer.amount IN
              a # b /\ Uint64(a) = Uint64(b)

\* What a key's hash says, its expiration apart, stays as it is through later
\* locks, requests, submissions, panics and crashes; the text that the record
\* keeps beside it may be replaced.
RecordsKeepTheirTransfer ==
  [][\A k \in Key : store[k] # NoRecord /\ store[k].hash # Unknown =>
       /\ store'[k] # NoRecord /\ store'[k].hash # Unknown
       /\ store'[k].hash.expiration >= store[k].hash.expiration
       /\ store[k].hash =
            [store'[k].hash EXCEPT !.expiration = store[k].hash.expiration]]_vars

\* A request re-signs the transfer it names.  If it names none, or operation 1,
\* that is operation 1 whenever operation 1 has locked tokens, though operation
\* 3 of the same transaction may be another transfer.
RequestsHitTheirTransfer ==
  [][\A k \in Key :
       store[k] # NoRecord /\ store[k].hash # Unknown
         /\ store'[k].hash # store[k].hash =>
           LET r == NextEvent.transfer IN
             /\ k.tx = r.tx
             /\ \/ k.op = r.op
                \/ r.op = 0 /\ k.op = 1
                \/ r.op \in {0, 1} /\ k.op = 3
                     /\ [tx |-> k.tx, op |-> 1] \notin LockedKeys]_vars

\* The locks whose transfer shares its key with a lock of something else.
Collides(i) ==
  \E j \in LocksOf(KeyOf(log.events[i].transfer)) :
    LockHash(log.chain, log.events[j].transfer, log.events[j].time)
      # LockHash(log.chain, log.events[i].transfer, log.events[i].time)

\* A panic has its reason in the log: a token that is not configured, two locks
\* in one Ethereum transaction, or a request for a transfer whose amount is
\* wider than 64 bits or that has no relayer or recipient.  A lock that is
\* alone in its transaction panics only if a later request re-signs it: here
\* before a crash or a panic, or at a peer whose record was adopted.
PanicsAreExplained ==
  \A i \in panics :
    LET e == log.events[i] IN
      \/ /\ e.kind = "lock"
         /\ \/ ~LockDecodes(log.chain, e.transfer)
            \/ Collides(i)
            \/ \E m \in LocksOf(KeyOf(e.transfer)), j \in 1..Len(log.events) :
                 i < j /\ Resigns(m, j)
      \/ /\ e.kind = "request"
         /\ \E k \in LockedKeys : \E j \in LocksOf(k) :
              /\ k.tx = e.transfer.tx
              /\ ~RecordDecodes(log.chain, log.events[j].transfer)

\* The streamer gets to the end of its log, or one of its handlers panics: no
\* answer, failure or expiry of a broadcast holds it up.
StreamerGoesOn == <>(position = Len(log.events) \/ panics # {})

\* "it is set to always restart so if the validator crashes, it will start back
\* up": the streamer gets to the end of its log in the end.
StreamerStartsBackUp == <>(position = Len(log.events))
=============================================================================
