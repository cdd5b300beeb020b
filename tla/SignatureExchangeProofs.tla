---------------------- MODULE SignatureExchangeProofs ----------------------
(***************************************************************************)
(* The safety properties of SignatureExchange, for any set of validators,  *)
(* any source log and any number of restarts.                              *)
(***************************************************************************)
EXTENDS SignatureExchange, TLAPS

\* What the second half of a streamer's handler relies on: the record is still
\* there, with the hash that was broadcast, and n never answers itself.
BroadcastInv ==
  \A n \in Validators : broadcast[n] # Idle =>
    /\ position[n] < Len(SourceLog)
    /\ store[n] # NoTx
    /\ broadcast[n].tx.hash = store[n].hash
    /\ n \notin broadcast[n].waiting
    /\ broadcast[n].answers[n] = NoHash

\* A validator past the lock event has a record with its current signature.
LockedInv ==
  \A n \in Validators : HasLocked(n) =>
    /\ store[n] # NoTx
    /\ store[n].hash # NoHash
    /\ store[n].signatures[n] = store[n].hash

\* No restart skips an event.
CheckpointInv == \A n \in Validators : checkpoint[n] <= position[n]

\* Before the destination chain completes the transfer, no record and no
\* request says that it has, and every signature is over the hash it is listed
\* or awaited for.
OpenInv ==
  ~transferCompleted =>
    /\ \A n \in Validators : store[n] # NoTx =>
         store[n].status # "completed" /\ SignaturesVerify(store[n])
    /\ \A m \in requests : m.tx.status # "completed"
    /\ \A n, p \in Validators : broadcast[n] # Idle =>
         broadcast[n].answers[p] \in {NoHash, store[n].hash}

ExchangeInv ==
  TypeOK /\ BroadcastInv /\ LockedInv /\ CheckpointInv /\ OpenInv

-----------------------------------------------------------------------------
(* The operators on records.                                               *)

\* An overlay takes every value from one of its two maps.
LEMMA OverlayFacts ==
  ASSUME NEW a \in [Validators -> Nat], NEW b \in [Validators -> Nat]
  PROVE  /\ Overlay(a, b) \in [Validators -> Nat]
         /\ \A w \in Validators :
              /\ a[w] # NoHash => Overlay(a, b)[w] = a[w]
              /\ a[w] = NoHash => Overlay(a, b)[w] = b[w]
BY DEF Overlay

\* Comparing with a quorum changes the status at most.
LEMMA MarkSignedFacts ==
  ASSUME NEW tx \in Tx, NEW quorum
  PROVE  /\ MarkSigned(tx, quorum) \in Tx
         /\ MarkSigned(tx, quorum).hash = tx.hash
         /\ MarkSigned(tx, quorum).signatures = tx.signatures
         /\ MarkSigned(tx, quorum).surplus = tx.surplus
         /\ MarkSigned(tx, quorum).status \in {tx.status, "signed"}
BY DEF MarkSigned, Tx, Status

\* The map of no signatures, and the same with one signature put in.
LEMMA NoSignaturesFacts ==
  /\ NoSignatures \in [Validators -> Nat]
  /\ \A w \in Validators : NoSignatures[w] = NoHash
BY DEF NoSignatures, NoHash

\* A streamer's next event has a time, and its hash is not NoHash.
LEMMA EventFacts ==
  ASSUME TypeOK, NEW n \in Validators, position[n] < Len(SourceLog)
  PROVE  /\ EventTime(n) \in Nat
         /\ EventHash(n) \in Nat
         /\ EventHash(n) # NoHash
         /\ SourceLog[position[n] + 1].kind = "lock" <=> position[n] = 0
<1>1. position[n] + 1 \in 1..Len(SourceLog)
  BY SourceLogAssumption DEF TypeOK
<1>2. SourceLog[position[n] + 1] \in Event
  BY <1>1, SourceLogAssumption
<1> QED
  BY <1>1, <1>2, SourceLogAssumption, OptionsAssumption
  DEF EventTime, EventHash, Event, NoHash, TypeOK

\* What the first half of the lock handler stores.
LEMMA LockedTxFacts ==
  ASSUME TypeOK, NEW n \in Validators, position[n] < Len(SourceLog)
  PROVE  /\ LockedTx(n) \in Tx
         /\ LockedTx(n).hash = EventHash(n)
         /\ LockedTx(n).signatures[n] = EventHash(n)
         /\ store[n] = NoTx =>
              /\ LockedTx(n).status # "completed"
              /\ LockedTx(n).surplus = 0
              /\ \A w \in Validators \ {n} : LockedTx(n).signatures[w] = NoHash
         /\ store[n] # NoTx =>
              /\ LockedTx(n).status = "completed" <=> store[n].status = "completed"
              /\ LockedTx(n).status # "signed"
              /\ \A w \in Validators \ {n} :
                   LockedTx(n).signatures[w] = store[n].signatures[w]
<1>1. EventHash(n) \in Nat
  BY EventFacts
<1>2. CASE store[n] = NoTx
  BY <1>1, <1>2, NoSignaturesFacts DEF LockedTx, Tx, Status
<1>3. CASE store[n] # NoTx
  <2>1. store[n] \in Tx
    BY <1>3 DEF TypeOK
  <2> QED
    BY <1>1, <1>3, <2>1 DEF LockedTx, Tx, Status
<1> QED
  BY <1>2, <1>3

\* What the first half of a re-signing handler stores.
LEMMA ResignedTxFacts ==
  ASSUME TypeOK, NEW n \in Validators, position[n] < Len(SourceLog)
  PROVE  /\ ResignedTx(n) \in Tx
         /\ ResignedTx(n).status = "gathering_signatures"
         /\ ResignedTx(n).hash = EventHash(n)
         /\ ResignedTx(n).surplus = 0
         /\ ResignedTx(n).signatures[n] = EventHash(n)
         /\ \A w \in Validators \ {n} : ResignedTx(n).signatures[w] =
              IF store[n].signatures[w] = EventHash(n)
              THEN EventHash(n) ELSE NoHash
<1>1. EventHash(n) \in Nat
  BY EventFacts
<1> QED
  BY <1>1 DEF ResignedTx, Tx, Status, NoHash

\* Merging replaces the lists and keeps the rest of the record.
LEMMA ReplaceFacts ==
  ASSUME NEW tx \in Tx, NEW sigs \in [Validators -> Nat], NEW replaced,
         replaced = [tx EXCEPT !.signatures = sigs, !.surplus = 0]
  PROVE  replaced = [status |-> tx.status, hash |-> tx.hash,
                     signatures |-> sigs, surplus |-> 0]
BY DEF Tx

\* What the second half of a handler stores.
LEMMA MergedTxFacts ==
  ASSUME TypeOK, NEW n \in Validators, store[n] # NoTx, broadcast[n] # Idle
  PROVE  /\ MergedTx(n) \in Tx
         /\ MergedTx(n).status = store[n].status
         /\ MergedTx(n).hash = store[n].hash
         /\ MergedTx(n).surplus = 0
         /\ \A w \in Validators :
              /\ broadcast[n].answers[w] # NoHash =>
                   MergedTx(n).signatures[w] = broadcast[n].answers[w]
              /\ broadcast[n].answers[w] = NoHash =>
                   MergedTx(n).signatures[w] = store[n].signatures[w]
<1> DEFINE merged == Overlay(broadcast[n].answers, store[n].signatures)
<1>1. store[n] \in Tx /\ broadcast[n] \in Broadcast
  BY DEF TypeOK
<1>2. /\ store[n].signatures \in [Validators -> Nat]
      /\ broadcast[n].answers \in [Validators -> Nat]
  BY <1>1 DEF Tx, Broadcast
<1>3. MergedTx(n) = [store[n] EXCEPT !.signatures = merged, !.surplus = 0]
  BY DEF MergedTx
<1>4. merged \in [Validators -> Nat]
  BY <1>2, OverlayFacts
<1> HIDE DEF merged
<1>5. MergedTx(n) = [status |-> store[n].status, hash |-> store[n].hash,
                     signatures |-> merged, surplus |-> 0]
  BY <1>1, <1>3, <1>4, ReplaceFacts
<1>6. MergedTx(n) \in Tx
  BY <1>1, <1>4, <1>5 DEF Tx
<1> QED
  BY <1>2, <1>5, <1>6, OverlayFacts DEF merged

\* What the API stores when it merges a request.
LEMMA SubmittedTxFacts ==
  ASSUME TypeOK, NEW p \in Validators, store[p] # NoTx, NEW m \in requests
  PROVE  /\ SubmittedTx(p, m) \in Tx
         /\ SubmittedTx(p, m).status = store[p].status
         /\ SubmittedTx(p, m).hash = store[p].hash
         /\ SubmittedTx(p, m).surplus = 0
         /\ \A w \in Validators :
              /\ store[p].signatures[w] # NoHash =>
                   SubmittedTx(p, m).signatures[w] = store[p].signatures[w]
              /\ store[p].signatures[w] = NoHash =>
                   SubmittedTx(p, m).signatures[w] = m.tx.signatures[w]
<1> DEFINE merged == Overlay(store[p].signatures, m.tx.signatures)
<1>1. store[p] \in Tx /\ m.tx \in Tx
  BY DEF TypeOK
<1>2. /\ store[p].signatures \in [Validators -> Nat]
      /\ m.tx.signatures \in [Validators -> Nat]
  BY <1>1 DEF Tx
<1>3. SubmittedTx(p, m) = [store[p] EXCEPT !.signatures = merged, !.surplus = 0]
  BY DEF SubmittedTx
<1>4. merged \in [Validators -> Nat]
  BY <1>2, OverlayFacts
<1> HIDE DEF merged
<1>5. SubmittedTx(p, m) = [status |-> store[p].status, hash |-> store[p].hash,
                           signatures |-> merged, surplus |-> 0]
  BY <1>1, <1>3, <1>4, ReplaceFacts
<1>6. SubmittedTx(p, m) \in Tx
  BY <1>1, <1>4, <1>5 DEF Tx
<1> QED
  BY <1>2, <1>5, <1>6, OverlayFacts DEF merged

\* The broadcast a handler starts is well formed and n does not wait for itself.
LEMMA StartBroadcastFacts ==
  ASSUME TypeOK, NEW n \in Validators, NEW tx \in Tx, StartBroadcast(n, tx)
  PROVE  /\ broadcast' \in [Validators -> Broadcast \cup {Idle}]
         /\ broadcast'[n] # Idle
         /\ broadcast'[n].tx = tx
         /\ n \notin broadcast'[n].waiting
         /\ \A w \in Validators : broadcast'[n].answers[w] = NoHash
         /\ \A w \in Validators \ {n} : broadcast'[w] = broadcast[w]
         /\ requests' \subseteq [from : Validators, tx : Tx]
         /\ requests' = requests \cup {[from |-> n, tx |-> tx]}
<1> DEFINE started == [tx |-> tx, waiting |-> Validators \ {n},
                       answers |-> NoSignatures]
<1>1. started \in Broadcast
  BY NoSignaturesFacts DEF Broadcast
<1>2. broadcast' = [broadcast EXCEPT ![n] = started]
  BY DEF StartBroadcast
<1>3. broadcast'[n] = started
  BY <1>2 DEF TypeOK
<1>4. broadcast' \in [Validators -> Broadcast \cup {Idle}]
  BY <1>1, <1>2 DEF TypeOK
<1>5. started # Idle
  BY <1>1, SentinelsAssumption
<1>6. \A w \in Validators \ {n} : broadcast'[w] = broadcast[w]
  BY <1>2 DEF TypeOK
<1>7. requests' = requests \cup {[from |-> n, tx |-> tx]}
  BY DEF StartBroadcast
<1>8. requests' \subseteq [from : Validators, tx : Tx]
  BY <1>7 DEF TypeOK
<1> QED
  BY <1>3, <1>4, <1>5, <1>6, <1>7, <1>8, NoSignaturesFacts

-----------------------------------------------------------------------------
(* Each action preserves the inductive invariant.                          *)

LEMMA InitInv == Init => ExchangeInv
<1> SUFFICES ASSUME Init PROVE ExchangeInv
  OBVIOUS
<1> USE DEF Init
<1>1. TypeOK
  <2>1. Len(SourceLog) \in Nat /\ MaxRestarts \in Nat
    BY OptionsAssumption, SourceLogAssumption
  <2>2. 0 \in 0..Len(SourceLog) /\ 0 \in 0..MaxRestarts
    BY <2>1
  <2> QED
    BY <2>2 DEF TypeOK
<1>2. BroadcastInv /\ LockedInv /\ CheckpointInv /\ OpenInv
  BY DEF BroadcastInv, LockedInv, CheckpointInv, OpenInv, HasLocked
<1> QED
  BY <1>1, <1>2 DEF ExchangeInv

\* The first half of a handler: the record gets a hash that n signs, and other
\* signatures over that hash only.
LEMMA FirstHalfInv ==
  ASSUME ExchangeInv, NEW n \in Validators, NEW tx \in Tx,
         position[n] < Len(SourceLog), broadcast[n] = Idle,
         store' = [store EXCEPT ![n] = tx],
         StartBroadcast(n, tx),
         UNCHANGED <<position, checkpoint, transferCompleted, completionRead,
                     restarts>>,
         tx.hash # NoHash,
         tx.signatures[n] = tx.hash,
         ~transferCompleted => tx.status # "completed" /\ SignaturesVerify(tx)
  PROVE  ExchangeInv'
<1> USE DEF ExchangeInv
<1>0. TypeOK
  OBVIOUS
<1>1. /\ store' \in [Validators -> Tx \cup {NoTx}]
      /\ store'[n] = tx
      /\ tx # NoTx
      /\ \A w \in Validators \ {n} : store'[w] = store[w]
  BY <1>0, SentinelsAssumption DEF TypeOK
<1>2. TypeOK'
  BY <1>0, <1>1, StartBroadcastFacts DEF TypeOK
<1>3. BroadcastInv'
  BY <1>0, <1>1, StartBroadcastFacts DEF BroadcastInv
<1>4. LockedInv'
  BY <1>0, <1>1, StartBroadcastFacts DEF LockedInv, HasLocked
<1>5. CheckpointInv'
  BY DEF CheckpointInv
<1>6. OpenInv'
  BY <1>0, <1>1, StartBroadcastFacts DEF OpenInv, SignaturesVerify
<1> QED
  BY <1>2, <1>3, <1>4, <1>5, <1>6

LEMMA TokensLockedInv ==
  ASSUME ExchangeInv, NEW n \in Validators, TokensLocked(n)
  PROVE  ExchangeInv'
<1> DEFINE tx == LockedTx(n)
<1>1. /\ TypeOK
      /\ position[n] < Len(SourceLog)
      /\ broadcast[n] = Idle
      /\ ~HashMismatch(n)
  BY DEF ExchangeInv, TokensLocked, Reads
<1>2. /\ tx \in Tx
      /\ tx.hash # NoHash
      /\ tx.signatures[n] = tx.hash
  BY <1>1, LockedTxFacts, EventFacts
<1>3. ASSUME ~transferCompleted
      PROVE  tx.status # "completed" /\ SignaturesVerify(tx)
  <2>1. CASE store[n] = NoTx
    BY <1>1, <2>1, LockedTxFacts DEF SignaturesVerify
  <2>2. CASE store[n] # NoTx
    <3>1. /\ store[n].status # "completed"
          /\ SignaturesVerify(store[n])
          /\ store[n].hash \in {NoHash, EventHash(n)}
      BY <1>1, <1>3, <2>2 DEF ExchangeInv, OpenInv, HashMismatch
    <3> QED
      BY <1>1, <2>2, <3>1, LockedTxFacts DEF SignaturesVerify
  <2> QED
    BY <2>1, <2>2
<1> QED
  BY <1>1, <1>2, <1>3, FirstHalfInv DEF TokensLocked

LEMMA RequestNewSignaturesInv ==
  ASSUME ExchangeInv, NEW n \in Validators, NEW quorum,
         RequestNewSignatures(n, quorum)
  PROVE  ExchangeInv'
<1> DEFINE tx == MarkSigned(ResignedTx(n), quorum)
<1>1. /\ TypeOK
      /\ position[n] < Len(SourceLog)
      /\ broadcast[n] = Idle
  BY DEF ExchangeInv, RequestNewSignatures, Reads
<1>2. /\ tx \in Tx
      /\ tx.hash # NoHash
      /\ tx.signatures[n] = tx.hash
      /\ tx.status # "completed"
      /\ SignaturesVerify(tx)
  BY <1>1, ResignedTxFacts, MarkSignedFacts, EventFacts DEF SignaturesVerify
<1> QED
  BY <1>1, <1>2, FirstHalfInv DEF RequestNewSignatures

LEMMA IgnoreRequestInv ==
  ASSUME ExchangeInv, NEW n \in Validators, IgnoreRequest(n)
  PROVE  ExchangeInv'
<1> USE DEF ExchangeInv
<1>1. /\ TypeOK
      /\ position[n] \in Nat
      /\ position[n] < Len(SourceLog)
      /\ broadcast[n] = Idle
      /\ SourceLog[position[n] + 1].kind = "request"
      /\ position' = [position EXCEPT ![n] = @ + 1]
      /\ UNCHANGED <<store, checkpoint, broadcast, requests,
                     transferCompleted, completionRead, restarts>>
  BY DEF IgnoreRequest, Reads, TypeOK
<1>2. position[n] # 0
  BY <1>1, EventFacts
<1>3. position'[n] = position[n] + 1 /\ position'[n] \in 0..Len(SourceLog)
  BY <1>1, SourceLogAssumption DEF TypeOK
<1>4. \A w \in Validators \ {n} : position'[w] = position[w]
  BY <1>1 DEF TypeOK
<1>5. TypeOK'
  BY <1>1, <1>3 DEF TypeOK
<1>6. BroadcastInv'
  BY <1>1, <1>4 DEF BroadcastInv
<1>7. LockedInv'
  <2> SUFFICES ASSUME NEW w \in Validators, HasLocked(w)' PROVE HasLocked(w)
    BY <1>1 DEF LockedInv
  <2> QED
    BY <1>1, <1>2, <1>4 DEF HasLocked, TypeOK
<1>8. CheckpointInv'
  BY <1>1, <1>3, <1>4 DEF CheckpointInv, TypeOK
<1>9. OpenInv'
  BY <1>1 DEF OpenInv
<1> QED
  BY <1>5, <1>6, <1>7, <1>8, <1>9

LEMMA PeerFailsInv ==
  ASSUME ExchangeInv, NEW n \in Validators, NEW p \in Validators,
         PeerFails(n, p)
  PROVE  ExchangeInv'
<1> USE DEF ExchangeInv
<1> DEFINE left == [broadcast[n] EXCEPT !.waiting = @ \ {p}]
<1>1. /\ TypeOK
      /\ broadcast[n] \in Broadcast
      /\ broadcast[n] # Idle
      /\ broadcast' = [broadcast EXCEPT ![n] = left]
      /\ UNCHANGED <<store, position, checkpoint, requests,
                     transferCompleted, completionRead, restarts>>
  BY DEF PeerFails, TypeOK
<1>2. /\ left \in Broadcast
      /\ left.tx = broadcast[n].tx
      /\ left.answers = broadcast[n].answers
      /\ n \notin broadcast[n].waiting => n \notin left.waiting
  BY <1>1 DEF Broadcast
<1> HIDE DEF left
<1>3. /\ broadcast'[n] = left
      /\ \A w \in Validators \ {n} : broadcast'[w] = broadcast[w]
      /\ broadcast' \in [Validators -> Broadcast \cup {Idle}]
  BY <1>1, <1>2 DEF TypeOK
<1>4. TypeOK'
  BY <1>1, <1>3 DEF TypeOK
<1>5. BroadcastInv'
  BY <1>1, <1>2, <1>3 DEF BroadcastInv
<1>6. LockedInv'
  BY <1>1, <1>3 DEF LockedInv, HasLocked
<1>7. CheckpointInv'
  BY <1>1 DEF CheckpointInv
<1>8. OpenInv'
  BY <1>1, <1>2, <1>3 DEF OpenInv
<1> QED
  BY <1>4, <1>5, <1>6, <1>7, <1>8

LEMMA MergeAnswersInv ==
  ASSUME ExchangeInv, NEW n \in Validators, NEW kind, NEW quorum,
         MergeAnswers(n, kind, quorum)
  PROVE  ExchangeInv'
<1> USE DEF ExchangeInv
<1> DEFINE tx == IF store[n].status = "completed" THEN MergedTx(n)
                 ELSE MarkSigned(MergedTx(n), quorum)
<1>1. /\ TypeOK
      /\ broadcast[n] # Idle
      /\ store' = [store EXCEPT ![n] = tx]
      /\ broadcast' = [broadcast EXCEPT ![n] = Idle]
      /\ position' = [position EXCEPT ![n] = @ + 1]
      /\ UNCHANGED <<checkpoint, requests, transferCompleted, completionRead,
                     restarts>>
  BY DEF MergeAnswers
<1>2. /\ store[n] # NoTx
      /\ position[n] < Len(SourceLog)
      /\ broadcast[n].answers[n] = NoHash
      /\ store[n].hash # NoHash
      /\ store[n].signatures[n] = store[n].hash
  BY <1>1 DEF BroadcastInv, LockedInv, HasLocked
<1>3. /\ tx \in Tx
      /\ tx.hash = store[n].hash
      /\ tx.signatures = MergedTx(n).signatures
      /\ tx.status \in {store[n].status, "signed"}
  BY <1>1, <1>2, MergedTxFacts, MarkSignedFacts
<1>4. tx.signatures[n] = tx.hash
  BY <1>1, <1>2, <1>3, MergedTxFacts
<1>5. ASSUME ~transferCompleted
      PROVE  tx.status # "completed" /\ SignaturesVerify(tx)
  <2>1. /\ store[n].status # "completed"
        /\ SignaturesVerify(store[n])
        /\ \A w \in Validators :
             broadcast[n].answers[w] \in {NoHash, store[n].hash}
    BY <1>1, <1>2, <1>5 DEF OpenInv
  <2> QED
    BY <1>1, <1>2, <1>3, <2>1, MergedTxFacts DEF SignaturesVerify
<1> HIDE DEF tx
<1>6. /\ store' \in [Validators -> Tx \cup {NoTx}]
      /\ store'[n] = tx
      /\ tx # NoTx
      /\ \A w \in Validators \ {n} : store'[w] = store[w]
  BY <1>1, <1>3, SentinelsAssumption DEF TypeOK
<1>7. /\ position'[n] = position[n] + 1
      /\ position'[n] \in 0..Len(SourceLog)
      /\ \A w \in Validators \ {n} : position'[w] = position[w]
  BY <1>1, <1>2, SourceLogAssumption DEF TypeOK
<1>8. /\ broadcast'[n] = Idle
      /\ \A w \in Validators \ {n} : broadcast'[w] = broadcast[w]
  BY <1>1 DEF TypeOK
<1>9. TypeOK'
  BY <1>1, <1>6, <1>7 DEF TypeOK
<1>10. BroadcastInv'
  BY <1>6, <1>7, <1>8 DEF BroadcastInv
<1>11. LockedInv'
  BY <1>2, <1>3, <1>4, <1>6, <1>7, <1>8 DEF LockedInv, HasLocked
<1>12. CheckpointInv'
  BY <1>1, <1>7 DEF CheckpointInv, TypeOK
<1>13. OpenInv'
  BY <1>1, <1>5, <1>6, <1>8 DEF OpenInv
<1> QED
  BY <1>9, <1>10, <1>11, <1>12, <1>13

\* An answer removes p from the peers m's sender waits for, and gives it p's
\* signature if the sender still waits for an answer to this record.
LEMMA AnswerFacts ==
  ASSUME TypeOK, NEW p \in Validators, NEW m \in requests, NEW sig \in Nat,
         Answer(p, m, sig)
  PROVE  /\ broadcast' \in [Validators -> Broadcast \cup {Idle}]
         /\ \A n \in Validators : broadcast'[n] = Idle <=> broadcast[n] = Idle
         /\ \A n \in Validators : broadcast[n] # Idle =>
              /\ broadcast'[n].tx = broadcast[n].tx
              /\ broadcast'[n].waiting \subseteq broadcast[n].waiting
              /\ \A w \in Validators :
                   \/ broadcast'[n].answers[w] = broadcast[n].answers[w]
                   \/ /\ n = m.from
                      /\ w = p
                      /\ p \in broadcast[n].waiting
                      /\ broadcast[n].tx = m.tx
                      /\ broadcast'[n].answers[w] = sig
<1>1. CASE UNCHANGED broadcast
  BY <1>1 DEF TypeOK
<1>2. CASE /\ Awaits(m.from, p, m.tx)
           /\ broadcast' = [broadcast EXCEPT
                ![m.from].waiting = @ \ {p}, ![m.from].answers[p] = sig]
  <2> DEFINE f == m.from
             answered == [broadcast[f] EXCEPT !.waiting = @ \ {p},
                                              !.answers[p] = sig]
  <2>1. /\ f \in Validators
        /\ broadcast[f] \in Broadcast
        /\ broadcast[f].tx = m.tx
        /\ p \in broadcast[f].waiting
    BY <1>2 DEF TypeOK, Awaits
  <2> HIDE DEF f
  <2>2. answered = [tx      |-> broadcast[f].tx,
                    waiting |-> broadcast[f].waiting \ {p},
                    answers |-> [broadcast[f].answers EXCEPT ![p] = sig]]
    <3>1. PICK tx \in Tx, waiting \in SUBSET Validators,
               answers \in [Validators -> Nat] :
            broadcast[f] = [tx |-> tx, waiting |-> waiting, answers |-> answers]
      BY <2>1 DEF Broadcast
    <3>2. broadcast[f].tx = tx /\ broadcast[f].waiting = waiting
          /\ broadcast[f].answers = answers
      BY <3>1
    <3>3. answered = [broadcast[f] EXCEPT
            !.waiting = waiting \ {p}, !.answers = [answers EXCEPT ![p] = sig]]
      BY <3>2
    <3> HIDE DEF answered
    <3> QED
      BY <2>1, <3>2, <3>3 DEF Broadcast
  <2>3. /\ broadcast[f].tx \in Tx
        /\ broadcast[f].waiting \ {p} \in SUBSET Validators
        /\ [broadcast[f].answers EXCEPT ![p] = sig] \in [Validators -> Nat]
    BY <2>1 DEF Broadcast
  <2>4. answered \in Broadcast
    BY <2>2, <2>3 DEF Broadcast
  <2>5. broadcast' = [broadcast EXCEPT ![f] = answered]
    BY <1>2, <2>1 DEF TypeOK, f
  <2>6. /\ answered.tx = broadcast[f].tx
        /\ answered.waiting \subseteq broadcast[f].waiting
        /\ \A w \in Validators : answered.answers[w] =
             IF w = p THEN sig ELSE broadcast[f].answers[w]
    BY <2>1, <2>2 DEF Broadcast
  <2> HIDE DEF answered
  <2>7. /\ broadcast'[f] = answered
        /\ \A w \in Validators \ {f} : broadcast'[w] = broadcast[w]
        /\ broadcast' \in [Validators -> Broadcast \cup {Idle}]
    BY <2>1, <2>4, <2>5 DEF TypeOK
  <2>8. answered # Idle /\ broadcast[f] # Idle
    BY <2>1, <2>4, SentinelsAssumption
  <2> QED
    BY <2>1, <2>6, <2>7, <2>8 DEF f
<1> QED
  BY <1>1, <1>2 DEF Answer

\* A call of the API: p's record keeps its hash and p's own signature, and the
\* signature p answers with is over the hash the sender broadcast.
LEMMA ApiInv ==
  ASSUME ExchangeInv, NEW p \in Validators, NEW m \in requests, p # m.from,
         NEW sig \in Nat, Answer(p, m, sig),
         store' \in [Validators -> Tx \cup {NoTx}],
         \A w \in Validators \ {p} : store'[w] = store[w],
         store[p] # NoTx =>
           /\ store'[p] # NoTx
           /\ store'[p].hash = store[p].hash
           /\ store[p].signatures[p] # NoHash =>
                store'[p].signatures[p] = store[p].signatures[p],
         ~transferCompleted /\ store'[p] # NoTx =>
           store'[p].status # "completed" /\ SignaturesVerify(store'[p]),
         ~transferCompleted => sig \in {NoHash, m.tx.hash},
         UNCHANGED <<position, checkpoint, requests, transferCompleted,
                     completionRead, restarts>>
  PROVE  ExchangeInv'
<1> USE DEF ExchangeInv
<1>0. TypeOK /\ m.from \in Validators
  BY DEF TypeOK
<1>1. TypeOK'
  BY <1>0, AnswerFacts DEF TypeOK
<1>2. \A n \in Validators : store[n] # NoTx =>
        store'[n] # NoTx /\ store'[n].hash = store[n].hash
  OBVIOUS
<1>3. BroadcastInv'
  <2> SUFFICES ASSUME NEW n \in Validators, broadcast'[n] # Idle
               PROVE  /\ position[n] < Len(SourceLog)
                      /\ store'[n] # NoTx
                      /\ broadcast'[n].tx.hash = store'[n].hash
                      /\ n \notin broadcast'[n].waiting
                      /\ broadcast'[n].answers[n] = NoHash
    BY DEF BroadcastInv
  <2>1. /\ broadcast[n] # Idle
        /\ position[n] < Len(SourceLog)
        /\ store[n] # NoTx
        /\ broadcast[n].tx.hash = store[n].hash
        /\ n \notin broadcast[n].waiting
        /\ broadcast[n].answers[n] = NoHash
    BY <1>0, AnswerFacts DEF BroadcastInv
  <2>2. /\ broadcast'[n].tx = broadcast[n].tx
        /\ broadcast'[n].waiting \subseteq broadcast[n].waiting
        /\ \/ broadcast'[n].answers[n] = broadcast[n].answers[n]
           \/ n = m.from /\ n = p
    BY <1>0, <2>1, AnswerFacts
  <2> QED
    BY <1>2, <2>1, <2>2
<1>4. LockedInv'
  <2> SUFFICES ASSUME NEW n \in Validators, HasLocked(n)'
               PROVE  /\ store'[n] # NoTx
                      /\ store'[n].hash # NoHash
                      /\ store'[n].signatures[n] = store'[n].hash
    BY DEF LockedInv
  <2>1. HasLocked(n)
    BY <1>0, AnswerFacts DEF HasLocked
  <2> QED
    BY <1>2, <2>1 DEF LockedInv
<1>5. CheckpointInv'
  BY DEF CheckpointInv
<1>6. OpenInv'
  <2> SUFFICES ASSUME ~transferCompleted
               PROVE  /\ \A n \in Validators : store'[n] # NoTx =>
                           /\ store'[n].status # "completed"
                           /\ SignaturesVerify(store'[n])
                      /\ \A r \in requests : r.tx.status # "completed"
                      /\ \A n, w \in Validators : broadcast'[n] # Idle =>
                           broadcast'[n].answers[w] \in {NoHash, store'[n].hash}
    BY DEF OpenInv, SignaturesVerify
  <2>1. \A n \in Validators : store'[n] # NoTx =>
          store'[n].status # "completed" /\ SignaturesVerify(store'[n])
    BY DEF OpenInv
  <2>2. ASSUME NEW n \in Validators, NEW w \in Validators, broadcast'[n] # Idle
        PROVE  broadcast'[n].answers[w] \in {NoHash, store'[n].hash}
    <3>1. /\ broadcast[n] # Idle
          /\ store[n] # NoTx
          /\ broadcast[n].tx.hash = store[n].hash
          /\ broadcast[n].answers[w] \in {NoHash, store[n].hash}
      BY <1>0, <2>2, AnswerFacts DEF BroadcastInv, OpenInv
    <3>2. \/ broadcast'[n].answers[w] = broadcast[n].answers[w]
          \/ broadcast[n].tx = m.tx /\ broadcast'[n].answers[w] = sig
      BY <1>0, <3>1, AnswerFacts
    <3> QED
      BY <1>2, <3>1, <3>2
  <2> QED
    BY <2>1, <2>2 DEF OpenInv
<1> QED
  BY <1>1, <1>3, <1>4, <1>5, <1>6

LEMMA SubmitSignatureInv ==
  ASSUME ExchangeInv, NEW p \in Validators, NEW m \in requests,
         SubmitSignature(p, m)
  PROVE  ExchangeInv'
<1>1. /\ TypeOK
      /\ p # m.from
      /\ m.tx \in Tx
      /\ NoHash \in Nat
      /\ UNCHANGED <<position, checkpoint, requests, transferCompleted,
                     completionRead, restarts>>
  BY DEF ExchangeInv, TypeOK, SubmitSignature, NoHash
<1>2. store \in [Validators -> Tx \cup {NoTx}]
  BY <1>1 DEF TypeOK
<1>3. ~transferCompleted => \A n \in Validators : store[n] # NoTx =>
        store[n].status # "completed" /\ SignaturesVerify(store[n])
  BY DEF ExchangeInv, OpenInv
<1>4. CASE SubmitRefused(p, m)
  BY <1>1, <1>2, <1>3, <1>4, ApiInv DEF SubmitRefused
<1>5. CASE SubmitToCompleted(p, m)
  <2>1. store[p].signatures[p] \in Nat
    BY <1>2, <1>5 DEF SubmitToCompleted, Tx
  <2> QED
    BY <1>1, <1>2, <1>3, <1>5, <2>1, ApiInv DEF SubmitToCompleted
<1>6. CASE SubmitMerged(p, m)
  <2> DEFINE tx == MarkSigned(SubmittedTx(p, m), SubmitQuorum(Entries))
  <2>1. /\ store[p] # NoTx
        /\ store[p].status # "completed"
        /\ store[p].hash = m.tx.hash
        /\ SignaturesVerify(m.tx)
        /\ Answer(p, m, store[p].signatures[p])
        /\ store' = [store EXCEPT ![p] = tx]
    BY <1>6 DEF SubmitMerged
  <2>2. store[p].signatures[p] \in Nat
    BY <1>2, <2>1 DEF Tx
  <2>3. /\ tx \in Tx
        /\ tx.hash = store[p].hash
        /\ tx.signatures = SubmittedTx(p, m).signatures
        /\ tx.status # "completed"
    BY <1>1, <2>1, SubmittedTxFacts, MarkSignedFacts
  <2> HIDE DEF tx
  <2>4. /\ store' \in [Validators -> Tx \cup {NoTx}]
        /\ store'[p] = tx
        /\ tx # NoTx
        /\ \A w \in Validators \ {p} : store'[w] = store[w]
    BY <1>2, <2>1, <2>3, SentinelsAssumption
  <2>5. store[p].signatures[p] # NoHash =>
          store'[p].signatures[p] = store[p].signatures[p]
    BY <1>1, <2>1, <2>3, <2>4, SubmittedTxFacts
  <2>6. ASSUME ~transferCompleted
        PROVE  /\ SignaturesVerify(tx)
               /\ store[p].signatures[p] \in {NoHash, m.tx.hash}
    <3>1. SignaturesVerify(store[p])
      BY <1>3, <2>1, <2>6
    <3> QED
      BY <1>1, <2>1, <2>3, <3>1, SubmittedTxFacts DEF SignaturesVerify
  <2> QED
    BY <1>1, <2>1, <2>2, <2>3, <2>4, <2>5, <2>6, ApiInv
<1>7. CASE SubmitAdopted(p, m)
  <2> DEFINE tx == MarkSigned(m.tx, SubmitQuorum(Entries))
  <2>1. /\ store[p] = NoTx
        /\ SignaturesVerify(m.tx)
        /\ Answer(p, m, NoHash)
        /\ store' = [store EXCEPT ![p] = tx]
    BY <1>7 DEF SubmitAdopted
  <2>2. /\ tx \in Tx
        /\ tx.hash = m.tx.hash
        /\ tx.signatures = m.tx.signatures
        /\ tx.status \in {m.tx.status, "signed"}
    BY <1>1, MarkSignedFacts
  <2>3. SignaturesVerify(tx)
    BY <2>1, <2>2 DEF SignaturesVerify
  <2> HIDE DEF tx
  <2>4. ~transferCompleted => tx.status # "completed"
    BY <2>2 DEF ExchangeInv, OpenInv
  <2>5. /\ store' \in [Validators -> Tx \cup {NoTx}]
        /\ store'[p] = tx
        /\ \A w \in Validators \ {p} : store'[w] = store[w]
    BY <1>2, <2>1, <2>2
  <2> QED
    BY <1>1, <2>1, <2>3, <2>4, <2>5, ApiInv
<1> QED
  BY <1>4, <1>5, <1>6, <1>7 DEF SubmitSignature

LEMMA CompleteTransferInv ==
  ASSUME ExchangeInv, CompleteTransfer
  PROVE  ExchangeInv'
<1> USE DEF ExchangeInv, CompleteTransfer
<1>1. TypeOK'
  BY DEF TypeOK
<1>2. BroadcastInv'
  BY DEF BroadcastInv
<1>3. LockedInv' /\ CheckpointInv' /\ OpenInv'
  BY DEF LockedInv, HasLocked, CheckpointInv, OpenInv
<1> QED
  BY <1>1, <1>2, <1>3

LEMMA TransferCompletedEventInv ==
  ASSUME ExchangeInv, NEW n \in Validators, TransferCompletedEvent(n)
  PROVE  ExchangeInv'
<1> USE DEF ExchangeInv
<1> DEFINE tx == IF store[n] = NoTx
                 THEN [status |-> "completed", hash |-> NoHash,
                       signatures |-> NoSignatures, surplus |-> 0]
                 ELSE [store[n] EXCEPT !.status = "completed"]
<1>1. /\ TypeOK
      /\ transferCompleted
      /\ completionRead' = [completionRead EXCEPT ![n] = TRUE]
      /\ store' = [store EXCEPT ![n] = tx]
      /\ UNCHANGED <<position, checkpoint, broadcast, requests,
                     transferCompleted, restarts>>
  BY DEF TransferCompletedEvent
<1>2. CASE store[n] = NoTx
  <2>1. tx \in Tx
    BY <1>2, NoSignaturesFacts DEF Tx, Status, NoHash
  <2>2. ~HasLocked(n)
    BY <1>2 DEF LockedInv
  <2> QED
    BY <2>1, <2>2, <1>1, <1>2, SentinelsAssumption
    DEF TypeOK, BroadcastInv, LockedInv, HasLocked, CheckpointInv, OpenInv
<1>3. CASE store[n] # NoTx
  <2>1. store[n] \in Tx
    BY <1>1, <1>3 DEF TypeOK
  <2>2. /\ tx \in Tx
        /\ tx.hash = store[n].hash
        /\ tx.signatures = store[n].signatures
    BY <1>3, <2>1 DEF Tx, Status
  <2> HIDE DEF tx
  <2>3. /\ store' \in [Validators -> Tx \cup {NoTx}]
        /\ store'[n] = tx
        /\ tx # NoTx
        /\ \A w \in Validators \ {n} : store'[w] = store[w]
    BY <1>1, <2>2, SentinelsAssumption DEF TypeOK
  <2>4. TypeOK'
    BY <1>1, <2>3 DEF TypeOK
  <2>5. BroadcastInv'
    BY <1>1, <1>3, <2>2, <2>3 DEF BroadcastInv
  <2>6. LockedInv'
    BY <1>1, <1>3, <2>2, <2>3 DEF LockedInv, HasLocked
  <2>7. CheckpointInv' /\ OpenInv'
    BY <1>1 DEF CheckpointInv, OpenInv
  <2> QED
    BY <2>4, <2>5, <2>6, <2>7
<1> QED
  BY <1>2, <1>3

\* A start resumes at or before the event the process had come to.
LEMMA StartAtInv ==
  ASSUME ExchangeInv, NEW n \in Validators, NEW c \in 0..position[n],
         StartAt(n, c), restarts' \in 0..MaxRestarts
  PROVE  ExchangeInv'
<1> USE DEF ExchangeInv
<1>0. PICK reset \in {FALSE, MayReset} :
        /\ position' = [position EXCEPT ![n] = IF reset THEN 0 ELSE c]
        /\ checkpoint' = [checkpoint EXCEPT ![n] = IF reset THEN 0 ELSE c]
        /\ store' = IF reset THEN [store EXCEPT ![n] = NoTx] ELSE store
        /\ \E read \in {FALSE, completionRead[n] /\ ~reset} :
             completionRead' = [completionRead EXCEPT ![n] = read]
  BY DEF StartAt
<1> DEFINE resume == IF reset THEN 0 ELSE c
<1>1. /\ TypeOK
      /\ position' = [position EXCEPT ![n] = resume]
      /\ checkpoint' = [checkpoint EXCEPT ![n] = resume]
      /\ store' = IF reset THEN [store EXCEPT ![n] = NoTx] ELSE store
      /\ broadcast' = [broadcast EXCEPT ![n] = Idle]
      /\ UNCHANGED <<requests, transferCompleted>>
  BY <1>0 DEF StartAt
<1>2. PICK read \in BOOLEAN :
        completionRead' = [completionRead EXCEPT ![n] = read]
  <2>1. reset \in BOOLEAN /\ completionRead[n] \in BOOLEAN
    BY <1>1, OptionsAssumption DEF TypeOK
  <2> QED
    BY <1>0, <2>1
<1>3. /\ position[n] \in 0..Len(SourceLog)
      /\ Len(SourceLog) \in Nat
  BY <1>1, SourceLogAssumption DEF TypeOK
<1>4. /\ resume \in 0..Len(SourceLog)
      /\ resume <= position[n]
      /\ reset => resume = 0
  BY <1>3
<1> HIDE DEF resume
<1>5. /\ position'[n] = resume /\ checkpoint'[n] = resume
      /\ broadcast'[n] = Idle
      /\ \A w \in Validators \ {n} :
           /\ position'[w] = position[w]
           /\ checkpoint'[w] = checkpoint[w]
           /\ broadcast'[w] = broadcast[w]
           /\ store'[w] = store[w]
      /\ store'[n] = IF reset THEN NoTx ELSE store[n]
  BY <1>1 DEF TypeOK
<1>6. TypeOK'
  BY <1>1, <1>2, <1>4 DEF TypeOK
<1>7. BroadcastInv'
  BY <1>5 DEF BroadcastInv
<1>8. LockedInv'
  <2>1. ASSUME HasLocked(n)' PROVE HasLocked(n) /\ ~reset
    BY <1>3, <1>4, <1>5, <2>1 DEF HasLocked
  <2>2. \A w \in Validators \ {n} : HasLocked(w)' => HasLocked(w)
    BY <1>5 DEF HasLocked
  <2> QED
    BY <1>5, <2>1, <2>2 DEF LockedInv
<1>9. CheckpointInv'
  BY <1>4, <1>5 DEF CheckpointInv
<1>10. OpenInv'
  BY <1>1, <1>5 DEF OpenInv
<1> QED
  BY <1>6, <1>7, <1>8, <1>9, <1>10

LEMMA ProcessStepInv ==
  ASSUME ExchangeInv, NEW n \in Validators, ProcessStep(n)
  PROVE  ExchangeInv'
<1>1. /\ position[n] \in Nat
      /\ checkpoint[n] \in 0..position[n]
      /\ restarts \in 0..MaxRestarts
      /\ MaxRestarts \in Nat
  BY OptionsAssumption DEF ExchangeInv, TypeOK, CheckpointInv
<1>2. CountRestart => restarts' \in 0..MaxRestarts
  BY <1>1 DEF CountRestart
<1>3. CASE Crash(n)
  BY <1>1, <1>2, <1>3, StartAtInv DEF Crash
<1>4. CASE PanicOnHashMismatch(n)
  BY <1>1, <1>4, StartAtInv DEF PanicOnHashMismatch
<1>5. CASE GracefulRestart(n)
  <2>1. PICK c \in {0, position[n]} : StartAt(n, c)
    BY <1>5 DEF GracefulRestart
  <2>2. c \in 0..position[n]
    BY <1>1, <2>1
  <2> QED
    BY <1>2, <1>5, <2>1, <2>2, StartAtInv DEF GracefulRestart
<1> QED
  BY <1>3, <1>4, <1>5 DEF ProcessStep

-----------------------------------------------------------------------------
(* The inductive invariant and what follows from it.                       *)

\* The steps of the system, without the types of the transfer.
LEMMA StepCases ==
  ASSUME Next
  PROVE  \/ \E n \in Validators : TokensLocked(n)
         \/ \E n \in Validators :
              \E quorum \in {SubmitQuorum(Entries), RequestQuorum(Entries)} :
                RequestNewSignatures(n, quorum)
         \/ \E n \in Validators : IgnoreRequest(n)
         \/ \E n \in Validators : \E kind \in {"lock", "request"} :
              \E quorum \in {LockQuorum(Entries), SubmitQuorum(Entries),
                             RequestQuorum(Entries)} :
                MergeAnswers(n, kind, quorum)
         \/ \E n \in Validators : TransferCompletedEvent(n)
         \/ \E n, p \in Validators : PeerFails(n, p)
         \/ \E p \in Validators : \E m \in requests : SubmitSignature(p, m)
         \/ CompleteTransfer
         \/ \E n \in Validators : ProcessStep(n)
BY DEF Next, SourceStep, DestinationStep, ApiStep,
       ProcessEthereumTokensLockedEvent, ProcessKoinosTokensLockedEvent,
       ProcessEthereumRequestNewSignaturesEvent,
       ProcessRequestNewSignaturesEvent, MergeEthereumLock, MergeKoinosLock,
       MergeEthereumRequest, MergeKoinosRequest,
       ProcessKoinosTransferCompletedEvent,
       ProcessEthereumTransferCompletedEvent,
       SubmitEthereumSignature, SubmitKoinosSignature

LEMMA NextInv == ExchangeInv /\ [Next]_vars => ExchangeInv'
<1> SUFFICES ASSUME ExchangeInv, [Next]_vars PROVE ExchangeInv'
  OBVIOUS
<1>1. CASE Next
  BY <1>1, StepCases, TokensLockedInv, RequestNewSignaturesInv,
     IgnoreRequestInv, PeerFailsInv, MergeAnswersInv, SubmitSignatureInv,
     CompleteTransferInv, TransferCompletedEventInv, ProcessStepInv
<1>2. CASE UNCHANGED vars
  BY <1>2 DEF vars, ExchangeInv, TypeOK, BroadcastInv, LockedInv, HasLocked,
     CheckpointInv, OpenInv, SignaturesVerify
<1> QED
  BY <1>1, <1>2

\* The inductive invariant holds in every reachable state.
THEOREM ExchangeInvariant == Spec => []ExchangeInv
BY InitInv, NextInv, PTL DEF Spec

\* Records, broadcasts, requests and positions are well formed.
THEOREM TypeCorrect == Spec => []TypeOK
<1>1. ExchangeInv => TypeOK
  BY DEF ExchangeInv
<1> QED
  BY <1>1, ExchangeInvariant, PTL

\* Until the transfer is completed, no record of any validator lists a
\* signature over another hash than its own.
THEOREM NoForeignHash == Spec => []SignaturesMatchHash
<1>1. ExchangeInv => SignaturesMatchHash
  BY DEF ExchangeInv, OpenInv, SignaturesMatchHash
<1> QED
  BY <1>1, ExchangeInvariant, PTL

\* A validator that has read the lock event always lists its own signature over
\* the current hash, through re-signings, merges, replays and restarts.
THEOREM OwnSignatureListed == Spec => []OwnSignatureIsCurrent
<1>1. ExchangeInv => OwnSignatureIsCurrent
  BY DEF ExchangeInv, LockedInv, OwnSignatureIsCurrent
<1> QED
  BY <1>1, ExchangeInvariant, PTL

-----------------------------------------------------------------------------
(* What a step may do to a record.                                         *)

\* The record of n is wiped, or it stays completed if it was, never goes back
\* to an older hash, and loses no signature over a hash that it keeps.
RecordMoves(n) ==
  \/ MayReset /\ store'[n] = NoTx
  \/ /\ store'[n] # NoTx
     /\ store[n].status = "completed" => store'[n].status = "completed"
     /\ store'[n].hash >= store[n].hash
     /\ ~transferCompleted /\ store'[n].hash = store[n].hash =>
          ValidSigners(store[n]) \subseteq ValidSigners(store'[n])

LEMMA RecordStays ==
  ASSUME TypeOK, NEW n \in Validators, store[n] # NoTx, store'[n] = store[n]
  PROVE  RecordMoves(n)
<1>1. store[n].hash \in Nat
  BY DEF TypeOK, Tx
<1> QED
  BY <1>1 DEF RecordMoves

LEMMA TokensLockedMoves ==
  ASSUME ExchangeInv, NEW n \in Validators, TokensLocked(n), store[n] # NoTx
  PROVE  RecordMoves(n)
<1>1. /\ TypeOK
      /\ position[n] < Len(SourceLog)
      /\ store[n].hash \in {NoHash, EventHash(n)}
      /\ store'[n] = LockedTx(n)
  BY DEF ExchangeInv, TypeOK, TokensLocked, Reads, HashMismatch
<1>2. store[n].hash \in Nat /\ EventHash(n) \in Nat
  BY <1>1, EventFacts DEF TypeOK, Tx
<1>3. LockedTx(n) # NoTx
  BY <1>1, LockedTxFacts, SentinelsAssumption
<1>4. LockedTx(n).hash >= store[n].hash
  BY <1>1, <1>2, LockedTxFacts DEF NoHash
<1>5. store[n].status = "completed" => LockedTx(n).status = "completed"
  BY <1>1, LockedTxFacts
<1>6. LockedTx(n).hash = store[n].hash =>
        ValidSigners(store[n]) \subseteq ValidSigners(LockedTx(n))
  BY <1>1, LockedTxFacts DEF ValidSigners, Signers
<1> QED
  BY <1>1, <1>3, <1>4, <1>5, <1>6 DEF RecordMoves

LEMMA RequestNewSignaturesMoves ==
  ASSUME ExchangeInv, NEW n \in Validators, NEW quorum,
         RequestNewSignatures(n, quorum)
  PROVE  RecordMoves(n)
<1> DEFINE tx == MarkSigned(ResignedTx(n), quorum)
<1>1. /\ TypeOK
      /\ position[n] < Len(SourceLog)
      /\ store[n] # NoTx
      /\ store[n].status # "completed"
      /\ EventTime(n) >= store[n].hash + SignaturesExpiration
      /\ store'[n] = tx
  BY DEF ExchangeInv, TypeOK, RequestNewSignatures, Reads, RequestAllowed
<1>2. /\ store[n].hash \in Nat
      /\ EventTime(n) \in Nat
      /\ SignaturesExpiration \in Nat \ {0}
      /\ EventHash(n) = EventTime(n) + SignaturesExpiration
  BY <1>1, EventFacts, OptionsAssumption DEF TypeOK, Tx, EventHash
<1>3. tx \in Tx /\ tx.hash = EventHash(n) /\ tx # NoTx
  BY <1>1, ResignedTxFacts, MarkSignedFacts, SentinelsAssumption
<1>4. EventHash(n) > store[n].hash
  BY <1>1, <1>2
<1> QED
  BY <1>1, <1>2, <1>3, <1>4 DEF RecordMoves

LEMMA MergeAnswersMoves ==
  ASSUME ExchangeInv, NEW n \in Validators, NEW kind, NEW quorum,
         MergeAnswers(n, kind, quorum)
  PROVE  RecordMoves(n)
<1> DEFINE tx == IF store[n].status = "completed" THEN MergedTx(n)
                 ELSE MarkSigned(MergedTx(n), quorum)
<1>1. /\ TypeOK
      /\ broadcast[n] # Idle
      /\ store[n] # NoTx
      /\ store'[n] = tx
  BY DEF ExchangeInv, TypeOK, BroadcastInv, MergeAnswers
<1>2. /\ tx \in Tx
      /\ tx.hash = store[n].hash
      /\ tx.signatures = MergedTx(n).signatures
      /\ store[n].status = "completed" => tx.status = "completed"
  BY <1>1, MergedTxFacts, MarkSignedFacts
<1> HIDE DEF tx
<1>3. tx # NoTx /\ store[n].hash \in Nat
  BY <1>1, <1>2, SentinelsAssumption DEF TypeOK, Tx
<1>4. ASSUME ~transferCompleted
      PROVE  ValidSigners(store[n]) \subseteq ValidSigners(tx)
  <2>1. \A w \in Validators :
          broadcast[n].answers[w] \in {NoHash, store[n].hash}
    BY <1>1, <1>4 DEF ExchangeInv, OpenInv
  <2> QED
    BY <1>1, <1>2, <2>1, MergedTxFacts DEF ValidSigners, Signers
<1> QED
  BY <1>1, <1>2, <1>3, <1>4 DEF RecordMoves

LEMMA SubmitSignatureMoves ==
  ASSUME ExchangeInv, NEW p \in Validators, NEW m \in requests,
         SubmitSignature(p, m), store[p] # NoTx
  PROVE  RecordMoves(p)
<1>1. TypeOK /\ store[p] \in Tx
  BY DEF ExchangeInv, TypeOK
<1>2. CASE SubmitRefused(p, m) \/ SubmitToCompleted(p, m)
  BY <1>1, <1>2, RecordStays DEF SubmitRefused, SubmitToCompleted
<1>3. CASE SubmitMerged(p, m)
  <2> DEFINE tx == MarkSigned(SubmittedTx(p, m), SubmitQuorum(Entries))
  <2>1. store[p].status # "completed" /\ store'[p] = tx
    BY <1>1, <1>3 DEF SubmitMerged, TypeOK
  <2>2. /\ tx \in Tx
        /\ tx.hash = store[p].hash
        /\ tx.signatures = SubmittedTx(p, m).signatures
    BY <1>1, SubmittedTxFacts, MarkSignedFacts
  <2> HIDE DEF tx
  <2>3. tx # NoTx /\ store[p].hash \in Nat
    BY <1>1, <2>2, SentinelsAssumption DEF Tx
  <2>4. ValidSigners(store[p]) \subseteq ValidSigners(tx)
    BY <1>1, <2>2, SubmittedTxFacts DEF ValidSigners, Signers
  <2> QED
    BY <2>1, <2>2, <2>3, <2>4 DEF RecordMoves
<1>4. CASE SubmitAdopted(p, m)
  BY <1>4 DEF SubmitAdopted
<1> QED
  BY <1>2, <1>3, <1>4 DEF SubmitSignature

LEMMA TransferCompletedEventMoves ==
  ASSUME ExchangeInv, NEW n \in Validators, TransferCompletedEvent(n),
         store[n] # NoTx
  PROVE  RecordMoves(n)
<1> DEFINE tx == [store[n] EXCEPT !.status = "completed"]
<1>1. /\ store[n] \in Tx
      /\ transferCompleted
      /\ store'[n] = tx
  BY DEF ExchangeInv, TypeOK, TransferCompletedEvent
<1>2. /\ tx \in Tx
      /\ tx.hash = store[n].hash
      /\ tx.status = "completed"
      /\ store[n].hash \in Nat
  BY <1>1 DEF Tx, Status
<1> HIDE DEF tx
<1>3. tx # NoTx
  BY <1>2, SentinelsAssumption
<1> QED
  BY <1>1, <1>2, <1>3 DEF RecordMoves

LEMMA ProcessStepMoves ==
  ASSUME ExchangeInv, NEW n \in Validators, ProcessStep(n), store[n] # NoTx
  PROVE  RecordMoves(n)
<1>1. TypeOK
  BY DEF ExchangeInv
<1>2. PICK reset \in {FALSE, MayReset} :
        store' = IF reset THEN [store EXCEPT ![n] = NoTx] ELSE store
  BY DEF ProcessStep, Crash, GracefulRestart, PanicOnHashMismatch, StartAt
<1>3. CASE reset
  BY <1>1, <1>2, <1>3 DEF TypeOK, RecordMoves
<1>4. CASE ~reset
  BY <1>1, <1>2, <1>4, RecordStays
<1> QED
  BY <1>3, <1>4

\* An action changes the record of its own validator only.
LEMMA OtherRecordsStay ==
  ASSUME TypeOK, NEW n \in Validators, NEW w \in Validators \ {n},
         \/ TokensLocked(n)
         \/ \E quorum : RequestNewSignatures(n, quorum)
         \/ \E kind, quorum : MergeAnswers(n, kind, quorum)
         \/ \E m \in requests : SubmitSignature(n, m)
         \/ TransferCompletedEvent(n)
         \/ ProcessStep(n)
  PROVE  store'[w] = store[w]
BY DEF TypeOK, TokensLocked, RequestNewSignatures, MergeAnswers,
       SubmitSignature, SubmitRefused, SubmitToCompleted, SubmitMerged,
       SubmitAdopted, TransferCompletedEvent, ProcessStep, Crash,
       GracefulRestart, PanicOnHashMismatch, StartAt

LEMMA EveryRecordMoves ==
  ASSUME ExchangeInv, Next, NEW w \in Validators, store[w] # NoTx
  PROVE  RecordMoves(w)
<1>1. TypeOK
  BY DEF ExchangeInv
<1>2. CASE UNCHANGED store
  BY <1>1, <1>2, RecordStays
<1>3. CASE ~UNCHANGED store
  <2>1. PICK n \in Validators :
          \/ TokensLocked(n)
          \/ \E quorum : RequestNewSignatures(n, quorum)
          \/ \E kind, quorum : MergeAnswers(n, kind, quorum)
          \/ \E m \in requests : SubmitSignature(n, m)
          \/ TransferCompletedEvent(n)
          \/ ProcessStep(n)
    BY <1>3, StepCases DEF IgnoreRequest, PeerFails, CompleteTransfer
  <2>2. CASE w # n
    BY <1>1, <2>1, <2>2, OtherRecordsStay, RecordStays
  <2>3. CASE w = n
    BY <2>1, <2>3, TokensLockedMoves, RequestNewSignaturesMoves,
       MergeAnswersMoves, SubmitSignatureMoves, TransferCompletedEventMoves,
       ProcessStepMoves
  <2> QED
    BY <2>2, <2>3
<1> QED
  BY <1>2, <1>3

\* No late request, replayed event or merge makes a completed record
\* uncompleted.
THEOREM CompletedStaysCompleted == Spec => CompletedIsFinal
<1>1. ExchangeInv /\ [Next]_vars =>
        [\A n \in Validators :
           store[n] # NoTx /\ store[n].status = "completed" =>
             \/ store'[n] # NoTx /\ store'[n].status = "completed"
             \/ MayReset /\ store'[n] = NoTx]_vars
  BY EveryRecordMoves DEF RecordMoves
<1> QED
  BY <1>1, ExchangeInvariant, PTL DEF Spec, CompletedIsFinal

\* No late request, replayed event or merge brings an older hash back.
THEOREM HashGrows == Spec => HashNeverGoesBack
<1>1. ExchangeInv /\ [Next]_vars =>
        [\A n \in Validators : store[n] # NoTx =>
           \/ store'[n] # NoTx /\ store'[n].hash >= store[n].hash
           \/ MayReset /\ store'[n] = NoTx]_vars
  BY EveryRecordMoves DEF RecordMoves
<1> QED
  BY <1>1, ExchangeInvariant, PTL DEF Spec, HashNeverGoesBack

\* No signature over the current hash is lost between the two halves of a
\* handler, or anywhere else.
THEOREM NoSignatureIsLost == Spec => SignaturesAreKept
<1>1. ExchangeInv /\ [Next]_vars =>
        [~transferCompleted =>
           \A n, w \in Validators :
             (store[n] # NoTx /\ w \in ValidSigners(store[n])) =>
               \/ MayReset /\ store'[n] = NoTx
               \/ store'[n].hash > store[n].hash
               \/ w \in ValidSigners(store'[n])]_vars
  <2> SUFFICES ASSUME ExchangeInv, Next, ~transferCompleted,
                      NEW n \in Validators, NEW w \in Validators,
                      store[n] # NoTx, w \in ValidSigners(store[n])
               PROVE  \/ MayReset /\ store'[n] = NoTx
                      \/ store'[n].hash > store[n].hash
                      \/ w \in ValidSigners(store'[n])
    OBVIOUS
  <2>1. RecordMoves(n)
    BY EveryRecordMoves
  <2>2. ~(MayReset /\ store'[n] = NoTx) =>
          store[n].hash \in Nat /\ store'[n].hash \in Nat
    BY <2>1, NextInv DEF RecordMoves, ExchangeInv, TypeOK, Tx
  <2> QED
    BY <2>1, <2>2 DEF RecordMoves
<1> QED
  BY <1>1, ExchangeInvariant, PTL DEF Spec, SignaturesAreKept

-----------------------------------------------------------------------------
(* SignatureExchange implements TransferLedger.                            *)

LedgerOf == [n \in Validators |-> EntryOf(n)]

\* The mapped entries are entries of the ledger.
LEMMA LedgerTypes == TypeOK => LedgerOf \in [Validators -> Ledger!Entry]
<1> SUFFICES ASSUME TypeOK, NEW n \in Validators
             PROVE  EntryOf(n) \in Ledger!Entry
  BY DEF LedgerOf
<1>1. CASE store[n] = NoTx
  BY <1>1 DEF EntryOf, NoHash, Ledger!Entry
<1>2. CASE store[n] # NoTx
  <2>1. store[n].hash \in Nat
    BY <1>2 DEF TypeOK, Tx
  <2>2. ValidSigners(store[n]) \subseteq Validators
    BY DEF ValidSigners, Signers
  <2>3. (store[n].status = "completed") \in BOOLEAN
    OBVIOUS
  <2> QED
    BY <1>2, <2>1, <2>2, <2>3 DEF EntryOf, Ledger!Entry
<1> QED
  BY <1>1, <1>2

LEMMA LedgerTypesNext == TypeOK' => (LedgerOf \in [Validators -> Ledger!Entry])'
BY LedgerTypes, PTL

\* Unless the destination chain completes the transfer, a step changes one
\* validator's record at most.
LEMMA OneRecordChanges ==
  ASSUME ExchangeInv, Next, ~CompleteTransfer
  PROVE  /\ UNCHANGED transferCompleted
         /\ \/ UNCHANGED store
            \/ \E n \in Validators : \A w \in Validators \ {n} :
                 store'[w] = store[w]
<1>1. TypeOK
  BY DEF ExchangeInv
<1>2. UNCHANGED transferCompleted
  BY StepCases DEF TokensLocked, RequestNewSignatures, IgnoreRequest,
     MergeAnswers, TransferCompletedEvent, PeerFails, SubmitSignature,
     ProcessStep, Crash, GracefulRestart, PanicOnHashMismatch, StartAt
<1>3. ASSUME ~UNCHANGED store
      PROVE  \E n \in Validators :
               \/ TokensLocked(n)
               \/ \E quorum : RequestNewSignatures(n, quorum)
               \/ \E kind, quorum : MergeAnswers(n, kind, quorum)
               \/ \E m \in requests : SubmitSignature(n, m)
               \/ TransferCompletedEvent(n)
               \/ ProcessStep(n)
  BY <1>3, StepCases DEF IgnoreRequest, PeerFails, CompleteTransfer
<1> QED
  BY <1>1, <1>2, <1>3, OtherRecordsStay

\* A record that appears, stays or moves is a step of the ledger's entry.
LEMMA EntryMoves ==
  ASSUME ExchangeInv, Next, ~CompleteTransfer, NEW n \in Validators
  PROVE  \/ MayReset /\ EntryOf(n)' = Ledger!Blank
         \/ /\ EntryOf(n)'.hash >= EntryOf(n).hash
            /\ EntryOf(n).completed => EntryOf(n)'.completed
            /\ EntryOf(n)'.completed => transferCompleted
            /\ ~transferCompleted /\ EntryOf(n)'.hash = EntryOf(n).hash =>
                 EntryOf(n).signers \subseteq EntryOf(n)'.signers
<1>1. ExchangeInv' /\ UNCHANGED transferCompleted
  BY NextInv, OneRecordChanges
<1>2. CASE store'[n] = NoTx /\ store[n] = NoTx
  BY <1>2 DEF EntryOf, NoHash
<1>3. CASE store'[n] = NoTx /\ store[n] # NoTx
  BY <1>3, EveryRecordMoves DEF RecordMoves, EntryOf, NoHash, Ledger!Blank
<1>4. CASE store'[n] # NoTx
  <2>1. store'[n].hash \in Nat
    BY <1>1, <1>4 DEF ExchangeInv, TypeOK, Tx
  <2>2. store'[n].status = "completed" => transferCompleted
    BY <1>1, <1>4 DEF ExchangeInv, OpenInv
  <2>3. /\ EntryOf(n)'.hash = store'[n].hash
        /\ EntryOf(n)'.signers = ValidSigners(store'[n])
        /\ EntryOf(n)'.completed <=> store'[n].status = "completed"
    BY <1>4 DEF EntryOf, ValidSigners, Signers
  <2>4. CASE store[n] = NoTx
    <3>1. /\ EntryOf(n).hash = 0
          /\ EntryOf(n).signers = {}
          /\ ~EntryOf(n).completed
      BY <2>4 DEF EntryOf, NoHash
    <3> QED
      BY <2>1, <2>2, <2>3, <3>1
  <2>5. CASE store[n] # NoTx
    <3>1. /\ EntryOf(n).hash = store[n].hash
          /\ EntryOf(n).signers = ValidSigners(store[n])
          /\ EntryOf(n).completed <=> store[n].status = "completed"
      BY <2>5 DEF EntryOf
    <3>2. RecordMoves(n)
      BY <2>5, EveryRecordMoves
    <3> HIDE DEF EntryOf
    <3> QED
      BY <1>4, <2>2, <2>3, <3>1, <3>2 DEF RecordMoves
  <2> QED
    BY <2>4, <2>5
<1> QED
  BY <1>2, <1>3, <1>4

\* Every step of the exchange is a step of the ledger, or leaves it alone.
LEMMA StepKeepsLedger ==
  ExchangeInv /\ [Next]_vars =>
    [Ledger!Next]_<<LedgerOf, transferCompleted>>
<1> SUFFICES ASSUME ExchangeInv, [Next]_vars
             PROVE  [Ledger!Next]_<<LedgerOf, transferCompleted>>
  OBVIOUS
<1>1. ExchangeInv'
  BY NextInv
<1>2. LedgerOf' \in [Validators -> Ledger!Entry]
  BY <1>1, LedgerTypesNext DEF ExchangeInv
<1>3. CASE UNCHANGED vars
  BY <1>3 DEF vars, LedgerOf, EntryOf, ValidSigners, Signers
<1>4. CASE CompleteTransfer
  <2>1. UNCHANGED LedgerOf
    BY <1>4 DEF CompleteTransfer, LedgerOf, EntryOf, ValidSigners, Signers
  <2>2. PICK n \in Validators :
          /\ store[n] # NoTx
          /\ Cardinality(ValidSigners(store[n])) >= SubmitQuorum(Entries)
    BY <1>4 DEF CompleteTransfer
  <2>3. /\ LedgerOf[n].signers = ValidSigners(store[n])
        /\ ValidSigners(store[n]) \subseteq Validators
    BY <2>2 DEF LedgerOf, EntryOf, ValidSigners, Signers
  <2>4. Ledger!CompleteTransfer
    BY <1>4, <2>1, <2>2, <2>3
    DEF CompleteTransfer, Ledger!CompleteTransfer, LedgerOf
  <2> QED
    BY <2>4 DEF Ledger!Next
<1>5. CASE Next /\ ~CompleteTransfer
  <2>1. UNCHANGED transferCompleted
    BY <1>5, OneRecordChanges
  <2>2. CASE UNCHANGED store
    BY <2>1, <2>2 DEF LedgerOf, EntryOf, ValidSigners, Signers
  <2>3. CASE ~UNCHANGED store
    <3>1. PICK n \in Validators :
            \A w \in Validators \ {n} : store'[w] = store[w]
      BY <1>5, <2>3, OneRecordChanges
    <3>2. \A w \in Validators \ {n} : LedgerOf'[w] = LedgerOf[w]
      BY <3>1 DEF LedgerOf, EntryOf, ValidSigners, Signers
    <3>3. Ledger!OnlyEntryOf(n)
      BY <1>2, <3>2 DEF Ledger!OnlyEntryOf, LedgerOf
    <3>4. LedgerOf[n] = EntryOf(n) /\ LedgerOf'[n] = EntryOf(n)'
      BY DEF LedgerOf
    <3>5. Ledger!Gather(n) \/ Ledger!Wipe(n)
      BY <1>5, <2>1, <3>3, <3>4, EntryMoves
      DEF Ledger!Gather, Ledger!Wipe, Ledger!KeepsSigners, LedgerOf
    <3> QED
      BY <3>5 DEF Ledger!Next
  <2> QED
    BY <2>2, <2>3
<1> QED
  BY <1>3, <1>4, <1>5

\* The signature exchange keeps the promise of the ledger.
THEOREM ExchangeKeepsLedger == Spec => KeepsLedger
<1>1. Init => Ledger!Init
  BY DEF Init, Ledger!Init, EntryOf, NoHash, Ledger!Blank
<1>2. ExchangeInv /\ [Next]_vars =>
        [Ledger!Next]_<<[n \in Validators |-> EntryOf(n)], transferCompleted>>
  BY StepKeepsLedger DEF LedgerOf
<1> QED
  BY <1>1, <1>2, ExchangeInvariant, PTL DEF Spec, KeepsLedger, Ledger!Spec
=============================================================================
