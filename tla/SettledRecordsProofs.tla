------------------------ MODULE SettledRecordsProofs ------------------------
(***************************************************************************)
(* What one call per peer and hash is enough for.  As long as no call      *)
(* fails and no validator restarts, validators that have handled the same  *)
(* events list each other's signatures, and no lock event meets a record   *)
(* with another hash: the safety part of EverySignatureSpreads and         *)
(* StreamersCatchUp, for any number of validators and any source log.  And *)
(* all but one report the transfer signed, which is more than              *)
(* SomebodyReportsSigned asks for.                                         *)
(***************************************************************************)
EXTENDS SignedIsBackedProofs

-----------------------------------------------------------------------------
(* The inductive invariant.                                                *)

\* The hash of the lock event.
FirstHash == SourceLog[1].time + SignaturesExpiration

\* Who has sent a record has signed it, and what it lists verifies.
SentInv ==
  \A m \in requests :
    /\ HasLocked(m.from)
    /\ SignaturesVerify(m.tx)
    /\ m.tx.signatures[m.from] = m.tx.hash

\* A record that comes before the lock event has the hash of that event.
UnlockedInv ==
  \A n \in Validators : store[n] # NoTx /\ ~HasLocked(n) =>
    /\ SignaturesVerify(store[n])
    /\ store[n].hash \in {NoHash, FirstHash}

\* A validator is done with the lock event only when all peers have a record.
KnownInv ==
  /\ \A n \in Validators : position[n] > 0 =>
       \A w \in Validators : store[w] # NoTx
  /\ \A n \in Validators : broadcast[n] # Idle =>
       \A w \in Validators \ broadcast[n].waiting : store[w] # NoTx
  /\ \A m \in requests : m.tx.hash # FirstHash =>
       \A w \in Validators : store[w] # NoTx

\* n lists and awaits no signature of w over another hash than its own.
ListsCurrent(n, w) ==
  /\ store[n].signatures[w] \in {NoHash, store[n].hash}
  /\ broadcast[n] # Idle =>
       broadcast[n].answers[w] \in {NoHash, store[n].hash}

\* w's signature is in n's record or on its way: w has still to call n, or n
\* to call w, or n has w's answer and has not merged it yet.
Reaches(w, n) ==
  \/ store[n].signatures[w] = store[n].hash
  \/ broadcast[w] # Idle /\ n \in broadcast[w].waiting
  \/ /\ broadcast[n] # Idle
     /\ \/ w \in broadcast[n].waiting
        \/ broadcast[n].answers[w] = store[n].hash

SpreadInv ==
  \A n, w \in Validators : Signing(n) /\ Signing(w) =>
    /\ ListsCurrent(n, w)
    /\ n # w /\ store[n].hash = store[w].hash => Reaches(w, n)

Quiet == SentInv /\ UnlockedInv /\ KnownInv /\ SpreadInv

QuietInv == ~NetworkFails /\ restarts = 0 => Quiet

-----------------------------------------------------------------------------
(* Facts about one step.                                                   *)

\* An answer takes p off the sender's list only with p's answer to what the
\* sender has broadcast.
LEMMA AnswerOutcome ==
  ASSUME TypeOK, NEW p \in Validators, NEW m \in requests, NEW sig \in Nat,
         Answer(p, m, sig)
  PROVE  \A n \in Validators : broadcast[n] # Idle =>
           /\ broadcast[n].waiting \ {p} \subseteq broadcast'[n].waiting
           /\ p \in broadcast[n].waiting /\ p \notin broadcast'[n].waiting =>
                /\ n = m.from
                /\ broadcast[n].tx = m.tx
                /\ broadcast'[n].answers[p] = sig
<1>1. CASE UNCHANGED broadcast
  BY <1>1
<1>2. CASE /\ Awaits(m.from, p, m.tx)
           /\ broadcast' = [broadcast EXCEPT
                ![m.from].waiting = @ \ {p}, ![m.from].answers[p] = sig]
  <2> DEFINE f == m.from
  <2>1. /\ f \in Validators
        /\ broadcast[f] \in Broadcast
        /\ broadcast[f].tx = m.tx
    BY <1>2 DEF TypeOK, Awaits
  <2> HIDE DEF f
  <2>2. PICK tx \in Tx, waiting \in SUBSET Validators,
             answers \in [Validators -> Nat] :
          broadcast[f] = [tx |-> tx, waiting |-> waiting, answers |-> answers]
    BY <2>1 DEF Broadcast
  <2>3. broadcast' = [broadcast EXCEPT ![f] =
          [tx |-> tx, waiting |-> waiting \ {p},
           answers |-> [answers EXCEPT ![p] = sig]]]
    <3> DEFINE before == [broadcast[f] EXCEPT !.waiting = @ \ {p},
                                              !.answers[p] = sig]
               after == [tx |-> tx, waiting |-> waiting \ {p},
                         answers |-> [answers EXCEPT ![p] = sig]]
    <3>1. broadcast' = [broadcast EXCEPT ![f] = before]
      BY <1>2, <2>1 DEF TypeOK, f
    <3>2. before = [broadcast[f] EXCEPT !.waiting = waiting \ {p},
                                        !.answers = [answers EXCEPT ![p] = sig]]
      BY <2>2
    <3> HIDE DEF before
    <3>3. before = after
      <4>1. broadcast[f].tx = tx
        BY <2>2
      <4> QED
        BY <2>1, <3>2, <4>1 DEF Broadcast
    <3> QED
      BY <3>1, <3>3
  <2>4. broadcast'[f] = [tx |-> tx, waiting |-> waiting \ {p},
                         answers |-> [answers EXCEPT ![p] = sig]]
    BY <2>1, <2>3 DEF TypeOK
  <2>5. /\ broadcast'[f].waiting = waiting \ {p}
        /\ broadcast'[f].answers[p] = sig
    BY <2>4
  <2>6. \A n \in Validators \ {f} : broadcast'[n] = broadcast[n]
    BY <2>1, <2>3 DEF TypeOK
  <2> QED
    BY <2>1, <2>2, <2>5, <2>6 DEF f
<1> QED
  BY <1>1, <1>2 DEF Answer

\* No signature of a validator that has not locked is listed or awaited.
LEMMA UnlockedUnsigned ==
  ASSUME SentInv, GenuineInv, NEW n \in Validators, NEW w \in Validators,
         ~HasLocked(w)
  PROVE  /\ store[n] # NoTx => store[n].signatures[w] = NoHash
         /\ broadcast[n] # Idle => broadcast[n].answers[w] = NoHash
<1>1. \A h : ~SignedOnce(w, h)
  BY DEF SentInv, SignedOnce
<1> QED
  BY <1>1 DEF GenuineInv, Genuine

\* The lock handler does not panic.
LEMMA NoMismatch ==
  ASSUME TypeOK, UnlockedInv, NEW n \in Validators, Reads(n, "lock")
  PROVE  ~HashMismatch(n)
<1>1. position[n] = 0 /\ broadcast[n] = Idle
  <2>1. position[n] < Len(SourceLog) /\ broadcast[n] = Idle
    BY DEF Reads
  <2> QED
    BY <2>1, EventFacts DEF Reads
<1>2. ~HasLocked(n) /\ EventHash(n) = FirstHash
  BY <1>1 DEF HasLocked, EventHash, EventTime, FirstHash
<1> QED
  BY <1>2 DEF HashMismatch, UnlockedInv

-----------------------------------------------------------------------------
(* Each action preserves the invariant.                                    *)

\* The first half of a handler: every peer has still to be called.
LEMMA FirstHalfQuiet ==
  ASSUME ExchangeInv, GenuineInv, Quiet, NEW n \in Validators, NEW tx \in Tx,
         store' = [store EXCEPT ![n] = tx],
         StartBroadcast(n, tx),
         UNCHANGED position,
         SignaturesVerify(tx),
         tx.signatures[n] = tx.hash,
         \/ ~HasLocked(n) /\ tx.hash = FirstHash
         \/ position[n] > 0 /\ Signing(n)
  PROVE  Quiet'
<1>1. TypeOK
  BY DEF ExchangeInv
<1>2. /\ store'[n] = tx
      /\ tx # NoTx
      /\ \A w \in Validators \ {n} : store'[w] = store[w]
  BY <1>1, SentinelsAssumption DEF TypeOK
<1>3. /\ broadcast'[n] # Idle
      /\ broadcast'[n].waiting = Validators \ {n}
      /\ \A w \in Validators : broadcast'[n].answers[w] = NoHash
      /\ \A w \in Validators \ {n} : broadcast'[w] = broadcast[w]
      /\ requests' = requests \cup {[from |-> n, tx |-> tx]}
  <2>1. broadcast'[n] = [tx |-> tx, waiting |-> Validators \ {n},
                         answers |-> NoSignatures]
    BY <1>1 DEF StartBroadcast, TypeOK
  <2> QED
    BY <1>1, <2>1, StartBroadcastFacts
<1>4. /\ HasLocked(n)'
      /\ \A w \in Validators \ {n} : HasLocked(w)' = HasLocked(w)
  BY <1>3 DEF HasLocked
<1>5. \A w \in Validators : store[w] # NoTx => store'[w] # NoTx
  BY <1>2
<1>6. SentInv'
  <2>1. ASSUME NEW m \in requests'
        PROVE  /\ HasLocked(m.from)'
               /\ SignaturesVerify(m.tx)
               /\ m.tx.signatures[m.from] = m.tx.hash
    <3>1. CASE m \in requests
      <4>1. m.from \in Validators
        BY <1>1, <3>1 DEF TypeOK
      <4> QED
        BY <1>4, <3>1, <4>1 DEF Quiet, SentInv
    <3>2. CASE m = [from |-> n, tx |-> tx]
      BY <1>4, <3>2
    <3> QED
      BY <1>3, <3>1, <3>2
  <2> QED
    BY <2>1 DEF SentInv, SignaturesVerify
<1>7. UnlockedInv'
  <2>1. ASSUME NEW w \in Validators, store'[w] # NoTx, ~HasLocked(w)'
        PROVE  /\ SignaturesVerify(store'[w])
               /\ store'[w].hash \in {NoHash, FirstHash}
    <3>1. w # n /\ ~HasLocked(w) /\ store'[w] = store[w]
      BY <1>2, <1>4, <2>1
    <3> QED
      BY <2>1, <3>1 DEF Quiet, UnlockedInv
  <2> QED
    BY <2>1 DEF UnlockedInv, SignaturesVerify
<1>8. KnownInv'
  <2>1. ASSUME NEW v \in Validators, position'[v] > 0, NEW w \in Validators
        PROVE  store'[w] # NoTx
    BY <1>5, <2>1 DEF Quiet, KnownInv
  <2>2. ASSUME NEW v \in Validators, broadcast'[v] # Idle,
               NEW w \in Validators \ broadcast'[v].waiting
        PROVE  store'[w] # NoTx
    BY <1>2, <1>3, <1>5, <2>2 DEF Quiet, KnownInv
  <2>3. ASSUME NEW m \in requests', m.tx.hash # FirstHash, NEW w \in Validators
        PROVE  store'[w] # NoTx
    <3>1. CASE m \in requests
      BY <1>5, <2>3, <3>1 DEF Quiet, KnownInv
    <3>2. CASE m = [from |-> n, tx |-> tx]
      <4>1. position[n] > 0
        BY <2>3, <3>2
      <4> QED
        BY <1>5, <4>1 DEF Quiet, KnownInv
    <3> QED
      BY <1>3, <3>1, <3>2
  <2> QED
    BY <2>1, <2>2, <2>3 DEF KnownInv
<1>9. SpreadInv'
  <2>1. \A w \in Validators \ {n} : Signing(w)' = Signing(w)
    BY <1>2, <1>4 DEF Signing
  <2>2. ASSUME NEW w \in Validators PROVE ListsCurrent(n, w)'
    BY <1>2, <1>3, <2>2 DEF ListsCurrent, SignaturesVerify
  <2>3. ASSUME NEW w \in Validators \ {n}, Signing(w)
        PROVE  ListsCurrent(w, n)'
    <3>1. store[w] # NoTx
      BY <2>3 DEF ExchangeInv, LockedInv, Signing
    <3>2. CASE ~HasLocked(n)
      BY <1>2, <1>3, <3>1, <3>2, UnlockedUnsigned DEF ListsCurrent, Quiet
    <3>3. CASE Signing(n)
      <4>1. ListsCurrent(w, n)
        BY <2>3, <3>3 DEF Quiet, SpreadInv
      <4> QED
        BY <1>2, <1>3, <4>1 DEF ListsCurrent
    <3> QED
      BY <3>2, <3>3
  <2>4. \A w \in Validators \ {n} : Reaches(w, n)' /\ Reaches(n, w)'
    BY <1>3 DEF Reaches
  <2>5. ASSUME NEW v \in Validators \ {n}, NEW w \in Validators \ {n},
               Signing(v), Signing(w)
        PROVE  /\ ListsCurrent(v, w)'
               /\ v # w /\ store'[v].hash = store'[w].hash => Reaches(w, v)'
    BY <1>2, <1>3, <2>5 DEF Quiet, SpreadInv, ListsCurrent, Reaches
  <2> QED
    BY <2>1, <2>2, <2>3, <2>4, <2>5 DEF SpreadInv
<1> QED
  BY <1>6, <1>7, <1>8, <1>9 DEF Quiet

LEMMA TokensLockedQuiet ==
  ASSUME ExchangeInv, GenuineInv, Quiet, NEW n \in Validators, TokensLocked(n)
  PROVE  Quiet'
<1> DEFINE tx == LockedTx(n)
<1>1. /\ TypeOK
      /\ position[n] < Len(SourceLog)
      /\ SourceLog[position[n] + 1].kind = "lock"
      /\ broadcast[n] = Idle
      /\ ~HashMismatch(n)
      /\ store' = [store EXCEPT ![n] = tx]
      /\ StartBroadcast(n, tx)
      /\ UNCHANGED position
  BY DEF ExchangeInv, TokensLocked, Reads
<1>2. position[n] = 0 /\ EventHash(n) = FirstHash
  BY <1>1, EventFacts DEF EventHash, EventTime, FirstHash
<1>3. ~HasLocked(n)
  BY <1>1, <1>2 DEF HasLocked
<1>4. tx \in Tx /\ tx.hash = FirstHash /\ tx.signatures[n] = tx.hash
  BY <1>1, <1>2, LockedTxFacts
<1>5. SignaturesVerify(tx)
  <2>1. CASE store[n] = NoTx
    BY <1>1, <1>4, <2>1, LockedTxFacts DEF SignaturesVerify
  <2>2. CASE store[n] # NoTx
    <3>1. store[n].hash \in {NoHash, FirstHash} /\ SignaturesVerify(store[n])
      BY <1>3, <2>2 DEF Quiet, UnlockedInv
    <3> QED
      BY <1>1, <1>4, <2>2, <3>1, LockedTxFacts DEF SignaturesVerify
  <2> QED
    BY <2>1, <2>2
<1> HIDE DEF tx
<1> QED
  BY <1>1, <1>3, <1>4, <1>5, FirstHalfQuiet

LEMMA RequestNewSignaturesQuiet ==
  ASSUME ExchangeInv, GenuineInv, Quiet, NEW n \in Validators, NEW quorum,
         RequestNewSignatures(n, quorum)
  PROVE  Quiet'
<1> DEFINE tx == MarkSigned(ResignedTx(n), quorum)
<1>1. /\ TypeOK
      /\ position[n] < Len(SourceLog)
      /\ SourceLog[position[n] + 1].kind = "request"
      /\ store[n].status # "completed"
      /\ store' = [store EXCEPT ![n] = tx]
      /\ StartBroadcast(n, tx)
      /\ UNCHANGED position
  BY DEF ExchangeInv, RequestNewSignatures, Reads, RequestAllowed
<1>2. position[n] > 0
  BY <1>1, EventFacts DEF TypeOK
<1>3. /\ tx \in Tx
      /\ tx.signatures[n] = tx.hash
      /\ SignaturesVerify(tx)
  BY <1>1, ResignedTxFacts, MarkSignedFacts DEF SignaturesVerify
<1>4. Signing(n)
  BY <1>1, <1>2 DEF Signing, HasLocked
<1> HIDE DEF tx
<1> QED
  BY <1>1, <1>2, <1>3, <1>4, FirstHalfQuiet

LEMMA IgnoreRequestQuiet ==
  ASSUME ExchangeInv, Quiet, NEW n \in Validators, IgnoreRequest(n)
  PROVE  Quiet'
<1>1. /\ TypeOK
      /\ position[n] < Len(SourceLog)
      /\ SourceLog[position[n] + 1].kind = "request"
      /\ position' = [position EXCEPT ![n] = @ + 1]
      /\ UNCHANGED <<store, broadcast, requests>>
  BY DEF ExchangeInv, IgnoreRequest, Reads
<1>2. position[n] > 0
  BY <1>1, EventFacts DEF TypeOK
<1>3. \A w \in Validators : position'[w] > 0 <=> position[w] > 0
  BY <1>1, <1>2 DEF TypeOK
<1>4. \A w \in Validators : HasLocked(w)' = HasLocked(w)
  BY <1>1, <1>3 DEF HasLocked
<1>5. SentInv'
  <2>1. \A m \in requests : m.from \in Validators
    BY <1>1 DEF TypeOK
  <2> QED
    BY <1>1, <1>4, <2>1 DEF Quiet, SentInv, SignaturesVerify
<1>6. UnlockedInv'
  BY <1>1, <1>4 DEF Quiet, UnlockedInv, SignaturesVerify
<1>7. KnownInv'
  BY <1>1, <1>3 DEF Quiet, KnownInv
<1>8. SpreadInv'
  BY <1>1, <1>4 DEF Quiet, SpreadInv, Signing, ListsCurrent, Reaches
<1> QED
  BY <1>5, <1>6, <1>7, <1>8 DEF Quiet

\* The second half of a handler: every peer has answered.
LEMMA MergeAnswersQuiet ==
  ASSUME ExchangeInv, Quiet, NEW n \in Validators, NEW kind, NEW quorum,
         MergeAnswers(n, kind, quorum)
  PROVE  Quiet'
<1> DEFINE tx == IF store[n].status = "completed" THEN MergedTx(n)
                 ELSE MarkSigned(MergedTx(n), quorum)
<1>1. /\ TypeOK
      /\ broadcast[n] # Idle
      /\ broadcast[n].waiting = {}
      /\ store[n] # NoTx
      /\ store' = [store EXCEPT ![n] = tx]
      /\ broadcast' = [broadcast EXCEPT ![n] = Idle]
      /\ position' = [position EXCEPT ![n] = @ + 1]
      /\ UNCHANGED requests
  BY DEF ExchangeInv, BroadcastInv, MergeAnswers
<1>2. /\ tx \in Tx
      /\ tx.hash = store[n].hash
      /\ tx.signatures = MergedTx(n).signatures
      /\ tx.status = "completed" <=> store[n].status = "completed"
  BY <1>1, MergedTxFacts, MarkSignedFacts
<1> HIDE DEF tx
<1>3. /\ store'[n] = tx
      /\ tx # NoTx
      /\ broadcast'[n] = Idle
      /\ position'[n] > 0
      /\ \A w \in Validators \ {n} :
           /\ store'[w] = store[w]
           /\ broadcast'[w] = broadcast[w]
           /\ position'[w] = position[w]
  BY <1>1, <1>2, SentinelsAssumption DEF TypeOK
<1>4. \A w \in Validators : HasLocked(w)' = HasLocked(w)
  BY <1>1, <1>3 DEF HasLocked
<1>5. SentInv'
  <2>1. \A m \in requests : m.from \in Validators
    BY <1>1 DEF TypeOK
  <2> QED
    BY <1>1, <1>4, <2>1 DEF Quiet, SentInv, SignaturesVerify
<1>6. UnlockedInv'
  <2>1. HasLocked(n)
    BY <1>1 DEF HasLocked
  <2> QED
    BY <1>3, <1>4, <2>1 DEF Quiet, UnlockedInv, SignaturesVerify
<1>7. KnownInv'
  <2>1. \A w \in Validators : store[w] # NoTx => store'[w] # NoTx
    BY <1>3
  <2>2. \A w \in Validators : store[w] # NoTx
    BY <1>1 DEF Quiet, KnownInv
  <2> QED
    BY <2>1, <2>2 DEF KnownInv
<1>8. SpreadInv'
  <2>1. \A w \in Validators : Signing(w)' = Signing(w)
    BY <1>2, <1>3, <1>4 DEF Signing
  <2>2. \A w \in Validators : store'[w].hash = store[w].hash
    BY <1>2, <1>3
  <2>3. ASSUME NEW w \in Validators, Signing(n), Signing(w)
        PROVE  ListsCurrent(n, w)'
    BY <1>1, <1>2, <1>3, <2>3, MergedTxFacts
    DEF Quiet, SpreadInv, ListsCurrent
  <2>4. ASSUME NEW w \in Validators \ {n}, Signing(n), Signing(w),
               store[n].hash = store[w].hash
        PROVE  Reaches(w, n)'
    <3>1. ListsCurrent(n, w) /\ Reaches(w, n)
      BY <2>4 DEF Quiet, SpreadInv
    <3>2. store[n].hash # NoHash
      BY <2>4 DEF ExchangeInv, LockedInv, Signing
    <3>3. CASE broadcast[w] # Idle /\ n \in broadcast[w].waiting
      BY <1>3, <3>3 DEF Reaches
    <3>4. CASE \/ store[n].signatures[w] = store[n].hash
               \/ broadcast[n].answers[w] = store[n].hash
      BY <1>1, <1>2, <1>3, <3>1, <3>2, <3>4, MergedTxFacts
      DEF ListsCurrent, Reaches
    <3> QED
      BY <1>1, <3>1, <3>3, <3>4 DEF Reaches
  <2>5. ASSUME NEW w \in Validators \ {n}, Signing(n), Signing(w)
        PROVE  /\ ListsCurrent(w, n)'
               /\ store[n].hash = store[w].hash => Reaches(n, w)'
    BY <1>1, <1>2, <1>3, <2>5 DEF Quiet, SpreadInv, ListsCurrent, Reaches
  <2>6. ASSUME NEW v \in Validators \ {n}, NEW w \in Validators \ {n},
               Signing(v), Signing(w)
        PROVE  /\ ListsCurrent(v, w)'
               /\ v # w /\ store[v].hash = store[w].hash => Reaches(w, v)'
    BY <1>3, <2>6 DEF Quiet, SpreadInv, ListsCurrent, Reaches
  <2> QED
    BY <2>1, <2>2, <2>3, <2>4, <2>5, <2>6 DEF SpreadInv
<1> QED
  BY <1>5, <1>6, <1>7, <1>8 DEF Quiet

\* A call of the API: p's record takes only signatures over its hash, and the
\* sender gets p's signature if it has signed the same hash.
LEMMA ApiQuiet ==
  ASSUME ExchangeInv, Quiet, NEW p \in Validators, NEW m \in requests,
         p # m.from, NEW sig \in Nat, Answer(p, m, sig), NEW tx \in Tx,
         store' = [store EXCEPT ![p] = tx],
         UNCHANGED <<position, requests>>,
         store[p] = NoTx =>
           tx.hash = m.tx.hash /\ tx.signatures = m.tx.signatures,
         store[p] # NoTx =>
           /\ tx.hash = store[p].hash
           /\ tx.status = "completed" <=> store[p].status = "completed"
           /\ \A w \in Validators :
                \/ tx.signatures[w] = store[p].signatures[w]
                \/ /\ store[p].signatures[w] = NoHash
                   /\ tx.hash = m.tx.hash
                   /\ tx.signatures[w] = m.tx.signatures[w],
         Signing(p) => sig \in {NoHash, m.tx.hash},
         Signing(p) /\ store[p].hash = m.tx.hash =>
           /\ sig = m.tx.hash
           /\ \A w \in Validators :
                m.tx.signatures[w] # NoHash => tx.signatures[w] # NoHash
  PROVE  Quiet'
<1>1. /\ TypeOK
      /\ m.from \in Validators
      /\ SignaturesVerify(m.tx)
      /\ m.tx.signatures[m.from] = m.tx.hash
  BY DEF ExchangeInv, TypeOK, Quiet, SentInv
<1>2. /\ store'[p] = tx
      /\ tx # NoTx
      /\ \A w \in Validators \ {p} : store'[w] = store[w]
  BY <1>1, SentinelsAssumption DEF TypeOK
<1>3. \A w \in Validators : HasLocked(w)' = HasLocked(w)
  BY <1>1, AnswerFacts DEF HasLocked
<1>4. \A w \in Validators : store[w] # NoTx => store'[w] # NoTx
  BY <1>2
<1>5. SentInv'
  <2>1. \A l \in requests : l.from \in Validators
    BY <1>1 DEF TypeOK
  <2> QED
    BY <1>3, <2>1 DEF Quiet, SentInv, SignaturesVerify
<1>6. UnlockedInv'
  <2>1. ASSUME ~HasLocked(p)
        PROVE  SignaturesVerify(tx) /\ tx.hash \in {NoHash, FirstHash}
    <3>1. CASE store[p] = NoTx
      BY <1>1, <3>1 DEF Quiet, KnownInv, SignaturesVerify
    <3>2. CASE store[p] # NoTx
      BY <1>1, <2>1, <3>2 DEF Quiet, UnlockedInv, SignaturesVerify
    <3> QED
      BY <3>1, <3>2
  <2> QED
    BY <1>2, <1>3, <2>1 DEF Quiet, UnlockedInv, SignaturesVerify
<1>7. KnownInv'
  <2>1. ASSUME NEW v \in Validators, broadcast'[v] # Idle,
               NEW w \in Validators \ broadcast'[v].waiting
        PROVE  store'[w] # NoTx
    <3>1. broadcast[v] # Idle
      BY <1>1, <2>1, AnswerFacts
    <3>2. CASE w = p
      BY <1>2, <3>2
    <3>3. CASE w # p
      BY <1>1, <1>4, <2>1, <3>1, <3>3, AnswerOutcome DEF Quiet, KnownInv
    <3> QED
      BY <3>2, <3>3
  <2> QED
    BY <1>4, <2>1 DEF Quiet, KnownInv
<1>8. SpreadInv'
  <2>1. ASSUME NEW w \in Validators, Signing(w)'
        PROVE  /\ Signing(w)
               /\ store[w] # NoTx
               /\ store[w].hash # NoHash
               /\ store'[w].hash = store[w].hash
    <3>1. HasLocked(w)
      BY <1>3, <2>1 DEF Signing
    <3>2. store[w] # NoTx /\ store[w].hash # NoHash
      BY <3>1 DEF ExchangeInv, LockedInv
    <3> QED
      BY <1>2, <2>1, <3>1, <3>2 DEF Signing
  <2>2. ASSUME NEW v \in Validators, broadcast[v] # Idle, broadcast[v].tx = m.tx
        PROVE  m.tx.hash = store[v].hash
    BY <2>2 DEF ExchangeInv, BroadcastInv
  <2>3. ASSUME NEW n \in Validators, NEW w \in Validators,
               Signing(n)', Signing(w)'
        PROVE  ListsCurrent(n, w)'
    <3>1. ListsCurrent(n, w)
      BY <2>1, <2>3 DEF Quiet, SpreadInv
    <3>2. store'[n].signatures[w] \in {NoHash, store'[n].hash}
      BY <1>1, <1>2, <2>1, <2>3, <3>1 DEF ListsCurrent, SignaturesVerify
    <3>3. ASSUME broadcast'[n] # Idle
          PROVE  broadcast'[n].answers[w] \in {NoHash, store'[n].hash}
      <4>1. broadcast[n] # Idle
        BY <1>1, <3>3, AnswerFacts
      <4>2. CASE broadcast'[n].answers[w] = broadcast[n].answers[w]
        BY <2>1, <2>3, <3>1, <4>1, <4>2 DEF ListsCurrent
      <4>3. CASE broadcast'[n].answers[w] # broadcast[n].answers[w]
        <5>1. /\ w = p
              /\ broadcast[n].tx = m.tx
              /\ broadcast'[n].answers[w] = sig
          BY <1>1, <4>1, <4>3, AnswerFacts
        <5> QED
          BY <2>1, <2>2, <2>3, <4>1, <5>1
      <4> QED
        BY <4>2, <4>3
    <3> QED
      BY <3>2, <3>3 DEF ListsCurrent
  <2>4. ASSUME NEW n \in Validators, NEW w \in Validators,
               Signing(n)', Signing(w)', n # w,
               store'[n].hash = store'[w].hash
        PROVE  Reaches(w, n)'
    <3>1. /\ Signing(n) /\ Signing(w)
          /\ store[n].hash = store[w].hash
          /\ store'[n].hash = store[n].hash
          /\ store[n] # NoTx /\ store[n].hash # NoHash
          /\ Reaches(w, n)
      BY <2>1, <2>4 DEF Quiet, SpreadInv
    <3>2. CASE store[n].signatures[w] = store[n].hash
      BY <1>2, <3>1, <3>2 DEF Reaches
    <3>3. CASE broadcast[w] # Idle /\ n \in broadcast[w].waiting
      <4>1. broadcast'[w] # Idle
        BY <1>1, <3>3, AnswerFacts
      <4>2. CASE n \in broadcast'[w].waiting
        BY <4>1, <4>2 DEF Reaches
      <4>3. CASE n \notin broadcast'[w].waiting
        <5>1. n = p /\ w = m.from /\ broadcast[w].tx = m.tx
          BY <1>1, <3>3, <4>3, AnswerOutcome
        <5>2. m.tx.hash = store[p].hash
          BY <2>2, <3>1, <3>3, <5>1
        <5>3. tx.signatures[w] # NoHash
          BY <1>1, <3>1, <5>1, <5>2
        <5>4. tx.signatures[w] \in {NoHash, store'[n].hash}
          BY <1>2, <2>3, <2>4, <5>1 DEF ListsCurrent
        <5> QED
          BY <1>2, <5>1, <5>3, <5>4 DEF Reaches
      <4> QED
        BY <4>2, <4>3
    <3>4. CASE /\ broadcast[n] # Idle
               /\ \/ w \in broadcast[n].waiting
                  \/ broadcast[n].answers[w] = store[n].hash
      <4>1. broadcast'[n] # Idle
        BY <1>1, <3>4, AnswerFacts
      <4>2. ASSUME w = p, broadcast[n].tx = m.tx,
                   broadcast'[n].answers[w] = sig
            PROVE  Reaches(w, n)'
        BY <2>2, <3>1, <3>4, <4>1, <4>2 DEF Reaches
      <4>3. CASE w \in broadcast[n].waiting
        <5>1. CASE w \in broadcast'[n].waiting
          BY <4>1, <5>1 DEF Reaches
        <5>2. CASE w \notin broadcast'[n].waiting
          BY <1>1, <3>4, <4>2, <4>3, <5>2, AnswerOutcome
        <5> QED
          BY <5>1, <5>2
      <4>4. CASE broadcast[n].answers[w] = store[n].hash
        <5>1. CASE broadcast'[n].answers[w] = broadcast[n].answers[w]
          BY <3>1, <4>1, <4>4, <5>1 DEF Reaches
        <5>2. CASE broadcast'[n].answers[w] # broadcast[n].answers[w]
          BY <1>1, <3>4, <4>2, <5>2, AnswerFacts
        <5> QED
          BY <5>1, <5>2
      <4> QED
        BY <3>4, <4>3, <4>4
    <3> QED
      BY <3>1, <3>2, <3>3, <3>4 DEF Reaches
  <2> QED
    BY <2>3, <2>4 DEF SpreadInv
<1> QED
  BY <1>5, <1>6, <1>7, <1>8 DEF Quiet

LEMMA SubmitSignatureQuiet ==
  ASSUME ExchangeInv, Quiet, NEW p \in Validators, NEW m \in requests,
         SubmitSignature(p, m)
  PROVE  Quiet'
<1>1. /\ TypeOK
      /\ SignaturesVerify(m.tx)
      /\ m.tx \in Tx
      /\ p # m.from
      /\ UNCHANGED <<position, requests>>
      /\ NoHash \in Nat
  BY DEF ExchangeInv, TypeOK, Quiet, SentInv, SubmitSignature, NoHash
<1>2. ASSUME store[p] # NoTx
      PROVE  /\ store[p] \in Tx
             /\ store[p].signatures[p] \in Nat
             /\ store = [store EXCEPT ![p] = store[p]]
  BY <1>1, <1>2 DEF TypeOK, Tx
<1>3. CASE SubmitRefused(p, m)
  <2>1. /\ store[p] # NoTx
        /\ store[p].hash # m.tx.hash
        /\ Answer(p, m, NoHash)
        /\ store' = store
    BY <1>1, <1>3 DEF SubmitRefused
  <2>2. store[p] \in Tx /\ store' = [store EXCEPT ![p] = store[p]]
    BY <1>2, <2>1
  <2> QED
    BY <1>1, <2>1, <2>2, ApiQuiet
<1>4. CASE SubmitToCompleted(p, m)
  <2>1. /\ store[p] # NoTx
        /\ ~Signing(p)
        /\ Answer(p, m, store[p].signatures[p])
        /\ store' = store
    BY <1>4 DEF SubmitToCompleted, Signing
  <2>2. /\ store[p] \in Tx
        /\ store[p].signatures[p] \in Nat
        /\ store' = [store EXCEPT ![p] = store[p]]
    BY <1>2, <2>1
  <2> QED
    BY <1>1, <2>1, <2>2, ApiQuiet
<1>5. CASE SubmitMerged(p, m)
  <2> DEFINE tx == MarkSigned(SubmittedTx(p, m), SubmitQuorum(Entries))
             sig == store[p].signatures[p]
  <2>1. /\ store[p] # NoTx
        /\ store[p].status # "completed"
        /\ store[p].hash = m.tx.hash
        /\ store' = [store EXCEPT ![p] = tx]
        /\ Answer(p, m, sig)
    BY <1>5 DEF SubmitMerged
  <2>2. /\ tx \in Tx
        /\ tx.hash = store[p].hash
        /\ tx.status # "completed"
        /\ \A w \in Validators :
             /\ store[p].signatures[w] # NoHash =>
                  tx.signatures[w] = store[p].signatures[w]
             /\ store[p].signatures[w] = NoHash =>
                  tx.signatures[w] = m.tx.signatures[w]
    BY <1>1, <2>1, SubmittedTxFacts, MarkSignedFacts
  <2>3. Signing(p) => sig = m.tx.hash
    BY <2>1 DEF ExchangeInv, LockedInv, Signing
  <2>4. sig \in Nat
    BY <1>2, <2>1
  <2> HIDE DEF tx, sig
  <2>5. tx.hash = m.tx.hash
    BY <2>1, <2>2
  <2>6. \A w \in Validators :
          \/ tx.signatures[w] = store[p].signatures[w]
          \/ /\ store[p].signatures[w] = NoHash
             /\ tx.hash = m.tx.hash
             /\ tx.signatures[w] = m.tx.signatures[w]
    BY <2>2, <2>5
  <2>7. \A w \in Validators :
          m.tx.signatures[w] # NoHash => tx.signatures[w] # NoHash
    BY <2>2
  <2>8. tx.status = "completed" <=> store[p].status = "completed"
    BY <2>1, <2>2
  <2> QED
    BY <1>1, <2>1, <2>2, <2>3, <2>4, <2>6, <2>7, <2>8, ApiQuiet
<1>6. CASE SubmitAdopted(p, m)
  <2> DEFINE tx == MarkSigned(m.tx, SubmitQuorum(Entries))
  <2>1. /\ store[p] = NoTx
        /\ store' = [store EXCEPT ![p] = tx]
        /\ Answer(p, m, NoHash)
    BY <1>6 DEF SubmitAdopted
  <2>2. tx \in Tx /\ tx.hash = m.tx.hash /\ tx.signatures = m.tx.signatures
    BY <1>1, MarkSignedFacts
  <2>3. ~Signing(p)
    BY <2>1 DEF ExchangeInv, LockedInv, Signing
  <2> HIDE DEF tx
  <2> QED
    BY <1>1, <2>1, <2>2, <2>3, ApiQuiet
<1> QED
  BY <1>3, <1>4, <1>5, <1>6 DEF SubmitSignature

LEMMA TransferCompletedEventQuiet ==
  ASSUME ExchangeInv, Quiet, NEW n \in Validators, TransferCompletedEvent(n)
  PROVE  Quiet'
<1>1. /\ TypeOK
      /\ UNCHANGED <<position, broadcast, requests>>
  BY DEF ExchangeInv, TransferCompletedEvent
<1>2. \A w \in Validators \ {n} : store'[w] = store[w]
  BY <1>1 DEF TypeOK, TransferCompletedEvent
<1>3. /\ store'[n] # NoTx
      /\ store'[n].status = "completed"
      /\ store[n] = NoTx => /\ store'[n].hash = NoHash
                            /\ store'[n].signatures = NoSignatures
      /\ store[n] # NoTx => /\ store'[n].hash = store[n].hash
                            /\ store'[n].signatures = store[n].signatures
  <2>1. CASE store[n] = NoTx
    <3> DEFINE tx == [status |-> "completed", hash |-> NoHash,
                      signatures |-> NoSignatures, surplus |-> 0]
    <3>1. tx \in Tx /\ store'[n] = tx
      BY <1>1, <2>1, NoSignaturesFacts
      DEF TypeOK, TransferCompletedEvent, Tx, Status, NoHash
    <3>2. tx # NoTx
      BY <3>1, SentinelsAssumption
    <3> QED
      BY <2>1, <3>1, <3>2
  <2>2. CASE store[n] # NoTx
    <3> DEFINE tx == [store[n] EXCEPT !.status = "completed"]
    <3>1. store[n] \in Tx /\ store'[n] = tx
      BY <1>1, <2>2 DEF TypeOK, TransferCompletedEvent
    <3>2. /\ tx \in Tx
          /\ tx.status = "completed"
          /\ tx.hash = store[n].hash
          /\ tx.signatures = store[n].signatures
      BY <3>1 DEF Tx, Status
    <3> HIDE DEF tx
    <3>3. tx # NoTx
      BY <3>2, SentinelsAssumption
    <3> QED
      BY <2>2, <3>1, <3>2, <3>3
  <2> QED
    BY <2>1, <2>2
<1>4. \A w \in Validators : HasLocked(w)' = HasLocked(w)
  BY <1>1 DEF HasLocked
<1>5. SentInv'
  <2>1. \A m \in requests : m.from \in Validators
    BY <1>1 DEF TypeOK
  <2> QED
    BY <1>1, <1>4, <2>1 DEF Quiet, SentInv, SignaturesVerify
<1>6. UnlockedInv'
  <2>1. \A w \in Validators : NoSignatures[w] = NoHash
    BY NoSignaturesFacts
  <2> QED
    BY <1>2, <1>3, <1>4, <2>1 DEF Quiet, UnlockedInv, SignaturesVerify
<1>7. KnownInv'
  <2>1. \A w \in Validators : store[w] # NoTx => store'[w] # NoTx
    BY <1>2, <1>3
  <2> QED
    BY <1>1, <2>1 DEF Quiet, KnownInv
<1>8. SpreadInv'
  <2>1. ~Signing(n)'
    BY <1>3 DEF Signing
  <2>2. \A w \in Validators \ {n} : Signing(w)' = Signing(w)
    BY <1>2, <1>4 DEF Signing
  <2> QED
    BY <1>1, <1>2, <2>1, <2>2 DEF Quiet, SpreadInv, ListsCurrent, Reaches
<1> QED
  BY <1>5, <1>6, <1>7, <1>8 DEF Quiet

\* No other step can be taken: no call fails, nobody stops and nobody panics.
LEMMA NextQuiet ==
  ASSUME ExchangeInv, GenuineInv, QuietInv, Next
  PROVE  QuietInv'
<1> SUFFICES ASSUME ~NetworkFails, restarts' = 0
             PROVE  Quiet'
  BY DEF QuietInv
<1>1. TypeOK
  BY DEF ExchangeInv
<1>2. \A n \in Validators : ~Crash(n) /\ ~GracefulRestart(n)
  BY <1>1 DEF Crash, GracefulRestart, CountRestart, TypeOK
<1>3. restarts = 0
  BY <1>2, StepCases
  DEF TokensLocked, RequestNewSignatures, IgnoreRequest, MergeAnswers,
      TransferCompletedEvent, PeerFails, SubmitSignature, CompleteTransfer,
      ProcessStep, PanicOnHashMismatch
<1>4. Quiet
  BY <1>3 DEF QuietInv
<1>5. CASE CompleteTransfer
  BY <1>4, <1>5
  DEF CompleteTransfer, Quiet, SentInv, UnlockedInv, KnownInv, SpreadInv,
      SignaturesVerify, HasLocked, Signing, ListsCurrent, Reaches
<1>6. \A n, p \in Validators : ~PeerFails(n, p)
  BY DEF PeerFails
<1>7. \A n \in Validators : ~ProcessStep(n)
  BY <1>1, <1>2, <1>4, NoMismatch DEF ProcessStep, PanicOnHashMismatch, Quiet
<1> QED
  BY <1>4, <1>5, <1>6, <1>7, StepCases, TokensLockedQuiet,
     RequestNewSignaturesQuiet, IgnoreRequestQuiet, MergeAnswersQuiet,
     SubmitSignatureQuiet, TransferCompletedEventQuiet

LEMMA QuietInvariant == Spec => []QuietInv
<1>1. Init => QuietInv
  BY DEF Init, QuietInv, Quiet, SentInv, UnlockedInv, KnownInv, SpreadInv,
     HasLocked, Signing
<1>2. ExchangeInv /\ GenuineInv /\ QuietInv /\ [Next]_vars => QuietInv'
  <2> SUFFICES ASSUME ExchangeInv, GenuineInv, QuietInv, [Next]_vars
               PROVE  QuietInv'
    OBVIOUS
  <2>1. CASE UNCHANGED vars
    BY <2>1 DEF vars, QuietInv, Quiet, SentInv, UnlockedInv, KnownInv,
       SpreadInv, SignaturesVerify, HasLocked, Signing, ListsCurrent, Reaches
  <2> QED
    BY <2>1, NextQuiet
<1> QED
  BY <1>1, <1>2, ExchangeInvariant, GenuineInvariant, PTL DEF Spec

-----------------------------------------------------------------------------
(* The theorems.                                                           *)

\* One round of calls for each hash is enough for validators that have handled
\* the same events to list each other's current signatures, in whatever order
\* they lock, re-sign, adopt, answer, merge and complete.
THEOREM SettledRecordsListEachOther == Spec => []SettledRecordsAreFull
<1>1. ExchangeInv /\ HashInv /\ QuietInv => SettledRecordsAreFull
  <2> SUFFICES ASSUME ExchangeInv, HashInv, QuietInv,
                      ~NetworkFails, restarts = 0,
                      NEW n \in Validators, NEW w \in Validators,
                      Settled(n), Settled(w), position[n] = position[w]
               PROVE  w \in ValidSigners(store[n])
    BY DEF SettledRecordsAreFull
  <2>1. /\ Signing(n) /\ Signing(w)
        /\ Handled(n) = Handled(w)
    BY HandledFacts DEF Settled, Signing, HasLocked
  <2>2. store[n].hash = store[w].hash
    BY <2>1 DEF HashInv
  <2>3. /\ store[n].hash # NoHash
        /\ store[n].signatures[n] = store[n].hash
    BY <2>1 DEF ExchangeInv, LockedInv, Signing
  <2>4. n # w => store[n].signatures[w] = store[n].hash
    BY <2>1, <2>2 DEF QuietInv, Quiet, SpreadInv, Reaches, Settled
  <2> QED
    BY <2>3, <2>4 DEF ValidSigners, Signers
<1> QED
  BY <1>1, ExchangeInvariant, HashInvariant, QuietInvariant, PTL

\* A validator that meets another hash when it reads the lock event has missed
\* a call or has been restarted: peers that re-sign do not overtake the lock.
THEOREM MismatchesAreExplained == Spec => []MismatchNeedsFailure
<1>1. ExchangeInv /\ QuietInv => MismatchNeedsFailure
  BY NoMismatch DEF ExchangeInv, QuietInv, Quiet, MismatchNeedsFailure
<1> QED
  BY <1>1, ExchangeInvariant, QuietInvariant, PTL

-----------------------------------------------------------------------------
(* Who reports the transfer signed.                                        *)

\* No record is completed yet.
Open == \A v \in Validators : store[v] # NoTx => store[v].status # "completed"

\* v has still to call p about the lock event.
Owes(v, p) ==
  position[v] = 0 /\ (broadcast[v] = Idle \/ p \in broadcast[v].waiting)

\* p lists everybody who has called it about the lock event.
HeardInv ==
  \A p, v \in Validators :
    p # v /\ store[p] # NoTx /\ store[p].hash = FirstHash /\ ~Owes(v, p) =>
      store[p].signatures[v] = FirstHash

HasFirstHash(n) == HasLocked(n) /\ store[n].hash = FirstHash

\* Of two validators that have signed the first hash, one locked before the
\* other called it: it reports the transfer signed, or calls are to come.
LockReported ==
  \A n, w \in Validators :
    n # w /\ HasFirstHash(n) /\ HasFirstHash(w) =>
      \/ "signed" \in {store[n].status, store[w].status}
      \/ \E v \in Validators \ {n} : Owes(v, n)
      \/ \E v \in Validators \ {w} : Owes(v, w)

\* All validators have signed tx, and the record says so.
AllSigned(tx) == \A v \in Validators : tx.signatures[v] # NoHash
Reported(tx) == AllSigned(tx) => tx.status = "signed"

\* After a re-signing, the answers complete a list if the calls did not.
ResignReported ==
  MergeThresholdInReach =>
    \A n \in Validators :
      HasLocked(n) /\ broadcast[n] = Idle /\ store[n].hash # FirstHash =>
        Reported(store[n])

Reports ==
  /\ \A n \in Validators : store[n] # NoTx => store[n].hash # NoHash
  /\ HeardInv
  /\ LockReported
  /\ ResignReported

ReportsInv == ~NetworkFails /\ restarts = 0 /\ Open => Reports

\* What the steps below start from.
Before == ExchangeInv /\ HashInv /\ Quiet /\ Reports /\ Open /\ restarts = 0

\* In an uncompleted transfer, a validator has the first hash until it has
\* handled the lock event.
LEMMA BeforeFacts ==
  ASSUME Before, NEW n \in Validators, HasLocked(n)
  PROVE  /\ Signing(n)
         /\ store[n] # NoTx
         /\ store[n].hash # NoHash
         /\ store[n].hash \in Nat
         /\ store[n].hash >= FirstHash
         /\ position[n] = 0 => store[n].hash = FirstHash
<1>1. /\ Signing(n)
      /\ store[n] \in Tx
      /\ store[n] # NoTx
      /\ store[n].hash # NoHash
  BY DEF Before, Open, ExchangeInv, LockedInv, TypeOK, Signing
<1>2. /\ Handled(n) \in 1..Len(SourceLog)
      /\ store[n].hash = HashAfter[Handled(n)]
  BY <1>1, HandledFacts DEF Before, HashInv
<1>3. 1 \in 1..Len(SourceLog) /\ 1 \in 1..Handled(n)
  BY <1>2, LogFacts
<1>4. HashAfter[1] = FirstHash
  BY <1>3, NextHashFacts DEF FirstHash
<1>5. position[n] = 0 => Handled(n) = 1
  BY DEF HasLocked, Handled
<1>6. HashAfter[1] <= HashAfter[Handled(n)]
  BY <1>2, <1>3, HashesGrow
<1> QED
  BY <1>1, <1>2, <1>4, <1>5, <1>6 DEF Tx

\* A record with everybody's signature has as many as the API asks for.
LEMMA EverybodyIsAQuorum ==
  ASSUME NEW tx \in Tx, AllSigned(tx)
  PROVE  /\ NumSignatures(tx) \in Nat
         /\ NumSignatures(tx) >= Cardinality(Validators)
         /\ NumSignatures(tx) >= SubmitQuorum(Entries)
<1> DEFINE V == Cardinality(Validators)
<1>1. V \in Nat /\ V >= 1
  BY ValidatorsAssumption, FS_CardinalityType, FS_EmptySet
<1>2. Signers(tx) = Validators
  BY DEF Signers, AllSigned
<1>3. NumSignatures(tx) = V + tx.surplus /\ tx.surplus \in Nat
  BY <1>2 DEF NumSignatures, Tx
<1> HIDE DEF V
<1>4. SubmitQuorum(ConfiguredEntries(V)) \in 1..V
  BY <1>1, SubmitQuorumIsByzantine
<1>5. SubmitQuorum(Entries) \in Nat /\ SubmitQuorum(Entries) <= V
  BY <1>1, <1>4 DEF Entries, V
<1> QED
  BY <1>1, <1>3, <1>5 DEF V

\* Comparing with a threshold within reach makes a full record signed.
LEMMA MarkSignedReports ==
  ASSUME NEW tx \in Tx, NEW quorum \in Nat,
         \/ quorum = SubmitQuorum(Entries)
         \/ quorum <= Cardinality(Validators)
  PROVE  /\ Reported(MarkSigned(tx, quorum))
         /\ tx.status = "signed" => MarkSigned(tx, quorum).status = "signed"
<1>1. tx.status = "signed" => MarkSigned(tx, quorum).status = "signed"
  BY MarkSignedFacts
<1>2. ASSUME AllSigned(MarkSigned(tx, quorum))
      PROVE  MarkSigned(tx, quorum).status = "signed"
  <2>1. AllSigned(tx)
    BY <1>2, MarkSignedFacts DEF AllSigned
  <2>2. Cardinality(Validators) \in Nat
    BY ValidatorsAssumption, FS_CardinalityType
  <2>3. NumSignatures(tx) >= quorum
    BY <2>1, <2>2, EverybodyIsAQuorum
  <2> QED
    BY <2>3 DEF MarkSigned, Tx
<1> QED
  BY <1>1, <1>2 DEF Reported

\* Who has no record has been called by nobody.
LEMMA UncalledFacts ==
  ASSUME Before, NEW p \in Validators, store[p] = NoTx, NEW v \in Validators
  PROVE  Owes(v, p)
<1>1. position[v] = 0
  BY DEF Before, ExchangeInv, TypeOK, Quiet, KnownInv
<1> QED
  BY <1>1 DEF Before, Quiet, KnownInv, Owes

\* Handling a lock event: the record may have been adopted.
LEMMA TokensLockedReports ==
  ASSUME Before, NEW n \in Validators, TokensLocked(n)
  PROVE  Reports'
<1> DEFINE tx == LockedTx(n)
<1>1. /\ TypeOK
      /\ position[n] < Len(SourceLog)
      /\ SourceLog[position[n] + 1].kind = "lock"
      /\ broadcast[n] = Idle
      /\ store' = [store EXCEPT ![n] = tx]
      /\ StartBroadcast(n, tx)
      /\ UNCHANGED position
  BY DEF Before, ExchangeInv, TokensLocked, Reads
<1>2. position[n] = 0 /\ EventHash(n) = FirstHash /\ FirstHash # NoHash
  BY <1>1, EventFacts DEF EventHash, EventTime, FirstHash
<1>3. tx \in Tx /\ tx.hash = FirstHash /\ tx # NoTx
  BY <1>1, <1>2, LockedTxFacts, SentinelsAssumption
<1>4. ASSUME store[n] # NoTx, NEW v \in Validators \ {n}
      PROVE  store[n].hash = FirstHash /\ tx.signatures[v] = store[n].signatures[v]
  <2>1. ~HasLocked(n)
    BY <1>1, <1>2 DEF HasLocked
  <2> QED
    BY <1>1, <1>4, <2>1, LockedTxFacts DEF Before, Reports, Quiet, UnlockedInv
<1> HIDE DEF tx
<1>5. /\ store'[n] = tx
      /\ \A w \in Validators \ {n} : store'[w] = store[w]
      /\ broadcast'[n] # Idle
      /\ broadcast'[n].waiting = Validators \ {n}
      /\ \A w \in Validators \ {n} : broadcast'[w] = broadcast[w]
  <2>1. broadcast'[n] = [tx |-> tx, waiting |-> Validators \ {n},
                         answers |-> NoSignatures]
    BY <1>1 DEF StartBroadcast, TypeOK
  <2>2. store'[n] = tx /\ \A w \in Validators \ {n} : store'[w] = store[w]
    BY <1>1 DEF TypeOK
  <2>3. /\ broadcast'[n] # Idle
        /\ \A w \in Validators \ {n} : broadcast'[w] = broadcast[w]
    BY <1>1, <1>3, StartBroadcastFacts
  <2> QED
    BY <2>1, <2>2, <2>3
<1>6. /\ \A w \in Validators \ {n} : Owes(n, w) /\ Owes(n, w)'
      /\ \A v \in Validators \ {n} : \A w \in Validators :
           Owes(v, w)' <=> Owes(v, w)
  BY <1>1, <1>2, <1>5 DEF Owes
<1>7. \A w \in Validators \ {n} : HasLocked(w)' <=> HasLocked(w)
  BY <1>1, <1>5 DEF HasLocked
<1>8. HeardInv'
  <2>1. ASSUME NEW v \in Validators \ {n}, ~Owes(v, n)'
        PROVE  tx.signatures[v] = FirstHash
    <3>1. ~Owes(v, n) /\ store[n] # NoTx
      BY <1>6, <2>1, UncalledFacts
    <3> QED
      BY <1>4, <3>1 DEF Before, Reports, HeardInv
  <2>2. ASSUME NEW p \in Validators \ {n}, NEW v \in Validators, p # v,
               store'[p] # NoTx, store'[p].hash = FirstHash, ~Owes(v, p)'
        PROVE  store'[p].signatures[v] = FirstHash
    BY <1>5, <1>6, <2>2 DEF Before, Reports, HeardInv
  <2> QED
    BY <1>5, <2>1, <2>2 DEF HeardInv, FirstHash
<1>9. LockReported'
  <2>1. ASSUME NEW a \in Validators \ {n}, NEW b \in Validators \ {n}, a # b,
               HasFirstHash(a)', HasFirstHash(b)'
        PROVE  \/ "signed" \in {store'[a].status, store'[b].status}
               \/ \E v \in Validators \ {a} : Owes(v, a)'
               \/ \E v \in Validators \ {b} : Owes(v, b)'
    <3>1. HasFirstHash(a) /\ HasFirstHash(b)
      BY <1>5, <1>7, <2>1 DEF HasFirstHash, FirstHash
    <3> QED
      BY <1>5, <1>6, <2>1, <3>1 DEF Before, Reports, LockReported
  <2>2. ASSUME NEW b \in Validators \ {n}
        PROVE  \E v \in Validators \ {b} : Owes(v, b)'
    BY <1>6, <2>2
  <2> QED
    BY <2>1, <2>2 DEF LockReported
<1>10. ResignReported'
  BY <1>5, <1>7 DEF Before, Reports, ResignReported, MergeThresholdInReach,
     Reported, AllSigned, FirstHash
<1> QED
  BY <1>2, <1>3, <1>5, <1>8, <1>9, <1>10 DEF Before, Reports

\* A request that counts: the record leaves the first hash.
LEMMA RequestNewSignaturesReports ==
  ASSUME Before, NEW n \in Validators, NEW quorum,
         RequestNewSignatures(n, quorum)
  PROVE  Reports'
<1> DEFINE tx == MarkSigned(ResignedTx(n), quorum)
<1>1. /\ TypeOK
      /\ position[n] < Len(SourceLog)
      /\ SourceLog[position[n] + 1].kind = "request"
      /\ broadcast[n] = Idle
      /\ EventTime(n) >= store[n].hash + SignaturesExpiration
      /\ store' = [store EXCEPT ![n] = tx]
      /\ StartBroadcast(n, tx)
      /\ UNCHANGED position
  BY DEF Before, ExchangeInv, RequestNewSignatures, Reads, RequestAllowed
<1>2. position[n] # 0 /\ HasLocked(n)
  BY <1>1, EventFacts DEF TypeOK, HasLocked
<1>3. tx \in Tx /\ tx.hash = EventHash(n)
  BY <1>1, ResignedTxFacts, MarkSignedFacts
<1> HIDE DEF tx
<1>4. tx.hash # NoHash /\ tx.hash # FirstHash
  <2>1. /\ store[n].hash \in Nat
        /\ store[n].hash >= FirstHash
    BY <1>2, BeforeFacts
  <2>2. /\ EventTime(n) \in Nat
        /\ EventHash(n) # NoHash
    BY <1>1, EventFacts
  <2>3. /\ SignaturesExpiration \in Nat \ {0}
        /\ FirstHash \in Nat
    <3>1. Len(SourceLog) \in Nat /\ position[n] \in Nat
      BY <1>1, LogFacts DEF TypeOK
    <3>2. 1 \in 1..Len(SourceLog)
      BY <1>1, <3>1
    <3> QED
      BY <3>2, LogFacts DEF FirstHash
  <2>4. EventHash(n) = EventTime(n) + SignaturesExpiration
    BY DEF EventHash
  <2> QED
    BY <1>1, <1>3, <2>1, <2>2, <2>3, <2>4
<1>5. /\ store'[n] = tx
      /\ \A w \in Validators \ {n} : store'[w] = store[w]
      /\ broadcast'[n] # Idle
      /\ \A w \in Validators \ {n} : broadcast'[w] = broadcast[w]
  <2>1. store'[n] = tx /\ \A w \in Validators \ {n} : store'[w] = store[w]
    BY <1>1 DEF TypeOK
  <2> QED
    BY <1>1, <1>3, <2>1, StartBroadcastFacts
<1>6. \A v, w \in Validators : Owes(v, w)' <=> Owes(v, w)
  BY <1>1, <1>2, <1>5 DEF Owes
<1>7. \A w \in Validators \ {n} : HasLocked(w)' <=> HasLocked(w)
  BY <1>1, <1>5 DEF HasLocked
<1>8. HeardInv'
  BY <1>4, <1>5, <1>6 DEF Before, Reports, HeardInv, FirstHash
<1>9. LockReported'
  <2>1. \A w \in Validators :
          HasFirstHash(w)' => w # n /\ HasFirstHash(w) /\ store'[w] = store[w]
    BY <1>4, <1>5, <1>7 DEF HasFirstHash, FirstHash
  <2> QED
    BY <1>6, <2>1 DEF Before, Reports, LockReported
<1>10. ResignReported'
  BY <1>5, <1>7 DEF Before, Reports, ResignReported, MergeThresholdInReach,
     Reported, AllSigned, FirstHash
<1> QED
  BY <1>4, <1>5, <1>8, <1>9, <1>10 DEF Before, Reports

\* The second half of a handler: the calls have all been made before.
LEMMA MergeAnswersReports ==
  ASSUME Before, NEW n \in Validators, NEW kind, NEW quorum \in Nat,
         kind = "request" /\ MergeThresholdInReach =>
           \/ quorum = SubmitQuorum(Entries)
           \/ quorum <= Cardinality(Validators),
         MergeAnswers(n, kind, quorum)
  PROVE  Reports'
<1> DEFINE tx == MarkSigned(MergedTx(n), quorum)
<1>1. /\ TypeOK
      /\ broadcast[n] # Idle
      /\ broadcast[n].waiting = {}
      /\ position[n] < Len(SourceLog)
      /\ SourceLog[position[n] + 1].kind = kind
      /\ store[n] # NoTx
      /\ HasLocked(n)
      /\ broadcast' = [broadcast EXCEPT ![n] = Idle]
      /\ position' = [position EXCEPT ![n] = @ + 1]
  BY DEF Before, ExchangeInv, BroadcastInv, MergeAnswers, HasLocked
<1>2. store' = [store EXCEPT ![n] = tx]
  BY <1>1 DEF Before, Open, MergeAnswers
<1>3. /\ MergedTx(n) \in Tx
      /\ tx.hash = store[n].hash
      /\ tx.signatures = MergedTx(n).signatures
      /\ store[n].status = "signed" => tx.status = "signed"
  BY <1>1, MergedTxFacts, MarkSignedFacts
<1>4. store[n].hash # FirstHash /\ MergeThresholdInReach => Reported(tx)
  <2>1. ASSUME store[n].hash # FirstHash
        PROVE  kind = "request"
    <3>1. position[n] # 0
      BY <1>1, <2>1, BeforeFacts
    <3>2. position[n] + 1 \in 1..Len(SourceLog) /\ position[n] + 1 # 1
      BY <1>1, <3>1, LogFacts DEF TypeOK
    <3>3. SourceLog[position[n] + 1] \in Event /\ kind # "lock"
      BY <1>1, <3>2, SourceLogAssumption
    <3> QED
      BY <1>1, <3>3 DEF Event
  <2> QED
    BY <1>3, <2>1, MarkSignedReports
<1> HIDE DEF tx
<1>5. /\ store'[n] = tx
      /\ broadcast'[n] = Idle
      /\ position'[n] # 0 /\ position'[n] > 0
      /\ \A w \in Validators \ {n} :
           /\ store'[w] = store[w]
           /\ broadcast'[w] = broadcast[w]
           /\ position'[w] = position[w]
  BY <1>1, <1>2 DEF TypeOK
<1>6. \A v, w \in Validators : Owes(v, w)' <=> Owes(v, w)
  BY <1>1, <1>5 DEF Owes
<1>7. /\ \A w \in Validators : HasLocked(w)' <=> HasLocked(w)
      /\ \A w \in Validators : HasFirstHash(w)' <=> HasFirstHash(w)
  BY <1>1, <1>3, <1>5 DEF HasLocked, HasFirstHash, FirstHash
<1>8. HeardInv'
  <2>1. ASSUME NEW v \in Validators \ {n}, tx.hash = FirstHash, ~Owes(v, n)
        PROVE  tx.signatures[v] = FirstHash
    <3>1. store[n].signatures[v] = FirstHash
      BY <1>1, <1>3, <2>1 DEF Before, Reports, HeardInv
    <3>2. HasLocked(v)
      BY <1>1, <2>1 DEF Owes, HasLocked, TypeOK
    <3>3. Signing(n) /\ Signing(v)
      BY <1>1, <3>2, BeforeFacts
    <3>4. broadcast[n].answers[v] \in {NoHash, FirstHash}
      BY <1>1, <1>3, <2>1, <3>3 DEF Before, Quiet, SpreadInv, ListsCurrent
    <3> QED
      BY <1>1, <1>3, <3>1, <3>4, MergedTxFacts
  <2>2. ASSUME NEW p \in Validators \ {n}, NEW v \in Validators, p # v,
               store'[p] # NoTx, store'[p].hash = FirstHash, ~Owes(v, p)'
        PROVE  store'[p].signatures[v] = FirstHash
    BY <1>5, <1>6, <2>2 DEF Before, Reports, HeardInv
  <2> QED
    BY <1>5, <1>6, <2>1, <2>2 DEF HeardInv, FirstHash
<1>9. LockReported'
  <2>1. \A w \in Validators :
          store[w].status = "signed" => store'[w].status = "signed"
    BY <1>3, <1>5
  <2> QED
    BY <1>6, <1>7, <2>1 DEF Before, Reports, LockReported
<1>10. ResignReported'
  BY <1>3, <1>4, <1>5, <1>7 DEF Before, Reports, ResignReported,
     MergeThresholdInReach, Reported, AllSigned, FirstHash
<1> QED
  BY <1>1, <1>3, <1>5, <1>8, <1>9, <1>10 DEF Before, Reports

\* Steps that change no record and no broadcast.
LEMMA ReportsStable ==
  ASSUME Reports, UNCHANGED <<store, broadcast>>,
         \A w \in Validators : position'[w] = 0 <=> position[w] = 0,
         \A w \in Validators : position'[w] > 0 <=> position[w] > 0
  PROVE  Reports'
<1>1. \A v, w \in Validators : Owes(v, w)' <=> Owes(v, w)
  BY DEF Owes
<1>2. /\ \A w \in Validators : HasLocked(w)' <=> HasLocked(w)
      /\ \A w \in Validators : HasFirstHash(w)' <=> HasFirstHash(w)
  BY DEF HasLocked, HasFirstHash, FirstHash
<1>3. HeardInv'
  BY <1>1 DEF Reports, HeardInv, FirstHash
<1>4. LockReported'
  BY <1>1, <1>2 DEF Reports, LockReported
<1>5. ResignReported'
  BY <1>2 DEF Reports, ResignReported, MergeThresholdInReach, Reported,
     AllSigned, FirstHash
<1> QED
  BY <1>3, <1>4, <1>5 DEF Reports

\* A call of the API is the one that its sender owed to p, or none is settled.
LEMMA OwesFacts ==
  ASSUME Before, NEW p \in Validators, NEW m \in requests, NEW sig \in Nat,
         Answer(p, m, sig), UNCHANGED position,
         NEW v \in Validators, NEW x \in Validators
  PROVE  /\ Owes(v, x)' => Owes(v, x)
         /\ Owes(v, x) /\ ~Owes(v, x)' =>
              /\ x = p /\ v = m.from
              /\ HasLocked(v)
              /\ m.tx.hash = FirstHash
<1>1. TypeOK
  BY DEF Before, ExchangeInv
<1>2. broadcast'[v] = Idle <=> broadcast[v] = Idle
  BY <1>1, AnswerFacts
<1>3. CASE broadcast[v] = Idle
  BY <1>2, <1>3 DEF Owes
<1>4. CASE broadcast[v] # Idle
  <2>1. broadcast'[v].waiting \subseteq broadcast[v].waiting
    BY <1>1, <1>4, AnswerFacts
  <2>2. /\ broadcast[v].waiting \ {p} \subseteq broadcast'[v].waiting
        /\ p \in broadcast[v].waiting /\ p \notin broadcast'[v].waiting =>
             v = m.from /\ broadcast[v].tx = m.tx
    BY <1>1, <1>4, AnswerOutcome
  <2>3. ASSUME Owes(v, x), ~Owes(v, x)'
        PROVE  /\ x = p /\ v = m.from
               /\ HasLocked(v)
               /\ m.tx.hash = FirstHash
    <3>1. /\ x = p /\ v = m.from /\ position[v] = 0
          /\ broadcast[v].tx = m.tx
      BY <1>2, <1>4, <2>2, <2>3 DEF Owes
    <3>2. HasLocked(v) /\ broadcast[v].tx.hash = store[v].hash
      BY <1>4 DEF HasLocked, Before, ExchangeInv, BroadcastInv
    <3> QED
      BY <3>1, <3>2, BeforeFacts
  <2>4. Owes(v, x)' => Owes(v, x)
    BY <1>2, <1>4, <2>1 DEF Owes
  <2> QED
    BY <2>3, <2>4
<1> QED
  BY <1>3, <1>4

\* A call of the API: p counts the entries when it takes the sender's.
LEMMA ApiReports ==
  ASSUME Before, NEW p \in Validators, NEW m \in requests, p # m.from,
         NEW sig \in Nat, Answer(p, m, sig), UNCHANGED position,
         NEW tx \in Tx, store' = [store EXCEPT ![p] = tx],
         store[p] = NoTx =>
           tx.hash = m.tx.hash /\ tx.signatures = m.tx.signatures,
         store[p] # NoTx =>
           /\ tx.hash = store[p].hash
           /\ store[p].status = "signed" => tx.status = "signed"
           /\ \A w \in Validators :
                \/ tx.signatures[w] = store[p].signatures[w]
                \/ /\ store[p].signatures[w] = NoHash
                   /\ tx.signatures[w] = m.tx.signatures[w],
         store[p] # NoTx /\ store[p].hash # m.tx.hash => tx = store[p],
         store[p] # NoTx /\ store[p].hash = m.tx.hash =>
           /\ Reported(tx)
           /\ \A w \in Validators :
                m.tx.signatures[w] # NoHash => tx.signatures[w] # NoHash
  PROVE  Reports'
<1>1. /\ TypeOK
      /\ m.from \in Validators
      /\ m.tx.signatures[m.from] = m.tx.hash
      /\ m.tx.hash # NoHash
  <2>1. TypeOK /\ m.from \in Validators /\ m.tx.signatures[m.from] = m.tx.hash
    BY DEF Before, ExchangeInv, TypeOK, Quiet, SentInv
  <2>2. m.tx.hash \in LogHashes
    BY DEF Before, HashInv
  <2>3. m.tx.hash # NoHash
    BY <2>2, NextHashFacts DEF LogHashes
  <2> QED
    BY <2>1, <2>3
<1>2. /\ store'[p] = tx
      /\ \A w \in Validators \ {p} : store'[w] = store[w]
  BY <1>1 DEF TypeOK
<1>3. /\ \A w \in Validators : broadcast'[w] = Idle <=> broadcast[w] = Idle
      /\ \A w \in Validators : HasLocked(w)' <=> HasLocked(w)
  BY <1>1, AnswerFacts DEF HasLocked
<1>4. \A v, x \in Validators :
        /\ Owes(v, x)' => Owes(v, x)
        /\ Owes(v, x) /\ ~Owes(v, x)' =>
             x = p /\ v = m.from /\ HasLocked(v) /\ m.tx.hash = FirstHash
  BY OwesFacts
<1>5. HeardInv'
  <2>1. ASSUME NEW v \in Validators \ {p}, tx.hash = FirstHash, ~Owes(v, p)'
        PROVE  tx.signatures[v] = FirstHash
    <3>1. CASE ~Owes(v, p)
      <4>1. store[p] # NoTx
        BY <3>1, UncalledFacts
      <4>2. store[p].signatures[v] = FirstHash /\ FirstHash # NoHash
        BY <2>1, <3>1, <4>1 DEF Before, Reports, HeardInv
      <4> QED
        BY <4>1, <4>2
    <3>2. CASE Owes(v, p)
      <4>1. v = m.from /\ HasLocked(v) /\ m.tx.hash = FirstHash
        BY <1>4, <2>1, <3>2
      <4>2. CASE store[p] = NoTx
        BY <1>1, <4>1, <4>2
      <4>3. CASE store[p] # NoTx
        <5>1. tx.signatures[v] # NoHash /\ store[p].hash = FirstHash
          BY <1>1, <2>1, <4>1, <4>3
        <5>2. store[p].signatures[v] \in {NoHash, FirstHash}
          <6>1. CASE HasLocked(p)
            BY <4>1, <5>1, <6>1, BeforeFacts
            DEF Before, Quiet, SpreadInv, ListsCurrent
          <6>2. CASE ~HasLocked(p)
            BY <4>3, <5>1, <6>2
            DEF Before, Quiet, UnlockedInv, SignaturesVerify
          <6> QED
            BY <6>1, <6>2
        <5> QED
          BY <1>1, <4>1, <4>3, <5>1, <5>2
      <4> QED
        BY <4>2, <4>3
    <3> QED
      BY <3>1, <3>2
  <2>2. ASSUME NEW q \in Validators \ {p}, NEW v \in Validators, q # v,
               store'[q] # NoTx, store'[q].hash = FirstHash, ~Owes(v, q)'
        PROVE  store'[q].signatures[v] = FirstHash
    BY <1>2, <1>4, <2>2 DEF Before, Reports, HeardInv
  <2> QED
    BY <1>2, <2>1, <2>2 DEF HeardInv, FirstHash
<1>6. ASSUME HasLocked(p)
      PROVE  store[p] # NoTx /\ tx.signatures[p] # NoHash
  <2>1. /\ store[p] # NoTx
        /\ store[p].hash # NoHash
        /\ store[p].signatures[p] = store[p].hash
    BY <1>6 DEF Before, ExchangeInv, LockedInv
  <2> QED
    BY <2>1
<1>7. LockReported'
  <2>1. ASSUME NEW w \in Validators, HasFirstHash(w)'
        PROVE  /\ HasFirstHash(w)
               /\ store[w].status = "signed" => store'[w].status = "signed"
    BY <1>2, <1>3, <1>6, <2>1 DEF HasFirstHash, FirstHash
  <2>2. ASSUME NEW w \in Validators, HasFirstHash(w)',
               NEW v \in Validators \ {w}, Owes(v, w)
        PROVE  \/ store'[w].status = "signed"
               \/ \E u \in Validators \ {w} : Owes(u, w)'
    <3> SUFFICES ASSUME \A u \in Validators \ {w} : ~Owes(u, w)'
                 PROVE  store'[w].status = "signed"
      OBVIOUS
    <3>1. w = p /\ m.tx.hash = FirstHash
      BY <1>4, <2>2
    <3>2. tx.hash = FirstHash /\ HasLocked(p)
      BY <1>2, <2>1, <2>2, <3>1 DEF HasFirstHash, FirstHash
    <3>3. store[p] # NoTx /\ tx.signatures[p] # NoHash
      BY <1>6, <3>2
    <3>4. Reported(tx) /\ FirstHash # NoHash
      BY <1>1, <3>1, <3>2, <3>3
    <3>5. \A u \in Validators \ {p} : tx.signatures[u] = FirstHash
      <4>1. tx # NoTx
        BY SentinelsAssumption
      <4> QED
        BY <1>2, <1>5, <3>1, <3>2, <4>1 DEF HeardInv, FirstHash
    <3> QED
      BY <1>2, <3>1, <3>3, <3>4, <3>5 DEF Reported, AllSigned
  <2> QED
    BY <2>1, <2>2 DEF Before, Reports, LockReported
<1>8. ResignReported'
  <2>1. ASSUME HasLocked(p), MergeThresholdInReach, broadcast[p] = Idle,
               tx.hash # FirstHash
        PROVE  Reported(tx)
    <3>1. store[p] # NoTx
      BY <1>6, <2>1
    <3>2. CASE store[p].hash # m.tx.hash
      BY <2>1, <3>1, <3>2 DEF Before, Reports, ResignReported
    <3> QED
      BY <3>1, <3>2
  <2> QED
    BY <1>2, <1>3, <2>1 DEF Before, Reports, ResignReported,
       MergeThresholdInReach, Reported, AllSigned, FirstHash
<1> QED
  BY <1>1, <1>2, <1>5, <1>7, <1>8 DEF Before, Reports

LEMMA SubmitSignatureReports ==
  ASSUME Before, NEW p \in Validators, NEW m \in requests,
         SubmitSignature(p, m)
  PROVE  Reports'
<1>1. /\ TypeOK
      /\ SignaturesVerify(m.tx)
      /\ m.tx \in Tx
      /\ p # m.from
      /\ UNCHANGED position
      /\ NoHash \in Nat
  BY DEF Before, ExchangeInv, TypeOK, Quiet, SentInv, SubmitSignature, NoHash
<1>2. SubmitQuorum(Entries) \in Nat
  <2>1. Cardinality(Validators) \in Nat
    BY ValidatorsAssumption, FS_CardinalityType
  <2> QED
    BY <2>1 DEF SubmitQuorum, Entries, ConfiguredEntries
<1>3. CASE SubmitRefused(p, m)
  <2>1. /\ store[p] # NoTx
        /\ store[p].hash # m.tx.hash
        /\ Answer(p, m, NoHash)
        /\ store' = store
    BY <1>1, <1>3 DEF SubmitRefused
  <2>2. store[p] \in Tx /\ store' = [store EXCEPT ![p] = store[p]]
    BY <1>1, <2>1 DEF TypeOK
  <2> QED
    BY <1>1, <2>1, <2>2, ApiReports
<1>4. CASE SubmitToCompleted(p, m)
  BY <1>4 DEF SubmitToCompleted, Before, Open
<1>5. CASE SubmitMerged(p, m)
  <2> DEFINE tx == MarkSigned(SubmittedTx(p, m), SubmitQuorum(Entries))
             sig == store[p].signatures[p]
  <2>1. /\ store[p] # NoTx
        /\ store[p].hash = m.tx.hash
        /\ store' = [store EXCEPT ![p] = tx]
        /\ Answer(p, m, sig)
    BY <1>5 DEF SubmitMerged
  <2>2. /\ tx \in Tx
        /\ tx.hash = store[p].hash
        /\ \A w \in Validators :
             /\ store[p].signatures[w] # NoHash =>
                  tx.signatures[w] = store[p].signatures[w]
             /\ store[p].signatures[w] = NoHash =>
                  tx.signatures[w] = m.tx.signatures[w]
    BY <1>1, <2>1, SubmittedTxFacts, MarkSignedFacts
  <2>3. Reported(tx) /\ (store[p].status = "signed" => tx.status = "signed")
    BY <1>1, <1>2, <2>1, SubmittedTxFacts, MarkSignedReports
  <2>4. sig \in Nat
    BY <1>1, <2>1 DEF TypeOK, Tx
  <2> HIDE DEF tx, sig
  <2>5. \A w \in Validators :
          /\ m.tx.signatures[w] # NoHash => tx.signatures[w] # NoHash
          /\ \/ tx.signatures[w] = store[p].signatures[w]
             \/ /\ store[p].signatures[w] = NoHash
                /\ tx.signatures[w] = m.tx.signatures[w]
    BY <2>2
  <2> QED
    BY <1>1, <2>1, <2>2, <2>3, <2>4, <2>5, ApiReports
<1>6. CASE SubmitAdopted(p, m)
  <2> DEFINE tx == MarkSigned(m.tx, SubmitQuorum(Entries))
  <2>1. /\ store[p] = NoTx
        /\ store' = [store EXCEPT ![p] = tx]
        /\ Answer(p, m, NoHash)
    BY <1>6 DEF SubmitAdopted
  <2>2. tx \in Tx /\ tx.hash = m.tx.hash /\ tx.signatures = m.tx.signatures
    BY <1>1, MarkSignedFacts
  <2> HIDE DEF tx
  <2> QED
    BY <1>1, <2>1, <2>2, ApiReports
<1> QED
  BY <1>3, <1>4, <1>5, <1>6 DEF SubmitSignature

\* The steps of a source streamer; answers to a re-signing are merged with a
\* threshold within reach, if the chain has one.
LEMMA SourceCases ==
  ASSUME NEW n \in Validators, SourceStep(n)
  PROVE  \/ TokensLocked(n)
         \/ \E quorum : RequestNewSignatures(n, quorum)
         \/ IgnoreRequest(n)
         \/ \E kind : \E quorum \in Nat :
              /\ MergeAnswers(n, kind, quorum)
              /\ kind = "request" /\ MergeThresholdInReach =>
                   \/ quorum = SubmitQuorum(Entries)
                   \/ quorum <= Cardinality(Validators)
<1>1. /\ SubmitQuorum(Entries) \in Nat
      /\ LockQuorum(Entries) \in Nat
      /\ RequestQuorum(Entries) \in Nat
  <2>1. Cardinality(Validators) \in Nat
    BY ValidatorsAssumption, FS_CardinalityType
  <2> QED
    BY <2>1 DEF SubmitQuorum, LockQuorum, RequestQuorum, Entries,
       ConfiguredEntries
<1>2. CASE MergeEthereumRequest(n)
  BY <1>1, <1>2 DEF MergeEthereumRequest, MergeThresholdInReach
<1>3. CASE MergeKoinosRequest(n)
  BY <1>1, <1>3 DEF MergeKoinosRequest
<1>4. CASE MergeEthereumLock(n) \/ MergeKoinosLock(n)
  BY <1>1, <1>4 DEF MergeEthereumLock, MergeKoinosLock
<1> QED
  BY <1>2, <1>3, <1>4
  DEF SourceStep, ProcessEthereumTokensLockedEvent,
      ProcessKoinosTokensLockedEvent,
      ProcessEthereumRequestNewSignaturesEvent,
      ProcessRequestNewSignaturesEvent

\* The handlers and the API do not reopen a completed record.
LEMMA OpenBefore ==
  ASSUME ExchangeInv, Open', NEW n \in Validators,
         \/ TokensLocked(n)
         \/ \E quorum : RequestNewSignatures(n, quorum)
         \/ \E kind, quorum : MergeAnswers(n, kind, quorum)
         \/ \E m \in requests : SubmitSignature(n, m)
  PROVE  Open
<1>1. TypeOK
  BY DEF ExchangeInv
<1>2. \A w \in Validators \ {n} : store'[w] = store[w]
  BY <1>1, OtherRecordsStay
<1> SUFFICES ASSUME store[n] # NoTx, store[n].status = "completed"
             PROVE  store'[n] # NoTx /\ store'[n].status = "completed"
  BY <1>2 DEF Open
<1>3. CASE UNCHANGED store
  BY <1>3
<1>4. CASE TokensLocked(n)
  <2>1. /\ position[n] < Len(SourceLog)
        /\ store'[n] = LockedTx(n)
    BY <1>1, <1>4 DEF TokensLocked, Reads, TypeOK
  <2> QED
    BY <1>1, <2>1, LockedTxFacts, SentinelsAssumption
<1>5. CASE \E quorum : RequestNewSignatures(n, quorum)
  BY <1>5 DEF RequestNewSignatures, RequestAllowed
<1>6. CASE \E kind, quorum : MergeAnswers(n, kind, quorum)
  <2>1. broadcast[n] # Idle /\ store'[n] = MergedTx(n)
    BY <1>1, <1>6 DEF MergeAnswers, TypeOK
  <2> QED
    BY <1>1, <2>1, MergedTxFacts, SentinelsAssumption
<1>7. CASE \E m \in requests : SubmitSignature(n, m)
  BY <1>3, <1>7 DEF SubmitSignature, SubmitRefused, SubmitToCompleted,
     SubmitMerged, SubmitAdopted
<1> QED
  BY <1>4, <1>5, <1>6, <1>7

LEMMA CompletionCloses ==
  ASSUME TypeOK, NEW n \in Validators, TransferCompletedEvent(n)
  PROVE  ~Open'
<1>1. CASE store[n] = NoTx
  <2> DEFINE tx == [status |-> "completed", hash |-> NoHash,
                    signatures |-> NoSignatures, surplus |-> 0]
  <2>1. tx \in Tx /\ store'[n] = tx
    BY <1>1, NoSignaturesFacts
    DEF TypeOK, TransferCompletedEvent, Tx, Status, NoHash
  <2> QED
    BY <2>1, SentinelsAssumption DEF Open
<1>2. CASE store[n] # NoTx
  <2> DEFINE tx == [store[n] EXCEPT !.status = "completed"]
  <2>1. store[n] \in Tx /\ store'[n] = tx
    BY <1>2 DEF TypeOK, TransferCompletedEvent
  <2>2. tx \in Tx /\ tx.status = "completed"
    BY <2>1 DEF Tx, Status
  <2> HIDE DEF tx
  <2> QED
    BY <2>1, <2>2, SentinelsAssumption DEF Open
<1> QED
  BY <1>1, <1>2

LEMMA NextReports ==
  ASSUME ExchangeInv, GenuineInv, HashInv, QuietInv, ReportsInv, Next
  PROVE  ReportsInv'
<1> SUFFICES ASSUME ~NetworkFails, restarts' = 0, Open'
             PROVE  Reports'
  BY DEF ReportsInv
<1>1. TypeOK
  BY DEF ExchangeInv
<1>2. \A n \in Validators : ~Crash(n) /\ ~GracefulRestart(n)
  BY <1>1 DEF Crash, GracefulRestart, CountRestart, TypeOK
<1>3. restarts = 0
  BY <1>2, StepCases
  DEF TokensLocked, RequestNewSignatures, IgnoreRequest, MergeAnswers,
      TransferCompletedEvent, PeerFails, SubmitSignature, CompleteTransfer,
      ProcessStep, PanicOnHashMismatch
<1>4. Quiet
  BY <1>3 DEF QuietInv
<1>5. ASSUME Open PROVE Before
  BY <1>3, <1>4, <1>5 DEF Before, ReportsInv
<1>6. ASSUME NEW n \in Validators, SourceStep(n) PROVE Reports'
  <2>1. CASE IgnoreRequest(n)
    <3>1. Open /\ UNCHANGED <<store, broadcast>>
      BY <2>1 DEF IgnoreRequest, Open
    <3>2. /\ position[n] \in Nat /\ position[n] # 0
          /\ position' = [position EXCEPT ![n] = @ + 1]
      BY <1>1, <2>1, EventFacts DEF IgnoreRequest, Reads, TypeOK
    <3>3. /\ \A w \in Validators : position'[w] = 0 <=> position[w] = 0
          /\ \A w \in Validators : position'[w] > 0 <=> position[w] > 0
      BY <1>1, <3>2 DEF TypeOK
    <3> QED
      BY <1>5, <3>1, <3>3, ReportsStable DEF Before
  <2>2. CASE ~IgnoreRequest(n)
    <3>1. Before
      BY <1>5, <1>6, <2>2, SourceCases, OpenBefore
    <3> QED
      BY <1>6, <2>2, <3>1, SourceCases, TokensLockedReports,
         RequestNewSignaturesReports, MergeAnswersReports
  <2> QED
    BY <2>1, <2>2
<1>7. ASSUME NEW p \in Validators, NEW m \in requests, SubmitSignature(p, m)
      PROVE  Reports'
  BY <1>5, <1>7, OpenBefore, SubmitSignatureReports
<1>8. CASE CompleteTransfer
  <2>1. Open /\ UNCHANGED <<store, broadcast, position>>
    BY <1>8 DEF CompleteTransfer, Open
  <2> QED
    BY <1>5, <2>1, ReportsStable DEF Before
<1>9. \A n \in Validators : ~DestinationStep(n)
  BY <1>1, CompletionCloses
  DEF DestinationStep, ProcessKoinosTransferCompletedEvent,
      ProcessEthereumTransferCompletedEvent
<1>10. \A n, p \in Validators : ~PeerFails(n, p)
  BY DEF PeerFails
<1>11. \A n \in Validators : ~ProcessStep(n)
  BY <1>1, <1>2, <1>4, NoMismatch DEF ProcessStep, PanicOnHashMismatch, Quiet
<1> QED
  BY <1>6, <1>7, <1>8, <1>9, <1>10, <1>11
  DEF Next, ApiStep, SubmitEthereumSignature, SubmitKoinosSignature

LEMMA ReportsInvariant == Spec => []ReportsInv
<1>1. Init => ReportsInv
  BY DEF Init, ReportsInv, Reports, HeardInv, LockReported, HasFirstHash,
     ResignReported, HasLocked
<1>2. /\ ExchangeInv /\ GenuineInv /\ HashInv /\ QuietInv
      /\ ReportsInv /\ [Next]_vars
      => ReportsInv'
  <2> SUFFICES ASSUME ExchangeInv, GenuineInv, HashInv, QuietInv, ReportsInv,
                      [Next]_vars
               PROVE  ReportsInv'
    OBVIOUS
  <2>1. CASE UNCHANGED vars
    <3>1. Open' => Open
      BY <2>1 DEF vars, Open
    <3> QED
      BY <2>1, <3>1, ReportsStable DEF vars, ReportsInv
  <2> QED
    BY <2>1, NextReports
<1> QED
  BY <1>1, <1>2, ExchangeInvariant, GenuineInvariant, HashInvariant,
     QuietInvariant, PTL DEF Spec

\* When all validators have handled the same events, one at most does not
\* report the transfer signed, for any number of validators and in whatever
\* order they lock, re-sign, call and answer.
THEOREM AllButOneSigned == Spec => []AllButOneReportSigned
<1>1. ExchangeInv /\ HashInv /\ QuietInv /\ ReportsInv => AllButOneReportSigned
  <2> SUFFICES ASSUME ExchangeInv, HashInv, QuietInv, ReportsInv,
                      ~NetworkFails, restarts = 0, MergeThresholdInReach,
                      NEW n \in Validators, NEW w \in Validators, n # w,
                      AllSettledAt(position[n])
               PROVE  "signed" \in {store[n].status, store[w].status}
    BY DEF AllButOneReportSigned
  <2>1. \A v \in Validators :
          /\ position[v] = position[n] /\ position[v] > 0
          /\ broadcast[v] = Idle
          /\ store[v].status # "completed"
    BY DEF AllSettledAt, Settled
  <2>2. Before
    BY <2>1 DEF Before, ReportsInv, QuietInv, Open
  <2>3. \A v \in Validators :
          /\ HasLocked(v) /\ Signing(v)
          /\ store[v].hash # NoHash
          /\ store[v].signatures[v] = store[v].hash
    BY <2>1 DEF HasLocked, Signing, ExchangeInv, LockedInv
  <2>4. \A v \in Validators : store[v].hash = store[n].hash
    <3>1. \A v \in Validators : Handled(v) = Handled(n)
      BY <2>1 DEF Handled
    <3> QED
      BY <2>3, <3>1 DEF HashInv
  <2>5. CASE store[n].hash = FirstHash
    <3>1. HasFirstHash(n) /\ HasFirstHash(w)
      BY <2>3, <2>4, <2>5 DEF HasFirstHash
    <3>2. \A v, x \in Validators : ~Owes(v, x)
      BY <2>1, <2>2 DEF Owes, Before, ExchangeInv, TypeOK
    <3> QED
      BY <2>2, <3>1, <3>2 DEF Before, Reports, LockReported
  <2>6. CASE store[n].hash # FirstHash
    <3>1. \A v \in Validators : store[n].signatures[v] = store[n].hash
      BY <2>1, <2>2, <2>3, <2>4 DEF Before, Quiet, SpreadInv, Reaches
    <3>2. Reported(store[n])
      BY <2>1, <2>2, <2>3, <2>6 DEF Before, Reports, ResignReported
    <3> QED
      BY <2>3, <3>1, <3>2 DEF Reported, AllSigned
  <2> QED
    BY <2>5, <2>6
<1> QED
  BY <1>1, ExchangeInvariant, HashInvariant, QuietInvariant, ReportsInvariant,
     PTL
=============================================================================
