------------------------- MODULE SignedHashesProofs -------------------------
(***************************************************************************)
(* Where the signatures and the hashes of the records come from.  Every    *)
(* listed signature was made by the streamer of its validator, and the     *)
(* hashes that are ever signed are those that the source log alone         *)
(* determines, whatever the validators adopt, merge, replay or wipe.       *)
(***************************************************************************)
EXTENDS SignatureExchangeProofs, FiniteSetTheorems, WellFoundedInduction

-----------------------------------------------------------------------------
(* Where signatures come from.                                             *)

\* v has signed h on its own, after reading it from the source chain.
SignedOnce(v, h) == \E m \in requests : m.from = v /\ m.tx.hash = h

\* A signature that is listed or awaited was made by its validator.
Genuine(signatures) ==
  \A v \in Validators :
    signatures[v] # NoHash => SignedOnce(v, signatures[v])

GenuineInv ==
  /\ \A n \in Validators : store[n] # NoTx => Genuine(store[n].signatures)
  /\ \A m \in requests : Genuine(m.tx.signatures)
  /\ \A n \in Validators : broadcast[n] # Idle => Genuine(broadcast[n].answers)

\* Sources of the signature that n's record lists for v after a step.
ListedBefore(n, v, sig) == store[n] # NoTx /\ sig = store[n].signatures[v]
AnsweredBefore(n, v, sig) ==
  broadcast[n] # Idle /\ sig = broadcast[n].answers[v]
SentBefore(v, sig) == \E m \in requests : sig = m.tx.signatures[v]

\* A streamer's first half lists a signature of its own and keeps others.
LEMMA FirstHalfSources ==
  ASSUME ExchangeInv, NEW n \in Validators, NEW tx \in Tx,
         store' = [store EXCEPT ![n] = tx],
         StartBroadcast(n, tx),
         tx.signatures[n] = tx.hash,
         \A v \in Validators \ {n} :
           tx.signatures[v] = NoHash \/ ListedBefore(n, v, tx.signatures[v]),
         GenuineInv
  PROVE  GenuineInv'
<1>1. TypeOK
  BY DEF ExchangeInv
<1>2. /\ store'[n] = tx
      /\ \A w \in Validators \ {n} : store'[w] = store[w]
  BY <1>1 DEF TypeOK
<1>3. requests' = requests \cup {[from |-> n, tx |-> tx]}
  BY DEF StartBroadcast
<1>4. \A v \in Validators : \A h : SignedOnce(v, h) => SignedOnce(v, h)'
  BY <1>3 DEF SignedOnce
<1>5. SignedOnce(n, tx.hash)'
  <2> DEFINE new == [from |-> n, tx |-> tx]
  <2>1. new \in requests' /\ new.from = n /\ new.tx.hash = tx.hash
    BY <1>3
  <2> QED
    BY <2>1 DEF SignedOnce
<1>6. Genuine(tx.signatures)'
  BY <1>4, <1>5 DEF Genuine, GenuineInv, ListedBefore
<1>7. \A w \in Validators : store'[w] # NoTx => Genuine(store[w].signatures)'
  BY <1>2, <1>4, <1>6 DEF Genuine, GenuineInv
<1>8. \A m \in requests' : Genuine(m.tx.signatures)'
  BY <1>3, <1>4, <1>6 DEF Genuine, GenuineInv
<1>9. \A w \in Validators : broadcast'[w] # Idle => Genuine(broadcast[w].answers)'
  BY <1>1, <1>4, StartBroadcastFacts DEF Genuine, GenuineInv
<1> QED
  BY <1>7, <1>8, <1>9 DEF GenuineInv

\* Any other step moves signatures that exist.
LEMMA OtherSources ==
  ASSUME GenuineInv, requests' = requests,
         \A n \in Validators : store'[n] # NoTx =>
           \A v \in Validators : LET sig == store'[n].signatures[v] IN
             \/ sig = NoHash
             \/ ListedBefore(n, v, sig)
             \/ AnsweredBefore(n, v, sig)
             \/ SentBefore(v, sig),
         \A n \in Validators : broadcast'[n] # Idle =>
           \A v \in Validators : LET sig == broadcast'[n].answers[v] IN
             \/ sig = NoHash
             \/ AnsweredBefore(n, v, sig)
             \/ ListedBefore(v, v, sig)
  PROVE  GenuineInv'
<1>1. \A v \in Validators : \A h : SignedOnce(v, h)' = SignedOnce(v, h)
  BY DEF SignedOnce
<1>2. ASSUME NEW n \in Validators, store'[n] # NoTx
      PROVE  Genuine(store[n].signatures)'
  BY <1>1, <1>2 DEF Genuine, GenuineInv, ListedBefore, AnsweredBefore, SentBefore
<1>3. \A m \in requests' : Genuine(m.tx.signatures)'
  BY <1>1 DEF Genuine, GenuineInv
<1>4. ASSUME NEW n \in Validators, broadcast'[n] # Idle
      PROVE  Genuine(broadcast[n].answers)'
  BY <1>1, <1>4 DEF Genuine, GenuineInv, ListedBefore, AnsweredBefore
<1> QED
  BY <1>2, <1>3, <1>4 DEF GenuineInv

LEMMA TokensLockedGenuine ==
  ASSUME ExchangeInv, GenuineInv, NEW n \in Validators, TokensLocked(n)
  PROVE  GenuineInv'
<1> DEFINE tx == LockedTx(n)
<1>1. /\ TypeOK
      /\ position[n] < Len(SourceLog)
      /\ store' = [store EXCEPT ![n] = tx]
      /\ StartBroadcast(n, tx)
  BY DEF ExchangeInv, TokensLocked, Reads
<1>2. tx \in Tx /\ tx.signatures[n] = tx.hash
  BY <1>1, LockedTxFacts
<1>3. \A v \in Validators \ {n} :
        tx.signatures[v] = NoHash \/ ListedBefore(n, v, tx.signatures[v])
  BY <1>1, LockedTxFacts DEF ListedBefore
<1> HIDE DEF tx
<1> QED
  BY <1>1, <1>2, <1>3, FirstHalfSources

LEMMA RequestNewSignaturesGenuine ==
  ASSUME ExchangeInv, GenuineInv, NEW n \in Validators, NEW quorum,
         RequestNewSignatures(n, quorum)
  PROVE  GenuineInv'
<1> DEFINE tx == MarkSigned(ResignedTx(n), quorum)
<1>1. /\ TypeOK
      /\ store[n] # NoTx
      /\ position[n] < Len(SourceLog)
      /\ store' = [store EXCEPT ![n] = tx]
      /\ StartBroadcast(n, tx)
  BY DEF ExchangeInv, RequestNewSignatures, Reads, RequestAllowed
<1>2. /\ tx \in Tx
      /\ tx.signatures[n] = tx.hash
      /\ \A v \in Validators \ {n} :
           tx.signatures[v] = NoHash \/ ListedBefore(n, v, tx.signatures[v])
  BY <1>1, ResignedTxFacts, MarkSignedFacts DEF ListedBefore
<1> HIDE DEF tx
<1> QED
  BY <1>1, <1>2, FirstHalfSources

LEMMA MergeAnswersGenuine ==
  ASSUME ExchangeInv, GenuineInv, NEW n \in Validators, NEW kind, NEW quorum,
         MergeAnswers(n, kind, quorum)
  PROVE  GenuineInv'
<1> DEFINE tx == IF store[n].status = "completed" THEN MergedTx(n)
                 ELSE MarkSigned(MergedTx(n), quorum)
<1>1. /\ TypeOK
      /\ broadcast[n] # Idle
      /\ store[n] # NoTx
      /\ store' = [store EXCEPT ![n] = tx]
      /\ broadcast' = [broadcast EXCEPT ![n] = Idle]
      /\ requests' = requests
  BY DEF ExchangeInv, BroadcastInv, MergeAnswers
<1>2. tx.signatures = MergedTx(n).signatures
  BY <1>1, MergedTxFacts, MarkSignedFacts
<1>3. \A v \in Validators : \/ ListedBefore(n, v, tx.signatures[v])
                            \/ AnsweredBefore(n, v, tx.signatures[v])
  BY <1>1, <1>2, MergedTxFacts DEF ListedBefore, AnsweredBefore
<1> HIDE DEF tx
<1>4. /\ store'[n] = tx
      /\ \A w \in Validators \ {n} : store'[w] = store[w]
      /\ broadcast'[n] = Idle
      /\ \A w \in Validators \ {n} : broadcast'[w] = broadcast[w]
  BY <1>1 DEF TypeOK
<1>5. \A w \in Validators \ {n} : \A v \in Validators : store[w] # NoTx =>
        ListedBefore(w, v, store[w].signatures[v])
  BY DEF ListedBefore
<1>6. \A w \in Validators \ {n} : \A v \in Validators : broadcast[w] # Idle =>
        AnsweredBefore(w, v, broadcast[w].answers[v])
  BY DEF AnsweredBefore
<1>7. ASSUME NEW w \in Validators, store'[w] # NoTx, NEW v \in Validators
      PROVE  \/ ListedBefore(w, v, store'[w].signatures[v])
             \/ AnsweredBefore(w, v, store'[w].signatures[v])
  BY <1>3, <1>4, <1>5, <1>7
<1>8. ASSUME NEW w \in Validators, broadcast'[w] # Idle, NEW v \in Validators
      PROVE  AnsweredBefore(w, v, broadcast'[w].answers[v])
  BY <1>4, <1>6, <1>8
<1> QED
  BY <1>1, <1>7, <1>8, OtherSources

\* The signature p answers with is the one it lists for itself.
LEMMA AnswerSources ==
  ASSUME TypeOK, NEW p \in Validators, NEW m \in requests, NEW sig \in Nat,
         sig = NoHash \/ ListedBefore(p, p, sig), Answer(p, m, sig),
         NEW n \in Validators, broadcast'[n] # Idle, NEW v \in Validators
  PROVE  LET answer == broadcast'[n].answers[v] IN
           \/ answer = NoHash
           \/ AnsweredBefore(n, v, answer)
           \/ ListedBefore(v, v, answer)
<1>1. broadcast[n] # Idle
  BY AnswerFacts
<1>2. \/ broadcast'[n].answers[v] = broadcast[n].answers[v]
      \/ v = p /\ broadcast'[n].answers[v] = sig
  BY <1>1, AnswerFacts
<1> QED
  BY <1>1, <1>2 DEF AnsweredBefore

LEMMA SubmitSignatureGenuine ==
  ASSUME ExchangeInv, GenuineInv, NEW p \in Validators, NEW m \in requests,
         SubmitSignature(p, m)
  PROVE  GenuineInv'
<1>1. TypeOK /\ m.tx \in Tx /\ requests' = requests
  BY DEF ExchangeInv, TypeOK, SubmitSignature
<1>2. store[p] # NoTx => store[p] \in Tx /\ store[p].signatures[p] \in Nat
  BY <1>1 DEF TypeOK, Tx
<1>3. PICK sig \in Nat :
        (sig = NoHash \/ ListedBefore(p, p, sig)) /\ Answer(p, m, sig)
  BY <1>2 DEF SubmitSignature, SubmitRefused, SubmitToCompleted, SubmitMerged,
     SubmitAdopted, ListedBefore, NoHash
<1>4. ASSUME NEW n \in Validators, broadcast'[n] # Idle, NEW v \in Validators
      PROVE  LET answer == broadcast'[n].answers[v] IN
               \/ answer = NoHash
               \/ AnsweredBefore(n, v, answer)
               \/ ListedBefore(v, v, answer)
  BY <1>1, <1>3, <1>4, AnswerSources
<1>5. \A w \in Validators \ {p} : store'[w] = store[w]
  BY <1>1, OtherRecordsStay
<1>6. \A w, v \in Validators : store[w] # NoTx =>
        ListedBefore(w, v, store[w].signatures[v])
  BY DEF ListedBefore
<1>7. ASSUME store'[p] # NoTx, NEW v \in Validators
      PROVE  \/ ListedBefore(p, v, store'[p].signatures[v])
             \/ SentBefore(v, store'[p].signatures[v])
  <2>1. CASE SubmitRefused(p, m) \/ SubmitToCompleted(p, m)
    BY <1>6, <1>7, <2>1 DEF SubmitRefused, SubmitToCompleted
  <2>2. CASE SubmitMerged(p, m)
    <3>1. /\ store[p] # NoTx
          /\ store'[p] = MarkSigned(SubmittedTx(p, m), SubmitQuorum(Entries))
      BY <1>1, <2>2 DEF SubmitMerged, TypeOK
    <3>2. store'[p].signatures = SubmittedTx(p, m).signatures
      BY <1>1, <3>1, SubmittedTxFacts, MarkSignedFacts
    <3> QED
      BY <1>1, <3>1, <3>2, SubmittedTxFacts DEF ListedBefore, SentBefore
  <2>3. CASE SubmitAdopted(p, m)
    <3>1. store'[p] = MarkSigned(m.tx, SubmitQuorum(Entries))
      BY <1>1, <2>3 DEF SubmitAdopted, TypeOK
    <3> QED
      BY <1>1, <3>1, MarkSignedFacts DEF SentBefore
  <2> QED
    BY <2>1, <2>2, <2>3 DEF SubmitSignature
<1>8. ASSUME NEW w \in Validators, store'[w] # NoTx, NEW v \in Validators
      PROVE  \/ ListedBefore(w, v, store'[w].signatures[v])
             \/ SentBefore(v, store'[w].signatures[v])
  BY <1>5, <1>6, <1>7, <1>8
<1> QED
  BY <1>1, <1>4, <1>8, OtherSources

\* The remaining actions leave the signatures of a record alone or drop them.
LEMMA RemainingGenuine ==
  ASSUME GenuineInv, requests' = requests,
         \A n \in Validators : store'[n] # NoTx =>
           \/ \A v \in Validators : store'[n].signatures[v] = NoHash
           \/ store[n] # NoTx /\ store'[n].signatures = store[n].signatures,
         \A n \in Validators : broadcast'[n] # Idle =>
           broadcast[n] # Idle /\ broadcast'[n].answers = broadcast[n].answers
  PROVE  GenuineInv'
<1>1. ASSUME NEW n \in Validators, store'[n] # NoTx, NEW v \in Validators
      PROVE  \/ store'[n].signatures[v] = NoHash
             \/ ListedBefore(n, v, store'[n].signatures[v])
  BY <1>1 DEF ListedBefore
<1>2. ASSUME NEW n \in Validators, broadcast'[n] # Idle, NEW v \in Validators
      PROVE  AnsweredBefore(n, v, broadcast'[n].answers[v])
  BY <1>2 DEF AnsweredBefore
<1> QED
  BY <1>1, <1>2, OtherSources

LEMMA NextGenuine ==
  ASSUME ExchangeInv, GenuineInv, Next
  PROVE  GenuineInv'
<1>1. TypeOK
  BY DEF ExchangeInv
<1>2. ASSUME NEW n \in Validators, TokensLocked(n) PROVE GenuineInv'
  BY <1>2, TokensLockedGenuine
<1>3. ASSUME NEW n \in Validators, NEW quorum, RequestNewSignatures(n, quorum)
      PROVE  GenuineInv'
  BY <1>3, RequestNewSignaturesGenuine
<1>4. ASSUME NEW n \in Validators, NEW kind, NEW quorum,
             MergeAnswers(n, kind, quorum)
      PROVE  GenuineInv'
  BY <1>4, MergeAnswersGenuine
<1>5. ASSUME NEW n \in Validators, IgnoreRequest(n) PROVE GenuineInv'
  BY <1>5, RemainingGenuine DEF IgnoreRequest
<1>6. ASSUME NEW n \in Validators, NEW p \in Validators, PeerFails(n, p)
      PROVE  GenuineInv'
  <2>1. \A w \in Validators : broadcast'[w] # Idle =>
          /\ broadcast[w] # Idle
          /\ broadcast'[w].answers = broadcast[w].answers
    BY <1>1, <1>6 DEF PeerFails, TypeOK, Broadcast
  <2> QED
    BY <1>6, <2>1, RemainingGenuine DEF PeerFails
<1>7. ASSUME NEW n \in Validators, TransferCompletedEvent(n) PROVE GenuineInv'
  <2>1. ASSUME NEW w \in Validators, store'[w] # NoTx
        PROVE  \/ \A v \in Validators : store'[w].signatures[v] = NoHash
               \/ store[w] # NoTx /\ store'[w].signatures = store[w].signatures
    BY <1>1, <1>7, <2>1, NoSignaturesFacts DEF TransferCompletedEvent, TypeOK, Tx
  <2> QED
    BY <1>7, <2>1, RemainingGenuine DEF TransferCompletedEvent
<1>8. ASSUME NEW p \in Validators, NEW m \in requests, SubmitSignature(p, m)
      PROVE  GenuineInv'
  BY <1>8, SubmitSignatureGenuine
<1>9. CASE CompleteTransfer
  BY <1>9, RemainingGenuine DEF CompleteTransfer
<1>10. ASSUME NEW n \in Validators, ProcessStep(n) PROVE GenuineInv'
  <2>1. PICK c : StartAt(n, c)
    BY <1>10 DEF ProcessStep, Crash, PanicOnHashMismatch, GracefulRestart
  <2>2. /\ \A w \in Validators : store'[w] # NoTx => store'[w] = store[w]
        /\ \A w \in Validators :
             broadcast'[w] # Idle => broadcast'[w] = broadcast[w]
        /\ requests' = requests
    BY <1>1, <2>1 DEF StartAt, TypeOK
  <2> QED
    BY <2>2, RemainingGenuine
<1> QED
  BY <1>2, <1>3, <1>4, <1>5, <1>6, <1>7, <1>8, <1>9, <1>10, StepCases

\* Every signature that is listed anywhere was made by its validator.
LEMMA GenuineInvariant == Spec => []GenuineInv
<1>1. Init => GenuineInv
  BY DEF Init, GenuineInv
<1>2. ExchangeInv /\ GenuineInv /\ [Next]_vars => GenuineInv'
  <2> SUFFICES ASSUME ExchangeInv, GenuineInv, [Next]_vars PROVE GenuineInv'
    OBVIOUS
  <2>1. CASE UNCHANGED vars
    BY <2>1 DEF vars, GenuineInv, Genuine, SignedOnce
  <2> QED
    BY <2>1, NextGenuine
<1> QED
  BY <1>1, <1>2, ExchangeInvariant, PTL DEF Spec

\* Finitely many validators sign a hash, and they stay its signers.
LEMMA SignedByFacts ==
  ASSUME NEW h
  PROVE  IsFiniteSet(SignedBy(h)) /\ Cardinality(SignedBy(h)) \in Nat
BY ValidatorsAssumption, FS_Subset, FS_CardinalityType DEF SignedBy

\* An accepted quorum consists of validators that have signed the hash.
LEMMA CompleteTransferNeedsLocks ==
  ASSUME ExchangeInv, GenuineInv, CompleteTransfer
  PROVE  CompletionNeedsLocks'
<1>1. PICK n \in Validators :
        /\ store[n] # NoTx
        /\ Cardinality(ValidSigners(store[n])) >= SubmitQuorum(Entries)
  BY DEF CompleteTransfer
<1> DEFINE h == store[n].hash
<1>2. UNCHANGED requests
  BY DEF CompleteTransfer
<1>3. ValidSigners(store[n]) \subseteq SignedBy(h)
  BY <1>1 DEF ValidSigners, Signers, GenuineInv, Genuine, SignedOnce, SignedBy
<1>4. Cardinality(ValidSigners(store[n])) <= Cardinality(SignedBy(h))
  BY <1>3, SignedByFacts, FS_Subset
<1>5. /\ SubmitQuorum(Entries) \in Nat
      /\ SubmitQuorum(Entries) >= 1
  <2>1. Cardinality(Validators) \in Nat
    BY ValidatorsAssumption, FS_CardinalityType
  <2> QED
    BY <2>1 DEF SubmitQuorum, Entries, ConfiguredEntries
<1>6. Cardinality(ValidSigners(store[n])) \in Nat
  BY <1>3, SignedByFacts, FS_Subset, FS_CardinalityType
<1>7. Cardinality(SignedBy(h)) >= SubmitQuorum(Entries)
  BY <1>1, <1>4, <1>5, <1>6, SignedByFacts
<1>8. h \in {m.tx.hash : m \in requests}
  <2>1. SignedBy(h) # {}
    BY <1>5, <1>7, FS_EmptySet
  <2> QED
    BY <2>1 DEF SignedBy
<1> QED
  BY <1>2, <1>7, <1>8 DEF CompletionNeedsLocks, SignedBy

\* A step only adds requests.
LEMMA RequestsGrow ==
  ASSUME Next
  PROVE  requests \subseteq requests'
BY StepCases DEF TokensLocked, RequestNewSignatures, StartBroadcast,
   IgnoreRequest, MergeAnswers, TransferCompletedEvent, PeerFails,
   SubmitSignature, CompleteTransfer, ProcessStep, Crash, GracefulRestart,
   PanicOnHashMismatch, StartAt

LEMMA SignedByGrows ==
  ASSUME requests \subseteq requests', CompletionNeedsLocks, transferCompleted
  PROVE  CompletionNeedsLocks'
<1>1. PICK h \in {m.tx.hash : m \in requests} :
        Cardinality(SignedBy(h)) >= SubmitQuorum(Entries)
  BY DEF CompletionNeedsLocks
<1> DEFINE later == {w \in Validators :
                      \E m \in requests' : m.from = w /\ m.tx.hash = h}
<1>2. SignedBy(h) \subseteq later
  BY DEF SignedBy
<1>3. IsFiniteSet(later) /\ Cardinality(later) \in Nat
  BY ValidatorsAssumption, FS_Subset, FS_CardinalityType
<1>4. Cardinality(SignedBy(h)) <= Cardinality(later)
  BY <1>2, <1>3, FS_Subset
<1>5. SubmitQuorum(Entries) \in Nat
  <2>1. Cardinality(Validators) \in Nat
    BY ValidatorsAssumption, FS_CardinalityType
  <2> QED
    BY <2>1 DEF SubmitQuorum, Entries, ConfiguredEntries
<1>6. Cardinality(later) >= SubmitQuorum(Entries)
  BY <1>1, <1>3, <1>4, <1>5, SignedByFacts
<1>7. h \in {m.tx.hash : m \in requests'}
  BY <1>1
<1> QED
  BY <1>6, <1>7 DEF CompletionNeedsLocks, SignedBy

\* The transfer becomes completed by the destination chain alone.
LEMMA CompletedByTheChain ==
  ASSUME Next, ~CompleteTransfer
  PROVE  UNCHANGED transferCompleted
BY StepCases DEF TokensLocked, RequestNewSignatures, IgnoreRequest,
   MergeAnswers, TransferCompletedEvent, PeerFails, SubmitSignature,
   ProcessStep, Crash, GracefulRestart, PanicOnHashMismatch, StartAt

\* Behind every completed transfer there is a quorum of validators that read
\* the event on the source chain themselves: adopting or merging a record never
\* stands in for it.
THEOREM CompletionHasLocks == Spec => []CompletionNeedsLocks
<1>1. Init => CompletionNeedsLocks
  BY DEF Init, CompletionNeedsLocks
<1>2. ExchangeInv /\ GenuineInv /\ CompletionNeedsLocks /\ [Next]_vars
        => CompletionNeedsLocks'
  <2> SUFFICES ASSUME ExchangeInv, GenuineInv, CompletionNeedsLocks,
                      [Next]_vars
               PROVE  CompletionNeedsLocks'
    OBVIOUS
  <2>1. CASE UNCHANGED vars
    BY <2>1 DEF vars, CompletionNeedsLocks, SignedBy
  <2>2. CASE CompleteTransfer
    BY <2>2, CompleteTransferNeedsLocks
  <2>3. CASE Next /\ ~CompleteTransfer
    <3>1. UNCHANGED transferCompleted /\ requests \subseteq requests'
      BY <2>3, CompletedByTheChain, RequestsGrow
    <3>2. CASE transferCompleted
      BY <3>1, <3>2, SignedByGrows
    <3>3. CASE ~transferCompleted
      BY <3>1, <3>3 DEF CompletionNeedsLocks
    <3> QED
      BY <3>2, <3>3
  <2> QED
    BY <2>1, <2>2, <2>3
<1> QED
  BY <1>1, <1>2, ExchangeInvariant, GenuineInvariant, PTL DEF Spec

-----------------------------------------------------------------------------
(* The hashes of the log.                                                  *)

\* A non-empty set of naturals has a least element.
LEMMA LeastNatural ==
  ASSUME NEW T \in SUBSET Nat, T # {}
  PROVE  \E x \in T : \A y \in T : x <= y
<1>1. PICK x \in T : \A y \in T : <<y, x>> \notin OpToRel(<, Nat)
  BY NatLessThanWellFounded, WFMin
<1>2. \A y \in T : ~(y < x)
  BY <1>1 DEF OpToRel
<1> QED
  BY <1>2

\* The hash of an uncompleted record after the first i events of the source
\* log: an event renews it when it comes an expiration time after its end.
HashAfter[i \in 1..Len(SourceLog)] ==
  IF i = 1 \/ SourceLog[i].time >= HashAfter[i - 1] + SignaturesExpiration
  THEN SourceLog[i].time + SignaturesExpiration
  ELSE HashAfter[i - 1]

\* The same for a function on a prefix of the log.
NextHash(f, i) ==
  IF i = 1 \/ SourceLog[i].time >= f[i - 1] + SignaturesExpiration
  THEN SourceLog[i].time + SignaturesExpiration
  ELSE f[i - 1]

LEMMA LogFacts ==
  /\ Len(SourceLog) \in Nat
  /\ SignaturesExpiration \in Nat \ {0}
  /\ \A i \in 1..Len(SourceLog) : SourceLog[i].time \in Nat
<1>1. \A i \in 1..Len(SourceLog) : SourceLog[i] \in Event
  BY SourceLogAssumption
<1>2. \A i \in 1..Len(SourceLog) : SourceLog[i].time \in Nat
  BY <1>1 DEF Event
<1> QED
  BY <1>2, SourceLogAssumption, OptionsAssumption

\* The recursion has a solution on every prefix: there is no shortest one
\* without.
LEMMA HashesExist ==
  ASSUME NEW k \in 0..Len(SourceLog)
  PROVE  \E f \in [1..k -> Nat] : \A i \in 1..k : f[i] = NextHash(f, i)
<1> DEFINE Solved(j) == \E f \in [1..j -> Nat] :
                          \A i \in 1..j : f[i] = NextHash(f, i)
           Unsolved == {j \in 0..Len(SourceLog) : ~Solved(j)}
<1> SUFFICES ASSUME Unsolved # {} PROVE FALSE
  OBVIOUS
<1>1. /\ Len(SourceLog) \in Nat
      /\ SignaturesExpiration \in Nat
      /\ \A i \in 1..Len(SourceLog) : SourceLog[i].time \in Nat
  BY LogFacts
<1>2. PICK j \in Unsolved : \A x \in Unsolved : j <= x
  <2>1. Unsolved \in SUBSET Nat
    BY <1>1
  <2> QED
    BY <2>1, LeastNatural
<1>3. Solved(0)
  <2>1. [i \in 1..0 |-> 0] \in [1..0 -> Nat]
    OBVIOUS
  <2>2. \A i \in 1..0 : FALSE
    OBVIOUS
  <2> QED
    BY <2>1, <2>2
<1>4. j # 0 /\ j \in 0..Len(SourceLog) /\ ~Solved(j)
  BY <1>3
<1>5. Solved(j - 1)
  <2>1. j - 1 \in 0..Len(SourceLog) /\ ~(j <= j - 1)
    BY <1>1, <1>4
  <2> HIDE DEF Solved
  <2> QED
    BY <1>2, <2>1
<1>6. PICK f \in [1..(j - 1) -> Nat] :
        \A i \in 1..(j - 1) : f[i] = NextHash(f, i)
  BY <1>5
<1> DEFINE g == [i \in 1..j |-> IF i = j THEN NextHash(f, j) ELSE f[i]]
<1>7. NextHash(f, j) \in Nat
  <2>1. j # 1 => j - 1 \in 1..(j - 1)
    BY <1>1, <1>4
  <2> QED
    BY <1>1, <1>4, <2>1 DEF NextHash
<1>8. g \in [1..j -> Nat]
  BY <1>1, <1>4, <1>7
<1>9. ASSUME NEW i \in 1..j PROVE g[i] = NextHash(g, i)
  <2>1. i # 1 => i - 1 \in 1..j /\ i - 1 # j /\ g[i - 1] = f[i - 1]
    BY <1>1, <1>4
  <2>2. NextHash(g, i) = NextHash(f, i)
    BY <2>1 DEF NextHash
  <2>3. i # j => i \in 1..(j - 1)
    BY <1>1, <1>4
  <2> QED
    BY <1>6, <2>2, <2>3
<1>10. Solved(j)
  BY <1>8, <1>9
<1> QED
  BY <1>4, <1>10

LEMMA HashAfterFacts ==
  /\ HashAfter \in [1..Len(SourceLog) -> Nat]
  /\ \A i \in 1..Len(SourceLog) : HashAfter[i] = NextHash(HashAfter, i)
<1> DEFINE D == 1..Len(SourceLog)
           Step(f) == [i \in D |->
             IF i = 1 \/ SourceLog[i].time >= f[i - 1] + SignaturesExpiration
             THEN SourceLog[i].time + SignaturesExpiration ELSE f[i - 1]]
<1>1. PICK f \in [D -> Nat] : \A i \in D : f[i] = NextHash(f, i)
  <2>1. Len(SourceLog) \in 0..Len(SourceLog)
    BY SourceLogAssumption
  <2> QED
    BY <2>1, HashesExist
<1>2. f = Step(f)
  BY <1>1 DEF NextHash
<1>3. HashAfter = CHOOSE g : g = Step(g)
  BY DEF HashAfter
<1>4. HashAfter = Step(HashAfter)
  BY <1>2, <1>3
<1> HIDE DEF HashAfter
<1>5. \A i \in D : HashAfter[i] = NextHash(HashAfter, i)
  BY <1>4 DEF NextHash
<1>6. \A i \in D : HashAfter[i] \in Nat
  <2> DEFINE Bad == {i \in D : HashAfter[i] \notin Nat}
  <2> SUFFICES ASSUME Bad # {} PROVE FALSE
    OBVIOUS
  <2>1. /\ Len(SourceLog) \in Nat
        /\ SignaturesExpiration \in Nat
        /\ \A i \in D : SourceLog[i].time \in Nat
    BY LogFacts
  <2>2. PICK i \in Bad : \A x \in Bad : i <= x
    <3>1. Bad \in SUBSET Nat
      BY <2>1
    <3> QED
      BY <3>1, LeastNatural
  <2>3. i # 1 => i - 1 \in D /\ ~(i <= i - 1)
    BY <2>1
  <2>4. i # 1 => HashAfter[i - 1] \in Nat
    BY <2>2, <2>3
  <2>5. HashAfter[i] = NextHash(HashAfter, i) /\ SourceLog[i].time \in Nat
    BY <1>5, <2>1
  <2>6. NextHash(HashAfter, i) \in Nat
    <3>1. SourceLog[i].time + SignaturesExpiration \in Nat
      BY <2>1, <2>5
    <3> QED
      BY <2>4, <3>1 DEF NextHash
  <2> QED
    BY <2>5, <2>6
<1>7. HashAfter \in [D -> Nat]
  BY <1>4, <1>6
<1> QED
  BY <1>5, <1>7

\* The hashes of the log never come closer than two expiration times.
LEMMA HashesAreApart ==
  ASSUME NEW j \in 1..Len(SourceLog), NEW i \in 1..j
  PROVE  \/ HashAfter[j] = HashAfter[i]
         \/ HashAfter[j] >= HashAfter[i] + 2 * SignaturesExpiration
<1> DEFINE D == 1..Len(SourceLog)
           Apart(k) == \/ HashAfter[k] = HashAfter[i]
                       \/ HashAfter[k] >= HashAfter[i] + 2 * SignaturesExpiration
           Bad == {k \in i..Len(SourceLog) : ~Apart(k)}
<1> SUFFICES ASSUME Bad # {} PROVE FALSE
  <2>1. j \in i..Len(SourceLog)
    BY LogFacts
  <2> QED
    BY <2>1
<1>0. /\ \A k \in D : HashAfter[k] \in Nat /\ SourceLog[k].time \in Nat
      /\ \A k \in D : HashAfter[k] = NextHash(HashAfter, k)
  <2> HIDE DEF Bad
  <2> QED
    BY LogFacts, HashAfterFacts
<1>1. /\ Len(SourceLog) \in Nat
      /\ SignaturesExpiration \in Nat
      /\ i \in D
  <2> HIDE DEF Bad
  <2> QED
    BY LogFacts
<1>2. PICK k \in Bad : \A x \in Bad : k <= x
  <2>1. Bad \in SUBSET Nat
    BY <1>1
  <2> QED
    BY <2>1, LeastNatural
<1>3. k # i
  BY <1>1
<1>4. k \in D /\ k - 1 \in D /\ k - 1 \in i..Len(SourceLog) /\ ~(k <= k - 1)
  <2> HIDE DEF Apart
  <2> QED
    BY <1>1, <1>3
<1>5. Apart(k - 1)
  <2> HIDE DEF Apart
  <2> QED
    BY <1>2, <1>4
<1>6. /\ HashAfter[k] \in Nat
      /\ HashAfter[k - 1] \in Nat
      /\ HashAfter[i] \in Nat
      /\ SourceLog[k].time \in Nat
      /\ HashAfter[k] = NextHash(HashAfter, k)
      /\ k # 1
  BY <1>0, <1>1, <1>3, <1>4
<1>7. Apart(k)
  BY <1>1, <1>5, <1>6 DEF NextHash
<1> QED
  BY <1>7

\* They grow along the log.
LEMMA HashesGrow ==
  ASSUME NEW j \in 1..Len(SourceLog), NEW i \in 1..j
  PROVE  HashAfter[i] <= HashAfter[j]
<1>1. i \in 1..Len(SourceLog) /\ HashAfter[i] \in Nat /\ HashAfter[j] \in Nat
  BY LogFacts, HashAfterFacts
<1> QED
  BY <1>1, HashesAreApart, LogFacts

\* What the first event, and a request that counts or not, do to the hash.
LEMMA NextHashFacts ==
  ASSUME NEW i \in 1..Len(SourceLog)
  PROVE  /\ HashAfter[i] \in Nat
         /\ HashAfter[i] # NoHash
         /\ i = 1 => HashAfter[i] = SourceLog[i].time + SignaturesExpiration
         /\ i # 1 =>
              /\ SourceLog[i].time >= HashAfter[i - 1] + SignaturesExpiration
                   => HashAfter[i] = SourceLog[i].time + SignaturesExpiration
              /\ SourceLog[i].time < HashAfter[i - 1] + SignaturesExpiration
                   => HashAfter[i] = HashAfter[i - 1]
<1>1. /\ HashAfter[i] \in Nat
      /\ HashAfter[i] = NextHash(HashAfter, i)
      /\ SourceLog[i].time \in Nat
  BY LogFacts, HashAfterFacts
<1>2. i # 1 => i - 1 \in 1..Len(SourceLog) /\ HashAfter[i - 1] \in Nat
  BY LogFacts, HashAfterFacts
<1>3. HashAfter[1] # NoHash
  <2>1. 1 \in 1..Len(SourceLog)
    BY LogFacts
  <2>2. HashAfter[1] = NextHash(HashAfter, 1) /\ SourceLog[1].time \in Nat
    BY <2>1, LogFacts, HashAfterFacts
  <2> QED
    BY <2>2, LogFacts DEF NextHash, NoHash
<1>4. HashAfter[1] <= HashAfter[i] /\ HashAfter[1] \in Nat
  <2>1. 1 \in 1..i /\ 1 \in 1..Len(SourceLog)
    BY LogFacts
  <2> QED
    BY <2>1, HashesGrow, HashAfterFacts
<1> QED
  BY <1>1, <1>2, <1>3, <1>4, LogFacts DEF NextHash, NoHash

-----------------------------------------------------------------------------
(* Which hashes the validators sign.                                       *)

LogHashes == {HashAfter[i] : i \in 1..Len(SourceLog)}

\* The events n's streamer has stored the effect of.
Handled(n) == position[n] + IF broadcast[n] = Idle THEN 0 ELSE 1

\* n's record is not completed, and n has signed it.
Signing(n) == HasLocked(n) /\ store[n].status # "completed"

\* SignaturesNeverOverlap and RecordsAgree are not inductive: every record and
\* every request has a hash of the log, and an uncompleted record is never
\* behind the events its streamer has handled.
HashInv ==
  /\ \A n \in Validators : store[n] # NoTx =>
       store[n].hash \in LogHashes \cup {NoHash}
  /\ \A m \in requests : m.tx.hash \in LogHashes
  /\ \A n \in Validators : Signing(n) =>
       /\ store[n].hash >= HashAfter[Handled(n)]
       /\ restarts = 0 => store[n].hash = HashAfter[Handled(n)]

LEMMA HandledFacts ==
  ASSUME ExchangeInv, NEW n \in Validators
  PROVE  /\ HasLocked(n) => Handled(n) \in 1..Len(SourceLog)
         /\ ~HasLocked(n) => Handled(n) = 0
         /\ broadcast[n] = Idle => Handled(n) = position[n]
         /\ position[n] \in 0..Len(SourceLog)
BY LogFacts DEF ExchangeInv, TypeOK, BroadcastInv, HasLocked, Handled

\* The first half of a handler stores and broadcasts the hash that the log has
\* after its event.
LEMMA FirstHalfHash ==
  ASSUME ExchangeInv, HashInv, NEW n \in Validators, NEW tx \in Tx,
         position[n] < Len(SourceLog), broadcast[n] = Idle,
         store' = [store EXCEPT ![n] = tx],
         StartBroadcast(n, tx),
         UNCHANGED <<position, restarts>>,
         tx.hash = HashAfter[position[n] + 1]
  PROVE  HashInv'
<1>1. /\ TypeOK
      /\ position[n] + 1 \in 1..Len(SourceLog)
      /\ HashAfter[position[n] + 1] \in Nat
  BY LogFacts, NextHashFacts DEF ExchangeInv, TypeOK
<1>2. /\ store'[n] = tx
      /\ \A w \in Validators \ {n} : store'[w] = store[w]
  BY <1>1 DEF TypeOK
<1>3. /\ broadcast'[n] # Idle
      /\ \A w \in Validators \ {n} : broadcast'[w] = broadcast[w]
      /\ requests' = requests \cup {[from |-> n, tx |-> tx]}
  BY <1>1, StartBroadcastFacts
<1>4. tx.hash \in LogHashes
  BY <1>1 DEF LogHashes
<1>5. \A w \in Validators : store'[w] # NoTx =>
        store'[w].hash \in LogHashes \cup {NoHash}
  BY <1>2, <1>4 DEF HashInv
<1>6. \A m \in requests' : m.tx.hash \in LogHashes
  BY <1>3, <1>4 DEF HashInv
<1>7. ASSUME NEW w \in Validators, Signing(w)'
      PROVE  /\ store'[w].hash >= HashAfter[Handled(w)']
             /\ restarts' = 0 => store'[w].hash = HashAfter[Handled(w)']
  <2>1. CASE w = n
    <3>1. Handled(w)' = position[n] + 1
      BY <1>3, <2>1 DEF Handled
    <3> QED
      BY <1>1, <1>2, <2>1, <3>1
  <2>2. CASE w # n
    <3>1. Handled(w)' = Handled(w) /\ Signing(w)
      BY <1>2, <1>3, <1>7, <2>2 DEF Handled, Signing, HasLocked
    <3> QED
      BY <1>2, <2>2, <3>1 DEF HashInv
  <2> QED
    BY <2>1, <2>2
<1> QED
  BY <1>5, <1>6, <1>7 DEF HashInv

LEMMA TokensLockedHash ==
  ASSUME ExchangeInv, HashInv, NEW n \in Validators, TokensLocked(n)
  PROVE  HashInv'
<1> DEFINE tx == LockedTx(n)
<1>1. /\ TypeOK
      /\ position[n] < Len(SourceLog)
      /\ SourceLog[position[n] + 1].kind = "lock"
      /\ broadcast[n] = Idle
      /\ store' = [store EXCEPT ![n] = tx]
      /\ StartBroadcast(n, tx)
      /\ UNCHANGED <<position, restarts>>
  BY DEF ExchangeInv, TokensLocked, Reads
<1>2. position[n] = 0 /\ 1 \in 1..Len(SourceLog)
  BY <1>1, EventFacts, LogFacts
<1>3. tx \in Tx /\ tx.hash = EventHash(n)
  BY <1>1, LockedTxFacts
<1>4. EventHash(n) = HashAfter[position[n] + 1]
  BY <1>2, NextHashFacts DEF EventHash, EventTime
<1> HIDE DEF tx
<1> QED
  BY <1>1, <1>3, <1>4, FirstHalfHash

\* A request that is allowed is the log's next one that counts: a record ahead
\* of its streamer would refuse it.
LEMMA AllowedRequestFacts ==
  ASSUME ExchangeInv, HashInv, NEW n \in Validators,
         Reads(n, "request"), store[n] # NoTx, store[n].status # "completed"
  PROVE  /\ RequestAllowed(n) => EventHash(n) = HashAfter[position[n] + 1]
         /\ ~RequestAllowed(n) =>
              /\ store[n].hash >= HashAfter[position[n] + 1]
              /\ restarts = 0 => store[n].hash = HashAfter[position[n] + 1]
<1> DEFINE i == position[n] + 1
<1>1. /\ TypeOK
      /\ broadcast[n] = Idle
      /\ position[n] < Len(SourceLog)
      /\ SourceLog[i].kind = "request"
  BY DEF Reads, ExchangeInv
<1>2. position[n] # 0
  BY <1>1, EventFacts
<1>3. /\ position[n] \in 1..Len(SourceLog)
      /\ i \in 1..Len(SourceLog)
      /\ i # 1 /\ i - 1 = position[n]
  BY <1>1, <1>2, LogFacts DEF TypeOK
<1>4. HasLocked(n) /\ Handled(n) = position[n] /\ Signing(n)
  BY <1>1, <1>2, HandledFacts DEF HasLocked, Signing
<1>5. /\ store[n].hash >= HashAfter[i - 1]
      /\ restarts = 0 => store[n].hash = HashAfter[i - 1]
      /\ store[n].hash # NoHash
      /\ store[n].hash \in LogHashes
  BY <1>3, <1>4 DEF HashInv, ExchangeInv, LockedInv
<1>6. PICK j \in 1..Len(SourceLog) : store[n].hash = HashAfter[j]
  BY <1>5 DEF LogHashes
<1>7. /\ HashAfter[j] \in Nat
      /\ HashAfter[i] \in Nat
      /\ HashAfter[i - 1] \in Nat
      /\ SourceLog[i].time \in Nat
      /\ SignaturesExpiration \in Nat
  BY <1>3, LogFacts, NextHashFacts
<1>8. j < i => HashAfter[j] <= HashAfter[i - 1]
  BY <1>3, HashesGrow
<1>9. i <= j => HashAfter[i] <= HashAfter[j]
  BY <1>3, HashesGrow
<1>10. /\ EventTime(n) = SourceLog[i].time
       /\ EventHash(n) = SourceLog[i].time + SignaturesExpiration
       /\ RequestAllowed(n) <=>
            SourceLog[i].time >= HashAfter[j] + SignaturesExpiration
  BY <1>6 DEF EventTime, EventHash, RequestAllowed
<1>11. /\ SourceLog[i].time >= HashAfter[i - 1] + SignaturesExpiration
             => HashAfter[i] = SourceLog[i].time + SignaturesExpiration
       /\ SourceLog[i].time < HashAfter[i - 1] + SignaturesExpiration
             => HashAfter[i] = HashAfter[i - 1]
  BY <1>3, NextHashFacts
<1> HIDE DEF i
<1>12. HashAfter[j] >= HashAfter[i - 1]
  BY <1>5, <1>6
<1>13. RequestAllowed(n) => EventHash(n) = HashAfter[i]
  BY <1>7, <1>10, <1>11, <1>12
<1>14. ~RequestAllowed(n) => HashAfter[j] >= HashAfter[i]
  <2>1. CASE SourceLog[i].time < HashAfter[i - 1] + SignaturesExpiration
    BY <1>7, <1>11, <1>12, <2>1
  <2>2. CASE SourceLog[i].time >= HashAfter[i - 1] + SignaturesExpiration
    <3>1. ~RequestAllowed(n) => ~(HashAfter[j] <= HashAfter[i - 1])
      BY <1>7, <1>10, <2>2
    <3>2. i \in Nat /\ j \in Nat
      BY <1>3, LogFacts
    <3> QED
      BY <1>8, <1>9, <3>1, <3>2
  <2> QED
    BY <1>7, <2>1, <2>2
<1>15. ~RequestAllowed(n) /\ restarts = 0 => HashAfter[j] = HashAfter[i]
  BY <1>5, <1>6, <1>7, <1>10, <1>11
<1> QED
  BY <1>6, <1>13, <1>14, <1>15 DEF i

LEMMA RequestNewSignaturesHash ==
  ASSUME ExchangeInv, HashInv, NEW n \in Validators, NEW quorum,
         RequestNewSignatures(n, quorum)
  PROVE  HashInv'
<1> DEFINE tx == MarkSigned(ResignedTx(n), quorum)
<1>1. /\ TypeOK
      /\ Reads(n, "request")
      /\ RequestAllowed(n)
      /\ store[n] # NoTx
      /\ store[n].status # "completed"
      /\ position[n] < Len(SourceLog)
      /\ broadcast[n] = Idle
      /\ store' = [store EXCEPT ![n] = tx]
      /\ StartBroadcast(n, tx)
      /\ UNCHANGED <<position, restarts>>
  BY DEF ExchangeInv, RequestNewSignatures, Reads, RequestAllowed
<1>2. tx \in Tx /\ tx.hash = EventHash(n)
  BY <1>1, ResignedTxFacts, MarkSignedFacts
<1>3. EventHash(n) = HashAfter[position[n] + 1]
  BY <1>1, AllowedRequestFacts
<1> HIDE DEF tx
<1> QED
  BY <1>1, <1>2, <1>3, FirstHalfHash

LEMMA IgnoreRequestHash ==
  ASSUME ExchangeInv, HashInv, NEW n \in Validators, IgnoreRequest(n)
  PROVE  HashInv'
<1>1. /\ TypeOK
      /\ Reads(n, "request")
      /\ ~RequestAllowed(n)
      /\ broadcast[n] = Idle
      /\ position' = [position EXCEPT ![n] = @ + 1]
      /\ UNCHANGED <<store, broadcast, requests, restarts>>
  BY DEF ExchangeInv, IgnoreRequest, Reads
<1>2. /\ position[n] < Len(SourceLog)
      /\ SourceLog[position[n] + 1].kind = "request"
  BY <1>1 DEF Reads
<1>3. position[n] # 0
  BY <1>1, <1>2, EventFacts
<1>4. HasLocked(n) /\ store[n] # NoTx
  <2>1. HasLocked(n)
    BY <1>1, <1>3 DEF HasLocked, TypeOK
  <2> QED
    BY <2>1 DEF ExchangeInv, LockedInv
<1>5. ASSUME NEW w \in Validators, Signing(w)'
      PROVE  /\ store[w].hash >= HashAfter[Handled(w)']
             /\ restarts = 0 => store[w].hash = HashAfter[Handled(w)']
  <2>1. CASE w = n
    <3>1. Handled(w)' = position[n] + 1
      BY <1>1, <2>1 DEF Handled, TypeOK
    <3>2. store[n].status # "completed"
      BY <1>1, <1>5, <2>1 DEF Signing
    <3> QED
      BY <1>1, <1>4, <2>1, <3>1, <3>2, AllowedRequestFacts
  <2>2. CASE w # n
    <3>1. Handled(w)' = Handled(w) /\ Signing(w)
      BY <1>1, <1>5, <2>2 DEF Handled, Signing, HasLocked, TypeOK
    <3> QED
      BY <3>1 DEF HashInv
  <2> QED
    BY <2>1, <2>2
<1> QED
  BY <1>1, <1>5 DEF HashInv

\* A step that leaves the requests alone, keeps the hash of every record or
\* takes it from a request, and moves no streamer on.
LEMMA OthersHash ==
  ASSUME ExchangeInv, HashInv, requests' = requests,
         \A n \in Validators : store'[n] # NoTx =>
           \/ store'[n].hash = NoHash
           \/ store[n] # NoTx /\ store'[n].hash = store[n].hash
           \/ \E m \in requests : store'[n].hash = m.tx.hash,
         \A n \in Validators : Signing(n)' =>
           /\ Signing(n)
           /\ store'[n].hash = store[n].hash
           /\ Handled(n)' \in 1..Handled(n)
           /\ restarts' = 0 => restarts = 0 /\ Handled(n)' = Handled(n)
  PROVE  HashInv'
<1>1. \A n \in Validators : store'[n] # NoTx =>
        store'[n].hash \in LogHashes \cup {NoHash}
  BY DEF HashInv
<1>2. ASSUME NEW n \in Validators, Signing(n)'
      PROVE  /\ store'[n].hash >= HashAfter[Handled(n)']
             /\ restarts' = 0 => store'[n].hash = HashAfter[Handled(n)']
  <2>1. /\ Signing(n)
        /\ store'[n].hash = store[n].hash
        /\ Handled(n)' \in 1..Handled(n)
        /\ restarts' = 0 => restarts = 0 /\ Handled(n)' = Handled(n)
    BY <1>2
  <2>2. /\ store[n].hash >= HashAfter[Handled(n)]
        /\ restarts = 0 => store[n].hash = HashAfter[Handled(n)]
    BY <2>1 DEF HashInv
  <2>3. Handled(n) \in 1..Len(SourceLog)
    BY <2>1, HandledFacts DEF Signing
  <2>4. /\ Handled(n)' \in 1..Len(SourceLog)
        /\ HashAfter[Handled(n)'] <= HashAfter[Handled(n)]
    BY <2>1, <2>3, HashesGrow, LogFacts
  <2>5. /\ HashAfter[Handled(n)] \in Nat
        /\ HashAfter[Handled(n)'] \in Nat
        /\ store[n].hash \in Nat
    <3>1. store[n] # NoTx
      BY <2>1 DEF Signing, ExchangeInv, LockedInv
    <3> QED
      BY <2>3, <2>4, <3>1, NextHashFacts DEF ExchangeInv, TypeOK, Tx
  <2> QED
    BY <2>1, <2>2, <2>4, <2>5
<1> QED
  BY <1>1, <1>2 DEF HashInv

LEMMA MergeAnswersHash ==
  ASSUME ExchangeInv, HashInv, NEW n \in Validators, NEW kind, NEW quorum,
         MergeAnswers(n, kind, quorum)
  PROVE  HashInv'
<1> DEFINE tx == IF store[n].status = "completed" THEN MergedTx(n)
                 ELSE MarkSigned(MergedTx(n), quorum)
<1>1. /\ TypeOK
      /\ broadcast[n] # Idle
      /\ store[n] # NoTx
      /\ store' = [store EXCEPT ![n] = tx]
      /\ broadcast' = [broadcast EXCEPT ![n] = Idle]
      /\ position' = [position EXCEPT ![n] = @ + 1]
      /\ UNCHANGED <<requests, restarts>>
  BY DEF ExchangeInv, BroadcastInv, MergeAnswers
<1>2. /\ tx.hash = store[n].hash
      /\ tx.status # "completed" => store[n].status # "completed"
  BY <1>1, MergedTxFacts, MarkSignedFacts
<1> HIDE DEF tx
<1>3. /\ store'[n] = tx
      /\ \A w \in Validators \ {n} : store'[w] = store[w]
      /\ broadcast'[n] = Idle
      /\ \A w \in Validators \ {n} : broadcast'[w] = broadcast[w]
      /\ position'[n] = position[n] + 1
      /\ \A w \in Validators \ {n} : position'[w] = position[w]
  BY <1>1 DEF TypeOK
<1>4. \A w \in Validators : store'[w] # NoTx =>
        store[w] # NoTx /\ store'[w].hash = store[w].hash
  BY <1>1, <1>2, <1>3
<1>5. ASSUME NEW w \in Validators, Signing(w)'
      PROVE  /\ Signing(w)
             /\ store'[w].hash = store[w].hash
             /\ Handled(w)' = Handled(w)
  BY <1>1, <1>2, <1>3, <1>5 DEF Signing, HasLocked, Handled, TypeOK
<1>6. \A w \in Validators : Signing(w) => Handled(w) \in 1..Handled(w)
  BY HandledFacts DEF Signing
<1> QED
  BY <1>1, <1>4, <1>5, <1>6, OthersHash

LEMMA SubmitSignatureHash ==
  ASSUME ExchangeInv, HashInv, NEW p \in Validators, NEW m \in requests,
         SubmitSignature(p, m)
  PROVE  HashInv'
<1>1. /\ TypeOK
      /\ m.tx \in Tx
      /\ UNCHANGED <<position, requests, restarts>>
  BY DEF ExchangeInv, TypeOK, SubmitSignature
<1>2. store[p] # NoTx => store[p] \in Tx /\ store[p].signatures[p] \in Nat
  BY <1>1 DEF TypeOK, Tx
<1>3. PICK sig \in Nat : Answer(p, m, sig)
  BY <1>2 DEF SubmitSignature, SubmitRefused, SubmitToCompleted, SubmitMerged,
     SubmitAdopted, NoHash
<1>4. \A w \in Validators : broadcast'[w] = Idle <=> broadcast[w] = Idle
  BY <1>1, <1>3, AnswerFacts
<1>5. \A w \in Validators :
        HasLocked(w)' = HasLocked(w) /\ Handled(w)' = Handled(w)
  BY <1>1, <1>4 DEF HasLocked, Handled
<1>6. \A w \in Validators \ {p} : store'[w] = store[w]
  BY <1>1, OtherRecordsStay
<1>7. \/ store'[p] = store[p]
      \/ /\ store[p] # NoTx
         /\ store[p].status # "completed"
         /\ store'[p].hash = store[p].hash
      \/ /\ store[p] = NoTx
         /\ store'[p].hash = m.tx.hash
  <2>1. CASE SubmitRefused(p, m) \/ SubmitToCompleted(p, m)
    BY <2>1 DEF SubmitRefused, SubmitToCompleted
  <2>2. CASE SubmitMerged(p, m)
    <3>1. /\ store[p] # NoTx
          /\ store[p].status # "completed"
          /\ store'[p] = MarkSigned(SubmittedTx(p, m), SubmitQuorum(Entries))
      BY <1>1, <2>2 DEF SubmitMerged, TypeOK
    <3> QED
      BY <1>1, <3>1, SubmittedTxFacts, MarkSignedFacts
  <2>3. CASE SubmitAdopted(p, m)
    BY <1>1, <2>3, MarkSignedFacts DEF SubmitAdopted, TypeOK
  <2> QED
    BY <2>1, <2>2, <2>3 DEF SubmitSignature
<1>8. store[p] = NoTx => ~HasLocked(p)
  BY DEF ExchangeInv, LockedInv
<1>9. ASSUME NEW w \in Validators, Signing(w)'
      PROVE  /\ Signing(w)
             /\ store'[w].hash = store[w].hash
             /\ Handled(w)' \in 1..Handled(w)
             /\ Handled(w)' = Handled(w)
  <2>1. HasLocked(w) /\ Handled(w)' = Handled(w)
    BY <1>5, <1>9 DEF Signing
  <2>2. Handled(w) \in 1..Handled(w)
    BY <2>1, HandledFacts
  <2>3. store[w].status # "completed" /\ store'[w].hash = store[w].hash
    BY <1>6, <1>7, <1>8, <1>9, <2>1 DEF Signing
  <2> QED
    BY <2>1, <2>2, <2>3 DEF Signing
<1>10. ASSUME NEW w \in Validators, store'[w] # NoTx
       PROVE  \/ store[w] # NoTx /\ store'[w].hash = store[w].hash
              \/ store'[w].hash = m.tx.hash
  BY <1>6, <1>7, <1>10
<1> QED
  BY <1>1, <1>9, <1>10, OthersHash

LEMMA ProcessStepHash ==
  ASSUME ExchangeInv, HashInv, NEW n \in Validators, ProcessStep(n)
  PROVE  HashInv'
<1>1. /\ TypeOK
      /\ restarts \in Nat
      /\ \A w \in Validators :
           position[w] \in 0..Len(SourceLog) /\ checkpoint[w] \in 0..position[w]
  BY OptionsAssumption, LogFacts DEF ExchangeInv, TypeOK, CheckpointInv
<1>2. PICK c \in 0..position[n] :
        StartAt(n, c) /\ (restarts' = 0 => restarts = 0 /\ position[n] = 0)
  <2>1. CASE PanicOnHashMismatch(n)
    <3>1. /\ position[n] < Len(SourceLog)
          /\ SourceLog[position[n] + 1].kind = "lock"
      BY <2>1 DEF PanicOnHashMismatch, Reads
    <3>2. position[n] = 0
      BY <1>1, <3>1, EventFacts
    <3> QED
      BY <1>1, <2>1, <3>2 DEF PanicOnHashMismatch
  <2>2. CASE Crash(n)
    <3>1. restarts' # 0
      BY <1>1, <2>2 DEF Crash, CountRestart
    <3> QED
      BY <1>1, <2>2, <3>1 DEF Crash
  <2>3. CASE GracefulRestart(n)
    <3>1. restarts' # 0
      BY <1>1, <2>3 DEF GracefulRestart, CountRestart
    <3>2. PICK c \in {0, position[n]} : StartAt(n, c)
      BY <2>3 DEF GracefulRestart
    <3>3. c \in 0..position[n]
      BY <1>1, <3>2, LogFacts
    <3> QED
      BY <3>1, <3>2, <3>3
  <2> QED
    BY <2>1, <2>2, <2>3 DEF ProcessStep
<1>3. PICK reset \in {FALSE, MayReset} :
        /\ position' = [position EXCEPT ![n] = IF reset THEN 0 ELSE c]
        /\ store' = IF reset THEN [store EXCEPT ![n] = NoTx] ELSE store
  BY <1>2 DEF StartAt
<1>4. /\ broadcast' = [broadcast EXCEPT ![n] = Idle]
      /\ requests' = requests
  BY <1>2 DEF StartAt
<1>5. /\ \A w \in Validators : store'[w] # NoTx => store'[w] = store[w]
      /\ \A w \in Validators \ {n} :
           /\ store'[w] = store[w]
           /\ position'[w] = position[w]
           /\ broadcast'[w] = broadcast[w]
      /\ position'[n] = IF reset THEN 0 ELSE c
      /\ broadcast'[n] = Idle
      /\ ~reset => store'[n] = store[n]
  BY <1>1, <1>3, <1>4 DEF TypeOK
<1>6. restarts' = 0 => restarts = 0
  BY <1>2
<1>7. ASSUME NEW w \in Validators, Signing(w)'
      PROVE  /\ Signing(w)
             /\ store'[w].hash = store[w].hash
             /\ Handled(w)' \in 1..Handled(w)
             /\ restarts' = 0 => restarts = 0 /\ Handled(w)' = Handled(w)
  <2>1. CASE w = n
    <3>1. ~reset /\ position'[n] = c /\ c > 0
      BY <1>2, <1>5, <1>7, <2>1, LogFacts DEF Signing, HasLocked
    <3>2. HasLocked(n) /\ restarts' # 0
      BY <1>1, <1>2, <3>1, LogFacts DEF HasLocked
    <3>3. Handled(n)' = c
      BY <1>1, <1>2, <1>5, <3>1, LogFacts DEF Handled
    <3>4. Handled(n) \in Nat /\ c <= Handled(n)
      BY <1>1, <1>2, LogFacts DEF Handled
    <3>5. Handled(n)' \in 1..Handled(n)
      BY <1>2, <3>1, <3>3, <3>4, LogFacts
    <3> QED
      BY <1>5, <1>7, <2>1, <3>1, <3>2, <3>5 DEF Signing
  <2>2. CASE w # n
    <3>1. Signing(w) /\ store'[w] = store[w] /\ Handled(w)' = Handled(w)
      BY <1>5, <1>7, <2>2 DEF Signing, HasLocked, Handled
    <3>2. Handled(w) \in 1..Handled(w)
      BY <3>1, HandledFacts DEF Signing
    <3> QED
      BY <1>6, <3>1, <3>2
  <2> QED
    BY <2>1, <2>2
<1> QED
  BY <1>4, <1>5, <1>7, OthersHash

\* The other actions move no streamer and change no hash.
LEMMA RemainingHash ==
  ASSUME ExchangeInv, HashInv, UNCHANGED <<position, requests, restarts>>,
         \A n \in Validators : broadcast'[n] = Idle <=> broadcast[n] = Idle,
         \A n \in Validators :
           \/ store'[n] = store[n]
           \/ /\ store'[n].status = "completed"
              /\ \/ store[n] = NoTx /\ store'[n].hash = NoHash
                 \/ store[n] # NoTx /\ store'[n].hash = store[n].hash
  PROVE  HashInv'
<1>1. ASSUME NEW w \in Validators, Signing(w)'
      PROVE  /\ Signing(w)
             /\ store'[w].hash = store[w].hash
             /\ Handled(w)' = Handled(w)
             /\ Handled(w) \in 1..Handled(w)
  <2>1. /\ Signing(w)
        /\ store'[w].hash = store[w].hash
        /\ Handled(w)' = Handled(w)
    BY <1>1 DEF Signing, HasLocked, Handled
  <2> QED
    BY <2>1, HandledFacts DEF Signing
<1>2. ASSUME NEW w \in Validators, store'[w] # NoTx
      PROVE  \/ store'[w].hash = NoHash
             \/ store[w] # NoTx /\ store'[w].hash = store[w].hash
  BY <1>2
<1> QED
  BY <1>1, <1>2, OthersHash

LEMMA NextHashInv ==
  ASSUME ExchangeInv, HashInv, Next
  PROVE  HashInv'
<1>1. TypeOK
  BY DEF ExchangeInv
<1>2. ASSUME NEW n \in Validators, TokensLocked(n) PROVE HashInv'
  BY <1>2, TokensLockedHash
<1>3. ASSUME NEW n \in Validators, NEW quorum, RequestNewSignatures(n, quorum)
      PROVE  HashInv'
  BY <1>3, RequestNewSignaturesHash
<1>4. ASSUME NEW n \in Validators, NEW kind, NEW quorum,
             MergeAnswers(n, kind, quorum)
      PROVE  HashInv'
  BY <1>4, MergeAnswersHash
<1>5. ASSUME NEW n \in Validators, IgnoreRequest(n) PROVE HashInv'
  BY <1>5, IgnoreRequestHash
<1>6. ASSUME NEW n \in Validators, NEW p \in Validators, PeerFails(n, p)
      PROVE  HashInv'
  <2> DEFINE left == [broadcast[n] EXCEPT !.waiting = @ \ {p}]
  <2>1. /\ broadcast[n] # Idle
        /\ broadcast[n] \in Broadcast
        /\ broadcast' = [broadcast EXCEPT ![n] = left]
        /\ UNCHANGED <<store, position, requests, restarts>>
    BY <1>1, <1>6 DEF PeerFails, TypeOK
  <2>2. left # Idle
    <3>1. left \in Broadcast
      BY <2>1 DEF Broadcast
    <3> QED
      BY <3>1, SentinelsAssumption
  <2> HIDE DEF left
  <2>3. \A w \in Validators : broadcast'[w] = Idle <=> broadcast[w] = Idle
    BY <1>1, <2>1, <2>2 DEF TypeOK
  <2> QED
    BY <2>1, <2>3, RemainingHash
<1>7. ASSUME NEW n \in Validators, TransferCompletedEvent(n) PROVE HashInv'
  <2> DEFINE tx == IF store[n] = NoTx
                   THEN [status |-> "completed", hash |-> NoHash,
                         signatures |-> NoSignatures, surplus |-> 0]
                   ELSE [store[n] EXCEPT !.status = "completed"]
  <2>1. /\ store'[n] = tx /\ \A w \in Validators \ {n} : store'[w] = store[w]
        /\ UNCHANGED <<position, broadcast, requests, restarts>>
    BY <1>1, <1>7 DEF TransferCompletedEvent, TypeOK
  <2>2. /\ tx.status = "completed"
        /\ \/ store[n] = NoTx /\ tx.hash = NoHash
           \/ store[n] # NoTx /\ tx.hash = store[n].hash
    BY <1>1 DEF TypeOK, Tx
  <2> HIDE DEF tx
  <2> QED
    BY <2>1, <2>2, RemainingHash
<1>8. ASSUME NEW p \in Validators, NEW m \in requests, SubmitSignature(p, m)
      PROVE  HashInv'
  BY <1>8, SubmitSignatureHash
<1>9. CASE CompleteTransfer
  BY <1>9, RemainingHash DEF CompleteTransfer
<1>10. ASSUME NEW n \in Validators, ProcessStep(n) PROVE HashInv'
  BY <1>10, ProcessStepHash
<1> QED
  BY <1>2, <1>3, <1>4, <1>5, <1>6, <1>7, <1>8, <1>9, <1>10, StepCases

LEMMA HashInvariant == Spec => []HashInv
<1>1. Init => HashInv
  BY DEF Init, HashInv, Signing, HasLocked
<1>2. ExchangeInv /\ HashInv /\ [Next]_vars => HashInv'
  <2> SUFFICES ASSUME ExchangeInv, HashInv, [Next]_vars PROVE HashInv'
    OBVIOUS
  <2>1. CASE UNCHANGED vars
    BY <2>1 DEF vars, HashInv, Signing, HasLocked, Handled
  <2> QED
    BY <2>1, NextHashInv
<1> QED
  BY <1>1, <1>2, ExchangeInvariant, PTL DEF Spec

\* Over one transfer no two validators ever sign hashes that are valid at the
\* same time, though each decides by its own record, which peers may have given
\* it, when a request counts; block times may even go back.
THEOREM NoOverlappingSignatures == Spec => []SignaturesNeverOverlap
<1>1. ExchangeInv /\ HashInv => SignaturesNeverOverlap
  <2> SUFFICES ASSUME ExchangeInv, HashInv, NEW l \in requests,
                      NEW m \in requests, l.tx.hash < m.tx.hash
               PROVE  l.tx.hash + 2 * SignaturesExpiration <= m.tx.hash
    BY DEF SignaturesNeverOverlap
  <2>1. PICK i \in 1..Len(SourceLog) : l.tx.hash = HashAfter[i]
    BY DEF HashInv, LogHashes
  <2>2. PICK j \in 1..Len(SourceLog) : m.tx.hash = HashAfter[j]
    BY DEF HashInv, LogHashes
  <2>3. HashAfter[i] \in Nat /\ HashAfter[j] \in Nat
    BY NextHashFacts
  <2>4. i \in 1..j
    <3>1. j <= i => HashAfter[j] <= HashAfter[i]
      BY LogFacts, HashesGrow
    <3> QED
      BY <2>1, <2>2, <2>3, <3>1, LogFacts
  <2>5. \/ HashAfter[j] = HashAfter[i]
        \/ HashAfter[j] >= HashAfter[i] + 2 * SignaturesExpiration
    BY <2>4, HashesAreApart
  <2> QED
    BY <2>1, <2>2, <2>3, <2>5, LogFacts
<1> QED
  BY <1>1, ExchangeInvariant, HashInvariant, PTL

\* Without restarts the validators that have handled the same events agree on
\* the hash, in whatever order they handled them.
THEOREM SettledRecordsAgree == Spec => []RecordsAgree
<1>1. ExchangeInv /\ HashInv => RecordsAgree
  <2> SUFFICES ASSUME ExchangeInv, HashInv, restarts = 0,
                      NEW n \in Validators, NEW w \in Validators,
                      Settled(n), Settled(w), position[n] <= position[w]
               PROVE  store[n].hash <= store[w].hash
    BY DEF RecordsAgree
  <2>1. /\ position[n] \in 1..Len(SourceLog)
        /\ position[w] \in 1..Len(SourceLog)
        /\ position[n] \in 1..position[w]
    BY LogFacts, HandledFacts DEF Settled
  <2>2. /\ Signing(n) /\ Handled(n) = position[n]
        /\ Signing(w) /\ Handled(w) = position[w]
    BY HandledFacts DEF Settled, Signing, HasLocked
  <2>3. /\ store[n].hash = HashAfter[position[n]]
        /\ store[w].hash = HashAfter[position[w]]
    BY <2>2 DEF HashInv
  <2> QED
    BY <2>1, <2>3, HashesGrow
<1> QED
  BY <1>1, ExchangeInvariant, HashInvariant, PTL
=============================================================================
