------------------------ MODULE SignedIsBackedProofs ------------------------
(***************************************************************************)
(* What the three thresholds amount to for a bridge of any size, and that  *)
(* a record reported signed is backed by the API's quorum of distinct      *)
(* validators that signed its hash, in a bridge of at most sixteen         *)
(* validators, short of at most one for each restart.                      *)
(***************************************************************************)
EXTENDS SignedHashesProofs

-----------------------------------------------------------------------------
(* The thresholds.                                                         *)

\* The API's threshold is two thirds of the validators, plus one.
THEOREM SubmitQuorumIsTwoThirds ==
  ASSUME NEW V \in Nat
  PROVE  SubmitQuorum(ConfiguredEntries(V)) = ((2 * V) \div 3) + 1
BY DEF SubmitQuorum, ConfiguredEntries

\* Every list of signatures the API accepts is reachable, and any two of them
\* share more than a third of the validators.
THEOREM SubmitQuorumIsByzantine ==
  ASSUME NEW V \in Nat, V >= 1
  PROVE  /\ SubmitQuorum(ConfiguredEntries(V)) \in 1..V
         /\ 3 * (2 * SubmitQuorum(ConfiguredEntries(V)) - V) > V
BY SubmitQuorumIsTwoThirds

\* With three validators or more, no list with one entry per validator reaches
\* the threshold a streamer compares a freshly locked transfer with.
THEOREM LockQuorumIsUnreachable ==
  ASSUME NEW V \in Nat, V >= 3
  PROVE  LockQuorum(ConfiguredEntries(V)) > V
BY DEF LockQuorum, ConfiguredEntries

\* A streamer never reports a freshly locked transfer signed with fewer entries
\* than the API asks for.
THEOREM LockQuorumIsEnough ==
  ASSUME NEW V \in Nat, V >= 1
  PROVE  LockQuorum(ConfiguredEntries(V)) >= SubmitQuorum(ConfiguredEntries(V))
BY SubmitQuorumIsTwoThirds DEF LockQuorum, ConfiguredEntries

\* Nor a re-signed one, as long as there are at most sixteen validators.
THEOREM RequestQuorumIsEnough ==
  ASSUME NEW V \in Nat, V <= 16
  PROVE  RequestQuorum(ConfiguredEntries(V)) >= SubmitQuorum(ConfiguredEntries(V))
BY SubmitQuorumIsTwoThirds DEF RequestQuorum, ConfiguredEntries

\* With seventeen, the re-signing handlers ask for fewer entries than the API.
THEOREM RequestQuorumIsTooSmall ==
  RequestQuorum(ConfiguredEntries(17)) < SubmitQuorum(ConfiguredEntries(17))
BY DEF RequestQuorum, SubmitQuorum, ConfiguredEntries

-----------------------------------------------------------------------------
(* The inductive invariant.                                                *)

\* The validators that have signed and will list their signature once more when
\* they read the lock event again.
Replaying == {w \in Validators :
                ~HasLocked(w) /\ \E m \in requests : m.from = w}

\* The restarts that no replaying validator has used up yet.
Slack == restarts - Cardinality(Replaying)

Backed(tx, n) == Cardinality(ValidSigners(tx)) + n >= SubmitQuorum(Entries)

\* SignedIsBacked is not inductive: a broadcast record may be adopted with its
\* status and its surplus, and a replayed lock adds to the surplus of a record
\* that may have been adopted with one.
BackedInv ==
  /\ Slack >= 0
  /\ \A n \in Validators : store[n] # NoTx => store[n].surplus <= Slack
  /\ \A m \in requests : m.tx.surplus <= Slack
  /\ ~transferCompleted =>
       /\ \A n \in Validators : store[n] # NoTx /\ store[n].status = "signed"
            => Backed(store[n], restarts)
       /\ \A m \in requests : m.tx.status = "signed" => Backed(m.tx, restarts)

-----------------------------------------------------------------------------
(* Quorums and cardinalities.                                              *)

\* No threshold is below the one of the API.
LEMMA QuorumFacts ==
  ASSUME Cardinality(Validators) <= 16
  PROVE  /\ SubmitQuorum(Entries) \in Nat
         /\ \A quorum \in {LockQuorum(Entries), SubmitQuorum(Entries),
                           RequestQuorum(Entries)} :
              quorum \in Nat /\ quorum >= SubmitQuorum(Entries)
<1> DEFINE V == Cardinality(Validators)
<1>1. V \in Nat /\ V >= 1
  BY ValidatorsAssumption, FS_CardinalityType, FS_EmptySet
<1> HIDE DEF V
<1>2. /\ SubmitQuorum(ConfiguredEntries(V)) \in Nat
      /\ LockQuorum(ConfiguredEntries(V)) \in Nat
      /\ RequestQuorum(ConfiguredEntries(V)) \in Nat
  BY <1>1 DEF SubmitQuorum, LockQuorum, RequestQuorum, ConfiguredEntries
<1>3. /\ LockQuorum(ConfiguredEntries(V)) >= SubmitQuorum(ConfiguredEntries(V))
      /\ RequestQuorum(ConfiguredEntries(V)) >= SubmitQuorum(ConfiguredEntries(V))
  BY <1>1, LockQuorumIsEnough, RequestQuorumIsEnough DEF V
<1> QED
  BY <1>2, <1>3 DEF Entries, V

LEMMA SignersFacts ==
  ASSUME NEW tx
  PROVE  /\ ValidSigners(tx) \subseteq Signers(tx)
         /\ Signers(tx) \subseteq Validators
         /\ Cardinality(Signers(tx)) \in Nat
         /\ Cardinality(ValidSigners(tx)) \in Nat
         /\ SignaturesVerify(tx) => ValidSigners(tx) = Signers(tx)
<1>1. /\ ValidSigners(tx) \subseteq Signers(tx)
      /\ Signers(tx) \subseteq Validators
      /\ SignaturesVerify(tx) => ValidSigners(tx) = Signers(tx)
  BY DEF ValidSigners, Signers, SignaturesVerify
<1>2. IsFiniteSet(Signers(tx)) /\ IsFiniteSet(ValidSigners(tx))
  BY <1>1, ValidatorsAssumption, FS_Subset
<1> QED
  BY <1>1, <1>2, FS_CardinalityType

\* More valid signers, or as many, back a record as well, and so do more
\* restarts.
LEMMA BackedGrows ==
  ASSUME NEW old, NEW new, ValidSigners(old) \subseteq ValidSigners(new),
         NEW r \in Nat, NEW more \in Nat, r <= more,
         Backed(old, r), SubmitQuorum(Entries) \in Nat
  PROVE  Backed(new, more)
<1>1. IsFiniteSet(ValidSigners(new))
  BY SignersFacts, ValidatorsAssumption, FS_Subset
<1>2. Cardinality(ValidSigners(old)) <= Cardinality(ValidSigners(new))
  BY <1>1, FS_Subset
<1> QED
  BY <1>2, SignersFacts DEF Backed

\* Counting the entries of a record backs it up to its surplus, if each is a
\* valid signature.
LEMMA MarkSignedBacked ==
  ASSUME NEW tx \in Tx, SignaturesVerify(tx),
         NEW r \in Nat, tx.surplus <= r, NEW quorum \in Nat,
         quorum >= SubmitQuorum(Entries), SubmitQuorum(Entries) \in Nat,
         tx.status = "signed" => Backed(tx, r),
         MarkSigned(tx, quorum).status = "signed"
  PROVE  Backed(MarkSigned(tx, quorum), r)
<1>1. Backed(tx, r)
  <2>1. CASE NumSignatures(tx) >= quorum
    <3>1. /\ ValidSigners(tx) = Signers(tx)
          /\ Cardinality(Signers(tx)) \in Nat
          /\ tx.surplus \in Nat
      BY SignersFacts DEF Tx
    <3>2. Cardinality(Signers(tx)) + tx.surplus >= quorum
      BY <2>1 DEF NumSignatures
    <3> QED
      BY <3>1, <3>2 DEF Backed
  <2>2. CASE ~(NumSignatures(tx) >= quorum)
    BY <2>2 DEF MarkSigned
  <2> QED
    BY <2>1, <2>2
<1>2. ValidSigners(tx) \subseteq ValidSigners(MarkSigned(tx, quorum))
  BY MarkSignedFacts DEF ValidSigners, Signers
<1> QED
  BY <1>1, <1>2, BackedGrows

-----------------------------------------------------------------------------
(* Restarts and replaying validators.                                      *)

\* Only a counted restart makes a validator replay: else one that has signed
\* stays past the lock event, and one signs first when it gets there.
LEMMA ReplayingStable ==
  ASSUME ExchangeInv, Next,
         \A n \in Validators : ~Crash(n) /\ ~GracefulRestart(n)
  PROVE  UNCHANGED restarts /\ Replaying' \subseteq Replaying
<1> SUFFICES ASSUME NEW w \in Validators, w \in Replaying' \/ restarts' # restarts
             PROVE  UNCHANGED restarts /\ w \in Replaying
  BY ValidatorsAssumption DEF Replaying
<1> DEFINE signed == \E m \in requests : m.from = w
           Goal == UNCHANGED restarts /\ w \in Replaying
<1>0. /\ TypeOK
      /\ \A n \in Validators : position[n] \in Nat
  BY DEF ExchangeInv, TypeOK
<1>1. ASSUME UNCHANGED restarts, HasLocked(w) => HasLocked(w)',
             signed' /\ ~signed => HasLocked(w)'
      PROVE  Goal
  BY <1>1 DEF Replaying
<1>2. ASSUME NEW n \in Validators, NEW tx \in Tx, StartBroadcast(n, tx),
             UNCHANGED <<position, restarts>>
      PROVE  Goal
  <2>1. HasLocked(n)'
    BY <1>0, <1>2, StartBroadcastFacts DEF HasLocked
  <2>2. w # n => (HasLocked(w)' <=> HasLocked(w))
    BY <1>0, <1>2, StartBroadcastFacts DEF HasLocked
  <2>3. w # n => signed' = signed
    BY <1>0, <1>2, StartBroadcastFacts
  <2> QED
    BY <1>1, <1>2, <2>1, <2>2, <2>3
<1>3. ASSUME NEW n \in Validators, TokensLocked(n) PROVE Goal
  <2>1. LockedTx(n) \in Tx
    BY <1>0, <1>3, LockedTxFacts DEF TokensLocked, Reads
  <2> QED
    BY <1>2, <1>3, <2>1 DEF TokensLocked
<1>4. ASSUME NEW n \in Validators, NEW quorum, RequestNewSignatures(n, quorum)
      PROVE  Goal
  <2>1. MarkSigned(ResignedTx(n), quorum) \in Tx
    BY <1>0, <1>4, ResignedTxFacts, MarkSignedFacts
    DEF RequestNewSignatures, Reads
  <2> QED
    BY <1>2, <1>4, <2>1 DEF RequestNewSignatures
<1>5. ASSUME UNCHANGED <<requests, restarts>>, HasLocked(w) => HasLocked(w)'
      PROVE  Goal
  BY <1>1, <1>5
<1> HIDE DEF Goal
<1>6. ASSUME NEW n \in Validators, IgnoreRequest(n) PROVE Goal
  BY <1>0, <1>5, <1>6 DEF IgnoreRequest, TypeOK, HasLocked
<1>7. ASSUME NEW n \in Validators, NEW kind, NEW quorum,
             MergeAnswers(n, kind, quorum)
      PROVE  Goal
  BY <1>0, <1>5, <1>7 DEF MergeAnswers, TypeOK, HasLocked
<1>8. ASSUME NEW n \in Validators, TransferCompletedEvent(n) PROVE Goal
  BY <1>5, <1>8 DEF TransferCompletedEvent, HasLocked
<1>9. ASSUME NEW n \in Validators, NEW p \in Validators, PeerFails(n, p)
      PROVE  Goal
  <2>1. [broadcast[n] EXCEPT !.waiting = @ \ {p}] # Idle
    <3>1. broadcast[n] \in Broadcast
      BY <1>0, <1>9 DEF PeerFails, TypeOK
    <3>2. [broadcast[n] EXCEPT !.waiting = @ \ {p}] \in Broadcast
      BY <3>1 DEF Broadcast
    <3> QED
      BY <3>2, SentinelsAssumption
  <2> QED
    BY <1>0, <1>5, <1>9, <2>1 DEF PeerFails, TypeOK, HasLocked
<1>10. ASSUME NEW p \in Validators, NEW m \in requests, SubmitSignature(p, m)
       PROVE  Goal
  <2>1. UNCHANGED <<position, requests, restarts>>
    BY <1>10 DEF SubmitSignature
  <2>2. PICK sig \in Nat : Answer(p, m, sig)
    <3>1. store[p] # NoTx => store[p].signatures[p] \in Nat
      BY <1>0 DEF TypeOK, Tx
    <3> QED
      BY <1>10, <3>1 DEF SubmitSignature, SubmitRefused, SubmitToCompleted,
         SubmitMerged, SubmitAdopted, NoHash
  <2> QED
    BY <1>0, <1>5, <2>1, <2>2, AnswerFacts DEF HasLocked
<1>11. ASSUME CompleteTransfer PROVE Goal
  BY <1>5, <1>11 DEF CompleteTransfer, HasLocked
<1>12. ASSUME NEW n \in Validators, ProcessStep(n) PROVE Goal
  <2>1. PanicOnHashMismatch(n)
    BY <1>12 DEF ProcessStep
  <2>2. /\ UNCHANGED <<requests, restarts>>
        /\ position[n] < Len(SourceLog)
        /\ SourceLog[position[n] + 1].kind = "lock"
        /\ broadcast[n] = Idle
    BY <2>1 DEF PanicOnHashMismatch, Reads, StartAt
  <2>3. ~HasLocked(n)
    BY <1>0, <2>2, EventFacts DEF HasLocked
  <2>4. \A x \in Validators \ {n} :
          position'[x] = position[x] /\ broadcast'[x] = broadcast[x]
    BY <1>0, <2>1 DEF PanicOnHashMismatch, StartAt, TypeOK
  <2> QED
    BY <1>5, <2>2, <2>3, <2>4 DEF HasLocked
<1>13. Goal
  BY <1>3, <1>4, <1>6, <1>7, <1>8, <1>9, <1>10, <1>11, <1>12, StepCases
<1> QED
  BY <1>13 DEF Goal

LEMMA SlackFacts ==
  ASSUME ExchangeInv, Next
  PROVE  /\ restarts \in Nat
         /\ restarts' \in Nat
         /\ restarts <= restarts'
         /\ Slack \in Int
         /\ Slack' \in Int
         /\ Slack <= restarts
         /\ Slack' <= restarts'
         /\ Slack <= Slack'
<1>1. /\ TypeOK
      /\ restarts \in Nat
  BY OptionsAssumption DEF ExchangeInv, TypeOK
<1>2. IsFiniteSet(Replaying) /\ IsFiniteSet(Replaying')
  BY ValidatorsAssumption, FS_Subset DEF Replaying
<1>3. Cardinality(Replaying) \in Nat /\ Cardinality(Replaying') \in Nat
  BY <1>2, FS_CardinalityType
<1>4. CASE \A n \in Validators : ~Crash(n) /\ ~GracefulRestart(n)
  <2>1. UNCHANGED restarts /\ Replaying' \subseteq Replaying
    BY <1>4, ReplayingStable
  <2>2. Cardinality(Replaying') <= Cardinality(Replaying)
    BY <1>2, <2>1, FS_Subset
  <2> QED
    BY <1>1, <1>3, <2>1, <2>2 DEF Slack
<1>5. ASSUME NEW n \in Validators, Crash(n) \/ GracefulRestart(n)
      PROVE  /\ restarts' = restarts + 1
             /\ Cardinality(Replaying') <= Cardinality(Replaying) + 1
  <2>1. PICK c : CountRestart /\ StartAt(n, c)
    BY <1>5 DEF Crash, GracefulRestart
  <2>2. \A w \in Validators \ {n} :
          position'[w] = position[w] /\ broadcast'[w] = broadcast[w]
    BY <1>1, <2>1 DEF StartAt, TypeOK
  <2>3. requests' = requests
    BY <2>1 DEF StartAt
  <2>4. Replaying' \subseteq Replaying \cup {n}
    BY <2>2, <2>3 DEF Replaying, HasLocked
  <2>5. /\ IsFiniteSet(Replaying \cup {n})
        /\ Cardinality(Replaying \cup {n}) <= Cardinality(Replaying) + 1
    <3>1. /\ IsFiniteSet(Replaying \cup {n})
          /\ Cardinality(Replaying \cup {n}) =
               IF n \in Replaying THEN Cardinality(Replaying)
               ELSE Cardinality(Replaying) + 1
      BY <1>2, FS_AddElement
    <3> QED
      BY <1>3, <3>1
  <2>6. Cardinality(Replaying') <= Cardinality(Replaying \cup {n})
    BY <2>4, <2>5, FS_Subset
  <2>7. Cardinality(Replaying \cup {n}) \in Nat
    BY <2>5, FS_CardinalityType
  <2> QED
    BY <1>3, <2>1, <2>5, <2>6, <2>7 DEF CountRestart
<1> QED
  BY <1>1, <1>3, <1>4, <1>5 DEF Slack

-----------------------------------------------------------------------------
(* The inductive steps.                                                    *)

\* A step changes the record of one validator, and sends that record at most.
LEMMA StepBacked ==
  ASSUME ExchangeInv, BackedInv, Next, SubmitQuorum(Entries) \in Nat,
         NEW n \in Validators,
         \A w \in Validators \ {n} : store'[w] = store[w],
         \A m \in requests' \ requests : store'[n] # NoTx /\ m.tx = store'[n],
         store'[n] \notin {NoTx, store[n]} =>
           /\ store'[n].surplus <= Slack'
           /\ ~transferCompleted' /\ store'[n].status = "signed" =>
                Backed(store'[n], restarts')
  PROVE  BackedInv'
<1>1. transferCompleted => transferCompleted'
  BY CompletedByTheChain DEF CompleteTransfer
<1>2. \A r, more \in Nat : \A tx : r <= more /\ Backed(tx, r) => Backed(tx, more)
  BY BackedGrows
<1>3. ASSUME NEW tx, Backed(tx, restarts) PROVE Backed(tx, restarts')
  BY <1>2, <1>3, SlackFacts
<1>4. ASSUME NEW tx, tx.surplus \in Nat, tx.surplus <= Slack
      PROVE  tx.surplus <= Slack'
  BY <1>4, SlackFacts
<1>5. /\ \A w \in Validators : store[w] # NoTx => store[w].surplus \in Nat
      /\ \A m \in requests : m.tx.surplus \in Nat
  BY DEF ExchangeInv, TypeOK, Tx
<1>6. ASSUME NEW w \in Validators, store'[w] # NoTx
      PROVE  /\ store'[w].surplus <= Slack'
             /\ ~transferCompleted' /\ store'[w].status = "signed" =>
                  Backed(store'[w], restarts')
  <2>1. CASE store'[w] = store[w]
    BY <1>1, <1>3, <1>4, <1>5, <1>6, <2>1 DEF BackedInv
  <2>2. CASE store'[w] # store[w]
    BY <1>6, <2>2
  <2> QED
    BY <2>1, <2>2
<1>7. ASSUME NEW m \in requests'
      PROVE  /\ m.tx.surplus <= Slack'
             /\ ~transferCompleted' /\ m.tx.status = "signed" =>
                  Backed(m.tx, restarts')
  <2>1. CASE m \in requests
    BY <1>1, <1>3, <1>4, <1>5, <2>1 DEF BackedInv
  <2>2. CASE m \notin requests
    BY <1>6, <1>7, <2>2
  <2> QED
    BY <2>1, <2>2
<1>8. Slack' >= 0
  BY SlackFacts DEF BackedInv
<1> QED
  BY <1>6, <1>7, <1>8 DEF BackedInv, Backed, ValidSigners, Signers

\* A validator that reads the lock event again is not about to any more.
LEMMA ReplayedLockFacts ==
  ASSUME ExchangeInv, Next, NEW n \in Validators, TokensLocked(n),
         n \in Replaying
  PROVE  Slack + 1 <= Slack'
<1>1. /\ TypeOK
      /\ restarts \in Nat
      /\ UNCHANGED restarts
  BY SlackFacts DEF ExchangeInv, TokensLocked
<1>2. Replaying' \subseteq Replaying
  BY <1>1, ReplayingStable DEF Crash, GracefulRestart, CountRestart
<1>3. HasLocked(n)'
  <2>1. LockedTx(n) \in Tx
    BY <1>1, LockedTxFacts DEF TokensLocked, Reads
  <2> QED
    BY <1>1, <2>1, StartBroadcastFacts DEF TokensLocked, HasLocked
<1>4. Replaying' \subseteq Replaying \ {n}
  BY <1>2, <1>3 DEF Replaying
<1>5. IsFiniteSet(Replaying)
  BY ValidatorsAssumption, FS_Subset DEF Replaying
<1>6. /\ IsFiniteSet(Replaying \ {n})
      /\ Cardinality(Replaying \ {n}) = Cardinality(Replaying) - 1
  BY <1>5, FS_RemoveElement
<1>7. Cardinality(Replaying') <= Cardinality(Replaying \ {n})
  BY <1>4, <1>6, FS_Subset
<1>8. Cardinality(Replaying) \in Nat /\ Cardinality(Replaying') \in Nat
  BY <1>4, <1>5, <1>6, FS_Subset, FS_CardinalityType
<1> QED
  BY <1>1, <1>6, <1>7, <1>8 DEF Slack

LEMMA TokensLockedBacked ==
  ASSUME ExchangeInv, GenuineInv, BackedInv, Next,
         SubmitQuorum(Entries) \in Nat, NEW n \in Validators, TokensLocked(n)
  PROVE  BackedInv'
<1> DEFINE tx == LockedTx(n)
<1>1. /\ TypeOK
      /\ position[n] < Len(SourceLog)
      /\ SourceLog[position[n] + 1].kind = "lock"
      /\ broadcast[n] = Idle
      /\ store' = [store EXCEPT ![n] = tx]
      /\ StartBroadcast(n, tx)
  BY DEF ExchangeInv, TokensLocked, Reads
<1>2. ~HasLocked(n)
  BY <1>1, EventFacts DEF HasLocked
<1>3. tx \in Tx /\ tx # NoTx /\ tx.status # "signed"
  BY <1>1, LockedTxFacts, SentinelsAssumption DEF LockedTx
<1>4. tx.surplus <= Slack'
  <2>1. CASE store[n] = NoTx
    BY <1>1, <2>1, LockedTxFacts, SlackFacts DEF BackedInv
  <2>2. CASE store[n] # NoTx
    <3>1. /\ store[n].surplus \in Nat
          /\ store[n].surplus <= Slack
      BY <1>1, <2>2 DEF BackedInv, TypeOK, Tx
    <3>2. CASE n \in Signers(store[n])
      <4>1. n \in Replaying
        BY <1>2, <2>2, <3>2
        DEF Signers, GenuineInv, Genuine, SignedOnce, Replaying
      <4>2. tx.surplus = store[n].surplus + 1
        BY <2>2, <3>2 DEF LockedTx
      <4> HIDE DEF tx
      <4> QED
        BY <3>1, <4>1, <4>2, ReplayedLockFacts, SlackFacts
    <3>3. CASE n \notin Signers(store[n])
      <4>1. tx.surplus = store[n].surplus
        BY <2>2, <3>1, <3>3 DEF LockedTx
      <4> HIDE DEF tx
      <4> QED
        BY <3>1, <4>1, SlackFacts
    <3> QED
      BY <3>2, <3>3
  <2> QED
    BY <2>1, <2>2
<1> HIDE DEF tx
<1>5. /\ store'[n] = tx
      /\ \A w \in Validators \ {n} : store'[w] = store[w]
      /\ \A m \in requests' \ requests : m.tx = tx
  BY <1>1 DEF TypeOK, StartBroadcast
<1> QED
  BY <1>3, <1>4, <1>5, StepBacked

\* A record that lists each address once, and is counted against a quorum.
LEMMA CountedBacked ==
  ASSUME ExchangeInv, BackedInv, Next, SubmitQuorum(Entries) \in Nat,
         NEW n \in Validators, NEW tx \in Tx, tx.surplus <= Slack,
         NEW quorum \in Nat, quorum >= SubmitQuorum(Entries),
         store' = [store EXCEPT ![n] = MarkSigned(tx, quorum)],
         \A m \in requests' \ requests : m.tx = MarkSigned(tx, quorum),
         ~transferCompleted =>
           /\ SignaturesVerify(tx)
           /\ tx.status = "signed" => Backed(tx, restarts)
  PROVE  BackedInv'
<1> DEFINE marked == MarkSigned(tx, quorum)
<1>1. /\ marked \in Tx
      /\ marked # NoTx
      /\ marked.surplus = tx.surplus
  BY MarkSignedFacts, SentinelsAssumption
<1>2. tx.surplus \in Nat /\ tx.surplus <= restarts
  BY SlackFacts DEF Tx
<1>3. ASSUME ~transferCompleted, marked.status = "signed"
      PROVE  Backed(marked, restarts')
  <2>1. Backed(marked, restarts)
    BY <1>2, <1>3, MarkSignedBacked, SlackFacts
  <2> HIDE DEF marked
  <2> QED
    BY <2>1, BackedGrows, SlackFacts
<1>4. transferCompleted => transferCompleted'
  BY CompletedByTheChain DEF CompleteTransfer
<1> HIDE DEF marked
<1>5. /\ store'[n] = marked
      /\ \A w \in Validators \ {n} : store'[w] = store[w]
      /\ \A m \in requests' \ requests : m.tx = marked
  BY DEF ExchangeInv, TypeOK, marked
<1>6. marked.surplus <= Slack'
  BY <1>1, <1>2, SlackFacts
<1> QED
  BY <1>1, <1>3, <1>4, <1>5, <1>6, StepBacked

LEMMA RequestNewSignaturesBacked ==
  ASSUME ExchangeInv, BackedInv, Next, SubmitQuorum(Entries) \in Nat,
         NEW n \in Validators, NEW quorum \in Nat,
         quorum >= SubmitQuorum(Entries), RequestNewSignatures(n, quorum)
  PROVE  BackedInv'
<1> DEFINE fresh == ResignedTx(n)
<1>1. /\ TypeOK
      /\ position[n] < Len(SourceLog)
      /\ store' = [store EXCEPT ![n] = MarkSigned(fresh, quorum)]
      /\ StartBroadcast(n, MarkSigned(fresh, quorum))
  BY DEF ExchangeInv, RequestNewSignatures, Reads
<1>2. /\ fresh \in Tx
      /\ fresh.surplus = 0
      /\ fresh.status # "signed"
      /\ SignaturesVerify(fresh)
  BY <1>1, ResignedTxFacts DEF SignaturesVerify
<1> HIDE DEF fresh
<1>3. fresh.surplus <= Slack
  BY <1>2, SlackFacts DEF BackedInv
<1>4. \A m \in requests' \ requests : m.tx = MarkSigned(fresh, quorum)
  BY <1>1 DEF StartBroadcast
<1> QED
  BY <1>1, <1>2, <1>3, <1>4, CountedBacked

LEMMA MergeAnswersBacked ==
  ASSUME ExchangeInv, BackedInv, Next, SubmitQuorum(Entries) \in Nat,
         NEW n \in Validators, NEW kind, NEW quorum \in Nat,
         quorum >= SubmitQuorum(Entries), MergeAnswers(n, kind, quorum)
  PROVE  BackedInv'
<1> DEFINE merged == MergedTx(n)
<1>1. /\ TypeOK
      /\ broadcast[n] # Idle
      /\ store[n] # NoTx
      /\ store' = [store EXCEPT ![n] =
           IF store[n].status = "completed" THEN merged
           ELSE MarkSigned(merged, quorum)]
      /\ requests' = requests
      /\ UNCHANGED transferCompleted
  BY DEF ExchangeInv, BroadcastInv, MergeAnswers
<1>2. /\ merged \in Tx
      /\ merged.surplus = 0
      /\ merged.status = store[n].status
      /\ merged.hash = store[n].hash
  BY <1>1, MergedTxFacts
<1>3. ASSUME ~transferCompleted
      PROVE  /\ SignaturesVerify(merged)
             /\ merged.status = "signed" => Backed(merged, restarts)
             /\ merged.status # "completed"
  <2>1. /\ SignaturesVerify(store[n])
        /\ store[n].status # "completed"
        /\ \A w \in Validators :
             broadcast[n].answers[w] \in {NoHash, store[n].hash}
    BY <1>1, <1>3 DEF ExchangeInv, OpenInv
  <2>2. SignaturesVerify(merged)
    BY <1>1, <1>2, <2>1, MergedTxFacts DEF SignaturesVerify
  <2>3. ValidSigners(store[n]) \subseteq ValidSigners(merged)
    BY <1>1, <1>2, <2>1, MergedTxFacts DEF ValidSigners, Signers
  <2>4. merged.status = "signed" => Backed(store[n], restarts)
    BY <1>1, <1>2, <1>3 DEF BackedInv
  <2> HIDE DEF merged
  <2> QED
    BY <1>2, <2>1, <2>2, <2>3, <2>4, BackedGrows, SlackFacts
<1> HIDE DEF merged
<1>4. merged.surplus <= Slack /\ merged.surplus <= Slack'
  BY <1>2, SlackFacts DEF BackedInv
<1>5. CASE store[n].status = "completed"
  <2>1. /\ store'[n] = merged
        /\ \A w \in Validators \ {n} : store'[w] = store[w]
    BY <1>1, <1>5 DEF TypeOK
  <2> QED
    BY <1>1, <1>2, <1>4, <1>5, <2>1, StepBacked
<1>6. CASE store[n].status # "completed"
  BY <1>1, <1>2, <1>3, <1>4, <1>6, CountedBacked
<1> QED
  BY <1>5, <1>6

LEMMA SubmitSignatureBacked ==
  ASSUME ExchangeInv, BackedInv, Next, SubmitQuorum(Entries) \in Nat,
         NEW p \in Validators, NEW m \in requests, SubmitSignature(p, m)
  PROVE  BackedInv'
<1>1. /\ TypeOK
      /\ m.tx \in Tx
      /\ requests' = requests
      /\ SubmitQuorum(Entries) >= SubmitQuorum(Entries)
  BY DEF ExchangeInv, TypeOK, SubmitSignature
<1>2. CASE UNCHANGED store
  BY <1>1, <1>2, StepBacked
<1>3. CASE SubmitMerged(p, m)
  <2> DEFINE both == SubmittedTx(p, m)
  <2>1. /\ store[p] # NoTx
        /\ store[p].hash = m.tx.hash
        /\ SignaturesVerify(m.tx)
        /\ store' = [store EXCEPT ![p] = MarkSigned(both, SubmitQuorum(Entries))]
    BY <1>3 DEF SubmitMerged
  <2>2. /\ both \in Tx
        /\ both.surplus = 0
        /\ both.status = store[p].status
        /\ both.hash = store[p].hash
        /\ ValidSigners(store[p]) \subseteq ValidSigners(both)
    BY <1>1, <2>1, SubmittedTxFacts DEF Signers, ValidSigners
  <2>3. ASSUME ~transferCompleted
        PROVE  /\ SignaturesVerify(both)
               /\ both.status = "signed" => Backed(both, restarts)
    <3>1. SignaturesVerify(store[p])
      BY <2>1, <2>3 DEF ExchangeInv, OpenInv
    <3>2. SignaturesVerify(both)
      BY <1>1, <2>1, <2>2, <3>1, SubmittedTxFacts DEF SignaturesVerify
    <3>3. both.status = "signed" => Backed(store[p], restarts)
      BY <2>1, <2>2, <2>3 DEF BackedInv
    <3> HIDE DEF both
    <3> QED
      BY <2>2, <3>2, <3>3, BackedGrows, SlackFacts
  <2> HIDE DEF both
  <2>4. both.surplus <= Slack
    BY <2>2, SlackFacts DEF BackedInv
  <2> QED
    BY <1>1, <2>1, <2>2, <2>3, <2>4, CountedBacked
<1>4. CASE SubmitAdopted(p, m)
  <2>1. /\ SignaturesVerify(m.tx)
        /\ store' = [store EXCEPT ![p] = MarkSigned(m.tx, SubmitQuorum(Entries))]
    BY <1>4 DEF SubmitAdopted
  <2>2. /\ m.tx.surplus <= Slack
        /\ ~transferCompleted /\ m.tx.status = "signed" =>
             Backed(m.tx, restarts)
    BY DEF BackedInv
  <2> QED
    BY <1>1, <2>1, <2>2, CountedBacked
<1> QED
  BY <1>2, <1>3, <1>4 DEF SubmitSignature, SubmitRefused, SubmitToCompleted

LEMMA TransferCompletedEventBacked ==
  ASSUME ExchangeInv, BackedInv, Next, SubmitQuorum(Entries) \in Nat,
         NEW n \in Validators, TransferCompletedEvent(n)
  PROVE  BackedInv'
<1> DEFINE tx == IF store[n] = NoTx
                 THEN [status |-> "completed", hash |-> NoHash,
                       signatures |-> NoSignatures, surplus |-> 0]
                 ELSE [store[n] EXCEPT !.status = "completed"]
<1>1. /\ TypeOK
      /\ requests' = requests
      /\ store' = [store EXCEPT ![n] = tx]
  BY DEF ExchangeInv, TransferCompletedEvent
<1>2. /\ store'[n] = tx
      /\ \A w \in Validators \ {n} : store'[w] = store[w]
  BY <1>1 DEF TypeOK
<1>3. tx.surplus <= Slack'
  <2>1. CASE store[n] = NoTx
    BY <2>1, SlackFacts DEF BackedInv
  <2>2. CASE store[n] # NoTx
    <3>1. /\ tx.surplus = store[n].surplus
          /\ tx.surplus \in Nat
          /\ store[n].surplus <= Slack
      BY <1>1, <2>2 DEF TypeOK, Tx, BackedInv
    <3> HIDE DEF tx
    <3> QED
      BY <3>1, SlackFacts
  <2> QED
    BY <2>1, <2>2
<1>4. tx.status # "signed"
  BY <1>1 DEF TypeOK, Tx
<1> HIDE DEF tx
<1> QED
  BY <1>1, <1>2, <1>3, <1>4, StepBacked

LEMMA NextBacked ==
  ASSUME ExchangeInv, GenuineInv, BackedInv, Next,
         Cardinality(Validators) <= 16
  PROVE  BackedInv'
<1>1. TypeOK /\ SubmitQuorum(Entries) \in Nat
  BY QuorumFacts DEF ExchangeInv
<1>2. ASSUME NEW n \in Validators, TokensLocked(n) PROVE BackedInv'
  BY <1>1, <1>2, TokensLockedBacked
<1>3. ASSUME NEW n \in Validators,
             NEW quorum \in {SubmitQuorum(Entries), RequestQuorum(Entries)},
             RequestNewSignatures(n, quorum)
      PROVE  BackedInv'
  BY <1>3, QuorumFacts, RequestNewSignaturesBacked
<1>4. ASSUME NEW n \in Validators, NEW kind,
             NEW quorum \in {LockQuorum(Entries), SubmitQuorum(Entries),
                             RequestQuorum(Entries)},
             MergeAnswers(n, kind, quorum)
      PROVE  BackedInv'
  BY <1>4, QuorumFacts, MergeAnswersBacked
<1>5. ASSUME UNCHANGED <<store, requests>> PROVE BackedInv'
  BY <1>1, <1>5, ValidatorsAssumption, StepBacked
<1>6. ASSUME NEW n \in Validators, TransferCompletedEvent(n) PROVE BackedInv'
  BY <1>1, <1>6, TransferCompletedEventBacked
<1>7. ASSUME NEW p \in Validators, NEW m \in requests, SubmitSignature(p, m)
      PROVE  BackedInv'
  BY <1>1, <1>7, SubmitSignatureBacked
<1>8. ASSUME NEW n \in Validators, ProcessStep(n) PROVE BackedInv'
  <2>1. PICK c : StartAt(n, c)
    BY <1>8 DEF ProcessStep, Crash, PanicOnHashMismatch, GracefulRestart
  <2>2. /\ \A w \in Validators \ {n} : store'[w] = store[w]
        /\ store'[n] \in {store[n], NoTx}
        /\ requests' = requests
    BY <1>1, <2>1 DEF StartAt, TypeOK
  <2> QED
    BY <1>1, <2>2, StepBacked
<1> QED
  BY <1>2, <1>3, <1>4, <1>5, <1>6, <1>7, <1>8, StepCases
  DEF IgnoreRequest, PeerFails, CompleteTransfer

\* In a bridge of at most sixteen validators, a record is reported signed only
\* with the API's quorum behind it, short of at most one signature for each
\* restart, though three different thresholds decide it and replayed locks are
\* counted twice.
THEOREM SignedNeedsQuorum ==
  ASSUME Cardinality(Validators) <= 16
  PROVE  Spec => []SignedIsBacked
<1>1. Init => BackedInv
  <2> SUFFICES ASSUME Init PROVE BackedInv
    OBVIOUS
  <2>1. Replaying = {} /\ restarts = 0
    BY DEF Init, Replaying
  <2>2. Slack = 0
    BY <2>1, FS_EmptySet DEF Slack
  <2> QED
    BY <2>2 DEF Init, BackedInv
<1>2. ExchangeInv /\ GenuineInv /\ BackedInv /\ [Next]_vars => BackedInv'
  <2> SUFFICES ASSUME ExchangeInv, GenuineInv, BackedInv, [Next]_vars
               PROVE  BackedInv'
    OBVIOUS
  <2>1. CASE UNCHANGED vars
    BY <2>1 DEF vars, BackedInv, Slack, Replaying, HasLocked, Backed,
       ValidSigners, Signers
  <2> QED
    BY <2>1, NextBacked
<1>3. BackedInv => SignedIsBacked
  BY DEF BackedInv, SignedIsBacked, Backed
<1> QED
  BY <1>1, <1>2, <1>3, ExchangeInvariant, GenuineInvariant, PTL DEF Spec
=============================================================================
