------------------------- MODULE LockedTransfersProofs -------------------------
(***************************************************************************)
(* Proofs about LockedTransfers, BroadcastTransaction and                  *)
(* CompleteTransferHash, for any validators, logs, times and amounts.      *)
(***************************************************************************)
EXTENDS LockedTransfers, FiniteSetTheorems, SequenceTheorems, TLAPS

(***************************************************************************)
(* The hashes.                                                             *)
(***************************************************************************)

\* The padded bytes of an amount are an amount.
LEMMA PaddedIsNat ==
  ASSUME NEW a \in Nat, IsUint64(a)
  PROVE  PaddedBytes(a) \in Nat
BY HalfAssumption DEF PaddedBytes, IsUint64, Word

\* Two Koinos amounts are hashed alike if and only if they are equal or the
\* one is the other's two's complement, as int64(amount) at util.go:298 makes
\* them: no two amounts below 2^63 are.
THEOREM PaddedAmountsCollide ==
  ASSUME NEW a \in Nat, NEW b \in Nat, IsUint64(a), IsUint64(b)
  PROVE  PaddedBytes(a) = PaddedBytes(b) <=> a = b \/ a + b = Word
<1>1. a < Half => b \in {a, Word - a} <=> PaddedBytes(b) = a
  BY HalfAssumption DEF PaddedBytes, IsUint64, Word
<1>2. a >= Half => b \in {a, Word - a} <=> PaddedBytes(b) = Word - a
  BY HalfAssumption DEF PaddedBytes, IsUint64, Word
<1>3. PaddedBytes(a) = IF a < Half THEN a ELSE Word - a
  BY DEF PaddedBytes
<1>4. b \in {a, Word - a} <=> a = b \/ a + b = Word
  BY HalfAssumption DEF Word
<1> QED
  BY <1>1, <1>2, <1>3, <1>4, HalfAssumption

\* A peer signs every Ethereum transfer that it can parse: from the text of a
\* record it computes the hash that the lock handler has computed from the
\* event (api.go:282-304, ethereum_streamer.go:642-663).
THEOREM EthereumPeersAgree ==
  ASSUME NEW t \in Transfer, NEW e \in Nat, SubmittedDecodes("ethereum", t)
  PROVE  Verifies("ethereum", t, LockHash("ethereum", t, e))
<1>1. t.amount \in Nat /\ t.amount < Word
  BY DEF Transfer, SubmittedDecodes, IsUint64
<1>2. Uint64(t.amount) = t.amount
  BY <1>1, HalfAssumption DEF Uint64, Word
<1> QED
  BY <1>2 DEF Verifies, LockHash, SubmittedHash, EthereumLockHash,
     EthereumSubmittedHash, HashOf

\* A peer signs a Koinos transfer if and only if its token is configured: of a
\* token that is not, the lock handler hashes the zero address and the peer no
\* bytes at all (koinos_streamer.go:441, api.go:441).
THEOREM KoinosPeersAgree ==
  ASSUME NEW t \in Transfer, NEW e \in Nat, IsUint64(t.amount)
  PROVE  Verifies("koinos", t, LockHash("koinos", t, e)) <=> t.supported
<1>1. LockHash("koinos", t, e)
        = HashOf(t, PaddedBytes(t.amount),
                 IF t.supported THEN "configured" ELSE "zero", e)
  BY DEF LockHash, KoinosLockHash
<1>2. SubmittedHash("koinos", t, e)
        = HashOf(t, PaddedBytes(t.amount),
                 IF t.supported THEN "configured" ELSE "empty", e)
  BY DEF SubmittedHash, KoinosSubmittedHash
<1>3. LockHash("koinos", t, e).expiration = e
  BY <1>1 DEF HashOf
<1>4. SubmittedDecodes("koinos", t)
  BY DEF SubmittedDecodes
<1>5. CASE t.supported
  <2>1. LockHash("koinos", t, e) = SubmittedHash("koinos", t, e)
    BY <1>1, <1>2, <1>5
  <2> QED
    BY <2>1, <1>3, <1>4, <1>5 DEF Verifies
<1>6. CASE ~t.supported
  <2>1. LockHash("koinos", t, e).token = "zero"
    BY <1>1, <1>6 DEF HashOf
  <2>2. SubmittedHash("koinos", t, e).token = "empty"
    BY <1>2, <1>6 DEF HashOf
  <2> QED
    BY <2>1, <2>2, <1>3, <1>6 DEF Verifies
<1> QED
  BY <1>5, <1>6

\* What the re-signing handler hashes is what the lock handler has hashed, with
\* another expiration, if the record decodes at all.
LEMMA RecordAgreesWithLock ==
  ASSUME NEW chain \in Chains, NEW t \in Transfer, NEW e \in Nat,
         RecordDecodes(chain, t)
  PROVE  RecordHash(chain, t, e) = LockHash(chain, t, e)
<1>1. CASE chain = "ethereum"
  <2>1. t.amount \in Nat /\ t.amount < Word
    BY <1>1 DEF Transfer, RecordDecodes, IsUint64
  <2>2. Uint64(t.amount) = t.amount
    BY <2>1, HalfAssumption DEF Uint64, Word
  <2> QED
    BY <1>1, <2>2 DEF RecordHash, LockHash, EthereumRecordHash, EthereumLockHash
<1>2. CASE chain = "koinos"
  BY <1>2 DEF RecordHash, LockHash
<1> QED
  BY <1>1, <1>2 DEF Chains

\* The lock handler's hash is a hash, with the expiration it is given.
LEMMA LockHashType ==
  ASSUME NEW chain \in Chains, NEW t \in Transfer, NEW e \in Nat,
         chain = "koinos" => IsUint64(t.amount)
  PROVE  LockHash(chain, t, e) \in Hash /\ LockHash(chain, t, e).expiration = e
<1>1. t.amount \in Nat /\ t.tx \in TxIds /\ t.op \in OpIds
  BY DEF Transfer
<1>2. t.named \in BOOLEAN
  BY DEF Transfer
<1>3. ASSUME NEW amount \in Nat, NEW token \in Tokens
      PROVE  HashOf(t, amount, token, e) \in Hash
               /\ HashOf(t, amount, token, e).expiration = e
  BY <1>1, <1>2 DEF HashOf, Hash
<1>4. CASE chain = "ethereum"
  <2>1. Uint64(t.amount) \in Nat
    BY <1>1, HalfAssumption DEF Uint64, Word
  <2> QED
    BY <1>3, <1>4, <2>1 DEF LockHash, EthereumLockHash, Tokens
<1>5. CASE chain = "koinos"
  <2>1. PaddedBytes(t.amount) \in Nat
    BY <1>1, <1>5, PaddedIsNat
  <2>2. (IF t.supported THEN "configured" ELSE "zero") \in Tokens
    BY DEF Tokens
  <2> QED
    BY <1>3, <1>5, <2>1, <2>2 DEF LockHash, KoinosLockHash
<1> QED
  BY <1>4, <1>5 DEF Chains

\* Hashes of one transfer differ in their expiration only.
LEMMA LockHashMoves ==
  ASSUME NEW chain \in Chains, NEW t \in Transfer, NEW d \in Nat, NEW e \in Nat
  PROVE  LockHash(chain, t, d) = [LockHash(chain, t, e) EXCEPT !.expiration = d]
BY DEF LockHash, EthereumLockHash, KoinosLockHash, HashOf

(***************************************************************************)
(* The broadcast loop.                                                     *)
(***************************************************************************)

BroadcastStep ==
  \E e \in Entry :
    SkipEntry(e) \/ CallFails(e) \/ \E reply : PeerAnswers(e, reply)

EntriesOf(w) == {e \in Entry : e.validator = w}
LeftOf(w) == EntriesOf(w) \cap unvisited

\* Every call that has failed has cost w one of its two entries.
CallsOf(w) ==
  IF w \in processedApiUrls
  THEN calls[w] \in {<<"answered">>, <<"failed", "answered">>}
  ELSE \/ calls[w] = <<>> /\ (w # Self => LeftOf(w) = EntriesOf(w))
       \/ calls[w] = <<"failed">> /\ w # Self
            /\ \E e \in EntriesOf(w) : LeftOf(w) = {e}
       \/ calls[w] = <<"failed", "failed">> /\ w # Self /\ LeftOf(w) = {}

CallsInv ==
  /\ processedApiUrls \subseteq Validators \ {Self}
  /\ \A w \in Validators : CallsOf(w)

LoopInv == BroadcastTypeOK /\ CallsInv

LEMMA EntryTypes ==
  ASSUME NEW e \in Entry
  PROVE  e.validator \in Validators /\ e \in EntriesOf(e.validator)
BY DEF Entry, EntriesOf

\* A validator has two entries.
LEMMA TwoEntries ==
  ASSUME NEW w \in Validators, NEW e \in EntriesOf(w)
  PROVE  \E f \in EntriesOf(w) : f # e /\ EntriesOf(w) = {e, f}
<1> DEFINE a == [validator |-> w, address |-> "ethereum"]
           b == [validator |-> w, address |-> "koinos"]
<1>1. EntriesOf(w) = {a, b} /\ a # b
  BY DEF EntriesOf, Entry
<1> QED
  BY <1>1

\* What a further call makes of the calls so far.
LEMMA Appends ==
  ASSUME NEW x \in Outcome
  PROVE  /\ Append(<<>>, x) = <<x>>
         /\ Append(<<"failed">>, x) = <<"failed", x>>
         /\ <<x>> \in Seq(Outcome) /\ <<"failed", x>> \in Seq(Outcome)
<1>1. "failed" \in Outcome
  BY DEF Outcome
<1>2. <<x>> \in Seq(Outcome) /\ <<"failed", x>> \in Seq(Outcome)
  BY <1>1
<1>3. Append(<<>>, x) = <<x>>
  OBVIOUS
<1>4. Append(<<"failed">>, x) = <<"failed", x>>
  <2> DEFINE s == Append(<<"failed">>, x)
             u == <<"failed", x>>
  <2>1. <<"failed">> \in Seq(Outcome) /\ Len(<<"failed">>) = 1
    BY <1>1
  <2>2. /\ s \in Seq(Outcome) /\ Len(s) = 2
        /\ s[1] = "failed" /\ s[2] = x
    BY <2>1, AppendProperties
  <2>3. u \in Seq(Outcome) /\ Len(u) = 2 /\ u[1] = "failed" /\ u[2] = x
    BY <1>2
  <2> HIDE DEF s, u
  <2>4. \A i \in 1..Len(s) : s[i] = u[i]
    BY <2>2, <2>3
  <2>5. s = u
    BY <2>2, <2>3, <2>4, SeqEqual
  <2> QED
    BY <2>5 DEF s, u
<1> QED
  BY <1>2, <1>3, <1>4

LEMMA LoopStarts == NoCallYet => LoopInv
<1> SUFFICES ASSUME NoCallYet PROVE LoopInv
  OBVIOUS
<1>1. BroadcastTypeOK
  BY DEF NoCallYet, BroadcastTypeOK
<1>2. CallsInv
  BY DEF NoCallYet, CallsInv, CallsOf, LeftOf, EntriesOf
<1> QED
  BY <1>1, <1>2 DEF LoopInv

LEMMA LoopRestarts == ResetBroadcast => LoopInv'
<1> SUFFICES ASSUME ResetBroadcast PROVE LoopInv'
  OBVIOUS
<1>1. BroadcastTypeOK'
  BY DEF ResetBroadcast, BroadcastTypeOK
<1>2. CallsInv'
  BY DEF ResetBroadcast, CallsInv, CallsOf, LeftOf, EntriesOf
<1> QED
  BY <1>1, <1>2 DEF LoopInv

LEMMA LoopStays == LoopInv /\ UNCHANGED broadcastVars => LoopInv'
BY DEF LoopInv, BroadcastTypeOK, CallsInv, CallsOf, LeftOf, broadcastVars

\* A peer whose entry is visited, and not skipped, has been called once at most.
LEMMA CalledPeer ==
  ASSUME LoopInv, NEW e \in Entry, e \in unvisited, ~Skips(e)
  PROVE  LET w == e.validator IN
           /\ w \in Validators \ {Self} /\ w \notin processedApiUrls
           /\ \/ calls[w] = <<>> /\ LeftOf(w) = EntriesOf(w)
              \/ calls[w] = <<"failed">> /\ LeftOf(w) = {e}
<1> DEFINE w == e.validator
<1>1. w \in Validators /\ e \in LeftOf(w)
  BY EntryTypes DEF LeftOf
<1>2. w # Self /\ w \notin processedApiUrls
  BY DEF Skips
<1>3. CallsOf(w)
  BY <1>1 DEF LoopInv, CallsInv
<1> QED
  BY <1>1, <1>2, <1>3 DEF CallsOf

\* The entries of the other validators are not touched.
LEMMA OthersLeft ==
  ASSUME NEW e \in Entry, unvisited' = unvisited \ {e}
  PROVE  /\ \A w : EntriesOf(w)' = EntriesOf(w)
         /\ \A w : w # e.validator => LeftOf(w)' = LeftOf(w)
         /\ LeftOf(e.validator)' = LeftOf(e.validator) \ {e}
BY DEF LeftOf, EntriesOf, Entry

LEMMA LoopSteps == LoopInv /\ BroadcastStep => LoopInv'
<1> SUFFICES ASSUME LoopInv, NEW e \in Entry,
                    SkipEntry(e) \/ CallFails(e)
                      \/ \E reply : PeerAnswers(e, reply)
             PROVE  LoopInv'
  BY DEF BroadcastStep
<1> DEFINE v == e.validator
<1>1. v \in Validators /\ e \in EntriesOf(v)
  BY EntryTypes
<1>2. calls \in [Validators -> Seq(Outcome)]
  BY DEF LoopInv, BroadcastTypeOK
<1>3. unvisited' = unvisited \ {e} /\ e \in unvisited
  BY DEF SkipEntry, CallFails, PeerAnswers
<1>4. /\ \A w : EntriesOf(w)' = EntriesOf(w)
      /\ \A w : w # v => LeftOf(w)' = LeftOf(w)
      /\ LeftOf(v)' = LeftOf(v) \ {e}
  BY <1>3, OthersLeft
<1>5. CASE SkipEntry(e)
  <2>1. UNCHANGED <<processedApiUrls, signatures, calls, expired, elapsed>>
    BY <1>5 DEF SkipEntry
  <2>2. v = Self \/ v \in processedApiUrls
    BY <1>5 DEF SkipEntry, Skips
  <2>3. BroadcastTypeOK'
    BY <1>3, <2>1 DEF LoopInv, BroadcastTypeOK
  <2>4. ASSUME NEW w \in Validators PROVE CallsOf(w)'
    <3>1. CallsOf(w)
      BY DEF LoopInv, CallsInv
    <3>2. CASE w = v
      BY <2>1, <2>2, <3>1, <3>2 DEF CallsOf
    <3>3. CASE w # v
      BY <1>4, <2>1, <3>1, <3>3 DEF CallsOf
    <3> QED
      BY <3>2, <3>3
  <2> QED
    BY <2>1, <2>3, <2>4 DEF LoopInv, CallsInv
<1>6. ASSUME NEW x \in Outcome, ~Skips(e),
             calls' = [calls EXCEPT ![v] = Append(@, x)],
             processedApiUrls' =
               IF x = "answered" THEN processedApiUrls \cup {v}
               ELSE processedApiUrls
      PROVE  CallsInv' /\ calls' \in [Validators -> Seq(Outcome)]
  <2>1. /\ v # Self /\ v \notin processedApiUrls
        /\ \/ calls[v] = <<>> /\ LeftOf(v) = EntriesOf(v)
           \/ calls[v] = <<"failed">> /\ LeftOf(v) = {e}
    BY <1>3, <1>6, CalledPeer
  <2>2. calls'[v] = Append(calls[v], x) /\ \A w \in Validators \ {v} : calls'[w] = calls[w]
    BY <1>1, <1>2, <1>6
  <2>3. \/ calls[v] = <<>> /\ calls'[v] = <<x>> /\ LeftOf(v) = EntriesOf(v)
        \/ calls[v] = <<"failed">> /\ calls'[v] = <<"failed", x>> /\ LeftOf(v) = {e}
    BY <2>1, <2>2, Appends
  <2>4. calls'[v] \in Seq(Outcome)
    BY <2>3, Appends
  <2>5. calls' \in [Validators -> Seq(Outcome)]
    BY <1>1, <1>2, <1>6, <2>2, <2>4
  <2>6. x = "answered" \/ x = "failed"
    BY DEF Outcome
  <2>7. CallsOf(v)'
    <3>1. CASE x = "answered"
      BY <1>6, <2>3, <3>1 DEF CallsOf
    <3>2. CASE x = "failed"
      <4>1. v \notin processedApiUrls'
        BY <1>6, <2>1, <3>2
      <4>2. CASE calls[v] = <<>> /\ calls'[v] = <<x>> /\ LeftOf(v) = EntriesOf(v)
        <5>1. PICK f \in EntriesOf(v) : f # e /\ EntriesOf(v) = {e, f}
          BY <1>1, TwoEntries
        <5>2. LeftOf(v)' = {f} /\ f \in EntriesOf(v)'
          BY <1>4, <4>2, <5>1
        <5> QED
          BY <2>1, <3>2, <4>1, <4>2, <5>2 DEF CallsOf
      <4>3. CASE calls'[v] = <<"failed", x>> /\ LeftOf(v) = {e}
        <5>1. LeftOf(v)' = {}
          BY <1>4, <4>3
        <5> QED
          BY <2>1, <3>2, <4>1, <4>3, <5>1 DEF CallsOf
      <4> QED
        BY <2>3, <4>2, <4>3
    <3> QED
      BY <2>6, <3>1, <3>2
  <2>8. ASSUME NEW w \in Validators, w # v PROVE CallsOf(w)'
    <3>1. CallsOf(w) /\ calls'[w] = calls[w] /\ LeftOf(w)' = LeftOf(w)
      BY <1>4, <2>2, <2>8 DEF LoopInv, CallsInv
    <3>2. w \in processedApiUrls' <=> w \in processedApiUrls
      BY <1>6, <2>8
    <3> QED
      BY <1>4, <3>1, <3>2 DEF CallsOf
  <2>9. processedApiUrls' \subseteq Validators \ {Self}
    BY <1>1, <1>6, <2>1 DEF LoopInv, CallsInv
  <2> QED
    BY <2>5, <2>7, <2>8, <2>9 DEF CallsInv
<1>7. CASE CallFails(e)
  <2>1. /\ ~Skips(e) /\ "failed" \in Outcome
        /\ calls' = [calls EXCEPT ![v] = Append(@, "failed")]
        /\ UNCHANGED <<processedApiUrls, signatures, expired>>
    BY <1>7 DEF CallFails, Outcome
  <2>2. CallsInv' /\ calls' \in [Validators -> Seq(Outcome)]
    BY <1>6, <2>1
  <2>3. elapsed' \in Nat
    BY <1>7, TimesAssumption DEF CallFails, LoopInv, BroadcastTypeOK
  <2>4. BroadcastTypeOK'
    BY <1>3, <2>1, <2>2, <2>3 DEF LoopInv, BroadcastTypeOK
  <2> QED
    BY <2>2, <2>4 DEF LoopInv
<1>8. ASSUME NEW reply, PeerAnswers(e, reply)
      PROVE  LoopInv'
  <2>1. /\ ~Skips(e) /\ "answered" \in Outcome
        /\ calls' = [calls EXCEPT ![v] = Append(@, "answered")]
        /\ processedApiUrls' = processedApiUrls \cup {v}
    BY <1>8 DEF PeerAnswers, Outcome
  <2>2. CallsInv' /\ calls' \in [Validators -> Seq(Outcome)]
    BY <1>6, <2>1
  <2>3. elapsed' \in Nat
    BY <1>8, TimesAssumption DEF PeerAnswers, LoopInv, BroadcastTypeOK
  <2>4. /\ signatures' \subseteq signatures \cup {v}
        /\ expired' \subseteq expired \cup {v}
    BY <1>8 DEF PeerAnswers
  <2>5. BroadcastTypeOK'
    BY <1>1, <1>3, <2>1, <2>2, <2>3, <2>4 DEF LoopInv, BroadcastTypeOK
  <2> QED
    BY <2>2, <2>5 DEF LoopInv
<1> QED
  BY <1>5, <1>7, <1>8

LEMMA CallsAreTriedTwice == LoopInv => PeersAreTriedTwice
<1> SUFFICES ASSUME LoopInv, NEW w \in Validators \ {Self}
             PROVE  \/ calls[w] \in {<<"answered">>, <<"failed", "answered">>,
                                     <<"failed", "failed">>}
                    \/ /\ calls[w] \in {<<>>, <<"failed">>}
                       /\ \E e \in unvisited : e.validator = w
  BY DEF PeersAreTriedTwice
<1>1. CallsOf(w)
  BY DEF LoopInv, CallsInv
<1>2. \A e \in LeftOf(w) : e \in unvisited /\ e.validator = w
  BY DEF LeftOf, EntriesOf
<1>3. [validator |-> w, address |-> "ethereum"] \in EntriesOf(w)
  BY DEF EntriesOf, Entry
<1> QED
  BY <1>1, <1>2, <1>3 DEF CallsOf

(***************************************************************************)
(* The records.                                                            *)
(***************************************************************************)

\* A record has the hash of its transfer, or it has only been completed.
Known(r) ==
  IF r.hash = Unknown
  THEN r.transfer = Unknown /\ r.completed /\ r.signers = {}
  ELSE /\ r.transfer \in Transfer
       /\ r.hash = LockHash(log.chain, r.transfer, r.hash.expiration)
       /\ LockDecodes(log.chain, r.transfer)

Records == \A k \in Key : store[k] # NoRecord => Known(store[k])

Broadcasts ==
  broadcasting # Idle =>
    /\ store[broadcasting] # NoRecord /\ store[broadcasting].hash # Unknown
    /\ position < Len(log.events)

TransferInv == TypeOK /\ Records /\ Broadcasts

LEMMA EventTypes ==
  ASSUME TypeOK, position < Len(log.events)
  PROVE  /\ log.chain \in Chains
         /\ position + 1 \in 1..Len(log.events)
         /\ NextEvent \in Event
         /\ NextEvent.transfer \in Transfer
         /\ NewExpiration \in Nat
<1>1. log \in [chain : Chains, events : Seq(Event)]
  BY LogsAssumption DEF TypeOK
<1>2. position \in Nat /\ Len(log.events) \in Nat
  BY <1>1 DEF TypeOK
<1>3. position + 1 \in 1..Len(log.events)
  BY <1>2
<1>4. NextEvent \in Event
  BY <1>1, <1>3 DEF NextEvent
<1>5. NextEvent.transfer \in Transfer /\ NextEvent.time \in Nat
  BY <1>4 DEF Event
<1>6. NewExpiration \in Nat
  BY <1>5, ExpirationAssumption DEF NewExpiration
<1> QED
  BY <1>1, <1>3, <1>4, <1>5, <1>6

LEMMA KeyType == ASSUME NEW t \in Transfer PROVE KeyOf(t) \in Key
BY DEF KeyOf, Key, Transfer

LEMMA ChainType == TypeOK => log.chain \in Chains
BY LogsAssumption DEF TypeOK

LEMMA LockTypes ==
  ASSUME TypeOK, NEW i \in 1..Len(log.events)
  PROVE  /\ log.events[i].transfer \in Transfer
         /\ log.events[i].time \in Nat
<1>1. log.events \in Seq(Event)
  BY LogsAssumption DEF TypeOK
<1>2. log.events[i] \in Event
  BY <1>1
<1> QED
  BY <1>2 DEF Event

\* What is known of a record that has a hash.
LEMMA HashedRecord ==
  ASSUME TypeOK, NEW r \in Record, r.hash # Unknown, Known(r)
  PROVE  /\ r.transfer \in Transfer
         /\ r.hash \in Hash
         /\ r.hash.expiration \in Nat
         /\ r.hash = LockHash(log.chain, r.transfer, r.hash.expiration)
         /\ LockDecodes(log.chain, r.transfer)
         /\ log.chain = "koinos" => IsUint64(r.transfer.amount)
<1>1. r.hash \in Hash
  BY DEF Record
<1>2. r.hash.expiration \in Nat
  BY <1>1 DEF Hash
<1> QED
  BY <1>1, <1>2 DEF Known, LockDecodes

\* A record that is put and broadcast keeps the invariant.
LEMMA PutKeepsInv ==
  ASSUME TransferInv, NEW k \in Key, NEW r \in Record, Known(r),
         r.hash # Unknown, PutAndBroadcast(k, r), position < Len(log.events)
  PROVE  TransferInv'
<1> USE DEF TransferInv
<1>1. /\ store' = [store EXCEPT ![k] = r]
      /\ broadcasting' = k
      /\ UNCHANGED <<log, position, panics, crashes>>
  BY DEF PutAndBroadcast
<1>2. BroadcastTypeOK'
  BY LoopRestarts DEF PutAndBroadcast, LoopInv
<1>3. TypeOK'
  BY <1>1, <1>2 DEF TypeOK
<1>4. store'[k] = r /\ \A j \in Key \ {k} : store'[j] = store[j]
  BY <1>1 DEF TypeOK
<1>5. Records'
  BY <1>1, <1>4 DEF Records, Known
<1>6. r # NoRecord
  BY SentinelsAssumption
<1>7. Broadcasts'
  BY <1>1, <1>4, <1>6 DEF Broadcasts
<1> QED
  BY <1>3, <1>5, <1>7

LEMMA LockedRecordTypes ==
  ASSUME TransferInv, Reads("lock"), LockDecodes(log.chain, NextEvent.transfer)
  PROVE  LET r == LockedRecord(KeyOf(NextEvent.transfer)) IN
           r \in Record /\ Known(r) /\ r.hash # Unknown
<1> DEFINE k == KeyOf(NextEvent.transfer)
           r == LockedRecord(k)
<1>1. /\ log.chain \in Chains
      /\ NextEvent.transfer \in Transfer
      /\ NewExpiration \in Nat
  BY EventTypes DEF TransferInv, Reads
<1>2. k \in Key
  BY <1>1, KeyType
<1>3. log.chain = "koinos" => IsUint64(NextEvent.transfer.amount)
  BY DEF LockDecodes
<1>4. EventHash \in Hash /\ EventHash.expiration = NewExpiration
  BY <1>1, <1>3, LockHashType DEF EventHash
<1>5. r.signers \subseteq Validators
  <2>1. store[k] = NoRecord \/ store[k].signers \subseteq Validators
    BY <1>2 DEF TransferInv, TypeOK, Record
  <2> QED
    BY <2>1, PeersAssumption DEF LockedRecord
<1>6. r.completed \in BOOLEAN
  BY DEF LockedRecord
<1>7. r.transfer = NextEvent.transfer /\ r.hash = EventHash
  BY DEF LockedRecord
<1>8. r \in Record
  BY <1>1, <1>4, <1>5, <1>6, <1>7 DEF LockedRecord, Record
<1>9. r.hash # Unknown
  BY <1>4, <1>7, SentinelsAssumption
<1>10. Known(r)
  BY <1>1, <1>3, <1>4, <1>7, <1>9 DEF Known, EventHash
<1> QED
  BY <1>8, <1>9, <1>10

LEMMA RequestedKeyType ==
  ASSUME NEW tx \in TxIds, NEW op \in OpIds
  PROVE  RequestedKey(tx, op) \in Key
BY DEF RequestedKey, NamedKey, Key, OpIds

\* A record that may be re-signed has a hash: it is not completed.
LEMMA ResignedRecordTypes ==
  ASSUME TransferInv, Reads("request"), NEW k \in Key, RequestAllowed(k),
         RecordDecodes(log.chain, store[k].transfer)
  PROVE  /\ store[k] # NoRecord /\ store[k].hash # Unknown
         /\ LET r == ResignedRecord(k) IN
              /\ r \in Record
              /\ Known(r)
              /\ r.hash = LockHash(log.chain, store[k].transfer, NewExpiration)
              /\ r.hash # Unknown
              /\ NewExpiration >= store[k].hash.expiration
<1> DEFINE r == ResignedRecord(k)
<1>1. /\ log.chain \in Chains
      /\ NextEvent \in Event
      /\ NewExpiration \in Nat
  BY EventTypes DEF TransferInv, Reads
<1>2. store[k] \in Record /\ Known(store[k])
  BY DEF TransferInv, TypeOK, Records, RequestAllowed
<1>3. store[k].hash # Unknown
  BY <1>2 DEF Known, RequestAllowed
<1>4. /\ store[k].transfer \in Transfer
      /\ store[k].hash.expiration \in Nat
      /\ LockDecodes(log.chain, store[k].transfer)
      /\ log.chain = "koinos" => IsUint64(store[k].transfer.amount)
  BY <1>2, <1>3, HashedRecord DEF TransferInv
<1>5. /\ r.hash = RecordHash(log.chain, store[k].transfer, NewExpiration)
      /\ r.transfer = store[k].transfer
      /\ r.signers = {Self}
  BY <1>2 DEF ResignedRecord, Record
<1>6. r.hash = LockHash(log.chain, store[k].transfer, NewExpiration)
  BY <1>1, <1>4, <1>5, RecordAgreesWithLock
<1>7. r.hash \in Hash /\ r.hash.expiration = NewExpiration
  BY <1>1, <1>4, <1>6, LockHashType
<1>8. r \in Record
  BY <1>2, <1>5, <1>7, PeersAssumption DEF ResignedRecord, Record
<1>9. r.hash # Unknown
  BY <1>7, SentinelsAssumption
<1>10. Known(r)
  BY <1>4, <1>5, <1>6, <1>7, <1>9 DEF Known
<1>11. NewExpiration >= store[k].hash.expiration
  <2>1. NextEvent.time \in Nat
    BY <1>1 DEF Event
  <2> QED
    BY <2>1, <1>4, ExpirationAssumption DEF RequestAllowed, NewExpiration
<1> QED
  BY <1>3, <1>6, <1>8, <1>9, <1>10, <1>11 DEF RequestAllowed

\* Steps that leave the records alone keep what is known of them.
LEMMA StoreStays ==
  ASSUME TransferInv, UNCHANGED <<log, store>>,
         broadcasting' \in {broadcasting, Idle},
         position' \in 0..Len(log.events), panics' \subseteq 1..Len(log.events),
         crashes' \in 0..MaxCrashes,
         broadcasting' # Idle => position' = position,
         BroadcastTypeOK'
  PROVE  TransferInv'
BY DEF TransferInv, TypeOK, Records, Known, Broadcasts

LEMMA AnsweredRecord ==
  ASSUME TransferInv, broadcasting # Idle
  PROVE  /\ broadcasting \in Key
         /\ store[broadcasting] \in Record
         /\ Known(store[broadcasting])
         /\ store[broadcasting].hash # Unknown
BY DEF TransferInv, TypeOK, Records, Broadcasts

LEMMA MergeKeepsInv ==
  ASSUME TransferInv, LoopInv, MergeAnswers
  PROVE  /\ TransferInv'
         /\ store[broadcasting].hash = store'[broadcasting].hash
         /\ store'[broadcasting].signers = store[broadcasting].signers \cup signatures
         /\ store'[broadcasting] # NoRecord
         /\ \A k \in Key \ {broadcasting} : store'[k] = store[k]
<1> DEFINE b == broadcasting
           r == [store[b] EXCEPT !.signers = @ \cup signatures]
<1>1. /\ b # Idle
      /\ store' = [store EXCEPT ![b] = r]
      /\ broadcasting' = Idle
      /\ UNCHANGED <<log, panics, crashes>>
  BY DEF MergeAnswers
<1>2. b \in Key /\ store[b] \in Record /\ Known(store[b])
        /\ store[b].hash # Unknown
  BY <1>1, AnsweredRecord
<1>3. signatures \subseteq Validators
  BY DEF LoopInv, BroadcastTypeOK
<1>4. r \in Record /\ r.hash = store[b].hash /\ r.transfer = store[b].transfer
        /\ r.signers = store[b].signers \cup signatures
  BY <1>2, <1>3 DEF Record
<1>5. Known(r)
  BY <1>2, <1>4 DEF Known
<1>6. store'[b] = r /\ \A k \in Key \ {b} : store'[k] = store[k]
  BY <1>1, <1>2 DEF TransferInv, TypeOK
<1>7. position' \in 0..Len(log.events)
  <2>1. position' = position + 1 /\ Len(log.events) \in Nat
          /\ position \in 0..Len(log.events)
    BY LogsAssumption DEF MergeAnswers, TransferInv, TypeOK
  <2>2. position < Len(log.events)
    BY <1>1 DEF TransferInv, Broadcasts
  <2> QED
    BY <2>1, <2>2
<1>8. BroadcastTypeOK'
  BY LoopRestarts DEF MergeAnswers, LoopInv
<1>9. TypeOK'
  BY <1>1, <1>4, <1>7, <1>8 DEF TransferInv, TypeOK
<1>10. Records'
  BY <1>1, <1>5, <1>6 DEF TransferInv, Records, Known
<1>11. Broadcasts'
  BY <1>1 DEF Broadcasts
<1>12. r # NoRecord
  BY <1>4, SentinelsAssumption
<1> QED
  BY <1>4, <1>6, <1>9, <1>10, <1>11, <1>12 DEF TransferInv

LEMMA CompletedKeepsInv ==
  ASSUME TransferInv, NEW k \in Key, TransferCompleted(k)
  PROVE  /\ TransferInv'
         /\ \A j \in Key : store[j] # NoRecord =>
              /\ store'[j] # NoRecord
              /\ store'[j].hash = store[j].hash
              /\ store'[j].signers = store[j].signers
         /\ \A j \in Key : store[j] = NoRecord /\ store'[j] # NoRecord =>
              store'[j].hash = Unknown /\ store'[j].signers = {}
<1> DEFINE new == [transfer |-> Unknown, hash |-> Unknown, signers |-> {},
                   completed |-> TRUE]
           r == IF store[k] = NoRecord
                THEN new ELSE [store[k] EXCEPT !.completed = TRUE]
<1>1. /\ store' = [store EXCEPT ![k] = r]
      /\ UNCHANGED <<log, position, broadcasting, panics, crashes, broadcastVars>>
  BY DEF TransferCompleted
<1>2. CASE store[k] = NoRecord
  <2>1. r \in Record /\ r.hash = Unknown /\ r.signers = {}
    BY <1>2 DEF Record
  <2>2. Known(r)
    BY <1>2 DEF Known
  <2> QED
    <3>1. store'[k] = r /\ \A j \in Key \ {k} : store'[j] = store[j]
      BY <1>1 DEF TransferInv, TypeOK
    <3>2. TypeOK'
      BY <1>1, <2>1 DEF TransferInv, TypeOK, broadcastVars, BroadcastTypeOK
    <3>3. Records'
      BY <1>1, <2>2, <3>1 DEF TransferInv, Records, Known
    <3>4. Broadcasts'
      BY <1>1, <1>2, <3>1, SentinelsAssumption
      DEF TransferInv, TypeOK, Broadcasts
    <3> QED
      BY <1>2, <2>1, <3>1, <3>2, <3>3, <3>4 DEF TransferInv
<1>3. CASE store[k] # NoRecord
  <2>1. store[k] \in Record /\ Known(store[k])
    BY <1>3 DEF TransferInv, TypeOK, Records
  <2>2. /\ r \in Record
        /\ r.hash = store[k].hash
        /\ r.signers = store[k].signers
        /\ r.transfer = store[k].transfer
    BY <1>3, <2>1 DEF Record
  <2>3. r.completed
    BY <1>3, <2>1 DEF Record
  <2>4. Known(r)
    BY <2>1, <2>2, <2>3 DEF Known
  <2>5. r # NoRecord
    BY <2>2, SentinelsAssumption
  <2> QED
    <3>1. store'[k] = r /\ \A j \in Key \ {k} : store'[j] = store[j]
      BY <1>1 DEF TransferInv, TypeOK
    <3>2. TypeOK'
      BY <1>1, <2>2 DEF TransferInv, TypeOK, broadcastVars, BroadcastTypeOK
    <3>3. Records'
      BY <1>1, <2>4, <3>1 DEF TransferInv, Records, Known
    <3>4. Broadcasts'
      BY <1>1, <2>2, <2>5, <3>1 DEF TransferInv, TypeOK, Broadcasts
    <3> QED
      BY <1>3, <2>2, <2>5, <3>1, <3>2, <3>3, <3>4 DEF TransferInv
<1> QED
  BY <1>2, <1>3

LEMMA VisitIsALoopStep ==
  ASSUME NEW e \in Entry,
         VisitEntry(e) \/ \E reply : Answer(e, reply)
  PROVE  /\ BroadcastStep
         /\ UNCHANGED <<log, position, store, broadcasting, panics, crashes>>
BY DEF VisitEntry, Answer, BroadcastStep

LEMMA PanicsMove ==
  ASSUME TransferInv, LoopInv, PanicOnLock \/ PanicOnRequest
  PROVE  TransferInv' /\ UNCHANGED <<log, store, broadcasting, broadcastVars>>
<1>1. broadcasting = Idle /\ position < Len(log.events) /\ Panics
  BY DEF PanicOnLock, PanicOnRequest, Reads
<1>2. /\ panics' = panics \cup {position + 1}
      /\ position' = 0
      /\ UNCHANGED <<log, store, broadcasting, crashes, broadcastVars>>
  BY <1>1 DEF Panics
<1>3. position + 1 \in 1..Len(log.events)
  BY <1>1, EventTypes DEF TransferInv
<1>4. panics' \subseteq 1..Len(log.events) /\ position' \in 0..Len(log.events)
  BY <1>2, <1>3 DEF TransferInv, TypeOK
<1>5. BroadcastTypeOK'
  BY <1>2, LoopStays DEF LoopInv
<1>6. crashes' \in 0..MaxCrashes
  BY <1>2 DEF TransferInv, TypeOK
<1> QED
  BY <1>1, <1>2, <1>4, <1>5, <1>6, StoreStays

LEMMA IgnoreMoves ==
  ASSUME TransferInv, LoopInv, IgnoreRequest
  PROVE  TransferInv' /\ UNCHANGED <<log, store, broadcasting, broadcastVars>>
<1>1. broadcasting = Idle /\ position < Len(log.events)
  BY DEF IgnoreRequest, Reads
<1>2. /\ position' = position + 1
      /\ UNCHANGED <<log, store, broadcasting, panics, crashes, broadcastVars>>
  BY DEF IgnoreRequest
<1>3. position + 1 \in 1..Len(log.events)
  BY <1>1, EventTypes DEF TransferInv
<1>4. panics' \subseteq 1..Len(log.events) /\ position' \in 0..Len(log.events)
  BY <1>2, <1>3 DEF TransferInv, TypeOK
<1>5. BroadcastTypeOK'
  BY <1>2, LoopStays DEF LoopInv
<1>6. crashes' \in 0..MaxCrashes
  BY <1>2 DEF TransferInv, TypeOK
<1> QED
  BY <1>1, <1>2, <1>4, <1>5, <1>6, StoreStays

LEMMA VisitMoves ==
  ASSUME TransferInv, LoopInv, NEW e \in Entry,
         VisitEntry(e) \/ \E reply : Answer(e, reply)
  PROVE  TransferInv' /\ LoopInv'
<1>1. /\ BroadcastStep
      /\ UNCHANGED <<log, position, store, broadcasting, panics, crashes>>
  BY VisitIsALoopStep
<1>2. LoopInv'
  BY <1>1, LoopSteps
<1>3. BroadcastTypeOK'
  BY <1>2 DEF LoopInv
<1>4. /\ panics' \subseteq 1..Len(log.events) /\ position' \in 0..Len(log.events)
      /\ crashes' \in 0..MaxCrashes
  BY <1>1 DEF TransferInv, TypeOK
<1> QED
  BY <1>1, <1>2, <1>3, <1>4, StoreStays

LEMMA CrashMoves ==
  ASSUME TransferInv, Crash
  PROVE  TransferInv' /\ LoopInv' /\ UNCHANGED <<log, store, panics>>
           /\ position' = 0 /\ broadcasting' = Idle
<1>1. /\ crashes < MaxCrashes /\ crashes' = crashes + 1
      /\ position' = 0 /\ broadcasting' = Idle
      /\ UNCHANGED <<log, store, panics>>
      /\ ResetBroadcast
  BY DEF Crash
<1>2. LoopInv'
  BY <1>1, LoopRestarts
<1>3. Len(log.events) \in Nat
  BY LogsAssumption DEF TransferInv, TypeOK
<1>4. position' \in 0..Len(log.events) /\ panics' \subseteq 1..Len(log.events)
  BY <1>1, <1>3 DEF TransferInv, TypeOK
<1>5. crashes' \in 0..MaxCrashes
  BY <1>1, ExpirationAssumption DEF TransferInv, TypeOK
<1> QED
  BY <1>1, <1>2, <1>4, <1>5, StoreStays DEF LoopInv

(***************************************************************************)
(* The submissions of the peers.                                           *)
(***************************************************************************)

\* Every handler's hash of a locked transfer is the lock handler's, with the
\* expiration that its own event gives it.
LEMMA HandlersHash ==
  ASSUME TypeOK, NEW i \in 1..Len(log.events), NEW h \in HashesOf(i),
         LockDecodes(log.chain, log.events[i].transfer)
  PROVE  /\ h \in Hash
         /\ h = LockHash(log.chain, log.events[i].transfer, h.expiration)
         /\ h.expiration >= log.events[i].time + SignaturesExpiration
<1> DEFINE t == log.events[i].transfer
           Expiration(j) == log.events[j].time + SignaturesExpiration
<1>1. log.events \in Seq(Event) /\ log.chain \in Chains
  BY LogsAssumption DEF TypeOK
<1>2. \A j \in 1..Len(log.events) : log.events[j] \in Event
  BY <1>1
<1>3. t \in Transfer /\ \A j \in 1..Len(log.events) :
        log.events[j].time \in Nat /\ Expiration(j) \in Nat
  BY <1>2, ExpirationAssumption DEF Event
<1>4. log.chain = "koinos" => IsUint64(t.amount)
  BY DEF LockDecodes
<1>5. PICK j \in 1..Len(log.events) :
        /\ h = LockHash(log.chain, t, Expiration(j))
        /\ j = i \/ Resigns(i, j)
  <2>1. CASE h = LockHash(log.chain, t, Expiration(i))
    BY <2>1
  <2>2. CASE \E j \in 1..Len(log.events) :
               Resigns(i, j) /\ h = RecordHash(log.chain, t, Expiration(j))
    <3>1. PICK j \in 1..Len(log.events) :
            Resigns(i, j) /\ h = RecordHash(log.chain, t, Expiration(j))
      BY <2>2
    <3>2. RecordDecodes(log.chain, t)
      BY <3>1 DEF Resigns
    <3>3. RecordHash(log.chain, t, Expiration(j)) = LockHash(log.chain, t, Expiration(j))
      BY <1>1, <1>3, <3>2, RecordAgreesWithLock
    <3> QED
      BY <3>1, <3>3
  <2> QED
    BY <2>1, <2>2 DEF HashesOf
<1>6. h \in Hash /\ h.expiration = Expiration(j)
  BY <1>1, <1>3, <1>4, <1>5, LockHashType
<1>7. Expiration(j) >= Expiration(i)
  <2>1. CASE j = i
    BY <1>3, <2>1
  <2>2. CASE Resigns(i, j)
    <3>1. log.events[j].time >= log.events[i].time + 2 * SignaturesExpiration
      BY <2>2 DEF Resigns
    <3>2. log.events[i].time \in Nat /\ log.events[j].time \in Nat
      BY <1>3
    <3>3. \A a, b \in Nat :
            b >= a + 2 * SignaturesExpiration =>
              b + SignaturesExpiration >= a + SignaturesExpiration
      BY ExpirationAssumption
    <3> QED
      BY <3>1, <3>2, <3>3
  <2> QED
    BY <1>5, <2>1, <2>2
<1> QED
  BY <1>5, <1>6, <1>7

\* What a submission does to the record of its key.
LEMMA SubmissionsMove ==
  ASSUME TransferInv, NEW i \in 1..Len(log.events), NEW peers \in SUBSET Submitters,
         SubmitSignature(i, peers)
  PROVE  LET t == log.events[i].transfer
             k == KeyOf(t) IN
           /\ TransferInv'
           /\ UNCHANGED <<log, position, broadcasting, panics, broadcastVars>>
           /\ k \in Key /\ i \in LocksOf(k) /\ t \in Transfer
           /\ store'[k] # NoRecord
           /\ \A j \in Key \ {k} : store'[j] = store[j]
           /\ \E h \in HashesOf(i) :
                /\ h # Unknown
                /\ store'[k].hash = h
                /\ Verifies(log.chain, t, h)
                /\ \/ store[k] = NoRecord /\ store'[k].transfer = t
                   \/ /\ store[k] # NoRecord /\ store[k].hash = h
                      /\ store'[k].transfer = store[k].transfer
<1> DEFINE t == log.events[i].transfer
           k == KeyOf(t)
<1>1. /\ PeersLock(i)
      /\ UNCHANGED <<log, position, broadcasting, panics, crashes, broadcastVars>>
  BY DEF SubmitSignature
<1>2. PICK h \in HashesOf(i) :
        SubmitAdopted(t, h, peers) \/ SubmitMerged(t, h, peers)
  BY DEF SubmitSignature
<1>3. TypeOK /\ t \in Transfer
  <2>1. log.events \in Seq(Event)
    BY LogsAssumption DEF TransferInv, TypeOK
  <2>2. log.events[i] \in Event
    BY <2>1
  <2> QED
    BY <2>2 DEF TransferInv, Event
<1>4. k \in Key /\ i \in LocksOf(k) /\ LockDecodes(log.chain, t)
  BY <1>1, <1>3, KeyType DEF PeersLock, LocksOf
<1>5. h \in Hash /\ h = LockHash(log.chain, t, h.expiration) /\ h # Unknown
  BY <1>3, <1>4, HandlersHash, SentinelsAssumption
<1>6. Verifies(log.chain, t, h)
  BY <1>2 DEF SubmitAdopted, SubmitMerged
<1>7. peers \subseteq Validators
  BY SubmittersAssumption
<1>8. ASSUME NEW r \in Record, Known(r), r.hash # Unknown,
             store' = [store EXCEPT ![k] = r]
      PROVE  /\ TransferInv'
             /\ store'[k] = r /\ r # NoRecord
             /\ \A j \in Key \ {k} : store'[j] = store[j]
  <2>1. store'[k] = r /\ \A j \in Key \ {k} : store'[j] = store[j]
    BY <1>4, <1>8 DEF TransferInv, TypeOK
  <2>2. TypeOK'
    BY <1>1, <1>8 DEF TransferInv, TypeOK, BroadcastTypeOK, broadcastVars
  <2>3. Records'
    BY <1>1, <1>8, <2>1 DEF TransferInv, Records, Known
  <2>4. r # NoRecord
    BY SentinelsAssumption
  <2>5. Broadcasts'
    BY <1>1, <1>8, <2>1, <2>4 DEF TransferInv, TypeOK, Broadcasts
  <2> QED
    BY <2>1, <2>2, <2>3, <2>4, <2>5 DEF TransferInv
<1>9. CASE SubmitAdopted(t, h, peers)
  <2>1. PICK c \in BOOLEAN :
          store' = [store EXCEPT ![k] =
            [transfer |-> t, hash |-> h, signers |-> peers, completed |-> c]]
    BY <1>9 DEF SubmitAdopted
  <2> DEFINE r == [transfer |-> t, hash |-> h, signers |-> peers, completed |-> c]
  <2>2. r \in Record
    BY <1>3, <1>5, <1>7 DEF Record
  <2>3. Known(r) /\ r.hash # Unknown
    BY <1>3, <1>4, <1>5 DEF Known
  <2>4. store[k] = NoRecord
    BY <1>9 DEF SubmitAdopted
  <2>5. /\ TransferInv'
        /\ store'[k] = r /\ r # NoRecord
        /\ \A j \in Key \ {k} : store'[j] = store[j]
    BY <1>8, <2>1, <2>2, <2>3
  <2>6. store'[k].transfer = t /\ store'[k].hash = h
    BY <2>5
  <2> QED
    BY <1>1, <1>3, <1>4, <1>5, <1>6, <2>4, <2>5, <2>6
<1>10. CASE SubmitMerged(t, h, peers)
  <2> DEFINE r == [store[k] EXCEPT !.signers = @ \cup peers]
  <2>1. /\ store[k] # NoRecord /\ store[k].hash = h
        /\ store' = [store EXCEPT ![k].signers = @ \cup peers]
    BY <1>10 DEF SubmitMerged
  <2>2. store[k] \in Record /\ Known(store[k])
    BY <1>4, <2>1 DEF TransferInv, TypeOK, Records
  <2>3. r \in Record /\ r.hash = h /\ r.transfer = store[k].transfer
    BY <1>7, <2>1, <2>2 DEF Record
  <2>4. Known(r) /\ r.hash # Unknown
    BY <1>5, <2>1, <2>2, <2>3 DEF Known
  <2>5. store' = [store EXCEPT ![k] = r]
    BY <2>1
  <2> HIDE DEF r
  <2>6. /\ TransferInv'
        /\ store'[k] = r /\ r # NoRecord
        /\ \A j \in Key \ {k} : store'[j] = store[j]
    BY <1>8, <2>3, <2>4, <2>5
  <2>7. store'[k].transfer = store[k].transfer /\ store'[k].hash = h
    BY <2>3, <2>6
  <2> QED
    BY <1>1, <1>3, <1>4, <1>5, <1>6, <2>1, <2>6, <2>7
<1> QED
  BY <1>2, <1>9, <1>10

(***************************************************************************)
(* The invariant of the streamer.                                          *)
(***************************************************************************)

StreamerInv == TransferInv /\ LoopInv

\* One disjunct per operation.
LEMMA StepCases ==
  ASSUME [Next]_vars
  PROVE  \/ TokensLocked
         \/ RequestNewSignatures
         \/ IgnoreRequest
         \/ PanicOnLock \/ PanicOnRequest
         \/ \E e \in Entry : VisitEntry(e) \/ \E reply : Answer(e, reply)
         \/ MergeAnswers
         \/ Crash
         \/ \E k \in Key : TransferCompleted(k)
         \/ \E i \in 1..Len(log.events), peers \in SUBSET Submitters :
              SubmitSignature(i, peers)
         \/ UNCHANGED vars
BY DEF Next, StreamerStep

LEMMA LogStays == [Next]_vars => UNCHANGED log
BY StepCases, VisitIsALoopStep
DEF TokensLocked, RequestNewSignatures, PutAndBroadcast, IgnoreRequest,
    PanicOnLock, PanicOnRequest, Panics, MergeAnswers, Crash, TransferCompleted,
    SubmitSignature, vars

\* Every step is one of the loop, starts it anew or leaves it alone.
LEMMA LoopMoves ==
  [Next]_vars => BroadcastStep \/ ResetBroadcast \/ UNCHANGED broadcastVars
BY StepCases, VisitIsALoopStep
DEF TokensLocked, RequestNewSignatures, PutAndBroadcast, IgnoreRequest,
    PanicOnLock, PanicOnRequest, Panics, MergeAnswers, Crash, TransferCompleted,
    SubmitSignature, vars

LEMMA LocksMove ==
  ASSUME StreamerInv, TokensLocked
  PROVE  /\ StreamerInv'
         /\ LET k == KeyOf(NextEvent.transfer) IN
              /\ k \in Key
              /\ store' = [store EXCEPT ![k] = LockedRecord(k)]
              /\ store'[k] = LockedRecord(k) /\ store'[k] # NoRecord
              /\ store'[k].hash = EventHash /\ EventHash # Unknown
              /\ EventHash.expiration \in Nat
<1> DEFINE k == KeyOf(NextEvent.transfer)
           r == LockedRecord(k)
<1>1. /\ Reads("lock")
      /\ LockDecodes(log.chain, NextEvent.transfer)
      /\ PutAndBroadcast(k, r)
  BY DEF TokensLocked
<1>2. r \in Record /\ Known(r) /\ r.hash # Unknown
  BY <1>1, LockedRecordTypes DEF StreamerInv
<1>3. k \in Key /\ position < Len(log.events)
  BY <1>1, EventTypes, KeyType DEF StreamerInv, TransferInv, Reads
<1>4. TransferInv'
  BY <1>1, <1>2, <1>3, PutKeepsInv DEF StreamerInv
<1>5. LoopInv'
  BY <1>1, LoopRestarts DEF PutAndBroadcast
<1>6. store' = [store EXCEPT ![k] = r] /\ store'[k] = r
  BY <1>1, <1>3 DEF PutAndBroadcast, StreamerInv, TransferInv, TypeOK
<1>7. r # NoRecord /\ r.hash = EventHash
  BY <1>2, SentinelsAssumption DEF LockedRecord
<1>8. EventHash.expiration \in Nat
  BY <1>2, <1>7 DEF Record, Hash
<1> QED
  BY <1>2, <1>3, <1>4, <1>5, <1>6, <1>7, <1>8 DEF StreamerInv

LEMMA RequestsMove ==
  ASSUME StreamerInv, RequestNewSignatures
  PROVE  /\ StreamerInv'
         /\ \E k \in Key :
              /\ k = RequestedKey(NextEvent.transfer.tx, NextEvent.transfer.op)
              /\ store[k] # NoRecord /\ store[k].hash # Unknown
              /\ store' = [store EXCEPT ![k] = ResignedRecord(k)]
              /\ store'[k] # NoRecord /\ store'[k].hash # Unknown
              /\ store'[k].hash =
                   LockHash(log.chain, store[k].transfer, NewExpiration)
              /\ NewExpiration >= store[k].hash.expiration
              /\ store'[k].signers = {Self}
<1> DEFINE k == RequestedKey(NextEvent.transfer.tx, NextEvent.transfer.op)
           r == ResignedRecord(k)
<1>1. /\ Reads("request")
      /\ RequestAllowed(k)
      /\ RecordDecodes(log.chain, store[k].transfer)
      /\ PutAndBroadcast(k, r)
  BY DEF RequestNewSignatures
<1>2. k \in Key /\ position < Len(log.events)
  BY <1>1, EventTypes, RequestedKeyType
  DEF StreamerInv, TransferInv, Reads, Transfer
<1>3. /\ store[k] # NoRecord /\ store[k].hash # Unknown
      /\ r \in Record /\ Known(r) /\ r.hash # Unknown
      /\ r.hash = LockHash(log.chain, store[k].transfer, NewExpiration)
      /\ NewExpiration >= store[k].hash.expiration
  BY <1>1, <1>2, ResignedRecordTypes DEF StreamerInv
<1>4. TransferInv'
  BY <1>1, <1>2, <1>3, PutKeepsInv DEF StreamerInv
<1>5. LoopInv'
  BY <1>1, LoopRestarts DEF PutAndBroadcast
<1>6. store' = [store EXCEPT ![k] = r] /\ store'[k] = r
  BY <1>1, <1>2 DEF PutAndBroadcast, StreamerInv, TransferInv, TypeOK
<1>7. r.signers = {Self}
  <2>1. store[k] \in Record
    BY <1>2, <1>3 DEF StreamerInv, TransferInv, TypeOK
  <2> QED
    BY <2>1 DEF ResignedRecord, Record
<1>8. r # NoRecord
  BY <1>3, SentinelsAssumption
<1> QED
  BY <1>2, <1>3, <1>4, <1>5, <1>6, <1>7, <1>8 DEF StreamerInv

LEMMA StreamerStarts == Init => StreamerInv
<1> SUFFICES ASSUME Init PROVE StreamerInv
  OBVIOUS
<1>1. LoopInv
  BY LoopStarts DEF Init
<1>2. Len(log.events) \in Nat
  BY LogsAssumption DEF Init
<1>3. TypeOK
  BY <1>1, <1>2, ExpirationAssumption DEF Init, TypeOK, LoopInv
<1>4. Records /\ Broadcasts
  BY DEF Init, Records, Broadcasts
<1> QED
  BY <1>1, <1>3, <1>4 DEF StreamerInv, TransferInv

LEMMA StreamerSteps == StreamerInv /\ [Next]_vars => StreamerInv'
<1> SUFFICES ASSUME StreamerInv, [Next]_vars PROVE StreamerInv'
  OBVIOUS
<1>1. CASE TokensLocked
  BY <1>1, LocksMove
<1>2. CASE RequestNewSignatures
  BY <1>2, RequestsMove
<1>3. CASE IgnoreRequest
  BY <1>3, IgnoreMoves, LoopStays DEF StreamerInv
<1>4. CASE PanicOnLock \/ PanicOnRequest
  BY <1>4, PanicsMove, LoopStays DEF StreamerInv
<1>5. CASE \E e \in Entry : VisitEntry(e) \/ \E reply : Answer(e, reply)
  BY <1>5, VisitMoves DEF StreamerInv
<1>6. CASE MergeAnswers
  <2>1. TransferInv'
    BY <1>6, MergeKeepsInv DEF StreamerInv
  <2>2. LoopInv'
    BY <1>6, LoopRestarts DEF MergeAnswers
  <2> QED
    BY <2>1, <2>2 DEF StreamerInv
<1>7. ASSUME NEW k \in Key, TransferCompleted(k)
      PROVE  StreamerInv'
  <2>1. TransferInv'
    BY <1>7, CompletedKeepsInv DEF StreamerInv
  <2>2. LoopInv'
    BY <1>7, LoopStays DEF StreamerInv, TransferCompleted
  <2> QED
    BY <2>1, <2>2 DEF StreamerInv
<1>8. CASE UNCHANGED vars
  <2>1. LoopInv'
    BY <1>8, LoopStays DEF StreamerInv, vars
  <2>2. TransferInv'
    BY <1>8, <2>1, StoreStays DEF StreamerInv, TransferInv, TypeOK, vars, LoopInv
  <2> QED
    BY <2>1, <2>2 DEF StreamerInv
<1>9. CASE Crash
  BY <1>9, CrashMoves DEF StreamerInv
<1>10. ASSUME NEW i \in 1..Len(log.events), NEW peers \in SUBSET Submitters,
              SubmitSignature(i, peers)
       PROVE  StreamerInv'
  BY <1>10, SubmissionsMove, LoopStays DEF StreamerInv
<1> QED
  BY <1>1, <1>2, <1>3, <1>4, <1>5, <1>6, <1>7, <1>8, <1>9, <1>10, StepCases

LEMMA StreamerKeepsInv == Spec => []StreamerInv
BY StreamerStarts, StreamerSteps, PTL DEF Spec

\* The state of a streamer, its records, hashes and broadcasts, has its types
\* in every run: a hash is never taken of an amount it is not defined for.
THEOREM TypeCorrect == Spec => []TypeOK
<1>1. StreamerInv => TypeOK
  BY DEF StreamerInv, TransferInv
<1> QED
  BY <1>1, StreamerKeepsInv, PTL

\* Whatever the order in which the loop visits the validators' entries, no call
\* is made to a peer after one that it has answered, and a peer that the loop
\* has left behind without an answer has been called exactly twice
\* (util.go:227-272).
THEOREM PeersTriedTwice == Spec => []PeersAreTriedTwice
<1>1. StreamerInv => PeersAreTriedTwice
  BY CallsAreTriedTwice DEF StreamerInv
<1> QED
  BY <1>1, StreamerKeepsInv, PTL

\* What is signed under a key stays the same transfer, through locks, requests,
\* submissions, panics and crashes (ethereum_streamer.go:683-687, api.go:359);
\* of the text beside the hash nothing is said.
THEOREM TransfersKeepTheirRecords == Spec => RecordsKeepTheirTransfer
<1> DEFINE Kept(k) ==
      /\ store'[k] # NoRecord /\ store'[k].hash # Unknown
      /\ store'[k].hash.expiration >= store[k].hash.expiration
      /\ store[k].hash =
           [store'[k].hash EXCEPT !.expiration = store[k].hash.expiration]
<1>1. ASSUME StreamerInv, NEW k \in Key, store[k] # NoRecord,
             store[k].hash # Unknown, store'[k] # NoRecord,
             store'[k].hash = store[k].hash
      PROVE  Kept(k)
  <2>1. store[k].hash \in Hash
    BY <1>1 DEF StreamerInv, TransferInv, TypeOK, Record
  <2> QED
    BY <1>1, <2>1 DEF Hash
<1>2. ASSUME StreamerInv, [Next]_vars, NEW k \in Key, store[k] # NoRecord,
             store[k].hash # Unknown
      PROVE  Kept(k)
  <2>1. CASE TokensLocked
    <3> DEFINE j == KeyOf(NextEvent.transfer)
    <3>1. ~HashMismatch(j)
      BY <2>1 DEF TokensLocked
    <3>2. CASE k = j
      <4>1. store'[k] # NoRecord /\ store'[k].hash = EventHash
        BY <1>2, <2>1, <3>2, LocksMove
      <4>2. store[k].hash = EventHash
        BY <1>2, <3>1, <3>2 DEF HashMismatch
      <4> QED
        BY <1>1, <1>2, <4>1, <4>2
    <3>3. CASE k # j
      <4>1. store'[k] = store[k]
        BY <1>2, <2>1, <3>3, LocksMove DEF StreamerInv, TransferInv, TypeOK
      <4> QED
        BY <1>1, <1>2, <4>1
    <3> QED
      BY <3>2, <3>3
  <2>2. CASE RequestNewSignatures
    <3>1. PICK j \in Key :
            /\ store[j].hash # Unknown
            /\ store' = [store EXCEPT ![j] = ResignedRecord(j)]
            /\ store'[j] # NoRecord /\ store'[j].hash # Unknown
            /\ store'[j].hash =
                 LockHash(log.chain, store[j].transfer, NewExpiration)
            /\ NewExpiration >= store[j].hash.expiration
      BY <1>2, <2>2, RequestsMove
    <3>2. CASE k = j
      <4>1. /\ store[k].transfer \in Transfer
            /\ store[k].hash.expiration \in Nat
            /\ store[k].hash =
                 LockHash(log.chain, store[k].transfer, store[k].hash.expiration)
            /\ log.chain = "koinos" => IsUint64(store[k].transfer.amount)
        BY <1>2, HashedRecord DEF StreamerInv, TransferInv, TypeOK, Records
      <4>2. log.chain \in Chains /\ NewExpiration \in Nat
        BY <1>2, <2>2, EventTypes
        DEF RequestNewSignatures, Reads, StreamerInv, TransferInv
      <4>3. store'[k].hash.expiration = NewExpiration
        BY <3>1, <3>2, <4>1, <4>2, LockHashType
      <4>4. store[k].hash =
              [store'[k].hash EXCEPT !.expiration = store[k].hash.expiration]
        BY <3>1, <3>2, <4>1, <4>2, LockHashMoves
      <4> QED
        BY <3>1, <3>2, <4>3, <4>4
    <3>3. CASE k # j
      <4>1. store'[k] = store[k]
        BY <1>2, <3>1, <3>3 DEF StreamerInv, TransferInv, TypeOK
      <4> QED
        BY <1>1, <1>2, <4>1
    <3> QED
      BY <3>2, <3>3
  <2>3. CASE MergeAnswers
    <3>1. store'[k].hash = store[k].hash /\ store'[k] # NoRecord
      BY <1>2, <2>3, MergeKeepsInv DEF StreamerInv
    <3> QED
      BY <1>1, <1>2, <3>1
  <2>4. CASE \E j \in Key : TransferCompleted(j)
    <3>1. store'[k].hash = store[k].hash /\ store'[k] # NoRecord
      BY <1>2, <2>4, CompletedKeepsInv DEF StreamerInv
    <3> QED
      BY <1>1, <1>2, <3>1
  <2>5. ASSUME NEW i \in 1..Len(log.events), NEW peers \in SUBSET Submitters,
               SubmitSignature(i, peers)
        PROVE  Kept(k)
    <3>1. store'[k].hash = store[k].hash /\ store'[k] # NoRecord
      BY <1>2, <2>5, SubmissionsMove DEF StreamerInv
    <3> QED
      BY <1>1, <1>2, <3>1
  <2>6. CASE UNCHANGED store
    BY <1>1, <1>2, <2>6
  <2>7. \/ TokensLocked \/ RequestNewSignatures \/ MergeAnswers
        \/ \E j \in Key : TransferCompleted(j)
        \/ \E i \in 1..Len(log.events), peers \in SUBSET Submitters :
             SubmitSignature(i, peers)
        \/ UNCHANGED store
    BY <1>2, StepCases, VisitIsALoopStep
    DEF IgnoreRequest, PanicOnLock, PanicOnRequest, Panics, Crash, vars
  <2> QED
    BY <2>1, <2>2, <2>3, <2>4, <2>5, <2>6, <2>7
<1>3. StreamerInv /\ [Next]_vars =>
        [\A k \in Key : store[k] # NoRecord /\ store[k].hash # Unknown =>
           Kept(k)]_vars
  BY <1>2
<1> QED
  BY <1>3, StreamerKeepsInv, PTL DEF Spec, RecordsKeepTheirTransfer

(***************************************************************************)
(* The validity of a broadcast.                                            *)
(***************************************************************************)

\* The time that the calls made so far may have taken.
Budget == ClientTimeout * Cardinality(FailedCalls)
            + Latency * Cardinality(processedApiUrls)

TimeInv ==
  /\ IsFiniteSet(FailedCalls) /\ IsFiniteSet(processedApiUrls)
  /\ elapsed <= Budget
  /\ expired # {} => elapsed > Validity

\* The calls of one peer that have failed.
FailedIn(s) == {n \in {1, 2} : n \in 1..Len(s) /\ s[n] = "failed"}

LEMMA FailedPositions ==
  /\ FailedIn(<<>>) = {}
  /\ FailedIn(<<"failed">>) = {1}
  /\ FailedIn(<<"answered">>) = {}
  /\ FailedIn(<<"failed", "failed">>) = {1, 2}
  /\ FailedIn(<<"failed", "answered">>) = {1}
BY DEF FailedIn

LEMMA FailedByPeer ==
  FailedCalls = {c \in Validators \X {1, 2} : c[2] \in FailedIn(calls[c[1]])}
BY DEF FailedCalls, FailedIn

LEMMA NoneFailed ==
  ASSUME calls = [w \in Validators |-> <<>>]
  PROVE  FailedCalls = {}
BY FailedByPeer, FailedPositions

LEMMA TimeStarts == NoCallYet => TimeInv
BY FS_EmptySet, TimesAssumption, NoneFailed DEF NoCallYet, TimeInv, Budget

LEMMA TimeRestarts == ResetBroadcast => TimeInv'
<1> SUFFICES ASSUME ResetBroadcast PROVE TimeInv'
  OBVIOUS
<1>1. /\ processedApiUrls' = {} /\ expired' = {} /\ elapsed' = 0
      /\ calls' = [w \in Validators |-> <<>>]
  BY DEF ResetBroadcast
<1>2. FailedCalls' = {}
  BY <1>1, FailedPositions DEF FailedCalls, FailedIn
<1> QED
  BY <1>1, <1>2, FS_EmptySet, TimesAssumption DEF TimeInv, Budget

\* A call that fails is one more of them, and one that is answered is none.
LEMMA OneMoreFails ==
  ASSUME LoopInv, NEW e \in Entry, e \in unvisited, ~Skips(e), NEW x \in Outcome,
         calls' = [calls EXCEPT ![e.validator] = Append(@, x)]
  PROVE  IF x = "failed"
         THEN \E c : c \notin FailedCalls /\ FailedCalls' = FailedCalls \cup {c}
         ELSE FailedCalls' = FailedCalls
<1> DEFINE v == e.validator
           c == IF calls[v] = <<>> THEN <<v, 1>> ELSE <<v, 2>>
<1>1. /\ v \in Validators
      /\ calls[v] = <<>> \/ calls[v] = <<"failed">>
  BY CalledPeer
<1>2. calls \in [Validators -> Seq(Outcome)]
  BY DEF LoopInv, BroadcastTypeOK
<1>3. /\ calls'[v] = Append(calls[v], x)
      /\ \A w \in Validators \ {v} : calls'[w] = calls[w]
  BY <1>1, <1>2
<1>4. \/ calls[v] = <<>> /\ calls'[v] = <<x>>
      \/ calls[v] = <<"failed">> /\ calls'[v] = <<"failed", x>>
  BY <1>1, <1>3, Appends
<1>5. x = "failed" \/ x = "answered"
  BY DEF Outcome
<1>6. \A w \in Validators \ {v} : FailedIn(calls'[w]) = FailedIn(calls[w])
  BY <1>3
<1>7. FailedCalls' = {d \in Validators \X {1, 2} : d[2] \in FailedIn(calls'[d[1]])}
  BY DEF FailedCalls, FailedIn
<1>8. CASE x = "answered"
  <2>1. FailedIn(calls'[v]) = FailedIn(calls[v])
    BY <1>4, <1>8, FailedPositions
  <2>2. \A w \in Validators : FailedIn(calls'[w]) = FailedIn(calls[w])
    BY <1>6, <2>1
  <2> QED
    BY <1>7, <1>8, <2>2, FailedByPeer
<1>9. CASE x = "failed"
  <2>1. CASE calls[v] = <<>>
    <3>1. calls'[v] = <<"failed">>
      BY <1>4, <1>9, <2>1
    <3>2. FailedIn(calls[v]) = {} /\ FailedIn(calls'[v]) = {1}
      BY <2>1, <3>1, FailedPositions
    <3>3. \A d \in Validators \X {1, 2} :
            d[2] \in FailedIn(calls'[d[1]])
              <=> d[2] \in FailedIn(calls[d[1]]) \/ d = <<v, 1>>
      BY <1>1, <1>6, <3>2
    <3>4. <<v, 1>> \notin FailedCalls
      BY <3>2, FailedByPeer
    <3>5. FailedCalls' = FailedCalls \cup {<<v, 1>>}
      BY <1>1, <1>7, <3>3, FailedByPeer
    <3> QED
      BY <1>9, <3>4, <3>5
  <2>2. CASE calls[v] = <<"failed">>
    <3>1. calls'[v] = <<"failed", "failed">>
      BY <1>4, <1>9, <2>2
    <3>2. FailedIn(calls[v]) = {1} /\ FailedIn(calls'[v]) = {1, 2}
      BY <2>2, <3>1, FailedPositions
    <3>3. <<v, 2>> \notin FailedCalls
            /\ FailedCalls' = FailedCalls \cup {<<v, 2>>}
      BY <1>1, <1>6, <1>7, <3>2, FailedByPeer
    <3> QED
      BY <1>9, <3>3
  <2> QED
    BY <1>1, <2>1, <2>2
<1> QED
  BY <1>5, <1>8, <1>9

LEMMA TimeSteps == LoopInv /\ TimeInv /\ BroadcastStep => TimeInv'
<1> SUFFICES ASSUME LoopInv, TimeInv, NEW e \in Entry,
                    SkipEntry(e) \/ CallFails(e)
                      \/ \E reply : PeerAnswers(e, reply)
             PROVE  TimeInv'
  BY DEF BroadcastStep
<1> DEFINE f == Cardinality(FailedCalls)
           p == Cardinality(processedApiUrls)
<1>1. f \in Nat /\ p \in Nat /\ elapsed \in Nat
  BY FS_CardinalityType DEF TimeInv, LoopInv, BroadcastTypeOK
<1>2. elapsed <= ClientTimeout * f + Latency * p
  BY DEF TimeInv, Budget
<1>3. CASE SkipEntry(e)
  BY <1>3 DEF SkipEntry, TimeInv, Budget, FailedCalls
<1>4. CASE CallFails(e)
  <2>1. PICK c : c \notin FailedCalls /\ FailedCalls' = FailedCalls \cup {c}
    BY <1>4, OneMoreFails DEF CallFails, Outcome
  <2>2. UNCHANGED <<processedApiUrls, expired>>
    BY <1>4 DEF CallFails
  <2>3. IsFiniteSet(FailedCalls') /\ Cardinality(FailedCalls') = f + 1
    BY <2>1, FS_AddElement DEF TimeInv
  <2>4. PICK wait \in 0..ClientTimeout : elapsed' = elapsed + wait
    BY <1>4 DEF CallFails
  <2>5. ClientTimeout * (f + 1) = ClientTimeout * f + ClientTimeout
    BY <1>1, TimesAssumption
  <2>6. ClientTimeout * f \in Nat /\ Latency * p \in Nat
    BY <1>1, TimesAssumption
  <2>7. elapsed' <= ClientTimeout * (f + 1) + Latency * p
    BY <1>1, <1>2, <2>4, <2>5, <2>6, TimesAssumption
  <2>8. elapsed' >= elapsed
    BY <1>1, <2>4, TimesAssumption
  <2> QED
    BY <1>1, <2>2, <2>3, <2>4, <2>7, <2>8, TimesAssumption DEF TimeInv, Budget
<1>5. ASSUME NEW reply, PeerAnswers(e, reply)
      PROVE  TimeInv'
  <2>1. e.validator \notin processedApiUrls
    BY <1>5 DEF PeerAnswers, Skips
  <2>2. /\ FailedCalls' = FailedCalls
        /\ processedApiUrls' = processedApiUrls \cup {e.validator}
    BY <1>5, OneMoreFails DEF PeerAnswers, Outcome
  <2>3. IsFiniteSet(processedApiUrls') /\ Cardinality(processedApiUrls') = p + 1
    BY <2>1, <2>2, FS_AddElement DEF TimeInv
  <2>4. PICK latency \in 0..Latency : elapsed' = elapsed + latency
    BY <1>5 DEF PeerAnswers
  <2>5. Latency \in Nat /\ Latency * (p + 1) = Latency * p + Latency
    BY <1>1, TimesAssumption
  <2>6. ClientTimeout * f \in Nat /\ Latency * p \in Nat
    BY <1>1, TimesAssumption
  <2>7. elapsed' <= ClientTimeout * f + Latency * (p + 1)
    BY <1>1, <1>2, <2>4, <2>5, <2>6, TimesAssumption
  <2>8. elapsed' >= elapsed /\ elapsed' \in Nat
    BY <1>1, <2>4, <2>5
  <2>9. expired' # {} => elapsed' > Validity
    <3>1. CASE reply = "expired"
      BY <1>5, <3>1 DEF PeerAnswers
    <3>2. CASE reply # "expired"
      <4>1. expired' = expired
        BY <1>5, <3>2 DEF PeerAnswers
      <4> QED
        BY <1>1, <2>8, <4>1, TimesAssumption DEF TimeInv
    <3> QED
      BY <3>1, <3>2
  <2> QED
    BY <2>2, <2>3, <2>7, <2>9 DEF TimeInv, Budget
<1> QED
  BY <1>3, <1>4, <1>5

LEMMA TimeStays == TimeInv /\ UNCHANGED broadcastVars => TimeInv'
BY DEF TimeInv, Budget, FailedCalls, broadcastVars

\* If no call has failed, the answered ones have taken less than a round.
LEMMA RoundOfAnswers ==
  ASSUME LoopInv, FailedCalls = {}
  PROVE  Budget <= Latency * (Cardinality(Validators) - 1)
<1> DEFINE Peers == Validators \ {Self}
           p == Cardinality(processedApiUrls)
           n == Cardinality(Peers)
<1>1. IsFiniteSet(Peers) /\ n = Cardinality(Validators) - 1
  BY PeersAssumption, FS_RemoveElement
<1>2. processedApiUrls \subseteq Peers
  BY DEF LoopInv, CallsInv
<1>3. IsFiniteSet(processedApiUrls) /\ p <= n /\ p \in Nat /\ n \in Nat
  BY <1>1, <1>2, FS_Subset, FS_CardinalityType
<1>4. Cardinality(FailedCalls) = 0
  BY FS_EmptySet
<1>5. Latency \in Nat /\ ClientTimeout \in Nat
  BY TimesAssumption
<1>6. Latency * (n - p) \in Nat /\ Latency * p \in Nat
  BY <1>3, <1>5
<1>7. Latency * n = Latency * p + Latency * (n - p)
  BY <1>3, <1>5
<1>8. Budget = Latency * p
  BY <1>4, <1>5, <1>6 DEF Budget
<1>9. Budget <= Latency * n
  BY <1>6, <1>7, <1>8
<1> QED
  BY <1>1, <1>9

\* A peer refuses a body as expired only when calls have used up the minute it
\* is valid, each failed one with the client's timeout and each answered one
\* with its latency.  Where the peers' answers fit into it, some call has failed
\* first (util.go:204-256).
THEOREM ExpiryNeedsFailures == Spec => []ExpiresOnlyAfterFailures
<1>1. Init => TimeInv
  BY TimeStarts DEF Init
<1>2. StreamerInv /\ TimeInv /\ [Next]_vars => TimeInv'
  BY LoopMoves, TimeSteps, TimeRestarts, TimeStays DEF StreamerInv
<1>3. StreamerInv /\ TimeInv => ExpiresOnlyAfterFailures
  <2> SUFFICES ASSUME StreamerInv, TimeInv, expired # {}
               PROVE  /\ Budget > Validity
                      /\ Latency * (Cardinality(Validators) - 1) <= Validity =>
                           FailedCalls # {}
    BY DEF ExpiresOnlyAfterFailures, Budget
  <2>1. elapsed \in Nat /\ elapsed > Validity /\ elapsed <= Budget
    BY DEF StreamerInv, LoopInv, BroadcastTypeOK, TimeInv
  <2>2. Cardinality(FailedCalls) \in Nat /\ Cardinality(processedApiUrls) \in Nat
    BY FS_CardinalityType DEF TimeInv
  <2>3. Budget \in Nat
    BY <2>2, TimesAssumption DEF Budget
  <2>4. Budget > Validity
    BY <2>1, <2>3, TimesAssumption
  <2>5. ASSUME FailedCalls = {},
               Latency * (Cardinality(Validators) - 1) <= Validity
        PROVE  FALSE
    <3>1. Budget <= Latency * (Cardinality(Validators) - 1)
      BY <2>5, RoundOfAnswers DEF StreamerInv
    <3>2. Latency * (Cardinality(Validators) - 1) \in Int
      BY PeersAssumption, FS_CardinalityType, TimesAssumption
    <3> QED
      BY <2>3, <2>4, <2>5, <3>1, <3>2, TimesAssumption
  <2> QED
    BY <2>4, <2>5
<1> QED
  BY <1>1, <1>2, <1>3, StreamerKeepsInv, PTL DEF Spec

(***************************************************************************)
(* The length of a broadcast.                                              *)
(***************************************************************************)

\* The entries through which peers are called, and those still to be visited.
PeerEntries == {e \in Entry : e.validator # Self}
PeersLeft == PeerEntries \cap unvisited

\* The calls that are left fit into the time that is left.
LengthInv ==
  elapsed + ClientTimeout * Cardinality(PeersLeft)
    <= ClientTimeout * Cardinality(PeerEntries)

LEMMA PeerEntriesFacts ==
  /\ IsFiniteSet(PeerEntries)
  /\ Cardinality(Validators) \in Nat
  /\ Cardinality(PeerEntries) = 2 * (Cardinality(Validators) - 1)
<1> DEFINE Peers == Validators \ {Self}
           Addresses == {"ethereum", "koinos"}
           Pairs == Peers \X Addresses
           f == [p \in Pairs |-> [validator |-> p[1], address |-> p[2]]]
<1>1. /\ IsFiniteSet(Peers)
      /\ Cardinality(Peers) = Cardinality(Validators) - 1
      /\ Cardinality(Validators) \in Nat
  BY PeersAssumption, FS_RemoveElement, FS_CardinalityType
<1>2. IsFiniteSet(Addresses) /\ Cardinality(Addresses) = 2
  <2>1. IsFiniteSet({"ethereum"}) /\ Cardinality({"ethereum"}) = 1
    BY FS_Singleton
  <2>2. Addresses = {"ethereum"} \cup {"koinos"} /\ "koinos" \notin {"ethereum"}
    OBVIOUS
  <2> QED
    BY <2>1, <2>2, FS_AddElement
<1>3. IsFiniteSet(Pairs) /\ Cardinality(Pairs) = Cardinality(Peers) * 2
  BY <1>1, <1>2, FS_Product
<1>4. f \in Bijection(Pairs, PeerEntries)
  <2>1. f \in [Pairs -> PeerEntries]
    BY DEF PeerEntries, Entry
  <2>2. \A p, q \in Pairs : f[p] = f[q] => p = q
    OBVIOUS
  <2>3. ASSUME NEW e \in PeerEntries PROVE \E p \in Pairs : f[p] = e
    <3>1. <<e.validator, e.address>> \in Pairs
      BY <2>3 DEF PeerEntries, Entry
    <3>2. f[<<e.validator, e.address>>] = e
      BY <2>3, <3>1 DEF PeerEntries, Entry
    <3> QED
      BY <3>1, <3>2
  <2> HIDE DEF f, Pairs
  <2>4. f \in Injection(Pairs, PeerEntries)
    BY <2>1, <2>2 DEF Injection, IsInjective
  <2>5. f \in Surjection(Pairs, PeerEntries)
    BY <2>1, <2>3 DEF Surjection
  <2> QED
    BY <2>4, <2>5 DEF Bijection
<1> HIDE DEF f, Pairs
<1>5. IsFiniteSet(PeerEntries) /\ Cardinality(PeerEntries) = Cardinality(Pairs)
  BY <1>3, <1>4, FS_Bijection DEF ExistsBijection
<1> QED
  BY <1>1, <1>3, <1>5

LEMMA LengthStarts ==
  ASSUME unvisited = Entry, elapsed = 0
  PROVE  LengthInv
<1>1. PeersLeft = PeerEntries
  BY DEF PeersLeft, PeerEntries
<1>2. Cardinality(PeerEntries) \in Nat
  BY PeerEntriesFacts, FS_CardinalityType
<1> QED
  BY <1>1, <1>2, TimesAssumption DEF LengthInv

LEMMA LengthSteps == LoopInv /\ LengthInv /\ BroadcastStep => LengthInv'
<1> SUFFICES ASSUME LoopInv, LengthInv, NEW e \in Entry,
                    SkipEntry(e) \/ CallFails(e)
                      \/ \E reply : PeerAnswers(e, reply)
             PROVE  LengthInv'
  BY DEF BroadcastStep
<1> DEFINE left == Cardinality(PeersLeft)
           all == Cardinality(PeerEntries)
<1>1. IsFiniteSet(PeersLeft) /\ left \in Nat /\ all \in Nat
  BY PeerEntriesFacts, FS_Intersection, FS_CardinalityType DEF PeersLeft
<1>2. e \in unvisited /\ unvisited' = unvisited \ {e}
  BY DEF SkipEntry, CallFails, PeerAnswers
<1>3. /\ PeersLeft' = PeersLeft \ {e}
      /\ PeerEntries' = PeerEntries
  BY <1>2 DEF PeersLeft, PeerEntries, Entry
<1>4. Cardinality(PeersLeft') = IF e \in PeersLeft THEN left - 1 ELSE left
  BY <1>1, <1>3, FS_RemoveElement
<1>5. elapsed \in Nat
  BY DEF LoopInv, BroadcastTypeOK
<1>6. elapsed + ClientTimeout * left <= ClientTimeout * all
  BY DEF LengthInv
<1>7. Cardinality(PeersLeft') \in Nat /\ Cardinality(PeersLeft') <= left
  <2>1. IsFiniteSet(PeersLeft')
    BY <1>1, <1>3, FS_RemoveElement
  <2>2. Cardinality(PeersLeft') \in Nat
    BY <2>1, FS_CardinalityType
  <2> QED
    BY <1>1, <1>4, <2>2
<1>8. CASE SkipEntry(e)
  <2>1. elapsed' = elapsed
    BY <1>8 DEF SkipEntry
  <2>2. ClientTimeout * Cardinality(PeersLeft') <= ClientTimeout * left
    <3>1. CASE Cardinality(PeersLeft') = left
      BY <1>1, <3>1, TimesAssumption
    <3>2. CASE Cardinality(PeersLeft') = left - 1
      <4>1. ClientTimeout * (left - 1) = ClientTimeout * left - ClientTimeout
        BY <1>1, TimesAssumption
      <4> QED
        BY <1>1, <3>2, <4>1, TimesAssumption
    <3> QED
      BY <1>4, <3>1, <3>2
  <2>3. /\ ClientTimeout * Cardinality(PeersLeft') \in Nat
        /\ ClientTimeout * left \in Nat
        /\ ClientTimeout * all \in Nat
    BY <1>1, <1>7, TimesAssumption
  <2> QED
    BY <1>3, <1>5, <1>6, <2>1, <2>2, <2>3 DEF LengthInv
<1>9. CASE CallFails(e) \/ \E reply : PeerAnswers(e, reply)
  <2>1. \E time \in 0..ClientTimeout : elapsed' = elapsed + time
    BY <1>9, TimesAssumption DEF CallFails, PeerAnswers
  <2>2. e \in PeersLeft
    BY <1>2, <1>9 DEF CallFails, PeerAnswers, Skips, PeersLeft, PeerEntries
  <2>3. ClientTimeout * (left - 1) = ClientTimeout * left - ClientTimeout
    BY <1>1, TimesAssumption
  <2>4. ClientTimeout * left \in Nat /\ ClientTimeout * all \in Nat
    BY <1>1, TimesAssumption
  <2>5. Cardinality(PeersLeft') = left - 1
    BY <1>4, <2>2
  <2>6. elapsed' + ClientTimeout * (left - 1) <= ClientTimeout * all
    BY <1>5, <1>6, <2>1, <2>3, <2>4, TimesAssumption
  <2> QED
    BY <1>3, <2>5, <2>6 DEF LengthInv
<1> QED
  BY <1>8, <1>9

\* A broadcast, and with it a handler, takes at most two of the client's
\* timeouts for each peer, whatever the peers do (util.go:227-272).
BroadcastIsShort ==
  elapsed <= ClientTimeout * (2 * (Cardinality(Validators) - 1))

\* However many peers do not answer, in whatever order the loop visits the
\* entries, a broadcast holds up its streamer for a bounded time.
THEOREM BroadcastIsBounded == Spec => []BroadcastIsShort
<1>1. Init => LengthInv
  BY LengthStarts DEF Init, NoCallYet
<1>2. StreamerInv /\ LengthInv /\ [Next]_vars => LengthInv'
  <2> SUFFICES ASSUME StreamerInv, LengthInv, [Next]_vars PROVE LengthInv'
    OBVIOUS
  <2>1. \/ BroadcastStep
        \/ ResetBroadcast
        \/ UNCHANGED broadcastVars
    BY LoopMoves
  <2>2. CASE ResetBroadcast
    <3>1. (unvisited = Entry)' /\ (elapsed = 0)'
      BY <2>2 DEF ResetBroadcast, Entry
    <3>2. PeersLeft' = PeerEntries' /\ PeerEntries' = PeerEntries
      BY <3>1 DEF PeersLeft, PeerEntries, Entry
    <3>3. Cardinality(PeerEntries) \in Nat
      BY PeerEntriesFacts, FS_CardinalityType
    <3> QED
      BY <3>1, <3>2, <3>3, TimesAssumption DEF LengthInv
  <2>3. CASE UNCHANGED broadcastVars
    BY <2>3 DEF broadcastVars, LengthInv, PeersLeft, PeerEntries, Entry
  <2> QED
    BY <2>1, <2>2, <2>3, LengthSteps DEF StreamerInv
<1>3. StreamerInv /\ LengthInv => BroadcastIsShort
  <2> SUFFICES ASSUME StreamerInv, LengthInv PROVE BroadcastIsShort
    OBVIOUS
  <2>1. Cardinality(PeersLeft) \in Nat
    BY PeerEntriesFacts, FS_Intersection, FS_CardinalityType DEF PeersLeft
  <2>2. elapsed \in Nat
    BY DEF StreamerInv, LoopInv, BroadcastTypeOK
  <2>3. ClientTimeout * Cardinality(PeersLeft) \in Nat
    BY <2>1, TimesAssumption
  <2>4. /\ Cardinality(PeerEntries) \in Nat
        /\ ClientTimeout * Cardinality(PeerEntries) \in Nat
    BY PeerEntriesFacts, FS_CardinalityType, TimesAssumption
  <2>5. elapsed <= ClientTimeout * Cardinality(PeerEntries)
    BY <2>2, <2>3, <2>4 DEF LengthInv
  <2> QED
    BY <2>5, PeerEntriesFacts DEF BroadcastIsShort
<1> QED
  BY <1>1, <1>2, <1>3, StreamerKeepsInv, PTL DEF Spec

(***************************************************************************)
(* The amounts that are signed.                                            *)
(***************************************************************************)

\* Some lock of the key's transfer locked the amount of the hash.
AmountLocked(k, hash) ==
  \E i \in LocksOf(k) :
    LET amount == log.events[i].transfer.amount IN
      \/ hash.amount = amount
      \/ log.chain = "koinos" /\ amount >= Half

\* A signature of another validator, merged or just answered.
SignedBy(k) ==
  store[k].signers \ {Self} # {} \/ (broadcasting = k /\ signatures # {})

AmountInv(k) ==
  store[k] # NoRecord =>
    /\ store[k].transfer # Unknown =>
         \E i \in LocksOf(k) : log.events[i].transfer = store[k].transfer
    /\ SignedBy(k) => AmountLocked(k, store[k].hash)

AmountsInv == \A k \in Key : AmountInv(k)

\* A key whose record keeps transfer and hash, and gets no new signature.
LEMMA AmountStays ==
  ASSUME AmountsInv, UNCHANGED log, NEW k \in Key, store[k] # NoRecord,
         store'[k].transfer = store[k].transfer, store'[k].hash = store[k].hash,
         SignedBy(k)' => SignedBy(k)
  PROVE  AmountInv(k)'
<1>1. LocksOf(k)' = LocksOf(k)
  BY DEF LocksOf
<1>2. AmountLocked(k, store[k].hash) => AmountLocked(k, store[k].hash)'
  BY <1>1 DEF AmountLocked
<1> QED
  BY <1>1, <1>2 DEF AmountsInv, AmountInv, AmountLocked

\* What a peer has verified is the amount of a text, which is that of a lock.
LEMMA VerifiedAmount ==
  ASSUME TypeOK, NEW k \in Key, NEW i \in LocksOf(k), NEW h,
         Verifies(log.chain, log.events[i].transfer, h)
  PROVE  AmountLocked(k, h)
<1> DEFINE t == log.events[i].transfer
<1>1. t \in Transfer /\ log.chain \in Chains
  BY LockTypes, ChainType DEF LocksOf
<1>2. IsUint64(t.amount) /\ h = SubmittedHash(log.chain, t, h.expiration)
  BY DEF Verifies, SubmittedDecodes
<1>3. CASE log.chain = "ethereum"
  <2>1. h = HashOf(t, t.amount, "configured", h.expiration)
    BY <1>2, <1>3 DEF SubmittedHash, EthereumSubmittedHash
  <2>2. h.amount = t.amount
    BY <2>1 DEF HashOf
  <2> QED
    BY <2>2 DEF AmountLocked
<1>4. CASE log.chain = "koinos"
  <2>1. h = HashOf(t, PaddedBytes(t.amount),
                   IF t.supported THEN "configured" ELSE "empty", h.expiration)
    BY <1>2, <1>4 DEF SubmittedHash, KoinosSubmittedHash
  <2>2. h.amount = PaddedBytes(t.amount)
    BY <2>1 DEF HashOf
  <2>3. t.amount \in Nat
    BY <1>1 DEF Transfer
  <2>4. h.amount = t.amount \/ t.amount >= Half
    BY <2>2, <2>3, HalfAssumption DEF PaddedBytes
  <2> QED
    BY <1>4, <2>4 DEF AmountLocked
<1> QED
  BY <1>1, <1>3, <1>4 DEF Chains

LEMMA LockedAmounts == StreamerInv /\ AmountsInv /\ TokensLocked => AmountsInv'
<1> SUFFICES ASSUME StreamerInv, AmountsInv, TokensLocked, NEW k \in Key,
                    store'[k] # NoRecord
             PROVE  AmountInv(k)'
  BY DEF AmountsInv, AmountInv
<1> DEFINE j == KeyOf(NextEvent.transfer)
<1>1. /\ Reads("lock")
      /\ ~HashMismatch(j)
      /\ UNCHANGED log
      /\ broadcasting' = j /\ signatures' = {}
  BY DEF TokensLocked, PutAndBroadcast, ResetBroadcast
<1>2. /\ j \in Key
      /\ store' = [store EXCEPT ![j] = LockedRecord(j)]
      /\ store'[j] = LockedRecord(j)
      /\ store'[j].hash = EventHash
  BY LocksMove
<1>3. CASE k # j
  <2>1. store'[k] = store[k]
    BY <1>2, <1>3 DEF StreamerInv, TransferInv, TypeOK
  <2>2. SignedBy(k)' => SignedBy(k)
    BY <1>1, <2>1 DEF SignedBy
  <2> QED
    BY <1>1, <2>1, <2>2, AmountStays
<1>4. CASE k = j
  <2>1. store'[k].transfer = NextEvent.transfer
    BY <1>2, <1>4 DEF LockedRecord
  <2>2. position + 1 \in LocksOf(k) /\ LocksOf(k)' = LocksOf(k)
    BY <1>1, <1>4, EventTypes
    DEF LocksOf, Reads, NextEvent, StreamerInv, TransferInv
  <2>3. log'.events[position + 1].transfer = store'[k].transfer
    BY <1>1, <2>1 DEF NextEvent
  <2>4. ASSUME SignedBy(k)'
        PROVE  AmountLocked(k, store[k].hash)'
    <3>1. store'[k].signers \ {Self} # {}
      BY <1>1, <2>4 DEF SignedBy
    <3>2. store[k] # NoRecord /\ store[k].signers \ {Self} # {}
      BY <1>2, <1>4, <3>1 DEF LockedRecord
    <3>3. store[k].hash # Unknown
      BY <3>2 DEF StreamerInv, TransferInv, Records, Known
    <3>4. store[k].hash = store'[k].hash
      BY <1>1, <1>2, <1>4, <3>2, <3>3 DEF HashMismatch
    <3>5. AmountLocked(k, store[k].hash)
      BY <3>2 DEF AmountsInv, AmountInv, SignedBy
    <3> QED
      BY <1>1, <2>2, <3>4, <3>5 DEF AmountLocked
  <2> QED
    BY <2>2, <2>3, <2>4 DEF AmountInv
<1> QED
  BY <1>3, <1>4

LEMMA ResignedAmounts ==
  StreamerInv /\ AmountsInv /\ RequestNewSignatures => AmountsInv'
<1> SUFFICES ASSUME StreamerInv, AmountsInv, RequestNewSignatures, NEW k \in Key,
                    store'[k] # NoRecord
             PROVE  AmountInv(k)'
  BY DEF AmountsInv, AmountInv
<1>1. UNCHANGED log /\ signatures' = {}
  BY DEF RequestNewSignatures, PutAndBroadcast, ResetBroadcast
<1>2. PICK j \in Key :
        /\ store[j] # NoRecord
        /\ store' = [store EXCEPT ![j] = ResignedRecord(j)]
        /\ store'[j].signers = {Self}
  BY RequestsMove
<1>3. CASE k # j
  <2>1. store'[k] = store[k]
    BY <1>2, <1>3 DEF StreamerInv, TransferInv, TypeOK
  <2>2. SignedBy(k)' => SignedBy(k)
    BY <1>1, <2>1 DEF SignedBy
  <2> QED
    BY <1>1, <2>1, <2>2, AmountStays
<1>4. CASE k = j
  <2>1. store'[k].transfer = store[k].transfer
    <3>1. store[j] \in Record /\ store'[j] = ResignedRecord(j)
      BY <1>2 DEF StreamerInv, TransferInv, TypeOK
    <3> QED
      BY <1>4, <3>1 DEF ResignedRecord, Record
  <2>2. ~SignedBy(k)'
    BY <1>1, <1>2, <1>4 DEF SignedBy
  <2>3. LocksOf(k)' = LocksOf(k)
    BY <1>1 DEF LocksOf
  <2> QED
    BY <1>1, <1>2, <1>4, <2>1, <2>2, <2>3 DEF AmountsInv, AmountInv
<1> QED
  BY <1>3, <1>4

LEMMA AnsweredAmounts ==
  ASSUME StreamerInv, AmountsInv, NEW e \in Entry, NEW reply,
         Answer(e, reply)
  PROVE  AmountsInv'
<1> SUFFICES ASSUME NEW k \in Key, store'[k] # NoRecord
             PROVE  AmountInv(k)'
  BY DEF AmountsInv, AmountInv
<1>1. UNCHANGED <<log, store, broadcasting>> /\ broadcasting # Idle
  BY DEF Answer
<1>2. CASE reply = "signature" /\ k = broadcasting
  <2>1. store[k].transfer \in Transfer /\ store[k] # NoRecord
    BY <1>1, <1>2, AnsweredRecord, HashedRecord
    DEF StreamerInv, TransferInv, Broadcasts
  <2>2. PICK i \in LocksOf(k) : log.events[i].transfer = store[k].transfer
    BY <2>1, SentinelsAssumption DEF AmountsInv, AmountInv
  <2>3. AmountLocked(k, store[k].hash)
    BY <1>1, <1>2, <2>2, VerifiedAmount DEF Answer, StreamerInv, TransferInv
  <2>4. LocksOf(k)' = LocksOf(k)
    BY <1>1 DEF LocksOf
  <2> QED
    BY <1>1, <2>3, <2>4 DEF AmountsInv, AmountInv, AmountLocked
<1>3. CASE reply # "signature" \/ k # broadcasting
  <2>1. k # broadcasting \/ signatures' = signatures
    BY <1>3 DEF Answer, PeerAnswers
  <2>2. SignedBy(k)' => SignedBy(k)
    BY <1>1, <2>1 DEF SignedBy
  <2>3. store'[k] = store[k]
    BY <1>1
  <2> QED
    BY <1>1, <2>2, <2>3, AmountStays
<1> QED
  BY <1>2, <1>3

LEMMA MergedAmounts == StreamerInv /\ AmountsInv /\ MergeAnswers => AmountsInv'
<1> SUFFICES ASSUME StreamerInv, AmountsInv, MergeAnswers, NEW k \in Key,
                    store'[k] # NoRecord
             PROVE  AmountInv(k)'
  BY DEF AmountsInv, AmountInv
<1> DEFINE b == broadcasting
<1>1. UNCHANGED log /\ signatures' = {} /\ b # Idle
  BY DEF MergeAnswers, ResetBroadcast
<1>2. /\ store[b].hash = store'[b].hash
      /\ store'[b].signers = store[b].signers \cup signatures
      /\ \A j \in Key \ {b} : store'[j] = store[j]
  BY MergeKeepsInv DEF StreamerInv
<1>3. b \in Key /\ store[b] \in Record /\ store[b] # NoRecord
  BY <1>1, AnsweredRecord DEF StreamerInv, TransferInv, Broadcasts
<1>4. store'[b].transfer = store[b].transfer
  BY <1>3 DEF MergeAnswers, StreamerInv, TransferInv, TypeOK, Record
<1>5. CASE k # b
  <2>1. store'[k] = store[k]
    BY <1>2, <1>5
  <2>2. SignedBy(k)' => SignedBy(k)
    BY <1>1, <2>1 DEF SignedBy
  <2> QED
    BY <1>1, <2>1, <2>2, AmountStays
<1>6. CASE k = b
  <2>1. SignedBy(k)' => SignedBy(k)
    BY <1>1, <1>2, <1>6 DEF SignedBy
  <2>2. LocksOf(k)' = LocksOf(k)
    BY <1>1 DEF LocksOf
  <2> QED
    BY <1>1, <1>2, <1>3, <1>4, <1>6, <2>1, <2>2 DEF AmountsInv, AmountInv, AmountLocked
<1> QED
  BY <1>5, <1>6

LEMMA CompletedAmounts ==
  ASSUME StreamerInv, AmountsInv, NEW c \in Key, TransferCompleted(c)
  PROVE  AmountsInv'
<1> SUFFICES ASSUME NEW k \in Key, store'[k] # NoRecord
             PROVE  AmountInv(k)'
  BY DEF AmountsInv, AmountInv
<1>1. UNCHANGED <<log, broadcasting, signatures>>
  BY DEF TransferCompleted, broadcastVars
<1>2. CASE store[k] # NoRecord
  <2>1. store'[k].hash = store[k].hash /\ store'[k].signers = store[k].signers
    BY <1>2, CompletedKeepsInv DEF StreamerInv
  <2>2. store'[k].transfer = store[k].transfer
    BY <1>2 DEF TransferCompleted, StreamerInv, TransferInv, TypeOK, Record
  <2>3. SignedBy(k)' => SignedBy(k)
    BY <1>1, <2>1 DEF SignedBy
  <2> QED
    BY <1>1, <1>2, <2>1, <2>2, <2>3, AmountStays
<1>3. CASE store[k] = NoRecord
  <2>1. store'[k].hash = Unknown /\ store'[k].signers = {}
    BY <1>3, CompletedKeepsInv DEF StreamerInv
  <2>2. store'[k].transfer = Unknown
    <3>1. TransferInv'
      BY CompletedKeepsInv DEF StreamerInv
    <3>2. Known(store[k])'
      BY <3>1 DEF TransferInv, Records
    <3> QED
      BY <2>1, <3>2 DEF Known
  <2>3. broadcasting # k
    BY <1>3, SentinelsAssumption
    DEF StreamerInv, TransferInv, Broadcasts
  <2>4. ~SignedBy(k)'
    BY <1>1, <2>1, <2>3 DEF SignedBy
  <2> QED
    BY <2>2, <2>4 DEF AmountInv
<1> QED
  BY <1>2, <1>3

LEMMA SubmittedAmounts ==
  ASSUME StreamerInv, AmountsInv, NEW i \in 1..Len(log.events),
         NEW peers \in SUBSET Submitters, SubmitSignature(i, peers)
  PROVE  AmountsInv'
<1> DEFINE t == log.events[i].transfer
           j == KeyOf(t)
<1> SUFFICES ASSUME NEW k \in Key, store'[k] # NoRecord
             PROVE  AmountInv(k)'
  BY DEF AmountsInv, AmountInv
<1>1. /\ UNCHANGED <<log, broadcasting, signatures>>
      /\ j \in Key /\ i \in LocksOf(j)
      /\ \A l \in Key \ {j} : store'[l] = store[l]
  BY SubmissionsMove DEF StreamerInv, broadcastVars
<1>2. PICK h \in HashesOf(i) :
        /\ store'[j].hash = h
        /\ Verifies(log.chain, t, h)
        /\ \/ store[j] = NoRecord /\ store'[j].transfer = t
           \/ /\ store[j] # NoRecord
              /\ store'[j].transfer = store[j].transfer
  BY SubmissionsMove DEF StreamerInv
<1>3. LocksOf(k)' = LocksOf(k)
  BY <1>1 DEF LocksOf
<1>4. CASE k # j
  <2>1. store'[k] = store[k]
    BY <1>1, <1>4
  <2>2. SignedBy(k)' => SignedBy(k)
    BY <1>1, <2>1 DEF SignedBy
  <2> QED
    BY <1>1, <2>1, <2>2, AmountStays
<1>5. CASE k = j
  <2>1. AmountLocked(k, h)
    BY <1>1, <1>2, <1>5, VerifiedAmount DEF StreamerInv, TransferInv
  <2>2. AmountLocked(k, store[k].hash)'
    BY <1>1, <1>2, <1>3, <1>5, <2>1 DEF AmountLocked
  <2>3. ASSUME store'[k].transfer # Unknown
        PROVE  \E l \in LocksOf(k) : log.events[l].transfer = store'[k].transfer
    BY <1>1, <1>2, <1>5, <2>3 DEF AmountsInv, AmountInv
  <2> QED
    BY <1>1, <1>3, <2>2, <2>3 DEF AmountInv
<1> QED
  BY <1>4, <1>5

\* The steps that neither put a record nor gather a signature.
LEMMA SignatureCases ==
  ASSUME [Next]_vars
  PROVE  \/ TokensLocked
         \/ RequestNewSignatures
         \/ \E e \in Entry : \E reply : Answer(e, reply)
         \/ MergeAnswers
         \/ \E k \in Key : TransferCompleted(k)
         \/ \E i \in 1..Len(log.events), peers \in SUBSET Submitters :
              SubmitSignature(i, peers)
         \/ /\ UNCHANGED <<log, store>>
            /\ \A k \in Key : SignedBy(k)' => SignedBy(k)
<1>1. UNCHANGED <<log, store, broadcasting, signatures>> =>
        UNCHANGED <<log, store>> /\ \A k \in Key : SignedBy(k)' => SignedBy(k)
  BY DEF SignedBy
<1>2. \A e \in Entry :
        VisitEntry(e) => UNCHANGED <<log, store, broadcasting, signatures>>
  BY DEF VisitEntry, SkipEntry, CallFails
<1>3. IgnoreRequest \/ PanicOnLock \/ PanicOnRequest \/ UNCHANGED vars =>
        UNCHANGED <<log, store, broadcasting, signatures>>
  BY DEF IgnoreRequest, PanicOnLock, PanicOnRequest, Panics, vars, broadcastVars
<1>4. Crash => UNCHANGED <<log, store>> /\ \A k \in Key : SignedBy(k)' => SignedBy(k)
  BY DEF Crash, ResetBroadcast, SignedBy
<1> QED
  BY <1>1, <1>2, <1>3, <1>4, StepCases

LEMMA AmountsSteps == StreamerInv /\ AmountsInv /\ [Next]_vars => AmountsInv'
<1> SUFFICES ASSUME StreamerInv, AmountsInv, [Next]_vars PROVE AmountsInv'
  OBVIOUS
<1>1. CASE TokensLocked
  BY <1>1, LockedAmounts
<1>2. CASE RequestNewSignatures
  BY <1>2, ResignedAmounts
<1>3. CASE \E e \in Entry : \E reply : Answer(e, reply)
  BY <1>3, AnsweredAmounts
<1>4. CASE MergeAnswers
  BY <1>4, MergedAmounts
<1>5. CASE \E k \in Key : TransferCompleted(k)
  BY <1>5, CompletedAmounts
<1>6. CASE \E i \in 1..Len(log.events), peers \in SUBSET Submitters :
             SubmitSignature(i, peers)
  BY <1>6, SubmittedAmounts
<1>7. CASE UNCHANGED <<log, store>> /\ \A k \in Key : SignedBy(k)' => SignedBy(k)
  <2>1. ASSUME NEW k \in Key, store[k] # NoRecord
        PROVE  AmountInv(k)'
    BY <1>7, <2>1, AmountStays
  <2> QED
    BY <1>7, <2>1 DEF AmountsInv, AmountInv
<1> QED
  BY <1>1, <1>2, <1>3, <1>4, <1>5, <1>6, <1>7, SignatureCases

LEMMA AmountsStart == Init => AmountsInv
BY DEF Init, AmountsInv, AmountInv

\* Each validator's own lock handler signs the truncated amount of a wide lock
\* (Uint64() at ethereum_streamer.go:607), but no record gathers a signature of
\* another validator over an amount that was not locked: in answers and in
\* submissions the API parses the text.  Koinos amounts from 2^63 on are hashed
\* as others by everybody.
THEOREM GatheredAmounts == Spec => []GatheredAmountsWereLocked
<1>1. StreamerInv /\ AmountsInv => GatheredAmountsWereLocked
  BY DEF AmountsInv, AmountInv, SignedBy, AmountLocked, GatheredAmountsWereLocked
<1> QED
  BY <1>1, AmountsStart, AmountsSteps, StreamerKeepsInv, PTL DEF Spec

(***************************************************************************)
(* The texts that are signed.                                              *)
(***************************************************************************)

\* The hash is that of the text, or two of the key's locks have amounts that
\* are truncated to the same.
TextIs(k, t, h) ==
  \/ Verifies(log.chain, t, h)
  \/ /\ log.chain = "ethereum"
     /\ \E i, j \in LocksOf(k) :
          LET a == log.events[i].transfer.amount
              b == log.events[j].transfer.amount IN
            a # b /\ Uint64(a) = Uint64(b)

TextsInv ==
  \A k \in Key : store[k] # NoRecord /\ SignedBy(k) =>
    TextIs(k, store[k].transfer, store[k].hash)

\* A lock whose hash a peer has verified from another text is verified, too,
\* unless its amount is truncated to the other's.
LEMMA SameHashVerifies ==
  ASSUME NEW chain \in Chains, NEW t \in Transfer, NEW u \in Transfer, NEW h \in Hash,
         Verifies(chain, t, h), LockDecodes(chain, u),
         h = LockHash(chain, u, h.expiration)
  PROVE  \/ Verifies(chain, u, h)
         \/ /\ chain = "ethereum"
            /\ t.amount # u.amount /\ Uint64(t.amount) = Uint64(u.amount)
<1>1. /\ t.amount \in Nat /\ u.amount \in Nat /\ h.expiration \in Nat
      /\ IsUint64(t.amount)
  BY DEF Transfer, Hash, Verifies, SubmittedDecodes
<1>2. CASE chain = "ethereum"
  <2>1. IsBase58(u.supported)
    BY <1>2 DEF LockDecodes
  <2>2. CASE IsUint64(u.amount)
    <3>1. SubmittedDecodes("ethereum", u)
      BY <2>1, <2>2 DEF SubmittedDecodes
    <3> QED
      BY <1>1, <1>2, <3>1, EthereumPeersAgree
  <2>3. CASE ~IsUint64(u.amount)
    <3>1. h = HashOf(t, t.amount, "configured", h.expiration)
      BY <1>2 DEF Verifies, SubmittedHash, EthereumSubmittedHash
    <3>2. h = HashOf(u, Uint64(u.amount), "configured", h.expiration)
      BY <1>2 DEF LockHash, EthereumLockHash
    <3>3. h.amount = t.amount
      BY <3>1 DEF HashOf
    <3>4. h.amount = Uint64(u.amount)
      BY <3>2 DEF HashOf
    <3>5. Uint64(t.amount) = t.amount
      BY <1>1, HalfAssumption DEF IsUint64, Uint64, Word
    <3>6. t.amount # u.amount
      BY <1>1, <2>3
    <3> QED
      BY <1>2, <3>3, <3>4, <3>5, <3>6
  <2> QED
    BY <2>2, <2>3
<1>3. CASE chain = "koinos"
  <2>1. IsUint64(u.amount)
    BY <1>3 DEF LockDecodes
  <2>2. h = HashOf(t, PaddedBytes(t.amount),
                   IF t.supported THEN "configured" ELSE "empty", h.expiration)
    BY <1>3 DEF Verifies, SubmittedHash, KoinosSubmittedHash
  <2>3. h = HashOf(u, PaddedBytes(u.amount),
                   IF u.supported THEN "configured" ELSE "zero", h.expiration)
    BY <1>3 DEF LockHash, KoinosLockHash
  <2>4. h.token = (IF t.supported THEN "configured" ELSE "empty")
    BY <2>2 DEF HashOf
  <2>5. h.token = (IF u.supported THEN "configured" ELSE "zero")
    BY <2>3 DEF HashOf
  <2>6. u.supported
    BY <2>4, <2>5
  <2> QED
    BY <1>1, <1>3, <2>1, <2>6, KoinosPeersAgree
<1> QED
  BY <1>2, <1>3 DEF Chains

\* The same of two locks under one key.
LEMMA TextOfALock ==
  ASSUME TypeOK, NEW k \in Key, NEW i \in LocksOf(k), NEW j \in LocksOf(k),
         NEW h \in Hash, Verifies(log.chain, log.events[i].transfer, h),
         LockDecodes(log.chain, log.events[j].transfer),
         h = LockHash(log.chain, log.events[j].transfer, h.expiration)
  PROVE  TextIs(k, log.events[j].transfer, h)
<1>1. log.events[i].transfer \in Transfer /\ log.events[j].transfer \in Transfer
  BY LockTypes DEF LocksOf
<1>2. log.chain \in Chains
  BY ChainType
<1> QED
  BY <1>1, <1>2, SameHashVerifies DEF TextIs

\* A key whose record keeps transfer and hash, and gets no new signature.
LEMMA TextStays ==
  ASSUME TextsInv, UNCHANGED log, NEW k \in Key, store[k] # NoRecord,
         store'[k].transfer = store[k].transfer, store'[k].hash = store[k].hash,
         SignedBy(k)' => SignedBy(k), SignedBy(k)'
  PROVE  TextIs(k, store[k].transfer, store[k].hash)'
<1>1. TextIs(k, store[k].transfer, store[k].hash)
  BY DEF TextsInv
<1>2. LocksOf(k)' = LocksOf(k)
  BY DEF LocksOf
<1> QED
  BY <1>1, <1>2 DEF TextIs

LEMMA LockedTexts ==
  StreamerInv /\ AmountsInv /\ TextsInv /\ TokensLocked => TextsInv'
<1> SUFFICES ASSUME StreamerInv, AmountsInv, TextsInv, TokensLocked, NEW k \in Key,
                    store'[k] # NoRecord, SignedBy(k)'
             PROVE  TextIs(k, store[k].transfer, store[k].hash)'
  BY DEF TextsInv
<1> DEFINE j == KeyOf(NextEvent.transfer)
<1>1. /\ Reads("lock")
      /\ LockDecodes(log.chain, NextEvent.transfer)
      /\ ~HashMismatch(j)
      /\ UNCHANGED log
      /\ broadcasting' = j /\ signatures' = {}
  BY DEF TokensLocked, PutAndBroadcast, ResetBroadcast
<1>2. /\ j \in Key
      /\ store' = [store EXCEPT ![j] = LockedRecord(j)]
      /\ store'[j] = LockedRecord(j)
      /\ store'[j].hash = EventHash
  BY LocksMove
<1>3. CASE k # j
  <2>1. store'[k] = store[k]
    BY <1>2, <1>3 DEF StreamerInv, TransferInv, TypeOK
  <2>2. SignedBy(k)' => SignedBy(k)
    BY <1>1, <2>1 DEF SignedBy
  <2> QED
    BY <1>1, <2>1, <2>2, TextStays
<1>4. CASE k = j
  <2>1. store'[k].transfer = NextEvent.transfer /\ store'[k].hash = EventHash
    BY <1>2, <1>4 DEF LockedRecord
  <2>2. position + 1 \in LocksOf(k) /\ LocksOf(k)' = LocksOf(k)
    BY <1>1, <1>4, EventTypes
    DEF LocksOf, Reads, NextEvent, StreamerInv, TransferInv
  <2>3. store'[k].signers \ {Self} # {}
    BY <1>1 DEF SignedBy
  <2>4. store[k] # NoRecord /\ store[k].signers \ {Self} # {}
    BY <1>2, <1>4, <2>3 DEF LockedRecord
  <2>5. store[k].hash # Unknown
    BY <2>4 DEF StreamerInv, TransferInv, Records, Known
  <2>6. store[k].hash = EventHash
    BY <1>1, <1>4, <2>4, <2>5 DEF HashMismatch
  <2>7. TextIs(k, store[k].transfer, EventHash)
    BY <2>4, <2>6 DEF TextsInv, SignedBy
  <2>8. /\ store[k].transfer \in Transfer /\ EventHash \in Hash
        /\ store[k].transfer # Unknown
    BY <2>4, <2>5, <2>6, HashedRecord, SentinelsAssumption
    DEF StreamerInv, TransferInv, TypeOK, Records
  <2>9. PICK i \in LocksOf(k) : log.events[i].transfer = store[k].transfer
    BY <2>4, <2>8 DEF AmountsInv, AmountInv
  <2>10. EventHash = LockHash(log.chain, NextEvent.transfer, EventHash.expiration)
    <3>1. /\ log.chain \in Chains /\ NextEvent.transfer \in Transfer
          /\ NewExpiration \in Nat
      BY <1>1, EventTypes DEF Reads, StreamerInv, TransferInv
    <3>2. log.chain = "koinos" => IsUint64(NextEvent.transfer.amount)
      BY <1>1 DEF LockDecodes
    <3>3. EventHash.expiration = NewExpiration
      BY <3>1, <3>2, LockHashType DEF EventHash
    <3> QED
      BY <3>3 DEF EventHash
  <2>11. TextIs(k, NextEvent.transfer, EventHash)
    <3>1. CASE Verifies(log.chain, store[k].transfer, EventHash)
      BY <1>1, <2>2, <2>8, <2>9, <2>10, <3>1, TextOfALock
      DEF NextEvent, StreamerInv, TransferInv
    <3>2. CASE ~Verifies(log.chain, store[k].transfer, EventHash)
      BY <2>7, <3>2 DEF TextIs
    <3> QED
      BY <3>1, <3>2
  <2> QED
    BY <1>1, <2>1, <2>2, <2>11 DEF TextIs
<1> QED
  BY <1>3, <1>4

LEMMA ResignedTexts ==
  StreamerInv /\ TextsInv /\ RequestNewSignatures => TextsInv'
<1> SUFFICES ASSUME StreamerInv, TextsInv, RequestNewSignatures, NEW k \in Key,
                    store'[k] # NoRecord, SignedBy(k)'
             PROVE  TextIs(k, store[k].transfer, store[k].hash)'
  BY DEF TextsInv
<1>1. UNCHANGED log /\ signatures' = {}
  BY DEF RequestNewSignatures, PutAndBroadcast, ResetBroadcast
<1>2. PICK j \in Key :
        /\ store[j] # NoRecord
        /\ store' = [store EXCEPT ![j] = ResignedRecord(j)]
        /\ store'[j].signers = {Self}
  BY RequestsMove
<1>3. k # j
  BY <1>1, <1>2 DEF SignedBy
<1>4. store'[k] = store[k]
  BY <1>2, <1>3 DEF StreamerInv, TransferInv, TypeOK
<1>5. SignedBy(k)' => SignedBy(k)
  BY <1>1, <1>4 DEF SignedBy
<1> QED
  BY <1>1, <1>4, <1>5, TextStays

LEMMA AnsweredTexts ==
  ASSUME StreamerInv, TextsInv, NEW e \in Entry, NEW reply,
         Answer(e, reply)
  PROVE  TextsInv'
<1> SUFFICES ASSUME NEW k \in Key, store'[k] # NoRecord, SignedBy(k)'
             PROVE  TextIs(k, store[k].transfer, store[k].hash)'
  BY DEF TextsInv
<1>1. UNCHANGED <<log, store, broadcasting>> /\ broadcasting # Idle
  BY DEF Answer
<1>2. CASE reply = "signature" /\ k = broadcasting
  BY <1>1, <1>2 DEF Answer, TextIs
<1>3. CASE reply # "signature" \/ k # broadcasting
  <2>1. k # broadcasting \/ signatures' = signatures
    BY <1>3 DEF Answer, PeerAnswers
  <2>2. SignedBy(k)' => SignedBy(k)
    BY <1>1, <2>1 DEF SignedBy
  <2>3. store'[k] = store[k]
    BY <1>1
  <2> QED
    BY <1>1, <2>2, <2>3, TextStays
<1> QED
  BY <1>2, <1>3

LEMMA MergedTexts == StreamerInv /\ TextsInv /\ MergeAnswers => TextsInv'
<1> SUFFICES ASSUME StreamerInv, TextsInv, MergeAnswers, NEW k \in Key,
                    store'[k] # NoRecord, SignedBy(k)'
             PROVE  TextIs(k, store[k].transfer, store[k].hash)'
  BY DEF TextsInv
<1> DEFINE b == broadcasting
<1>1. UNCHANGED log /\ signatures' = {} /\ b # Idle
  BY DEF MergeAnswers, ResetBroadcast
<1>2. /\ store[b].hash = store'[b].hash
      /\ store'[b].signers = store[b].signers \cup signatures
      /\ \A j \in Key \ {b} : store'[j] = store[j]
  BY MergeKeepsInv DEF StreamerInv
<1>3. b \in Key /\ store[b] \in Record /\ store[b] # NoRecord
  BY <1>1, AnsweredRecord DEF StreamerInv, TransferInv, Broadcasts
<1>4. store'[b].transfer = store[b].transfer
  BY <1>3 DEF MergeAnswers, StreamerInv, TransferInv, TypeOK, Record
<1>5. SignedBy(k)' => SignedBy(k)
  BY <1>1, <1>2 DEF SignedBy
<1>6. /\ store[k] # NoRecord
      /\ store'[k].transfer = store[k].transfer /\ store'[k].hash = store[k].hash
  BY <1>2, <1>3, <1>4
<1> QED
  BY <1>1, <1>5, <1>6, TextStays

LEMMA CompletedTexts ==
  ASSUME StreamerInv, TextsInv, NEW c \in Key, TransferCompleted(c)
  PROVE  TextsInv'
<1> SUFFICES ASSUME NEW k \in Key, store'[k] # NoRecord, SignedBy(k)'
             PROVE  TextIs(k, store[k].transfer, store[k].hash)'
  BY DEF TextsInv
<1>1. UNCHANGED <<log, broadcasting, signatures>>
  BY DEF TransferCompleted, broadcastVars
<1>2. store[k] # NoRecord
  <2> SUFFICES ASSUME store[k] = NoRecord PROVE FALSE
    OBVIOUS
  <2>1. store'[k].signers = {}
    BY CompletedKeepsInv DEF StreamerInv
  <2>2. broadcasting # k
    BY SentinelsAssumption DEF StreamerInv, TransferInv, Broadcasts
  <2> QED
    BY <1>1, <2>1, <2>2 DEF SignedBy
<1>3. store'[k].hash = store[k].hash /\ store'[k].signers = store[k].signers
  BY <1>2, CompletedKeepsInv DEF StreamerInv
<1>4. store'[k].transfer = store[k].transfer
  BY <1>2 DEF TransferCompleted, StreamerInv, TransferInv, TypeOK, Record
<1>5. SignedBy(k)' => SignedBy(k)
  BY <1>1, <1>3 DEF SignedBy
<1> QED
  BY <1>1, <1>2, <1>3, <1>4, <1>5, TextStays

\* A submission is adopted with its own text, or merged into a record that has
\* the same hash, and maybe another text.
LEMMA SubmittedTexts ==
  ASSUME StreamerInv, AmountsInv, TextsInv, NEW i \in 1..Len(log.events),
         NEW peers \in SUBSET Submitters, SubmitSignature(i, peers)
  PROVE  TextsInv'
<1> DEFINE t == log.events[i].transfer
           j == KeyOf(t)
<1> SUFFICES ASSUME NEW k \in Key, store'[k] # NoRecord, SignedBy(k)'
             PROVE  TextIs(k, store[k].transfer, store[k].hash)'
  BY DEF TextsInv
<1>1. /\ UNCHANGED <<log, broadcasting, signatures>>
      /\ j \in Key /\ i \in LocksOf(j)
      /\ \A l \in Key \ {j} : store'[l] = store[l]
  BY SubmissionsMove DEF StreamerInv, broadcastVars
<1>2. PICK h \in HashesOf(i) :
        /\ store'[j].hash = h /\ h # Unknown
        /\ Verifies(log.chain, t, h)
        /\ \/ store[j] = NoRecord /\ store'[j].transfer = t
           \/ /\ store[j] # NoRecord /\ store[j].hash = h
              /\ store'[j].transfer = store[j].transfer
  BY SubmissionsMove DEF StreamerInv
<1>3. LocksOf(k)' = LocksOf(k)
  BY <1>1 DEF LocksOf
<1>4. CASE k # j
  <2>1. store'[k] = store[k]
    BY <1>1, <1>4
  <2>2. SignedBy(k)' => SignedBy(k)
    BY <1>1, <2>1 DEF SignedBy
  <2> QED
    BY <1>1, <2>1, <2>2, TextStays
<1>5. CASE k = j /\ store[j] = NoRecord
  <2>1. store'[k].transfer = t /\ store'[k].hash = h
    BY <1>2, <1>5
  <2> QED
    BY <1>1, <1>2, <2>1 DEF TextIs
<1>6. CASE k = j /\ store[j] # NoRecord
  <2>1. /\ store[k] \in Record /\ Known(store[k])
        /\ store[k].hash = h /\ store[k].hash # Unknown
        /\ store'[k].hash = h /\ store'[k].transfer = store[k].transfer
    BY <1>2, <1>6 DEF StreamerInv, TransferInv, TypeOK, Records
  <2>2. /\ store[k].transfer \in Transfer /\ h \in Hash
        /\ h = LockHash(log.chain, store[k].transfer, h.expiration)
        /\ LockDecodes(log.chain, store[k].transfer)
    BY <2>1, HashedRecord DEF StreamerInv, TransferInv
  <2>3. store[k].transfer # Unknown
    BY <2>2, SentinelsAssumption
  <2>4. PICK l \in LocksOf(k) : log.events[l].transfer = store[k].transfer
    BY <1>6, <2>3 DEF AmountsInv, AmountInv
  <2>5. TextIs(k, store[k].transfer, h)
    BY <1>1, <1>2, <1>6, <2>2, <2>4, TextOfALock DEF StreamerInv, TransferInv
  <2> QED
    BY <1>1, <1>3, <2>1, <2>5 DEF TextIs
<1> QED
  BY <1>4, <1>5, <1>6

LEMMA TextsSteps ==
  StreamerInv /\ AmountsInv /\ TextsInv /\ [Next]_vars => TextsInv'
<1> SUFFICES ASSUME StreamerInv, AmountsInv, TextsInv, [Next]_vars PROVE TextsInv'
  OBVIOUS
<1>1. CASE TokensLocked
  BY <1>1, LockedTexts
<1>2. CASE RequestNewSignatures
  BY <1>2, ResignedTexts
<1>3. CASE \E e \in Entry : \E reply : Answer(e, reply)
  BY <1>3, AnsweredTexts
<1>4. CASE MergeAnswers
  BY <1>4, MergedTexts
<1>5. CASE \E k \in Key : TransferCompleted(k)
  BY <1>5, CompletedTexts
<1>6. CASE \E i \in 1..Len(log.events), peers \in SUBSET Submitters :
             SubmitSignature(i, peers)
  BY <1>6, SubmittedTexts
<1>7. CASE UNCHANGED <<log, store>> /\ \A k \in Key : SignedBy(k)' => SignedBy(k)
  BY <1>7, TextStays DEF TextsInv
<1> QED
  BY <1>1, <1>2, <1>3, <1>4, <1>5, <1>6, <1>7, SignatureCases

LEMMA TextsStart == Init => TextsInv
BY DEF Init, TextsInv

\* Whatever the lock handler, the request handler, answers and submissions have
\* left in a record, the peers that get it verify it: its hash is computed from
\* the text beside it.  Only two locks in one Ethereum transaction, whose amounts
\* are truncated to the same, keep a hash whose text has been replaced
\* (ethereum_streamer.go:607, api.go:296-322).
THEOREM GatheredTexts == Spec => []GatheredTextsVerify
<1>1. StreamerInv /\ TextsInv => GatheredTextsVerify
  BY DEF TextsInv, TextIs, SignedBy, Verifies, GatheredTextsVerify
<1> QED
  BY <1>1, AmountsStart, AmountsSteps, TextsStart, TextsSteps, StreamerKeepsInv, PTL
  DEF Spec

(***************************************************************************)
(* The transfers that requests re-sign.                                    *)
(***************************************************************************)

\* A transaction has locked its tokens before anybody asks to re-sign it.
LocksComeFirst ==
  \A l \in Logs : \A i, j \in 1..Len(l.events) :
    /\ l.events[i].kind = "lock"
    /\ l.events[j].kind = "request"
    /\ l.events[i].transfer.tx = l.events[j].transfer.tx
    => i < j

\* Every lock behind the streamer has a record, for good.
HandledInv ==
  /\ \A i \in 1..Len(log.events) :
       i <= position /\ log.events[i].kind = "lock" =>
         store[KeyOf(log.events[i].transfer)] # NoRecord
  /\ broadcasting # Idle /\ NextEvent.kind = "lock" =>
       broadcasting = KeyOf(NextEvent.transfer)

LEMMA RecordsStay ==
  ASSUME StreamerInv, [Next]_vars, NEW k \in Key, store[k] # NoRecord
  PROVE  store'[k] # NoRecord
<1>1. CASE TokensLocked
  BY <1>1, LocksMove DEF StreamerInv, TransferInv, TypeOK
<1>2. CASE RequestNewSignatures
  BY <1>2, RequestsMove DEF StreamerInv, TransferInv, TypeOK
<1>3. CASE MergeAnswers
  BY <1>3, MergeKeepsInv DEF StreamerInv
<1>4. CASE \E j \in Key : TransferCompleted(j)
  BY <1>4, CompletedKeepsInv DEF StreamerInv
<1>5. ASSUME NEW i \in 1..Len(log.events), NEW peers \in SUBSET Submitters,
             SubmitSignature(i, peers)
      PROVE  store'[k] # NoRecord
  BY <1>5, SubmissionsMove DEF StreamerInv
<1>6. CASE UNCHANGED store
  BY <1>6
<1> QED
  BY <1>1, <1>2, <1>3, <1>4, <1>5, <1>6, StepCases, VisitIsALoopStep
  DEF IgnoreRequest, PanicOnLock, PanicOnRequest, Panics, Crash, vars

LEMMA HandledSteps == StreamerInv /\ HandledInv /\ [Next]_vars => HandledInv'
<1> SUFFICES ASSUME StreamerInv, HandledInv, [Next]_vars PROVE HandledInv'
  OBVIOUS
<1>1. UNCHANGED log
  BY LogStays
<1>2. /\ log.events \in Seq(Event)
      /\ position \in Nat
      /\ Len(log.events) \in Nat
  BY LogsAssumption DEF StreamerInv, TransferInv, TypeOK
<1>3. ASSUME NEW i \in 1..Len(log.events), i <= position,
             log.events[i].kind = "lock"
      PROVE  store'[KeyOf(log.events[i].transfer)] # NoRecord
  <2>1. log.events[i] \in Event
    BY <1>2
  <2>2. log.events[i].transfer \in Transfer
    BY <2>1 DEF Event
  <2>3. KeyOf(log.events[i].transfer) \in Key
    BY <2>2, KeyType
  <2> QED
    BY <1>3, <2>3, RecordsStay DEF HandledInv
\* The streamer stays at its event, or goes back.
<1>4. CASE position' <= position /\ position' \in Nat
             /\ (broadcasting' # Idle =>
                   position' = position /\
                   (NextEvent.kind = "lock" =>
                      broadcasting' = KeyOf(NextEvent.transfer)))
  BY <1>1, <1>2, <1>3, <1>4 DEF HandledInv, NextEvent
\* It goes on to the next one.
<1>5. CASE /\ position' = position + 1
           /\ broadcasting' = Idle
           /\ NextEvent.kind = "lock" =>
                store'[KeyOf(NextEvent.transfer)] # NoRecord
  BY <1>1, <1>2, <1>3, <1>5 DEF HandledInv, NextEvent
<1>6. CASE TokensLocked
  <2>1. position' = position /\ broadcasting' = KeyOf(NextEvent.transfer)
    BY <1>6 DEF TokensLocked, PutAndBroadcast
  <2> QED
    BY <1>2, <1>4, <2>1
<1>7. CASE RequestNewSignatures
  <2>1. position' = position /\ NextEvent.kind = "request"
    BY <1>7 DEF RequestNewSignatures, PutAndBroadcast, Reads
  <2> QED
    BY <1>2, <1>4, <2>1
<1>8. CASE IgnoreRequest
  <2>1. /\ position' = position + 1
        /\ broadcasting' = Idle
        /\ NextEvent.kind = "request"
    BY <1>8 DEF IgnoreRequest, Reads
  <2> QED
    BY <1>5, <2>1
<1>9. CASE PanicOnLock \/ PanicOnRequest
  <2>1. position' = 0 /\ broadcasting' = Idle
    BY <1>9 DEF PanicOnLock, PanicOnRequest, Panics, Reads
  <2> QED
    BY <1>2, <1>4, <2>1
<1>10. CASE MergeAnswers
  <2>1. position' = position + 1 /\ broadcasting' = Idle
    BY <1>10 DEF MergeAnswers
  <2>2. store'[broadcasting] # NoRecord /\ broadcasting # Idle
    BY <1>10, MergeKeepsInv DEF StreamerInv, MergeAnswers
  <2> QED
    BY <1>5, <2>1, <2>2 DEF HandledInv
<1>11. CASE Crash
  <2>1. position' = 0 /\ broadcasting' = Idle
    BY <1>11 DEF Crash
  <2> QED
    BY <1>2, <1>4, <2>1
<1>12. CASE UNCHANGED <<position, broadcasting>>
  BY <1>2, <1>4, <1>12 DEF HandledInv
<1> QED
  BY <1>6, <1>7, <1>8, <1>9, <1>10, <1>11, <1>12, StepCases, VisitIsALoopStep
  DEF TransferCompleted, SubmitSignature, vars

\* Where every lock comes before the requests for its transaction, a request for
\* operation 1 that finds no record is for none of its locks.
LEMMA MissingOperation ==
  ASSUME LocksComeFirst, StreamerInv, HandledInv, Reads("request"), NEW k \in Key,
         k.tx = NextEvent.transfer.tx, store[k] = NoRecord
  PROVE  LocksOf(k) = {} /\ k \notin LockedKeys
<1>1. /\ position + 1 \in 1..Len(log.events) /\ NextEvent.kind = "request"
      /\ position \in Nat /\ log \in Logs
  BY EventTypes DEF Reads, StreamerInv, TransferInv, TypeOK
<1>2. ASSUME NEW i \in LocksOf(k)
      PROVE  FALSE
  <2>1. /\ i \in 1..Len(log.events) /\ i \in Nat /\ log.events[i].kind = "lock"
        /\ KeyOf(log.events[i].transfer) = k
    BY DEF LocksOf
  <2>2. log.events[i].transfer.tx = NextEvent.transfer.tx
    BY <2>1 DEF KeyOf
  <2>3. i < position + 1
    BY <1>1, <2>1, <2>2 DEF LocksComeFirst, NextEvent
  <2>4. i <= position
    BY <1>1, <2>1, <2>3
  <2> QED
    BY <2>1, <2>4 DEF HandledInv
<1>3. LocksOf(k) = {}
  BY <1>2
<1> QED
  BY <1>3 DEF LockedKeys, LocksOf

\* If every lock comes before the requests for its transaction, a request never
\* re-signs operation 3 in the place of operation 1: by then the record of
\* operation 1 exists (koinos_streamer.go:216-227).
THEOREM RequestsHit == LocksComeFirst => (Spec => RequestsHitTheirTransfer)
<1> SUFFICES ASSUME LocksComeFirst PROVE Spec => RequestsHitTheirTransfer
  OBVIOUS
<1> DEFINE r == NextEvent.transfer
           Hit(k) ==
             /\ k.tx = r.tx
             /\ \/ k.op = r.op
                \/ r.op = 0 /\ k.op = 1
                \/ r.op \in {0, 1} /\ k.op = 3
                     /\ [tx |-> k.tx, op |-> 1] \notin LockedKeys
<1>1. Init => HandledInv
  BY LogsAssumption DEF Init, HandledInv
<1>2. ASSUME StreamerInv, HandledInv, [Next]_vars, NEW k \in Key,
             store[k] # NoRecord, store[k].hash # Unknown,
             store'[k].hash # store[k].hash
      PROVE  Hit(k)
  <2>1. CASE RequestNewSignatures
    <3> DEFINE one == [tx |-> r.tx, op |-> 1]
    <3>1. k = RequestedKey(r.tx, r.op)
      BY <1>2, <2>1, RequestsMove DEF StreamerInv, TransferInv, TypeOK
    <3>2. Reads("request") /\ r \in Transfer
      BY <1>2, <2>1, EventTypes
      DEF RequestNewSignatures, Reads, StreamerInv, TransferInv
    <3>3. one \in Key /\ one.tx = r.tx
      BY <3>2 DEF Transfer, Key, OpIds
    <3>4. CASE NamedKey(r.tx, r.op).op = 1
                 /\ store[NamedKey(r.tx, r.op)] = NoRecord
      <4>1. k = [tx |-> r.tx, op |-> 3]
        BY <3>1, <3>4 DEF RequestedKey
      <4>2. NamedKey(r.tx, r.op) = one /\ r.op \in {0, 1}
        BY <3>4 DEF NamedKey
      <4>3. one \notin LockedKeys
        BY <1>2, <3>2, <3>3, <3>4, <4>2, MissingOperation
      <4> QED
        BY <4>1, <4>2, <4>3
    <3>5. CASE ~(NamedKey(r.tx, r.op).op = 1
                   /\ store[NamedKey(r.tx, r.op)] = NoRecord)
      <4>1. k = NamedKey(r.tx, r.op)
        BY <3>1, <3>5 DEF RequestedKey
      <4> QED
        BY <4>1 DEF NamedKey
    <3> QED
      BY <3>4, <3>5
  <2>2. CASE TokensLocked
    <3>1. k # KeyOf(r) \/ store[k].hash = EventHash
      BY <1>2, <2>2 DEF TokensLocked, HashMismatch
    <3>2. store'[k].hash = store[k].hash
      BY <1>2, <2>2, <3>1, LocksMove DEF StreamerInv, TransferInv, TypeOK
    <3> QED
      BY <1>2, <3>2
  <2>3. CASE MergeAnswers
    BY <1>2, <2>3, MergeKeepsInv DEF StreamerInv
  <2>4. CASE \E j \in Key : TransferCompleted(j)
    BY <1>2, <2>4, CompletedKeepsInv DEF StreamerInv
  <2>5. ASSUME NEW i \in 1..Len(log.events), NEW peers \in SUBSET Submitters,
               SubmitSignature(i, peers)
        PROVE  FALSE
    BY <1>2, <2>5, SubmissionsMove DEF StreamerInv
  <2>6. CASE UNCHANGED store
    BY <1>2, <2>6
  <2> QED
    BY <1>2, <2>1, <2>2, <2>3, <2>4, <2>5, <2>6, StepCases, VisitIsALoopStep
    DEF IgnoreRequest, PanicOnLock, PanicOnRequest, Panics, Crash, vars
<1>3. StreamerInv /\ HandledInv /\ [Next]_vars =>
        [\A k \in Key :
           store[k] # NoRecord /\ store[k].hash # Unknown
             /\ store'[k].hash # store[k].hash => Hit(k)]_vars
  BY <1>2
<1> QED
  BY <1>1, <1>3, StreamerKeepsInv, HandledSteps, PTL
  DEF Spec, RequestsHitTheirTransfer

(***************************************************************************)
(* The reasons of panics.                                                  *)
(***************************************************************************)

\* A record is of one of its key's locks: its text is the lock's, and its hash
\* was made by a handler of the lock or of a request that re-signs it, here or
\* at a peer.
OriginInv ==
  \A k \in Key : store[k] # NoRecord /\ store[k].hash # Unknown =>
    \E m \in LocksOf(k) :
      /\ store[k].transfer = log.events[m].transfer
      /\ store[k].hash \in HashesOf(m)

ReasonsInv == OriginInv /\ PanicsAreExplained

\* Hashes that differ under one expiration rule differ without it.
LEMMA HashesDiffer ==
  ASSUME NEW chain \in Chains, NEW t \in Transfer, NEW u \in Transfer,
         NEW d \in Nat, NEW e \in Nat,
         LockHash(chain, t, d + SignaturesExpiration)
           # LockHash(chain, u, e + SignaturesExpiration)
  PROVE  LockHash(chain, t, d) # LockHash(chain, u, e)
<1> SUFFICES ASSUME LockHash(chain, t, d) = LockHash(chain, u, e) PROVE FALSE
  OBVIOUS
<1>1. d + SignaturesExpiration \in Nat /\ e + SignaturesExpiration \in Nat
  BY ExpirationAssumption
<1>2. LockHash(chain, t, d).expiration = d /\ LockHash(chain, u, e).expiration = e
  BY DEF LockHash, EthereumLockHash, KoinosLockHash, HashOf
<1>3. LockHash(chain, t, d + SignaturesExpiration)
        = [LockHash(chain, t, d) EXCEPT !.expiration = d + SignaturesExpiration]
  BY <1>1, LockHashMoves
<1>4. LockHash(chain, u, e + SignaturesExpiration)
        = [LockHash(chain, u, e) EXCEPT !.expiration = e + SignaturesExpiration]
  BY <1>1, LockHashMoves
<1>5. d = e
  BY <1>2
<1> QED
  BY <1>3, <1>4, <1>5

\* Why the lock at i may panic.
LockReason(i) ==
  \/ ~LockDecodes(log.chain, log.events[i].transfer)
  \/ Collides(i)
  \/ \E m \in LocksOf(KeyOf(log.events[i].transfer)), j \in 1..Len(log.events) :
       i < j /\ Resigns(m, j)

\* Why the request at i may panic.
RequestReason(i) ==
  \E k \in LockedKeys : \E j \in LocksOf(k) :
    /\ k.tx = log.events[i].transfer.tx
    /\ ~RecordDecodes(log.chain, log.events[j].transfer)

\* A reason stays one: it is in the log.
LEMMA ReasonsStay ==
  ASSUME PanicsAreExplained, UNCHANGED log,
         \A i \in panics' \ panics :
           \/ log.events[i].kind = "lock" /\ LockReason(i)
           \/ log.events[i].kind = "request" /\ RequestReason(i)
  PROVE  PanicsAreExplained'
<1>1. ASSUME NEW i \in panics'
      PROVE  \/ log.events[i].kind = "lock" /\ LockReason(i)
             \/ log.events[i].kind = "request" /\ RequestReason(i)
  BY <1>1 DEF PanicsAreExplained, LockReason, RequestReason
<1>2. /\ \A i : LockReason(i)' <=> LockReason(i)
      /\ \A i : RequestReason(i)' <=> RequestReason(i)
  BY DEF LockReason, RequestReason, Collides, LocksOf, LockedKeys, Resigns, NamedKey
<1>3. ASSUME NEW i \in panics'
      PROVE  \/ log'.events[i].kind = "lock" /\ LockReason(i)'
             \/ log'.events[i].kind = "request" /\ RequestReason(i)'
  BY <1>1, <1>2
<1> QED
  BY <1>3 DEF PanicsAreExplained, LockReason, RequestReason

LEMMA LockPanicsForAReason ==
  ASSUME LocksComeFirst, StreamerInv, OriginInv, PanicOnLock
  PROVE  NextEvent.kind = "lock" /\ LockReason(position + 1)
<1> DEFINE i == position + 1
           t == NextEvent.transfer
           k == KeyOf(t)
<1>1. TypeOK /\ Reads("lock")
  BY DEF StreamerInv, TransferInv, PanicOnLock
<1>2. /\ log.chain \in Chains
      /\ i \in 1..Len(log.events)
      /\ t \in Transfer
      /\ NextEvent.time \in Nat
  BY <1>1, EventTypes DEF Reads, Event
<1>3. k \in Key /\ i \in LocksOf(k) /\ t = log.events[i].transfer
  BY <1>1, <1>2, KeyType DEF LocksOf, NextEvent, Reads
<1> SUFFICES ASSUME LockDecodes(log.chain, t)
             PROVE  \/ Collides(i)
                    \/ \E m \in LocksOf(k), j \in 1..Len(log.events) :
                         i < j /\ Resigns(m, j)
  BY <1>1, <1>3 DEF Reads, LockReason
<1>4. /\ store[k] # NoRecord /\ store[k].hash # Unknown
      /\ store[k].hash # EventHash
  BY DEF PanicOnLock, HashMismatch
<1>5. PICK m \in LocksOf(k) : store[k].hash \in HashesOf(m)
  BY <1>3, <1>4 DEF OriginInv
<1>6. /\ m \in 1..Len(log.events)
      /\ log.events[m].transfer \in Transfer
      /\ log.events[m].time \in Nat
  BY <1>1, LockTypes DEF LocksOf
<1>7. CASE store[k].hash = LockHash(log.chain, log.events[m].transfer,
                                    log.events[m].time + SignaturesExpiration)
  <2>1. LockHash(log.chain, log.events[m].transfer,
                 log.events[m].time + SignaturesExpiration)
          # LockHash(log.chain, t, NextEvent.time + SignaturesExpiration)
    BY <1>4, <1>7 DEF EventHash, NewExpiration
  <2> QED
    BY <1>2, <1>3, <1>5, <1>6, <2>1, HashesDiffer DEF Collides, NextEvent
<1>8. CASE \E j \in 1..Len(log.events) : Resigns(m, j)
  <2>1. PICK j \in 1..Len(log.events) : Resigns(m, j)
    BY <1>8
  <2>2. /\ log.events[j].kind = "request"
        /\ log.events[m].transfer.tx = log.events[j].transfer.tx
    BY <2>1 DEF Resigns
  <2>3. t.tx = log.events[m].transfer.tx
    BY <1>5 DEF LocksOf, KeyOf
  <2>4. log \in Logs /\ log.events[i].kind = "lock"
    BY <1>1, <1>3 DEF TypeOK, LocksOf
  <2>5. i < j
    BY <1>2, <1>3, <2>2, <2>3, <2>4 DEF LocksComeFirst
  <2> QED
    BY <2>1, <2>5
<1> QED
  BY <1>5, <1>7, <1>8 DEF HashesOf

\* A record that may be re-signed is that of one of the key's locks.
LEMMA RequestPanicsForAReason ==
  ASSUME StreamerInv, AmountsInv, PanicOnRequest
  PROVE  NextEvent.kind = "request" /\ RequestReason(position + 1)
<1> DEFINE r == NextEvent.transfer
           k == RequestedKey(r.tx, r.op)
<1>1. /\ Reads("request")
      /\ RequestAllowed(k)
      /\ ~RecordDecodes(log.chain, store[k].transfer)
  BY DEF PanicOnRequest
<1>2. k \in Key
  BY <1>1, EventTypes, RequestedKeyType
  DEF StreamerInv, TransferInv, Reads, Transfer
<1>3. store[k] # NoRecord /\ store[k].transfer # Unknown
  <2>1. store[k] \in Record /\ Known(store[k]) /\ ~store[k].completed
    BY <1>1, <1>2 DEF StreamerInv, TransferInv, TypeOK, Records, RequestAllowed
  <2>2. store[k].transfer \in Transfer
    BY <2>1 DEF Known
  <2> QED
    BY <1>1, <2>2, SentinelsAssumption DEF RequestAllowed
<1>4. PICK j \in LocksOf(k) : log.events[j].transfer = store[k].transfer
  BY <1>2, <1>3 DEF AmountsInv, AmountInv
<1>5. k \in LockedKeys
  BY <1>4 DEF LocksOf, LockedKeys
<1>6. k.tx = r.tx
  BY DEF RequestedKey, NamedKey
<1> QED
  BY <1>1, <1>4, <1>5, <1>6 DEF Reads, RequestReason, NextEvent

\* A record that keeps its text and its hash keeps its origin.
LEMMA OriginStays ==
  ASSUME OriginInv, UNCHANGED log, NEW k \in Key, store[k] # NoRecord,
         store[k].hash # Unknown, store'[k].transfer = store[k].transfer,
         store'[k].hash = store[k].hash
  PROVE  \E m \in LocksOf(k) :
           /\ store'[k].transfer = log.events[m].transfer
           /\ store'[k].hash \in HashesOf(m)
BY DEF OriginInv

\* A request that re-signs a record is one that re-signs its lock.
LEMMA RequestsResign ==
  ASSUME LocksComeFirst, StreamerInv, HandledInv, RequestNewSignatures,
         NEW k \in Key, k = RequestedKey(NextEvent.transfer.tx, NextEvent.transfer.op),
         NEW m \in LocksOf(k), store[k].transfer = log.events[m].transfer,
         store[k].hash \in HashesOf(m)
  PROVE  Resigns(m, position + 1)
<1> DEFINE j == position + 1
           t == log.events[m].transfer
           r == NextEvent.transfer
           named == NamedKey(r.tx, r.op)
<1>1. /\ Reads("request")
      /\ RequestAllowed(k)
      /\ RecordDecodes(log.chain, t)
  BY DEF RequestNewSignatures
<1>2. /\ j \in 1..Len(log.events) /\ position \in Nat /\ log \in Logs
      /\ NextEvent \in Event /\ r \in Transfer /\ NextEvent.kind = "request"
      /\ NextEvent = log.events[j] /\ log.chain \in Chains
  BY <1>1, EventTypes DEF Reads, StreamerInv, TransferInv, TypeOK, NextEvent
<1>3. /\ m \in 1..Len(log.events) /\ log.events[m].kind = "lock"
      /\ t.tx = k.tx /\ t.op = k.op
  BY DEF LocksOf, KeyOf
<1>4. k.tx = r.tx
  BY DEF RequestedKey, NamedKey
<1>5. m < j
  BY <1>2, <1>3, <1>4 DEF LocksComeFirst
<1>6. t.op = named.op \/ (t.op = 3 /\ named.op = 1 /\ LocksOf(named) = {})
  <2>1. CASE named.op = 1 /\ store[named] = NoRecord
    <3>1. named \in Key /\ named.tx = r.tx
      BY <1>2 DEF NamedKey, Key, Transfer, OpIds
    <3>2. LocksOf(named) = {}
      BY <1>1, <2>1, <3>1, MissingOperation
    <3>3. k.op = 3
      BY <2>1 DEF RequestedKey
    <3> QED
      BY <1>3, <2>1, <3>2, <3>3
  <2>2. CASE ~(named.op = 1 /\ store[named] = NoRecord)
    BY <1>3, <2>2 DEF RequestedKey
  <2> QED
    BY <2>1, <2>2
<1>7. log.events[j].time >= log.events[m].time + 2 * SignaturesExpiration
  <2>1. store[k].hash # Unknown /\ store[k] \in Record /\ Known(store[k])
    BY <1>1, ResignedRecordTypes
    DEF StreamerInv, TransferInv, TypeOK, Records
  <2>2. LockDecodes(log.chain, t)
    BY <2>1, HashedRecord DEF StreamerInv, TransferInv
  <2>3. /\ store[k].hash.expiration >= log.events[m].time + SignaturesExpiration
        /\ store[k].hash.expiration \in Nat
    BY <1>3, <2>1, <2>2, HandlersHash, HashedRecord DEF StreamerInv, TransferInv
  <2>4. NextEvent.time >= store[k].hash.expiration + SignaturesExpiration
    BY <1>1 DEF RequestAllowed
  <2>5. NextEvent.time \in Nat /\ log.events[m].time \in Nat
    BY <1>2, <1>3, LockTypes DEF Event, StreamerInv, TransferInv
  <2>6. \A a, e, b \in Nat :
          e >= a + SignaturesExpiration /\ b >= e + SignaturesExpiration =>
            b >= a + 2 * SignaturesExpiration
    BY ExpirationAssumption
  <2> QED
    BY <1>2, <2>3, <2>4, <2>5, <2>6
<1>8. /\ log.events[j].kind = "request"
      /\ t.tx = log.events[j].transfer.tx
  BY <1>2, <1>3, <1>4
<1>9. LET given == log.events[j].transfer
          meant == NamedKey(given.tx, given.op) IN
        \/ t.op = meant.op
        \/ t.op = 3 /\ meant.op = 1 /\ \A l \in LocksOf(meant) : l > j
  BY <1>2, <1>6
<1> QED
  BY <1>1, <1>5, <1>7, <1>8, <1>9 DEF Resigns

LEMMA OriginSteps ==
  ASSUME LocksComeFirst, StreamerInv, HandledInv, OriginInv, [Next]_vars
  PROVE  OriginInv'
<1> DEFINE Origin(k, m) ==
      /\ store'[k].transfer = log.events[m].transfer
      /\ store'[k].hash \in HashesOf(m)
<1>1. UNCHANGED log
  BY LogStays
<1>2. /\ \A k : LocksOf(k)' = LocksOf(k)
      /\ \A m : HashesOf(m)' = HashesOf(m)
  BY <1>1 DEF LocksOf, HashesOf, Resigns, NamedKey
<1> SUFFICES ASSUME NEW k \in Key, store'[k] # NoRecord, store'[k].hash # Unknown
             PROVE  \E m \in LocksOf(k) : Origin(k, m)
  BY <1>1, <1>2 DEF OriginInv
<1> USE DEF StreamerInv, TransferInv, TypeOK
<1>3. CASE store[k] # NoRecord /\ store[k].hash # Unknown
             /\ store'[k].transfer = store[k].transfer
             /\ store'[k].hash = store[k].hash
  BY <1>1, <1>3, OriginStays
<1>4. CASE TokensLocked
  <2>1. CASE k = KeyOf(NextEvent.transfer)
    <3>1. store'[k] = LockedRecord(k) /\ store'[k].hash = EventHash
      BY <1>4, <2>1, LocksMove
    <3>2. store'[k].transfer = NextEvent.transfer
      BY <3>1 DEF LockedRecord
    <3>3. position + 1 \in LocksOf(k)
      BY <1>4, <2>1, EventTypes DEF TokensLocked, Reads, LocksOf, NextEvent
    <3>4. EventHash \in HashesOf(position + 1)
      BY DEF HashesOf, EventHash, NewExpiration, NextEvent
    <3> QED
      BY <3>1, <3>2, <3>3, <3>4 DEF NextEvent
  <2>2. CASE k # KeyOf(NextEvent.transfer)
    BY <1>3, <1>4, <2>2, LocksMove
  <2> QED
    BY <2>1, <2>2
<1>5. CASE RequestNewSignatures
  <2> DEFINE r == NextEvent.transfer
  <2>1. CASE k # RequestedKey(r.tx, r.op)
    BY <1>3, <1>5, <2>1, RequestsMove
  <2>2. CASE k = RequestedKey(r.tx, r.op)
    <3>1. /\ store[k] # NoRecord /\ store[k].hash # Unknown
          /\ store'[k] = ResignedRecord(k)
      BY <1>5, <2>2, RequestsMove
    <3>2. PICK m \in LocksOf(k) :
            /\ store[k].transfer = log.events[m].transfer
            /\ store[k].hash \in HashesOf(m)
      BY <3>1 DEF OriginInv
    <3>3. Resigns(m, position + 1)
      BY <1>5, <2>2, <3>2, RequestsResign
    <3>4. position + 1 \in 1..Len(log.events)
      BY <1>5, EventTypes DEF RequestNewSignatures, Reads
    <3>5. /\ store'[k].transfer = store[k].transfer
          /\ store'[k].hash =
               RecordHash(log.chain, store[k].transfer, NewExpiration)
      BY <3>1 DEF ResignedRecord, Record
    <3>6. store'[k].hash \in HashesOf(m)
      BY <3>2, <3>3, <3>4, <3>5 DEF HashesOf, NewExpiration, NextEvent
    <3> QED
      BY <3>2, <3>5, <3>6
  <2> QED
    BY <2>1, <2>2
<1>6. CASE MergeAnswers
  <2>1. store[k] # NoRecord /\ store'[k].hash = store[k].hash
    BY <1>6, MergeKeepsInv, AnsweredRecord, SentinelsAssumption DEF MergeAnswers
  <2>2. store'[k].transfer = store[k].transfer
    BY <1>6, <2>1 DEF MergeAnswers, Record
  <2> QED
    BY <1>3, <2>1, <2>2
<1>7. CASE \E j \in Key : TransferCompleted(j)
  <2>1. /\ store[k] # NoRecord /\ store'[k].hash = store[k].hash
        /\ store'[k].transfer = store[k].transfer
    BY <1>7 DEF TransferCompleted, Record
  <2> QED
    BY <1>3, <2>1
<1>8. ASSUME NEW i \in 1..Len(log.events), NEW peers \in SUBSET Submitters,
             SubmitSignature(i, peers)
      PROVE  \E m \in LocksOf(k) : Origin(k, m)
  <2> DEFINE t == log.events[i].transfer
  <2>1. CASE k # KeyOf(t)
    BY <1>3, <1>8, <2>1, SubmissionsMove
  <2>2. CASE k = KeyOf(t) /\ store[k] # NoRecord
    BY <1>3, <1>8, <2>2, SubmissionsMove
  <2>3. CASE k = KeyOf(t) /\ store[k] = NoRecord
    BY <1>8, <2>3, SubmissionsMove
  <2> QED
    BY <2>1, <2>2, <2>3
<1>9. CASE UNCHANGED store
  BY <1>3, <1>9
<1> QED
  BY <1>4, <1>5, <1>6, <1>7, <1>8, <1>9, StepCases, VisitIsALoopStep
  DEF IgnoreRequest, PanicOnLock, PanicOnRequest, Panics, Crash, vars

LEMMA ReasonsSteps ==
  ASSUME LocksComeFirst, StreamerInv, AmountsInv, ReasonsInv, [Next]_vars
  PROVE  PanicsAreExplained'
<1>1. UNCHANGED log
  BY LogStays
<1>2. CASE PanicOnLock
  <2>1. panics' = panics \cup {position + 1}
    BY <1>2 DEF PanicOnLock, Panics
  <2> QED
    BY <1>1, <1>2, <2>1, LockPanicsForAReason, ReasonsStay
    DEF ReasonsInv, NextEvent
<1>3. CASE PanicOnRequest
  <2>1. panics' = panics \cup {position + 1}
    BY <1>3 DEF PanicOnRequest, Panics
  <2> QED
    BY <1>1, <1>3, <2>1, RequestPanicsForAReason, ReasonsStay
    DEF ReasonsInv, NextEvent
<1>4. CASE UNCHANGED panics
  BY <1>1, <1>4, ReasonsStay DEF ReasonsInv
<1> QED
  BY <1>2, <1>3, <1>4, StepCases, VisitIsALoopStep
  DEF TokensLocked, RequestNewSignatures, PutAndBroadcast, IgnoreRequest,
      MergeAnswers, Crash, TransferCompleted, SubmitSignature, vars

\* If every lock comes before the requests for its transaction, a handler
\* panics for the reasons of the log alone, whatever re-signing, submissions,
\* crashes and replays have left in the store: a lock's hash differs from its
\* record's only where two locks share a key, or where the log goes on with a
\* request that re-signs the key's transfer, before a restart or at a peer
\* (ethereum_streamer.go:683-686, koinos_streamer.go:468-471, api.go:409).
THEOREM PanicsExplained == LocksComeFirst => (Spec => []PanicsAreExplained)
<1> SUFFICES ASSUME LocksComeFirst PROVE Spec => []PanicsAreExplained
  OBVIOUS
<1>1. Init => ReasonsInv /\ HandledInv
  BY LogsAssumption DEF Init, ReasonsInv, OriginInv, PanicsAreExplained, HandledInv
<1>2. StreamerInv /\ AmountsInv /\ HandledInv /\ ReasonsInv /\ [Next]_vars =>
        ReasonsInv'
  BY OriginSteps, ReasonsSteps DEF ReasonsInv
<1>3. ReasonsInv => PanicsAreExplained
  BY DEF ReasonsInv
<1> QED
  BY <1>1, <1>2, <1>3, AmountsStart, AmountsSteps, HandledSteps, StreamerKeepsInv, PTL
  DEF Spec
=============================================================================
