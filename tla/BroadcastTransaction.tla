------------------------- MODULE BroadcastTransaction -------------------------
(***************************************************************************)
(* The loop that posts one record to every peer and gathers the signatures *)
(* they answer with.                                                       *)
(*                                                                         *)
(* The loop ranges over the validators map, in which every validator is    *)
(* listed under two keys.  The signed body expires a fixed time after it   *)
(* was made, before the first call; calls are made one after the other and *)
(* each may take up to the client's timeout.  The clocks of the validators *)
(* agree.                                                                  *)
(***************************************************************************)
EXTENDS Naturals, FiniteSets, Sequences

CONSTANTS
  Validators,     \* the validators of the bridge
  Self,           \* the validator whose broadcast this is
  ClientTimeout,  \* after which a call is given up
  Validity,       \* of a body, from the start of the broadcast
  Latency         \* bound on the duration of a call that is answered

ASSUME PeersAssumption == IsFiniteSet(Validators) /\ Self \in Validators

ASSUME TimesAssumption ==
  /\ ClientTimeout \in Nat
  /\ Validity \in Nat
  /\ Latency \in 0..ClientTimeout

\* The validators map: each is listed by its Ethereum and its Koinos address.
Entry == [validator : Validators, address : {"ethereum", "koinos"}]

VARIABLES
  unvisited,         \* the entries that the loop has still to visit
  processedApiUrls,  \* the peers that have answered, with whatever status
  signatures,        \* the peers that have answered with a signature
  calls,             \* calls[w]: how the calls made to w have ended, in order
  expired,           \* the peers that found the body expired
  elapsed            \* the time since the body was made

broadcastVars ==
  <<unvisited, processedApiUrls, signatures, calls, expired, elapsed>>

\* A call fails, in time or not, or is answered with whatever status.
Outcome == {"failed", "answered"}

BroadcastTypeOK ==
  /\ unvisited \subseteq Entry
  /\ processedApiUrls \subseteq Validators
  /\ signatures \subseteq processedApiUrls
  /\ calls \in [Validators -> Seq(Outcome)]
  /\ expired \subseteq processedApiUrls
  /\ elapsed \in Nat

\* The loop has not begun.
NoCallYet ==
  /\ unvisited = Entry
  /\ processedApiUrls = {}
  /\ signatures = {}
  /\ calls = [w \in Validators |-> <<>>]
  /\ expired = {}
  /\ elapsed = 0

\* Mutant of ResetBroadcast: the next broadcast begins with the signatures of
\* this one.
ResetKeepsSignatures ==
  /\ unvisited' = Entry
  /\ processedApiUrls' = {}
  /\ calls' = [w \in Validators |-> <<>>]
  /\ expired' = {}
  /\ elapsed' = 0
  /\ UNCHANGED signatures

\* A broadcast begins with fresh variables, and they are gone when it ends.
ResetBroadcast ==
  /\ unvisited' = Entry
  /\ processedApiUrls' = {}
  /\ signatures' = {}
  /\ calls' = [w \in Validators |-> <<>>]
  /\ expired' = {}
  /\ elapsed' = 0

\* Mutant of Skips: nothing tells that a peer has answered.
SkipsSelfOnly(e) == e.validator = Self

\* The entry is of the validator itself, or of a peer that has answered.
Skips(e) == e.validator = Self \/ e.validator \in processedApiUrls

\* Mutant of SkipEntry: the loop does not go on.
SkipEntryForever(e) ==
  /\ e \in unvisited
  /\ Skips(e)
  /\ UNCHANGED broadcastVars

SkipEntry(e) ==
  /\ e \in unvisited
  /\ Skips(e)
  /\ unvisited' = unvisited \ {e}
  /\ UNCHANGED <<processedApiUrls, signatures, calls, expired, elapsed>>

\* The peer answers; it refuses the body without looking at the record when
\* the body has expired.
PeerAnswers(e, reply) ==
  /\ e \in unvisited
  /\ ~Skips(e)
  /\ \E latency \in 0..Latency : elapsed' = elapsed + latency
  /\ reply = "expired" <=> elapsed' > Validity
  /\ unvisited' = unvisited \ {e}
  /\ processedApiUrls' = processedApiUrls \cup {e.validator}
  /\ signatures' =
       IF reply = "signature" THEN signatures \cup {e.validator} ELSE signatures
  /\ expired' = IF reply = "expired" THEN expired \cup {e.validator} ELSE expired
  /\ calls' = [calls EXCEPT ![e.validator] = Append(@, "answered")]

\* Mutant of CallFails: the client waits as long as the body is valid.
CallFailsLate(e) ==
  /\ e \in unvisited
  /\ ~Skips(e)
  /\ elapsed' = elapsed + Validity + 1
  /\ unvisited' = unvisited \ {e}
  /\ calls' = [calls EXCEPT ![e.validator] = Append(@, "failed")]
  /\ UNCHANGED <<processedApiUrls, signatures, expired>>

\* No answer comes: the peer may have handled the request nevertheless.
CallFails(e) ==
  /\ e \in unvisited
  /\ ~Skips(e)
  /\ \E wait \in 0..ClientTimeout : elapsed' = elapsed + wait
  /\ unvisited' = unvisited \ {e}
  /\ calls' = [calls EXCEPT ![e.validator] = Append(@, "failed")]
  /\ UNCHANGED <<processedApiUrls, signatures, expired>>

-----------------------------------------------------------------------------
\* The n-th call to w has failed.
FailedCalls ==
  {c \in Validators \X {1, 2} :
     c[2] \in 1..Len(calls[c[1]]) /\ calls[c[1]][c[2]] = "failed"}

\* A peer finds the body expired only after calls that have used up its
\* validity.  Where a round of prompt answers fits into it, one of them has
\* failed; one peer that does not answer is enough, as it is called twice.
ExpiresOnlyAfterFailures ==
  expired # {} =>
    /\ ClientTimeout * Cardinality(FailedCalls)
         + Latency * Cardinality(processedApiUrls) > Validity
    /\ Latency * (Cardinality(Validators) - 1) <= Validity => FailedCalls # {}

\* A call that fails is made again through the peer's other entry, and a call
\* that is answered, with whatever status, never is: an answer is the last of a
\* peer's calls, and when the loop has left a peer behind without one, the peer
\* has failed to answer twice.
PeersAreTriedTwice ==
  \A w \in Validators \ {Self} :
    \/ calls[w] \in {<<"answered">>, <<"failed", "answered">>,
                     <<"failed", "failed">>}
    \/ /\ calls[w] \in {<<>>, <<"failed">>}
       /\ \E e \in unvisited : e.validator = w
=============================================================================
