---------------------------- MODULE ChainEvents ----------------------------
(***************************************************************************)
(* The bridge contract's events on one chain, numbered in the order of the *)
(* chain: by block, then by position in the block.  They are those at or   *)
(* after the block the validator starts from.                              *)
(***************************************************************************)
EXTENDS Naturals

CONSTANTS
  NumEvents,    \* how many events the chain will ever emit
  BlockOf,      \* BlockOf[e]: the height of the block of event e
  BlockStart    \* the block-start option: 0, or the block to start from

Events == 1..NumEvents

ASSUME EventsAssumption ==
  /\ NumEvents \in Nat
  /\ BlockOf \in [Events -> Nat \ {0}]
  /\ \A e, f \in Events : e < f => BlockOf[e] <= BlockOf[f]
  /\ BlockStart \in Nat
  /\ \A e \in Events : BlockOf[e] >= BlockStart

\* The events of the blocks lo to hi.
EventsBetween(lo, hi) == {e \in Events : BlockOf[e] \in lo..hi}
=============================================================================
