--------------------------- MODULE BlockStreaming ---------------------------
(***************************************************************************)
(* What a block streamer promises to the handlers of the events.  Only     *)
(* final events are handled.  In one run of the process they are handled   *)
(* in order, each once and none left out.  A later run may begin with any  *)
(* event that follows handled ones: an event is handled at least once and  *)
(* never overtaken by one that comes after it.                             *)
(***************************************************************************)
EXTENDS ChainEvents

VARIABLES
  final,     \* the events in blocks that the chain will not revert
  handled,   \* the events handled so far, in this run or an earlier one
  last       \* the last event handled in this run, 0 if there is none

Init == final = {} /\ handled = {} /\ last = 0

Finalize ==
  /\ final' \in SUBSET Events
  /\ final \subseteq final'
  /\ UNCHANGED <<handled, last>>

Handle(e) ==
  /\ e \in final
  /\ IF last = 0 THEN 1..(e - 1) \subseteq handled ELSE e = last + 1
  /\ handled' = handled \cup {e}
  /\ last' = e
  /\ UNCHANGED final

Restart == last' = 0 /\ UNCHANGED <<final, handled>>

Next == Finalize \/ (\E e \in Events : Handle(e)) \/ Restart

Spec == Init /\ [][Next]_<<final, handled, last>>

=============================================================================
