--------------------- MODULE StreamEthereumBlocksProofs ---------------------
(***************************************************************************)
(* The Ethereum streamer keeps the promise of a block streamer, for every  *)
(* chain, option and number of restarts.                                   *)
(***************************************************************************)
EXTENDS StreamEthereumBlocks, TLAPS

\* The events that the cursor of this run has passed: those of the blocks before
\* it or, in the middle of a batch, those of the range that are not in the rest.
Passed ==
  IF logs = {} THEN {e \in Events : BlockOf[e] < fromBlock}
  ELSE {e \in Events : BlockOf[e] <= toBlock} \ logs

\* They are handled, they are the first ones, and the last is the last handled.
PassedInv ==
  running =>
    /\ Passed \subseteq handled
    /\ \A e \in Passed, f \in Events : f < e => f \in Passed
    /\ last # 0 => last \in Passed /\ \A e \in Passed : e <= last

\* A batch consists of final events of its range; between two batches the last
\* parsed block is behind the cursor.
BatchInv ==
  /\ ~running => logs = {}
  /\ \A e \in logs : BlockOf[e] <= toBlock /\ e \in FinalEvents
  /\ running /\ logs = {} => lastEthereumBlockParsed < fromBlock

StreamInv == TypeOK /\ PassedInv /\ BatchInv /\ SavedIsHandled

-----------------------------------------------------------------------------
\* The end of the next range lies between the cursor and the last confirmed
\* block.
LEMMA ToBlockFacts ==
  ASSUME TypeOK
  PROVE  /\ LatestBlock \in Nat
         /\ ToBlock \in Nat
         /\ fromBlock <= ToBlock
         /\ \A b \in Nat : b <= LatestBlock /\ b > 0 =>
              b + EthConfirmations <= blockNumber
BY EthereumOptionsAssumption DEF TypeOK, LatestBlock, BlockDelta, ToBlock

LEMMA InitStreamInv == Init => StreamInv
<1> SUFFICES ASSUME Init PROVE StreamInv
  OBVIOUS
<1> USE EventsAssumption DEF Init
<1>1. TypeOK
  <2>1. 0 \in 0..MaxHeight /\ 0 \in 0..MaxRestarts
    BY EthereumOptionsAssumption
  <2>2. fromBlock \in Nat \ {0} /\ metadata \in Nat /\ toBlock \in Nat
    OBVIOUS
  <2>3. /\ logs \subseteq Events /\ handled \subseteq Events
        /\ last \in Events \cup {0} /\ running \in BOOLEAN
    BY ZenonT(20)
  <2> QED
    BY <2>1, <2>2, <2>3 DEF TypeOK
<1>2. PassedInv /\ BatchInv
  BY DEF PassedInv, BatchInv
<1>3. SavedIsHandled
  BY DEF SavedIsHandled
<1> QED
  BY <1>1, <1>2, <1>3 DEF StreamInv

LEMMA TypeStep == StreamInv /\ [Next]_vars => TypeOK'
<1> SUFFICES ASSUME StreamInv, [Next]_vars PROVE TypeOK'
  OBVIOUS
<1> USE EthereumOptionsAssumption, EventsAssumption DEF StreamInv, TypeOK
<1>1. CASE NewBlock
  BY <1>1 DEF NewBlock
<1>2. CASE Start
  BY <1>2 DEF Start
<1>3. CASE FetchLogs
  BY <1>3, ToBlockFacts DEF FetchLogs, EventsBetween
<1>4. CASE FetchNoLogs
  BY <1>4, ToBlockFacts DEF FetchNoLogs
<1>5. ASSUME NEW e \in Events, HandleLog(e) PROVE TypeOK'
  <2>1. BlockOf[e] \in Nat /\ BlockOf[e] + 1 \in Nat \ {0}
    OBVIOUS
  <2>2. fromBlock' \in Nat \ {0}
    BY <1>5, <2>1 DEF HandleLog
  <2> QED
    BY <1>5, <2>1, <2>2 DEF HandleLog
<1>6. restarts < MaxRestarts => restarts + 1 \in 0..MaxRestarts
  OBVIOUS
<1>7. CASE Stop
  BY <1>6, <1>7 DEF Stop
<1>8. CASE Crash
  BY <1>6, <1>8 DEF Crash
<1>9. CASE WaitForBlock \/ UNCHANGED vars
  BY <1>9 DEF WaitForBlock, vars
<1> QED
  BY <1>1, <1>2, <1>3, <1>4, <1>5, <1>7, <1>8, <1>9 DEF Next

\* The log that is handled next is the first event not passed yet, and passing
\* it is all that the step does to Passed.
LEMMA HandleLogPasses ==
  ASSUME StreamInv, NEW e \in Events, HandleLog(e)
  PROVE  /\ Passed' = Passed \cup {e}
         /\ e \notin Passed
         /\ \A f \in Events : f < e <=> f \in Passed
<1> USE EventsAssumption DEF StreamInv, HandleLog
<1>1. /\ logs # {} /\ running /\ e \in logs
      /\ Passed = {f \in Events : BlockOf[f] <= toBlock} \ logs
      /\ BlockOf[e] <= toBlock
  BY DEF Passed, BatchInv
<1>2. \A f \in Events : f < e => f \in Passed
  <2> SUFFICES ASSUME NEW f \in Events, f < e PROVE f \in Passed
    OBVIOUS
  <2>1. f \notin logs
    BY DEF Events
  <2>2. BlockOf[f] <= BlockOf[e]
    OBVIOUS
  <2> QED
    BY <1>1, <2>1, <2>2 DEF TypeOK
<1>3. \A f \in Passed : f < e
  <2> SUFFICES ASSUME NEW f \in Passed, ~(f < e) PROVE FALSE
    OBVIOUS
  <2>1. f \in Events /\ f # e
    BY <1>1
  <2>2. e < f
    BY <2>1 DEF Events
  <2> QED
    BY <1>1, <2>1, <2>2 DEF PassedInv
<1>4. Passed' = Passed \cup {e}
  <2>1. CASE logs' # {}
    BY <1>1, <2>1 DEF Passed
  <2>2. CASE logs' = {}
    <3>1. Passed' = {f \in Events : BlockOf[f] < BlockOf[e] + 1}
      BY <2>2 DEF Passed
    <3>2. Passed \cup {e} = {f \in Events : BlockOf[f] <= toBlock}
      BY <1>1, <2>2
    <3>3. \A f \in Events : BlockOf[f] <= toBlock => BlockOf[f] <= BlockOf[e]
      BY <1>3, <3>2
    <3> QED
      BY <1>1, <3>1, <3>2, <3>3 DEF TypeOK
  <2> QED
    BY <2>1, <2>2
<1> QED
  BY <1>1, <1>2, <1>3, <1>4

LEMMA PassedStep == StreamInv /\ [Next]_vars => PassedInv'
<1> SUFFICES ASSUME StreamInv, [Next]_vars PROVE PassedInv'
  OBVIOUS
<1> USE EthereumOptionsAssumption, EventsAssumption DEF StreamInv
<1>1. CASE NewBlock
  BY <1>1 DEF NewBlock, PassedInv, Passed
<1>2. CASE Start
  <2>1. logs' = {} /\ last' = 0 /\ fromBlock' \in Nat
    BY <1>2 DEF Start, BatchInv, TypeOK
  <2>2. Passed' = {e \in Events : BlockOf[e] < fromBlock'}
    BY <2>1 DEF Passed
  <2>3. Passed' \subseteq handled'
    BY <1>2, <2>2 DEF Start, SavedIsHandled, TypeOK
  <2>4. \A e \in Passed', f \in Events : f < e => f \in Passed'
    BY <2>1, <2>2
  <2> QED
    BY <2>1, <2>3, <2>4 DEF PassedInv
<1>3. CASE FetchLogs
  <2>1. Passed' = Passed
    BY <1>3, ToBlockFacts
    DEF FetchLogs, CanFetch, Passed, EventsBetween, TypeOK
  <2> QED
    BY <1>3, <2>1 DEF FetchLogs, PassedInv
<1>4. CASE FetchNoLogs
  <2>1. Passed' = Passed
    BY <1>4, ToBlockFacts
    DEF FetchNoLogs, CanFetch, Passed, EventsBetween, TypeOK
  <2> QED
    BY <1>4, <2>1 DEF FetchNoLogs, PassedInv
<1>5. ASSUME NEW e \in Events, HandleLog(e) PROVE PassedInv'
  <2>1. /\ Passed' = Passed \cup {e}
        /\ \A f \in Events : f < e <=> f \in Passed
        /\ Passed \subseteq Events
    BY <1>5, HandleLogPasses DEF Passed
  <2>2. running /\ handled' = handled \cup {e} /\ last' = e
    BY <1>5 DEF HandleLog
  <2>3. Passed' \subseteq handled'
    BY <2>1, <2>2 DEF PassedInv
  <2>4. \A g \in Passed', f \in Events : f < g => f \in Passed'
    BY <2>1 DEF Events
  <2>5. \A g \in Passed' : g <= e
    BY <2>1 DEF Events
  <2> QED
    BY <2>1, <2>2, <2>3, <2>4, <2>5 DEF PassedInv
<1>6. CASE Stop \/ Crash
  BY <1>6 DEF Stop, Crash, PassedInv
<1>7. CASE WaitForBlock \/ UNCHANGED vars
  BY <1>7 DEF WaitForBlock, vars, PassedInv, Passed
<1> QED
  BY <1>1, <1>2, <1>3, <1>4, <1>5, <1>6, <1>7 DEF Next

LEMMA BatchStep == StreamInv /\ [Next]_vars => BatchInv'
<1> SUFFICES ASSUME StreamInv, [Next]_vars PROVE BatchInv'
  OBVIOUS
<1> USE EthereumOptionsAssumption, EventsAssumption
    DEF StreamInv, TypeOK, BatchInv
<1>1. CASE NewBlock
  BY <1>1 DEF NewBlock, FinalEvents
<1>2. CASE Start
  BY <1>2 DEF Start, FinalEvents
<1>3. CASE FetchLogs
  <2>1. \A e \in logs' : BlockOf[e] <= ToBlock /\ BlockOf[e] <= LatestBlock
    BY <1>3, ToBlockFacts DEF FetchLogs, CanFetch, EventsBetween
  <2>2. \A e \in logs' : e \in FinalEvents'
    BY <1>3, <2>1, ToBlockFacts DEF FetchLogs, FinalEvents, EventsBetween
  <2> QED
    BY <1>3, <2>1, <2>2 DEF FetchLogs, CanFetch
<1>4. CASE FetchNoLogs
  BY <1>4, ToBlockFacts DEF FetchNoLogs, CanFetch
<1>5. ASSUME NEW e \in Events, HandleLog(e) PROVE BatchInv'
  BY <1>5 DEF HandleLog, FinalEvents
<1>6. CASE Stop \/ Crash
  BY <1>6 DEF Stop, Crash
<1>7. CASE WaitForBlock \/ UNCHANGED vars
  BY <1>7 DEF WaitForBlock, vars, FinalEvents
<1> QED
  BY <1>1, <1>2, <1>3, <1>4, <1>5, <1>6, <1>7 DEF Next

LEMMA SavedStep == StreamInv /\ [Next]_vars => SavedIsHandled'
<1> SUFFICES ASSUME StreamInv, [Next]_vars PROVE SavedIsHandled'
  OBVIOUS
<1> USE EventsAssumption DEF StreamInv, SavedIsHandled
<1>1. CASE Stop
  BY <1>1 DEF Stop, BatchInv, PassedInv, Passed, TypeOK
<1>2. ASSUME NEW e \in Events, HandleLog(e) PROVE SavedIsHandled'
  BY <1>2 DEF HandleLog
<1>3. CASE \/ NewBlock \/ Start \/ FetchLogs \/ FetchNoLogs \/ WaitForBlock
           \/ Crash \/ UNCHANGED vars
  BY <1>3
  DEF NewBlock, Start, FetchLogs, FetchNoLogs, WaitForBlock, Crash, vars
<1> QED
  BY <1>1, <1>2, <1>3 DEF Next

\* The inductive invariant of the loop.
THEOREM StreamInvariant == Spec => []StreamInv
<1>1. StreamInv /\ [Next]_vars => StreamInv'
  BY TypeStep, PassedStep, BatchStep, SavedStep DEF StreamInv
<1> QED
  BY InitStreamInv, <1>1, PTL DEF Spec

\* Cursors, ranges and batches of the Ethereum streamer keep their types: no
\* range begins at block 0 and no cursor underflows (ethereum_streamer.go:197-316).
THEOREM TypeCorrect == Spec => []TypeOK
BY StreamInvariant, PTL DEF StreamInv

\* What lies behind the saved block has been handled.
THEOREM SavedHandled == Spec => []SavedIsHandled
BY StreamInvariant, PTL DEF StreamInv

-----------------------------------------------------------------------------
\* Every step of the loop is a step of the promise, or leaves it alone.
LEMMA StepRefines ==
  StreamInv /\ [Next]_vars =>
    [Promise!Next]_<<FinalEvents, handled, last>>
<1> SUFFICES ASSUME StreamInv, [Next]_vars
             PROVE  [Promise!Next]_<<FinalEvents, handled, last>>
  OBVIOUS
<1> USE EthereumOptionsAssumption, EventsAssumption DEF StreamInv
<1>1. CASE NewBlock
  <2>1. FinalEvents \subseteq FinalEvents' /\ FinalEvents' \subseteq Events
    BY <1>1 DEF NewBlock, FinalEvents, TypeOK
  <2> QED
    BY <1>1, <2>1 DEF NewBlock, Promise!Next, Promise!Finalize, Promise!Events,
                      Events
<1>2. CASE Start
  BY <1>2 DEF Start, FinalEvents, Promise!Next, Promise!Restart
<1>3. ASSUME NEW e \in Events, HandleLog(e)
      PROVE  Promise!Next
  <2>1. \A f \in Events : f < e <=> f \in Passed
    BY <1>3, HandleLogPasses
  <2>2. running /\ e \in logs
    BY <1>3 DEF HandleLog
  <2>3. e \in FinalEvents
    BY <2>2 DEF BatchInv
  <2>4. 1..(e - 1) \subseteq handled
    BY <2>1, <2>2 DEF PassedInv, Events
  <2>5. last # 0 => e = last + 1
    <3> SUFFICES ASSUME last # 0 PROVE e = last + 1
      OBVIOUS
    <3>1. last \in Passed /\ \A f \in Passed : f <= last
      BY <2>2 DEF PassedInv
    <3>2. last \in Events /\ last < e
      BY <2>1, <3>1 DEF TypeOK
    <3>3. ~(last + 1 < e)
      BY <2>1, <3>1, <3>2 DEF Events
    <3> QED
      BY <3>2, <3>3 DEF Events
  <2>6. UNCHANGED FinalEvents /\ handled' = handled \cup {e} /\ last' = e
    BY <1>3 DEF HandleLog, FinalEvents
  <2>7. Promise!Handle(e)
    BY <2>3, <2>4, <2>5, <2>6 DEF Promise!Handle
  <2> QED
    BY <2>7 DEF Promise!Next, Promise!Events, Events
<1>4. CASE \/ FetchLogs \/ FetchNoLogs \/ WaitForBlock \/ Stop \/ Crash
           \/ UNCHANGED vars
  BY <1>4
  DEF FetchLogs, FetchNoLogs, WaitForBlock, Stop, Crash, vars, FinalEvents
<1> QED
  BY <1>1, <1>2, <1>3, <1>4 DEF Next

\* The Ethereum streamer implements the promise of a block streamer.
THEOREM StreamsEthereumInOrder == Spec => StreamsInOrder
<1>1. Init => Promise!Init
  BY EthereumOptionsAssumption, EventsAssumption
  DEF Init, Promise!Init, FinalEvents
<1> QED
  BY <1>1, StreamInvariant, StepRefines, PTL
  DEF Spec, StreamsInOrder, Promise!Spec

-----------------------------------------------------------------------------
(* What follows from the promise alone.                                    *)

\* No event is ever handled before one that precedes it on the chain.
NoneOvertaken ==
  \A e \in handled : e \in FinalEvents /\ 1..e \subseteq handled

\* Restarts, replays and batches of any size included, what the Ethereum streamer
\* has handled is at any time a first part of the chain's final events: no
\* event is left out, and none is handled before it is final.
THEOREM HandledIsFirstPart == Spec => []NoneOvertaken
<1> DEFINE PromiseInv == /\ FinalEvents \subseteq Events
                         /\ last \in Nat
                         /\ last # 0 => last \in handled
                         /\ NoneOvertaken
<1>1. Promise!Init => PromiseInv
  BY DEF Promise!Init, NoneOvertaken, Events
<1>2. PromiseInv /\ [Promise!Next]_<<FinalEvents, handled, last>> => PromiseInv'
  <2> SUFFICES ASSUME PromiseInv, [Promise!Next]_<<FinalEvents, handled, last>>
               PROVE  PromiseInv'
    OBVIOUS
  <2>1. CASE Promise!Finalize
    BY <2>1 DEF Promise!Finalize, NoneOvertaken, Promise!Events, Events
  <2>2. ASSUME NEW e \in Events, Promise!Handle(e)
        PROVE  PromiseInv'
    <3>1. /\ e \in FinalEvents
          /\ FinalEvents' = FinalEvents
          /\ handled' = handled \cup {e}
          /\ last' = e
      BY <2>2 DEF Promise!Handle
    <3>2. 1..(e - 1) \subseteq handled
      <4>1. CASE last = 0
        BY <2>2, <4>1 DEF Promise!Handle
      <4>2. CASE last # 0
        BY <2>2, <4>2 DEF Promise!Handle, NoneOvertaken, Events
      <4> QED
        BY <4>1, <4>2
    <3>3. 1..e \subseteq handled'
      BY <3>1, <3>2 DEF Events
    <3>4. NoneOvertaken'
      BY <3>1, <3>3 DEF NoneOvertaken
    <3> QED
      BY <3>1, <3>4 DEF Events
  <2>3. CASE Promise!Restart \/ UNCHANGED <<FinalEvents, handled, last>>
    BY <2>3 DEF Promise!Restart, NoneOvertaken
  <2> QED
    BY <2>1, <2>2, <2>3 DEF Promise!Next, Promise!Events, Events
<1>3. PromiseInv => NoneOvertaken
  OBVIOUS
<1> HIDE DEF PromiseInv
<1> QED
  BY <1>1, <1>2, <1>3, StreamsEthereumInOrder, PTL DEF StreamsInOrder, Promise!Spec
=============================================================================
