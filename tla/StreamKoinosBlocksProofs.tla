---------------------- MODULE StreamKoinosBlocksProofs ----------------------
(***************************************************************************)
(* The Koinos streamer keeps the promise of a block streamer, for every    *)
(* chain, option, number of restarts and length of the node's answers.     *)
(***************************************************************************)
EXTENDS StreamKoinosBlocks, TLAPS

\* The events that the cursor of this run has passed.
Passed ==
  IF Parsing THEN {e \in Events : BlockOf[e] <= block} \ events
  ELSE {e \in Events : BlockOf[e] < fromBlock}

\* They are handled, they are the first ones, and the last is the last handled.
PassedInv ==
  running =>
    /\ Passed \subseteq handled
    /\ \A e \in Passed, f \in Events : f < e => f \in Passed
    /\ last # 0 => last \in Passed /\ \A e \in Passed : e <= last

\* Only irreversible blocks are parsed; between two polls the last parsed block
\* is behind the cursor.
BatchInv ==
  /\ ~running => ~Parsing
  /\ Parsing => /\ lastBlock < lastIrreversibleBlock
                /\ \A e \in events : BlockOf[e] = block
  /\ running /\ ~Parsing => lastKoinosBlockParsed < fromBlock

StreamInv == TypeOK /\ PassedInv /\ BatchInv /\ SavedIsHandled

-----------------------------------------------------------------------------
\* The blocks asked for lie between the cursor and the last irreversible block,
\* which is not one of them.
LEMMA FetchFacts ==
  ASSUME TypeOK, FetchBlocks
  PROVE  /\ running /\ ~Parsing /\ running' /\ Parsing'
         /\ block' = fromBlock /\ fromBlock' = fromBlock
         /\ lastBlock' \in Nat /\ lastBlock' < lastIrreversibleBlock
         /\ events' = EventsBetween(fromBlock, fromBlock)
<1>1. NbBlocksToFetch \in Nat
  BY KoinosOptionsAssumption DEF NbBlocksToFetch, TypeOK
<1>2. PICK n \in 1..NbBlocksToFetch : lastBlock' = fromBlock + n - 1
  BY DEF FetchBlocks
<1>3. n \in Nat /\ 1 <= n /\ n <= NbBlocksToFetch
  BY <1>1, <1>2
<1>4. fromBlock + NbBlocksToFetch <= lastIrreversibleBlock
  BY DEF FetchBlocks
<1>5. /\ lastBlock' \in Nat /\ lastBlock' < lastIrreversibleBlock
      /\ fromBlock <= lastBlock'
  BY <1>1, <1>2, <1>3, <1>4 DEF TypeOK
<1> QED
  BY <1>5 DEF FetchBlocks, Parsing

LEMMA InitStreamInv == Init => StreamInv
<1> SUFFICES ASSUME Init PROVE StreamInv
  OBVIOUS
<1> USE EventsAssumption DEF Init
<1>1. TypeOK
  <2>1. 0 \in 0..MaxHeight /\ 0 \in 0..MaxRestarts
    BY KoinosOptionsAssumption
  <2>2. /\ fromBlock \in Nat \ {0} /\ metadata \in Nat /\ block \in Nat
        /\ lastBlock \in Nat /\ lastKoinosBlockParsed \in Nat
    OBVIOUS
  <2>3. /\ events \subseteq Events /\ handled \subseteq Events
        /\ last \in Events \cup {0} /\ running \in BOOLEAN
    BY ZenonT(20)
  <2> QED
    BY <2>1, <2>2, <2>3 DEF TypeOK
<1>2. PassedInv /\ BatchInv
  BY DEF PassedInv, BatchInv, Parsing
<1>3. SavedIsHandled
  BY DEF SavedIsHandled
<1> QED
  BY <1>1, <1>2, <1>3 DEF StreamInv

LEMMA TypeStep == StreamInv /\ [Next]_vars => TypeOK'
<1> SUFFICES ASSUME StreamInv, [Next]_vars PROVE TypeOK'
  OBVIOUS
<1> USE KoinosOptionsAssumption, EventsAssumption DEF StreamInv, TypeOK
<1>1. restarts < MaxRestarts => restarts + 1 \in 0..MaxRestarts
  OBVIOUS
<1>2. CASE NewIrreversibleBlock
  BY <1>2 DEF NewIrreversibleBlock
<1>3. CASE Start
  BY <1>3 DEF Start
<1>4. CASE FetchBlocks
  <2>1. events' \subseteq Events /\ lastBlock' \in Nat /\ block' \in Nat
    BY <1>4, FetchFacts DEF EventsBetween
  <2> QED
    BY <1>4, <2>1 DEF FetchBlocks
<1>5. ASSUME NEW e \in Events, HandleEvent(e) PROVE TypeOK'
  BY <1>5 DEF HandleEvent
<1>6. CASE FinishBlock
  <2>1. /\ block' \in Nat /\ fromBlock' \in Nat \ {0}
        /\ lastKoinosBlockParsed' \in Nat
    BY <1>6 DEF FinishBlock
  <2>2. events' \subseteq Events
    BY <1>6 DEF FinishBlock, EventsBetween
  <2> QED
    BY <1>6, <2>1, <2>2 DEF FinishBlock
<1>7. CASE Stop
  BY <1>1, <1>7 DEF Stop
<1>8. CASE Crash
  BY <1>1, <1>8 DEF Crash
<1>9. CASE WaitForBlock \/ UNCHANGED vars
  BY <1>9 DEF WaitForBlock, vars
<1> QED
  BY <1>2, <1>3, <1>4, <1>5, <1>6, <1>7, <1>8, <1>9 DEF Next

\* The event that is handled next is the first one not passed yet, and passing
\* it is all that the step does to Passed.
LEMMA HandleEventPasses ==
  ASSUME StreamInv, NEW e \in Events, HandleEvent(e)
  PROVE  /\ Passed' = Passed \cup {e}
         /\ \A f \in Events : f < e <=> f \in Passed
<1> USE EventsAssumption DEF StreamInv, HandleEvent
<1>1. /\ running /\ e \in events
      /\ Passed = {f \in Events : BlockOf[f] <= block} \ events
      /\ BlockOf[e] <= block
  BY DEF Passed, BatchInv, TypeOK
<1>2. \A f \in Events : f < e => f \in Passed
  <2> SUFFICES ASSUME NEW f \in Events, f < e PROVE f \in Passed
    OBVIOUS
  <2>1. f \notin events
    BY DEF Events
  <2>2. BlockOf[f] <= BlockOf[e]
    OBVIOUS
  <2> QED
    BY <1>1, <2>1, <2>2 DEF TypeOK
<1>3. \A f \in Passed : f < e
  <2> SUFFICES ASSUME NEW f \in Passed, ~(f < e) PROVE FALSE
    OBVIOUS
  <2>1. f \in Events /\ f # e
    BY <1>1
  <2>2. e < f
    BY <2>1 DEF Events
  <2> QED
    BY <1>1, <2>1, <2>2 DEF PassedInv
<1>4. Passed' = Passed \cup {e}
  BY <1>1 DEF Passed, Parsing
<1> QED
  BY <1>1, <1>2, <1>3, <1>4

LEMMA PassedStep == StreamInv /\ [Next]_vars => PassedInv'
<1> SUFFICES ASSUME StreamInv, [Next]_vars PROVE PassedInv'
  OBVIOUS
<1> USE KoinosOptionsAssumption, EventsAssumption DEF StreamInv
<1>1. CASE NewIrreversibleBlock
  BY <1>1 DEF NewIrreversibleBlock, PassedInv, Passed, Parsing
<1>2. CASE Start
  <2>1. ~Parsing' /\ last' = 0 /\ fromBlock' \in Nat
    BY <1>2 DEF Start, BatchInv, TypeOK, Parsing
  <2>2. Passed' = {e \in Events : BlockOf[e] < fromBlock'}
    BY <2>1 DEF Passed
  <2>3. Passed' \subseteq handled'
    BY <1>2, <2>2 DEF Start, SavedIsHandled, TypeOK
  <2>4. \A e \in Passed', f \in Events : f < e => f \in Passed'
    BY <2>1, <2>2
  <2> QED
    BY <2>1, <2>3, <2>4 DEF PassedInv
<1>3. CASE FetchBlocks
  <2>1. Passed' = Passed
    BY <1>3, FetchFacts DEF Passed, EventsBetween, TypeOK
  <2> QED
    BY <1>3, <2>1 DEF FetchBlocks, PassedInv
<1>4. ASSUME NEW e \in Events, HandleEvent(e) PROVE PassedInv'
  <2>1. /\ Passed' = Passed \cup {e}
        /\ \A f \in Events : f < e <=> f \in Passed
        /\ Passed \subseteq Events
    BY <1>4, HandleEventPasses DEF Passed
  <2>2. running /\ handled' = handled \cup {e} /\ last' = e
    BY <1>4 DEF HandleEvent
  <2>3. Passed' \subseteq handled'
    BY <2>1, <2>2 DEF PassedInv
  <2>4. \A g \in Passed', f \in Events : f < g => f \in Passed'
    BY <2>1 DEF Events
  <2>5. \A g \in Passed' : g <= e
    BY <2>1 DEF Events
  <2> QED
    BY <2>1, <2>2, <2>3, <2>4, <2>5 DEF PassedInv
<1>5. CASE FinishBlock
  <2>1. Passed = {e \in Events : BlockOf[e] <= block}
    BY <1>5 DEF FinishBlock, Passed
  <2>2. CASE block = lastBlock
    <3>1. ~Parsing' /\ fromBlock' = block + 1
      BY <1>5, <2>2 DEF FinishBlock, Parsing, TypeOK
    <3>2. Passed' = {e \in Events : BlockOf[e] < block + 1}
      BY <3>1 DEF Passed
    <3>3. Passed' = Passed
      BY <2>1, <3>2 DEF TypeOK
    <3> QED
      BY <1>5, <3>3 DEF FinishBlock, PassedInv
  <2>3. CASE block # lastBlock
    <3>1. /\ Parsing' /\ block' = block + 1
          /\ events' = EventsBetween(block + 1, block + 1)
      BY <1>5, <2>3 DEF FinishBlock, Parsing, TypeOK
    <3>2. Passed' = Passed
      BY <2>1, <3>1 DEF Passed, EventsBetween, TypeOK
    <3> QED
      BY <1>5, <3>2 DEF FinishBlock, PassedInv
  <2> QED
    BY <2>2, <2>3
<1>6. CASE Stop \/ Crash
  BY <1>6 DEF Stop, Crash, PassedInv
<1>7. CASE WaitForBlock \/ UNCHANGED vars
  BY <1>7 DEF WaitForBlock, vars, PassedInv, Passed, Parsing
<1> QED
  BY <1>1, <1>2, <1>3, <1>4, <1>5, <1>6, <1>7 DEF Next

LEMMA BatchStep == StreamInv /\ [Next]_vars => BatchInv'
<1> SUFFICES ASSUME StreamInv, [Next]_vars PROVE BatchInv'
  OBVIOUS
<1> USE KoinosOptionsAssumption, EventsAssumption
    DEF StreamInv, TypeOK, BatchInv
<1>1. CASE NewIrreversibleBlock
  BY <1>1 DEF NewIrreversibleBlock, Parsing
<1>2. CASE Start
  BY <1>2 DEF Start, Parsing
<1>3. CASE FetchBlocks
  <2>1. \A e \in events' : BlockOf[e] = block'
    BY <1>3, FetchFacts DEF EventsBetween
  <2> QED
    BY <1>3, <2>1, FetchFacts DEF FetchBlocks
<1>4. ASSUME NEW e \in Events, HandleEvent(e) PROVE BatchInv'
  BY <1>4 DEF HandleEvent, Parsing
<1>5. CASE FinishBlock
  BY <1>5 DEF FinishBlock, Parsing, EventsBetween
<1>6. CASE Stop \/ Crash
  BY <1>6 DEF Stop, Crash, Parsing
<1>7. CASE WaitForBlock \/ UNCHANGED vars
  BY <1>7 DEF WaitForBlock, vars, Parsing
<1> QED
  BY <1>1, <1>2, <1>3, <1>4, <1>5, <1>6, <1>7 DEF Next

LEMMA SavedStep == StreamInv /\ [Next]_vars => SavedIsHandled'
<1> SUFFICES ASSUME StreamInv, [Next]_vars PROVE SavedIsHandled'
  OBVIOUS
<1> USE EventsAssumption DEF StreamInv, SavedIsHandled
<1>1. CASE Stop
  BY <1>1 DEF Stop, BatchInv, PassedInv, Passed, TypeOK
<1>2. ASSUME NEW e \in Events, HandleEvent(e) PROVE SavedIsHandled'
  BY <1>2 DEF HandleEvent
<1>3. CASE \/ NewIrreversibleBlock \/ Start \/ FetchBlocks \/ WaitForBlock
           \/ FinishBlock \/ Crash \/ UNCHANGED vars
  BY <1>3 DEF NewIrreversibleBlock, Start, FetchBlocks, WaitForBlock,
              FinishBlock, Crash, vars
<1> QED
  BY <1>1, <1>2, <1>3 DEF Next

\* The inductive invariant of the loop.
THEOREM StreamInvariant == Spec => []StreamInv
<1>1. StreamInv /\ [Next]_vars => StreamInv'
  BY TypeStep, PassedStep, BatchStep, SavedStep DEF StreamInv
<1> QED
  BY InitStreamInv, <1>1, PTL DEF Spec

\* Cursors and batches of the Koinos streamer keep their types: no request for
\* blocks begins at block 0 (koinos_streamer.go:62-169).
THEOREM TypeCorrect == Spec => []TypeOK
BY StreamInvariant, PTL DEF StreamInv

\* What lies behind the saved block has been handled.
THEOREM SavedHandled == Spec => []SavedIsHandled
BY StreamInvariant, PTL DEF StreamInv

-----------------------------------------------------------------------------
\* Every step of the loop is a step of the promise, or leaves it alone.
LEMMA StepRefines ==
  StreamInv /\ [Next]_vars =>
    [Promise!Next]_<<FinalEvents, handled, last>>
<1> SUFFICES ASSUME StreamInv, [Next]_vars
             PROVE  [Promise!Next]_<<FinalEvents, handled, last>>
  OBVIOUS
<1> USE KoinosOptionsAssumption, EventsAssumption DEF StreamInv
<1>1. CASE NewIrreversibleBlock
  <2>1. FinalEvents \subseteq FinalEvents' /\ FinalEvents' \subseteq Events
    BY <1>1 DEF NewIrreversibleBlock, FinalEvents, TypeOK
  <2> QED
    BY <1>1, <2>1 DEF NewIrreversibleBlock, Promise!Next, Promise!Finalize,
                      Promise!Events, Events
<1>2. CASE Start
  BY <1>2 DEF Start, FinalEvents, Promise!Next, Promise!Restart
<1>3. ASSUME NEW e \in Events, HandleEvent(e)
      PROVE  Promise!Next
  <2>1. \A f \in Events : f < e <=> f \in Passed
    BY <1>3, HandleEventPasses
  <2>2. running /\ Parsing /\ e \in events
    BY <1>3 DEF HandleEvent
  <2>3. e \in FinalEvents
    BY <2>2 DEF BatchInv, FinalEvents, Parsing, TypeOK
  <2>4. 1..(e - 1) \subseteq handled
    BY <2>1, <2>2 DEF PassedInv, Events
  <2>5. last # 0 => e = last + 1
    <3> SUFFICES ASSUME last # 0 PROVE e = last + 1
      OBVIOUS
    <3>1. last \in Passed /\ \A f \in Passed : f <= last
      BY <2>2 DEF PassedInv
    <3>2. last \in Events /\ last < e
      BY <2>1, <3>1 DEF TypeOK
    <3>3. ~(last + 1 < e)
      BY <2>1, <3>1, <3>2 DEF Events
    <3> QED
      BY <3>2, <3>3 DEF Events
  <2>6. UNCHANGED FinalEvents /\ handled' = handled \cup {e} /\ last' = e
    BY <1>3 DEF HandleEvent, FinalEvents
  <2>7. Promise!Handle(e)
    BY <2>3, <2>4, <2>5, <2>6 DEF Promise!Handle
  <2> QED
    BY <2>7 DEF Promise!Next, Promise!Events, Events
<1>4. CASE \/ FetchBlocks \/ WaitForBlock \/ FinishBlock \/ Stop \/ Crash
           \/ UNCHANGED vars
  BY <1>4
  DEF FetchBlocks, WaitForBlock, FinishBlock, Stop, Crash, vars, FinalEvents
<1> QED
  BY <1>1, <1>2, <1>3, <1>4 DEF Next

\* The Koinos streamer implements the promise of a block streamer.
THEOREM StreamsKoinosInOrder == Spec => StreamsInOrder
<1>1. Init => Promise!Init
  BY KoinosOptionsAssumption, EventsAssumption
  DEF Init, Promise!Init, FinalEvents
<1> QED
  BY <1>1, StreamInvariant, StepRefines, PTL
  DEF Spec, StreamsInOrder, Promise!Spec

-----------------------------------------------------------------------------
(* What follows from the promise alone.                                    *)

\* No event is ever handled before one that precedes it on the chain.
NoneOvertaken ==
  \A e \in handled : e \in FinalEvents /\ 1..e \subseteq handled

\* Restarts, replays and batches of any size included, what the Koinos streamer
\* has handled is at any time a first part of the chain's final events: no
\* event is left out, and none is handled before it is final.
THEOREM HandledIsFirstPart == Spec => []NoneOvertaken
<1> DEFINE PromiseInv == /\ FinalEvents \subseteq Events
                         /\ last \in Nat
                         /\ last # 0 => last \in handled
                         /\ NoneOvertaken
<1>1. Promise!Init => PromiseInv
  BY DEF Promise!Init, NoneOvertaken, Events
<1>2. PromiseInv /\ [Promise!Next]_<<FinalEvents, handled, last>> => PromiseInv'
  <2> SUFFICES ASSUME PromiseInv, [Promise!Next]_<<FinalEvents, handled, last>>
               PROVE  PromiseInv'
    OBVIOUS
  <2>1. CASE Promise!Finalize
    BY <2>1 DEF Promise!Finalize, NoneOvertaken, Promise!Events, Events
  <2>2. ASSUME NEW e \in Events, Promise!Handle(e)
        PROVE  PromiseInv'
    <3>1. /\ e \in FinalEvents
          /\ FinalEvents' = FinalEvents
          /\ handled' = handled \cup {e}
          /\ last' = e
      BY <2>2 DEF Promise!Handle
    <3>2. 1..(e - 1) \subseteq handled
      <4>1. CASE last = 0
        BY <2>2, <4>1 DEF Promise!Handle
      <4>2. CASE last # 0
        BY <2>2, <4>2 DEF Promise!Handle, NoneOvertaken, Events
      <4> QED
        BY <4>1, <4>2
    <3>3. 1..e \subseteq handled'
      BY <3>1, <3>2 DEF Events
    <3>4. NoneOvertaken'
      BY <3>1, <3>3 DEF NoneOvertaken
    <3> QED
      BY <3>1, <3>4 DEF Events
  <2>3. CASE Promise!Restart \/ UNCHANGED <<FinalEvents, handled, last>>
    BY <2>3 DEF Promise!Restart, NoneOvertaken
  <2> QED
    BY <2>1, <2>2, <2>3 DEF Promise!Next, Promise!Events, Events
<1>3. PromiseInv => NoneOvertaken
  OBVIOUS
<1> HIDE DEF PromiseInv
<1> QED
  BY <1>1, <1>2, <1>3, StreamsKoinosInOrder, PTL DEF StreamsInOrder, Promise!Spec
=============================================================================
