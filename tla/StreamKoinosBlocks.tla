------------------------- MODULE StreamKoinosBlocks -------------------------
(***************************************************************************)
(* The loop that follows the Koinos chain.  Each poll asks for blocks from *)
(* the cursor on, up to but not including the last irreversible block, and *)
(* parses those it gets one by one; the node may return fewer.  A failed   *)
(* call changes nothing and is made again at the next poll.  The last      *)
(* parsed block is saved when the process is told to stop, which the loop  *)
(* notices only between two polls; a crash or a panic saves nothing.       *)
(***************************************************************************)
EXTENDS ChainEvents

CONSTANTS
  KoinosMaxBlocksToStream,   \* koinos-max-blocks-stream
  MaxHeight,                 \* bound on the height of the chain
  MaxRestarts                \* bound on the crashes and graceful stops

ASSUME KoinosOptionsAssumption ==
  /\ KoinosMaxBlocksToStream \in Nat \ {0}
  /\ MaxHeight \in Nat
  /\ MaxRestarts \in Nat

VARIABLES
  lastIrreversibleBlock,   \* of the chain
  metadata,                \* LastKoinosBlockParsed in the metadata store
  running,                 \* is the streamer running?
  fromBlock,               \* the cursor
  block, lastBlock,        \* the block being parsed, and the last one fetched
  events,                  \* the events of the block not handled yet
  lastKoinosBlockParsed,
  handled,                 \* the events handled in any run
  last,                    \* the last one handled in this run, or 0
  restarts                 \* crashes and graceful stops so far

vars == <<lastIrreversibleBlock, metadata, running, fromBlock, block,
          lastBlock, events, lastKoinosBlockParsed, handled, last, restarts>>

TypeOK ==
  /\ lastIrreversibleBlock \in 0..MaxHeight
  /\ metadata \in Nat
  /\ running \in BOOLEAN
  /\ fromBlock \in Nat \ {0}
  /\ block \in Nat
  /\ lastBlock \in Nat
  /\ events \subseteq Events
  /\ lastKoinosBlockParsed \in Nat
  /\ handled \subseteq Events
  /\ last \in Events \cup {0}
  /\ restarts \in 0..MaxRestarts

Init ==
  /\ lastIrreversibleBlock = 0
  /\ metadata = 0
  /\ running = FALSE
  /\ fromBlock = 1
  /\ block = 1
  /\ lastBlock = 0
  /\ events = {}
  /\ lastKoinosBlockParsed = 0
  /\ handled = {}
  /\ last = 0
  /\ restarts = 0

\* The streamer is going through the blocks it fetched.
Parsing == block <= lastBlock

-----------------------------------------------------------------------------
NewIrreversibleBlock ==
  /\ lastIrreversibleBlock < MaxHeight
  /\ lastIrreversibleBlock' = lastIrreversibleBlock + 1
  /\ UNCHANGED <<metadata, running, fromBlock, block, lastBlock, events,
                 lastKoinosBlockParsed, handled, last, restarts>>

\* Mutant of Start: the saved block is not stepped over.
StartAtSaved ==
  /\ ~running
  /\ running' = TRUE
  /\ fromBlock' = IF BlockStart > 0 THEN BlockStart - 1 ELSE metadata
  /\ lastKoinosBlockParsed' = 0
  /\ last' = 0
  /\ UNCHANGED <<lastIrreversibleBlock, metadata, block, lastBlock, events,
                 handled, restarts>>

\* The configured block start, if there is one, wins over the saved block.
Start ==
  /\ ~running
  /\ running' = TRUE
  /\ fromBlock' = (IF BlockStart > 0 THEN BlockStart - 1 ELSE metadata) + 1
  /\ lastKoinosBlockParsed' = 0
  /\ last' = 0
  /\ UNCHANGED <<lastIrreversibleBlock, metadata, block, lastBlock, events,
                 handled, restarts>>

\* Mutant of NbBlocksToFetch: nothing is asked for until a full batch is there.
NbBlocksToFetchInFull ==
  IF lastIrreversibleBlock >= fromBlock + KoinosMaxBlocksToStream
  THEN KoinosMaxBlocksToStream ELSE 0

NbBlocksToFetch ==
  LET nb == IF lastIrreversibleBlock > fromBlock
            THEN lastIrreversibleBlock - fromBlock ELSE 0
  IN  IF nb > KoinosMaxBlocksToStream THEN KoinosMaxBlocksToStream ELSE nb

\* The node returns some of the blocks asked for, without a gap.
FetchBlocks ==
  /\ running
  /\ ~Parsing
  /\ fromBlock + NbBlocksToFetch <= lastIrreversibleBlock
  /\ \E n \in 1..NbBlocksToFetch : lastBlock' = fromBlock + n - 1
  /\ block' = fromBlock
  /\ events' = EventsBetween(fromBlock, fromBlock)
  /\ UNCHANGED <<lastIrreversibleBlock, metadata, running, fromBlock,
                 lastKoinosBlockParsed, handled, last, restarts>>

\* Nothing to ask for: the cursor is at or behind the last irreversible block.
WaitForBlock ==
  /\ running
  /\ ~Parsing
  /\ NbBlocksToFetch = 0
  /\ UNCHANGED vars

HandleEvent(e) ==
  /\ running
  /\ Parsing
  /\ e \in events
  /\ \A f \in events : e <= f
  /\ handled' = handled \cup {e}
  /\ last' = e
  /\ events' = events \ {e}
  /\ UNCHANGED <<lastIrreversibleBlock, metadata, running, fromBlock, block,
                 lastBlock, lastKoinosBlockParsed, restarts>>

\* Mutant of FinishBlock: the cursor jumps to the last irreversible block.
FinishBlockAtHead ==
  /\ running
  /\ Parsing
  /\ events = {}
  /\ lastKoinosBlockParsed' = block
  /\ block' = block + 1
  /\ IF block = lastBlock
     THEN events' = {} /\ fromBlock' = lastIrreversibleBlock
     ELSE events' = EventsBetween(block + 1, block + 1) /\ UNCHANGED fromBlock
  /\ UNCHANGED <<lastIrreversibleBlock, metadata, running, lastBlock, handled,
                 last, restarts>>

\* The next block; after the last one the cursor moves.
FinishBlock ==
  /\ running
  /\ Parsing
  /\ events = {}
  /\ lastKoinosBlockParsed' = block
  /\ block' = block + 1
  /\ IF block = lastBlock
     THEN events' = {} /\ fromBlock' = block + 1
     ELSE events' = EventsBetween(block + 1, block + 1) /\ UNCHANGED fromBlock
  /\ UNCHANGED <<lastIrreversibleBlock, metadata, running, lastBlock, handled,
                 last, restarts>>

\* Mutant of Stop: the cursor is saved instead of the last parsed block.
StopAtCursor ==
  /\ running
  /\ ~Parsing
  /\ restarts < MaxRestarts
  /\ metadata' = fromBlock
  /\ running' = FALSE
  /\ restarts' = restarts + 1
  /\ UNCHANGED <<lastIrreversibleBlock, fromBlock, block, lastBlock, events,
                 lastKoinosBlockParsed, handled, last>>

Stop ==
  /\ running
  /\ ~Parsing
  /\ restarts < MaxRestarts
  /\ metadata' = lastKoinosBlockParsed
  /\ running' = FALSE
  /\ restarts' = restarts + 1
  /\ UNCHANGED <<lastIrreversibleBlock, fromBlock, block, lastBlock, events,
                 lastKoinosBlockParsed, handled, last>>

\* The process dies, perhaps in a handler.
Crash ==
  /\ running
  /\ restarts < MaxRestarts
  /\ running' = FALSE
  /\ block' = 1
  /\ lastBlock' = 0
  /\ events' = {}
  /\ restarts' = restarts + 1
  /\ UNCHANGED <<lastIrreversibleBlock, metadata, fromBlock,
                 lastKoinosBlockParsed, handled, last>>

Next ==
  \/ NewIrreversibleBlock
  \/ Start
  \/ FetchBlocks
  \/ WaitForBlock
  \/ \E e \in Events : HandleEvent(e)
  \/ FinishBlock
  \/ Stop
  \/ Crash

Spec == Init /\ [][Next]_vars

\* The process is started again, and the polls go on and are in the end
\* answered with a block, when there is one.
FairSpec ==
  /\ Spec
  /\ WF_vars(Start)
  /\ WF_vars(FetchBlocks)
  /\ WF_vars(\E e \in Events : HandleEvent(e))
  /\ WF_vars(FinishBlock)

-----------------------------------------------------------------------------
FinalEvents == {e \in Events : BlockOf[e] <= lastIrreversibleBlock}

Promise == INSTANCE BlockStreaming WITH final <- FinalEvents

\* The loop keeps the promise of a block streamer: whatever the node returns,
\* the stops and the crashes, it hands irreversible events over in order, and
\* skips none at the edge of a batch or of a run.
StreamsInOrder == Promise!Spec

\* The saved block is never ahead of the handlers: what the next run does not
\* look at has been handled.
SavedIsHandled ==
  \A e \in Events : BlockOf[e] <= metadata => e \in handled

\* Every irreversible event that is not in the very last irreversible block is
\* handled in the end; the block in front of the cursor is waited for.
FinalEventsAreHandled ==
  \A e \in Events : BlockOf[e] < lastIrreversibleBlock ~> e \in handled
=============================================================================
