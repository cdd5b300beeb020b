------------------------ MODULE StreamEthereumBlocks ------------------------
(***************************************************************************)
(* The loop that follows the Ethereum chain.  Each poll asks for the logs  *)
(* of a range of confirmed blocks and handles them one by one; the cursor  *)
(* moves to the block after the last log, or after an empty range.  A      *)
(* failed call changes nothing and is made again at the next poll.  The    *)
(* last parsed block is saved when the process is told to stop, which the  *)
(* loop notices only between two batches; a crash or a panic of a handler  *)
(* saves nothing.                                                          *)
(***************************************************************************)
EXTENDS ChainEvents

CONSTANTS
  EthConfirmations,       \* ethereum-confirmations
  EthMaxBlocksToStream,   \* ethereum-max-blocks-stream
  MaxHeight,              \* bound on the height of the chain
  MaxRestarts             \* bound on the crashes and graceful stops

ASSUME EthereumOptionsAssumption ==
  /\ EthConfirmations \in Nat
  /\ EthMaxBlocksToStream \in Nat \ {0}
  /\ MaxHeight \in Nat
  /\ MaxRestarts \in Nat

VARIABLES
  blockNumber,              \* the height of the chain
  metadata,                 \* LastEthereumBlockParsed in the metadata store
  running,                  \* is the streamer running?
  fromBlock,                \* the cursor
  toBlock,                  \* the end of the last range that was asked for
  logs,                     \* the logs of that range not handled yet
  lastEthereumBlockParsed,
  handled,                  \* the events handled in any run
  last,                     \* the last one handled in this run, or 0
  restarts                  \* crashes and graceful stops so far

vars == <<blockNumber, metadata, running, fromBlock, toBlock, logs,
          lastEthereumBlockParsed, handled, last, restarts>>

TypeOK ==
  /\ blockNumber \in 0..MaxHeight
  /\ metadata \in Nat
  /\ running \in BOOLEAN
  /\ fromBlock \in Nat \ {0}
  /\ toBlock \in Nat
  /\ logs \subseteq Events
  /\ lastEthereumBlockParsed \in Nat
  /\ handled \subseteq Events
  /\ last \in Events \cup {0}
  /\ restarts \in 0..MaxRestarts

Init ==
  /\ blockNumber = 0
  /\ metadata = 0
  /\ running = FALSE
  /\ fromBlock = 1
  /\ toBlock = 0
  /\ logs = {}
  /\ lastEthereumBlockParsed = 0
  /\ handled = {}
  /\ last = 0
  /\ restarts = 0

-----------------------------------------------------------------------------
NewBlock ==
  /\ blockNumber < MaxHeight
  /\ blockNumber' = blockNumber + 1
  /\ UNCHANGED <<metadata, running, fromBlock, toBlock, logs,
                 lastEthereumBlockParsed, handled, last, restarts>>

\* Mutant of Start: the saved block is not stepped over.
StartAtSaved ==
  /\ ~running
  /\ running' = TRUE
  /\ fromBlock' = IF BlockStart > 0 THEN BlockStart - 1 ELSE metadata
  /\ lastEthereumBlockParsed' = 0
  /\ last' = 0
  /\ UNCHANGED <<blockNumber, metadata, toBlock, logs, handled, restarts>>

\* The configured block start, if there is one, wins over the saved block.
Start ==
  /\ ~running
  /\ running' = TRUE
  /\ fromBlock' = (IF BlockStart > 0 THEN BlockStart - 1 ELSE metadata) + 1
  /\ lastEthereumBlockParsed' = 0
  /\ last' = 0
  /\ UNCHANGED <<blockNumber, metadata, toBlock, logs, handled, restarts>>

\* Mutant of LatestBlock: the unconfirmed blocks are read as well.
UnconfirmedBlock == blockNumber

\* The last confirmed block.
LatestBlock ==
  IF blockNumber < EthConfirmations THEN 0 ELSE blockNumber - EthConfirmations

BlockDelta == IF LatestBlock > fromBlock THEN LatestBlock - fromBlock ELSE 0

ToBlock ==
  IF BlockDelta > EthMaxBlocksToStream
  THEN fromBlock + EthMaxBlocksToStream ELSE fromBlock + BlockDelta

\* Mutant of CanFetch: the last confirmed block is not waited for but left out.
CanFetchBelowLatest == running /\ logs = {} /\ ToBlock < LatestBlock

CanFetch == running /\ logs = {} /\ ToBlock <= LatestBlock

FetchLogs ==
  /\ CanFetch
  /\ EventsBetween(fromBlock, ToBlock) # {}
  /\ toBlock' = ToBlock
  /\ logs' = EventsBetween(fromBlock, ToBlock)
  /\ UNCHANGED <<blockNumber, metadata, running, fromBlock,
                 lastEthereumBlockParsed, handled, last, restarts>>

FetchNoLogs ==
  /\ CanFetch
  /\ EventsBetween(fromBlock, ToBlock) = {}
  /\ toBlock' = ToBlock
  /\ fromBlock' = ToBlock + 1
  /\ lastEthereumBlockParsed' = ToBlock
  /\ UNCHANGED <<blockNumber, metadata, running, logs, handled, last,
                 restarts>>

WaitForBlock ==
  /\ running
  /\ logs = {}
  /\ ~CanFetch
  /\ UNCHANGED vars

\* The next log is handled; after the last one the cursor moves.
HandleLog(e) ==
  /\ running
  /\ e \in logs
  /\ \A f \in logs : e <= f
  /\ handled' = handled \cup {e}
  /\ last' = e
  /\ logs' = logs \ {e}
  /\ lastEthereumBlockParsed' = BlockOf[e]
  /\ fromBlock' = IF logs' = {} THEN BlockOf[e] + 1 ELSE fromBlock
  /\ UNCHANGED <<blockNumber, metadata, running, toBlock, restarts>>

\* Mutant of Stop: the signal is noticed in the middle of a batch.
StopInBatch ==
  /\ running
  /\ restarts < MaxRestarts
  /\ metadata' = lastEthereumBlockParsed
  /\ running' = FALSE
  /\ logs' = {}
  /\ restarts' = restarts + 1
  /\ UNCHANGED <<blockNumber, fromBlock, toBlock, lastEthereumBlockParsed,
                 handled, last>>

Stop ==
  /\ running
  /\ logs = {}
  /\ restarts < MaxRestarts
  /\ metadata' = lastEthereumBlockParsed
  /\ running' = FALSE
  /\ restarts' = restarts + 1
  /\ UNCHANGED <<blockNumber, fromBlock, toBlock, logs,
                 lastEthereumBlockParsed, handled, last>>

\* The process dies, perhaps in a handler.
Crash ==
  /\ running
  /\ restarts < MaxRestarts
  /\ running' = FALSE
  /\ logs' = {}
  /\ restarts' = restarts + 1
  /\ UNCHANGED <<blockNumber, metadata, fromBlock, toBlock,
                 lastEthereumBlockParsed, handled, last>>

Next ==
  \/ NewBlock
  \/ Start
  \/ FetchLogs
  \/ FetchNoLogs
  \/ WaitForBlock
  \/ \E e \in Events : HandleLog(e)
  \/ Stop
  \/ Crash

Spec == Init /\ [][Next]_vars

\* The process is started again, and the polls go on and are in the end
\* answered.
FairSpec ==
  /\ Spec
  /\ WF_vars(Start)
  /\ WF_vars(FetchLogs)
  /\ WF_vars(FetchNoLogs)
  /\ WF_vars(\E e \in Events : HandleLog(e))

-----------------------------------------------------------------------------
\* An event is final EthConfirmations blocks after its own.
FinalEvents == {e \in Events : BlockOf[e] + EthConfirmations <= blockNumber}

Promise == INSTANCE BlockStreaming WITH final <- FinalEvents

\* The loop keeps the promise of a block streamer: whatever the length of the
\* ranges, the confirmations, the stops and the crashes, it hands final events
\* over in order, and skips none at the edge of a range or of a run.
StreamsInOrder == Promise!Spec

\* The saved block is never ahead of the handlers: what the next run does not
\* look at has been handled.
SavedIsHandled ==
  \A e \in Events : BlockOf[e] <= metadata => e \in handled

\* Every final event is handled in the end: no block is waited for without end
\* at the edge of the confirmed chain, and no range is read again for ever.
FinalEventsAreHandled ==
  \A e \in Events : e \in FinalEvents ~> e \in handled

\* "last_ethereum_block_parsed": a stop saves the last block parsed, in this
\* run or, if it parsed none, in the runs before.
SavedIsLastParsed == [][metadata' >= metadata]_vars
=============================================================================
