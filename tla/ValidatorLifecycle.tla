------------------------- MODULE ValidatorLifecycle -------------------------
(***************************************************************************)
(* How one validator process starts and stops.  main resets the databases  *)
(* if it is told to, reads the metadata record with the last parsed block  *)
(* of each chain, and starts the two streamers and the HTTP server.  A     *)
(* signal cancels their context; each streamer then writes its own field   *)
(* of the one metadata record, and main exits when all of them are done.   *)
(* What a streamer does between two blocks is left to the streamers' own   *)
(* modules.                                                                *)
(***************************************************************************)
EXTENDS Naturals

CONSTANTS
  MayReset,       \* may a start be told to reset the databases?
  ResetFails,     \* may a database refuse to drop its contents?
  BlockStart,     \* BlockStart[c]: the block-start option of chain c, or 0
  MaxBlock,       \* bound on the heights of the chains
  MaxRequests,    \* bound on the API requests in progress at once
  MaxLaunches,    \* bound on how often the process is started
  Nobody          \* nobody holds the metadata store's mutex

Chains == {"ethereum", "koinos"}

ASSUME LifecycleAssumption ==
  /\ MayReset \in BOOLEAN
  /\ ResetFails \in BOOLEAN
  /\ BlockStart \in [Chains -> Nat]
  /\ MaxBlock \in Nat
  /\ MaxRequests \in Nat
  /\ MaxLaunches \in Nat
  /\ Nobody \notin Chains

VARIABLES
  main,        \* what main does next, or that no process runs
  metadata,    \* metadata[c]: the last parsed block in the metadata store
  records,     \* records[c]: does the store of c's transfers have records?
  cancelled,   \* was the context cancelled by a signal?
  streamer,    \* streamer[c]: where c's streamer is
  startBlock,  \* startBlock[c]: the block c's streamer starts after
  parsed,      \* parsed[c]: the last block parsed in this run, 0 before
  copy,        \* copy[c]: the metadata record as c's streamer read it
  mutex,       \* who holds the metadata store's mutex
  server,      \* the HTTP server: "listening", "closing" or "closed"
  active,      \* the API requests in progress
  launches     \* how often the process was started

vars == <<main, metadata, records, cancelled, streamer, startBlock, parsed,
          copy, mutex, server, active, launches>>

disk == <<metadata, records>>
saving == <<copy, mutex>>
http == <<server, active>>

Blocks == 0..MaxBlock

TypeOK ==
  /\ main \in {"down", "resetMetadata", "resetEthereum", "resetKoinos",
               "start", "wait"}
  /\ metadata \in [Chains -> Blocks]
  /\ records \in [Chains -> BOOLEAN]
  /\ cancelled \in BOOLEAN
  /\ streamer \in [Chains -> {"streaming", "locked", "read", "saved", "done"}]
  /\ startBlock \in [Chains -> Nat]
  /\ parsed \in [Chains -> Blocks]
  /\ copy \in [Chains -> [Chains -> Blocks]]
  /\ mutex \in Chains \cup {Nobody}
  /\ server \in {"listening", "closing", "closed"}
  /\ active \in 0..MaxRequests
  /\ launches \in 0..MaxLaunches

NoBlocks == [c \in Chains |-> 0]

Init ==
  /\ main = "down"
  /\ metadata = NoBlocks
  /\ records = [c \in Chains |-> FALSE]
  /\ cancelled = FALSE
  /\ streamer = [c \in Chains |-> "done"]
  /\ startBlock = NoBlocks
  /\ parsed = NoBlocks
  /\ copy = [c \in Chains |-> NoBlocks]
  /\ mutex = Nobody
  /\ server = "closed"
  /\ active = 0
  /\ launches = 0

-----------------------------------------------------------------------------
(* main.                                                                   *)

Launch ==
  /\ main = "down"
  /\ launches < MaxLaunches
  /\ launches' = launches + 1
  /\ \E reset \in {FALSE, MayReset} :
       main' = IF reset THEN "resetMetadata" ELSE "start"
  /\ UNCHANGED <<disk, cancelled, streamer, startBlock, parsed, saving,
                 http>>

\* An error of this reset is a panic, which is a Crash.
ResetMetadata ==
  /\ main = "resetMetadata"
  /\ metadata' = NoBlocks
  /\ main' = "resetEthereum"
  /\ UNCHANGED <<records, cancelled, streamer, startBlock, parsed, saving,
                 http, launches>>

\* The error of the other two is not looked at: err is that of the metadata's.
ResetTransactions(c) ==
  /\ \E wiped \in {TRUE, ~ResetFails} :
       records' = [records EXCEPT ![c] = @ /\ ~wiped]
  /\ UNCHANGED <<metadata, cancelled, streamer, startBlock, parsed, saving,
                 http, launches>>

ResetEthereum ==
  main = "resetEthereum" /\ main' = "resetKoinos" /\ ResetTransactions("ethereum")

\* Mutant of ResetKoinos: the other database is reset once more.
ResetEthereumAgain ==
  main = "resetKoinos" /\ main' = "start" /\ ResetTransactions("ethereum")

ResetKoinos ==
  main = "resetKoinos" /\ main' = "start" /\ ResetTransactions("koinos")

\* Mutant of StartAll: a block start of 0 is taken for a block to start from.
StartAllUnguarded ==
  /\ main = "start"
  /\ main' = "wait"
  /\ startBlock' = [c \in Chains |-> BlockStart[c] - 1]
  /\ parsed' = NoBlocks
  /\ streamer' = [c \in Chains |-> "streaming"]
  /\ server' = "listening"
  /\ UNCHANGED <<disk, cancelled, saving, active, launches>>

StartAll ==
  /\ main = "start"
  /\ main' = "wait"
  /\ startBlock' = [c \in Chains |->
       IF BlockStart[c] > 0 THEN BlockStart[c] - 1 ELSE metadata[c]]
  /\ parsed' = NoBlocks
  /\ streamer' = [c \in Chains |-> "streaming"]
  /\ server' = "listening"
  /\ UNCHANGED <<disk, cancelled, saving, active, launches>>

Signal ==
  /\ main = "wait"
  /\ ~cancelled
  /\ cancelled' = TRUE
  /\ UNCHANGED <<main, disk, streamer, startBlock, parsed, saving, http,
                 launches>>

\* Nothing of the process is left but what is on disk.
Gone ==
  /\ main' = "down"
  /\ cancelled' = FALSE
  /\ streamer' = [c \in Chains |-> "done"]
  /\ mutex' = Nobody
  /\ server' = "closed"
  /\ active' = 0
  /\ UNCHANGED <<disk, startBlock, parsed, copy, launches>>

Exit ==
  /\ main = "wait"
  /\ \A c \in Chains : streamer[c] \in {"saved", "done"}
  /\ server = "closed"
  /\ cancelled
  /\ Gone

Crash == main # "down" /\ Gone

-----------------------------------------------------------------------------
(* The streamers.                                                          *)

\* It cannot decode the contract's address or connect: it returns at once and
\* leaves the process up.
ReturnEarly(c) ==
  /\ streamer[c] = "streaming"
  /\ parsed[c] = 0
  /\ streamer' = [streamer EXCEPT ![c] = "done"]
  /\ UNCHANGED <<main, disk, cancelled, startBlock, parsed, saving, http,
                 launches>>

\* Some blocks are parsed; each chain's locks are recorded in its own store.
ParseBlocks(c) ==
  /\ streamer[c] = "streaming"
  /\ \E b \in Blocks : b > startBlock[c] /\ b > parsed[c]
                         /\ parsed' = [parsed EXCEPT ![c] = b]
  /\ records' = [records EXCEPT ![c] = TRUE]
  /\ UNCHANGED <<main, metadata, cancelled, streamer, startBlock, saving, http,
                 launches>>

\* Mutant of LockMetadata: the mutex is not taken.
DoNotLockMetadata(c) ==
  /\ cancelled
  /\ streamer[c] = "streaming"
  /\ streamer' = [streamer EXCEPT ![c] = "locked"]
  /\ UNCHANGED <<main, disk, cancelled, startBlock, parsed, saving, http,
                 launches>>

LockMetadata(c) ==
  /\ cancelled
  /\ streamer[c] = "streaming"
  /\ mutex = Nobody
  /\ mutex' = c
  /\ streamer' = [streamer EXCEPT ![c] = "locked"]
  /\ UNCHANGED <<main, disk, cancelled, startBlock, parsed, copy, http,
                 launches>>

GetMetadata(c) ==
  /\ streamer[c] = "locked"
  /\ copy' = [copy EXCEPT ![c] = metadata]
  /\ streamer' = [streamer EXCEPT ![c] = "read"]
  /\ UNCHANGED <<main, disk, cancelled, startBlock, parsed, mutex, http,
                 launches>>

\* Mutant of PutMetadata: the mutex is not released.
PutMetadataLocked(c) ==
  /\ streamer[c] = "read"
  /\ metadata' = [copy[c] EXCEPT ![c] = parsed[c]]
  /\ streamer' = [streamer EXCEPT ![c] = "saved"]
  /\ UNCHANGED <<main, records, cancelled, startBlock, parsed, saving, http,
                 launches>>

\* The deferred unlock runs as the streamer returns.
PutMetadata(c) ==
  /\ streamer[c] = "read"
  /\ metadata' = [copy[c] EXCEPT ![c] = parsed[c]]
  /\ mutex' = Nobody
  /\ streamer' = [streamer EXCEPT ![c] = "saved"]
  /\ UNCHANGED <<main, records, cancelled, startBlock, parsed, copy, http,
                 launches>>

\* The record cannot be read, or be written; the error ends the streamer, or is
\* ignored just before its end.
SaveFails(c) ==
  /\ streamer[c] \in {"locked", "read"}
  /\ mutex' = Nobody
  /\ streamer' = [streamer EXCEPT ![c] = "done"]
  /\ UNCHANGED <<main, disk, cancelled, startBlock, parsed, copy, http,
                 launches>>

-----------------------------------------------------------------------------
(* The HTTP server.                                                        *)

\* The address is in use: the process stays up without an API.
ListenFails ==
  /\ server = "listening"
  /\ active = 0
  /\ server' = "closing"
  /\ UNCHANGED <<main, disk, cancelled, streamer, startBlock, parsed, saving,
                 active, launches>>

RequestArrives ==
  /\ server = "listening"
  /\ active < MaxRequests
  /\ active' = active + 1
  /\ UNCHANGED <<main, disk, cancelled, streamer, startBlock, parsed, saving,
                 server, launches>>

\* A submission of a peer may be the first record of its transfer.
RequestEnds ==
  /\ active > 0
  /\ active' = active - 1
  /\ \E c \in Chains, stored \in BOOLEAN :
       records' = [records EXCEPT ![c] = @ \/ stored]
  /\ UNCHANGED <<main, metadata, cancelled, streamer, startBlock, parsed,
                 saving, server, launches>>

ShutdownBegins ==
  /\ cancelled
  /\ server = "listening"
  /\ server' = "closing"
  /\ UNCHANGED <<main, disk, cancelled, streamer, startBlock, parsed, saving,
                 active, launches>>

\* Shutdown waits for the requests in progress, without a limit.
ShutdownEnds ==
  /\ cancelled
  /\ server = "closing"
  /\ active = 0
  /\ server' = "closed"
  /\ UNCHANGED <<main, disk, cancelled, streamer, startBlock, parsed, saving,
                 active, launches>>

-----------------------------------------------------------------------------
MainStep ==
  \/ Launch
  \/ ResetMetadata
  \/ ResetEthereum
  \/ ResetKoinos
  \/ StartAll
  \/ Exit

SaveStep(c) == LockMetadata(c) \/ GetMetadata(c) \/ PutMetadata(c)

Next ==
  \/ MainStep
  \/ Signal
  \/ Crash
  \/ \E c \in Chains : \/ ReturnEarly(c) \/ ParseBlocks(c)
                       \/ SaveStep(c) \/ SaveFails(c)
  \/ ListenFails
  \/ RequestArrives
  \/ RequestEnds
  \/ ShutdownBegins
  \/ ShutdownEnds

Spec == Init /\ [][Next]_vars

\* The goroutines go on, and every request in progress is answered.
FairSpec ==
  /\ Spec
  /\ WF_vars(MainStep)
  /\ \A c \in Chains : WF_vars(SaveStep(c))
  /\ WF_vars(RequestEnds)
  /\ WF_vars(ShutdownBegins)
  /\ WF_vars(ShutdownEnds)

-----------------------------------------------------------------------------
\* Both streamers read, change and write one record when the process stops:
\* what one has saved is not undone by the other, in whatever order they stop.
SavedStays ==
  \A c \in Chains : streamer[c] = "saved" => metadata[c] = parsed[c]

\* Only a streamer that stops, or a reset, changes the position of its chain,
\* and a stop that is cut short leaves the other chain's alone.
OnlyOwnPositionIsSaved ==
  [][\A c \in Chains : metadata'[c] # metadata[c] =>
       streamer[c] = "read" \/ main = "resetMetadata"]_vars

\* A signal stops the process: the streamers do not block each other at the
\* metadata store, nor does the server wait for them.
SignalStops == cancelled ~> main = "down"

\* "Error resetting ethereum transactions database": a reset that goes on to
\* start the streamers has left no position and no record behind.
ResetIsComplete ==
  [][main = "resetKoinos" /\ main' = "start" =>
       \A c \in Chains : metadata'[c] = 0 /\ ~records'[c]]_vars
=============================================================================
