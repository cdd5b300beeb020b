---------------------- MODULE ValidatorLifecycleProofs ----------------------
(***************************************************************************)
(* The two streamers do not undo each other's saved position.              *)
(***************************************************************************)
EXTENDS ValidatorLifecycle, TLAPS

\* A streamer is in its critical section only while it holds the mutex, and no
\* streamer is left where no process runs.
MutexInv ==
  /\ main # "wait" => \A c \in Chains : streamer[c] = "done"
  /\ \A c \in Chains : streamer[c] \in {"locked", "read"} => mutex = c

\* What a streamer has read is still what is stored.
CopyInv == \A c \in Chains : streamer[c] = "read" => copy[c] = metadata

SaveInv == TypeOK /\ MutexInv /\ CopyInv /\ SavedStays

-----------------------------------------------------------------------------
LEMMA InitSaveInv == Init => SaveInv
<1> SUFFICES ASSUME Init PROVE SaveInv
  OBVIOUS
<1> USE LifecycleAssumption DEF Init
<1>1. 0 \in Blocks /\ NoBlocks \in [Chains -> Blocks] /\ Blocks \subseteq Nat
  BY DEF NoBlocks, Blocks
<1>2. /\ metadata \in [Chains -> Blocks] /\ parsed \in [Chains -> Blocks]
      /\ startBlock \in [Chains -> Nat]
      /\ copy \in [Chains -> [Chains -> Blocks]]
      /\ active \in 0..MaxRequests /\ launches \in 0..MaxLaunches
  BY <1>1 DEF NoBlocks
<1>3. /\ records \in [Chains -> BOOLEAN] /\ cancelled \in BOOLEAN
  OBVIOUS
<1>4. TypeOK
  BY <1>2, <1>3 DEF TypeOK
<1>5. MutexInv /\ CopyInv /\ SavedStays
  BY DEF MutexInv, CopyInv, SavedStays
<1> QED
  BY <1>4, <1>5 DEF SaveInv

\* Every step preserves the types.
LEMMA TypeStep == TypeOK /\ [Next]_vars => TypeOK'
<1> SUFFICES ASSUME TypeOK, [Next]_vars PROVE TypeOK'
  OBVIOUS
<1> USE LifecycleAssumption DEF TypeOK
<1>1. NoBlocks \in [Chains -> Blocks] /\ Blocks \subseteq Nat
  BY DEF NoBlocks, Blocks
<1>2. CASE Launch
  BY <1>2 DEF Launch, disk, saving, http
<1>3. CASE ResetMetadata
  BY <1>1, <1>3 DEF ResetMetadata, saving, http
<1>4. CASE ResetEthereum \/ ResetKoinos
  BY <1>4 DEF ResetEthereum, ResetKoinos, ResetTransactions, saving, http
<1>5. CASE StartAll
  <2>1. startBlock' \in [Chains -> Nat]
    <3>1. ASSUME NEW c \in Chains, BlockStart[c] > 0
          PROVE  BlockStart[c] - 1 \in Nat
      BY <3>1
    <3>2. ASSUME NEW c \in Chains PROVE metadata[c] \in Nat
      BY <1>1
    <3> QED
      BY <1>5, <3>1, <3>2 DEF StartAll
  <2>2. parsed' \in [Chains -> Blocks]
    BY <1>1, <1>5 DEF StartAll
  <2>3. streamer' \in [Chains -> {"streaming", "locked", "read", "saved", "done"}]
    BY <1>5 DEF StartAll
  <2>4. main' = "wait" /\ server' = "listening"
    BY <1>5 DEF StartAll
  <2>5. UNCHANGED <<metadata, records, cancelled, copy, mutex, active, launches>>
    BY <1>5 DEF StartAll, disk, saving
  <2> QED
    BY <2>1, <2>2, <2>3, <2>4, <2>5
<1>6. CASE Signal
  BY <1>6 DEF Signal, disk, saving, http
<1>7. CASE Gone
  <2>1. cancelled' \in BOOLEAN
    BY <1>7, ZenonT(20) DEF Gone
  <2>2. streamer' \in [Chains -> {"streaming", "locked", "read", "saved", "done"}]
    BY <1>7 DEF Gone
  <2>3. /\ main' = "down" /\ mutex' = Nobody /\ server' = "closed"
        /\ active' \in 0..MaxRequests
    BY <1>7 DEF Gone
  <2>4. UNCHANGED <<metadata, records, startBlock, parsed, copy, launches>>
    BY <1>7 DEF Gone, disk
  <2> QED
    BY <2>1, <2>2, <2>3, <2>4
<1>8. ASSUME NEW c \in Chains, ReturnEarly(c) PROVE TypeOK'
  BY <1>8 DEF ReturnEarly, disk, saving, http
<1>9. ASSUME NEW c \in Chains, ParseBlocks(c) PROVE TypeOK'
  BY <1>9 DEF ParseBlocks, saving, http
<1>10. ASSUME NEW c \in Chains, LockMetadata(c) PROVE TypeOK'
  BY <1>10 DEF LockMetadata, disk, http
<1>11. ASSUME NEW c \in Chains, GetMetadata(c) PROVE TypeOK'
  BY <1>11 DEF GetMetadata, disk, http
<1>12. ASSUME NEW c \in Chains, PutMetadata(c) PROVE TypeOK'
  BY <1>12 DEF PutMetadata, http
<1>13. ASSUME NEW c \in Chains, SaveFails(c) PROVE TypeOK'
  BY <1>13 DEF SaveFails, disk, http
<1>14. CASE ListenFails \/ ShutdownBegins \/ ShutdownEnds
  BY <1>14 DEF ListenFails, ShutdownBegins, ShutdownEnds, disk, saving
<1>15. CASE RequestArrives
  BY <1>15 DEF RequestArrives, disk, saving
<1>16. CASE RequestEnds
  BY <1>16 DEF RequestEnds, saving
<1>17. CASE UNCHANGED vars
  BY <1>17 DEF vars, disk, saving, http
<1> QED
  BY <1>2, <1>3, <1>4, <1>5, <1>6, <1>7, <1>8, <1>9, <1>10, <1>11, <1>12,
     <1>13, <1>14, <1>15, <1>16, <1>17
  DEF Next, MainStep, SaveStep, Exit, Crash

\* Every step preserves the mutual exclusion and what depends on it.
LEMMA SaveStepInv == SaveInv /\ [Next]_vars => (MutexInv /\ CopyInv /\ SavedStays)'
<1> SUFFICES ASSUME SaveInv, [Next]_vars
             PROVE  (MutexInv /\ CopyInv /\ SavedStays)'
  OBVIOUS
<1> USE DEF SaveInv, MutexInv, CopyInv, SavedStays
<1>1. CASE Launch \/ Signal
  BY <1>1 DEF Launch, Signal, disk, saving
<1>2. CASE ResetMetadata
  BY <1>2 DEF ResetMetadata, saving
<1>3. CASE ResetEthereum \/ ResetKoinos
  BY <1>3 DEF ResetEthereum, ResetKoinos, ResetTransactions, saving
<1>4. CASE StartAll
  BY <1>4 DEF StartAll
<1>5. CASE Gone
  BY <1>5 DEF Gone
<1>6. ASSUME NEW c \in Chains, ReturnEarly(c) \/ ParseBlocks(c)
      PROVE  (MutexInv /\ CopyInv /\ SavedStays)'
  BY <1>6 DEF ReturnEarly, ParseBlocks, disk, saving, TypeOK
<1>7. ASSUME NEW c \in Chains, LockMetadata(c)
      PROVE  (MutexInv /\ CopyInv /\ SavedStays)'
  BY <1>7, LifecycleAssumption DEF LockMetadata, disk, TypeOK
<1>8. ASSUME NEW c \in Chains, GetMetadata(c)
      PROVE  (MutexInv /\ CopyInv /\ SavedStays)'
  BY <1>8 DEF GetMetadata, disk, TypeOK
<1>9. ASSUME NEW c \in Chains, PutMetadata(c)
      PROVE  (MutexInv /\ CopyInv /\ SavedStays)'
  <2>1. main = "wait" /\ mutex = c /\ copy[c] = metadata
    BY <1>9 DEF PutMetadata
  <2>2. metadata' = [metadata EXCEPT ![c] = parsed[c]]
    BY <1>9, <2>1 DEF PutMetadata
  <2>3. \A d \in Chains : streamer[d] \in {"locked", "read"} => d = c
    BY <2>1
  <2>4. /\ \A d \in Chains : streamer'[d] = IF d = c THEN "saved" ELSE streamer[d]
        /\ main' = main /\ parsed' = parsed
    BY <1>9 DEF PutMetadata, TypeOK
  <2>5. (MutexInv /\ CopyInv)'
    BY <2>1, <2>3, <2>4
  <2>6. SavedStays'
    BY <2>2, <2>4 DEF TypeOK
  <2> QED
    BY <2>5, <2>6
<1>10. ASSUME NEW c \in Chains, SaveFails(c)
       PROVE  (MutexInv /\ CopyInv /\ SavedStays)'
  BY <1>10 DEF SaveFails, disk, TypeOK
<1>11. CASE ListenFails \/ ShutdownBegins \/ ShutdownEnds \/ RequestArrives
            \/ RequestEnds
  BY <1>11 DEF ListenFails, ShutdownBegins, ShutdownEnds, RequestArrives,
               RequestEnds, disk, saving
<1>12. CASE UNCHANGED vars
  BY <1>12 DEF vars, disk, saving
<1> QED
  BY <1>1, <1>2, <1>3, <1>4, <1>5, <1>6, <1>7, <1>8, <1>9, <1>10, <1>11,
     <1>12
  DEF Next, MainStep, SaveStep, Exit, Crash

\* The inductive invariant of the shutdown.
THEOREM SaveInvariant == Spec => []SaveInv
<1>1. SaveInv /\ [Next]_vars => SaveInv'
  BY TypeStep, SaveStepInv DEF SaveInv
<1> QED
  BY InitSaveInv, <1>1, PTL DEF Spec

\* The process, its streamers and its server keep their types through starts,
\* resets and stops (main.go:187-318).
THEOREM TypeCorrect == Spec => []TypeOK
BY SaveInvariant, PTL DEF SaveInv

\* What a streamer has saved stays saved, in whatever order the two stop.
THEOREM SavedPositionsStay == Spec => []SavedStays
BY SaveInvariant, PTL DEF SaveInv

\* A step changes the position of a chain only on behalf of its own streamer.
THEOREM OwnPositionsOnly == Spec => OnlyOwnPositionIsSaved
<1> DEFINE Own == \A c \in Chains : metadata'[c] # metadata[c] =>
                    streamer[c] = "read" \/ main = "resetMetadata"
<1>1. SaveInv /\ [Next]_vars => [Own]_vars
  <2> SUFFICES ASSUME SaveInv, [Next]_vars, metadata' # metadata,
                      main # "resetMetadata"
               PROVE  Own
    OBVIOUS
  <2>1. PICK c \in Chains : PutMetadata(c)
    BY DEF Next, MainStep, SaveStep, Exit, Crash, Launch, ResetMetadata,
           ResetEthereum, ResetKoinos, ResetTransactions, StartAll, Signal,
           Gone, ReturnEarly, ParseBlocks, LockMetadata, GetMetadata,
           SaveFails, ListenFails, RequestArrives, RequestEnds, ShutdownBegins,
           ShutdownEnds, vars, disk
  <2>2. streamer[c] = "read" /\ metadata' = [metadata EXCEPT ![c] = parsed[c]]
    BY <2>1 DEF PutMetadata, SaveInv, CopyInv
  <2> QED
    BY <2>2 DEF SaveInv, TypeOK
<1> QED
  BY SaveInvariant, <1>1, PTL DEF Spec, OnlyOwnPositionIsSaved

-----------------------------------------------------------------------------
\* While main resets the databases nothing else runs that could write to them,
\* and what it has reset is empty.
ResetInv ==
  /\ main # "wait" => server = "closed" /\ active = 0
  /\ main \in {"resetEthereum", "resetKoinos"} => metadata = NoBlocks
  /\ main = "resetKoinos" => ~records["ethereum"]

LEMMA ResetStep ==
  ASSUME ~ResetFails, SaveInv, ResetInv, [Next]_vars
  PROVE  ResetInv'
<1> USE DEF SaveInv, ResetInv
<1>1. CASE Launch \/ Signal
  BY <1>1 DEF Launch, Signal, disk, http
<1>2. CASE ResetMetadata
  BY <1>2 DEF ResetMetadata, http
<1>3. CASE ResetEthereum
  <2>1. /\ main = "resetEthereum" /\ main' = "resetKoinos"
        /\ UNCHANGED <<metadata, server, active>>
    BY <1>3 DEF ResetEthereum, ResetTransactions, http
  <2>2. PICK wiped \in {TRUE, ~ResetFails} :
          records' = [records EXCEPT !["ethereum"] = @ /\ ~wiped]
    BY <1>3 DEF ResetEthereum, ResetTransactions
  <2>3. wiped
    BY <2>2
  <2>4. records'["ethereum"] = (records["ethereum"] /\ ~wiped)
    BY <2>2 DEF TypeOK, Chains
  <2> QED
    BY <2>1, <2>3, <2>4
<1>4. CASE ResetKoinos \/ StartAll \/ Gone
  BY <1>4 DEF ResetKoinos, ResetTransactions, StartAll, Gone, http
<1>5. ASSUME NEW c \in Chains,
             ReturnEarly(c) \/ ParseBlocks(c) \/ SaveStep(c) \/ SaveFails(c)
      PROVE  ResetInv'
  <2>1. streamer[c] # "done" /\ main' = main
    BY <1>5 DEF ReturnEarly, ParseBlocks, SaveStep, LockMetadata, GetMetadata,
                PutMetadata, SaveFails
  <2> QED
    BY <2>1 DEF MutexInv
<1>6. CASE ListenFails \/ ShutdownBegins \/ ShutdownEnds \/ RequestArrives
           \/ RequestEnds
  <2>1. main = "wait" \/ UNCHANGED <<server, active, metadata, records>>
    BY <1>6 DEF ListenFails, ShutdownBegins, ShutdownEnds, RequestArrives,
                RequestEnds
  <2>2. UNCHANGED main
    BY <1>6 DEF ListenFails, ShutdownBegins, ShutdownEnds, RequestArrives,
                RequestEnds
  <2> QED
    BY <2>1, <2>2
<1>7. CASE UNCHANGED vars
  BY <1>7 DEF vars, disk, http
<1> QED
  BY <1>1, <1>2, <1>3, <1>4, <1>5, <1>6, <1>7
  DEF Next, MainStep, Exit, Crash

\* The streamers start on empty stores after a reset, provided that no database
\* refuses to drop its contents.
THEOREM ResetLeavesNothing ==
  ASSUME ~ResetFails
  PROVE  Spec => ResetIsComplete
<1> DEFINE Complete == main = "resetKoinos" /\ main' = "start" =>
                         \A c \in Chains : metadata'[c] = 0 /\ ~records'[c]
<1>1. Init => ResetInv
  BY DEF Init, ResetInv
<1>2. SaveInv /\ ResetInv /\ [Next]_vars => ResetInv'
  BY ResetStep
<1>3. SaveInv /\ ResetInv /\ [Next]_vars => [Complete]_vars
  <2> SUFFICES ASSUME SaveInv, ResetInv, [Next]_vars,
                      main = "resetKoinos", main' = "start"
               PROVE  \A c \in Chains : metadata'[c] = 0 /\ ~records'[c]
    OBVIOUS
  <2>1. ResetKoinos
    BY DEF Next, MainStep, SaveStep, Exit, Crash, Launch, ResetMetadata,
           ResetEthereum, StartAll, Signal, Gone, ReturnEarly, ParseBlocks,
           LockMetadata, GetMetadata, PutMetadata, SaveFails, ListenFails,
           RequestArrives, RequestEnds, ShutdownBegins, ShutdownEnds, vars
  <2>2. PICK wiped \in {TRUE, ~ResetFails} :
          records' = [records EXCEPT !["koinos"] = @ /\ ~wiped]
    BY <2>1 DEF ResetKoinos, ResetTransactions
  <2>3. wiped
    BY <2>2
  <2>4. /\ records'["koinos"] = (records["koinos"] /\ ~wiped)
        /\ records'["ethereum"] = records["ethereum"]
    BY <2>2 DEF SaveInv, TypeOK, Chains
  <2>5. metadata' = NoBlocks
    BY <2>1 DEF ResetKoinos, ResetTransactions, ResetInv
  <2> QED
    BY <2>3, <2>4, <2>5 DEF ResetInv, NoBlocks, Chains
<1> QED
  BY SaveInvariant, <1>1, <1>2, <1>3, PTL DEF Spec, ResetIsComplete
=============================================================================
