------------------------ MODULE MCStreamKoinosBlocks ------------------------
(* A short chain for the run of StreamKoinosBlocks: a block with two        *)
(* events, empty blocks, and an event at the end.                           *)
EXTENDS StreamKoinosBlocks

EventBlocks == <<3, 3, 4, 7>>
=============================================================================
