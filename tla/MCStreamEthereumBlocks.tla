----------------------- MODULE MCStreamEthereumBlocks -----------------------
(* A short chain for the runs of StreamEthereumBlocks: a block with two     *)
(* events, empty blocks, and an event at the end.                           *)
EXTENDS StreamEthereumBlocks

EventBlocks == <<2, 2, 3, 7>>
=============================================================================
