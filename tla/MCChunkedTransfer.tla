------------------------- MODULE MCChunkedTransfer -------------------------
(* Instances of ChunkedTransfer for TLC.                                   *)
EXTENDS ChunkedTransfer
=============================================================================
