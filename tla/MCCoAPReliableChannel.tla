----------------------- MODULE MCCoAPReliableChannel -----------------------
(* Instances of CoAPReliableChannel for TLC.                               *)
EXTENDS CoAPReliableChannel
=============================================================================
