--------------------------- MODULE MCDTLSSession ---------------------------
(* Instances of DTLSSession for TLC.                                       *)
EXTENDS DTLSSession
=============================================================================
