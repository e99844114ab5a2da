------------------------- MODULE MCProtocolUpkeep -------------------------
(* Instances of ProtocolUpkeep for TLC.                                    *)
EXTENDS ProtocolUpkeep
=============================================================================
