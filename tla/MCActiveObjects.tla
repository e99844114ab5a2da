--------------------------- MODULE MCActiveObjects ---------------------------
(* Instances of ActiveObjects for TLC; their constants are in the .cfg file. *)
EXTENDS ActiveObjects
=============================================================================
