------------------------ MODULE MCCompletionHandlers ------------------------
(* Instances of CompletionHandlers for TLC.                                *)
EXTENDS CompletionHandlers, TLC

Symmetry == Permutations(Callbacks) \cup Permutations(Keys)
=============================================================================
