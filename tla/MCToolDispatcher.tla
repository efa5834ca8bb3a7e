--------------------------- MODULE MCToolDispatcher ---------------------------
(* A small instance of ToolDispatcher for TLC.                             *)
EXTENDS ToolDispatcher, TLC

Symmetry == Permutations(CallIds)

=============================================================================
