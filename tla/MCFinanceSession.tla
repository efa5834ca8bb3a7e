--------------------------- MODULE MCFinanceSession ---------------------------
(* A small instance of FinanceSession for TLC.                             *)
EXTENDS FinanceSession, TLC

\* Identifiers are only compared with each other.
Symmetry == Permutations(ResourceIds) \cup Permutations(ConsentVersions)

=============================================================================
