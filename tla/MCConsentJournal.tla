--------------------------- MODULE MCConsentJournal ---------------------------
(* A small instance of ConsentJournal for TLC.                             *)
EXTENDS ConsentJournal, TLC

Symmetry == Permutations(Hosts)

=============================================================================
