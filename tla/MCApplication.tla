---------------------------- MODULE MCApplication ----------------------------
\* The parts of the application on small instances.
EXTENDS Application, TLC

Exchangeable == Permutations(Rows) \cup Permutations(Typed)
=============================================================================
