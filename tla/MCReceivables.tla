---------------------------- MODULE MCReceivables ----------------------------
(* A small instance of Receivables for TLC.                                *)
EXTENDS Receivables, TLC

\* Ids and keys are only compared with each other.
Symmetry ==
    Permutations(Clients) \cup Permutations(PaymentIds) \cup Permutations(ProposalIds)

=============================================================================
