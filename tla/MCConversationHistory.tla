------------------------ MODULE MCConversationHistory ------------------------
(* A small instance of ConversationHistory for TLC.                        *)
EXTENDS ConversationHistory, TLC

\* Ids, prompts and threads are only compared with each other.
Symmetry ==
    Permutations(Clients) \cup Permutations(Turns) \cup Permutations(Conversations)
    \cup Permutations(Threads)

=============================================================================
