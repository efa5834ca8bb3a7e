---------------------------- MODULE RequestLedger ----------------------------
(***************************************************************************)
(* What a caller of the JSON-RPC client may rely on, whatever the wire     *)
(* does: a call is refused or waits, a waiting call ends once, a call only *)
(* waits while the transport is open, no more than Limit calls wait, and   *)
(* closing the transport ends every waiting call in the same step.         *)
(***************************************************************************)
EXTENDS Naturals, FiniteSets

CONSTANTS Requests, Limit

VARIABLES open,   \* the transport takes calls
          call    \* per request: new, waiting, or how it ended

vars == <<open, call>>

Ends == {"resolved", "failed", "timed_out"}
Waiting == {r \in Requests : call[r] = "pending"}

Init == open = FALSE /\ call = [r \in Requests |-> "new"]

\* The transport opens with its first call.
Open(r) ==
    /\ ~open
    /\ \A q \in Requests : call[q] = "new"
    /\ open' = TRUE
    /\ call' = [call EXCEPT ![r] = "pending"]

Ask(r) ==
    /\ open
    /\ call[r] = "new"
    /\ Cardinality(Waiting) < Limit
    /\ call' = [call EXCEPT ![r] = "pending"]
    /\ UNCHANGED open

Refuse(r) ==
    /\ call[r] = "new"
    /\ call' = [call EXCEPT ![r] = "refused"]
    /\ UNCHANGED open

Settle(r) ==
    /\ open
    /\ call[r] = "pending"
    /\ \E how \in Ends : call' = [call EXCEPT ![r] = how]
    /\ UNCHANGED open

Close ==
    /\ open
    /\ open' = FALSE
    /\ call' = [r \in Requests |-> IF call[r] = "pending" THEN "failed" ELSE call[r]]

Next ==
    \/ \E r \in Requests : Open(r) \/ Ask(r) \/ Refuse(r) \/ Settle(r)
    \/ Close

Spec == Init /\ [][Next]_vars
=============================================================================
