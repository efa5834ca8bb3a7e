----------------------------- MODULE ProposalCards -----------------------------
(***************************************************************************)
(* The assistant's proposals beside a conversation: the list that polls    *)
(* page by page (use-assistant-proposals.ts), the cards on which the owner *)
(* decides (assistant/proposal-card.tsx), and the proposals of the API     *)
(* (assistant_conversations.py), which another window may decide as well.  *)
(* Every load and every decision takes a new number of a sequence, and a   *)
(* load whose number is not the last has no effect: only the load with the *)
(* last number, if there is one, is kept here.                             *)
(***************************************************************************)
EXTENDS Naturals, FiniteSets, Sequences, Functions

CONSTANTS
    MaxProposals,  \* bound: proposals of the conversation
    PageSize,      \* proposals of a page (100 in the code)
    MaxDecisions,  \* bound: decisions in flight
    None

VARIABLES
    offers,     \* the API's proposals, oldest first: status, and whether its target has changed
    cards,      \* the hook: proposals shown, cursor of the next page, pages loaded, error
    load,       \* the load with the last number, or None
    decisions   \* requests of the cards; `mine` while the card that asked is on the page

vars == <<offers, cards, load, decisions>>

Ids == 1..MaxProposals
Made == DOMAIN offers
Pending == [status |-> "pending", stale |-> FALSE]
Decided(offer) == offer.status # "pending"

NewLoad(older, by) == [older |-> older, cursor |-> older, got |-> <<>>, count |-> 0, answer |-> None, by |-> by]

Init ==
    /\ offers \in UNION {[1..n -> {Pending}] : n \in 0..MaxProposals}
    /\ cards = [items |-> <<>>, before |-> None, pages |-> 1, error |-> FALSE]
    /\ load = NewLoad(None, None)
    /\ decisions = {}

-----------------------------------------------------------------------------
(* The API *)

Below(cursor) == {i \in Made : cursor = None \/ i < cursor}
OnPage(cursor) == {i \in Below(cursor) : Cardinality({j \in Below(cursor) : j > i}) < PageSize}

\* list_proposals: the newest before the cursor, and the cursor of the next page.
Page(cursor) ==
    [items |-> Restrict(offers, OnPage(cursor)),
     before |-> IF OnPage(cursor) = Below(cursor) THEN None
                ELSE CHOOSE i \in OnPage(cursor) : \A j \in OnPage(cursor) : i <= j]

AnswerPage ==
    /\ load # None /\ load.answer = None
    /\ load' = [load EXCEPT !.answer = Page(load.cursor)]
    /\ UNCHANGED <<offers, cards, decisions>>

\* The assistant makes a proposal; the target of one changes; another window decides.
Propose ==
    /\ Len(offers) < MaxProposals
    /\ offers' = Append(offers, Pending)
    /\ UNCHANGED <<cards, load, decisions>>

TargetChanges ==
    /\ \E i \in Made : ~Decided(offers[i]) /\ offers' = [offers EXCEPT ![i].stale = TRUE]
    /\ UNCHANGED <<cards, load, decisions>>

Status(decision) == IF decision = "approve" THEN "approved" ELSE "rejected"
Decidable(i, decision) == ~Decided(offers[i]) /\ (decision = "approve" => ~offers[i].stale)

DecidedElsewhere ==
    /\ \E i \in Made, decision \in {"approve", "reject"} :
          /\ Decidable(i, decision)
          /\ offers' = [offers EXCEPT ![i].status = Status(decision)]
    /\ UNCHANGED <<cards, load, decisions>>

AnswerDecision(d) ==
    /\ d.stage \in {"sent", "unheard"}
    /\ LET answer == IF Decidable(d.id, d.decision) THEN "confirmed" ELSE "failed" IN
          /\ offers' = IF answer = "confirmed" THEN [offers EXCEPT ![d.id].status = Status(d.decision)] ELSE offers
          /\ decisions' = (decisions \ {d}) \cup (IF d.stage = "sent" THEN {[d EXCEPT !.stage = answer]} ELSE {})
    /\ UNCHANGED <<cards, load>>

-----------------------------------------------------------------------------
(* The list *)

\* By focus, by the timer, by a turn that starts or ends, or by the button.
Refresh ==
    /\ load' = NewLoad(None, None)
    /\ UNCHANGED <<offers, cards, decisions>>

LoadOlder ==
    /\ cards.before # None
    /\ load' = NewLoad(cards.before, None)
    /\ UNCHANGED <<offers, cards, decisions>>

\* What there was and what came; a proposal of both is as it came.
Joined(came, was) ==
    [i \in DOMAIN came \cup DOMAIN was |-> IF i \in DOMAIN came THEN came[i] ELSE was[i]]

More == /\ load.older = None
        /\ load.count + 1 < cards.pages
        /\ load.answer.before # None

\* A refresh asks for as many pages as are shown, one after the other.
NextPage ==
    /\ load # None /\ load.answer # None /\ More
    /\ load' = [load EXCEPT !.got = Joined(load.answer.items, @), !.count = @ + 1,
                            !.cursor = load.answer.before, !.answer = None]
    /\ UNCHANGED <<offers, cards, decisions>>

\* A card that leaves the list forgets its decision; its refresh may end with the load.
Seen(items) ==
    {[d EXCEPT !.mine = @ /\ d.id \in DOMAIN items] :
        d \in {e \in decisions : ~(e.stage = "refreshing" /\ e.id = load.by)}}

\* An older page joins what is shown; a refresh replaces it.
Loaded ==
    /\ load # None /\ load.answer # None /\ ~More
    /\ LET got == Joined(load.answer.items, load.got)
           items == IF load.older = None THEN got ELSE Joined(got, cards.items) IN
          /\ cards' = [items |-> items, before |-> load.answer.before, error |-> FALSE,
                       pages |-> IF load.older = None THEN cards.pages ELSE cards.pages + 1]
          /\ decisions' = Seen(items)
    /\ load' = None
    /\ UNCHANGED offers

LoadFails ==
    /\ load # None
    /\ cards' = [cards EXCEPT !.error = TRUE]
    /\ decisions' = Seen(cards.items)
    /\ load' = None
    /\ UNCHANGED offers

-----------------------------------------------------------------------------
(* The cards *)

InFlight(i) == \E d \in decisions : d.id = i /\ d.mine

Decide(i, decision) ==
    /\ i \in DOMAIN cards.items /\ ~InFlight(i)
    /\ ~Decided(cards.items[i])
    /\ decision = "approve" => ~cards.items[i].stale
    /\ Cardinality(decisions) < MaxDecisions
    /\ decisions' = decisions \cup {[id |-> i, decision |-> decision, stage |-> "sent", mine |-> TRUE]}
    /\ UNCHANGED <<offers, cards, load>>

\* Mutation of Confirmed: a load that was asked before the decision may still be applied.
Confirmed_KeepsLoad(d) ==
    /\ d.stage = "confirmed"
    /\ cards' = [cards EXCEPT !.items =
          IF d.id \in DOMAIN @ THEN [@ EXCEPT ![d.id].status = Status(d.decision)] ELSE @]
    /\ decisions' = decisions \ {d}
    /\ UNCHANGED <<offers, load>>

\* update: the decision is shown, and the load that is under way is outdated.
Confirmed(d) ==
    /\ d.stage = "confirmed"
    /\ cards' = [cards EXCEPT !.items =
          IF d.id \in DOMAIN @ THEN [@ EXCEPT ![d.id].status = Status(d.decision)] ELSE @]
    /\ decisions' = decisions \ {d}
    /\ load' = None
    /\ UNCHANGED offers

\* Refused, no answer, or one of another shape: the status is loaded again before
\* the card can be used, and the decision may have been made all the same.
DecisionFails(d) ==
    /\ d.stage \in {"sent", "confirmed", "failed"}
    /\ decisions' = (decisions \ {d})
                    \cup (IF d.mine THEN {[d EXCEPT !.stage = "refreshing"]} ELSE {})
                    \cup (IF d.stage = "sent" THEN {[d EXCEPT !.stage = "unheard", !.mine = FALSE]} ELSE {})
    /\ load' = NewLoad(None, d.id)
    /\ UNCHANGED <<offers, cards>>

\* A refresh that is outdated ends without an effect, and so does a late decision
\* that never arrives.
Ends(d) ==
    /\ \/ d.stage = "refreshing" /\ ~(load # None /\ load.by = d.id)
       \/ d.stage = "unheard"
    /\ decisions' = decisions \ {d}
    /\ UNCHANGED <<offers, cards, load>>

Next ==
    \/ AnswerPage \/ Propose \/ TargetChanges \/ DecidedElsewhere
    \/ Refresh \/ LoadOlder \/ NextPage \/ Loaded \/ LoadFails
    \/ \E i \in Ids, decision \in {"approve", "reject"} : Decide(i, decision)
    \/ \E d \in decisions : AnswerDecision(d) \/ Confirmed(d) \/ DecisionFails(d) \/ Ends(d)

Spec == Init /\ [][Next]_vars

-----------------------------------------------------------------------------
\* A card that shows a decision is never shown open again, whatever page was asked
\* before the decision and arrives after it (use-assistant-proposals.ts:24-45, 58-61).
DecidedStaysDecided ==
    \A i \in DOMAIN cards.items \cap DOMAIN cards'.items :
       Decided(cards.items[i]) => cards'.items[i].status = cards.items[i].status
=============================================================================
