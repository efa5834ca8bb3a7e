--------------------------- MODULE FinanceDashboard ---------------------------
(***************************************************************************)
(* The overview page (personal-dashboard.tsx) with the drawer of one       *)
(* receivable (receivable-drawer.tsx) and the review of proposals          *)
(* (finance-proposals-drawer.tsx), through the proxy routes                *)
(* (finance-route.ts) to the API.  Each request may fail on its way there  *)
(* or back; one that only came back as an error may have been committed.   *)
(* The transactions of the API are Receivables' and take one step here.    *)
(***************************************************************************)
EXTENDS Naturals, FiniteSets

CONSTANTS
    Forms,         \* payments the owner fills in, one form each
    Assistant,     \* the payment the assistant proposes
    Original,      \* the amount of the receivable, in payments of one
    MaxVersion,    \* bound: versions of the receivable
    MaxEntries,    \* bound: entries booked
    MaxDeskCalls,  \* bound: requests of the page at a time
    None

VARIABLES
    ledger,    \* the API: version, payments that stand, how often each was booked, entries, proposal
    desk,      \* the page: what the dashboard shows or an error, the entry dialog
    drawer,    \* the drawer of the receivable: open, its detail, its form, its state
    review,    \* the drawer of the proposals
    deskCalls  \* requests that are not over

vars == <<ledger, desk, drawer, review, deskCalls>>

Detail == [version |-> ledger.version, stand |-> ledger.stand]
NoForm == [kind |-> None, id |-> None]
Closed == [open |-> FALSE, detail |-> None, form |-> NoForm, submitting |-> FALSE]
NotReviewing == [open |-> FALSE, list |-> FALSE, stale |-> FALSE, deciding |-> FALSE]

\* `then` is who waits for a load: nobody, the dialog, the drawer or the review;
\* `mine` says that the drawer (or review) that asked is still open.
Request(kind, form, expected, then) ==
    [kind |-> kind, form |-> form, expected |-> expected, then |-> then,
     mine |-> TRUE, stage |-> "sent", answer |-> None]
Load == Request("load", None, None, None)
Reload(then) == Request("reload", None, None, then)
Writing == {"entry", "pay", "edit", "reverse", "approve", "reject"}

Init ==
    /\ ledger = [version |-> 1, stand |-> {}, booked |-> [f \in Forms |-> 0], entries |-> 0,
                 proposal |-> "none", expected |-> 0]
    /\ desk = [shown |-> None, failed |-> FALSE, entry |-> FALSE, submitting |-> FALSE]
    /\ deskCalls = {Load}
    /\ drawer = Closed /\ review = NotReviewing

Ask(call) ==
    /\ Cardinality(deskCalls) < MaxDeskCalls
    /\ deskCalls' = deskCalls \cup {call}

-----------------------------------------------------------------------------
(* The API *)

\* Mutation of Current: the API does not compare versions.
Current_Any(c) == ledger.version < MaxVersion
Current(c) == c.expected = ledger.version

Room == Cardinality(ledger.stand) < Original

Effect(c) ==
    CASE c.kind = "entry" -> [ledger EXCEPT !.entries = @ + 1]
      [] c.kind = "pay" -> [ledger EXCEPT !.version = @ + 1, !.stand = @ \cup {c.form}, !.booked[c.form] = @ + 1]
      [] c.kind = "edit" -> [ledger EXCEPT !.version = @ + 1]
      [] c.kind = "reverse" -> [ledger EXCEPT !.version = @ + 1, !.stand = @ \ {c.form}]
      [] c.kind = "approve" -> [ledger EXCEPT !.version = @ + 1, !.stand = @ \cup {Assistant}, !.proposal = "approved"]
      [] c.kind = "reject" -> [ledger EXCEPT !.proposal = "rejected"]

Accepted(c) ==
    CASE c.kind = "entry" -> TRUE
      [] c.kind = "pay" -> Current(c) /\ Room
      [] c.kind = "edit" -> Current(c)
      [] c.kind = "reverse" -> Current(c) /\ c.form \in ledger.stand
      [] c.kind = "approve" -> ledger.proposal = "pending" /\ ledger.expected = ledger.version /\ Room
      [] c.kind = "reject" -> ledger.proposal = "pending"

WithAnswer(c, answer) ==
    deskCalls' = (deskCalls \ {c}) \cup
                 (IF c.stage = "sent" THEN {[c EXCEPT !.stage = "answered", !.answer = answer]} ELSE {})

Handle ==
    \E c \in deskCalls :
       /\ c.stage # "answered" /\ c.kind \in Writing
       /\ IF Accepted(c)
            THEN /\ ledger.version < MaxVersion /\ ledger.entries < MaxEntries
                 /\ ledger' = Effect(c)
                 /\ WithAnswer(c, [ok |-> TRUE, detail |-> IF c.then = "drawer" /\ c.mine THEN Detail' ELSE None])
            ELSE /\ WithAnswer(c, [ok |-> FALSE])
                 /\ UNCHANGED ledger
       /\ UNCHANGED <<desk, drawer, review>>

\* Of a dashboard only what it lets the owner open: the receivable while something is
\* outstanding, and the review while a proposal waits.
Dashboard == [open |-> Room, pending |-> ledger.proposal = "pending"]

HandleRead ==
    \E c \in deskCalls :
       /\ c.stage = "sent"
       /\ \/ c.kind \in {"load", "reload"} /\ WithAnswer(c, Dashboard)
          \/ c.kind = "detail" /\ WithAnswer(c, [detail |-> Detail])
          \/ c.kind = "list" /\ WithAnswer(c, [pending |-> ledger.proposal = "pending",
                                               stale |-> ledger.expected # ledger.version])
       /\ UNCHANGED <<ledger, desk, drawer, review>>

Propose ==
    /\ ledger.proposal = "none" /\ Room
    /\ ledger' = [ledger EXCEPT !.proposal = "pending", !.expected = ledger.version]
    /\ UNCHANGED <<desk, drawer, review, deskCalls>>

-----------------------------------------------------------------------------
(* The dashboard and the entry dialog *)

Dialog == desk.entry \/ drawer.open \/ review.open

\* A dashboard that is shown stays while the next one is loaded, and its header also
\* above an error; what it lists may be long out of date.
ReceivableListed == desk.shown # None /\ ~desk.failed /\ desk.shown.open
ProposalsListed == desk.shown # None /\ desk.shown.pending

\* The load of the month that is left is aborted; a reload is not.
MovePeriod ==
    /\ ~Dialog
    /\ LET others == {c \in deskCalls : c.kind # "load"} IN
          /\ Cardinality(others) < MaxDeskCalls
          /\ deskCalls' = others \cup {Load}
    /\ UNCHANGED <<ledger, desk, drawer, review>>

Retry ==
    /\ desk.failed /\ ~Dialog
    /\ desk' = [desk EXCEPT !.failed = FALSE]
    /\ Ask(Reload(None))
    /\ UNCHANGED <<ledger, drawer, review>>

OpenEntry ==
    /\ ~Dialog
    /\ desk' = [desk EXCEPT !.entry = TRUE]
    /\ UNCHANGED <<ledger, drawer, review, deskCalls>>

CloseEntry ==
    /\ desk.entry
    /\ desk' = [desk EXCEPT !.entry = FALSE]
    /\ UNCHANGED <<ledger, drawer, review, deskCalls>>

\* Nothing but `submitting` tells one submission of a form from the next.
CanSubmitEntry == desk.entry /\ ~desk.submitting

SubmitEntry ==
    /\ CanSubmitEntry
    /\ desk' = [desk EXCEPT !.submitting = TRUE]
    /\ Ask(Request("entry", None, None, "entry"))
    /\ UNCHANGED <<ledger, drawer, review>>

-----------------------------------------------------------------------------
(* The drawer of the receivable and the review of proposals *)

\* A request of a drawer that is closed goes on; only its first load is aborted.
Without(kinds, loads) ==
    {[c EXCEPT !.mine = @ /\ c.kind \notin kinds /\ c.then \notin kinds] :
        c \in {d \in deskCalls : d.kind # loads}}

\* A payment that no form was opened for yet: every form stands for one of its own.
Fresh == [kind : {"pay"},
          id : {f \in Forms : ledger.booked[f] = 0 /\ \A c \in deskCalls : c.form # f}]

\* The receivable's name opens the overview, its check mark the payment form at once.
OpenDrawer ==
    /\ ~Dialog /\ ReceivableListed
    /\ \E form \in {NoForm} \cup Fresh : drawer' = [Closed EXCEPT !.open = TRUE, !.form = form]
    /\ Ask(Request("detail", None, None, None))
    /\ UNCHANGED <<ledger, desk, review>>

\* From a proposal, in place of the review, also when the dashboard is an error.
OpenReceivable ==
    /\ review.list
    /\ review' = NotReviewing /\ drawer' = [Closed EXCEPT !.open = TRUE]
    /\ LET rest == Without({"approve", "reject", "review"}, "list") IN
          /\ Cardinality(rest) < MaxDeskCalls
          /\ deskCalls' = rest \cup {Request("detail", None, None, None)}
    /\ UNCHANGED <<ledger, desk>>

CloseDrawer ==
    /\ drawer.open
    /\ drawer' = Closed
    /\ deskCalls' = Without({"pay", "edit", "reverse", "drawer"}, "detail")
    /\ UNCHANGED <<ledger, desk, review>>

\* What the drawer shows: nothing to click on while it loads for the first time.
Showing ==
    IF drawer.detail # None THEN IF drawer.form = NoForm THEN "overview" ELSE "form"
    ELSE IF \E c \in deskCalls : c.kind = "detail" THEN "skeleton" ELSE "error"

LoadDetail ==
    /\ drawer.open /\ Showing = "error"
    /\ Ask(Request("detail", None, None, None))
    /\ UNCHANGED <<ledger, desk, drawer, review>>

\* What the overview of the drawer offers.
Offered ==
    (IF Cardinality(drawer.detail.stand) < Original THEN Fresh ELSE {})
    \cup [kind : {"edit"}, id : {None}]
    \cup [kind : {"reverse"}, id : drawer.detail.stand]

OpenForm ==
    /\ Showing = "overview"
    /\ \E form \in Offered : drawer' = [drawer EXCEPT !.form = form]
    /\ UNCHANGED <<ledger, desk, review, deskCalls>>

CancelForm ==
    /\ Showing = "form"
    /\ drawer' = [drawer EXCEPT !.form = NoForm]
    /\ UNCHANGED <<ledger, desk, review, deskCalls>>

\* submitPayment, submitEdit and submitReversal: with the version of the detail shown.
CanSubmit == Showing = "form" /\ ~drawer.submitting

Submit ==
    /\ CanSubmit
    /\ drawer' = [drawer EXCEPT !.submitting = TRUE]
    /\ Ask(Request(drawer.form.kind, drawer.form.id, drawer.detail.version, "drawer"))
    /\ UNCHANGED <<ledger, desk, review>>

OpenReview ==
    /\ ~Dialog /\ ProposalsListed
    /\ review' = [NotReviewing EXCEPT !.open = TRUE]
    /\ Ask(Request("list", None, None, None))
    /\ UNCHANGED <<ledger, desk, drawer>>

CloseReview ==
    /\ review.open
    /\ review' = NotReviewing
    /\ deskCalls' = Without({"approve", "reject", "review"}, "list")
    /\ UNCHANGED <<ledger, desk, drawer>>

\* The buttons of a proposal in the list; one on an older version may only be rejected.
Decidable(decision) ==
    /\ review.list /\ ~review.deciding
    /\ decision = "approve" => ~review.stale

Decide(decision) ==
    /\ Decidable(decision)
    /\ review' = [review EXCEPT !.deciding = TRUE]
    /\ Ask(Request(decision, None, None, "review"))
    /\ UNCHANGED <<ledger, desk, drawer>>

-----------------------------------------------------------------------------
(* What comes back *)

\* Whoever waits for this request is done with it.
Finished(c) ==
    /\ desk' = IF c.then = "entry" THEN [desk EXCEPT !.submitting = FALSE] ELSE desk
    /\ drawer' = IF c.then = "drawer" /\ c.mine THEN [drawer EXCEPT !.submitting = FALSE] ELSE drawer
    /\ review' = IF c.then = "review" /\ c.mine THEN [review EXCEPT !.deciding = FALSE] ELSE review

\* The dashboard of a month that may have been left by now.
TakeDashboard(c) ==
    /\ c.kind \in {"load", "reload"}
    /\ desk' = [desk EXCEPT !.shown = c.answer, !.failed = FALSE, !.submitting = @ /\ c.then # "entry"]
    /\ drawer' = IF c.then = "drawer" /\ c.mine THEN [drawer EXCEPT !.submitting = FALSE] ELSE drawer
    /\ review' = IF c.then = "review" /\ c.mine THEN [review EXCEPT !.deciding = FALSE] ELSE review
    /\ deskCalls' = deskCalls \ {c}

TakeDetail(c) ==
    /\ c.kind = "detail"
    /\ drawer' = [drawer EXCEPT !.detail = c.answer.detail]
    /\ deskCalls' = deskCalls \ {c}
    /\ UNCHANGED <<desk, review>>

TakeList(c) ==
    /\ c.kind = "list"
    /\ review' = [review EXCEPT !.list = c.answer.pending, !.stale = c.answer.stale]
    /\ deskCalls' = deskCalls \ {c}
    /\ UNCHANGED <<desk, drawer>>

\* A change is done: its dialog closes and the dashboard is loaded again.
TakeDone(c) ==
    /\ c.kind \in Writing /\ c.answer.ok
    /\ desk' = [desk EXCEPT !.entry = @ /\ c.then # "entry", !.failed = FALSE]
    /\ drawer' = IF c.then = "drawer" /\ c.mine
                   THEN [drawer EXCEPT !.detail = c.answer.detail, !.form = NoForm] ELSE drawer
    /\ review' = IF c.then = "review" /\ c.mine THEN [review EXCEPT !.list = FALSE] ELSE review
    /\ deskCalls' = (deskCalls \ {c}) \cup {[Reload(c.then) EXCEPT !.mine = c.mine]}

TakeRefused(c) ==
    /\ c.kind \in Writing /\ ~c.answer.ok
    /\ Finished(c)
    /\ deskCalls' = deskCalls \ {c}

Take ==
    \E c \in deskCalls :
       /\ c.stage = "answered"
       /\ TakeDashboard(c) \/ TakeDetail(c) \/ TakeList(c) \/ TakeDone(c) \/ TakeRefused(c)
       /\ UNCHANGED ledger

\* The connection breaks, or the proxy answers 503 after its 20 seconds: the form
\* stays with an error, and the API may have the request or get it yet.
Fail ==
    \E c \in deskCalls :
       /\ c.stage # "unheard"
       /\ IF c.kind \in {"load", "reload"}
            THEN /\ desk' = [desk EXCEPT !.failed = TRUE, !.submitting = @ /\ c.then # "entry"]
                 /\ drawer' = IF c.then = "drawer" /\ c.mine THEN [drawer EXCEPT !.submitting = FALSE] ELSE drawer
                 /\ review' = IF c.then = "review" /\ c.mine THEN [review EXCEPT !.deciding = FALSE] ELSE review
            ELSE Finished(c)
       /\ deskCalls' = (deskCalls \ {c}) \cup
             (IF c.stage = "sent" /\ c.kind \in Writing THEN {[c EXCEPT !.stage = "unheard"]} ELSE {})
       /\ UNCHANGED ledger

Drop ==
    \E c \in deskCalls :
       /\ c.stage = "unheard"
       /\ deskCalls' = deskCalls \ {c}
       /\ UNCHANGED <<ledger, desk, drawer, review>>

Next ==
    \/ Handle \/ HandleRead \/ Take \/ Fail \/ Drop \/ Propose
    \/ MovePeriod \/ Retry \/ OpenEntry \/ CloseEntry \/ SubmitEntry
    \/ OpenDrawer \/ CloseDrawer \/ LoadDetail \/ OpenForm \/ CancelForm \/ Submit
    \/ OpenReview \/ CloseReview \/ OpenReceivable
    \/ \E decision \in {"approve", "reject"} : Decide(decision)

Spec == Init /\ [][Next]_vars

-----------------------------------------------------------------------------
\* A payment that the owner fills in once is booked at most once, however often its
\* form is sent again after an error and however late the first request arrives: the
\* version of the detail under the form stands for the form (receivable-drawer.tsx:93-109).
OneBookingPerForm == \A f \in Forms : ledger.booked[f] <= 1
=============================================================================
