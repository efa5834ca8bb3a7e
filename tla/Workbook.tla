------------------------------- MODULE Workbook -------------------------------
(***************************************************************************)
(* The invoice table of the web application (invoice-workbook.tsx) over    *)
(* the change sets and proposals of the API (services/workbooks.py).  The  *)
(* owner types, saves and decides while requests of the page are in        *)
(* flight; an answer may be lost and its request be committed all the      *)
(* same.  In the API each SELECT ... FOR UPDATE of a request is a step and *)
(* its commit is one; RowLocks says whether what was read stays locked     *)
(* until then, as in Receivables.  A row has one cell.                     *)
(***************************************************************************)
EXTENDS Naturals, FiniteSets, Functions

CONSTANTS
    Rows,          \* rows of the table
    Typed,         \* contents of a cell: what there is and what the owner types
    Suggested,     \* what the assistant proposes
    ProposalIds,   \* proposals the assistant may make
    MaxChanges,    \* bound: committed change sets
    MaxSheetCalls, \* bound: requests of the page at a time
    RowLocks,      \* does FOR UPDATE lock the rows it reads?
    None

VARIABLES
    invoices,   \* the API's rows: version and cell
    changes,    \* per change set, in order: the rows it replaced
    proposed,   \* the API's proposals; "read" while one is being made
    sheet,      \* the page's state
    sheetCalls  \* requests of the page that are not over

vars == <<invoices, changes, proposed, sheet, sheetCalls>>

NoProposal == [status |-> "none"]
NoTable == <<>>

\* A request: unheard once the page does not wait for it any more.  In the API it has
\* read some rows, or none but its proposal.
Request(kind, arg, body) ==
    [kind |-> kind, arg |-> arg, body |-> body, stage |-> "sent", read |-> None, answer |-> None]
Unheard(c) == [c EXCEPT !.stage = "unheard"]
Refused == [ok |-> FALSE]
Done(rows) == [ok |-> TRUE, rows |-> rows]
LoadCall(arg) == Request("load", arg, None)

Fresh == [table |-> NoTable, drafts |-> <<>>, loading |-> TRUE, failed |-> FALSE, saving |-> FALSE,
          open |-> FALSE, list |-> {}, deciding |-> None, pending |-> 0]

Init ==
    /\ \E v \in Typed : invoices = [r \in Rows |-> [version |-> 1, value |-> v]]
    /\ changes = 0
    /\ proposed = [p \in ProposalIds |-> NoProposal]
    /\ sheet = Fresh
    /\ sheetCalls = {LoadCall(None)}

\* A new request of the page.
Ask(call) ==
    /\ Cardinality(sheetCalls) < MaxSheetCalls
    /\ sheetCalls' = sheetCalls \cup {call}

-----------------------------------------------------------------------------
(* The API *)

Change(p) == [r \in {proposed[p].row} |-> [expected |-> proposed[p].expected, value |-> proposed[p].value]]
Body(c) == IF c.kind = "save" THEN c.body ELSE Change(c.arg)

Versions(read, body) == \A r \in DOMAIN body : read[r].version = body[r].expected

\* build_diffs; an approval takes every row of its proposal.
Diffs(c, read) ==
    IF c.kind = "save" THEN {r \in DOMAIN c.body : read[r].value # c.body[r].value}
    ELSE DOMAIN Change(c.arg)

\* Mutation of Applied: an approved proposal does not move the version on.
Applied_SameVersion(c) ==
    [r \in Diffs(c, c.read) |->
        [version |-> c.read[r].version + (IF c.kind = "save" THEN 1 ELSE 0), value |-> Body(c)[r].value]]

\* apply_diffs and bump_changed_rows, on the rows as the request has read them.
Applied(c) ==
    [r \in Diffs(c, c.read) |-> [version |-> c.read[r].version + 1, value |-> Body(c)[r].value]]

\* Some rows in the place of those of a table.
WithRows(table, rows) ==
    [r \in DOMAIN table |-> IF r \in DOMAIN rows THEN rows[r] ELSE table[r]]

Pending == {p \in ProposalIds : proposed[p].status = "pending"}

Decisions == {"approve", "reject"}

\* What SELECT ... FOR UPDATE has locked until the end of its transaction.
HoldsRow(c, r) == c.read # None /\ r \in DOMAIN c.read
HoldsProposal(c, p) == c.read # None /\ c.kind \in Decisions /\ c.arg = p
RowFree(r) ==
    RowLocks => /\ \A c \in sheetCalls : ~HoldsRow(c, r)
                /\ \A p \in ProposalIds : proposed[p].status = "read" => proposed[p].row # r
ProposalFree(p) == RowLocks => \A c \in sheetCalls : ~HoldsProposal(c, p)

Answered(c, answer) ==
    sheetCalls' = (sheetCalls \ {c}) \cup
                  (IF c.stage = "sent"
                   THEN {[c EXCEPT !.stage = "answered", !.read = None, !.answer = answer]} ELSE {})

Reads(c, read) == sheetCalls' = (sheetCalls \ {c}) \cup {[c EXCEPT !.read = read]}

HandleLoad(c) ==
    /\ c.kind = "load"
    /\ Answered(c, [rows |-> invoices, pending |-> Cardinality(Pending)])
    /\ UNCHANGED <<invoices, changes, proposed>>

\* _lock_proposal, of an approval and of a rejection.
LockProposal(c) ==
    /\ c.kind \in Decisions /\ c.read = None /\ ProposalFree(c.arg)
    /\ IF c.arg \in Pending THEN Reads(c, <<>>) ELSE Answered(c, Refused)
    /\ UNCHANGED <<invoices, changes, proposed>>

\* _lock_invoices of a save, and the same of an approval: a stale change, or none, is
\* refused.
LockInvoices(c) ==
    /\ \/ c.kind = "save" /\ c.read = None
       \/ c.kind = "approve" /\ c.read = <<>>
    /\ \A r \in DOMAIN Body(c) : RowFree(r)
    /\ LET read == Restrict(invoices, DOMAIN Body(c)) IN
       IF Versions(read, Body(c)) /\ Diffs(c, read) # {} THEN Reads(c, read) ELSE Answered(c, Refused)
    /\ UNCHANGED <<invoices, changes, proposed>>

\* The commit: all the rows of a change set are written, or none.
CommitRows(c) ==
    /\ changes < MaxChanges
    /\ changes' = changes + 1
    /\ invoices' = WithRows(invoices, Applied(c))

HandleSave(c) ==
    /\ c.kind = "save" /\ c.read # None
    /\ CommitRows(c)
    /\ Answered(c, Done(WithRows(c.read, Applied(c))))
    /\ UNCHANGED proposed

HandleList(c) ==
    /\ c.kind = "list"
    /\ Answered(c, Pending)
    /\ UNCHANGED <<invoices, changes, proposed>>

HandleApprove(c) ==
    /\ c.kind = "approve" /\ c.read \notin {None, <<>>}
    /\ CommitRows(c)
    /\ proposed' = [proposed EXCEPT ![c.arg].status = "approved"]
    /\ Answered(c, Done(<<>>))

HandleReject(c) ==
    /\ c.kind = "reject" /\ c.read # None
    /\ proposed' = [proposed EXCEPT ![c.arg].status = "rejected"]
    /\ Answered(c, Done(<<>>))
    /\ UNCHANGED <<invoices, changes>>

Handle ==
    \E c \in sheetCalls :
       /\ c.stage # "answered"
       /\ \/ HandleLoad(c) \/ HandleList(c) \/ LockProposal(c) \/ LockInvoices(c)
          \/ HandleSave(c) \/ HandleApprove(c) \/ HandleReject(c)
       /\ UNCHANGED sheet

\* The assistant proposes a change to the row as it is when it is read.
ReadForProposal(p, r, v) ==
    /\ proposed[p] = NoProposal /\ RowFree(r)
    /\ v # invoices[r].value
    /\ proposed' = [proposed EXCEPT ![p] =
          [status |-> "read", row |-> r, before |-> invoices[r].value, value |-> v,
           expected |-> invoices[r].version]]
    /\ UNCHANGED <<invoices, changes, sheet, sheetCalls>>

\* The proposal is committed, or its request fails.
CreateProposal(p) ==
    /\ proposed[p].status = "read"
    /\ \/ proposed' = [proposed EXCEPT ![p].status = "pending"]
       \/ proposed' = [proposed EXCEPT ![p] = NoProposal]
    /\ UNCHANGED <<invoices, changes, sheet, sheetCalls>>

-----------------------------------------------------------------------------
(* The page: what the owner does *)

Editable == sheet.table # NoTable /\ ~sheet.loading /\ ~sheet.failed

\* What the row's cell shows: the draft, or else the value of the table.
Cell(r) == IF r \in DOMAIN sheet.drafts THEN sheet.drafts[r] ELSE sheet.table[r].value

\* A cell typed back to what the table has is no draft.
UpdateCell(r, text) ==
    /\ Editable /\ text # Cell(r)
    /\ sheet' = [sheet EXCEPT !.drafts =
          IF text = sheet.table[r].value THEN Restrict(@, DOMAIN @ \ {r})
          ELSE [q \in DOMAIN @ \cup {r} |-> IF q = r THEN text ELSE @[q]]]
    /\ UNCHANGED <<invoices, changes, proposed, sheetCalls>>

\* The bar below the table, also while the table is loading or has failed to load.
BarEnabled == sheet.drafts # <<>> /\ ~sheet.saving

Discard ==
    /\ BarEnabled
    /\ sheet' = [sheet EXCEPT !.drafts = <<>>]
    /\ UNCHANGED <<invoices, changes, proposed, sheetCalls>>

\* What normalizeDraft makes of the drafts; a text it refuses is not sent.  The
\* version is that of the row as shown now, not as it was typed over.
ChangeSet == [r \in DOMAIN sheet.drafts |->
    [expected |-> sheet.table[r].version, value |-> sheet.drafts[r], seen |-> sheet.table[r].value]]

SaveChanges ==
    /\ sheet.table # NoTable /\ BarEnabled
    /\ sheet' = [sheet EXCEPT !.saving = TRUE]
    /\ Ask(Request("save", None, ChangeSet))
    /\ UNCHANGED <<invoices, changes, proposed>>

\* The button toggles; opening asks for the list.
OpenProposals ==
    /\ sheet.pending > 0
    /\ sheet' = [sheet EXCEPT !.open = ~@]
    /\ IF sheet.open THEN UNCHANGED sheetCalls ELSE Ask(Request("list", None, None))
    /\ UNCHANGED <<invoices, changes, proposed>>

Listing == \E c \in sheetCalls : c.kind = "list" /\ c.stage # "unheard"

DecideProposal(p, action) ==
    /\ sheet.open /\ ~Listing /\ p \in sheet.list /\ sheet.deciding # p
    /\ sheet' = [sheet EXCEPT !.deciding = p]
    /\ Ask(Request(action, p, None))
    /\ UNCHANGED <<invoices, changes, proposed>>

Retry ==
    /\ sheet.failed
    /\ sheet' = [sheet EXCEPT !.loading = TRUE, !.failed = FALSE]
    /\ Ask(LoadCall(None))
    /\ UNCHANGED <<invoices, changes, proposed>>

\* The page is left and opened again: nobody waits for its requests any more.
\* (A request that only reads is forgotten with its answer, here and in Fail.)
Reopen ==
    /\ sheet' = Fresh
    /\ LET late == {c \in sheetCalls : c.stage # "answered" /\ c.kind \notin {"load", "list"}} IN
          /\ Cardinality(late) < MaxSheetCalls
          /\ sheetCalls' = {Unheard(c) : c \in late} \cup {LoadCall(None)}
    /\ UNCHANGED <<invoices, changes, proposed>>

-----------------------------------------------------------------------------
(* The page: what comes back *)

\* The load that follows an approval ends the decision as well.
TakeLoad(c) ==
    /\ c.kind = "load"
    /\ sheet' = [sheet EXCEPT !.table = c.answer.rows, !.pending = c.answer.pending, !.loading = FALSE,
                              !.deciding = IF c.arg = None THEN @ ELSE None]
    /\ sheetCalls' = sheetCalls \ {c}

\* Every draft goes, those typed since the click too.
TakeSave(c) ==
    /\ c.kind = "save"
    /\ sheet' = IF ~c.answer.ok THEN [sheet EXCEPT !.saving = FALSE]
                ELSE [sheet EXCEPT !.saving = FALSE, !.drafts = <<>>,
                                   !.table = WithRows(@, c.answer.rows)]   \* if there is one
    /\ sheetCalls' = sheetCalls \ {c}

TakeList(c) ==
    /\ c.kind = "list"
    /\ sheet' = [sheet EXCEPT !.list = c.answer]
    /\ sheetCalls' = sheetCalls \ {c}

Less(n) == IF n = 0 THEN 0 ELSE n - 1

TakeDecision(c) ==
    /\ c.kind \in Decisions
    /\ IF ~c.answer.ok
         THEN /\ sheet' = [sheet EXCEPT !.deciding = None]
              /\ sheetCalls' = sheetCalls \ {c}
         ELSE /\ sheet' = [sheet EXCEPT !.list = @ \ {c.arg}, !.pending = Less(@),
                              !.loading = (c.kind = "approve") \/ @, !.failed = (c.kind # "approve") /\ @,
                              !.deciding = IF c.kind = "approve" THEN @ ELSE None]
              /\ sheetCalls' = (sheetCalls \ {c})
                               \cup (IF c.kind = "approve" THEN {LoadCall(c.arg)} ELSE {})

Take ==
    \E c \in sheetCalls :
       /\ c.stage = "answered"
       /\ TakeLoad(c) \/ TakeSave(c) \/ TakeList(c) \/ TakeDecision(c)
       /\ UNCHANGED <<invoices, changes, proposed>>

\* No answer comes, or an error of the proxy: the API may have the request or get it yet.
Fail ==
    \E c \in sheetCalls :
       /\ c.stage # "unheard"
       /\ sheet' = CASE c.kind = "load" -> [sheet EXCEPT !.loading = FALSE, !.failed = TRUE,
                                               !.deciding = IF c.arg = None THEN @ ELSE None]
                     [] c.kind = "save" -> [sheet EXCEPT !.saving = FALSE]
                     [] c.kind = "list" -> sheet
                     [] OTHER -> [sheet EXCEPT !.deciding = None]
       /\ sheetCalls' = (sheetCalls \ {c}) \cup
                        (IF c.stage = "sent" /\ c.kind \notin {"load", "list"} THEN {Unheard(c)} ELSE {})
       /\ UNCHANGED <<invoices, changes, proposed>>

\* A request nobody waits for was never received.
Drop ==
    \E c \in sheetCalls :
       /\ c.stage = "unheard"
       /\ sheetCalls' = sheetCalls \ {c}
       /\ UNCHANGED <<invoices, changes, proposed, sheet>>

Next ==
    \/ Handle \/ Take \/ Fail \/ Drop
    \/ \E p \in ProposalIds, r \in Rows, v \in Suggested : ReadForProposal(p, r, v)
    \/ \E p \in ProposalIds : CreateProposal(p)
    \/ \E r \in Rows, text \in Typed : UpdateCell(r, text)
    \/ Discard \/ SaveChanges \/ OpenProposals \/ Retry \/ Reopen
    \/ \E p \in ProposalIds, action \in Decisions : DecideProposal(p, action)

Spec == Init /\ [][Next]_vars

-----------------------------------------------------------------------------
\* A cell is replaced only by a change that its author made in sight of the value
\* it replaces: the owner's, when the save was clicked; the assistant's, when the
\* owner approves the difference the proposal shows.  A request that is late, sent
\* again, or overtaken by another change is refused (workbooks.py:100-148, 202-273),
\* while a SELECT ... FOR UPDATE locks what it reads.  (Without: README, section 4.)
ReplacedInSight ==
    \A r \in Rows : invoices'[r] # invoices[r] =>
       \/ \E c \in sheetCalls \ sheetCalls' :
             c.kind = "save" /\ r \in DOMAIN c.body /\ c.body[r].seen = invoices[r].value
       \/ \E p \in ProposalIds :
             /\ proposed[p].status = "pending" /\ proposed'[p].status = "approved"
             /\ proposed[p].row = r /\ proposed[p].before = invoices[r].value
=============================================================================
