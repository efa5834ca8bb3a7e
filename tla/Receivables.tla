----------------------------- MODULE Receivables -----------------------------
(***************************************************************************)
(* Receivables, their payments and the change proposals about them, as     *)
(* PersonalFinanceService of the API keeps them (apps/api,                 *)
(* services/personal_finance.py).                                          *)
(*                                                                         *)
(* Clients are concurrent requests: the owner's own changes, an agent's    *)
(* proposals, the owner's decisions on them.  Every await of a request is  *)
(* a point where other requests run, so a request is a sequence of steps:  *)
(* each SELECT is one, and the writes of the transaction with its commit   *)
(* are one, because nobody sees them before the commit.  An error response *)
(* and a crash of the API both roll the transaction back.                  *)
(*                                                                         *)
(* The service reads with SELECT ... FOR UPDATE.  PostgreSQL locks the row *)
(* until the end of the transaction (RowLocks = TRUE).  SQLite, which the  *)
(* packaged app uses (database.py), has no such clause, and its driver     *)
(* opens the transaction at the first write: the row read earlier is then  *)
(* an unprotected copy (RowLocks = FALSE).                                 *)
(*                                                                         *)
(* A payment and its income transaction, a reversal and its expense        *)
(* transaction are inserted together with one amount; the model keeps one  *)
(* row for both.  Debtor, due date and description are left out: a change   *)
(* of them only makes a new version, as a change of the amount does.       *)
(***************************************************************************)
EXTENDS Integers, FiniteSets

CONSTANTS
    Clients,            \* concurrent requests
    ReceivableIds, PaymentIds, ProposalIds,     \* public ids: uuid4, so never reused
    Keys,               \* idempotency keys of the assistant's proposals
    Opening, Revised,   \* amounts a receivable is created for and revised to
    Amounts,            \* amounts of payments
    MaxVersion,         \* bound on the number of changes of one receivable
    RowLocks,           \* does FOR UPDATE lock the row it reads?
    None

ASSUME AmountsAssumption == (Opening \cup Revised \cup Amounts) \subseteq Nat \ {0}
ASSUME RowLocksAssumption == RowLocks \in BOOLEAN
ASSUME MaxVersionAssumption == MaxVersion \in Nat \ {0}
ASSUME NoneAssumption ==
    /\ None \notin ProposalIds /\ None \notin Keys

VARIABLES
    receivables,        \* the rows by id, Absent before the insert
    payments,           \* the payments by id, each with its reversal
    events,             \* receivable_events: [receivable, version it made, proposal]
    proposals,          \* the change proposals by id
    requests            \* each client's request: where it stands and what it has read

vars == <<receivables, payments, events, proposals, requests>>
tables == <<receivables, payments, events, proposals>>

-----------------------------------------------------------------------------
Versions == 1..MaxVersion

Rows == [version : Versions, original : Opening \cup Revised, received : Nat,
         status : {"open", "partial", "paid"}]
Absent == [version |-> 0, original |-> 0, received |-> 0, status |-> "none"]

\* A payment, and whether receivable_payment_reversals has a row for it.
PaymentRows ==
    [status : {"booked", "reversed"}, receivable : ReceivableIds, amount : Amounts]
NoPayment == [status |-> "none", receivable |-> None, amount |-> 0]

\* What a change does, sent by the owner or stored in a proposal's payload.
Creates == [action : {"receivable_create"}, original : Opening]
Updates ==
    [action : {"receivable_update"}, receivable : ReceivableIds, expected : Versions,
     original : Revised]
Bookings ==
    [action : {"payment_record"}, receivable : ReceivableIds, expected : Versions,
     amount : Amounts]
Reversals ==
    [action : {"payment_reverse"}, receivable : ReceivableIds, expected : Versions,
     payment : PaymentIds]
Operations == Creates \cup Updates \cup Bookings \cup Reversals

ProposalRows ==
    [status : {"pending", "approved", "rejected"}, op : Operations, key : Keys \cup {None}]
NoProposal == [status |-> "none", op |-> None, key |-> None]

\* A request names a receivable by its version when it is sent; that goes stale
\* while the request runs or its proposal waits.  One sent stale is refused.
\* Bound: a change of version MaxVersion is never requested.
Requestable(op) ==
    op.action # "receivable_create" =>
       /\ op.expected = receivables[op.receivable].version
       /\ op.expected < MaxVersion
       /\ op.action = "payment_reverse" => payments[op.payment].status # "none"

\* What a request does next.
Steps == {"idle", "find_target", "insert", "lock_receivable", "read_payment", "commit"}

Idle == [step |-> "idle", task |-> "none", op |-> None, key |-> None, proposal |-> None,
         row |-> Absent]

Goto(c, step) == requests' = [requests EXCEPT ![c].step = step]

\* The end of a request: after its commit, or with a rollback.
Finish(c) == requests' = [requests EXCEPT ![c] = Idle]

\* The rows a transaction has locked: from its SELECT ... FOR UPDATE to its end.
HoldsProposal(c, id) == requests[c].proposal = id
HoldsReceivable(c, id) ==
    /\ requests[c].row # Absent
    /\ requests[c].op.receivable = id

\* Mutations of ProposalFree and ReceivableFree: the SELECT has no FOR UPDATE.
ProposalFree_Unlocked(c, id) == TRUE
ReceivableFree_Unlocked(c, id) == TRUE

ProposalFree(c, id) == RowLocks => \A d \in Clients \ {c} : ~HoldsProposal(d, id)
ReceivableFree(c, id) == RowLocks => \A d \in Clients \ {c} : ~HoldsReceivable(d, id)

\* set_receivable_status
StatusOf(received, original) ==
    IF received = original THEN "paid" ELSE IF received > 0 THEN "partial" ELSE "open"

-----------------------------------------------------------------------------
Init ==
    /\ receivables = [r \in ReceivableIds |-> Absent]
    /\ payments = [p \in PaymentIds |-> NoPayment]
    /\ events = {}
    /\ proposals = [p \in ProposalIds |-> NoProposal]
    /\ requests = [c \in Clients |-> Idle]

\* A request is in the model from its first SELECT on; one that is refused there
\* changes nothing and is left out.
Begin(c, step, task, op, key, proposal, row) ==
    /\ requests[c] = Idle
    /\ requests' = [requests EXCEPT ![c] =
          [step |-> step, task |-> task, op |-> op, key |-> key, proposal |-> proposal,
           row |-> row]]
    /\ UNCHANGED tables

\* An error, a lost connection or a crash of the API ends a request at any await.
Rollback(c) ==
    /\ requests[c] # Idle
    /\ Finish(c)
    /\ UNCHANGED tables

-----------------------------------------------------------------------------
(* create_change_proposal and create_assistant_change_proposal.            *)

\* proposal_target: no lock is taken.
TargetCurrent(op) ==
    op.action # "receivable_create" => receivables[op.receivable].version = op.expected

KeyUsed(key) == key # None /\ \E p \in ProposalIds : proposals[p].key = key

\* An agent proposes a change.
Propose(c, op) ==
    /\ Requestable(op)
    /\ TargetCurrent(op)
    /\ Begin(c, "insert", "propose", op, None, None, Absent)

\* The assistant proposes a change under a key.  A retry is answered with the
\* proposal its key made, or with a conflict.
ProposeWithKey(c, op, key) ==
    /\ Requestable(op)
    /\ ~KeyUsed(key)
    /\ Begin(c, "find_target", "propose", op, key, None, Absent)

FindTarget(c) ==
    /\ requests[c].step = "find_target"
    /\ IF TargetCurrent(requests[c].op) THEN Goto(c, "insert") ELSE Finish(c)
    /\ UNCHANGED tables

\* Of two first requests with one key, the unique constraint rolls one back; it
\* is answered with the proposal of the other.
InsertProposal(c) ==
    /\ requests[c].step = "insert"
    /\ IF KeyUsed(requests[c].key)
       THEN UNCHANGED proposals
       ELSE \E p \in ProposalIds :
              /\ proposals[p] = NoProposal
              /\ proposals' = [proposals EXCEPT ![p] =
                    [status |-> "pending", op |-> requests[c].op, key |-> requests[c].key]]
    /\ Finish(c)
    /\ UNCHANGED <<receivables, payments, events>>

-----------------------------------------------------------------------------
(* The reads of a change and of a decision.                                *)

\* Mutation of Applicable: ensure_version is not called.
Applicable_AnyVersion(op, row) ==
    /\ op.action = "payment_record" => op.amount <= row.original - row.received
    /\ op.action = "receivable_update" =>
          op.original >= row.received /\ op.original # row.original

\* ensure_version, and the checks of apply_payment and apply_receivable_update.
Applicable(op, row) ==
    /\ row.version = op.expected
    /\ op.action = "payment_record" => op.amount <= row.original - row.received
    /\ op.action = "receivable_update" =>
          op.original >= row.received /\ op.original # row.original

StepAfterLock(op) == IF op.action = "payment_reverse" THEN "read_payment" ELSE "commit"

\* The owner creates a receivable: nothing is read.
Create(c, op) ==
    /\ op.action = "receivable_create"
    /\ Begin(c, "commit", "change", op, None, None, Absent)

\* The owner changes a receivable, or records or reverses a payment: lock_receivable
\* and the checks that follow it without an await.
Change(c, op) ==
    /\ op.action # "receivable_create"
    /\ Requestable(op)
    /\ ReceivableFree(c, op.receivable)
    /\ Applicable(op, receivables[op.receivable])
    /\ Begin(c, StepAfterLock(op), "change", op, None, None, receivables[op.receivable])

\* lock_proposal: only a pending proposal is decided.
Decide(c, id, task) ==
    /\ ProposalFree(c, id)
    /\ proposals[id].status = "pending"
    /\ Begin(c, IF task = "reject" \/ proposals[id].op.action = "receivable_create"
                THEN "commit" ELSE "lock_receivable",
             task, proposals[id].op, None, id, Absent)

\* approve_change_proposal locks the receivable while it holds the proposal.
LockReceivable(c) ==
    LET op == requests[c].op IN
    /\ requests[c].step = "lock_receivable"
    /\ ReceivableFree(c, op.receivable)
    /\ IF Applicable(op, receivables[op.receivable])
       THEN requests' = [requests EXCEPT ![c].row = receivables[op.receivable],
                                         ![c].step = StepAfterLock(op)]
       ELSE Finish(c)
    /\ UNCHANGED tables

\* apply_payment_reversal: a payment of this receivable that is not reversed.
ReadPayment(c) ==
    LET op == requests[c].op IN
    /\ requests[c].step = "read_payment"
    /\ IF payments[op.payment].status = "booked" /\ payments[op.payment].receivable = op.receivable
       THEN Goto(c, "commit")
       ELSE Finish(c)
    /\ UNCHANGED tables

-----------------------------------------------------------------------------
(* The writes and the commit.                                              *)

\* The row an operation makes of the row its transaction read.
Applied(op, row) ==
    LET original == IF op.action = "receivable_update" THEN op.original ELSE row.original
        received == CASE op.action = "payment_record"  -> row.received + op.amount
                      [] op.action = "payment_reverse" -> row.received - payments[op.payment].amount
                      [] OTHER                         -> row.received
    IN  [version |-> row.version + 1, original |-> original, received |-> received,
         status |-> StatusOf(received, original)]

\* The UPDATE statement names the columns the transaction changed, no others.
Written(stored, read, new) ==
    [version  |-> new.version,
     original |-> IF new.original # read.original THEN new.original ELSE stored.original,
     received |-> IF new.received # read.received THEN new.received ELSE stored.received,
     status   |-> IF new.status # read.status THEN new.status ELSE stored.status]

\* The check constraints of receivables.
Storable(row) == row.received >= 0 /\ row.received <= row.original

AddEvent(r, version, proposal) ==
    events' = events \cup {[receivable |-> r, version |-> version, proposal |-> proposal]}

\* The decision is written with the change it approves.
Approve(c) ==
    proposals' = IF requests[c].task = "approve"
                 THEN [proposals EXCEPT ![requests[c].proposal].status = "approved"]
                 ELSE proposals

CommitCreate(c) ==
    LET op == requests[c].op IN
    /\ requests[c].step = "commit" /\ requests[c].task # "reject"
    /\ op.action = "receivable_create"
    /\ \E r \in ReceivableIds :
          /\ receivables[r] = Absent
          /\ receivables' = [receivables EXCEPT ![r] =
                [version |-> 1, original |-> op.original, received |-> 0,
                 status |-> "open"]]
          /\ AddEvent(r, 1, requests[c].proposal)
    /\ Approve(c)
    /\ Finish(c)
    /\ UNCHANGED payments

\* The rows of the payment tables that go with the change.  The unique constraint
\* on the reversal's payment stands behind the check of ReadPayment.
BookPayment(op) ==
    CASE op.action = "payment_record" ->
            \E p \in PaymentIds :
              /\ payments[p] = NoPayment
              /\ payments' = [payments EXCEPT ![p] =
                    [status |-> "booked", receivable |-> op.receivable, amount |-> op.amount]]
      [] op.action = "payment_reverse" ->
            /\ payments[op.payment].status = "booked"
            /\ payments' = [payments EXCEPT ![op.payment].status = "reversed"]
      [] OTHER -> UNCHANGED payments

CommitChange(c) ==
    LET op == requests[c].op
        r == op.receivable
        row == Written(receivables[r], requests[c].row, Applied(op, requests[c].row))
    IN
    /\ requests[c].step = "commit" /\ requests[c].task # "reject"
    /\ op.action # "receivable_create"
    /\ Storable(row)
    /\ receivables' = [receivables EXCEPT ![r] = row]
    /\ BookPayment(op)
    /\ AddEvent(r, row.version, requests[c].proposal)
    /\ Approve(c)
    /\ Finish(c)

CommitReject(c) ==
    /\ requests[c].step = "commit" /\ requests[c].task = "reject"
    /\ proposals' = [proposals EXCEPT ![requests[c].proposal].status = "rejected"]
    /\ Finish(c)
    /\ UNCHANGED <<receivables, payments, events>>

Next ==
    \E c \in Clients :
       \/ \E op \in Operations :
             \/ Create(c, op)
             \/ Change(c, op)
             \/ Propose(c, op)
             \/ \E key \in Keys : ProposeWithKey(c, op, key)
       \/ \E p \in ProposalIds, task \in {"approve", "reject"} : Decide(c, p, task)
       \/ FindTarget(c)
       \/ InsertProposal(c)
       \/ LockReceivable(c)
       \/ ReadPayment(c)
       \/ CommitCreate(c)
       \/ CommitChange(c)
       \/ CommitReject(c)
       \/ Rollback(c)

Spec == Init /\ [][Next]_vars

-----------------------------------------------------------------------------
\* Every row has its columns' types, and a request holds what its step needs.
TypeOK ==
    /\ receivables \in [ReceivableIds -> Rows \cup {Absent}]
    /\ payments \in [PaymentIds -> PaymentRows \cup {NoPayment}]
    /\ events \subseteq [receivable : ReceivableIds, version : Versions,
                         proposal : ProposalIds \cup {None}]
    /\ proposals \in [ProposalIds -> ProposalRows \cup {NoProposal}]
    /\ requests \in [Clients ->
          [step : Steps, task : {"none", "change", "propose", "approve", "reject"},
           op : Operations \cup {None}, key : Keys \cup {None},
           proposal : ProposalIds \cup {None}, row : Rows \cup {Absent}]]

\* What the payments of a receivable that were not reversed add up to, counted
\* unit by unit.
Units(r) ==
    UNION {{p} \X (1..payments[p].amount) :
             p \in {q \in PaymentIds : payments[q].status = "booked" /\ payments[q].receivable = r}}
Booked(r) == Cardinality(Units(r))

\* ADR 0005: the outstanding amount and the payment history remain consistent.  The
\* received amount of a receivable is the sum of its payments that stand, and its
\* status says whether it is open, partly paid or paid.
LedgerConsistent ==
    \A r \in ReceivableIds : receivables[r] # Absent =>
        /\ receivables[r].received = Booked(r)
        /\ receivables[r].status = StatusOf(receivables[r].received, receivables[r].original)

\* No change is lost: every version of a receivable was made by exactly one event
\* of its history, and no event made a version the row never had.
OneEventPerVersion ==
    /\ TypeOK
    /\ \A r \in ReceivableIds : \A v \in 1..receivables[r].version :
          \E e \in events : e.receivable = r /\ e.version = v
    /\ \A e \in events : e.version <= receivables[e.receivable].version
    /\ \A e, f \in events : e.receivable = f.receivable /\ e.version = f.version => e = f

\* The books agree: amounts, status, payments and history of every receivable.
BooksAgree == LedgerConsistent /\ OneEventPerVersion

\* A proposal changes the books once if it is approved and never otherwise, however
\* often and in whatever order it is decided; and one idempotency key makes one
\* proposal, so a retry cannot bring the same change twice.
ProposalAppliedOnce ==
    /\ \A e \in events : e.proposal # None => proposals[e.proposal].status = "approved"
    /\ \A p \in ProposalIds : proposals[p].status = "approved" =>
          \E e \in events : e.proposal = p
    /\ \A e, f \in events : e.proposal # None /\ e.proposal = f.proposal => e = f
    /\ \A p, q \in ProposalIds :
          proposals[p].key # None /\ proposals[p].key = proposals[q].key => p = q

\* Expected versions: a change is written over the very row it was checked against,
\* so a stale one fails visibly instead of overwriting a newer change (ADR 0005).
NoStaleWrite ==
    [][ \A r \in ReceivableIds :
          receivables[r] # Absent /\ receivables'[r] # receivables[r] =>
            \E c \in Clients :
               /\ requests[c].step = "commit" /\ requests'[c] = Idle
               /\ requests[c].op.receivable = r
               /\ requests[c].op.expected = receivables[r].version
               /\ requests[c].row = receivables[r] ]_vars

=============================================================================
