--------------------------- MODULE ReceivablesProofs ---------------------------
(* What is proved of Receivables where the database locks the rows that a     *)
(* request reads, for every number of concurrent requests, receivables,       *)
(* payments and proposals: the books agree, an approved proposal is applied   *)
(* once, and no change is written over a row it was not checked against.      *)
EXTENDS Receivables, FiniteSetTheorems, TLAPS

-----------------------------------------------------------------------------
(* The inductive invariant *)

\* Every change that is asked for or proposed leaves room for the version it makes.
Bounded(op) == op \in Operations /\ (op.action # "receivable_create" => op.expected < MaxVersion)
RoomForVersions ==
    /\ \A c \in Clients : requests[c].step # "idle" => Bounded(requests[c].op)
    /\ \A p \in ProposalIds : proposals[p].status # "none" => Bounded(proposals[p].op)

\* What each step of a request has in hand.
RequestsInStep ==
    \A c \in Clients :
        LET q == requests[c] IN
        /\ q.step = "idle" => q = Idle
        /\ q.task \in {"approve", "reject"} <=> q.proposal # None
        /\ q.step \in {"find_target", "insert"} => q.task = "propose"
        /\ q.step = "lock_receivable" =>
              q.task = "approve" /\ q.row = Absent /\ q.op.action # "receivable_create"
        /\ q.step = "read_payment" => q.row # Absent /\ q.op.action = "payment_reverse"
        /\ q.step = "commit" /\ q.task # "reject" /\ q.op.action # "receivable_create" => q.row # Absent

\* A row that was read is the stored one, passed the checks, and is nobody else's.
RowsHeld ==
    /\ \A c \in Clients : requests[c].row # Absent =>
          LET op == requests[c].op IN
          /\ op.action # "receivable_create"
          /\ requests[c].row = receivables[op.receivable]
          /\ Applicable(op, requests[c].row)
    /\ \A c, d \in Clients : requests[c].row # Absent /\ requests[d].row # Absent
          /\ requests[c].op.receivable = requests[d].op.receivable => c = d

\* A proposal under decision is pending, and one request decides it.
ProposalsHeld ==
    /\ \A c \in Clients : requests[c].proposal # None => proposals[requests[c].proposal].status = "pending"
    /\ \A c, d \in Clients : requests[c].proposal # None /\ requests[c].proposal = requests[d].proposal => c = d

\* A payment belongs to a receivable that exists; one that is about to be reversed
\* belongs to the receivable under change.
PaymentsKnown ==
    /\ \A p \in PaymentIds : payments[p].status # "none" => receivables[payments[p].receivable] # Absent
    /\ \A c \in Clients :
          LET q == requests[c] IN
          q.step = "commit" /\ q.task # "reject" /\ q.op.action = "payment_reverse" =>
             payments[q.op.payment].status # "none" /\ payments[q.op.payment].receivable = q.op.receivable

\* Only finitely many payments were made so far.
FiniteBooks == \A r \in ReceivableIds : IsFiniteSet(Units(r))

IInv ==
    /\ TypeOK
    /\ RoomForVersions /\ RequestsInStep /\ RowsHeld /\ ProposalsHeld /\ PaymentsKnown
    /\ FiniteBooks /\ BooksAgree /\ ProposalAppliedOnce

-----------------------------------------------------------------------------
(* Steps that only read: one request moves on, the tables stay *)

\* The books of receivables look at nothing but their tables.
LEMMA BooksKept ==
    ASSUME IInv, UNCHANGED <<receivables, payments, events>>
    PROVE  FiniteBooks' /\ (TypeOK' => BooksAgree')
<1>1. FiniteBooks' /\ LedgerConsistent'
  BY DEF IInv, BooksAgree, FiniteBooks, LedgerConsistent, Booked, Units
<1>2. TypeOK' => OneEventPerVersion'
  BY DEF IInv, BooksAgree, OneEventPerVersion
<1> QED BY <1>1, <1>2 DEF BooksAgree

\* Steps that leave the tables alone leave alone what is said of them.
LEMMA ReadsKeepBooks ==
    ASSUME IInv, UNCHANGED tables
    PROVE  FiniteBooks' /\ (TypeOK' => BooksAgree') /\ ProposalAppliedOnce'
<1>1. ProposalAppliedOnce'
  BY DEF IInv, tables, ProposalAppliedOnce
<1> QED BY <1>1, BooksKept DEF tables

\* A read, a lock, a refusal or the end of a request keeps the invariant.
LEMMA ReadsKeepIInv ==
    ASSUME IInv, RowLocks, NEW c \in Clients,
           \/ \E op \in Operations : Create(c, op)
           \/ \E op \in Operations : Change(c, op)
           \/ \E op \in Operations : Propose(c, op)
           \/ \E op \in Operations, key \in Keys : ProposeWithKey(c, op, key)
           \/ \E p \in ProposalIds, task \in {"approve", "reject"} : Decide(c, p, task)
           \/ FindTarget(c)
           \/ LockReceivable(c)
           \/ ReadPayment(c)
           \/ Rollback(c)
    PROVE  IInv'
<1> USE NoneAssumption DEF IInv, TypeOK, tables
<1>1. CASE \E op \in Operations : Create(c, op)
  <2>1. TypeOK'
    BY <1>1 DEF Create, Begin, TypeOK, Idle, Absent, NoPayment, NoProposal, Rows,
       PaymentRows, ProposalRows, Versions, Steps
  <2>2. RoomForVersions'
    BY <1>1 DEF Create, Begin, RoomForVersions, Bounded, Idle
  <2>3. RequestsInStep'
    BY <1>1 DEF Create, Begin, RequestsInStep, Idle, Absent
  <2>4. RowsHeld'
    BY <1>1 DEF Create, Begin, RowsHeld, Idle, ReceivableFree, HoldsReceivable
  <2>5. ProposalsHeld'
    BY <1>1 DEF Create, Begin, ProposalsHeld, Idle, ProposalFree, HoldsProposal
  <2>6. PaymentsKnown'
    BY <1>1 DEF Create, Begin, PaymentsKnown, Idle
  <2> QED BY <1>1, <2>1, <2>2, <2>3, <2>4, <2>5, <2>6, ReadsKeepBooks DEF Create, Begin
<1>2. CASE \E op \in Operations : Change(c, op)
  <2>1. TypeOK'
    <3> PICK op \in Operations : Change(c, op)
      BY <1>2
    <3>1. op.receivable \in ReceivableIds
      BY DEF Change, Operations, Creates, Updates, Bookings, Reversals
    <3>2. receivables[op.receivable] \in Rows \cup {Absent} /\ StepAfterLock(op) \in Steps
      BY <3>1 DEF StepAfterLock, Steps
    <3> QED BY <3>2 DEF Change, Begin, TypeOK
  <2>2. RoomForVersions'
    BY <1>2 DEF Change, Begin, Requestable, StepAfterLock, RoomForVersions, Bounded, Idle
  <2>3. RequestsInStep'
    <3> PICK op \in Operations : Change(c, op)
      BY <1>2
    <3>1. receivables[op.receivable] # Absent
      BY DEF Change, Applicable, Absent, Operations, Creates, Updates, Bookings, Reversals,
         Versions
    <3> QED BY <3>1 DEF Change, Begin, StepAfterLock, RequestsInStep, Idle
  <2>4. RowsHeld'
    BY <1>2 DEF Change, Begin, Requestable, StepAfterLock, RowsHeld, Idle, ReceivableFree,
       HoldsReceivable
  <2>5. ProposalsHeld'
    BY <1>2 DEF Change, Begin, Requestable, StepAfterLock, ProposalsHeld, Idle,
       ProposalFree, HoldsProposal
  <2>6. PaymentsKnown'
    BY <1>2 DEF Change, Begin, Requestable, StepAfterLock, PaymentsKnown, Idle
  <2> QED BY <1>2, <2>1, <2>2, <2>3, <2>4, <2>5, <2>6, ReadsKeepBooks DEF Change, Begin,
     Requestable, StepAfterLock
<1>3. CASE \E op \in Operations : Propose(c, op)
  <2>1. TypeOK'
    BY <1>3 DEF Propose, Begin, Requestable, TypeOK, Idle, Absent, NoPayment, NoProposal,
       Rows, PaymentRows, ProposalRows, Versions, Steps
  <2>2. RoomForVersions'
    BY <1>3 DEF Propose, Begin, Requestable, RoomForVersions, Bounded, Idle
  <2>3. RequestsInStep'
    BY <1>3 DEF Propose, Begin, Requestable, RequestsInStep, Idle, Absent
  <2>4. RowsHeld'
    BY <1>3 DEF Propose, Begin, Requestable, RowsHeld, Idle, ReceivableFree, HoldsReceivable
  <2>5. ProposalsHeld'
    BY <1>3 DEF Propose, Begin, Requestable, ProposalsHeld, Idle, ProposalFree,
       HoldsProposal
  <2>6. PaymentsKnown'
    BY <1>3 DEF Propose, Begin, Requestable, PaymentsKnown, Idle
  <2> QED BY <1>3, <2>1, <2>2, <2>3, <2>4, <2>5, <2>6, ReadsKeepBooks DEF Propose, Begin,
     Requestable
<1>4. CASE \E op \in Operations, key \in Keys : ProposeWithKey(c, op, key)
  <2>1. TypeOK'
    BY <1>4 DEF ProposeWithKey, Begin, Requestable, TypeOK, Idle, Absent, NoPayment,
       NoProposal, Rows, PaymentRows, ProposalRows, Versions, Steps
  <2>2. RoomForVersions'
    BY <1>4 DEF ProposeWithKey, Begin, Requestable, RoomForVersions, Bounded, Idle
  <2>3. RequestsInStep'
    BY <1>4 DEF ProposeWithKey, Begin, Requestable, RequestsInStep, Idle, Absent
  <2>4. RowsHeld'
    BY <1>4 DEF ProposeWithKey, Begin, Requestable, RowsHeld, Idle, ReceivableFree,
       HoldsReceivable
  <2>5. ProposalsHeld'
    BY <1>4 DEF ProposeWithKey, Begin, Requestable, ProposalsHeld, Idle, ProposalFree,
       HoldsProposal
  <2>6. PaymentsKnown'
    BY <1>4 DEF ProposeWithKey, Begin, Requestable, PaymentsKnown, Idle
  <2> QED BY <1>4, <2>1, <2>2, <2>3, <2>4, <2>5, <2>6, ReadsKeepBooks DEF ProposeWithKey,
     Begin, Requestable
<1>5. CASE \E p \in ProposalIds, task \in {"approve", "reject"} : Decide(c, p, task)
  <2>1. TypeOK'
    BY <1>5 DEF Decide, Begin, TypeOK, Idle, Absent, NoPayment, NoProposal, Rows,
       PaymentRows, ProposalRows, Versions, Steps
  <2>2. RoomForVersions'
    BY <1>5 DEF Decide, Begin, RoomForVersions, Bounded, Idle
  <2>3. RequestsInStep'
    BY <1>5 DEF Decide, Begin, RequestsInStep, Idle, Absent
  <2>4. RowsHeld'
    BY <1>5 DEF Decide, Begin, RowsHeld, Idle, ReceivableFree, HoldsReceivable
  <2>5. ProposalsHeld'
    BY <1>5 DEF Decide, Begin, ProposalsHeld, Idle, ProposalFree, HoldsProposal
  <2>6. PaymentsKnown'
    BY <1>5 DEF Decide, Begin, PaymentsKnown, Idle
  <2> QED BY <1>5, <2>1, <2>2, <2>3, <2>4, <2>5, <2>6, ReadsKeepBooks DEF Decide, Begin
<1>6. CASE FindTarget(c)
  <2>1. TypeOK'
    BY <1>6 DEF FindTarget, Goto, Finish, TypeOK, Idle, Absent, NoPayment, NoProposal,
       Rows, PaymentRows, ProposalRows, Versions, Steps
  <2>2. RoomForVersions'
    BY <1>6 DEF FindTarget, Goto, Finish, RoomForVersions, Bounded, Idle
  <2>3. RequestsInStep'
    BY <1>6 DEF FindTarget, Goto, Finish, RequestsInStep, Idle, Absent
  <2>4. RowsHeld'
    BY <1>6 DEF FindTarget, Goto, Finish, RowsHeld, Idle, ReceivableFree, HoldsReceivable
  <2>5. ProposalsHeld'
    BY <1>6 DEF FindTarget, Goto, Finish, ProposalsHeld, Idle, ProposalFree, HoldsProposal
  <2>6. PaymentsKnown'
    BY <1>6 DEF FindTarget, Goto, Finish, PaymentsKnown, Idle
  <2> QED BY <1>6, <2>1, <2>2, <2>3, <2>4, <2>5, <2>6, ReadsKeepBooks DEF FindTarget, Goto,
     Finish
<1>7. CASE LockReceivable(c)
  <2>1. TypeOK'
    BY <1>7 DEF LockReceivable, Finish, StepAfterLock, TypeOK, Idle, Absent, NoPayment,
       NoProposal, Rows, PaymentRows, ProposalRows, Versions, Steps
  <2>2. RoomForVersions'
    BY <1>7 DEF LockReceivable, Finish, StepAfterLock, RoomForVersions, Bounded, Idle
  <2>3. RequestsInStep'
    BY <1>7 DEF LockReceivable, Finish, StepAfterLock, RequestsInStep, Idle, Absent
  <2>4. RowsHeld'
    BY <1>7 DEF LockReceivable, Finish, StepAfterLock, RowsHeld, Idle, ReceivableFree,
       HoldsReceivable
  <2>5. ProposalsHeld'
    BY <1>7 DEF LockReceivable, Finish, StepAfterLock, ProposalsHeld, Idle, ProposalFree,
       HoldsProposal
  <2>6. PaymentsKnown'
    BY <1>7 DEF LockReceivable, Finish, StepAfterLock, PaymentsKnown, Idle
  <2> QED BY <1>7, <2>1, <2>2, <2>3, <2>4, <2>5, <2>6, ReadsKeepBooks DEF LockReceivable,
     Finish, StepAfterLock
<1>8. CASE ReadPayment(c)
  <2>1. TypeOK'
    <3>1. requests' = [requests EXCEPT ![c].step = "commit"] \/ requests' = [requests EXCEPT ![c] = Idle]
      BY <1>8 DEF ReadPayment, Goto, Finish
    <3> QED BY <1>8, <3>1 DEF ReadPayment, TypeOK, Steps, Idle
  <2>2. RoomForVersions'
    BY <1>8 DEF ReadPayment, Goto, Finish, RoomForVersions, Bounded, Idle
  <2>3. RequestsInStep'
    BY <1>8 DEF ReadPayment, Goto, Finish, RequestsInStep, Idle, Absent
  <2>4. RowsHeld'
    BY <1>8 DEF ReadPayment, Goto, Finish, RowsHeld, Idle, ReceivableFree, HoldsReceivable
  <2>5. ProposalsHeld'
    BY <1>8 DEF ReadPayment, Goto, Finish, ProposalsHeld, Idle, ProposalFree, HoldsProposal
  <2>6. PaymentsKnown'
    BY <1>8 DEF ReadPayment, Goto, Finish, PaymentsKnown, Idle
  <2> QED BY <1>8, <2>1, <2>2, <2>3, <2>4, <2>5, <2>6, ReadsKeepBooks DEF ReadPayment,
     Goto, Finish
<1>9. CASE Rollback(c)
  <2>1. TypeOK'
    BY <1>9 DEF Rollback, Finish, TypeOK, Idle, Absent, NoPayment, NoProposal, Rows,
       PaymentRows, ProposalRows, Versions, Steps
  <2>2. RoomForVersions'
    BY <1>9 DEF Rollback, Finish, RoomForVersions, Bounded, Idle
  <2>3. RequestsInStep'
    BY <1>9 DEF Rollback, Finish, RequestsInStep, Idle, Absent
  <2>4. RowsHeld'
    BY <1>9 DEF Rollback, Finish, RowsHeld, Idle, ReceivableFree, HoldsReceivable
  <2>5. ProposalsHeld'
    BY <1>9 DEF Rollback, Finish, ProposalsHeld, Idle, ProposalFree, HoldsProposal
  <2>6. PaymentsKnown'
    BY <1>9 DEF Rollback, Finish, PaymentsKnown, Idle
  <2> QED BY <1>9, <2>1, <2>2, <2>3, <2>4, <2>5, <2>6, ReadsKeepBooks DEF Rollback, Finish
<1> QED BY <1>1, <1>2, <1>3, <1>4, <1>5, <1>6, <1>7, <1>8, <1>9

-----------------------------------------------------------------------------
(* Steps that write one table *)

\* A new proposal is pending and has no event yet.
LEMMA InsertKeepsIInv ==
    ASSUME IInv, NEW c \in Clients, InsertProposal(c)
    PROVE  IInv'
<1> USE NoneAssumption
<1>1. Bounded(requests[c].op) /\ requests[c].op \in Operations /\ requests[c].key \in Keys \cup {None}
  BY DEF IInv, TypeOK, InsertProposal, RoomForVersions, Bounded
<1>2. requests' = [requests EXCEPT ![c] = Idle]
  BY DEF InsertProposal, Finish
<1>3. CASE UNCHANGED proposals
  <2>1. TypeOK'
    BY <1>2, <1>3 DEF IInv, TypeOK, InsertProposal, Idle, Steps
  <2>2. RoomForVersions' /\ RequestsInStep' /\ RowsHeld' /\ ProposalsHeld' /\ PaymentsKnown'
    BY <1>2, <1>3 DEF IInv, InsertProposal, RoomForVersions, RequestsInStep, RowsHeld,
       ProposalsHeld,
       PaymentsKnown, Idle
  <2>3. ProposalAppliedOnce'
    BY <1>3 DEF IInv, InsertProposal, ProposalAppliedOnce
  <2> QED BY <2>1, <2>2, <2>3, BooksKept DEF InsertProposal, IInv
<1>4. ASSUME NEW p \in ProposalIds, proposals[p] = NoProposal, ~KeyUsed(requests[c].key),
             proposals' = [proposals EXCEPT ![p] =
                 [status |-> "pending", op |-> requests[c].op, key |-> requests[c].key]]
      PROVE  IInv'
  <2>1. TypeOK'
    BY <1>1, <1>2, <1>4 DEF IInv, TypeOK, InsertProposal, ProposalRows, Idle, Steps
  <2>2. RoomForVersions'
    BY <1>1, <1>2, <1>4 DEF IInv, TypeOK, RoomForVersions, Idle, Bounded
  <2>3. RequestsInStep' /\ RowsHeld' /\ PaymentsKnown'
    BY <1>2, <1>4 DEF IInv, TypeOK, InsertProposal, RequestsInStep, RowsHeld,
       PaymentsKnown, Idle
  <2>4. ProposalsHeld'
    BY <1>2, <1>4 DEF IInv, TypeOK, ProposalsHeld, NoProposal, Idle
  <2>5. ProposalAppliedOnce'
    BY <1>4 DEF IInv, TypeOK, InsertProposal, ProposalAppliedOnce, KeyUsed, NoProposal
  <2> QED BY <2>1, <2>2, <2>3, <2>4, <2>5, BooksKept DEF InsertProposal, IInv
<1> QED BY <1>3, <1>4 DEF InsertProposal

\* A rejected proposal was pending, so that no event is its own.
LEMMA RejectKeepsIInv ==
    ASSUME IInv, NEW c \in Clients, CommitReject(c)
    PROVE  IInv'
<1> USE NoneAssumption
<1>1. /\ requests[c].proposal \in ProposalIds
      /\ proposals[requests[c].proposal].status = "pending"
  BY DEF IInv, TypeOK, RequestsInStep, ProposalsHeld, CommitReject
<1>2. requests' = [requests EXCEPT ![c] = Idle]
  BY DEF CommitReject, Finish
<1>3. TypeOK'
  BY <1>1, <1>2 DEF IInv, TypeOK, CommitReject, ProposalRows, NoProposal, Idle, Steps
<1>4. RoomForVersions' /\ RequestsInStep' /\ RowsHeld' /\ PaymentsKnown'
  BY <1>1, <1>2 DEF IInv, TypeOK, CommitReject, RoomForVersions, RequestsInStep, RowsHeld,
     PaymentsKnown, Idle
<1>5. ProposalsHeld' /\ ProposalAppliedOnce'
  BY <1>1, <1>2 DEF IInv, TypeOK, CommitReject, ProposalsHeld, ProposalAppliedOnce, Idle
<1> QED BY <1>3, <1>4, <1>5, BooksKept DEF CommitReject, IInv

-----------------------------------------------------------------------------
(* The commit of a change *)

\* A commit of a change leaves the requests and the proposals in order.
LEMMA ApproveKeeps ==
    ASSUME IInv, NEW c \in Clients,
           requests[c].step = "commit", requests[c].task # "reject", Approve(c), Finish(c)
    PROVE  /\ proposals' \in [ProposalIds -> ProposalRows \cup {NoProposal}]
           /\ RoomForVersions' /\ RequestsInStep' /\ ProposalsHeld'
<1> USE NoneAssumption
<1>1. proposals' \in [ProposalIds -> ProposalRows \cup {NoProposal}]
  BY DEF IInv, TypeOK, Approve, ProposalRows, NoProposal, RequestsInStep, ProposalsHeld
<1>2. RoomForVersions'
  BY DEF IInv, TypeOK, Approve, Finish, RoomForVersions, Idle, ProposalsHeld, RequestsInStep
<1>3. RequestsInStep'
  BY DEF IInv, TypeOK, Finish, RequestsInStep, Idle
<1>4. ProposalsHeld'
  BY DEF IInv, TypeOK, Approve, Finish, ProposalsHeld, Idle, RequestsInStep
<1> QED BY <1>1, <1>2, <1>3, <1>4

\* The event of a commit is the only one of its proposal, which is approved with it.
LEMMA EventOfProposal ==
    ASSUME IInv, NEW c \in Clients, NEW r, NEW v,
           requests[c].step = "commit", requests[c].task # "reject",
           Approve(c), AddEvent(r, v, requests[c].proposal)
    PROVE  ProposalAppliedOnce'
<1> USE NoneAssumption
<1>1. CASE requests[c].proposal = None
  BY <1>1 DEF IInv, TypeOK, ProposalAppliedOnce, Approve, AddEvent, RequestsInStep
<1>2. CASE requests[c].proposal # None
  <2>1. /\ requests[c].proposal \in ProposalIds /\ requests[c].task = "approve"
        /\ proposals[requests[c].proposal].status = "pending"
    BY <1>2 DEF IInv, TypeOK, RequestsInStep, ProposalsHeld
  <2> DEFINE id == requests[c].proposal
             new == [receivable |-> r, version |-> v, proposal |-> id]
  <2>2. /\ events' = events \cup {new} /\ new.proposal = id
        /\ proposals' = [proposals EXCEPT ![id].status = "approved"]
    BY <2>1 DEF AddEvent, Approve
  <2>3. \A e \in events : e.proposal # id
    BY <2>1, <1>2 DEF IInv, ProposalAppliedOnce
  <2>4. /\ \A p \in ProposalIds : proposals'[p].key = proposals[p].key
        /\ \A p \in ProposalIds \ {id} : proposals'[p] = proposals[p]
        /\ proposals'[id].status = "approved"
    BY <2>1, <2>2 DEF IInv, TypeOK, ProposalRows, NoProposal
  <2> HIDE DEF new, id
  <2>5. \A e \in events' : e.proposal # None => proposals'[e.proposal].status = "approved"
    BY <2>2, <2>3, <2>4 DEF IInv, TypeOK, ProposalAppliedOnce
  <2>6. \A p \in ProposalIds : proposals'[p].status = "approved" => \E e \in events' : e.proposal = p
    BY <2>2, <2>4 DEF IInv, ProposalAppliedOnce
  <2>7. \A e, f \in events' : e.proposal # None /\ e.proposal = f.proposal => e = f
    BY <2>2, <2>3 DEF IInv, ProposalAppliedOnce
  <2>8. \A p, q \in ProposalIds :
          proposals'[p].key # None /\ proposals'[p].key = proposals'[q].key => p = q
    BY <2>4 DEF IInv, ProposalAppliedOnce
  <2> QED BY <2>5, <2>6, <2>7, <2>8 DEF ProposalAppliedOnce
<1> QED BY <1>1, <1>2

\* The event of a commit is the only one of the version it makes.
LEMMA EventOfVersion ==
    ASSUME IInv, TypeOK', NEW r \in ReceivableIds, NEW p,
           receivables'[r].version = receivables[r].version + 1,
           \A q \in ReceivableIds \ {r} : receivables'[q] = receivables[q],
           AddEvent(r, receivables'[r].version, p)
    PROVE  OneEventPerVersion'
<1>1. receivables[r].version \in Nat
  BY DEF IInv, TypeOK, Rows, Absent, Versions
<1> DEFINE made == [receivable |-> r, version |-> receivables'[r].version, proposal |-> p]
<1>2. events' = events \cup {made} /\ made.receivable = r /\ made.version = receivables[r].version + 1
  BY DEF AddEvent
<1>3. \A e \in events : e.receivable \in ReceivableIds /\ e.version \in Int
  BY DEF IInv, TypeOK, Versions
<1> HIDE DEF made
<1>4. ASSUME NEW q \in ReceivableIds, NEW v \in 1..receivables'[q].version
      PROVE  \E e \in events' : e.receivable = q /\ e.version = v
  <2>1. CASE v \in 1..receivables[q].version
    BY <1>2, <2>1 DEF IInv, BooksAgree, OneEventPerVersion
  <2>2. CASE q = r /\ v = receivables[r].version + 1
    BY <1>2, <2>2
  <2> QED BY <1>1, <1>4, <2>1, <2>2
<1>5. \A e \in events' : e.version <= receivables'[e.receivable].version
  BY <1>1, <1>2, <1>3 DEF IInv, BooksAgree, OneEventPerVersion
<1>6. \A e, f \in events' : e.receivable = f.receivable /\ e.version = f.version => e = f
  BY <1>1, <1>2, <1>3 DEF IInv, BooksAgree, OneEventPerVersion
<1> QED BY <1>4, <1>5, <1>6 DEF OneEventPerVersion

-----------------------------------------------------------------------------
(* Sums of payments *)

\* A payment has as many units as its amount says.
LEMMA UnitsOfAmount ==
    ASSUME NEW p, NEW n \in Nat
    PROVE  IsFiniteSet({p} \X (1..n)) /\ Cardinality({p} \X (1..n)) = n
<1>1. IsFiniteSet({p}) /\ Cardinality({p}) = 1
  BY FS_Singleton
<1>2. IsFiniteSet(1..n) /\ Cardinality(1..n) = n
  BY FS_Interval
<1>3. /\ IsFiniteSet({p} \X (1..n))
      /\ Cardinality({p} \X (1..n)) = Cardinality({p}) * Cardinality(1..n)
  BY <1>1, <1>2, FS_Product, Zenon
<1> QED BY <1>1, <1>2, <1>3

\* A set of units that others are added to.
LEMMA AddUnits ==
    ASSUME NEW S, NEW p, NEW n \in Nat, IsFiniteSet(S), \A i : <<p, i>> \notin S
    PROVE  /\ IsFiniteSet(S \cup ({p} \X (1..n)))
           /\ Cardinality(S \cup ({p} \X (1..n))) = Cardinality(S) + n
<1> DEFINE W == {p} \X (1..n)
<1>1. S \cap W = {}
  OBVIOUS
<1>2. Cardinality(S) \in Nat
  BY FS_CardinalityType
<1>3. Cardinality({}) = 0
  BY FS_EmptySet
<1>4. IsFiniteSet(W) /\ Cardinality(W) = n
  BY UnitsOfAmount
<1>5. /\ IsFiniteSet(S \cup W)
      /\ Cardinality(S \cup W)
           = Cardinality(S) + Cardinality(W) - Cardinality(S \cap W)
  BY <1>4, FS_Union, Zenon
<1>6. Cardinality(S \cap W) = 0
  BY <1>1, <1>3, Zenon
<1>7. Cardinality(S \cup W) = Cardinality(S) + n
  <2> HIDE DEF W
  <2> QED BY <1>2, <1>4, <1>5, <1>6
<1> QED BY <1>5, <1>7

\* A payment adds its amount to its receivable and nothing to any other.
LEMMA BookingAdds ==
    ASSUME IInv, NEW r \in ReceivableIds, NEW a \in Amounts, NEW p \in PaymentIds,
           payments[p] = NoPayment,
           payments' = [payments EXCEPT ![p] = [status |-> "booked", receivable |-> r, amount |-> a]]
    PROVE  /\ FiniteBooks'
           /\ Booked(r)' = Booked(r) + a
           /\ \A q \in ReceivableIds \ {r} : Booked(q)' = Booked(q)
<1>1. a \in Nat
  BY AmountsAssumption
<1>2. Units(r)' = Units(r) \cup ({p} \X (1..a))
  BY DEF Units, IInv, TypeOK, NoPayment
<1>3. \A q \in ReceivableIds \ {r} : Units(q)' = Units(q)
  BY DEF Units, IInv, TypeOK, NoPayment
<1>4. \A i : <<p, i>> \notin Units(r)
  BY DEF Units, NoPayment
<1>5. IsFiniteSet(Units(r))
  BY DEF IInv, FiniteBooks
<1>6. /\ IsFiniteSet(Units(r) \cup ({p} \X (1..a)))
      /\ Cardinality(Units(r) \cup ({p} \X (1..a))) = Cardinality(Units(r)) + a
  BY <1>1, <1>4, <1>5, AddUnits, Zenon
<1> QED BY <1>2, <1>3, <1>6 DEF FiniteBooks, Booked, IInv

\* A reversal takes the amount of its payment off its receivable.
LEMMA ReversalSubtracts ==
    ASSUME IInv, NEW p \in PaymentIds, payments[p].status = "booked",
           NEW r, r = payments[p].receivable, NEW a, a = payments[p].amount,
           payments' = [payments EXCEPT ![p].status = "reversed"]
    PROVE  /\ FiniteBooks'
           /\ Booked(r)' = Booked(r) - a
           /\ \A q \in ReceivableIds \ {r} : Booked(q)' = Booked(q)
<1>1. r \in ReceivableIds /\ a \in Nat
  BY AmountsAssumption DEF IInv, TypeOK, PaymentRows, NoPayment
<1>2. Units(r) = Units(r)' \cup ({p} \X (1..a))
  BY DEF Units, IInv, TypeOK
<1>3. \A q \in ReceivableIds \ {r} : Units(q)' = Units(q)
  BY DEF Units, IInv, TypeOK
<1>4. \A i : <<p, i>> \notin Units(r)'
  BY DEF Units, IInv, TypeOK
<1>5. IsFiniteSet(Units(r)) /\ IsFiniteSet(Units(r)')
  BY <1>1, <1>2, FS_Subset DEF IInv, FiniteBooks
<1>6. Cardinality(Units(r)' \cup ({p} \X (1..a))) = Cardinality(Units(r)') + a
  BY <1>1, <1>4, <1>5, AddUnits, Zenon
<1>7. Cardinality(Units(r)') \in Nat
  BY <1>5, FS_CardinalityType
<1>8. Booked(r)' = Booked(r) - a
  BY <1>1, <1>2, <1>6, <1>7 DEF Booked
<1> QED BY <1>1, <1>3, <1>5, <1>8 DEF FiniteBooks, Booked, IInv

-----------------------------------------------------------------------------
(* The commits of changes *)

\* A new receivable begins its books: one event, nothing booked.
LEMMA CreateKeepsIInv ==
    ASSUME IInv, NEW c \in Clients, CommitCreate(c)
    PROVE  IInv'
<1> USE NoneAssumption, MaxVersionAssumption
<1>1. PICK r \in ReceivableIds :
        /\ receivables[r] = Absent
        /\ receivables' = [receivables EXCEPT ![r] =
              [version |-> 1, original |-> requests[c].op.original, received |-> 0, status |-> "open"]]
        /\ AddEvent(r, 1, requests[c].proposal)
  BY DEF CommitCreate
<1>2. /\ requests[c].step = "commit" /\ requests[c].task # "reject" /\ Approve(c) /\ Finish(c)
      /\ UNCHANGED payments /\ requests[c].op.action = "receivable_create"
  BY DEF CommitCreate
<1>3. requests[c].op.original \in Opening /\ Opening \subseteq Nat \ {0}
  BY <1>2, AmountsAssumption DEF IInv, RoomForVersions, Bounded, Operations, Creates,
     Updates, Bookings, Reversals
<1>4. /\ RoomForVersions' /\ RequestsInStep' /\ ProposalsHeld'
      /\ proposals' \in [ProposalIds -> ProposalRows \cup {NoProposal}]
  BY <1>2, ApproveKeeps
<1>5. receivables' \in [ReceivableIds -> Rows \cup {Absent}]
  BY <1>1, <1>3 DEF IInv, TypeOK, Rows, Absent, Versions
<1>6. requests' = [requests EXCEPT ![c] = Idle]
  BY <1>2 DEF Finish
<1>7. TypeOK'
  BY <1>1, <1>2, <1>4, <1>5, <1>6 DEF IInv, TypeOK, AddEvent, Versions, Idle, Steps
<1>8. RowsHeld'
  BY <1>1, <1>6 DEF IInv, TypeOK, RowsHeld, Idle, Operations, Creates, Updates, Bookings,
     Reversals
<1>9. PaymentsKnown'
  BY <1>1, <1>2, <1>6 DEF IInv, TypeOK, PaymentsKnown, Idle, Absent
<1>10. FiniteBooks' /\ \A q \in ReceivableIds : Booked(q)' = Booked(q)
  BY <1>2 DEF IInv, FiniteBooks, Booked, Units
<1>11. Booked(r) = 0
  <2>1. Units(r) = {}
    BY <1>1 DEF IInv, PaymentsKnown, Units
  <2> QED BY <2>1, FS_EmptySet DEF Booked
<1>12. LedgerConsistent'
  BY <1>1, <1>3, <1>10, <1>11 DEF IInv, TypeOK, BooksAgree, LedgerConsistent, StatusOf
<1>13. OneEventPerVersion'
  <2>1. receivables'[r].version = 1 /\ receivables[r].version = 0
    BY <1>1 DEF IInv, TypeOK, Absent
  <2>2. \A q \in ReceivableIds \ {r} : receivables'[q] = receivables[q]
    BY <1>1 DEF IInv, TypeOK
  <2>3. AddEvent(r, receivables'[r].version, requests[c].proposal)
    BY <1>1, <2>1
  <2> QED BY <1>7, <2>1, <2>2, <2>3, EventOfVersion
<1>14. ProposalAppliedOnce'
  BY <1>1, <1>2, EventOfProposal
<1> QED BY <1>4, <1>7, <1>8, <1>9, <1>10, <1>12, <1>13, <1>14 DEF IInv, BooksAgree

\* A change is written over the row that was read, which nobody changed since.
LEMMA ChangedRow ==
    ASSUME IInv, NEW c \in Clients, CommitChange(c),
           NEW op, op = requests[c].op, NEW r, r = op.receivable, NEW old, old = receivables[r]
    PROVE  /\ op \in Updates \cup Bookings \cup Reversals /\ r \in ReceivableIds
           /\ requests[c].row = old /\ old # Absent /\ old \in Rows
           /\ op.expected = old.version /\ Applicable(op, old)
           /\ receivables' = [receivables EXCEPT ![r] = Applied(op, old)]
           /\ Applied(op, old) \in Rows
           /\ AddEvent(r, old.version + 1, requests[c].proposal)
<1>1. op \in Updates \cup Bookings \cup Reversals /\ r \in ReceivableIds /\ op.expected < MaxVersion
  BY DEF CommitChange, IInv, RoomForVersions, Bounded, Operations, Creates, Updates,
     Bookings, Reversals
<1>2. requests[c].row = old /\ old # Absent /\ Applicable(op, old)
  BY DEF CommitChange, IInv, RequestsInStep, RowsHeld
<1>3. old \in Rows /\ op.expected = old.version
  BY <1>1, <1>2 DEF IInv, TypeOK, Applicable
<1>4. Written(old, old, Applied(op, old)) = Applied(op, old) /\ Applied(op, old).version = old.version + 1
  BY DEF Written, Applied
<1>5. /\ Storable(Applied(op, old))
      /\ receivables' = [receivables EXCEPT ![r] = Applied(op, old)]
      /\ AddEvent(r, old.version + 1, requests[c].proposal)
  BY <1>2, <1>4 DEF CommitChange
<1>6. Applied(op, old) \in Rows
  <2>1. old.version + 1 \in Versions
    BY <1>1, <1>3, MaxVersionAssumption DEF Versions, Rows
  <2>2. Applied(op, old).original \in Opening \cup Revised
    BY <1>1, <1>3 DEF Applied, Rows, Updates, Bookings, Reversals
  <2>3. Applied(op, old).received \in Int
    <3>1. CASE op.action = "payment_record"
      BY <1>1, <1>3, <3>1, AmountsAssumption DEF Applied, Rows, Updates, Bookings, Reversals
    <3>2. CASE op.action = "payment_reverse"
      <4>1. op.payment \in PaymentIds
        BY <1>1, <3>2 DEF Updates, Bookings, Reversals
      <4>2. payments[op.payment].amount \in Int
        BY <4>1, AmountsAssumption DEF IInv, TypeOK, PaymentRows, NoPayment
      <4> QED BY <1>3, <3>2, <4>2 DEF Applied, Rows
    <3> QED BY <1>3, <3>1, <3>2 DEF Applied, Rows
  <2>4. Applied(op, old).received \in Nat
    BY <1>5, <2>3 DEF Storable
  <2> QED BY <2>1, <2>2, <2>4 DEF Applied, Rows, StatusOf
<1> QED BY <1>1, <1>2, <1>3, <1>5, <1>6

\* The payments after a change go with the amount it wrote.
LEMMA BookedWithChange ==
    ASSUME IInv, NEW c \in Clients, CommitChange(c),
           NEW op, op = requests[c].op, NEW r, r = op.receivable, NEW old, old = receivables[r]
    PROVE  /\ FiniteBooks'
           /\ Booked(r)' = Applied(op, old).received
           /\ \A q \in ReceivableIds \ {r} : Booked(q)' = Booked(q)
           /\ payments' \in [PaymentIds -> PaymentRows \cup {NoPayment}]
           /\ \A p \in PaymentIds : payments[p].status # "none" =>
                 payments'[p].status # "none" /\ payments'[p].receivable = payments[p].receivable
           /\ \A p \in PaymentIds : payments[p].status = "none" /\ payments'[p].status # "none" =>
                 payments'[p].receivable = r
<1>1. /\ op \in Updates \cup Bookings \cup Reversals /\ r \in ReceivableIds
      /\ requests[c].row = old /\ old # Absent /\ old \in Rows
  BY ChangedRow
<1>2. Booked(r) = old.received
  BY <1>1 DEF IInv, BooksAgree, LedgerConsistent
<1>3. BookPayment(op)
  BY DEF CommitChange
<1>4. CASE op.action = "payment_record"
  <2>1. PICK p \in PaymentIds :
          /\ payments[p] = NoPayment
          /\ payments' = [payments EXCEPT ![p] =
                [status |-> "booked", receivable |-> r, amount |-> op.amount]]
    BY <1>3, <1>4 DEF BookPayment
  <2>2. op.amount \in Amounts
    BY <1>1, <1>4 DEF Updates, Bookings, Reversals
  <2>3. /\ FiniteBooks' /\ Booked(r)' = Booked(r) + op.amount
        /\ \A q \in ReceivableIds \ {r} : Booked(q)' = Booked(q)
    BY <1>1, <2>1, <2>2, BookingAdds
  <2>4. Booked(r)' = Applied(op, old).received
    BY <1>2, <1>4, <2>3 DEF Applied
  <2>5. payments' \in [PaymentIds -> PaymentRows \cup {NoPayment}]
    BY <1>1, <2>1, <2>2 DEF IInv, TypeOK, PaymentRows
  <2> QED BY <2>1, <2>3, <2>4, <2>5 DEF IInv, TypeOK, NoPayment
<1>5. CASE op.action = "payment_reverse"
  <2>1. op.payment \in PaymentIds
    BY <1>1, <1>5 DEF Updates, Bookings, Reversals
  <2>2. /\ payments[op.payment].status = "booked"
        /\ payments' = [payments EXCEPT ![op.payment].status = "reversed"]
    BY <1>3, <1>5 DEF BookPayment
  <2>3. payments[op.payment].receivable = r
    BY <1>5 DEF IInv, PaymentsKnown, CommitChange
  <2>4. /\ FiniteBooks' /\ Booked(r)' = Booked(r) - payments[op.payment].amount
        /\ \A q \in ReceivableIds \ {r} : Booked(q)' = Booked(q)
    BY <2>1, <2>2, <2>3, ReversalSubtracts
  <2>5. Booked(r)' = Applied(op, old).received
    BY <1>2, <1>5, <2>4 DEF Applied
  <2>6. payments' \in [PaymentIds -> PaymentRows \cup {NoPayment}]
    BY <2>1, <2>2 DEF IInv, TypeOK, PaymentRows, NoPayment
  <2> QED BY <2>1, <2>2, <2>4, <2>5, <2>6 DEF IInv, TypeOK
<1>6. CASE op.action = "receivable_update"
  <2>1. UNCHANGED payments
    BY <1>3, <1>6 DEF BookPayment
  <2>2. FiniteBooks' /\ \A q \in ReceivableIds : Booked(q)' = Booked(q)
    BY <2>1 DEF IInv, FiniteBooks, Booked, Units
  <2>3. Applied(op, old).received = old.received
    BY <1>6 DEF Applied
  <2> QED BY <1>1, <1>2, <2>1, <2>2, <2>3 DEF IInv, TypeOK
<1> QED BY <1>1, <1>4, <1>5, <1>6 DEF Updates, Bookings, Reversals

\* A change of a receivable keeps the invariant, if its row was locked.
LEMMA ChangeKeepsIInv ==
    ASSUME IInv, NEW c \in Clients, CommitChange(c),
           NEW op, op = requests[c].op, NEW r, r = op.receivable, NEW old, old = receivables[r]
    PROVE  IInv'
<1> USE NoneAssumption
<1>1. /\ r \in ReceivableIds /\ requests[c].row = old /\ old # Absent /\ old \in Rows
      /\ receivables' = [receivables EXCEPT ![r] = Applied(op, old)]
      /\ Applied(op, old) \in Rows
      /\ AddEvent(r, old.version + 1, requests[c].proposal)
  BY ChangedRow
<1>2. /\ FiniteBooks' /\ Booked(r)' = Applied(op, old).received
      /\ \A q \in ReceivableIds \ {r} : Booked(q)' = Booked(q)
      /\ payments' \in [PaymentIds -> PaymentRows \cup {NoPayment}]
      /\ \A p \in PaymentIds : payments[p].status # "none" =>
            payments'[p].status # "none" /\ payments'[p].receivable = payments[p].receivable
      /\ \A p \in PaymentIds : payments[p].status = "none" /\ payments'[p].status # "none" =>
            payments'[p].receivable = r
  BY BookedWithChange
<1>3. /\ requests[c].step = "commit" /\ requests[c].task # "reject" /\ Approve(c) /\ Finish(c)
      /\ op.action # "receivable_create"
  BY DEF CommitChange
<1>4. /\ RoomForVersions' /\ RequestsInStep' /\ ProposalsHeld'
      /\ proposals' \in [ProposalIds -> ProposalRows \cup {NoProposal}]
  BY <1>3, ApproveKeeps
<1>5. requests' = [requests EXCEPT ![c] = Idle]
  BY <1>3 DEF Finish
<1>6. receivables'[r] = Applied(op, old) /\ \A q \in ReceivableIds \ {r} : receivables'[q] = receivables[q]
  BY <1>1 DEF IInv, TypeOK
<1>7. Applied(op, old).version = old.version + 1 /\ Applied(op, old) # Absent
  BY <1>1 DEF Applied, Rows, Absent, Versions
<1>8. TypeOK'
  <2>1. receivables' \in [ReceivableIds -> Rows \cup {Absent}]
    BY <1>1 DEF IInv, TypeOK
  <2>2. old.version + 1 \in Versions
    BY <1>1, <1>7 DEF Rows
  <2>3. events' \subseteq [receivable : ReceivableIds, version : Versions, proposal : ProposalIds \cup {None}]
    BY <1>1, <2>2 DEF IInv, TypeOK, AddEvent
  <2> QED BY <1>2, <1>4, <1>5, <2>1, <2>3 DEF IInv, TypeOK, Idle, Steps
<1>9. RowsHeld'
  <2>1. ASSUME NEW d \in Clients, requests'[d].row # Absent
        PROVE  /\ d # c /\ requests'[d] = requests[d] /\ requests[d].op.receivable # r
               /\ requests[d].op.receivable \in ReceivableIds
    <3>1. d # c /\ requests'[d] = requests[d] /\ requests[d].row # Absent
      BY <1>5, <2>1 DEF IInv, TypeOK, Idle
    <3>2. requests[d].op.receivable # r
      BY <1>1, <3>1 DEF IInv, RowsHeld
    <3>3. requests[d].step # "idle" /\ requests[d].op.action # "receivable_create"
      BY <3>1 DEF IInv, RequestsInStep, RowsHeld, Idle
    <3> QED BY <3>1, <3>2, <3>3 DEF IInv, RoomForVersions, Bounded, Operations, Creates,
       Updates, Bookings, Reversals
  <2> QED BY <1>6, <2>1 DEF IInv, RowsHeld
<1>10. PaymentsKnown'
  <2>1. \A p \in PaymentIds : payments'[p].status # "none" => receivables'[payments'[p].receivable] # Absent
    BY <1>1, <1>2, <1>6, <1>7 DEF IInv, TypeOK, PaymentsKnown, PaymentRows, NoPayment
  <2>2. ASSUME NEW d \in Clients, requests'[d].step = "commit", requests'[d].task # "reject",
               requests'[d].op.action = "payment_reverse"
        PROVE  /\ payments'[requests'[d].op.payment].status # "none"
               /\ payments'[requests'[d].op.payment].receivable = requests'[d].op.receivable
    <3>1. d # c /\ requests'[d] = requests[d]
      BY <1>5, <2>2 DEF IInv, TypeOK, Idle
    <3>2. requests[d].op.payment \in PaymentIds
      BY <2>2, <3>1 DEF IInv, RoomForVersions, Bounded, Operations, Creates, Updates,
         Bookings, Reversals
    <3> QED BY <1>2, <2>2, <3>1, <3>2 DEF IInv, PaymentsKnown
  <2> QED BY <2>1, <2>2 DEF PaymentsKnown
<1>11. LedgerConsistent'
  BY <1>2, <1>6, <1>7 DEF IInv, BooksAgree, LedgerConsistent, Applied
<1>12. OneEventPerVersion'
  BY <1>1, <1>6, <1>7, <1>8, EventOfVersion
<1>13. ProposalAppliedOnce'
  BY <1>1, <1>3, EventOfProposal
<1> QED BY <1>2, <1>4, <1>8, <1>9, <1>10, <1>11, <1>12, <1>13 DEF IInv, BooksAgree

-----------------------------------------------------------------------------
(* The theorems *)

\* Empty tables agree.
LEMMA InitIInv == Init => IInv
<1> SUFFICES ASSUME Init PROVE IInv
  OBVIOUS
<1> USE NoneAssumption
<1>1. TypeOK
  BY DEF Init, TypeOK, Idle, Steps
<1>2. RoomForVersions /\ RequestsInStep /\ RowsHeld /\ ProposalsHeld /\ PaymentsKnown
  BY DEF Init, RoomForVersions, RequestsInStep, RowsHeld, ProposalsHeld, PaymentsKnown,
     Idle, NoPayment, NoProposal
<1>3. \A r \in ReceivableIds : Units(r) = {}
  BY DEF Init, Units, NoPayment
<1>4. FiniteBooks /\ LedgerConsistent
  BY <1>3, FS_EmptySet DEF Init, FiniteBooks, LedgerConsistent
<1>5. OneEventPerVersion /\ ProposalAppliedOnce
  BY <1>1 DEF Init, OneEventPerVersion, ProposalAppliedOnce, Absent, NoProposal
<1> QED BY <1>1, <1>2, <1>4, <1>5 DEF IInv, BooksAgree

\* Every step keeps the invariant, if the database locks rows.
LEMMA StepIInv == RowLocks /\ IInv /\ [Next]_vars => IInv'
<1> SUFFICES ASSUME RowLocks, IInv, [Next]_vars PROVE IInv'
  OBVIOUS
<1>1. CASE UNCHANGED vars
  <2>1. TypeOK' /\ RoomForVersions' /\ RequestsInStep' /\ RowsHeld' /\ ProposalsHeld' /\ PaymentsKnown'
    BY <1>1 DEF IInv, vars, TypeOK, RoomForVersions, RequestsInStep, RowsHeld,
       ProposalsHeld, PaymentsKnown
  <2> QED BY <1>1, <2>1, ReadsKeepBooks DEF vars, tables, IInv
<1>2. ASSUME NEW c \in Clients, InsertProposal(c) \/ CommitReject(c) \/ CommitCreate(c) \/ CommitChange(c)
      PROVE  IInv'
  BY <1>2, InsertKeepsIInv, RejectKeepsIInv, CreateKeepsIInv, ChangeKeepsIInv
<1> QED BY <1>1, <1>2, ReadsKeepIInv DEF Next

\* The invariant holds wherever the database locks the rows it is asked to lock.
THEOREM Invariance == ASSUME RowLocks PROVE Spec => []IInv
<1>1. IInv /\ [Next]_vars => IInv'
  BY StepIInv
<1> QED BY InitIInv, <1>1, PTL DEF Spec

\* With row locks the outstanding amount, the payments, the status and the event log
\* of every receivable agree after every commit, however requests interleave
\* (ADR 0005; lock_receivable, services/personal_finance.py:1092-1106).
THEOREM BooksAlwaysAgree == ASSUME RowLocks PROVE Spec => []BooksAgree
<1>1. IInv => BooksAgree
  BY DEF IInv
<1> QED BY <1>1, Invariance, PTL

\* With row locks a proposal changes the books exactly once if it is approved and
\* never otherwise, and a key makes one proposal (approve_change_proposal).
THEOREM AppliedOnce == ASSUME RowLocks PROVE Spec => []ProposalAppliedOnce
<1>1. IInv => ProposalAppliedOnce
  BY DEF IInv
<1> QED BY <1>1, Invariance, PTL

\* With row locks every change is written over the very row it was checked against
\* (ensure_version), so that no newer change is overwritten.
THEOREM NothingOverwritten == ASSUME RowLocks PROVE Spec => NoStaleWrite
<1> DEFINE Checked(r) ==
      \E c \in Clients :
         /\ requests[c].step = "commit" /\ requests'[c] = Idle
         /\ requests[c].op.receivable = r
         /\ requests[c].op.expected = receivables[r].version
         /\ requests[c].row = receivables[r]
<1>1. ASSUME IInv, [Next]_vars, NEW r \in ReceivableIds, receivables[r] # Absent, receivables'[r] # receivables[r]
      PROVE  Checked(r)
  <2>1. PICK c \in Clients : CommitCreate(c) \/ CommitChange(c)
    BY <1>1 DEF Next, vars, tables, Create, Change, Propose, ProposeWithKey, Decide, Begin,
       FindTarget,
       InsertProposal, LockReceivable, ReadPayment, CommitReject, Rollback
  <2>2. CommitChange(c) /\ requests[c].op.receivable = r
    <3>1. CASE CommitCreate(c)
      BY <1>1, <3>1 DEF CommitCreate, IInv, TypeOK
    <3>2. CASE CommitChange(c)
      BY <1>1, <3>2 DEF CommitChange, IInv, TypeOK
    <3> QED BY <2>1, <3>1, <3>2
  <2>3. requests[c].row = receivables[r] /\ requests[c].op.expected = receivables[r].version
    BY <1>1, <2>2, ChangedRow
  <2> QED BY <1>1, <2>2, <2>3 DEF CommitChange, Finish, IInv, TypeOK
<1>2. IInv /\ [Next]_vars =>
         [\A r \in ReceivableIds : receivables[r] # Absent /\ receivables'[r] # receivables[r] => Checked(r)]_vars
  BY <1>1
<1> QED BY <1>2, Invariance, PTL DEF Spec, NoStaleWrite
================================================================================
