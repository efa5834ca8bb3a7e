---------------------------- MODULE ConsentJournal ----------------------------
(***************************************************************************)
(* The append-only consent journal of the agent host                       *)
(* (apps/agent-host/src/consent-journal.ts).                               *)
(*                                                                         *)
(* An operation of FinanceConsentJournal is synchronous, so within one     *)
(* host nothing runs between its system calls.  Another host process may,  *)
(* the process may die, and the machine may lose power: the journal is     *)
(* written against all three.  An operation therefore is one action for    *)
(* the first read, and per record it appends one for the second read with  *)
(* its checks, one for the write and one for the fsync.                    *)
(*                                                                         *)
(* A record's hash chain is kept as its sequence number: while a process   *)
(* lives the file only grows, so two reads of equal length saw one chain.  *)
(* Permissions and the directory are left out.                             *)
(***************************************************************************)
EXTENDS Naturals, Sequences

CONSTANTS
    Hosts,              \* host processes
    Capacity,           \* records MAX_CONSENT_JOURNAL_BYTES has room for: 501
    MaxRecords          \* MAX_CONSENT_JOURNAL_RECORDS: 1024

\* A record takes 453 to 467 bytes, so 501 of them fit into 256 KiB: a multiple of 3.
ASSUME CapacityAssumption == Capacity \in Nat \ {0} /\ Capacity % 3 = 0
ASSUME MaxRecordsAssumption == MaxRecords \in Nat /\ Capacity <= MaxRecords
ASSUME HostsAssumption == Hosts \cap {"none", "grant", "revoke", "revoke_again"} = {}

VARIABLES
    file,               \* the journal as every process reads it
    durable,            \* how many of its records a loss of power cannot take
    ops,                \* each host's operation in progress
    owner               \* what the owner asked for last: "grant", the host whose
                        \* beginRevocation is not answered yet, or how it was answered

journalVars == <<file, durable, ops, owner>>

-----------------------------------------------------------------------------
Actions == {"grant", "revoke_pending", "revoke_complete"}
Versions == {"legacy", "current"}       \* keys of LEGACY_FINANCE_CONSENT_CONTRACTS, or not
Records == [action : Actions, version : Versions, sequence : Nat]

\* What a short write or a loss of power leaves of a record: no line, or no JSON.
Torn == [action |-> "torn", version |-> "none", sequence |-> 0]

\* canUpgradeConsent
CanUpgrade(record) ==
    record.version = "legacy" /\ record.action \in {"grant", "revoke_complete"}

IsUpgrade(previous, record) ==
    CanUpgrade(previous) /\ record.version = "current" /\ record.action = "grant"

ActionAfter ==
    [ grant           |-> "revoke_pending",
      revoke_pending  |-> "revoke_complete",
      revoke_complete |-> "grant" ]

\* validateRecord, for a record that has a predecessor.
ValidNext(previous, record) ==
    \/ IsUpgrade(previous, record)
    \/ /\ record.version = previous.version
       /\ record.action = ActionAfter[previous.action]

\* What a line must hold to be a record at all: a torn one is none.
IsConsentRecord(value) == value \in Records

\* parseJournal
ValidJournal(journal) ==
    /\ Len(journal) <= MaxRecords
    /\ \A i \in 1..Len(journal) :
          /\ IsConsentRecord(journal[i])
          /\ journal[i].sequence = i
          /\ i = 1 => journal[i].action = "grant"
          /\ i > 1 => ValidNext(journal[i - 1], journal[i])

Latest(journal) == journal[Len(journal)]

\* load() and snapshotFor: everything but a readable, current grant denies.
Status(journal) ==
    CASE journal = <<>>                              -> "unknown"
      [] journal # <<>> /\ ~ValidJournal(journal)    -> "revoked"
      [] OTHER ->
            IF Latest(journal).version = "legacy" THEN "revoked"
            ELSE CASE Latest(journal).action = "grant"          -> "granted"
                   [] Latest(journal).action = "revoke_pending" -> "revoke_pending"
                   [] OTHER                                     -> "revoked"

Granted(journal) == Status(journal) = "granted"

-----------------------------------------------------------------------------
Idle == [call |-> "none", step |-> "idle", read |-> 0, record |-> Torn]

\* A journal the previous version of the app left: its own records, all durable.
LegacyJournals ==
    LET L(action, n) == [action |-> action, version |-> "legacy", sequence |-> n]
        full == <<L("grant", 1), L("revoke_pending", 2), L("revoke_complete", 3)>>
    IN  {SubSeq(full, 1, n) : n \in 0..3}

JournalInit ==
    /\ file \in LegacyJournals
    /\ durable = Len(file)
    /\ ops = [h \in Hosts |-> Idle]
    /\ owner = "none"

\* An operation that read n records is about to append one.
Prepare(h, call, action, version, n) ==
    ops' = [ops EXCEPT ![h] =
        [call |-> call, step |-> "recheck", read |-> n,
         record |-> [action |-> action, version |-> version, sequence |-> n + 1]]]

Returns(h) == ops' = [ops EXCEPT ![h] = Idle]

\* grant(): a legacy revocation that is pending is completed first.  Only calls
\* that get as far as an append: a refused one changes nothing.
Grant(h) ==
    /\ ops[h] = Idle
    /\ ValidJournal(file)
    /\ \/ /\ file # <<>> =>
                Latest(file).action = "revoke_complete" \/ CanUpgrade(Latest(file))
          /\ Prepare(h, "grant", "grant", "current", Len(file))
       \/ /\ file # <<>> /\ Latest(file).version = "legacy"
          /\ Latest(file).action = "revoke_pending"
          /\ Prepare(h, "grant", "revoke_complete", "legacy", Len(file))
    /\ owner' = "grant"
    /\ UNCHANGED <<file, durable>>

\* beginRevocation(): the record is always of the current version.
BeginRevocation(h) ==
    /\ ops[h] = Idle
    /\ ValidJournal(file) /\ file # <<>>
    /\ Latest(file).action = "grant"
    /\ Prepare(h, "begin", "revoke_pending", "current", Len(file))
    /\ owner' = h
    /\ UNCHANGED <<file, durable>>

\* A revocation that is already pending is answered from the record just read.
RevocationPending(h) ==
    /\ ops[h] = Idle
    /\ ValidJournal(file) /\ file # <<>>
    /\ Latest(file).action = "revoke_pending"
    /\ owner' = IF owner = "revoke" THEN owner ELSE "revoke_again"
    /\ UNCHANGED <<file, durable, ops>>

\* completeRevocation(); one that is complete is answered without an append.
CompleteRevocation(h) ==
    /\ ops[h] = Idle
    /\ ValidJournal(file) /\ file # <<>>
    /\ Latest(file).action = "revoke_pending"
    /\ Prepare(h, "complete", "revoke_complete", "current", Len(file))
    /\ UNCHANGED <<file, durable, owner>>

\* The records of both reads are compared by their hashes; what was read is never
\* replaced while an operation is in progress, so their number tells.
SameRecordChain(op) == Len(file) = op.read

\* Mutation of Recheck: validateRecord is not called.
Recheck_NotValidated(h) ==
    /\ ops[h].step = "recheck"
    /\ IF ValidJournal(file) /\ SameRecordChain(ops[h]) /\ Len(file) + 1 <= Capacity
       THEN ops' = [ops EXCEPT ![h].step = "write"]
       ELSE Returns(h)
    /\ UNCHANGED <<file, durable, owner>>

\* The second read: sameRecordChain, validateRecord and the limit on the size.
Recheck(h) ==
    LET op == ops[h] IN
    /\ op.step = "recheck"
    /\ IF /\ ValidJournal(file)
          /\ SameRecordChain(op)
          /\ file # <<>> => ValidNext(Latest(file), op.record)
          /\ Len(file) + 1 <= Capacity
       THEN ops' = [ops EXCEPT ![h].step = "write"]
       ELSE Returns(h)
    /\ UNCHANGED <<file, durable, owner>>

\* Mutation of Write: a revocation is answered before its record is on the disk.
Write_Answers(h) ==
    /\ ops[h].step = "write"
    /\ file' = Append(file, ops[h].record)
    /\ ops' = [ops EXCEPT ![h].step = "fsync"]
    /\ owner' = IF ops[h].call = "begin" /\ owner = h THEN "revoke" ELSE owner
    /\ UNCHANGED durable

\* writeSync with O_APPEND: whatever other processes have written stays before it.
Write(h) ==
    /\ ops[h].step = "write"
    /\ file' = Append(file, ops[h].record)
    /\ ops' = [ops EXCEPT ![h].step = "fsync"]
    /\ UNCHANGED <<durable, owner>>

\* A short write is reported as write_failed and leaves what was written.
ShortWrite(h) ==
    /\ ops[h].step = "write"
    /\ file' = Append(file, Torn)
    /\ Returns(h)
    /\ UNCHANGED <<durable, owner>>

\* Mutation of Fsync: the answer does not wait for the disk.
Fsync_Skipped(h) ==
    LET op == ops[h] IN
    /\ op.step = "fsync"
    /\ owner' = IF op.call = "begin" /\ owner = h THEN "revoke" ELSE owner
    /\ IF op.call = "grant" /\ op.record.action = "revoke_complete"
       THEN Prepare(h, "grant", "grant", "current", Len(file))
       ELSE Returns(h)
    /\ UNCHANGED <<file, durable>>

\* fsync of the file and of its directory, and the answer to the caller, unless
\* a grant has completed a legacy revocation only and now appends itself.
Fsync(h) ==
    LET op == ops[h] IN
    /\ op.step = "fsync"
    /\ durable' = Len(file)
    /\ owner' = IF op.call = "begin" /\ owner = h THEN "revoke" ELSE owner
    /\ IF op.call = "grant" /\ op.record.action = "revoke_complete"
       THEN Prepare(h, "grant", "grant", "current", op.record.sequence)
       ELSE Returns(h)
    /\ UNCHANGED file

\* The process dies, or a system call of the operation fails.
HostCrash(h) ==
    /\ ops[h] # Idle
    /\ Returns(h)
    /\ UNCHANGED <<file, durable, owner>>

\* Power is lost: of what no fsync has covered, a part survives, the last record
\* of it perhaps torn.
PowerLoss ==
    /\ \E n \in durable..Len(file) :
          /\ \/ file' = SubSeq(file, 1, n)
             \/ n < Len(file) /\ file' = Append(SubSeq(file, 1, n), Torn)
          /\ durable' = Len(file')
    /\ ops' = [h \in Hosts |-> Idle]
    /\ UNCHANGED owner

JournalNext ==
    \/ \E h \in Hosts :
          \/ Grant(h)
          \/ BeginRevocation(h)
          \/ RevocationPending(h)
          \/ CompleteRevocation(h)
          \/ Recheck(h)
          \/ Write(h)
          \/ ShortWrite(h)
          \/ Fsync(h)
          \/ HostCrash(h)
    \/ PowerLoss

JournalSpec == JournalInit /\ [][JournalNext]_journalVars

-----------------------------------------------------------------------------
\* The journal is a sequence of records and torn lines; an operation in progress
\* carries the record its step needs.
JournalTyped ==
    /\ file \in Seq(Records \cup {Torn})
    /\ durable \in 0..Len(file)
    /\ owner \in {"none", "grant", "revoke", "revoke_again"} \cup Hosts
    /\ ops \in [Hosts ->
          [call : {"none", "grant", "begin", "complete"},
           step : {"idle", "recheck", "write", "fsync"},
           read : Nat, record : Records \cup {Torn}]]
    /\ \A h \in Hosts : ops[h] # Idle => ops[h].record.sequence = ops[h].read + 1

\* Once the owner was told that the revocation is recorded, the journal denies
\* until a new grant is asked for: no crash, loss of power, torn record or second
\* host brings the old grant back (ADR 0010: pending, truncated and ambiguous
\* state is always treated as no consent).
RevocationHolds == owner = "revoke" => ~Granted(file)

\* What the operations write, load() reads: a journal that lost no record in a
\* race and has no torn line is readable, across the upgrade of the contract; and
\* while consent is granted it has room for the record that revokes it: the limit
\* can stop a new grant, never a revocation.
ReadableWithRoom ==
    /\ JournalTyped
    /\ (\A i \in 1..Len(file) : file[i].sequence = i) => ValidJournal(file)
    /\ Granted(file) => Len(file) < Capacity

\* Consent begins only where a host writes a grant the owner asked for, or where
\* power is lost before its revocation was recorded.
GrantedByGrant ==
    [][ ~Granted(file) /\ Granted(file') =>
            \/ \E h \in Hosts : ops[h].call = "grant" /\ ops[h].step = "write"
                                /\ ops'[h].step = "fsync"
            \/ PowerLoss /\ owner # "revoke" ]_journalVars

=============================================================================
