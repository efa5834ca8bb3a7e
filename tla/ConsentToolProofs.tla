-------------------------- MODULE ConsentToolProofs --------------------------
(***************************************************************************)
(* Proofs about the two small machines of the host that stand on their     *)
(* own: the consent journal, for any number of hosts and any capacity of   *)
(* the file, and the finance tool dispatcher, for any number of calls,     *)
(* sessions and turns and any limits.                                      *)
(***************************************************************************)
EXTENDS ConsentJournal, ToolDispatcher, FiniteSetTheorems, TLAPS

-----------------------------------------------------------------------------
(* The consent journal.  What the file says is tied to the sequence numbers *)
(* of its records: where they are in order, the records follow one another  *)
(* as the hash chain demands, since every writer compared the number it had *)
(* read.  A revocation holds because a grant that another host checked      *)
(* before it comes too late to have the number of its place.                *)

\* The records of a journal up to the n-th have the numbers of their places.
InSequence(journal, n) == \A i \in 1..n : journal[i].sequence = i

\* The i-th record is what its predecessor demands (parseJournal).
Fits(journal, i) ==
    /\ journal[i] \in Records
    /\ i = 1 => journal[i].action = "grant"
    /\ i > 1 => ValidNext(journal[i - 1], journal[i])

\* Where in the cycle of three records the n-th can be.  The grant that upgrades the
\* contract, over a grant of the old one, comes one place late.
InPhase(record, n) ==
    LET place == CASE record.action = "grant" -> 1
                   [] record.action = "revoke_pending" -> 2
                   [] OTHER -> 0
    IN  n % 3 = place \/ (record.version = "current" /\ n % 3 = (place + 1) % 3)

\* A journal whose numbers are in order is readable, fits into the file, and has no
\* record of the old contract after one of the current.
Chained(journal, i) ==
    InSequence(journal, i) =>
        /\ Fits(journal, i) /\ i <= Capacity /\ InPhase(journal[i], i)
        /\ \A k \in 1..i : journal[k].version = "current" => journal[i].version = "current"

JournalChained == \A i \in 1..Len(file) : Chained(file, i)

\* A grant that first completes a revocation of the old contract.
Completing(op) == op.call = "grant" /\ op.record.action = "revoke_complete"

\* The record of an operation goes with the call, and its read was of this file.
OpInStep(op) ==
    /\ op.step = "idle" => op = Idle
    /\ op.step # "idle" =>
          \/ op.call = "grant" /\ op.record.action = "grant" /\ op.record.version = "current"
          \/ Completing(op) /\ op.record.version = "legacy" /\ op.read > 0
          \/ op.call = "begin" /\ op.record.action = "revoke_pending"
             /\ op.record.version = "current" /\ op.read > 0
          \/ op.call = "complete" /\ op.record.action = "revoke_complete"
             /\ op.record.version = "current" /\ op.read > 0
    /\ op.read <= Len(file)
    /\ op.step = "fsync" => op.read < Len(file)

\* What an operation that completes an old revocation has read.
OpCompletes(op) ==
    Completing(op) /\ op.step \in {"recheck", "write"} =>
        /\ InSequence(file, op.read)
        /\ file[op.read].version = "legacy" /\ file[op.read].action = "revoke_pending"

\* What the second read has checked.
OpChecked(op) ==
    op.step = "write" =>
        /\ InSequence(file, op.read)
        /\ op.read + 1 <= Capacity
        /\ op.read > 0 => ValidNext(file[op.read], op.record)

OpsInStep == \A h \in Hosts : OpInStep(ops[h]) /\ OpCompletes(ops[h]) /\ OpChecked(ops[h])

\* An operation that may still write a grant read less than k records.
ReadBefore(op, k) ==
    /\ op.record.action = "grant" /\ op.step \in {"recheck", "write"} => op.read < k
    /\ Completing(op) => op.read + 1 < k

\* The k-th record is a revocation, and no grant has a place after it: none that is
\* in the file and none that is under way.
Settled(k) ==
    /\ k \in 1..Len(file)
    /\ file[k].action = "revoke_pending"
    /\ \A i \in (k + 1)..Len(file) : file[i].action = "grant" => file[i].sequence # i
    /\ \A h \in Hosts : ReadBefore(ops[h], k)

\* The revocation the owner asked for last is in the file once it is written, and
\* on the disk once it is answered.
RevocationRecorded ==
    /\ owner = "revoke" => \E k \in 1..durable : Settled(k)
    /\ \A h \in Hosts : owner = h /\ ops[h].call = "begin" /\ ops[h].step = "fsync" =>
          \E k \in 1..Len(file) : Settled(k)

JournalInv == JournalTyped /\ JournalChained /\ OpsInStep /\ RevocationRecorded

-----------------------------------------------------------------------------
(* The journal *)

\* What is said of a place in the journal looks at nothing behind it.
LEMMA SamePrefix ==
    ASSUME NEW f, NEW g, NEW n \in Nat, \A i \in 1..n : f[i] = g[i], NEW i \in 0..n
    PROVE  /\ InSequence(f, i) => InSequence(g, i)
           /\ i > 0 /\ Chained(f, i) => Chained(g, i)
<1>1. InSequence(f, i) <=> InSequence(g, i)
  BY DEF InSequence
<1>2. i > 0 => f[i] = g[i] /\ (i > 1 => f[i - 1] = g[i - 1])
  OBVIOUS
<1>3. i > 0 /\ Fits(f, i) => Fits(g, i)
  BY <1>2 DEF Fits
<1>4. i > 0 /\ InPhase(f[i], i) => InPhase(g[i], i)
  BY <1>2 DEF InPhase
<1> QED BY <1>1, <1>2, <1>3, <1>4 DEF Chained

\* An appended record leaves the others where they are.
LEMMA Appended ==
    ASSUME NEW S, NEW f \in Seq(S), NEW r \in S
    PROVE  /\ Append(f, r) \in Seq(S) /\ Len(Append(f, r)) = Len(f) + 1
           /\ Append(f, r)[Len(f) + 1] = r
           /\ \A i \in 1..Len(f) : Append(f, r)[i] = f[i]
  OBVIOUS

\* The second read finds a journal that parseJournal accepts, so its numbers are in order.
LEMMA ValidInSequence ==
    ASSUME ValidJournal(file), JournalTyped PROVE InSequence(file, Len(file)) /\ Len(file) <= MaxRecords
  BY DEF ValidJournal, InSequence, JournalTyped

\* A journal with its numbers in order is one that parseJournal accepts.
LEMMA InSequenceValid ==
    ASSUME JournalTyped, JournalChained, InSequence(file, Len(file))
    PROVE  ValidJournal(file) /\ Len(file) <= Capacity
<1>1. Len(file) \in Nat
  BY DEF JournalTyped
<1>2. ASSUME NEW i \in 1..Len(file) PROVE InSequence(file, i) /\ Chained(file, i)
  BY <1>1, <1>2 DEF InSequence, JournalChained
<1>3. \A i \in 1..Len(file) : Fits(file, i) /\ i <= Capacity
  BY <1>2 DEF Chained
<1>4. Len(file) <= Capacity
  BY <1>1, <1>3, CapacityAssumption
<1>5. ASSUME NEW i \in 1..Len(file)
      PROVE  /\ IsConsentRecord(file[i]) /\ file[i].sequence = i
             /\ i = 1 => file[i].action = "grant"
             /\ i > 1 => ValidNext(file[i - 1], file[i])
  BY <1>3, <1>5 DEF Fits, IsConsentRecord, InSequence
<1> QED BY <1>1, <1>4, <1>5, CapacityAssumption, MaxRecordsAssumption DEF ValidJournal

\* A record in its phase is followed by one in its own.
LEMMA NextPhase ==
    ASSUME NEW p \in Records, NEW r \in Records, NEW n \in Nat, InPhase(p, n), ValidNext(p, r)
    PROVE  InPhase(r, n + 1)
  BY DEF InPhase, ValidNext, IsUpgrade, CanUpgrade, ActionAfter, Records, Actions, Versions

\* A record that is written in the place it has the number of continues the chain.
LEMMA WriteChains ==
    ASSUME JournalInv, NEW h \in Hosts, ops[h].step = "write", NEW f,
           f = Append(file, ops[h].record)
    PROVE  \A i \in 1..Len(f) : Chained(f, i)
<1> DEFINE r == ops[h].record
           n == Len(file)
<1>1. file \in Seq(Records \cup {Torn}) /\ n \in Nat /\ r \in Records \cup {Torn}
  BY DEF JournalInv, JournalTyped
<1>2. /\ Len(f) = n + 1 /\ f[n + 1] = r
      /\ \A i \in 1..n : f[i] = file[i] /\ file[i] = f[i]
  BY <1>1, Appended
<1>3. \A i \in 1..n : Chained(f, i)
  <2> SUFFICES ASSUME NEW i \in 1..n PROVE Chained(f, i)
    OBVIOUS
  <2>1. Chained(file, i) /\ i \in 0..n /\ i > 0
    BY <1>1 DEF JournalInv, JournalChained
  <2> QED BY <1>1, <1>2, <2>1, SamePrefix
<1>4. ASSUME InSequence(f, n + 1)
      PROVE  /\ Fits(f, n + 1) /\ n + 1 <= Capacity /\ InPhase(f[n + 1], n + 1)
             /\ \A k \in 1..(n + 1) : f[k].version = "current" => f[n + 1].version = "current"
  <2>1. r.sequence = n + 1 /\ InSequence(file, n)
    BY <1>1, <1>2, <1>4 DEF InSequence
  <2>2. ops[h] # Idle /\ ops[h].read \in Nat /\ r.sequence = ops[h].read + 1
    BY DEF JournalInv, JournalTyped, Idle
  <2>3. ops[h].read = n
    BY <1>1, <2>1, <2>2
  <2>4. /\ n + 1 <= Capacity /\ (n > 0 => ValidNext(file[n], r))
        /\ n = 0 => r.action = "grant" /\ r.version = "current"
        /\ r \in Records
    BY <1>1, <2>3 DEF JournalInv, OpsInStep, OpChecked, OpInStep, Completing, Records, Torn, Actions
  <2>5. n > 0 => Fits(file, n) /\ InPhase(file[n], n)
                 /\ \A k \in 1..n : file[k].version = "current" => file[n].version = "current"
    <3> SUFFICES ASSUME n > 0 PROVE n \in 1..Len(file)
      BY <2>1 DEF JournalInv, JournalChained, Chained
    <3> QED BY <1>1
  <2>6. Fits(f, n + 1)
    BY <1>1, <1>2, <2>4 DEF Fits
  <2>7. InPhase(f[n + 1], n + 1)
    <3>1. CASE n = 0
      BY <1>2, <2>4, <3>1 DEF InPhase
    <3>2. CASE n > 0
      <4>1. file[n] \in Records
        BY <2>5, <3>2 DEF Fits
      <4> QED BY <1>1, <1>2, <2>4, <2>5, <3>2, <4>1, NextPhase
    <3> QED BY <1>1, <3>1, <3>2
  <2>8. ASSUME NEW k \in 1..(n + 1), f[k].version = "current" PROVE f[n + 1].version = "current"
    <3>1. CASE k = n + 1
      BY <2>8, <3>1
    <3>2. CASE k \in 1..n
      <4>1. file[n].version = "current" /\ n > 0
        BY <1>1, <1>2, <2>5, <2>8, <3>2
      <4> QED BY <1>2, <2>4, <4>1 DEF ValidNext, IsUpgrade
    <3> QED BY <1>1, <3>1, <3>2
  <2> QED BY <2>4, <2>6, <2>7, <2>8
<1>5. Chained(f, n + 1)
  BY <1>4 DEF Chained
<1> QED BY <1>1, <1>2, <1>3, <1>5

-----------------------------------------------------------------------------
(* The operations *)

\* An operation of one host that leaves the file alone.
LEMMA OneMoves ==
    ASSUME JournalInv, UNCHANGED file, NEW h \in Hosts, NEW op, ops' = [ops EXCEPT ![h] = op],
           OpInStep(op), OpCompletes(op), OpChecked(op)
    PROVE  JournalChained' /\ OpsInStep'
<1>1. JournalChained'
  BY DEF JournalInv, JournalChained, Chained, InSequence, Fits, InPhase
<1>2. ASSUME NEW g \in Hosts PROVE (OpInStep(ops[g]) /\ OpCompletes(ops[g]) /\ OpChecked(ops[g]))'
  <2>1. ops'[g] = IF g = h THEN op ELSE ops[g]
    BY DEF JournalInv, JournalTyped
  <2>2. OpInStep(ops'[g]) /\ OpCompletes(ops'[g]) /\ OpChecked(ops'[g])
    BY <2>1 DEF JournalInv, OpsInStep
  <2> QED BY <2>2 DEF OpInStep, OpCompletes, OpChecked, InSequence
<1> QED BY <1>1, <1>2 DEF OpsInStep

\* A revocation stays settled if the operation that moves cannot write a grant late.
LEMMA SettledStays ==
    ASSUME JournalInv, UNCHANGED file, NEW h \in Hosts, NEW op, ops' = [ops EXCEPT ![h] = op],
           NEW k, Settled(k), ReadBefore(op, k)
    PROVE  Settled(k)'
<1>1. \A g \in Hosts : ops'[g] = IF g = h THEN op ELSE ops[g]
  BY DEF JournalInv, JournalTyped
<1>2. \A g \in Hosts : ReadBefore(ops'[g], k)
  BY <1>1 DEF Settled
<1> QED BY <1>2 DEF Settled, ReadBefore, Completing

\* An operation that no revocation has to fear.
LEMMA HarmlessMove ==
    ASSUME JournalInv, UNCHANGED <<file, durable>>, NEW h \in Hosts, NEW op,
           ops' = [ops EXCEPT ![h] = op], ~(op.call = "begin" /\ op.step = "fsync"),
           \A k \in 1..Len(file) : ReadBefore(ops[h], k) => ReadBefore(op, k),
           UNCHANGED owner
    PROVE  RevocationRecorded'
<1>1. durable \in 0..Len(file) /\ Len(file) \in Nat
  BY DEF JournalInv, JournalTyped
<1>2. \A k : Settled(k) => Settled(k)'
  BY SettledStays DEF Settled
<1>3. \A g \in Hosts : ops'[g] = IF g = h THEN op ELSE ops[g]
  BY DEF JournalInv, JournalTyped
<1>4. owner' = "revoke" => \E k \in 1..durable' : Settled(k)'
  BY <1>2 DEF JournalInv, RevocationRecorded
<1>5. \A g \in Hosts : owner' = g /\ ops'[g].call = "begin" /\ ops'[g].step = "fsync" =>
          \E k \in 1..Len(file') : Settled(k)'
  BY <1>2, <1>3 DEF JournalInv, RevocationRecorded
<1> QED BY <1>4, <1>5 DEF RevocationRecorded

\* The idle operation is in step.
LEMMA IdleInStep == JournalTyped => OpInStep(Idle) /\ OpCompletes(Idle) /\ OpChecked(Idle)
  BY DEF JournalTyped, OpInStep, OpCompletes, OpChecked, Idle, Completing

\* The end of an operation, and its failure, keep the invariant.
LEMMA ReturnKeeps ==
    ASSUME JournalInv, NEW h \in Hosts, Returns(h), UNCHANGED <<file, durable, owner>>
    PROVE  JournalInv'
<1>1. JournalTyped'
  BY DEF JournalInv, JournalTyped, Returns, Idle
<1>2. JournalChained' /\ OpsInStep'
  BY OneMoves, IdleInStep DEF Returns, JournalInv
<1>3. \A k : ReadBefore(Idle, k)
  BY DEF ReadBefore, Idle, Torn, Completing
<1>4. ~(Idle.call = "begin" /\ Idle.step = "fsync")
  BY DEF Idle
<1>5. RevocationRecorded'
  BY <1>3, <1>4, HarmlessMove DEF Returns
<1> QED BY <1>1, <1>2, <1>5 DEF JournalInv

\* What a call is about to append, as its kind says.
LEMMA Prepared ==
    ASSUME JournalInv, UNCHANGED <<file, durable>>, NEW h \in Hosts, NEW call, NEW action, NEW version,
           NEW n \in 0..Len(file), Prepare(h, call, action, version, n),
           owner' \in {"none", "grant", "revoke", "revoke_again"} \cup Hosts,
           \/ call = "grant" /\ action = "grant" /\ version = "current"
           \/ /\ call = "grant" /\ action = "revoke_complete" /\ version = "legacy" /\ n > 0
              /\ InSequence(file, n)
              /\ file[n].version = "legacy" /\ file[n].action = "revoke_pending"
           \/ call = "begin" /\ action = "revoke_pending" /\ version = "current" /\ n > 0
           \/ call = "complete" /\ action = "revoke_complete" /\ version = "current" /\ n > 0
    PROVE  JournalTyped' /\ JournalChained' /\ OpsInStep'
<1> DEFINE op == [call |-> call, step |-> "recheck", read |-> n,
                  record |-> [action |-> action, version |-> version, sequence |-> n + 1]]
<1>1. ops' = [ops EXCEPT ![h] = op] /\ n \in Nat
  BY DEF Prepare, JournalInv, JournalTyped
<1>2. op \in [call : {"none", "grant", "begin", "complete"},
              step : {"idle", "recheck", "write", "fsync"},
              read : Nat, record : Records \cup {Torn}]
  BY <1>1 DEF Records, Actions, Versions
<1>3. JournalTyped'
  BY <1>1, <1>2 DEF JournalInv, JournalTyped
<1>4. OpInStep(op)
  BY <1>1 DEF OpInStep, Completing
<1>5. OpCompletes(op) /\ OpChecked(op)
  BY DEF OpCompletes, OpChecked, Completing
<1> HIDE DEF op
<1> QED BY <1>1, <1>3, <1>4, <1>5, OneMoves

\* The beginning of a grant: whatever was revoked before, the owner has asked for consent.
LEMMA GrantKeeps ==
    ASSUME JournalInv, NEW h \in Hosts, Grant(h) PROVE JournalInv'
<1>1. Len(file) \in Nat /\ InSequence(file, Len(file)) /\ UNCHANGED <<file, durable>>
  BY ValidInSequence DEF JournalInv, Grant, JournalTyped
<1>2. JournalTyped' /\ JournalChained' /\ OpsInStep'
  <2>1. CASE Prepare(h, "grant", "grant", "current", Len(file))
    BY <1>1, <2>1, Prepared DEF Grant
  <2>2. CASE /\ file # <<>> /\ Latest(file).version = "legacy"
             /\ Latest(file).action = "revoke_pending"
             /\ Prepare(h, "grant", "revoke_complete", "legacy", Len(file))
    <3>1. Len(file) > 0
      BY <2>2 DEF JournalInv, JournalTyped
    <3> QED BY <1>1, <2>2, <3>1, Prepared DEF Grant, Latest
  <2> QED BY <2>1, <2>2 DEF Grant
<1>3. RevocationRecorded'
  BY HostsAssumption DEF Grant, RevocationRecorded
<1> QED BY <1>2, <1>3 DEF JournalInv

\* The beginning of a revocation: nothing is promised yet.
LEMMA BeginKeeps ==
    ASSUME JournalInv, NEW h \in Hosts, BeginRevocation(h) PROVE JournalInv'
<1>1. Len(file) \in Nat /\ Len(file) > 0
  BY DEF JournalInv, BeginRevocation, JournalTyped
<1>2. JournalTyped' /\ JournalChained' /\ OpsInStep'
  BY <1>1, Prepared DEF BeginRevocation
<1>3. owner' = h /\ ops'[h].step = "recheck"
  BY DEF BeginRevocation, Prepare, JournalInv, JournalTyped
<1>4. RevocationRecorded'
  BY <1>3, HostsAssumption DEF RevocationRecorded
<1> QED BY <1>2, <1>4 DEF JournalInv

\* The completion of a revocation writes no grant.
LEMMA CompleteKeeps ==
    ASSUME JournalInv, NEW h \in Hosts, CompleteRevocation(h) PROVE JournalInv'
<1>1. Len(file) \in Nat /\ Len(file) > 0
  BY DEF JournalInv, CompleteRevocation, JournalTyped
<1>2. JournalTyped' /\ JournalChained' /\ OpsInStep'
  BY <1>1, Prepared DEF CompleteRevocation, JournalInv, JournalTyped
<1> DEFINE op == [call |-> "complete", step |-> "recheck", read |-> Len(file),
                  record |-> [action |-> "revoke_complete", version |-> "current",
                              sequence |-> Len(file) + 1]]
<1>3. ops' = [ops EXCEPT ![h] = op] /\ UNCHANGED <<file, durable, owner>>
  BY DEF CompleteRevocation, Prepare
<1>4. op.call = "complete" /\ \A k : ReadBefore(op, k)
  BY DEF ReadBefore, Completing
<1> HIDE DEF op
<1>5. RevocationRecorded'
  BY <1>3, <1>4, HarmlessMove
<1> QED BY <1>2, <1>5 DEF JournalInv

\* A revocation that is pending is answered from the record just read.
LEMMA PendingKeeps ==
    ASSUME JournalInv, NEW h \in Hosts, RevocationPending(h) PROVE JournalInv'
<1>1. /\ UNCHANGED <<file, durable, ops>>
      /\ owner' = IF owner = "revoke" THEN owner ELSE "revoke_again"
  BY DEF RevocationPending
<1>2. JournalTyped' /\ JournalChained' /\ OpsInStep'
  BY <1>1 DEF JournalInv, JournalTyped, JournalChained, OpsInStep, Chained, InSequence, Fits, InPhase,
     OpInStep, OpCompletes, OpChecked, Completing
<1>3. RevocationRecorded'
  BY <1>1, HostsAssumption DEF JournalInv, RevocationRecorded, Settled, ReadBefore, Completing
<1> QED BY <1>2, <1>3 DEF JournalInv

\* The second read lets through what follows the file as it is now.
LEMMA RecheckKeeps ==
    ASSUME JournalInv, NEW h \in Hosts, Recheck(h) PROVE JournalInv'
<1>1. CASE Returns(h)
  BY <1>1, ReturnKeeps DEF Recheck
<1>2. CASE /\ ValidJournal(file) /\ SameRecordChain(ops[h])
           /\ file # <<>> => ValidNext(Latest(file), ops[h].record)
           /\ Len(file) + 1 <= Capacity
           /\ ops' = [ops EXCEPT ![h].step = "write"]
  <2> DEFINE op == [ops[h] EXCEPT !.step = "write"]
  <2>1. /\ ops' = [ops EXCEPT ![h] = op] /\ UNCHANGED <<file, durable, owner>>
        /\ ops[h].step = "recheck"
    BY <1>2 DEF Recheck
  <2>2. /\ op \in [call : {"none", "grant", "begin", "complete"},
                   step : {"idle", "recheck", "write", "fsync"},
                   read : Nat, record : Records \cup {Torn}]
        /\ op.step = "write" /\ op.call = ops[h].call /\ op.read = ops[h].read
        /\ op.record = ops[h].record
    BY DEF JournalInv, JournalTyped
  <2> HIDE DEF op
  <2>3. ops[h] # Idle /\ op # Idle
    BY <2>1, <2>2 DEF Idle
  <2>4. JournalTyped'
    BY <2>1, <2>2, <2>3 DEF JournalInv, JournalTyped
  <2>5. InSequence(file, Len(file)) /\ op.read = Len(file)
    BY <1>2, <2>2, ValidInSequence DEF JournalInv, SameRecordChain
  <2>6. OpInStep(op)
    BY <2>1, <2>2 DEF JournalInv, OpsInStep, OpInStep, Completing
  <2>7. OpCompletes(op)
    BY <2>1, <2>2 DEF JournalInv, OpsInStep, OpCompletes, Completing
  <2>8. OpChecked(op)
    <3>1. op.read > 0 => file # <<>>
      BY <2>5
    <3> QED BY <1>2, <2>2, <2>5, <3>1 DEF OpChecked, Latest
  <2>9. JournalChained' /\ OpsInStep'
    BY <2>1, <2>6, <2>7, <2>8, OneMoves
  <2>10. \A k : ReadBefore(ops[h], k) => ReadBefore(op, k)
    BY <2>1, <2>2 DEF ReadBefore, Completing
  <2>11. RevocationRecorded'
    BY <2>1, <2>2, <2>10, HarmlessMove
  <2> QED BY <2>4, <2>9, <2>11 DEF JournalInv
<1> QED BY <1>1, <1>2 DEF Recheck

\* What is settled stays so when a record is appended that does not come in time.
LEMMA SettledAppend ==
    ASSUME JournalInv, NEW h \in Hosts, NEW r \in Records \cup {Torn}, file' = Append(file, r),
           NEW op, ops' = [ops EXCEPT ![h] = op],
           NEW k, Settled(k), ReadBefore(op, k), r.action = "grant" => r.sequence <= k
    PROVE  Settled(k)'
<1>1. file \in Seq(Records \cup {Torn}) /\ Len(file) \in Nat
  BY DEF JournalInv, JournalTyped
<1>2. /\ Len(file') = Len(file) + 1 /\ file'[Len(file) + 1] = r
      /\ \A i \in 1..Len(file) : file'[i] = file[i]
  BY <1>1, Appended
<1>3. r.sequence \in Nat
  BY DEF Records, Torn
<1>4. k \in 1..Len(file') /\ file'[k].action = "revoke_pending"
  BY <1>1, <1>2 DEF Settled
<1>5. ASSUME NEW i \in (k + 1)..Len(file'), file'[i].action = "grant"
      PROVE  file'[i].sequence # i
  BY <1>1, <1>2, <1>3, <1>5 DEF Settled
<1>6. \A g \in Hosts : ReadBefore(ops'[g], k)
  BY DEF Settled, JournalInv, JournalTyped
<1> QED BY <1>4, <1>5, <1>6 DEF Settled, ReadBefore, Completing

\* An append leaves the other operations in step.
LEMMA OthersInStep ==
    ASSUME JournalInv, NEW h \in Hosts, NEW r \in Records \cup {Torn}, file' = Append(file, r),
           NEW op, ops' = [ops EXCEPT ![h] = op], op.step \in {"idle", "fsync"},
           op.step = "idle" => op = Idle,
           op.step = "fsync" => OpInStep(ops[h]) /\ op = [ops[h] EXCEPT !.step = "fsync"]
                                /\ ops[h].step = "write"
    PROVE  OpsInStep'
<1>1. file \in Seq(Records \cup {Torn}) /\ Len(file) \in Nat
  BY DEF JournalInv, JournalTyped
<1>2. /\ Len(file') = Len(file) + 1
      /\ \A i \in 1..Len(file) : file'[i] = file[i]
  BY <1>1, Appended
<1>3. \A g \in Hosts : ops'[g] = IF g = h THEN op ELSE ops[g]
  BY DEF JournalInv, JournalTyped
<1>4. ASSUME NEW g \in Hosts, g # h
      PROVE  (OpInStep(ops[g]) /\ OpCompletes(ops[g]) /\ OpChecked(ops[g]))'
  <2>1. ops'[g] = ops[g] /\ ops[g].read \in 0..Len(file)
    BY <1>3, <1>4 DEF JournalInv, JournalTyped, OpsInStep, OpInStep
  <2>2. OpInStep(ops[g]) /\ OpCompletes(ops[g]) /\ OpChecked(ops[g])
    BY DEF JournalInv, OpsInStep
  <2>3. InSequence(file, ops[g].read) => InSequence(file, ops[g].read)'
    BY <1>1, <1>2, <2>1 DEF InSequence
  <2>4. ops[g].read > 0 => file'[ops[g].read] = file[ops[g].read]
    BY <1>1, <1>2, <2>1
  <2>5. Completing(ops[g]) => ops[g].read > 0
    BY <2>2 DEF OpInStep, Completing, Idle
  <2>6. OpInStep(ops[g])'
    BY <1>1, <1>2, <2>1, <2>2 DEF OpInStep, Completing
  <2>7. OpCompletes(ops[g])'
    BY <2>1, <2>2, <2>3, <2>4, <2>5 DEF OpCompletes, Completing
  <2>8. OpChecked(ops[g])'
    BY <2>1, <2>2, <2>3, <2>4 DEF OpChecked
  <2> QED BY <2>6, <2>7, <2>8
<1>5. (OpInStep(ops[h]) /\ OpCompletes(ops[h]) /\ OpChecked(ops[h]))'
  <2>1. CASE op = Idle
    BY <1>1, <1>2, <1>3, <2>1 DEF OpInStep, OpCompletes, OpChecked, Idle, Completing
  <2>2. CASE op.step = "fsync"
    <3>1. /\ op.call = ops[h].call /\ op.read = ops[h].read /\ op.record = ops[h].record
          /\ ops[h].step = "write" /\ OpInStep(ops[h]) /\ op.read \in Nat
      BY <2>2 DEF JournalInv, JournalTyped
    <3> QED BY <1>1, <1>2, <1>3, <2>2, <3>1 DEF OpInStep, OpCompletes, OpChecked, Completing
  <2> QED BY <2>1, <2>2
<1> QED BY <1>4, <1>5 DEF OpsInStep

\* A short write leaves a line that is no record, in nobody's place.
LEMMA ShortWriteKeeps ==
    ASSUME JournalInv, NEW h \in Hosts, ShortWrite(h) PROVE JournalInv'
<1>1. file \in Seq(Records \cup {Torn}) /\ Len(file) \in Nat /\ Torn \in Records \cup {Torn}
  BY DEF JournalInv, JournalTyped
<1>2. /\ file' = Append(file, Torn) /\ ops' = [ops EXCEPT ![h] = Idle]
      /\ UNCHANGED <<durable, owner>>
  BY DEF ShortWrite, Returns
<1>3. /\ file' \in Seq(Records \cup {Torn}) /\ Len(file') = Len(file) + 1
      /\ file'[Len(file) + 1] = Torn
      /\ \A i \in 1..Len(file) : file'[i] = file[i] /\ file[i] = file'[i]
  BY <1>1, <1>2, Appended
<1>4. JournalTyped'
  BY <1>1, <1>2, <1>3 DEF JournalInv, JournalTyped, Idle
<1>5. JournalChained'
  <2> SUFFICES ASSUME NEW i \in 1..Len(file') PROVE Chained(file', i)
    BY DEF JournalChained
  <2>1. CASE i = Len(file) + 1
    BY <1>1, <1>3, <2>1 DEF Chained, InSequence, Torn
  <2>2. CASE i \in 1..Len(file)
    <3>1. Chained(file, i) /\ i \in 0..Len(file) /\ i > 0
      BY <1>1, <2>2 DEF JournalInv, JournalChained
    <3> QED BY <1>1, <1>3, <3>1, SamePrefix
  <2> QED BY <1>1, <1>3, <2>1, <2>2
<1>6. OpsInStep'
  BY <1>1, <1>2, OthersInStep DEF Idle
<1>7. \A k : Settled(k) => Settled(k)'
  <2>1. \A k : ReadBefore(Idle, k)
    BY DEF ReadBefore, Idle, Torn, Completing
  <2>2. Torn.action # "grant"
    BY DEF Torn
  <2> QED BY <1>1, <1>2, <2>1, <2>2, SettledAppend
<1>8. \A g \in Hosts : ops'[g] = IF g = h THEN Idle ELSE ops[g]
  BY <1>2 DEF JournalInv, JournalTyped
<1>9. RevocationRecorded'
  BY <1>1, <1>2, <1>3, <1>7, <1>8 DEF JournalInv, RevocationRecorded, Idle
<1> QED BY <1>4, <1>5, <1>6, <1>9 DEF JournalInv

\* When a revocation is written, whoever completes an old one has read less: behind a
\* grant of the current contract, which the revocation follows, no record is an old one.
LEMMA OldRevocationsRead ==
    ASSUME JournalInv, NEW h \in Hosts, ops[h].step = "write", ops[h].call = "begin",
           NEW g \in Hosts, Completing(ops[g])
    PROVE  ops[g].read < Len(file)
<1> DEFINE m == ops[h].read
           n == ops[g].read
<1>1. m \in Nat /\ n \in Nat /\ Len(file) \in Nat /\ m <= Len(file) /\ n <= Len(file)
  BY DEF JournalInv, JournalTyped, OpsInStep, OpInStep
<1>2. /\ m > 0 /\ ValidNext(file[m], ops[h].record)
      /\ ops[h].record.version = "current" /\ ops[h].record.action = "revoke_pending"
  BY <1>1 DEF JournalInv, OpsInStep, OpInStep, OpChecked, Completing
<1>3. file[m].version = "current"
  BY <1>2 DEF ValidNext, IsUpgrade
<1>4. n > 0 /\ ops[g].step \in {"recheck", "write", "fsync"}
  BY <1>1 DEF JournalInv, JournalTyped, OpsInStep, OpInStep, Completing, Idle
<1>5. CASE ops[g].step = "fsync"
  BY <1>5 DEF JournalInv, OpsInStep, OpInStep
<1>6. CASE ops[g].step \in {"recheck", "write"}
  <2>1. /\ InSequence(file, n) /\ file[n].version = "legacy"
    BY <1>6 DEF JournalInv, OpsInStep, OpCompletes
  <2>2. Chained(file, n)
    BY <1>1, <1>4 DEF JournalInv, JournalChained
  <2>3. ~(m \in 1..n)
    BY <1>3, <2>1, <2>2 DEF Chained
  <2> QED BY <1>1, <1>2, <2>3
<1> QED BY <1>4, <1>5, <1>6

\* A record that is written keeps the invariant, wherever the others stand.
LEMMA WriteKeeps ==
    ASSUME JournalInv, NEW h \in Hosts, Write(h) PROVE JournalInv'
<1> DEFINE r == ops[h].record
           op == [ops[h] EXCEPT !.step = "fsync"]
<1>1. /\ file \in Seq(Records \cup {Torn}) /\ Len(file) \in Nat
      /\ r \in Records \cup {Torn} /\ ops[h].read \in 0..Len(file)
      /\ ops[h].step = "write" /\ OpInStep(ops[h]) /\ r.sequence = ops[h].read + 1
  BY DEF JournalInv, JournalTyped, Write, OpsInStep, OpInStep, Idle
<1>2. /\ file' = Append(file, r) /\ ops' = [ops EXCEPT ![h] = op]
      /\ UNCHANGED <<durable, owner>>
  BY DEF Write
<1>3. /\ file' \in Seq(Records \cup {Torn}) /\ Len(file') = Len(file) + 1
      /\ file'[Len(file) + 1] = r
  BY <1>1, <1>2, Appended
<1>4. /\ op \in [call : {"none", "grant", "begin", "complete"},
                 step : {"idle", "recheck", "write", "fsync"},
                 read : Nat, record : Records \cup {Torn}]
      /\ op.step = "fsync" /\ op.call = ops[h].call /\ op.read = ops[h].read /\ op.record = r
  BY DEF JournalInv, JournalTyped
<1>5. \A g \in Hosts : ops'[g] = IF g = h THEN op ELSE ops[g]
  BY <1>2 DEF JournalInv, JournalTyped
<1>6. OpsInStep'
  BY <1>1, <1>2, <1>4, OthersInStep
<1> HIDE DEF op
<1>7. JournalTyped'
  <2>1. op.record.sequence = op.read + 1
    BY <1>1, <1>4
  <2> QED BY <1>1, <1>2, <1>3, <1>4, <2>1 DEF JournalInv, JournalTyped
<1>8. JournalChained'
  BY <1>1, <1>2, WriteChains DEF JournalChained
<1>9. ASSUME NEW k, Settled(k) PROVE Settled(k)'
  <2>1. ReadBefore(ops[h], k) /\ k \in 1..Len(file)
    BY <1>9 DEF Settled
  <2>2. ReadBefore(op, k)
    BY <1>4, <2>1 DEF ReadBefore, Completing
  <2>3. r.action = "grant" => r.sequence <= k
    BY <1>1, <2>1 DEF ReadBefore
  <2> QED BY <1>1, <1>2, <1>9, <2>2, <2>3, SettledAppend
<1>10. ASSUME ops[h].call = "begin", NEW k \in Nat, k = Len(file) + 1 PROVE Settled(k)'
  <2>1. r.action = "revoke_pending"
    BY <1>1, <1>10 DEF OpInStep, Completing, Idle
  <2>2. ASSUME NEW g \in Hosts PROVE ReadBefore(ops'[g], k)
    <3>1. ops[g].read \in 0..Len(file)
      BY DEF JournalInv, JournalTyped, OpsInStep, OpInStep
    <3>2. Completing(ops[g]) => ops[g].read < Len(file)
      BY <1>1, <1>10, OldRevocationsRead
    <3> QED BY <1>1, <1>4, <1>5, <1>10, <3>1, <3>2 DEF ReadBefore, Completing
  <2> QED BY <1>1, <1>3, <1>10, <2>1, <2>2 DEF Settled, ReadBefore, Completing
<1>11. RevocationRecorded'
  <2>1. owner' = "revoke" => \E k \in 1..durable' : Settled(k)'
    BY <1>2, <1>9 DEF JournalInv, RevocationRecorded
  <2>2. ASSUME NEW g \in Hosts, owner' = g, ops'[g].call = "begin", ops'[g].step = "fsync"
        PROVE  \E k \in 1..Len(file') : Settled(k)'
    <3>1. CASE g = h
      <4>1. PICK k \in Nat : k = Len(file) + 1
        BY <1>1
      <4>2. ops[h].call = "begin" /\ k \in 1..Len(file')
        BY <1>1, <1>3, <1>4, <1>5, <2>2, <3>1, <4>1
      <4> QED BY <1>10, <4>1, <4>2
    <3>2. CASE g # h
      BY <1>1, <1>2, <1>3, <1>5, <1>9, <2>2, <3>2 DEF JournalInv, RevocationRecorded
    <3> QED BY <3>1, <3>2
  <2> QED BY <2>1, <2>2 DEF RevocationRecorded
<1> QED BY <1>6, <1>7, <1>8, <1>11 DEF JournalInv

\* What an fsync covers is durable; a grant that has completed an old revocation goes on
\* from the record it has written.
LEMMA FsyncKeeps ==
    ASSUME JournalInv, NEW h \in Hosts, Fsync(h) PROVE JournalInv'
<1>1. /\ file \in Seq(Records \cup {Torn}) /\ Len(file) \in Nat /\ durable \in 0..Len(file)
      /\ ops[h].read \in Nat /\ ops[h].read < Len(file) /\ ops[h].step = "fsync"
      /\ OpInStep(ops[h]) /\ ops[h].record.sequence = ops[h].read + 1
  BY DEF JournalInv, JournalTyped, Fsync, OpsInStep, OpInStep, Idle
<1>2. /\ durable' = Len(file) /\ UNCHANGED file
      /\ owner' = IF ops[h].call = "begin" /\ owner = h THEN "revoke" ELSE owner
  BY DEF Fsync
<1> DEFINE grant == [call |-> "grant", step |-> "recheck", read |-> ops[h].record.sequence,
                     record |-> [action |-> "grant", version |-> "current",
                                 sequence |-> ops[h].record.sequence + 1]]
           op == IF Completing(ops[h]) THEN grant ELSE Idle
<1>3. ops' = [ops EXCEPT ![h] = op]
  BY DEF Fsync, Prepare, Returns, Completing
<1>4. /\ op \in [call : {"none", "grant", "begin", "complete"},
                 step : {"idle", "recheck", "write", "fsync"},
                 read : Nat, record : Records \cup {Torn}]
      /\ op # Idle => op.record.sequence = op.read + 1
      /\ op.step # "fsync"
  BY <1>1 DEF Idle, Records, Actions, Versions
<1>5. OpInStep(op) /\ OpCompletes(op) /\ OpChecked(op)
  <2>1. OpInStep(grant) /\ OpCompletes(grant) /\ OpChecked(grant)
    BY <1>1 DEF OpInStep, OpCompletes, OpChecked, Completing
  <2> QED BY <2>1, IdleInStep DEF JournalInv
<1>6. \A k \in 1..Len(file) : ReadBefore(ops[h], k) => ReadBefore(op, k)
  BY <1>1 DEF ReadBefore, Completing, Idle, Torn
<1> HIDE DEF op
<1>7. JournalTyped'
  BY <1>1, <1>2, <1>3, <1>4 DEF JournalInv, JournalTyped
<1>8. JournalChained' /\ OpsInStep'
  BY <1>2, <1>3, <1>5, OneMoves
<1>9. \A k : Settled(k) => Settled(k)'
  BY <1>2, <1>3, <1>6, SettledStays DEF Settled
<1>10. \A g \in Hosts : ops'[g] = IF g = h THEN op ELSE ops[g]
  BY <1>3 DEF JournalInv, JournalTyped
<1>11. owner' = "revoke" => \E k \in 1..durable' : Settled(k)'
  <2>1. CASE ops[h].call = "begin" /\ owner = h
    BY <1>1, <1>2, <1>9, <2>1 DEF JournalInv, RevocationRecorded
  <2>2. CASE owner = "revoke"
    BY <1>1, <1>2, <1>9, <2>2 DEF JournalInv, RevocationRecorded
  <2> QED BY <1>2, <2>1, <2>2
<1>12. \A g \in Hosts : owner' = g /\ ops'[g].call = "begin" /\ ops'[g].step = "fsync" =>
          \E k \in 1..Len(file') : Settled(k)'
  BY <1>2, <1>4, <1>9, <1>10, HostsAssumption DEF JournalInv, RevocationRecorded
<1> QED BY <1>7, <1>8, <1>11, <1>12 DEF JournalInv, RevocationRecorded

\* Power is lost: what the fsync covered is a prefix of what survives, and of the rest
\* the last line is at most a torn one.
LEMMA PowerLossKeeps == ASSUME JournalInv, PowerLoss PROVE JournalInv'
<1>1. /\ file \in Seq(Records \cup {Torn}) /\ Len(file) \in Nat /\ durable \in 0..Len(file)
      /\ ops' = [h \in Hosts |-> Idle] /\ UNCHANGED owner /\ durable' = Len(file')
  BY DEF JournalInv, JournalTyped, PowerLoss
<1>2. PICK n \in durable..Len(file) :
        \/ file' = SubSeq(file, 1, n)
        \/ n < Len(file) /\ file' = Append(SubSeq(file, 1, n), Torn)
  BY DEF PowerLoss
<1>3. /\ n \in Nat /\ SubSeq(file, 1, n) \in Seq(Records \cup {Torn})
      /\ Len(SubSeq(file, 1, n)) = n
      /\ \A i \in 1..n : SubSeq(file, 1, n)[i] = file[i]
  BY <1>1
<1>4. /\ file' \in Seq(Records \cup {Torn}) /\ Len(file') \in {n, n + 1}
      /\ \A i \in 1..n : file'[i] = file[i] /\ file[i] = file'[i]
      /\ Len(file') = n + 1 => file'[n + 1] = Torn
  <2>1. CASE file' = SubSeq(file, 1, n)
    BY <1>3, <2>1
  <2>2. CASE file' = Append(SubSeq(file, 1, n), Torn)
    <3>1. /\ file' \in Seq(Records \cup {Torn}) /\ Len(file') = n + 1
          /\ file'[n + 1] = Torn
          /\ \A i \in 1..n : file'[i] = SubSeq(file, 1, n)[i]
      BY <1>3, <2>2, Appended
    <3> QED BY <1>3, <3>1
  <2> QED BY <1>2, <2>1, <2>2
<1>5. JournalTyped'
  BY <1>1, <1>3, <1>4 DEF JournalInv, JournalTyped, Idle
<1>6. JournalChained'
  <2> SUFFICES ASSUME NEW i \in 1..Len(file') PROVE Chained(file', i)
    BY DEF JournalChained
  <2>1. CASE i = n + 1
    BY <1>3, <1>4, <2>1 DEF Chained, InSequence, Torn
  <2>2. CASE i \in 1..n
    <3>1. Chained(file, i) /\ i \in 0..n /\ i > 0
      BY <1>1, <1>3, <2>2 DEF JournalInv, JournalChained
    <3> QED BY <1>3, <1>4, <3>1, SamePrefix
  <2> QED BY <1>3, <1>4, <2>1, <2>2
<1>7. OpsInStep'
  BY <1>1, <1>5 DEF OpsInStep, JournalTyped, OpInStep, OpCompletes, OpChecked, Idle, Completing
<1>8. ASSUME NEW k \in 1..durable, Settled(k) PROVE k \in 1..durable' /\ Settled(k)'
  <2>1. k \in 1..n /\ k \in 1..Len(file') /\ file'[k].action = "revoke_pending"
    BY <1>1, <1>3, <1>4, <1>8 DEF Settled
  <2>2. ASSUME NEW i \in (k + 1)..Len(file'), file'[i].action = "grant"
        PROVE  file'[i].sequence # i
    <3>1. i # n + 1 \/ file'[i] = Torn
      BY <1>3, <1>4, <2>2
    <3>2. i \in (k + 1)..Len(file) /\ i \in 1..n
      BY <1>1, <1>3, <1>4, <2>1, <2>2, <3>1 DEF Torn
    <3> QED BY <1>4, <1>8, <2>2, <3>2 DEF Settled
  <2>3. \A h \in Hosts : ReadBefore(ops'[h], k)
    BY <1>1 DEF ReadBefore, Idle, Torn, Completing
  <2> QED BY <1>1, <2>1, <2>2, <2>3 DEF Settled, ReadBefore, Completing
<1>9. RevocationRecorded'
  BY <1>1, <1>8 DEF JournalInv, RevocationRecorded, Idle
<1> QED BY <1>5, <1>6, <1>7, <1>9 DEF JournalInv

-----------------------------------------------------------------------------
(* The theorems *)

\* The journals that the previous version of the app left satisfy the invariant.
LEMMA InitJournalInv == JournalInit => JournalInv
<1> SUFFICES ASSUME JournalInit PROVE JournalInv
  OBVIOUS
<1> DEFINE full == <<[action |-> "grant", version |-> "legacy", sequence |-> 1],
                     [action |-> "revoke_pending", version |-> "legacy", sequence |-> 2],
                     [action |-> "revoke_complete", version |-> "legacy", sequence |-> 3]>>
<1>1. PICK n \in 0..3 : file = SubSeq(full, 1, n)
  BY DEF JournalInit, LegacyJournals
<1>2. full \in Seq(Records \cup {Torn}) /\ Len(full) = 3
  BY DEF Records, Actions, Versions
<1>3. /\ file \in Seq(Records \cup {Torn}) /\ Len(file) = n /\ n \in Nat
      /\ \A i \in 1..n : file[i] = full[i]
  BY <1>1, <1>2
<1>4. JournalTyped
  BY <1>3 DEF JournalInit, JournalTyped, Idle
<1>5. Capacity >= 3
  BY CapacityAssumption
<1>6. ASSUME NEW i \in 1..n
      PROVE  /\ file[i] \in Records /\ file[i].version = "legacy" /\ i <= 3
             /\ i = 1 => file[i].action = "grant"
             /\ i = 2 => file[i].action = "revoke_pending"
             /\ i = 3 => file[i].action = "revoke_complete"
  BY <1>3, <1>6 DEF Records, Actions, Versions
<1>7. ASSUME NEW i \in 1..n PROVE Chained(file, i)
  <2>1. i \in {1, 2, 3} /\ (i > 1 => i - 1 \in 1..n)
    BY <1>3, <1>7
  <2>2. Fits(file, i)
    BY <1>6, <2>1 DEF Fits, ValidNext, ActionAfter
  <2>3. InPhase(file[i], i)
    BY <1>6, <2>1 DEF InPhase
  <2>4. \A k \in 1..i : file[k].version # "current"
    BY <1>3, <1>6, <2>1
  <2> QED BY <1>5, <1>6, <2>1, <2>2, <2>3, <2>4, CapacityAssumption DEF Chained
<1>8. OpsInStep
  BY <1>3, <1>4, IdleInStep DEF JournalInit, OpsInStep
<1>9. RevocationRecorded
  BY HostsAssumption DEF JournalInit, RevocationRecorded
<1> QED BY <1>3, <1>4, <1>7, <1>8, <1>9 DEF JournalInv, JournalChained

\* Every step of every host, and a loss of power, keep the invariant.
LEMMA StepJournalInv == JournalInv /\ [JournalNext]_journalVars => JournalInv'
<1> SUFFICES ASSUME JournalInv, [JournalNext]_journalVars PROVE JournalInv'
  OBVIOUS
<1>1. CASE UNCHANGED journalVars
  BY <1>1 DEF journalVars, JournalInv, JournalTyped, JournalChained, OpsInStep, RevocationRecorded, Chained,
     InSequence, Fits, InPhase, OpInStep, OpCompletes, OpChecked, Completing, Settled,
     ReadBefore
<1>2. ASSUME NEW h \in Hosts, HostCrash(h) PROVE JournalInv'
  BY <1>2, ReturnKeeps DEF HostCrash
<1> QED BY <1>1, <1>2, GrantKeeps, BeginKeeps, PendingKeeps, CompleteKeeps, RecheckKeeps,
     WriteKeeps, ShortWriteKeeps, FsyncKeeps, PowerLossKeeps DEF JournalNext

\* The invariant holds in every reachable state.
THEOREM JournalInvariance == JournalSpec => []JournalInv
  BY InitJournalInv, StepJournalInv, PTL DEF JournalSpec

\* A journal that settles a revocation grants nothing.
LEMMA SettledDenies == JournalInv => RevocationHolds
<1> SUFFICES ASSUME JournalInv, owner = "revoke", Granted(file) PROVE FALSE
  BY DEF RevocationHolds
<1>1. file \in Seq(Records \cup {Torn}) /\ Len(file) \in Nat
  BY DEF JournalInv, JournalTyped
<1>2. file # <<>> /\ ValidJournal(file) /\ Latest(file).action = "grant"
  BY DEF Granted, Status
<1>3. PICK k : Settled(k)
  BY DEF JournalInv, RevocationRecorded
<1>4. Len(file) > 0 /\ file[Len(file)].sequence = Len(file)
  BY <1>1, <1>2 DEF ValidJournal
<1>5. k \in 1..Len(file) /\ k # Len(file)
  BY <1>2, <1>3 DEF Settled, Latest
<1>6. Len(file) \in (k + 1)..Len(file)
  BY <1>1, <1>5
<1> QED BY <1>2, <1>3, <1>4, <1>6 DEF Settled, Latest

\* Once the owner was told that the revocation is recorded, the journal denies, whatever
\* hosts write late, tear or lose (ADR 0010; beginRevocation, #append).
THEOREM RevocationStands == JournalSpec => []RevocationHolds
  BY JournalInvariance, SettledDenies, PTL

\* What the operations write, load() reads, and a granted consent has room for the record
\* that revokes it: a grant is never the last record that fits (parseJournal, #append).
THEOREM AlwaysReadable == JournalSpec => []ReadableWithRoom
<1>1. JournalInv => ReadableWithRoom
  <2> SUFFICES ASSUME JournalInv PROVE ReadableWithRoom
    OBVIOUS
  <2>1. JournalTyped /\ JournalChained /\ Len(file) \in Nat
    BY DEF JournalInv, JournalTyped
  <2>2. (\A i \in 1..Len(file) : file[i].sequence = i) => ValidJournal(file)
    BY <2>1, InSequenceValid DEF InSequence
  <2>3. ASSUME Granted(file) PROVE Len(file) < Capacity
    <3>1. /\ file # <<>> /\ ValidJournal(file) /\ Latest(file).action = "grant"
          /\ Len(file) \in 1..Len(file)
      BY <2>1, <2>3 DEF Granted, Status, JournalTyped
    <3>2. InSequence(file, Len(file)) /\ Chained(file, Len(file))
      BY <2>1, <3>1, ValidInSequence DEF JournalChained
    <3>3. Len(file) <= Capacity /\ InPhase(Latest(file), Len(file))
      BY <3>2 DEF Chained, Latest
    <3>4. Len(file) % 3 \in {1, 2}
      BY <3>1, <3>3 DEF InPhase
    <3> QED BY <2>1, <3>3, <3>4, CapacityAssumption
  <2> QED BY <2>1, <2>2, <2>3 DEF ReadableWithRoom
<1> QED BY <1>1, JournalInvariance, PTL

\* Consent begins only where a host writes a grant, or where a loss of power takes a
\* revocation that was not answered yet (grant, #append).
THEOREM GrantsByGrant == JournalSpec => GrantedByGrant
<1> DEFINE Begins == ~Granted(file) /\ Granted(file') =>
              \/ \E h \in Hosts : ops[h].call = "grant" /\ ops[h].step = "write"
                                  /\ ops'[h].step = "fsync"
              \/ PowerLoss /\ owner # "revoke"
<1>1. ASSUME JournalInv, RevocationHolds', [JournalNext]_journalVars PROVE Begins
  <2> SUFFICES ASSUME ~Granted(file), Granted(file')
        PROVE  \/ \E h \in Hosts : ops[h].call = "grant" /\ ops[h].step = "write"
                                   /\ ops'[h].step = "fsync"
               \/ PowerLoss /\ owner # "revoke"
    OBVIOUS
  <2>1. file' # file
    OBVIOUS
  <2>2. file' # <<>> /\ ValidJournal(file') /\ Latest(file').action = "grant"
    BY DEF Granted, Status
  <2>3. file \in Seq(Records \cup {Torn}) /\ Len(file) \in Nat
    BY <1>1 DEF JournalInv, JournalTyped
  <2>4. ASSUME NEW h \in Hosts, Write(h)
        PROVE  ops[h].call = "grant" /\ ops[h].step = "write" /\ ops'[h].step = "fsync"
    <3>1. ops[h].record \in Records \cup {Torn} /\ OpInStep(ops[h])
      BY <1>1 DEF JournalInv, JournalTyped, OpsInStep
    <3>2. Latest(file') = ops[h].record
      BY <2>3, <2>4, <3>1, Appended DEF Write, Latest
    <3> QED BY <1>1, <2>2, <2>4, <3>1, <3>2 DEF Write, JournalInv, JournalTyped, OpInStep, Completing
  <2>5. ASSUME NEW h \in Hosts, ShortWrite(h) PROVE FALSE
    <3>1. Latest(file') = Torn
      BY <2>3, <2>5, Appended DEF ShortWrite, Latest
    <3> QED BY <2>2, <3>1 DEF Torn
  <2>6. CASE PowerLoss
    BY <1>1, <2>6 DEF RevocationHolds, PowerLoss
  <2> QED BY <1>1, <2>1, <2>4, <2>5, <2>6 DEF JournalNext, journalVars, Grant, BeginRevocation,
       RevocationPending, CompleteRevocation, Recheck, Fsync, HostCrash
<1>2. JournalInv /\ RevocationHolds' /\ [JournalNext]_journalVars => [Begins]_journalVars
  BY <1>1
<1> QED BY <1>2, JournalInvariance, RevocationStands, PTL DEF JournalSpec, GrantedByGrant

-----------------------------------------------------------------------------
(* The finance tool dispatcher.  The usage of a turn counts at least the    *)
(* requests of it that may have had an effect and the one that is about to  *)
(* be made, since a call that outlives its session finds no turn and no     *)
(* session to give its reservation back to.                                 *)

\* One call at a time is in progress.
OneCall == \A c, d \in calls : c = d

\* A turn is one of a session, and both have been counted.
TurnInSession ==
    /\ turn.id = 0 => turn = NoTurn
    /\ session = 0 => turn = NoTurn
    /\ session <= started.sessions /\ turn.id <= started.turns

\* A call is one of the current turn, or has outlived its session.
CallsOfTurn ==
    \A c \in calls :
       /\ c.tool \in Counted
       /\ c.session <= started.sessions /\ c.turn <= started.turns
       /\ session # 0 => c.session = session /\ c.turn = turn.id

\* While a call is in progress the ledger has room for it and does not know it.
CallsUnknown ==
    /\ IsFiniteSet(DOMAIN ledger)
    /\ \A c \in calls : /\ Cardinality(DOMAIN ledger) < MaxLedger
                        /\ session # 0 => ~Known(c.id)

\* The requests are those of the calls that were answered and of the one in progress.
RequestsOfCalls ==
    /\ \A r \in asked : /\ r.of.session <= started.sessions /\ r.of.turn <= started.turns
                        /\ r.of.session = session =>
                              Known(r.of.id) \/ \E c \in calls : c.id = r.of.id
    /\ \A c \in calls :
          /\ c.step # "granted" => Request(c, FALSE) \in asked
          /\ c.step = "granted" => \A r \in asked : r.of.session = c.session => r.of.id # c.id

\* An answer that was checked is one whose consent stands, unless its turn was aborted.
CheckedUnderConsent == \A c \in calls : c.step = "checked" /\ Current(c) => consent

\* The call in progress that is about to make a request.
Reserved(tool) == IF \E c \in calls : c.tool = tool /\ c.step = "granted" THEN 1 ELSE 0

\* The usage covers the requests of the turn and of the session.
Budgeted ==
    /\ IsFiniteSet(asked)
    /\ \A tool \in Counted :
          /\ turn # NoTurn =>
                Cardinality(InTurn(tool, turn.id)) + Reserved(tool) <= usage.turn[tool]
          /\ session # 0 =>
                Cardinality(InSession(tool, session)) + Reserved(tool) <= usage.session[tool]

IInv ==
    /\ WithinBudget /\ OneCall /\ TurnInSession /\ CallsOfTurn /\ CallsUnknown
    /\ RequestsOfCalls /\ CheckedUnderConsent /\ Budgeted

-----------------------------------------------------------------------------
(* What the actions are made of *)

Kinds == Counted \cup {"output"}

Raised(u, k, a) == [u EXCEPT !.turn[k] = @ + a, !.session[k] = @ + a]

\* A reservation and the size of an answer raise one number of each usage.
LEMMA UsageRaised ==
    ASSUME NEW u \in [turn : Usages, session : Usages], NEW k \in Kinds, NEW a \in Nat,
           NEW v, v = Raised(u, k, a)
    PROVE  /\ v \in [turn : Usages, session : Usages]
           /\ \A j \in Kinds : /\ v.turn[j] = IF j = k THEN u.turn[k] + a ELSE u.turn[j]
                               /\ v.session[j] = IF j = k THEN u.session[k] + a
                                                 ELSE u.session[j]
<1>1. u.turn \in Usages /\ u.session \in Usages
  OBVIOUS
<1>2. /\ v.turn = [u.turn EXCEPT ![k] = @ + a] /\ v.session = [u.session EXCEPT ![k] = @ + a]
      /\ v = [turn |-> v.turn, session |-> v.session]
  BY DEF Raised
<1>3. v.turn \in Usages /\ v.session \in Usages
  BY <1>1, <1>2 DEF Usages, Kinds
<1> QED BY <1>1, <1>2, <1>3 DEF Usages, Kinds

\* A reservation counts one call.
LEMMA ReservationRaises ==
    ASSUME usage \in [turn : Usages, session : Usages], NEW k \in Kinds,
           usage' = Raised(usage, k, 1)
    PROVE  /\ usage' \in [turn : Usages, session : Usages]
           /\ \A j \in Kinds :
                 /\ usage'.turn[j] = IF j = k THEN usage.turn[k] + 1 ELSE usage.turn[j]
                 /\ usage'.session[j] = IF j = k THEN usage.session[k] + 1
                                        ELSE usage.session[j]
  BY UsageRaised

\* A release lowers one number of each, but not below zero.
LEMMA UsageReleased ==
    ASSUME usage \in [turn : Usages, session : Usages], NEW k \in Kinds,
           NEW v, v = Released(k)
    PROVE  /\ v \in [turn : Usages, session : Usages]
           /\ \A j \in Kinds :
                 /\ v.turn[j] = IF j = k /\ usage.turn[k] # 0 THEN usage.turn[k] - 1
                                ELSE usage.turn[j]
                 /\ v.session[j] = IF j = k /\ usage.session[k] # 0 THEN usage.session[k] - 1
                                   ELSE usage.session[j]
<1> DEFINE a == IF usage.turn[k] = 0 THEN 0 ELSE usage.turn[k] - 1
           b == IF usage.session[k] = 0 THEN 0 ELSE usage.session[k] - 1
<1>1. usage.turn \in Usages /\ usage.session \in Usages
  OBVIOUS
<1>2. a \in Nat /\ b \in Nat
  BY <1>1 DEF Usages, Kinds
<1>3. /\ v.turn = [usage.turn EXCEPT ![k] = a] /\ v.session = [usage.session EXCEPT ![k] = b]
      /\ v = [turn |-> v.turn, session |-> v.session]
  BY DEF Released
<1>4. v.turn \in Usages /\ v.session \in Usages
  BY <1>1, <1>2, <1>3 DEF Usages, Kinds
<1> QED BY <1>1, <1>3, <1>4 DEF Usages, Kinds

\* The limits are numbers.
LEMMA LimitsAreNumbers ==
    \A tool \in Counted : TurnLimit(tool) \in Nat /\ SessionLimit(tool) \in Nat
  BY LimitsAssumption DEF TurnLimit, SessionLimit

\* What remember keeps: the answers there are, and, where it has room, the new one.
LEMMA Remembered ==
    ASSUME IInv, NEW call, NEW result \in Results, Remember(call, result),
           call.id \in CallIds, Digest(call) \in Digests
    PROVE  /\ DOMAIN ledger' \subseteq CallIds /\ IsFiniteSet(DOMAIN ledger')
           /\ \A id \in DOMAIN ledger' : ledger'[id] \in [digest : Digests, result : Results]
           /\ \A id : Known(id) => Known(id)'
           /\ Cardinality(DOMAIN ledger) < MaxLedger => call.id \in DOMAIN ledger'
           /\ ~Known(call.id) => \A id \in DOMAIN ledger : ledger'[id] = ledger[id]
<1>1. IsFiniteSet(DOMAIN ledger) /\ DOMAIN ledger \subseteq CallIds
  BY DEF IInv, CallsUnknown, WithinBudget, TypeOK
<1>2. CASE Cardinality(DOMAIN ledger) < MaxLedger
  <2>1. ledger' = [id \in DOMAIN ledger \cup {call.id} |->
                      IF id = call.id THEN [digest |-> Digest(call), result |-> result]
                      ELSE ledger[id]]
    BY <1>2 DEF Remember
  <2>2. DOMAIN ledger' = DOMAIN ledger \cup {call.id}
    BY <2>1
  <2>3. IsFiniteSet(DOMAIN ledger \cup {call.id})
    BY <1>1, FS_AddElement
  <2>4. \A id \in DOMAIN ledger' : ledger'[id] \in [digest : Digests, result : Results]
    BY <2>1, <2>2 DEF IInv, WithinBudget, TypeOK
  <2> QED BY <1>1, <2>1, <2>2, <2>3, <2>4 DEF Known
<1>3. CASE ~(Cardinality(DOMAIN ledger) < MaxLedger)
  BY <1>1, <1>3 DEF Remember, IInv, WithinBudget, TypeOK, Known
<1> QED BY <1>2, <1>3

\* The one call in progress.
LEMMA OnlyCall ==
    ASSUME IInv, NEW c \in calls
    PROVE  /\ calls = {c} /\ activeCall
           /\ c \in [session : 1..MaxSessions, turn : Turns, id : CallIds, tool : Tools,
                     step : {"granted", "asked", "reading", "checked"}]
           /\ c.tool \in Counted /\ Digest(c) \in Digests
           /\ Cardinality(DOMAIN ledger) < MaxLedger
           /\ session # 0 => ~Known(c.id) /\ c.session = session /\ c.turn = turn.id
           /\ session = 0 => turn = NoTurn
<1>1. c \in [session : 1..MaxSessions, turn : Turns, id : CallIds, tool : Tools,
             step : {"granted", "asked", "reading", "checked"}] /\ activeCall
  BY DEF IInv, WithinBudget, TypeOK
<1>2. Digest(c) \in Digests
  BY <1>1 DEF Digest, Digests
<1> QED BY <1>1, <1>2 DEF IInv, OneCall, CallsOfTurn, CallsUnknown, TurnInSession

\* The requests of a turn and of a session are finitely many.
LEMMA FiniteRequests ==
    ASSUME IsFiniteSet(asked), NEW tool, NEW n
    PROVE  /\ IsFiniteSet(InTurn(tool, n)) /\ Cardinality(InTurn(tool, n)) \in Nat
           /\ IsFiniteSet(InSession(tool, n)) /\ Cardinality(InSession(tool, n)) \in Nat
<1>1. InTurn(tool, n) \subseteq asked /\ InSession(tool, n) \subseteq asked
  BY DEF InTurn, InSession, Effective
<1> QED BY <1>1, FS_Subset, FS_CardinalityType

\* A set that gets at most one more element, or loses one.
LEMMA OneMore ==
    ASSUME NEW S, IsFiniteSet(S), NEW T, NEW x, T \subseteq S \cup {x}
    PROVE  Cardinality(T) <= Cardinality(S) + 1 /\ Cardinality(S) \in Nat
<1>1. IsFiniteSet(S \cup {x}) /\ Cardinality(S) \in Nat
  BY FS_AddElement, FS_CardinalityType
<1>2. Cardinality(S \cup {x}) <= Cardinality(S) + 1
  BY <1>1, FS_AddElement
<1>3. Cardinality(T) <= Cardinality(S \cup {x}) /\ Cardinality(T) \in Nat
  BY <1>1, FS_Subset, FS_CardinalityType
<1>4. Cardinality(S \cup {x}) \in Nat
  BY <1>1, FS_CardinalityType
<1> QED BY <1>1, <1>2, <1>3, <1>4

\* A set with one candidate.
LEMMA AtMostOne == ASSUME NEW S, NEW x, S \subseteq {x} PROVE Cardinality(S) <= 1
<1>1. S = {} \/ S = {x}
  OBVIOUS
<1>2. Cardinality({}) = 0 /\ Cardinality({x}) = 1
  BY FS_EmptySet, FS_Singleton
<1> QED BY <1>1, <1>2

\* A part of a finite set.
LEMMA Fewer ==
    ASSUME NEW S, IsFiniteSet(S), NEW T, T \subseteq S
    PROVE  Cardinality(T) <= Cardinality(S) /\ Cardinality(T) \in Nat
  BY FS_Subset, FS_CardinalityType

\* A part of a finite set that lacks one of its elements.
LEMMA OneLess ==
    ASSUME NEW S, IsFiniteSet(S), NEW x \in S, NEW T, T \subseteq S \ {x}
    PROVE  Cardinality(T) + 1 <= Cardinality(S) /\ Cardinality(T) \in Nat
<1>1. IsFiniteSet(S \ {x}) /\ Cardinality(S \ {x}) = Cardinality(S) - 1
  BY FS_RemoveElement
<1>2. Cardinality(S) \in Nat
  BY FS_CardinalityType
<1>3. Cardinality(T) <= Cardinality(S \ {x}) /\ Cardinality(T) \in Nat
  BY <1>1, Fewer
<1> QED BY <1>1, <1>2, <1>3

\* The numbers of requests, within the limits; a part of WithinBudget.
CountsWithin ==
    \A tool \in Counted :
       /\ \A t \in Turns : Cardinality(InTurn(tool, t)) <= TurnLimit(tool)
       /\ \A s \in 1..MaxSessions : Cardinality(InSession(tool, s)) <= SessionLimit(tool)

\* Where neither a request nor the usage nor the turn changes, and no call is about to
\* make a request that was not before, the budget stays as it is.
LEMMA BudgetStays ==
    ASSUME IInv, UNCHANGED <<asked, usage, session, turn>>,
           \A tool \in Counted : Reserved(tool)' <= Reserved(tool)
    PROVE  Budgeted' /\ CountsWithin'
<1>1. CountsWithin'
  BY DEF IInv, WithinBudget, CountsWithin, InTurn, InSession, Effective
<1>2. IsFiniteSet(asked')
  BY DEF IInv, Budgeted
<1>3. ASSUME NEW tool \in Counted
      PROVE  /\ turn' # NoTurn =>
                  Cardinality(InTurn(tool, turn.id)') + Reserved(tool)' <= usage'.turn[tool]
             /\ session' # 0 =>
                  Cardinality(InSession(tool, session)') + Reserved(tool)'
                     <= usage'.session[tool]
  <2>1. InTurn(tool, turn.id)' = InTurn(tool, turn.id)
        /\ InSession(tool, session)' = InSession(tool, session)
    BY DEF InTurn, InSession, Effective
  <2>2. /\ Cardinality(InTurn(tool, turn.id)) \in Nat
        /\ Cardinality(InSession(tool, session)) \in Nat
    BY FiniteRequests DEF IInv, Budgeted
  <2>3. Reserved(tool) \in Nat /\ Reserved(tool)' \in Nat /\ Reserved(tool)' <= Reserved(tool)
    BY DEF Reserved
  <2>4. usage.turn[tool] \in Nat /\ usage.session[tool] \in Nat
    BY DEF IInv, WithinBudget, TypeOK, Usages
  <2> QED BY <2>1, <2>2, <2>3, <2>4 DEF IInv, Budgeted
<1> QED BY <1>1, <1>2, <1>3 DEF Budgeted

-----------------------------------------------------------------------------
(* What the service does *)

\* A session or a turn that starts finds no call and no request of its number.
LEMMA StartsKeep ==
    ASSUME IInv, StartSession \/ StartTurn PROVE IInv'
<1> USE LimitsAssumption
<1>1. TypeOK /\ calls = {} /\ UNCHANGED <<consent, activeCall, calls, asked, answer>>
  BY DEF IInv, WithinBudget, TypeOK, StartSession, StartTurn
<1>2. started' \in [sessions : 0..MaxSessions, turns : 0..MaxTurns]
  <2>1. CASE StartSession
    <3>1. started.sessions + 1 \in 0..MaxSessions
      BY <1>1, <2>1 DEF TypeOK, StartSession
    <3> QED BY <1>1, <2>1, <3>1 DEF TypeOK, StartSession
  <2>2. CASE StartTurn
    <3>1. started.turns + 1 \in 0..MaxTurns
      BY <1>1, <2>2 DEF TypeOK, StartTurn
    <3> QED BY <1>1, <2>2, <3>1 DEF TypeOK, StartTurn
  <2> QED BY <2>1, <2>2
<1>3. /\ session' <= started'.sessions /\ turn'.id <= started'.turns
      /\ started.sessions <= started'.sessions /\ started.turns <= started'.turns
      /\ session' = session \/ (session' = started.sessions + 1 /\ turn = NoTurn)
      /\ turn' = turn \/ turn' = [id |-> started.turns + 1, aborted |-> FALSE]
      /\ session' # 0
  BY <1>1 DEF StartSession, StartTurn, TypeOK, IInv, TurnInSession
<1>4. \/ usage' = [turn |-> NoUsage, session |-> NoUsage] /\ ledger' = NoCalls /\ turn' = NoTurn
         /\ corrections' = corrections
      \/ usage' = [usage EXCEPT !.turn = NoUsage] /\ ledger' = ledger /\ corrections' = 0
         /\ session' = session /\ turn' = [id |-> started.turns + 1, aborted |-> FALSE]
  BY DEF StartSession, StartTurn, IInv, TurnInSession
<1>5. NoUsage \in Usages /\ \A k \in Kinds : NoUsage[k] = 0
  BY DEF NoUsage, Usages, Kinds
<1>6. /\ usage' \in [turn : Usages, session : Usages]
      /\ usage'.turn = NoUsage /\ usage'.session \in {NoUsage, usage.session}
      /\ session' # session => usage'.session = NoUsage
  BY <1>1, <1>3, <1>4, <1>5 DEF TypeOK, StartSession, StartTurn
<1>7. TypeOK'
  <2>1. session' \in 0..MaxSessions /\ turn' \in [id : 0..MaxTurns, aborted : BOOLEAN]
    <3>1. CASE StartSession
      BY <1>1, <3>1 DEF TypeOK, StartSession
    <3>2. CASE StartTurn
      <4>1. started.turns + 1 \in 0..MaxTurns
        BY <1>1, <3>2 DEF TypeOK, StartTurn
      <4> QED BY <1>1, <3>2, <4>1 DEF TypeOK, StartTurn
    <3> QED BY <3>1, <3>2
  <2>2. /\ \A tool \in Counted : /\ usage'.turn[tool] <= TurnLimit(tool)
                                 /\ usage'.session[tool] <= SessionLimit(tool)
        /\ usage'.turn["output"] <= TurnOutput /\ usage'.session["output"] <= SessionOutput
    BY <1>1, <1>5, <1>6, LimitsAreNumbers DEF TypeOK, Kinds
  <2>3. /\ DOMAIN ledger' \subseteq CallIds
        /\ \A id \in DOMAIN ledger' : ledger'[id] \in [digest : Digests, result : Results]
    BY <1>1, <1>4 DEF TypeOK, NoCalls
  <2>4. corrections' \in 0..TurnCorrections
    BY <1>1, <1>4 DEF TypeOK
  <2> QED BY <1>1, <1>2, <1>6, <2>1, <2>2, <2>3, <2>4 DEF TypeOK
<1>8. OneCall' /\ CallsOfTurn' /\ CheckedUnderConsent'
  BY <1>1 DEF OneCall, CallsOfTurn, CheckedUnderConsent
<1>9. TurnInSession'
  BY <1>1, <1>3, <1>4 DEF TurnInSession, IInv, TypeOK, NoTurn
<1>10. CallsUnknown'
  <2>1. IsFiniteSet(DOMAIN NoCalls)
    BY FS_EmptySet DEF NoCalls
  <2> QED BY <1>1, <1>4, <2>1 DEF CallsUnknown, IInv
<1>11. \A r \in asked : /\ r.of.session <= started.sessions /\ r.of.turn <= started.turns
                        /\ r.of.session \in Nat /\ r.of.turn \in Nat
  BY <1>1 DEF IInv, RequestsOfCalls, TypeOK, Turns
<1>12. started.sessions \in Nat /\ started.turns \in Nat
  BY <1>1 DEF TypeOK
<1>13. RequestsOfCalls'
  <2>1. ASSUME NEW r \in asked
        PROVE  /\ r.of.session <= started'.sessions /\ r.of.turn <= started'.turns
               /\ r.of.session = session' => Known(r.of.id)'
    <3>1. r.of.session <= started'.sessions /\ r.of.turn <= started'.turns
      <4>1. started'.sessions \in Nat /\ started'.turns \in Nat
        BY <1>2
      <4> QED BY <1>3, <1>11, <1>12, <4>1
    <3>2. CASE session' = started.sessions + 1
      BY <1>3, <1>11, <1>12, <2>1, <3>1, <3>2, <1>4, <1>1 DEF IInv, RequestsOfCalls, Known
    <3>3. CASE session' = session /\ ledger' = ledger
      BY <1>1, <2>1, <3>1, <3>3 DEF IInv, RequestsOfCalls, Known
    <3> QED BY <1>3, <1>4, <3>1, <3>2, <3>3 DEF StartSession, StartTurn
  <2> QED BY <1>1, <2>1 DEF RequestsOfCalls
<1>14. CountsWithin'
  BY <1>1 DEF IInv, WithinBudget, CountsWithin, InTurn, InSession, Effective
<1>15. Budgeted'
  <2>1. \A tool : Reserved(tool)' = 0
    BY <1>1 DEF Reserved
  <2>2. ASSUME NEW tool \in Counted, turn' # NoTurn
        PROVE  Cardinality(InTurn(tool, turn.id)') + Reserved(tool)' <= usage'.turn[tool]
    <3>1. turn'.id = started.turns + 1
      BY <1>4, <2>2
    <3>2. InTurn(tool, turn.id)' = {}
      BY <1>1, <1>11, <1>12, <3>1 DEF InTurn, Effective
    <3> QED BY <1>5, <1>6, <2>1, <3>2, FS_EmptySet DEF Kinds
  <2>3. ASSUME NEW tool \in Counted
        PROVE  Cardinality(InSession(tool, session)') + Reserved(tool)'
                  <= usage'.session[tool]
    <3>1. CASE session' = session /\ usage'.session = usage.session
      <4>1. InSession(tool, session)' = InSession(tool, session) /\ session # 0
        BY <1>1, <1>3, <3>1 DEF InSession, Effective
      <4>2. Cardinality(InSession(tool, session)) + Reserved(tool) <= usage.session[tool]
        BY <4>1 DEF IInv, Budgeted
      <4>3. Reserved(tool) = 0
        BY <1>1 DEF Reserved
      <4> QED BY <2>1, <3>1, <4>1, <4>2, <4>3
    <3>2. CASE session' = started.sessions + 1 /\ usage'.session = NoUsage
      <4>1. InSession(tool, session)' = {}
        BY <1>1, <1>11, <1>12, <3>2 DEF InSession, Effective
      <4> QED BY <1>5, <2>1, <3>2, <4>1, FS_EmptySet DEF Kinds
    <3> QED BY <3>1, <3>2, <1>1 DEF StartSession, StartTurn, TypeOK
  <2> QED BY <1>1, <2>2, <2>3 DEF Budgeted, IInv
<1> QED BY <1>7, <1>8, <1>9, <1>10, <1>13, <1>14, <1>15 DEF IInv, WithinBudget, CountsWithin

\* The end of a turn or of a session finds no call, and the loss of a session leaves one
\* that has no turn left.
LEMMA EndsKeep ==
    ASSUME IInv, FinishTurn \/ CloseSession \/ AbandonSession PROVE IInv'
<1> USE LimitsAssumption
<1>1. TypeOK /\ UNCHANGED <<consent, started, activeCall, calls, asked, answer>>
  BY DEF IInv, WithinBudget, FinishTurn, CloseSession, AbandonSession
<1>2. /\ turn' = NoTurn
      /\ \/ calls = {} /\ session' = session /\ ledger' = ledger
            /\ usage' = [usage EXCEPT !.turn = NoUsage] /\ corrections' = 0
         \/ calls = {} /\ session' = 0 /\ ledger' = NoCalls
            /\ usage' = [usage EXCEPT !.session = NoUsage] /\ corrections' = corrections
         \/ session' = 0 /\ ledger' = NoCalls /\ corrections' = 0
            /\ usage' = [turn |-> NoUsage, session |-> NoUsage]
  BY <1>1 DEF FinishTurn, CloseSession, AbandonSession, TypeOK
<1>3. NoUsage \in Usages /\ \A k \in Kinds : NoUsage[k] = 0
  BY DEF NoUsage, Usages, Kinds
<1>4. /\ usage' \in [turn : Usages, session : Usages]
      /\ usage'.turn \in {NoUsage, usage.turn} /\ usage'.session \in {NoUsage, usage.session}
      /\ session' = session \/ session' = 0
      /\ session' = session /\ session # 0 => usage'.session = usage.session
      /\ ledger' = ledger \/ ledger' = NoCalls
  BY <1>1, <1>2, <1>3 DEF TypeOK
<1>5. TypeOK'
  <2>1. /\ session' \in 0..MaxSessions /\ turn' \in [id : 0..MaxTurns, aborted : BOOLEAN]
        /\ corrections' \in 0..TurnCorrections
    BY <1>1, <1>2 DEF TypeOK, NoTurn
  <2>2. /\ \A tool \in Counted : /\ usage'.turn[tool] <= TurnLimit(tool)
                                 /\ usage'.session[tool] <= SessionLimit(tool)
        /\ usage'.turn["output"] <= TurnOutput /\ usage'.session["output"] <= SessionOutput
    BY <1>1, <1>3, <1>4, LimitsAreNumbers DEF TypeOK, Kinds
  <2>3. /\ DOMAIN ledger' \subseteq CallIds
        /\ \A id \in DOMAIN ledger' : ledger'[id] \in [digest : Digests, result : Results]
    BY <1>1, <1>4 DEF TypeOK, NoCalls
  <2> QED BY <1>1, <1>4, <2>1, <2>2, <2>3 DEF TypeOK
<1>6. OneCall' /\ TurnInSession'
  BY <1>1, <1>2, <1>4 DEF IInv, OneCall, TurnInSession, NoTurn, TypeOK
<1>7. calls = {} \/ session' = 0
  BY <1>2
<1>8. CallsOfTurn'
  BY <1>1, <1>7 DEF IInv, CallsOfTurn
<1>9. CallsUnknown'
  <2>1. IsFiniteSet({}) /\ Cardinality({}) = 0 /\ DOMAIN NoCalls = {}
    BY FS_EmptySet DEF NoCalls
  <2>2. ASSUME NEW c \in calls PROVE 0 < MaxLedger
    <3>1. Cardinality(DOMAIN ledger) \in Nat /\ Cardinality(DOMAIN ledger) < MaxLedger
      BY FS_CardinalityType DEF IInv, CallsUnknown
    <3> QED BY <3>1 DEF MaxLedger
  <2> QED BY <1>1, <1>2, <1>7, <2>1, <2>2 DEF IInv, CallsUnknown
<1>10. RequestsOfCalls'
  <2>1. \A r \in asked : r.of.session # 0
    BY <1>1 DEF TypeOK
  <2>2. session' # 0 => ledger' = ledger /\ session' = session
    BY <1>2, <1>4
  <2>3. \A r \in asked : r.of.session = session' =>
           Known(r.of.id)' \/ \E c \in calls' : c.id = r.of.id
    BY <1>1, <2>1, <2>2 DEF IInv, RequestsOfCalls, Known
  <2> QED BY <1>1, <2>3 DEF IInv, RequestsOfCalls, Request, CorrelationFor
<1>11. CheckedUnderConsent'
  BY <1>1, <1>7 DEF IInv, CheckedUnderConsent, Current, TypeOK
<1>12. CountsWithin'
  BY <1>1 DEF IInv, WithinBudget, CountsWithin, InTurn, InSession, Effective
<1>13. Budgeted'
  <2>1. ASSUME NEW tool \in Counted, session' # 0
        PROVE  Cardinality(InSession(tool, session)') + Reserved(tool)'
                  <= usage'.session[tool]
    <3>1. session' = session /\ session # 0 /\ usage'.session = usage.session
      BY <1>4, <2>1
    <3>2. InSession(tool, session)' = InSession(tool, session)
          /\ Reserved(tool)' = Reserved(tool)
      BY <1>1, <3>1 DEF InSession, Effective, Reserved
    <3> QED BY <3>1, <3>2 DEF IInv, Budgeted
  <2> QED BY <1>1, <1>2, <2>1 DEF IInv, Budgeted
<1> QED BY <1>5, <1>6, <1>8, <1>9, <1>10, <1>11, <1>12, <1>13
     DEF IInv, WithinBudget, CountsWithin

\* An interruption aborts the turn, and so does a revocation, which takes the consent.
LEMMA ConsentKeeps ==
    ASSUME IInv, InterruptTurn \/ RevokeConsent \/ GrantConsent PROVE IInv'
<1>1. /\ TypeOK /\ UNCHANGED <<session, started, activeCall, usage, corrections, ledger,
                               calls, asked, answer>>
      /\ turn' \in [id : 0..MaxTurns, aborted : BOOLEAN] /\ turn'.id = turn.id
      /\ turn = NoTurn => turn' = NoTurn
      /\ turn = NoTurn \/ turn'.aborted \/ (consent => consent')
      /\ turn.aborted => turn'.aborted
      /\ consent' \in BOOLEAN
  <2>1. TypeOK /\ turn \in [id : 0..MaxTurns, aborted : BOOLEAN] /\ consent \in BOOLEAN
    BY DEF IInv, WithinBudget, TypeOK
  <2>2. CASE GrantConsent
    BY <2>1, <2>2 DEF GrantConsent
  <2>3. ASSUME turn' = [turn EXCEPT !.aborted = TRUE]
        PROVE  /\ turn' \in [id : 0..MaxTurns, aborted : BOOLEAN] /\ turn'.id = turn.id
               /\ turn'.aborted
    BY <2>1, <2>3
  <2>4. CASE InterruptTurn
    BY <2>1, <2>3, <2>4 DEF InterruptTurn
  <2>5. CASE RevokeConsent
    BY <2>1, <2>3, <2>5 DEF RevokeConsent
  <2> QED BY <2>2, <2>4, <2>5
<1>2. TypeOK'
  BY <1>1 DEF TypeOK
<1>3. OneCall' /\ CallsUnknown' /\ TurnInSession' /\ CallsOfTurn'
  BY <1>1 DEF IInv, OneCall, CallsUnknown, Known, TurnInSession, CallsOfTurn
<1>4. RequestsOfCalls'
  BY <1>1 DEF IInv, RequestsOfCalls, Known, Request, CorrelationFor
<1>5. CheckedUnderConsent'
  <2> SUFFICES ASSUME NEW c \in calls', c.step = "checked", Current(c)' PROVE consent'
    BY DEF CheckedUnderConsent
  <2>1. session = c.session
    BY <1>1 DEF Current
  <2>2. c \in calls /\ c.session # 0
    BY <1>1 DEF TypeOK
  <2>3. c.turn = turn.id
    BY <2>1, <2>2 DEF IInv, CallsOfTurn
  <2>4. turn # NoTurn
    BY <1>1, <2>2, <2>3 DEF TypeOK, NoTurn, Turns
  <2> QED BY <1>1, <2>1, <2>2, <2>3, <2>4
       DEF IInv, CheckedUnderConsent, Current, Aborted, RevokeConsent, InterruptTurn,
           GrantConsent, TypeOK
<1>6. CountsWithin'
  BY <1>1 DEF IInv, WithinBudget, CountsWithin, InTurn, InSession, Effective
<1>7. Budgeted'
  BY <1>1 DEF IInv, Budgeted, InTurn, InSession, Effective, Reserved
<1> QED BY <1>2, <1>3, <1>4, <1>5, <1>6, <1>7 DEF IInv, WithinBudget, CountsWithin

-----------------------------------------------------------------------------
(* The calls *)

\* An answer from the ledger, a refusal and an answer at once leave the calls alone.
LEMMA AnswersKeep ==
    ASSUME IInv, UNCHANGED <<consent, session, turn, started, activeCall, usage, calls, asked>>,
           TypeOK', CallsUnknown', \A id : Known(id) => Known(id)'
    PROVE  IInv'
<1>1. OneCall' /\ TurnInSession' /\ CallsOfTurn' /\ RequestsOfCalls' /\ CheckedUnderConsent'
  BY DEF IInv, OneCall, TurnInSession, CallsOfTurn, RequestsOfCalls, Request, CorrelationFor,
     CheckedUnderConsent, Current, Aborted
<1>2. \A tool : Reserved(tool)' = Reserved(tool) /\ Reserved(tool) \in Nat
  BY DEF Reserved
<1>3. Budgeted' /\ CountsWithin'
  BY <1>2, BudgetStays
<1> QED BY <1>1, <1>3 DEF IInv, WithinBudget, CountsWithin

\* A new call of this turn.
LEMMA NewCall ==
    ASSUME IInv, NEW id \in CallIds, NEW tool \in Tools, NEW call,
           call = [id |-> id, turn |-> turn.id, tool |-> tool], Admitted(call)
    PROVE  /\ calls = {} /\ session \in 1..MaxSessions /\ turn.id \in Turns
           /\ Digest(call) \in Digests /\ call.id \in CallIds /\ ~Known(call.id)
           /\ Cardinality(DOMAIN ledger) < MaxLedger
<1>1. calls = {} /\ session \in 1..MaxSessions
  <2>1. activeCall = (calls # {}) /\ session \in 0..MaxSessions
    BY DEF IInv, WithinBudget, TypeOK
  <2>2. ~activeCall /\ session # 0
    BY DEF Admitted
  <2>3. calls = {}
    BY <2>1, <2>2
  <2>4. session \in 1..MaxSessions
    BY <2>1, <2>2, LimitsAssumption
  <2> QED BY <2>3, <2>4
<1>2. turn.id \in Turns
  BY LimitsAssumption DEF IInv, WithinBudget, TypeOK, TurnInSession, Admitted, Turns
<1> QED BY <1>1, <1>2 DEF Admitted, Digest, Digests

\* A call that is refused at once is remembered.
LEMMA RefusedAtOnce ==
    ASSUME IInv, NEW id \in CallIds, NEW tool \in Tools, NEW call,
           call = [id |-> id, turn |-> turn.id, tool |-> tool],
           DispatchInvalid(call) \/ DispatchOverBudget(call)
    PROVE  IInv'
<1> USE LimitsAssumption
<1>1. /\ Admitted(call)
      /\ UNCHANGED <<consent, session, turn, started, activeCall, usage, calls, asked>>
      /\ answer' \in {"none", "data"}
  BY DEF DispatchInvalid, DispatchOverBudget, Correctable, Respond
<1>2. PICK result \in Results : Remember(call, result)
  BY DEF DispatchInvalid, DispatchOverBudget, Correctable, Results
<1>3. calls = {} /\ Digest(call) \in Digests /\ call.id \in CallIds
  BY <1>1, NewCall
<1>4. corrections' \in 0..TurnCorrections
  BY DEF IInv, WithinBudget, TypeOK, DispatchInvalid, DispatchOverBudget, Correctable
<1>5. TypeOK'
  BY <1>1, <1>2, <1>3, <1>4, Remembered DEF IInv, WithinBudget, TypeOK
<1>6. CallsUnknown' /\ \A i : Known(i) => Known(i)'
  BY <1>1, <1>2, <1>3, Remembered DEF CallsUnknown
<1> QED BY <1>1, <1>5, <1>6, AnswersKeep

\* A call that is let in is reserved before the consent is looked at.
LEMMA ReservedKeeps ==
    ASSUME IInv, NEW id \in CallIds, NEW tool \in Tools, NEW call,
           call = [id |-> id, turn |-> turn.id, tool |-> tool], DispatchReserved(call)
    PROVE  IInv'
<1> USE LimitsAssumption
<1>1. /\ Admitted(call) /\ tool \in Counted /\ InBudget(tool) /\ TypeOK
      /\ UNCHANGED <<consent, session, turn, started, corrections, asked>>
      /\ usage' = [usage EXCEPT !.turn[tool] = @ + 1, !.session[tool] = @ + 1]
  BY DEF DispatchReserved, Valid, IInv, WithinBudget
<1>2. /\ calls = {} /\ session \in 1..MaxSessions /\ turn.id \in Turns /\ ~Known(id)
      /\ Digest(call) \in Digests /\ call.id \in CallIds
      /\ Cardinality(DOMAIN ledger) < MaxLedger
  BY <1>1, NewCall
<1>3. /\ usage \in [turn : Usages, session : Usages] /\ tool \in Kinds
      /\ usage.turn[tool] \in Nat /\ usage.session[tool] \in Nat
  BY <1>1 DEF TypeOK, Usages, Kinds
<1>4. usage' = Raised(usage, tool, 1)
  BY <1>1 DEF Raised
<1>5. /\ usage' \in [turn : Usages, session : Usages]
      /\ \A j \in Kinds :
            /\ usage'.turn[j] = IF j = tool THEN usage.turn[tool] + 1 ELSE usage.turn[j]
            /\ usage'.session[j] = IF j = tool THEN usage.session[tool] + 1
                                   ELSE usage.session[j]
  BY <1>3, <1>4, ReservationRaises
<1> DEFINE new == [session |-> session, turn |-> turn.id, id |-> id, tool |-> tool,
                   step |-> "granted"]
<1>6. /\ new.session = session /\ new.turn = turn.id /\ new.id = id /\ new.tool = tool
      /\ new.step = "granted"
      /\ new \in [session : 1..MaxSessions, turn : Turns, id : CallIds, tool : Tools,
                  step : {"granted", "asked", "reading", "checked"}]
  BY <1>2
<1>7. \/ calls' = {new} /\ activeCall' = TRUE /\ UNCHANGED <<ledger, answer>>
      \/ calls' = {} /\ UNCHANGED activeCall /\ Remember(call, "abort") /\ answer' = "none"
  BY <1>2 DEF DispatchReserved, Respond
<1> HIDE DEF new
<1>8. /\ DOMAIN ledger' \subseteq CallIds /\ IsFiniteSet(DOMAIN ledger')
      /\ \A i \in DOMAIN ledger' : ledger'[i] \in [digest : Digests, result : Results]
      /\ \A i : Known(i) => Known(i)'
      /\ calls' # {} => ledger' = ledger
  <2>1. CASE ledger' = ledger
    BY <1>1, <2>1 DEF TypeOK, IInv, CallsUnknown, Known
  <2>2. CASE calls' = {} /\ Remember(call, "abort")
    BY <1>2, <2>2, Remembered DEF Results
  <2> QED BY <1>7, <2>1, <2>2
<1>9. TypeOK'
  <2>1. /\ \A t \in Counted : /\ usage'.turn[t] <= TurnLimit(t)
                              /\ usage'.session[t] <= SessionLimit(t)
        /\ usage'.turn["output"] <= TurnOutput /\ usage'.session["output"] <= SessionOutput
    BY <1>1, <1>3, <1>5, LimitsAreNumbers DEF TypeOK, Kinds, InBudget, Counted
  <2>2. Cardinality(calls') <= 1
    BY <1>7, AtMostOne
  <2>3. /\ calls' \subseteq [session : 1..MaxSessions, turn : Turns, id : CallIds, tool : Tools,
                             step : {"granted", "asked", "reading", "checked"}]
        /\ activeCall' = (calls' # {})
        /\ answer' \in {"none", "data"}
    BY <1>1, <1>2, <1>6, <1>7 DEF TypeOK
  <2> QED BY <1>1, <1>5, <1>8, <2>1, <2>2, <2>3 DEF TypeOK
<1>10. OneCall' /\ CheckedUnderConsent' /\ TurnInSession'
  BY <1>1, <1>6, <1>7 DEF OneCall, CheckedUnderConsent, TurnInSession, IInv
<1>11. CallsOfTurn'
  BY <1>1, <1>6, <1>7 DEF CallsOfTurn, TurnInSession, IInv
<1>12. CallsUnknown'
  BY <1>2, <1>6, <1>7, <1>8 DEF CallsUnknown, Known
<1>13. RequestsOfCalls'
  <2>1. \A r \in asked : r.of.session = session => r.of.id # id
    BY <1>2 DEF IInv, RequestsOfCalls
  <2> QED BY <1>1, <1>2, <1>6, <1>7, <1>8, <2>1 DEF IInv, RequestsOfCalls
<1>14. CountsWithin'
  BY <1>1 DEF IInv, WithinBudget, CountsWithin, InTurn, InSession, Effective
<1>15. Budgeted'
  <2>1. ASSUME NEW t \in Counted
        PROVE  /\ Cardinality(InTurn(t, turn.id)') + Reserved(t)' <= usage'.turn[t]
               /\ Cardinality(InSession(t, session)') + Reserved(t)' <= usage'.session[t]
    <3>1. /\ InTurn(t, turn.id)' = InTurn(t, turn.id)
          /\ InSession(t, session)' = InSession(t, session)
      BY <1>1 DEF InTurn, InSession, Effective
    <3>2. Reserved(t) = 0 /\ Reserved(t)' \in {0, 1} /\ (t # tool => Reserved(t)' = 0)
      BY <1>2, <1>6, <1>7 DEF Reserved
    <3>3. /\ Cardinality(InTurn(t, turn.id)) + Reserved(t) <= usage.turn[t]
          /\ Cardinality(InSession(t, session)) + Reserved(t) <= usage.session[t]
      BY <1>1, <1>2 DEF IInv, Budgeted, Admitted
    <3>4. /\ Cardinality(InTurn(t, turn.id)) \in Nat
          /\ Cardinality(InSession(t, session)) \in Nat
          /\ usage.turn[t] \in Nat /\ usage.session[t] \in Nat
      BY <1>1, FiniteRequests DEF IInv, Budgeted, TypeOK, Usages
    <3> QED BY <1>5, <3>1, <3>2, <3>3, <3>4 DEF Kinds
  <2> QED BY <1>1, <2>1 DEF Budgeted, IInv
<1> QED BY <1>9, <1>10, <1>11, <1>12, <1>13, <1>14, <1>15 DEF IInv, WithinBudget, CountsWithin

\* A call that ends is remembered; whoever it was of, no later one takes its id.
LEMMA EndKeeps ==
    ASSUME IInv, NEW c \in calls, End(c), NEW result \in Results, Remember(c, result),
           UNCHANGED <<consent, session, turn, started>>
    PROVE  /\ calls' = {} /\ OneCall' /\ TurnInSession' /\ CallsOfTurn' /\ CallsUnknown'
           /\ CheckedUnderConsent'
           /\ \A tool : Reserved(tool)' = 0
           /\ \A id : Known(id) => Known(id)'
           /\ Known(c.id)'
           /\ TypeOK /\ activeCall' = (calls' # {}) /\ Cardinality(calls') <= 1
           /\ DOMAIN ledger' \subseteq CallIds
           /\ \A id \in DOMAIN ledger' : ledger'[id] \in [digest : Digests, result : Results]
<1>1. calls = {c} /\ c.id \in CallIds /\ Digest(c) \in Digests
      /\ Cardinality(DOMAIN ledger) < MaxLedger
  BY OnlyCall
<1>2. calls' = {} /\ activeCall' = (calls' # {}) /\ Cardinality(calls') <= 1
  BY <1>1, AtMostOne DEF End
<1>3. /\ DOMAIN ledger' \subseteq CallIds /\ IsFiniteSet(DOMAIN ledger')
      /\ \A id \in DOMAIN ledger' : ledger'[id] \in [digest : Digests, result : Results]
      /\ \A id : Known(id) => Known(id)'
      /\ c.id \in DOMAIN ledger'
  BY <1>1, Remembered
<1>4. OneCall' /\ CallsOfTurn' /\ CheckedUnderConsent' /\ CallsUnknown' /\ TurnInSession'
  BY <1>2, <1>3 DEF OneCall, CallsOfTurn, CheckedUnderConsent, CallsUnknown, TurnInSession, IInv
<1>5. \A tool : Reserved(tool)' = 0
  BY <1>2 DEF Reserved
<1>6. TypeOK
  BY DEF IInv, WithinBudget
<1> QED BY <1>2, <1>3, <1>4, <1>5, <1>6 DEF Known

\* The answer to a call, where neither the requests nor their reservations change.
LEMMA AnswerKeeps ==
    ASSUME IInv, NEW c \in calls, End(c), NEW result \in Results, Remember(c, result),
           UNCHANGED <<consent, session, turn, started, corrections, asked>>,
           answer' \in {"none", "data"},
           usage' \in [turn : Usages, session : Usages],
           \A t \in Counted : /\ usage'.turn[t] = usage.turn[t]
                              /\ usage'.session[t] = usage.session[t],
           usage'.turn["output"] <= TurnOutput, usage'.session["output"] <= SessionOutput
    PROVE  IInv'
<1>1. /\ calls' = {} /\ OneCall' /\ TurnInSession' /\ CallsOfTurn' /\ CallsUnknown'
      /\ CheckedUnderConsent'
      /\ \A tool : Reserved(tool)' = 0
      /\ \A id : Known(id) => Known(id)'
      /\ Known(c.id)'
      /\ TypeOK /\ activeCall' = (calls' # {}) /\ Cardinality(calls') <= 1
      /\ DOMAIN ledger' \subseteq CallIds
      /\ \A id \in DOMAIN ledger' : ledger'[id] \in [digest : Digests, result : Results]
  BY EndKeeps
<1>2. calls = {c}
  BY OnlyCall
<1>3. TypeOK'
  <2>1. calls' \subseteq [session : 1..MaxSessions, turn : Turns, id : CallIds, tool : Tools,
                          step : {"granted", "asked", "reading", "checked"}]
    BY <1>1
  <2> QED BY <1>1, <2>1 DEF TypeOK
<1>4. RequestsOfCalls'
  <2>1. ASSUME NEW r \in asked, r.of.session = session PROVE Known(r.of.id)'
    BY <1>1, <1>2, <2>1 DEF IInv, RequestsOfCalls
  <2> QED BY <1>1, <2>1 DEF IInv, RequestsOfCalls
<1>5. CountsWithin'
  BY DEF IInv, WithinBudget, CountsWithin, InTurn, InSession, Effective
<1>6. Budgeted'
  <2>1. ASSUME NEW t \in Counted
        PROVE  /\ turn # NoTurn =>
                     Cardinality(InTurn(t, turn.id)') + Reserved(t)' <= usage'.turn[t]
               /\ session # 0 =>
                     Cardinality(InSession(t, session)') + Reserved(t)' <= usage'.session[t]
    <3>1. /\ InTurn(t, turn.id)' = InTurn(t, turn.id)
          /\ InSession(t, session)' = InSession(t, session)
      BY DEF InTurn, InSession, Effective
    <3>2. /\ Cardinality(InTurn(t, turn.id)) \in Nat
          /\ Cardinality(InSession(t, session)) \in Nat
          /\ usage.turn[t] \in Nat /\ usage.session[t] \in Nat
      BY <1>1, FiniteRequests DEF IInv, Budgeted, TypeOK, Usages
    <3>3. Reserved(t) \in {0, 1} /\ Reserved(t)' = 0
      BY <1>1 DEF Reserved
    <3> QED BY <3>1, <3>2, <3>3 DEF IInv, Budgeted
  <2> QED BY <2>1 DEF IInv, Budgeted
<1> QED BY <1>1, <1>3, <1>4, <1>5, <1>6 DEF IInv, WithinBudget, CountsWithin

\* A call that goes on to another step of its own, without a request.
LEMMA ProceedKeeps ==
    ASSUME IInv, NEW c \in calls, NEW step \in {"reading", "checked"}, Proceed(c, step),
           c.step # "granted", step = "checked" => consent,
           UNCHANGED <<consent, session, turn, started, activeCall, usage, corrections,
                       ledger, asked, answer>>
    PROVE  IInv'
<1> DEFINE next == [c EXCEPT !.step = step]
<1>1. /\ calls = {c} /\ activeCall /\ TypeOK
      /\ c \in [session : 1..MaxSessions, turn : Turns, id : CallIds, tool : Tools,
                step : {"granted", "asked", "reading", "checked"}]
  BY OnlyCall DEF IInv, WithinBudget
<1>2. /\ next.session = c.session /\ next.turn = c.turn /\ next.id = c.id
      /\ next.tool = c.tool /\ next.step = step
      /\ next \in [session : 1..MaxSessions, turn : Turns, id : CallIds, tool : Tools,
                   step : {"granted", "asked", "reading", "checked"}]
  BY <1>1
<1>3. calls' = {next}
  BY <1>1 DEF Proceed
<1> HIDE DEF next
<1>4. TypeOK'
  <2>1. Cardinality(calls') <= 1 /\ activeCall' = (calls' # {})
    BY <1>1, <1>3, AtMostOne DEF TypeOK
  <2> QED BY <1>1, <1>2, <1>3, <2>1 DEF TypeOK
<1>5. OneCall' /\ TurnInSession' /\ CallsOfTurn' /\ CallsUnknown'
  BY <1>2, <1>3 DEF IInv, OneCall, TurnInSession, CallsOfTurn, CallsUnknown, Known
<1>6. RequestsOfCalls'
  <2>1. Request(next, FALSE) = Request(c, FALSE)
    BY <1>2 DEF Request, CorrelationFor
  <2> QED BY <1>1, <1>2, <1>3, <2>1 DEF IInv, RequestsOfCalls, Known, Request, CorrelationFor
<1>7. CheckedUnderConsent'
  BY <1>2, <1>3 DEF CheckedUnderConsent
<1>8. \A tool \in Counted : Reserved(tool)' <= Reserved(tool)
  BY <1>2, <1>3 DEF Reserved
<1>9. Budgeted' /\ CountsWithin'
  BY <1>8, BudgetStays
<1> QED BY <1>4, <1>5, <1>6, <1>7, <1>9 DEF IInv, WithinBudget, CountsWithin

\* A request takes the place of the reservation that was made for it.
LEMMA RequestKeeps ==
    ASSUME IInv, NEW c \in calls, c.step = "granted", ~Aborted(c), Proceed(c, "asked"),
           asked' = asked \cup {Request(c, FALSE)},
           UNCHANGED <<consent, session, turn, started, activeCall, usage, corrections,
                       ledger, answer>>
    PROVE  IInv'
<1> DEFINE next == [c EXCEPT !.step = "asked"]
           x == Request(c, FALSE)
<1>1. /\ calls = {c} /\ activeCall /\ TypeOK
      /\ c \in [session : 1..MaxSessions, turn : Turns, id : CallIds, tool : Tools,
                step : {"granted", "asked", "reading", "checked"}]
  BY OnlyCall DEF IInv, WithinBudget
<1>2. /\ next.session = c.session /\ next.turn = c.turn /\ next.id = c.id
      /\ next.tool = c.tool /\ next.step = "asked"
      /\ next \in [session : 1..MaxSessions, turn : Turns, id : CallIds, tool : Tools,
                   step : {"granted", "asked", "reading", "checked"}]
  BY <1>1
<1>3. calls' = {next}
  BY <1>1 DEF Proceed
<1>4. /\ x.of.session = c.session /\ x.of.turn = c.turn /\ x.of.id = c.id /\ x.tool = c.tool
      /\ x.refused = FALSE /\ x = Request(next, FALSE)
      /\ x \in [of : [session : 1..MaxSessions, turn : Turns, id : CallIds], tool : Tools,
                refused : BOOLEAN]
  BY <1>1, <1>2 DEF Request, CorrelationFor
<1>5. asked' = asked \cup {x}
  OBVIOUS
<1> HIDE DEF next, x
<1>6. c.turn = turn.id /\ turn # NoTurn /\ c.session = session /\ session # 0
  <2>1. c.turn = turn.id /\ turn.id # 0
    BY <1>1 DEF Aborted, Turns
  <2>2. turn # NoTurn
    BY <2>1 DEF NoTurn
  <2> QED BY <1>1, <2>1, <2>2 DEF IInv, TurnInSession, CallsOfTurn
<1>7. TypeOK'
  <2>1. Cardinality(calls') <= 1 /\ activeCall' = (calls' # {})
    BY <1>1, <1>3, AtMostOne DEF TypeOK
  <2> QED BY <1>1, <1>2, <1>3, <1>4, <1>5, <2>1 DEF TypeOK
<1>8. OneCall' /\ TurnInSession' /\ CallsOfTurn' /\ CallsUnknown' /\ CheckedUnderConsent'
  BY <1>2, <1>3 DEF IInv, OneCall, TurnInSession, CallsOfTurn, CallsUnknown, Known,
     CheckedUnderConsent
<1>9. RequestsOfCalls'
  <2>1. /\ x.of.session <= started.sessions /\ x.of.turn <= started.turns
    BY <1>4 DEF IInv, CallsOfTurn
  <2>2. ASSUME NEW r \in asked', r.of.session = session
        PROVE  Known(r.of.id) \/ \E d \in calls' : d.id = r.of.id
    <3>1. CASE r = x
      BY <1>2, <1>3, <1>4, <3>1
    <3>2. CASE r \in asked
      <4>1. Known(r.of.id) \/ \E d \in calls : d.id = r.of.id
        BY <2>2, <3>2 DEF IInv, RequestsOfCalls
      <4> QED BY <1>1, <1>2, <1>3, <4>1
    <3> QED BY <1>5, <3>1, <3>2
  <2>3. \A r \in asked' : r.of.session <= started.sessions /\ r.of.turn <= started.turns
    BY <1>5, <2>1 DEF IInv, RequestsOfCalls
  <2>4. \A d \in calls' : d.step # "granted" /\ Request(d, FALSE) \in asked'
    BY <1>2, <1>3, <1>4, <1>5
  <2> QED BY <2>2, <2>3, <2>4 DEF RequestsOfCalls, Known, Request, CorrelationFor
<1>10. \A t \in Counted : Reserved(t)' = 0 /\ Reserved(t) \in {0, 1}
                          /\ (t = c.tool => Reserved(t) = 1)
  BY <1>1, <1>2, <1>3 DEF Reserved
<1>11. IsFiniteSet(asked) /\ IsFiniteSet(asked')
  BY <1>5, FS_AddElement DEF IInv, Budgeted
<1>12. ASSUME NEW t \in Counted, NEW n
       PROVE  /\ InTurn(t, n)' \subseteq InTurn(t, n) \cup {x}
              /\ InSession(t, n)' \subseteq InSession(t, n) \cup {x}
              /\ t # c.tool \/ n # c.turn => InTurn(t, n)' = InTurn(t, n)
              /\ t # c.tool \/ n # c.session => InSession(t, n)' = InSession(t, n)
  BY <1>4, <1>5 DEF InTurn, InSession, Effective
<1>13. ASSUME NEW t \in Counted
       PROVE  /\ Cardinality(InTurn(t, turn.id)') <= usage.turn[t]
              /\ Cardinality(InSession(t, session)') <= usage.session[t]
  <2>1. /\ Cardinality(InTurn(t, turn.id)) \in Nat
        /\ Cardinality(InSession(t, session)) \in Nat
        /\ IsFiniteSet(InTurn(t, turn.id)) /\ IsFiniteSet(InSession(t, session))
    BY <1>11, FiniteRequests
  <2>2. usage.turn[t] \in Nat /\ usage.session[t] \in Nat
    BY <1>1 DEF TypeOK, Usages
  <2>3. /\ Cardinality(InTurn(t, turn.id)) + Reserved(t) <= usage.turn[t]
        /\ Cardinality(InSession(t, session)) + Reserved(t) <= usage.session[t]
    BY <1>6 DEF IInv, Budgeted
  <2>4. CASE t = c.tool
    <3>1. /\ InTurn(t, turn.id)' \subseteq InTurn(t, turn.id) \cup {x}
          /\ InSession(t, session)' \subseteq InSession(t, session) \cup {x}
      BY <1>12
    <3>2. /\ Cardinality(InTurn(t, turn.id)') <= Cardinality(InTurn(t, turn.id)) + 1
          /\ Cardinality(InSession(t, session)') <= Cardinality(InSession(t, session)) + 1
      BY <2>1, <3>1, OneMore
    <3>3. /\ Cardinality(InTurn(t, turn.id)') \in Nat
          /\ Cardinality(InSession(t, session)') \in Nat
      BY <1>11, <2>1, <3>1, Fewer, FS_AddElement
    <3> QED BY <1>10, <2>1, <2>2, <2>3, <2>4, <3>2, <3>3
  <2>5. CASE t # c.tool
    BY <1>10, <1>12, <2>1, <2>2, <2>3, <2>5
  <2> QED BY <2>4, <2>5
<1>14. Budgeted'
  <2>1. \A t \in Counted :
           /\ Cardinality(InTurn(t, turn.id)') \in Nat
           /\ Cardinality(InSession(t, session)') \in Nat
    <3>1. \A t, n : InTurn(t, n)' \subseteq asked' /\ InSession(t, n)' \subseteq asked'
      BY DEF InTurn, InSession, Effective
    <3> QED BY <1>11, <3>1, Fewer
  <2> QED BY <1>10, <1>11, <1>13, <2>1 DEF Budgeted
<1>15. CountsWithin'
  <2> SUFFICES ASSUME NEW t \in Counted, NEW n
               PROVE  /\ n \in Turns => Cardinality(InTurn(t, n)') <= TurnLimit(t)
                      /\ n \in 1..MaxSessions => Cardinality(InSession(t, n)') <= SessionLimit(t)
    BY DEF CountsWithin, TurnLimit, SessionLimit
  <2>1. /\ usage.turn[t] <= TurnLimit(t) /\ usage.session[t] <= SessionLimit(t)
        /\ usage.turn[t] \in Nat /\ usage.session[t] \in Nat
        /\ TurnLimit(t) \in Nat /\ SessionLimit(t) \in Nat
    BY <1>1, LimitsAreNumbers DEF TypeOK, Usages
  <2>2. InTurn(t, n)' \subseteq asked' /\ InSession(t, n)' \subseteq asked'
    BY DEF InTurn, InSession, Effective
  <2>3. Cardinality(InTurn(t, n)') \in Nat /\ Cardinality(InSession(t, n)') \in Nat
    BY <1>11, <2>2, Fewer
  <2>4. n \in Turns => Cardinality(InTurn(t, n)') <= TurnLimit(t)
    <3>1. CASE n = turn.id
      BY <1>13, <2>1, <2>3, <3>1
    <3>2. CASE n # turn.id
      BY <1>6, <1>12, <3>2 DEF IInv, WithinBudget
    <3> QED BY <3>1, <3>2
  <2>5. n \in 1..MaxSessions => Cardinality(InSession(t, n)') <= SessionLimit(t)
    <3>1. CASE n = session
      BY <1>13, <2>1, <2>3, <3>1
    <3>2. CASE n # session
      BY <1>6, <1>12, <3>2 DEF IInv, WithinBudget
    <3> QED BY <3>1, <3>2
  <2> QED BY <2>4, <2>5
<1> QED BY <1>7, <1>8, <1>9, <1>14, <1>15 DEF IInv, WithinBudget, CountsWithin

\* Arguments that the API refuses give the reservation back: the request had no effect.
LEMMA InvalidKeeps ==
    ASSUME IInv, NEW c \in calls, ReceiveInvalid(c) PROVE IInv'
<1> USE LimitsAssumption
<1> DEFINE x == Request(c, FALSE)
           y == Request(c, TRUE)
<1>1. /\ c.step = "asked" /\ usage' = Released(c.tool) /\ End(c)
      /\ asked' = (asked \ {x}) \cup {y}
      /\ UNCHANGED <<consent, session, turn, started>>
      /\ answer' \in {"none", "data"}
  BY DEF ReceiveInvalid, Correctable, Respond
<1>2. PICK result \in Results : Remember(c, result)
  BY DEF ReceiveInvalid, Correctable, Results
<1>3. /\ calls = {c} /\ c.tool \in Counted
      /\ c \in [session : 1..MaxSessions, turn : Turns, id : CallIds, tool : Tools,
                step : {"granted", "asked", "reading", "checked"}]
      /\ session # 0 => c.session = session /\ c.turn = turn.id
      /\ session = 0 => turn = NoTurn
  BY OnlyCall
<1>4. /\ calls' = {} /\ OneCall' /\ TurnInSession' /\ CallsOfTurn' /\ CallsUnknown'
      /\ CheckedUnderConsent'
      /\ \A tool : Reserved(tool)' = 0
      /\ \A id : Known(id) => Known(id)'
      /\ Known(c.id)'
      /\ TypeOK /\ activeCall' = (calls' # {}) /\ Cardinality(calls') <= 1
      /\ DOMAIN ledger' \subseteq CallIds
      /\ \A id \in DOMAIN ledger' : ledger'[id] \in [digest : Digests, result : Results]
  BY <1>1, <1>2, EndKeeps
<1>5. /\ x.of.session = c.session /\ x.of.turn = c.turn /\ x.of.id = c.id /\ x.tool = c.tool
      /\ x.refused = FALSE /\ x \in asked
      /\ y.of = x.of /\ y.tool = c.tool /\ y.refused = TRUE
      /\ y \in [of : [session : 1..MaxSessions, turn : Turns, id : CallIds], tool : Tools,
                refused : BOOLEAN]
  BY <1>1, <1>3 DEF Request, CorrelationFor, IInv, RequestsOfCalls
<1> HIDE DEF x, y
<1>6. corrections' \in 0..TurnCorrections
  BY <1>4 DEF ReceiveInvalid, Correctable, TypeOK
<1>7. /\ usage \in [turn : Usages, session : Usages] /\ c.tool \in Kinds
      /\ usage' \in [turn : Usages, session : Usages]
      /\ \A j \in Kinds :
            /\ usage'.turn[j] = IF j = c.tool /\ usage.turn[c.tool] # 0
                                THEN usage.turn[c.tool] - 1 ELSE usage.turn[j]
            /\ usage'.session[j] = IF j = c.tool /\ usage.session[c.tool] # 0
                                   THEN usage.session[c.tool] - 1 ELSE usage.session[j]
  BY <1>1, <1>3, <1>4, UsageReleased DEF TypeOK, Kinds
<1>8. \A j \in Kinds : usage.turn[j] \in Nat /\ usage.session[j] \in Nat
  BY <1>7 DEF Usages, Kinds
<1>9. TypeOK'
  <2>1. /\ \A t \in Counted : /\ usage'.turn[t] <= TurnLimit(t)
                              /\ usage'.session[t] <= SessionLimit(t)
        /\ usage'.turn["output"] <= TurnOutput /\ usage'.session["output"] <= SessionOutput
    BY <1>4, <1>7, <1>8, LimitsAreNumbers DEF TypeOK, Kinds
  <2>2. calls' \subseteq [session : 1..MaxSessions, turn : Turns, id : CallIds, tool : Tools,
                          step : {"granted", "asked", "reading", "checked"}]
    BY <1>4
  <2> QED BY <1>1, <1>4, <1>5, <1>6, <1>7, <2>1, <2>2 DEF TypeOK
<1>10. RequestsOfCalls'
  <2>1. ASSUME NEW r \in asked' PROVE \E q \in asked : r.of = q.of
    BY <1>1, <1>5
  <2>2. ASSUME NEW r \in asked, r.of.session = session PROVE Known(r.of.id)'
    BY <1>3, <1>4, <2>2 DEF IInv, RequestsOfCalls
  <2>3. \A r \in asked' : /\ r.of.session <= started.sessions /\ r.of.turn <= started.turns
                          /\ r.of.session = session => Known(r.of.id)'
    BY <2>1, <2>2 DEF IInv, RequestsOfCalls
  <2> QED BY <1>1, <1>4, <2>3 DEF RequestsOfCalls
<1>11. IsFiniteSet(asked) /\ IsFiniteSet(asked')
  BY <1>1, FS_AddElement, FS_RemoveElement DEF IInv, Budgeted
<1>12. ASSUME NEW t \in Counted, NEW n
       PROVE  /\ InTurn(t, n)' = InTurn(t, n) \ {x}
              /\ InSession(t, n)' = InSession(t, n) \ {x}
              /\ t = c.tool /\ n = c.turn => x \in InTurn(t, n)
              /\ t = c.tool /\ n = c.session => x \in InSession(t, n)
  BY <1>1, <1>5 DEF InTurn, InSession, Effective
<1>13. CountsWithin'
  <2> SUFFICES ASSUME NEW t \in Counted, NEW n
               PROVE  /\ n \in Turns => Cardinality(InTurn(t, n)') <= TurnLimit(t)
                      /\ n \in 1..MaxSessions => Cardinality(InSession(t, n)') <= SessionLimit(t)
    BY DEF CountsWithin, TurnLimit, SessionLimit
  <2>1. /\ IsFiniteSet(InTurn(t, n)) /\ Cardinality(InTurn(t, n)) \in Nat
        /\ IsFiniteSet(InSession(t, n)) /\ Cardinality(InSession(t, n)) \in Nat
    BY <1>11, FiniteRequests
  <2>2. InTurn(t, n)' \subseteq InTurn(t, n) /\ InSession(t, n)' \subseteq InSession(t, n)
    BY <1>12
  <2>3. /\ Cardinality(InTurn(t, n)') <= Cardinality(InTurn(t, n))
        /\ Cardinality(InSession(t, n)') <= Cardinality(InSession(t, n))
        /\ Cardinality(InTurn(t, n)') \in Nat /\ Cardinality(InSession(t, n)') \in Nat
    BY <2>1, <2>2, Fewer
  <2> QED BY <2>1, <2>3, LimitsAreNumbers DEF IInv, WithinBudget
<1>14. Budgeted'
  <2> SUFFICES ASSUME NEW t \in Counted
               PROVE  /\ turn # NoTurn => Cardinality(InTurn(t, turn.id)') <= usage'.turn[t]
                      /\ session # 0 =>
                            Cardinality(InSession(t, session)') <= usage'.session[t]
    <3>1. \A t, n : InTurn(t, n)' \subseteq asked' /\ InSession(t, n)' \subseteq asked'
      BY DEF InTurn, InSession, Effective
    <3>2. \A t, n : /\ Cardinality(InTurn(t, n)') \in Nat
                    /\ Cardinality(InSession(t, n)') \in Nat
      BY <1>11, <3>1, Fewer
    <3> QED BY <1>1, <1>4, <1>11, <3>2 DEF Budgeted
  <2>1. \A n : /\ IsFiniteSet(InTurn(t, n)) /\ Cardinality(InTurn(t, n)) \in Nat
               /\ IsFiniteSet(InSession(t, n)) /\ Cardinality(InSession(t, n)) \in Nat
    BY <1>11, FiniteRequests
  <2>2. /\ turn # NoTurn => Cardinality(InTurn(t, turn.id)) <= usage.turn[t]
        /\ session # 0 => Cardinality(InSession(t, session)) <= usage.session[t]
    <3>1. Reserved(t) \in {0, 1} /\ usage.turn[t] \in Nat /\ usage.session[t] \in Nat
      BY <1>8 DEF Reserved, Kinds
    <3> QED BY <2>1, <3>1 DEF IInv, Budgeted
  <2>3. CASE t = c.tool
    <3>1. ASSUME turn # NoTurn
          PROVE  Cardinality(InTurn(t, turn.id)') <= usage'.turn[t]
      <4>1. x \in InTurn(t, turn.id) /\ InTurn(t, turn.id)' = InTurn(t, turn.id) \ {x}
        BY <1>1, <1>3, <1>12, <2>3, <3>1
      <4>2. Cardinality(InTurn(t, turn.id)') + 1 <= Cardinality(InTurn(t, turn.id))
            /\ Cardinality(InTurn(t, turn.id)') \in Nat
        BY <2>1, <4>1, OneLess
      <4> QED BY <1>7, <1>8, <2>1, <2>2, <2>3, <3>1, <4>2
    <3>2. ASSUME session # 0
          PROVE  Cardinality(InSession(t, session)') <= usage'.session[t]
      <4>1. x \in InSession(t, session) /\ InSession(t, session)' = InSession(t, session) \ {x}
        BY <1>1, <1>3, <1>12, <2>3, <3>2
      <4>2. Cardinality(InSession(t, session)') + 1 <= Cardinality(InSession(t, session))
            /\ Cardinality(InSession(t, session)') \in Nat
        BY <2>1, <4>1, OneLess
      <4> QED BY <1>7, <1>8, <2>1, <2>2, <2>3, <3>2, <4>2
    <3> QED BY <3>1, <3>2
  <2>4. CASE t # c.tool
    <3>1. InTurn(t, turn.id)' \subseteq InTurn(t, turn.id)
          /\ InSession(t, session)' \subseteq InSession(t, session)
      BY <1>1, <1>12
    <3>2. /\ Cardinality(InTurn(t, turn.id)') <= Cardinality(InTurn(t, turn.id))
          /\ Cardinality(InSession(t, session)') <= Cardinality(InSession(t, session))
          /\ Cardinality(InTurn(t, turn.id)') \in Nat
          /\ Cardinality(InSession(t, session)') \in Nat
      BY <2>1, <3>1, Fewer
    <3>3. usage'.turn[t] = usage.turn[t] /\ usage'.session[t] = usage.session[t]
          /\ usage.turn[t] \in Nat /\ usage.session[t] \in Nat
      BY <1>7, <1>8, <2>4 DEF Kinds
    <3> QED BY <2>1, <2>2, <3>2, <3>3
  <2> QED BY <2>3, <2>4
<1> QED BY <1>4, <1>9, <1>10, <1>13, <1>14 DEF IInv, WithinBudget, CountsWithin

\* An answer that keeps the usage.
LEMMA PlainAnswer ==
    ASSUME IInv, NEW c \in calls, End(c), NEW result \in Results, Remember(c, result),
           UNCHANGED <<consent, session, turn, started, corrections, asked, usage>>,
           answer' \in {"none", "data"}
    PROVE  IInv'
<1>1. /\ usage' \in [turn : Usages, session : Usages]
      /\ usage'.turn["output"] <= TurnOutput /\ usage'.session["output"] <= SessionOutput
  BY DEF IInv, WithinBudget, TypeOK
<1> QED BY <1>1, AnswerKeeps

\* Every step of a call keeps the invariant.
LEMMA CallKeeps ==
    ASSUME IInv, NEW c \in calls,
           Ask(c) \/ ReceiveHead(c) \/ ReceiveData(c) \/ ReceiveInvalid(c) \/ ReceiveFailure(c)
             \/ Return(c)
    PROVE  IInv'
<1>1. CASE Ask(c)
  <2>1. CASE Aborted(c)
    <3>1. End(c) /\ Remember(c, "failed") /\ answer' = "none" /\ "failed" \in Results
          /\ UNCHANGED <<consent, session, turn, started, corrections, asked, usage>>
      BY <1>1, <2>1 DEF Ask, Respond, Results
    <3> QED BY <3>1, PlainAnswer
  <2>2. CASE ~Aborted(c)
    <3>1. /\ c.step = "granted" /\ Proceed(c, "asked")
          /\ asked' = asked \cup {Request(c, FALSE)}
          /\ UNCHANGED <<consent, session, turn, started, activeCall, usage, corrections,
                         ledger, answer>>
      BY <1>1, <2>2 DEF Ask
    <3> QED BY <2>2, <3>1, RequestKeeps
  <2> QED BY <2>1, <2>2
<1>2. CASE ReceiveHead(c)
  BY <1>2, ProceedKeeps DEF ReceiveHead
<1>3. CASE ReceiveData(c)
  <2>1. CASE consent
    <3>1. /\ c.step = "reading" /\ Proceed(c, "checked")
          /\ UNCHANGED <<consent, session, turn, started, activeCall, usage, corrections,
                         ledger, asked, answer>>
      BY <1>3, <2>1 DEF ReceiveData
    <3> QED BY <2>1, <3>1, ProceedKeeps
  <2>2. CASE ~consent
    <3>1. End(c) /\ Remember(c, "abort") /\ answer' = "none" /\ "abort" \in Results
          /\ UNCHANGED <<consent, session, turn, started, corrections, asked, usage>>
      BY <1>3, <2>2 DEF ReceiveData, Respond, Results
    <3> QED BY <3>1, PlainAnswer
  <2> QED BY <2>1, <2>2
<1>4. CASE ReceiveFailure(c)
  <2>1. PICK code : Fail(c, code)
    BY <1>4 DEF ReceiveFailure
  <2>2. /\ End(c) /\ Remember(c, MapFailure(code)) /\ MapFailure(code) \in Results
        /\ answer' \in {"none", "data"}
        /\ UNCHANGED <<consent, session, turn, started, corrections, asked, usage>>
    BY <1>4, <2>1 DEF ReceiveFailure, Fail, MapFailure, Respond, Results
  <2> QED BY <2>2, PlainAnswer
<1>5. CASE Return(c)
  <2>1. End(c) /\ UNCHANGED <<consent, session, turn, started, corrections, asked>>
    BY <1>5 DEF Return
  <2>2. CASE UNCHANGED usage /\ Remember(c, "abort") /\ answer' = "none"
    <3>1. "abort" \in Results
      BY DEF Results
    <3> QED BY <2>1, <2>2, <3>1, PlainAnswer
  <2>3. ASSUME NEW size \in Sizes, FitsOutput(size), Remember(c, "ok"), answer' = "data",
               usage' = [usage EXCEPT !.turn["output"] = @ + size,
                                      !.session["output"] = @ + size]
        PROVE  IInv'
    <3>1. /\ usage \in [turn : Usages, session : Usages] /\ size \in Nat
          /\ "output" \in Kinds /\ "ok" \in Results
      BY LimitsAssumption DEF IInv, WithinBudget, TypeOK, Kinds, Results
    <3>2. /\ usage' \in [turn : Usages, session : Usages]
          /\ \A j \in Kinds :
                /\ usage'.turn[j] = IF j = "output" THEN usage.turn["output"] + size
                                    ELSE usage.turn[j]
                /\ usage'.session[j] = IF j = "output" THEN usage.session["output"] + size
                                       ELSE usage.session[j]
      <4>1. usage' = Raised(usage, "output", size)
        BY <2>3 DEF Raised
      <4> QED BY <3>1, <4>1, UsageRaised
    <3>3. /\ usage'.turn["output"] <= TurnOutput /\ usage'.session["output"] <= SessionOutput
          /\ \A t \in Counted : /\ usage'.turn[t] = usage.turn[t]
                                /\ usage'.session[t] = usage.session[t]
      BY <2>3, <3>1, <3>2 DEF FitsOutput, Kinds, Counted
    <3> QED BY <2>1, <2>3, <3>1, <3>2, <3>3, AnswerKeeps
  <2> QED BY <1>5, <2>2, <2>3 DEF Return, Respond
<1> QED BY <1>1, <1>2, <1>3, <1>4, <1>5, InvalidKeeps

-----------------------------------------------------------------------------
(* The theorems *)

\* Before the first session nothing was asked and nothing is used.
LEMMA InitIInv == Init => IInv
<1> SUFFICES ASSUME Init PROVE IInv
  OBVIOUS
<1> USE LimitsAssumption
<1>1. NoUsage \in Usages /\ \A k \in Kinds : NoUsage[k] = 0
  BY DEF NoUsage, Usages, Kinds
<1>2. IsFiniteSet({}) /\ Cardinality({}) = 0 /\ DOMAIN NoCalls = {}
  BY FS_EmptySet DEF NoCalls
<1>3. TypeOK
  <2>1. /\ usage.turn = NoUsage /\ usage.session = NoUsage
        /\ usage \in [turn : Usages, session : Usages]
    BY <1>1 DEF Init
  <2>2. /\ \A t \in Counted : /\ usage.turn[t] <= TurnLimit(t)
                              /\ usage.session[t] <= SessionLimit(t)
        /\ usage.turn["output"] <= TurnOutput /\ usage.session["output"] <= SessionOutput
    BY <1>1, <2>1, LimitsAreNumbers DEF Kinds
  <2>3. /\ DOMAIN ledger \subseteq CallIds
        /\ \A id \in DOMAIN ledger : ledger[id] \in [digest : Digests, result : Results]
    BY <1>2 DEF Init
  <2>4. session \in 0..MaxSessions /\ turn \in [id : 0..MaxTurns, aborted : BOOLEAN]
        /\ started \in [sessions : 0..MaxSessions, turns : 0..MaxTurns]
    BY DEF Init, NoTurn
  <2>5. calls = {} /\ Cardinality(calls) <= 1 /\ asked = {} /\ corrections = 0
    BY <1>2 DEF Init
  <2>6. /\ calls \subseteq [session : 1..MaxSessions, turn : Turns, id : CallIds, tool : Tools,
                             step : {"granted", "asked", "reading", "checked"}]
        /\ asked \subseteq [of : [session : 1..MaxSessions, turn : Turns, id : CallIds],
                            tool : Tools, refused : BOOLEAN]
        /\ consent \in BOOLEAN /\ answer \in {"none", "data"}
        /\ corrections \in 0..TurnCorrections
    BY <2>5 DEF Init
  <2>7. activeCall = (calls # {})
    BY DEF Init
  <2> QED BY <2>1, <2>2, <2>3, <2>4, <2>5, <2>6, <2>7 DEF TypeOK
<1>4. CountsWithin
  <2>1. \A tool, n : InTurn(tool, n) = {} /\ InSession(tool, n) = {}
    BY DEF Init, InTurn, InSession, Effective
  <2>2. \A tool, n : Cardinality(InTurn(tool, n)) = 0 /\ Cardinality(InSession(tool, n)) = 0
    BY <1>2, <2>1
  <2> QED BY <2>2, LimitsAreNumbers DEF CountsWithin
<1>5. OneCall /\ TurnInSession /\ CallsOfTurn /\ CallsUnknown /\ RequestsOfCalls
      /\ CheckedUnderConsent /\ Budgeted
  BY <1>2 DEF Init, OneCall, TurnInSession, CallsOfTurn, CallsUnknown, RequestsOfCalls,
     CheckedUnderConsent, Budgeted, NoTurn
<1> QED BY <1>3, <1>4, <1>5 DEF IInv, WithinBudget, CountsWithin

\* Every step keeps the invariant.
LEMMA StepIInv == IInv /\ [Next]_vars => IInv'
<1> SUFFICES ASSUME IInv, [Next]_vars PROVE IInv'
  OBVIOUS
<1>1. CASE UNCHANGED vars \/ DispatchRefused \/ \E id \in CallIds : DispatchRepeated(id)
  <2>1. /\ UNCHANGED <<consent, session, turn, started, activeCall, usage, calls, asked>>
        /\ UNCHANGED <<corrections, ledger>> /\ answer' \in {"none", "data"}
    BY <1>1 DEF vars, DispatchRefused, DispatchRepeated, Respond, IInv, WithinBudget, TypeOK
  <2>2. TypeOK' /\ CallsUnknown' /\ \A id : Known(id) => Known(id)'
    BY <2>1 DEF IInv, WithinBudget, TypeOK, CallsUnknown, Known
  <2> QED BY <2>1, <2>2, AnswersKeep
<1>2. ASSUME NEW id \in CallIds, NEW tool \in Tools, NEW call,
             call = [id |-> id, turn |-> turn.id, tool |-> tool],
             DispatchInvalid(call) \/ DispatchOverBudget(call) \/ DispatchReserved(call)
      PROVE  IInv'
  BY <1>2, RefusedAtOnce, ReservedKeeps
<1> QED BY <1>1, <1>2, CallKeeps, StartsKeep, EndsKeep, ConsentKeeps DEF Next

\* The invariant holds in every reachable state.
THEOREM Invariance == Spec => []IInv
  BY InitIInv, StepIInv, PTL DEF Spec

\* However calls fail, are corrected, cut off or outlive their session, the API gets no
\* more effective requests than were agreed on (reserveCall, releaseCall).
THEOREM BudgetHolds == Spec => []WithinBudget
<1>1. IInv => WithinBudget
  BY DEF IInv
<1> QED BY <1>1, Invariance, PTL

\* A call is put to the API once, and what it was answered stands while its session
\* lasts (dispatch, remember).
THEOREM CalledOnce == Spec => OneCallOneAnswer
<1>1. ASSUME IInv, [Next]_vars, NEW call \in calls, call.step = "granted"
      PROVE  \A r \in asked : r.of.session = call.session => r.of.id # call.id
  BY <1>1 DEF IInv, RequestsOfCalls
<1>2. ASSUME IInv, [Next]_vars, session # 0, session' = session, NEW id \in DOMAIN ledger
      PROVE  Known(id)' /\ ledger'[id] = ledger[id]
  <2>1. CASE ledger' = ledger
    BY <2>1 DEF Known
  <2>2. ASSUME NEW call, NEW result \in Results, Remember(call, result), ~Known(call.id),
               call.id \in CallIds, Digest(call) \in Digests
        PROVE  Known(id)' /\ ledger'[id] = ledger[id]
    BY <1>1, <1>2, <2>2, Remembered DEF Known
  <2>3. ASSUME NEW c \in calls,
               \/ Ask(c) \/ ReceiveHead(c) \/ ReceiveData(c) \/ ReceiveInvalid(c)
               \/ ReceiveFailure(c) \/ Return(c)
        PROVE  Known(id)' /\ ledger'[id] = ledger[id]
    <3>1. ~Known(c.id) /\ c.id \in CallIds /\ Digest(c) \in Digests
      BY <1>2, OnlyCall
    <3>2. ledger' = ledger \/ \E result \in Results : Remember(c, result)
      BY <2>3 DEF Ask, ReceiveHead, ReceiveData, ReceiveInvalid, ReceiveFailure, Return,
         Correctable, Fail, MapFailure, Results
    <3> QED BY <2>1, <2>2, <3>1, <3>2
  <2>4. ASSUME NEW i \in CallIds, NEW tool \in Tools, NEW call,
               call = [id |-> i, turn |-> turn.id, tool |-> tool],
               DispatchInvalid(call) \/ DispatchOverBudget(call) \/ DispatchReserved(call)
        PROVE  Known(id)' /\ ledger'[id] = ledger[id]
    <3>1. Admitted(call)
      BY <2>4 DEF DispatchInvalid, DispatchOverBudget, DispatchReserved
    <3>2. ~Known(call.id) /\ call.id \in CallIds /\ Digest(call) \in Digests
      BY <1>2, <2>4, <3>1, NewCall
    <3>3. ledger' = ledger \/ \E result \in Results : Remember(call, result)
      BY <2>4 DEF DispatchInvalid, DispatchOverBudget, DispatchReserved, Correctable, Results
    <3> QED BY <2>1, <2>2, <3>2, <3>3
  <2> QED BY <1>2, <2>1, <2>3, <2>4 DEF Next, vars, StartSession, StartTurn, InterruptTurn,
       FinishTurn, CloseSession, AbandonSession, RevokeConsent, GrantConsent,
       DispatchRefused, DispatchRepeated
<1>3. IInv /\ [Next]_vars =>
         [\A call \in calls :
            call.step = "granted" /\ [call EXCEPT !.step = "asked"] \in calls' =>
               \A r \in asked : r.of.session = call.session => r.of.id # call.id]_vars
  BY <1>1
<1>4. IInv /\ [Next]_vars =>
         [session # 0 /\ session' = session =>
            \A id \in DOMAIN ledger : Known(id)' /\ ledger'[id] = ledger[id]]_vars
  BY <1>2
<1>5. Spec => AskedOnce
  BY <1>3, Invariance, PTL DEF Spec, AskedOnce
<1>6. Spec => AnswersStand
  BY <1>4, Invariance, PTL DEF Spec, AnswersStand
<1> QED BY <1>5, <1>6 DEF OneCallOneAnswer

\* Data come back under a consent that stands, in a turn that nobody has aborted, of the
\* session the call was made in (the comparison after the second consent check).
THEOREM DataWithConsent == Spec => DataUnderConsent
<1>1. ASSUME IInv, [Next]_vars, NEW call \in calls, call \notin calls', answer' = "data",
             call.step = "checked"
      PROVE  consent /\ session = call.session /\ turn = [id |-> call.turn, aborted |-> FALSE]
  <2>1. calls = {call}
    BY <1>1, OnlyCall
  <2>2. Return(call)
    <3>1. calls' # calls
      BY <1>1
    <3>2. ASSUME NEW c \in calls PROVE c = call
      BY <2>1
    <3> QED BY <1>1, <2>1, <3>1, <3>2 DEF Next, vars, StartSession, StartTurn, InterruptTurn,
         FinishTurn, CloseSession, AbandonSession, RevokeConsent, GrantConsent,
         DispatchRefused, DispatchRepeated, DispatchInvalid, DispatchOverBudget,
         DispatchReserved, Ask, ReceiveHead, ReceiveData, ReceiveInvalid, ReceiveFailure,
         Failures
  <2>3. Current(call)
    BY <1>1, <2>2 DEF Return, Respond
  <2>4. consent
    BY <1>1, <2>3 DEF IInv, CheckedUnderConsent
  <2>5. turn \in [id : 0..MaxTurns, aborted : BOOLEAN]
    BY <1>1 DEF IInv, WithinBudget, TypeOK
  <2> QED BY <2>3, <2>4, <2>5 DEF Current, Aborted
<1>2. IInv /\ [Next]_vars =>
         [\A call \in calls :
            call \notin calls' /\ answer' = "data" /\ call.step = "checked" =>
               consent /\ session = call.session
               /\ turn = [id |-> call.turn, aborted |-> FALSE]]_vars
  BY <1>1
<1> QED BY <1>2, Invariance, PTL DEF Spec, DataUnderConsent
=============================================================================
