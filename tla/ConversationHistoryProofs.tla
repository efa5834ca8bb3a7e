----------------------- MODULE ConversationHistoryProofs -----------------------
(* What is proved of ConversationHistory where the database locks the         *)
(* conversation that a request reads, for every number of concurrent          *)
(* requests, conversations, turns and messages of a reply: the transcript is  *)
(* what the turns made of it, and a turn ends once.                           *)
EXTENDS ConversationHistory, FiniteSetTheorems, TLAPS

-----------------------------------------------------------------------------
(* The inductive invariant *)

Values == Prompts \cup Threads \cup Replies \cup {None}
Rows == [version : 1..MaxVersion + 1, status : {"active", "archived", "deleted"}, count : Nat]
           \cup {Absent}

Requests ==
    [step : {"idle", "lock", "lock_turn", "read_runtime", "commit"},
     task : Tasks \cup {"none"}, conversation : Conversations \cup {None},
     turn : Turns \cup {None}, value : Values, row : Rows]

RequestsTyped == requests \in [Clients -> Requests]

Ending == {"complete", "interrupted", "failed"}

\* What each step of a request has in hand.
RequestsInStep ==
    \A k \in Clients :
        LET r == requests[k] IN
        /\ r.step = "idle" => r = Idle
        /\ r.step = "lock" => r.task = "reserve" /\ r.row = Absent
        /\ r.step \in {"read_runtime", "lock_turn", "commit"} => r.row # Absent
        /\ r.step = "read_runtime" => r.task = "bind"
        /\ r.step = "lock_turn" => r.task \in Ending
        /\ r.step # "idle" => r.conversation \in Conversations
        /\ r.task \in {"reserve"} \cup Ending => r.turn \in Turns
        /\ r.task = "reserve" => r.value \in Prompts
        /\ r.task = "bind" => r.value \in Threads
        /\ r.task = "complete" => r.value \in Replies

\* A row that was read is the stored one, of a conversation that is there, and is
\* nobody else's.
RowsHeld ==
    /\ \A k \in Clients : requests[k].row # Absent =>
          /\ requests[k].conversation \in Conversations
          /\ requests[k].row = conversations[requests[k].conversation]
          /\ requests[k].row.status \in {"active", "archived"}
          /\ requests[k].row.version < MaxVersion
    /\ \A k, d \in Clients : requests[k].row # Absent /\ requests[d].row # Absent
          /\ requests[k].conversation = requests[d].conversation => k = d

\* A turn that is about to be ended is reserved in the conversation of the request.
TurnsHeld ==
    \A k \in Clients : requests[k].step = "commit" /\ requests[k].task \in Ending =>
        /\ turns[requests[k].turn].conversation = requests[k].conversation
        /\ turns[requests[k].turn].status = "reserved"

\* The messages of a conversation fill the places up to its count, each once.
Numbered ==
    /\ \A m \in messages : conversations[m.conversation].status # "deleted" =>
          m.sequence \in 1..conversations[m.conversation].count
    /\ \A c \in Conversations : conversations[c].status # "deleted" =>
          \A s \in 1..conversations[c].count : \E m \in messages :
             m.conversation = c /\ m.sequence = s
    /\ \A m, n \in messages : m.conversation = n.conversation /\ m.sequence = n.sequence => m = n

\* A message has its turn, a turn its one prompt, and only a completed one an answer,
\* behind the prompt.
Prompted ==
    /\ \A m \in messages : turns[m.turn].conversation = m.conversation
    /\ \A t \in Turns : turns[t] # NoTurn =>
          \E p \in messages : p.turn = t /\ p.role = "user"
    /\ \A p, q \in messages : p.role = "user" /\ q.role = "user" /\ p.turn = q.turn => p = q
    /\ \A m \in messages : m.role = "assistant" => turns[m.turn].status = "completed"
    /\ \A p, m \in messages : p.role = "user" /\ m.role = "assistant" /\ p.turn = m.turn =>
          p.sequence < m.sequence

IInv ==
    /\ TypeOK
    /\ RequestsTyped /\ RequestsInStep /\ RowsHeld /\ TurnsHeld
    /\ Numbered /\ Prompted /\ DeletedIsEmpty

-----------------------------------------------------------------------------
(* Steps that only read: one request moves on, the tables stay *)

\* What holds of a request whose row is the stored one.
Sound(r) ==
    /\ r \in Requests /\ r.step # "idle" /\ r.task \in Tasks /\ r.conversation \in Conversations
    /\ IF r.step = "lock"
       THEN r.task = "reserve" /\ r.row = Absent
       ELSE /\ r.row = conversations[r.conversation]
            /\ r.row.status \in {"active", "archived"} /\ r.row.version < MaxVersion
    /\ r.step = "read_runtime" => r.task = "bind"
    /\ r.step = "lock_turn" => r.task \in Ending
    /\ r.task \in {"reserve"} \cup Ending => r.turn \in Turns
    /\ r.task = "reserve" => r.value \in Prompts
    /\ r.task = "bind" => r.value \in Threads
    /\ r.task = "complete" => r.value \in Replies
    /\ r.step = "commit" /\ r.task \in Ending =>
          turns[r.turn].conversation = r.conversation /\ turns[r.turn].status = "reserved"

\* A request moves on with a row that is stored, and was its own or free before.
LEMMA MovesKeepIInv ==
    ASSUME IInv, NEW k \in Clients, NEW q, UNCHANGED tables,
           requests' = [requests EXCEPT ![k] = q],
           Sound(q),
           q.row # Absent => \A d \in Clients \ {k} : ~Holds(d, q.conversation)
    PROVE  IInv'
<1> USE DEF IInv, tables
<1>1. TypeOK'
  BY DEF TypeOK, Sound, Requests, RequestsInStep
<1>2. RequestsTyped'
  BY DEF RequestsTyped, Sound
<1>3. RequestsInStep'
  BY DEF RequestsInStep, RequestsTyped, Requests, Sound, Absent
<1>4. RowsHeld'
  BY DEF RowsHeld, RequestsTyped, Requests, Sound, Holds
<1>5. TurnsHeld'
  BY DEF TurnsHeld, RequestsTyped, Requests, Sound
<1>6. Numbered' /\ Prompted' /\ DeletedIsEmpty'
  BY DEF Numbered, Prompted, DeletedIsEmpty, Of
<1> QED BY <1>1, <1>2, <1>3, <1>4, <1>5, <1>6

\* So does one that ends with nothing done.
LEMMA FinishKeepsIInv ==
    ASSUME IInv, NEW k \in Clients, UNCHANGED tables, Finish(k)
    PROVE  IInv'
<1> USE DEF IInv, tables, Finish
<1>1. TypeOK'
  BY DEF TypeOK
<1>2. RequestsTyped'
  BY DEF RequestsTyped, Requests, Idle, Values, Rows
<1>3. RequestsInStep'
  BY NoneAssumption DEF RequestsInStep, RequestsTyped, Idle, Ending
<1>4. RowsHeld'
  BY DEF RowsHeld, RequestsTyped, Idle
<1>5. TurnsHeld'
  BY DEF TurnsHeld, RequestsTyped, Idle
<1>6. Numbered' /\ Prompted' /\ DeletedIsEmpty'
  BY DEF Numbered, Prompted, DeletedIsEmpty, Of
<1> QED BY <1>1, <1>2, <1>3, <1>4, <1>5, <1>6

\* A conversation that can be locked is nobody's, and has room for a change.
LEMMA LockableRow ==
    ASSUME IInv, RowLocks, NEW k \in Clients, NEW c \in Conversations, Lockable(k, c)
    PROVE  /\ conversations[c] # Absent /\ conversations[c] \in Rows
           /\ conversations[c].status \in {"active", "archived"}
           /\ conversations[c].version < MaxVersion
           /\ \A d \in Clients \ {k} : ~Holds(d, c)
  BY DEF IInv, TypeOK, Lockable, Free, Absent, Rows

\* A request begins, with the row that it locked or none.
LEMMA BeginKeepsIInv ==
    ASSUME IInv, NEW k \in Clients, NEW step, NEW task, NEW c, NEW t, NEW value, NEW row,
           Begin(k, step, task, c, t, value, row),
           Sound([step |-> step, task |-> task, conversation |-> c, turn |-> t,
                  value |-> value, row |-> row]),
           row # Absent => \A d \in Clients \ {k} : ~Holds(d, c)
    PROVE  IInv'
<1> DEFINE q == [step |-> step, task |-> task, conversation |-> c, turn |-> t,
                 value |-> value, row |-> row]
<1>1. Sound(q) /\ q.row = row /\ q.conversation = c
  OBVIOUS
<1>2. requests' = [requests EXCEPT ![k] = q] /\ UNCHANGED tables
  BY DEF Begin
<1> HIDE DEF q
<1> QED BY <1>1, <1>2, MovesKeepIInv

\* What a request does before its second statement, reserve_turn's look for the turn or
\* lock_conversation in all others, keeps the invariant.
LEMMA BeginningsKeepIInv ==
    ASSUME IInv, RowLocks, NEW k \in Clients, NEW c \in Conversations,
           \/ \E t \in Turns, prompt \in Prompts : Reserve(k, c, t, prompt)
           \/ \E task \in {"rename", "archive", "restore"} : Update(k, c, task)
           \/ Delete(k, c)
           \/ \E thread \in Threads : Bind(k, c, thread)
           \/ \E t \in Turns :
                 \/ \E reply \in Replies : End(k, c, t, "complete", reply)
                 \/ \E task \in {"interrupted", "failed"} : End(k, c, t, task, None)
    PROVE  IInv'
<1> USE DEF Values, Rows, Requests, Ending, Tasks
<1>1. CASE \E t \in Turns, prompt \in Prompts : Reserve(k, c, t, prompt)
  <2>1. PICK t \in Turns, prompt \in Prompts : Reserve(k, c, t, prompt)
    BY <1>1
  <2>2. Sound([step |-> "lock", task |-> "reserve", conversation |-> c, turn |-> t,
               value |-> prompt, row |-> Absent])
    BY DEF Sound
  <2> QED BY <2>1, <2>2, BeginKeepsIInv DEF Reserve
<1>2. CASE \E task \in {"rename", "archive", "restore"} : Update(k, c, task)
  <2>1. PICK task \in {"rename", "archive", "restore"} : Update(k, c, task)
    BY <1>2
  <2>2. Lockable(k, c)
    BY <2>1 DEF Update
  <2>3. Sound([step |-> "commit", task |-> task, conversation |-> c, turn |-> None,
               value |-> None, row |-> conversations[c]])
    BY <2>2, LockableRow DEF Sound
  <2> QED BY <2>1, <2>2, <2>3, LockableRow, BeginKeepsIInv DEF Update
<1>3. CASE Delete(k, c)
  <2>2. Lockable(k, c)
    BY <1>3 DEF Delete
  <2>3. Sound([step |-> "commit", task |-> "delete", conversation |-> c, turn |-> None,
               value |-> None, row |-> conversations[c]])
    BY <2>2, LockableRow DEF Sound
  <2> QED BY <1>3, <2>2, <2>3, LockableRow, BeginKeepsIInv DEF Delete
<1>4. CASE \E thread \in Threads : Bind(k, c, thread)
  <2>1. PICK thread \in Threads : Bind(k, c, thread)
    BY <1>4
  <2>2. Lockable(k, c)
    BY <2>1 DEF Bind
  <2>3. Sound([step |-> "read_runtime", task |-> "bind", conversation |-> c, turn |-> None,
               value |-> thread, row |-> conversations[c]])
    BY <2>2, LockableRow DEF Sound
  <2> QED BY <2>1, <2>2, <2>3, LockableRow, BeginKeepsIInv DEF Bind
<1>5. ASSUME NEW t \in Turns, NEW task \in Ending, NEW value \in Values,
             task = "complete" => value \in Replies, End(k, c, t, task, value)
      PROVE  IInv'
  <2>2. Lockable(k, c)
    BY <1>5 DEF End
  <2>3. Sound([step |-> "lock_turn", task |-> task, conversation |-> c, turn |-> t,
               value |-> value, row |-> conversations[c]])
    BY <1>5, <2>2, LockableRow DEF Sound
  <2> QED BY <1>5, <2>2, <2>3, LockableRow, BeginKeepsIInv DEF End
<1> QED BY <1>1, <1>2, <1>3, <1>4, <1>5

\* So do the reads that follow, and an error or a crash of the API anywhere.
LEMMA LocksKeepIInv ==
    ASSUME IInv, RowLocks, NEW k \in Clients,
           LockForReserve(k) \/ ReadRuntime(k) \/ LockTurn(k) \/ Rollback(k)
    PROVE  IInv'
<1> USE DEF IInv
<1>1. requests \in [Clients -> Requests]
  BY DEF RequestsTyped
<1> USE DEF Requests
<1>2. CASE Rollback(k)
  BY <1>2, FinishKeepsIInv DEF Rollback
<1>3. CASE LockForReserve(k)
  <2> DEFINE c == requests[k].conversation
             q == [requests[k] EXCEPT !.row = conversations[c], !.step = "commit"]
  <2>1. requests[k].step = "lock" /\ Lockable(k, c) /\ UNCHANGED tables
    BY <1>3 DEF LockForReserve
  <2>2. requests[k].task = "reserve" /\ c \in Conversations /\ requests[k].turn \in Turns
           /\ requests[k].value \in Prompts
    BY <2>1 DEF RequestsInStep
  <2>3. CASE Finish(k)
    BY <2>1, <2>3, FinishKeepsIInv
  <2>4. CASE requests' = [requests EXCEPT ![k].row = conversations[c], ![k].step = "commit"]
    <3>1. requests' = [requests EXCEPT ![k] = q]
      BY <1>1, <2>4
    <3>2. Sound(q) /\ q.conversation = c
      BY <1>1, <2>1, <2>2, LockableRow DEF Sound, Tasks, Ending
    <3>3. \A d \in Clients \ {k} : ~Holds(d, q.conversation)
      BY <2>1, <2>2, <3>2, LockableRow
    <3> HIDE DEF q
    <3> QED BY <2>1, <3>1, <3>2, <3>3, MovesKeepIInv
  <2> QED BY <1>3, <2>3, <2>4 DEF LockForReserve
<1>4. CASE ReadRuntime(k) \/ LockTurn(k)
  <2> DEFINE q == [requests[k] EXCEPT !.step = "commit"]
  <2>1. UNCHANGED tables /\ requests[k].step \in {"read_runtime", "lock_turn"}
    BY <1>4 DEF ReadRuntime, LockTurn
  <2>2. CASE Finish(k)
    BY <2>1, <2>2, FinishKeepsIInv
  <2>3. CASE Goto(k, "commit") /\ (LockTurn(k) =>
                turns[requests[k].turn].conversation = requests[k].conversation
                /\ Ends(requests[k].turn, requests[k].task))
    <3>1. requests' = [requests EXCEPT ![k] = q]
      BY <1>1, <2>3 DEF Goto
    <3>2. requests[k].row # Absent /\ requests[k].conversation \in Conversations
      BY <2>1 DEF RequestsInStep
    <3>3. /\ LockTurn(k) => requests[k].task \in Ending /\ requests[k].turn \in Turns
          /\ ~LockTurn(k) => requests[k].task = "bind"
      <4>1. requests[k].step = "lock_turn" =>
              requests[k].task \in Ending /\ requests[k].turn \in Turns
        BY DEF RequestsInStep
      <4>2. requests[k].step = "read_runtime" => requests[k].task = "bind"
        BY DEF RequestsInStep
      <4>3. LockTurn(k) => requests[k].step = "lock_turn"
        BY DEF LockTurn
      <4>4. ReadRuntime(k) => requests[k].step = "read_runtime"
        BY DEF ReadRuntime
      <4> QED BY <1>4, <4>1, <4>2, <4>3, <4>4
    <3>4. LockTurn(k) => turns[requests[k].turn].status = "reserved"
      BY <2>3, <3>2, <3>3, NoneAssumption DEF TypeOK, Ends, Terminal, NoTurn, Ending
    <3>5. Sound(q) /\ q.conversation = requests[k].conversation
      BY <1>1, <2>3, <3>2, <3>3, <3>4 DEF Sound, RowsHeld, RequestsInStep, Ending, Tasks
    <3>6. \A d \in Clients \ {k} : ~Holds(d, q.conversation)
      BY <3>2, <3>5 DEF RowsHeld, Holds
    <3> HIDE DEF q
    <3> QED BY <2>1, <3>1, <3>5, <3>6, MovesKeepIInv
  <2> QED BY <1>4, <2>2, <2>3 DEF ReadRuntime, LockTurn
<1> QED BY <1>2, <1>3, <1>4

-----------------------------------------------------------------------------
(* The commits *)

\* What a request that commits has in hand.
LEMMA Held ==
    ASSUME IInv, NEW k \in Clients, requests[k].step = "commit"
    PROVE  /\ requests[k].task \in Tasks
           /\ requests[k].conversation \in Conversations
           /\ requests[k].row = conversations[requests[k].conversation]
           /\ requests[k].row.version \in 1..MaxVersion - 1
           /\ requests[k].row.status \in {"active", "archived"}
           /\ requests[k].row.count \in Nat
           /\ requests[k].task \in {"reserve"} \cup Ending => requests[k].turn \in Turns
<1>1. requests[k].row # Absent /\ requests[k].row \in Rows /\ requests[k].task \in Tasks
  BY DEF IInv, RequestsInStep, RequestsTyped, Requests, TypeOK, Idle
<1> QED BY <1>1, RepliesAssumption DEF IInv, RowsHeld, RequestsInStep, Rows

\* The row that is written is the row that was locked, with what the commit changed.
LEMMA WrittenRow ==
    ASSUME IInv, NEW k \in Clients, requests[k].step = "commit", NEW status, NEW count,
           Written(k, status, count)
    PROVE  conversations' = [conversations EXCEPT ![requests[k].conversation] =
              [version |-> requests[k].row.version + 1, status |-> status, count |-> count]]
  BY Held DEF Written

\* The other requests keep what they hold when a commit changes only the conversation
\* it has locked, and of the turns only those of that conversation, or a free one.
LEMMA OthersKeep ==
    ASSUME IInv, NEW k \in Clients, Finish(k), requests[k].step = "commit",
           \A c \in Conversations : c # requests[k].conversation =>
              conversations'[c] = conversations[c],
           \A t \in Turns : turns[t] # NoTurn /\ turns[t].conversation # requests[k].conversation =>
              turns'[t] = turns[t]
    PROVE  RequestsTyped' /\ RequestsInStep' /\ RowsHeld' /\ TurnsHeld'
<1> USE DEF IInv, Finish
<1>1. requests[k].row # Absent
  BY DEF RequestsInStep
<1>2. RequestsTyped'
  BY DEF RequestsTyped, Requests, Idle, Values, Rows
<1>3. RequestsInStep'
  BY NoneAssumption DEF RequestsInStep, RequestsTyped, Idle, Ending
<1>4. RowsHeld'
  BY <1>1 DEF RowsHeld, RequestsTyped, Idle
<1>5. TurnsHeld'
  <2> SUFFICES ASSUME NEW d \in Clients, requests'[d].step = "commit", requests'[d].task \in Ending
               PROVE  /\ turns'[requests'[d].turn].conversation = requests'[d].conversation
                      /\ turns'[requests'[d].turn].status = "reserved"
    BY DEF TurnsHeld
  <2>1. d # k /\ requests'[d] = requests[d]
    BY DEF RequestsTyped, Idle
  <2>2. requests[d].turn \in Turns /\ requests[d].row # Absent
    BY <2>1 DEF RequestsInStep
  <2>3. requests[d].conversation # requests[k].conversation
    BY <1>1, <2>1, <2>2 DEF RowsHeld
  <2>4. turns[requests[d].turn].status = "reserved"
        /\ turns[requests[d].turn].conversation = requests[d].conversation
    BY <2>1 DEF TurnsHeld
  <2>5. turns[requests[d].turn] # NoTurn
    BY <2>4 DEF NoTurn
  <2> QED BY <2>1, <2>2, <2>3, <2>4, <2>5
<1> QED BY <1>2, <1>3, <1>4, <1>5

\* Types, apart from the requests', after a commit: the changed row fits.
LEMMA RowFits ==
    ASSUME IInv, NEW k \in Clients, requests[k].step = "commit",
           NEW status \in {"active", "archived", "deleted"}, NEW count \in Nat,
           Written(k, status, count)
    PROVE  /\ conversations' \in [Conversations -> Rows]
           /\ conversations'[requests[k].conversation].status = status
           /\ conversations'[requests[k].conversation].count = count
           /\ \A c \in Conversations : c # requests[k].conversation =>
                 conversations'[c] = conversations[c]
<1>1. conversations \in [Conversations -> Rows] /\ requests[k].conversation \in Conversations
      /\ requests[k].row.version \in 1..MaxVersion - 1
  BY Held DEF IInv, TypeOK, Rows
<1>2. [version |-> requests[k].row.version + 1, status |-> status, count |-> count] \in Rows
  BY <1>1, RepliesAssumption DEF Rows
<1> QED BY <1>1, <1>2, WrittenRow

\* rename, archive, restore
LEMMA UpdateKeepsIInv ==
    ASSUME IInv, NEW k \in Clients, CommitUpdate(k)
    PROVE  IInv'
<1> DEFINE c == requests[k].conversation
           status == StatusAfter(requests[k].task, requests[k].row.status)
<1>1. requests[k].step = "commit" /\ UNCHANGED <<messages, turns, runtimes>> /\ Finish(k)
      /\ Written(k, status, requests[k].row.count)
  BY DEF CommitUpdate, Committing
<1>2. status \in {"active", "archived"}
  BY <1>1, Held DEF StatusAfter
<1>3. /\ conversations' \in [Conversations -> Rows]
      /\ conversations'[c].status = status /\ conversations'[c].count = conversations[c].count
      /\ \A d \in Conversations : d # c => conversations'[d] = conversations[d]
      /\ conversations[c].status # "deleted"
  <2> HIDE DEF status
  <2> QED BY <1>1, <1>2, Held, RowFits
<1> HIDE DEF status
<1>4. TypeOK'
  BY <1>1, <1>3 DEF IInv, TypeOK, Rows, Finish
<1>5. RequestsTyped' /\ RequestsInStep' /\ RowsHeld' /\ TurnsHeld'
  BY <1>1, <1>3, OthersKeep
<1>6. Numbered'
  BY <1>1, <1>2, <1>3, Held DEF IInv, Numbered, TypeOK
<1>7. Prompted'
  BY <1>1 DEF IInv, Prompted
<1>8. DeletedIsEmpty'
  BY <1>1, <1>2, <1>3 DEF IInv, DeletedIsEmpty, Of
<1> QED BY <1>4, <1>5, <1>6, <1>7, <1>8 DEF IInv

\* The thread is bound where the conversation has none and nobody else has the thread.
LEMMA BindKeepsIInv ==
    ASSUME IInv, NEW k \in Clients, CommitBind(k)
    PROVE  IInv'
<1> DEFINE c == requests[k].conversation
<1>1. requests[k].step = "commit" /\ requests[k].task = "bind" /\ Finish(k)
      /\ UNCHANGED <<conversations, messages, turns>>
  BY DEF CommitBind, Committing
<1>2. c \in Conversations /\ requests[k].value \in Threads /\ conversations[c].status # "deleted"
  BY <1>1, Held DEF IInv, RequestsInStep
<1>3. TypeOK'
  BY <1>1, <1>2 DEF IInv, TypeOK, CommitBind, Finish
<1>4. RequestsTyped' /\ RequestsInStep' /\ RowsHeld' /\ TurnsHeld'
  BY <1>1, OthersKeep
<1>5. Numbered' /\ Prompted'
  BY <1>1 DEF IInv, Numbered, Prompted
<1>6. DeletedIsEmpty'
  BY <1>1, <1>2 DEF IInv, DeletedIsEmpty, Of, CommitBind, TypeOK
<1> QED BY <1>3, <1>4, <1>5, <1>6 DEF IInv

\* fail_turn
LEMMA FailKeepsIInv ==
    ASSUME IInv, NEW k \in Clients, CommitFail(k)
    PROVE  IInv'
<1> DEFINE c == requests[k].conversation
           t == requests[k].turn
<1>1. requests[k].step = "commit" /\ requests[k].task \in {"interrupted", "failed"}
      /\ UNCHANGED <<messages, runtimes>> /\ Finish(k)
  BY DEF CommitFail, Committing
<1>2. /\ c \in Conversations /\ t \in Turns /\ conversations[c].status # "deleted"
      /\ requests[k].row.status \in {"active", "archived"}
      /\ requests[k].row.count \in Nat /\ requests[k].row = conversations[c]
      /\ turns[t].conversation = c /\ turns[t].status = "reserved" /\ turns[t] # NoTurn
  BY <1>1, Held DEF IInv, TurnsHeld, Ending, NoTurn
<1>3. turns' = [turns EXCEPT ![t].status = requests[k].task]
      /\ Written(k, requests[k].row.status, requests[k].row.count)
  BY <1>2 DEF CommitFail
<1>4. /\ conversations' \in [Conversations -> Rows]
      /\ conversations'[c].status = conversations[c].status
      /\ conversations'[c].count = conversations[c].count
      /\ \A d \in Conversations : d # c => conversations'[d] = conversations[d]
  BY <1>1, <1>2, <1>3, RowFits
<1>5. /\ turns'[t].conversation = c /\ turns'[t].status = requests[k].task
      /\ turns'[t] # NoTurn
      /\ \A u \in Turns : u # t => turns'[u] = turns[u]
      /\ turns' \in [Turns -> [conversation : Conversations, status : {"reserved"} \cup Terminal,
           prompt : Prompts] \cup {NoTurn}]
  BY <1>1, <1>2, <1>3 DEF IInv, TypeOK, NoTurn, Terminal
<1>6. TypeOK'
  BY <1>1, <1>4, <1>5 DEF IInv, TypeOK, Rows, Finish
<1>7. RequestsTyped' /\ RequestsInStep' /\ RowsHeld' /\ TurnsHeld'
  BY <1>1, <1>2, <1>4, <1>5, OthersKeep
<1>8. Numbered'
  BY <1>1, <1>2, <1>4 DEF IInv, Numbered, TypeOK
<1>9. Prompted'
  BY <1>1, <1>2, <1>5 DEF IInv, Prompted, TypeOK
<1>10. DeletedIsEmpty'
  BY <1>1, <1>2, <1>4, <1>5 DEF IInv, DeletedIsEmpty, Of
<1> QED BY <1>6, <1>7, <1>8, <1>9, <1>10 DEF IInv

\* reserve_turn: the prompt takes the next place.
LEMMA ReserveKeepsIInv ==
    ASSUME IInv, NEW k \in Clients, CommitReserve(k)
    PROVE  IInv'
<1> DEFINE c == requests[k].conversation
           t == requests[k].turn
           n == requests[k].row.count
           prompt == Message(c, t, n + 1, "user")
           reserved == [conversation |-> c, status |-> "reserved", prompt |-> requests[k].value]
<1>1. requests[k].step = "commit" /\ requests[k].task = "reserve" /\ UNCHANGED runtimes /\ Finish(k)
  BY DEF CommitReserve, Committing
<1>2. /\ c \in Conversations /\ t \in Turns /\ conversations[c].status # "deleted"
      /\ requests[k].row.status \in {"active", "archived"}
      /\ n \in Nat /\ requests[k].row = conversations[c] /\ requests[k].value \in Prompts
  BY <1>1, Held DEF IInv, RequestsInStep
<1>3. CASE UNCHANGED <<conversations, messages, turns>>
  BY <1>1, <1>3, FinishKeepsIInv DEF tables
<1>4. CASE /\ turns[t] = NoTurn /\ messages' = messages \cup {prompt}
           /\ turns' = [turns EXCEPT ![t] = reserved]
           /\ Written(k, requests[k].row.status, n + 1)
  <2>1. /\ conversations' \in [Conversations -> Rows]
        /\ conversations'[c].status = conversations[c].status
        /\ conversations'[c].count = n + 1
        /\ \A d \in Conversations : d # c => conversations'[d] = conversations[d]
    BY <1>1, <1>2, <1>4, RowFits
  <2>2. /\ turns'[t].conversation = c /\ turns'[t].status = "reserved"
        /\ \A u \in Turns : u # t => turns'[u] = turns[u]
        /\ turns' \in [Turns -> [conversation : Conversations, status : {"reserved"} \cup Terminal,
             prompt : Prompts] \cup {NoTurn}]
    BY <1>2, <1>4 DEF IInv, TypeOK, Terminal
  <2>3. /\ prompt \in [conversation : Conversations, turn : Turns, sequence : Nat \ {0},
                       role : {"user", "assistant"}]
        /\ prompt.conversation = c /\ prompt.turn = t /\ prompt.sequence = n + 1
        /\ prompt.role = "user"
    BY <1>2 DEF Message
  <2>4. \A m \in messages : m.turn # t
    BY <1>2, <1>4, NoneAssumption DEF IInv, TypeOK, Prompted, NoTurn
  <2> HIDE DEF prompt, reserved
  <2>5. TypeOK'
    BY <1>1, <1>4, <2>1, <2>2, <2>3 DEF IInv, TypeOK, Rows, Finish
  <2>6. RequestsTyped' /\ RequestsInStep' /\ RowsHeld' /\ TurnsHeld'
    BY <1>1, <1>4, <2>1, <2>2, OthersKeep
  <2>7. Numbered'
    <3>1. \A m \in messages : m.conversation = c => m.sequence \in 1..n
      BY <1>2 DEF IInv, Numbered
    <3>2. \A m \in messages' : conversations'[m.conversation].status # "deleted" =>
             m.sequence \in 1..conversations'[m.conversation].count
      BY <1>2, <1>4, <2>1, <2>3, <3>1 DEF IInv, Numbered, TypeOK
    <3>3. \A d \in Conversations : conversations'[d].status # "deleted" =>
             \A s \in 1..conversations'[d].count : \E m \in messages' :
                m.conversation = d /\ m.sequence = s
      <4>1. \A s \in 1..n : \E m \in messages' : m.conversation = c /\ m.sequence = s
        BY <1>2, <1>4 DEF IInv, Numbered
      <4>2. \E m \in messages' : m.conversation = c /\ m.sequence = n + 1
        BY <1>4, <2>3
      <4>3. 1..n + 1 = 1..n \cup {n + 1}
        BY <1>2
      <4> QED BY <1>4, <2>1, <4>1, <4>2, <4>3 DEF IInv, Numbered
    <3>4. \A m, o \in messages' :
             m.conversation = o.conversation /\ m.sequence = o.sequence => m = o
      BY <1>2, <1>4, <2>3, <3>1 DEF IInv, Numbered
    <3> QED BY <3>2, <3>3, <3>4 DEF Numbered
  <2>8. Prompted'
    BY <1>2, <1>4, <2>2, <2>3, <2>4 DEF IInv, Prompted, TypeOK
  <2>9. DeletedIsEmpty'
    BY <1>1, <1>2, <1>4, <2>1, <2>2, <2>3 DEF IInv, DeletedIsEmpty, Of
  <2> QED BY <2>5, <2>6, <2>7, <2>8, <2>9 DEF IInv
<1> QED BY <1>3, <1>4 DEF CommitReserve

\* complete_turn: the messages of the reply take the next places.
LEMMA CompleteKeepsIInv ==
    ASSUME IInv, NEW k \in Clients, CommitComplete(k)
    PROVE  IInv'
<1> DEFINE c == requests[k].conversation
           t == requests[k].turn
           n == requests[k].row.count
           size == requests[k].value
           reply == {Message(c, t, s, "assistant") : s \in n + 1 .. n + size}
<1>1. requests[k].step = "commit" /\ requests[k].task = "complete" /\ UNCHANGED runtimes /\ Finish(k)
  BY DEF CommitComplete, Committing
<1>2. /\ c \in Conversations /\ t \in Turns /\ conversations[c].status # "deleted"
      /\ requests[k].row.status \in {"active", "archived"}
      /\ n \in Nat /\ requests[k].row = conversations[c] /\ size \in Nat
      /\ turns[t].conversation = c /\ turns[t].status = "reserved" /\ turns[t] # NoTurn
  <2>1. requests[k].task \in Ending /\ size \in Replies
    BY <1>1 DEF IInv, RequestsInStep, Ending
  <2>2. turns[t].conversation = c /\ turns[t].status = "reserved" /\ turns[t] # NoTurn
    BY <1>1, <2>1 DEF IInv, TurnsHeld, NoTurn
  <2>3. size \in Nat
    BY <2>1, RepliesAssumption
  <2> QED BY <1>1, <2>1, <2>2, <2>3, Held
<1>3. CASE UNCHANGED <<conversations, messages, turns>>
  BY <1>1, <1>3, FinishKeepsIInv DEF tables
<1>4. CASE /\ messages' = messages \cup reply
           /\ turns' = [turns EXCEPT ![t].status = "completed"]
           /\ Written(k, requests[k].row.status, n + size)
  <2>1. /\ conversations' \in [Conversations -> Rows]
        /\ conversations'[c].status = conversations[c].status
        /\ conversations'[c].count = n + size
        /\ \A d \in Conversations : d # c => conversations'[d] = conversations[d]
    BY <1>1, <1>2, <1>4, RowFits
  <2>2. /\ turns'[t].conversation = c /\ turns'[t].status = "completed" /\ turns'[t] # NoTurn
        /\ \A u \in Turns : u # t => turns'[u] = turns[u]
        /\ turns' \in [Turns -> [conversation : Conversations, status : {"reserved"} \cup Terminal,
             prompt : Prompts] \cup {NoTurn}]
    BY <1>2, <1>4 DEF IInv, TypeOK, Terminal, NoTurn
  <2>3. /\ \A m \in reply : /\ m \in [conversation : Conversations, turn : Turns,
                                   sequence : Nat \ {0}, role : {"user", "assistant"}]
                            /\ m.conversation = c /\ m.turn = t /\ m.role = "assistant"
                            /\ m.sequence \in n + 1 .. n + size
        /\ \A m, o \in reply : m.sequence = o.sequence => m = o
        /\ \A s \in n + 1 .. n + size : \E m \in reply : m.sequence = s
    <3>1. \A m \in reply : \E s \in n + 1 .. n + size : m = Message(c, t, s, "assistant")
      OBVIOUS
    <3>2. \A s \in n + 1 .. n + size : Message(c, t, s, "assistant") \in reply
      OBVIOUS
    <3> HIDE DEF reply
    <3>3. ASSUME NEW m \in reply
          PROVE  /\ m \in [conversation : Conversations, turn : Turns, sequence : Nat \ {0},
                            role : {"user", "assistant"}]
                 /\ m.conversation = c /\ m.turn = t /\ m.role = "assistant"
                 /\ m.sequence \in n + 1 .. n + size
                 /\ m = Message(c, t, m.sequence, "assistant")
      BY <1>2, <3>1 DEF Message
    <3>4. \A s \in n + 1 .. n + size : \E m \in reply : m.sequence = s
      BY <3>2 DEF Message
    <3> QED BY <3>3, <3>4
  <2> HIDE DEF reply
  <2>4. \A m \in messages : m.conversation = c => m.sequence \in 1..n
    BY <1>2 DEF IInv, Numbered
  <2>5. TypeOK'
    BY <1>1, <1>4, <2>1, <2>2, <2>3 DEF IInv, TypeOK, Rows, Finish
  <2>6. RequestsTyped' /\ RequestsInStep' /\ RowsHeld' /\ TurnsHeld'
    BY <1>1, <1>2, <1>4, <2>1, <2>2, OthersKeep
  <2>7. Numbered'
    <3>2. \A m \in messages' : conversations'[m.conversation].status # "deleted" =>
             m.sequence \in 1..conversations'[m.conversation].count
      BY <1>2, <1>4, <2>1, <2>3, <2>4 DEF IInv, Numbered, TypeOK
    <3>3. \A d \in Conversations : conversations'[d].status # "deleted" =>
             \A s \in 1..conversations'[d].count : \E m \in messages' :
                m.conversation = d /\ m.sequence = s
      <4>1. \A s \in 1..n : \E m \in messages' : m.conversation = c /\ m.sequence = s
        BY <1>2, <1>4 DEF IInv, Numbered
      <4>2. \A s \in n + 1 .. n + size : \E m \in messages' : m.conversation = c /\ m.sequence = s
        BY <1>4, <2>3
      <4>3. 1..n + size = 1..n \cup (n + 1 .. n + size)
        BY <1>2
      <4> QED BY <1>4, <2>1, <4>1, <4>2, <4>3 DEF IInv, Numbered
    <3>4. \A m, o \in messages' :
             m.conversation = o.conversation /\ m.sequence = o.sequence => m = o
      BY <1>2, <1>4, <2>3, <2>4 DEF IInv, Numbered
    <3> QED BY <3>2, <3>3, <3>4 DEF Numbered
  <2>8. Prompted'
    <3>1. \A m \in messages : m.turn = t => m.conversation = c
      BY <1>2 DEF IInv, Prompted
    <3>2. \A p \in messages, m \in reply : p.turn = t => p.sequence < m.sequence
      BY <1>2, <2>3, <2>4, <3>1
    <3>3. \A m \in messages' : turns'[m.turn].conversation = m.conversation
      BY <1>2, <1>4, <2>2, <2>3, <3>1 DEF IInv, Prompted, TypeOK
    <3>4. \A m \in messages' : m.role = "assistant" => turns'[m.turn].status = "completed"
      BY <1>2, <1>4, <2>2, <2>3 DEF IInv, Prompted, TypeOK
    <3>5. \A p, m \in messages' : p.role = "user" /\ m.role = "assistant" /\ p.turn = m.turn =>
             p.sequence < m.sequence
      BY <1>4, <2>3, <3>2 DEF IInv, Prompted
    <3>6. \A p, q \in messages' : p.role = "user" /\ q.role = "user" /\ p.turn = q.turn => p = q
      BY <1>4, <2>3 DEF IInv, Prompted
    <3>7. \A u \in Turns : turns'[u] # NoTurn => \E p \in messages' : p.turn = u /\ p.role = "user"
      BY <1>2, <1>4, <2>2 DEF IInv, Prompted
    <3> QED BY <3>3, <3>4, <3>5, <3>6, <3>7 DEF Prompted
  <2>9. DeletedIsEmpty'
    BY <1>1, <1>2, <1>4, <2>1, <2>2, <2>3 DEF IInv, DeletedIsEmpty, Of
  <2> QED BY <2>5, <2>6, <2>7, <2>8, <2>9 DEF IInv
<1> QED BY <1>3, <1>4 DEF CommitComplete

\* delete_local_content
LEMMA DeleteKeepsIInv ==
    ASSUME IInv, NEW k \in Clients, CommitDelete(k)
    PROVE  IInv'
<1> DEFINE c == requests[k].conversation
<1>1. requests[k].step = "commit" /\ Finish(k) /\ Written(k, "deleted", 0)
  BY DEF CommitDelete, Committing
<1>2. /\ messages' = {m \in messages : m.conversation # c}
      /\ turns' = [t \in Turns |-> IF turns[t].conversation = c THEN NoTurn ELSE turns[t]]
      /\ runtimes' = [runtimes EXCEPT ![c] = None]
  BY DEF CommitDelete
<1>3. /\ c \in Conversations
      /\ conversations' \in [Conversations -> Rows]
      /\ conversations'[c].status = "deleted"
      /\ \A d \in Conversations : d # c => conversations'[d] = conversations[d]
  BY <1>1, Held, RowFits
<1>4. \A t \in Turns : /\ turns[t].conversation = c => turns'[t] = NoTurn
                       /\ turns[t].conversation # c => turns'[t] = turns[t]
  BY <1>2
<1>5. TypeOK'
  <2>1. runtimes' \in [Conversations -> Threads \cup {None}]
        /\ \A d, e \in Conversations : runtimes'[d] = runtimes'[e] => d = e \/ runtimes'[d] = None
    BY <1>2, <1>3 DEF IInv, TypeOK
  <2>2. turns' \in [Turns -> [conversation : Conversations, status : {"reserved"} \cup Terminal,
             prompt : Prompts] \cup {NoTurn}]
    BY <1>2 DEF IInv, TypeOK
  <2>3. messages' \subseteq messages
    BY <1>2
  <2>4. \A d \in Clients : requests'[d] = Idle \/ requests'[d] = requests[d]
    BY <1>1 DEF Finish, IInv, RequestsTyped
  <2> QED BY <1>3, <2>1, <2>2, <2>3, <2>4 DEF IInv, TypeOK, Rows
<1>6. RequestsTyped' /\ RequestsInStep' /\ RowsHeld' /\ TurnsHeld'
  BY <1>1, <1>3, <1>4, OthersKeep
<1>7. Numbered'
  BY <1>2, <1>3 DEF IInv, Numbered, TypeOK
<1>8. Prompted'
  <2>1. \A t \in Turns : turns'[t] # NoTurn =>
           turns'[t] = turns[t] /\ \E p \in messages' : p.turn = t /\ p.role = "user"
    BY <1>2, <1>4 DEF IInv, Prompted
  <2>2. \A m \in messages' : turns'[m.turn] = turns[m.turn]
    BY <1>2, <1>4 DEF IInv, Prompted, TypeOK
  <2> QED BY <1>2, <2>1, <2>2 DEF IInv, Prompted
<1>9. DeletedIsEmpty'
  BY <1>2, <1>3, <1>4, NoneAssumption DEF IInv, DeletedIsEmpty, Of, NoTurn, TypeOK
<1> QED BY <1>5, <1>6, <1>7, <1>8, <1>9 DEF IInv

\* A new conversation has no messages, no turns and no thread.
LEMMA CreateKeepsIInv ==
    ASSUME IInv, NEW c \in Conversations, Create(c)
    PROVE  IInv'
<1> USE DEF IInv, Create
<1>1. TypeOK'
  BY RepliesAssumption DEF TypeOK
<1>2. RequestsTyped' /\ RequestsInStep' /\ TurnsHeld'
  BY DEF RequestsTyped, RequestsInStep, TurnsHeld
<1>3. RowsHeld'
  BY DEF RowsHeld, Absent, TypeOK
<1>4. Numbered'
  BY DEF Numbered, Absent, TypeOK
<1>5. Prompted' /\ DeletedIsEmpty'
  BY DEF Prompted, DeletedIsEmpty, Of, TypeOK
<1> QED BY <1>1, <1>2, <1>3, <1>4, <1>5

-----------------------------------------------------------------------------
(* The theorems *)

\* The empty tables of a new database.
LEMMA InitIInv == Init => IInv
<1> SUFFICES ASSUME Init PROVE IInv
  OBVIOUS
<1> USE NoneAssumption DEF Init
<1>1. TypeOK
  BY DEF TypeOK
<1>2. RequestsTyped /\ RequestsInStep
  BY DEF RequestsTyped, RequestsInStep, Requests, Rows, Values, Idle, Ending
<1>3. RowsHeld /\ TurnsHeld
  BY DEF RowsHeld, TurnsHeld, Idle
<1>4. Numbered /\ Prompted /\ DeletedIsEmpty
  BY DEF Numbered, Prompted, DeletedIsEmpty, Of, Absent, NoTurn
<1> QED BY <1>1, <1>2, <1>3, <1>4 DEF IInv

\* Every statement of every request, and every commit.
LEMMA StepIInv == ASSUME RowLocks PROVE IInv /\ [Next]_vars => IInv'
<1> SUFFICES ASSUME IInv, [Next]_vars PROVE IInv'
  OBVIOUS
<1>1. CASE UNCHANGED vars
  BY <1>1 DEF vars, IInv, TypeOK, RequestsTyped, RequestsInStep, RowsHeld, TurnsHeld,
     Numbered,
     Prompted, DeletedIsEmpty, Of
<1>2. CASE \E c \in Conversations : Create(c)
  BY <1>2, CreateKeepsIInv
<1>3. ASSUME NEW k \in Clients,
             \/ \E c \in Conversations :
                \/ \E t \in Turns, prompt \in Prompts : Reserve(k, c, t, prompt)
                \/ \E task \in {"rename", "archive", "restore"} : Update(k, c, task)
                \/ Delete(k, c)
                \/ \E thread \in Threads : Bind(k, c, thread)
                \/ \E t \in Turns :
                      \/ \E reply \in Replies : End(k, c, t, "complete", reply)
                      \/ \E task \in {"interrupted", "failed"} : End(k, c, t, task, None)
      PROVE  IInv'
  BY <1>3, BeginningsKeepIInv
<1>4. ASSUME NEW k \in Clients, LockForReserve(k) \/ ReadRuntime(k) \/ LockTurn(k) \/ Rollback(k)
      PROVE  IInv'
  BY <1>4, LocksKeepIInv
<1>5. ASSUME NEW k \in Clients, CommitReserve(k) \/ CommitComplete(k) \/ CommitFail(k)
                                \/ CommitUpdate(k) \/ CommitDelete(k) \/ CommitBind(k)
      PROVE  IInv'
  BY <1>5, ReserveKeepsIInv, CompleteKeepsIInv, FailKeepsIInv, UpdateKeepsIInv,
     DeleteKeepsIInv, BindKeepsIInv
<1> QED BY <1>1, <1>2, <1>3, <1>4, <1>5 DEF Next

\* Under row locks every reachable state of the tables and the requests is sound: the locked
\* row is the stored one until its request ends (lock_conversation).
THEOREM Invariance == ASSUME RowLocks PROVE Spec => []IInv
  BY InitIInv, StepIInv, PTL DEF Spec

\* How many places there are.
LEMMA FirstNumbers ==
    ASSUME NEW n \in Nat
    PROVE  IsFiniteSet(1..n) /\ Cardinality(1..n) = n
<1>1. /\ IsFiniteSet(1..n)
      /\ Cardinality(1..n) = IF 1 > n THEN 0 ELSE n - 1 + 1
  BY FS_Interval
<1> QED BY <1>1

\* As many messages as places.
LEMMA Counted ==
    ASSUME IInv, NEW c \in Conversations, conversations[c].status # "deleted"
    PROVE  /\ {m.sequence : m \in Of(c)} = 1..conversations[c].count
           /\ Cardinality(Of(c)) = conversations[c].count
<1> DEFINE n == conversations[c].count
           place == [s \in 1..n |-> CHOOSE m \in Of(c) : m.sequence = s]
<1>1. n \in Nat
  BY DEF IInv, TypeOK, Absent
<1>2. \A m \in Of(c) : m.sequence \in 1..n
  BY DEF IInv, Numbered, Of
<1>3. \A s \in 1..n : \E m \in Of(c) : m.sequence = s
  BY DEF IInv, Numbered, Of
<1>4. \A m, o \in Of(c) : m.sequence = o.sequence => m = o
  BY DEF IInv, Numbered, Of
<1>5. {m.sequence : m \in Of(c)} = 1..n
  BY <1>2, <1>3
<1>6. \A s \in 1..n : place[s] \in Of(c) /\ place[s].sequence = s
  BY <1>3
<1>7. place \in Bijection(1..n, Of(c))
  <2>1. place \in [1..n -> Of(c)]
    BY <1>6
  <2> HIDE DEF place
  <2>2. \A m \in Of(c) : \E s \in 1..n : place[s] = m
    BY <1>2, <1>4, <1>6
  <2>3. \A s, r \in 1..n : place[s] = place[r] => s = r
    BY <1>6
  <2> QED BY <2>1, <2>2, <2>3 DEF Bijection, Injection, Surjection, IsInjective
<1>8. IsFiniteSet(1..n) /\ Cardinality(1..n) = n
  BY <1>1, FirstNumbers
<1>9. ExistsBijection(1..n, Of(c))
  BY <1>7 DEF ExistsBijection
<1> HIDE DEF n
<1>10. Cardinality(Of(c)) = Cardinality(1..n)
  BY <1>8, <1>9, FS_Bijection
<1> QED BY <1>5, <1>8, <1>10 DEF n

\* Under row locks the messages of a conversation are numbered without gaps, each turn has
\* its prompt once and answers only after it is completed, and a deleted conversation has
\* nothing left, however requests overlap (reserve_turn, complete_turn, fail_turn,
\* delete_local_content).
THEOREM TranscriptAgrees == ASSUME RowLocks PROVE Spec => []TranscriptMatchesTurns
<1>1. IInv => TranscriptContiguous
  BY Counted DEF TranscriptContiguous, IInv
<1>2. IInv => TurnsMatchMessages
  <2> SUFFICES ASSUME IInv, NEW t \in Turns
               PROVE  LET own == {m \in messages : m.turn = t}
                          prompts == {m \in own : m.role = "user"}
                      IN  /\ turns[t] = NoTurn => own = {}
                          /\ turns[t] # NoTurn =>
                                /\ Cardinality(prompts) = 1
                                /\ own # prompts => turns[t].status = "completed"
                                /\ \A m \in own : m.conversation = turns[t].conversation
                                /\ \A p \in prompts, m \in own \ prompts : p.sequence < m.sequence
    BY DEF TurnsMatchMessages
  <2> DEFINE own == {m \in messages : m.turn = t}
             prompts == {m \in own : m.role = "user"}
  <2>1. turns[t] = NoTurn => own = {}
    BY NoneAssumption DEF IInv, Prompted, TypeOK, NoTurn
  <2>2. \A m \in own \ prompts : m.role = "assistant"
    BY DEF IInv, TypeOK
  <2>3. ASSUME turns[t] # NoTurn PROVE Cardinality(prompts) = 1
    <3>1. \E p \in messages : p.turn = t /\ p.role = "user"
      BY <2>3 DEF IInv, Prompted
    <3>2. PICK p \in messages : p.turn = t /\ p.role = "user"
      BY <3>1
    <3>3. prompts = {p}
      BY <3>2 DEF IInv, Prompted
    <3> HIDE DEF prompts
    <3> QED BY <3>3, FS_Singleton
  <2>4. own # prompts => turns[t].status = "completed"
    BY <2>2 DEF IInv, Prompted
  <2>5. \A m \in own : m.conversation = turns[t].conversation
    BY DEF IInv, Prompted
  <2>6. \A p \in prompts, m \in own \ prompts : p.sequence < m.sequence
    BY <2>2 DEF IInv, Prompted
  <2> QED BY <2>1, <2>3, <2>4, <2>5, <2>6
<1>3. IInv => TranscriptMatchesTurns
  BY <1>1, <1>2 DEF TranscriptMatchesTurns, IInv
<1> QED BY <1>3, Invariance, PTL

\* Under row locks an ended turn keeps its status until its conversation is deleted,
\* whichever of completion, failure and interruption comes late (complete_turn, fail_turn).
THEOREM TurnEndsOnce == ASSUME RowLocks PROVE Spec => EndedOnce
<1> DEFINE Stands(t) == \/ turns'[t] = turns[t]
                        \/ turns'[t] = NoTurn
                              /\ conversations'[turns[t].conversation].status = "deleted"
<1>1. ASSUME IInv, [Next]_vars, NEW t \in Turns, turns[t].status \in Terminal PROVE Stands(t)
  <2>1. CASE UNCHANGED turns
    BY <2>1
  <2>2. ASSUME NEW k \in Clients, CommitReserve(k) PROVE Stands(t)
    <3>1. turns[t] # NoTurn
      BY <1>1 DEF NoTurn, Terminal
    <3> QED BY <1>1, <2>2, <3>1 DEF CommitReserve, IInv, TypeOK
  <2>3. ASSUME NEW k \in Clients, CommitComplete(k) \/ CommitFail(k) PROVE Stands(t)
    <3>1. requests[k].step = "commit" /\ requests[k].task \in Ending
      BY <2>3 DEF CommitComplete, CommitFail, Committing, Ending
    <3>2. turns[requests[k].turn].status = "reserved"
      BY <1>1, <3>1 DEF IInv, TurnsHeld
    <3>3. requests[k].turn # t
      BY <1>1, <3>2 DEF Terminal
    <3> QED BY <1>1, <2>3, <3>3 DEF CommitComplete, CommitFail, IInv, TypeOK
  <2>4. ASSUME NEW k \in Clients, CommitDelete(k) PROVE Stands(t)
    <3>1. requests[k].step = "commit" /\ Written(k, "deleted", 0)
      BY <2>4 DEF CommitDelete, Committing
    <3>2. conversations'[requests[k].conversation].status = "deleted"
      BY <1>1, <3>1, RowFits
    <3> QED BY <2>4, <3>2 DEF CommitDelete
  <2>5. ASSUME NEW k \in Clients, NEW c \in Conversations,
                \/ \E u \in Turns, prompt \in Prompts : Reserve(k, c, u, prompt)
                \/ \E task \in {"rename", "archive", "restore"} : Update(k, c, task)
                \/ Delete(k, c)
                \/ \E thread \in Threads : Bind(k, c, thread)
                \/ \E u \in Turns :
                      \/ \E reply \in Replies : End(k, c, u, "complete", reply)
                      \/ \E task \in {"interrupted", "failed"} : End(k, c, u, task, None)
        PROVE  UNCHANGED turns
    BY <2>5 DEF tables, Begin, Reserve, Update, Delete, Bind, End
  <2>6. ASSUME NEW k \in Clients, \/ LockForReserve(k) \/ ReadRuntime(k) \/ LockTurn(k)
                                  \/ CommitUpdate(k) \/ CommitBind(k) \/ Rollback(k)
        PROVE  UNCHANGED turns
    BY <2>6 DEF tables, LockForReserve, ReadRuntime, LockTurn, CommitUpdate, CommitBind,
       Rollback
  <2>7. ASSUME NEW c \in Conversations, Create(c) PROVE UNCHANGED turns
    BY <2>7 DEF Create
  <2>8. UNCHANGED vars => UNCHANGED turns
    BY DEF vars
  <2> HIDE DEF Stands
  <2> QED BY <1>1, <2>1, <2>2, <2>3, <2>4, <2>5, <2>6, <2>7, <2>8 DEF Next
<1>2. IInv /\ [Next]_vars => [\A t \in Turns : turns[t].status \in Terminal => Stands(t)]_vars
  BY <1>1
<1> QED BY <1>2, Invariance, PTL DEF Spec, EndedOnce
=============================================================================
