------------------------- MODULE ConversationHistory -------------------------
(***************************************************************************)
(* The local history of the assistant's conversations, as                  *)
(* AssistantConversationService of the API keeps it (apps/api,             *)
(* services/assistant_conversations.py): conversations, their messages,    *)
(* the ledger of turns and the binding to the provider's thread.           *)
(*                                                                         *)
(* Requests come from the agent host (reserve, complete and fail a turn,   *)
(* bind a thread) and from the owner (rename, archive, restore, delete).   *)
(* Each SELECT of a request is a step, and its writes with the commit are  *)
(* one.  The conversation is read FOR UPDATE.  PostgreSQL locks it until   *)
(* the transaction ends; SQLite has no such clause and starts the          *)
(* transaction at the first write, so the row read is an unprotected copy. *)
(* RowLocks says which of the two is meant.                                *)
(*                                                                         *)
(* Titles, timestamps, texts and the audit events are left out.  A change  *)
(* of the title is a new version.  A reply is its number of messages.      *)
(***************************************************************************)
EXTENDS Integers, FiniteSets

CONSTANTS
    Clients,            \* concurrent requests
    Conversations,      \* public ids, uuid4
    Turns,              \* turn ids, made by the web app
    Prompts, Threads,
    Replies,            \* how many messages a reply has
    MaxVersion,         \* bound on the number of changes of a conversation
    RowLocks,           \* does FOR UPDATE lock the row it reads?
    None

ASSUME RowLocksAssumption == RowLocks \in BOOLEAN
ASSUME RepliesAssumption == Replies \subseteq Nat /\ MaxVersion \in Nat
ASSUME NoneAssumption == None \notin Threads \cup Conversations \cup Turns

VARIABLES
    conversations,      \* [version, status, count]: count is the message_count
    messages,           \* rows [conversation, turn, sequence, role]
    turns,              \* rows of assistant_turns by public id
    runtimes,           \* the provider thread bound to a conversation
    requests            \* each client's request: where it stands, what it has read

vars == <<conversations, messages, turns, runtimes, requests>>
tables == <<conversations, messages, turns, runtimes>>

-----------------------------------------------------------------------------
Absent == [version |-> 0, status |-> "none", count |-> 0]
NoTurn == [conversation |-> None, status |-> "none", prompt |-> None]

Terminal == {"completed", "interrupted", "failed"}
Tasks == {"reserve", "complete", "interrupted", "failed", "rename", "archive", "restore",
          "delete", "bind"}

Idle == [step |-> "idle", task |-> "none", conversation |-> None, turn |-> None,
         value |-> None, row |-> Absent]

Init ==
    /\ conversations = [c \in Conversations |-> Absent]
    /\ messages = {}
    /\ turns = [t \in Turns |-> NoTurn]
    /\ runtimes = [c \in Conversations |-> None]
    /\ requests = [k \in Clients |-> Idle]

Goto(k, step) == requests' = [requests EXCEPT ![k].step = step]

\* The end of a request: after its commit, or with a rollback.
Finish(k) == requests' = [requests EXCEPT ![k] = Idle]

\* An error, a lost connection or a crash of the API ends a request at any await.
Rollback(k) ==
    /\ requests[k] # Idle
    /\ Finish(k)
    /\ UNCHANGED tables

-----------------------------------------------------------------------------
(* The reads.                                                              *)

\* The conversation a request has read FOR UPDATE.
Holds(k, c) == requests[k].row # Absent /\ requests[k].conversation = c

\* Mutation of Free: the SELECT has no FOR UPDATE.
Free_Unlocked(k, c) == TRUE

Free(k, c) == RowLocks => \A d \in Clients \ {k} : ~Holds(d, c)

\* lock_conversation finds it.
Lockable(k, c) ==
    /\ Free(k, c)
    /\ conversations[c].status \in {"active", "archived"}
    /\ conversations[c].version < MaxVersion

Begin(k, step, task, c, t, value, row) ==
    /\ requests[k] = Idle
    /\ requests' = [requests EXCEPT ![k] =
          [step |-> step, task |-> task, conversation |-> c, turn |-> t, value |-> value,
           row |-> row]]
    /\ UNCHANGED tables

Create(c) ==
    /\ conversations[c] = Absent
    /\ conversations' = [conversations EXCEPT ![c] =
          [version |-> 1, status |-> "active", count |-> 0]]
    /\ UNCHANGED <<messages, turns, runtimes, requests>>

\* reserve_turn looks for the turn before it locks the conversation.  A repeated
\* request is answered from the row it finds and changes nothing.
Reserve(k, c, t, prompt) ==
    /\ conversations[c] # Absent
    /\ turns[t] = NoTurn
    /\ Begin(k, "lock", "reserve", c, t, prompt, Absent)

LockForReserve(k) ==
    LET c == requests[k].conversation IN
    /\ requests[k].step = "lock"
    /\ Lockable(k, c)
    /\ IF conversations[c].status = "active"
       THEN requests' = [requests EXCEPT ![k].row = conversations[c], ![k].step = "commit"]
       ELSE Finish(k)
    /\ UNCHANGED tables

\* update: the expected version is the one just locked, and something changes.
Update(k, c, task) ==
    /\ Lockable(k, c)
    /\ task = "archive" => conversations[c].status = "active"
    /\ task = "restore" => conversations[c].status = "archived"
    /\ Begin(k, "commit", task, c, None, None, conversations[c])

\* Only the writes of delete_local_content are one: its DELETEs run in one transaction.
Delete(k, c) ==
    /\ Lockable(k, c)
    /\ Begin(k, "commit", "delete", c, None, None, conversations[c])

Bind(k, c, thread) ==
    /\ Lockable(k, c)
    /\ Begin(k, "read_runtime", "bind", c, None, thread, conversations[c])

\* A conversation keeps its thread, and a thread its conversation.
ReadRuntime(k) ==
    LET r == requests[k] IN
    /\ r.step = "read_runtime"
    /\ IF runtimes[r.conversation] = None /\ \A c \in Conversations : runtimes[c] # r.value
       THEN Goto(k, "commit")
       ELSE Finish(k)
    /\ UNCHANGED tables

\* complete_turn and fail_turn, the latter to the status that names the task.
End(k, c, t, task, reply) ==
    /\ Lockable(k, c)
    /\ Begin(k, "lock_turn", task, c, t, reply, conversations[c])

\* Mutation of Ends: only a completed turn refuses to be ended again.
Ends_NotCompleted(t, task) ==
    turns[t].status \notin (IF task = "complete" THEN {"completed"} ELSE Terminal)

\* A turn that has ended is not ended again: the answer is as before or a refusal.
Ends(t, task) == turns[t].status \notin Terminal

LockTurn(k) ==
    LET r == requests[k] IN
    /\ r.step = "lock_turn"
    /\ IF turns[r.turn].conversation = r.conversation /\ Ends(r.turn, r.task)
       THEN Goto(k, "commit")
       ELSE Finish(k)
    /\ UNCHANGED tables

-----------------------------------------------------------------------------
(* The writes and the commit.                                              *)

\* The UPDATE statement names the columns the transaction changed, and always the
\* version.
Written(k, status, count) ==
    LET r == requests[k]
        stored == conversations[r.conversation]
    IN  conversations' = [conversations EXCEPT ![r.conversation] =
           [version |-> r.row.version + 1,
            status  |-> IF status # r.row.status THEN status ELSE stored.status,
            count   |-> IF count # r.row.count THEN count ELSE stored.count]]

Committing(k, tasks) == requests[k].step = "commit" /\ requests[k].task \in tasks

Message(c, t, sequence, role) ==
    [conversation |-> c, turn |-> t, sequence |-> sequence, role |-> role]

\* uq_assistant_messages_conversation_sequence
SequenceFree(c, sequences) ==
    \A m \in messages : m.conversation = c => m.sequence \notin sequences

\* The unique constraints roll back the second of two reservations of a turn, or of
\* a place in the transcript.
CommitReserve(k) ==
    LET r == requests[k]
        c == r.conversation
    IN
    /\ Committing(k, {"reserve"})
    /\ IF SequenceFree(c, {r.row.count + 1}) /\ turns[r.turn] = NoTurn
       THEN /\ messages' = messages \cup {Message(c, r.turn, r.row.count + 1, "user")}
            /\ turns' = [turns EXCEPT ![r.turn] =
                  [conversation |-> c, status |-> "reserved", prompt |-> r.value]]
            /\ Written(k, r.row.status, r.row.count + 1)
       ELSE UNCHANGED <<conversations, messages, turns>>
    /\ Finish(k)
    /\ UNCHANGED <<runtimes>>

\* Ending a turn whose row a deletion has taken away is rolled back.
CommitComplete(k) ==
    LET r == requests[k]
        c == r.conversation
        places == r.row.count + 1 .. r.row.count + r.value
    IN
    /\ Committing(k, {"complete"})
    /\ IF SequenceFree(c, places) /\ turns[r.turn] # NoTurn
       THEN /\ messages' = messages \cup {Message(c, r.turn, s, "assistant") : s \in places}
            /\ turns' = [turns EXCEPT ![r.turn].status = "completed"]
            /\ Written(k, r.row.status, r.row.count + r.value)
       ELSE UNCHANGED <<conversations, messages, turns>>
    /\ Finish(k)
    /\ UNCHANGED <<runtimes>>

CommitFail(k) ==
    LET r == requests[k] IN
    /\ Committing(k, {"interrupted", "failed"})
    /\ IF turns[r.turn] # NoTurn
       THEN /\ turns' = [turns EXCEPT ![r.turn].status = r.task]
            /\ Written(k, r.row.status, r.row.count)
       ELSE UNCHANGED <<conversations, turns>>
    /\ Finish(k)
    /\ UNCHANGED <<messages, runtimes>>

StatusAfter(task, status) ==
    CASE task = "archive" -> "archived"
      [] task = "restore" -> "active"
      [] OTHER            -> status

CommitUpdate(k) ==
    /\ Committing(k, {"rename", "archive", "restore"})
    /\ Written(k, StatusAfter(requests[k].task, requests[k].row.status), requests[k].row.count)
    /\ Finish(k)
    /\ UNCHANGED <<messages, turns, runtimes>>

\* delete_local_content
CommitDelete(k) ==
    LET c == requests[k].conversation IN
    /\ Committing(k, {"delete"})
    /\ messages' = {m \in messages : m.conversation # c}
    /\ turns' = [t \in Turns |-> IF turns[t].conversation = c THEN NoTurn ELSE turns[t]]
    /\ runtimes' = [runtimes EXCEPT ![c] = None]
    /\ Written(k, "deleted", 0)
    /\ Finish(k)

\* The primary key and the unique thread stand behind what was read.
CommitBind(k) ==
    LET r == requests[k] IN
    /\ Committing(k, {"bind"})
    /\ runtimes' = IF /\ runtimes[r.conversation] = None
                      /\ \A c \in Conversations : runtimes[c] # r.value
                   THEN [runtimes EXCEPT ![r.conversation] = r.value]
                   ELSE runtimes
    /\ Finish(k)
    /\ UNCHANGED <<conversations, messages, turns>>

Next ==
    \/ \E c \in Conversations : Create(c)
    \/ \E k \in Clients :
          \/ \E c \in Conversations :
                \/ \E t \in Turns, prompt \in Prompts : Reserve(k, c, t, prompt)
                \/ \E task \in {"rename", "archive", "restore"} : Update(k, c, task)
                \/ Delete(k, c)
                \/ \E thread \in Threads : Bind(k, c, thread)
                \/ \E t \in Turns :
                      \/ \E reply \in Replies : End(k, c, t, "complete", reply)
                      \/ \E task \in {"interrupted", "failed"} : End(k, c, t, task, None)
          \/ LockForReserve(k)
          \/ ReadRuntime(k)
          \/ LockTurn(k)
          \/ CommitReserve(k)
          \/ CommitComplete(k)
          \/ CommitFail(k)
          \/ CommitUpdate(k)
          \/ CommitDelete(k)
          \/ CommitBind(k)
          \/ Rollback(k)

Spec == Init /\ [][Next]_vars

-----------------------------------------------------------------------------
\* Rows have their columns' types, and no two conversations share a thread.
TypeOK ==
    /\ conversations \in [Conversations ->
          [version : 1..MaxVersion + 1, status : {"active", "archived", "deleted"}, count : Nat]
             \cup {Absent}]
    /\ messages \subseteq [conversation : Conversations, turn : Turns, sequence : Nat \ {0},
                           role : {"user", "assistant"}]
    /\ turns \in [Turns ->
          [conversation : Conversations, status : {"reserved"} \cup Terminal,
           prompt : Prompts] \cup {NoTurn}]
    /\ runtimes \in [Conversations -> Threads \cup {None}]
    /\ \A c, d \in Conversations : runtimes[c] = runtimes[d] => c = d \/ runtimes[c] = None
    /\ \A k \in Clients : requests[k] = Idle
          \/ /\ requests[k].task \in Tasks
             /\ requests[k].step \in {"lock", "lock_turn", "read_runtime", "commit"}

Of(c) == {m \in messages : m.conversation = c}

\* The transcript of a conversation has no gap and no place twice: its messages are
\* numbered from 1 to its message count.
TranscriptContiguous ==
    /\ TypeOK
    /\ \A c \in Conversations : conversations[c].status # "deleted" =>
           /\ {m.sequence : m \in Of(c)} = 1..conversations[c].count
           /\ Cardinality(Of(c)) = conversations[c].count

\* The turn ledger and the messages agree: a turn has its prompt in its conversation
\* once, and messages of the assistant only after it and only if it was completed;
\* a retried, failed or late request adds nothing.
TurnsMatchMessages ==
    \A t \in Turns :
       LET own == {m \in messages : m.turn = t}
           prompts == {m \in own : m.role = "user"}
       IN  /\ turns[t] = NoTurn => own = {}
           /\ turns[t] # NoTurn =>
                 /\ Cardinality(prompts) = 1
                 /\ own # prompts => turns[t].status = "completed"
                 /\ \A m \in own : m.conversation = turns[t].conversation
                 /\ \A p \in prompts, m \in own \ prompts : p.sequence < m.sequence

\* Deletion leaves a tombstone without content (ADR 0013), and nothing that was
\* under way at the time puts content back.
DeletedIsEmpty ==
    \A c \in Conversations : conversations[c].status = "deleted" =>
        /\ Of(c) = {}
        /\ \A t \in Turns : turns[t].conversation # c
        /\ runtimes[c] = None

\* The transcript is what the turns made of it, whatever reservations, completions
\* failures and the deletion of one conversation overlap.
TranscriptMatchesTurns == TranscriptContiguous /\ TurnsMatchMessages /\ DeletedIsEmpty

\* A turn ends once: neither its status nor its messages change again, whichever of
\* completion, failure and interruption comes late, until its conversation is deleted.
EndedOnce ==
    [][ \A t \in Turns :
          turns[t].status \in Terminal =>
             \/ turns'[t] = turns[t]
             \/ turns'[t] = NoTurn /\ conversations'[turns[t].conversation].status = "deleted"
      ]_vars

=============================================================================
