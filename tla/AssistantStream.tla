--------------------------- MODULE AssistantStream ---------------------------
(***************************************************************************)
(* An answer on its way to the owner: the projector that cuts the          *)
(* provider's deltas into numbered chunks (finance-chat-stream.ts), the    *)
(* gateway that numbers, keeps and replays events (finance-gateway.ts),    *)
(* and the page that puts the message together again                       *)
(* (apps/web/src/components/finance-assistant.tsx).                        *)
(*                                                                         *)
(* One page, one session and one conversation.  A chunk is the triple of   *)
(* its turn, its message and its sequence number; a digest is the text it  *)
(* was made from.  What the service does around a turn is here as far as   *)
(* the page sees it; AgentService has the rest.  The connection can be     *)
(* cut at any moment, and answers to the page's own requests travel on     *)
(* another connection than the events.                                     *)
(***************************************************************************)
EXTENDS Integers, Sequences, FiniteSets

CONSTANTS
    MaxTurns,        \* turns the page asks for
    MaxMessages,     \* MAX_ASSISTANT_MESSAGES_PER_TURN
    MaxChunks,       \* chunks MAX_ASSISTANT_MESSAGE_BYTES has room for
    ReplayLimit,     \* events MAX_GATEWAY_REPLAY_BYTES has room for
    MaxEvents,       \* bound on the events of one run
    MaxChanges,      \* bound on the changes and commands that are not about a turn
    MaxReloads       \* bound on the page's reloads

ASSUME LimitsAssumption ==
    /\ {MaxTurns, MaxMessages, MaxChunks, ReplayLimit} \subseteq Nat \ {0}
    /\ {MaxEvents, MaxChanges, MaxReloads} \subseteq Nat

VARIABLES
    turn,            \* the host's turn: id and status, 0 before the first one
    projector,       \* the turn it belongs to (0: none) and its messages
    saving,          \* the completed turn on its way to the API (0: none)
    rows,            \* the API's turns: status and the texts stored with them
    nextEventId,
    replay,          \* the gateway's replay buffer
    connection,      \* the page's event stream, as the gateway left it
    wire,            \* its frames that the page has not seen
    request,         \* the turn the page has asked for and the host not begun
    answer,          \* the snapshot on its way back to the page, or Error
    page,            \* what the page holds
    changes,         \* how often OtherChange and Command, and Reload, were taken
    reloads,
    skipped,         \* a replay began after events that were already dropped
    overtaken        \* the page's snapshot came with an answer, not an event

hostVars == <<turn, projector, saving, rows>>
gatewayVars == <<nextEventId, replay, connection, wire>>
bounds == <<changes, reloads>>
history == <<skipped, overtaken>>
vars == <<hostVars, gatewayVars, request, answer, page, bounds, history>>

TurnIds == 1..MaxTurns
Keys == TurnIds \X (1..MaxMessages)
NoTurn == [id |-> 0, status |-> "none"]
NoProjector == [turn |-> 0, messages |-> <<>>]
NotSaving == [turn |-> 0, texts |-> <<>>, shown |-> FALSE]
NoCursor == -1
Error == [id |-> 0, status |-> "error"]
NoAnswer == [id |-> 0, status |-> "no answer"]

IsTurnActive(t) == t.status \in {"starting", "running"}

\* The chunks from..to of message m of turn t, and its whole text of n chunks.
Chunks(t, m, from, to) == [i \in 1..(to - from) |-> <<t, m, from + i - 1>>]
Text(t, m, n) == Chunks(t, m, 0, n)

-----------------------------------------------------------------------------
(* Events, and the gateway's publish().                                    *)

StateChanged(t) == [type |-> "state", turn |-> t]
Started(t, m) == [type |-> "started", key |-> <<t, m>>]
Chunk(c) == [type |-> "chunk", key |-> <<c[1], c[2]>>, chunk |-> c]
Completed(t, m, text) == [type |-> "completed", key |-> <<t, m>>, digest |-> text]

Last(s, n) == SubSeq(s, Len(s) - n + 1, Len(s))
Kept(events) == IF Len(events) <= ReplayLimit THEN events ELSE Last(events, ReplayLimit)

\* Numbers the events, keeps as many as the buffer has room for, and writes them
\* to the page: a write that would have to wait cuts the connection.
Publish(events) ==
    LET numbered == [i \in 1..Len(events) |->
                        [id |-> nextEventId + i - 1, name |-> "finance",
                         event |-> events[i]]]
    IN  /\ nextEventId + Len(events) <= MaxEvents + 1
        /\ nextEventId' = nextEventId + Len(events)
        /\ replay' = Kept(replay \o numbered)
        /\ IF connection = "live"
             THEN \E n \in 0..Len(events) :
                    /\ wire' = wire \o SubSeq(numbered, 1, n)
                    /\ connection' = IF n = Len(events) THEN "live" ELSE "cut"
             ELSE UNCHANGED <<wire, connection>>

-----------------------------------------------------------------------------
(* The host: turns and the projector.                                      *)

\* respondJson answer the request for turn t, unless the page that asked is gone.
Answer(t, a) == answer' = IF page.last = t THEN a ELSE answer

\* The host takes the page's turn up, or refuses it: while another one is active
\* or the session is lost.  A row it has reserved by then stays as it is (see
\* AgentService); no page hears of it.
TurnStart ==
    /\ request # 0 /\ ~IsTurnActive(turn)
    /\ turn' = [id |-> request, status |-> "starting"]
    /\ rows' = [rows EXCEPT ![request].status = "reserved"]
    /\ Publish(<<StateChanged(turn')>>)
    /\ request' = 0
    /\ UNCHANGED <<projector, saving, answer, page, bounds, history>>

TurnRefused ==
    /\ request # 0
    /\ Answer(request, Error)
    /\ request' = 0
    /\ UNCHANGED <<hostVars, gatewayVars, page, bounds, history>>

\* A projector belongs to one turn, and begins without a message.
NewProjector(t) == [turn |-> t, messages |-> <<>>]

\* The provider has the turn: the request of the page is answered.
TurnRunning ==
    /\ turn.status = "starting"
    /\ turn' = [turn EXCEPT !.status = "running"]
    /\ projector' = NewProjector(turn.id)
    /\ Publish(<<StateChanged(turn')>>)
    /\ Answer(turn.id, turn')
    /\ UNCHANGED <<saving, rows, request, page, bounds, history>>

\* failConversationTurn is sent and may be lost, which matters only to texts that
\* are on their way; the first end of a row stands.
RowFails(t) ==
    \E s \in {"failed"} \cup (IF saving.turn = t THEN {"reserved"} ELSE {}) :
        rows' = IF rows[t].status = "reserved"
                  THEN [rows EXCEPT ![t].status = s] ELSE rows

TurnStartFails ==
    /\ turn.status = "starting"
    /\ turn' = [turn EXCEPT !.status = "failed"]
    /\ RowFails(turn.id)
    /\ Publish(<<StateChanged(turn')>>)
    /\ Answer(turn.id, Error)
    /\ UNCHANGED <<projector, saving, request, page, bounds, history>>

\* A crash, a refused delta, an interruption or a revocation ends the turn, and
\* mutes its projector: also the one whose messages are being saved.
TurnFails ==
    /\ turn.status = "running"
    /\ turn' = [turn EXCEPT !.status = "failed"]
    /\ projector' = NoProjector
    /\ saving' = [saving EXCEPT !.shown = FALSE]
    /\ RowFails(turn.id)
    /\ Publish(<<StateChanged(turn')>>)
    /\ UNCHANGED <<request, answer, page, bounds, history>>

Streaming == turn.status = "running" /\ projector.turn = turn.id /\ saving.turn # turn.id

\* #publish refuses what goes beyond the size of a message; the turn then fails.
HasRoom(size, n) == size + n <= MaxChunks

\* receiveDelta: n chunks more of message m, which it may begin.
ReceiveDelta(m, n) ==
    LET known == m \in 1..Len(projector.messages)
        size == IF known THEN projector.messages[m].size ELSE 0
        begun == [size |-> size + n, completed |-> FALSE]
        chunks == Chunks(turn.id, m, size, size + n)
    IN  /\ Streaming /\ HasRoom(size, n)
        /\ m <= Len(projector.messages) + 1
        /\ known => ~projector.messages[m].completed
        /\ projector' = [projector EXCEPT !.messages =
                            IF known THEN [@ EXCEPT ![m] = begun] ELSE Append(@, begun)]
        /\ Publish((IF known THEN <<>> ELSE <<Started(turn.id, m)>>)
                   \o [i \in 1..n |-> Chunk(chunks[i])])
        /\ UNCHANGED <<turn, saving, rows, request, answer, page, bounds, history>>

\* completeItem: of a message whose deltas came before, or of one that comes whole.
CompleteItem(m, n) ==
    LET known == m \in 1..Len(projector.messages)
        whole == [size |-> n, completed |-> TRUE]
    IN  /\ Streaming /\ m <= Len(projector.messages) + 1
        /\ known => n = projector.messages[m].size /\ ~projector.messages[m].completed
        /\ projector' = [projector EXCEPT !.messages =
                            IF known THEN [@ EXCEPT ![m] = whole] ELSE Append(@, whole)]
        /\ IF known THEN UNCHANGED gatewayVars
           ELSE Publish(<<Started(turn.id, m)>>
                        \o [i \in 1..n |-> Chunk(<<turn.id, m, i - 1>>)])
        /\ UNCHANGED <<turn, saving, rows, request, answer, page, bounds, history>>

\* publishCompletions, with the digest of each text: nothing when it was muted.
Completions(save) ==
    IF save.shown
      THEN [m \in 1..Len(save.texts) |-> Completed(save.turn, m, save.texts[m])]
      ELSE <<>>

\* The whole text of each message, as the API is asked to store it.
CompleteConversationTurn ==
    [m \in 1..Len(projector.messages) |-> Text(turn.id, m, projector.messages[m].size)]

\* A slip: the completions are published before the API has stored the texts.
FinishTurn_ShowsFirst ==
    /\ Streaming /\ saving = NotSaving
    /\ \A m \in 1..Len(projector.messages) : projector.messages[m].completed
    /\ saving' = [turn |-> turn.id, shown |-> TRUE, texts |-> CompleteConversationTurn]
    /\ Publish(Completions(saving'))
    /\ UNCHANGED <<turn, projector, rows, request, answer, page, bounds, history>>

\* turn/completed: the texts go to the API before anything is shown as complete.
FinishTurn ==
    /\ Streaming /\ saving = NotSaving
    /\ \A m \in 1..Len(projector.messages) : projector.messages[m].completed
    /\ saving' = [turn |-> turn.id, shown |-> TRUE, texts |-> CompleteConversationTurn]
    /\ UNCHANGED <<turn, projector, rows, gatewayVars, request, answer, page, bounds, history>>

Stored == [rows EXCEPT ![saving.turn] = [status |-> "completed", texts |-> saving.texts]]

\* The API's answer comes while its turn or none is active: a newer turn makes
\* turn.finish throw, the host exits (AgentService), and no event follows.
AnswerAccepted == saving.turn # 0 /\ (IsTurnActive(turn) => turn.id = saving.turn)

\* The API has stored the answer.  A turn that ended meanwhile stays as it is.
Saved ==
    /\ AnswerAccepted /\ rows[saving.turn].status = "reserved"
    /\ rows' = Stored
    /\ projector' = NoProjector
    /\ IF IsTurnActive(turn)
         THEN /\ turn' = [turn EXCEPT !.status = "completed"]
              /\ Publish(Completions(saving) \o <<StateChanged(turn')>>)
         ELSE UNCHANGED <<turn, gatewayVars>>
    /\ saving' = NotSaving
    /\ UNCHANGED <<request, answer, page, bounds, history>>

\* The API refused, or its answer was lost after it had stored the texts.
SaveFails ==
    /\ AnswerAccepted
    /\ \/ UNCHANGED rows
       \/ rows[saving.turn].status = "reserved" /\ rows' = Stored
    /\ projector' = NoProjector
    /\ IF IsTurnActive(turn)
         THEN /\ turn' = [turn EXCEPT !.status = "failed"]
              /\ Publish(<<StateChanged(turn')>>)
         ELSE UNCHANGED <<turn, gatewayVars>>
    /\ saving' = NotSaving
    /\ UNCHANGED <<request, answer, page, bounds, history>>

\* The rest of the snapshot changed: consent, provider, models, usage.
OtherChange ==
    /\ changes < MaxChanges /\ changes' = changes + 1
    /\ Publish(<<StateChanged(turn)>>)
    /\ UNCHANGED <<hostVars, request, answer, page, reloads, history>>

-----------------------------------------------------------------------------
(* The page.                                                               *)

WithoutStreams(p, keys) == [k \in DOMAIN p.streams \ keys |-> p.streams[k]]
Put(f, k, v) == [x \in DOMAIN f \cup {k} |-> IF x = k THEN v ELSE f[x]]

\* setMessages(current.map(...)): a message that is not shown is passed over.
Mapped(shown, keys, field, value) ==
    [k \in DOMAIN shown |->
        IF k \in keys THEN [shown[k] EXCEPT ![field] = value] ELSE shown[k]]
Failed(shown, keys) ==
    Mapped(Mapped(shown, keys, "status", "failed"), keys, "text", <<>>)

\* setSnapshot: a turn that is over fails the messages it left unfinished.
WithSnapshot(p, t) ==
    LET open == {k \in DOMAIN p.streams : k[1] = t.id /\ ~IsTurnActive(t)}
    IN  [p EXCEPT !.turn = t, !.streams = WithoutStreams(p, open),
                  !.shown = Failed(@, open)]

\* A message is put together under the name of its turn and its own.
StreamKey(k) == k

OpenStream(p, k) ==
    IF StreamKey(k) \in DOMAIN p.streams THEN p
    ELSE [p EXCEPT !.streams = Put(@, StreamKey(k), <<>>),
                   !.shown = Put(@, StreamKey(k), [status |-> "streaming", text |-> <<>>])]

IsNext(text, chunk) == Len(text) = chunk[3]

TakeChunk(p, k, chunk) ==
    IF StreamKey(k) \notin DOMAIN p.streams THEN p
    ELSE LET text == Append(p.streams[StreamKey(k)], chunk)
         IN  IF ~IsNext(p.streams[StreamKey(k)], chunk) THEN p
             ELSE [p EXCEPT !.streams[StreamKey(k)] = text,
                            !.shown = Mapped(@, {StreamKey(k)}, "text", text)]

\* verifyDigest, after the announced length: a message that differs has failed.
Verified(text, digest) == text = digest

CompleteMessage(p, k, digest) ==
    LET s == StreamKey(k)
        known == s \in DOMAIN p.streams
    IN  IF ~known \/ Len(p.streams[s]) # Len(digest)
          THEN [p EXCEPT !.shown = Failed(@, {s})]
          ELSE [p EXCEPT !.streams = WithoutStreams(p, {s}),
                         !.shown = Mapped(@, {s}, "status",
                            IF Verified(p.streams[s], digest) THEN "complete" ELSE "failed")]

\* The three kinds of message events, by their type and their exact fields.
IsStartedEvent(e) == e.type = "started" /\ DOMAIN e = {"type", "key"}
IsChunkEvent(e) == e.type = "chunk" /\ DOMAIN e = {"type", "key", "chunk"}
IsCompletedEvent(e) == e.type = "completed" /\ DOMAIN e = {"type", "key", "digest"}

\* applyEvent: a message event counts only for the turn of the page's snapshot.
Applied(p, e) ==
    CASE e.type = "state" -> WithSnapshot(p, e.turn)
      [] e.type # "state" /\ e.key[1] # p.turn.id -> p
      [] IsStartedEvent(e) /\ e.key[1] = p.turn.id -> OpenStream(p, e.key)
      [] IsChunkEvent(e) /\ e.key[1] = p.turn.id -> TakeChunk(p, e.key, e.chunk)
      [] IsCompletedEvent(e) /\ e.key[1] = p.turn.id -> CompleteMessage(p, e.key, e.digest)
      [] OTHER -> p

Fresh(t, asked, loading) ==
    [turn |-> t, cursor |-> NoCursor, streams |-> <<>>, shown |-> <<>>,
     asked |-> asked, last |-> 0, working |-> FALSE, loading |-> loading]

\* The page mounts with the host's status, and asks for the stored messages.
Reload ==
    /\ page' = Fresh(turn, page.asked, TRUE)
    /\ connection' = "none" /\ wire' = <<>> /\ answer' = NoAnswer
    /\ skipped' = FALSE /\ overtaken' = FALSE
    /\ reloads < MaxReloads /\ reloads' = reloads + 1
    /\ UNCHANGED <<hostVars, nextEventId, replay, request, changes>>

\* They replace what is shown, also what events have begun to show by then.  Stored
\* messages have names of their own, which no event touches, and are left out here.
MessagesLoaded ==
    /\ page.loading
    /\ page' = [page EXCEPT !.shown = <<>>, !.loading = FALSE]
    /\ UNCHANGED <<hostVars, gatewayVars, request, answer, bounds, history>>

\* GET /v1/events, #subscribe: a page without a cursor, or with one older than the
\* buffer, begins with the current snapshot; the others get what they missed.
NeedsReset_OffByOne(after, first) == after > 0 /\ after < first - 2
NeedsReset(after, first) == after > 0 /\ after < first - 1

\* The numbers ascend: what has one above the cursor is the end of the buffer.
Seen(after) == {i \in 1..Len(replay) : replay[i].id <= after}
Missed_Strict(after) == SubSeq(replay, Cardinality(Seen(after + 1)) + 1, Len(replay))
Missed(after) == SubSeq(replay, Cardinality(Seen(after)) + 1, Len(replay))

\* The web server's proxy hands the browser's cursor on as it is.
LastEventId == page.cursor

Subscribe ==
    LET initial == LastEventId = NoCursor
        after == IF initial THEN 0 ELSE LastEventId
        first == IF replay = <<>> THEN nextEventId ELSE replay[1].id
        reset == initial \/ NeedsReset(after, first)
    IN  /\ connection = "none"
        /\ wire' = IF reset
                     THEN <<[id |-> nextEventId - 1, name |-> "reset",
                             event |-> StateChanged(turn)]>>
                     ELSE Missed(after)
        /\ connection' = "live"
        /\ skipped' = IF reset THEN FALSE ELSE skipped \/ (after = 0 /\ first > 1)
        /\ UNCHANGED <<hostVars, nextEventId, replay, request, answer, page, bounds, overtaken>>

\* The connection ends with what is still on it, and the page connects anew.
Disconnect ==
    /\ connection \in {"live", "cut"}
    /\ connection' = "none" /\ wire' = <<>>
    /\ UNCHANGED <<hostVars, nextEventId, replay, request, answer, page, bounds, history>>

Receive ==
    /\ wire # <<>>
    /\ page' = [Applied(page, Head(wire).event) EXCEPT !.cursor = Head(wire).id]
    /\ wire' = Tail(wire)
    /\ overtaken' = (overtaken /\ Head(wire).event.type # "state")
    /\ UNCHANGED <<hostVars, nextEventId, replay, connection, request, answer, bounds, skipped>>

\* sendPrompt, of a new prompt or of the last one again.
SendPrompt ==
    /\ ~IsTurnActive(page.turn) /\ ~page.working
    /\ page.asked < MaxTurns /\ request = 0
    /\ page' = [page EXCEPT !.asked = @ + 1, !.last = page.asked + 1, !.working = TRUE]
    /\ request' = page.asked + 1
    /\ UNCHANGED <<hostVars, gatewayVars, answer, bounds, history>>

\* Another command of the page, answered with the snapshot the host has then.
Command ==
    /\ ~page.working
    /\ answer' = turn
    /\ page' = [page EXCEPT !.working = TRUE]
    /\ changes < MaxChanges /\ changes' = changes + 1
    /\ UNCHANGED <<hostVars, gatewayVars, request, reloads, history>>

\* runAction: the snapshot of the answer replaces the one the events brought.
ReceiveAnswer ==
    /\ answer # NoAnswer
    /\ answer' = NoAnswer
    /\ page' = [(IF answer = Error THEN page ELSE WithSnapshot(page, answer))
                    EXCEPT !.working = FALSE]
    /\ overtaken' = (overtaken \/ answer # Error)
    /\ UNCHANGED <<hostVars, gatewayVars, request, bounds, skipped>>

-----------------------------------------------------------------------------
Init ==
    /\ turn = NoTurn /\ projector = NoProjector /\ saving = NotSaving
    /\ rows = [t \in TurnIds |-> [status |-> "none", texts |-> <<>>]]
    /\ nextEventId = 1 /\ replay = <<>>
    /\ connection = "none" /\ wire = <<>>
    /\ request = 0 /\ answer = NoAnswer
    /\ skipped = FALSE /\ overtaken = FALSE
    /\ changes = 0 /\ reloads = 0
    /\ page = Fresh(NoTurn, 0, FALSE)

Next ==
    \/ TurnStart \/ TurnRefused \/ TurnRunning \/ TurnStartFails \/ TurnFails
    \/ \E m \in 1..MaxMessages, n \in 1..MaxChunks : ReceiveDelta(m, n)
    \/ \E m \in 1..MaxMessages, n \in 0..MaxChunks : CompleteItem(m, n)
    \/ FinishTurn \/ Saved \/ SaveFails \/ OtherChange
    \/ Reload \/ MessagesLoaded \/ Subscribe \/ Disconnect \/ Receive
    \/ SendPrompt \/ Command \/ ReceiveAnswer

Spec == Init /\ [][Next]_vars

-----------------------------------------------------------------------------
(* What must hold.                                                         *)

Statuses == {"none", "starting", "running", "completed", "failed"}
Turns == [id : 0..MaxTurns, status : Statuses]
ChunkNames == TurnIds \X (1..MaxMessages) \X (0..MaxChunks)
IsText(text) == Len(text) <= MaxChunks /\ \A i \in 1..Len(text) : text[i] \in ChunkNames

TypeOK ==
    /\ turn \in Turns
    /\ projector.turn \in 0..MaxTurns /\ Len(projector.messages) <= MaxMessages
    /\ \A m \in 1..Len(projector.messages) : projector.messages[m].size \in 0..MaxChunks
    /\ saving.turn \in 0..MaxTurns /\ saving.shown \in BOOLEAN
    /\ \A t \in TurnIds :
          /\ rows[t].status \in {"none", "reserved", "completed", "failed"}
          /\ \A m \in 1..Len(rows[t].texts) : IsText(rows[t].texts[m])
    /\ nextEventId \in 1..(MaxEvents + 1)
    /\ Len(replay) <= ReplayLimit
    /\ connection \in {"none", "live", "cut"}
    /\ \A i \in 1..Len(wire) : wire[i].id \in 0..MaxEvents
    /\ request \in 0..MaxTurns
    /\ answer \in Turns \cup {Error, NoAnswer}
    /\ page.turn \in Turns /\ page.cursor \in NoCursor..MaxEvents
    /\ DOMAIN page.streams \subseteq Keys /\ DOMAIN page.shown \subseteq Keys
    /\ \A k \in DOMAIN page.streams : IsText(page.streams[k])
    /\ \A k \in DOMAIN page.shown :
          /\ page.shown[k].status \in {"streaming", "complete", "failed"}
          /\ IsText(page.shown[k].text)
    /\ page.asked \in 0..MaxTurns /\ page.last \in 0..MaxTurns
    /\ {page.working, page.loading, skipped, overtaken} \subseteq BOOLEAN
    /\ changes \in 0..MaxChanges /\ reloads \in 0..MaxReloads

\* What the owner reads of an answer is its beginning, without a gap, a
\* repetition or a piece of another answer, across cut connections and replays.
ShownIsPrefix ==
    \A k \in DOMAIN page.shown :
        page.shown[k].text = Text(k[1], k[2], Len(page.shown[k].text))

\* A message shown as complete is the text that the API has stored (ADR 0013):
\* the completion is not published before, and not for a text that differs.
CompleteIsStored ==
    /\ TypeOK
    /\ \A k \in DOMAIN page.shown :
        page.shown[k].status = "complete" =>
            /\ rows[k[1]].status = "completed"
            /\ k[2] <= Len(rows[k[1]].texts)
            /\ page.shown[k].text = rows[k[1]].texts[k[2]]

\* What the owner reads of an answer is being written to the end or is stored.
ShownIsWritten == ShownIsPrefix /\ CompleteIsStored

FrameTaken ==
    wire # <<>> /\ wire' = Tail(wire) /\ page'.cursor = Head(wire).id

\* The page gets every event after its cursor in order, or a reset that tells it
\* where the gap ends; a replay from cursor 0 is the exception (#subscribe).
GaplessOrReset ==
    [][FrameTaken =>
          \/ Head(wire).name = "reset"
          \/ page'.cursor = page.cursor + 1
          \/ skipped]_vars

\* A page that has read all there is to read shows the host's turn: neither a cut,
\* a replay nor a reset leaves it behind.  The answer to a request may be older
\* than the events the page took before it, and shows until the next state event.
EventsCatchUp ==
    [][ FrameTaken /\ wire' = <<>> /\ connection = "live"
        => page'.turn = turn' \/ skipped \/ overtaken' ]_vars
=============================================================================
