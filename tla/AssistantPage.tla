----------------------------- MODULE AssistantPage -----------------------------
(***************************************************************************)
(* The commands of the assistant's page (finance-assistant.tsx): which     *)
(* conversation is open, which session the page asks the host for, where a *)
(* prompt goes, and the list beside it.  A command is an asynchronous      *)
(* function; a task is one that awaits an answer, and what the page does   *)
(* when the answer comes is one step with what the host or the API did for *)
(* it.  A request may be refused, or carried out unheard.  AssistantStream *)
(* has the text of the messages, and the answers that events overtake.     *)
(***************************************************************************)
EXTENDS Naturals, FiniteSets

CONSTANTS
    Conversations,
    MaxTasks,     \* bound: commands in flight
    MaxClicks,    \* bound: commands
    MaxTroubles,  \* bound: sessions lost, requests refused or unheard
    None

VARIABLES
    store,    \* the API's conversations: absent, active, archived or deleted
    server,   \* the host: usable (consent given, provider ready and signed in), session, turn, troubles
    page,     \* the React state and the refs
    tasks,    \* commands that await an answer
    listing   \* the load of the list with the last number, or None

vars == <<store, server, page, tasks, listing>>

-----------------------------------------------------------------------------
(* The host *)

Session(c, state) == [of |-> c, state |-> state]
\* Sessions are told apart by their conversation.
ReadyFor(session, c) == session # None /\ session.of = c /\ session.state = "ready"

\* What the host tells the page: a session that starts names no conversation yet.
Snapshot(s) ==
    [usable |-> s.usable, turn |-> s.turn,
     session |-> IF s.session # None /\ s.session.state = "starting"
                   THEN Session(None, "starting") ELSE s.session]

Ended(turn) == IF turn = "active" THEN "ended" ELSE turn
Lost(session) == IF session = None THEN None ELSE [session EXCEPT !.state = "lost"]

CanOpen == server.usable /\ server.session = None /\ server.turn # "active"
\* Neither a session that starts nor one that was lost: the dispatcher has none of them.
CanClose ==
    /\ server.usable /\ server.turn # "active"
    /\ server.session # None /\ server.session.state = "ready"
CanTurn(c) == server.usable /\ ReadyFor(server.session, c) /\ server.turn # "active" /\ store[c] = "active"

\* What the host becomes when it carries out a request.
Opened(c) == [server EXCEPT !.session = Session(c, "starting"), !.turn = "none"]
WithoutSession == [server EXCEPT !.session = None]
TurnBegun == [server EXCEPT !.turn = "active"]
Interrupted == [server EXCEPT !.turn = Ended(@)]

\* The same for a request without a subject.
Asked(kind) ==
    CASE kind = "status" -> {server}
      [] kind = "set up" -> {[server EXCEPT !.usable = u] : u \in BOOLEAN}
      [] kind = "revoke" -> {[server EXCEPT !.usable = FALSE, !.session = s, !.turn = Ended(@)] :
                                s \in {Lost(server.session)} \cup {x \in {None} : CanClose \/ server.turn = "active"}}
      [] kind = "interrupt" -> {Interrupted}

TurnEnds ==
    /\ server.turn = "active"
    /\ server' = [server EXCEPT !.turn = "ended"]
    /\ UNCHANGED <<store, page, tasks, listing>>

SessionStarts ==
    /\ server.session # None /\ server.session.state = "starting"
    /\ \E state \in {"ready", "lost"} : server' = [server EXCEPT !.session.state = state]
    /\ UNCHANGED <<store, page, tasks, listing>>

ProviderDies ==
    /\ server.troubles < MaxTroubles /\ server.usable
    /\ server' = [server EXCEPT !.usable = FALSE, !.session = Lost(@), !.turn = Ended(@),
                                !.troubles = @ + 1]
    /\ UNCHANGED <<store, page, tasks, listing>>

-----------------------------------------------------------------------------
(* The page *)

Task(kind, c, step) == [kind |-> kind, on |-> c, step |-> step, to |-> None]
Prompt(kind, c, to) == [Task(kind, c, "turn") EXCEPT !.to = to]
NewLoad(tab, by) == [tab |-> tab, items |-> None, by |-> by]

HistoryKinds == {"set status", "delete"}
Working == page.working \/ \E t \in tasks : t.kind \in HistoryKinds
Known == page.snap # None
Busy == Known /\ page.snap.turn = "active"
Open(p) == p.snap # None /\ p.snap.session # None
CanChat == Known /\ page.snap.usable /\ page.tab = "active"

\* Mutation of Blank: the retry button keeps the prompt of the conversation left.
Blank_KeepsPrompt(p) == [p EXCEPT !.active = None]

\* The page without a conversation.
Blank(p) == [p EXCEPT !.active = None, !.last = None]
Heard(p, s) == [p EXCEPT !.snap = Snapshot(s)]
Sends(p, c) == [p EXCEPT !.working = TRUE, !.last = c]

Init ==
    /\ store \in [Conversations -> {"absent", "active", "archived"}]
    /\ server \in [usable : BOOLEAN, turn : {"none"}, troubles : {0},
                   session : {None} \cup {Session(c, "ready") : c \in {d \in Conversations : store[d] = "active"}}]
    /\ server.session # None => server.usable
    /\ page = [snap |-> None, active |-> None, tab |-> "active", list |-> {},
               last |-> None, working |-> FALSE, loading |-> TRUE, selecting |-> None, astray |-> FALSE, clicks |-> 0]
    /\ tasks = {Task("mount", None, "list"), Task("status", None, "ask")}
    /\ listing = NewLoad("active", "mount")

-----------------------------------------------------------------------------
(* Commands *)

Becomes(t, u, p) == tasks' = (tasks \ {t}) \cup {u} /\ page' = p
End(t, p) == tasks' = tasks \ {t} /\ page' = p
Await(t, step, p) == Becomes(t, [t EXCEPT !.step = step], p)
Show(t, tab, p) ==
    /\ Becomes(t, Task("tab", tab, "list"), [Blank(p) EXCEPT !.tab = tab, !.loading = TRUE])
    /\ listing' = NewLoad(tab, "tab")

CanClick == Cardinality(tasks) < MaxTasks /\ page.clicks < MaxClicks
Submitting == \E t \in tasks : t.kind = "submit"

\* A prompt, a session of its own or a selection is on its way, and yet the page can be
\* used: the close of the session before it ended `working`, or another load `loading`.
Underway == \E t \in tasks : t.kind \in {"start", "submit", "retry", "select"}

\* A selection that a later one, or a new conversation, outdated.
Superseded(t) == t.kind = "select" /\ page.selecting # t.on
Unselected(p) == [p EXCEPT !.selecting = None]

\* What a command does once no session is in its way.
GoOn(t, p, load) ==
    \/ t.kind = "tab" /\ Show(t, t.on, p)
    \/ t.kind = "new" /\ p.tab = "archived" /\ Show(t, "active", Unselected(p))
    \/ t.kind = "new" /\ p.tab = "active" /\ End(t, Blank(Unselected(p))) /\ listing' = load
    \/ t.kind = "select" /\ Await(t, "read", p) /\ listing' = load
    \/ t.kind = "set status" /\ Await(t, "patch", p) /\ listing' = load
    \/ t.kind = "delete" /\ Await(t, "forget", p) /\ listing' = load
    \/ t.kind \in {"start", "submit"} /\ t.on # None /\ Await(t, "open", [p EXCEPT !.working = TRUE]) /\ listing' = load
    \/ t.kind = "submit" /\ t.on = None /\ Await(t, "create", p) /\ listing' = load

\* The session that a command closes first: any, or that of the conversation it removes.
InTheWay(t, p) == Open(p) /\ (t.kind \in HistoryKinds => p.snap.session.of = t.on)

Command(t, q, load) ==
    LET p == [q EXCEPT !.clicks = @ + 1, !.astray = @ \/ Underway] IN
    /\ CanClick
    /\ IF InTheWay(t, p) THEN Await(t, "close", [p EXCEPT !.working = TRUE]) /\ listing' = load ELSE GoOn(t, p, load)
    /\ UNCHANGED <<store, server>>

-----------------------------------------------------------------------------
(* Clicks *)

SidebarEnabled == ~Working /\ ~Busy /\ ~page.loading

NewConversation == SidebarEnabled /\ Command(Task("new", None, "click"), page, listing)
ShowHistoryStatus(tab) == SidebarEnabled /\ Command(Task("tab", tab, "click"), page, listing)
\* A row of the list, with its options; a search hides some.
RowEnabled(c) == SidebarEnabled /\ c \in page.list

SelectConversation(c) ==
    /\ RowEnabled(c)
    /\ Command(Task("select", c, "click"), [page EXCEPT !.loading = TRUE, !.selecting = c], listing)
\* runHistoryAction: the load of the list that is under way is outdated.
RunHistoryAction(kind, c) ==
    RowEnabled(c) /\ Command(Task(kind, c, "click"), page, None)

ChatEnabled == CanChat /\ ~Working /\ ~page.loading /\ ~Busy
SessionReady == ReadyFor(page.snap.session, page.active)

\* createSession by its button: the session of the conversation shown is made anew.
Start ==
    /\ ChatEnabled /\ page.active # None /\ ~SessionReady
    /\ Command(Task("start", page.active, "click"), page, listing)

\* submitPrompt, one at a time, where the conversation has no session that is ready.
Submit ==
    /\ ~Submitting /\ ChatEnabled /\ ~(page.active # None /\ SessionReady)
    /\ Command(Task("submit", page.active, "click"), [page EXCEPT !.working = TRUE], listing)

Sending(prompt) ==
    /\ CanClick
    /\ Becomes(prompt, prompt, [Sends(page, prompt.on) EXCEPT !.clicks = @ + 1, !.astray = @ \/ Underway])
    /\ UNCHANGED <<store, server, listing>>
SubmitToSession ==
    /\ ~Submitting /\ ChatEnabled /\ page.active # None /\ SessionReady
    /\ Sending(Prompt("submit", page.active, page.active))

\* The button under the last message, which may have failed in any state.
RetryOffered == CanChat /\ ~Busy /\ ~Working /\ page.last # None

\* sendPrompt, to whichever session is ready.
Retry ==
    /\ RetryOffered
    /\ Open(page) /\ page.snap.session.state = "ready"
    /\ Sending(Prompt("retry", page.last, page.snap.session.of))

OlderInChat == CanChat /\ ~Working
\* The panel of stored messages, shown where the chat is not, does not know of `Working`.
OlderStored == ~CanChat

LoadOlder ==
    /\ page.active # None /\ ~page.loading /\ (OlderInChat \/ OlderStored)
    /\ CanClick
    /\ Await(Task("older", page.active, "read"), "read", [page EXCEPT !.loading = TRUE, !.clicks = @ + 1])
    /\ UNCHANGED <<store, server, listing>>

CloseSession ==
    /\ Known /\ ~Working /\ ~Busy /\ Open(page)
    /\ Command(Task("close", None, "click"), page, listing)

\* The consent is asked for, or Codex is missing or without a login.
SetUpEnabled == Known /\ ~page.snap.usable /\ ~Working
StopEnabled == CanChat /\ Busy /\ ~Working /\ ~page.loading

Ask(kind) ==
    /\ Known /\ ~Working
    /\ kind = "set up" => SetUpEnabled
    /\ kind = "interrupt" => StopEnabled
    /\ CanClick
    /\ Await(Task(kind, None, "ask"), "ask", [page EXCEPT !.working = TRUE, !.clicks = @ + 1, !.astray = @ \/ Underway])
    /\ UNCHANGED <<store, server, listing>>

-----------------------------------------------------------------------------
(* Answers *)

\* A request that can be carried out is answered, or carried out unheard; any may be refused.
Trouble(s) == [s EXCEPT !.troubles = @ + 1]
Carried(s, p) == [server |-> s, page |-> Heard(p, s), ok |-> TRUE]
Failed(s, p) == [server |-> s, page |-> p, ok |-> FALSE]
Results(can, s, p) ==
    IF ~can THEN {Failed(server, p)}
    ELSE {Carried(s, p)} \cup
            (IF server.troubles < MaxTroubles THEN {Failed(Trouble(x), p) : x \in {server, s}} ELSE {})

AnswerAsk(t) ==
    /\ t.step = "ask"
    /\ \E s \in Asked(t.kind) : \E r \in Results(TRUE, s, page) :
          server' = r.server /\ End(t, [r.page EXCEPT !.working = IF t.kind = "status" THEN @ ELSE FALSE])
    /\ UNCHANGED <<store, listing>>

\* closeSession, and what the command does after it; if the session is still open, nothing.
AnswerClose(t) ==
    /\ t.step = "close"
    /\ \E r \in Results(CanClose, WithoutSession, [page EXCEPT !.working = FALSE]) :
          /\ server' = r.server
          /\ IF t.kind = "close" \/ InTheWay(t, r.page)
               THEN /\ End(t, [r.page EXCEPT !.loading = IF t.kind = "select" /\ ~Superseded(t) THEN FALSE ELSE @])
                    /\ listing' = IF t.kind \in HistoryKinds THEN None ELSE listing
               ELSE GoOn(t, r.page, listing)
    /\ UNCHANGED store

\* createSession's own conversation: the page turns to it before the session is opened.
AnswerCreate(t) ==
    /\ t.step = "create"
    /\ \/ \E c \in Conversations :
             /\ store[c] = "absent" /\ store' = [store EXCEPT ![c] = "active"]
             /\ Becomes(t, [t EXCEPT !.on = c, !.step = "open"],
                      [page EXCEPT !.active = c, !.tab = "active", !.list = {c},
                                   !.working = TRUE])
             /\ listing' = NewLoad("active", None)
             /\ UNCHANGED server
       \/ /\ server.troubles < MaxTroubles /\ server' = Trouble(server)
          /\ \/ UNCHANGED store
             \/ \E c \in Conversations : store[c] = "absent" /\ store' = [store EXCEPT ![c] = "active"]
          /\ End(t, [page EXCEPT !.working = FALSE])
          /\ UNCHANGED listing

\* The host starts the session, refuses it, or is not heard while it goes on.
AnswerOpen(t) ==
    /\ t.step = "open"
    /\ \E r \in Results(CanOpen /\ store[t.on] = "active", Opened(t.on), page) :
          /\ server' = r.server
          /\ IF r.ok THEN Await(t, "opening", page) ELSE End(t, [page EXCEPT !.working = FALSE])
    /\ UNCHANGED <<store, listing>>

\* The session is ready, and a prompt that waited for it is sent; or it is not.
AnswerOpening(t) ==
    /\ t.step = "opening"
    /\ server.session # None => server.session.state # "starting"
    /\ LET ready == ReadyFor(server.session, t.on)
           after == [Heard(page, server) EXCEPT !.working = FALSE] IN
          \/ ready /\ t.kind = "submit" /\ Becomes(t, Prompt(t.kind, t.on, t.on), Sends(after, t.on))
          \/ ready /\ t.kind = "start" /\ End(t, after)
          \/ ~ready /\ End(t, [page EXCEPT !.working = FALSE])
    /\ UNCHANGED <<store, server, listing>>

\* What is sent goes to the session that the page knows; a prompt that is not taken
\* is taken back, and the list of the conversations is loaded when it is.
AnswerTurn(t) ==
    /\ t.step = "turn"
    /\ \E r \in Results(CanTurn(t.to), TurnBegun, [page EXCEPT !.working = FALSE]) :
          /\ server' = r.server
          /\ End(t, r.page)
          /\ listing' = IF r.ok THEN NewLoad(page.tab, None) ELSE listing
    /\ UNCHANGED store

AnswerRead(t) ==
    /\ t.step = "read"
    /\ \/ /\ t.kind = "older" \/ Superseded(t)
          /\ End(t, IF t.kind = "older" THEN [page EXCEPT !.loading = FALSE] ELSE page)
          /\ UNCHANGED server
       \/ /\ t.kind \in {"select", "mount"} /\ ~Superseded(t)
          /\ End(t, [page EXCEPT !.active = t.on, !.loading = FALSE,
                                 !.last = IF t.kind = "select" THEN None ELSE @])
          /\ UNCHANGED server
       \/ /\ server.troubles < MaxTroubles /\ server' = Trouble(server)
          /\ End(t, IF Superseded(t) THEN page ELSE [page EXCEPT !.loading = FALSE])
    /\ UNCHANGED <<store, listing>>

\* Mutation of Removed: a load of the list that began before may still arrive.
Removed_KeepsLoad(t, ok) ==
    LET gone == [page EXCEPT !.list = @ \ {t.on}] IN
    /\ End(t, IF ~ok THEN page ELSE IF page.active = t.on THEN Blank(gone) ELSE gone)
    /\ UNCHANGED listing

\* The end of a history action: the list and the page lose the conversation, and
\* every load of the list that began meanwhile is outdated.
Removed(t, ok) ==
    LET gone == [page EXCEPT !.list = @ \ {t.on}] IN
    /\ End(t, IF ~ok THEN page ELSE IF page.active = t.on THEN Blank(gone) ELSE gone)
    /\ listing' = None

Flipped(status) == IF status = "active" THEN "archived" ELSE "active"

AnswerRemoval(t) ==
    /\ t.step \in {"patch", "erase"}
    /\ \E ok, done \in BOOLEAN :
          /\ ok => done
          /\ done => store[t.on] \in {"active", "archived"}
          /\ ok \/ server.troubles < MaxTroubles
          /\ server' = IF ok THEN server ELSE Trouble(server)
          /\ store' = IF ~done THEN store ELSE
                [store EXCEPT ![t.on] = IF t.step = "erase" THEN "deleted" ELSE Flipped(store[t.on])]
          /\ Removed(t, ok)

\* The host knows the session's conversation once it is ready, and still when it is lost then.
HeldBySession(c) == server.session # None /\ server.session.of = c /\ server.session.state # "starting"

\* The host deletes the provider's thread, unless the conversation is the open one.
AnswerForget(t) ==
    /\ t.step = "forget"
    /\ \/ /\ ~ReadyFor(server.session, t.on)
          /\ Await(t, "erase", page) /\ UNCHANGED <<server, listing>>
       \/ /\ server.troubles < MaxTroubles \/ HeldBySession(t.on)
          /\ server' = IF server.troubles < MaxTroubles THEN Trouble(server) ELSE server
          /\ Removed(t, FALSE)
    /\ UNCHANGED store

-----------------------------------------------------------------------------
(* The list, and the events *)

ReadList ==
    /\ listing # None /\ listing.items = None
    /\ listing' = [listing EXCEPT !.items = {c \in Conversations : store[c] = listing.tab}]
    /\ UNCHANGED <<store, server, page, tasks>>

\* What the command that waits for a list does with it; at first, the newest is opened.
Shown(t, items, p) ==
    IF t.kind = "mount" /\ items # {}
      THEN \E c \in items : Becomes(t, [t EXCEPT !.on = c, !.step = "read"], [p EXCEPT !.active = c])
      ELSE End(t, [p EXCEPT !.loading = FALSE])

ListArrives ==
    /\ listing # None /\ listing.items # None
    /\ LET p == [page EXCEPT !.list = IF listing.tab = page.tab THEN listing.items ELSE @] IN
       IF listing.by = None THEN page' = p /\ UNCHANGED tasks
       ELSE \E t \in tasks : t.kind = listing.by /\ Shown(t, listing.items, p)
    /\ listing' = None
    /\ UNCHANGED <<store, server>>

ListFails ==
    /\ listing # None /\ server.troubles < MaxTroubles
    /\ server' = Trouble(server)
    /\ IF listing.by = None THEN UNCHANGED <<page, tasks>>
       ELSE \E t \in tasks : t.kind = listing.by /\ End(t, [page EXCEPT !.loading = FALSE])
    /\ listing' = None
    /\ UNCHANGED store

\* A list that is outdated has no effect but the end of what waited for it.
Outdated(t) ==
    /\ t.step = "list" /\ ~(listing # None /\ listing.by = t.kind)
    /\ Shown(t, {c \in Conversations : store[c] = "active"}, page)
    /\ UNCHANGED <<store, server, listing>>

\* state.changed: at the end of a turn the list is loaded again.
StateChanged ==
    /\ Known /\ page.snap # Snapshot(server)
    /\ page' = Heard(page, server)
    /\ listing' = IF server.turn = "ended" THEN NewLoad(page.tab, None) ELSE listing
    /\ UNCHANGED <<store, server, tasks>>

Next ==
    \/ TurnEnds \/ SessionStarts \/ ProviderDies
    \/ NewConversation \/ Start \/ Submit \/ SubmitToSession \/ Retry \/ LoadOlder \/ CloseSession
    \/ \E tab \in {"active", "archived"} : ShowHistoryStatus(tab)
    \/ \E c \in Conversations : SelectConversation(c) \/ \E kind \in HistoryKinds : RunHistoryAction(kind, c)
    \/ \E kind \in {"set up", "revoke", "interrupt"} : Ask(kind)
    \/ \E t \in tasks :
          \/ AnswerAsk(t) \/ AnswerClose(t) \/ AnswerCreate(t) \/ AnswerOpen(t) \/ AnswerOpening(t)
          \/ AnswerTurn(t) \/ AnswerRead(t) \/ AnswerRemoval(t) \/ AnswerForget(t) \/ Outdated(t)
    \/ ReadList \/ ListArrives \/ ListFails \/ StateChanged

Spec == Init /\ [][Next]_vars

-----------------------------------------------------------------------------
\* A prompt reaches the conversation it was typed in, or the one made for it: the open
\* conversation, the session and the message to repeat move together, unless the owner
\* clicked while a prompt or a selection was under way with nothing to tell
\* (finance-assistant.tsx:391-423, 609-675).
PromptWhereTyped ==
    ~page.astray /\ server.turn # "active" /\ server'.turn = "active" =>
       \E t \in tasks \ tasks' : t.step = "turn" /\ t.on = server.session.of

\* A conversation comes to the list of a tab only while it has that status, however late
\* a list arrives (finance-assistant.tsx:92-105, 443-502).
RemovedStaysRemoved == \A c \in page'.list \ page.list : store'[c] = page'.tab
=============================================================================
