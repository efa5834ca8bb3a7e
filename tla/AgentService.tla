---------------------------- MODULE AgentService ----------------------------
(***************************************************************************)
(* The service of the agent host (apps/agent-host/src,                     *)
(* finance-agent-service.ts): it runs the owner's commands, the provider's *)
(* notifications and the provider process against the chat state, the      *)
(* consent journal, the tool dispatcher, the stream projector and the      *)
(* history API.                                                            *)
(*                                                                         *)
(* Node runs one callback at a time.  A command is a sequence of steps cut *)
(* at the awaits that wait for something outside the host: an answer of    *)
(* the provider, an answer of the API, the end of the provider process.    *)
(* The commands are not queued, so between two steps of one everything     *)
(* else may happen.  A rejected promise and an await of a value that is    *)
(* there already go on before the next event: the commands in Urgent.      *)
(*                                                                         *)
(* Sessions and turns are numbered; a provider turn has its turn's number. *)
(* The reducer's events are fragments of the actions here; FinanceSession  *)
(* is the module about the reducer.  Usage, the model catalog, the binding *)
(* of the thread and the reading of deltas are left out (ThreadSetup and   *)
(* AssistantStream have them); a delta the projector refuses is a failure  *)
(* of the provider (ProviderFails).                                        *)
(***************************************************************************)
EXTENDS Naturals, FiniteSets

CONSTANTS
    Clients,                    \* commands in flight at the gateway
    MaxSessions, MaxTurns       \* bounds on how many are started

ASSUME BoundsAssumption == MaxSessions \in Nat /\ MaxTurns \in Nat

Sessions == 1 .. MaxSessions
Turns == 1 .. MaxTurns

VARIABLES
    journal,        \* latest record of the consent journal
    host, appServer, auth, consent,     \* the chat state of the reducer:
    session,        \*   [status, id, thread: has it a provider thread?]
    turn,           \*   [status, id, bound: has it a provider turn?]
    process,        \* #process: none, or the status of the CodexProcess
    account,        \* the status of #auth, which process # none brings along
    dispatcher,     \* [session, turn, aborted, busy: is a call running?]
    conversation,   \* is there a #conversationId?
    projector,      \* the turn of #projector, or 0
    starting,       \* #turnStarting
    early,          \* the early turn/completed in #earlyTurnNotifications
    ops,            \* the command of each client
    saves,          \* requests to the API nobody waits for
    rows,           \* status of each turn in the API's history
    shown,          \* turns whose answer was published as completed
    working         \* turns the provider works on

consentVars == <<journal, consent>>
serverVars == <<host, appServer, process, auth, account>>
chatVars == <<session, turn>>
toolVars == <<dispatcher, conversation>>
streamVars == <<projector, starting, early>>
historyVars == <<saves, rows, shown>>
vars == <<consentVars, serverVars, chatVars, toolVars, streamVars, historyVars,
          ops, working>>

Terminal == {"completed", "failed", "interrupted"}

NoSession == [status |-> "none", id |-> 0, thread |-> FALSE]
NoTurn == [status |-> "none", id |-> 0, bound |-> FALSE]
Unbound == [session |-> 0, turn |-> 0, aborted |-> FALSE, busy |-> FALSE]
Idle == [kind |-> "none", step |-> "none", session |-> 0, turn |-> 0,
         cut |-> FALSE]

IsLiveSession == session.status \in {"starting", "ready"}
IsOpenSession == session.status \in {"starting", "ready", "context_lost"}
IsActiveTurn == turn.status \in {"starting", "running", "interrupting"}

-----------------------------------------------------------------------------
(* Commands and their steps                                                *)

\* The steps that wait for an answer of the provider.
ProviderSteps == {"account", "prepare", "thread", "unsubscribe", "turn_start",
                  "interrupt"}

\* The commands that go on before the next event.
Urgent == {k \in Clients : ops[k].cut
                        \/ ops[k].step \in {"interrupted", "persisted", "closed"}}

Goto(k, step) == ops' = [ops EXCEPT ![k] = [@ EXCEPT !.step = step, !.cut = FALSE]]
Finish(k) == ops' = [ops EXCEPT ![k] = Idle]
Call(k, kind, step, s, t) ==
    ops' = [ops EXCEPT ![k] = [kind |-> kind, step |-> step, session |-> s,
                               turn |-> t, cut |-> FALSE]]

\* A closed transport rejects every request that waits for the provider.
Rejected(o) == [k \in Clients |-> IF o[k].step \in ProviderSteps
                                  THEN [o[k] EXCEPT !.cut = TRUE] ELSE o[k]]

\* Command k has its answer.
Answered(k, step) == ops[k].step = step /\ ~ops[k].cut /\ process = "ready"

-----------------------------------------------------------------------------
(* Fragments of the handlers                                               *)

\* The host shuts down: the gateway takes no command any more, and the API's
\* credential is gone, so that no request to it leaves the host.
ShuttingDown == \E k \in Clients : ops[k].kind = "shutdown"
HasCredential == ~ShuttingDown

\* What abort() of the projector p does to an answer still being saved.
Muted(p) == {[s EXCEPT !.live = @ /\ s.turn # p] : s \in saves}

\* persistFailedTurn: nobody waits for its answer.
FailSave(t, status) == [turn |-> t, status |-> status, live |-> FALSE, ends |-> FALSE,
                        sent |-> HasCredential]

\* A save of the turn's failure, when there is a turn and a conversation.
FailSaves(t, status) ==
    IF conversation THEN {FailSave(t, status)} ELSE {}

\* The session and the turn after the loss of the provider's context.
LoseActiveContext ==
    /\ session' = IF IsLiveSession THEN [session EXCEPT !.status = "context_lost"]
                                   ELSE session
    /\ turn' = IF IsActiveTurn THEN [turn EXCEPT !.status = "failed"] ELSE turn

\* Mutation of Abandoned: the turn is not forgotten.
Abandoned_KeepsTurn == [dispatcher EXCEPT !.session = 0]

\* abandonSession: a running call keeps its slot.
Abandoned == [Unbound EXCEPT !.busy = dispatcher.busy]

\* finishTurn of the dispatcher, where it does not throw.
CanFinishTurn == dispatcher.turn # 0 /\ ~dispatcher.busy
FinishedTurn == [dispatcher EXCEPT !.turn = 0, !.aborted = FALSE]

\* The synchronous part of interruptTurn.
Interruptible == IsActiveTurn /\ session.thread
AbortedTurn == [dispatcher EXCEPT !.aborted = (@ \/ dispatcher.turn # 0)]

\* handleFatalProcessError; the first fatal transition is authoritative.
HandleFatal ==
    /\ dispatcher' = Abandoned
    /\ projector' = 0
    /\ saves' = Muted(projector) \union
                (IF IsActiveTurn THEN FailSaves(turn.id, "failed") ELSE {})
    /\ IF appServer \in {"crashed", "stopped"}
       THEN UNCHANGED <<appServer, host, session, turn>>
       ELSE appServer' = "crashed" /\ host' = "degraded" /\ LoseActiveContext
    /\ UNCHANGED <<conversation, starting, early, rows, shown>>

\* syncAuth: a logout ends the turn and loses the session.
SyncAuth(status) ==
    /\ auth' = status
    /\ IF auth # status /\ status = "logged_out"
       THEN /\ LoseActiveContext
            /\ IF IsActiveTurn
               THEN /\ dispatcher' = IF CanFinishTurn THEN FinishedTurn ELSE Abandoned
                    /\ projector' = 0
                    /\ saves' = Muted(projector) \union FailSaves(turn.id, "failed")
               ELSE UNCHANGED <<dispatcher, projector, saves>>
       ELSE UNCHANGED <<session, turn, dispatcher, projector, saves>>

\* setStatus of the auth controller.
SetStatus(status) ==
    /\ account' = status
    /\ IF account = status
       THEN UNCHANGED <<auth, session, turn, dispatcher, projector, saves>>
       ELSE SyncAuth(status)

-----------------------------------------------------------------------------
(* What start() leaves behind when no provider could be launched.          *)
(* A launched one is a RefreshProvider.                                    *)

\* The journal, and the consent that the chat state has of it.
LoadedConsents ==
    {<<"none", "unknown">>, <<"granted", "granted">>,
     <<"pending", "revoke_pending">>, <<"revoked", "revoked">>}

Init ==
    /\ \E j \in LoadedConsents : journal = j[1] /\ consent = j[2]
    /\ host = "ready" /\ appServer = "stopped" /\ auth = "unknown"
    /\ session = NoSession /\ turn = NoTurn
    /\ process = "none" /\ account = "unknown"
    /\ dispatcher = Unbound /\ conversation = FALSE
    /\ projector = 0 /\ starting = FALSE /\ early = "none"
    /\ ops = [k \in Clients |-> Idle]
    /\ saves = {} /\ rows = [t \in Turns |-> "none"] /\ shown = {}
    /\ working = {}

-----------------------------------------------------------------------------
(* grantConsent, refreshProvider, startProcessAfterGrant                   *)

\* The provider process is there with its controller: account/read.  There is
\* none: it is started, if the app server never crashed and Codex is installed.
Refresh(k) ==
    \/ /\ process \in {"ready", "crashed"}
       /\ IF process = "ready" THEN Call(k, "refresh", "account", 0, 0)
                               ELSE UNCHANGED ops
       /\ UNCHANGED <<process, appServer>>
    \/ /\ process = "none" /\ appServer = "stopped"
       /\ \/ process' = "starting" /\ appServer' = "starting"
             /\ Call(k, "start", "starting", 0, 0)
          \/ UNCHANGED <<process, appServer, ops>>
    \/ /\ process \notin {"ready", "crashed"} /\ appServer # "stopped"
       /\ UNCHANGED <<process, appServer, ops>>

RefreshProvider(k) ==
    /\ ops[k] = Idle
    /\ ~IsOpenSession /\ journal = "granted"
    /\ Refresh(k)
    /\ UNCHANGED <<consentVars, host, auth, account, chatVars, toolVars,
                   streamVars, historyVars, working>>

\* The journal writes its record, then forces it to the disk, and throws when that
\* fails: the record is there, and the chat state is not told of it.  Nor is it
\* when the reducer refuses, because it was not told of an earlier record.
GrantConsent(k) ==
    /\ ops[k] = Idle
    /\ journal \in {"none", "revoked"} /\ journal' = "granted"
    /\ \/ /\ consent \in {"unknown", "revoked"} /\ consent' = "granted"
          /\ IF IsOpenSession THEN UNCHANGED <<ops, process, appServer>>
                              ELSE Refresh(k)
       \/ UNCHANGED <<consent, ops, process, appServer>>
    /\ UNCHANGED <<host, auth, account, chatVars, toolVars, streamVars,
                   historyVars, working>>

\* initialize was answered.
Started(k) ==
    /\ ops[k].step = "starting" /\ process = "starting"
    /\ process' = "ready" /\ appServer' = "ready" /\ account' = "unknown"
    /\ Goto(k, "account")
    /\ UNCHANGED <<consentVars, host, auth, chatVars, toolVars, streamVars,
                   historyVars, working>>

\* It was not: the process fails while starting, and is stopped.
StartFails(k) ==
    /\ ops[k].step = "starting" /\ process = "starting"
    /\ HandleFatal
    /\ process' = "stopping"
    /\ Goto(k, "startup_failed")
    /\ UNCHANGED <<consentVars, auth, account, working>>

AccountRead(k) ==
    /\ Answered(k, "account")
    /\ \E status \in {"logged_out", "authenticated"} : SetStatus(status)
    /\ Finish(k)
    /\ UNCHANGED <<consentVars, host, appServer, process, conversation, starting,
                   early, rows, shown, working>>

\* A first refresh that fails counts as a logout.
AccountFails(k) ==
    /\ ops[k].step = "account"
    /\ IF ops[k].kind = "start"
       THEN SyncAuth("logged_out")
       ELSE UNCHANGED <<auth, session, turn, dispatcher, projector, saves>>
    /\ Finish(k)
    /\ UNCHANGED <<consentVars, host, appServer, process, account, conversation,
                   starting, early, rows, shown, working>>

-----------------------------------------------------------------------------
(* createSession                                                           *)

CreateSession(k) ==
    /\ ops[k] = Idle
    /\ journal = "granted" /\ consent = "granted" /\ auth = "authenticated"
    /\ host = "ready" /\ appServer = "ready" /\ ~IsOpenSession
    /\ \E s \in Sessions :
         /\ s = session.id + 1
         /\ session' = [status |-> "starting", id |-> s, thread |-> FALSE]
         /\ Call(k, "create", "prepare", s, 0)
    /\ turn' = NoTurn
    /\ UNCHANGED <<consentVars, serverVars, toolVars, streamVars, historyVars,
                   working>>

\* config/read and the API's runtime binding were answered: thread/start.
Prepared(k) ==
    /\ Answered(k, "prepare")
    /\ Goto(k, "thread")
    /\ UNCHANGED <<consentVars, serverVars, chatVars, toolVars, streamVars,
                   historyVars, working>>

\* A new binding is written through the API first.
ThreadStarted(k) ==
    /\ Answered(k, "thread")
    /\ Goto(k, "bind")
    /\ UNCHANGED <<consentVars, serverVars, chatVars, toolVars, streamVars,
                   historyVars, working>>

\* Mutation of OpenSession: the reducer does not look at the session it opens.
OpenSession_AnyState(k) ==
    /\ ops[k].step = "bind" \/ Answered(k, "thread")
    /\ dispatcher = Unbound
    /\ conversation' = TRUE
    /\ dispatcher' = [Unbound EXCEPT !.session = ops[k].session]
    /\ session' = [session EXCEPT !.status = "ready", !.thread = TRUE]
    /\ Finish(k)
    /\ UNCHANGED <<consentVars, serverVars, turn, streamVars, historyVars, working>>

\* dispatcher.startSession, then session.ready.
OpenSession(k) ==
    /\ ops[k].step = "bind" \/ Answered(k, "thread")
    /\ dispatcher = Unbound
    /\ conversation' = TRUE
    /\ IF /\ session.id = ops[k].session /\ session.status = "starting"
          /\ auth = "authenticated" /\ consent = "granted"
       THEN /\ dispatcher' = [Unbound EXCEPT !.session = ops[k].session]
            /\ session' = [session EXCEPT !.status = "ready", !.thread = TRUE]
       ELSE /\ dispatcher' = Unbound
            /\ session' = IF /\ session.id = ops[k].session
                             /\ session.status = "starting"
                          THEN [session EXCEPT !.status = "context_lost"]
                          ELSE session
    /\ Finish(k)
    /\ UNCHANGED <<consentVars, serverVars, turn, streamVars, historyVars, working>>

\* An answer is refused or missing, or the dispatcher is not free.
CreateFails(k) ==
    /\ ops[k].kind = "create"
    /\ session' = IF session.id = ops[k].session /\ session.status = "starting"
                  THEN [session EXCEPT !.status = "context_lost"] ELSE session
    /\ Finish(k)
    /\ UNCHANGED <<consentVars, serverVars, turn, toolVars, streamVars,
                   historyVars, working>>

-----------------------------------------------------------------------------
(* closeSession, of the owner and within revokeConsent                     *)

\* The guard of closeSession in the dispatcher.
Closable == dispatcher.session # 0 /\ dispatcher.turn = 0 /\ ~dispatcher.busy

\* The dispatcher closes, the conversation is forgotten, the reducer may still
\* refuse session.close: then only the caller learns of it.
CloseBoth(s) ==
    /\ Closable
    /\ dispatcher' = Unbound
    /\ conversation' = FALSE
    /\ session' = IF session.id = s /\ ~IsActiveTurn
                  THEN [session EXCEPT !.status = "closed"] ELSE session

CloseSession(k) ==
    /\ ops[k] = Idle
    /\ IsOpenSession /\ ~IsActiveTurn
    /\ IF session.thread /\ process # "none"
       THEN /\ process = "ready"
            /\ Call(k, "close", "unsubscribe", session.id, 0)
            /\ UNCHANGED <<dispatcher, conversation, session>>
       ELSE /\ CloseBoth(session.id)
            /\ UNCHANGED ops
    /\ UNCHANGED <<consentVars, serverVars, turn, streamVars, historyVars, working>>

Unsubscribed(k) ==
    /\ Answered(k, "unsubscribe") /\ ops[k].kind = "close"
    /\ \/ CloseBoth(ops[k].session)
       \/ ~Closable /\ UNCHANGED <<dispatcher, conversation, session>>
    /\ Finish(k)
    /\ UNCHANGED <<consentVars, serverVars, turn, streamVars, historyVars, working>>

UnsubscribeFails(k) ==
    /\ ops[k].step = "unsubscribe" /\ ops[k].kind = "close"
    /\ Finish(k)
    /\ UNCHANGED <<consentVars, serverVars, chatVars, toolVars, streamVars,
                   historyVars, working>>

-----------------------------------------------------------------------------
(* startTurn, interruptTurn                                                *)

\* Turn ids are made up by the caller; no other command uses the same one.
StartTurn(k) ==
    /\ ops[k] = Idle
    /\ session.thread /\ conversation /\ journal = "granted"
    /\ \E t \in Turns :
         /\ rows[t] = "none" /\ \A j \in Clients : ops[j].turn # t
         /\ \A u \in 1 .. t - 1 : rows[u] # "none" \/ \E j \in Clients : ops[j].turn = u
         /\ Call(k, "turn", "reserve", session.id, t)
    /\ UNCHANGED <<consentVars, serverVars, chatVars, toolVars, streamVars,
                   historyVars, working>>

\* Mutation of Startable: the consent is not looked at.
Startable_AnyConsent(s) == /\ session.id = s /\ session.status = "ready"
                           /\ auth = "authenticated" /\ ~IsActiveTurn

\* The guard of turn.start in the reducer.
Startable(s) == /\ session.id = s /\ session.status = "ready"
                /\ auth = "authenticated" /\ consent = "granted" /\ ~IsActiveTurn

\* What the API makes of the request for turn t.
ReserveConversationTurn(t) == [rows EXCEPT ![t] = "reserved"]

\* The API has reserved the turn: turn.start and the request turn/start.
Reserved(k) ==
    /\ ops[k].step = "reserve" /\ Startable(ops[k].session)
    /\ rows' = ReserveConversationTurn(ops[k].turn)
    /\ turn' = [status |-> "starting", id |-> ops[k].turn, bound |-> FALSE]
    /\ starting' = TRUE /\ early' = "none"
    /\ working' = working \union {ops[k].turn}
    /\ Goto(k, "turn_start")
    /\ UNCHANGED <<consentVars, serverVars, session, toolVars, projector, saves, shown>>

\* No answer, a refusal by the API, or by the reducer: a reserved row remains.
ReserveFails(k) ==
    /\ ops[k].step = "reserve"
    /\ \E r \in {rows, ReserveConversationTurn(ops[k].turn)} : rows' = r
    /\ Finish(k)
    /\ UNCHANGED <<consentVars, serverVars, chatVars, toolVars, streamVars, saves,
                   shown, working>>

\* The guards of dispatcher.startTurn and of turn.running in the reducer.
Bindable == dispatcher.session # 0 /\ dispatcher.turn = 0 /\ ~dispatcher.busy
Runnable(t) == /\ turn.id = t /\ turn.status = "starting"
               /\ auth = "authenticated" /\ consent = "granted"

\* persistTerminalTurn up to the API's answer.
TerminalSave(t, status) ==
    [turn |-> t, status |-> status, live |-> status = "completed", ends |-> TRUE,
     sent |-> HasCredential]

\* The turn runs, and an early turn/completed is caught up on.
TurnStarted(k) ==
    LET t == ops[k].turn IN
    /\ Answered(k, "turn_start")
    /\ Bindable /\ Runnable(t) /\ early # "other"
    /\ turn' = [turn EXCEPT !.status = "running", !.bound = TRUE]
    /\ projector' = t /\ starting' = FALSE /\ early' = "none"
    /\ IF early = "none"
       THEN /\ dispatcher' = [dispatcher EXCEPT !.turn = t]
            /\ UNCHANGED saves
       ELSE /\ saves' = saves \union {TerminalSave(t, early)}
            /\ UNCHANGED dispatcher
    /\ Finish(k)
    /\ UNCHANGED <<consentVars, serverVars, session, conversation, rows, shown, working>>

\* The catch block: a refused start, an error answer, or no answer, and then the
\* provider may work on the turn.  It ends whatever turn is active under this
\* turn's id, and throws if that is another one.
TurnFails(k) ==
    LET t == ops[k].turn IN
    /\ ops[k].step = "turn_start"
    /\ \E w \in {working, working \ {t}} : working' = w
    /\ starting' = FALSE /\ early' = "none" /\ projector' = 0
    /\ turn' = IF IsActiveTurn /\ turn.id = t THEN [turn EXCEPT !.status = "failed"]
                                              ELSE turn
    /\ saves' = Muted(projector) \union
                (IF IsActiveTurn /\ turn.id # t THEN {} ELSE {FailSave(t, "failed")})
    /\ Finish(k)
    /\ UNCHANGED <<consentVars, serverVars, session, toolVars, rows, shown>>

\* The owner's interruptTurn, that of a tool call that asks for it, and that
\* of the provider's error notification.  turn/interrupt changes nothing here.
InterruptTurn ==
    /\ Interruptible
    /\ turn.status # "interrupting" \/ dispatcher # AbortedTurn
    /\ turn' = [turn EXCEPT !.status = "interrupting"]
    /\ dispatcher' = AbortedTurn
    /\ UNCHANGED <<consentVars, serverVars, session, conversation, streamVars,
                   historyVars, ops, working>>

-----------------------------------------------------------------------------
(* revokeConsent                                                           *)

\* The reducer's barrier, and the interrupt of the turn.
RaiseBarrier(k) ==
    /\ consent \in {"granted", "revoke_pending"} /\ consent' = "revoke_pending"
    /\ turn' = IF IsActiveTurn THEN [turn EXCEPT !.status = "interrupting"] ELSE turn
    /\ dispatcher' = IF Interruptible THEN AbortedTurn ELSE dispatcher
    /\ Call(k, "revoke",
            IF Interruptible /\ turn.bound /\ process = "ready"
            THEN "interrupt" ELSE "interrupted", 0, 0)

\* beginRevocation and the barrier; or only the record, when it cannot be forced to the
\* disk or the reducer refuses.
RevokeConsent(k) ==
    /\ ops[k] = Idle
    /\ journal \in {"granted", "pending"} /\ journal' = "pending"
    /\ RaiseBarrier(k) \/ UNCHANGED <<consent, turn, dispatcher, ops>>
    /\ UNCHANGED <<serverVars, session, conversation, streamVars, historyVars, working>>

\* The shutdown of main.ts, with stop(): the gateway has closed, which waits for the
\* commands in flight, and the turn is interrupted.
Shutdown(k) ==
    /\ \A j \in Clients : ops[j] = Idle
    /\ turn' = IF Interruptible THEN [turn EXCEPT !.status = "interrupting"] ELSE turn
    /\ dispatcher' = IF Interruptible THEN AbortedTurn ELSE dispatcher
    /\ Call(k, "shutdown",
            IF Interruptible /\ turn.bound /\ process = "ready"
            THEN "interrupt" ELSE "interrupted", 0, 0)
    /\ UNCHANGED <<consentVars, serverVars, session, conversation, streamVars, historyVars, working>>

\* turn/interrupt was answered, refused or timed out.
Interrupted(k) ==
    /\ ops[k].step = "interrupt"
    /\ Goto(k, "interrupted")
    /\ UNCHANGED <<consentVars, serverVars, chatVars, toolVars, streamVars,
                   historyVars, working>>

\* A turn that is still active ends here; the API is told, and waited for, unless the
\* host shuts down.  A projector that was aborted completes no message any more.
EndInterruptedTurn(k) ==
    /\ ops[k].step = "interrupted"
    /\ IF IsActiveTurn
       THEN /\ projector' = 0
            /\ saves' = Muted(projector)
            /\ dispatcher' = IF CanFinishTurn THEN FinishedTurn ELSE dispatcher
            /\ turn' = [turn EXCEPT !.status = "interrupted"]
            /\ ops' = [ops EXCEPT ![k] = [@ EXCEPT
                         !.step = IF conversation /\ HasCredential THEN "persist" ELSE "persisted",
                         !.turn = turn.id]]
       ELSE /\ Goto(k, "persisted")
            /\ UNCHANGED <<projector, saves, dispatcher, turn>>
    /\ UNCHANGED <<consentVars, serverVars, session, conversation, starting, early,
                   rows, shown, working>>

\* The API's fail_turn leaves a turn that has ended as it is.
Ended(t, status) == [rows EXCEPT ![t] = IF @ = "reserved" THEN status ELSE @]

\* The API answered, refused, or did not answer in time.
Persisted(k) ==
    /\ ops[k].step = "persist"
    /\ \E r \in {rows, Ended(ops[k].turn, "interrupted")} : rows' = r
    /\ Goto(k, "persisted")
    /\ UNCHANGED <<consentVars, serverVars, chatVars, toolVars, streamVars, saves,
                   shown, working>>

\* The commands that close the session and stop the process.
LastCommands == {"revoke", "shutdown"}

\* A session that closes at once, or needs no close, or asks the provider.
CloseLast(k) ==
    /\ ops[k].step = "persisted"
    /\ \/ /\ ~IsOpenSession
          /\ Goto(k, "closed")
          /\ UNCHANGED <<dispatcher, conversation, session>>
       \/ /\ IsOpenSession /\ ~IsActiveTurn /\ session.thread /\ process = "ready"
          /\ ops' = [ops EXCEPT ![k] = [@ EXCEPT !.step = "unsubscribe",
                                                 !.session = session.id]]
          /\ UNCHANGED <<dispatcher, conversation, session>>
       \/ /\ IsOpenSession /\ ~IsActiveTurn
          /\ session.thread => process = "none"
          /\ CloseBoth(session.id)
          /\ Goto(k, "closed")
    /\ UNCHANGED <<consentVars, serverVars, turn, streamVars, historyVars, working>>

CloseLastAnswered(k) ==
    /\ Answered(k, "unsubscribe") /\ ops[k].kind \in LastCommands
    /\ CloseBoth(ops[k].session)
    /\ Goto(k, "closed")
    /\ UNCHANGED <<consentVars, serverVars, turn, streamVars, historyVars, working>>

\* Mutation of CloseLastFails: the failure is swallowed.
CloseLastFails_NotFatal(k) ==
    /\ ops[k].kind \in LastCommands
    /\ \/ ops[k].step = "unsubscribe"
       \/ ops[k].step = "persisted" /\ IsOpenSession /\ ~Closable
    /\ Goto(k, "closed")
    /\ UNCHANGED <<consentVars, serverVars, chatVars, toolVars, streamVars,
                   historyVars, working>>

\* A close that throws is fatal, in a revocation unless the session is lost already.
CloseLastFails(k) ==
    /\ ops[k].kind \in LastCommands
    /\ \/ ops[k].step = "unsubscribe"
       \/ /\ ops[k].step = "persisted" /\ IsOpenSession
          /\ \/ IsActiveTurn
             \/ session.thread /\ process \notin {"none", "ready"}
             \/ (session.thread => process = "none") /\ ~Closable
    /\ Goto(k, "closed")
    /\ IF session.status = "context_lost" /\ ops[k].kind = "revoke"
       THEN UNCHANGED <<host, appServer, chatVars, toolVars, streamVars, historyVars>>
       ELSE HandleFatal
    /\ UNCHANGED <<consentVars, process, auth, account, working>>

\* Mutation of StopProcess: the app server is not shown as stopping.
StopProcess_StillReady(k) ==
    /\ ops[k].step = "closed" /\ process \notin {"none", "starting"}
    /\ process' = "stopping" /\ account' = "unknown" /\ auth' = "unknown"
    /\ ops' = [Rejected(ops) EXCEPT ![k] = [ops[k] EXCEPT !.step = "stop"]]
    /\ UNCHANGED <<consentVars, host, appServer, chatVars, toolVars, streamVars,
                   historyVars, working>>

\* The controller stops, then the process, whose transport closes at once.
\* A process that is starting fails by that, and its start waits for its end.
StopProcess(k) ==
    /\ ops[k].step = "closed" /\ process # "none"
    /\ ~((appServer = "ready" \/ ShuttingDown) /\ IsLiveSession)
    /\ process' = "stopping" /\ account' = "unknown"
    /\ auth' = IF account = "unknown" THEN auth ELSE "unknown"
    /\ IF process = "starting"
       THEN HandleFatal
       ELSE /\ appServer' = IF \/ appServer = "ready"
                               \/ ShuttingDown /\ appServer = "crashed"
                            THEN "stopping" ELSE appServer
            /\ host' = IF ShuttingDown THEN "stopping" ELSE host
            /\ UNCHANGED <<chatVars, toolVars, streamVars, historyVars>>
    /\ ops' = [j \in Clients |->
                 IF j = k THEN [ops[k] EXCEPT !.step = "stop"]
                 ELSE IF ops[j].step = "starting"
                      THEN [ops[j] EXCEPT !.step = "startup_failed"]
                      ELSE Rejected(ops)[j]]
    /\ UNCHANGED <<consentVars, working>>

\* completeRevocation and the reducer's event: the record that is missing is written,
\* the reducer knows of a revocation that began, or throws; or the record cannot be
\* written, or is written and not forced to the disk, or a new grant is found.
Complete ==
    \/ /\ journal \in {"pending", "revoked"} /\ journal' = "revoked"
       /\ consent' = IF consent = "revoke_pending" THEN "revoked" ELSE consent
    \/ /\ journal' \in {journal} \union {r \in {"revoked"} : journal = "pending"}
       /\ UNCHANGED consent

RevokeWithoutProcess(k) ==
    /\ ops[k].step = "closed" /\ ops[k].kind = "revoke" /\ process = "none"
    /\ Complete
    /\ Finish(k)
    /\ UNCHANGED <<serverVars, chatVars, toolVars, streamVars, historyVars, working>>

StopWithoutProcess(k) ==
    /\ ops[k].step = "closed" /\ ops[k].kind = "shutdown" /\ process = "none"
    /\ ~IsLiveSession
    /\ host' = "stopped"
    /\ Finish(k)
    /\ UNCHANGED <<consentVars, appServer, process, auth, account, chatVars, toolVars,
                   streamVars, historyVars, working>>

\* The process is gone, by itself or killed, for everyone who waits for that.
ProcessStopped ==
    /\ process = "stopping"
    /\ process' = "none"
    /\ appServer' = IF \/ appServer = "stopping"
                       \/ \E k \in Clients : ops[k].step = "startup_failed"
                    THEN "stopped" ELSE appServer
    /\ host' = IF ShuttingDown THEN "stopped" ELSE host
    /\ IF \E k \in Clients : ops[k].step = "stop" /\ ops[k].kind = "revoke"
       THEN Complete ELSE UNCHANGED consentVars
    /\ ops' = [k \in Clients |-> IF ops[k].step \in {"stop", "startup_failed"}
                                 THEN Idle ELSE ops[k]]
    /\ working' = {}
    /\ UNCHANGED <<auth, account, chatVars, toolVars, streamVars, historyVars>>

-----------------------------------------------------------------------------
(* The provider: handleNotification, handleServerRequest                   *)

\* A tool call of the turn the dispatcher runs.
CallStarts ==
    /\ process = "ready" /\ dispatcher.turn # 0 /\ ~dispatcher.busy
    /\ dispatcher.turn \in working
    /\ dispatcher' = [dispatcher EXCEPT !.busy = TRUE]
    /\ UNCHANGED <<consentVars, serverVars, chatVars, conversation, streamVars,
                   historyVars, ops, working>>

CallEnds ==
    /\ dispatcher.busy
    /\ dispatcher' = [dispatcher EXCEPT !.busy = FALSE]
    /\ UNCHANGED <<consentVars, serverVars, chatVars, conversation, streamVars,
                   historyVars, ops, working>>

\* The process reports a fatal error: its exit, a transport failure, a refused
\* notification or request.
Crash ==
    /\ HandleFatal
    /\ process' = "crashed"
    /\ ops' = Rejected(ops)

ProviderFails ==
    /\ process = "ready"
    /\ Crash
    /\ working' = {}
    /\ UNCHANGED <<consentVars, auth, account>>

\* assertProviderTurn
IsProviderTurn(t) == session.thread /\ turn.bound /\ turn.id = t

\* The dispatcher runs provider turn t, and the stream of its answer is there.
Completable(t, status) ==
    /\ IsProviderTurn(t) /\ CanFinishTurn
    /\ status = "completed" => projector # 0

\* turn/completed is kept while a turn/start waits for its answer; else it must
\* be of the chat's turn, and the dispatcher must let go of it.
TurnCompleted(t, status) ==
    /\ process = "ready" /\ t \in working
    /\ working' = working \ {t}
    /\ \/ /\ starting
          /\ early' = IF t = turn.id /\ early = "none" THEN status ELSE "other"
          /\ UNCHANGED <<serverVars, chatVars, toolVars, projector, starting,
                         historyVars, ops>>
       \/ /\ ~starting /\ Completable(t, status)
          /\ dispatcher' = FinishedTurn
          /\ saves' = saves \union
                      {[TerminalSave(t, status) EXCEPT !.live = @ /\ projector = t]}
          /\ UNCHANGED <<serverVars, chatVars, conversation, streamVars, rows,
                         shown, ops>>
       \/ /\ ~starting /\ ~Completable(t, status)
          /\ Crash
          /\ UNCHANGED <<auth, account>>
    /\ UNCHANGED consentVars

\* The account changed: the owner logs in or out of Codex.
AccountUpdated(status) ==
    /\ process = "ready" /\ account # status
    /\ SetStatus(status)
    /\ UNCHANGED <<consentVars, host, appServer, process, conversation, starting,
                   early, rows, shown, ops, working>>

-----------------------------------------------------------------------------
(* The API's answers to persistTerminalTurn and persistFailedTurn          *)

\* The turn's end in the chat state after its save: the reducer ends turn t if
\* it is active, and another active turn makes it throw in the catch block,
\* a rejection nobody handles, of which Node ends the host.
EndSavedTurn(t, status) ==
    IF IsActiveTurn
    THEN IF turn.id = t
         THEN turn' = [turn EXCEPT !.status = status] /\ UNCHANGED host
         ELSE host' = "exited" /\ UNCHANGED turn
    ELSE UNCHANGED <<turn, host>>

\* The API has the turn in the wanted state, and its answer arrives.
Saved(s) ==
    /\ s.sent
    /\ s.status = "completed" => rows[s.turn] \in {"reserved", "completed"}
    /\ rows' = Ended(s.turn, s.status)
    /\ saves' = saves \ {s}
    /\ shown' = IF s.live THEN shown \union {s.turn} ELSE shown
    /\ IF s.ends THEN EndSavedTurn(s.turn, s.status) /\ projector' = 0
                 ELSE UNCHANGED <<turn, host, projector>>
    /\ UNCHANGED <<consentVars, appServer, process, auth, account, session, toolVars,
                   starting, early, ops, working>>

\* Mutation of SaveFails: the catch block ends the turn as asked.
SaveFails_AsSaved(s) ==
    /\ saves' = saves \ {s}
    /\ IF s.ends THEN EndSavedTurn(s.turn, s.status) /\ projector' = 0
                 ELSE UNCHANGED <<turn, host, projector>>
    /\ UNCHANGED <<consentVars, appServer, process, auth, account, session, toolVars,
                   starting, early, rows, shown, ops, working>>

\* The API refuses, or does not answer in time, whether it did its work or not.
SaveFails(s) ==
    /\ \E r \in {rows} \union {x \in {Ended(s.turn, s.status)} : s.sent} : rows' = r
    /\ saves' = saves \ {s}
    /\ IF s.ends THEN EndSavedTurn(s.turn, "failed") /\ projector' = 0
                 ELSE UNCHANGED <<turn, host, projector>>
    /\ UNCHANGED <<consentVars, appServer, process, auth, account, session, toolVars,
                   starting, early, shown, ops, working>>

-----------------------------------------------------------------------------
(* The specification                                                       *)

\* What goes on before the next event.
Continue(k) ==
    \/ AccountFails(k)
    \/ CreateFails(k)
    \/ UnsubscribeFails(k)
    \/ TurnFails(k)
    \/ Interrupted(k)
    \/ EndInterruptedTurn(k)
    \/ CloseLast(k)
    \/ CloseLastFails(k)
    \/ StopProcess(k)
    \/ RevokeWithoutProcess(k)
    \/ StopWithoutProcess(k)

\* An answer to command k, or its failure.
Answer(k) ==
    \/ Started(k) \/ StartFails(k)
    \/ AccountRead(k) \/ AccountFails(k)
    \/ Prepared(k) \/ ThreadStarted(k) \/ OpenSession(k) \/ CreateFails(k)
    \/ Unsubscribed(k) \/ UnsubscribeFails(k)
    \/ Reserved(k) \/ ReserveFails(k) \/ TurnStarted(k) \/ TurnFails(k)
    \/ Interrupted(k) \/ Persisted(k)
    \/ CloseLastAnswered(k) \/ CloseLastFails(k)

\* A command of the owner, or the last one.
Command(k) ==
    \/ Shutdown(k)
    \/ GrantConsent(k) \/ RefreshProvider(k) \/ RevokeConsent(k)
    \/ CreateSession(k) \/ CloseSession(k) \/ StartTurn(k)

Event ==
    \/ InterruptTurn
    \/ CallStarts \/ CallEnds
    \/ ProviderFails
    \/ \E t \in working, status \in Terminal : TurnCompleted(t, status)
    \/ \E status \in {"logged_out", "authenticated"} : AccountUpdated(status)
    \/ \E s \in saves : Saved(s) \/ SaveFails(s)

HostRuns == host \notin {"exited", "stopped"}

\* Command k goes on, at once if it is urgent.
Step(k) ==
    /\ HostRuns
    /\ \/ k \in Urgent /\ Continue(k)
       \/ Urgent = {} /\ Answer(k)

Next ==
    \/ \E k \in Clients : Step(k)
    \/ /\ HostRuns /\ Urgent = {}
       /\ \/ \E k \in Clients : ~ShuttingDown /\ Command(k)
          \/ Event
          \/ ProcessStopped

Spec == Init /\ [][Next]_vars

\* Every request is answered or times out: 15 s for the provider's
\* (json-rpc-client.ts), 10 s for the API's (finance-api-client.ts); a process
\* is killed after 5 s, and given up 1 s later (codex-process.ts).
Fairness ==
    /\ \A k \in Clients : SF_vars(Step(k))
    /\ SF_vars(HostRuns /\ Urgent = {} /\ ProcessStopped)

FairSpec == Spec /\ Fairness

-----------------------------------------------------------------------------
(* Properties                                                              *)

\* The variables have the values their comments say.
TypeOK ==
    /\ journal \in {"none", "granted", "pending", "revoked"}
    /\ consent \in {"unknown", "granted", "revoke_pending", "revoked"}
    /\ host \in {"ready", "degraded", "stopping", "stopped", "exited"}
    /\ appServer \in {"stopped", "starting", "ready", "stopping", "crashed"}
    /\ auth \in {"unknown", "logged_out", "authenticated"}
    /\ account \in {"unknown", "logged_out", "authenticated"}
    /\ process \in {"none", "starting", "ready", "crashed", "stopping"}
    /\ session \in [status : {"none", "starting", "ready", "context_lost", "closed"},
                    id : Sessions \union {0}, thread : BOOLEAN]
    /\ turn \in [status : {"none", "starting", "running", "interrupting"} \union Terminal,
                 id : Turns \union {0}, bound : BOOLEAN]
    /\ dispatcher \in [session : Sessions \union {0}, turn : Turns \union {0},
                       aborted : BOOLEAN, busy : BOOLEAN]
    /\ conversation \in BOOLEAN /\ starting \in BOOLEAN
    /\ projector \in Turns \union {0}
    /\ early \in Terminal \union {"none", "other"}
    /\ saves \subseteq [turn : Turns, status : Terminal, live : BOOLEAN, ends : BOOLEAN,
                       sent : BOOLEAN]
    /\ rows \in [Turns -> Terminal \union {"none", "reserved"}]
    /\ shown \subseteq Turns /\ working \subseteq Turns
    /\ \A k \in Clients : ops[k].session \in Sessions \union {0}
                       /\ ops[k].turn \in Turns \union {0}

\* A revocation is recorded that the chat state knows nothing of: its record was
\* written and reported as failed.  The owner was told that it did not work.
Unnoticed == journal = "pending" /\ consent = "granted"

\* A revocation on its way to the end of the session and the process.
Revoking(k) == ops[k].kind = "revoke" /\ ops[k].step # "stop"

\* A session is live and a turn active only with the consent that is on disk, or while a
\* revocation is ending them: no session survives a revocation that failed half-way, is
\* opened on what the chat state alone believes, or comes out of a late answer.
LiveUnderConsent ==
    IsLiveSession \/ IsActiveTurn =>
        journal = "granted" \/ Unnoticed \/ \E k \in Clients : Revoking(k)

\* The dispatcher serves tool calls only of the turn that the chat state shows
\* as active, in its ready session.  One that outlived a crash, a logout, a
\* revocation or a failed start would let the model read the owner's data when
\* the owner sees no turn.
ToolsOnlyInActiveTurn ==
    dispatcher.turn # 0 /\ ~dispatcher.aborted =>
        /\ turn.id = dispatcher.turn /\ turn.status = "running"
        /\ session.id = dispatcher.session /\ session.status = "ready"
        /\ conversation

\* An answer is published as complete, and a turn shown as completed, only when
\* the API has committed it, whatever fails the turn meanwhile (ADR 0013).
ShownIsDurable ==
    /\ TypeOK
    /\ \A t \in shown : rows[t] = "completed"
    /\ turn.status = "completed" => rows[turn.id] = "completed"

\* Once a revocation is complete no provider process is left, no session is
\* live, no turn is active and no command waits for the provider.
RevokedIsQuiet ==
    journal = "revoked" /\ Urgent = {} =>
        /\ process = "none"
        /\ ~IsLiveSession /\ ~IsActiveTurn
        /\ dispatcher.turn # 0 => dispatcher.aborted
        /\ \A k \in Clients : ops[k].step \notin ProviderSteps

\* Between events the chat state calls the app server ready exactly when its
\* process is: every command that relies on it finds a process to talk to.
AppServerTracksProcess ==
    Urgent = {} /\ HostRuns => (appServer = "ready" <=> process = "ready")

\* A host that has stopped leaves no provider process, session or turn behind, nor a
\* dispatcher that would serve one: its exit is not what ends them.
StoppedIsQuiet ==
    host = "stopped" =>
        /\ process = "none" /\ appServer \in {"stopped", "crashed"}
        /\ ~IsLiveSession /\ ~IsActiveTurn
        /\ dispatcher.turn # 0 => dispatcher.aborted
        /\ ops = [k \in Clients |-> Idle]

\* What the host says of the provider is so, at every await and after every revocation,
\* crash, shutdown and late answer: it neither runs unseen nor is it missing where it is
\* relied on.
ProviderAsTold == RevokedIsQuiet /\ AppServerTracksProcess /\ StoppedIsQuiet

\* Command k has a thread started or resumed, or sends a turn to the provider.
Transfers(k) == /\ ops'[k].step \in {"thread", "turn_start"}
                /\ ops'[k].step # ops[k].step

\* A thread is started or resumed, and a turn is sent, only while the journal grants it,
\* although the check was steps earlier; or after a revocation that the owner was told
\* had failed (README, section 4).
TransfersUnderConsent ==
    [][\A k \in Clients : Transfers(k) => journal = "granted" \/ Unnoticed]_vars

\* A revocation that has begun is completed, or ends with no process left when the record
\* of that cannot be written: it never hangs in the barrier, whatever the provider, the
\* API and the other commands do.
RevocationCompletes ==
    \A k \in Clients :
        ops[k].kind = "revoke" ~> \/ journal # "pending" \/ ~HostRuns
                                  \/ ops[k].kind # "revoke" /\ process = "none"

\* A shutdown that has begun ends, and so does the host: no answer that does not come and
\* no session that cannot be closed keeps it, and with it Codex, alive.
ShutdownCompletes == \A k \in Clients : ops[k].kind = "shutdown" ~> ~HostRuns

\* What the owner ends comes to its end.
EndingsComplete == RevocationCompletes /\ ShutdownCompletes

=============================================================================
