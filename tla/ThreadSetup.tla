------------------------------ MODULE ThreadSetup ------------------------------
(***************************************************************************)
(* How a conversation gets its provider thread (finance-agent-service.ts,  *)
(* createSession and what it calls): the model catalog, the page's picker, *)
(* the thread that is started or resumed, the check of the configuration   *)
(* Codex echoes, the binding that the API keeps, and the usage reported by *)
(* thread.  Each request of createSession is an await: one step reads its  *)
(* answer, and before it the provider may die, the owner revoke or delete  *)
(* and the host end.  A request that fails may have been carried out.      *)
(* Turns, consent and authentication are AgentService's.                   *)
(***************************************************************************)
EXTENDS Naturals, FiniteSets, Sequences

CONSTANTS
    Conversations,
    Selections,    \* model, effort and fast mode: what may be asked for
    Unreviewed,    \* what Codex may offer or run beyond that, or Chelaro once supported
    Preset,        \* DEFAULT_FINANCE_MODEL_SELECTION
    MaxOpenings,   \* bound: requests to open a session
    MaxMishaps,    \* bound: failures, deaths, restarts, revocations, changes of the offer
    None

VARIABLES
    runtimes,  \* the API: the binding of each conversation, None or Deleted
    codex,     \* the provider: offers, each thread's configuration, subscribed threads
    agent,     \* the host: process, session, conversation, selection, catalog, usage
    opening,   \* createSession, while it awaits an answer
    picker     \* the page: the selection that the next request names

vars == <<runtimes, codex, agent, opening, picker>>

Threads == 1 .. Len(codex.runs)
Binding(t, s) == [thread |-> t, selection |-> s]
Deleted == Binding(0, None)
Bound(c) == runtimes[c] \notin {None, Deleted}

\* A host that has just begun: it has read the consent, and no process runs.
Begun == [provider |-> "checking", process |-> "none", session |-> None, conversation |-> None, selection |-> Preset,
          catalog |-> {}, usage |-> None]

\* A conversation may be bound to what the previous version of the application asked for.
Init ==
    /\ \E stored \in {<<>>} \cup {<<s>> : s \in Unreviewed}, of \in Conversations :
          /\ runtimes = [c \in Conversations |-> IF c = of /\ stored # <<>> THEN Binding(1, stored[1]) ELSE None]
          /\ codex = [offers |-> Selections, runs |-> stored, subscribed |-> {}, openings |-> 0, mishaps |-> 0]
    /\ agent = Begun
    /\ opening = None
    /\ picker = Preset

-----------------------------------------------------------------------------
(* The session *)

Session(c, state, t) == [on |-> c, state |-> state, thread |-> t]
Free(a) == a.session # None => a.session.state = "closed"
Is(a, state) == a.session # None /\ a.session.state = state

Lost(a) == IF Free(a) THEN a ELSE [a EXCEPT !.session.state = "lost"]
Closed(a) == [a EXCEPT !.session.state = "closed", !.conversation = None]
Crashed(a) == [Lost(a) EXCEPT !.process = "crashed", !.provider = "error"]
Deaf(x) == [x EXCEPT !.subscribed = {}]

CanMishap == codex.mishaps < MaxMishaps
Mishap(x) == [x EXCEPT !.mishaps = @ + 1]

-----------------------------------------------------------------------------
(* The provider process and its catalog *)

\* What may be found where Codex is looked for; only "ready" is launched.
Inspections == {"not_found", "error", "unsupported", "ready"}

\* refreshProvider, where no process runs: one that is found may still not start.
StartProvider ==
    /\ Free(agent) /\ agent.process = "none"
    /\ \/ \E found \in Inspections \ {"ready"} : agent' = [agent EXCEPT !.provider = found]
       \/ agent' = [agent EXCEPT !.provider = "ready", !.process = "ready"]
       \/ agent' = [agent EXCEPT !.provider = "error"]
    /\ UNCHANGED <<runtimes, codex, opening, picker>>

\* Of what Codex offers, the catalog keeps what Chelaro supports; a model that nobody has
\* reviewed is passed over, not an error.
Supported(offers) == offers \cap Selections

RefreshModelCatalog ==
    /\ agent.process = "ready"
    /\ agent' = [agent EXCEPT !.catalog = Supported(codex.offers)]
    /\ UNCHANGED <<runtimes, codex, opening, picker>>

\* Codex changes what it offers, unknown to the host.
OfferChanges ==
    /\ CanMishap
    /\ \E offers \in SUBSET (Selections \cup Unreviewed) \ {{}} : codex' = [Mishap(codex) EXCEPT !.offers = offers]
    /\ UNCHANGED <<runtimes, agent, opening, picker>>

-----------------------------------------------------------------------------
(* The picker *)

\* setSnapshot: without a session the picker shows the host's selection, whatever the
\* owner chose before.  The snapshot comes when it comes, also after the next request.
AdoptSelection ==
    /\ Free(agent) /\ picker # agent.selection
    /\ picker' = agent.selection
    /\ UNCHANGED <<runtimes, codex, agent, opening>>

\* What the picker makes of a choice is offered, unless the model it has is not: its
\* efforts are all there to choose from.  An empty catalog leaves nothing to choose.
ChooseSelection(s) ==
    /\ ~Is(agent, "ready") /\ agent.catalog # {}
    /\ picker \in agent.catalog => s \in agent.catalog
    /\ s # picker /\ picker' = s
    /\ UNCHANGED <<runtimes, codex, agent, opening>>

-----------------------------------------------------------------------------
(* createSession *)

CanAsk == codex.openings < MaxOpenings
Counted(x) == [x EXCEPT !.openings = @ + 1]

MayStart(a) == Free(a) /\ a.process = "ready"

\* Mutation of Begin: the usage is kept until the thread reports.
Begin_KeepsUsage(c, a) == IF MayStart(a) THEN [a EXCEPT !.session = Session(c, "starting", None)] ELSE a

\* The usage shown ends with the request, also with one that the reducer refuses.
Begin(c, a) ==
    LET idle == [a EXCEPT !.usage = None] IN
    IF MayStart(a) THEN [idle EXCEPT !.session = Session(c, "starting", None)] ELSE idle

\* assertOfferedSelection: an empty catalog offers everything.
Offered(s) == agent.catalog = {} \/ s \in agent.catalog

\* The gateway takes no request without a selection, so that none is defaulted here.
CreateSession(c) ==
    /\ CanAsk /\ Offered(picker)
    /\ agent' = Begin(c, agent)
    /\ opening' = IF ~MayStart(agent) THEN opening ELSE
                    [on |-> c, wants |-> picker, step |-> "config", binding |-> None, thread |-> None]
    /\ codex' = Counted(codex)
    /\ UNCHANGED <<runtimes, picker>>

\* The catch of createSession; a session that was lost or closed meanwhile stays it.
Fails == opening' = None /\ agent' = IF Is(agent, "starting") THEN Lost(agent) ELSE agent

\* The last steps of createSession await nothing.
Adopted(a, o) ==
    LET b == [a EXCEPT !.conversation = o.on, !.selection = o.wants] IN
    IF Is(a, "starting") THEN [b EXCEPT !.session = Session(o.on, "ready", o.thread)] ELSE b
Finishes(o) == opening' = None /\ agent' = Adopted(agent, o)

ReadConfig ==
    /\ opening # None /\ opening.step = "config" /\ agent.process = "ready"
    /\ opening' = [opening EXCEPT !.step = "runtime"]
    /\ UNCHANGED <<runtimes, codex, agent, picker>>

\* assertFinanceModelSelection
IsFinanceSelection(s) == s \in Selections

\* A binding to what is no longer supported is taken for a lost one: the conversation
\* can be read, but never be opened again.
Resumable(binding) == binding = None \/ IsFinanceSelection(binding.selection)

GetConversationRuntime ==
    /\ opening # None /\ opening.step = "runtime"
    /\ LET binding == runtimes[opening.on] IN
       IF binding = Deleted \/ ~Resumable(binding) THEN Fails
       ELSE opening' = [opening EXCEPT !.step = "thread", !.binding = binding] /\ UNCHANGED agent
    /\ UNCHANGED <<runtimes, codex, picker>>

\* What is asked of Codex: a thread of its own, or the bound one, with the configuration.
StartParams(s) == [thread |-> Len(codex.runs) + 1, config |-> s]
ResumeParams(t, s) == [thread |-> t, config |-> s]
Params(o) == IF o.binding = None THEN StartParams(o.wants) ELSE ResumeParams(o.binding.thread, o.wants)

\* What Codex runs: something else, without an error, where it does not offer that.
Echoes(s) == IF s \in codex.offers THEN {s} ELSE codex.offers
Run(x, t, echo) ==
    [x EXCEPT !.runs = IF t > Len(@) THEN Append(@, echo) ELSE [@ EXCEPT ![t] = echo],
              !.subscribed = @ \cup {t}]

\* Mutation of SafeResponse: the configuration echoed is not compared.
SafeResponse_AnyEcho(echo, s) == TRUE

SafeResponse(echo, s) == echo = s

\* A binding is written where it is new or changed.
NeedsBinding(o) == o.binding = None \/ o.binding.selection # o.wants

\* thread/start or thread/resume, and the check of its answer.
RequestThread ==
    /\ opening # None /\ opening.step = "thread" /\ agent.process = "ready"
    /\ LET params == Params(opening)
           o == [opening EXCEPT !.step = "bind", !.thread = params.thread] IN
       \E echo \in Echoes(params.config) :
          /\ codex' = Run(codex, params.thread, echo)
          /\ IF ~SafeResponse(echo, opening.wants) THEN Fails
             ELSE IF NeedsBinding(o) THEN opening' = o /\ UNCHANGED agent
             ELSE Finishes(o)
    /\ UNCHANGED <<runtimes, picker>>

\* bind_runtime of the API: a conversation keeps its thread, a thread its conversation.
CanBind(c, t) ==
    /\ runtimes[c] # Deleted
    /\ Bound(c) => runtimes[c].thread = t
    /\ \A d \in Conversations \ {c} : Bound(d) => runtimes[d].thread # t

BindConversationRuntime ==
    /\ opening # None /\ opening.step = "bind"
    /\ IF CanBind(opening.on, opening.thread)
         THEN /\ runtimes' = [runtimes EXCEPT ![opening.on] = Binding(opening.thread, opening.wants)]
              /\ Finishes(opening)
         ELSE UNCHANGED runtimes /\ Fails
    /\ UNCHANGED <<codex, picker>>

\* A process that is gone rejects what it is asked.
Rejected == agent.process # "ready" /\ opening.step \in {"config", "thread"}

\* The answer of a request is an error, or does not come: what was asked may be done.
RequestFails ==
    /\ opening # None
    /\ Rejected \/ CanMishap
    /\ LET x == IF Rejected THEN codex ELSE Mishap(codex) IN
       \/ codex' = x /\ UNCHANGED runtimes
       \/ /\ opening.step = "thread" /\ ~Rejected /\ UNCHANGED runtimes
          /\ \E echo \in Echoes(opening.wants) : codex' = Run(x, Params(opening).thread, echo)
       \/ /\ opening.step = "bind" /\ CanBind(opening.on, opening.thread) /\ codex' = x
          /\ runtimes' = [runtimes EXCEPT ![opening.on] = Binding(opening.thread, opening.wants)]
    /\ Fails
    /\ UNCHANGED picker

-----------------------------------------------------------------------------
(* The end of a session *)

Unsubscribed(x, t) == [x EXCEPT !.subscribed = @ \ {t}]

\* closeSession; thread/unsubscribe must be answered that the thread was subscribed.
CloseSession ==
    /\ Is(agent, "ready") /\ agent.process = "ready" /\ agent.session.thread \in codex.subscribed
    /\ codex' = Unsubscribed(codex, agent.session.thread)
    /\ agent' = Closed(agent)
    /\ UNCHANGED <<runtimes, opening, picker>>

\* The answer does not come; the session stays, whether its thread does or not.
CloseFails ==
    /\ CanMishap /\ Is(agent, "ready") /\ agent.process = "ready"
    /\ codex' \in {Mishap(codex), Unsubscribed(Mishap(codex), agent.session.thread)}
    /\ UNCHANGED <<runtimes, agent, opening, picker>>

\* handleFatalProcessError
ProviderDies ==
    /\ CanMishap /\ agent.process = "ready"
    /\ agent' = Crashed(agent)
    /\ codex' = Deaf(Mishap(codex))
    /\ UNCHANGED <<runtimes, opening, picker>>

\* revokeConsent: a session that cannot be closed is lost, and the process is stopped.
RevokeConsent ==
    /\ CanMishap /\ agent.process # "none"
    /\ \E a \in {IF Is(agent, "lost") \/ Free(agent) THEN agent ELSE Crashed(agent)}
                 \cup (IF Is(agent, "ready") THEN {Closed(agent)} ELSE {}) :
          agent' = [a EXCEPT !.process = IF @ = "ready" THEN "none" ELSE @]
    /\ codex' = Deaf(Mishap(codex))
    /\ UNCHANGED <<runtimes, opening, picker>>

\* The host ends, or dies, and the next one begins with nothing but what the API keeps.
HostRestarts ==
    /\ CanMishap /\ agent # Begun
    /\ agent' = Begun /\ opening' = None
    /\ codex' = Deaf(Mishap(codex))
    /\ UNCHANGED <<runtimes, picker>>

\* The page has the host let go of the conversation and then the API delete it.  The host
\* refuses for its session's, once that is known for it, and Codex for one that is bound.
DeleteConversation(c) ==
    /\ CanMishap /\ ~(agent.conversation = c /\ ~Free(agent)) /\ ~Bound(c)
    /\ runtimes' = [runtimes EXCEPT ![c] = Deleted]
    /\ codex' = Mishap(codex)
    /\ UNCHANGED <<agent, opening, picker>>

-----------------------------------------------------------------------------
(* Notifications of the provider *)

HasThread(a) == a.session # None /\ a.session.thread # None

\* thread/tokenUsage/updated, or a compaction: a report of a thread that is not the
\* session's is taken for another stream than the one that was verified.
ReportUsage(t) ==
    /\ t \in codex.subscribed /\ agent.process = "ready"
    /\ agent' = IF ~HasThread(agent) THEN agent
                ELSE IF t # agent.session.thread THEN Crashed(agent)
                ELSE [agent EXCEPT !.usage = t]
    /\ UNCHANGED <<runtimes, codex, opening, picker>>

\* A notification that may not reach the assistant is fatal: above all that the model
\* was rerouted, by which the thread runs on what nobody verified.
NotifiesForbidden ==
    /\ CanMishap /\ agent.process = "ready"
    /\ \E t \in codex.subscribed, s \in Selections \cup Unreviewed : codex' = Deaf(Mishap([codex EXCEPT !.runs[t] = s]))
    /\ agent' = Crashed(agent)
    /\ UNCHANGED <<runtimes, opening, picker>>

Next ==
    \/ StartProvider \/ RefreshModelCatalog \/ OfferChanges
    \/ AdoptSelection \/ \E s \in Selections : ChooseSelection(s)
    \/ \E c \in Conversations : CreateSession(c)
    \/ ReadConfig \/ GetConversationRuntime \/ RequestThread \/ BindConversationRuntime \/ RequestFails
    \/ CloseSession \/ CloseFails \/ ProviderDies \/ RevokeConsent \/ HostRestarts
    \/ \E c \in Conversations : DeleteConversation(c)
    \/ \E t \in Threads : ReportUsage(t)
    \/ NotifiesForbidden

Spec == Init /\ [][Next]_vars

-----------------------------------------------------------------------------
\* While a session is ready, the configuration shown is the one its thread runs on and the
\* one the API keeps for the conversation, whatever was refused, substituted or done unheard
\* in this opening or an earlier one (finance-agent-service.ts:285-331).
ReadyAsBound ==
    Is(agent, "ready") =>
        LET s == agent.session IN
        /\ s.on = agent.conversation
        /\ agent.selection = codex.runs[s.thread]
        /\ runtimes[s.on] \in {Binding(s.thread, agent.selection), Deleted}

\* The thread of the session is the only one that reports: no report ever ends a session
\* as a protocol failure, and none shown is another conversation's (finance-agent-service.ts:590-600).
OneThreadReports ==
    HasThread(agent) =>
        /\ codex.subscribed \subseteq {agent.session.thread}
        /\ agent.usage \in {None, agent.session.thread}
=============================================================================
