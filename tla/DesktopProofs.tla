---------------------------- MODULE DesktopProofs ----------------------------
(***************************************************************************)
(* What is proved of the opening of a session in the host, and of the      *)
(* start, the end and the updates of the desktop application, for every    *)
(* value of the constants.  Each part has an inductive invariant of its    *)
(* own.                                                                    *)
(***************************************************************************)
EXTENDS Application, Sequences, SequenceTheorems, TLAPS

\* A behaviour is one of one part.
LEMMA PartStep ==
    ASSUME [Next]_vars
    PROVE  /\ part' = part
           /\ part = "threads" => ThreadSetup!Next \/ UNCHANGED threads
           /\ part = "updates" => DesktopUpdate!Next \/ UNCHANGED updates
           /\ part = "runtime" => DesktopRuntime!Next \/ UNCHANGED runtime
  BY DEF Next, vars, WorkbookStep, DashboardStep, DocumentStep, BankingStep, ProposalStep, AssistantStep,
     ThreadStep, UpdateStep, RuntimeStep


-----------------------------------------------------------------------------
(* The opening of a session *)

Selectable == Selections \cup Unreviewed
BindingSet == [thread : Nat, selection : Selectable \cup {None}]
SessionSet == [on : Conversations, state : {"starting", "ready", "lost", "closed"}, thread : Nat \cup {None}]
CodexSet == [offers : SUBSET Selectable, runs : Seq(Selectable), subscribed : SUBSET Nat,
             openings : Nat, mishaps : Nat]
AgentSet == [provider : {"checking", "not_found", "error", "unsupported", "ready"},
             process : {"none", "ready", "crashed"}, session : SessionSet \cup {None},
             conversation : Conversations \cup {None}, selection : Selectable, catalog : SUBSET Selectable,
             usage : Nat \cup {None}]
OpeningSet == [on : Conversations, wants : Selectable, step : {"config", "runtime", "thread", "bind"},
               binding : BindingSet \cup {None}, thread : Nat \cup {None}]

SetupTyped ==
    /\ runtimes \in [Conversations -> BindingSet \cup {None}]
    /\ codex \in CodexSet
    /\ agent \in AgentSet
    /\ opening \in OpeningSet \cup {None}
    /\ picker \in Selectable

\* What the API keeps names a thread that Codex has.
BindingsFit == \A c \in Conversations : ThreadSetup!Bound(c) => runtimes[c].thread \in ThreadSetup!Threads

\* While the opening awaits an answer its session is the one that starts, or it was lost
\* with the process.  What the opening read of the binding is still so, and the thread
\* it verified runs on what the owner asked for and is the only one that reports.
OpeningFits(o) ==
    /\ agent.session # None /\ agent.session.on = o.on /\ agent.session.thread = None
    /\ agent.session.state \in {"starting", "lost"}
    /\ agent.session.state = "lost" => agent.process # "ready" /\ codex.subscribed = {}
    /\ agent.session.state = "starting" =>
          /\ agent.process = "ready" /\ agent.usage = None
          /\ IF o.step = "bind" THEN codex.subscribed \subseteq {o.thread} /\ codex.runs[o.thread] = o.wants
             ELSE codex.subscribed = {}
    /\ o.binding # None => o.binding = runtimes[o.on] /\ o.binding.thread \in ThreadSetup!Threads
    /\ o.step = "bind" => o.thread \in ThreadSetup!Threads

\* Nothing reports between two sessions.
SetupInv ==
    /\ SetupTyped
    /\ BindingsFit
    /\ ThreadSetup!Free(agent) => codex.subscribed = {}
    /\ ThreadSetup!Is(agent, "starting") => opening # None
    /\ opening # None => OpeningFits(opening)
    /\ ThreadSetup!Is(agent, "ready") => agent.session.thread \in ThreadSetup!Threads
    /\ ThreadSetup!ReadyAsBound
    /\ ThreadSetup!OneThreadReports

\* None is no session, no binding and no opening.
LEMMA SetupNone == None \notin SessionSet /\ None \notin BindingSet /\ None \notin OpeningSet /\ None \notin Nat
  BY NoneApart DEF SessionSet, BindingSet, OpeningSet, Selectable

\* A host that has just begun has no session, and the provider reports nothing to it.
LEMMA SetupInit == ThreadSetup!Init => SetupInv
<1> SUFFICES ASSUME ThreadSetup!Init PROVE SetupInv
  OBVIOUS
<1>1. PICK stored \in {<<>>} \cup {<<s>> : s \in Unreviewed}, of \in Conversations :
         /\ runtimes = [c \in Conversations |-> IF c = of /\ stored # <<>>
                                                  THEN ThreadSetup!Binding(1, stored[1]) ELSE None]
         /\ codex = [offers |-> Selections, runs |-> stored, subscribed |-> {}, openings |-> 0, mishaps |-> 0]
  BY DEF ThreadSetup!Init
<1>2. /\ agent = [provider |-> "checking", process |-> "none", session |-> None, conversation |-> None,
                  selection |-> Preset, catalog |-> {}, usage |-> None]
      /\ opening = None /\ picker = Preset
  BY DEF ThreadSetup!Init, ThreadSetup!Begun
<1>3. /\ stored \in Seq(Selectable)
      /\ stored # <<>> => Len(stored) = 1 /\ stored[1] \in Selectable
  <2>1. CASE stored = <<>>
    BY <2>1
  <2>2. ASSUME NEW s \in Unreviewed, stored = <<s>>
        PROVE  stored \in Seq(Selectable) /\ Len(stored) = 1 /\ stored[1] \in Selectable
    BY <2>2 DEF Selectable
  <2> QED BY <2>1, <2>2
<1>4. SetupTyped
  <2>1. runtimes \in [Conversations -> BindingSet \cup {None}]
    BY <1>1, <1>3 DEF BindingSet, ThreadSetup!Binding
  <2>2. codex \in CodexSet
    BY <1>1, <1>3 DEF CodexSet, Selectable
  <2>3. agent \in AgentSet
    BY <1>2, PresetReviewed DEF AgentSet, Selectable
  <2> QED BY <1>2, <2>1, <2>2, <2>3, PresetReviewed DEF SetupTyped, Selectable
<1>5. BindingsFit
  <2> SUFFICES ASSUME NEW c \in Conversations, ThreadSetup!Bound(c)
               PROVE  runtimes[c].thread \in ThreadSetup!Threads
    BY DEF BindingsFit
  <2>1. stored # <<>> /\ runtimes[c] = [thread |-> 1, selection |-> stored[1]]
    BY <1>1 DEF ThreadSetup!Bound, ThreadSetup!Binding
  <2> QED BY <1>1, <1>3, <2>1 DEF ThreadSetup!Threads
<1>6. agent.session = None /\ codex.subscribed = {}
  BY <1>1, <1>2
<1> QED BY <1>2, <1>4, <1>5, <1>6 DEF SetupInv, ThreadSetup!Is, ThreadSetup!Free, ThreadSetup!ReadyAsBound,
        ThreadSetup!OneThreadReports, ThreadSetup!HasThread

\* Nothing that the opening, the session or the binding stands on changes.
LEMMA SetupStays ==
    ASSUME SetupInv, SetupTyped', UNCHANGED <<runtimes, opening>>,
           agent'.session = agent.session, agent'.conversation = agent.conversation,
           agent'.selection = agent.selection, agent'.usage = agent.usage,
           agent'.process = agent.process \/ ThreadSetup!Free(agent),
           codex'.runs = codex.runs, codex'.subscribed \subseteq codex.subscribed
    PROVE  SetupInv'
<1> USE DEF SetupInv, ThreadSetup!Is, ThreadSetup!Free, ThreadSetup!Threads
<1>1. BindingsFit'
  BY DEF BindingsFit, ThreadSetup!Bound
<1>2. opening' # None => OpeningFits(opening)'
  <2> SUFFICES ASSUME opening # None PROVE OpeningFits(opening)'
    OBVIOUS
  <2>1. ~ThreadSetup!Free(agent)
    BY DEF OpeningFits
  <2> QED BY <2>1 DEF OpeningFits
<1>3. ThreadSetup!ReadyAsBound'
  BY DEF ThreadSetup!ReadyAsBound
<1>4. ThreadSetup!OneThreadReports'
  BY DEF ThreadSetup!OneThreadReports, ThreadSetup!HasThread
<1> QED BY <1>1, <1>2, <1>3, <1>4

\* The process is gone: whatever session there was is lost or closed, and nothing reports.
LEMMA SetupCrashes ==
    ASSUME SetupInv, SetupTyped', UNCHANGED <<runtimes, opening>>,
           agent'.session = IF ThreadSetup!Free(agent) THEN agent.session
                  ELSE [agent.session EXCEPT !.state = "lost"],
           agent'.process # "ready", agent'.usage = agent.usage,
           Len(codex'.runs) = Len(codex.runs), codex'.subscribed = {}
    PROVE  SetupInv'
<1> USE DEF SetupInv, ThreadSetup!Is, ThreadSetup!Free, ThreadSetup!Threads
<1>1. BindingsFit'
  BY DEF BindingsFit, ThreadSetup!Bound
<1>2. agent.session # None => agent.session \in SessionSet
  BY DEF SetupTyped, AgentSet
<1>3. ~ThreadSetup!Free(agent) =>
         /\ agent'.session # None /\ agent'.session.state = "lost"
         /\ agent'.session.on = agent.session.on /\ agent'.session.thread = agent.session.thread
         /\ agent'.session \in SessionSet
  BY <1>2, SetupNone DEF SessionSet
<1>4. ~ThreadSetup!Is(agent, "ready")' /\ ~ThreadSetup!Is(agent, "starting")'
  BY <1>3
<1>5. opening' # None => OpeningFits(opening)'
  <2> SUFFICES ASSUME opening # None PROVE OpeningFits(opening)'
    OBVIOUS
  <2>1. ~ThreadSetup!Free(agent) /\ agent.session.on = opening.on /\ agent.session.thread = None
    BY DEF OpeningFits
  <2> QED BY <1>3, <2>1 DEF OpeningFits
<1>6. ThreadSetup!OneThreadReports'
  BY <1>3 DEF ThreadSetup!OneThreadReports, ThreadSetup!HasThread
<1> QED BY <1>1, <1>4, <1>5, <1>6 DEF ThreadSetup!ReadyAsBound

\* What a host is after its process crashed.
LEMMA CrashedAgent ==
    ASSUME agent \in AgentSet, NEW a, a = ThreadSetup!Crashed(agent)
    PROVE  /\ a \in AgentSet /\ a.process = "crashed" /\ a.usage = agent.usage
           /\ a.conversation = agent.conversation /\ a.selection = agent.selection
           /\ a.session = IF ThreadSetup!Free(agent) THEN agent.session ELSE [agent.session EXCEPT !.state = "lost"]
<1>1. PICK b : b = ThreadSetup!Lost(agent)
  OBVIOUS
<1>2. /\ b \in AgentSet /\ b.usage = agent.usage
      /\ b.conversation = agent.conversation /\ b.selection = agent.selection
      /\ b.session = IF ThreadSetup!Free(agent) THEN agent.session ELSE [agent.session EXCEPT !.state = "lost"]
  <2>1. CASE ThreadSetup!Free(agent)
    BY <1>1, <2>1 DEF ThreadSetup!Lost
  <2>2. CASE ~ThreadSetup!Free(agent)
    <3>1. agent.session \in SessionSet
      BY <2>2 DEF ThreadSetup!Free, AgentSet
    <3>2. b = [agent EXCEPT !.session.state = "lost"]
      BY <1>1, <2>2 DEF ThreadSetup!Lost
    <3>3. b = [agent EXCEPT !.session = [agent.session EXCEPT !.state = "lost"]]
      BY <3>2 DEF AgentSet
    <3>4. [agent.session EXCEPT !.state = "lost"] \in SessionSet
      BY <3>1 DEF SessionSet
    <3> QED BY <2>2, <3>3, <3>4 DEF AgentSet
  <2> QED BY <2>1, <2>2
<1>3. a = [b EXCEPT !.process = "crashed", !.provider = "error"]
  BY <1>1 DEF ThreadSetup!Crashed
<1> QED BY <1>2, <1>3 DEF AgentSet

\* What a mishap counts, and what is deaf after it.
LEMMA MishapCodex ==
    ASSUME NEW x \in CodexSet, NEW y, y = ThreadSetup!Mishap(x)
    PROVE  /\ y \in CodexSet /\ y.runs = x.runs /\ y.subscribed = x.subscribed /\ y.offers = x.offers
           /\ ThreadSetup!Deaf(y) \in CodexSet /\ ThreadSetup!Deaf(y).runs = x.runs
           /\ ThreadSetup!Deaf(y).subscribed = {}
<1>1. y \in CodexSet /\ y.runs = x.runs /\ y.subscribed = x.subscribed /\ y.offers = x.offers
  BY DEF ThreadSetup!Mishap, CodexSet
<1> QED BY <1>1 DEF ThreadSetup!Deaf, CodexSet

\* Another thing is run on a thread.
LEMMA RunsElse ==
    ASSUME NEW S, NEW q \in Seq(S), NEW t, NEW s \in S
    PROVE  [q EXCEPT ![t] = s] \in Seq(S) /\ Len([q EXCEPT ![t] = s]) = Len(q)
<1>1. CASE t \in 1 .. Len(q)
  BY <1>1, ExceptSeq
<1>2. CASE t \notin 1 .. Len(q)
  <2>1. [q EXCEPT ![t] = s] = q
    BY <1>2
  <2> QED BY <2>1
<1> QED BY <1>1, <1>2

\* The steps of the provider, the catalog and the picker that concern no session.
LEMMA SetupIdleStep ==
    ASSUME SetupInv,
           \/ ThreadSetup!StartProvider \/ ThreadSetup!RefreshModelCatalog \/ ThreadSetup!OfferChanges
           \/ ThreadSetup!AdoptSelection \/ \E s \in Selections : ThreadSetup!ChooseSelection(s)
           \/ ThreadSetup!CloseFails
    PROVE  SetupInv'
<1>1. SetupTyped /\ agent \in AgentSet /\ codex \in CodexSet
  BY DEF SetupInv, SetupTyped
<1>2. CASE ThreadSetup!StartProvider
  <2>1. /\ agent' \in AgentSet /\ agent'.session = agent.session /\ agent'.conversation = agent.conversation
        /\ agent'.selection = agent.selection /\ agent'.usage = agent.usage
    BY <1>1, <1>2 DEF ThreadSetup!StartProvider, ThreadSetup!Inspections, AgentSet
  <2> QED BY <1>1, <1>2, <2>1, SetupStays DEF ThreadSetup!StartProvider, SetupTyped
<1>3. CASE ThreadSetup!RefreshModelCatalog
  <2>1. ThreadSetup!Supported(codex.offers) \in SUBSET Selectable
    BY DEF ThreadSetup!Supported, Selectable
  <2>2. /\ agent' \in AgentSet /\ agent'.session = agent.session /\ agent'.conversation = agent.conversation
        /\ agent'.selection = agent.selection /\ agent'.usage = agent.usage /\ agent'.process = agent.process
    BY <1>1, <1>3, <2>1 DEF ThreadSetup!RefreshModelCatalog, AgentSet
  <2> QED BY <1>1, <1>3, <2>2, SetupStays DEF ThreadSetup!RefreshModelCatalog, SetupTyped
<1>4. CASE ThreadSetup!OfferChanges
  <2>1. codex' \in CodexSet /\ codex'.runs = codex.runs /\ codex'.subscribed = codex.subscribed
    <3>1. PICK y : y = ThreadSetup!Mishap(codex)
      OBVIOUS
    <3>2. PICK offer \in SUBSET Selectable : codex' = [y EXCEPT !.offers = offer]
      BY <1>4, <3>1 DEF ThreadSetup!OfferChanges, Selectable
    <3>3. y \in CodexSet /\ y.runs = codex.runs /\ y.subscribed = codex.subscribed
      BY <1>1, <3>1, MishapCodex
    <3> QED BY <3>2, <3>3 DEF CodexSet
  <2> QED BY <1>1, <1>4, <2>1, SetupStays DEF ThreadSetup!OfferChanges, SetupTyped
<1>5. CASE ThreadSetup!AdoptSelection
  <2>1. agent.selection \in Selectable
    BY <1>1 DEF AgentSet
  <2> QED BY <1>1, <1>5, <2>1, SetupStays DEF ThreadSetup!AdoptSelection, SetupTyped
<1>6. CASE \E s \in Selections : ThreadSetup!ChooseSelection(s)
  BY <1>1, <1>6, SetupStays DEF ThreadSetup!ChooseSelection, SetupTyped, Selectable
<1>7. CASE ThreadSetup!CloseFails
  <2>1. codex' \in CodexSet /\ codex'.runs = codex.runs /\ codex'.subscribed \subseteq codex.subscribed
    <3>1. PICK y : y = ThreadSetup!Mishap(codex)
      OBVIOUS
    <3>2. y \in CodexSet /\ y.runs = codex.runs /\ y.subscribed = codex.subscribed
      BY <1>1, <3>1, MishapCodex
    <3>3. codex' = y \/ codex' = [y EXCEPT !.subscribed = @ \ {agent.session.thread}]
      BY <1>7, <3>1 DEF ThreadSetup!CloseFails, ThreadSetup!Unsubscribed
    <3>4. y.subscribed \ {agent.session.thread} \in SUBSET Nat
      BY <3>2 DEF CodexSet
    <3> QED BY <3>2, <3>3, <3>4 DEF CodexSet
  <2> QED BY <1>1, <1>7, <2>1, SetupStays DEF ThreadSetup!CloseFails, SetupTyped
<1> QED BY <1>2, <1>3, <1>4, <1>5, <1>6, <1>7

\* A ready session is closed: the conversation is let go of.
LEMMA SetupCloses ==
    ASSUME SetupInv, SetupTyped', UNCHANGED <<runtimes, opening>>, ThreadSetup!Is(agent, "ready"),
           agent'.session = [agent.session EXCEPT !.state = "closed"], agent'.usage = agent.usage,
           codex'.runs = codex.runs, codex'.subscribed = {}
    PROVE  SetupInv'
<1>1. agent.session \in SessionSet /\ agent.session.state = "ready"
  BY DEF SetupInv, SetupTyped, AgentSet, ThreadSetup!Is
<1>2. agent'.session \in SessionSet /\ agent'.session.state = "closed" /\ agent'.session.thread = agent.session.thread
  BY <1>1 DEF SessionSet
<1>3. opening = None
  BY <1>1 DEF SetupInv, OpeningFits
<1>4. ThreadSetup!OneThreadReports'
  BY <1>2, SetupNone, <1>1 DEF SetupInv, ThreadSetup!OneThreadReports, ThreadSetup!HasThread, ThreadSetup!Is
<1>5. BindingsFit'
  BY DEF SetupInv, BindingsFit, ThreadSetup!Bound, ThreadSetup!Threads
<1> QED BY <1>2, <1>3, <1>4, <1>5 DEF SetupInv, ThreadSetup!Is, ThreadSetup!Free, ThreadSetup!ReadyAsBound

\* What a host is that closed its session.
LEMMA ClosedAgent ==
    ASSUME agent \in AgentSet, ThreadSetup!Is(agent, "ready"), NEW a, a = ThreadSetup!Closed(agent)
    PROVE  /\ a \in AgentSet /\ a.usage = agent.usage /\ a.process = agent.process
           /\ a.session = [agent.session EXCEPT !.state = "closed"]
<1>1. agent.session \in SessionSet
  BY DEF ThreadSetup!Is, AgentSet
<1>2. [agent.session EXCEPT !.state = "closed"] \in SessionSet
  BY <1>1 DEF SessionSet
<1>3. a = [[agent EXCEPT !.session = [agent.session EXCEPT !.state = "closed"]] EXCEPT !.conversation = None]
  BY DEF ThreadSetup!Closed, AgentSet
<1> QED BY <1>2, <1>3 DEF AgentSet

\* The session ends: it is closed, or the process dies, is stopped or is found untrustworthy.
LEMMA SetupEndStep ==
    ASSUME SetupInv,
           \/ ThreadSetup!CloseSession \/ ThreadSetup!ProviderDies \/ ThreadSetup!RevokeConsent
           \/ ThreadSetup!NotifiesForbidden
    PROVE  SetupInv'
<1>1. SetupTyped /\ agent \in AgentSet /\ codex \in CodexSet
  BY DEF SetupInv, SetupTyped
<1>2. CASE ThreadSetup!CloseSession
  <2>1. codex'.subscribed = {} /\ codex' \in CodexSet /\ codex'.runs = codex.runs
    <3>1. ThreadSetup!HasThread(agent)
      BY <1>1, <1>2, SetupNone DEF ThreadSetup!CloseSession, ThreadSetup!Is, ThreadSetup!HasThread, CodexSet
    <3>2. codex.subscribed \subseteq {agent.session.thread}
      BY <3>1 DEF SetupInv, ThreadSetup!OneThreadReports
    <3> QED BY <1>1, <1>2, <3>2 DEF ThreadSetup!CloseSession, ThreadSetup!Unsubscribed, CodexSet
  <2>2. agent' = ThreadSetup!Closed(agent) /\ ThreadSetup!Is(agent, "ready")
           /\ UNCHANGED <<runtimes, opening, picker>>
    BY <1>2 DEF ThreadSetup!CloseSession
  <2>3. /\ agent' \in AgentSet /\ agent'.usage = agent.usage
        /\ agent'.session = [agent.session EXCEPT !.state = "closed"]
    BY <1>1, <2>2, ClosedAgent
  <2> QED BY <1>1, <2>1, <2>2, <2>3, SetupCloses DEF SetupTyped
<1>3. CASE ThreadSetup!ProviderDies
  <2>1. /\ agent' = ThreadSetup!Crashed(agent) /\ codex' = ThreadSetup!Deaf(ThreadSetup!Mishap(codex))
        /\ UNCHANGED <<runtimes, opening, picker>>
    BY <1>3 DEF ThreadSetup!ProviderDies
  <2>2. SetupTyped'
    BY <1>1, <2>1, CrashedAgent, MishapCodex DEF SetupTyped
  <2> QED BY <1>1, <2>1, <2>2, CrashedAgent, MishapCodex, SetupCrashes
<1>4. CASE ThreadSetup!NotifiesForbidden
  <2>1. PICK t \in codex.subscribed, s \in Selections \cup Unreviewed :
           codex' = ThreadSetup!Deaf(ThreadSetup!Mishap([codex EXCEPT !.runs[t] = s]))
    BY <1>4 DEF ThreadSetup!NotifiesForbidden
  <2>2. [codex.runs EXCEPT ![t] = s] \in Seq(Selectable) /\ Len([codex.runs EXCEPT ![t] = s]) = Len(codex.runs)
    <3>1. codex.runs \in Seq(Selectable) /\ s \in Selectable
      BY <1>1 DEF CodexSet, Selectable
    <3> QED BY <3>1, RunsElse
  <2>3. PICK x : x = [codex EXCEPT !.runs = [codex.runs EXCEPT ![t] = s]]
    OBVIOUS
  <2>4. x \in CodexSet /\ Len(x.runs) = Len(codex.runs) /\ codex' = ThreadSetup!Deaf(ThreadSetup!Mishap(x))
    BY <1>1, <2>1, <2>2, <2>3 DEF CodexSet
  <2>5. codex' \in CodexSet /\ Len(codex'.runs) = Len(codex.runs) /\ codex'.subscribed = {}
    BY <2>4, MishapCodex
  <2>6. agent' = ThreadSetup!Crashed(agent) /\ UNCHANGED <<runtimes, opening, picker>>
    BY <1>4 DEF ThreadSetup!NotifiesForbidden
  <2>7. SetupTyped'
    BY <1>1, <2>5, <2>6, CrashedAgent DEF SetupTyped
  <2> QED BY <1>1, <2>5, <2>6, <2>7, CrashedAgent, SetupCrashes
<1>5. CASE ThreadSetup!RevokeConsent
  <2>1. PICK a : /\ \/ a = IF ThreadSetup!Is(agent, "lost") \/ ThreadSetup!Free(agent) THEN agent
                           ELSE ThreadSetup!Crashed(agent)
                    \/ ThreadSetup!Is(agent, "ready") /\ a = ThreadSetup!Closed(agent)
                 /\ agent' = [a EXCEPT !.process = IF @ = "ready" THEN "none" ELSE @]
    BY <1>5 DEF ThreadSetup!RevokeConsent
  <2>2. codex' \in CodexSet /\ codex'.runs = codex.runs /\ codex'.subscribed = {}
           /\ UNCHANGED <<runtimes, opening, picker>>
    BY <1>1, <1>5, MishapCodex DEF ThreadSetup!RevokeConsent
  <2>3. CASE ThreadSetup!Is(agent, "ready") /\ a = ThreadSetup!Closed(agent)
    <3>1. a \in AgentSet /\ a.usage = agent.usage /\ a.session = [agent.session EXCEPT !.state = "closed"]
      BY <1>1, <2>3, ClosedAgent
    <3>2. agent' \in AgentSet /\ agent'.usage = a.usage /\ agent'.session = a.session
      BY <2>1, <3>1 DEF AgentSet
    <3> QED BY <1>1, <2>2, <2>3, <3>1, <3>2, SetupCloses DEF SetupTyped
  <2>4. CASE a = IF ThreadSetup!Is(agent, "lost") \/ ThreadSetup!Free(agent) THEN agent
                 ELSE ThreadSetup!Crashed(agent)
    <3>1. /\ a \in AgentSet /\ a.usage = agent.usage
          /\ a.session = IF ThreadSetup!Free(agent) THEN agent.session ELSE [agent.session EXCEPT !.state = "lost"]
      <4>1. CASE ThreadSetup!Free(agent)
        BY <1>1, <2>4, <4>1
      <4>2. CASE ThreadSetup!Is(agent, "lost")
        <5>1. agent.session \in SessionSet /\ agent.session.state = "lost" /\ ~ThreadSetup!Free(agent)
          BY <1>1, <4>2 DEF ThreadSetup!Is, AgentSet, ThreadSetup!Free
        <5>2. agent.session = [agent.session EXCEPT !.state = "lost"]
          BY <5>1 DEF SessionSet
        <5> QED BY <1>1, <2>4, <4>2, <5>1, <5>2
      <4>3. CASE ~ThreadSetup!Free(agent) /\ ~ThreadSetup!Is(agent, "lost")
        BY <1>1, <2>4, <4>3, CrashedAgent
      <4> QED BY <4>1, <4>2, <4>3
    <3>2. agent' \in AgentSet /\ agent'.usage = a.usage /\ agent'.session = a.session /\ agent'.process # "ready"
      BY <2>1, <3>1 DEF AgentSet
    <3> QED BY <1>1, <2>2, <3>1, <3>2, SetupCrashes DEF SetupTyped
  <2> QED BY <2>1, <2>3, <2>4
<1> QED BY <1>2, <1>3, <1>4, <1>5

\* A thread is run: a new one, or one that Codex has.
LEMMA RunFits ==
    ASSUME NEW y \in CodexSet, NEW t \in 1 .. Len(y.runs) + 1, NEW echo \in Selectable,
           NEW x, x = ThreadSetup!Run(y, t, echo)
    PROVE  /\ x \in CodexSet /\ Len(x.runs) >= Len(y.runs) /\ t \in 1 .. Len(x.runs)
           /\ x.runs[t] = echo /\ x.subscribed = y.subscribed \cup {t}
<1>1. y.runs \in Seq(Selectable) /\ y.subscribed \cup {t} \in SUBSET Nat
  BY DEF CodexSet
<1>2. PICK q : q = IF t > Len(y.runs) THEN Append(y.runs, echo) ELSE [y.runs EXCEPT ![t] = echo]
  OBVIOUS
<1>3. q \in Seq(Selectable) /\ Len(q) >= Len(y.runs) /\ t \in 1 .. Len(q) /\ q[t] = echo
  <2>1. CASE t > Len(y.runs)
    BY <1>1, <1>2, <2>1, AppendProperties
  <2>2. CASE t <= Len(y.runs)
    BY <1>1, <1>2, <2>2, ExceptSeq
  <2> QED BY <1>1, <2>1, <2>2
<1>4. x = [y EXCEPT !.runs = q, !.subscribed = y.subscribed \cup {t}]
  BY <1>2 DEF ThreadSetup!Run, CodexSet
<1> QED BY <1>1, <1>3, <1>4 DEF CodexSet

\* An opening that is given up leaves its session lost.
LEMMA FailsFits ==
    ASSUME SetupInv, opening # None, ThreadSetup!Fails, UNCHANGED picker, codex' \in CodexSet,
           runtimes' \in [Conversations -> BindingSet \cup {None}], BindingsFit'
    PROVE  SetupInv'
<1>1. /\ agent \in AgentSet /\ agent.session \in SessionSet /\ agent.session # None /\ agent.session.thread = None
      /\ agent.session.state \in {"starting", "lost"}
  BY DEF SetupInv, SetupTyped, AgentSet, OpeningFits
<1>2. /\ agent' \in AgentSet /\ agent'.session \in SessionSet
      /\ agent'.session.state = "lost" /\ agent'.session.thread = None
  <2>1. CASE agent.session.state = "starting"
    <3>1. agent' = [agent EXCEPT !.session.state = "lost"]
      BY <1>1, <2>1 DEF ThreadSetup!Fails, ThreadSetup!Is, ThreadSetup!Lost, ThreadSetup!Free
    <3>2. agent' = [agent EXCEPT !.session = [agent.session EXCEPT !.state = "lost"]]
      BY <1>1, <3>1 DEF AgentSet
    <3>3. PICK s : s = [agent.session EXCEPT !.state = "lost"]
      OBVIOUS
    <3>4. s \in SessionSet /\ s.state = "lost" /\ s.thread = None
      BY <1>1, <3>3 DEF SessionSet
    <3> QED BY <1>1, <3>2, <3>3, <3>4 DEF AgentSet
  <2>2. CASE agent.session.state = "lost"
    BY <1>1, <2>2 DEF ThreadSetup!Fails, ThreadSetup!Is
  <2> QED BY <1>1, <2>1, <2>2
<1>3. opening' = None
  BY DEF ThreadSetup!Fails
<1>4. SetupTyped'
  BY <1>2, <1>3 DEF SetupInv, SetupTyped
<1> QED BY <1>2, <1>3, <1>4, SetupNone DEF SetupInv, ThreadSetup!Is, ThreadSetup!Free, ThreadSetup!ReadyAsBound,
        ThreadSetup!OneThreadReports, ThreadSetup!HasThread

\* An opening that is through: its session is ready on what was verified and bound.
LEMMA FinishesFits ==
    ASSUME SetupInv, opening # None, NEW o, ThreadSetup!Finishes(o), UNCHANGED picker, codex' \in CodexSet,
           runtimes' \in [Conversations -> BindingSet \cup {None}], BindingsFit',
           o.on = opening.on, o.wants = opening.wants, o.thread \in ThreadSetup!Threads',
           ThreadSetup!Is(agent, "starting") =>
              /\ codex'.runs[o.thread] = o.wants /\ codex'.subscribed \subseteq {o.thread}
              /\ runtimes'[o.on] \in {ThreadSetup!Binding(o.thread, o.wants), ThreadSetup!Deleted}
    PROVE  SetupInv'
<1>1. /\ agent \in AgentSet /\ agent.session \in SessionSet /\ agent.session # None /\ agent.session.thread = None
      /\ agent.session.state \in {"starting", "lost"} /\ opening \in OpeningSet
  BY DEF SetupInv, SetupTyped, AgentSet, OpeningFits
<1>2. o.on \in Conversations /\ o.wants \in Selectable /\ o.thread \in Nat
  BY <1>1 DEF OpeningSet, CodexSet, ThreadSetup!Threads
<1>3. PICK b : b = [agent EXCEPT !.conversation = o.on, !.selection = o.wants]
  OBVIOUS
<1>4. /\ b \in AgentSet /\ b.session = agent.session /\ b.conversation = o.on
      /\ b.selection = o.wants /\ b.usage = agent.usage
  BY <1>1, <1>2, <1>3 DEF AgentSet
<1>5. opening' = None /\ agent' = IF ThreadSetup!Is(agent, "starting")
                                    THEN [b EXCEPT !.session = ThreadSetup!Session(o.on, "ready", o.thread)] ELSE b
  BY <1>3 DEF ThreadSetup!Finishes, ThreadSetup!Adopted
<1>6. CASE ThreadSetup!Is(agent, "starting")
  <2>1. PICK s : s = ThreadSetup!Session(o.on, "ready", o.thread)
    OBVIOUS
  <2>2. s \in SessionSet /\ s.on = o.on /\ s.state = "ready" /\ s.thread = o.thread
    BY <1>2, <2>1 DEF SessionSet, ThreadSetup!Session
  <2>3. /\ agent' \in AgentSet /\ agent'.session = s /\ agent'.conversation = o.on
        /\ agent'.selection = o.wants /\ agent'.usage = agent.usage
    BY <1>4, <1>5, <1>6, <2>1, <2>2 DEF AgentSet
  <2>4. agent.usage = None
    BY <1>6 DEF SetupInv, OpeningFits, ThreadSetup!Is
  <2>5. SetupTyped'
    BY <1>5, <2>3 DEF SetupInv, SetupTyped
  <2>6. ThreadSetup!ReadyAsBound'
    BY <1>6, <2>2, <2>3 DEF ThreadSetup!ReadyAsBound
  <2>7. ThreadSetup!OneThreadReports'
    BY <1>6, <2>2, <2>3, <2>4 DEF ThreadSetup!OneThreadReports
  <2> QED BY <1>5, <2>2, <2>3, <2>5, <2>6, <2>7, SetupNone DEF SetupInv, ThreadSetup!Is, ThreadSetup!Free
<1>7. CASE ~ThreadSetup!Is(agent, "starting")
  <2>1. agent' \in AgentSet /\ agent'.session = agent.session /\ agent.session.state = "lost"
    BY <1>1, <1>4, <1>5, <1>7 DEF ThreadSetup!Is
  <2>2. SetupTyped'
    BY <1>5, <2>1 DEF SetupInv, SetupTyped
  <2> QED BY <1>1, <1>5, <2>1, <2>2, SetupNone DEF SetupInv, ThreadSetup!Is, ThreadSetup!Free,
          ThreadSetup!ReadyAsBound, ThreadSetup!OneThreadReports, ThreadSetup!HasThread
<1> QED BY <1>6, <1>7

\* The opening goes on to its next request.
LEMMA OpeningGoesOn ==
    ASSUME SetupInv, opening # None, UNCHANGED <<runtimes, agent, picker>>, codex' \in CodexSet,
           Len(codex'.runs) >= Len(codex.runs),
           opening' \in OpeningSet, OpeningFits(opening)'
    PROVE  SetupInv'
<1>1. Len(codex.runs) \in Nat /\ Len(codex'.runs) \in Nat
  BY DEF SetupInv, SetupTyped, CodexSet
<1>2. BindingsFit'
  BY <1>1 DEF SetupInv, BindingsFit, ThreadSetup!Bound, ThreadSetup!Threads
<1>3. /\ agent.session # None /\ agent.session.thread = None /\ agent.session.state \in {"starting", "lost"}
  BY DEF SetupInv, OpeningFits
<1>4. SetupTyped'
  BY DEF SetupInv, SetupTyped
<1> QED BY <1>2, <1>3, <1>4, SetupNone DEF SetupInv, ThreadSetup!Is, ThreadSetup!Free, ThreadSetup!ReadyAsBound,
        ThreadSetup!OneThreadReports, ThreadSetup!HasThread

\* A conversation is asked for while no session is held, or nothing happens but that the
\* usage shown ends.
LEMMA CreateSessionStep ==
    ASSUME SetupInv, NEW c \in Conversations, ThreadSetup!CreateSession(c)
    PROVE  SetupInv'
<1>1. SetupTyped /\ agent \in AgentSet /\ codex \in CodexSet
  BY DEF SetupInv, SetupTyped
<1>2. PICK b : b = [agent EXCEPT !.usage = None]
  OBVIOUS
<1>3. /\ b \in AgentSet /\ b.session = agent.session /\ b.conversation = agent.conversation
      /\ b.selection = agent.selection /\ b.usage = None /\ b.process = agent.process
  BY <1>1, <1>2 DEF AgentSet
<1>4. /\ codex' \in CodexSet /\ codex'.runs = codex.runs /\ codex'.subscribed = codex.subscribed
      /\ UNCHANGED <<runtimes, picker>>
  BY <1>1 DEF ThreadSetup!CreateSession, ThreadSetup!Counted, CodexSet
<1>5. BindingsFit'
  BY <1>4 DEF SetupInv, BindingsFit, ThreadSetup!Bound, ThreadSetup!Threads
<1>6. CASE ThreadSetup!MayStart(agent)
  <2>1. PICK s : s = ThreadSetup!Session(c, "starting", None)
    OBVIOUS
  <2>2. s \in SessionSet /\ s.on = c /\ s.state = "starting" /\ s.thread = None
    BY <2>1 DEF SessionSet, ThreadSetup!Session
  <2>3. agent' = [b EXCEPT !.session = s]
    BY <1>2, <1>6, <2>1 DEF ThreadSetup!CreateSession, ThreadSetup!Begin
  <2>4. agent' \in AgentSet /\ agent'.session = s /\ agent'.process = "ready" /\ agent'.usage = None
    BY <1>3, <1>6, <2>2, <2>3 DEF AgentSet, ThreadSetup!MayStart
  <2>5. opening' = [on |-> c, wants |-> picker, step |-> "config", binding |-> None, thread |-> None]
    BY <1>6 DEF ThreadSetup!CreateSession
  <2>6. opening' \in OpeningSet /\ opening'.on = c /\ opening'.step = "config" /\ opening'.binding = None
    BY <1>1, <2>5 DEF OpeningSet, SetupTyped
  <2>7. codex.subscribed = {}
    BY <1>6 DEF SetupInv, ThreadSetup!MayStart
  <2>8. OpeningFits(opening)'
    BY <1>4, <2>2, <2>4, <2>6, <2>7, SetupNone DEF OpeningFits
  <2>9. SetupTyped'
    BY <1>1, <1>4, <2>4, <2>6 DEF SetupTyped
  <2> QED BY <1>5, <2>2, <2>4, <2>6, <2>8, <2>9, SetupNone DEF SetupInv, ThreadSetup!Is, ThreadSetup!Free,
          ThreadSetup!ReadyAsBound, ThreadSetup!OneThreadReports, ThreadSetup!HasThread
<1>7. CASE ~ThreadSetup!MayStart(agent)
  <2>1. agent' = b /\ UNCHANGED opening
    BY <1>2, <1>7 DEF ThreadSetup!CreateSession, ThreadSetup!Begin
  <2>2. SetupTyped'
    BY <1>1, <1>3, <1>4, <2>1 DEF SetupTyped
  <2>3. opening' # None => OpeningFits(opening)'
    BY <1>3, <1>4, <2>1 DEF SetupInv, OpeningFits, ThreadSetup!Threads
  <2>4. ThreadSetup!ReadyAsBound' /\ ThreadSetup!OneThreadReports'
    BY <1>3, <1>4, <2>1 DEF SetupInv, ThreadSetup!ReadyAsBound, ThreadSetup!OneThreadReports, ThreadSetup!HasThread,
       ThreadSetup!Is
  <2> QED BY <1>3, <1>4, <1>5, <2>1, <2>2, <2>3, <2>4 DEF SetupInv, ThreadSetup!Is, ThreadSetup!Free,
          ThreadSetup!Threads
<1> QED BY <1>6, <1>7

\* An opening that was answered what it read: its step and what it read are new.
LEMMA OpeningMoves ==
    ASSUME SetupInv, opening # None, NEW o, OpeningFits(opening), opening.step # "bind",
           o.on = opening.on, o.step # "bind",
           o.binding # None => o.binding = runtimes[o.on] /\ o.binding.thread \in ThreadSetup!Threads
    PROVE  OpeningFits(o)
  BY DEF OpeningFits

\* The configuration and the binding are read.
LEMMA ReadStep ==
    ASSUME SetupInv, ThreadSetup!ReadConfig \/ ThreadSetup!GetConversationRuntime
    PROVE  SetupInv'
<1>1. SetupTyped /\ codex \in CodexSet /\ opening \in OpeningSet /\ opening # None /\ OpeningFits(opening)
  BY DEF SetupInv, SetupTyped, ThreadSetup!ReadConfig, ThreadSetup!GetConversationRuntime
<1>2. Len(codex.runs) \in Nat
  BY <1>1 DEF CodexSet
<1>3. UNCHANGED <<runtimes, codex, picker>>
  BY DEF ThreadSetup!ReadConfig, ThreadSetup!GetConversationRuntime
<1>4. ASSUME NEW o \in OpeningSet, opening' = o, UNCHANGED agent, OpeningFits(o)
      PROVE  SetupInv'
  <2>1. OpeningFits(opening)'
    BY <1>3, <1>4 DEF OpeningFits, ThreadSetup!Threads
  <2> QED BY <1>1, <1>2, <1>3, <1>4, <2>1, OpeningGoesOn
<1>5. CASE ThreadSetup!ReadConfig
  <2>1. opening' = [opening EXCEPT !.step = "runtime"] /\ UNCHANGED agent /\ opening.step = "config"
    BY <1>5 DEF ThreadSetup!ReadConfig
  <2>2. /\ opening' \in OpeningSet /\ opening'.on = opening.on /\ opening'.binding = opening.binding
        /\ opening'.step = "runtime"
    BY <1>1, <2>1 DEF OpeningSet
  <2>3. OpeningFits(opening')
    BY <1>1, <2>1, <2>2 DEF OpeningFits
  <2> QED BY <1>4, <2>1, <2>2, <2>3
<1>6. CASE ThreadSetup!GetConversationRuntime
  <2>1. opening.step = "runtime" /\ opening.on \in Conversations
    BY <1>1, <1>6 DEF ThreadSetup!GetConversationRuntime, OpeningSet
  <2>2. CASE ThreadSetup!Fails
    BY <1>1, <1>3, <2>2, FailsFits DEF SetupInv, SetupTyped, BindingsFit, ThreadSetup!Bound, ThreadSetup!Threads
  <2>3. CASE /\ runtimes[opening.on] # ThreadSetup!Deleted /\ UNCHANGED agent
             /\ opening' = [opening EXCEPT !.step = "thread", !.binding = runtimes[opening.on]]
    <3>1. runtimes[opening.on] \in BindingSet \cup {None}
      BY <1>1, <2>1 DEF SetupTyped
    <3>2. /\ opening' \in OpeningSet /\ opening'.on = opening.on /\ opening'.binding = runtimes[opening.on]
          /\ opening'.step = "thread"
      BY <1>1, <2>3, <3>1 DEF OpeningSet
    <3>3. runtimes[opening.on] # None => runtimes[opening.on].thread \in ThreadSetup!Threads
      BY <2>1, <2>3 DEF SetupInv, BindingsFit, ThreadSetup!Bound
    <3>4. OpeningFits(opening')
      BY <1>1, <2>1, <3>2, <3>3 DEF OpeningFits
    <3> QED BY <1>4, <2>3, <3>2, <3>4
  <2> QED BY <1>6, <2>2, <2>3 DEF ThreadSetup!GetConversationRuntime
<1> QED BY <1>5, <1>6

\* What is asked of Codex and what it runs.
LEMMA AskedThread ==
    ASSUME SetupInv, opening # None, NEW s \in Selectable, NEW echo \in ThreadSetup!Echoes(s)
    PROVE  /\ ThreadSetup!Params(opening).thread \in 1 .. Len(codex.runs) + 1 /\ echo \in Selectable
           /\ ThreadSetup!Params(opening).config = opening.wants
           /\ opening.binding # None => ThreadSetup!Params(opening).thread = opening.binding.thread
<1>1. OpeningFits(opening) /\ codex \in CodexSet /\ Len(codex.runs) \in Nat
  BY DEF SetupInv, SetupTyped, CodexSet
<1>2. echo \in Selectable
  BY <1>1 DEF ThreadSetup!Echoes, CodexSet
<1>3. CASE opening.binding = None
  BY <1>1, <1>2, <1>3 DEF ThreadSetup!Params, ThreadSetup!StartParams
<1>4. CASE opening.binding # None
  BY <1>1, <1>2, <1>4 DEF ThreadSetup!Params, ThreadSetup!ResumeParams, OpeningFits, ThreadSetup!Threads
<1> QED BY <1>3, <1>4

\* Longer runs keep what is bound.
LEMMA MoreRuns ==
    ASSUME SetupInv, codex' \in CodexSet, Len(codex'.runs) >= Len(codex.runs), UNCHANGED runtimes
    PROVE  BindingsFit' /\ \A t \in ThreadSetup!Threads : t \in ThreadSetup!Threads'
<1>1. Len(codex.runs) \in Nat /\ Len(codex'.runs) \in Nat
  BY DEF SetupInv, SetupTyped, CodexSet
<1> QED BY <1>1 DEF SetupInv, BindingsFit, ThreadSetup!Bound, ThreadSetup!Threads

\* The thread is asked for and its answer checked: it runs on what the owner asked for, or
\* the opening is given up.
LEMMA RequestThreadStep ==
    ASSUME SetupInv, ThreadSetup!RequestThread
    PROVE  SetupInv'
<1>1. /\ SetupTyped /\ codex \in CodexSet /\ opening \in OpeningSet /\ opening # None /\ OpeningFits(opening)
      /\ opening.step = "thread" /\ agent.process = "ready" /\ UNCHANGED <<runtimes, picker>>
  BY DEF SetupInv, SetupTyped, ThreadSetup!RequestThread
<1>2. /\ opening.on \in Conversations /\ opening.wants \in Selectable /\ opening.binding \in BindingSet \cup {None}
      /\ runtimes \in [Conversations -> BindingSet \cup {None}]
  BY <1>1 DEF OpeningSet, SetupTyped
<1>3. PICK t : t = ThreadSetup!Params(opening).thread
  OBVIOUS
<1>4. PICK o : o = [opening EXCEPT !.step = "bind", !.thread = t]
  OBVIOUS
<1>5. PICK echo \in ThreadSetup!Echoes(ThreadSetup!Params(opening).config) :
         /\ codex' = ThreadSetup!Run(codex, t, echo)
         /\ IF ~ThreadSetup!SafeResponse(echo, opening.wants) THEN ThreadSetup!Fails
            ELSE IF ThreadSetup!NeedsBinding(o) THEN opening' = o /\ UNCHANGED agent
            ELSE ThreadSetup!Finishes(o)
  BY <1>3, <1>4 DEF ThreadSetup!RequestThread
<1>6. ThreadSetup!Params(opening).config = opening.wants
  BY DEF ThreadSetup!Params, ThreadSetup!StartParams, ThreadSetup!ResumeParams
<1>7. /\ t \in 1 .. Len(codex.runs) + 1 /\ echo \in Selectable
      /\ opening.binding # None => t = opening.binding.thread
  BY <1>1, <1>2, <1>3, <1>5, <1>6, AskedThread
<1>8. /\ codex' \in CodexSet /\ Len(codex'.runs) >= Len(codex.runs) /\ t \in ThreadSetup!Threads'
      /\ codex'.runs[t] = echo /\ codex'.subscribed = {t}
  <2>1. codex.subscribed = {}
    BY <1>1 DEF OpeningFits
  <2> QED BY <1>1, <1>5, <1>7, <2>1, RunFits DEF ThreadSetup!Threads
<1>9. BindingsFit' /\ \A d \in ThreadSetup!Threads : d \in ThreadSetup!Threads'
  BY <1>1, <1>8, MoreRuns
<1>10. /\ o \in OpeningSet /\ o.on = opening.on /\ o.wants = opening.wants /\ o.step = "bind"
       /\ o.binding = opening.binding /\ o.thread = t
  <2>1. t \in Nat
    BY <1>1, <1>7 DEF CodexSet
  <2> QED BY <1>1, <1>4, <2>1 DEF OpeningSet
<1>11. CASE ~ThreadSetup!SafeResponse(echo, opening.wants)
  BY <1>1, <1>2, <1>5, <1>8, <1>9, <1>11, FailsFits
<1>12. CASE ThreadSetup!SafeResponse(echo, opening.wants) /\ ThreadSetup!NeedsBinding(o)
  <2>1. opening' = o /\ UNCHANGED agent /\ echo = opening.wants
    BY <1>5, <1>12 DEF ThreadSetup!SafeResponse
  <2>2. OpeningFits(opening)'
    BY <1>1, <1>8, <1>9, <1>10, <2>1 DEF OpeningFits
  <2> QED BY <1>1, <1>8, <1>10, <2>1, <2>2, OpeningGoesOn
<1>13. CASE ThreadSetup!SafeResponse(echo, opening.wants) /\ ~ThreadSetup!NeedsBinding(o)
  <2>1. ThreadSetup!Finishes(o) /\ echo = opening.wants
    BY <1>5, <1>13 DEF ThreadSetup!SafeResponse
  <2>2. opening.binding # None /\ opening.binding.selection = opening.wants /\ opening.binding = runtimes[opening.on]
    BY <1>1, <1>10, <1>13 DEF ThreadSetup!NeedsBinding, OpeningFits
  <2>3. runtimes'[o.on] = ThreadSetup!Binding(o.thread, o.wants)
    BY <1>1, <1>2, <1>7, <1>10, <2>2 DEF ThreadSetup!Binding, BindingSet
  <2> QED BY <1>1, <1>2, <1>8, <1>9, <1>10, <2>1, <2>3, FinishesFits
<1> QED BY <1>11, <1>12, <1>13

\* The API binds the conversation to the thread that was verified.
LEMMA BindFits ==
    ASSUME SetupInv, opening # None, opening.step = "bind", codex'.runs = codex.runs,
           ThreadSetup!CanBind(opening.on, opening.thread),
           runtimes' = [runtimes EXCEPT ![opening.on] = ThreadSetup!Binding(opening.thread, opening.wants)]
    PROVE  /\ runtimes' \in [Conversations -> BindingSet \cup {None}] /\ BindingsFit'
           /\ runtimes'[opening.on] = ThreadSetup!Binding(opening.thread, opening.wants)
<1>1. /\ opening \in OpeningSet /\ OpeningFits(opening) /\ codex \in CodexSet
      /\ runtimes \in [Conversations -> BindingSet \cup {None}]
  BY DEF SetupInv, SetupTyped
<1>2. opening.on \in Conversations /\ opening.wants \in Selectable /\ opening.thread \in ThreadSetup!Threads
  BY <1>1 DEF OpeningSet, OpeningFits
<1>3. PICK b : b = ThreadSetup!Binding(opening.thread, opening.wants)
  OBVIOUS
<1>4. b \in BindingSet /\ b.thread = opening.thread
  BY <1>1, <1>2, <1>3 DEF BindingSet, ThreadSetup!Binding, ThreadSetup!Threads, CodexSet
<1>5. runtimes' \in [Conversations -> BindingSet \cup {None}] /\ runtimes'[opening.on] = b
  BY <1>1, <1>2, <1>3, <1>4
<1>6. BindingsFit'
  <2> SUFFICES ASSUME NEW c \in Conversations, ThreadSetup!Bound(c)'
               PROVE  runtimes'[c].thread \in ThreadSetup!Threads
    BY DEF BindingsFit, ThreadSetup!Threads
  <2>1. CASE c = opening.on
    BY <1>2, <1>4, <1>5, <2>1
  <2>2. CASE c # opening.on
    <3>1. runtimes'[c] = runtimes[c]
      BY <1>1, <2>2
    <3> QED BY <3>1 DEF SetupInv, BindingsFit, ThreadSetup!Bound
  <2> QED BY <2>1, <2>2
<1> QED BY <1>3, <1>5, <1>6

\* The binding is kept and the session is ready, or it is refused.
LEMMA BindStep ==
    ASSUME SetupInv, ThreadSetup!BindConversationRuntime
    PROVE  SetupInv'
<1>1. /\ SetupTyped /\ codex \in CodexSet /\ opening # None /\ opening.step = "bind" /\ OpeningFits(opening)
      /\ UNCHANGED <<codex, picker>>
  BY DEF SetupInv, SetupTyped, ThreadSetup!BindConversationRuntime
<1>2. CASE ThreadSetup!CanBind(opening.on, opening.thread)
  <2>1. /\ runtimes' = [runtimes EXCEPT ![opening.on] = ThreadSetup!Binding(opening.thread, opening.wants)]
        /\ ThreadSetup!Finishes(opening)
    BY <1>2 DEF ThreadSetup!BindConversationRuntime
  <2>2. /\ runtimes' \in [Conversations -> BindingSet \cup {None}] /\ BindingsFit'
        /\ runtimes'[opening.on] = ThreadSetup!Binding(opening.thread, opening.wants)
    BY <1>1, <1>2, <2>1, BindFits
  <2>3. ThreadSetup!Is(agent, "starting") =>
           codex'.runs[opening.thread] = opening.wants /\ codex'.subscribed \subseteq {opening.thread}
    BY <1>1 DEF OpeningFits, ThreadSetup!Is
  <2>4. opening.thread \in ThreadSetup!Threads' /\ codex' \in CodexSet
    BY <1>1 DEF OpeningFits, ThreadSetup!Threads
  <2> QED BY <1>1, <2>1, <2>2, <2>3, <2>4, FinishesFits
<1>3. CASE ~ThreadSetup!CanBind(opening.on, opening.thread)
  <2>1. UNCHANGED runtimes /\ ThreadSetup!Fails
    BY <1>3 DEF ThreadSetup!BindConversationRuntime
  <2>2. BindingsFit'
    BY <1>1, <2>1 DEF SetupInv, BindingsFit, ThreadSetup!Bound, ThreadSetup!Threads
  <2> QED BY <1>1, <2>1, <2>2, FailsFits DEF SetupTyped
<1> QED BY <1>2, <1>3

\* A request fails, done or not.
LEMMA RequestFailsStep ==
    ASSUME SetupInv, ThreadSetup!RequestFails
    PROVE  SetupInv'
<1>1. /\ SetupTyped /\ codex \in CodexSet /\ opening \in OpeningSet /\ opening # None
      /\ ThreadSetup!Fails /\ UNCHANGED picker
  BY DEF SetupInv, SetupTyped, ThreadSetup!RequestFails
<1>2. PICK x : x = IF ThreadSetup!Rejected THEN codex ELSE ThreadSetup!Mishap(codex)
  OBVIOUS
<1>3. x \in CodexSet /\ x.runs = codex.runs /\ Len(codex.runs) \in Nat
  BY <1>1, <1>2, MishapCodex DEF CodexSet
<1>4. \/ codex' = x /\ UNCHANGED runtimes
      \/ /\ UNCHANGED runtimes
         /\ \E echo \in ThreadSetup!Echoes(opening.wants) :
               codex' = ThreadSetup!Run(x, ThreadSetup!Params(opening).thread, echo)
      \/ /\ opening.step = "bind" /\ ThreadSetup!CanBind(opening.on, opening.thread) /\ codex' = x
         /\ runtimes' = [runtimes EXCEPT ![opening.on] = ThreadSetup!Binding(opening.thread, opening.wants)]
  BY <1>2 DEF ThreadSetup!RequestFails
<1>5. CASE codex' = x /\ UNCHANGED runtimes
  <2>1. codex' \in CodexSet /\ BindingsFit'
    BY <1>3, <1>5, MoreRuns
  <2> QED BY <1>1, <1>5, <2>1, FailsFits DEF SetupTyped
<1>6. ASSUME UNCHANGED runtimes, NEW echo \in ThreadSetup!Echoes(opening.wants),
             codex' = ThreadSetup!Run(x, ThreadSetup!Params(opening).thread, echo)
      PROVE  SetupInv'
  <2>1. opening.wants \in Selectable
    BY <1>1 DEF OpeningSet
  <2>2. ThreadSetup!Params(opening).thread \in 1 .. Len(x.runs) + 1 /\ echo \in Selectable
    BY <1>1, <1>3, <1>6, <2>1, AskedThread
  <2>3. codex' \in CodexSet /\ Len(codex'.runs) >= Len(codex.runs)
    BY <1>3, <1>6, <2>2, RunFits
  <2>4. BindingsFit'
    BY <1>6, <2>3, MoreRuns
  <2> QED BY <1>1, <1>6, <2>3, <2>4, FailsFits DEF SetupTyped
<1>7. CASE /\ opening.step = "bind" /\ ThreadSetup!CanBind(opening.on, opening.thread) /\ codex' = x
           /\ runtimes' = [runtimes EXCEPT ![opening.on] = ThreadSetup!Binding(opening.thread, opening.wants)]
  <2>1. runtimes' \in [Conversations -> BindingSet \cup {None}] /\ BindingsFit'
    BY <1>1, <1>3, <1>7, BindFits
  <2> QED BY <1>1, <1>3, <1>7, <2>1, FailsFits
<1> QED BY <1>4, <1>5, <1>6, <1>7

\* The host begins anew, a conversation is deleted or the session's thread reports.
LEMMA SetupOtherStep ==
    ASSUME SetupInv,
           \/ ThreadSetup!HostRestarts \/ \E c \in Conversations : ThreadSetup!DeleteConversation(c)
           \/ \E t \in ThreadSetup!Threads : ThreadSetup!ReportUsage(t)
    PROVE  SetupInv'
<1>1. SetupTyped /\ agent \in AgentSet /\ codex \in CodexSet
  BY DEF SetupInv, SetupTyped
<1>2. CASE ThreadSetup!HostRestarts
  <2>1. codex' \in CodexSet /\ codex'.runs = codex.runs /\ codex'.subscribed = {} /\ UNCHANGED <<runtimes, picker>>
    BY <1>1, <1>2, MishapCodex DEF ThreadSetup!HostRestarts
  <2>2. /\ agent' = [provider |-> "checking", process |-> "none", session |-> None, conversation |-> None,
                     selection |-> Preset, catalog |-> {}, usage |-> None]
        /\ opening' = None
    BY <1>2 DEF ThreadSetup!HostRestarts, ThreadSetup!Begun
  <2>3. agent' \in AgentSet /\ agent'.session = None
    BY <2>2, PresetReviewed DEF AgentSet, Selectable
  <2>4. SetupTyped'
    BY <1>1, <2>1, <2>2, <2>3 DEF SetupTyped
  <2>5. BindingsFit'
    BY <2>1 DEF SetupInv, BindingsFit, ThreadSetup!Bound, ThreadSetup!Threads
  <2> QED BY <2>1, <2>2, <2>3, <2>4, <2>5 DEF SetupInv, ThreadSetup!Is, ThreadSetup!Free, ThreadSetup!ReadyAsBound,
          ThreadSetup!OneThreadReports, ThreadSetup!HasThread
<1>3. ASSUME NEW c \in Conversations, ThreadSetup!DeleteConversation(c)
      PROVE  SetupInv'
  <2>1. codex' \in CodexSet /\ codex'.runs = codex.runs /\ codex'.subscribed = codex.subscribed
    BY <1>1, <1>3, MishapCodex DEF ThreadSetup!DeleteConversation
  <2>2. /\ runtimes' = [runtimes EXCEPT ![c] = ThreadSetup!Deleted] /\ ~ThreadSetup!Bound(c)
        /\ UNCHANGED <<agent, opening, picker>>
    BY <1>3 DEF ThreadSetup!DeleteConversation
  <2>3. ThreadSetup!Deleted \in BindingSet
    BY DEF BindingSet, ThreadSetup!Deleted, ThreadSetup!Binding
  <2>4. SetupTyped' /\ runtimes \in [Conversations -> BindingSet \cup {None}]
    BY <1>1, <2>1, <2>2, <2>3 DEF SetupTyped
  <2>5. BindingsFit'
    <3> SUFFICES ASSUME NEW d \in Conversations, ThreadSetup!Bound(d)'
                 PROVE  runtimes'[d].thread \in ThreadSetup!Threads'
      BY DEF BindingsFit
    <3>1. d # c
      BY <2>2, <2>4 DEF ThreadSetup!Bound, ThreadSetup!Deleted, ThreadSetup!Binding
    <3>2. runtimes'[d] = runtimes[d]
      BY <2>2, <2>4, <3>1
    <3> QED BY <2>1, <3>2 DEF SetupInv, BindingsFit, ThreadSetup!Bound, ThreadSetup!Threads,
            ThreadSetup!Deleted, ThreadSetup!Binding
  <2>6. opening # None => OpeningFits(opening)'
    <3> SUFFICES ASSUME opening # None PROVE OpeningFits(opening)'
      OBVIOUS
    <3>1. OpeningFits(opening) /\ opening.on \in Conversations
      BY <1>1 DEF SetupInv, SetupTyped, OpeningSet
    <3>2. opening.binding # None => runtimes'[opening.on] = runtimes[opening.on]
      <4>1. CASE opening.on = c
        <5>1. runtimes[c] \in {None, ThreadSetup!Deleted}
          BY <2>2 DEF ThreadSetup!Bound
        <5>2. opening.binding # None => opening.binding # ThreadSetup!Deleted
          BY <1>1, <3>1 DEF OpeningFits, ThreadSetup!Threads, ThreadSetup!Deleted, ThreadSetup!Binding, CodexSet
        <5> QED BY <3>1, <4>1, <5>1, <5>2 DEF OpeningFits
      <4>2. CASE opening.on # c
        BY <2>2, <2>4, <3>1, <4>2
      <4> QED BY <4>1, <4>2
    <3> QED BY <2>1, <2>2, <3>1, <3>2 DEF OpeningFits, ThreadSetup!Threads
  <2>7. ThreadSetup!ReadyAsBound'
    <3> SUFFICES ASSUME ThreadSetup!Is(agent, "ready")
                 PROVE  runtimes'[agent.session.on] \in
                           {ThreadSetup!Binding(agent.session.thread, agent.selection), ThreadSetup!Deleted}
      BY <2>1, <2>2 DEF SetupInv, ThreadSetup!ReadyAsBound, ThreadSetup!Is
    <3>1. agent.session.on \in Conversations
      BY <1>1 DEF AgentSet, SessionSet, ThreadSetup!Is
    <3>2. runtimes[agent.session.on] \in
             {ThreadSetup!Binding(agent.session.thread, agent.selection), ThreadSetup!Deleted}
      BY DEF SetupInv, ThreadSetup!ReadyAsBound
    <3> QED BY <2>2, <2>4, <3>1, <3>2
  <2>8. ThreadSetup!OneThreadReports'
    BY <2>1, <2>2 DEF SetupInv, ThreadSetup!OneThreadReports, ThreadSetup!HasThread
  <2> QED BY <2>1, <2>2, <2>4, <2>5, <2>6, <2>7, <2>8 DEF SetupInv, ThreadSetup!Is, ThreadSetup!Free,
          ThreadSetup!Threads
<1>4. ASSUME NEW t \in ThreadSetup!Threads, ThreadSetup!ReportUsage(t)
      PROVE  SetupInv'
  <2>1. t \in codex.subscribed /\ UNCHANGED <<runtimes, codex, opening, picker>>
    BY <1>4 DEF ThreadSetup!ReportUsage
  <2>2. CASE ~ThreadSetup!HasThread(agent)
    BY <1>1, <1>4, <2>1, <2>2, SetupStays DEF ThreadSetup!ReportUsage, SetupTyped
  <2>3. CASE ThreadSetup!HasThread(agent)
    <3>1. t = agent.session.thread /\ t \in Nat
      BY <1>1, <2>1, <2>3 DEF SetupInv, ThreadSetup!OneThreadReports, CodexSet
    <3>2. agent' = [agent EXCEPT !.usage = t]
      BY <1>4, <2>3, <3>1 DEF ThreadSetup!ReportUsage
    <3>3. /\ agent' \in AgentSet /\ agent'.session = agent.session /\ agent'.conversation = agent.conversation
          /\ agent'.selection = agent.selection /\ agent'.usage = t /\ agent'.process = agent.process
      BY <1>1, <3>1, <3>2 DEF AgentSet
    <3>4. opening = None
      BY <2>3 DEF SetupInv, OpeningFits, ThreadSetup!HasThread
    <3>5. SetupTyped'
      BY <1>1, <2>1, <3>3 DEF SetupTyped
    <3>6. BindingsFit'
      BY <2>1 DEF SetupInv, BindingsFit, ThreadSetup!Bound, ThreadSetup!Threads
    <3> QED BY <2>1, <3>1, <3>3, <3>4, <3>5, <3>6 DEF SetupInv, ThreadSetup!Is, ThreadSetup!Free, ThreadSetup!Threads,
            ThreadSetup!ReadyAsBound, ThreadSetup!OneThreadReports, ThreadSetup!HasThread
  <2> QED BY <2>2, <2>3
<1> QED BY <1>2, <1>3, <1>4

\* Every step of the opening and of what befalls it keeps the invariant.
LEMMA SetupStep ==
    ASSUME SetupInv, ThreadSetup!Next
    PROVE  SetupInv'
  BY SetupIdleStep, SetupEndStep, CreateSessionStep, ReadStep, RequestThreadStep, BindStep, RequestFailsStep,
     SetupOtherStep DEF ThreadSetup!Next

\* The invariant of the opening holds in every behaviour that is one of it.
LEMMA SetupAlways == Spec => [](part = "threads" => SetupInv)
<1> DEFINE Inv == part = "threads" => SetupInv
<1>1. Init => Inv
  BY SetupInit DEF Init
<1>2. Inv /\ [Next]_vars => Inv'
  <2> SUFFICES ASSUME SetupInv, [Next]_vars, part = "threads" PROVE SetupInv'
    BY PartStep
  <2>1. CASE UNCHANGED threads
    <3>1. UNCHANGED <<runtimes, codex, agent, opening, picker>>
      BY <2>1 DEF threads
    <3>2. SetupTyped'
      BY <3>1 DEF SetupInv, SetupTyped
    <3> QED BY <3>1, <3>2, SetupStays
  <2> QED BY <2>1, PartStep, SetupStep
<1> QED BY <1>1, <1>2, PTL DEF Spec

\* While a session is ready its thread runs on the configuration that is shown and kept,
\* whatever was refused, substituted or carried out unheard before.
THEOREM ReadyRunsAsBound == Spec => []ReadyAsBound
<1>1. (part = "threads" => SetupInv) => ReadyAsBound
  BY DEF ReadyAsBound, SetupInv
<1> QED BY <1>1, SetupAlways, PTL

\* No thread but the session's reports: what is left of an earlier opening never ends a
\* session, and its usage is never shown.
THEOREM SessionThreadReports == Spec => []OneThreadReports
<1>1. (part = "threads" => SetupInv) => OneThreadReports
  BY DEF OneThreadReports, SetupInv
<1> QED BY <1>1, SetupAlways, PTL

-----------------------------------------------------------------------------
(* The start and the end of the desktop application *)

HostSteps == {DesktopRuntime!Start("host"), DesktopRuntime!Ready, DesktopRuntime!Configured}
OtherSteps == [do : {"run"}, who : {"infra", "migrate", "buildWeb"}]
              \cup [do : {"start", "wait"}, who : {"api", "web"}]
StepSet == OtherSteps \cup HostSteps \cup {DesktopRuntime!Run("buildHost")}
CredentialSet == [owner : {"newOwner", "own", "none"}, assistant : {"newAssistant", "assisting", "none"}]
Tokens == {"newOwner", "own", "none", "newAssistant", "assisting", "gateway"}

\* A plan starts the host at most once, before its messages are waited for, of which the
\* second directly follows the first.  What is for the assistant is followed by something
\* else, and is there only with a token for it.
PlanFits(plan, credentials) ==
    /\ plan \in Seq(StepSet)
    /\ \A i, j \in 1 .. Len(plan) : plan[i] = DesktopRuntime!Start("host") /\ plan[j] \in HostSteps => i <= j
    /\ \A i \in 1 .. Len(plan) : plan[i] = DesktopRuntime!Configured => i > 1 /\ plan[i - 1] = DesktopRuntime!Ready
    /\ \A i \in 1 .. Len(plan) : DesktopRuntime!ForAssistant(plan[i]) =>
          \E j \in i + 1 .. Len(plan) :
             /\ ~DesktopRuntime!ForAssistant(plan[j])
             /\ \A k \in i + 1 .. j - 1 : DesktopRuntime!ForAssistant(plan[k])
    /\ \A i \in 1 .. Len(plan) : plan[i] \in HostSteps => credentials.assistant # "none"

\* The host is not started from here on.
HostStarted == \A i \in 1 .. Len(boot.plan) : i >= boot.at => boot.plan[i] # DesktopRuntime!Start("host")

RuntimeTyped ==
    /\ boot \in [plan : Seq(StepSet), credentials : CredentialSet, at : Nat \ {0}, failed : BOOLEAN,
           assistant : BOOLEAN,
                 given : [DesktopRuntime!Children -> SUBSET Tokens]]
    /\ PlanFits(boot.plan, boot.credentials)
    /\ proc \in [DesktopRuntime!Children -> {"none", "runs", "ended"}]
    /\ app \in [quit : {"no", "stopping", "done"}, waits : SUBSET DesktopRuntime!Children,
                late : SUBSET DesktopRuntime!Children]
    /\ host \in [stage : {"none", "new", "waiting", "service", "gateway", "configured", "ending", "gone"},
                 gateway : BOOLEAN, client : BOOLEAN, sent : SUBSET {"ready", "configured", "failed"},
                 configure : BOOLEAN]

\* While the application quits, what runs was found at its beginning or started since.
QuitFits ==
    /\ \A c \in app.waits : proc[c] # "none"
    /\ app.quit = "stopping" =>
          \A c \in DesktopRuntime!Children : proc[c] = "runs" => c \in app.waits \cup app.late
    /\ DesktopRuntime!QuitStopsWhatItFound

\* What the host says of itself is so, and it says nothing before it is started.
HostFits ==
    /\ ~HostStarted => host.sent = {} /\ proc["host"] = "none"
    /\ proc["host"] = "runs" =>
          /\ host.stage \in {"gateway", "configured"} => host.client
          /\ host.stage = "configured" => host.gateway
          /\ "configured" \in host.sent => host.stage \in {"configured", "ending"}

\* Bootstrap has an assistant once the host has said that it serves, and gives the gateway's
\* token only then.  The API that was started was given both tokens.
TokensFit ==
    /\ boot.at <= Len(boot.plan) /\ boot.plan[boot.at] = DesktopRuntime!Configured =>
          "gateway" \in boot.given["host"] /\ HostStarted
    /\ boot.assistant => "configured" \in host.sent /\ "gateway" \in boot.given["host"] /\ HostStarted
    /\ boot.given["web"] \subseteq {boot.credentials.owner, "gateway"}
    /\ "gateway" \in boot.given["web"] => boot.assistant
    /\ boot.given["host"] \subseteq {boot.credentials.assistant, "gateway"}
    /\ boot.given["host"] # {} => boot.credentials.assistant # "none"
    /\ proc["api"] # "none" => boot.given["api"] = {boot.credentials.owner, boot.credentials.assistant}

RuntimeInv == RuntimeTyped /\ QuitFits /\ HostFits /\ TokensFit

\* The steps of a plan are told apart.
LEMMA StepsApart ==
    /\ \A s \in OtherSteps : ~DesktopRuntime!ForAssistant(s) /\ s \notin HostSteps
    /\ \A s \in HostSteps \cup {DesktopRuntime!Run("buildHost")} : DesktopRuntime!ForAssistant(s)
    /\ DesktopRuntime!Run("buildHost") \notin HostSteps
    /\ DesktopRuntime!Start("host") # DesktopRuntime!Ready
    /\ DesktopRuntime!Start("host") # DesktopRuntime!Configured
    /\ DesktopRuntime!Ready # DesktopRuntime!Configured
    /\ {DesktopRuntime!Run("infra"), DesktopRuntime!Run("migrate"), DesktopRuntime!Run("buildWeb"),
        DesktopRuntime!Start("api"), DesktopRuntime!Wait("api"),
        DesktopRuntime!Start("web"), DesktopRuntime!Wait("web")} \subseteq OtherSteps
  BY DEF OtherSteps, HostSteps, DesktopRuntime!ForAssistant, DesktopRuntime!Run, DesktopRuntime!Start,
         DesktopRuntime!Wait, DesktopRuntime!Ready, DesktopRuntime!Configured, DesktopRuntime!Step

\* A plan with the host's steps in one piece, and other steps around it, fits.
LEMMA HostPlanFits ==
    ASSUME NEW plan \in Seq(StepSet), NEW first \in Nat, NEW built \in {0, 1}, NEW credentials,
           credentials.assistant # "none",
           first + built + 3 < Len(plan),
           \A i \in 1 .. Len(plan) : i <= first \/ i > first + built + 3 => plan[i] \in OtherSteps,
           built = 1 => plan[first + 1] = DesktopRuntime!Run("buildHost"),
           plan[first + built + 1] = DesktopRuntime!Start("host"),
           plan[first + built + 2] = DesktopRuntime!Ready,
           plan[first + built + 3] = DesktopRuntime!Configured
    PROVE  PlanFits(plan, credentials)
  <1>1. Len(plan) \in Nat
    OBVIOUS
  <1>2. \A i \in 1 .. Len(plan) :
           \/ plan[i] \in OtherSteps
           \/ built = 1 /\ i = first + 1
           \/ i \in {first + built + 1, first + built + 2, first + built + 3}
    BY <1>1
  <1>4. \A i \in 1 .. Len(plan) : plan[i] \in HostSteps =>
           i \in {first + built + 1, first + built + 2, first + built + 3}
    BY <1>1, <1>2, StepsApart
  <1>5. ASSUME NEW i \in 1 .. Len(plan), NEW j \in 1 .. Len(plan),
               plan[i] = DesktopRuntime!Start("host"), plan[j] \in HostSteps
        PROVE  i <= j
    <2>1. plan[i] \in HostSteps
      BY <1>5 DEF HostSteps
    <2>2. i = first + built + 1
      BY <1>4, <1>5, <2>1, StepsApart
    <2> QED
      BY <1>4, <1>5, <2>2
  <1>6. ASSUME NEW i \in 1 .. Len(plan), plan[i] = DesktopRuntime!Configured
        PROVE  i > 1 /\ plan[i - 1] = DesktopRuntime!Ready
    <2>1. plan[i] \in HostSteps
      BY <1>6 DEF HostSteps
    <2>2. i = first + built + 3
      BY <1>4, <1>6, <2>1, StepsApart
    <2> QED
      BY <2>2
  <1>7. ASSUME NEW i \in 1 .. Len(plan), DesktopRuntime!ForAssistant(plan[i])
        PROVE  \E j \in i + 1 .. Len(plan) :
                  /\ ~DesktopRuntime!ForAssistant(plan[j])
                  /\ \A k \in i + 1 .. j - 1 : DesktopRuntime!ForAssistant(plan[k])
    <2>1. i \in first + 1 .. first + built + 3
      BY <1>1, <1>7, StepsApart
    <2>2. PICK j \in Nat : j = first + built + 4
      OBVIOUS
    <2>3. j \in i + 1 .. Len(plan)
      BY <1>1, <2>1, <2>2
    <2>4. ~DesktopRuntime!ForAssistant(plan[j])
      BY <1>1, <2>2, StepsApart
    <2>5. ASSUME NEW k \in i + 1 .. j - 1
          PROVE  DesktopRuntime!ForAssistant(plan[k])
      <3>1. plan[k] \in HostSteps \cup {DesktopRuntime!Run("buildHost")}
        BY <2>1, <2>2 DEF HostSteps
      <3> QED
        BY <3>1, StepsApart
    <2> QED
      BY <2>3, <2>4, <2>5
  <1>8. \A i \in 1 .. Len(plan) : plan[i] \in HostSteps => credentials.assistant # "none"
    OBVIOUS
  <1> QED
    BY <1>5, <1>6, <1>7, <1>8 DEF PlanFits

\* A plan without the host's steps fits.
LEMMA PlainPlanFits ==
    ASSUME NEW plan \in Seq(OtherSteps), NEW credentials
    PROVE  PlanFits(plan, credentials)
  <1>1. plan \in Seq(StepSet)
    BY DEF StepSet
  <1>2. \A i \in 1 .. Len(plan) : plan[i] \in OtherSteps
    OBVIOUS
  <1> QED
    BY <1>1, <1>2, StepsApart DEF PlanFits, HostSteps

\* Two sequences, one behind the other.
Behind(both, s1, n1, s2, n2) ==
    /\ both \in Seq(StepSet) /\ both = s1 \o s2 /\ Len(both) = n1 + n2
    /\ \A i \in 1 .. n1 : both[i] = s1[i]
    /\ \A i \in 1 .. n2 : both[n1 + i] = s2[i]

\* They exist.
LEMMA TwoInOne ==
    ASSUME NEW s1 \in Seq(StepSet), NEW s2 \in Seq(StepSet), NEW n1 \in Nat, NEW n2 \in Nat,
           n1 = Len(s1), n2 = Len(s2)
    PROVE  \E both : Behind(both, s1, n1, s2, n2)
  <1>1. /\ s1 \o s2 \in Seq(StepSet)
        /\ Len(s1 \o s2) = Len(s1) + Len(s2)
        /\ \A i \in 1 .. Len(s1) + Len(s2) : (s1 \o s2)[i] = IF i <= Len(s1) THEN s1[i] ELSE s2[i - Len(s1)]
    BY ConcatProperties
  <1>2. PICK both : both = s1 \o s2
    OBVIOUS
  <1>3. \A i \in 1 .. n1 + n2 : both[i] = IF i <= n1 THEN s1[i] ELSE s2[i - n1]
    BY <1>1, <1>2
  <1>4. \A i \in 1 .. n1 : both[i] = s1[i]
    BY <1>3
  <1>5. ASSUME NEW i \in 1 .. n2
        PROVE  both[n1 + i] = s2[i]
    <2>1. n1 + i \in 1 .. n1 + n2 /\ ~(n1 + i <= n1) /\ (n1 + i) - n1 = i
      OBVIOUS
    <2> QED
      BY <1>3, <2>1
  <1>6. Behind(both, s1, n1, s2, n2)
    BY <1>1, <1>2, <1>4, <1>5 DEF Behind
  <1> QED
    BY <1>6

\* Pieces of a start that are put together make a plan that fits.
LEMMA PiecesFit ==
    ASSUME NEW a \in Seq(OtherSteps), NEW h, NEW z \in Seq(OtherSteps), NEW credentials,
           \/ h = <<>>
           \/ /\ h = DesktopRuntime!HostPlan \/ h = <<DesktopRuntime!Run("buildHost")>> \o DesktopRuntime!HostPlan
              /\ z # <<>> /\ credentials.assistant # "none"
    PROVE  PlanFits((a \o h) \o z, credentials)
  <1>1. CASE h = <<>>
    <2>1. (a \o h) \o z \in Seq(OtherSteps)
      BY <1>1
    <2> QED
      BY <2>1, PlainPlanFits
  <1>2. CASE h # <<>>
    <2>1. PICK built \in {0, 1} :
             /\ h \in Seq(StepSet) /\ Len(h) = built + 3
             /\ built = 1 => h[1] = DesktopRuntime!Run("buildHost")
             /\ h[built + 1] = DesktopRuntime!Start("host")
             /\ h[built + 2] = DesktopRuntime!Ready
             /\ h[built + 3] = DesktopRuntime!Configured
      <3>1. HostSteps \cup {DesktopRuntime!Run("buildHost")} \subseteq StepSet
        BY DEF StepSet
      <3>2. PICK g \in Seq(StepSet) : g = DesktopRuntime!HostPlan
        <4>1. /\ DesktopRuntime!Start("host") \in StepSet /\ DesktopRuntime!Ready \in StepSet
              /\ DesktopRuntime!Configured \in StepSet
          BY <3>1 DEF HostSteps
        <4>2. DesktopRuntime!HostPlan \in Seq(StepSet)
          BY <4>1 DEF DesktopRuntime!HostPlan
        <4> QED
          BY <4>2
      <3>3. /\ Len(g) = 3 /\ g[1] = DesktopRuntime!Start("host")
            /\ g[2] = DesktopRuntime!Ready /\ g[3] = DesktopRuntime!Configured
        BY <3>2 DEF DesktopRuntime!HostPlan
      <3>4. CASE h = DesktopRuntime!HostPlan
        BY <3>2, <3>3, <3>4
      <3>5. CASE h = <<DesktopRuntime!Run("buildHost")>> \o DesktopRuntime!HostPlan
        <4>1. PICK f \in Seq(StepSet) : f = <<DesktopRuntime!Run("buildHost")>>
          <5>1. DesktopRuntime!Run("buildHost") \in StepSet
            BY <3>1
          <5>2. <<DesktopRuntime!Run("buildHost")>> \in Seq(StepSet)
            BY <5>1
          <5> QED
            BY <5>2
        <4>2. Len(f) = 1 /\ f[1] = DesktopRuntime!Run("buildHost")
          BY <4>1
        <4>3. h = f \o g
          BY <3>2, <3>5, <4>1
        <4>4. h \in Seq(StepSet) /\ Len(h) = 4 /\ h[1] = f[1] /\ h[2] = g[1] /\ h[3] = g[2] /\ h[4] = g[3]
          <5>1. PICK both : Behind(both, f, 1, g, 3)
            BY <3>3, <4>2, TwoInOne
          <5>2. both \in Seq(StepSet) /\ both = f \o g /\ Len(both) = 4
            BY <5>1 DEF Behind
          <5>3. both[1] = f[1] /\ both[1 + 1] = g[1] /\ both[1 + 2] = g[2] /\ both[1 + 3] = g[3]
            <6>1. both[1] = f[1]
              BY <5>1 DEF Behind
            <6>2. \A i \in 1 .. 3 : both[1 + i] = g[i]
              BY <5>1 DEF Behind
            <6> QED
              BY <6>1, <6>2
          <5>4. h = both
            BY <4>3, <5>2
          <5>5. both[1] = f[1] /\ both[2] = g[1] /\ both[3] = g[2] /\ both[4] = g[3]
            BY <5>3
          <5> QED
            BY <5>2, <5>4, <5>5, Zenon
        <4> QED
          BY <3>3, <4>2, <4>4
      <3> QED
        BY <1>2, <3>4, <3>5
    <2>2. Len(z) > 0 /\ z \in Seq(StepSet) /\ a \in Seq(StepSet)
      BY <1>2 DEF StepSet
    <2>3. PICK na \in Nat, nz \in Nat, nh \in Nat :
             na = Len(a) /\ nz = Len(z) /\ nz > 0 /\ nh = built + 3 /\ nh = Len(h)
      BY <2>1, <2>2, LenProperties
    <2>4. PICK b \in Seq(StepSet), nb \in Nat :
             /\ b = a \o h /\ nb = na + nh /\ nb = Len(b)
             /\ \A i \in 1 .. na : b[i] = a[i]
             /\ \A i \in 1 .. nh : b[na + i] = h[i]
      <3>1. PICK b : Behind(b, a, na, h, nh)
        BY <2>1, <2>2, <2>3, TwoInOne
      <3>2. PICK nb \in Nat : nb = na + nh
        OBVIOUS
      <3> QED
        BY <3>1, <3>2 DEF Behind
    <2>5. PICK plan \in Seq(StepSet) :
             /\ plan = b \o z /\ Len(plan) = nb + nz
             /\ \A i \in 1 .. nb : plan[i] = b[i]
             /\ \A i \in 1 .. nz : plan[nb + i] = z[i]
      <3>1. PICK plan : Behind(plan, b, nb, z, nz)
        BY <2>2, <2>3, <2>4, TwoInOne
      <3> QED
        BY <3>1 DEF Behind
    <2>6. ASSUME NEW i \in 1 .. nb + nz, i <= na \/ i > na + built + 3
          PROVE  plan[i] \in OtherSteps
      <3>1. \A k \in 1 .. na : a[k] \in OtherSteps
        BY <2>3, ElementOfSeq
      <3>2. \A k \in 1 .. nz : z[k] \in OtherSteps
        BY <2>3, ElementOfSeq
      <3>3. CASE i <= na
        <4>1. i \in 1 .. na /\ i \in 1 .. nb
          BY <3>3, <2>3, <2>4
        <4> QED
          BY <4>1, <3>1, <2>4, <2>5
      <3>4. CASE i > na + built + 3
        <4>1. PICK k \in 1 .. nz : i = nb + k
          <5>1. i - nb \in 1 .. nz /\ i = nb + (i - nb)
            BY <3>4, <2>3, <2>4
          <5> QED
            BY <5>1
        <4> QED
          BY <4>1, <3>2, <2>5
      <3> QED
        BY <2>6, <3>3, <3>4
    <2>7. /\ built = 1 => plan[na + 1] = DesktopRuntime!Run("buildHost")
          /\ plan[na + built + 1] = DesktopRuntime!Start("host")
          /\ plan[na + built + 2] = DesktopRuntime!Ready
          /\ plan[na + built + 3] = DesktopRuntime!Configured
      <3>1. ASSUME NEW k \in 1 .. nh
            PROVE  plan[na + k] = h[k]
        <4>1. na + k \in 1 .. nb
          <5>1. nb = na + nh
            BY <2>4
          <5> QED
            BY <5>1
        <4> QED
          BY <4>1, <2>4, <2>5
      <3>2. {built + 1, built + 2, built + 3} \subseteq 1 .. nh /\ (built = 1 => 1 \in 1 .. nh)
        BY <2>3
      <3>3. /\ na + (built + 1) = na + built + 1 /\ na + (built + 2) = na + built + 2
            /\ na + (built + 3) = na + built + 3
        OBVIOUS
      <3>4. /\ plan[na + (built + 1)] = h[built + 1] /\ plan[na + (built + 2)] = h[built + 2]
            /\ plan[na + (built + 3)] = h[built + 3] /\ (built = 1 => plan[na + 1] = h[1])
        BY <3>1, <3>2
      <3> QED
        BY <2>1, <3>3, <3>4
    <2>8. PlanFits(plan, credentials)
      <3>1. na + built + 3 < Len(plan)
        BY <2>3, <2>4, <2>5
      <3>2. \A i \in 1 .. Len(plan) : i <= na \/ i > na + built + 3 => plan[i] \in OtherSteps
        BY <2>5, <2>6
      <3> QED
        BY <1>2, <2>7, <3>1, <3>2, HostPlanFits
    <2> QED
      BY <2>4, <2>5, <2>8
  <1> QED
    BY <1>1, <1>2

\* Every start has a plan that fits.
LEMMA StartFits ==
    ASSUME NEW start \in DesktopRuntime!Starts
    PROVE  /\ start.credentials \in CredentialSet
           /\ PlanFits(start.plan, start.credentials)
  <1>1. PlanFits(DesktopRuntime!Packaged, DesktopRuntime!CreateSourceCredentials)
    <2>1. /\ <<DesktopRuntime!Start("api"), DesktopRuntime!Wait("api")>> \in Seq(OtherSteps)
          /\ <<DesktopRuntime!Start("web"), DesktopRuntime!Wait("web")>> \in Seq(OtherSteps)
          /\ <<DesktopRuntime!Start("web"), DesktopRuntime!Wait("web")>> # <<>>
      BY StepsApart
    <2>2. DesktopRuntime!CreateSourceCredentials.assistant # "none"
      BY DEF DesktopRuntime!CreateSourceCredentials, DesktopRuntime!Credentials
    <2> QED
      BY <2>1, <2>2, PiecesFit DEF DesktopRuntime!Packaged
  <1>2. ASSUME NEW apiRuns \in BOOLEAN, NEW apiReady \in BOOLEAN, NEW webRuns \in BOOLEAN, NEW credentials
        PROVE  PlanFits(DesktopRuntime!Source(apiRuns, apiReady, webRuns, credentials.assistant # "none"),
                  credentials)
    <2> DEFINE starts == DesktopRuntime!Optional(~apiRuns, <<DesktopRuntime!Start("api")>>)
               a == DesktopRuntime!Optional(~apiReady,
                      (<<DesktopRuntime!Run("infra"), DesktopRuntime!Run("migrate")>> \o starts)
                      \o <<DesktopRuntime!Wait("api")>>)
               h == DesktopRuntime!Optional(~webRuns /\ credentials.assistant # "none",
                      <<DesktopRuntime!Run("buildHost")>> \o DesktopRuntime!HostPlan)
               z == DesktopRuntime!Optional(~webRuns,
                      <<DesktopRuntime!Run("buildWeb"), DesktopRuntime!Start("web"), DesktopRuntime!Wait("web")>>)
    <2>1. starts \in Seq(OtherSteps)
      BY StepsApart DEF DesktopRuntime!Optional
    <2>2. a \in Seq(OtherSteps)
      <3>1. <<DesktopRuntime!Run("infra"), DesktopRuntime!Run("migrate")>> \in Seq(OtherSteps)
        BY StepsApart
      <3>2. <<DesktopRuntime!Wait("api")>> \in Seq(OtherSteps)
        BY StepsApart
      <3> QED
        BY <2>1, <3>1, <3>2 DEF DesktopRuntime!Optional
    <2>3. z \in Seq(OtherSteps) /\ (~webRuns => z # <<>>)
      BY StepsApart DEF DesktopRuntime!Optional
    <2>4. \/ h = <<>>
          \/ /\ h = <<DesktopRuntime!Run("buildHost")>> \o DesktopRuntime!HostPlan
             /\ z # <<>> /\ credentials.assistant # "none"
      BY <2>3 DEF DesktopRuntime!Optional
    <2>5. DesktopRuntime!Source(apiRuns, apiReady, webRuns, credentials.assistant # "none") = (a \o h) \o z
      BY DEF DesktopRuntime!Source
    <2> HIDE DEF a, h, z
    <2> QED
      BY <2>2, <2>3, <2>4, <2>5, PiecesFit
  <1>3. DesktopRuntime!CreateSourceCredentials \in CredentialSet
           /\ DesktopRuntime!CreateSourceCredentials.assistant # "none"
    BY DEF DesktopRuntime!CreateSourceCredentials, DesktopRuntime!Credentials, CredentialSet
  <1>4. \A e \in DesktopRuntime!Environments : DesktopRuntime!ExistingSourceCredentials(e) \in CredentialSet
    <2> TAKE e \in DesktopRuntime!Environments
    <2>1. e.owner \in {"own", "unusable"} /\ e.assistant \in {"assisting", "own", "unusable"}
      BY DEF DesktopRuntime!Environments
    <2> QED
      BY <2>1 DEF DesktopRuntime!ExistingSourceCredentials, DesktopRuntime!ValidCredential,
                  DesktopRuntime!Credentials, CredentialSet
  <1>5. CASE start = [plan |-> DesktopRuntime!Packaged, credentials |-> DesktopRuntime!CreateSourceCredentials]
    BY <1>1, <1>3, <1>5
  <1>6. CASE \E webRuns \in BOOLEAN :
                start = [plan |-> DesktopRuntime!Source(FALSE, FALSE, webRuns, TRUE),
                         credentials |-> DesktopRuntime!CreateSourceCredentials]
    <2>1. PICK webRuns \in BOOLEAN :
             start = [plan |-> DesktopRuntime!Source(FALSE, FALSE, webRuns, TRUE),
                      credentials |-> DesktopRuntime!CreateSourceCredentials]
      BY <1>6
    <2>2. (DesktopRuntime!CreateSourceCredentials.assistant # "none") = TRUE
      BY <1>3
    <2>3. PlanFits(DesktopRuntime!Source(FALSE, FALSE, webRuns,
             DesktopRuntime!CreateSourceCredentials.assistant # "none"),
                   DesktopRuntime!CreateSourceCredentials)
      BY <1>2
    <2>4. PlanFits(DesktopRuntime!Source(FALSE, FALSE, webRuns, TRUE), DesktopRuntime!CreateSourceCredentials)
      BY <2>2, <2>3
    <2> QED
      BY <1>3, <2>1, <2>4
  <1>7. CASE \E x \in BOOLEAN \X BOOLEAN \X DesktopRuntime!Environments :
                start = [plan |-> DesktopRuntime!Source(TRUE, x[1], x[2],
                                     DesktopRuntime!ExistingSourceCredentials(x[3]).assistant # "none"),
                         credentials |-> DesktopRuntime!ExistingSourceCredentials(x[3])]
    <2>1. PICK ready \in BOOLEAN, webRuns \in BOOLEAN, e \in DesktopRuntime!Environments :
             start = [plan |-> DesktopRuntime!Source(TRUE, ready, webRuns,
                                  DesktopRuntime!ExistingSourceCredentials(e).assistant # "none"),
                      credentials |-> DesktopRuntime!ExistingSourceCredentials(e)]
      BY <1>7
    <2> QED
      BY <1>2, <1>4, <2>1
  <1> QED
    BY <1>5, <1>6, <1>7 DEF DesktopRuntime!Starts

\* The invariant holds at the start.
LEMMA RuntimeStarts ==
    ASSUME DesktopRuntime!Init
    PROVE  RuntimeInv
  <1>1. PICK start \in DesktopRuntime!Starts :
           boot = [plan |-> start.plan, credentials |-> start.credentials, at |-> 1, failed |-> FALSE,
                   assistant |-> FALSE, given |-> [c \in DesktopRuntime!Children |-> {}]]
    BY DEF DesktopRuntime!Init
  <1>2. /\ start.credentials \in CredentialSet /\ PlanFits(start.plan, start.credentials)
        /\ start.plan \in Seq(StepSet)
    BY StartFits DEF PlanFits
  <1>3. /\ proc = [c \in DesktopRuntime!Children |-> "none"]
        /\ app = [quit |-> "no", waits |-> {}, late |-> {}]
        /\ host = [stage |-> "none", gateway |-> FALSE, client |-> FALSE, sent |-> {}, configure |-> FALSE]
    BY DEF DesktopRuntime!Init
  <1>4. RuntimeTyped
    <2>1. boot \in [plan : Seq(StepSet), credentials : CredentialSet, at : Nat \ {0}, failed : BOOLEAN,
                    assistant : BOOLEAN, given : [DesktopRuntime!Children -> SUBSET Tokens]]
      BY <1>1, <1>2
    <2>2. PlanFits(boot.plan, boot.credentials)
      BY <1>1, <1>2
    <2> QED
      BY <1>3, <2>1, <2>2 DEF RuntimeTyped
  <1>5. QuitFits
    BY <1>3 DEF QuitFits, DesktopRuntime!QuitStopsWhatItFound
  <1>6. HostFits
    <2>1. "host" \in DesktopRuntime!Children
      BY DEF DesktopRuntime!Children
    <2> QED
      BY <1>3, <2>1 DEF HostFits
  <1>7. TokensFit
    <2>1. {"host", "web", "api"} \subseteq DesktopRuntime!Children
      BY DEF DesktopRuntime!Children
    <2>2. boot.at = 1 /\ ~boot.assistant /\ boot.given["web"] = {} /\ boot.given["host"] = {} /\ proc["api"] = "none"
      BY <1>1, <1>3, <2>1
    <2>3. ~(boot.at <= Len(boot.plan) /\ boot.plan[boot.at] = DesktopRuntime!Configured)
      <3>1. Len(boot.plan) \in Nat
        BY <1>1, <1>2, LenProperties
      <3> QED
        BY <1>1, <1>2, <2>2, <3>1 DEF PlanFits
    <2> QED
      BY <2>2, <2>3 DEF TokensFit
  <1> QED
    BY <1>4, <1>5, <1>6, <1>7 DEF RuntimeInv

\* What is known of the step that bootstrap is at, and of the next one.
LEMMA NowFits ==
    ASSUME RuntimeTyped, boot.at <= Len(boot.plan)
    PROVE  /\ DesktopRuntime!Now \in StepSet
           /\ boot.at \in 1 .. Len(boot.plan) /\ Len(boot.plan) \in Nat
           /\ DesktopRuntime!Now \in HostSteps =>
                 /\ boot.credentials.assistant # "none"
                 /\ \A i \in 1 .. Len(boot.plan) : i > boot.at => boot.plan[i] # DesktopRuntime!Start("host")
           /\ boot.at + 1 <= Len(boot.plan) /\ boot.plan[boot.at + 1] = DesktopRuntime!Configured =>
                 DesktopRuntime!Now = DesktopRuntime!Ready
  <1>1. /\ boot.plan \in Seq(StepSet) /\ boot.at \in Nat \ {0} /\ PlanFits(boot.plan, boot.credentials)
    BY DEF RuntimeTyped
  <1>2. Len(boot.plan) \in Nat
    BY <1>1, LenProperties
  <1>3. boot.at \in 1 .. Len(boot.plan)
    BY <1>1, <1>2
  <1>4. DesktopRuntime!Now \in StepSet
    BY <1>1, <1>3, ElementOfSeq DEF DesktopRuntime!Now
  <1>5. ASSUME DesktopRuntime!Now \in HostSteps
        PROVE  /\ boot.credentials.assistant # "none"
               /\ \A i \in 1 .. Len(boot.plan) : i > boot.at => boot.plan[i] # DesktopRuntime!Start("host")
    BY <1>1, <1>2, <1>3, <1>5 DEF DesktopRuntime!Now, PlanFits
  <1>6. ASSUME boot.at + 1 <= Len(boot.plan), boot.plan[boot.at + 1] = DesktopRuntime!Configured
        PROVE  DesktopRuntime!Now = DesktopRuntime!Ready
    <2>1. PICK i \in 1 .. Len(boot.plan) : i = boot.at + 1
      BY <1>2, <1>3, <1>6
    <2>2. boot.plan[i - 1] = DesktopRuntime!Ready
      BY <1>1, <1>6, <2>1 DEF PlanFits
    <2>3. i - 1 = boot.at
      BY <1>1, <2>1
    <2> QED
      BY <2>2, <2>3 DEF DesktopRuntime!Now
  <1> QED
    BY <1>2, <1>3, <1>4, <1>5, <1>6

\* A failure ends the start or goes on at a step that is not for the assistant.
LEMMA FailGoes ==
    ASSUME RuntimeTyped, boot.at <= Len(boot.plan), DesktopRuntime!Fail
    PROVE  \/ boot' = [boot EXCEPT !.failed = TRUE]
           \/ \E n \in boot.at + 1 .. Len(boot.plan) :
                 boot' = [boot EXCEPT !.at = n] /\ ~DesktopRuntime!ForAssistant(boot.plan[n])
  <1>1. /\ boot.plan \in Seq(StepSet) /\ boot.at \in 1 .. Len(boot.plan) /\ PlanFits(boot.plan, boot.credentials)
    BY NowFits DEF RuntimeTyped
  <1>2. CASE ~DesktopRuntime!ForAssistant(DesktopRuntime!Now)
    BY <1>2 DEF DesktopRuntime!Fail
  <1>3. CASE DesktopRuntime!ForAssistant(DesktopRuntime!Now)
    <2> DEFINE IsNext(i) ==
          /\ ~DesktopRuntime!ForAssistant(boot.plan[i])
          /\ \A j \in boot.at + 1 .. i - 1 : DesktopRuntime!ForAssistant(boot.plan[j])
        n == CHOOSE i \in boot.at + 1 .. Len(boot.plan) : IsNext(i)
    <2>1. \E i \in boot.at + 1 .. Len(boot.plan) : IsNext(i)
      BY <1>1, <1>3 DEF PlanFits, DesktopRuntime!Now
    <2>2. n \in boot.at + 1 .. Len(boot.plan) /\ IsNext(n)
      <3> HIDE DEF IsNext
      <3> QED
        BY <2>1
    <2>3. boot' = [boot EXCEPT !.at = n]
      BY <1>3 DEF DesktopRuntime!Fail
    <2> HIDE DEF n
    <2> QED
      BY <2>2, <2>3
  <1> QED
    BY <1>2, <1>3

\* Bootstrap passes a step, or fails, and nothing else happens.
LEMMA Passes ==
    ASSUME RuntimeInv, NEW n \in Nat, boot.at <= n,
           boot' = [boot EXCEPT !.at = n] \/ boot' = [boot EXCEPT !.failed = TRUE],
           n <= Len(boot.plan) => boot.plan[n] # DesktopRuntime!Configured,
           UNCHANGED <<proc, app, host>>
    PROVE  RuntimeInv'
  <1>1. RuntimeTyped
    BY DEF RuntimeInv
  <1>a. boot \in [plan : Seq(StepSet), credentials : CredentialSet, at : Nat \ {0}, failed : BOOLEAN,
                  assistant : BOOLEAN, given : [DesktopRuntime!Children -> SUBSET Tokens]]
    BY <1>1 DEF RuntimeTyped
  <1>2. /\ boot'.plan = boot.plan /\ boot'.credentials = boot.credentials /\ boot'.assistant = boot.assistant
        /\ boot'.given = boot.given /\ boot'.at \in {n, boot.at} /\ boot.at \in Nat \ {0}
        /\ boot' \in [plan : Seq(StepSet), credentials : CredentialSet, at : Nat \ {0}, failed : BOOLEAN,
                      assistant : BOOLEAN, given : [DesktopRuntime!Children -> SUBSET Tokens]]
    <2>1. CASE boot' = [boot EXCEPT !.at = n]
      <3>1. n \in Nat \ {0}
        BY <1>a
      <3> QED
        BY <1>a, <2>1, <3>1
    <2>2. CASE boot' = [boot EXCEPT !.failed = TRUE]
      BY <1>a, <2>2
    <2> QED
      BY <2>1, <2>2
  <1>3. RuntimeTyped'
    BY <1>1, <1>2 DEF RuntimeTyped
  <1>4. HostStarted => HostStarted'
    BY <1>2 DEF HostStarted
  <1>5. HostFits'
    BY <1>4 DEF RuntimeInv, HostFits
  <1>6. QuitFits'
    BY DEF RuntimeInv, QuitFits, DesktopRuntime!QuitStopsWhatItFound
  <1>7. TokensFit'
    <2>1. boot'.at <= Len(boot'.plan) /\ boot'.plan[boot'.at] = DesktopRuntime!Configured =>
             boot.at <= Len(boot.plan) /\ boot.plan[boot.at] = DesktopRuntime!Configured
      BY <1>2
    <2> QED
      BY <1>2, <1>4, <2>1 DEF RuntimeInv, TokensFit
  <1> QED
    BY <1>3, <1>5, <1>6, <1>7 DEF RuntimeInv

\* A child that is started while the application quits is among those started since.
LEMMA SpawnQuits ==
    ASSUME RuntimeInv, NEW c \in DesktopRuntime!Children, app.quit # "done", DesktopRuntime!Spawn(c)
    PROVE  /\ QuitFits'
           /\ proc' \in [DesktopRuntime!Children -> {"none", "runs", "ended"}]
           /\ app' \in [quit : {"no", "stopping", "done"}, waits : SUBSET DesktopRuntime!Children,
                        late : SUBSET DesktopRuntime!Children]
           /\ proc'[c] \in {"runs", "ended"}
           /\ \A d \in DesktopRuntime!Children \ {c} : proc'[d] = proc[d]
  <1>1. /\ proc \in [DesktopRuntime!Children -> {"none", "runs", "ended"}]
        /\ app \in [quit : {"no", "stopping", "done"}, waits : SUBSET DesktopRuntime!Children,
                    late : SUBSET DesktopRuntime!Children]
        /\ QuitFits
    BY DEF RuntimeInv, RuntimeTyped
  <1>2. PICK state \in {"runs", "ended"} : proc' = [proc EXCEPT ![c] = state]
    BY DEF DesktopRuntime!Spawn
  <1>3. PICK since : since = (IF app.quit = "no" THEN app.late ELSE app.late \cup {c})
                /\ app' = [app EXCEPT !.late = since]
    BY DEF DesktopRuntime!Spawn
  <1>4. since \subseteq DesktopRuntime!Children
    BY <1>1, <1>3
  <1>5. /\ proc' \in [DesktopRuntime!Children -> {"none", "runs", "ended"}]
        /\ proc'[c] \in {"runs", "ended"}
        /\ \A d \in DesktopRuntime!Children \ {c} : proc'[d] = proc[d]
    BY <1>1, <1>2
  <1>6. /\ app' \in [quit : {"no", "stopping", "done"}, waits : SUBSET DesktopRuntime!Children,
                     late : SUBSET DesktopRuntime!Children]
        /\ app'.quit = app.quit /\ app'.waits = app.waits /\ app'.late = since
    BY <1>1, <1>3, <1>4
  <1>7. QuitFits'
    <2>1. \A d \in app'.waits : proc'[d] # "none"
      BY <1>1, <1>5, <1>6 DEF QuitFits
    <2>2. ASSUME app'.quit = "stopping", NEW d \in DesktopRuntime!Children, proc'[d] = "runs"
          PROVE  d \in app'.waits \cup app'.late
      <3>1. since = app.late \cup {c}
        BY <1>3, <1>6, <2>2
      <3> QED
        BY <1>1, <1>5, <1>6, <2>2, <3>1 DEF QuitFits
    <2>3. app'.quit # "done"
      BY <1>6
    <2> QED
      BY <2>1, <2>2, <2>3 DEF QuitFits, DesktopRuntime!QuitStopsWhatItFound
  <1> QED
    BY <1>5, <1>6, <1>7

\* A command begins.
LEMMA RunBeginsKeeps ==
    ASSUME RuntimeInv, NEW c \in DesktopRuntime!Children, DesktopRuntime!RunBegins(c)
    PROVE  RuntimeInv'
  <1>1. /\ RuntimeTyped /\ app.quit # "done" /\ DesktopRuntime!Spawn(c) /\ UNCHANGED <<boot, host>>
        /\ DesktopRuntime!Now = DesktopRuntime!Run(c) /\ ~(boot.at > Len(boot.plan))
    BY DEF RuntimeInv, DesktopRuntime!RunBegins, DesktopRuntime!At, DesktopRuntime!Run, DesktopRuntime!Up
  <1>2. boot.at <= Len(boot.plan)
    BY <1>1, LenProperties DEF RuntimeTyped
  <1>3. c \notin {"host", "api"}
    BY <1>1, <1>2, NowFits DEF StepSet, OtherSteps, HostSteps, DesktopRuntime!Run, DesktopRuntime!Start,
       DesktopRuntime!Ready, DesktopRuntime!Configured, DesktopRuntime!Step
  <1>4. {"host", "api"} \subseteq DesktopRuntime!Children
    BY DEF DesktopRuntime!Children
  <1>5. proc'["host"] = proc["host"] /\ proc'["api"] = proc["api"]
    BY <1>1, <1>3, <1>4, SpawnQuits
  <1>6. RuntimeTyped'
    BY <1>1, SpawnQuits DEF RuntimeTyped
  <1>7. QuitFits'
    BY <1>1, SpawnQuits
  <1>8. HostStarted' = HostStarted
    BY <1>1 DEF HostStarted
  <1>9. HostFits' /\ TokensFit'
    BY <1>1, <1>5, <1>8 DEF RuntimeInv, HostFits, TokensFit
  <1> QED
    BY <1>6, <1>7, <1>9 DEF RuntimeInv

\* Bootstrap goes on after a command or a wait, or fails where it is.
LEMMA PassingKeeps ==
    ASSUME RuntimeInv,
           \/ \E c \in DesktopRuntime!Children : DesktopRuntime!RunEnds(c) \/ DesktopRuntime!Waited(c)
           \/ DesktopRuntime!NoConfiguration
           \/ \E m \in {"ready", "configured"} : DesktopRuntime!MessageFails(m)
    PROVE  RuntimeInv'
  <1>1. RuntimeTyped /\ UNCHANGED <<proc, app, host>>
    BY DEF RuntimeInv, DesktopRuntime!RunEnds, DesktopRuntime!Waited, DesktopRuntime!NoConfiguration,
           DesktopRuntime!MessageFails
  <1>2. boot.at <= Len(boot.plan)
    <2>1. ~(boot.at > Len(boot.plan))
      BY DEF DesktopRuntime!RunEnds, DesktopRuntime!Waited, DesktopRuntime!NoConfiguration,
             DesktopRuntime!MessageFails, DesktopRuntime!At, DesktopRuntime!Up
    <2> QED
      BY <1>1, <2>1, LenProperties DEF RuntimeTyped
  <1>3. CASE DesktopRuntime!Fail
    <2>1. CASE boot' = [boot EXCEPT !.failed = TRUE]
      <3>1. PICK n \in Nat : n = Len(boot.plan) + 1
        BY <1>1, <1>2, NowFits
      <3>2. boot.at <= n /\ ~(n <= Len(boot.plan))
        BY <1>1, <1>2, <3>1, NowFits
      <3> QED
        BY <1>1, <2>1, <3>2, Passes
    <2>2. CASE \E n \in boot.at + 1 .. Len(boot.plan) :
                  boot' = [boot EXCEPT !.at = n] /\ ~DesktopRuntime!ForAssistant(boot.plan[n])
      <3>1. PICK n \in boot.at + 1 .. Len(boot.plan) :
               boot' = [boot EXCEPT !.at = n] /\ ~DesktopRuntime!ForAssistant(boot.plan[n])
        BY <2>2
      <3>2. n \in Nat /\ boot.at <= n
        BY <1>1, <1>2, NowFits
      <3>3. boot.plan[n] # DesktopRuntime!Configured
        BY <3>1, StepsApart DEF HostSteps
      <3> QED
        BY <1>1, <3>1, <3>2, <3>3, Passes
    <2> QED
      BY <1>1, <1>2, <1>3, <2>1, <2>2, FailGoes
  <1>4. CASE /\ DesktopRuntime!Advance
             /\ \E c \in DesktopRuntime!Children : DesktopRuntime!RunEnds(c) \/ DesktopRuntime!Waited(c)
    <2>1. PICK n \in Nat : n = boot.at + 1 /\ boot' = [boot EXCEPT !.at = n]
      <3>1. boot' = [boot EXCEPT !.at = boot.at + 1]
        BY <1>4 DEF DesktopRuntime!Advance
      <3>2. PICK n \in Nat : n = boot.at + 1
        BY <1>1, <1>2, NowFits
      <3> QED
        BY <3>1, <3>2
    <2>2. PICK c \in DesktopRuntime!Children : DesktopRuntime!Now = DesktopRuntime!Step("run", c)
                                                \/ DesktopRuntime!Now = DesktopRuntime!Step("wait", c)
      BY <1>4 DEF DesktopRuntime!RunEnds, DesktopRuntime!Waited, DesktopRuntime!At
    <2>3. DesktopRuntime!Now # DesktopRuntime!Ready
      BY <2>2 DEF DesktopRuntime!Ready, DesktopRuntime!Step
    <2>4. n <= Len(boot.plan) => boot.plan[n] # DesktopRuntime!Configured
      BY <1>1, <1>2, <2>1, <2>3, NowFits
    <2>5. boot.at <= n
      BY <1>1, <1>2, <2>1, NowFits
    <2> QED
      BY <1>1, <2>1, <2>4, <2>5, Passes
  <1> QED
    BY <1>3, <1>4 DEF DesktopRuntime!RunEnds, DesktopRuntime!Waited, DesktopRuntime!NoConfiguration,
       DesktopRuntime!MessageFails

\* A child is started and given what its environment holds.
LEMMA StartChildKeeps ==
    ASSUME RuntimeInv, NEW c \in DesktopRuntime!Children, DesktopRuntime!StartChild(c)
    PROVE  RuntimeInv'
  <1>1. /\ RuntimeTyped /\ app.quit # "done" /\ DesktopRuntime!Spawn(c)
        /\ DesktopRuntime!Now = DesktopRuntime!Start(c) /\ ~(boot.at > Len(boot.plan))
        /\ host' = IF c = "host" /\ proc'[c] = "runs" THEN [host EXCEPT !.stage = "new"] ELSE host
        /\ boot' = DesktopRuntime!Gives(c, DesktopRuntime!EnvironmentOf(c))
    BY DEF RuntimeInv, DesktopRuntime!StartChild, DesktopRuntime!At, DesktopRuntime!Start, DesktopRuntime!Up
  <1>2. boot.at <= Len(boot.plan)
    BY <1>1, LenProperties DEF RuntimeTyped
  <1>3. c \in {"api", "web", "host"}
    BY <1>1, <1>2, NowFits DEF StepSet, OtherSteps, HostSteps, DesktopRuntime!Run, DesktopRuntime!Start,
       DesktopRuntime!Ready, DesktopRuntime!Configured, DesktopRuntime!Step
  <1>4. PICK tokens : /\ tokens = DesktopRuntime!EnvironmentOf(c)
                      /\ tokens = (IF c = "api" THEN DesktopRuntime!ApiEnvironment
                                   ELSE IF c = "web" THEN DesktopRuntime!WebEnvironment ELSE {})
    BY <1>3 DEF DesktopRuntime!EnvironmentOf, DesktopRuntime!HostEnvironment
  <1>a. boot \in [plan : Seq(StepSet), credentials : CredentialSet, at : Nat \ {0}, failed : BOOLEAN,
                  assistant : BOOLEAN, given : [DesktopRuntime!Children -> SUBSET Tokens]]
    BY <1>1 DEF RuntimeTyped
  <1>5. tokens \subseteq Tokens
    BY <1>a, <1>4 DEF DesktopRuntime!ApiEnvironment, DesktopRuntime!WebEnvironment, CredentialSet, Tokens
  <1>6. PICK gave : gave = [boot.given EXCEPT ![c] = tokens]
    OBVIOUS
  <1>7. /\ gave \in [DesktopRuntime!Children -> SUBSET Tokens] /\ gave[c] = tokens
        /\ \A d \in DesktopRuntime!Children \ {c} : gave[d] = boot.given[d]
    BY <1>a, <1>5, <1>6
  <1>8. boot' = [boot EXCEPT !.at = boot.at + 1, !.given = gave]
    BY <1>1, <1>4, <1>6 DEF DesktopRuntime!Gives
  <1>9. /\ boot' \in [plan : Seq(StepSet), credentials : CredentialSet, at : Nat \ {0}, failed : BOOLEAN,
                      assistant : BOOLEAN, given : [DesktopRuntime!Children -> SUBSET Tokens]]
        /\ boot'.plan = boot.plan /\ boot'.credentials = boot.credentials /\ boot'.assistant = boot.assistant
        /\ boot'.at = boot.at + 1 /\ boot'.given = gave
    <2>1. boot.at + 1 \in Nat \ {0}
      BY <1>a
    <2> QED
      BY <1>a, <1>7, <1>8, <2>1
  <1>10. host' = [host EXCEPT !.stage = "new"] \/ host' = host
    BY <1>1
  <1>11. RuntimeTyped'
    <2>1. host' \in [stage : {"none", "new", "waiting", "service", "gateway", "configured", "ending", "gone"},
                     gateway : BOOLEAN, client : BOOLEAN, sent : SUBSET {"ready", "configured", "failed"},
                     configure : BOOLEAN]
      BY <1>1, <1>10 DEF RuntimeTyped
    <2> QED
      BY <1>1, <1>9, <2>1, SpawnQuits DEF RuntimeTyped
  <1>12. HostStarted => HostStarted'
    BY <1>a, <1>9 DEF HostStarted
  <1>13. c = "host" => HostStarted' /\ ~HostStarted
    <2> SUFFICES ASSUME c = "host" PROVE HostStarted' /\ ~HostStarted
      OBVIOUS
    <2>1. DesktopRuntime!Now \in HostSteps
      BY <1>1 DEF HostSteps
    <2>2. \A i \in 1 .. Len(boot.plan) : i > boot.at => boot.plan[i] # DesktopRuntime!Start("host")
      BY <1>1, <1>2, <2>1, NowFits
    <2>3. HostStarted'
      <3>1. ASSUME NEW i \in 1 .. Len(boot.plan), i >= boot.at + 1
            PROVE  boot.plan[i] # DesktopRuntime!Start("host")
        BY <1>a, <2>2, <3>1
      <3> QED
        BY <1>9, <3>1 DEF HostStarted
    <2>4. ~HostStarted
      <3>1. boot.at \in 1 .. Len(boot.plan) /\ boot.at >= boot.at
        BY <1>1, <1>2, NowFits
      <3> QED
        BY <1>1, <3>1 DEF HostStarted, DesktopRuntime!Now
    <2> QED
      BY <2>3, <2>4
  <1>14. {"host", "api", "web"} \subseteq DesktopRuntime!Children
    BY DEF DesktopRuntime!Children
  <1>15. HostFits'
    <2>1. CASE c = "host"
      <3>1. host'.sent = {} /\ (proc'["host"] = "runs" => host'.stage = "new")
        BY <1>1, <1>13, <2>1 DEF RuntimeInv, RuntimeTyped, HostFits
      <3> QED
        BY <1>13, <2>1, <3>1 DEF HostFits
    <2>2. CASE c # "host"
      <3>1. host' = host /\ proc'["host"] = proc["host"]
        BY <1>1, <1>14, <2>2, SpawnQuits
      <3> QED
        BY <1>12, <3>1 DEF RuntimeInv, HostFits
    <2> QED
      BY <2>1, <2>2
  <1>16. TokensFit'
    <2>1. boot'.at <= Len(boot'.plan) => boot'.plan[boot'.at] # DesktopRuntime!Configured
      <3>1. DesktopRuntime!Now # DesktopRuntime!Ready
        BY <1>1 DEF DesktopRuntime!Start, DesktopRuntime!Ready, DesktopRuntime!Step
      <3> QED
        BY <1>1, <1>2, <1>9, <3>1, NowFits
    <2>2. host'.sent = host.sent
      BY <1>1, <1>10 DEF RuntimeTyped
    <2>3. boot'.assistant => "configured" \in host'.sent /\ "gateway" \in boot'.given["host"] /\ HostStarted'
      <3>1. boot.assistant => c # "host"
        BY <1>13 DEF RuntimeInv, TokensFit
      <3> QED
        BY <1>7, <1>9, <1>12, <1>14, <2>2, <3>1 DEF RuntimeInv, TokensFit
    <2>4. /\ boot'.given["web"] \subseteq {boot'.credentials.owner, "gateway"}
          /\ "gateway" \in boot'.given["web"] => boot'.assistant
      <3>1. CASE c = "web"
        <4>1. boot.credentials.owner # "gateway"
          BY <1>a DEF CredentialSet
        <4> QED
          BY <1>4, <1>7, <1>9, <3>1, <4>1 DEF DesktopRuntime!WebEnvironment
      <3>2. CASE c # "web"
        BY <1>7, <1>9, <1>14, <3>2 DEF RuntimeInv, TokensFit
      <3> QED
        BY <3>1, <3>2
    <2>5. /\ boot'.given["host"] \subseteq {boot'.credentials.assistant, "gateway"}
          /\ boot'.given["host"] # {} => boot'.credentials.assistant # "none"
      <3>1. CASE c = "host"
        BY <1>4, <1>7, <1>9, <3>1
      <3>2. CASE c # "host"
        BY <1>7, <1>9, <1>14, <3>2 DEF RuntimeInv, TokensFit
      <3> QED
        BY <3>1, <3>2
    <2>6. proc'["api"] # "none" =>
             boot'.given["api"] = {boot'.credentials.owner, boot'.credentials.assistant}
      <3>1. CASE c = "api"
        BY <1>4, <1>7, <1>9, <3>1 DEF DesktopRuntime!ApiEnvironment
      <3>2. CASE c # "api"
        <4>1. proc'["api"] = proc["api"]
          BY <1>1, <1>14, <3>2, SpawnQuits
        <4> QED
          BY <1>7, <1>9, <1>14, <3>2, <4>1 DEF RuntimeInv, TokensFit
      <3> QED
        BY <3>1, <3>2
    <2> QED
      BY <2>1, <2>3, <2>4, <2>5, <2>6 DEF TokensFit
  <1> QED
    BY <1>1, <1>11, <1>15, <1>16, SpawnQuits DEF RuntimeInv

\* The host is there and is sent its configuration.
LEMMA HostAnswersKeeps ==
    ASSUME RuntimeInv, DesktopRuntime!HostAnswers
    PROVE  RuntimeInv'
  <1>1. /\ RuntimeTyped /\ DesktopRuntime!Now = DesktopRuntime!Ready /\ ~(boot.at > Len(boot.plan))
        /\ boot' = DesktopRuntime!Gives("host", {boot.credentials.assistant, "gateway"})
        /\ host' = [host EXCEPT !.configure = TRUE] /\ UNCHANGED <<proc, app>>
    BY DEF RuntimeInv, DesktopRuntime!HostAnswers, DesktopRuntime!At, DesktopRuntime!Ready, DesktopRuntime!Up
  <1>2. boot.at <= Len(boot.plan)
    BY <1>1, LenProperties DEF RuntimeTyped
  <1>3. boot \in [plan : Seq(StepSet), credentials : CredentialSet, at : Nat \ {0}, failed : BOOLEAN,
                  assistant : BOOLEAN, given : [DesktopRuntime!Children -> SUBSET Tokens]]
    BY <1>1 DEF RuntimeTyped
  <1>4. {boot.credentials.assistant, "gateway"} \subseteq Tokens
    BY <1>3 DEF CredentialSet, Tokens
  <1>5. {"host", "api", "web"} \subseteq DesktopRuntime!Children
    BY DEF DesktopRuntime!Children
  <1>6. PICK gave : gave = [boot.given EXCEPT !["host"] = {boot.credentials.assistant, "gateway"}]
    OBVIOUS
  <1>7. /\ gave \in [DesktopRuntime!Children -> SUBSET Tokens]
        /\ gave["host"] = {boot.credentials.assistant, "gateway"}
        /\ gave["web"] = boot.given["web"] /\ gave["api"] = boot.given["api"]
    BY <1>3, <1>4, <1>5, <1>6
  <1>8. boot' = [boot EXCEPT !.at = boot.at + 1, !.given = gave]
    BY <1>1, <1>6 DEF DesktopRuntime!Gives
  <1>9. /\ boot' \in [plan : Seq(StepSet), credentials : CredentialSet, at : Nat \ {0}, failed : BOOLEAN,
                      assistant : BOOLEAN, given : [DesktopRuntime!Children -> SUBSET Tokens]]
        /\ boot'.plan = boot.plan /\ boot'.credentials = boot.credentials /\ boot'.assistant = boot.assistant
        /\ boot'.at = boot.at + 1 /\ boot'.given = gave
    <2>1. boot.at + 1 \in Nat \ {0}
      BY <1>3
    <2> QED
      BY <1>3, <1>7, <1>8, <2>1
  <1>10. RuntimeTyped' /\ host'.sent = host.sent /\ host'.stage = host.stage
         /\ host'.client = host.client /\ host'.gateway = host.gateway
    <2>1. /\ host' \in [stage : {"none", "new", "waiting", "service", "gateway", "configured", "ending", "gone"},
                        gateway : BOOLEAN, client : BOOLEAN, sent : SUBSET {"ready", "configured", "failed"},
                        configure : BOOLEAN]
          /\ host'.sent = host.sent /\ host'.stage = host.stage
          /\ host'.client = host.client /\ host'.gateway = host.gateway
      BY <1>1 DEF RuntimeTyped
    <2> QED
      BY <1>1, <1>9, <2>1 DEF RuntimeTyped
  <1>11. DesktopRuntime!Now \in HostSteps
    BY <1>1 DEF HostSteps
  <1>12. HostStarted /\ HostStarted'
    <2>1. \A i \in 1 .. Len(boot.plan) : i > boot.at => boot.plan[i] # DesktopRuntime!Start("host")
      BY <1>1, <1>2, <1>11, NowFits
    <2>2. boot.plan[boot.at] # DesktopRuntime!Start("host")
      BY <1>1, StepsApart DEF DesktopRuntime!Now
    <2>3. HostStarted
      BY <1>3, <2>1, <2>2 DEF HostStarted
    <2> QED
      BY <1>3, <1>9, <2>3 DEF HostStarted
  <1>13. QuitFits'
    BY <1>1 DEF RuntimeInv, QuitFits, DesktopRuntime!QuitStopsWhatItFound
  <1>14. HostFits'
    BY <1>1, <1>10, <1>12 DEF RuntimeInv, HostFits
  <1>15. TokensFit'
    <2>1. boot.credentials.assistant # "none"
      BY <1>1, <1>2, <1>11, NowFits
    <2> QED
      BY <1>1, <1>7, <1>9, <1>10, <1>12, <2>1 DEF RuntimeInv, TokensFit
  <1> QED
    BY <1>10, <1>13, <1>14, <1>15 DEF RuntimeInv

\* The host has said that it serves.
LEMMA HostConfiguredKeeps ==
    ASSUME RuntimeInv, DesktopRuntime!HostConfigured
    PROVE  RuntimeInv'
  <1>1. /\ RuntimeTyped /\ DesktopRuntime!Now = DesktopRuntime!Configured /\ ~(boot.at > Len(boot.plan))
        /\ "configured" \in host.sent
        /\ boot' = [boot EXCEPT !.at = boot.at + 1, !.assistant = TRUE] /\ UNCHANGED <<proc, app, host>>
    BY DEF RuntimeInv, DesktopRuntime!HostConfigured, DesktopRuntime!At, DesktopRuntime!Configured, DesktopRuntime!Up
  <1>2. boot.at <= Len(boot.plan)
    BY <1>1, LenProperties DEF RuntimeTyped
  <1>3. boot \in [plan : Seq(StepSet), credentials : CredentialSet, at : Nat \ {0}, failed : BOOLEAN,
                  assistant : BOOLEAN, given : [DesktopRuntime!Children -> SUBSET Tokens]]
    BY <1>1 DEF RuntimeTyped
  <1>4. /\ boot' \in [plan : Seq(StepSet), credentials : CredentialSet, at : Nat \ {0}, failed : BOOLEAN,
                      assistant : BOOLEAN, given : [DesktopRuntime!Children -> SUBSET Tokens]]
        /\ boot'.plan = boot.plan /\ boot'.credentials = boot.credentials /\ boot'.assistant
        /\ boot'.at = boot.at + 1 /\ boot'.given = boot.given
    <2>1. boot.at + 1 \in Nat \ {0}
      BY <1>3
    <2> QED
      BY <1>1, <1>3, <2>1
  <1>5. RuntimeTyped'
    BY <1>1, <1>4 DEF RuntimeTyped
  <1>6. "gateway" \in boot.given["host"] /\ HostStarted
    BY <1>1, <1>2 DEF RuntimeInv, TokensFit, DesktopRuntime!Now
  <1>7. HostStarted'
    BY <1>3, <1>4, <1>6 DEF HostStarted
  <1>8. QuitFits'
    BY <1>1 DEF RuntimeInv, QuitFits, DesktopRuntime!QuitStopsWhatItFound
  <1>9. HostFits'
    BY <1>1, <1>7 DEF RuntimeInv, HostFits
  <1>10. TokensFit'
    BY <1>1, <1>4, <1>6, <1>7 DEF RuntimeInv, TokensFit
  <1> QED
    BY <1>5, <1>8, <1>9, <1>10 DEF RuntimeInv

\* What ends no child that never ran and tells nothing keeps what bootstrap knows.
LEMMA BootStays ==
    ASSUME RuntimeInv, UNCHANGED boot, host.sent \subseteq host'.sent,
           proc'["api"] # "none" => proc["api"] # "none"
    PROVE  TokensFit' /\ HostStarted' = HostStarted
  <1>1. HostStarted' = HostStarted
    BY DEF HostStarted
  <1> QED
    BY <1>1 DEF RuntimeInv, TokensFit

\* The application begins to end, and waits for what runs.
LEMMA QuitKeeps ==
    ASSUME RuntimeInv, DesktopRuntime!Quit \/ DesktopRuntime!Stopped
    PROVE  RuntimeInv'
  <1>1. RuntimeTyped /\ UNCHANGED <<boot, proc, host>>
    BY DEF RuntimeInv, DesktopRuntime!Quit, DesktopRuntime!Stopped
  <1>2. PICK running : running = {c \in DesktopRuntime!Children : proc[c] = "runs"}
    OBVIOUS
  <1>3. CASE DesktopRuntime!Quit
    <2>1. app' = [app EXCEPT !.quit = "stopping", !.waits = running]
      BY <1>2, <1>3 DEF DesktopRuntime!Quit
    <2>2. /\ app' \in [quit : {"no", "stopping", "done"}, waits : SUBSET DesktopRuntime!Children,
                       late : SUBSET DesktopRuntime!Children]
          /\ app'.quit = "stopping" /\ app'.waits = running
      BY <1>1, <1>2, <2>1 DEF RuntimeTyped
    <2>3. QuitFits'
      BY <1>1, <1>2, <2>2 DEF QuitFits, DesktopRuntime!QuitStopsWhatItFound
    <2> QED
      BY <1>1, <2>2, <2>3, BootStays DEF RuntimeInv, RuntimeTyped, HostFits
  <1>4. CASE DesktopRuntime!Stopped
    <2>1. /\ app.quit = "stopping" /\ app' = [app EXCEPT !.quit = "done"]
          /\ \A c \in app.waits : proc[c] = "ended"
      BY <1>4 DEF DesktopRuntime!Stopped, DesktopRuntime!AllEnded
    <2>2. /\ app' \in [quit : {"no", "stopping", "done"}, waits : SUBSET DesktopRuntime!Children,
                       late : SUBSET DesktopRuntime!Children]
          /\ app'.quit = "done" /\ app'.waits = app.waits /\ app'.late = app.late
      BY <1>1, <2>1 DEF RuntimeTyped
    <2>3. QuitFits'
      BY <1>1, <2>1, <2>2 DEF RuntimeInv, QuitFits, DesktopRuntime!QuitStopsWhatItFound
    <2> QED
      BY <1>1, <2>2, <2>3, BootStays DEF RuntimeInv, RuntimeTyped, HostFits
  <1> QED
    BY <1>3, <1>4

\* Who does not end by the signal is killed.
LEMMA StopTimesOutKeeps ==
    ASSUME RuntimeInv, DesktopRuntime!StopTimesOut
    PROVE  RuntimeInv'
  <1>1. /\ RuntimeTyped /\ UNCHANGED boot /\ app.quit = "stopping"
        /\ app' = [app EXCEPT !.quit = "done"]
        /\ proc' = [c \in DesktopRuntime!Children |-> IF c \in app.waits THEN "ended" ELSE proc[c]]
        /\ host' = IF "host" \in app.waits THEN [host EXCEPT !.stage = "gone"] ELSE host
    BY DEF RuntimeInv, DesktopRuntime!StopTimesOut
  <1>2. {"host", "api"} \subseteq DesktopRuntime!Children
    BY DEF DesktopRuntime!Children
  <1>3. /\ app' \in [quit : {"no", "stopping", "done"}, waits : SUBSET DesktopRuntime!Children,
                     late : SUBSET DesktopRuntime!Children]
        /\ app'.quit = "done" /\ app'.waits = app.waits /\ app'.late = app.late
    BY <1>1 DEF RuntimeTyped
  <1>4. /\ proc' \in [DesktopRuntime!Children -> {"none", "runs", "ended"}]
        /\ \A c \in DesktopRuntime!Children :
              proc'[c] = IF c \in app.waits THEN "ended" ELSE proc[c]
    BY <1>1 DEF RuntimeTyped
  <1>5. /\ host' \in [stage : {"none", "new", "waiting", "service", "gateway", "configured", "ending", "gone"},
                      gateway : BOOLEAN, client : BOOLEAN, sent : SUBSET {"ready", "configured", "failed"},
                      configure : BOOLEAN]
        /\ host'.sent = host.sent
        /\ "host" \notin app.waits => host' = host
    BY <1>1 DEF RuntimeTyped
  <1>6. RuntimeTyped'
    BY <1>1, <1>3, <1>4, <1>5 DEF RuntimeTyped
  <1>7. QuitFits'
    BY <1>1, <1>3, <1>4 DEF RuntimeInv, QuitFits, DesktopRuntime!QuitStopsWhatItFound
  <1>8. \A c \in app.waits : proc[c] # "none"
    BY DEF RuntimeInv, QuitFits
  <1>9. HostStarted' = HostStarted
    BY <1>1 DEF HostStarted
  <1>10. HostFits'
    <2>1. CASE "host" \in app.waits
      BY <1>2, <1>4, <1>5, <1>8, <1>9, <2>1 DEF RuntimeInv, HostFits
    <2>2. CASE "host" \notin app.waits
      BY <1>2, <1>4, <1>5, <1>9, <2>2 DEF RuntimeInv, HostFits
    <2> QED
      BY <2>1, <2>2
  <1>11. TokensFit'
    BY <1>1, <1>2, <1>4, <1>5, <1>8, BootStays
  <1> QED
    BY <1>6, <1>7, <1>10, <1>11 DEF RuntimeInv

\* A child ends, or the host gives up.
LEMMA ChildEndsKeeps ==
    ASSUME RuntimeInv, NEW c \in DesktopRuntime!Children,
           DesktopRuntime!ChildEnds(c) \/ (c = "host" /\ DesktopRuntime!HostGivesUp)
    PROVE  RuntimeInv'
  <1>1. /\ RuntimeTyped /\ proc[c] = "runs" /\ proc' = [proc EXCEPT ![c] = "ended"] /\ UNCHANGED <<boot, app>>
    BY DEF RuntimeInv, DesktopRuntime!ChildEnds, DesktopRuntime!HostGivesUp, DesktopRuntime!HostIn
  <1>2. /\ host' \in [stage : {"none", "new", "waiting", "service", "gateway", "configured", "ending", "gone"},
                      gateway : BOOLEAN, client : BOOLEAN, sent : SUBSET {"ready", "configured", "failed"},
                      configure : BOOLEAN]
        /\ host.sent \subseteq host'.sent
        /\ c # "host" => host' = host
    <2>1. \/ host' = host /\ c # "host"
          \/ host' = [host EXCEPT !.stage = "gone"]
          \/ c = "host" /\ host' = [host EXCEPT !.stage = "gone", !.sent = host.sent \cup {"failed"}]
      BY DEF DesktopRuntime!ChildEnds, DesktopRuntime!HostGivesUp
    <2>2. c # "host" => host' = host
      BY DEF DesktopRuntime!ChildEnds, DesktopRuntime!HostGivesUp
    <2>3. PICK sent : sent = host.sent \cup {"failed"}
      OBVIOUS
    <2>4. sent \in SUBSET {"ready", "configured", "failed"} /\ host.sent \subseteq sent
      BY <1>1, <2>3 DEF RuntimeTyped
    <2>5. host \in [stage : {"none", "new", "waiting", "service", "gateway", "configured", "ending", "gone"},
                    gateway : BOOLEAN, client : BOOLEAN, sent : SUBSET {"ready", "configured", "failed"},
                    configure : BOOLEAN]
      BY <1>1 DEF RuntimeTyped
    <2>6. CASE host' = host
      BY <2>2, <2>5, <2>6
    <2>7. CASE host' = [host EXCEPT !.stage = "gone"]
      BY <2>2, <2>5, <2>7
    <2>8. CASE host' = [host EXCEPT !.stage = "gone", !.sent = sent]
      BY <2>2, <2>4, <2>5, <2>8
    <2> QED
      BY <2>1, <2>3, <2>6, <2>7, <2>8
  <1>3. /\ proc' \in [DesktopRuntime!Children -> {"none", "runs", "ended"}] /\ proc'[c] = "ended"
        /\ \A d \in DesktopRuntime!Children \ {c} : proc'[d] = proc[d]
    BY <1>1 DEF RuntimeTyped
  <1>4. RuntimeTyped'
    BY <1>1, <1>2, <1>3 DEF RuntimeTyped
  <1>5. \A d \in DesktopRuntime!Children : (proc'[d] = "runs" => proc[d] = "runs")
                                            /\ (proc[d] # "none" => proc'[d] # "none")
    BY <1>1, <1>3
  <1>6. QuitFits'
    BY <1>1, <1>5 DEF RuntimeInv, RuntimeTyped, QuitFits, DesktopRuntime!QuitStopsWhatItFound
  <1>7. HostStarted' = HostStarted
    BY <1>1 DEF HostStarted
  <1>8. {"host", "api"} \subseteq DesktopRuntime!Children
    BY DEF DesktopRuntime!Children
  <1>9. HostFits'
    <2>1. CASE c = "host"
      BY <1>1, <1>3, <1>7, <2>1 DEF RuntimeInv, HostFits
    <2>2. CASE c # "host"
      BY <1>2, <1>3, <1>7, <1>8, <2>2 DEF RuntimeInv, HostFits
    <2> QED
      BY <2>1, <2>2
  <1>10. TokensFit'
    BY <1>1, <1>2, <1>3, <1>8, BootStays
  <1> QED
    BY <1>4, <1>6, <1>9, <1>10 DEF RuntimeInv

\* The host goes on, or ends what it serves.
LEMMA HostStepKeeps ==
    ASSUME RuntimeInv,
           \/ DesktopRuntime!HostReady \/ DesktopRuntime!Configure \/ DesktopRuntime!ServiceStarted
           \/ DesktopRuntime!GatewayStarted \/ DesktopRuntime!Shutdown \/ DesktopRuntime!ClearCredential
    PROVE  RuntimeInv'
  <1> USE DEF DesktopRuntime!HostIn
  <1>1. RuntimeTyped /\ proc["host"] = "runs" /\ UNCHANGED <<boot, proc, app>>
    BY DEF RuntimeInv, DesktopRuntime!HostReady, DesktopRuntime!Configure, DesktopRuntime!ServiceStarted,
           DesktopRuntime!GatewayStarted, DesktopRuntime!Shutdown, DesktopRuntime!ClearCredential
  <1>2. host \in [stage : {"none", "new", "waiting", "service", "gateway", "configured", "ending", "gone"},
                  gateway : BOOLEAN, client : BOOLEAN, sent : SUBSET {"ready", "configured", "failed"},
                  configure : BOOLEAN]
    BY <1>1 DEF RuntimeTyped
  <1>3. /\ host.stage \in {"gateway", "configured"} => host.client
        /\ host.stage = "configured" => host.gateway
        /\ "configured" \in host.sent => host.stage \in {"configured", "ending"}
        /\ HostStarted
    BY <1>1 DEF RuntimeInv, HostFits
  <1>4. /\ host' \in [stage : {"none", "new", "waiting", "service", "gateway", "configured", "ending", "gone"},
                      gateway : BOOLEAN, client : BOOLEAN, sent : SUBSET {"ready", "configured", "failed"},
                      configure : BOOLEAN]
        /\ host.sent \subseteq host'.sent
        /\ host'.stage \in {"gateway", "configured"} => host'.client
        /\ host'.stage = "configured" => host'.gateway
        /\ "configured" \in host'.sent => host'.stage \in {"configured", "ending"}
    <2>1. CASE DesktopRuntime!HostReady
      <3>1. PICK sent : sent = host.sent \cup {"ready"} /\ host' = [host EXCEPT !.stage = "waiting", !.sent = sent]
        BY <2>1 DEF DesktopRuntime!HostReady
      <3>2. sent \in SUBSET {"ready", "configured", "failed"} /\ host.sent \subseteq sent /\ "configured" \notin sent
        BY <1>2, <1>3, <2>1, <3>1 DEF DesktopRuntime!HostReady
      <3> QED
        BY <1>2, <3>1, <3>2
    <2>2. CASE DesktopRuntime!Configure
      BY <1>2, <1>3, <2>2 DEF DesktopRuntime!Configure
    <2>3. CASE DesktopRuntime!ServiceStarted
      BY <1>2, <1>3, <2>3 DEF DesktopRuntime!ServiceStarted
    <2>4. CASE DesktopRuntime!GatewayStarted
      <3>1. PICK sent : sent = host.sent \cup {"configured"}
                        /\ host' = [host EXCEPT !.stage = "configured", !.gateway = TRUE, !.sent = sent]
        BY <2>4 DEF DesktopRuntime!GatewayStarted
      <3>2. sent \in SUBSET {"ready", "configured", "failed"} /\ host.sent \subseteq sent /\ host.client
        BY <1>2, <1>3, <2>4, <3>1 DEF DesktopRuntime!GatewayStarted
      <3> QED
        BY <1>2, <3>1, <3>2
    <2>5. CASE DesktopRuntime!Shutdown
      BY <1>2, <1>3, <2>5 DEF DesktopRuntime!Shutdown
    <2>6. CASE DesktopRuntime!ClearCredential
      BY <1>2, <1>3, <2>6 DEF DesktopRuntime!ClearCredential
    <2> QED
      BY <2>1, <2>2, <2>3, <2>4, <2>5, <2>6
  <1>5. RuntimeTyped'
    BY <1>1, <1>4 DEF RuntimeTyped
  <1>6. QuitFits'
    BY <1>1 DEF RuntimeInv, QuitFits, DesktopRuntime!QuitStopsWhatItFound
  <1>7. TokensFit' /\ HostStarted'
    BY <1>1, <1>3, <1>4, BootStays
  <1>8. HostFits'
    BY <1>4, <1>7 DEF HostFits
  <1> QED
    BY <1>5, <1>6, <1>7, <1>8 DEF RuntimeInv

\* Every step of the runtime keeps the invariant.
LEMMA RuntimeKeeps ==
    ASSUME RuntimeInv, DesktopRuntime!Next \/ UNCHANGED runtime
    PROVE  RuntimeInv'
  <1>1. CASE UNCHANGED runtime
    BY <1>1 DEF runtime, RuntimeInv, RuntimeTyped, QuitFits, HostFits, TokensFit, HostStarted,
       DesktopRuntime!QuitStopsWhatItFound
  <1>2. CASE DesktopRuntime!Next
    <2>1. "host" \in DesktopRuntime!Children
      BY DEF DesktopRuntime!Children
    <2>2. CASE \E c \in DesktopRuntime!Children : DesktopRuntime!RunBegins(c)
      BY <2>2, RunBeginsKeeps
    <2>3. CASE \E c \in DesktopRuntime!Children : DesktopRuntime!StartChild(c)
      BY <2>3, StartChildKeeps
    <2>4. CASE \E c \in DesktopRuntime!Children : DesktopRuntime!ChildEnds(c)
      BY <2>4, ChildEndsKeeps
    <2>5. CASE \/ \E c \in DesktopRuntime!Children : DesktopRuntime!RunEnds(c) \/ DesktopRuntime!Waited(c)
               \/ DesktopRuntime!NoConfiguration
               \/ \E m \in {"ready", "configured"} : DesktopRuntime!MessageFails(m)
      BY <2>5, PassingKeeps
    <2>6. CASE DesktopRuntime!HostAnswers
      BY <2>6, HostAnswersKeeps
    <2>7. CASE DesktopRuntime!HostConfigured
      BY <2>7, HostConfiguredKeeps
    <2>8. CASE DesktopRuntime!Quit \/ DesktopRuntime!Stopped
      BY <2>8, QuitKeeps
    <2>9. CASE DesktopRuntime!StopTimesOut
      BY <2>9, StopTimesOutKeeps
    <2>10. CASE DesktopRuntime!HostGivesUp
      BY <2>1, <2>10, ChildEndsKeeps
    <2>11. CASE \/ DesktopRuntime!HostReady \/ DesktopRuntime!Configure \/ DesktopRuntime!ServiceStarted
                \/ DesktopRuntime!GatewayStarted \/ DesktopRuntime!Shutdown \/ DesktopRuntime!ClearCredential
      BY <2>11, HostStepKeeps
    <2> QED
      BY <1>2, <2>2, <2>3, <2>4, <2>5, <2>6, <2>7, <2>8, <2>9, <2>10, <2>11 DEF DesktopRuntime!Next
  <1> QED
    BY <1>1, <1>2

\* What the invariant says of the host, the tokens and the end.
LEMMA RuntimeSafe ==
    ASSUME RuntimeInv
    PROVE  DesktopRuntime!QuitStopsWhatItFound /\ DesktopRuntime!AssistantServed /\ DesktopRuntime!TokensAccepted
  <1>1. DesktopRuntime!QuitStopsWhatItFound
    BY DEF RuntimeInv, QuitFits
  <1>2. DesktopRuntime!AssistantServed
    BY DEF RuntimeInv, HostFits, TokensFit, DesktopRuntime!AssistantServed
  <1>3. boot.credentials.assistant \in {"newAssistant", "assisting", "none"}
    BY DEF RuntimeInv, RuntimeTyped, CredentialSet
  <1>4. "gateway" \in boot.given["web"] => "gateway" \in boot.given["host"]
    BY DEF RuntimeInv, TokensFit
  <1>5. boot.given["host"] \cap {"none", "own", "newOwner", "unusable"} = {}
    BY <1>3 DEF RuntimeInv, TokensFit
  <1>6. proc["api"] # "none" =>
           boot.given["web"] \cup boot.given["host"] \subseteq boot.given["api"] \cup {"gateway"}
    BY DEF RuntimeInv, TokensFit
  <1> QED
    BY <1>1, <1>2, <1>4, <1>5, <1>6 DEF RuntimeInv, TokensFit, DesktopRuntime!TokensAccepted

\* No child that ran when the quit began is left when the application has ended; until the
\* host ends it serves who knows its gateway; every token given is accepted where it is used
\* (runtime.mjs:187-204, 217-412; main.ts:48-86).
THEOREM ServicesServeAndStop == Spec => []ChildrenServeAndStop
  <1> DEFINE Inv == part = "runtime" => RuntimeInv
  <1>1. Init => Inv
    BY RuntimeStarts DEF Init
  <1>2. Inv /\ [Next]_vars => Inv'
    BY PartStep, RuntimeKeeps
  <1>3. Inv => ChildrenServeAndStop
    BY RuntimeSafe DEF ChildrenServeAndStop
  <1> QED
    BY <1>1, <1>2, <1>3, PTL DEF Spec

-----------------------------------------------------------------------------
(* The updates of the desktop application *)

Openish(state) == state.status = "downloaded" \/ DesktopUpdate!Retryable(state, "open")
UpdateStates == [status : {"idle", "checking", "available", "downloading", "downloaded", "error"},
                 stage : {None, "check", "download", "open"}, version : Nat \cup {None}]
UpdateCalls == [kind : {"getState", "download", "open"}, version : Nat \cup {None}]
Buttons == [shown : UpdateStates \cup {None}, dialog : BOOLEAN, posts : Seq(UpdateStates), calls : Seq(UpdateCalls)]
LoadSteps == {"checksum", "fetch", "mark", "link"}
Loads == [step : LoadSteps, version : Nat, body : {"none", "part", "whole", "other", "longer"}, marked : BOOLEAN]

Managers(files) ==
    [state : UpdateStates, release : Nat \cup {None}, installer : files \cup {None}, checking : BOOLEAN, checks : Nat,
     opening : Seq(Nat \cup {None}), overtaken : Nat, misled : BOOLEAN, quit : BOOLEAN]
UpdateTyped ==
    /\ update \in Managers(installers)
    /\ update.release # None => update.release > Installed
    /\ button \in Buttons

\* While it checks or downloads the manager says so, and opens nothing.  What comes of a
\* download is what was verified and marked before.
DownloadFits ==
    /\ update.checking => /\ update.state.status = "checking" /\ update.opening = <<>>
                          /\ download = DesktopUpdate!NoDownload
    /\ download.step \in LoadSteps \cup {"none", "done"}
    /\ download.step = "none" => download = DesktopUpdate!NoDownload
    /\ download.step # "none" =>
          /\ update.state.status = "downloading" /\ update.opening = <<>>
          /\ update.release # None /\ update.release = download.version
    /\ download.step \in LoadSteps => download \in Loads
    /\ download.step \in {"mark", "link"} => download.body = "whole"
    /\ download.step = "link" => download.marked
    /\ download.step = "done" =>
          /\ download.file \in installers /\ download.file.body = "whole" /\ download.file.marked
          /\ download.file.version = download.version

\* What can be opened, and what is being opened.
OpenFits ==
    /\ update.opening # <<>> => Openish(update.state)
    /\ Openish(update.state) =>
          /\ update.installer \in installers /\ update.installer.body = "whole" /\ update.installer.marked
          /\ update.installer.version = update.state.version
          /\ update.release # None /\ update.release = update.installer.version
          /\ \A i \in 1 .. Len(update.opening) : update.opening[i] = update.installer.version

\* The page is told the manager's state, or asks for it.
PostsFit ==
    /\ button.posts # <<>> => button.posts[Len(button.posts)] = update.state
    /\ button.posts = <<>> =>
          \/ button.shown = update.state
          \/ button.shown = None /\ update.quit
          \/ button.shown = None /\ \E i \in 1 .. Len(button.calls) : button.calls[i] = DesktopUpdate!AsksState

\* Who is called, and whether the page shows, or will by what is posted, something to open.
CallsAre(kind, calls) == \A i \in 1 .. Len(calls) : calls[i].kind \in {"getState", kind}
SomeOpen(shown, posts) ==
    \/ shown # None /\ Openish(shown)
    \/ \E i \in 1 .. Len(posts) : Openish(posts[i])
SomeClosed(shown, posts) ==
    \/ shown # None /\ ~Openish(shown)
    \/ \E i \in 1 .. Len(posts) : ~Openish(posts[i])
Before(first, second, calls) ==
    \A i, j \in 1 .. Len(calls) : calls[i].kind = first /\ calls[j].kind = second => i < j

\* There is nothing to open: what the page knows of an earlier installer is replaced, and
\* calls of that time come before those for a new download, which begins without them.
NothingToOpen(shown, posts, calls, downloads) ==
    /\ shown # None /\ ~Openish(shown) => \A i \in 1 .. Len(posts) : ~Openish(posts[i])
    /\ \A i, j \in 1 .. Len(posts) : i < j /\ ~Openish(posts[i]) => ~Openish(posts[j])
    /\ SomeOpen(shown, posts) => CallsAre("open", calls) /\ ~downloads
    /\ Before("open", "download", calls)
    /\ downloads => CallsAre("download", calls)

\* There is something to open: every call to open names it, and comes after the calls for
\* its download, which are refused as long as it is fresh.
SomethingToOpen(shown, posts, calls, version, fresh) ==
    /\ shown # None /\ Openish(shown) => shown.version = version /\ \A i \in 1 .. Len(posts) : Openish(posts[i])
    /\ \A i \in 1 .. Len(posts) : Openish(posts[i]) => posts[i].version = version
    /\ \A i, j \in 1 .. Len(posts) : i < j /\ Openish(posts[i]) => Openish(posts[j])
    /\ SomeClosed(shown, posts) => CallsAre("download", calls) /\ fresh
    /\ Before("download", "open", calls)
    /\ \A i \in 1 .. Len(calls) : calls[i].kind = "open" => calls[i].version = version
    /\ ~CallsAre("open", calls) => fresh

Downloads == download.step # "none"
Fresh == update.state.status = "downloaded" /\ update.opening = <<>>
PageFits ==
    IF Openish(update.state)
    THEN IF Fresh THEN SomethingToOpen(button.shown, button.posts, button.calls, update.installer.version, TRUE)
         ELSE SomethingToOpen(button.shown, button.posts, button.calls, update.installer.version, FALSE)
    ELSE IF Downloads THEN NothingToOpen(button.shown, button.posts, button.calls, TRUE)
         ELSE NothingToOpen(button.shown, button.posts, button.calls, FALSE)

\* A file that may be opened, and what is so of it and of a download whatever the manager says.
Verified(file) == file \in installers /\ file.body = "whole" /\ file.marked /\ file.version > Installed
InstallerFits == update.installer # None => Verified(update.installer)
LoadFits ==
    /\ download.step \in LoadSteps \cup {"none", "done"}
    /\ download.step \in LoadSteps => download \in Loads /\ download.version > Installed
    /\ download.step \in {"mark", "link"} => download.body = "whole"
    /\ download.step = "link" => download.marked
    /\ download.step = "done" => Verified(download.file)

\* A late failure of an opening only ends what holds of the version that is shown.
UpdateSound == UpdateTyped /\ PostsFit /\ InstallerFits /\ LoadFits
UpdateWell == UpdateTyped /\ DownloadFits /\ OpenFits /\ PostsFit /\ PageFits
UpdateInv == UpdateSound /\ (~update.misled => UpdateWell)

\* A state that is posted is the last one, behind those that were.
Extended(posts, posted, state) ==
    /\ posted \in Seq(UpdateStates) /\ Len(posted) \in Nat \ {0} /\ posted[Len(posted)] = state
    /\ \A i \in 1 .. Len(posted) : i < Len(posted) => i \in 1 .. Len(posts) /\ posted[i] = posts[i]

\* Posting does that, also when it repeats the last one.
LEMMA PostedExtends ==
    ASSUME NEW posts \in Seq(UpdateStates), NEW state \in UpdateStates
    PROVE  Extended(posts, IF posts # <<>> /\ posts[Len(posts)] = state THEN posts ELSE Append(posts, state), state)
  <1>1. CASE posts # <<>> /\ posts[Len(posts)] = state
    <2>1. Len(posts) \in Nat \ {0}
      BY <1>1, EmptySeq
    <2> QED
      BY <1>1, <2>1 DEF Extended
  <1>2. CASE ~(posts # <<>> /\ posts[Len(posts)] = state)
    <2>1. PICK n \in Nat : n = Len(posts)
      BY LenProperties
    <2>2. PICK posted : posted = Append(posts, state)
      OBVIOUS
    <2>3. /\ posted \in Seq(UpdateStates) /\ Len(posted) = n + 1 /\ posted[n + 1] = state
          /\ \A i \in 1 .. n : posted[i] = posts[i]
      BY <2>1, <2>2, AppendProperties
    <2>4. \A i \in 1 .. n + 1 : i < n + 1 => i \in 1 .. n
      OBVIOUS
    <2>5. Extended(posts, posted, state)
      BY <2>1, <2>3, <2>4 DEF Extended
    <2> QED
      BY <1>2, <2>2, <2>5
  <1> QED
    BY <1>1, <1>2

\* What is left of the calls, or of the posts, when the first is taken.
Rest(all, rest) ==
    /\ Len(all) \in Nat /\ Len(rest) = Len(all) - 1
    /\ \A i \in 1 .. Len(rest) : i + 1 \in 1 .. Len(all) /\ rest[i] = all[i + 1]

\* Taking the first leaves the rest.
LEMMA TailIsRest ==
    ASSUME NEW S, NEW all \in Seq(S), all # <<>>
    PROVE  Rest(all, Tail(all)) /\ Tail(all) \in Seq(S) /\ Head(all) \in S /\ Head(all) = all[1]
              /\ 1 \in 1 .. Len(all)
  <1>1. PICK n \in Nat : n = Len(all)
    BY LenProperties
  <1>2. n > 0
    BY <1>1, EmptySeq
  <1>3. PICK rest : rest = Tail(all)
    OBVIOUS
  <1>4. /\ Head(all) \in S /\ rest \in Seq(S) /\ Len(rest) = n - 1
        /\ \A i \in 1 .. n - 1 : rest[i] = all[i + 1]
    BY <1>1, <1>3, HeadTailProperties
  <1>5. \A i \in 1 .. n - 1 : i + 1 \in 1 .. n
    OBVIOUS
  <1>6. Rest(all, rest)
    BY <1>1, <1>4, <1>5 DEF Rest
  <1>7. Head(all) = all[1]
    OBVIOUS
  <1> QED
    BY <1>1, <1>2, <1>3, <1>4, <1>6, <1>7

\* A call behind the others.
Added(calls, more, call) ==
    /\ more \in Seq(UpdateCalls) /\ Len(calls) \in Nat /\ Len(more) = Len(calls) + 1 /\ more[Len(calls) + 1] = call
    /\ \A i \in 1 .. Len(calls) : more[i] = calls[i]

\* Appending adds a call.
LEMMA AppendAdds ==
    ASSUME NEW calls \in Seq(UpdateCalls), NEW call \in UpdateCalls
    PROVE  Added(calls, Append(calls, call), call)
  <1>1. PICK n \in Nat : n = Len(calls)
    BY LenProperties
  <1>2. PICK more : more = Append(calls, call)
    OBVIOUS
  <1>3. /\ more \in Seq(UpdateCalls) /\ Len(more) = n + 1 /\ more[n + 1] = call
        /\ \A i \in 1 .. n : more[i] = calls[i]
    BY <1>1, <1>2, AppendProperties
  <1> QED
    BY <1>1, <1>2, <1>3 DEF Added

-----------------------------------------------------------------------------
\* Nothing to open: a state that is posted, and has nothing to open either.
LEMMA NothingPosted ==
    ASSUME NEW shown, NEW posts \in Seq(UpdateStates), NEW calls, NEW downloads \in BOOLEAN, NEW after \in BOOLEAN,
           NothingToOpen(shown, posts, calls, downloads), after => downloads,
           NEW posted, NEW state, Extended(posts, posted, state), ~Openish(state)
    PROVE  NothingToOpen(shown, posted, calls, after)
  <1>1. Len(posts) \in Nat /\ Len(posted) \in Nat \ {0}
    BY LenProperties DEF Extended
  <1>2. \A i \in 1 .. Len(posted) :
           \/ i = Len(posted) /\ posted[i] = state
           \/ i < Len(posted) /\ i \in 1 .. Len(posts) /\ posted[i] = posts[i]
    BY <1>1 DEF Extended
  <1>3. shown # None /\ ~Openish(shown) => \A i \in 1 .. Len(posted) : ~Openish(posted[i])
    BY <1>2 DEF NothingToOpen
  <1>4. \A i, j \in 1 .. Len(posted) : i < j /\ ~Openish(posted[i]) => ~Openish(posted[j])
    BY <1>1, <1>2 DEF NothingToOpen
  <1>5. SomeOpen(shown, posted) => SomeOpen(shown, posts)
    BY <1>2 DEF SomeOpen
  <1> QED
    BY <1>3, <1>4, <1>5 DEF NothingToOpen

\* Nothing to open: the page is told the first state that was posted.
LEMMA NothingDelivered ==
    ASSUME NEW shown, NEW posts, NEW calls, NEW downloads \in BOOLEAN,
           NothingToOpen(shown, posts, calls, downloads),
           NEW rest, Rest(posts, rest), 1 \in 1 .. Len(posts)
    PROVE  NothingToOpen(posts[1], rest, calls, downloads)
  <1>1. \A i \in 1 .. Len(rest) : i + 1 \in 1 .. Len(posts) /\ 1 < i + 1 /\ rest[i] = posts[i + 1]
    BY DEF Rest
  <1>2. ~Openish(posts[1]) => \A i \in 1 .. Len(rest) : ~Openish(rest[i])
    BY <1>1 DEF NothingToOpen
  <1>3. \A i, j \in 1 .. Len(rest) : i < j /\ ~Openish(rest[i]) => ~Openish(rest[j])
    <2> TAKE i, j \in 1 .. Len(rest)
    <2>1. i < j => i + 1 < j + 1
      BY DEF Rest
    <2> QED
      BY <1>1, <2>1 DEF NothingToOpen
  <1>4. SomeOpen(posts[1], rest) => SomeOpen(shown, posts)
    BY <1>1 DEF SomeOpen
  <1> QED
    BY <1>2, <1>3, <1>4 DEF NothingToOpen

\* Nothing to open: a call is taken.
LEMMA NothingTaken ==
    ASSUME NEW shown, NEW posts, NEW calls, NEW downloads \in BOOLEAN,
           NothingToOpen(shown, posts, calls, downloads), NEW rest, Rest(calls, rest)
    PROVE  NothingToOpen(shown, posts, rest, downloads)
  <1>1. \A i \in 1 .. Len(rest) : i + 1 \in 1 .. Len(calls) /\ rest[i] = calls[i + 1]
    BY DEF Rest
  <1>2. \A kind : CallsAre(kind, calls) => CallsAre(kind, rest)
    BY <1>1 DEF CallsAre
  <1>3. Before("open", "download", rest)
    <2> SUFFICES ASSUME NEW i \in 1 .. Len(rest), NEW j \in 1 .. Len(rest), rest[i].kind = "open",
           rest[j].kind = "download"
                 PROVE  i < j
      BY DEF Before
    <2>1. i + 1 < j + 1
      BY <1>1 DEF NothingToOpen, Before
    <2> QED
      BY <2>1 DEF Rest
  <1> QED
    BY <1>2, <1>3 DEF NothingToOpen

\* Nothing to open: a download is taken up, behind no call to open.
LEMMA NothingDownloads ==
    ASSUME NEW shown, NEW posts, NEW calls, NEW downloads \in BOOLEAN, calls \in Seq(UpdateCalls),
           NothingToOpen(shown, posts, calls, downloads), 1 \in 1 .. Len(calls), calls[1].kind = "download"
    PROVE  NothingToOpen(shown, posts, calls, TRUE)
  <1>1. ~SomeOpen(shown, posts)
    BY DEF NothingToOpen, CallsAre
  <1>2. ASSUME NEW i \in 1 .. Len(calls)
        PROVE  calls[i].kind \in {"getState", "download"}
    <2>1. calls[i] \in UpdateCalls
      BY ElementOfSeq
    <2>2. calls[i].kind # "open"
      <3>1. ~(i < 1)
        OBVIOUS
      <3> QED
        BY <3>1 DEF NothingToOpen, Before
    <2> QED
      BY <2>1, <2>2 DEF UpdateCalls
  <1> QED
    BY <1>1, <1>2 DEF NothingToOpen, CallsAre

\* Nothing to open: the owner clicks.
LEMMA NothingClicked ==
    ASSUME NEW shown, NEW posts, NEW calls, NEW downloads \in BOOLEAN,
           NothingToOpen(shown, posts, calls, downloads), shown # None,
           NEW more, NEW call, Added(calls, more, call), call.kind = IF Openish(shown) THEN "open" ELSE "download"
    PROVE  NothingToOpen(shown, posts, more, downloads)
  <1>1. \A i \in 1 .. Len(more) :
           \/ i \in 1 .. Len(calls) /\ more[i] = calls[i] /\ i < Len(calls) + 1
           \/ i = Len(calls) + 1 /\ more[i] = call
    BY DEF Added
  <1>2. CASE Openish(shown)
    <2>1. CallsAre("open", calls) /\ ~downloads
      BY <1>2 DEF NothingToOpen, SomeOpen
    <2>2. CallsAre("open", more)
      BY <1>1, <1>2, <2>1 DEF CallsAre
    <2>3. Before("open", "download", more)
      BY <2>2 DEF CallsAre, Before
    <2> QED
      BY <2>1, <2>2, <2>3 DEF NothingToOpen
  <1>3. CASE ~Openish(shown)
    <2>1. ~SomeOpen(shown, posts)
      BY <1>3 DEF NothingToOpen, SomeOpen
    <2>2. Before("open", "download", more)
      <3> SUFFICES ASSUME NEW i \in 1 .. Len(more), NEW j \in 1 .. Len(more),
                          more[i].kind = "open", more[j].kind = "download"
                   PROVE  i < j
        BY DEF Before
      <3>1. i \in 1 .. Len(calls) /\ more[i] = calls[i] /\ i < Len(calls) + 1
        BY <1>1, <1>3
      <3>2. CASE j \in 1 .. Len(calls) /\ more[j] = calls[j]
        BY <3>1, <3>2 DEF NothingToOpen, Before
      <3>3. CASE j = Len(calls) + 1
        BY <3>1, <3>3
      <3> QED
        BY <1>1, <3>2, <3>3
    <2>3. downloads => CallsAre("download", more)
      BY <1>1, <1>3 DEF NothingToOpen, CallsAre
    <2> QED
      BY <2>1, <2>2, <2>3 DEF NothingToOpen
  <1> QED
    BY <1>2, <1>3

-----------------------------------------------------------------------------
\* Something to open: a state that is posted, and names it.
LEMMA SomethingPosted ==
    ASSUME NEW shown, NEW posts \in Seq(UpdateStates), NEW calls, NEW version, NEW fresh \in BOOLEAN,
              NEW after \in BOOLEAN,
           SomethingToOpen(shown, posts, calls, version, fresh),
           NEW posted, NEW state, Extended(posts, posted, state), Openish(state), state.version = version,
           after \/ (CallsAre("open", calls) /\ ~SomeClosed(shown, posts))
    PROVE  SomethingToOpen(shown, posted, calls, version, after)
  <1>1. Len(posts) \in Nat /\ Len(posted) \in Nat \ {0}
    BY LenProperties DEF Extended
  <1>2. \A i \in 1 .. Len(posted) :
           \/ i = Len(posted) /\ posted[i] = state
           \/ i < Len(posted) /\ i \in 1 .. Len(posts) /\ posted[i] = posts[i]
    BY <1>1 DEF Extended
  <1>3. shown # None /\ Openish(shown) => shown.version = version /\ \A i \in 1 .. Len(posted) : Openish(posted[i])
    BY <1>2 DEF SomethingToOpen
  <1>4. \A i \in 1 .. Len(posted) : Openish(posted[i]) => posted[i].version = version
    BY <1>2 DEF SomethingToOpen
  <1>5. \A i, j \in 1 .. Len(posted) : i < j /\ Openish(posted[i]) => Openish(posted[j])
    BY <1>1, <1>2 DEF SomethingToOpen
  <1>6. SomeClosed(shown, posted) => SomeClosed(shown, posts)
    BY <1>2 DEF SomeClosed
  <1> QED
    BY <1>3, <1>4, <1>5, <1>6 DEF SomethingToOpen

\* Something to open: the page is told the first state that was posted.
LEMMA SomethingDelivered ==
    ASSUME NEW shown, NEW posts, NEW calls, NEW version, NEW fresh \in BOOLEAN,
           SomethingToOpen(shown, posts, calls, version, fresh),
           NEW rest, Rest(posts, rest), 1 \in 1 .. Len(posts)
    PROVE  SomethingToOpen(posts[1], rest, calls, version, fresh)
  <1>1. \A i \in 1 .. Len(rest) : i + 1 \in 1 .. Len(posts) /\ 1 < i + 1 /\ rest[i] = posts[i + 1]
    BY DEF Rest
  <1>2. Openish(posts[1]) => posts[1].version = version /\ \A i \in 1 .. Len(rest) : Openish(rest[i])
    BY <1>1 DEF SomethingToOpen
  <1>3. \A i \in 1 .. Len(rest) : Openish(rest[i]) => rest[i].version = version
    BY <1>1 DEF SomethingToOpen
  <1>4. \A i, j \in 1 .. Len(rest) : i < j /\ Openish(rest[i]) => Openish(rest[j])
    <2> TAKE i, j \in 1 .. Len(rest)
    <2>1. i < j => i + 1 < j + 1
      BY DEF Rest
    <2> QED
      BY <1>1, <2>1 DEF SomethingToOpen
  <1>5. SomeClosed(posts[1], rest) => SomeClosed(shown, posts)
    BY <1>1 DEF SomeClosed
  <1> QED
    BY <1>2, <1>3, <1>4, <1>5 DEF SomethingToOpen

\* Something to open: a call is taken.
LEMMA SomethingTaken ==
    ASSUME NEW shown, NEW posts, NEW calls, NEW version, NEW fresh \in BOOLEAN,
           SomethingToOpen(shown, posts, calls, version, fresh), NEW rest, Rest(calls, rest)
    PROVE  SomethingToOpen(shown, posts, rest, version, fresh)
  <1>1. \A i \in 1 .. Len(rest) : i + 1 \in 1 .. Len(calls) /\ rest[i] = calls[i + 1]
    BY DEF Rest
  <1>2. \A kind : CallsAre(kind, calls) => CallsAre(kind, rest)
    BY <1>1 DEF CallsAre
  <1>3. Before("download", "open", rest)
    <2> SUFFICES ASSUME NEW i \in 1 .. Len(rest), NEW j \in 1 .. Len(rest), rest[i].kind = "download",
           rest[j].kind = "open"
                 PROVE  i < j
      BY DEF Before
    <2>1. i + 1 < j + 1
      BY <1>1 DEF SomethingToOpen, Before
    <2> QED
      BY <2>1 DEF Rest
  <1>4. \A i \in 1 .. Len(rest) : rest[i].kind = "open" => rest[i].version = version
    BY <1>1 DEF SomethingToOpen
  <1> QED
    BY <1>2, <1>3, <1>4 DEF SomethingToOpen

\* Something to open: a call to open is first only when there are no others, and then what
\* the page knows of is to be opened.
LEMMA SomethingOpens ==
    ASSUME NEW shown, NEW posts, NEW calls, NEW version, NEW fresh \in BOOLEAN, calls \in Seq(UpdateCalls),
           SomethingToOpen(shown, posts, calls, version, fresh), 1 \in 1 .. Len(calls), calls[1].kind = "open"
    PROVE  CallsAre("open", calls) /\ ~SomeClosed(shown, posts) /\ calls[1].version = version
  <1>1. ~SomeClosed(shown, posts)
    BY DEF SomethingToOpen, CallsAre
  <1>2. ASSUME NEW i \in 1 .. Len(calls)
        PROVE  calls[i].kind \in {"getState", "open"}
    <2>1. calls[i] \in UpdateCalls
      BY ElementOfSeq
    <2>2. calls[i].kind # "download"
      <3>1. ~(i < 1)
        OBVIOUS
      <3> QED
        BY <3>1 DEF SomethingToOpen, Before
    <2> QED
      BY <2>1, <2>2 DEF UpdateCalls
  <1> QED
    BY <1>1, <1>2 DEF SomethingToOpen, CallsAre

\* Something to open: its freshness matters only as long as other calls or states are there.
LEMMA SomethingAges ==
    ASSUME NEW shown, NEW posts, NEW calls, NEW version, NEW fresh \in BOOLEAN, NEW after \in BOOLEAN,
           SomethingToOpen(shown, posts, calls, version, fresh),
           after \/ (CallsAre("open", calls) /\ ~SomeClosed(shown, posts))
    PROVE  SomethingToOpen(shown, posts, calls, version, after)
  BY DEF SomethingToOpen

\* Something to open: the owner clicks.
LEMMA SomethingClicked ==
    ASSUME NEW shown, NEW posts, NEW calls, NEW version, NEW fresh \in BOOLEAN,
           SomethingToOpen(shown, posts, calls, version, fresh), shown # None,
           NEW more, NEW call, Added(calls, more, call), call.kind = IF Openish(shown) THEN "open" ELSE "download",
           Openish(shown) => call.version = shown.version
    PROVE  SomethingToOpen(shown, posts, more, version, fresh)
  <1>1. \A i \in 1 .. Len(more) :
           \/ i \in 1 .. Len(calls) /\ more[i] = calls[i] /\ i < Len(calls) + 1
           \/ i = Len(calls) + 1 /\ more[i] = call
    BY DEF Added
  <1>2. CASE Openish(shown)
    <2>1. ~SomeClosed(shown, posts)
      BY <1>2 DEF SomethingToOpen, SomeClosed
    <2>2. Before("download", "open", more)
      <3> SUFFICES ASSUME NEW i \in 1 .. Len(more), NEW j \in 1 .. Len(more),
                          more[i].kind = "download", more[j].kind = "open"
                   PROVE  i < j
        BY DEF Before
      <3>1. i \in 1 .. Len(calls) /\ more[i] = calls[i] /\ i < Len(calls) + 1
        BY <1>1, <1>2
      <3>2. CASE j \in 1 .. Len(calls) /\ more[j] = calls[j]
        BY <3>1, <3>2 DEF SomethingToOpen, Before
      <3>3. CASE j = Len(calls) + 1
        BY <3>1, <3>3
      <3> QED
        BY <1>1, <3>2, <3>3
    <2>3. \A i \in 1 .. Len(more) : more[i].kind = "open" => more[i].version = version
      BY <1>1, <1>2 DEF SomethingToOpen
    <2>4. CallsAre("open", calls) => CallsAre("open", more)
      BY <1>1, <1>2 DEF CallsAre
    <2> QED
      BY <2>1, <2>2, <2>3, <2>4 DEF SomethingToOpen
  <1>3. CASE ~Openish(shown)
    <2>1. CallsAre("download", calls) /\ fresh
      BY <1>3 DEF SomethingToOpen, SomeClosed
    <2>2. CallsAre("download", more)
      BY <1>1, <1>3, <2>1 DEF CallsAre
    <2>3. \A i \in 1 .. Len(more) : more[i].kind # "open"
      BY <2>2 DEF CallsAre
    <2> QED
      BY <2>1, <2>2, <2>3 DEF SomethingToOpen, Before
  <1> QED
    BY <1>2, <1>3

-----------------------------------------------------------------------------
\* A page that is loaded again: its calls are those of before, in their order, but the
\* question for the state.
Reloaded(calls, more) ==
    /\ more \in Seq(UpdateCalls) /\ \E i \in 1 .. Len(more) : more[i] = DesktopUpdate!AsksState
    /\ \E from \in [1 .. Len(more) -> Nat] : \A i \in 1 .. Len(more) :
          \/ more[i].kind = "getState"
          \/ /\ from[i] \in 1 .. Len(calls) /\ more[i] = calls[from[i]]
             /\ \A j \in 1 .. Len(more) : j < i => from[j] < from[i]

\* Nothing to open: the page is loaded again.
LEMMA NothingReloaded ==
    ASSUME NEW shown, NEW posts, NEW calls, NEW downloads \in BOOLEAN,
           NothingToOpen(shown, posts, calls, downloads), NEW more, Reloaded(calls, more)
    PROVE  NothingToOpen(None, <<>>, more, downloads)
  <1>1. PICK from \in [1 .. Len(more) -> Nat] : \A i \in 1 .. Len(more) :
          \/ more[i].kind = "getState"
          \/ /\ from[i] \in 1 .. Len(calls) /\ more[i] = calls[from[i]]
             /\ \A j \in 1 .. Len(more) : j < i => from[j] < from[i]
    BY DEF Reloaded
  <1>2. \A kind : CallsAre(kind, calls) => CallsAre(kind, more)
    BY <1>1 DEF CallsAre
  <1>3. Before("open", "download", more)
    <2> SUFFICES ASSUME NEW i \in 1 .. Len(more), NEW j \in 1 .. Len(more), more[i].kind = "open",
           more[j].kind = "download"
                 PROVE  i < j
      BY DEF Before
    <2>1. from[i] < from[j]
      BY <1>1 DEF NothingToOpen, Before
    <2>2. i # j
      OBVIOUS
    <2>3. j < i => from[j] < from[i]
      BY <1>1
    <2>4. from[i] \in Nat /\ from[j] \in Nat /\ i \in Int /\ j \in Int
      BY <1>1
    <2> QED
      BY <2>1, <2>2, <2>3, <2>4
  <1>4. ~SomeOpen(None, <<>>)
    BY DEF SomeOpen
  <1> QED
    BY <1>2, <1>3, <1>4 DEF NothingToOpen

\* Something to open: the page is loaded again.
LEMMA SomethingReloaded ==
    ASSUME NEW shown, NEW posts, NEW calls, NEW version, NEW fresh \in BOOLEAN,
           SomethingToOpen(shown, posts, calls, version, fresh), NEW more, Reloaded(calls, more)
    PROVE  SomethingToOpen(None, <<>>, more, version, fresh)
  <1>1. PICK from \in [1 .. Len(more) -> Nat] : \A i \in 1 .. Len(more) :
          \/ more[i].kind = "getState"
          \/ /\ from[i] \in 1 .. Len(calls) /\ more[i] = calls[from[i]]
             /\ \A j \in 1 .. Len(more) : j < i => from[j] < from[i]
    BY DEF Reloaded
  <1>2. \A kind : CallsAre(kind, calls) => CallsAre(kind, more)
    BY <1>1 DEF CallsAre
  <1>3. Before("download", "open", more)
    <2> SUFFICES ASSUME NEW i \in 1 .. Len(more), NEW j \in 1 .. Len(more), more[i].kind = "download",
           more[j].kind = "open"
                 PROVE  i < j
      BY DEF Before
    <2>1. from[i] < from[j]
      BY <1>1 DEF SomethingToOpen, Before
    <2>2. i # j
      OBVIOUS
    <2>3. j < i => from[j] < from[i]
      BY <1>1
    <2>4. from[i] \in Nat /\ from[j] \in Nat /\ i \in Int /\ j \in Int
      BY <1>1
    <2> QED
      BY <2>1, <2>2, <2>3, <2>4
  <1>4. ~SomeClosed(None, <<>>)
    BY DEF SomeClosed
  <1>5. \A i \in 1 .. Len(more) : more[i].kind = "open" => more[i].version = version
    BY <1>1 DEF SomethingToOpen
  <1> QED
    BY <1>2, <1>3, <1>4, <1>5 DEF SomethingToOpen

\* The calls that stay behind are those of before, in their order.
LEMMA ReloadKeepsOrder ==
    ASSUME NEW calls \in Seq(UpdateCalls)
    PROVE  Reloaded(calls, Append(DesktopUpdate!Others(calls), DesktopUpdate!AsksState))
  <1>1. PICK n \in Nat : n = Len(calls)
    BY LenProperties
  <1>2. PICK asks : asks = {i \in DOMAIN calls : calls[i] = DesktopUpdate!AsksState}
    OBVIOUS
  <1>3. PICK asked : asked = CHOOSE i \in asks : TRUE
    OBVIOUS
  <1>4. PICK others : others = DesktopUpdate!Others(calls)
    OBVIOUS
  <1>5. others = IF asks = {} THEN calls
                 ELSE [i \in 1 .. n - 1 |-> calls[IF i < asked THEN i ELSE i + 1]]
    BY <1>1, <1>2, <1>3, <1>4 DEF DesktopUpdate!Others
  <1>6. DesktopUpdate!AsksState \in UpdateCalls /\ DesktopUpdate!AsksState.kind = "getState"
    BY DEF DesktopUpdate!AsksState, DesktopUpdate!Call, UpdateCalls
  <1>7. PICK m, from :
           /\ m \in Nat /\ from \in [1 .. m + 1 -> Nat]
           /\ others \in Seq(UpdateCalls) /\ Len(others) = m
           /\ \A i \in 1 .. m : from[i] \in 1 .. n /\ others[i] = calls[from[i]]
           /\ \A i \in 1 .. m : \A j \in 1 .. m : j < i => from[j] < from[i]
    <2>1. CASE asks = {}
      <3>1. PICK from : from = [i \in 1 .. n + 1 |-> i]
        OBVIOUS
      <3>2. from \in [1 .. n + 1 -> Nat] /\ \A i \in 1 .. n : from[i] = i
        BY <3>1
      <3>3. \A i \in 1 .. n : from[i] \in 1 .. n
        BY <3>2
      <3>4. \A i \in 1 .. n : \A j \in 1 .. n : j < i => from[j] < from[i]
        BY <3>2
      <3>5. others = calls
        BY <1>5, <2>1
      <3> QED
        BY <1>1, <3>2, <3>3, <3>4, <3>5
    <2>2. CASE asks # {}
      <3>1. asked \in asks
        BY <1>3, <2>2
      <3>2. asked \in 1 .. n /\ n > 0
        BY <1>1, <1>2, <3>1
      <3>3. PICK m \in Nat : m = n - 1
        BY <3>2
      <3>4. PICK from : from = [i \in 1 .. m + 1 |-> IF i < asked THEN i ELSE i + 1]
        OBVIOUS
      <3>5. from \in [1 .. m + 1 -> Nat] /\ \A i \in 1 .. m : from[i] \in 1 .. n
               /\ from[i] = IF i < asked THEN i ELSE i + 1
        BY <3>2, <3>3, <3>4
      <3>6. \A i \in 1 .. n : calls[i] \in UpdateCalls
        BY <1>1, ElementOfSeq
      <3>7. others = [i \in 1 .. m |-> calls[from[i]]]
        BY <1>5, <2>2, <3>3, <3>5
      <3>8. others \in Seq(UpdateCalls) /\ Len(others) = m
        BY <3>5, <3>6, <3>7
      <3>9. \A i \in 1 .. m : \A j \in 1 .. m : j < i => from[j] < from[i]
        <4> TAKE i \in 1 .. m
        <4> TAKE j \in 1 .. m
        <4>1. /\ from[i] = IF i < asked THEN i ELSE i + 1
              /\ from[j] = IF j < asked THEN j ELSE j + 1
          BY <3>5
        <4>2. i \in Int /\ j \in Int /\ asked \in Int
          BY <3>2
        <4> HIDE <3>5
        <4> QED
          BY <4>1, <4>2
      <3> QED
        BY <3>5, <3>7, <3>8, <3>9
    <2> QED
      BY <2>1, <2>2
  <1>8. PICK more : more = Append(others, DesktopUpdate!AsksState)
    OBVIOUS
  <1>9. Added(others, more, DesktopUpdate!AsksState)
    BY <1>6, <1>7, <1>8, AppendAdds
  <1>10. more \in Seq(UpdateCalls) /\ Len(more) = m + 1 /\ more[m + 1] = DesktopUpdate!AsksState
         /\ \A i \in 1 .. m : more[i] = others[i]
    BY <1>7, <1>9 DEF Added
  <1>11. ASSUME NEW i \in 1 .. m + 1
         PROVE  \/ more[i].kind = "getState"
                \/ /\ from[i] \in 1 .. n /\ more[i] = calls[from[i]]
                   /\ \A j \in 1 .. m + 1 : j < i => from[j] < from[i]
    <2>1. CASE i = m + 1
      BY <1>6, <1>10, <2>1
    <2>2. CASE i # m + 1
      <3>1. i \in 1 .. m /\ \A j \in 1 .. m + 1 : j < i => j \in 1 .. m
        BY <1>7, <2>2
      <3> QED
        BY <1>7, <1>10, <3>1
    <2> QED
      BY <2>1, <2>2
  <1>12. m + 1 \in 1 .. Len(more) /\ from \in [1 .. Len(more) -> Nat]
    BY <1>7, <1>10
  <1>13. Reloaded(calls, more)
    BY <1>1, <1>10, <1>11, <1>12 DEF Reloaded
  <1> QED
    BY <1>4, <1>8, <1>13

\* There was something to open, of no new download, and now there is not.
LEMMA SomethingEnds ==
    ASSUME NEW shown, NEW posts \in Seq(UpdateStates), NEW calls, NEW version,
           SomethingToOpen(shown, posts, calls, version, FALSE),
           NEW posted, NEW state, Extended(posts, posted, state), ~Openish(state)
    PROVE  NothingToOpen(shown, posted, calls, FALSE)
  <1>1. ~SomeClosed(shown, posts) /\ CallsAre("open", calls)
    BY DEF SomethingToOpen
  <1>2. Before("open", "download", calls)
    BY <1>1 DEF CallsAre, Before
  <1>3. \A i, j \in 1 .. Len(posted) : i < j /\ ~Openish(posted[i]) => ~Openish(posted[j])
    <2> SUFFICES ASSUME NEW i \in 1 .. Len(posted), NEW j \in 1 .. Len(posted), i < j, ~Openish(posted[i])
                 PROVE  FALSE
      OBVIOUS
    <2>1. i < Len(posted)
      BY DEF Extended
    <2> QED
      BY <1>1, <2>1 DEF Extended, SomeClosed
  <1> QED
    BY <1>1, <1>2, <1>3 DEF NothingToOpen, SomeClosed

\* A download is there: nothing that the page knows or asked is of an earlier one.
LEMMA SomethingBegins ==
    ASSUME NEW shown, NEW posts \in Seq(UpdateStates), NEW calls, NEW version,
           NothingToOpen(shown, posts, calls, TRUE),
           NEW posted, NEW state, Extended(posts, posted, state), Openish(state), state.version = version
    PROVE  SomethingToOpen(shown, posted, calls, version, TRUE)
  <1>1. ~SomeOpen(shown, posts) /\ CallsAre("download", calls)
    BY DEF NothingToOpen
  <1>2. \A i \in 1 .. Len(calls) : calls[i].kind # "open"
    BY <1>1 DEF CallsAre
  <1>3. \A i \in 1 .. Len(posted) : Openish(posted[i]) => i = Len(posted)
    <2> SUFFICES ASSUME NEW i \in 1 .. Len(posted), Openish(posted[i]), i # Len(posted)
                 PROVE  FALSE
      OBVIOUS
    <2>1. i < Len(posted)
      BY DEF Extended
    <2> QED
      BY <1>1, <2>1 DEF Extended, SomeOpen
  <1>4. \A i \in 1 .. Len(posted) : Openish(posted[i]) => posted[i].version = version
    BY <1>3 DEF Extended
  <1>5. \A i, j \in 1 .. Len(posted) : i < j /\ Openish(posted[i]) => Openish(posted[j])
    <2> TAKE i, j \in 1 .. Len(posted)
    <2>1. j <= Len(posted)
      OBVIOUS
    <2> QED
      BY <1>3, <2>1
  <1>6. ~(shown # None /\ Openish(shown))
    BY <1>1 DEF SomeOpen
  <1> QED
    BY <1>1, <1>2, <1>4, <1>5, <1>6 DEF SomethingToOpen, Before

\* What a post changes of the button.
LEMMA PostTells ==
    ASSUME NEW b \in Buttons, NEW state \in UpdateStates, NEW told, told = DesktopUpdate!Posted(b, state)
    PROVE  told \in Buttons /\ told.shown = b.shown /\ told.calls = b.calls /\ Extended(b.posts, told.posts, state)
  <1>1. PICK posted : posted = IF b.posts # <<>> /\ b.posts[Len(b.posts)] = state THEN b.posts
                ELSE Append(b.posts, state)
    OBVIOUS
  <1>2. told = [b EXCEPT !.posts = posted]
    BY <1>1 DEF DesktopUpdate!Posted
  <1>3. b.posts \in Seq(UpdateStates)
    BY DEF Buttons
  <1>4. Extended(b.posts, posted, state)
    BY <1>1, <1>3, PostedExtends
  <1>5. posted \in Seq(UpdateStates)
    BY <1>4 DEF Extended
  <1> QED
    BY <1>2, <1>4, <1>5 DEF Buttons

\* What is posted behind anything, when it is the manager's state, fits.
LEMMA PostFits ==
    ASSUME NEW posts, Extended(posts, button'.posts, update'.state)
    PROVE  PostsFit'
  <1>1. button'.posts # <<>>
    BY EmptySeq DEF Extended
  <1> QED
    BY <1>1 DEF Extended, PostsFit

\* What a published state changes.
LEMMA PublishTells ==
    ASSUME UpdateWell, NEW manager, NEW state \in UpdateStates, DesktopUpdate!Publish(manager, state)
    PROVE  /\ update' = [manager EXCEPT !.state = state]
           /\ button' \in Buttons /\ button'.shown = button.shown /\ button'.calls = button.calls
           /\ Extended(button.posts, button'.posts, state) /\ button.posts \in Seq(UpdateStates)
  <1>1. button \in Buttons
    BY DEF UpdateWell, UpdateTyped, Managers
  <1>2. button' = DesktopUpdate!Posted(button, state) /\ update' = [manager EXCEPT !.state = state]
    BY DEF DesktopUpdate!Publish
  <1>3. button' \in Buttons /\ button'.shown = button.shown /\ button'.calls = button.calls
        /\ Extended(button.posts, button'.posts, state)
    BY <1>1, <1>2, PostTells
  <1> QED
    BY <1>1, <1>2, <1>3 DEF Buttons

\* The states that are published, and which of them have something to open.
LEMMA StatesTold ==
    ASSUME NEW version \in Nat \cup {None}
    PROVE  /\ \A status \in {"idle", "checking", "available", "downloading", "downloaded"} :
                 /\ DesktopUpdate!State(status, version) \in UpdateStates
                 /\ DesktopUpdate!State(status, version).status = status
                 /\ DesktopUpdate!State(status, version).version = version
                 /\ Openish(DesktopUpdate!State(status, version)) <=> status = "downloaded"
           /\ \A stage \in {"check", "download", "open"} :
                 /\ DesktopUpdate!Error(stage, version) \in UpdateStates
                 /\ DesktopUpdate!Error(stage, version).status = "error"
                 /\ DesktopUpdate!Error(stage, version).version = version
                 /\ Openish(DesktopUpdate!Error(stage, version)) <=> stage = "open"
  BY DEF DesktopUpdate!State, DesktopUpdate!Error, UpdateStates, Openish, DesktopUpdate!Retryable

\* What the page knows, by what is the case.
LEMMA PageIs ==
    ASSUME PageFits
    PROVE  \E downloads \in BOOLEAN, fresh \in BOOLEAN :
              /\ downloads <=> Downloads
              /\ fresh <=> Fresh
              /\ Openish(update.state) =>
                    SomethingToOpen(button.shown, button.posts, button.calls, update.installer.version, fresh)
              /\ ~Openish(update.state) => NothingToOpen(button.shown, button.posts, button.calls, downloads)
  <1>1. CASE Downloads /\ Fresh
    BY <1>1 DEF PageFits
  <1>2. CASE Downloads /\ ~Fresh
    BY <1>2 DEF PageFits
  <1>3. CASE ~Downloads /\ Fresh
    BY <1>3 DEF PageFits
  <1>4. CASE ~Downloads /\ ~Fresh
    BY <1>4 DEF PageFits
  <1> QED
    BY <1>1, <1>2, <1>3, <1>4

\* The page has something to open after a step, or nothing.
LEMMA SomethingNow ==
    ASSUME NEW fresh \in BOOLEAN, fresh <=> Fresh', Openish(update'.state),
           SomethingToOpen(button'.shown, button'.posts, button'.calls, update'.installer.version, fresh)
    PROVE  PageFits'
  <1>1. CASE fresh
    <2>1. SomethingToOpen(button'.shown, button'.posts, button'.calls, update'.installer.version, TRUE)
      BY <1>1
    <2> QED
      BY <1>1, <2>1 DEF PageFits
  <1>2. CASE ~fresh
    <2>1. SomethingToOpen(button'.shown, button'.posts, button'.calls, update'.installer.version, FALSE)
      BY <1>2
    <2> QED
      BY <1>2, <2>1 DEF PageFits
  <1> QED
    BY <1>1, <1>2

\* Nothing.
LEMMA NothingNow ==
    ASSUME NEW downloads \in BOOLEAN, downloads <=> Downloads', ~Openish(update'.state),
           NothingToOpen(button'.shown, button'.posts, button'.calls, downloads)
    PROVE  PageFits'
  <1>1. CASE downloads
    <2>1. NothingToOpen(button'.shown, button'.posts, button'.calls, TRUE)
      BY <1>1
    <2> QED
      BY <1>1, <2>1 DEF PageFits
  <1>2. CASE ~downloads
    <2>1. NothingToOpen(button'.shown, button'.posts, button'.calls, FALSE)
      BY <1>2
    <2> QED
      BY <1>2, <2>1 DEF PageFits
  <1> QED
    BY <1>1, <1>2

\* The invariant holds at the start.
LEMMA UpdatesStart ==
    ASSUME DesktopUpdate!Init
    PROVE  UpdateWell
  <1>1. PICK state \in UpdateStates : state = DesktopUpdate!State("idle", None) /\ ~Openish(state)
    BY StatesTold
  <1>2. PICK calls \in Seq(UpdateCalls) : calls = <<DesktopUpdate!AsksState>>
    <2>1. DesktopUpdate!AsksState \in UpdateCalls
      BY DEF DesktopUpdate!AsksState, DesktopUpdate!Call, UpdateCalls
    <2>2. <<DesktopUpdate!AsksState>> \in Seq(UpdateCalls)
      BY <2>1
    <2> QED
      BY <2>2
  <1>3. /\ update = [state |-> state, release |-> None, installer |-> None,
                     checking |-> FALSE, checks |-> 0, opening |-> <<>>, overtaken |-> 0,
                     misled |-> FALSE, quit |-> FALSE]
        /\ download = DesktopUpdate!NoDownload /\ installers = {}
        /\ button = [shown |-> None, dialog |-> FALSE, posts |-> <<>>, calls |-> calls]
    BY <1>1, <1>2 DEF DesktopUpdate!Init
  <1>4. download.step = "none"
    BY <1>3 DEF DesktopUpdate!NoDownload
  <1>5. Len(calls) = 1 /\ calls[1] = DesktopUpdate!AsksState /\ calls[1].kind = "getState"
    BY <1>2 DEF DesktopUpdate!AsksState, DesktopUpdate!Call
  <1>6. UpdateTyped
    BY <1>3 DEF UpdateTyped, Managers, Buttons
  <1>7. DownloadFits
    BY <1>3, <1>4 DEF DownloadFits, LoadSteps
  <1>8. OpenFits
    BY <1>1, <1>3 DEF OpenFits
  <1>9. PostsFit
    <2>1. button.posts = <<>> /\ button.shown = None /\ button.calls = calls
      BY <1>3
    <2>2. \E i \in 1 .. Len(calls) : calls[i] = DesktopUpdate!AsksState
      BY <1>5
    <2> QED
      BY <2>1, <2>2 DEF PostsFit
  <1>10. PageFits
    <2>1. NothingToOpen(None, <<>>, calls, FALSE)
      BY <1>5 DEF NothingToOpen, SomeOpen, Before
    <2> QED
      BY <1>1, <1>3, <1>4, <2>1 DEF PageFits, Downloads
  <1> QED
    BY <1>6, <1>7, <1>8, <1>9, <1>10 DEF UpdateWell

-----------------------------------------------------------------------------
\* A state without anything to open is published, when what was to open is no longer
\* fresh, and nothing is downloaded afterwards that was not before.
LEMMA ClosedPublished ==
    ASSUME UpdateWell, NEW state, ~Openish(state), update'.state = state,
           Extended(button.posts, button'.posts, state), button.posts \in Seq(UpdateStates),
           button'.shown = button.shown, button'.calls = button.calls,
           update.state.status # "downloaded", Downloads' => Downloads
    PROVE  PageFits' /\ PostsFit'
  <1>1. PostsFit'
    BY PostFits
  <1>2. PICK downloads \in BOOLEAN, fresh \in BOOLEAN :
              /\ downloads <=> Downloads
              /\ fresh <=> Fresh
              /\ Openish(update.state) =>
                    SomethingToOpen(button.shown, button.posts, button.calls, update.installer.version, fresh)
              /\ ~Openish(update.state) => NothingToOpen(button.shown, button.posts, button.calls, downloads)
    BY PageIs DEF UpdateWell
  <1>3. PICK after \in BOOLEAN : after <=> Downloads'
    OBVIOUS
  <1>4. after => downloads
    BY <1>2, <1>3
  <1>5. NothingToOpen(button.shown, button'.posts, button.calls, after)
    <2>1. CASE Openish(update.state)
      <3>1. ~fresh /\ ~downloads
        BY <1>2, <2>1 DEF UpdateWell, DownloadFits, Downloads, Openish, DesktopUpdate!Retryable, Fresh
      <3>2. SomethingToOpen(button.shown, button.posts, button.calls, update.installer.version, FALSE)
        BY <1>2, <2>1, <3>1
      <3>3. NothingToOpen(button.shown, button'.posts, button.calls, FALSE)
        BY <3>2, SomethingEnds
      <3> QED
        BY <1>4, <3>1, <3>3
    <2>2. CASE ~Openish(update.state)
      <3>1. NothingToOpen(button.shown, button.posts, button.calls, downloads)
        BY <1>2, <2>2
      <3> QED
        BY <1>4, <3>1, NothingPosted
    <2> QED
      BY <2>1, <2>2
  <1>6. NothingToOpen(button'.shown, button'.posts, button'.calls, after)
    BY <1>5
  <1> QED
    BY <1>1, <1>3, <1>6, NothingNow

\* A check begins.
LEMMA CheckKeeps ==
    ASSUME UpdateWell, DesktopUpdate!Check
    PROVE  UpdateWell'
  <1>1. PICK state \in UpdateStates : state = DesktopUpdate!State("checking", None)
                                      /\ state.status = "checking" /\ ~Openish(state)
    BY StatesTold
  <1>2. PICK checks, none, overtaken :
           /\ checks = update.checks + 1 /\ none = <<>> /\ overtaken = update.overtaken + Len(update.opening)
           /\ UNCHANGED <<download, installers>> /\ update.state.status \notin {"downloading", "downloaded"}
           /\ DesktopUpdate!Publish([update EXCEPT !.checking = TRUE, !.checks = checks,
                                                   !.opening = none, !.overtaken = overtaken], state)
    BY <1>1 DEF DesktopUpdate!Check, DesktopUpdate!Checkable
  <1>3. /\ update' = [[update EXCEPT !.checking = TRUE, !.checks = checks, !.opening = none, !.overtaken = overtaken]
                      EXCEPT !.state = state]
        /\ button' \in Buttons /\ button'.shown = button.shown /\ button'.calls = button.calls
        /\ Extended(button.posts, button'.posts, state) /\ button.posts \in Seq(UpdateStates)
    BY <1>2, PublishTells
  <1>4. UpdateTyped
    BY DEF UpdateWell
  <1>a. checks \in Nat /\ none \in Seq(Nat \cup {None}) /\ overtaken \in Nat
    <2>1. update.checks \in Nat /\ update.overtaken \in Nat /\ update.opening \in Seq(Nat \cup {None})
      BY <1>4 DEF UpdateTyped, Managers
    <2>2. Len(update.opening) \in Nat
      BY <2>1, LenProperties
    <2> QED
      BY <1>2, <2>1, <2>2
  <1>5. /\ UpdateTyped' /\ update'.checking /\ update'.state = state /\ update'.opening = <<>>
        /\ update'.release = update.release /\ update'.installer = update.installer
    <2>1. /\ update' \in Managers(installers)
          /\ update'.checking /\ update'.state = state /\ update'.opening = none
          /\ update'.release = update.release /\ update'.installer = update.installer
      BY <1>a, <1>3, <1>4 DEF UpdateTyped, Managers
    <2> QED
      BY <1>2, <1>3, <1>4, <2>1 DEF UpdateTyped, Managers
  <1>6. download = DesktopUpdate!NoDownload /\ download.step = "none"
    BY <1>2 DEF UpdateWell, DownloadFits, DesktopUpdate!NoDownload
  <1>7. DownloadFits'
    BY <1>1, <1>2, <1>5, <1>6 DEF DownloadFits, LoadSteps
  <1>8. OpenFits'
    BY <1>1, <1>5 DEF OpenFits
  <1>9. PageFits' /\ PostsFit'
    BY <1>1, <1>2, <1>3, <1>5, ClosedPublished DEF Downloads
  <1> QED
    BY <1>5, <1>7, <1>8, <1>9 DEF UpdateWell

\* A check ends, with a release, none that is newer, or a failure.
LEMMA CheckedKeeps ==
    ASSUME UpdateWell, DesktopUpdate!Checked \/ DesktopUpdate!CheckFails
    PROVE  UpdateWell'
  <1>1. UpdateTyped
    BY DEF UpdateWell
  <1>2. PICK release \in Nat \cup {None}, state \in UpdateStates :
           /\ release # None => release > Installed
           /\ ~Openish(state)
           /\ DesktopUpdate!Publish([update EXCEPT !.checking = FALSE, !.release = release], state)
    <2>1. CASE DesktopUpdate!Checked
      <3>1. PICK payload \in DesktopUpdate!Payloads :
               LET release == IF DesktopUpdate!Newer(payload.version) THEN payload.version ELSE None IN
                  DesktopUpdate!Publish([update EXCEPT !.checking = FALSE, !.release = release],
                     DesktopUpdate!State(IF release = None THEN "idle" ELSE "available", release))
        BY <2>1 DEF DesktopUpdate!Checked
      <3>2. PICK release : release = IF DesktopUpdate!Newer(payload.version) THEN payload.version ELSE None
        OBVIOUS
      <3>3. payload.version \in Nat
        BY DEF DesktopUpdate!Payloads
      <3>4. release \in Nat \cup {None} /\ (release # None => release > Installed)
        BY <3>2, <3>3 DEF DesktopUpdate!Newer
      <3>5. PICK status \in {"idle", "available"} : status = IF release = None THEN "idle" ELSE "available"
        OBVIOUS
      <3>6. DesktopUpdate!Publish([update EXCEPT !.checking = FALSE, !.release = release],
                                  DesktopUpdate!State(status, release))
        BY <3>1, <3>2, <3>5
      <3>7. DesktopUpdate!State(status, release) \in UpdateStates /\ ~Openish(DesktopUpdate!State(status, release))
        BY <3>4, StatesTold
      <3> QED
        BY <3>4, <3>6, <3>7
    <2>2. CASE DesktopUpdate!CheckFails
      <3>1. DesktopUpdate!Publish([update EXCEPT !.checking = FALSE], DesktopUpdate!Error("check", None))
        BY <2>2 DEF DesktopUpdate!CheckFails
      <3>2. [update EXCEPT !.checking = FALSE] = [update EXCEPT !.checking = FALSE, !.release = update.release]
        BY <1>1 DEF UpdateTyped, Managers
      <3>3. DesktopUpdate!Error("check", None) \in UpdateStates /\ ~Openish(DesktopUpdate!Error("check", None))
        BY StatesTold
      <3>4. update.release \in Nat \cup {None} /\ (update.release # None => update.release > Installed)
        BY <1>1 DEF UpdateTyped, Managers
      <3> QED
        BY <3>1, <3>2, <3>3, <3>4
    <2> QED
      BY <2>1, <2>2
  <1>3. update.checking /\ UNCHANGED <<download, installers>>
    BY DEF DesktopUpdate!Checked, DesktopUpdate!CheckFails
  <1>4. update.state.status = "checking" /\ update.opening = <<>> /\ download = DesktopUpdate!NoDownload
    BY <1>3 DEF UpdateWell, DownloadFits
  <1>5. /\ update' = [[update EXCEPT !.checking = FALSE, !.release = release] EXCEPT !.state = state]
        /\ button' \in Buttons /\ button'.shown = button.shown /\ button'.calls = button.calls
        /\ Extended(button.posts, button'.posts, state) /\ button.posts \in Seq(UpdateStates)
    BY <1>2, PublishTells
  <1>6. /\ UpdateTyped' /\ ~update'.checking /\ update'.state = state /\ update'.opening = <<>>
        /\ download'.step = "none" /\ download' = DesktopUpdate!NoDownload
    <2>1. /\ update' \in Managers(installers)
          /\ update'.release = release
          /\ ~update'.checking /\ update'.state = state /\ update'.opening = update.opening
      BY <1>1, <1>5 DEF UpdateTyped, Managers
    <2> QED
      BY <1>2, <1>3, <1>4, <1>5, <2>1 DEF UpdateTyped, Managers, DesktopUpdate!NoDownload
  <1>7. DownloadFits'
    BY <1>6 DEF DownloadFits, LoadSteps
  <1>8. OpenFits'
    BY <1>2, <1>6 DEF OpenFits
  <1>9. PageFits' /\ PostsFit'
    BY <1>2, <1>4, <1>5, <1>6, ClosedPublished DEF Downloads
  <1> QED
    BY <1>6, <1>7, <1>8, <1>9 DEF UpdateWell

\* A state is published during a download: its progress, or that it failed.
LEMMA LoadPublished ==
    ASSUME UpdateWell, download.step # "none", installers \subseteq installers',
           NEW state \in UpdateStates, ~Openish(state), DesktopUpdate!Publish(update, state)
    PROVE  /\ UpdateTyped' /\ OpenFits' /\ PageFits' /\ PostsFit'
           /\ update'.state = state /\ update'.release = update.release /\ ~update'.checking /\ update'.opening = <<>>
  <1>1. UpdateTyped
    BY DEF UpdateWell
  <1>2. /\ update' = [update EXCEPT !.state = state]
        /\ button' \in Buttons /\ button'.shown = button.shown /\ button'.calls = button.calls
        /\ Extended(button.posts, button'.posts, state) /\ button.posts \in Seq(UpdateStates)
    BY PublishTells
  <1>3. update.state.status = "downloading" /\ update.opening = <<>> /\ ~update.checking
    BY DEF UpdateWell, DownloadFits, DesktopUpdate!NoDownload
  <1>4. /\ update' \in Managers(installers)
        /\ update'.state = state /\ update'.release = update.release /\ update'.opening = update.opening
        /\ update'.checking = update.checking
    BY <1>1, <1>2 DEF UpdateTyped, Managers
  <1>5. update' \in Managers(installers')
    BY <1>4 DEF Managers
  <1>6. UpdateTyped'
    BY <1>1, <1>2, <1>4, <1>5 DEF UpdateTyped, Managers
  <1>7. OpenFits'
    BY <1>3, <1>4 DEF OpenFits
  <1>8. PageFits' /\ PostsFit'
    BY <1>2, <1>3, <1>4, ClosedPublished DEF Downloads
  <1> QED
    BY <1>3, <1>4, <1>6, <1>7, <1>8

\* A part of the installer arrives, or the installer is given its name.
LEMMA LoadGoes ==
    ASSUME UpdateWell, DesktopUpdate!Progress \/ DesktopUpdate!LinkWithoutOverwrite
    PROVE  UpdateWell'
  <1>1. update.release \in Nat /\ update.release = download.version /\ download.step \in {"fetch", "link"}
           /\ download \in Loads
    BY DEF UpdateWell, UpdateTyped, Managers, DownloadFits, LoadSteps,
           DesktopUpdate!Progress, DesktopUpdate!LinkWithoutOverwrite
  <1>2. PICK state \in UpdateStates : /\ state = DesktopUpdate!State("downloading", update.release)
                                      /\ state.status = "downloading" /\ ~Openish(state)
    BY <1>1, StatesTold
  <1>a. update.release # None
    BY <1>1 DEF UpdateWell, DownloadFits
  <1>3. DesktopUpdate!Publish(update, state) /\ installers \subseteq installers'
    BY <1>a, <1>2 DEF DesktopUpdate!Progress, DesktopUpdate!LinkWithoutOverwrite, DesktopUpdate!Tell
  <1>4. /\ UpdateTyped' /\ OpenFits' /\ PageFits' /\ PostsFit'
        /\ update'.state = state /\ update'.release = update.release /\ ~update'.checking /\ update'.opening = <<>>
    BY <1>1, <1>2, <1>3, LoadPublished
  <1>6. CASE DesktopUpdate!Progress
    <2>1. PICK body \in {"part", "whole", "other", "longer"} : download' = [download EXCEPT !.body = body]
      BY <1>6 DEF DesktopUpdate!Progress
    <2>2. download' \in Loads /\ download'.step = "fetch" /\ download'.version = download.version
      BY <1>1, <1>6, <2>1 DEF Loads, LoadSteps, DesktopUpdate!Progress
    <2>3. DownloadFits'
      BY <1>a, <1>1, <1>2, <1>4, <2>2 DEF DownloadFits, LoadSteps
    <2> QED
      BY <1>4, <2>3 DEF UpdateWell
  <1>7. CASE DesktopUpdate!LinkWithoutOverwrite
    <2>1. download.step = "link" /\ download.body = "whole" /\ download.marked
      BY <1>7 DEF UpdateWell, DownloadFits, DesktopUpdate!LinkWithoutOverwrite
    <2>2. PICK copy :
             LET file == [version |-> download.version, body |-> download.body, marked |-> download.marked,
                    copy |-> copy] IN
                /\ installers' = installers \cup {file}
                /\ download' = [step |-> "done", version |-> download.version, file |-> file]
      BY <1>a, <1>7 DEF DesktopUpdate!LinkWithoutOverwrite
    <2>3. PICK file :
             file = [version |-> download.version, body |-> download.body, marked |-> download.marked, copy |-> copy]
      OBVIOUS
    <2>4. /\ file \in installers' /\ file.body = "whole" /\ file.marked /\ file.version = download.version
          /\ download' = [step |-> "done", version |-> download.version, file |-> file]
      BY <2>1, <2>2, <2>3
    <2>5. download'.step = "done" /\ download'.version = download.version /\ download'.file = file
      BY <2>4
    <2>6. DownloadFits'
      BY <1>a, <1>1, <1>2, <1>4, <2>4, <2>5 DEF DownloadFits, LoadSteps
    <2> QED
      BY <1>4, <2>6 DEF UpdateWell
  <1> QED
    BY <1>6, <1>7

\* What the manager and the page do not see of a download.
LEMMA LoadUnseen ==
    ASSUME UpdateWell, DesktopUpdate!FetchChecksum \/ DesktopUpdate!Verify \/ DesktopUpdate!MarkQuarantined
    PROVE  UpdateWell'
  <1>1. UNCHANGED <<update, installers, button>> /\ download.step \in {"checksum", "fetch", "mark"}
    BY DEF DesktopUpdate!FetchChecksum, DesktopUpdate!Verify, DesktopUpdate!MarkQuarantined
  <1>2. download \in Loads
    BY <1>1 DEF UpdateWell, DownloadFits, LoadSteps
  <1>3. /\ download' \in Loads /\ download'.version = download.version
        /\ download'.step \in {"mark", "link"} => download'.body = "whole"
        /\ download'.step = "link" => download'.marked
    <2>1. CASE DesktopUpdate!FetchChecksum
      BY <1>2, <2>1 DEF Loads, LoadSteps, DesktopUpdate!FetchChecksum
    <2>2. CASE DesktopUpdate!Verify
      BY <1>2, <2>2 DEF Loads, LoadSteps, DesktopUpdate!Verify, DesktopUpdate!DigestMatches
    <2>3. CASE DesktopUpdate!MarkQuarantined
      <3>1. download.body = "whole" /\ download' = [download EXCEPT !.step = "link", !.marked = TRUE]
        BY <2>3 DEF UpdateWell, DownloadFits, DesktopUpdate!MarkQuarantined
      <3> QED
        BY <1>2, <3>1 DEF Loads, LoadSteps
    <2> QED
      BY <2>1, <2>2, <2>3
  <1>4. download'.step \in LoadSteps /\ download'.step # "none" /\ download'.step # "done"
    BY <1>3 DEF Loads, LoadSteps
  <1>5. UpdateTyped' /\ OpenFits' /\ PostsFit'
    BY <1>1 DEF UpdateWell, UpdateTyped, Managers, OpenFits, PostsFit
  <1>6. DownloadFits'
    <2>1. /\ ~update.checking /\ update.state.status = "downloading" /\ update.opening = <<>>
          /\ update.release # None /\ update.release = download.version
      BY <1>1 DEF UpdateWell, DownloadFits, DesktopUpdate!NoDownload
    <2> QED
      BY <1>1, <1>3, <1>4, <2>1 DEF DownloadFits
  <1>7. PageFits'
    <2>1. Downloads' <=> Downloads
      BY <1>1, <1>4 DEF Downloads
    <2>2. Fresh' <=> Fresh
      BY <1>1 DEF Fresh
    <2> QED
      BY <1>1, <2>1, <2>2 DEF UpdateWell, PageFits
  <1> QED
    BY <1>5, <1>6, <1>7 DEF UpdateWell

\* A download fails.
LEMMA DownloadFailsKeeps ==
    ASSUME UpdateWell, DesktopUpdate!DownloadFails
    PROVE  UpdateWell'
  <1>1. download.step \in LoadSteps /\ download' = DesktopUpdate!NoDownload /\ UNCHANGED installers
    BY DEF DesktopUpdate!DownloadFails, LoadSteps
  <1>2. update.release \in Nat \cup {None} /\ update.release # None /\ download.step # "none"
    BY <1>1 DEF UpdateWell, UpdateTyped, Managers, DownloadFits, LoadSteps
  <1>3. PICK state \in UpdateStates : state = DesktopUpdate!Error("download", update.release) /\ ~Openish(state)
    BY <1>2, StatesTold
  <1>4. DesktopUpdate!Publish(update, state)
    BY <1>2, <1>3 DEF DesktopUpdate!DownloadFails, DesktopUpdate!Tell
  <1>5. /\ UpdateTyped' /\ OpenFits' /\ PageFits' /\ PostsFit' /\ ~update'.checking
    BY <1>1, <1>2, <1>3, <1>4, LoadPublished
  <1>6. download'.step = "none"
    BY <1>1 DEF DesktopUpdate!NoDownload
  <1>7. DownloadFits'
    BY <1>1, <1>5, <1>6 DEF DownloadFits, LoadSteps
  <1> QED
    BY <1>5, <1>7 DEF UpdateWell

\* A download is there.
LEMMA DownloadedKeeps ==
    ASSUME UpdateWell, DesktopUpdate!Downloaded
    PROVE  UpdateWell'
  <1>1. /\ UpdateTyped /\ download.step = "done" /\ download' = DesktopUpdate!NoDownload /\ UNCHANGED installers
        /\ update.state.status = "downloading" /\ update.opening = <<>> /\ ~update.checking
        /\ update.release # None /\ update.release = download.version
        /\ download.file \in installers /\ download.file.body = "whole" /\ download.file.marked
        /\ download.file.version = download.version
    BY DEF DesktopUpdate!Downloaded, UpdateWell, DownloadFits, DesktopUpdate!NoDownload
  <1>2. update.release \in Nat /\ update.release > Installed
    BY <1>1 DEF UpdateTyped, Managers
  <1>3. PICK state \in UpdateStates : /\ state = DesktopUpdate!State("downloaded", update.release)
                                      /\ state.status = "downloaded" /\ state.version = update.release
                                             /\ Openish(state)
    BY <1>2, StatesTold
  <1>4. PICK file : file = download.file
    OBVIOUS
  <1>5. DesktopUpdate!Publish([update EXCEPT !.installer = file], state)
    BY <1>1, <1>3, <1>4 DEF DesktopUpdate!Downloaded, DesktopUpdate!Tell
  <1>6. /\ update' = [[update EXCEPT !.installer = file] EXCEPT !.state = state]
        /\ button' \in Buttons /\ button'.shown = button.shown /\ button'.calls = button.calls
        /\ Extended(button.posts, button'.posts, state) /\ button.posts \in Seq(UpdateStates)
    BY <1>5, PublishTells
  <1>7. /\ update' \in Managers(installers)
        /\ update'.state = state /\ update'.release = update.release /\ update'.opening = update.opening
        /\ update'.checking = update.checking /\ update'.installer = file
    BY <1>1, <1>4, <1>6 DEF UpdateTyped, Managers
  <1>8. UpdateTyped'
    BY <1>1, <1>2, <1>6, <1>7 DEF UpdateTyped, Managers
  <1>9. download'.step = "none"
    BY <1>1 DEF DesktopUpdate!NoDownload
  <1>10. DownloadFits'
    BY <1>1, <1>7, <1>9 DEF DownloadFits, LoadSteps
  <1>11. OpenFits'
    BY <1>1, <1>3, <1>4, <1>7, EmptySeq DEF OpenFits
  <1>12. PostsFit'
    BY <1>6, <1>7, PostFits
  <1>13. PageFits'
    <2>1. ~Openish(update.state) /\ Downloads
      BY <1>1 DEF Openish, DesktopUpdate!Retryable, Downloads
    <2>2. NothingToOpen(button.shown, button.posts, button.calls, TRUE)
      BY <2>1 DEF UpdateWell, PageFits
    <2>3. file.version = update.release
      BY <1>1, <1>4
    <2>4. SomethingToOpen(button.shown, button'.posts, button.calls, update.release, TRUE)
      BY <1>3, <1>6, <2>2, SomethingBegins
    <2>5. SomethingToOpen(button'.shown, button'.posts, button'.calls, update'.installer.version, TRUE)
      BY <1>6, <1>7, <2>3, <2>4
    <2>6. Fresh' /\ Openish(update'.state)
      BY <1>1, <1>3, <1>7 DEF Fresh
    <2> QED
      BY <2>5, <2>6, SomethingNow
  <1> QED
    BY <1>8, <1>10, <1>11, <1>12, <1>13 DEF UpdateWell

-----------------------------------------------------------------------------
\* The page is told a state that was posted: the last one stays the manager's.
LEMMA DeliverPosts ==
    ASSUME UpdateTyped, PostsFit, DesktopUpdate!Deliver
    PROVE  UpdateTyped' /\ PostsFit'
  <1>1. button \in Buttons /\ button.posts \in Seq(UpdateStates) /\ button.posts # <<>>
           /\ UNCHANGED <<update, download, installers>>
    BY DEF UpdateTyped, Managers, Buttons, DesktopUpdate!Deliver
  <1>2. PICK first, rest : first = Head(button.posts) /\ rest = Tail(button.posts)
    OBVIOUS
  <1>3. /\ Rest(button.posts, rest) /\ rest \in Seq(UpdateStates) /\ first \in UpdateStates
        /\ first = button.posts[1] /\ 1 \in 1 .. Len(button.posts)
    BY <1>1, <1>2, TailIsRest
  <1>4. button' = [button EXCEPT !.shown = first, !.posts = rest]
    BY <1>2 DEF DesktopUpdate!Deliver
  <1>5. button' \in Buttons /\ button'.shown = first /\ button'.posts = rest /\ button'.calls = button.calls
    BY <1>1, <1>3, <1>4 DEF Buttons
  <1>6. UpdateTyped'
    BY <1>1, <1>5 DEF UpdateTyped, Managers
  <1>7. PostsFit'
    <2>1. button.posts[Len(button.posts)] = update.state
      BY <1>1 DEF PostsFit
    <2>2. CASE rest # <<>>
      <3>1. Len(rest) \in Nat \ {0}
        BY <1>3, <2>2, EmptySeq
      <3>2. rest[Len(rest)] = button.posts[Len(rest) + 1] /\ Len(rest) + 1 = Len(button.posts)
        <4>1. PICK n \in Nat \ {0}, m \in Nat : n = Len(rest) /\ m = Len(button.posts)
          BY <1>3, <3>1 DEF Rest
        <4>2. Len(rest) = Len(button.posts) - 1
          BY <1>3 DEF Rest
        <4>3. n = m - 1
          BY <4>1, <4>2
        <4>4. n + 1 = m /\ n \in 1 .. n
          <5>1. n \in Nat /\ n # 0 /\ m \in Nat
            BY <4>1
          <5> QED
            BY <4>3, <5>1
        <4>5. rest[n] = button.posts[n + 1]
          BY <1>3, <4>1, <4>4 DEF Rest
        <4> QED
          BY <4>1, <4>4, <4>5
      <3> QED
        BY <1>1, <1>5, <2>1, <2>2, <3>2 DEF PostsFit
    <2>3. CASE rest = <<>>
      <3>1. Len(button.posts) = 1
        <4>1. Len(rest) = 0
          BY <2>3, EmptySeq
        <4> QED
          BY <1>3, <4>1 DEF Rest
      <3>2. first = update.state
        BY <1>3, <2>1, <3>1
      <3> QED
        BY <1>1, <1>5, <2>3, <3>2 DEF PostsFit
    <2> QED
      BY <2>2, <2>3
  <1> QED
    BY <1>6, <1>7

\* A click adds a call.
LEMMA ClickPosts ==
    ASSUME UpdateTyped, PostsFit, DesktopUpdate!RunPrimaryAction
    PROVE  UpdateTyped' /\ PostsFit'
  <1>1. /\ button \in Buttons /\ button.calls \in Seq(UpdateCalls) /\ UNCHANGED <<update, download, installers>>
        /\ button.shown # None /\ button.shown \in UpdateStates
    BY DEF UpdateTyped, Managers, Buttons, DesktopUpdate!RunPrimaryAction, DesktopUpdate!Visible
  <1>2. PICK call : call = IF DesktopUpdate!Opens THEN DesktopUpdate!Call("open", button.shown.version)
                           ELSE DesktopUpdate!Call("download", None)
    OBVIOUS
  <1>3. DesktopUpdate!Opens <=> Openish(button.shown)
    BY DEF DesktopUpdate!Opens, Openish
  <1>4. /\ call \in UpdateCalls /\ (Openish(button.shown) => call.version = button.shown.version)
        /\ call.kind = IF Openish(button.shown) THEN "open" ELSE "download"
    BY <1>1, <1>2, <1>3 DEF UpdateCalls, UpdateStates, DesktopUpdate!Call
  <1>5. PICK more : more = Append(button.calls, call)
    OBVIOUS
  <1>6. Added(button.calls, more, call)
    BY <1>1, <1>4, <1>5, AppendAdds
  <1>7. button' = [button EXCEPT !.calls = more]
    BY <1>2, <1>5 DEF DesktopUpdate!RunPrimaryAction
  <1>8. button' \in Buttons /\ button'.shown = button.shown /\ button'.posts = button.posts /\ button'.calls = more
    BY <1>1, <1>6, <1>7 DEF Buttons, Added
  <1>9. UpdateTyped'
    BY <1>1, <1>8 DEF UpdateTyped, Managers
  <1>10. PostsFit'
    <2>1. button.posts = <<>> => button.shown = update.state
      BY <1>1 DEF PostsFit
    <2> QED
      BY <1>1, <1>8, <2>1 DEF PostsFit
  <1> QED
    BY <1>9, <1>10

\* The page that is loaded again asks.
LEMMA ReloadPosts ==
    ASSUME UpdateTyped, PostsFit, DesktopUpdate!Reload
    PROVE  UpdateTyped' /\ PostsFit'
  <1>1. button \in Buttons /\ button.calls \in Seq(UpdateCalls) /\ UNCHANGED <<update, download, installers>>
    BY DEF UpdateTyped, Managers, Buttons, DesktopUpdate!Reload
  <1>2. PICK more : more = Append(DesktopUpdate!Others(button.calls), DesktopUpdate!AsksState)
    OBVIOUS
  <1>3. Reloaded(button.calls, more)
    BY <1>1, <1>2, ReloadKeepsOrder
  <1>a. PICK none \in Seq(UpdateStates) : none = <<>>
    BY EmptySeq
  <1>4. button' = [button EXCEPT !.shown = None, !.dialog = FALSE, !.posts = none, !.calls = more]
    BY <1>2, <1>a DEF DesktopUpdate!Reload
  <1>5. more \in Seq(UpdateCalls) /\ \E i \in 1 .. Len(more) : more[i] = DesktopUpdate!AsksState
    BY <1>3 DEF Reloaded
  <1>6. button' \in Buttons /\ button'.shown = None /\ button'.posts = <<>> /\ button'.calls = more
    BY <1>1, <1>a, <1>4, <1>5 DEF Buttons
  <1>7. UpdateTyped'
    BY <1>1, <1>6 DEF UpdateTyped, Managers
  <1>8. PostsFit'
    BY <1>5, <1>6 DEF PostsFit
  <1> QED
    BY <1>7, <1>8

\* A call that is refused is none for the state.
LEMMA RefusePosts ==
    ASSUME UpdateTyped, PostsFit, DesktopUpdate!Refuse
    PROVE  UpdateTyped' /\ PostsFit'
  <1>1. button \in Buttons /\ button.calls \in Seq(UpdateCalls) /\ button.calls # <<>>
           /\ UNCHANGED <<update, download, installers>>
    BY DEF UpdateTyped, Managers, Buttons, DesktopUpdate!Refuse
  <1>2. PICK rest : rest = Tail(button.calls)
    OBVIOUS
  <1>3. /\ Rest(button.calls, rest) /\ rest \in Seq(UpdateCalls) /\ Head(button.calls) = button.calls[1]
        /\ 1 \in 1 .. Len(button.calls)
    BY <1>1, <1>2, TailIsRest
  <1>4. button' = [button EXCEPT !.calls = rest]
    BY <1>2 DEF DesktopUpdate!Refuse, DesktopUpdate!Answered
  <1>5. button' \in Buttons /\ button'.shown = button.shown /\ button'.posts = button.posts /\ button'.calls = rest
    BY <1>1, <1>3, <1>4 DEF Buttons
  <1>6. UpdateTyped'
    BY <1>1, <1>5 DEF UpdateTyped, Managers
  <1>7. PostsFit'
    <2>1. ASSUME ~update.quit, NEW i \in 1 .. Len(button.calls), button.calls[i] = DesktopUpdate!AsksState
          PROVE  \E j \in 1 .. Len(rest) : rest[j] = DesktopUpdate!AsksState
      <3>1. button.calls[1].kind \in {"download", "open"}
        BY <1>3, <2>1 DEF DesktopUpdate!Refuse, DesktopUpdate!Calls
      <3>2. i # 1
        BY <2>1, <3>1 DEF DesktopUpdate!AsksState, DesktopUpdate!Call
      <3>3. i - 1 \in 1 .. Len(rest) /\ (i - 1) + 1 = i
        BY <1>3, <3>2 DEF Rest
      <3>4. rest[i - 1] = button.calls[i]
        BY <1>3, <3>3 DEF Rest
      <3> QED
        BY <2>1, <3>3, <3>4
    <2> QED
      BY <1>1, <1>5, <2>1 DEF PostsFit
  <1> QED
    BY <1>6, <1>7

\* The dialog.
LEMMA TogglePosts ==
    ASSUME UpdateTyped, PostsFit, DesktopUpdate!ToggleDialog
    PROVE  UpdateTyped' /\ PostsFit'
  <1>1. UNCHANGED <<update, download, installers>> /\ button' = [button EXCEPT !.dialog = ~button.dialog]
    BY DEF DesktopUpdate!ToggleDialog
  <1>2. /\ button' \in Buttons /\ button'.shown = button.shown /\ button'.posts = button.posts
        /\ button'.calls = button.calls
    BY <1>1 DEF UpdateTyped, Buttons
  <1> QED
    BY <1>1, <1>2 DEF UpdateTyped, Managers, PostsFit

\* What only concerns the manager stays when only the page changes.
LEMMA ManagerStays ==
    ASSUME UpdateWell, UNCHANGED <<update, download, installers>>, button' \in Buttons
    PROVE  /\ UpdateTyped' /\ DownloadFits' /\ OpenFits'
           /\ Downloads' <=> Downloads
           /\ Fresh' <=> Fresh
  BY DEF UpdateWell, UpdateTyped, Managers, DownloadFits, OpenFits, Downloads, Fresh

\* The page is told a state that was posted.
LEMMA DeliverKeeps ==
    ASSUME UpdateWell, DesktopUpdate!Deliver
    PROVE  UpdateWell'
  <1>1. button \in Buttons /\ button.posts \in Seq(UpdateStates) /\ button.posts # <<>>
           /\ UNCHANGED <<update, download, installers>>
    BY DEF UpdateWell, UpdateTyped, Managers, Buttons, DesktopUpdate!Deliver
  <1>2. PICK first, rest : first = Head(button.posts) /\ rest = Tail(button.posts)
    OBVIOUS
  <1>3. /\ Rest(button.posts, rest) /\ rest \in Seq(UpdateStates) /\ first \in UpdateStates
        /\ first = button.posts[1] /\ 1 \in 1 .. Len(button.posts)
    BY <1>1, <1>2, TailIsRest
  <1>4. button' = [button EXCEPT !.shown = first, !.posts = rest]
    BY <1>2 DEF DesktopUpdate!Deliver
  <1>5. button' \in Buttons /\ button'.shown = first /\ button'.posts = rest /\ button'.calls = button.calls
    BY <1>1, <1>3, <1>4 DEF Buttons
  <1>6. /\ UpdateTyped' /\ DownloadFits' /\ OpenFits'
        /\ Downloads' <=> Downloads
        /\ Fresh' <=> Fresh
    BY <1>1, <1>5, ManagerStays
  <1>7. PostsFit'
    BY DeliverPosts DEF UpdateWell
  <1>8. PageFits'
    <2>1. PICK downloads \in BOOLEAN, fresh \in BOOLEAN :
              /\ downloads <=> Downloads
              /\ fresh <=> Fresh
              /\ Openish(update.state) =>
                    SomethingToOpen(button.shown, button.posts, button.calls, update.installer.version, fresh)
              /\ ~Openish(update.state) => NothingToOpen(button.shown, button.posts, button.calls, downloads)
      BY PageIs DEF UpdateWell
    <2>2. CASE Openish(update.state)
      <3>1. SomethingToOpen(first, rest, button.calls, update.installer.version, fresh)
        BY <1>3, <2>1, <2>2, SomethingDelivered
      <3> QED
        BY <1>1, <1>5, <1>6, <2>1, <2>2, <3>1, SomethingNow
    <2>3. CASE ~Openish(update.state)
      <3>1. NothingToOpen(first, rest, button.calls, downloads)
        BY <1>3, <2>1, <2>3, NothingDelivered
      <3> QED
        BY <1>1, <1>5, <1>6, <2>1, <2>3, <3>1, NothingNow
    <2> QED
      BY <2>2, <2>3
  <1> QED
    BY <1>6, <1>7, <1>8 DEF UpdateWell

\* The owner clicks.
LEMMA ClickKeeps ==
    ASSUME UpdateWell, DesktopUpdate!RunPrimaryAction
    PROVE  UpdateWell'
  <1>1. /\ button \in Buttons /\ button.calls \in Seq(UpdateCalls) /\ UNCHANGED <<update, download, installers>>
        /\ button.shown # None /\ button.shown \in UpdateStates
    BY DEF UpdateWell, UpdateTyped, Managers, Buttons, DesktopUpdate!RunPrimaryAction, DesktopUpdate!Visible
  <1>2. PICK call : call = IF DesktopUpdate!Opens THEN DesktopUpdate!Call("open", button.shown.version)
                           ELSE DesktopUpdate!Call("download", None)
    OBVIOUS
  <1>3. DesktopUpdate!Opens <=> Openish(button.shown)
    BY DEF DesktopUpdate!Opens, Openish
  <1>4. /\ call \in UpdateCalls /\ (Openish(button.shown) => call.version = button.shown.version)
        /\ call.kind = IF Openish(button.shown) THEN "open" ELSE "download"
    BY <1>1, <1>2, <1>3 DEF UpdateCalls, UpdateStates, DesktopUpdate!Call
  <1>5. PICK more : more = Append(button.calls, call)
    OBVIOUS
  <1>6. Added(button.calls, more, call)
    BY <1>1, <1>4, <1>5, AppendAdds
  <1>7. button' = [button EXCEPT !.calls = more]
    BY <1>2, <1>5 DEF DesktopUpdate!RunPrimaryAction
  <1>8. button' \in Buttons /\ button'.shown = button.shown /\ button'.posts = button.posts /\ button'.calls = more
    BY <1>1, <1>6, <1>7 DEF Buttons, Added
  <1>9. /\ UpdateTyped' /\ DownloadFits' /\ OpenFits'
        /\ Downloads' <=> Downloads
        /\ Fresh' <=> Fresh
    BY <1>1, <1>8, ManagerStays
  <1>10. PostsFit'
    BY ClickPosts DEF UpdateWell
  <1>11. PageFits'
    <2>1. PICK downloads \in BOOLEAN, fresh \in BOOLEAN :
              /\ downloads <=> Downloads
              /\ fresh <=> Fresh
              /\ Openish(update.state) =>
                    SomethingToOpen(button.shown, button.posts, button.calls, update.installer.version, fresh)
              /\ ~Openish(update.state) => NothingToOpen(button.shown, button.posts, button.calls, downloads)
      BY PageIs DEF UpdateWell
    <2>2. CASE Openish(update.state)
      <3>1. SomethingToOpen(button.shown, button.posts, more, update.installer.version, fresh)
        BY <1>1, <1>4, <1>6, <2>1, <2>2, SomethingClicked
      <3> QED
        BY <1>1, <1>8, <1>9, <2>1, <2>2, <3>1, SomethingNow
    <2>3. CASE ~Openish(update.state)
      <3>1. NothingToOpen(button.shown, button.posts, more, downloads)
        BY <1>1, <1>4, <1>6, <2>1, <2>3, NothingClicked
      <3> QED
        BY <1>1, <1>8, <1>9, <2>1, <2>3, <3>1, NothingNow
    <2> QED
      BY <2>2, <2>3
  <1> QED
    BY <1>9, <1>10, <1>11 DEF UpdateWell

\* The page is loaded again.
LEMMA ReloadKeeps ==
    ASSUME UpdateWell, DesktopUpdate!Reload
    PROVE  UpdateWell'
  <1>1. button \in Buttons /\ button.calls \in Seq(UpdateCalls) /\ UNCHANGED <<update, download, installers>>
    BY DEF UpdateWell, UpdateTyped, Managers, Buttons, DesktopUpdate!Reload
  <1>2. PICK more : more = Append(DesktopUpdate!Others(button.calls), DesktopUpdate!AsksState)
    OBVIOUS
  <1>3. Reloaded(button.calls, more)
    BY <1>1, <1>2, ReloadKeepsOrder
  <1>a. PICK none \in Seq(UpdateStates) : none = <<>>
    BY EmptySeq
  <1>4. button' = [button EXCEPT !.shown = None, !.dialog = FALSE, !.posts = none, !.calls = more]
    BY <1>2, <1>a DEF DesktopUpdate!Reload
  <1>5. more \in Seq(UpdateCalls) /\ \E i \in 1 .. Len(more) : more[i] = DesktopUpdate!AsksState
    BY <1>3 DEF Reloaded
  <1>6. button' \in Buttons /\ button'.shown = None /\ button'.posts = <<>> /\ button'.calls = more
    BY <1>1, <1>a, <1>4, <1>5 DEF Buttons
  <1>7. /\ UpdateTyped' /\ DownloadFits' /\ OpenFits'
        /\ Downloads' <=> Downloads
        /\ Fresh' <=> Fresh
    BY <1>1, <1>6, ManagerStays
  <1>8. PostsFit'
    BY ReloadPosts DEF UpdateWell
  <1>9. PageFits'
    <2>1. PICK downloads \in BOOLEAN, fresh \in BOOLEAN :
              /\ downloads <=> Downloads
              /\ fresh <=> Fresh
              /\ Openish(update.state) =>
                    SomethingToOpen(button.shown, button.posts, button.calls, update.installer.version, fresh)
              /\ ~Openish(update.state) => NothingToOpen(button.shown, button.posts, button.calls, downloads)
      BY PageIs DEF UpdateWell
    <2>2. CASE Openish(update.state)
      <3>1. SomethingToOpen(None, <<>>, more, update.installer.version, fresh)
        BY <1>3, <2>1, <2>2, SomethingReloaded
      <3> QED
        BY <1>1, <1>6, <1>7, <2>1, <2>2, <3>1, SomethingNow
    <2>3. CASE ~Openish(update.state)
      <3>1. NothingToOpen(None, <<>>, more, downloads)
        BY <1>3, <2>1, <2>3, NothingReloaded
      <3> QED
        BY <1>1, <1>6, <1>7, <2>1, <2>3, <3>1, NothingNow
    <2> QED
      BY <2>2, <2>3
  <1> QED
    BY <1>7, <1>8, <1>9 DEF UpdateWell

\* The dialog is opened or closed.
LEMMA ToggleKeeps ==
    ASSUME UpdateWell, DesktopUpdate!ToggleDialog
    PROVE  UpdateWell'
  <1>1. button \in Buttons /\ UNCHANGED <<update, download, installers>>
           /\ button' = [button EXCEPT !.dialog = ~button.dialog]
    BY DEF UpdateWell, UpdateTyped, Managers, DesktopUpdate!ToggleDialog
  <1>2. button' \in Buttons /\ button'.shown = button.shown /\ button'.posts = button.posts
           /\ button'.calls = button.calls
    BY <1>1 DEF Buttons
  <1>3. /\ UpdateTyped' /\ DownloadFits' /\ OpenFits'
        /\ Downloads' <=> Downloads
        /\ Fresh' <=> Fresh
    BY <1>1, <1>2, ManagerStays
  <1>4. PostsFit'
    BY <1>1, <1>2 DEF UpdateWell, PostsFit
  <1>5. PageFits'
    BY <1>1, <1>2, <1>3 DEF UpdateWell, PageFits
  <1> QED
    BY <1>3, <1>4, <1>5 DEF UpdateWell

\* A call is refused.
LEMMA RefuseKeeps ==
    ASSUME UpdateWell, DesktopUpdate!Refuse
    PROVE  UpdateWell'
  <1>1. button \in Buttons /\ button.calls \in Seq(UpdateCalls) /\ button.calls # <<>>
           /\ UNCHANGED <<update, download, installers>>
    BY DEF UpdateWell, UpdateTyped, Managers, Buttons, DesktopUpdate!Refuse
  <1>2. PICK rest : rest = Tail(button.calls)
    OBVIOUS
  <1>3. /\ Rest(button.calls, rest) /\ rest \in Seq(UpdateCalls) /\ Head(button.calls) = button.calls[1]
        /\ 1 \in 1 .. Len(button.calls)
    BY <1>1, <1>2, TailIsRest
  <1>4. button' = [button EXCEPT !.calls = rest]
    BY <1>2 DEF DesktopUpdate!Refuse, DesktopUpdate!Answered
  <1>5. button' \in Buttons /\ button'.shown = button.shown /\ button'.posts = button.posts /\ button'.calls = rest
    BY <1>1, <1>3, <1>4 DEF Buttons
  <1>6. /\ UpdateTyped' /\ DownloadFits' /\ OpenFits'
        /\ Downloads' <=> Downloads
        /\ Fresh' <=> Fresh
    BY <1>1, <1>5, ManagerStays
  <1>7. PostsFit'
    BY RefusePosts DEF UpdateWell
  <1>8. PageFits'
    <2>1. PICK downloads \in BOOLEAN, fresh \in BOOLEAN :
              /\ downloads <=> Downloads
              /\ fresh <=> Fresh
              /\ Openish(update.state) =>
                    SomethingToOpen(button.shown, button.posts, button.calls, update.installer.version, fresh)
              /\ ~Openish(update.state) => NothingToOpen(button.shown, button.posts, button.calls, downloads)
      BY PageIs DEF UpdateWell
    <2>2. CASE Openish(update.state)
      <3>1. SomethingToOpen(button.shown, button.posts, rest, update.installer.version, fresh)
        BY <1>3, <2>1, <2>2, SomethingTaken
      <3> QED
        BY <1>1, <1>5, <1>6, <2>1, <2>2, <3>1, SomethingNow
    <2>3. CASE ~Openish(update.state)
      <3>1. NothingToOpen(button.shown, button.posts, rest, downloads)
        BY <1>3, <2>1, <2>3, NothingTaken
      <3> QED
        BY <1>1, <1>5, <1>6, <2>1, <2>3, <3>1, NothingNow
    <2> QED
      BY <2>2, <2>3
  <1> QED
    BY <1>6, <1>7, <1>8 DEF UpdateWell

-----------------------------------------------------------------------------
\* What is left of the button when a call is taken.
LEMMA CallTaken ==
    ASSUME UpdateTyped, button.calls # <<>>
    PROVE  \E rest \in Seq(UpdateCalls) :
              /\ DesktopUpdate!Answered = [button EXCEPT !.calls = rest] /\ Rest(button.calls, rest)
              /\ DesktopUpdate!Answered \in Buttons /\ DesktopUpdate!Answered.calls = rest
              /\ DesktopUpdate!Answered.shown = button.shown /\ DesktopUpdate!Answered.posts = button.posts
              /\ Head(button.calls) = button.calls[1] /\ 1 \in 1 .. Len(button.calls)
  <1>1. button \in Buttons /\ button.calls \in Seq(UpdateCalls)
    BY DEF UpdateTyped, Managers, Buttons
  <1>2. PICK rest : rest = Tail(button.calls)
    OBVIOUS
  <1>3. /\ Rest(button.calls, rest) /\ rest \in Seq(UpdateCalls) /\ Head(button.calls) = button.calls[1]
        /\ 1 \in 1 .. Len(button.calls)
    BY <1>1, <1>2, TailIsRest
  <1>4. PICK after : after = DesktopUpdate!Answered
    OBVIOUS
  <1>5. after = [button EXCEPT !.calls = rest]
    BY <1>2, <1>4 DEF DesktopUpdate!Answered
  <1>6. after \in Buttons /\ after.calls = rest /\ after.shown = button.shown /\ after.posts = button.posts
    BY <1>1, <1>3, <1>5 DEF Buttons
  <1> QED
    BY <1>3, <1>4, <1>5, <1>6

\* The page's question is answered.
LEMMA GetStateKeeps ==
    ASSUME UpdateWell, DesktopUpdate!GetState
    PROVE  UpdateWell'
  <1>1. /\ button.calls # <<>> /\ button' = DesktopUpdate!Posted(DesktopUpdate!Answered, update.state)
        /\ UNCHANGED <<update, download, installers>> /\ update.state \in UpdateStates
    BY DEF UpdateWell, UpdateTyped, Managers, DesktopUpdate!GetState, DesktopUpdate!Calls
  <1>2. PICK rest \in Seq(UpdateCalls) :
              /\ Rest(button.calls, rest)
              /\ DesktopUpdate!Answered \in Buttons /\ DesktopUpdate!Answered.calls = rest
              /\ DesktopUpdate!Answered.shown = button.shown /\ DesktopUpdate!Answered.posts = button.posts
    BY <1>1, CallTaken DEF UpdateWell
  <1>3. /\ button' \in Buttons /\ button'.shown = button.shown /\ button'.calls = rest
        /\ Extended(button.posts, button'.posts, update.state)
    BY <1>1, <1>2, PostTells
  <1>4. /\ UpdateTyped' /\ DownloadFits' /\ OpenFits'
        /\ Downloads' <=> Downloads
        /\ Fresh' <=> Fresh
    BY <1>1, <1>3, ManagerStays
  <1>5. PostsFit'
    BY <1>1, <1>3, PostFits
  <1>6. button.posts \in Seq(UpdateStates)
    BY DEF UpdateWell, UpdateTyped, Managers, Buttons
  <1>7. PICK downloads \in BOOLEAN, fresh \in BOOLEAN :
            /\ downloads <=> Downloads
            /\ fresh <=> Fresh
            /\ Openish(update.state) =>
                  SomethingToOpen(button.shown, button.posts, button.calls, update.installer.version, fresh)
            /\ ~Openish(update.state) => NothingToOpen(button.shown, button.posts, button.calls, downloads)
    BY PageIs DEF UpdateWell
  <1>8. CASE Openish(update.state)
    <2>1. SomethingToOpen(button.shown, button.posts, rest, update.installer.version, fresh)
      BY <1>2, <1>7, <1>8, SomethingTaken
    <2>2. update.state.version = update.installer.version
      BY <1>8 DEF UpdateWell, OpenFits
    <2>3. fresh \/ (CallsAre("open", rest) /\ ~SomeClosed(button.shown, button.posts))
      BY <2>1 DEF SomethingToOpen
    <2>4. SomethingToOpen(button.shown, button'.posts, rest, update.installer.version, fresh)
      BY <1>3, <1>6, <1>8, <2>1, <2>2, <2>3, SomethingPosted
    <2>5. PageFits'
      BY <1>1, <1>3, <1>4, <1>7, <1>8, <2>4, SomethingNow
    <2> QED
      BY <1>4, <1>5, <2>5 DEF UpdateWell
  <1>9. CASE ~Openish(update.state)
    <2>1. NothingToOpen(button.shown, button.posts, rest, downloads)
      BY <1>2, <1>7, <1>9, NothingTaken
    <2>2. NothingToOpen(button.shown, button'.posts, rest, downloads)
      BY <1>3, <1>6, <1>9, <2>1, NothingPosted
    <2>3. PageFits'
      BY <1>1, <1>3, <1>4, <1>7, <1>9, <2>2, NothingNow
    <2> QED
      BY <1>4, <1>5, <2>3 DEF UpdateWell
  <1> QED
    BY <1>8, <1>9

\* A download begins.
LEMMA DownloadKeeps ==
    ASSUME UpdateWell, DesktopUpdate!Download
    PROVE  UpdateWell'
  <1>1. /\ button.calls # <<>> /\ Head(button.calls).kind = "download" /\ update.release # None
        /\ update.state.status = "available" \/ DesktopUpdate!Retryable(update.state, "download")
        /\ UNCHANGED installers /\ UpdateTyped
    BY DEF UpdateWell, DesktopUpdate!Download, DesktopUpdate!Calls, DesktopUpdate!CanDownload
  <1>2. update.release \in Nat /\ update.release > Installed
    BY <1>1 DEF UpdateTyped, Managers
  <1>3. PICK state \in UpdateStates : /\ state = DesktopUpdate!State("downloading", update.release)
                                      /\ state.status = "downloading" /\ ~Openish(state)
    BY <1>2, StatesTold
  <1>4. /\ update' = [update EXCEPT !.state = state]
        /\ button' = DesktopUpdate!Posted(DesktopUpdate!Answered, state)
        /\ download' = [step |-> "checksum", version |-> update.release, body |-> "none", marked |-> FALSE]
    BY <1>3 DEF DesktopUpdate!Download
  <1>5. ~Openish(update.state) /\ update.state.status \notin {"checking", "downloaded"}
    BY <1>1 DEF Openish, DesktopUpdate!Retryable
  <1>6. ~update.checking /\ update.opening = <<>>
    BY <1>5 DEF UpdateWell, DownloadFits, OpenFits
  <1>7. PICK rest \in Seq(UpdateCalls) :
              /\ Rest(button.calls, rest)
              /\ DesktopUpdate!Answered \in Buttons /\ DesktopUpdate!Answered.calls = rest
              /\ DesktopUpdate!Answered.shown = button.shown /\ DesktopUpdate!Answered.posts = button.posts
              /\ Head(button.calls) = button.calls[1] /\ 1 \in 1 .. Len(button.calls)
    BY <1>1, CallTaken DEF UpdateWell
  <1>8. /\ button' \in Buttons /\ button'.shown = button.shown /\ button'.calls = rest
        /\ Extended(button.posts, button'.posts, state)
    BY <1>4, <1>7, PostTells
  <1>9. /\ update' \in Managers(installers)
        /\ update'.state = state /\ update'.release = update.release /\ update'.opening = update.opening
        /\ update'.checking = update.checking
    BY <1>1, <1>4 DEF UpdateTyped, Managers
  <1>10. UpdateTyped'
    BY <1>1, <1>8, <1>9 DEF UpdateTyped, Managers
  <1>11. DownloadFits'
    <2>1. /\ download' \in Loads /\ download'.step = "checksum" /\ download'.version = update.release
      BY <1>2, <1>4 DEF Loads, LoadSteps
    <2> QED
      BY <1>1, <1>3, <1>6, <1>9, <2>1 DEF DownloadFits, LoadSteps
  <1>12. OpenFits'
    BY <1>3, <1>6, <1>9 DEF OpenFits
  <1>13. PostsFit'
    BY <1>8, <1>9, PostFits
  <1>14. PageFits'
    <2>1. button.posts \in Seq(UpdateStates) /\ button.calls \in Seq(UpdateCalls)
      BY DEF UpdateWell, UpdateTyped, Managers, Buttons
    <2>2. PICK downloads \in BOOLEAN : NothingToOpen(button.shown, button.posts, button.calls, downloads)
      BY <1>5, PageIs DEF UpdateWell
    <2>3. NothingToOpen(button.shown, button.posts, button.calls, TRUE)
      BY <1>1, <1>7, <2>1, <2>2, NothingDownloads
    <2>4. NothingToOpen(button.shown, button.posts, rest, TRUE)
      BY <1>7, <2>3, NothingTaken
    <2>5. NothingToOpen(button.shown, button'.posts, rest, TRUE)
      BY <1>3, <1>8, <2>1, <2>4, NothingPosted
    <2>6. Downloads'
      BY <1>4 DEF Downloads
    <2> QED
      BY <1>3, <1>8, <1>9, <2>5, <2>6, NothingNow
  <1> QED
    BY <1>10, <1>11, <1>12, <1>13, <1>14 DEF UpdateWell

\* Only what the manager opens changes.
LEMMA OpeningKeeps ==
    ASSUME UpdateWell, UNCHANGED <<download, installers>>, Openish(update.state), NEW opened,
           opened \in Seq(Nat \cup {None}),
           \A i \in 1 .. Len(opened) : opened[i] = update.installer.version,
           update' = [update EXCEPT !.opening = opened]
    PROVE  /\ OpenFits' /\ DownloadFits' /\ update'.state = update.state /\ update'.installer = update.installer
           /\ update'.quit = update.quit /\ update'.opening = opened
           /\ button' \in Buttons => UpdateTyped'
  <1>1. UpdateTyped
    BY DEF UpdateWell
  <1>2. /\ update' \in Managers(installers)
        /\ update'.state = update.state /\ update'.release = update.release /\ update'.opening = opened
        /\ update'.checking = update.checking /\ update'.installer = update.installer /\ update'.quit = update.quit
    BY <1>1 DEF UpdateTyped, Managers
  <1>3. button' \in Buttons => UpdateTyped'
    BY <1>1, <1>2 DEF UpdateTyped, Managers
  <1>4. OpenFits'
    BY <1>2 DEF UpdateWell, OpenFits
  <1>5. ~update.checking /\ download.step = "none"
    BY DEF UpdateWell, DownloadFits, Openish, DesktopUpdate!Retryable
  <1>6. DownloadFits'
    BY <1>2, <1>5 DEF UpdateWell, DownloadFits, LoadSteps
  <1> QED
    BY <1>2, <1>3, <1>4, <1>6

\* An installer is given to the system.
LEMMA OpenKeeps ==
    ASSUME UpdateWell, DesktopUpdate!OpenInstaller
    PROVE  UpdateWell'
  <1>1. /\ button.calls # <<>> /\ Head(button.calls).kind = "open" /\ Openish(update.state)
        /\ button' = DesktopUpdate!Answered /\ UNCHANGED <<download, installers>>
    BY DEF DesktopUpdate!OpenInstaller, DesktopUpdate!Calls, DesktopUpdate!CanOpen, Openish
  <1>2. PICK rest \in Seq(UpdateCalls) :
              /\ Rest(button.calls, rest)
              /\ DesktopUpdate!Answered \in Buttons /\ DesktopUpdate!Answered.calls = rest
              /\ DesktopUpdate!Answered.shown = button.shown /\ DesktopUpdate!Answered.posts = button.posts
              /\ Head(button.calls) = button.calls[1] /\ 1 \in 1 .. Len(button.calls)
    BY <1>1, CallTaken DEF UpdateWell
  <1>3. button.calls \in Seq(UpdateCalls) /\ update.opening \in Seq(Nat \cup {None})
    BY DEF UpdateWell, UpdateTyped, Managers, Buttons
  <1>4. PICK fresh \in BOOLEAN :
           /\ fresh <=> Fresh
           /\ SomethingToOpen(button.shown, button.posts, button.calls, update.installer.version, fresh)
    BY <1>1, PageIs DEF UpdateWell
  <1>5. /\ CallsAre("open", button.calls) /\ ~SomeClosed(button.shown, button.posts)
        /\ button.calls[1].version = update.installer.version
    BY <1>1, <1>2, <1>3, <1>4, SomethingOpens
  <1>6. PICK version \in Nat \cup {None} : version = Head(button.calls).version /\ version = update.installer.version
    <2>1. button.calls[1] \in UpdateCalls
      BY <1>2, <1>3, ElementOfSeq
    <2> QED
      BY <1>2, <1>5, <2>1 DEF UpdateCalls
  <1>7. PICK opened : opened = Append(update.opening, version)
    OBVIOUS
  <1>8. PICK n \in Nat : n = Len(update.opening)
    BY <1>3, LenProperties
  <1>9. /\ opened \in Seq(Nat \cup {None}) /\ Len(opened) = n + 1 /\ opened[n + 1] = version
        /\ \A i \in 1 .. n : opened[i] = update.opening[i]
    BY <1>3, <1>7, <1>8, AppendProperties
  <1>10. \A i \in 1 .. Len(opened) : opened[i] = update.installer.version
    <2>1. \A i \in 1 .. n : update.opening[i] = update.installer.version
      BY <1>1, <1>8 DEF UpdateWell, OpenFits
    <2>2. ASSUME NEW i \in 1 .. n + 1 PROVE opened[i] = version
      BY <1>6, <1>9, <2>1
    <2> QED
      BY <1>6, <1>9, <2>2
  <1>11. update' = [update EXCEPT !.opening = opened]
    BY <1>6, <1>7 DEF DesktopUpdate!OpenInstaller
  <1>12. /\ OpenFits' /\ DownloadFits' /\ update'.state = update.state /\ update'.installer = update.installer
         /\ update'.quit = update.quit /\ UpdateTyped'
    BY <1>1, <1>2, <1>9, <1>10, <1>11, OpeningKeeps
  <1>13. PostsFit'
    <2>1. ASSUME NEW i \in 1 .. Len(button.calls), button.calls[i] = DesktopUpdate!AsksState
          PROVE  \E j \in 1 .. Len(rest) : rest[j] = DesktopUpdate!AsksState
      <3>1. i # 1
        BY <1>1, <1>2, <2>1 DEF DesktopUpdate!AsksState, DesktopUpdate!Call
      <3>2. i - 1 \in 1 .. Len(rest) /\ (i - 1) + 1 = i
        BY <1>2, <3>1 DEF Rest
      <3>3. rest[i - 1] = button.calls[i]
        BY <1>2, <3>2 DEF Rest
      <3> QED
        BY <2>1, <3>2, <3>3
    <2> QED
      BY <1>1, <1>2, <1>12, <2>1 DEF UpdateWell, PostsFit
  <1>14. PageFits'
    <2>1. PICK after \in BOOLEAN : after <=> Fresh'
      OBVIOUS
    <2>2. SomethingToOpen(button.shown, button.posts, button.calls, update.installer.version, after)
      BY <1>4, <1>5, SomethingAges
    <2>3. SomethingToOpen(button.shown, button.posts, rest, update.installer.version, after)
      BY <1>2, <2>2, SomethingTaken
    <2> QED
      BY <1>1, <1>2, <1>12, <2>1, <2>3, SomethingNow
  <1> QED
    BY <1>12, <1>13, <1>14 DEF UpdateWell

\* The system has opened an installer, or has not.
LEMMA OpenedKeeps ==
    ASSUME UpdateWell, DesktopUpdate!Opened \/ DesktopUpdate!OpenFails
    PROVE  UpdateWell'
  <1>1. update.opening # <<>> /\ UNCHANGED <<download, installers>> /\ UpdateTyped
    BY DEF UpdateWell, DesktopUpdate!Opened, DesktopUpdate!OpenFails
  <1>2. /\ Openish(update.state) /\ button \in Buttons /\ update.opening \in Seq(Nat \cup {None})
        /\ update.release \in Nat /\ update.release # None /\ update.release = update.installer.version
    BY <1>1 DEF UpdateWell, OpenFits, UpdateTyped, Managers
  <1>3. PICK opened : opened = Tail(update.opening)
    OBVIOUS
  <1>4. Rest(update.opening, opened) /\ opened \in Seq(Nat \cup {None})
    BY <1>1, <1>2, <1>3, TailIsRest
  <1>5. \A i \in 1 .. Len(opened) : opened[i] = update.installer.version
    BY <1>2, <1>4 DEF Rest, UpdateWell, OpenFits
  <1>6. PICK fresh \in BOOLEAN :
           /\ fresh <=> Fresh
           /\ SomethingToOpen(button.shown, button.posts, button.calls, update.installer.version, fresh)
    BY <1>2, PageIs DEF UpdateWell
  <1>7. ~fresh
    BY <1>1, <1>6 DEF Fresh
  <1>8. CallsAre("open", button.calls) /\ ~SomeClosed(button.shown, button.posts)
    BY <1>6, <1>7 DEF SomethingToOpen
  <1>9. CASE DesktopUpdate!Opened
    <2>1. update' = [update EXCEPT !.opening = opened] /\ UNCHANGED button
      BY <1>3, <1>9 DEF DesktopUpdate!Opened
    <2>2. /\ OpenFits' /\ DownloadFits' /\ update'.state = update.state /\ update'.installer = update.installer
          /\ update'.quit = update.quit /\ UpdateTyped'
      BY <1>1, <1>2, <1>4, <1>5, <2>1, OpeningKeeps
    <2>3. PostsFit'
      BY <2>1, <2>2 DEF UpdateWell, PostsFit
    <2>4. PICK after \in BOOLEAN : after <=> Fresh'
      OBVIOUS
    <2>5. SomethingToOpen(button.shown, button.posts, button.calls, update.installer.version, after)
      BY <1>6, <1>8, SomethingAges
    <2>6. PageFits'
      BY <1>2, <2>1, <2>2, <2>4, <2>5, SomethingNow
    <2> QED
      BY <2>2, <2>3, <2>6 DEF UpdateWell
  <1>10. CASE DesktopUpdate!OpenFails
    <2>1. PICK state \in UpdateStates : /\ state = DesktopUpdate!Error("open", update.release)
                                        /\ state.status = "error" /\ state.version = update.release /\ Openish(state)
      BY <1>2, StatesTold
    <2>2. DesktopUpdate!Publish([update EXCEPT !.opening = opened], state)
      BY <1>2, <1>3, <1>10, <2>1 DEF DesktopUpdate!OpenFails, DesktopUpdate!Tell
    <2>3. /\ update' = [[update EXCEPT !.opening = opened] EXCEPT !.state = state]
          /\ button' \in Buttons /\ button'.shown = button.shown /\ button'.calls = button.calls
          /\ Extended(button.posts, button'.posts, state) /\ button.posts \in Seq(UpdateStates)
      BY <2>1, <2>2, PublishTells
    <2>4. /\ update' \in Managers(installers)
          /\ update'.state = state /\ update'.release = update.release /\ update'.opening = opened
          /\ update'.checking = update.checking /\ update'.installer = update.installer
      BY <1>1, <1>4, <2>3 DEF UpdateTyped, Managers
    <2>5. UpdateTyped'
      BY <1>1, <2>3, <2>4 DEF UpdateTyped, Managers
    <2>6. ~update.checking /\ download.step = "none"
      BY <1>2 DEF UpdateWell, DownloadFits, Openish, DesktopUpdate!Retryable
    <2>7. DownloadFits'
      BY <1>1, <2>4, <2>6 DEF UpdateWell, DownloadFits, LoadSteps
    <2>8. OpenFits'
      BY <1>1, <1>2, <1>5, <2>1, <2>4 DEF UpdateWell, OpenFits
    <2>9. PostsFit'
      BY <2>3, <2>4, PostFits
    <2>10. PICK after \in BOOLEAN : after <=> Fresh'
      OBVIOUS
    <2>11. SomethingToOpen(button.shown, button'.posts, button.calls, update.installer.version, after)
      BY <1>2, <1>6, <1>8, <2>1, <2>3, SomethingPosted
    <2>12. PageFits'
      BY <2>1, <2>3, <2>4, <2>10, <2>11, SomethingNow
    <2> QED
      BY <2>5, <2>7, <2>8, <2>9, <2>12 DEF UpdateWell
  <1> QED
    BY <1>9, <1>10

\* The manager is stopped.
LEMMA StopKeeps ==
    ASSUME UpdateWell, DesktopUpdate!Stop
    PROVE  UpdateWell'
  <1>1. update' = [update EXCEPT !.quit = TRUE] /\ UNCHANGED <<download, installers, button>> /\ UpdateTyped
    BY DEF UpdateWell, DesktopUpdate!Stop
  <1>2. /\ update' \in Managers(installers)
        /\ update'.state = update.state /\ update'.release = update.release /\ update'.opening = update.opening
        /\ update'.checking = update.checking /\ update'.installer = update.installer /\ update'.quit
    BY <1>1 DEF UpdateTyped, Managers
  <1>3. UpdateTyped'
    BY <1>1, <1>2 DEF UpdateTyped, Managers
  <1>4. DownloadFits'
    BY <1>1, <1>2 DEF UpdateWell, DownloadFits
  <1>5. OpenFits'
    BY <1>1, <1>2 DEF UpdateWell, OpenFits
  <1>6. PostsFit'
    BY <1>1, <1>2 DEF UpdateWell, PostsFit
  <1>7. PageFits'
    <2>1. /\ Downloads' <=> Downloads
          /\ Fresh' <=> Fresh
      BY <1>1, <1>2 DEF Downloads, Fresh
    <2> QED
      BY <1>1, <1>2, <2>1 DEF UpdateWell, PageFits
  <1> QED
    BY <1>3, <1>4, <1>5, <1>6, <1>7 DEF UpdateWell

\* Every step of an update keeps it, but those of openings that a check overtook.
LEMMA UpdatesKeep ==
    ASSUME UpdateWell, DesktopUpdate!Next \/ UNCHANGED updates,
           ~DesktopUpdate!OvertakenOpened, ~DesktopUpdate!OvertakenFails
    PROVE  UpdateWell'
  <1>1. CASE UNCHANGED updates
    <2>1. UNCHANGED <<update, download, installers, button>>
      BY <1>1 DEF updates
    <2>2. UpdateTyped' /\ DownloadFits' /\ OpenFits'
      BY <2>1 DEF UpdateWell, UpdateTyped, Managers, DownloadFits, OpenFits
    <2>3. PostsFit'
      BY <2>1 DEF UpdateWell, PostsFit
    <2>4. PageFits'
      BY <2>1 DEF UpdateWell, PageFits, Downloads, Fresh
    <2> QED
      BY <2>2, <2>3, <2>4 DEF UpdateWell
  <1>2. CASE DesktopUpdate!Check
    BY <1>2, CheckKeeps
  <1>3. CASE DesktopUpdate!Checked \/ DesktopUpdate!CheckFails
    BY <1>3, CheckedKeeps
  <1>4. CASE DesktopUpdate!Reload
    BY <1>4, ReloadKeeps
  <1>5. CASE DesktopUpdate!Deliver
    BY <1>5, DeliverKeeps
  <1>6. CASE DesktopUpdate!ToggleDialog
    BY <1>6, ToggleKeeps
  <1>7. CASE DesktopUpdate!RunPrimaryAction
    BY <1>7, ClickKeeps
  <1>8. CASE DesktopUpdate!GetState
    BY <1>8, GetStateKeeps
  <1>9. CASE DesktopUpdate!Download
    BY <1>9, DownloadKeeps
  <1>10. CASE DesktopUpdate!FetchChecksum \/ DesktopUpdate!Verify \/ DesktopUpdate!MarkQuarantined
    BY <1>10, LoadUnseen
  <1>11. CASE DesktopUpdate!Progress \/ DesktopUpdate!LinkWithoutOverwrite
    BY <1>11, LoadGoes
  <1>12. CASE DesktopUpdate!Downloaded
    BY <1>12, DownloadedKeeps
  <1>13. CASE DesktopUpdate!DownloadFails
    BY <1>13, DownloadFailsKeeps
  <1>14. CASE DesktopUpdate!OpenInstaller
    BY <1>14, OpenKeeps
  <1>15. CASE DesktopUpdate!Opened \/ DesktopUpdate!OpenFails
    BY <1>15, OpenedKeeps
  <1>16. CASE DesktopUpdate!Refuse
    BY <1>16, RefuseKeeps
  <1>17. CASE DesktopUpdate!Stop
    BY <1>17, StopKeeps
  <1> QED
    BY <1>1, <1>2, <1>3, <1>4, <1>5, <1>6, <1>7, <1>8, <1>9, <1>10, <1>11, <1>12, <1>13, <1>14, <1>15, <1>16, <1>17
    DEF DesktopUpdate!Next

-----------------------------------------------------------------------------
\* What is so at the start.
LEMMA UpdatesBegin ==
    ASSUME DesktopUpdate!Init
    PROVE  UpdateInv
  <1>1. UpdateWell
    BY UpdatesStart
  <1>2. update.installer = None /\ download.step = "none"
    BY DEF DesktopUpdate!Init, DesktopUpdate!NoDownload
  <1> QED
    BY <1>1, <1>2 DEF UpdateInv, UpdateSound, UpdateWell, InstallerFits, LoadFits, LoadSteps

\* What the manager becomes fits, whether or not it publishes a state.
Tells(manager) ==
    \/ update' = manager /\ UNCHANGED button /\ manager.state = update.state /\ (update.quit => manager.quit)
    \/ \E state \in UpdateStates : DesktopUpdate!Publish(manager, state)
LEMMA ToldFits ==
    ASSUME UpdateTyped, PostsFit, NEW manager \in Managers(installers'), Tells(manager),
           manager.release # None => manager.release > Installed
    PROVE  UpdateTyped' /\ PostsFit' /\ update'.installer = manager.installer /\ update'.misled = manager.misled
  <1>1. button \in Buttons
    BY DEF UpdateTyped
  <1>2. CASE update' = manager /\ UNCHANGED button /\ manager.state = update.state /\ (update.quit => manager.quit)
    BY <1>1, <1>2 DEF UpdateTyped, PostsFit
  <1>3. ASSUME NEW state \in UpdateStates, DesktopUpdate!Publish(manager, state)
        PROVE  UpdateTyped' /\ PostsFit' /\ update'.installer = manager.installer /\ update'.misled = manager.misled
    <2>1. /\ update' = [manager EXCEPT !.state = state]
          /\ button' = DesktopUpdate!Posted(button, state)
      BY <1>3 DEF DesktopUpdate!Publish
    <2>2. button' \in Buttons /\ Extended(button.posts, button'.posts, state)
      BY <1>1, <2>1, PostTells
    <2>3. /\ update' \in Managers(installers') /\ update'.state = state /\ update'.release = manager.release
          /\ update'.installer = manager.installer /\ update'.misled = manager.misled
      BY <1>3, <2>1 DEF Managers
    <2>4. PostsFit'
      BY <2>2, <2>3, PostFits
    <2> QED
      BY <2>2, <2>3, <2>4 DEF UpdateTyped
  <1> QED
    BY <1>2, <1>3 DEF Tells

\* So it is of what names the release.
LEMMA TellTells ==
    ASSUME NEW manager, NEW state \in UpdateStates, DesktopUpdate!Tell(manager, state),
           manager.state = update.state, manager.quit = update.quit
    PROVE  Tells(manager)
  BY DEF DesktopUpdate!Tell, Tells

\* What a step of the manager keeps, with what it makes of a download.
LEMMA ManagerSound ==
    ASSUME UpdateSound, NEW manager \in Managers(installers'), Tells(manager),
           manager.release # None => manager.release > Installed,
           manager.installer # None => Verified(manager.installer)', LoadFits'
    PROVE  UpdateSound' /\ update'.misled = manager.misled
  <1>1. UpdateTyped' /\ PostsFit' /\ update'.installer = manager.installer /\ update'.misled = manager.misled
    BY ToldFits DEF UpdateSound
  <1>2. InstallerFits'
    BY <1>1 DEF InstallerFits, Verified
  <1> QED
    BY <1>1, <1>2 DEF UpdateSound

\* A step that leaves the download and the files alone.
LEMMA FilesStay ==
    ASSUME UpdateSound, UNCHANGED <<download, installers>>, NEW manager \in Managers(installers), Tells(manager),
           manager.release # None => manager.release > Installed, manager.installer = update.installer
    PROVE  UpdateSound' /\ update'.misled = manager.misled
  <1>1. LoadFits' /\ (manager.installer # None => Verified(manager.installer)') /\ manager \in Managers(installers')
    BY DEF UpdateSound, InstallerFits, LoadFits, Verified
  <1> QED
    BY <1>1, ManagerSound

\* Checks.
LEMMA CheckSound ==
    ASSUME UpdateSound, DesktopUpdate!Check \/ DesktopUpdate!Checked \/ DesktopUpdate!CheckFails
    PROVE  UpdateSound' /\ update'.misled = update.misled
  <1>1. /\ update \in Managers(installers) /\ (update.release # None => update.release > Installed)
        /\ UNCHANGED <<download, installers>>
    BY DEF UpdateSound, UpdateTyped, DesktopUpdate!Check, DesktopUpdate!Checked, DesktopUpdate!CheckFails
  <1>2. ASSUME NEW manager \in Managers(installers), NEW state \in UpdateStates,
               DesktopUpdate!Publish(manager, state), manager.release # None => manager.release > Installed,
               manager.installer = update.installer, manager.misled = update.misled
        PROVE  UpdateSound' /\ update'.misled = update.misled
    <2>1. Tells(manager)
      BY <1>2 DEF Tells
    <2> QED
      BY <1>1, <1>2, <2>1, FilesStay
  <1>3. CASE DesktopUpdate!Check
    <2>1. PICK checks, none, overtaken :
             checks = update.checks + 1 /\ none = <<>> /\ overtaken = update.overtaken + Len(update.opening)
      OBVIOUS
    <2>2. PICK manager : manager = [update EXCEPT !.checking = TRUE, !.checks = checks,
                                                  !.opening = none, !.overtaken = overtaken]
      OBVIOUS
    <2>3. update.checks \in Nat /\ update.overtaken \in Nat /\ update.opening \in Seq(Nat \cup {None})
      BY <1>1 DEF Managers
    <2>4. Len(update.opening) \in Nat
      BY <2>3, LenProperties
    <2>5. checks \in Nat /\ none \in Seq(Nat \cup {None}) /\ overtaken \in Nat
      BY <2>1, <2>3, <2>4
    <2>6. /\ manager \in Managers(installers) /\ manager.release = update.release
          /\ manager.installer = update.installer /\ manager.misled = update.misled
      BY <1>1, <2>2, <2>5 DEF Managers
    <2>7. DesktopUpdate!Publish(manager, DesktopUpdate!State("checking", None))
      BY <1>3, <2>1, <2>2 DEF DesktopUpdate!Check
    <2>8. DesktopUpdate!State("checking", None) \in UpdateStates
      BY StatesTold
    <2> QED
      BY <1>1, <1>2, <2>6, <2>7, <2>8
  <1>4. CASE DesktopUpdate!Checked
    <2>1. PICK payload, release :
             /\ payload \in DesktopUpdate!Payloads
             /\ release = IF DesktopUpdate!Newer(payload.version) THEN payload.version ELSE None
             /\ DesktopUpdate!Publish([update EXCEPT !.checking = FALSE, !.release = release],
                                      DesktopUpdate!State(IF release = None THEN "idle" ELSE "available", release))
      BY <1>4 DEF DesktopUpdate!Checked
    <2>2. payload.version \in Nat
      BY <2>1 DEF DesktopUpdate!Payloads
    <2>3. release \in Nat \cup {None} /\ (release # None => release > Installed)
      BY <2>1, <2>2 DEF DesktopUpdate!Newer
    <2>4. PICK manager : manager = [update EXCEPT !.checking = FALSE, !.release = release]
      OBVIOUS
    <2>5. /\ manager \in Managers(installers) /\ manager.release = release
          /\ manager.installer = update.installer /\ manager.misled = update.misled
      BY <1>1, <2>3, <2>4 DEF Managers
    <2>6. PICK status \in {"idle", "available"} : status = IF release = None THEN "idle" ELSE "available"
      OBVIOUS
    <2>7. DesktopUpdate!State(status, release) \in UpdateStates
      BY <2>3, <2>6, StatesTold
    <2> QED
      BY <1>2, <2>1, <2>3, <2>4, <2>5, <2>6, <2>7
  <1>5. CASE DesktopUpdate!CheckFails
    <2>1. PICK manager : manager = [update EXCEPT !.checking = FALSE]
      OBVIOUS
    <2>2. /\ manager \in Managers(installers) /\ manager.release = update.release
          /\ manager.installer = update.installer /\ manager.misled = update.misled
      BY <1>1, <2>1 DEF Managers
    <2>3. DesktopUpdate!Publish(manager, DesktopUpdate!Error("check", None))
      BY <1>5, <2>1 DEF DesktopUpdate!CheckFails
    <2>4. DesktopUpdate!Error("check", None) \in UpdateStates
      BY StatesTold
    <2> QED
      BY <1>1, <1>2, <2>2, <2>3, <2>4
  <1> QED
    BY <1>3, <1>4, <1>5

\* Openings end, as they should or late.
LEMMA OpeningSound ==
    ASSUME UpdateSound, \/ DesktopUpdate!Opened \/ DesktopUpdate!OpenFails
                        \/ DesktopUpdate!OvertakenOpened \/ DesktopUpdate!OvertakenFails
    PROVE  /\ UpdateSound'
           /\ update'.misled = update.misled \/ (DesktopUpdate!OvertakenFails /\ update'.misled)
  <1>1. /\ update \in Managers(installers) /\ (update.release # None => update.release > Installed)
        /\ UNCHANGED <<download, installers>>
    BY DEF UpdateSound, UpdateTyped, DesktopUpdate!Opened, DesktopUpdate!OpenFails,
           DesktopUpdate!OvertakenOpened, DesktopUpdate!OvertakenFails
  <1>2. PICK error \in UpdateStates : error = DesktopUpdate!Error("open", update.release)
    <2>1. update.release \in Nat \cup {None}
      BY <1>1 DEF Managers
    <2> QED
      BY <2>1, StatesTold
  <1>3. ASSUME NEW opened \in Seq(Nat \cup {None}), NEW overtaken \in Nat, NEW misled \in BOOLEAN, NEW manager,
               manager = [update EXCEPT !.opening = opened, !.overtaken = overtaken, !.misled = misled],
               \/ update' = manager /\ UNCHANGED button
               \/ DesktopUpdate!Tell(manager, error)
        PROVE  UpdateSound' /\ update'.misled = misled
    <2>1. /\ manager \in Managers(installers) /\ manager.release = update.release /\ manager.misled = misled
          /\ manager.installer = update.installer /\ manager.state = update.state /\ manager.quit = update.quit
      BY <1>1, <1>3 DEF Managers
    <2>2. Tells(manager)
      <3>1. CASE update' = manager /\ UNCHANGED button
        BY <2>1, <3>1 DEF Tells
      <3>2. CASE DesktopUpdate!Tell(manager, error)
        BY <2>1, <3>2, TellTells
      <3> QED
        BY <1>3, <3>1, <3>2
    <2> QED
      BY <1>1, <2>1, <2>2, FilesStay
  <1>4. update.opening \in Seq(Nat \cup {None}) /\ update.overtaken \in Nat /\ update.misled \in BOOLEAN
    BY <1>1 DEF Managers
  <1>5. ASSUME update.opening # <<>>, NEW manager, manager = [update EXCEPT !.opening = Tail(update.opening)],
               \/ update' = manager /\ UNCHANGED button
               \/ DesktopUpdate!Tell(manager, error)
        PROVE  UpdateSound' /\ update'.misled = update.misled
    <2>1. PICK opened : opened = Tail(update.opening)
      OBVIOUS
    <2>2. opened \in Seq(Nat \cup {None})
      BY <1>4, <1>5, <2>1, TailIsRest
    <2>3. manager = [update EXCEPT !.opening = opened, !.overtaken = update.overtaken, !.misled = update.misled]
      BY <1>1, <1>5, <2>1 DEF Managers
    <2> QED
      BY <1>3, <1>4, <1>5, <2>2, <2>3
  <1>6. CASE DesktopUpdate!Opened
    BY <1>5, <1>6 DEF DesktopUpdate!Opened
  <1>7. CASE DesktopUpdate!OpenFails
    BY <1>2, <1>5, <1>7 DEF DesktopUpdate!OpenFails
  <1>8. CASE DesktopUpdate!OvertakenOpened
    <2>1. PICK overtaken \in Nat : overtaken = update.overtaken - 1
      BY <1>4, <1>8 DEF DesktopUpdate!OvertakenOpened
    <2>2. PICK manager : manager = [update EXCEPT !.overtaken = overtaken]
      OBVIOUS
    <2>3. manager = [update EXCEPT !.opening = update.opening, !.overtaken = overtaken, !.misled = update.misled]
      BY <1>1, <2>2 DEF Managers
    <2>4. update' = manager /\ UNCHANGED button
      BY <1>8, <2>1, <2>2 DEF DesktopUpdate!OvertakenOpened
    <2> QED
      BY <1>3, <1>4, <2>3, <2>4
  <1>9. CASE DesktopUpdate!OvertakenFails
    <2>1. PICK overtaken \in Nat : overtaken = update.overtaken - 1
      BY <1>4, <1>9 DEF DesktopUpdate!OvertakenFails
    <2>2. PICK misled \in BOOLEAN : misled <=> update.misled \/ update.release # None
      OBVIOUS
    <2>a. misled = (update.misled \/ update.release # None)
      BY <2>2
    <2>3. PICK manager : manager = [update EXCEPT !.overtaken = overtaken, !.misled = misled]
      OBVIOUS
    <2>4. manager = [update EXCEPT !.opening = update.opening, !.overtaken = overtaken, !.misled = misled]
      BY <1>1, <2>3 DEF Managers
    <2>5. DesktopUpdate!Tell(manager, error)
      BY <1>2, <1>9, <2>1, <2>a, <2>3 DEF DesktopUpdate!OvertakenFails
    <2>6. UpdateSound' /\ update'.misled = misled
      BY <1>3, <1>4, <2>4, <2>5
    <2> QED
      BY <1>4, <1>9, <2>2, <2>6
  <1> QED
    BY <1>6, <1>7, <1>8, <1>9

\* The steps of a download that the manager and the page see, and its end.
LEMMA LoadSound ==
    ASSUME UpdateSound, \/ DesktopUpdate!Progress \/ DesktopUpdate!LinkWithoutOverwrite
                        \/ DesktopUpdate!Downloaded \/ DesktopUpdate!DownloadFails
    PROVE  UpdateSound' /\ update'.misled = update.misled
  <1>1. /\ update \in Managers(installers) /\ (update.release # None => update.release > Installed)
        /\ InstallerFits /\ LoadFits
    BY DEF UpdateSound, UpdateTyped
  <1>2. PICK loading \in UpdateStates, loaded \in UpdateStates, error \in UpdateStates :
           /\ loading = DesktopUpdate!State("downloading", update.release)
           /\ loaded = DesktopUpdate!State("downloaded", update.release)
           /\ error = DesktopUpdate!Error("download", update.release)
    <2>1. update.release \in Nat \cup {None}
      BY <1>1 DEF Managers
    <2> QED
      BY <2>1, StatesTold
  <1>3. ASSUME installers \subseteq installers', NEW state \in UpdateStates, DesktopUpdate!Tell(update, state), LoadFits'
        PROVE  UpdateSound' /\ update'.misled = update.misled
    <2>1. Tells(update)
      BY <1>3, TellTells
    <2>2. PICK manager : manager = update
      OBVIOUS
    <2>3. manager \in Managers(installers') /\ (manager.installer # None => Verified(manager.installer)')
      BY <1>1, <1>3, <2>2 DEF Managers, InstallerFits, Verified
    <2>4. Tells(manager)
      BY <2>1, <2>2
    <2> QED
      BY <1>1, <1>3, <2>2, <2>3, <2>4, ManagerSound
  <1>4. CASE DesktopUpdate!Progress
    <2>1. PICK body \in {"part", "whole", "other", "longer"} : download' = [download EXCEPT !.body = body]
      BY <1>4 DEF DesktopUpdate!Progress
    <2>2. download.step = "fetch" /\ download \in Loads /\ download.version > Installed /\ UNCHANGED installers
      BY <1>1, <1>4 DEF LoadFits, LoadSteps, DesktopUpdate!Progress
    <2>3. download' \in Loads /\ download'.step = "fetch" /\ download'.version = download.version
      BY <2>1, <2>2 DEF Loads
    <2>4. LoadFits'
      BY <2>2, <2>3 DEF LoadFits, LoadSteps
    <2>5. DesktopUpdate!Tell(update, loading)
      BY <1>2, <1>4 DEF DesktopUpdate!Progress, DesktopUpdate!Tell
    <2> QED
      BY <1>3, <2>2, <2>4, <2>5
  <1>5. CASE DesktopUpdate!LinkWithoutOverwrite
    <2>1. /\ download.step = "link" /\ download \in Loads /\ download.version > Installed
          /\ download.body = "whole" /\ download.marked
      BY <1>1, <1>5 DEF LoadFits, LoadSteps, DesktopUpdate!LinkWithoutOverwrite
    <2>2. PICK copy, file :
             /\ file = [version |-> download.version, body |-> download.body, marked |-> download.marked, copy |-> copy]
             /\ installers' = installers \cup {file}
             /\ download' = IF update.release = None THEN DesktopUpdate!NoDownload
                            ELSE [step |-> "done", version |-> download.version, file |-> file]
      BY <1>5 DEF DesktopUpdate!LinkWithoutOverwrite
    <2>3. Verified(file)'
      BY <2>1, <2>2 DEF Verified
    <2>4. LoadFits'
      <3>1. CASE update.release = None
        <4>1. download'.step = "none"
          BY <2>2, <3>1 DEF DesktopUpdate!NoDownload
        <4> QED
          BY <4>1 DEF LoadFits, LoadSteps
      <3>2. CASE update.release # None
        <4>1. download'.step = "done" /\ download'.file = file
          BY <2>2, <3>2
        <4> QED
          BY <2>3, <4>1 DEF LoadFits, LoadSteps, Verified
      <3> QED
        BY <3>1, <3>2
    <2>5. DesktopUpdate!Tell(update, loading)
      BY <1>2, <1>5 DEF DesktopUpdate!LinkWithoutOverwrite
    <2> QED
      BY <1>3, <2>2, <2>4, <2>5
  <1>6. CASE DesktopUpdate!Downloaded
    <2>1. PICK file : file = download.file
      OBVIOUS
    <2>2. Verified(file) /\ UNCHANGED installers /\ download'.step = "none"
      BY <1>1, <1>6, <2>1 DEF LoadFits, DesktopUpdate!Downloaded, DesktopUpdate!NoDownload
    <2>3. PICK manager : manager = [update EXCEPT !.installer = file]
      OBVIOUS
    <2>4. /\ manager \in Managers(installers') /\ manager.release = update.release /\ manager.misled = update.misled
          /\ manager.installer = file /\ manager.state = update.state /\ manager.quit = update.quit
      BY <1>1, <2>2, <2>3 DEF Managers, Verified
    <2>5. LoadFits' /\ Verified(file)'
      BY <2>2 DEF LoadFits, LoadSteps, Verified
    <2>6. DesktopUpdate!Tell(manager, loaded)
      BY <1>2, <1>6, <2>1, <2>3 DEF DesktopUpdate!Downloaded
    <2>7. Tells(manager)
      BY <2>4, <2>6, TellTells
    <2> QED
      BY <1>1, <2>4, <2>5, <2>7, ManagerSound
  <1>7. CASE DesktopUpdate!DownloadFails
    <2>1. UNCHANGED installers /\ download'.step = "none" /\ DesktopUpdate!Tell(update, error)
      BY <1>2, <1>7 DEF DesktopUpdate!DownloadFails, DesktopUpdate!NoDownload
    <2>2. LoadFits'
      BY <2>1 DEF LoadFits, LoadSteps
    <2> QED
      BY <1>3, <2>1, <2>2
  <1> QED
    BY <1>4, <1>5, <1>6, <1>7

\* The steps of a download that nobody sees.
LEMMA UnseenSound ==
    ASSUME UpdateSound, DesktopUpdate!FetchChecksum \/ DesktopUpdate!Verify \/ DesktopUpdate!MarkQuarantined
    PROVE  UpdateSound' /\ update'.misled = update.misled
  <1>1. /\ UNCHANGED <<update, installers, button>> /\ download \in Loads /\ download.version > Installed
        /\ download.step \in {"checksum", "fetch", "mark"} /\ LoadFits
    BY DEF UpdateSound, LoadFits, LoadSteps,
           DesktopUpdate!FetchChecksum, DesktopUpdate!Verify, DesktopUpdate!MarkQuarantined
  <1>2. /\ download' \in Loads /\ download'.version = download.version
        /\ download'.step \in {"mark", "link"} => download'.body = "whole"
        /\ download'.step = "link" => download'.marked
    <2>1. CASE DesktopUpdate!FetchChecksum
      BY <1>1, <2>1 DEF Loads, LoadSteps, DesktopUpdate!FetchChecksum
    <2>2. CASE DesktopUpdate!Verify
      BY <1>1, <2>2 DEF Loads, LoadSteps, DesktopUpdate!Verify, DesktopUpdate!DigestMatches
    <2>3. CASE DesktopUpdate!MarkQuarantined
      <3>1. download.body = "whole" /\ download' = [download EXCEPT !.step = "link", !.marked = TRUE]
        BY <1>1, <2>3 DEF LoadFits, DesktopUpdate!MarkQuarantined
      <3> QED
        BY <1>1, <3>1 DEF Loads, LoadSteps
    <2> QED
      BY <2>1, <2>2, <2>3
  <1>3. download'.step \in LoadSteps /\ download'.step # "none" /\ download'.step # "done"
    BY <1>2 DEF Loads, LoadSteps
  <1>4. LoadFits'
    BY <1>1, <1>2, <1>3 DEF LoadFits
  <1>5. UpdateTyped' /\ PostsFit' /\ InstallerFits'
    BY <1>1 DEF UpdateSound, UpdateTyped, PostsFit, InstallerFits, Verified
  <1> QED
    BY <1>1, <1>4, <1>5 DEF UpdateSound

\* The calls that the manager takes: for the state, for a download and for an opening.
LEMMA CallSound ==
    ASSUME UpdateSound, DesktopUpdate!GetState \/ DesktopUpdate!Download \/ DesktopUpdate!OpenInstaller
    PROVE  UpdateSound' /\ update'.misled = update.misled
  <1>1. /\ UpdateTyped /\ PostsFit /\ InstallerFits /\ LoadFits /\ button.calls # <<>> /\ UNCHANGED installers
        /\ update \in Managers(installers)
    BY DEF UpdateSound, UpdateTyped, DesktopUpdate!GetState, DesktopUpdate!Download, DesktopUpdate!OpenInstaller,
           DesktopUpdate!Calls
  <1>2. PICK rest \in Seq(UpdateCalls) :
              /\ Rest(button.calls, rest)
              /\ DesktopUpdate!Answered \in Buttons /\ DesktopUpdate!Answered.calls = rest
              /\ DesktopUpdate!Answered.shown = button.shown /\ DesktopUpdate!Answered.posts = button.posts
              /\ Head(button.calls) = button.calls[1] /\ 1 \in 1 .. Len(button.calls)
    BY <1>1, CallTaken
  <1>3. CASE DesktopUpdate!GetState
    <2>1. UNCHANGED <<update, download>> /\ button' = DesktopUpdate!Posted(DesktopUpdate!Answered, update.state)
      BY <1>3 DEF DesktopUpdate!GetState
    <2>2. update.state \in UpdateStates
      BY <1>1 DEF Managers
    <2>3. button' \in Buttons /\ Extended(button.posts, button'.posts, update'.state)
      BY <1>2, <2>1, <2>2, PostTells
    <2>4. PostsFit'
      BY <2>3, PostFits
    <2> QED
      BY <1>1, <2>1, <2>3, <2>4 DEF UpdateSound, UpdateTyped, InstallerFits, LoadFits, Verified
  <1>4. CASE DesktopUpdate!Download
    <2>1. update.release \in Nat /\ update.release > Installed
      BY <1>1, <1>4 DEF UpdateTyped, Managers, DesktopUpdate!Download, DesktopUpdate!CanDownload
    <2>2. PICK state \in UpdateStates : state = DesktopUpdate!State("downloading", update.release)
      BY <2>1, StatesTold
    <2>3. /\ update' = [update EXCEPT !.state = state]
          /\ button' = DesktopUpdate!Posted(DesktopUpdate!Answered, state)
          /\ download' = [step |-> "checksum", version |-> update.release, body |-> "none", marked |-> FALSE]
      BY <1>4, <2>2 DEF DesktopUpdate!Download
    <2>4. /\ update' \in Managers(installers) /\ update'.state = state /\ update'.release = update.release
          /\ update'.installer = update.installer /\ update'.misled = update.misled
      BY <1>1, <2>3 DEF Managers
    <2>5. button' \in Buttons /\ Extended(button.posts, button'.posts, update'.state)
      BY <1>2, <2>3, <2>4, PostTells
    <2>6. PostsFit'
      BY <2>5, PostFits
    <2>7. LoadFits'
      <3>1. download' \in Loads /\ download'.step = "checksum" /\ download'.version = update.release
        BY <2>1, <2>3 DEF Loads, LoadSteps
      <3> QED
        BY <2>1, <3>1 DEF LoadFits, LoadSteps
    <2>8. UpdateTyped' /\ InstallerFits'
      BY <1>1, <2>4, <2>5 DEF UpdateTyped, InstallerFits, Verified
    <2> QED
      BY <2>4, <2>6, <2>7, <2>8 DEF UpdateSound
  <1>5. CASE DesktopUpdate!OpenInstaller
    <2>1. /\ Head(button.calls).kind = "open" /\ UNCHANGED download /\ button' = DesktopUpdate!Answered
          /\ update' = [update EXCEPT !.opening = Append(update.opening, Head(button.calls).version)]
      BY <1>5 DEF DesktopUpdate!OpenInstaller, DesktopUpdate!Calls
    <2>2. button.calls \in Seq(UpdateCalls) /\ update.opening \in Seq(Nat \cup {None})
      BY <1>1 DEF UpdateTyped, Buttons, Managers
    <2>3. button.calls[1] \in UpdateCalls
      BY <1>2, <2>2, ElementOfSeq
    <2>4. PICK version \in Nat \cup {None} : version = Head(button.calls).version
      BY <1>2, <2>3 DEF UpdateCalls
    <2>5. PICK opened : opened = Append(update.opening, version)
      OBVIOUS
    <2>6. opened \in Seq(Nat \cup {None})
      BY <2>2, <2>5, AppendProperties
    <2>7. update' = [update EXCEPT !.opening = opened]
      BY <2>1, <2>4, <2>5
    <2>8. /\ update' \in Managers(installers) /\ update'.state = update.state /\ update'.release = update.release
          /\ update'.installer = update.installer /\ update'.misled = update.misled /\ update'.quit = update.quit
      BY <1>1, <2>6, <2>7 DEF Managers
    <2>9. PostsFit'
      <3>1. ASSUME NEW i \in 1 .. Len(button.calls), button.calls[i] = DesktopUpdate!AsksState
            PROVE  \E j \in 1 .. Len(rest) : rest[j] = DesktopUpdate!AsksState
        <4>1. i # 1
          BY <1>2, <2>1, <3>1 DEF DesktopUpdate!AsksState, DesktopUpdate!Call
        <4>2. i - 1 \in 1 .. Len(rest) /\ (i - 1) + 1 = i
          BY <1>2, <4>1 DEF Rest
        <4>3. rest[i - 1] = button.calls[i]
          BY <1>2, <4>2 DEF Rest
        <4> QED
          BY <3>1, <4>2, <4>3
      <3> QED
        BY <1>1, <1>2, <2>1, <2>8, <3>1 DEF PostsFit
    <2>10. UpdateTyped' /\ InstallerFits' /\ LoadFits'
      BY <1>1, <1>2, <2>1, <2>8 DEF UpdateTyped, InstallerFits, LoadFits, Verified
    <2> QED
      BY <2>8, <2>9, <2>10 DEF UpdateSound
  <1> QED
    BY <1>3, <1>4, <1>5

\* What the page does by itself, and the end of the manager.
LEMMA PageSound ==
    ASSUME UpdateSound, \/ DesktopUpdate!Deliver \/ DesktopUpdate!RunPrimaryAction \/ DesktopUpdate!Reload
                        \/ DesktopUpdate!ToggleDialog \/ DesktopUpdate!Refuse \/ DesktopUpdate!Stop
                        \/ UNCHANGED <<update, download, installers, button>>
    PROVE  UpdateSound' /\ update'.misled = update.misled
  <1>1. UpdateTyped /\ PostsFit /\ InstallerFits /\ LoadFits
    BY DEF UpdateSound
  <1>2. ASSUME UpdateTyped', PostsFit', UNCHANGED <<update, download, installers>>
        PROVE  UpdateSound' /\ update'.misled = update.misled
    BY <1>1, <1>2 DEF UpdateSound, InstallerFits, LoadFits, Verified
  <1>3. CASE DesktopUpdate!Deliver
    BY <1>1, <1>2, <1>3, DeliverPosts DEF DesktopUpdate!Deliver
  <1>4. CASE DesktopUpdate!RunPrimaryAction
    BY <1>1, <1>2, <1>4, ClickPosts DEF DesktopUpdate!RunPrimaryAction
  <1>5. CASE DesktopUpdate!Reload
    BY <1>1, <1>2, <1>5, ReloadPosts DEF DesktopUpdate!Reload
  <1>6. CASE DesktopUpdate!ToggleDialog
    BY <1>1, <1>2, <1>6, TogglePosts DEF DesktopUpdate!ToggleDialog
  <1>7. CASE DesktopUpdate!Refuse
    BY <1>1, <1>2, <1>7, RefusePosts DEF DesktopUpdate!Refuse
  <1>8. CASE DesktopUpdate!Stop
    <2>1. update' = [update EXCEPT !.quit = TRUE] /\ UNCHANGED <<download, installers, button>>
      BY <1>8 DEF DesktopUpdate!Stop
    <2>2. /\ update' \in Managers(installers) /\ update'.state = update.state /\ update'.release = update.release
          /\ update'.installer = update.installer /\ update'.misled = update.misled /\ update'.quit
      BY <1>1, <2>1 DEF UpdateTyped, Managers
    <2> QED
      BY <1>1, <2>1, <2>2 DEF UpdateSound, UpdateTyped, PostsFit, InstallerFits, LoadFits, Verified
  <1>9. CASE UNCHANGED <<update, download, installers, button>>
    BY <1>1, <1>2, <1>9 DEF UpdateTyped, PostsFit
  <1> QED
    BY <1>3, <1>4, <1>5, <1>6, <1>7, <1>8, <1>9

\* Openings that a check overtook leave what is shown alone, unless one of them fails.
LEMMA OvertakenKeeps ==
    ASSUME UpdateWell, UpdateTyped', DesktopUpdate!OvertakenOpened \/ DesktopUpdate!OvertakenFails, ~update'.misled
    PROVE  UpdateWell'
  <1>1. UpdateTyped /\ update \in Managers(installers)
    BY DEF UpdateWell, UpdateTyped
  <1>2. /\ UNCHANGED <<download, installers, button>> /\ update'.state = update.state
        /\ update'.release = update.release /\ update'.installer = update.installer
        /\ update'.checking = update.checking /\ update'.opening = update.opening /\ update'.quit = update.quit
    <2>1. CASE DesktopUpdate!OvertakenOpened
      BY <1>1, <2>1 DEF Managers, DesktopUpdate!OvertakenOpened
    <2>2. CASE DesktopUpdate!OvertakenFails
      <3>1. PICK misled : misled = (update.misled \/ update.release # None)
        OBVIOUS
      <3>2. PICK manager : manager = [update EXCEPT !.overtaken = update.overtaken - 1, !.misled = misled]
        OBVIOUS
      <3>3. DesktopUpdate!Tell(manager, DesktopUpdate!Error("open", update.release))
        BY <2>2, <3>1, <3>2 DEF DesktopUpdate!OvertakenFails
      <3>4. /\ manager.misled = misled /\ manager.state = update.state
            /\ manager.release = update.release /\ manager.installer = update.installer
            /\ manager.checking = update.checking /\ manager.opening = update.opening /\ manager.quit = update.quit
        BY <1>1, <3>2 DEF Managers
      <3>5. CASE update.release = None
        BY <2>2, <3>3, <3>4, <3>5 DEF DesktopUpdate!Tell, DesktopUpdate!OvertakenFails
      <3>6. CASE update.release # None
        <4>1. PICK state : update' = [manager EXCEPT !.state = state]
          BY <3>3, <3>6 DEF DesktopUpdate!Tell, DesktopUpdate!Publish
        <4>2. update'.misled = misled
          BY <1>1, <3>2, <4>1 DEF Managers
        <4> QED
          BY <3>1, <3>6, <4>2
      <3> QED
        BY <3>5, <3>6
    <2> QED
      BY <2>1, <2>2
  <1>3. DownloadFits' /\ OpenFits' /\ PostsFit'
    BY <1>2 DEF UpdateWell, DownloadFits, OpenFits, PostsFit
  <1>4. (Downloads' <=> Downloads) /\ (Fresh' <=> Fresh)
    BY <1>2 DEF Downloads, Fresh
  <1>5. PageFits'
    BY <1>2, <1>4 DEF UpdateWell, PageFits
  <1> QED
    BY <1>3, <1>5 DEF UpdateWell

\* Every step of an update keeps what was said of it.
LEMMA UpdatesGoOn ==
    ASSUME UpdateInv, DesktopUpdate!Next \/ UNCHANGED updates
    PROVE  UpdateInv'
  <1>1. UpdateSound
    BY DEF UpdateInv
  <1>2. CASE DesktopUpdate!OvertakenOpened \/ DesktopUpdate!OvertakenFails
    <2>1. UpdateSound' /\ (update'.misled = update.misled \/ update'.misled)
      BY <1>1, <1>2, OpeningSound
    <2>2. ~update'.misled => UpdateWell'
      BY <1>2, <2>1, OvertakenKeeps DEF UpdateInv, UpdateSound
    <2> QED
      BY <2>1, <2>2 DEF UpdateInv
  <1>3. CASE (DesktopUpdate!Next \/ UNCHANGED updates)
             /\ ~(DesktopUpdate!OvertakenOpened \/ DesktopUpdate!OvertakenFails)
    <2>1. UpdateSound' /\ update'.misled = update.misled
      BY <1>1, <1>3, CheckSound, OpeningSound, LoadSound, UnseenSound, CallSound, PageSound
      DEF DesktopUpdate!Next, updates
    <2>2. ~update.misled => UpdateWell'
      BY <1>3, UpdatesKeep DEF UpdateInv
    <2> QED
      BY <2>1, <2>2 DEF UpdateInv
  <1> QED
    BY <1>2, <1>3

\* What the invariant says of the installer, the page and what is opened.
LEMMA UpdatesSafe ==
    ASSUME UpdateInv
    PROVE  DesktopUpdate!InstallerAsShown
  <1>1. DesktopUpdate!InstallerVerified
    BY DEF UpdateInv, UpdateSound, InstallerFits, Verified, DesktopUpdate!InstallerVerified
  <1>2. DesktopUpdate!ShownIsCurrent
    <2>1. button.calls \in Seq(UpdateCalls)
      BY DEF UpdateInv, UpdateSound, UpdateTyped, Buttons
    <2>2. DOMAIN button.calls = 1 .. Len(button.calls)
      BY <2>1, LenProperties
    <2> QED
      BY <2>2 DEF UpdateInv, UpdateSound, PostsFit, DesktopUpdate!ShownIsCurrent
  <1>3. ASSUME ~update.misled PROVE DesktopUpdate!InstallerAsOffered
    <2>1. UpdateWell
      BY <1>3 DEF UpdateInv
    <2>2. download # DesktopUpdate!NoDownload => update.release = download.version
      BY <2>1 DEF UpdateWell, DownloadFits
    <2>3. ASSUME update.state.status = "downloaded"
          PROVE  update.installer \in installers /\ update.installer.version = update.state.version
      <3>1. Openish(update.state)
        BY <2>3 DEF Openish
      <3> QED
        BY <2>1, <3>1 DEF UpdateWell, OpenFits
    <2>4. \A i \in DOMAIN update.opening : update.opening[i] = update.installer.version
      <3>1. update.opening \in Seq(Nat \cup {None})
        BY <2>1 DEF UpdateWell, UpdateTyped, Managers
      <3>2. DOMAIN update.opening = 1 .. Len(update.opening)
        BY <3>1, LenProperties
      <3>3. CASE update.opening = <<>>
        <4>1. Len(update.opening) = 0
          BY <3>3, EmptySeq
        <4> QED
          BY <3>2, <4>1
      <3>4. CASE update.opening # <<>>
        BY <2>1, <3>2, <3>4 DEF UpdateWell, OpenFits
      <3> QED
        BY <3>3, <3>4
    <2> QED
      BY <2>2, <2>3, <2>4 DEF DesktopUpdate!InstallerAsOffered
  <1> QED
    BY <1>1, <1>2, <1>3 DEF DesktopUpdate!InstallerAsShown

\* What is opened is a whole, marked, later installer, and the page comes to show the manager's
\* state, however checks, downloads, clicks, reloads and late answers of the system overlap.  It
\* is of the version the dialog named, unless an opening failed after a check had overtaken it
\* (update-manager.mjs:26-120, desktop-update-button.tsx:15-92).
THEOREM OpensWhatItShows == Spec => []InstallerAsShown
  <1> DEFINE Inv == part = "updates" => UpdateInv
  <1>1. Init => Inv
    BY UpdatesBegin DEF Init
  <1>2. Inv /\ [Next]_vars => Inv'
    BY PartStep, UpdatesGoOn
  <1>3. Inv => InstallerAsShown
    BY UpdatesSafe DEF InstallerAsShown
  <1> QED
    BY <1>1, <1>2, <1>3, PTL DEF Spec
==============================================================================
