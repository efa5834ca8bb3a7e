-------------------------- MODULE AgentServiceProofs --------------------------
(* What is proved of AgentService for every number of commands, sessions     *)
(* and turns: a session lives with the consent that is on disk, the provider *)
(* is as the host says, tools serve the turn that is shown, what is shown is *)
(* stored, and nothing is sent to the provider without consent.              *)
EXTENDS AgentService, TLAPS

-----------------------------------------------------------------------------
(* The inductive invariant *)

\* What a command can be, and where it can stand.
Operations ==
    [kind : {"none", "start", "refresh", "create", "close", "turn", "revoke", "shutdown"},
     step : {"none", "starting", "startup_failed", "account", "prepare", "thread", "bind",
             "unsubscribe", "reserve", "turn_start", "interrupt", "interrupted", "persist",
             "persisted", "closed", "stop"},
     session : Sessions \union {0}, turn : Turns \union {0}, cut : BOOLEAN]

\* The steps of createSession, startTurn and of what revokeConsent and stop() share.
Creating == {"prepare", "thread", "bind"}
Starting == {"reserve", "turn_start"}
Ending == {"interrupt", "interrupted", "persist", "persisted", "closed", "stop"}

\* The step of a command is one of its kind.
StepOfKind(o) ==
    /\ o.step = "none" <=> o = Idle
    /\ o.step \in Creating => o.kind = "create"
    /\ o.step \in Starting => o.kind = "turn"
    /\ o.step \in Ending => o.kind \in LastCommands
    /\ o.step \in {"starting", "startup_failed", "account"} => o.kind \in {"start", "refresh"}
    /\ o.step = "unsubscribe" => o.kind \in {"close"} \union LastCommands
    /\ o.cut => o.step \in ProviderSteps

\* A tool call finds no turn, or an aborted one.
Quiet == dispatcher.turn # 0 => dispatcher.aborted

\* The session a command opens is not open to anyone else.
Opening(s) == /\ session.id = s /\ session.status \in {"starting", "context_lost"}
              /\ ~session.thread /\ dispatcher.session = 0

\* What the host's state has to do with a command.
Fits(o) ==
    /\ o \in Operations /\ StepOfKind(o)
    /\ o.step \in ProviderSteps => o.cut \/ process = "ready"
    /\ o.step \in {"interrupt", "interrupted"} /\ o.kind = "revoke" => consent # "granted"
    /\ o.step = "reserve" => o.turn # 0 /\ rows[o.turn] = "none"
    /\ o.step = "turn_start" => /\ o.turn # 0 /\ rows[o.turn] # "none"
                                /\ turn.id = o.turn => turn.status # "running"
    /\ o.step \in Creating => Opening(o.session)
    /\ o.kind = "shutdown" => Quiet

\* What two commands have to do with each other.
Apart(o, p) ==
    /\ o.step \in Creating => p.step \notin Creating
    /\ o.step \in Starting /\ p.step \in Starting => o.turn # p.turn
    /\ o.kind = "shutdown" => p = Idle

\* All commands together.
OpsFit ==
    /\ ops \in [Clients -> Operations]
    /\ \A k \in Clients : Fits(ops[k])
    /\ \A j, k \in Clients : j # k => Apart(ops[j], ops[k])

\* A revocation or a shutdown that goes on at once, up to where it stops the process.
Barrier == \E j \in Clients : ops[j].step \in {"interrupted", "persisted", "closed"}

\* Somebody waits for what is stopping, will stop what has failed, and lets no session
\* be opened whose consent has gone.
Attended ==
    /\ process = "stopping" => \E j \in Clients : ops[j].step \in {"stop", "startup_failed"}
    /\ process = "ready" /\ appServer # "ready" => \E j \in Clients : ops[j].step = "closed"
    /\ consent # "granted" =>
          \A k \in Clients : ops[k].step = "prepare" /\ ~ops[k].cut => Barrier

\* The app server that is shown is the process that is there, and that one has a consent
\* which is at most being revoked.
ServerFits ==
    /\ process # "none" => journal \in {"granted", "pending"}
    /\ process = "none" => appServer \in {"stopped", "crashed"}
    /\ process = "starting" => appServer \in {"starting", "crashed"}
    /\ process = "ready" => appServer \in {"ready", "crashed"}
    /\ process = "crashed" => appServer = "crashed"
    /\ process = "stopping" => appServer \in {"stopping", "crashed"}

\* An active turn is in the ready session, a live session has its app server.
ChatFits ==
    /\ IsLiveSession => appServer = "ready"
    /\ IsActiveTurn => session.status = "ready"
    /\ turn.status # "none" => turn.id # 0 /\ rows[turn.id] # "none"
    /\ turn.bound => turn.status \notin {"none", "starting"}

\* The dispatcher serves the session that was opened last, without consent no turn.
DispatcherFits ==
    /\ dispatcher.session # 0 =>
          /\ session.id = dispatcher.session /\ session.status \in {"ready", "context_lost"}
          /\ session.thread /\ conversation
    /\ dispatcher.turn # 0 => dispatcher.session # 0
    /\ consent # "granted" => Quiet
    /\ ToolsOnlyInActiveTurn

\* A save that ends its turn is of a turn that ran and that the dispatcher let go of.
SavesFit ==
    \A s \in saves :
        /\ s.live => s.status = "completed"
        /\ s.ends => /\ s.turn # dispatcher.turn /\ rows[s.turn] # "none"
                     /\ turn.id = s.turn => turn.status # "starting"

\* The inductive invariant.
IInv ==
    /\ ShownIsDurable
    /\ OpsFit /\ Attended
    /\ ServerFits /\ ChatFits /\ DispatcherFits /\ SavesFit
    /\ StoppedIsQuiet

-----------------------------------------------------------------------------
(* What a step leaves alone *)

\* The process does not end.
ProcessStays == process = "ready" => process' = "ready"

\* A step that takes nothing from command o but its process.
Spares(o) ==
    /\ o.step \in {"interrupt", "interrupted"} /\ consent # "granted" => consent' # "granted"
    /\ o.step \in Starting => (rows[o.turn] = "none" <=> rows'[o.turn] = "none")
    /\ o.step = "turn_start" =>
          turn' = turn \/ turn'.id # o.turn \/ turn'.status # "running"
    /\ o.step \in Creating /\ Opening(o.session) =>
          /\ session'.id = o.session /\ session'.status \in {"starting", "context_lost"}
          /\ ~session'.thread /\ dispatcher'.session = 0
    /\ o.kind = "shutdown" /\ Quiet => Quiet'

\* A step that takes nothing from any command.
Mild ==
    /\ consent # "granted" => consent' # "granted"
    /\ \A t \in Turns : rows[t] = "none" <=> rows'[t] = "none"
    /\ turn' = turn \/ turn'.status # "running"
    /\ \A s \in Sessions \union {0} : Opening(s) => Opening(s)'
    /\ Quiet => Quiet'

\* Such a step spares every command.
LEMMA MildSpares ==
    ASSUME IInv, Mild, NEW j \in Clients
    PROVE  Spares(ops[j])
<1>1. Fits(ops[j]) /\ ops[j] \in Operations
  BY DEF IInv, OpsFit, Fits
<1>2. ASSUME ops[j].step \in Creating, Opening(ops[j].session)
      PROVE  /\ session'.id = ops[j].session /\ session'.status \in {"starting", "context_lost"}
             /\ ~session'.thread /\ dispatcher'.session = 0
  BY <1>1, <1>2 DEF Mild, Opening, Operations
<1>3. ops[j].step \in Starting => ops[j].turn \in Turns
  BY <1>1 DEF Operations, Fits, Starting
<1> QED BY <1>2, <1>3 DEF Mild, Spares

\* A command that is where it was, or was cut off, and is spared still fits.
LEMMA StillFits ==
    ASSUME IInv, NEW j \in Clients, Spares(ops[j]),
           \/ ops'[j] = ops[j] /\ (ProcessStays \/ ops[j].step \notin ProviderSteps)
           \/ ops'[j] = [ops[j] EXCEPT !.cut = TRUE] /\ ops[j].step \in ProviderSteps
    PROVE  Fits(ops[j])'
<1>1. Fits(ops[j]) /\ ops[j] \in Operations
  BY DEF IInv, OpsFit, Fits
<1>2. /\ ops'[j] \in Operations /\ ops'[j].kind = ops[j].kind /\ ops'[j].step = ops[j].step
      /\ ops'[j].session = ops[j].session /\ ops'[j].turn = ops[j].turn
      /\ ops'[j] # ops[j] => ops'[j].cut /\ ops[j].step \in ProviderSteps
      /\ ops[j].step \in ProviderSteps => ops'[j].cut \/ (ops'[j] = ops[j] /\ ProcessStays)
  <2>1. CASE ops'[j] = ops[j] /\ (ProcessStays \/ ops[j].step \notin ProviderSteps)
    BY <1>1, <2>1 DEF Operations
  <2>2. CASE ops'[j] = [ops[j] EXCEPT !.cut = TRUE] /\ ops[j].step \in ProviderSteps
    <3>1. ops'[j] \in Operations
      BY <1>1, <2>2 DEF Operations
    <3>2. /\ ops'[j].kind = ops[j].kind /\ ops'[j].step = ops[j].step
          /\ ops'[j].session = ops[j].session /\ ops'[j].turn = ops[j].turn
          /\ ops'[j].cut
      BY <1>1, <2>2 DEF Operations
    <3> QED BY <2>2, <3>1, <3>2
  <2> QED BY <2>1, <2>2
<1>3. StepOfKind(ops[j])'
  BY <1>1, <1>2 DEF Fits, StepOfKind, Idle, ProviderSteps
<1>4. ops'[j].step \in ProviderSteps => ops'[j].cut \/ process' = "ready"
  BY <1>1, <1>2 DEF Fits, ProcessStays
<1>5. /\ ops'[j].step \in {"interrupt", "interrupted"} /\ ops'[j].kind = "revoke" =>
            consent' # "granted"
      /\ ops'[j].step = "reserve" => ops'[j].turn # 0 /\ rows'[ops'[j].turn] = "none"
      /\ ops'[j].step = "turn_start" =>
            /\ ops'[j].turn # 0 /\ rows'[ops'[j].turn] # "none"
            /\ turn'.id = ops'[j].turn => turn'.status # "running"
  BY <1>1, <1>2 DEF Fits, Spares, Operations, Starting
<1>6. ops'[j].step \in Creating => Opening(ops[j].session)'
  <2> SUFFICES ASSUME ops'[j].step \in Creating PROVE Opening(ops[j].session)'
    OBVIOUS
  <2>1. Opening(ops[j].session)
    BY <1>1, <1>2 DEF Fits
  <2> QED BY <1>2, <2>1 DEF Spares, Opening
<1>7. ops'[j].kind = "shutdown" => Quiet'
  BY <1>1, <1>2 DEF Fits, Spares
<1> QED BY <1>2, <1>3, <1>4, <1>5, <1>6, <1>7 DEF Fits

\* After a step of command k that spares the others only k has to be looked at.
LEMMA OneMoves ==
    ASSUME IInv, ProcessStays, NEW k \in Clients,
           \A j \in Clients \ {k} : Spares(ops[j]),
           ops' \in [Clients -> Operations],
           \A j \in Clients \ {k} : ops'[j] = ops[j],
           Fits(ops[k])',
           \A j \in Clients \ {k} : Apart(ops[j], ops[k])' /\ Apart(ops[k], ops[j])'
    PROVE  OpsFit'
<1>1. \A j \in Clients : Fits(ops[j])'
  BY StillFits
<1>2. \A j, l \in Clients : j # l => Apart(ops[j], ops[l])'
  BY DEF IInv, OpsFit, Apart
<1> QED BY <1>1, <1>2 DEF OpsFit

\* No command moves.
LEMMA NoneMoves ==
    ASSUME IInv, ProcessStays, UNCHANGED ops, \A j \in Clients : Spares(ops[j])
    PROVE  OpsFit'
<1>1. \A j \in Clients : Fits(ops[j])'
  BY StillFits
<1>2. \A j, l \in Clients : j # l => Apart(ops[j], ops[l])'
  BY DEF IInv, OpsFit, Apart
<1> QED BY <1>1, <1>2 DEF OpsFit, IInv

\* Command k ends.
LEMMA FinishFits ==
    ASSUME IInv, ProcessStays, NEW k \in Clients, Finish(k),
           \A j \in Clients \ {k} : Spares(ops[j])
    PROVE  OpsFit'
<1>1. ops \in [Clients -> Operations] /\ Idle \in Operations
  BY DEF IInv, OpsFit, Operations, Idle
<1>2. ops'[k] = Idle /\ \A j \in Clients \ {k} : ops'[j] = ops[j]
  BY <1>1 DEF Finish
<1>3. Fits(ops[k])'
  BY <1>1, <1>2 DEF Fits, StepOfKind, Idle, Creating, Starting, Ending, ProviderSteps
<1>4. \A j \in Clients \ {k} : Apart(ops[j], ops[k])' /\ Apart(ops[k], ops[j])'
  BY <1>2 DEF Apart, Idle, Creating, Starting
<1> QED BY <1>1, <1>2, <1>3, <1>4, OneMoves DEF Finish

\* Command k goes on to another step of its kind.
LEMMA GotoFits ==
    ASSUME IInv, Mild, ProcessStays, NEW k \in Clients, NEW step, Goto(k, step),
           ops[k].step # "none", step # "none", [ops[k] EXCEPT !.step = step] \in Operations,
           step \in Creating => ops[k].step \in Creating,
           step \in Ending => ops[k].kind \in LastCommands,
           step \notin {"starting", "startup_failed", "account", "unsubscribe"} \union Starting,
           step \in ProviderSteps => process' = "ready",
           step \in {"interrupt", "interrupted"} => ops[k].step = "interrupt"
    PROVE  OpsFit'
<1>1. ops \in [Clients -> Operations] /\ Fits(ops[k]) /\ ops[k] \in Operations
  BY DEF IInv, OpsFit, Fits
<1>2. /\ ops'[k] = [ops[k] EXCEPT !.step = step, !.cut = FALSE]
      /\ \A j \in Clients \ {k} : ops'[j] = ops[j]
  BY <1>1 DEF Goto
<1>3. /\ ops'[k] \in Operations /\ ops'[k].step = step /\ ~ops'[k].cut
      /\ ops'[k].kind = ops[k].kind /\ ops'[k].session = ops[k].session
      /\ ops'[k].turn = ops[k].turn
  BY <1>1, <1>2 DEF Operations
<1>4. ops' \in [Clients -> Operations]
  BY <1>1, <1>3 DEF Goto
<1>5. StepOfKind(ops[k])'
  BY <1>1, <1>3 DEF Fits, StepOfKind, Idle
<1>6. ops'[k].step \in Creating => Opening(ops[k].session)'
  <2> SUFFICES ASSUME step \in Creating PROVE Opening(ops[k].session)'
    BY <1>3
  <2>1. Opening(ops[k].session)
    BY <1>1 DEF Fits
  <2> QED BY <1>1, <1>3, <2>1 DEF Mild, Opening, Operations
<1>7. ops'[k].kind = "shutdown" => Quiet'
  BY <1>1, <1>3 DEF Fits, Mild
<1>8. ops'[k].step \in {"interrupt", "interrupted"} /\ ops'[k].kind = "revoke" =>
         consent' # "granted"
  BY <1>1, <1>3 DEF Fits, Mild
<1>9. Fits(ops[k])'
  BY <1>3, <1>5, <1>6, <1>7, <1>8 DEF Fits, Starting
<1>10. \A j \in Clients \ {k} : Apart(ops[j], ops[k])' /\ Apart(ops[k], ops[j])'
  <2> SUFFICES ASSUME NEW j \in Clients \ {k}
               PROVE  Apart(ops[j], ops[k])' /\ Apart(ops[k], ops[j])'
    OBVIOUS
  <2>1. Apart(ops[j], ops[k]) /\ Apart(ops[k], ops[j]) /\ ops'[j] = ops[j] /\ ops[k] # Idle
    BY <1>1, <1>2 DEF IInv, OpsFit, Idle
  <2> QED BY <1>3, <2>1 DEF Apart, Starting
<1> QED BY <1>2, <1>4, <1>9, <1>10, OneMoves, MildSpares

\* Every command that waits for the provider is cut off.
LEMMA RejectedFits ==
    ASSUME IInv, Mild, ops' = Rejected(ops)
    PROVE  OpsFit'
<1>1. ops \in [Clients -> Operations]
  BY DEF IInv, OpsFit
<1>2. \A j \in Clients : \/ ops'[j] = ops[j] /\ ops[j].step \notin ProviderSteps
                         \/ ops'[j] = [ops[j] EXCEPT !.cut = TRUE] /\ ops[j].step \in ProviderSteps
  BY DEF Rejected
<1>3. \A j \in Clients : ops'[j] \in Operations
  <2> SUFFICES ASSUME NEW j \in Clients PROVE ops'[j] \in Operations
    OBVIOUS
  <2>1. CASE ops'[j] = ops[j]
    BY <1>1, <2>1
  <2>2. CASE ops'[j] = [ops[j] EXCEPT !.cut = TRUE]
    BY <1>1, <2>2 DEF Operations
  <2> QED BY <1>2, <2>1, <2>2
<1>4. ops' \in [Clients -> Operations]
  BY <1>3 DEF Rejected
<1>5. \A j \in Clients : Fits(ops[j])'
  BY <1>2, StillFits, MildSpares
<1>6. \A j \in Clients : ops'[j].kind = ops[j].kind /\ ops'[j].step = ops[j].step
                         /\ ops'[j].turn = ops[j].turn /\ (ops[j] = Idle => ops'[j] = Idle)
  <2> SUFFICES ASSUME NEW j \in Clients
               PROVE  /\ ops'[j].kind = ops[j].kind /\ ops'[j].step = ops[j].step
                      /\ ops'[j].turn = ops[j].turn /\ (ops[j] = Idle => ops'[j] = Idle)
    OBVIOUS
  <2>1. CASE ops'[j] = ops[j]
    BY <2>1
  <2>2. CASE ops'[j] = [ops[j] EXCEPT !.cut = TRUE] /\ ops[j].step \in ProviderSteps
    BY <1>1, <2>2 DEF Operations, Idle, ProviderSteps
  <2> QED BY <1>2, <2>1, <2>2
<1>7. \A j, l \in Clients : j # l => Apart(ops[j], ops[l])'
  BY <1>6 DEF IInv, OpsFit, Apart
<1> QED BY <1>4, <1>5, <1>7 DEF OpsFit

\* What is attended to stays so while nobody moves who attends to it.
LEMMA AttendedKept ==
    ASSUME IInv, consent' \in {consent, "granted"},
           \/ UNCHANGED <<process, appServer>>
           \/ process' \notin {"stopping", "ready"}
           \/ process' = "ready" /\ appServer' = "ready",
           \A j \in Clients :
              /\ ops[j].step \in {"stop", "startup_failed", "closed", "interrupted", "persisted"} =>
                    ops'[j].step = ops[j].step
              /\ ops'[j].step = "prepare" /\ ~ops'[j].cut =>
                    ops[j].step = "prepare" /\ ~ops[j].cut
    PROVE  Attended'
<1>1. Barrier => Barrier'
  BY DEF Barrier
<1>2. process' = "stopping" => \E j \in Clients : ops'[j].step \in {"stop", "startup_failed"}
  BY DEF IInv, Attended
<1>3. process' = "ready" /\ appServer' # "ready" => \E j \in Clients : ops'[j].step = "closed"
  BY DEF IInv, Attended
<1>4. ASSUME consent' # "granted", NEW k \in Clients, ops'[k].step = "prepare", ~ops'[k].cut
      PROVE  Barrier'
  BY <1>1, <1>4 DEF IInv, Attended
<1> QED BY <1>2, <1>3, <1>4 DEF Attended

\* A command begins.
LEMMA CallFits ==
    ASSUME IInv, ProcessStays, NEW k \in Clients, ops[k] = Idle, ~ShuttingDown,
           \A j \in Clients : Spares(ops[j]),
           NEW kind, NEW step, NEW s, NEW t, Call(k, kind, step, s, t),
           [kind |-> kind, step |-> step, session |-> s, turn |-> t, cut |-> FALSE] \in Operations,
           StepOfKind([kind |-> kind, step |-> step, session |-> s, turn |-> t, cut |-> FALSE]),
           step \in ProviderSteps => process' = "ready",
           step \in {"interrupt", "interrupted"} /\ kind = "revoke" => consent' # "granted",
           step # "turn_start",
           step = "reserve" => t # 0 /\ rows'[t] = "none" /\ \A j \in Clients : ops[j].turn # t,
           step \in Creating => Opening(s)' /\ \A j \in Clients : ops[j].step \notin Creating,
           kind = "shutdown" => Quiet' /\ \A j \in Clients : ops[j] = Idle
    PROVE  OpsFit'
<1> DEFINE o == [kind |-> kind, step |-> step, session |-> s, turn |-> t, cut |-> FALSE]
<1>1. ops \in [Clients -> Operations]
  BY DEF IInv, OpsFit
<1>2. /\ ops' \in [Clients -> Operations] /\ ops'[k] = o
      /\ \A j \in Clients \ {k} : ops'[j] = ops[j]
  BY <1>1 DEF Call
<1>3. /\ o.kind = kind /\ o.step = step /\ o.session = s /\ o.turn = t /\ ~o.cut
      /\ o \in Operations /\ StepOfKind(o)
  OBVIOUS
<1> HIDE DEF o
<1>4. StepOfKind(ops[k])'
  BY <1>2, <1>3 DEF StepOfKind
<1>5. step \in Creating => Opening(ops[k].session)'
  BY <1>2, <1>3 DEF Opening
<1>6. Fits(ops[k])'
  BY <1>2, <1>3, <1>4, <1>5 DEF Fits
<1>7. \A j \in Clients \ {k} : Apart(ops[j], ops[k])' /\ Apart(ops[k], ops[j])'
  <2> SUFFICES ASSUME NEW j \in Clients \ {k}
               PROVE  Apart(ops[j], ops[k])' /\ Apart(ops[k], ops[j])'
    OBVIOUS
  <2>1. ops'[j] = ops[j] /\ ops[j].kind # "shutdown"
    BY <1>2 DEF ShuttingDown
  <2> QED BY <1>2, <1>3, <2>1 DEF Apart, Starting
<1> QED BY <1>2, <1>6, <1>7, OneMoves

-----------------------------------------------------------------------------
(* Fragments of the handlers *)

\* What a save can be.
Saves == [turn : Turns, status : Terminal, live : BOOLEAN, ends : BOOLEAN, sent : BOOLEAN]

\* The three parts of TypeOK, and what ShownIsDurable adds to it.
ServerTyped ==
    /\ journal \in {"none", "granted", "pending", "revoked"}
    /\ consent \in {"unknown", "granted", "revoke_pending", "revoked"}
    /\ host \in {"ready", "degraded", "stopping", "stopped", "exited"}
    /\ appServer \in {"stopped", "starting", "ready", "stopping", "crashed"}
    /\ auth \in {"unknown", "logged_out", "authenticated"}
    /\ account \in {"unknown", "logged_out", "authenticated"}
    /\ process \in {"none", "starting", "ready", "crashed", "stopping"}

ChatTyped ==
    /\ session \in [status : {"none", "starting", "ready", "context_lost", "closed"},
                    id : Sessions \union {0}, thread : BOOLEAN]
    /\ turn \in [status : {"none", "starting", "running", "interrupting"} \union Terminal,
                 id : Turns \union {0}, bound : BOOLEAN]
    /\ dispatcher \in [session : Sessions \union {0}, turn : Turns \union {0},
                       aborted : BOOLEAN, busy : BOOLEAN]
    /\ conversation \in BOOLEAN

HistoryTyped ==
    /\ starting \in BOOLEAN
    /\ projector \in Turns \union {0}
    /\ early \in Terminal \union {"none", "other"}
    /\ saves \subseteq Saves
    /\ rows \in [Turns -> Terminal \union {"none", "reserved"}]
    /\ shown \subseteq Turns /\ working \subseteq Turns

ShownStored ==
    /\ \A t \in shown : rows[t] = "completed"
    /\ turn.status = "completed" => rows[turn.id] = "completed"

\* The invariant has these parts.
LEMMA Typed == IInv => ServerTyped /\ ChatTyped /\ HistoryTyped /\ ShownStored
  BY DEF IInv, ShownIsDurable, TypeOK, ServerTyped, ChatTyped, HistoryTyped, ShownStored,
     Saves

\* The parts of the invariant, put together.
LEMMA Together ==
    ASSUME OpsFit', Attended', ServerTyped', ChatTyped', HistoryTyped', ShownStored',
           ServerFits', ChatFits', DispatcherFits', SavesFit', StoppedIsQuiet'
    PROVE  IInv'
<1>1. \A k \in Clients : /\ ops'[k].session \in Sessions \union {0}
                         /\ ops'[k].turn \in Turns \union {0}
  BY DEF OpsFit, Operations
<1>2. TypeOK'
  BY <1>1 DEF TypeOK, ServerTyped, ChatTyped, HistoryTyped, Saves
<1>3. ShownIsDurable'
  BY <1>2 DEF ShownIsDurable, ShownStored
<1> QED BY <1>3 DEF IInv

\* A step of the commands alone.
LEMMA CommandsMove ==
    ASSUME IInv, HostRuns, OpsFit', Attended', working' \subseteq Turns,
           UNCHANGED <<consentVars, serverVars, chatVars, toolVars, streamVars, historyVars>>
    PROVE  IInv'
<1> USE DEF consentVars, serverVars, chatVars, toolVars, streamVars, historyVars
<1>1. TypeOK'
  <2>1. \A k \in Clients : ops'[k].session \in Sessions \union {0} /\ ops'[k].turn \in Turns \union {0}
    BY DEF OpsFit, Operations
  <2> QED BY <2>1 DEF IInv, ShownIsDurable, TypeOK
<1>2. ShownIsDurable' 
  BY <1>1 DEF IInv, ShownIsDurable
<1>3. ServerFits' /\ ChatFits'
  BY DEF IInv, ServerFits, ChatFits, IsLiveSession, IsActiveTurn
<1>4. DispatcherFits' /\ SavesFit'
  BY DEF IInv, DispatcherFits, SavesFit, Quiet, ToolsOnlyInActiveTurn
<1>5. StoppedIsQuiet'
  BY DEF HostRuns, StoppedIsQuiet
<1> QED BY <1>1, <1>2, <1>3, <1>4, <1>5 DEF IInv

\* A mild step leaves these alone.
LEMMA Unmoved ==
    ASSUME IInv, UNCHANGED <<consent, rows, turn, session, dispatcher>>
    PROVE  Mild
  BY DEF Mild, Opening, Quiet

\* What an aborted projector leaves of the saves.
LEMMA MutedSaves ==
    ASSUME HistoryTyped, NEW p, NEW s \in Muted(p)
    PROVE  s \in Saves /\ \E r \in saves : /\ s.turn = r.turn /\ s.status = r.status
                                           /\ s.ends = r.ends /\ (s.live => r.live)
<1>1. PICK r \in saves : s = [r EXCEPT !.live = @ /\ r.turn # p]
  BY DEF Muted
<1>2. r \in Saves
  BY DEF HistoryTyped
<1>3. (r.live /\ r.turn # p) \in BOOLEAN
  OBVIOUS
<1>4. s \in Saves /\ s.turn = r.turn /\ s.status = r.status /\ s.ends = r.ends
      /\ s.live = (r.live /\ r.turn # p)
  BY <1>1, <1>2, <1>3 DEF Saves
<1> QED BY <1>4

\* A save of a failure ends nothing and shows nothing.
LEMMA FailSaveFits ==
    ASSUME NEW t \in Turns, NEW status \in Terminal
    PROVE  /\ FailSave(t, status) \in Saves
           /\ ~FailSave(t, status).live /\ ~FailSave(t, status).ends
<1>1. HasCredential \in BOOLEAN
  BY DEF HasCredential
<1> QED BY <1>1 DEF FailSave, Saves

\* The saves fit while the dispatcher takes up no turn and none begins.
LEMMA SavesStay ==
    ASSUME IInv, saves' \subseteq Saves,
           \A s \in saves' : \/ ~s.live /\ ~s.ends
                             \/ \E r \in saves : /\ s.turn = r.turn /\ s.status = r.status
                                                 /\ s.ends = r.ends /\ (s.live => r.live),
           dispatcher'.turn \in {0, dispatcher.turn},
           turn' = turn \/ turn'.status # "starting",
           \A t \in Turns : rows[t] # "none" => rows'[t] # "none"
    PROVE  SavesFit'
<1> SUFFICES ASSUME NEW s \in saves', s.live \/ s.ends
             PROVE  /\ s.live => s.status = "completed"
                    /\ s.ends => /\ s.turn # dispatcher'.turn /\ rows'[s.turn] # "none"
                                 /\ turn'.id = s.turn => turn'.status # "starting"
  BY DEF SavesFit
<1>1. s \in Saves /\ s.turn \in Turns /\ 0 \notin Turns
  BY DEF Saves, Turns
<1>2. PICK r \in saves : /\ s.turn = r.turn /\ s.status = r.status
                         /\ s.ends = r.ends /\ (s.live => r.live)
  OBVIOUS
<1> QED BY <1>1, <1>2 DEF IInv, SavesFit

\* LoseActiveContext with what its callers do to the dispatcher.
LEMMA ContextLost ==
    ASSUME IInv, LoseActiveContext, UNCHANGED <<consent, conversation, rows>>,
           \/ dispatcher' = Abandoned
           \/ dispatcher' = FinishedTurn
           \/ dispatcher' = dispatcher /\ ~IsActiveTurn
    PROVE  /\ ~IsLiveSession' /\ ~IsActiveTurn' /\ ChatFits' /\ DispatcherFits' /\ Mild
           /\ turn' = turn \/ turn'.status = "failed"
           /\ ChatTyped'
<1>1. ChatTyped
  BY Typed
<1>2. /\ session' = session \/ session' = [session EXCEPT !.status = "context_lost"]
      /\ ~IsLiveSession'
  BY <1>1 DEF LoseActiveContext, IsLiveSession, ChatTyped
<1>3. /\ turn' = turn \/ turn' = [turn EXCEPT !.status = "failed"]
      /\ ~IsActiveTurn'
  BY <1>1 DEF LoseActiveContext, IsActiveTurn, ChatTyped
<1>4. /\ session'.id = session.id /\ session'.thread = session.thread
      /\ session'.status \in {session.status, "context_lost"}
      /\ session.status \in {"ready", "context_lost"} => session'.status = "context_lost"
      /\ session.status = "starting" => session'.status = "context_lost"
  BY <1>1 DEF LoseActiveContext, IsLiveSession, ChatTyped
<1>5. /\ turn'.id = turn.id /\ turn'.bound = turn.bound
      /\ turn' = turn \/ (turn'.status = "failed" /\ turn.status # "none")
  <2>1. turn \in [status : {"none", "starting", "running", "interrupting"} \union Terminal,
                   id : Turns \union {0}, bound : BOOLEAN]
    BY <1>1 DEF ChatTyped
  <2>2. turn' = turn \/ (turn' = [turn EXCEPT !.status = "failed"] /\ turn.status # "none")
    BY DEF LoseActiveContext, IsActiveTurn
  <2> QED BY <2>1, <2>2
<1>6. /\ dispatcher'.session \in {0, dispatcher.session}
      /\ dispatcher'.turn = 0 \/ (dispatcher' = dispatcher /\ ~IsActiveTurn)
      /\ dispatcher'.turn # 0 => dispatcher'.session = dispatcher.session
  <2>1. dispatcher \in [session : Sessions \union {0}, turn : Turns \union {0},
                         aborted : BOOLEAN, busy : BOOLEAN]
    BY <1>1 DEF ChatTyped
  <2>2. CASE dispatcher' = Abandoned
    BY <2>2 DEF Abandoned, Unbound
  <2>3. CASE dispatcher' = FinishedTurn
    BY <2>1, <2>3 DEF FinishedTurn
  <2> QED BY <2>2, <2>3
<1>7. ChatFits'
  BY <1>2, <1>3, <1>5 DEF IInv, ChatFits, IsActiveTurn
<1>8. Quiet'
  BY <1>6 DEF IInv, DispatcherFits, ToolsOnlyInActiveTurn, Quiet, IsActiveTurn
<1>9. DispatcherFits'
  BY <1>4, <1>6, <1>8 DEF IInv, DispatcherFits, ToolsOnlyInActiveTurn, Quiet
<1>10. Mild
  BY <1>4, <1>5, <1>6, <1>8 DEF Mild, Opening
<1>11. ChatTyped'
  <2>1. session' \in [status : {"none", "starting", "ready", "context_lost", "closed"},
                      id : Sessions \union {0}, thread : BOOLEAN]
    BY <1>1, <1>2 DEF ChatTyped
  <2>2. turn' \in [status : {"none", "starting", "running", "interrupting"} \union Terminal,
                   id : Turns \union {0}, bound : BOOLEAN]
    BY <1>1, <1>3 DEF ChatTyped, Terminal
  <2>3. dispatcher' \in [session : Sessions \union {0}, turn : Turns \union {0},
                         aborted : BOOLEAN, busy : BOOLEAN]
    BY <1>1 DEF ChatTyped, Abandoned, FinishedTurn, Unbound
  <2> QED BY <1>1, <2>1, <2>2, <2>3 DEF ChatTyped
<1> QED BY <1>2, <1>3, <1>5, <1>7, <1>9, <1>10, <1>11

\* A dispatcher that lets go of its turn fits, whatever the chat state is.
LEMMA DispatcherEmpty ==
    ASSUME IInv, UNCHANGED <<consent, conversation, rows, session, turn, appServer>>,
           dispatcher' = Abandoned
    PROVE  ChatTyped' /\ DispatcherFits' /\ ChatFits' /\ Mild
<1>1. ChatTyped
  BY Typed
<1>2. dispatcher' \in [session : Sessions \union {0}, turn : Turns \union {0},
                       aborted : BOOLEAN, busy : BOOLEAN]
      /\ dispatcher'.session = 0 /\ dispatcher'.turn = 0
  BY <1>1 DEF ChatTyped, Abandoned, Unbound
<1>3. ChatTyped' /\ DispatcherFits'
  BY <1>1, <1>2 DEF ChatTyped, DispatcherFits, Quiet, ToolsOnlyInActiveTurn
<1>4. ChatFits'
  BY DEF IInv, ChatFits, IsLiveSession, IsActiveTurn
<1>5. Mild
  BY <1>2 DEF Mild, Opening, Quiet
<1> QED BY <1>3, <1>4, <1>5

\* What the muted saves and those of a failure are together.
LEMMA MutedStay ==
    ASSUME IInv, NEW X \in SUBSET Saves, \A s \in X : ~s.live /\ ~s.ends,
           saves' = Muted(projector) \union X,
           dispatcher'.turn \in {0, dispatcher.turn},
           turn' = turn \/ turn'.status # "starting",
           \A t \in Turns : rows[t] # "none" => rows'[t] # "none"
    PROVE  SavesFit' /\ saves' \subseteq Saves
<1>1. \A s \in Muted(projector) :
         s \in Saves /\ \E r \in saves : /\ s.turn = r.turn /\ s.status = r.status
                                       /\ s.ends = r.ends /\ (s.live => r.live)
  BY Typed, MutedSaves
<1>2. saves' \subseteq Saves
  BY <1>1
<1>3. \A s \in saves' : \/ ~s.live /\ ~s.ends
                        \/ \E r \in saves : /\ s.turn = r.turn /\ s.status = r.status
                                            /\ s.ends = r.ends /\ (s.live => r.live)
  BY <1>1
<1> QED BY <1>2, <1>3, SavesStay

\* So do those of the active turn.
LEMMA FailSavesFit ==
    ASSUME IInv, IsActiveTurn, NEW status \in Terminal
    PROVE  /\ FailSaves(turn.id, status) \subseteq Saves
           /\ \A s \in FailSaves(turn.id, status) : ~s.live /\ ~s.ends
<1>1. turn.id \in Turns
  BY Typed DEF ChatTyped, IInv, ChatFits, IsActiveTurn
<1> QED BY <1>1, FailSaveFits DEF FailSaves

\* handleFatalProcessError, up to what its callers do to the process.
LEMMA Fatal ==
    ASSUME IInv, HandleFatal, UNCHANGED consent, working' \subseteq Turns
    PROVE  /\ Mild /\ ChatTyped' /\ HistoryTyped' /\ ShownStored'
           /\ ChatFits' /\ DispatcherFits' /\ SavesFit'
           /\ appServer' = "crashed" \/ (appServer' = appServer /\ appServer = "stopped")
           /\ host' \in {host, "degraded"}
<1>1. /\ dispatcher' = Abandoned /\ projector' = 0
      /\ saves' = Muted(projector) \union
                  (IF IsActiveTurn THEN FailSaves(turn.id, "failed") ELSE {})
      /\ UNCHANGED <<conversation, starting, early, rows, shown>>
  BY DEF HandleFatal
<1>2. /\ ChatTyped' /\ ChatFits' /\ DispatcherFits' /\ Mild
      /\ turn' = turn \/ turn'.status = "failed"
  <2>1. CASE appServer \in {"crashed", "stopped"}
    BY <1>1, <2>1, DispatcherEmpty DEF HandleFatal
  <2>2. CASE appServer \notin {"crashed", "stopped"}
    BY <1>1, <2>2, ContextLost DEF HandleFatal
  <2> QED BY <2>1, <2>2
<1>3. dispatcher'.turn = 0
  BY <1>1 DEF Abandoned, Unbound
<1>4. SavesFit' /\ saves' \subseteq Saves
  <2> DEFINE X == IF IsActiveTurn THEN FailSaves(turn.id, "failed") ELSE {}
  <2>1. X \in SUBSET Saves /\ \A s \in X : ~s.live /\ ~s.ends
    BY FailSavesFit DEF Terminal
  <2> HIDE DEF X
  <2>2. saves' = Muted(projector) \union X
    BY <1>1 DEF X
  <2> QED BY <1>1, <1>2, <1>3, <2>1, <2>2, MutedStay
<1>5. HistoryTyped'
  BY <1>1, <1>4, Typed DEF HistoryTyped
<1>6. ShownStored'
  BY <1>1, <1>2, Typed DEF ShownStored
<1> QED BY <1>2, <1>4, <1>5, <1>6 DEF HandleFatal

\* syncAuth
LEMMA AuthSynced ==
    ASSUME IInv, NEW status \in {"unknown", "logged_out", "authenticated"}, SyncAuth(status),
           UNCHANGED <<consent, appServer, conversation, starting, early, rows, shown>>,
           working' \subseteq Turns
    PROVE  /\ Mild /\ ChatTyped' /\ HistoryTyped' /\ ShownStored'
           /\ ChatFits' /\ DispatcherFits' /\ SavesFit'
<1>1. CASE UNCHANGED <<session, turn, dispatcher, projector, saves>>
  <2>1. Mild
    BY <1>1, Unmoved
  <2>2. ChatTyped' /\ HistoryTyped' /\ ShownStored'
    BY <1>1, Typed DEF ChatTyped, HistoryTyped, ShownStored
  <2>3. ChatFits' /\ DispatcherFits' /\ SavesFit'
    BY <1>1 DEF IInv, ChatFits, DispatcherFits, SavesFit, IsLiveSession, IsActiveTurn,
       Quiet,
       ToolsOnlyInActiveTurn
  <2> QED BY <2>1, <2>2, <2>3
<1>2. CASE LoseActiveContext /\ ~IsActiveTurn /\ UNCHANGED <<dispatcher, projector, saves>>
  <2>1. /\ ChatTyped' /\ ChatFits' /\ DispatcherFits' /\ Mild
        /\ turn' = turn \/ turn'.status = "failed"
    BY <1>2, ContextLost
  <2>2. HistoryTyped' /\ ShownStored'
    BY <1>2, <2>1, Typed DEF HistoryTyped, ShownStored
  <2>3. SavesFit'
    BY <1>2, <2>1, <2>2, SavesStay DEF HistoryTyped
  <2> QED BY <2>1, <2>2, <2>3
<1>3. CASE /\ LoseActiveContext /\ IsActiveTurn
           /\ dispatcher' = IF CanFinishTurn THEN FinishedTurn ELSE Abandoned
           /\ projector' = 0
           /\ saves' = Muted(projector) \union FailSaves(turn.id, "failed")
  <2>1. /\ ChatTyped' /\ ChatFits' /\ DispatcherFits' /\ Mild
        /\ turn' = turn \/ turn'.status = "failed"
    BY <1>3, ContextLost
  <2>2. dispatcher'.turn = 0
    BY <1>3, Typed DEF Abandoned, Unbound, FinishedTurn, ChatTyped
  <2>3. SavesFit' /\ saves' \subseteq Saves
    <3>1. FailSaves(turn.id, "failed") \in SUBSET Saves
          /\ \A s \in FailSaves(turn.id, "failed") : ~s.live /\ ~s.ends
      BY <1>3, FailSavesFit DEF Terminal
    <3> QED BY <1>3, <2>1, <2>2, <3>1, MutedStay
  <2>4. HistoryTyped' /\ ShownStored'
    BY <1>3, <2>1, <2>3, Typed DEF HistoryTyped, ShownStored
  <2> QED BY <2>1, <2>3, <2>4
<1> QED BY <1>1, <1>2, <1>3 DEF SyncAuth

-----------------------------------------------------------------------------
(* The owner's commands, and the last one *)

\* The state of the host is not touched.
LEMMA HostKept ==
    ASSUME IInv, UNCHANGED <<chatVars, toolVars, streamVars, historyVars>>,
           working' \subseteq Turns
    PROVE  ChatTyped' /\ HistoryTyped' /\ ShownStored' /\ SavesFit'
  BY Typed DEF chatVars, toolVars, streamVars, historyVars, ChatTyped, HistoryTyped,
     ShownStored, IInv, SavesFit

\* refreshProvider with a granted consent.
LEMMA RefreshFits ==
    ASSUME IInv, ~ShuttingDown, NEW k \in Clients, ops[k] = Idle, Refresh(k),
           journal' = "granted", consent' \in {consent, "granted"},
           \A j \in Clients : Spares(ops[j]),
           UNCHANGED <<session, turn, rows>>
    PROVE  OpsFit' /\ Attended' /\ ServerFits' /\ ChatFits'
<1>1. ops \in [Clients -> Operations]
  BY DEF IInv, OpsFit
<1>2. UNCHANGED ops \/ \E step \in {"account", "starting"}, kind \in {"refresh", "start"} :
         Call(k, kind, step, 0, 0) /\ (step = "account" => process' = "ready")
  BY DEF Refresh
<1>3. /\ ProcessStays
      /\ \/ UNCHANGED <<process, appServer>>
         \/ /\ process = "none" /\ appServer = "stopped"
            /\ process' = "starting" /\ appServer' = "starting"
  BY DEF Refresh, ProcessStays
<1>4. OpsFit'
  <2>1. CASE UNCHANGED ops
    BY <1>3, <2>1, NoneMoves
  <2>2. ASSUME NEW step \in {"account", "starting"}, NEW kind \in {"refresh", "start"},
               Call(k, kind, step, 0, 0), step = "account" => process' = "ready"
        PROVE  OpsFit'
    <3>1. [kind |-> kind, step |-> step, session |-> 0, turn |-> 0, cut |-> FALSE] \in Operations
      BY DEF Operations
    <3>2. StepOfKind([kind |-> kind, step |-> step, session |-> 0, turn |-> 0, cut |-> FALSE])
      BY DEF StepOfKind, Idle, Creating, Starting, Ending
    <3> QED BY <1>3, <2>2, <3>1, <3>2, CallFits DEF Creating, ProviderSteps
  <2> QED BY <1>2, <2>1, <2>2
<1>5. \A j \in Clients :
         /\ ops[j].step # "none" => ops'[j] = ops[j]
         /\ ops'[j].step = "prepare" => ops'[j] = ops[j]
  BY <1>1, <1>2 DEF Call, Idle
<1>6. Attended'
  BY <1>3, <1>5, AttendedKept
<1>7. ServerFits'
  BY <1>3 DEF IInv, ServerFits
<1>8. ChatFits'
  BY <1>3 DEF IInv, ChatFits, IsLiveSession, IsActiveTurn
<1> QED BY <1>4, <1>6, <1>7, <1>8

\* refreshProvider, to its first await.
LEMMA RefreshKeepsIInv ==
    ASSUME IInv, HostRuns, ~ShuttingDown, NEW k \in Clients, RefreshProvider(k)
    PROVE  IInv'
<1> USE DEF RefreshProvider, chatVars, toolVars, streamVars, historyVars, consentVars
<1>1. Mild
  BY Unmoved
<1>2. ChatTyped' /\ HistoryTyped' /\ ShownStored' /\ SavesFit'
  BY HostKept, Typed DEF HistoryTyped
<1>3. OpsFit' /\ Attended' /\ ServerFits' /\ ChatFits'
  BY <1>1, MildSpares, RefreshFits
<1>4. ServerTyped'
  BY Typed DEF ServerTyped, Refresh
<1>5. DispatcherFits' /\ StoppedIsQuiet'
  BY DEF IInv, DispatcherFits, Quiet, ToolsOnlyInActiveTurn, HostRuns,
     StoppedIsQuiet
<1> QED BY <1>2, <1>3, <1>4, <1>5, Together

\* grantConsent: no process is there, so no revocation waits for one.
LEMMA GrantKeepsIInv ==
    ASSUME IInv, HostRuns, Urgent = {}, ~ShuttingDown, NEW k \in Clients, GrantConsent(k)
    PROVE  IInv'
<1> USE DEF GrantConsent, chatVars, toolVars, streamVars, historyVars
<1>1. /\ process = "none" /\ journal' = "granted" /\ consent' \in {consent, "granted"}
      /\ Refresh(k) \/ UNCHANGED <<ops, process, appServer>>
  BY DEF IInv, ServerFits
<1>2. \A j \in Clients : ops[j].step \notin {"interrupt", "interrupted"}
  BY <1>1 DEF Urgent, IInv, OpsFit, Fits, ProviderSteps
<1>3. \A j \in Clients : Spares(ops[j])
  BY <1>2 DEF Spares, Opening, Quiet
<1>4. ChatTyped' /\ HistoryTyped' /\ ShownStored' /\ SavesFit'
  BY HostKept, Typed DEF HistoryTyped
<1>5. OpsFit' /\ Attended' /\ ServerFits' /\ ChatFits'
  <2>1. CASE Refresh(k)
    BY <1>1, <1>3, <2>1, RefreshFits
  <2>2. CASE UNCHANGED <<ops, process, appServer>>
    <3>1. OpsFit'
      BY <1>3, <2>2, NoneMoves DEF ProcessStays
    <3>2. Attended'
      BY <1>1, <2>2, AttendedKept
    <3>3. ServerFits' /\ ChatFits'
      BY <1>1, <2>2 DEF IInv, ServerFits, ChatFits, IsLiveSession, IsActiveTurn
    <3> QED BY <3>1, <3>2, <3>3
  <2> QED BY <1>1, <2>1, <2>2
<1>6. ServerTyped'
  BY <1>1, Typed DEF ServerTyped, Refresh
<1>7. DispatcherFits' /\ StoppedIsQuiet'
  BY <1>1 DEF IInv, DispatcherFits, Quiet, ToolsOnlyInActiveTurn,
     HostRuns,
     StoppedIsQuiet
<1> QED BY <1>4, <1>5, <1>6, <1>7, Together

\* createSession, to its first await.
LEMMA CreateKeepsIInv ==
    ASSUME IInv, HostRuns, ~ShuttingDown, NEW k \in Clients, CreateSession(k)
    PROVE  IInv'
<1> USE DEF CreateSession, toolVars, streamVars, historyVars, consentVars, serverVars
<1>1. PICK s \in Sessions : /\ s = session.id + 1
                            /\ session' = [status |-> "starting", id |-> s, thread |-> FALSE]
                            /\ Call(k, "create", "prepare", s, 0)
  OBVIOUS
<1>2. ~IsOpenSession /\ dispatcher.session = 0 /\ dispatcher.turn = 0 /\ turn' = NoTurn
  BY DEF IInv, DispatcherFits, IsOpenSession
<1>3. \A t \in Sessions \union {0} : ~Opening(t)
  BY <1>2 DEF Opening, IsOpenSession
<1>4. Mild /\ \A j \in Clients : Spares(ops[j])
  BY <1>2, <1>3, MildSpares DEF Mild, Quiet, NoTurn
<1>5. OpsFit'
  <2>1. [kind |-> "create", step |-> "prepare", session |-> s, turn |-> 0, cut |-> FALSE]
           \in Operations
    BY DEF Operations
  <2>2. StepOfKind([kind |-> "create", step |-> "prepare", session |-> s, turn |-> 0,
                    cut |-> FALSE])
    BY DEF StepOfKind, Idle, Creating, Starting, Ending
  <2>3. Opening(s)'
    BY <1>1, <1>2 DEF Opening
  <2>4. \A j \in Clients : ops[j].step \notin Creating
    BY <1>3 DEF IInv, OpsFit, Fits, Operations
  <2>5. process = "ready"
    BY Typed DEF IInv, ServerFits, ServerTyped
  <2> QED BY <1>1, <1>4, <2>1, <2>2, <2>3, <2>4, <2>5, CallFits DEF ProcessStays
<1>6. Attended'
  <2>1. \A j \in Clients : ops[j].step # "none" => ops'[j] = ops[j]
    BY <1>1 DEF Call, IInv, OpsFit, Idle
  <2>2. journal = "granted" /\ appServer = "ready" /\ process # "stopping"
    BY DEF IInv, ServerFits
  <2> QED BY <2>1, <2>2 DEF Attended
<1>7. ServerTyped' /\ HistoryTyped'
  BY Typed DEF ServerTyped, HistoryTyped
<1>8. ChatTyped'
  <2>1. session' \in [status : {"none", "starting", "ready", "context_lost", "closed"},
                      id : Sessions \union {0}, thread : BOOLEAN]
    BY <1>1
  <2>2. turn' \in [status : {"none", "starting", "running", "interrupting"} \union Terminal,
                   id : Turns \union {0}, bound : BOOLEAN]
    BY <1>2 DEF NoTurn
  <2> QED BY <2>1, <2>2, Typed DEF ChatTyped
<1>9. ShownStored' /\ SavesFit'
  BY <1>2, Typed DEF ShownStored, IInv, SavesFit, NoTurn, HistoryTyped, Saves, Turns
<1>10. ServerFits' /\ StoppedIsQuiet'
  BY DEF IInv, ServerFits, HostRuns, StoppedIsQuiet
<1>11. ChatFits' /\ DispatcherFits'
  BY <1>1, <1>2 DEF IInv, ChatFits, DispatcherFits, IsLiveSession, IsActiveTurn, NoTurn,
     Quiet,
     ToolsOnlyInActiveTurn
<1> QED BY <1>5, <1>6, <1>7, <1>8, <1>9, <1>10, <1>11, Together

\* closeSession of the dispatcher and of the chat state.
LEMMA BothClosed ==
    ASSUME IInv, NEW s, CloseBoth(s), UNCHANGED <<consent, rows, turn, appServer>>
    PROVE  ChatTyped' /\ ChatFits' /\ DispatcherFits' /\ Mild /\ dispatcher'.turn = 0
<1> USE DEF CloseBoth
<1>1. ChatTyped
  BY Typed
<1>2. \/ session' = session
      \/ session' = [session EXCEPT !.status = "closed"] /\ ~IsActiveTurn
  OBVIOUS
<1>3. ChatTyped'
  BY <1>1, <1>2 DEF ChatTyped, Unbound
<1>4. ChatFits'
  BY <1>1, <1>2 DEF IInv, ChatFits, IsLiveSession, IsActiveTurn, ChatTyped
<1>5. DispatcherFits'
  BY DEF DispatcherFits, Unbound, Quiet, ToolsOnlyInActiveTurn
<1>6. Mild
  BY DEF Mild, Opening, Closable, Quiet, Unbound
<1> QED BY <1>3, <1>4, <1>5, <1>6 DEF Unbound

\* The rest of the host when a session is closed.
LEMMA ClosedHost ==
    ASSUME IInv, HostRuns, NEW s, CloseBoth(s),
           UNCHANGED <<consentVars, serverVars, turn, streamVars, historyVars, working>>
    PROVE  /\ ServerTyped' /\ ChatTyped' /\ HistoryTyped' /\ ShownStored' /\ Mild
           /\ ServerFits' /\ ChatFits' /\ DispatcherFits' /\ SavesFit'
           /\ StoppedIsQuiet'
<1> USE DEF consentVars, serverVars, streamVars, historyVars
<1>1. ChatTyped' /\ ChatFits' /\ DispatcherFits' /\ Mild /\ dispatcher'.turn = 0
  BY BothClosed
<1>2. ServerTyped' /\ HistoryTyped' /\ ShownStored'
  BY Typed DEF ServerTyped, HistoryTyped, ShownStored
<1>3. SavesFit'
  BY <1>1, <1>2, SavesStay DEF HistoryTyped
<1>4. ServerFits' /\ StoppedIsQuiet'
  BY DEF IInv, ServerFits, HostRuns, StoppedIsQuiet
<1> QED BY <1>1, <1>2, <1>3, <1>4

\* closeSession of the owner, to its first await.
LEMMA CloseKeepsIInv ==
    ASSUME IInv, HostRuns, ~ShuttingDown, NEW k \in Clients, CloseSession(k)
    PROVE  IInv'
<1> USE DEF CloseSession
<1>1. CASE CloseBoth(session.id) /\ UNCHANGED ops
  <2>1. /\ ServerTyped' /\ ChatTyped' /\ HistoryTyped' /\ ShownStored' /\ Mild
        /\ ServerFits' /\ ChatFits' /\ DispatcherFits' /\ SavesFit'
        /\ StoppedIsQuiet'
    BY <1>1, ClosedHost
  <2>2. OpsFit'
    BY <1>1, <2>1, NoneMoves, MildSpares DEF ProcessStays, serverVars
  <2>3. Attended'
    BY <1>1, AttendedKept DEF serverVars, consentVars
  <2> QED BY <2>1, <2>2, <2>3, Together
<1>2. CASE /\ process = "ready" /\ Call(k, "close", "unsubscribe", session.id, 0)
           /\ UNCHANGED <<dispatcher, conversation, session>>
  <2>1. PICK s \in Sessions \union {0} : s = session.id
    BY Typed DEF ChatTyped
  <2>2. \A j \in Clients : Spares(ops[j])
    BY <1>2, Unmoved, MildSpares DEF consentVars, historyVars
  <2>3. [kind |-> "close", step |-> "unsubscribe", session |-> s, turn |-> 0, cut |-> FALSE]
           \in Operations
    BY DEF Operations
  <2>4. StepOfKind([kind |-> "close", step |-> "unsubscribe", session |-> s, turn |-> 0,
                    cut |-> FALSE])
    BY DEF StepOfKind, Idle, Creating, Starting, Ending
  <2>5. OpsFit'
    BY <1>2, <2>1, <2>2, <2>3, <2>4, CallFits DEF ProcessStays, serverVars, Creating
  <2>6. \A j \in Clients : /\ ops[j].step # "none" => ops'[j] = ops[j]
                           /\ ops'[j].step = "prepare" => ops'[j] = ops[j]
    BY <1>2 DEF Call, IInv, OpsFit, Idle
  <2>7. Attended'
    BY <2>6, AttendedKept DEF serverVars, consentVars
  <2> QED BY <1>2, <2>5, <2>7, CommandsMove, Typed DEF chatVars, toolVars, HistoryTyped
<1> QED BY <1>1, <1>2

\* startTurn, to its first await.
LEMMA StartKeepsIInv ==
    ASSUME IInv, HostRuns, ~ShuttingDown, NEW k \in Clients, StartTurn(k)
    PROVE  IInv'
<1> USE DEF StartTurn
<1>1. PICK t \in Turns : /\ rows[t] = "none" /\ \A j \in Clients : ops[j].turn # t
                         /\ Call(k, "turn", "reserve", session.id, t)
  OBVIOUS
<1>2. PICK s \in Sessions \union {0} : s = session.id
  BY Typed DEF ChatTyped
<1>3. \A j \in Clients : Spares(ops[j])
  BY Unmoved, MildSpares DEF consentVars, historyVars, chatVars, toolVars
<1>4. [kind |-> "turn", step |-> "reserve", session |-> s, turn |-> t, cut |-> FALSE]
         \in Operations
  BY DEF Operations
<1>5. StepOfKind([kind |-> "turn", step |-> "reserve", session |-> s, turn |-> t, cut |-> FALSE])
  BY DEF StepOfKind, Idle, Creating, Starting, Ending
<1>6. OpsFit'
  <2>1. t # 0 /\ rows'[t] = "none" /\ "reserve" \notin ProviderSteps \union Creating
    BY <1>1 DEF Turns, historyVars, ProviderSteps, Creating
  <2>2. process' = process
    BY DEF serverVars
  <2> QED BY <1>1, <1>2, <1>3, <1>4, <1>5, <2>1, <2>2, CallFits DEF ProcessStays
<1>7. \A j \in Clients : /\ ops[j].step # "none" => ops'[j] = ops[j]
                         /\ ops'[j].step = "prepare" => ops'[j] = ops[j]
  BY <1>1 DEF Call, IInv, OpsFit, Idle
<1>8. Attended'
  BY <1>7, AttendedKept DEF serverVars, consentVars
<1> QED BY <1>6, <1>8, CommandsMove, Typed DEF HistoryTyped

\* The synchronous part of interruptTurn, where it is asked for.
LEMMA TurnInterrupted ==
    ASSUME IInv, UNCHANGED <<session, conversation, rows, saves, shown, appServer>>,
           turn' = turn \/ (turn' = [turn EXCEPT !.status = "interrupting"] /\ IsActiveTurn),
           dispatcher' = IF Interruptible THEN AbortedTurn ELSE dispatcher
    PROVE  /\ ChatTyped' /\ ChatFits' /\ DispatcherFits' /\ SavesFit' /\ ShownStored' /\ Quiet'
           /\ (consent # "granted" => consent' # "granted") => Mild
<1>1. ChatTyped
  BY Typed
<1>2. /\ turn' \in [status : {"none", "starting", "running", "interrupting"} \union Terminal,
                    id : Turns \union {0}, bound : BOOLEAN]
      /\ turn'.id = turn.id /\ turn'.bound = turn.bound
      /\ turn' = turn \/ (turn'.status = "interrupting" /\ IsActiveTurn)
  BY <1>1 DEF ChatTyped
<1>3. AbortedTurn \in [session : Sessions \union {0}, turn : Turns \union {0},
                       aborted : BOOLEAN, busy : BOOLEAN]
      /\ AbortedTurn.session = dispatcher.session /\ AbortedTurn.turn = dispatcher.turn
      /\ (dispatcher.turn # 0 => AbortedTurn.aborted)
  BY <1>1 DEF AbortedTurn, ChatTyped
<1>4. /\ dispatcher' \in [session : Sessions \union {0}, turn : Turns \union {0},
                          aborted : BOOLEAN, busy : BOOLEAN]
      /\ dispatcher'.session = dispatcher.session /\ dispatcher'.turn = dispatcher.turn
  BY <1>1, <1>3 DEF ChatTyped
<1>5. Quiet'
  <2>1. CASE Interruptible
    BY <1>3, <2>1 DEF Quiet
  <2>2. CASE ~Interruptible
    BY <2>2 DEF Quiet, Interruptible, IInv, DispatcherFits, ToolsOnlyInActiveTurn,
       IsActiveTurn
  <2> QED BY <2>1, <2>2
<1>6. ChatTyped'
  BY <1>1, <1>2, <1>4 DEF ChatTyped
<1>7. ChatFits'
  BY <1>2 DEF IInv, ChatFits, IsLiveSession, IsActiveTurn
<1>8. DispatcherFits'
  BY <1>4, <1>5 DEF IInv, DispatcherFits, Quiet, ToolsOnlyInActiveTurn
<1>9. SavesFit' /\ ShownStored'
  BY <1>2, <1>4, Typed DEF IInv, SavesFit, ShownStored
<1>10. (consent # "granted" => consent' # "granted") => Mild
  BY <1>2, <1>4, <1>5 DEF Mild, Opening
<1> QED BY <1>5, <1>6, <1>7, <1>8, <1>9, <1>10

\* A revocation that the reducer is told of, up to its first await.
LEMMA RevocationKeepsIInv ==
    ASSUME IInv, HostRuns, ~ShuttingDown, NEW k \in Clients, RevokeConsent(k),
           RaiseBarrier(k)
    PROVE  IInv'
<1> DEFINE step == IF Interruptible /\ turn.bound /\ process = "ready"
                   THEN "interrupt" ELSE "interrupted"
<1>1. /\ ops[k] = Idle /\ journal' = "pending" /\ consent' = "revoke_pending"
      /\ journal \in {"granted", "pending"} /\ Call(k, "revoke", step, 0, 0)
      /\ UNCHANGED <<serverVars, session, conversation, streamVars, historyVars, working>>
  BY DEF RevokeConsent, RaiseBarrier
<1>2. /\ ChatTyped' /\ ChatFits' /\ DispatcherFits' /\ SavesFit' /\ ShownStored' /\ Quiet' /\ Mild
  BY <1>1, TurnInterrupted DEF RaiseBarrier, historyVars, serverVars
<1>3. step \in {"interrupt", "interrupted"} /\ (step = "interrupt" => process = "ready")
  OBVIOUS
<1>4. (\E j \in Clients : ops[j].step \in Creating) => step = "interrupted"
  BY DEF IInv, OpsFit, Fits, Opening, Interruptible
<1> HIDE DEF step
<1>5. OpsFit'
  <2>1. [kind |-> "revoke", step |-> step, session |-> 0, turn |-> 0, cut |-> FALSE] \in Operations
    BY <1>3 DEF Operations
  <2>2. StepOfKind([kind |-> "revoke", step |-> step, session |-> 0, turn |-> 0, cut |-> FALSE])
    BY <1>3 DEF StepOfKind, Idle, Creating, Starting, Ending, LastCommands
  <2>3. process' = process /\ (step \in ProviderSteps => process' = "ready")
    BY <1>1, <1>3 DEF serverVars, ProviderSteps
  <2> QED BY <1>1, <1>2, <1>3, <2>1, <2>2, <2>3, CallFits, MildSpares DEF ProcessStays,
     Creating
<1>6. /\ ops'[k].step = step
      /\ \A j \in Clients : ops[j].step # "none" => ops'[j] = ops[j]
      /\ \A j \in Clients : ops'[j].step = "prepare" => ops'[j] = ops[j]
  BY <1>1, <1>3 DEF Call, IInv, OpsFit, Idle
<1>7. Attended'
  <2>1. ASSUME NEW j \in Clients, ops'[j].step = "prepare" PROVE Barrier'
    BY <1>4, <1>6, <2>1 DEF Barrier, Creating
  <2> QED BY <1>1, <1>6, <2>1 DEF IInv, Attended, serverVars
<1>8. ServerTyped' /\ HistoryTyped'
  BY <1>1, Typed DEF ServerTyped, HistoryTyped, serverVars, streamVars, historyVars
<1>9. ServerFits' /\ StoppedIsQuiet'
  BY <1>1 DEF IInv, ServerFits, HostRuns, StoppedIsQuiet, serverVars
<1> QED BY <1>2, <1>5, <1>7, <1>8, <1>9, Together

\* One of which only the journal knows changes nothing else.
LEMMA RecordKeepsIInv ==
    ASSUME IInv, HostRuns, NEW k \in Clients, RevokeConsent(k), ~RaiseBarrier(k)
    PROVE  IInv'
<1> USE DEF RevokeConsent, serverVars, streamVars, historyVars
<1>1. Mild /\ ProcessStays
  BY Unmoved DEF ProcessStays
<1>2. OpsFit'
  BY <1>1, NoneMoves, MildSpares
<1>3. Attended'
  BY AttendedKept
<1>4. ServerTyped' /\ ChatTyped' /\ HistoryTyped' /\ ShownStored'
  BY Typed DEF ServerTyped, ChatTyped, HistoryTyped, ShownStored
<1>5. ServerFits' /\ ChatFits' /\ StoppedIsQuiet'
  BY DEF IInv, ServerFits, ChatFits, IsLiveSession, IsActiveTurn, HostRuns, StoppedIsQuiet
<1>6. DispatcherFits' /\ SavesFit'
  BY DEF IInv, DispatcherFits, SavesFit, Quiet, ToolsOnlyInActiveTurn
<1> QED BY <1>2, <1>3, <1>4, <1>5, <1>6, Together

\* The shutdown of main.ts, up to where stop() waits.
LEMMA ShutdownKeepsIInv ==
    ASSUME IInv, HostRuns, ~ShuttingDown, NEW k \in Clients, Shutdown(k)
    PROVE  IInv'
<1> DEFINE step == IF Interruptible /\ turn.bound /\ process = "ready"
                   THEN "interrupt" ELSE "interrupted"
<1>1. /\ \A j \in Clients : ops[j] = Idle
      /\ Call(k, "shutdown", step, 0, 0)
      /\ UNCHANGED <<consentVars, serverVars, session, conversation, streamVars, historyVars,
                     working>>
  BY DEF Shutdown
<1>2. /\ ChatTyped' /\ ChatFits' /\ DispatcherFits' /\ SavesFit' /\ ShownStored' /\ Quiet' /\ Mild
  BY <1>1, TurnInterrupted DEF Shutdown, historyVars, serverVars, consentVars, Interruptible
<1>3. step \in {"interrupt", "interrupted"} /\ (step = "interrupt" => process = "ready")
  OBVIOUS
<1> HIDE DEF step
<1>4. OpsFit'
  <2>1. [kind |-> "shutdown", step |-> step, session |-> 0, turn |-> 0, cut |-> FALSE] \in Operations
    BY <1>3 DEF Operations
  <2>2. StepOfKind([kind |-> "shutdown", step |-> step, session |-> 0, turn |-> 0, cut |-> FALSE])
    BY <1>3 DEF StepOfKind, Idle, Creating, Starting, Ending, LastCommands
  <2>3. process' = process /\ (step \in ProviderSteps => process' = "ready")
    BY <1>1, <1>3 DEF serverVars, ProviderSteps
  <2> QED BY <1>1, <1>2, <1>3, <2>1, <2>2, <2>3, CallFits, MildSpares DEF ProcessStays,
     Creating
<1>5. \A j \in Clients : ops[j].step = "none" /\ ops'[j].step # "prepare"
  BY <1>1, <1>3 DEF Call, IInv, OpsFit, Idle
<1>6. Attended'
  BY <1>1, <1>5 DEF IInv, Attended, serverVars
<1>7. ServerTyped' /\ HistoryTyped'
  BY <1>1, Typed DEF ServerTyped, HistoryTyped, serverVars, streamVars, historyVars,
     consentVars
<1>8. ServerFits' /\ StoppedIsQuiet'
  BY <1>1 DEF IInv, ServerFits, HostRuns, StoppedIsQuiet, serverVars,
     consentVars
<1> QED BY <1>2, <1>4, <1>6, <1>7, <1>8, Together

-----------------------------------------------------------------------------
(* The answers, and what goes on at once *)

\* The steps that others rely on.
Relied == {"stop", "startup_failed", "closed", "interrupted", "persisted"}

\* Nobody relies on command k, which ends or goes on.
LEMMA MoveAttended ==
    ASSUME IInv, NEW k \in Clients, ops[k].step \notin Relied,
           \/ Finish(k)
           \/ \E step : Goto(k, step) /\ step # "prepare",
           UNCHANGED consent,
           \/ UNCHANGED <<process, appServer>>
           \/ process' \notin {"stopping", "ready"}
           \/ process' = "ready" /\ appServer' = "ready"
    PROVE  Attended'
<1>1. ops \in [Clients -> Operations]
  BY DEF IInv, OpsFit
<1>2. /\ \A j \in Clients \ {k} : ops'[j] = ops[j]
      /\ ops'[k].step # "prepare"
  <2>1. CASE Finish(k)
    BY <1>1, <2>1 DEF Finish, Idle
  <2>2. ASSUME NEW step, Goto(k, step), step # "prepare"
        PROVE  (\A j \in Clients \ {k} : ops'[j] = ops[j]) /\ ops'[k].step # "prepare"
    BY <1>1, <2>2 DEF Goto, Operations
  <2> QED BY <2>1, <2>2
<1> QED BY <1>2, AttendedKept DEF Relied

\* The whole state but the commands.
LEMMA StateKept ==
    ASSUME IInv, HostRuns, working' \subseteq Turns,
           UNCHANGED <<consentVars, serverVars, chatVars, toolVars, streamVars, saves, rows, shown>>
    PROVE  /\ ServerTyped' /\ ChatTyped' /\ HistoryTyped' /\ ShownStored'
           /\ ServerFits' /\ ChatFits' /\ DispatcherFits' /\ SavesFit'
           /\ StoppedIsQuiet' /\ Mild /\ ProcessStays
<1> USE DEF consentVars, serverVars, chatVars, toolVars, streamVars
<1>1. ServerTyped' /\ ChatTyped' /\ HistoryTyped' /\ ShownStored'
  BY Typed DEF ServerTyped, ChatTyped, HistoryTyped, ShownStored
<1>2. ServerFits' /\ ChatFits'
  BY DEF IInv, ServerFits, ChatFits, IsLiveSession, IsActiveTurn
<1>3. DispatcherFits' /\ SavesFit'
  BY DEF IInv, DispatcherFits, SavesFit, Quiet, ToolsOnlyInActiveTurn
<1>4. StoppedIsQuiet' /\ ProcessStays
  BY DEF HostRuns, StoppedIsQuiet, ProcessStays
<1>5. Mild
  BY Unmoved
<1> QED BY <1>1, <1>2, <1>3, <1>4, <1>5

\* initialize was answered: the process is ready, the account is read.
LEMMA StartedKeepsIInv ==
    ASSUME IInv, HostRuns, NEW k \in Clients, Started(k)
    PROVE  IInv'
<1> USE DEF Started
<1>1. Mild
  BY Unmoved DEF consentVars, chatVars, toolVars, historyVars
<1>2. ProcessStays
  BY DEF ProcessStays
<1>3. ops \in [Clients -> Operations] /\ ops[k] \in Operations /\ Fits(ops[k])
      /\ ops[k].kind \in {"start", "refresh"}
  BY DEF IInv, OpsFit, Fits, StepOfKind
<1>4. /\ ops'[k] = [ops[k] EXCEPT !.step = "account", !.cut = FALSE]
      /\ \A j \in Clients \ {k} : ops'[j] = ops[j]
  BY <1>3 DEF Goto
<1>5. /\ ops'[k] \in Operations /\ ops'[k].step = "account" /\ ~ops'[k].cut
      /\ ops'[k].kind = ops[k].kind
  BY <1>3, <1>4 DEF Operations
<1>6. ops' \in [Clients -> Operations]
  BY <1>3, <1>5 DEF Goto
<1>7. Fits(ops[k])'
  <2>1. StepOfKind(ops[k])'
    BY <1>3, <1>5 DEF StepOfKind, Idle, Creating, Starting, Ending
  <2> QED BY <1>3, <1>5, <2>1 DEF Fits, Creating
<1>8. \A j \in Clients \ {k} : Apart(ops[j], ops[k])' /\ Apart(ops[k], ops[j])'
  <2> SUFFICES ASSUME NEW j \in Clients \ {k}
               PROVE  Apart(ops[j], ops[k])' /\ Apart(ops[k], ops[j])'
    OBVIOUS
  <2>1. Apart(ops[j], ops[k]) /\ Apart(ops[k], ops[j]) /\ ops'[j] = ops[j] /\ ops[k] # Idle
    BY <1>3, <1>4 DEF IInv, OpsFit, Idle
  <2> QED BY <1>3, <1>5, <2>1 DEF Apart, Starting, Creating
<1>9. OpsFit'
  BY <1>1, <1>2, <1>4, <1>6, <1>7, <1>8, OneMoves, MildSpares
<1>10. Attended'
  BY MoveAttended DEF Relied, consentVars
<1>11. ChatTyped' /\ HistoryTyped' /\ ShownStored' /\ SavesFit'
  BY HostKept, Typed DEF HistoryTyped
<1>12. ServerTyped' /\ ServerFits'
  BY Typed DEF ServerTyped, IInv, ServerFits, consentVars
<1>13. ChatFits'
  BY DEF IInv, ServerFits, ChatFits, IsLiveSession, IsActiveTurn, chatVars, historyVars
<1>14. DispatcherFits' /\ StoppedIsQuiet'
  BY DEF IInv, DispatcherFits, Quiet, ToolsOnlyInActiveTurn, HostRuns,
     StoppedIsQuiet, consentVars, chatVars, toolVars
<1> QED BY <1>9, <1>10, <1>11, <1>12, <1>13, <1>14, Together

\* It was not: the process is stopped, by this command.
LEMMA StartFailsKeepsIInv ==
    ASSUME IInv, HostRuns, NEW k \in Clients, StartFails(k)
    PROVE  IInv'
<1> USE DEF StartFails
<1>1. /\ Mild /\ ChatTyped' /\ HistoryTyped' /\ ShownStored'
      /\ ChatFits' /\ DispatcherFits' /\ SavesFit'
      /\ appServer' = "crashed" \/ (appServer' = appServer /\ appServer = "stopped")
      /\ host' \in {host, "degraded"}
  BY Fatal, Typed DEF HistoryTyped, consentVars
<1>2. appServer' = "crashed"
  BY <1>1 DEF IInv, ServerFits
<1>3. ops \in [Clients -> Operations] /\ ops[k] \in Operations /\ Fits(ops[k])
      /\ ops[k].kind \in {"start", "refresh"}
  BY DEF IInv, OpsFit, Fits, StepOfKind
<1>4. /\ ops'[k] = [ops[k] EXCEPT !.step = "startup_failed", !.cut = FALSE]
      /\ \A j \in Clients \ {k} : ops'[j] = ops[j]
  BY <1>3 DEF Goto
<1>5. /\ ops'[k] \in Operations /\ ops'[k].step = "startup_failed" /\ ~ops'[k].cut
      /\ ops'[k].kind = ops[k].kind
  BY <1>3, <1>4 DEF Operations
<1>6. ops' \in [Clients -> Operations]
  BY <1>3, <1>5 DEF Goto
<1>7. Fits(ops[k])'
  <2>1. StepOfKind(ops[k])'
    BY <1>3, <1>5 DEF StepOfKind, Idle, Creating, Starting, Ending, ProviderSteps
  <2> QED BY <1>3, <1>5, <2>1 DEF Fits, Creating, ProviderSteps
<1>8. \A j \in Clients \ {k} : Apart(ops[j], ops[k])' /\ Apart(ops[k], ops[j])'
  <2> SUFFICES ASSUME NEW j \in Clients \ {k}
               PROVE  Apart(ops[j], ops[k])' /\ Apart(ops[k], ops[j])'
    OBVIOUS
  <2>1. Apart(ops[j], ops[k]) /\ Apart(ops[k], ops[j]) /\ ops'[j] = ops[j] /\ ops[k] # Idle
    BY <1>3, <1>4 DEF IInv, OpsFit, Idle
  <2> QED BY <1>3, <1>5, <2>1 DEF Apart, Starting, Creating
<1>9. OpsFit'
  BY <1>1, <1>4, <1>6, <1>7, <1>8, OneMoves, MildSpares DEF ProcessStays
<1>10. Attended'
  <2>1. \A j \in Clients : /\ ops[j].step \in {"interrupted", "persisted", "closed"} =>
                                ops'[j].step = ops[j].step
                           /\ ops'[j].step = "prepare" => ops'[j] = ops[j]
    BY <1>4, <1>5
  <2> QED BY <1>5, <2>1 DEF IInv, Attended, Barrier, consentVars
<1>11. ServerTyped' /\ ServerFits' 
  BY <1>1, <1>2, Typed DEF ServerTyped, IInv, ServerFits, consentVars
<1>12. StoppedIsQuiet'
  BY <1>1 DEF HostRuns, StoppedIsQuiet
<1> QED BY <1>1, <1>9, <1>10, <1>11, <1>12, Together

\* account/read was answered, or was not.
LEMMA AccountKeepsIInv ==
    ASSUME IInv, HostRuns, NEW k \in Clients, AccountRead(k) \/ AccountFails(k)
    PROVE  IInv'
<1>1. /\ ops[k].step = "account" /\ Finish(k)
      /\ UNCHANGED <<consentVars, host, appServer, process, conversation, starting, early,
                     rows, shown, working>>
  BY DEF AccountRead, AccountFails, Answered
<1>2. /\ \/ UNCHANGED <<auth, session, turn, dispatcher, projector, saves>>
         \/ SyncAuth("logged_out") \/ SyncAuth("authenticated")
      /\ account' \in {account, "logged_out", "authenticated"}
  BY DEF AccountRead, AccountFails, SetStatus
<1>3. /\ Mild /\ ChatTyped' /\ HistoryTyped' /\ ShownStored'
      /\ ChatFits' /\ DispatcherFits' /\ SavesFit'
  <2>1. CASE UNCHANGED <<auth, session, turn, dispatcher, projector, saves>>
    <3>1. Mild
      BY <1>1, <2>1, Unmoved DEF consentVars
    <3>2. ChatTyped' /\ HistoryTyped' /\ ShownStored'
      BY <1>1, <2>1, Typed DEF ChatTyped, HistoryTyped, ShownStored
    <3>3. ChatFits' /\ DispatcherFits' /\ SavesFit'
      BY <1>1, <2>1 DEF IInv, ChatFits, DispatcherFits, SavesFit, IsLiveSession,
         IsActiveTurn,
         Quiet, ToolsOnlyInActiveTurn, consentVars
    <3> QED BY <3>1, <3>2, <3>3
  <2>2. CASE SyncAuth("logged_out") \/ SyncAuth("authenticated")
    BY <1>1, <2>2, AuthSynced, Typed DEF HistoryTyped, consentVars
  <2> QED BY <1>2, <2>1, <2>2
<1>4. OpsFit'
  BY <1>1, <1>3, FinishFits, MildSpares DEF ProcessStays
<1>5. Attended'
  BY <1>1, MoveAttended DEF Relied, consentVars
<1>6. ServerTyped' /\ ServerFits' /\ StoppedIsQuiet'
  <2>1. auth' \in {auth, "logged_out", "authenticated"}
    BY <1>2 DEF SyncAuth
  <2> QED BY <1>1, <1>2, <2>1, Typed DEF ServerTyped, IInv, ServerFits,
          HostRuns, StoppedIsQuiet, consentVars
<1> QED BY <1>3, <1>4, <1>5, <1>6, Together

\* An answer that only lets its command go on or end.
LEMMA OnlyMovesKeepsIInv ==
    ASSUME IInv, HostRuns, NEW k \in Clients,
           Prepared(k) \/ ThreadStarted(k) \/ UnsubscribeFails(k) \/ Interrupted(k)
    PROVE  IInv'
<1>1. UNCHANGED <<consentVars, serverVars, chatVars, toolVars, streamVars, historyVars, working>>
  BY DEF Prepared, ThreadStarted, UnsubscribeFails, Interrupted
<1>2. Mild /\ ProcessStays /\ UNCHANGED <<consent, process, appServer>>
  BY <1>1, StateKept, Typed DEF historyVars, consentVars, serverVars, HistoryTyped
<1>3. Fits(ops[k]) /\ ops[k] \in Operations
  BY DEF IInv, OpsFit, Fits
<1>4. OpsFit' /\ Attended'
  <2>1. CASE Prepared(k)
    <3>1. /\ ops[k].step = "prepare" /\ process' = "ready" /\ Goto(k, "thread")
          /\ [ops[k] EXCEPT !.step = "thread"] \in Operations
      BY <1>2, <1>3, <2>1 DEF Prepared, Answered, Operations
    <3>2. OpsFit'
      BY <1>2, <3>1, GotoFits DEF Creating, Starting, Ending
    <3> QED BY <1>2, <3>1, <3>2, MoveAttended DEF Relied
  <2>2. CASE ThreadStarted(k)
    <3>1. /\ ops[k].step = "thread" /\ Goto(k, "bind")
          /\ [ops[k] EXCEPT !.step = "bind"] \in Operations
      BY <1>3, <2>2 DEF ThreadStarted, Answered, Operations
    <3>2. OpsFit'
      BY <1>2, <3>1, GotoFits DEF Creating, Starting, Ending, ProviderSteps
    <3> QED BY <1>2, <3>1, <3>2, MoveAttended DEF Relied
  <2>3. CASE UnsubscribeFails(k)
    <3>1. ops[k].step = "unsubscribe" /\ Finish(k)
      BY <2>3 DEF UnsubscribeFails
    <3>2. OpsFit'
      BY <1>2, <3>1, FinishFits, MildSpares
    <3> QED BY <1>2, <3>1, <3>2, MoveAttended DEF Relied
  <2>4. CASE Interrupted(k)
    <3>1. /\ ops[k].step = "interrupt" /\ Goto(k, "interrupted")
          /\ [ops[k] EXCEPT !.step = "interrupted"] \in Operations
          /\ ops[k].kind \in LastCommands
      BY <1>3, <2>4 DEF Interrupted, Operations, Fits, StepOfKind, Ending
    <3>2. OpsFit'
      BY <1>2, <3>1, GotoFits DEF Creating, Starting, Ending, ProviderSteps
    <3> QED BY <1>2, <3>1, <3>2, MoveAttended DEF Relied
  <2> QED BY <2>1, <2>2, <2>3, <2>4
<1> QED BY <1>1, <1>4, CommandsMove, Typed DEF HistoryTyped

\* createSession at its end: the dispatcher and the chat state open the session.
LEMMA OpenKeepsIInv ==
    ASSUME IInv, HostRuns, NEW k \in Clients, OpenSession(k)
    PROVE  IInv'
<1> USE DEF OpenSession
<1>1. PICK s \in Sessions \union {0} : s = ops[k].session
  BY DEF IInv, OpsFit, Operations
<1>2. /\ ops[k].step \in Creating /\ ops[k].step \notin Relied /\ ops[k] # Idle
      /\ session.id = s /\ session.status \in {"starting", "context_lost"} /\ ~session.thread
  BY <1>1 DEF Answered, IInv, OpsFit, Fits, Opening, Creating, Relied, Idle
<1>3. /\ dispatcher = Unbound /\ conversation' = TRUE
      /\ \/ /\ dispatcher' = [Unbound EXCEPT !.session = s]
            /\ session' = [session EXCEPT !.status = "ready", !.thread = TRUE]
            /\ session.status = "starting"
         \/ /\ dispatcher' = Unbound
            /\ session' \in {session, [session EXCEPT !.status = "context_lost"]}
  BY <1>1
<1>4. /\ dispatcher' \in [session : Sessions \union {0}, turn : Turns \union {0},
                          aborted : BOOLEAN, busy : BOOLEAN]
      /\ dispatcher'.turn = 0 /\ dispatcher'.session \in {0, s}
  <2>1. 0 \in Turns \union {0} /\ 0 \in Sessions \union {0}
    OBVIOUS
  <2>2. CASE dispatcher' = [Unbound EXCEPT !.session = s]
    BY <1>1, <2>1, <2>2 DEF Unbound
  <2>3. CASE dispatcher' = Unbound
    BY <2>1, <2>3 DEF Unbound
  <2> QED BY <1>3, <2>2, <2>3
<1>5. /\ session' \in [status : {"none", "starting", "ready", "context_lost", "closed"},
                       id : Sessions \union {0}, thread : BOOLEAN]
      /\ session'.id = s
      /\ dispatcher'.session # 0 => session'.status = "ready" /\ session'.thread
      /\ session'.status = "ready" => session.status = "starting"
      /\ session'.status = "starting" => session.status = "starting"
  <2>1. session \in [status : {"none", "starting", "ready", "context_lost", "closed"},
                     id : Sessions \union {0}, thread : BOOLEAN]
    BY Typed DEF ChatTyped
  <2>2. CASE session' = [session EXCEPT !.status = "ready", !.thread = TRUE]
             /\ session.status = "starting"
    BY <1>2, <2>1, <2>2
  <2>3. CASE /\ dispatcher' = Unbound
             /\ session' \in {session, [session EXCEPT !.status = "context_lost"]}
    <3>1. dispatcher'.session = 0
      BY <2>3 DEF Unbound
    <3>2. CASE session' = session
      BY <1>2, <2>1, <3>1, <3>2
    <3>3. CASE session' = [session EXCEPT !.status = "context_lost"]
      BY <1>2, <2>1, <3>1, <3>3
    <3> QED BY <2>3, <3>2, <3>3
  <2> QED BY <1>3, <2>2, <2>3
<1>6. \A j \in Clients \ {k} : Spares(ops[j])
  <2> SUFFICES ASSUME NEW j \in Clients \ {k} PROVE Spares(ops[j])
    OBVIOUS
  <2>1. ops[j].step \notin Creating
    BY <1>2 DEF IInv, OpsFit, Apart
  <2> QED BY <1>4, <2>1 DEF Spares, Quiet, consentVars, historyVars
<1>7. OpsFit'
  BY <1>6, FinishFits DEF ProcessStays, serverVars
<1>8. Attended'
  BY <1>2, MoveAttended DEF consentVars, serverVars
<1>9. ServerTyped' /\ HistoryTyped' /\ ShownStored' /\ ServerFits'
  BY Typed DEF ServerTyped, HistoryTyped, ShownStored, IInv, ServerFits,
     consentVars, serverVars, streamVars, historyVars
<1>10. ChatTyped' /\ DispatcherFits'
  BY <1>3, <1>4, <1>5, Typed DEF ChatTyped, DispatcherFits, Quiet, ToolsOnlyInActiveTurn
<1>11. ChatFits'
  BY <1>2, <1>5 DEF IInv, ChatFits, IsLiveSession, IsActiveTurn, serverVars, historyVars
<1>12. SavesFit'
  BY <1>4, <1>9, SavesStay DEF HistoryTyped, historyVars
<1>13. StoppedIsQuiet'
  BY DEF HostRuns, StoppedIsQuiet, serverVars
<1> QED BY <1>7, <1>8, <1>9, <1>10, <1>11, <1>12, <1>13, Together

\* createSession without its answers.
LEMMA CreateFailsKeepsIInv ==
    ASSUME IInv, HostRuns, NEW k \in Clients, CreateFails(k)
    PROVE  IInv'
<1> USE DEF CreateFails
<1>1. ops[k].step \notin Relied
  BY DEF IInv, OpsFit, Fits, StepOfKind, Relied, Ending, LastCommands
<1>2. \/ session' = session
      \/ session' = [session EXCEPT !.status = "context_lost"] /\ session.status = "starting"
  OBVIOUS
<1>3. /\ session' \in [status : {"none", "starting", "ready", "context_lost", "closed"},
                       id : Sessions \union {0}, thread : BOOLEAN]
      /\ session'.id = session.id /\ session'.thread = session.thread
      /\ \/ session' = session
         \/ session'.status = "context_lost" /\ session.status = "starting"
  BY <1>2, Typed DEF ChatTyped
<1>4. Mild
  BY <1>3 DEF Mild, Opening, Quiet, consentVars, historyVars, toolVars
<1>5. OpsFit'
  BY <1>4, FinishFits, MildSpares DEF ProcessStays, serverVars
<1>6. Attended'
  BY <1>1, MoveAttended DEF consentVars, serverVars
<1>7. ServerTyped' /\ HistoryTyped' /\ ShownStored' /\ ServerFits'
  BY Typed DEF ServerTyped, HistoryTyped, ShownStored, IInv, ServerFits,
     consentVars, serverVars, streamVars, historyVars
<1>8. ChatTyped' /\ DispatcherFits'
  BY <1>3, Typed DEF ChatTyped, IInv, DispatcherFits, Quiet, ToolsOnlyInActiveTurn,
     toolVars,
     consentVars
<1>9. ChatFits'
  BY <1>3 DEF IInv, ChatFits, IsLiveSession, IsActiveTurn, serverVars, historyVars
<1>10. SavesFit' /\ StoppedIsQuiet'
  BY DEF IInv, SavesFit, HostRuns, StoppedIsQuiet, serverVars, historyVars, toolVars
<1> QED BY <1>5, <1>6, <1>7, <1>8, <1>9, <1>10, Together

\* The provider let go of the session the owner closes.
LEMMA UnsubscribedKeepsIInv ==
    ASSUME IInv, HostRuns, NEW k \in Clients, Unsubscribed(k)
    PROVE  IInv'
<1> USE DEF Unsubscribed
<1>1. PICK s : s = ops[k].session
  OBVIOUS
<1>2. /\ ServerTyped' /\ ChatTyped' /\ HistoryTyped' /\ ShownStored' /\ Mild
      /\ ServerFits' /\ ChatFits' /\ DispatcherFits' /\ SavesFit'
      /\ StoppedIsQuiet'
  <2>1. CASE CloseBoth(s)
    BY <2>1, ClosedHost
  <2>2. CASE UNCHANGED <<dispatcher, conversation, session>>
    BY <2>2, StateKept, Typed DEF chatVars, toolVars, historyVars, HistoryTyped
  <2> QED BY <1>1, <2>1, <2>2
<1>3. OpsFit'
  BY <1>2, FinishFits, MildSpares DEF ProcessStays, serverVars
<1>4. Attended'
  BY MoveAttended DEF Relied, Answered, consentVars, serverVars
<1> QED BY <1>2, <1>3, <1>4, Together

\* A command in a starting step leaves its turn to itself.
LEMMA StartsAlone ==
    ASSUME IInv, NEW k \in Clients, ops[k].step \in Starting,
           NEW t, t = ops[k].turn,
           UNCHANGED <<consent, session, dispatcher>>,
           \A u \in Turns \ {t} : rows[u] = "none" <=> rows'[u] = "none",
           turn' = turn \/ turn'.id = t
    PROVE  /\ t \in Turns /\ ops[k].step \notin Relied /\ ops[k].kind = "turn"
           /\ \A j \in Clients \ {k} : Spares(ops[j])
<1>1. t \in Turns /\ ops[k].step \notin Relied /\ ops[k].kind = "turn"
  BY DEF IInv, OpsFit, Operations, Fits, StepOfKind, Starting, Relied
<1>2. \A j \in Clients \ {k} : Spares(ops[j])
  <2> SUFFICES ASSUME NEW j \in Clients \ {k} PROVE Spares(ops[j])
    OBVIOUS
  <2>1. ops[j].step \in Starting => ops[j].turn # t /\ ops[j].turn \in Turns
    BY DEF IInv, OpsFit, Operations, Fits, Apart, Starting
  <2> QED BY <2>1 DEF Spares, Quiet, Opening, Starting
<1> QED BY <1>1, <1>2

\* startTurn after the API's reservation, up to the provider's answer.
LEMMA ReservedKeepsIInv ==
    ASSUME IInv, HostRuns, NEW k \in Clients, Reserved(k)
    PROVE  IInv'
<1> USE DEF Reserved
<1>1. PICK t : t = ops[k].turn
  OBVIOUS
<1>2. /\ ops[k].step = "reserve" /\ Goto(k, "turn_start")
      /\ rows' = [rows EXCEPT ![t] = "reserved"]
      /\ turn' = [status |-> "starting", id |-> t, bound |-> FALSE]
      /\ working' = working \union {t}
      /\ session.status = "ready" /\ consent = "granted" /\ ~IsActiveTurn
  BY <1>1 DEF ReserveConversationTurn, Startable
<1>3. /\ t \in Turns /\ ops[k].step \notin Relied /\ ops[k].kind = "turn"
      /\ \A j \in Clients \ {k} : Spares(ops[j])
  BY <1>1, <1>2, StartsAlone, Typed DEF Starting, HistoryTyped, consentVars, toolVars
<1>4. /\ rows' \in [Turns -> Terminal \union {"none", "reserved"}]
      /\ rows[t] = "none" /\ rows'[t] = "reserved" /\ t # 0
      /\ \A u \in Turns \ {t} : rows'[u] = rows[u]
  BY <1>1, <1>2, <1>3, Typed DEF HistoryTyped, IInv, OpsFit, Fits
<1>5. consent = "granted" /\ process = "ready" /\ appServer = "ready"
  BY <1>2, Typed DEF Startable, IInv, ChatFits, ServerFits, IsLiveSession,
     ServerTyped
<1>6. ops \in [Clients -> Operations] /\ ops[k] \in Operations /\ Fits(ops[k])
  BY DEF IInv, OpsFit, Fits
<1>7. /\ ops'[k] = [ops[k] EXCEPT !.step = "turn_start", !.cut = FALSE]
      /\ \A j \in Clients \ {k} : ops'[j] = ops[j]
  BY <1>2, <1>6 DEF Goto
<1>8. /\ ops'[k] \in Operations /\ ops'[k].step = "turn_start" /\ ~ops'[k].cut
      /\ ops'[k].kind = "turn" /\ ops'[k].turn = t
  BY <1>1, <1>3, <1>6, <1>7 DEF Operations
<1>9. ops' \in [Clients -> Operations]
  BY <1>2, <1>6, <1>8 DEF Goto
<1>10. Fits(ops[k])'
  <2>1. StepOfKind(ops[k])'
    BY <1>8 DEF StepOfKind, Idle, Creating, Starting, Ending
  <2>2. turn'.status # "running" /\ process' = "ready"
    BY <1>2, <1>5 DEF serverVars
  <2> QED BY <1>4, <1>8, <2>1, <2>2 DEF Fits, Creating
<1>11. \A j \in Clients \ {k} : Apart(ops[j], ops[k])' /\ Apart(ops[k], ops[j])'
  <2> SUFFICES ASSUME NEW j \in Clients \ {k}
               PROVE  Apart(ops[j], ops[k])' /\ Apart(ops[k], ops[j])'
    OBVIOUS
  <2>1. Apart(ops[j], ops[k]) /\ Apart(ops[k], ops[j]) /\ ops'[j] = ops[j] /\ ops[k] # Idle
    BY <1>2, <1>7 DEF IInv, OpsFit, Idle
  <2> QED BY <1>1, <1>2, <1>8, <2>1 DEF Apart, Starting, Creating
<1>12. OpsFit'
  BY <1>3, <1>7, <1>9, <1>10, <1>11, OneMoves DEF ProcessStays, serverVars
<1>13. Attended'
  BY <1>2, <1>3, MoveAttended DEF consentVars, serverVars
<1>14. ServerTyped' /\ ServerFits'
  BY Typed DEF ServerTyped, IInv, ServerFits, consentVars, serverVars
<1>15. ChatTyped' /\ HistoryTyped'
  BY <1>2, <1>3, <1>4, Typed DEF ChatTyped, HistoryTyped, toolVars
<1>16. ShownStored'
  BY <1>2, <1>4, Typed DEF ShownStored, HistoryTyped
<1>17. ChatFits'
  BY <1>2, <1>4, <1>5 DEF IInv, ChatFits, IsLiveSession, IsActiveTurn, serverVars
<1>18. DispatcherFits'
  <2>1. Quiet
    BY <1>2 DEF IInv, DispatcherFits, ToolsOnlyInActiveTurn, Quiet, IsActiveTurn
  <2> QED BY <2>1 DEF IInv, DispatcherFits, ToolsOnlyInActiveTurn, Quiet, toolVars,
     consentVars
<1>19. SavesFit'
  <2> SUFFICES ASSUME NEW s \in saves
               PROVE  /\ s.live => s.status = "completed"
                      /\ s.ends => /\ s.turn # dispatcher'.turn /\ rows'[s.turn] # "none"
                                   /\ turn'.id = s.turn => turn'.status # "starting"
    BY DEF SavesFit
  <2>1. s.turn \in Turns
    BY Typed DEF HistoryTyped, Saves
  <2> QED BY <1>2, <1>4, <2>1 DEF IInv, SavesFit, toolVars
<1>20. StoppedIsQuiet'
  BY DEF HostRuns, StoppedIsQuiet, serverVars
<1> QED BY <1>12, <1>13, <1>14, <1>15, <1>16, <1>17, <1>18, <1>19, <1>20, Together

\* No reservation, or none that is known of.
LEMMA ReserveFailsKeepsIInv ==
    ASSUME IInv, HostRuns, NEW k \in Clients, ReserveFails(k)
    PROVE  IInv'
<1> USE DEF ReserveFails
<1>1. PICK t : t = ops[k].turn
  OBVIOUS
<1>2. /\ ops[k].step = "reserve" /\ Finish(k)
      /\ rows' \in {rows, [rows EXCEPT ![t] = "reserved"]}
  BY <1>1 DEF ReserveConversationTurn
<1>3. /\ t \in Turns /\ ops[k].step \notin Relied
      /\ \A j \in Clients \ {k} : Spares(ops[j])
  BY <1>1, <1>2, StartsAlone, Typed DEF Starting, HistoryTyped, consentVars, toolVars,
     chatVars
<1>4. /\ rows' \in [Turns -> Terminal \union {"none", "reserved"}]
      /\ \A u \in Turns : rows[u] # "none" => rows'[u] = rows[u]
  BY <1>1, <1>2, <1>3, Typed DEF HistoryTyped, IInv, OpsFit, Fits
<1>5. OpsFit'
  BY <1>2, <1>3, FinishFits DEF ProcessStays, serverVars
<1>6. Attended'
  BY <1>2, <1>3, MoveAttended DEF consentVars, serverVars
<1>7. ServerTyped' /\ ServerFits' /\ StoppedIsQuiet'
  BY Typed DEF ServerTyped, IInv, ServerFits, consentVars, serverVars,
     HostRuns, StoppedIsQuiet
<1>8. ChatTyped' /\ HistoryTyped'
  BY <1>4, Typed DEF ChatTyped, HistoryTyped, toolVars, chatVars, streamVars
<1>9. ChatFits'
  <2>1. turn.status # "none" => turn.id \in Turns
    BY Typed DEF ChatTyped, IInv, ChatFits
  <2> QED BY <1>4, <2>1 DEF IInv, ChatFits, IsLiveSession, IsActiveTurn, serverVars,
     chatVars
<1>10. ShownStored'
  <2>1. turn.status = "completed" => turn.id \in Turns
    BY Typed DEF ChatTyped, IInv, ChatFits
  <2> QED BY <1>4, <2>1, Typed DEF ShownStored, HistoryTyped, chatVars
<1>11. DispatcherFits'
  BY DEF IInv, DispatcherFits, ToolsOnlyInActiveTurn, Quiet, toolVars, consentVars, chatVars
<1>12. SavesFit'
  BY <1>4, SavesStay, Typed DEF HistoryTyped, toolVars, chatVars
<1> QED BY <1>5, <1>6, <1>7, <1>8, <1>9, <1>10, <1>11, <1>12, Together

\* turn/start was answered: the turn runs, unless it has ended already.
LEMMA TurnStartedKeepsIInv ==
    ASSUME IInv, HostRuns, NEW k \in Clients, TurnStarted(k)
    PROVE  IInv'
<1> USE DEF TurnStarted
<1>1. PICK t : t = ops[k].turn
  OBVIOUS
<1>2. /\ ops[k].step = "turn_start" /\ process = "ready" /\ Finish(k)
      /\ Bindable /\ turn.id = t /\ turn.status = "starting" /\ consent = "granted"
      /\ early # "other" /\ turn' = [turn EXCEPT !.status = "running", !.bound = TRUE]
      /\ projector' = t /\ starting' = FALSE /\ early' = "none"
      /\ \/ dispatcher' = [dispatcher EXCEPT !.turn = t] /\ UNCHANGED saves
         \/ /\ saves' = saves \union {TerminalSave(t, early)} /\ early # "none"
            /\ UNCHANGED dispatcher
  BY <1>1 DEF Answered, Runnable
<1>3. /\ t \in Turns /\ t # 0 /\ ops[k].step \notin Relied /\ ops[k].kind = "turn" /\ rows[t] # "none"
  BY <1>1, <1>2 DEF IInv, OpsFit, Operations, Fits, StepOfKind, Starting, Relied
<1>4. /\ turn' \in [status : {"none", "starting", "running", "interrupting"} \union Terminal,
                    id : Turns \union {0}, bound : BOOLEAN]
      /\ turn'.id = t /\ turn'.status = "running"
  BY <1>2, Typed DEF ChatTyped
<1>5. /\ dispatcher' \in [session : Sessions \union {0}, turn : Turns \union {0},
                          aborted : BOOLEAN, busy : BOOLEAN]
      /\ dispatcher'.session = dispatcher.session /\ dispatcher'.session # 0
      /\ dispatcher.turn = 0 /\ dispatcher'.turn \in {0, t}
  BY <1>2, <1>3, Typed DEF ChatTyped, Bindable
<1>6. \A j \in Clients \ {k} : Spares(ops[j])
  <2> SUFFICES ASSUME NEW j \in Clients \ {k} PROVE Spares(ops[j])
    OBVIOUS
  <2>1. ops[j].step = "turn_start" => ops[j].turn # t
    BY <1>1, <1>2 DEF IInv, OpsFit, Apart, Starting
  <2>2. ops[j].kind # "shutdown"
    BY <1>2 DEF IInv, OpsFit, Apart, Idle
  <2>3. ~Opening(ops[j].session)
    BY <1>5 DEF Opening
  <2> QED BY <1>4, <2>1, <2>2, <2>3 DEF Spares, consentVars
<1>7. OpsFit'
  BY <1>2, <1>6, FinishFits DEF ProcessStays, serverVars
<1>8. Attended'
  BY <1>2, <1>3, MoveAttended DEF consentVars, serverVars
<1>9. ServerTyped' /\ ServerFits' /\ StoppedIsQuiet'
  BY Typed DEF ServerTyped, IInv, ServerFits, consentVars, serverVars,
     HostRuns, StoppedIsQuiet
<1>10. early # "none" => TerminalSave(t, early) \in Saves /\ early \in Terminal
  <2>1. HasCredential \in BOOLEAN /\ (early = "completed") \in BOOLEAN
    BY DEF HasCredential
  <2>2. early # "none" => early \in Terminal
    BY <1>2, Typed DEF HistoryTyped
  <2> QED BY <1>3, <2>1, <2>2 DEF TerminalSave, Saves
<1>11. ChatTyped' /\ HistoryTyped'
  BY <1>2, <1>3, <1>4, <1>5, <1>10, Typed DEF ChatTyped, HistoryTyped
<1>12. ShownStored'
  BY <1>4, Typed DEF ShownStored
<1>13. session.status = "ready" /\ consent = "granted"
  BY <1>2 DEF Runnable, IInv, ChatFits, IsActiveTurn
<1>14. ChatFits'
  BY <1>3, <1>4, <1>13 DEF IInv, ChatFits, IsLiveSession, IsActiveTurn, serverVars
<1>15. DispatcherFits'
  BY <1>4, <1>5, <1>13 DEF IInv, DispatcherFits, ToolsOnlyInActiveTurn, Quiet, consentVars
<1>16. SavesFit'
  <2> SUFFICES ASSUME NEW s \in saves'
               PROVE  /\ s.live => s.status = "completed"
                      /\ s.ends => /\ s.turn # dispatcher'.turn /\ rows'[s.turn] # "none"
                                   /\ turn'.id = s.turn => turn'.status # "starting"
    BY DEF SavesFit
  <2>1. CASE s \in saves
    <3>1. s.turn \in Turns /\ 0 \notin Turns
      BY <2>1, Typed DEF HistoryTyped, Saves, Turns
    <3> QED BY <1>2, <1>4, <1>5, <2>1, <3>1 DEF IInv, SavesFit
  <2>2. CASE s \notin saves
    <3>1. s = TerminalSave(t, early) /\ UNCHANGED dispatcher
      BY <1>2, <2>2
    <3> QED BY <1>3, <1>4, <1>5, <3>1 DEF TerminalSave
  <2> QED BY <2>1, <2>2
<1> QED BY <1>7, <1>8, <1>9, <1>11, <1>12, <1>14, <1>15, <1>16, Together

\* The catch block of startTurn.
LEMMA TurnFailsKeepsIInv ==
    ASSUME IInv, HostRuns, NEW k \in Clients, TurnFails(k)
    PROVE  IInv'
<1> USE DEF TurnFails
<1>1. PICK t : t = ops[k].turn
  OBVIOUS
<1>2. /\ ops[k].step = "turn_start" /\ Finish(k)
      /\ starting' = FALSE /\ early' = "none" /\ projector' = 0
      /\ working' \in {working, working \ {t}}
      /\ \/ turn' = turn
         \/ turn' = [turn EXCEPT !.status = "failed"] /\ IsActiveTurn /\ turn.id = t
      /\ \E X \in {{}, {FailSave(t, "failed")}} : saves' = Muted(projector) \union X
  BY <1>1
<1>3. /\ t \in Turns /\ ops[k].step \notin Relied
      /\ turn.id = t => turn.status # "running"
  BY <1>1, <1>2 DEF IInv, OpsFit, Operations, Fits, Relied
<1>4. /\ turn' \in [status : {"none", "starting", "running", "interrupting"} \union Terminal,
                    id : Turns \union {0}, bound : BOOLEAN]
      /\ turn'.id = turn.id /\ turn'.bound = turn.bound
      /\ \/ turn' = turn
         \/ /\ turn'.status = "failed" /\ IsActiveTurn
            /\ turn.status # "running" /\ turn.status # "none"
  BY <1>2, <1>3, Typed DEF ChatTyped, Terminal, IsActiveTurn
<1>5. Mild
  BY <1>4 DEF Mild, Opening, Quiet, consentVars, toolVars
<1>6. OpsFit'
  BY <1>2, <1>5, FinishFits, MildSpares DEF ProcessStays, serverVars
<1>7. Attended'
  BY <1>2, <1>3, MoveAttended DEF consentVars, serverVars
<1>8. ServerTyped' /\ ServerFits' /\ StoppedIsQuiet'
  BY Typed DEF ServerTyped, IInv, ServerFits, consentVars, serverVars,
     HostRuns, StoppedIsQuiet
<1>9. SavesFit' /\ saves' \subseteq Saves
  <2>1. PICK X \in {{}, {FailSave(t, "failed")}} : saves' = Muted(projector) \union X
    BY <1>2
  <2>2. X \in SUBSET Saves /\ \A s \in X : ~s.live /\ ~s.ends
    BY <1>3, FailSaveFits DEF Terminal
  <2> QED BY <1>4, <2>1, <2>2, MutedStay DEF toolVars
<1>10. ChatTyped' /\ HistoryTyped'
  BY <1>2, <1>4, <1>9, Typed DEF ChatTyped, HistoryTyped, toolVars
<1>11. ShownStored'
  BY <1>4, Typed DEF ShownStored
<1>12. ChatFits'
  BY <1>4 DEF IInv, ChatFits, IsLiveSession, IsActiveTurn, serverVars
<1>13. DispatcherFits'
  BY <1>4 DEF IInv, DispatcherFits, ToolsOnlyInActiveTurn, Quiet, consentVars, toolVars
<1> QED BY <1>6, <1>7, <1>8, <1>9, <1>10, <1>11, <1>12, <1>13, Together

-----------------------------------------------------------------------------
(* revokeConsent and stop(), after their first await *)

\* A revocation or a shutdown that goes on.
LEMMA LastMoves ==
    ASSUME IInv, Mild, ProcessStays, NEW k \in Clients, ops[k].kind \in LastCommands,
           NEW o \in Operations, ops' = [ops EXCEPT ![k] = o],
           ~o.cut, o.kind = ops[k].kind,
           o.step \in {"persist", "persisted", "closed", "unsubscribe"},
           o.step = "unsubscribe" => process' = "ready"
    PROVE  OpsFit'
<1>1. ops \in [Clients -> Operations] /\ Fits(ops[k])
  BY DEF IInv, OpsFit
<1>2. /\ ops' \in [Clients -> Operations] /\ ops'[k] = o
      /\ \A j \in Clients \ {k} : ops'[j] = ops[j]
  BY <1>1
<1>3. StepOfKind(ops[k])'
  BY <1>2 DEF StepOfKind, Idle, Creating, Starting, Ending, LastCommands
<1>4. ops'[k].kind = "shutdown" => Quiet'
  BY <1>1, <1>2 DEF Fits, Mild
<1>5. Fits(ops[k])'
  BY <1>2, <1>3, <1>4 DEF Fits, Creating, ProviderSteps
<1>6. \A j \in Clients \ {k} : Apart(ops[j], ops[k])' /\ Apart(ops[k], ops[j])'
  <2> SUFFICES ASSUME NEW j \in Clients \ {k}
               PROVE  Apart(ops[j], ops[k])' /\ Apart(ops[k], ops[j])'
    OBVIOUS
  <2>1. Apart(ops[j], ops[k]) /\ Apart(ops[k], ops[j]) /\ ops'[j] = ops[j] /\ ops[k] # Idle
    BY <1>2 DEF IInv, OpsFit, Idle, LastCommands
  <2> QED BY <1>2, <2>1 DEF Apart, Starting, Creating
<1> QED BY <1>2, <1>5, <1>6, OneMoves, MildSpares

\* Where a revocation or a shutdown stands, no tool call finds its turn.
LEMMA LastIsQuiet ==
    ASSUME IInv, NEW k \in Clients, ops[k].step = "interrupted"
    PROVE  ops[k].kind \in LastCommands /\ Quiet /\ ~ops[k].cut
  BY DEF IInv, OpsFit, Fits, StepOfKind, Ending, LastCommands, DispatcherFits, ProviderSteps

\* The turn that is still active ends.
LEMMA EndTurnKeepsIInv ==
    ASSUME IInv, HostRuns, NEW k \in Clients, EndInterruptedTurn(k)
    PROVE  IInv'
<1> USE DEF EndInterruptedTurn
<1>1. ops[k].kind \in LastCommands /\ Quiet /\ ~ops[k].cut /\ ops[k].step = "interrupted"
  BY LastIsQuiet
<1>2. ops \in [Clients -> Operations] /\ ops[k] \in Operations
  BY DEF IInv, OpsFit
<1>3. CASE ~IsActiveTurn
  <2>1. Goto(k, "persisted") /\ UNCHANGED <<projector, saves, dispatcher, turn>>
    BY <1>3
  <2>2. /\ ServerTyped' /\ ChatTyped' /\ HistoryTyped' /\ ShownStored'
        /\ ServerFits' /\ ChatFits' /\ DispatcherFits' /\ SavesFit'
        /\ StoppedIsQuiet' /\ Mild /\ ProcessStays
    BY <2>1, StateKept, Typed DEF HistoryTyped, chatVars, toolVars, streamVars
  <2>3. PICK o : o = [ops[k] EXCEPT !.step = "persisted", !.cut = FALSE]
    OBVIOUS
  <2>4. /\ o \in Operations /\ o.step = "persisted" /\ ~o.cut /\ o.kind = ops[k].kind
        /\ ops' = [ops EXCEPT ![k] = o]
    BY <1>2, <2>1, <2>3 DEF Operations, Goto
  <2>5. OpsFit'
    BY <1>1, <2>2, <2>4, LastMoves
  <2>6. Attended'
    <3>1. \A j \in Clients \ {k} : ops'[j] = ops[j]
      BY <1>2, <2>4
    <3>2. ops'[k].step = "persisted"
      BY <1>2, <2>4
    <3> QED BY <1>1, <3>1, <3>2 DEF IInv, Attended, Barrier, consentVars, serverVars
  <2> QED BY <2>2, <2>5, <2>6, Together
<1>4. CASE IsActiveTurn
  <2>1. PICK o : o = [ops[k] EXCEPT
                        !.step = IF conversation /\ HasCredential THEN "persist" ELSE "persisted",
                        !.turn = turn.id]
    OBVIOUS
  <2>2. /\ projector' = 0 /\ saves' = Muted(projector)
        /\ dispatcher' \in {FinishedTurn, dispatcher}
        /\ turn' = [turn EXCEPT !.status = "interrupted"]
        /\ ops' = [ops EXCEPT ![k] = o]
    BY <1>4, <2>1
  <2>3. /\ o \in Operations /\ o.step \in {"persist", "persisted"} /\ ~o.cut
        /\ o.kind = ops[k].kind
    <3>1. turn.id \in Turns \union {0}
      BY Typed DEF ChatTyped
    <3> QED BY <1>1, <1>2, <2>1, <3>1 DEF Operations
  <2>4. /\ turn' \in [status : {"none", "starting", "running", "interrupting"} \union Terminal,
                      id : Turns \union {0}, bound : BOOLEAN]
        /\ turn'.id = turn.id /\ turn'.bound = turn.bound /\ turn'.status = "interrupted"
        /\ turn.status # "none"
    BY <1>4, <2>2, Typed DEF ChatTyped, Terminal, IsActiveTurn
  <2>5. /\ dispatcher' \in [session : Sessions \union {0}, turn : Turns \union {0},
                            aborted : BOOLEAN, busy : BOOLEAN]
        /\ dispatcher'.session = dispatcher.session
        /\ dispatcher'.turn = 0 \/ dispatcher' = dispatcher
    BY <2>2, Typed DEF ChatTyped, FinishedTurn
  <2>6. Quiet'
    BY <1>1, <2>5 DEF Quiet
  <2>7. Mild /\ ProcessStays
    BY <2>4, <2>5, <2>6 DEF Mild, Opening, consentVars, ProcessStays, serverVars
  <2>8. OpsFit'
    BY <1>1, <2>2, <2>3, <2>7, LastMoves
  <2>9. Attended'
    <3>1. \A j \in Clients \ {k} : ops'[j] = ops[j]
      BY <1>2, <2>2
    <3>2. ops'[k].step \in {"persist", "persisted"}
      BY <1>2, <2>2, <2>3
    <3>3. \A j \in Clients : ops[j].step # "prepare"
      BY <1>4 DEF IInv, OpsFit, Fits, Opening, ChatFits, Creating
    <3> QED BY <1>1, <3>1, <3>2, <3>3 DEF IInv, Attended, consentVars, serverVars
  <2>10. SavesFit' /\ saves' \subseteq Saves
    <3>1. saves' = Muted(projector) \union {}
      BY <2>2
    <3>2. {} \in SUBSET Saves /\ \A s \in {} : ~s.live /\ ~s.ends
      OBVIOUS
    <3>3. /\ dispatcher'.turn \in {0, dispatcher.turn} /\ turn'.status # "starting"
          /\ rows' = rows
      BY <2>4, <2>5
    <3> QED BY <3>1, <3>2, <3>3, MutedStay
  <2>11. ServerTyped' /\ ServerFits' /\ StoppedIsQuiet'
    BY Typed DEF ServerTyped, IInv, ServerFits, consentVars, serverVars,
       HostRuns, StoppedIsQuiet
  <2>12. ChatTyped' /\ HistoryTyped' /\ ShownStored'
    BY <2>2, <2>4, <2>5, <2>10, Typed DEF ChatTyped, HistoryTyped, ShownStored
  <2>13. ChatFits'
    BY <1>4, <2>4 DEF IInv, ChatFits, IsLiveSession, IsActiveTurn, serverVars
  <2>14. DispatcherFits'
    BY <2>5, <2>6 DEF IInv, DispatcherFits, ToolsOnlyInActiveTurn, Quiet
  <2> QED BY <2>8, <2>9, <2>10, <2>11, <2>12, <2>13, <2>14, Together
<1> QED BY <1>3, <1>4

\* The API answered for the interrupted turn, or did not.
LEMMA PersistedKeepsIInv ==
    ASSUME IInv, HostRuns, NEW k \in Clients, Persisted(k)
    PROVE  IInv'
<1> USE DEF Persisted
<1>1. ops \in [Clients -> Operations] /\ ops[k] \in Operations /\ Fits(ops[k])
      /\ ops[k].step = "persist" /\ ops[k].kind \in LastCommands
  BY DEF IInv, OpsFit, Fits, StepOfKind, Ending
<1>2. /\ rows' \in [Turns -> Terminal \union {"none", "reserved"}]
      /\ \A t \in Turns : rows[t] = rows'[t] \/ (rows[t] = "reserved" /\ rows'[t] = "interrupted")
  <2>1. PICK t : t = ops[k].turn
    OBVIOUS
  <2>2. rows' = rows \/ rows' = [rows EXCEPT ![t] = IF @ = "reserved" THEN "interrupted" ELSE @]
    BY <2>1 DEF Ended
  <2> QED BY <2>2, Typed DEF HistoryTyped, Terminal
<1>3. Mild /\ ProcessStays
  BY <1>2 DEF Mild, Opening, Quiet, consentVars, chatVars, toolVars, ProcessStays,
     serverVars
<1>4. PICK o : o = [ops[k] EXCEPT !.step = "persisted", !.cut = FALSE]
  OBVIOUS
<1>5. /\ o \in Operations /\ o.step = "persisted" /\ ~o.cut /\ o.kind = ops[k].kind
      /\ ops' = [ops EXCEPT ![k] = o]
  BY <1>1, <1>4 DEF Operations, Goto
<1>6. OpsFit'
  BY <1>1, <1>3, <1>5, LastMoves
<1>7. Attended'
  BY <1>1, MoveAttended DEF Relied, consentVars, serverVars
<1>8. ServerTyped' /\ ServerFits' /\ StoppedIsQuiet'
  BY Typed DEF ServerTyped, IInv, ServerFits, consentVars, serverVars,
     HostRuns, StoppedIsQuiet
<1>9. ChatTyped' /\ HistoryTyped'
  BY <1>2, Typed DEF ChatTyped, HistoryTyped, toolVars, chatVars, streamVars
<1>10. turn.status # "none" => turn.id \in Turns
  BY Typed DEF ChatTyped, IInv, ChatFits
<1>11. ChatFits'
  BY <1>2, <1>10 DEF IInv, ChatFits, IsLiveSession, IsActiveTurn, serverVars, chatVars
<1>12. ShownStored'
  BY <1>2, <1>10, Typed DEF ShownStored, HistoryTyped, chatVars
<1>13. DispatcherFits'
  BY DEF IInv, DispatcherFits, ToolsOnlyInActiveTurn, Quiet, toolVars, consentVars, chatVars
<1>14. SavesFit'
  BY <1>2, SavesStay, Typed DEF HistoryTyped, toolVars, chatVars
<1> QED BY <1>6, <1>7, <1>8, <1>9, <1>11, <1>12, <1>13, <1>14, Together

\* A command that has closed its session keeps the barrier up.
LEMMA ClosedAttended ==
    ASSUME IInv, NEW k \in Clients, Goto(k, "closed"),
           ops[k].step \notin {"stop", "startup_failed"},
           UNCHANGED process
    PROVE  Attended'
<1>1. ops \in [Clients -> Operations]
  BY DEF IInv, OpsFit
<1>2. ops'[k].step = "closed" /\ \A j \in Clients \ {k} : ops'[j] = ops[j]
  BY <1>1 DEF Goto, Operations
<1> QED BY <1>2 DEF IInv, Attended, Barrier

\* A revocation or a shutdown goes on to the stop of the process.
LEMMA ClosedFits ==
    ASSUME IInv, Mild, NEW k \in Clients, Goto(k, "closed"), ops[k].kind \in LastCommands,
           ops[k].step \in {"persisted", "unsubscribe"}, UNCHANGED process
    PROVE  OpsFit' /\ Attended'
<1>1. ops \in [Clients -> Operations] /\ ops[k] \in Operations
  BY DEF IInv, OpsFit
<1>2. PICK o : o = [ops[k] EXCEPT !.step = "closed", !.cut = FALSE]
  OBVIOUS
<1>3. /\ o \in Operations /\ o.step = "closed" /\ ~o.cut /\ o.kind = ops[k].kind
      /\ ops' = [ops EXCEPT ![k] = o]
  BY <1>1, <1>2 DEF Operations, Goto
<1>4. OpsFit'
  BY <1>3, LastMoves DEF ProcessStays
<1> QED BY <1>4, ClosedAttended

\* closeSession within a revocation or a shutdown.
LEMMA CloseLastKeepsIInv ==
    ASSUME IInv, HostRuns, NEW k \in Clients, CloseLast(k) \/ CloseLastAnswered(k)
    PROVE  IInv'
<1> USE DEF CloseLast, CloseLastAnswered, Answered
<1>1. ops \in [Clients -> Operations] /\ ops[k] \in Operations /\ Fits(ops[k])
      /\ ops[k].kind \in LastCommands
  BY DEF IInv, OpsFit, Fits, StepOfKind, Ending
<1>2. /\ ops[k].step \in {"persisted", "unsubscribe"}
      /\ UNCHANGED <<consentVars, serverVars, turn, streamVars, historyVars, working>>
  OBVIOUS
<1>3. /\ UNCHANGED <<dispatcher, conversation, session>> =>
           /\ ServerTyped' /\ ChatTyped' /\ HistoryTyped' /\ ShownStored' /\ Mild
           /\ ServerFits' /\ ChatFits' /\ DispatcherFits' /\ SavesFit'
           /\ StoppedIsQuiet' /\ ProcessStays
  BY <1>2, StateKept, Typed DEF historyVars, HistoryTyped, chatVars, toolVars
<1>4. CASE UNCHANGED <<dispatcher, conversation, session>> /\ Goto(k, "closed")
  <2>1. OpsFit' /\ Attended'
    BY <1>1, <1>2, <1>3, <1>4, ClosedFits DEF serverVars
  <2> QED BY <1>3, <1>4, <2>1, Together
<1>5. ASSUME NEW s, CloseBoth(s), Goto(k, "closed") PROVE IInv'
  <2>1. /\ ServerTyped' /\ ChatTyped' /\ HistoryTyped' /\ ShownStored' /\ Mild
        /\ ServerFits' /\ ChatFits' /\ DispatcherFits' /\ SavesFit'
        /\ StoppedIsQuiet'
    BY <1>2, <1>5, ClosedHost
  <2>2. OpsFit' /\ Attended'
    BY <1>1, <1>2, <1>5, <2>1, ClosedFits DEF serverVars
  <2> QED BY <2>1, <2>2, Together
<1>6. CASE /\ ops[k].step = "persisted" /\ session.thread /\ process = "ready"
           /\ ops' = [ops EXCEPT ![k] = [@ EXCEPT !.step = "unsubscribe",
                                                  !.session = session.id]]
           /\ UNCHANGED <<dispatcher, conversation, session>>
  <2>1. PICK o : o = [ops[k] EXCEPT !.step = "unsubscribe", !.session = session.id]
    OBVIOUS
  <2>2. /\ o \in Operations /\ o.step = "unsubscribe" /\ ~o.cut /\ o.kind = ops[k].kind
        /\ ops' = [ops EXCEPT ![k] = o]
    <3>1. session.id \in Sessions \union {0}
      BY Typed DEF ChatTyped
    <3>2. ~ops[k].cut
      BY <1>1, <1>6 DEF Fits, StepOfKind, ProviderSteps
    <3> QED BY <1>1, <1>6, <2>1, <3>1, <3>2 DEF Operations
  <2>3. OpsFit'
    BY <1>1, <1>2, <1>3, <1>6, <2>2, LastMoves DEF serverVars
  <2>4. Attended'
    <3>1. \A j \in Clients : ops[j].step # "prepare"
      BY <1>6 DEF IInv, OpsFit, Fits, Opening, Creating
    <3>2. ops'[k].step = "unsubscribe" /\ \A j \in Clients \ {k} : ops'[j] = ops[j]
      BY <1>1, <2>2
    <3> QED BY <1>2, <1>6, <3>1, <3>2 DEF IInv, Attended, serverVars, consentVars
  <2> QED BY <1>3, <1>6, <2>3, <2>4, Together
<1> QED BY <1>4, <1>5, <1>6

\* A close that throws.
LEMMA CloseFailsKeepsIInv ==
    ASSUME IInv, HostRuns, NEW k \in Clients, CloseLastFails(k)
    PROVE  IInv'
<1> USE DEF CloseLastFails
<1>1. ops[k].kind \in LastCommands /\ ops[k].step \in {"persisted", "unsubscribe"}
      /\ Goto(k, "closed") /\ UNCHANGED <<consentVars, process, auth, account, working>>
  OBVIOUS
<1>2. CASE UNCHANGED <<host, appServer, chatVars, toolVars, streamVars, historyVars>>
  <2>1. /\ ServerTyped' /\ ChatTyped' /\ HistoryTyped' /\ ShownStored' /\ Mild
        /\ ServerFits' /\ ChatFits' /\ DispatcherFits' /\ SavesFit'
        /\ StoppedIsQuiet'
    BY <1>1, <1>2, StateKept, Typed DEF historyVars, HistoryTyped, serverVars
  <2> QED BY <1>1, <2>1, ClosedFits, Together
<1>3. CASE HandleFatal
  <2>1. /\ Mild /\ ChatTyped' /\ HistoryTyped' /\ ShownStored'
        /\ ChatFits' /\ DispatcherFits' /\ SavesFit'
        /\ appServer' = "crashed" \/ (appServer' = appServer /\ appServer = "stopped")
        /\ host' \in {host, "degraded"}
    BY <1>1, <1>3, Fatal, Typed DEF HistoryTyped, consentVars
  <2>2. ServerTyped' /\ ServerFits' /\ StoppedIsQuiet'
    BY <1>1, <2>1, Typed DEF ServerTyped, IInv, ServerFits, consentVars,
       HostRuns, StoppedIsQuiet
  <2> QED BY <1>1, <2>1, <2>2, ClosedFits, Together
<1> QED BY <1>2, <1>3

\* The process is told to stop, and every command that waits for it is cut off.
LEMMA StopKeepsIInv ==
    ASSUME IInv, HostRuns, NEW k \in Clients, StopProcess(k)
    PROVE  IInv'
<1> USE DEF StopProcess
<1>1. ops \in [Clients -> Operations] /\ Fits(ops[k]) /\ ops[k].kind \in LastCommands
      /\ ops[k].step = "closed" /\ process # "none" /\ process' = "stopping"
      /\ UNCHANGED <<consentVars, working>>
  BY DEF IInv, OpsFit, Fits, StepOfKind, Ending
<1>2. ~IsLiveSession
  BY DEF IInv, ChatFits
<1>3. /\ Mild /\ ChatTyped' /\ HistoryTyped' /\ ShownStored'
      /\ ChatFits' /\ DispatcherFits' /\ SavesFit'
      /\ appServer' \in {"stopping", "crashed"}
      /\ host' \in {host, "degraded", "stopping"}
  <2>1. CASE process = "starting"
    <3>1. HandleFatal
      BY <2>1
    <3>2. /\ Mild /\ ChatTyped' /\ HistoryTyped' /\ ShownStored'
          /\ ChatFits' /\ DispatcherFits' /\ SavesFit'
          /\ appServer' = "crashed" \/ (appServer' = appServer /\ appServer = "stopped")
          /\ host' \in {host, "degraded"}
      BY <1>1, <3>1, Fatal, Typed DEF HistoryTyped, consentVars
    <3> QED BY <2>1, <3>2 DEF IInv, ServerFits
  <2>2. CASE process # "starting"
    <3>1. /\ appServer' = IF \/ appServer = "ready"
                             \/ ShuttingDown /\ appServer = "crashed"
                          THEN "stopping" ELSE appServer
          /\ host' = IF ShuttingDown THEN "stopping" ELSE host
          /\ UNCHANGED <<chatVars, toolVars, streamVars, historyVars>>
      BY <2>2
    <3>2. ChatTyped' /\ HistoryTyped' /\ ShownStored' /\ SavesFit'
      BY <1>1, <3>1, HostKept, Typed DEF HistoryTyped
    <3>3. Mild
      BY <1>1, <3>1, Unmoved DEF consentVars, chatVars, toolVars, historyVars
    <3>4. appServer' \in {"stopping", "crashed"}
      BY <1>1, <2>2, <3>1, Typed DEF IInv, ServerFits, ServerTyped
    <3>5. ChatFits' /\ DispatcherFits'
      BY <1>1, <1>2, <3>1 DEF IInv, ChatFits, DispatcherFits, ToolsOnlyInActiveTurn, Quiet,
         IsLiveSession, IsActiveTurn, chatVars, toolVars, historyVars, consentVars
    <3> QED BY <3>1, <3>2, <3>3, <3>4, <3>5
  <2> QED BY <2>1, <2>2
<1>4. \A j \in Clients :
         \/ j = k /\ ops'[j] = [ops[j] EXCEPT !.step = "stop"]
         \/ /\ j # k /\ ops[j].step = "starting"
            /\ ops'[j] = [ops[j] EXCEPT !.step = "startup_failed"]
         \/ /\ j # k /\ ops[j].step \in ProviderSteps
            /\ ops'[j] = [ops[j] EXCEPT !.cut = TRUE]
         \/ j # k /\ ops[j].step \notin ProviderSteps \union {"starting"} /\ ops'[j] = ops[j]
  BY DEF Rejected, ProviderSteps
<1>5. \A j \in Clients :
         /\ ops'[j] \in Operations /\ ops'[j].kind = ops[j].kind
         /\ ops'[j].turn = ops[j].turn
         /\ ops'[j].step \in Creating \union Starting => ops'[j].step = ops[j].step
         /\ ops'[j].step \in ProviderSteps => ops'[j].cut
         /\ ops[j] = Idle => ops'[j] = Idle
  <2> SUFFICES ASSUME NEW j \in Clients
               PROVE  /\ ops'[j] \in Operations /\ ops'[j].kind = ops[j].kind
                      /\ ops'[j].turn = ops[j].turn
                      /\ ops'[j].step \in Creating \union Starting => ops'[j].step = ops[j].step
                      /\ ops'[j].step \in ProviderSteps => ops'[j].cut
                      /\ ops[j] = Idle => ops'[j] = Idle
    OBVIOUS
  <2>0. ops[j] \in Operations
    BY <1>1
  <2>1. CASE j = k /\ ops'[j] = [ops[j] EXCEPT !.step = "stop"]
    BY <1>1, <2>0, <2>1 DEF Operations, Idle, Creating, Starting, ProviderSteps
  <2>2. CASE ops[j].step = "starting" /\ ops'[j] = [ops[j] EXCEPT !.step = "startup_failed"]
    BY <2>0, <2>2 DEF Operations, Idle, Creating, Starting, ProviderSteps
  <2>3. CASE ops[j].step \in ProviderSteps /\ ops'[j] = [ops[j] EXCEPT !.cut = TRUE]
    <3>1. /\ ops'[j] \in Operations /\ ops'[j].kind = ops[j].kind
          /\ ops'[j].turn = ops[j].turn /\ ops'[j].step = ops[j].step /\ ops'[j].cut
      BY <2>0, <2>3 DEF Operations
    <3>2. ops[j] # Idle
      BY <2>3 DEF Idle, ProviderSteps
    <3> QED BY <3>1, <3>2
  <2>4. CASE ops[j].step \notin ProviderSteps \union {"starting"} /\ ops'[j] = ops[j]
    BY <2>0, <2>4
  <2> QED BY <1>4, <2>1, <2>2, <2>3, <2>4
<1>6. \A j \in Clients : Fits(ops[j])'
  <2> SUFFICES ASSUME NEW j \in Clients PROVE Fits(ops[j])'
    OBVIOUS
  <2>0. ops[j] \in Operations /\ Fits(ops[j])
    BY <1>1 DEF IInv, OpsFit
  <2>1. CASE j = k
    <3>1. /\ ops'[j].step = "stop" /\ ops'[j].kind = ops[j].kind /\ ops'[j].cut = ops[j].cut
          /\ ops[j].kind \in LastCommands /\ ~ops[j].cut
      BY <1>1, <1>4, <2>0, <2>1 DEF Operations, Fits, StepOfKind, ProviderSteps
    <3>2. StepOfKind(ops[j])'
      BY <3>1 DEF StepOfKind, Idle, Creating, Starting, Ending
    <3>3. ops'[j].kind = "shutdown" => Quiet'
      BY <1>3, <2>0, <3>1 DEF Fits, Mild
    <3> QED BY <1>5, <3>1, <3>2, <3>3 DEF Fits, Creating, ProviderSteps
  <2>2. CASE j # k /\ ops[j].step = "starting"
    <3>1. /\ ops'[j].step = "startup_failed" /\ ops'[j].kind = ops[j].kind
          /\ ops'[j].cut = ops[j].cut /\ ops[j].kind \in {"start", "refresh"} /\ ~ops[j].cut
      BY <1>4, <2>0, <2>2 DEF Operations, Fits, StepOfKind, ProviderSteps
    <3>2. StepOfKind(ops[j])'
      BY <3>1 DEF StepOfKind, Idle, Creating, Starting, Ending
    <3> QED BY <1>5, <3>1, <3>2 DEF Fits, Creating, ProviderSteps
  <2>3. CASE j # k /\ ops[j].step # "starting"
    BY <1>3, <1>4, <2>3, StillFits, MildSpares
  <2> QED BY <2>1, <2>2, <2>3
<1>7. \A j, l \in Clients : j # l => Apart(ops[j], ops[l])'
  <2> SUFFICES ASSUME NEW j \in Clients, NEW l \in Clients, j # l
               PROVE  Apart(ops[j], ops[l])'
    OBVIOUS
  <2>1. Apart(ops[j], ops[l])
    BY DEF IInv, OpsFit
  <2>2. \A i \in {j, l} : /\ ops'[i].step \in Creating => ops[i].step \in Creating
                          /\ ops'[i].step \in Starting => ops[i].step \in Starting
    BY <1>5
  <2> QED BY <1>5, <2>1, <2>2 DEF Apart
<1>8. OpsFit'
  <2>1. ops' \in [Clients -> Operations]
    BY <1>5
  <2> QED BY <1>6, <1>7, <2>1 DEF OpsFit
<1>9. Attended'
  <2>1. ops'[k].step = "stop"
    BY <1>1, <1>4 DEF Operations
  <2>2. \A j \in Clients : ops'[j].step = "prepare" => ops'[j].cut
    BY <1>5 DEF ProviderSteps
  <2> QED BY <1>1, <2>1, <2>2 DEF Attended
<1>10. ServerTyped' /\ ServerFits' /\ StoppedIsQuiet'
  BY <1>1, <1>3, Typed DEF ServerTyped, IInv, ServerFits, consentVars,
     HostRuns, StoppedIsQuiet
<1> QED BY <1>3, <1>8, <1>9, <1>10, Together

\* A revocation without a process is complete at once.
LEMMA RevokedKeepsIInv ==
    ASSUME IInv, HostRuns, NEW k \in Clients, RevokeWithoutProcess(k)
    PROVE  IInv'
<1> USE DEF RevokeWithoutProcess
<1>1. /\ process = "none" /\ Finish(k)
      /\ UNCHANGED <<serverVars, chatVars, toolVars, streamVars, historyVars, working>>
      /\ journal' \in {journal, "revoked"}
      /\ UNCHANGED consent \/ (consent = "revoke_pending" /\ consent' = "revoked")
  BY DEF Complete, consentVars
<1>2. Mild
  BY <1>1 DEF Mild, Opening, Quiet, chatVars, toolVars, historyVars
<1>3. OpsFit'
  BY <1>1, <1>2, FinishFits, MildSpares DEF ProcessStays, serverVars
<1>4. Attended'
  <2>1. \A j \in Clients : ops[j].step = "prepare" => ops[j].cut
    BY <1>1 DEF IInv, OpsFit, Fits, ProviderSteps
  <2>2. \A j \in Clients : ops'[j].step = "prepare" => ops'[j].cut
    BY <1>1, <2>1 DEF Finish, IInv, OpsFit, Idle
  <2> QED BY <1>1, <2>2 DEF Attended, serverVars
<1>5. ChatTyped' /\ HistoryTyped' /\ ShownStored' /\ SavesFit'
  BY <1>1, HostKept, Typed DEF HistoryTyped
<1>6. ServerTyped' /\ ServerFits' /\ StoppedIsQuiet'
  BY <1>1, Typed DEF ServerTyped, IInv, ServerFits, serverVars,
     HostRuns, StoppedIsQuiet
<1>7. ChatFits' /\ DispatcherFits'
  BY <1>1 DEF IInv, ChatFits, DispatcherFits, ToolsOnlyInActiveTurn, Quiet, IsLiveSession,
     IsActiveTurn, chatVars, toolVars, historyVars, serverVars
<1> QED BY <1>3, <1>4, <1>5, <1>6, <1>7, Together

\* A shutdown leaves nobody else behind.
LEMMA LastAlone ==
    ASSUME IInv, NEW k \in Clients, ops[k].kind = "shutdown"
    PROVE  Quiet /\ \A j \in Clients \ {k} : ops[j] = Idle
  BY DEF IInv, OpsFit, Fits, Apart

\* A shutdown without a process ends the host.
LEMMA HostStopKeepsIInv ==
    ASSUME IInv, HostRuns, NEW k \in Clients, StopWithoutProcess(k)
    PROVE  IInv'
<1> USE DEF StopWithoutProcess
<1>1. /\ process = "none" /\ ~IsLiveSession /\ Finish(k) /\ host' = "stopped"
      /\ UNCHANGED <<consentVars, appServer, process, auth, account, chatVars, toolVars,
                     streamVars, historyVars, working>>
  OBVIOUS
<1>2. Mild
  BY <1>1, Unmoved DEF chatVars, toolVars, historyVars, consentVars
<1>3. OpsFit'
  BY <1>1, <1>2, FinishFits, MildSpares DEF ProcessStays
<1>4. Quiet /\ \A j \in Clients : ops'[j] = Idle
  BY <1>1, LastAlone DEF Finish, IInv, OpsFit
<1>5. Attended'
  BY <1>1, <1>4 DEF Attended, Idle
<1>6. ChatTyped' /\ HistoryTyped' /\ ShownStored' /\ SavesFit'
  BY <1>1, HostKept, Typed DEF HistoryTyped
<1>7. ServerTyped' /\ ServerFits'
  BY <1>1, Typed DEF ServerTyped, IInv, ServerFits, consentVars
<1>8. ChatFits' /\ DispatcherFits'
  BY <1>1 DEF IInv, ChatFits, DispatcherFits, ToolsOnlyInActiveTurn, Quiet, IsLiveSession,
     IsActiveTurn, chatVars, toolVars, historyVars, consentVars
<1>9. StoppedIsQuiet'
  <2>1. ~IsLiveSession /\ ~IsActiveTurn /\ appServer \in {"stopped", "crashed"}
    BY <1>1 DEF IInv, ChatFits, ServerFits, IsLiveSession
  <2>2. ops' = [j \in Clients |-> Idle]
    BY <1>3, <1>4 DEF OpsFit
  <2> QED BY <1>1, <1>4, <2>1, <2>2 DEF StoppedIsQuiet, Quiet, IsLiveSession, IsActiveTurn,
      chatVars, toolVars
<1> QED BY <1>3, <1>5, <1>6, <1>7, <1>8, <1>9, Together

-----------------------------------------------------------------------------
(* The provider's events and the API's late answers *)

\* An event that moves no command and neither the process nor the consent.
LEMMA EventFits ==
    ASSUME IInv, HostRuns, Mild, UNCHANGED <<consentVars, process, appServer, account, ops>>,
           auth' \in {"unknown", "logged_out", "authenticated"}, host' \in {host, "exited"}
    PROVE  /\ OpsFit' /\ Attended' /\ ServerTyped' /\ ServerFits'
           /\ StoppedIsQuiet'
<1>1. OpsFit'
  BY NoneMoves, MildSpares DEF ProcessStays
<1>2. Attended'
  BY AttendedKept DEF consentVars
<1>3. ServerTyped' /\ ServerFits' /\ StoppedIsQuiet'
  BY Typed DEF ServerTyped, IInv, ServerFits, consentVars, HostRuns,
     StoppedIsQuiet
<1> QED BY <1>1, <1>2, <1>3

\* interruptTurn, whoever asks for it.
LEMMA InterruptKeepsIInv ==
    ASSUME IInv, HostRuns, InterruptTurn
    PROVE  IInv'
<1> USE DEF InterruptTurn
<1>1. /\ ChatTyped' /\ ChatFits' /\ DispatcherFits' /\ SavesFit' /\ ShownStored' /\ Mild
  BY TurnInterrupted DEF Interruptible, historyVars, serverVars, consentVars
<1>2. /\ OpsFit' /\ Attended' /\ ServerTyped' /\ ServerFits'
      /\ StoppedIsQuiet'
  BY <1>1, EventFits, Typed DEF serverVars, ServerTyped
<1>3. HistoryTyped'
  BY Typed DEF HistoryTyped, streamVars, historyVars
<1> QED BY <1>1, <1>2, <1>3, Together

\* A tool call starts, or ends.
LEMMA CallKeepsIInv ==
    ASSUME IInv, HostRuns, CallStarts \/ CallEnds
    PROVE  IInv'
<1>1. /\ dispatcher' \in {[dispatcher EXCEPT !.busy = TRUE], [dispatcher EXCEPT !.busy = FALSE]}
      /\ UNCHANGED <<consentVars, serverVars, chatVars, conversation, streamVars, historyVars,
                     ops, working>>
  BY DEF CallStarts, CallEnds
<1>2. /\ dispatcher' \in [session : Sessions \union {0}, turn : Turns \union {0},
                          aborted : BOOLEAN, busy : BOOLEAN]
      /\ dispatcher'.session = dispatcher.session /\ dispatcher'.turn = dispatcher.turn
      /\ dispatcher'.aborted = dispatcher.aborted
  BY <1>1, Typed DEF ChatTyped
<1>3. Mild
  BY <1>1, <1>2 DEF Mild, Opening, Quiet, consentVars, chatVars, historyVars
<1>4. /\ OpsFit' /\ Attended' /\ ServerTyped' /\ ServerFits'
      /\ StoppedIsQuiet'
  BY <1>1, <1>3, EventFits, Typed DEF serverVars, ServerTyped
<1>5. ChatTyped' /\ HistoryTyped' /\ ShownStored'
  BY <1>1, <1>2, Typed DEF ChatTyped, HistoryTyped, ShownStored, chatVars, streamVars,
     historyVars
<1>6. ChatFits' /\ DispatcherFits' /\ SavesFit'
  BY <1>1, <1>2 DEF IInv, ChatFits, DispatcherFits, SavesFit, ToolsOnlyInActiveTurn, Quiet,
     IsLiveSession, IsActiveTurn, chatVars, historyVars, serverVars, consentVars
<1> QED BY <1>4, <1>5, <1>6, Together

\* A fatal error of the process.
LEMMA CrashKeepsIInv ==
    ASSUME IInv, HostRuns, process = "ready", Crash, working' \subseteq Turns,
           UNCHANGED <<consentVars, auth, account>>
    PROVE  IInv'
<1> USE DEF Crash
<1>1. /\ Mild /\ ChatTyped' /\ HistoryTyped' /\ ShownStored'
      /\ ChatFits' /\ DispatcherFits' /\ SavesFit'
      /\ appServer' = "crashed" \/ (appServer' = appServer /\ appServer = "stopped")
      /\ host' \in {host, "degraded"}
  BY Fatal DEF consentVars
<1>2. OpsFit'
  BY <1>1, RejectedFits
<1>3. Attended'
  <2>1. \A j \in Clients : ops'[j].step = "prepare" => ops'[j].cut
    <3> SUFFICES ASSUME NEW j \in Clients, ops'[j].step = "prepare" PROVE ops'[j].cut
      OBVIOUS
    <3>1. ops[j] \in Operations
      BY DEF IInv, OpsFit
    <3>2. CASE ops[j].step \in ProviderSteps
      <4>1. ops'[j] = [ops[j] EXCEPT !.cut = TRUE]
        BY <3>2 DEF Rejected
      <4> QED BY <3>1, <4>1 DEF Operations
    <3>3. CASE ops[j].step \notin ProviderSteps
      BY <3>3 DEF Rejected, ProviderSteps
    <3> QED BY <3>2, <3>3
  <2> QED BY <2>1 DEF Attended
<1>4. ServerTyped' /\ ServerFits' /\ StoppedIsQuiet'
  BY <1>1, Typed DEF ServerTyped, IInv, ServerFits, consentVars, HostRuns,
     StoppedIsQuiet
<1> QED BY <1>1, <1>2, <1>3, <1>4, Together

\* The provider has ended a turn.
LEMMA CompletedKeepsIInv ==
    ASSUME IInv, HostRuns, NEW t \in working, NEW status \in Terminal, TurnCompleted(t, status)
    PROVE  IInv'
<1> USE DEF TurnCompleted
<1>1. process = "ready" /\ working' \subseteq Turns /\ t \in Turns /\ UNCHANGED consentVars
  BY Typed DEF HistoryTyped
<1>2. CASE /\ early' \in {status, "other"}
           /\ UNCHANGED <<serverVars, chatVars, toolVars, projector, starting, historyVars, ops>>
  <2>1. Mild
    BY <1>1, <1>2, Unmoved DEF consentVars, chatVars, toolVars, historyVars
  <2>2. /\ OpsFit' /\ Attended' /\ ServerTyped' /\ ServerFits'
        /\ StoppedIsQuiet'
    BY <1>1, <1>2, <2>1, EventFits, Typed DEF serverVars, ServerTyped
  <2>3. ChatTyped' /\ HistoryTyped' /\ ShownStored'
    BY <1>1, <1>2, Typed DEF ChatTyped, HistoryTyped, ShownStored, chatVars, toolVars,
       historyVars
  <2>4. ChatFits' /\ DispatcherFits' /\ SavesFit'
    BY <1>1, <1>2 DEF IInv, ChatFits, DispatcherFits, SavesFit, ToolsOnlyInActiveTurn,
       Quiet,
       IsLiveSession, IsActiveTurn, chatVars, toolVars, historyVars, serverVars, consentVars
  <2> QED BY <2>2, <2>3, <2>4, Together
<1>3. CASE /\ Completable(t, status) /\ dispatcher' = FinishedTurn
           /\ saves' = saves \union
                       {[TerminalSave(t, status) EXCEPT !.live = @ /\ projector = t]}
           /\ UNCHANGED <<serverVars, chatVars, conversation, streamVars, rows, shown, ops>>
  <2>1. /\ dispatcher' \in [session : Sessions \union {0}, turn : Turns \union {0},
                            aborted : BOOLEAN, busy : BOOLEAN]
        /\ dispatcher'.session = dispatcher.session /\ dispatcher'.turn = 0
    <3>1. dispatcher \in [session : Sessions \union {0}, turn : Turns \union {0},
                          aborted : BOOLEAN, busy : BOOLEAN]
      BY Typed DEF ChatTyped
    <3> QED BY <1>3, <3>1 DEF FinishedTurn
  <2>2. Mild
    BY <1>1, <1>3, <2>1 DEF Mild, Opening, Quiet, consentVars, chatVars
  <2>3. /\ OpsFit' /\ Attended' /\ ServerTyped' /\ ServerFits'
        /\ StoppedIsQuiet'
    BY <1>1, <1>3, <2>2, EventFits, Typed DEF serverVars, ServerTyped
  <2>4. PICK n : n = [TerminalSave(t, status) EXCEPT !.live = @ /\ projector = t]
    OBVIOUS
  <2>5. n \in Saves /\ n.turn = t /\ (n.live => n.status = "completed")
    <3>1. HasCredential \in BOOLEAN /\ (status = "completed") \in BOOLEAN
          /\ (projector = t) \in BOOLEAN
      BY DEF HasCredential
    <3>2. /\ TerminalSave(t, status) \in Saves /\ TerminalSave(t, status).turn = t
          /\ TerminalSave(t, status).status = status
          /\ TerminalSave(t, status).live = (status = "completed")
      BY <1>1, <3>1 DEF TerminalSave, Saves
    <3>3. (TerminalSave(t, status).live /\ projector = t) \in BOOLEAN
      OBVIOUS
    <3> QED BY <2>4, <3>2, <3>3 DEF Saves
  <2>6. turn.id = t /\ turn.status \notin {"none", "starting"} /\ rows[t] # "none"
    BY <1>3 DEF Completable, IsProviderTurn, IInv, ChatFits
  <2>7. SavesFit'
    <3> SUFFICES ASSUME NEW s \in saves'
                 PROVE  /\ s.live => s.status = "completed"
                        /\ s.ends => /\ s.turn # dispatcher'.turn /\ rows'[s.turn] # "none"
                                     /\ turn'.id = s.turn => turn'.status # "starting"
      BY DEF SavesFit
    <3>1. CASE s \in saves
      <4>1. s.turn \in Turns /\ 0 \notin Turns
        BY <3>1, Typed DEF HistoryTyped, Saves, Turns
      <4> QED BY <1>3, <2>1, <3>1, <4>1 DEF IInv, SavesFit, chatVars
    <3>2. CASE s \notin saves
      <4>1. s = n /\ 0 \notin Turns
        BY <1>3, <2>4, <3>2 DEF Turns
      <4> QED BY <1>1, <1>3, <2>1, <2>5, <2>6, <4>1 DEF chatVars
    <3> QED BY <3>1, <3>2
  <2>8. ChatTyped' /\ HistoryTyped' /\ ShownStored'
    BY <1>1, <1>3, <2>1, <2>4, <2>5, Typed DEF ChatTyped, HistoryTyped, ShownStored,
       chatVars,
       streamVars
  <2>9. ChatFits' /\ DispatcherFits'
    BY <1>1, <1>3, <2>1 DEF IInv, ChatFits, DispatcherFits, ToolsOnlyInActiveTurn, Quiet,
       IsLiveSession, IsActiveTurn, chatVars, serverVars, consentVars
  <2> QED BY <2>3, <2>7, <2>8, <2>9, Together
<1>4. CASE Crash /\ UNCHANGED <<auth, account>>
  BY <1>1, <1>4, CrashKeepsIInv
<1> QED BY <1>2, <1>3, <1>4

\* The owner logs in or out of Codex.
LEMMA AccountUpdatedKeepsIInv ==
    ASSUME IInv, HostRuns, NEW status \in {"logged_out", "authenticated"}, AccountUpdated(status)
    PROVE  IInv'
<1> USE DEF AccountUpdated, SetStatus
<1>1. /\ UNCHANGED <<consentVars, host, appServer, process, conversation, starting, early,
                     rows, shown, ops, working>>
      /\ SyncAuth(status) /\ auth' = status /\ account' = status
  BY DEF SyncAuth
<1>2. /\ Mild /\ ChatTyped' /\ HistoryTyped' /\ ShownStored'
      /\ ChatFits' /\ DispatcherFits' /\ SavesFit'
  BY <1>1, AuthSynced, Typed DEF HistoryTyped, consentVars
<1>3. OpsFit'
  BY <1>1, <1>2, NoneMoves, MildSpares DEF ProcessStays
<1>4. Attended'
  BY <1>1, AttendedKept DEF consentVars
<1>5. ServerTyped' /\ ServerFits' /\ StoppedIsQuiet'
  BY <1>1, Typed DEF ServerTyped, IInv, ServerFits, consentVars, HostRuns,
     StoppedIsQuiet
<1> QED BY <1>2, <1>3, <1>4, <1>5, Together

\* The end of save s in the chat state, with the rows the API has by then.
LEMMA SaveEnds ==
    ASSUME IInv, HostRuns, NEW s \in saves, NEW status \in Terminal,
           saves' = saves \ {s}, shown' \subseteq Turns,
           rows' \in [Turns -> Terminal \union {"none", "reserved"}],
           \A u \in Turns : rows[u] # rows'[u] => rows[u] = "reserved" /\ rows'[u] # "none",
           \A u \in shown' : rows'[u] = "completed",
           status = "completed" => rows'[s.turn] = "completed",
           \/ s.ends /\ EndSavedTurn(s.turn, status) /\ projector' = 0
           \/ UNCHANGED <<turn, host, projector>>,
           UNCHANGED <<consentVars, appServer, process, auth, account, session, toolVars,
                       starting, early, ops, working>>
    PROVE  IInv'
<1>1. s \in Saves /\ s.turn \in Turns
  BY Typed DEF HistoryTyped, Saves
<1>2. /\ \/ turn' = turn
         \/ /\ turn' = [turn EXCEPT !.status = status] /\ IsActiveTurn
            /\ turn.id = s.turn /\ s.ends
      /\ host' \in {host, "exited"}
  BY DEF EndSavedTurn
<1>3. /\ turn' \in [status : {"none", "starting", "running", "interrupting"} \union Terminal,
                    id : Turns \union {0}, bound : BOOLEAN]
      /\ turn'.id = turn.id /\ turn'.bound = turn.bound
      /\ \/ turn' = turn
         \/ /\ turn'.status = status /\ turn.status # "none" /\ IsActiveTurn
            /\ turn.id = s.turn /\ s.ends
  BY <1>2, Typed DEF ChatTyped, IsActiveTurn
<1>4. status \notin {"none", "starting", "running", "interrupting"}
  BY DEF Terminal
<1>5. Mild
  BY <1>3, <1>4 DEF Mild, Opening, Quiet, consentVars, toolVars
<1>6. /\ OpsFit' /\ Attended' /\ ServerTyped' /\ ServerFits'
      /\ StoppedIsQuiet'
  BY <1>2, <1>5, EventFits, Typed DEF ServerTyped
<1>7. ChatTyped' /\ HistoryTyped'
  BY <1>3, Typed DEF ChatTyped, HistoryTyped, toolVars
<1>8. turn.status # "none" => turn.id \in Turns /\ rows[turn.id] # "none"
  BY Typed DEF ChatTyped, IInv, ChatFits
<1>9. ShownStored'
  <2>1. turn'.status = "completed" => rows'[turn'.id] = "completed"
    BY <1>1, <1>3, <1>4, <1>8, Typed DEF ShownStored
  <2> QED BY <2>1 DEF ShownStored
<1>10. ChatFits'
  BY <1>3, <1>4, <1>8 DEF IInv, ChatFits, IsLiveSession, IsActiveTurn
<1>11. DispatcherFits'
  <2>1. ToolsOnlyInActiveTurn'
    BY <1>3 DEF IInv, DispatcherFits, SavesFit, ToolsOnlyInActiveTurn, toolVars
  <2> QED BY <2>1 DEF IInv, DispatcherFits, Quiet, toolVars, consentVars
<1>12. SavesFit'
  BY <1>3, <1>4, SavesStay, Typed DEF HistoryTyped, toolVars
<1> QED BY <1>6, <1>7, <1>9, <1>10, <1>11, <1>12, Together

\* The API's answer to a save, or its failure.
LEMMA SaveKeepsIInv ==
    ASSUME IInv, HostRuns, NEW s \in saves, Saved(s) \/ SaveFails(s)
    PROVE  IInv'
<1>1. PICK t \in Turns, status \in Terminal : t = s.turn /\ status = s.status
  BY Typed DEF HistoryTyped, Saves
<1>2. Ended(t, status) = [rows EXCEPT ![t] = IF @ = "reserved" THEN status ELSE @]
  BY DEF Ended
<1>3. \A r \in {rows, Ended(t, status)} :
         /\ r \in [Turns -> Terminal \union {"none", "reserved"}]
         /\ \A u \in Turns : rows[u] # r[u] => rows[u] = "reserved" /\ r[u] # "none"
  <2>1. Ended(t, status) \in [Turns -> Terminal \union {"none", "reserved"}]
    BY <1>2, Typed DEF HistoryTyped
  <2>2. \A u \in Turns : rows[u] # Ended(t, status)[u] =>
                            rows[u] = "reserved" /\ Ended(t, status)[u] # "none"
    BY <1>2, Typed DEF HistoryTyped, Terminal
  <2> QED BY <2>1, <2>2, Typed DEF HistoryTyped
<1>4. rows' \in {rows, Ended(t, status)}
  BY <1>1 DEF Saved, SaveFails
<1>5. /\ rows' \in [Turns -> Terminal \union {"none", "reserved"}]
      /\ \A u \in Turns : rows[u] # rows'[u] => rows[u] = "reserved" /\ rows'[u] # "none"
  BY <1>3, <1>4
<1>6. \A u \in shown : u \in Turns /\ rows'[u] = "completed"
  BY <1>5, Typed DEF HistoryTyped, ShownStored
<1>7. CASE Saved(s)
  <2>1. status = "completed" => rows'[t] = "completed"
    BY <1>1, <1>2, <1>7, Typed DEF Saved, HistoryTyped
  <2>2. shown' \subseteq Turns /\ \A u \in shown' : rows'[u] = "completed"
    <3>1. s.live => status = "completed"
      BY <1>1 DEF IInv, SavesFit
    <3> QED BY <1>1, <1>6, <1>7, <2>1, <3>1 DEF Saved
  <2> QED BY <1>1, <1>5, <1>7, <2>1, <2>2, SaveEnds DEF Saved
<1>8. CASE SaveFails(s)
  <2>1. shown' \subseteq Turns /\ \A u \in shown' : rows'[u] = "completed"
    BY <1>6, <1>8 DEF SaveFails
  <2>2. "failed" \in Terminal /\ "failed" # "completed"
    BY DEF Terminal
  <2> QED BY <1>5, <1>8, <2>1, <2>2, SaveEnds DEF SaveFails
<1> QED BY <1>7, <1>8

\* The process is gone, and who waited for that goes on.
LEMMA GoneKeepsIInv ==
    ASSUME IInv, HostRuns, Urgent = {}, ProcessStopped
    PROVE  IInv'
<1> USE DEF ProcessStopped
<1>1. /\ process = "stopping" /\ process' = "none" /\ appServer \in {"stopping", "crashed"}
      /\ appServer' \in {"stopped", "crashed"}
      /\ host' \in {host, "stopped"} /\ (host' = "stopped" => ShuttingDown)
      /\ UNCHANGED <<auth, account, chatVars, toolVars, streamVars, historyVars>>
      /\ journal' \in {journal, "revoked"}
      /\ UNCHANGED consent \/ (consent = "revoke_pending" /\ consent' = "revoked")
  BY DEF Complete, consentVars, IInv, ServerFits, HostRuns
<1>2. \A j \in Clients : /\ ops[j] \in Operations /\ ops[j].step \notin ProviderSteps
                         /\ \/ ops'[j] = ops[j]
                               /\ ops[j].step \notin {"stop", "startup_failed"}
                            \/ ops'[j] = Idle /\ ops[j].step \in {"stop", "startup_failed"}
  BY <1>1 DEF IInv, OpsFit, Fits, Urgent
<1>3. Mild
  BY <1>1 DEF Mild, Opening, Quiet, chatVars, toolVars, historyVars
<1>4. OpsFit'
  <2>1. Idle \in Operations /\ Idle.step = "none" /\ Idle.kind = "none"
    BY DEF Operations, Idle
  <2>2. ops' \in [Clients -> Operations]
    BY <1>2, <2>1
  <2>3. ASSUME NEW j \in Clients PROVE Fits(ops[j])'
    <3>1. CASE ops'[j] = ops[j]
      BY <1>2, <1>3, <3>1, StillFits, MildSpares
    <3>2. CASE ops'[j] = Idle
      <4>1. StepOfKind(ops[j])' /\ ops'[j] \in Operations
        BY <2>1, <3>2 DEF StepOfKind, Creating, Starting, Ending, Idle
      <4> QED BY <2>1, <3>2, <4>1 DEF Fits, Creating, ProviderSteps
    <3> QED BY <1>2, <3>1, <3>2
  <2>4. ASSUME NEW j \in Clients, NEW l \in Clients, j # l PROVE Apart(ops[j], ops[l])'
    <3>1. Apart(ops[j], ops[l])
      BY <2>4 DEF IInv, OpsFit
    <3>2. /\ ops'[j] = ops[j] \/ ops'[j] = Idle
          /\ ops'[l] = ops[l] \/ ops'[l] = Idle
      BY <1>2
    <3>3. Idle.step \notin Creating \union Starting
      BY <2>1 DEF Creating, Starting
    <3> QED BY <2>1, <3>1, <3>2, <3>3 DEF Apart
  <2> QED BY <2>2, <2>3, <2>4 DEF OpsFit
<1>5. Attended'
  <2>1. \A j \in Clients : ops'[j].step # "prepare"
    BY <1>2 DEF Idle, ProviderSteps
  <2> QED BY <1>1, <2>1 DEF Attended
<1>6. ChatTyped' /\ HistoryTyped' /\ ShownStored' /\ SavesFit'
  BY <1>1, HostKept
<1>7. ServerTyped' /\ ServerFits'
  BY <1>1, Typed DEF ServerTyped, IInv, ServerFits
<1>8. ~IsLiveSession /\ ~IsActiveTurn
  BY <1>1 DEF IInv, ChatFits, IsLiveSession
<1>9. ChatFits' /\ DispatcherFits'
  BY <1>1, <1>8 DEF IInv, ChatFits, DispatcherFits, ToolsOnlyInActiveTurn, Quiet,
     IsLiveSession,
     IsActiveTurn, chatVars, toolVars, historyVars
<1>10. StoppedIsQuiet'
  <2> SUFFICES ASSUME ShuttingDown PROVE StoppedIsQuiet'
    BY <1>1 DEF StoppedIsQuiet
  <2>1. PICK k \in Clients : ops[k].kind = "shutdown"
    BY DEF ShuttingDown
  <2>2. Quiet /\ \A j \in Clients \ {k} : ops[j] = Idle
    BY <2>1, LastAlone
  <2>3. ops[k].step \in {"stop", "startup_failed"}
    BY <1>1, <2>2 DEF IInv, Attended, Idle
  <2>4. ops' = [j \in Clients |-> Idle]
    <3>1. \A j \in Clients : ops'[j] = Idle
      BY <1>2, <2>2, <2>3
    <3> QED BY <1>4, <3>1 DEF OpsFit
  <2> QED BY <1>1, <1>8, <2>2, <2>4 DEF StoppedIsQuiet, Quiet, IsLiveSession, IsActiveTurn,
      chatVars, toolVars
<1> QED BY <1>4, <1>5, <1>6, <1>7, <1>9, <1>10, Together

-----------------------------------------------------------------------------
(* The invariant *)

\* What start() leaves behind.
LEMMA InitIInv == Init => IInv
<1> SUFFICES ASSUME Init PROVE IInv
  OBVIOUS
<1> USE DEF Init
<1>1. \A k \in Clients : ops[k] = Idle
  OBVIOUS
<1>2. Idle \in Operations /\ Idle.step = "none" /\ Idle.kind = "none" /\ ~Idle.cut
  BY DEF Idle, Operations
<1>3. OpsFit
  <2>1. StepOfKind(Idle)
    BY <1>2 DEF StepOfKind, Creating, Starting, Ending
  <2>2. Fits(Idle)
    BY <1>2, <2>1 DEF Fits, Creating, ProviderSteps
  <2>3. Apart(Idle, Idle)
    BY <1>2 DEF Apart, Creating, Starting
  <2> QED BY <1>1, <1>2, <2>2, <2>3 DEF OpsFit
<1>4. /\ ~IsLiveSession /\ ~IsActiveTurn /\ dispatcher.turn = 0 /\ dispatcher.session = 0
      /\ turn.status = "none" /\ ~turn.bound
  BY DEF NoSession, NoTurn, Unbound, IsLiveSession, IsActiveTurn
<1>5. TypeOK
  <2>1. /\ session \in [status : {"none", "starting", "ready", "context_lost", "closed"},
                        id : Sessions \union {0}, thread : BOOLEAN]
        /\ turn \in [status : {"none", "starting", "running", "interrupting"} \union Terminal,
                     id : Turns \union {0}, bound : BOOLEAN]
    BY DEF NoSession, NoTurn
  <2>2. dispatcher \in [session : Sessions \union {0}, turn : Turns \union {0},
                        aborted : BOOLEAN, busy : BOOLEAN]
    <3>1. 0 \in Turns \union {0} /\ 0 \in Sessions \union {0}
      OBVIOUS
    <3> QED BY <3>1 DEF Unbound
  <2>3. \A k \in Clients : ops[k].session \in Sessions \union {0}
                         /\ ops[k].turn \in Turns \union {0}
    BY <1>1 DEF Idle
  <2>4. /\ journal \in {"none", "granted", "pending", "revoked"}
        /\ consent \in {"unknown", "granted", "revoke_pending", "revoked"}
    BY DEF LoadedConsents
  <2>5. /\ projector \in Turns \union {0} /\ early \in Terminal \union {"none", "other"}
        /\ rows \in [Turns -> Terminal \union {"none", "reserved"}]
        /\ saves = {} /\ shown = {} /\ working = {}
    OBVIOUS
  <2> QED BY <2>1, <2>2, <2>3, <2>4, <2>5 DEF TypeOK
<1>6. ShownIsDurable /\ StoppedIsQuiet
  BY <1>4, <1>5 DEF ShownIsDurable, StoppedIsQuiet, LoadedConsents
<1>7. Attended
  BY <1>1, <1>2 DEF Attended
<1>8. ServerFits /\ ChatFits /\ DispatcherFits /\ SavesFit
  BY <1>4 DEF ServerFits, ChatFits, DispatcherFits, ToolsOnlyInActiveTurn, Quiet, SavesFit
<1> QED BY <1>3, <1>6, <1>7, <1>8 DEF IInv

\* Nothing happens to a state that no action changes.
LEMMA StutterIInv == IInv /\ UNCHANGED vars => IInv'
<1> SUFFICES ASSUME IInv, UNCHANGED vars PROVE IInv'
  OBVIOUS
<1> USE DEF vars, consentVars, serverVars, chatVars, toolVars, streamVars, historyVars
<1>1. OpsFit'
  <2>1. Mild /\ ProcessStays
    BY Unmoved DEF ProcessStays
  <2> QED BY <2>1, NoneMoves, MildSpares
<1>2. Attended'
  BY AttendedKept
<1>3. ServerTyped' /\ ChatTyped' /\ HistoryTyped' /\ ShownStored'
  BY Typed DEF ServerTyped, ChatTyped, HistoryTyped, ShownStored
<1>4. ServerFits' /\ ChatFits' /\ StoppedIsQuiet'
  BY DEF IInv, ServerFits, ChatFits, IsLiveSession, IsActiveTurn,
     StoppedIsQuiet
<1>5. DispatcherFits' /\ SavesFit'
  BY DEF IInv, DispatcherFits, SavesFit, Quiet, ToolsOnlyInActiveTurn
<1> QED BY <1>1, <1>2, <1>3, <1>4, <1>5, Together

\* Every step of a command in flight.
LEMMA CommandStepIInv ==
    ASSUME IInv, HostRuns, NEW k \in Clients, Continue(k) \/ Answer(k)
    PROVE  IInv'
<1>1. CASE Started(k) \/ StartFails(k) \/ AccountRead(k) \/ AccountFails(k)
  BY <1>1, StartedKeepsIInv, StartFailsKeepsIInv, AccountKeepsIInv
<1>2. CASE Prepared(k) \/ ThreadStarted(k) \/ UnsubscribeFails(k) \/ Interrupted(k)
  BY <1>2, OnlyMovesKeepsIInv
<1>3. CASE OpenSession(k) \/ CreateFails(k) \/ Unsubscribed(k)
  BY <1>3, OpenKeepsIInv, CreateFailsKeepsIInv, UnsubscribedKeepsIInv
<1>4. CASE Reserved(k) \/ ReserveFails(k) \/ TurnStarted(k) \/ TurnFails(k)
  BY <1>4, ReservedKeepsIInv, ReserveFailsKeepsIInv, TurnStartedKeepsIInv,
     TurnFailsKeepsIInv
<1>5. CASE EndInterruptedTurn(k) \/ Persisted(k)
  BY <1>5, EndTurnKeepsIInv, PersistedKeepsIInv
<1>6. CASE CloseLast(k) \/ CloseLastAnswered(k) \/ CloseLastFails(k)
  BY <1>6, CloseLastKeepsIInv, CloseFailsKeepsIInv
<1>7. CASE StopProcess(k) \/ RevokeWithoutProcess(k) \/ StopWithoutProcess(k)
  BY <1>7, StopKeepsIInv, RevokedKeepsIInv, HostStopKeepsIInv
<1> QED BY <1>1, <1>2, <1>3, <1>4, <1>5, <1>6, <1>7 DEF Continue, Answer

\* Every command of the owner, and the shutdown.
LEMMA NewCommandIInv ==
    ASSUME IInv, HostRuns, Urgent = {}, ~ShuttingDown, NEW k \in Clients, Command(k)
    PROVE  IInv'
  BY ShutdownKeepsIInv, GrantKeepsIInv, RefreshKeepsIInv, RevocationKeepsIInv, RecordKeepsIInv, CreateKeepsIInv,
     CloseKeepsIInv, StartKeepsIInv DEF Command

\* Every event.
LEMMA EventIInv == IInv /\ HostRuns /\ Event => IInv'
<1> SUFFICES ASSUME IInv, HostRuns, Event PROVE IInv'
  OBVIOUS
<1>1. CASE InterruptTurn \/ CallStarts \/ CallEnds
  BY <1>1, InterruptKeepsIInv, CallKeepsIInv
<1>2. CASE ProviderFails
  BY <1>2, CrashKeepsIInv DEF ProviderFails
<1>3. CASE \E t \in working, status \in Terminal : TurnCompleted(t, status)
  BY <1>3, CompletedKeepsIInv
<1>4. CASE \E status \in {"logged_out", "authenticated"} : AccountUpdated(status)
  BY <1>4, AccountUpdatedKeepsIInv
<1>5. CASE \E s \in saves : Saved(s) \/ SaveFails(s)
  BY <1>5, SaveKeepsIInv
<1> QED BY <1>1, <1>2, <1>3, <1>4, <1>5 DEF Event

\* Every step: one of a command in flight, a new one, an event, the end of the process.
LEMMA StepIInv == IInv /\ [Next]_vars => IInv'
<1> SUFFICES ASSUME IInv, [Next]_vars PROVE IInv'
  OBVIOUS
<1>1. ASSUME NEW k \in Clients, Step(k) PROVE IInv'
  BY <1>1, CommandStepIInv DEF Step
<1>2. ASSUME HostRuns, Urgent = {}, NEW k \in Clients, ~ShuttingDown, Command(k) PROVE IInv'
  BY <1>2, NewCommandIInv
<1>3. CASE HostRuns /\ Event
  BY <1>3, EventIInv
<1>4. CASE HostRuns /\ Urgent = {} /\ ProcessStopped
  BY <1>4, GoneKeepsIInv
<1>5. CASE UNCHANGED vars
  BY <1>5, StutterIInv
<1> QED BY <1>1, <1>2, <1>3, <1>4, <1>5 DEF Next

\* The invariant holds of every behaviour, with any number of commands, sessions and turns.
THEOREM Invariance == Spec => []IInv
  BY InitIInv, StepIInv, PTL DEF Spec

-----------------------------------------------------------------------------
(* The theorems *)

\* A tool call is served only for the turn that is shown as running, in the session
\* that is shown as ready: the dispatcher is let go of in every crash, logout,
\* revocation, shutdown and failed start (handleFatalProcessError, syncAuth, interruptTurn).
THEOREM ToolsServeShownTurn == Spec => []ToolsOnlyInActiveTurn
<1>1. IInv => ToolsOnlyInActiveTurn
  BY DEF IInv, DispatcherFits
<1> QED BY <1>1, Invariance, PTL

\* A turn is shown as completed only when the API has committed it, whatever fails it
\* while the answer is on its way (persistTerminalTurn, persistFailedTurn).
THEOREM ShownDurable == Spec => []ShownIsDurable
<1>1. IInv => ShownIsDurable
  BY DEF IInv
<1> QED BY <1>1, Invariance, PTL

\* What is known of the provider between events.
LEMMA ToldOfProvider == IInv => ProviderAsTold
<1> SUFFICES ASSUME IInv PROVE ProviderAsTold
  OBVIOUS
<1>1. StoppedIsQuiet
  BY DEF IInv
<1>2. AppServerTracksProcess
  <2> SUFFICES ASSUME Urgent = {} PROVE appServer = "ready" <=> process = "ready"
    BY DEF AppServerTracksProcess
  <2>1. \A j \in Clients : ops[j].step # "closed"
    BY DEF Urgent
  <2> QED BY <2>1, Typed DEF IInv, Attended, ServerFits, ServerTyped
<1>3. RevokedIsQuiet
  <2> SUFFICES ASSUME journal = "revoked", Urgent = {}
               PROVE  /\ process = "none" /\ ~IsLiveSession /\ ~IsActiveTurn
                      /\ dispatcher.turn # 0 => dispatcher.aborted
                      /\ \A k \in Clients : ops[k].step \notin ProviderSteps
    BY DEF RevokedIsQuiet
  <2>1. process = "none" /\ appServer # "ready"
    BY DEF IInv, ServerFits
  <2>2. ~IsLiveSession /\ ~IsActiveTurn
    BY <2>1 DEF IInv, ChatFits, IsLiveSession
  <2>3. dispatcher.turn # 0 => dispatcher.aborted
    BY <2>2 DEF IInv, DispatcherFits, ToolsOnlyInActiveTurn, IsActiveTurn
  <2>4. ASSUME NEW k \in Clients PROVE ops[k].step \notin ProviderSteps
    BY <2>1 DEF Urgent, IInv, OpsFit, Fits
  <2> QED BY <2>1, <2>2, <2>3, <2>4
<1> QED BY <1>1, <1>2, <1>3 DEF ProviderAsTold

\* What the host says of the provider is so: no process after a completed revocation or
\* a stop, and between events the app server is ready exactly when its process is.
THEOREM ProviderTold == Spec => []ProviderAsTold
  BY ToldOfProvider, Invariance, PTL

-----------------------------------------------------------------------------
(* Who ends a session that the chat state does not consent to              *)

\* Somebody ends it: the consent that is on disk follows, since a live session has its
\* process, and a process has a consent that is at most being revoked.
LiveConsented == IsLiveSession /\ consent # "granted" => \E k \in Clients : Revoking(k)

\* No session comes to life, and no consent is taken back.
Fades ==
    /\ IsLiveSession' => IsLiveSession
    /\ consent' # "granted" => consent # "granted"

\* Such a step keeps it, if those who revoke go on.
LEMMA FadesConsented ==
    ASSUME LiveConsented, Fades, \A j \in Clients : Revoking(j) => Revoking(j)'
    PROVE  LiveConsented'
  BY DEF LiveConsented, Fades

\* The moves in which those who revoke go on.
LEMMA RevokingKept ==
    ASSUME IInv, NEW k \in Clients, NEW step, step # "stop",
           \/ UNCHANGED ops
           \/ ops' = Rejected(ops)
           \/ Finish(k) /\ ops[k].kind # "revoke"
           \/ Goto(k, step)
           \/ ops[k] = Idle /\ \E kind, s, t : Call(k, kind, step, s, t)
    PROVE  \A j \in Clients : Revoking(j) => Revoking(j)'
<1>1. ops \in [Clients -> Operations]
  BY DEF IInv, OpsFit
<1> SUFFICES ASSUME NEW j \in Clients, Revoking(j) PROVE Revoking(j)'
  OBVIOUS
<1>2. CASE ops' = Rejected(ops)
  <2>1. ops'[j] = ops[j] \/ ops'[j] = [ops[j] EXCEPT !.cut = TRUE]
    BY <1>2 DEF Rejected
  <2> QED BY <1>1, <2>1 DEF Operations, Revoking
<1>3. CASE Finish(k) /\ ops[k].kind # "revoke"
  BY <1>1, <1>3 DEF Finish, Revoking
<1>4. CASE Goto(k, step)
  <2>1. /\ ops'[k].step = step /\ ops'[k].kind = ops[k].kind
        /\ \A l \in Clients \ {k} : ops'[l] = ops[l]
    BY <1>1, <1>4 DEF Goto, Operations
  <2> QED BY <2>1 DEF Revoking
<1>5. CASE ops[k] = Idle /\ \E kind, s, t : Call(k, kind, step, s, t)
  BY <1>1, <1>5 DEF Call, Idle, Revoking
<1> QED BY <1>2, <1>3, <1>4, <1>5 DEF Revoking

\* What a loss of the context, a logout and a close make of a session.
LEMMA SessionFades ==
    ASSUME IInv, \/ UNCHANGED session \/ LoseActiveContext \/ HandleFatal
                 \/ \E status : SyncAuth(status) \/ SetStatus(status)
                 \/ \E s : CloseBoth(s)
    PROVE  IsLiveSession' => IsLiveSession
<1>1. \A x \in {"context_lost", "closed"} : [session EXCEPT !.status = x].status = x
  BY Typed DEF ChatTyped
<1> QED BY <1>1 DEF LoseActiveContext, HandleFatal, SyncAuth, SetStatus, CloseBoth, IsLiveSession

\* A process that is not there, or is to be stopped, has no live session.
LEMMA NoneLive ==
    ASSUME IInv, \/ process \in {"none", "stopping"}
                 \/ ~((appServer = "ready" \/ ShuttingDown) /\ IsLiveSession)
    PROVE  ~IsLiveSession
  BY DEF IInv, ServerFits, ChatFits

\* Every step of a command in flight.
LEMMA StepsConsented ==
    ASSUME IInv, LiveConsented, NEW k \in Clients, Continue(k) \/ Answer(k)
    PROVE  LiveConsented'
<1>1. ops \in [Clients -> Operations] /\ Fits(ops[k]) /\ StepOfKind(ops[k])
  BY DEF IInv, OpsFit, Fits
<1>2. CASE StopProcess(k) \/ RevokeWithoutProcess(k)
  <2>1. ~IsLiveSession
    BY <1>2, NoneLive DEF StopProcess, RevokeWithoutProcess
  <2>2. ~IsLiveSession'
    BY <1>2, <2>1, SessionFades DEF StopProcess, RevokeWithoutProcess, chatVars
  <2> QED BY <2>2 DEF LiveConsented
<1>3. ASSUME UNCHANGED consentVars, IsLiveSession' => IsLiveSession,
             \/ Finish(k) /\ ops[k].kind # "revoke"
             \/ \E step : Goto(k, step) /\ step # "stop"
      PROVE  LiveConsented'
  BY <1>3, RevokingKept, FadesConsented DEF Fades, consentVars
<1>4. CASE \/ Started(k) \/ StartFails(k) \/ Prepared(k) \/ ThreadStarted(k) \/ Reserved(k)
           \/ Interrupted(k) \/ Persisted(k) \/ CloseLastAnswered(k) \/ CloseLastFails(k)
  <2>1. UNCHANGED consentVars /\ \E step : Goto(k, step) /\ step # "stop"
    BY <1>4 DEF Started, StartFails, Prepared, ThreadStarted, Reserved, Interrupted, Persisted,
       CloseLastAnswered, CloseLastFails
  <2>2. UNCHANGED session \/ HandleFatal \/ \E s : CloseBoth(s)
    BY <1>4 DEF Started, StartFails, Prepared, ThreadStarted, Reserved, Interrupted, Persisted,
       CloseLastAnswered, CloseLastFails, chatVars
  <2> QED BY <1>3, <2>1, <2>2, SessionFades
<1>5. CASE \/ AccountRead(k) \/ AccountFails(k) \/ Unsubscribed(k) \/ UnsubscribeFails(k)
           \/ ReserveFails(k) \/ TurnStarted(k) \/ TurnFails(k) \/ StopWithoutProcess(k)
  <2>1. UNCHANGED consentVars /\ Finish(k)
    BY <1>5 DEF AccountRead, AccountFails, Unsubscribed, UnsubscribeFails, ReserveFails,
       TurnStarted, TurnFails, StopWithoutProcess
  <2>2. ops[k].kind # "revoke"
    BY <1>1, <1>5 DEF AccountRead, AccountFails, Unsubscribed, UnsubscribeFails, ReserveFails,
       TurnStarted, TurnFails, StopWithoutProcess, Answered, StepOfKind, Starting
  <2>3. UNCHANGED session \/ (\E status : SyncAuth(status) \/ SetStatus(status))
        \/ \E s : CloseBoth(s)
    BY <1>5 DEF AccountRead, AccountFails, Unsubscribed, UnsubscribeFails, ReserveFails,
       TurnStarted, TurnFails, StopWithoutProcess, chatVars
  <2> QED BY <1>3, <2>1, <2>2, <2>3, SessionFades
<1>6. CASE OpenSession(k) \/ CreateFails(k)
  <2>1. UNCHANGED consentVars /\ Finish(k) /\ ops[k].kind # "revoke"
    BY <1>1, <1>6 DEF OpenSession, CreateFails, Answered, StepOfKind, Creating
  <2>2. IsLiveSession' => IsLiveSession
    BY <1>6, Typed DEF OpenSession, CreateFails, ChatTyped, IsLiveSession
  <2> QED BY <1>3, <2>1, <2>2
<1>7. CASE EndInterruptedTurn(k)
  <2>1. Goto(k, "persisted") \/ \E step \in {"persist", "persisted"} :
           ops' = [ops EXCEPT ![k] = [@ EXCEPT !.step = step, !.turn = turn.id]]
    BY <1>7 DEF EndInterruptedTurn
  <2>2. CASE Goto(k, "persisted")
    BY <1>3, <1>7, <2>2 DEF EndInterruptedTurn, IsLiveSession
  <2>3. ASSUME NEW step \in {"persist", "persisted"},
               ops' = [ops EXCEPT ![k] = [@ EXCEPT !.step = step, !.turn = turn.id]]
        PROVE  LiveConsented'
    <3>1. /\ ops'[k].kind = ops[k].kind /\ ops'[k].step # "stop"
          /\ \A j \in Clients \ {k} : ops'[j] = ops[j]
      BY <1>1, <2>3 DEF Operations
    <3> QED BY <1>7, <3>1, FadesConsented
            DEF EndInterruptedTurn, Fades, Revoking, IsLiveSession, consentVars
  <2> QED BY <2>1, <2>2, <2>3
<1>8. CASE CloseLast(k)
  <2>1. Goto(k, "closed") \/
        ops' = [ops EXCEPT ![k] = [@ EXCEPT !.step = "unsubscribe", !.session = session.id]]
    BY <1>8 DEF CloseLast
  <2>2. UNCHANGED session \/ \E s : CloseBoth(s)
    BY <1>8 DEF CloseLast
  <2>3. IsLiveSession' => IsLiveSession
    BY <2>2, SessionFades
  <2>4. CASE Goto(k, "closed")
    BY <1>3, <1>8, <2>3, <2>4 DEF CloseLast
  <2>5. CASE ops' = [ops EXCEPT ![k] = [@ EXCEPT !.step = "unsubscribe", !.session = session.id]]
    <3>1. /\ ops'[k].kind = ops[k].kind /\ ops'[k].step # "stop"
          /\ \A j \in Clients \ {k} : ops'[j] = ops[j]
      BY <1>1, <2>5 DEF Operations
    <3> QED BY <1>8, <2>3, <3>1, FadesConsented DEF CloseLast, Fades, Revoking, consentVars
  <2> QED BY <2>1, <2>4, <2>5
<1> QED BY <1>2, <1>4, <1>5, <1>6, <1>7, <1>8 DEF Continue, Answer

\* Every command of the owner, and the last one.
LEMMA CommandsConsented ==
    ASSUME IInv, LiveConsented, NEW k \in Clients, Command(k)
    PROVE  LiveConsented'
<1>1. ops \in [Clients -> Operations]
  BY DEF IInv, OpsFit
<1>2. CASE CreateSession(k)
  BY <1>2 DEF CreateSession, LiveConsented, consentVars
<1>3. CASE RevokeConsent(k) /\ RaiseBarrier(k)
  <2>1. ops'[k].kind = "revoke" /\ ops'[k].step # "stop"
    BY <1>1, <1>3 DEF RaiseBarrier, Call
  <2> QED BY <2>1 DEF LiveConsented, Revoking
<1>4. CASE RevokeConsent(k) /\ ~RaiseBarrier(k)
  BY <1>4 DEF RevokeConsent, LiveConsented, Revoking, IsLiveSession
<1>5. CASE GrantConsent(k) \/ RefreshProvider(k) \/ Shutdown(k) \/ StartTurn(k) \/ CloseSession(k)
  <2>1. UNCHANGED session \/ \E s : CloseBoth(s)
    BY <1>5 DEF GrantConsent, RefreshProvider, Shutdown, StartTurn, CloseSession, chatVars
  <2>2. consent' \in {consent, "granted"}
    BY <1>5 DEF GrantConsent, RefreshProvider, Shutdown, StartTurn, CloseSession, consentVars
  <2>3. UNCHANGED ops \/ \E step \in {"account", "starting", "interrupt", "interrupted",
           "reserve", "unsubscribe"} : \E kind, s, t : Call(k, kind, step, s, t)
    BY <1>5 DEF GrantConsent, RefreshProvider, Refresh, Shutdown, StartTurn, CloseSession
  <2>4. ops[k] = Idle
    BY <1>5 DEF GrantConsent, RefreshProvider, Shutdown, StartTurn, CloseSession
  <2>5. \A j \in Clients : Revoking(j) => Revoking(j)'
    BY <2>3, <2>4, RevokingKept DEF Revoking
  <2> QED BY <2>1, <2>2, <2>5, SessionFades, FadesConsented DEF Fades
<1> QED BY <1>2, <1>3, <1>4, <1>5 DEF Command

\* Every event.
LEMMA EventsConsented ==
    ASSUME IInv, LiveConsented, Event
    PROVE  LiveConsented'
<1>1. UNCHANGED consent /\ (UNCHANGED ops \/ ops' = Rejected(ops))
  BY DEF Event, InterruptTurn, CallStarts, CallEnds, ProviderFails, TurnCompleted, Crash,
     AccountUpdated, Saved, SaveFails, consentVars
<1>2. UNCHANGED session \/ HandleFatal \/ \E status : SetStatus(status)
  BY DEF Event, InterruptTurn, CallStarts, CallEnds, ProviderFails, TurnCompleted, Crash,
     AccountUpdated, Saved, SaveFails, chatVars
<1>3. \A j \in Clients : Revoking(j) => Revoking(j)'
  BY <1>1, RevokingKept DEF Revoking
<1> QED BY <1>1, <1>2, <1>3, SessionFades, FadesConsented DEF Fades

\* The end of the process: no session lives that it could leave behind.
LEMMA GoneConsented ==
    ASSUME IInv, ProcessStopped
    PROVE  LiveConsented'
<1>1. ~IsLiveSession /\ UNCHANGED session
  BY NoneLive DEF ProcessStopped, chatVars
<1> QED BY <1>1 DEF LiveConsented, IsLiveSession

\* So somebody ends it at all times.
LEMMA ConsentedInvariant == Spec => []LiveConsented
<1>1. Init => LiveConsented
  BY DEF Init, LiveConsented, IsLiveSession, NoSession
<1>2. IInv /\ LiveConsented /\ [Next]_vars => LiveConsented'
  <2> SUFFICES ASSUME IInv, LiveConsented, [Next]_vars PROVE LiveConsented'
    OBVIOUS
  <2>1. CASE UNCHANGED vars
    BY <2>1 DEF vars, consentVars, chatVars, LiveConsented, Revoking, IsLiveSession
  <2> QED BY <2>1, StepsConsented, CommandsConsented, EventsConsented, GoneConsented
          DEF Next, Step
<1> QED BY <1>1, <1>2, Invariance, PTL DEF Spec

\* A live session or an active turn has the consent on disk, or is being ended by a
\* revocation, whatever of the consent's records was written and reported as failed
\* (grantConsent, revokeConsent, the journal's append): only a failed revocation that
\* nobody repeats leaves it alone.
THEOREM LiveConsent == Spec => []LiveUnderConsent
<1>1. IInv /\ LiveConsented => LiveUnderConsent
  <2> SUFFICES ASSUME IInv, LiveConsented, IsLiveSession
               PROVE  journal = "granted" \/ Unnoticed \/ \E k \in Clients : Revoking(k)
    BY DEF IInv, ChatFits, IsLiveSession, LiveUnderConsent
  <2>1. process # "none"
    BY NoneLive
  <2> QED BY <2>1 DEF IInv, ServerFits, LiveConsented, Unnoticed
<1> QED BY <1>1, Invariance, ConsentedInvariant, PTL

-----------------------------------------------------------------------------
(* What is sent to the provider                                            *)

\* No command gets to where it sends something to the provider.
NothingSent ==
    \A k \in Clients : ops'[k].step \in {"thread", "turn_start"} => ops'[k].step = ops[k].step

\* The moves that send nothing.
LEMMA QuietMoves ==
    ASSUME IInv, NEW k \in Clients, NEW step, step \notin {"thread", "turn_start"},
           \/ UNCHANGED ops \/ ops' = Rejected(ops) \/ Finish(k) \/ Goto(k, step)
           \/ \E kind, s, t : Call(k, kind, step, s, t)
    PROVE  NothingSent
<1>1. ops \in [Clients -> Operations]
  BY DEF IInv, OpsFit
<1>2. CASE ops' = Rejected(ops)
  <2> SUFFICES ASSUME NEW j \in Clients PROVE ops'[j].step = ops[j].step
    BY DEF NothingSent
  <2>1. ops'[j] = ops[j] \/ ops'[j] = [ops[j] EXCEPT !.cut = TRUE]
    BY <1>2 DEF Rejected
  <2> QED BY <1>1, <2>1 DEF Operations
<1>3. CASE Finish(k)
  BY <1>1, <1>3 DEF Finish, Idle, NothingSent
<1>4. CASE Goto(k, step)
  <2>1. ops'[k].step = step /\ \A j \in Clients \ {k} : ops'[j] = ops[j]
    BY <1>1, <1>4 DEF Goto, Operations
  <2> QED BY <2>1 DEF NothingSent
<1>5. CASE \E kind, s, t : Call(k, kind, step, s, t)
  <2>1. ops'[k].step = step /\ \A j \in Clients \ {k} : ops'[j] = ops[j]
    BY <1>1, <1>5 DEF Call
  <2> QED BY <2>1 DEF NothingSent
<1> QED BY <1>2, <1>3, <1>4, <1>5 DEF NothingSent

\* The steps of commands in flight that send nothing.
LEMMA OthersSendNothing ==
    ASSUME IInv, NEW k \in Clients, Continue(k) \/ Answer(k), ~Prepared(k), ~Reserved(k)
    PROVE  NothingSent
<1>1. CASE \/ Finish(k) \/ Goto(k, "account") \/ Goto(k, "startup_failed") \/ Goto(k, "bind")
           \/ Goto(k, "interrupted") \/ Goto(k, "persisted") \/ Goto(k, "closed")
  BY <1>1, QuietMoves
<1>2. ops \in [Clients -> Operations]
  BY DEF IInv, OpsFit
<1>3. CASE EndInterruptedTurn(k)
  <2>1. Goto(k, "persisted") \/ \E step \in {"persist", "persisted"} :
           ops' = [ops EXCEPT ![k] = [@ EXCEPT !.step = step, !.turn = turn.id]]
    BY <1>3 DEF EndInterruptedTurn
  <2>2. ASSUME NEW step \in {"persist", "persisted"},
               ops' = [ops EXCEPT ![k] = [@ EXCEPT !.step = step, !.turn = turn.id]]
        PROVE  NothingSent
    <3>1. ops'[k].step = step /\ \A j \in Clients \ {k} : ops'[j] = ops[j]
      BY <1>2, <2>2 DEF Operations
    <3> QED BY <3>1 DEF NothingSent
  <2> QED BY <1>1, <2>1, <2>2
<1>4. CASE CloseLast(k)
  <2>1. Goto(k, "closed") \/
        ops' = [ops EXCEPT ![k] = [@ EXCEPT !.step = "unsubscribe", !.session = session.id]]
    BY <1>4 DEF CloseLast
  <2>2. CASE ops' = [ops EXCEPT ![k] = [@ EXCEPT !.step = "unsubscribe",
                                                 !.session = session.id]]
    <3>1. ops'[k].step = "unsubscribe" /\ \A j \in Clients \ {k} : ops'[j] = ops[j]
      BY <1>2, <2>2 DEF Operations
    <3> QED BY <3>1 DEF NothingSent
  <2> QED BY <1>1, <2>1, <2>2
<1>5. CASE StopProcess(k)
  <2> SUFFICES ASSUME NEW j \in Clients, ops'[j].step \in {"thread", "turn_start"}
               PROVE  ops'[j].step = ops[j].step
    BY DEF NothingSent
  <2>1. ops[j] \in Operations
    BY <1>2
  <2>2. \/ ops'[j] = [ops[j] EXCEPT !.step = "stop"]
        \/ ops'[j] = [ops[j] EXCEPT !.step = "startup_failed"]
        \/ ops'[j] = [ops[j] EXCEPT !.cut = TRUE]
        \/ ops'[j] = ops[j]
    BY <1>5 DEF StopProcess, Rejected
  <2> QED BY <2>1, <2>2 DEF Operations
<1> QED BY <1>1, <1>3, <1>4, <1>5 DEF Continue, Answer, Started, StartFails, AccountRead,
    AccountFails, ThreadStarted, OpenSession, CreateFails, Unsubscribed, UnsubscribeFails,
    ReserveFails, TurnStarted, TurnFails, Interrupted, Persisted, CloseLastAnswered,
    CloseLastFails, RevokeWithoutProcess, StopWithoutProcess

\* Nor do the commands of the owner, before their first await, and the events.
LEMMA BeginningsSendNothing ==
    ASSUME IInv, \/ \E k \in Clients : Command(k)
                 \/ Event
                 \/ ProcessStopped
    PROVE  NothingSent
<1>1. ASSUME NEW k \in Clients, Command(k) PROVE NothingSent
  <2>1. \/ UNCHANGED ops
        \/ \E step \in {"account", "starting", "prepare", "unsubscribe", "reserve", "interrupt",
                         "interrupted"} : \E kind, s, t : Call(k, kind, step, s, t)
    <3>1. CASE Shutdown(k) \/ RevokeConsent(k)
      <4>1. UNCHANGED ops \/
            \E step \in {"interrupt", "interrupted"}, kind \in {"shutdown", "revoke"} :
               Call(k, kind, step, 0, 0)
        BY <3>1 DEF Shutdown, RevokeConsent, RaiseBarrier
      <4> QED BY <4>1
    <3>2. CASE GrantConsent(k) \/ RefreshProvider(k)
      <4>1. UNCHANGED ops \/ \E step \in {"account", "starting"}, kind \in {"refresh", "start"} :
               Call(k, kind, step, 0, 0)
        BY <3>2 DEF GrantConsent, RefreshProvider, Refresh
      <4> QED BY <4>1
    <3>3. CASE CreateSession(k)
      <4>1. \E s \in Sessions : Call(k, "create", "prepare", s, 0)
        BY <3>3 DEF CreateSession
      <4> QED BY <4>1
    <3>4. CASE CloseSession(k)
      <4>1. UNCHANGED ops \/ \E s : Call(k, "close", "unsubscribe", s, 0)
        BY <3>4 DEF CloseSession
      <4> QED BY <4>1
    <3>5. CASE StartTurn(k)
      <4>1. \E s, t : Call(k, "turn", "reserve", s, t)
        BY <3>5 DEF StartTurn
      <4> QED BY <4>1
    <3> QED BY <1>1, <3>1, <3>2, <3>3, <3>4, <3>5 DEF Command
  <2> QED BY <2>1, QuietMoves
<1>2. CASE Event
  <2>1. UNCHANGED ops \/ ops' = Rejected(ops)
    BY <1>2 DEF Event, InterruptTurn, CallStarts, CallEnds, ProviderFails, TurnCompleted,
       Crash,
       AccountUpdated, Saved, SaveFails
  <2> QED BY <2>1, QuietMoves DEF NothingSent
<1>3. CASE ProcessStopped
  BY <1>3 DEF ProcessStopped, NothingSent, Idle
<1> QED BY <1>1, <1>2, <1>3

\* A command that does send something has the journal's consent, or one that the chat
\* state was not told the end of.
LEMMA SentUnderConsent ==
    ASSUME IInv, Next, NEW k \in Clients, Transfers(k)
    PROVE  journal = "granted" \/ Unnoticed
<1>1. ~NothingSent
  BY DEF NothingSent, Transfers
<1>2. PICK j \in Clients : /\ Prepared(j) \/ Reserved(j)
                           /\ j \in Urgent \/ Urgent = {}
  BY <1>1, OthersSendNothing, BeginningsSendNothing DEF Next, Step
<1>3. CASE Prepared(j)
  <2>1. ops[j].step = "prepare" /\ ~ops[j].cut /\ process = "ready"
    BY <1>3 DEF Prepared, Answered
  <2>2. j \notin Urgent
    BY <2>1 DEF Urgent
  <2>3. ~Barrier
    BY <1>2, <2>2 DEF Urgent, Barrier
  <2> QED BY <2>1, <2>3 DEF IInv, Attended, ServerFits, Unnoticed
<1>4. CASE Reserved(j)
  <2>1. consent = "granted" /\ session.status = "ready"
    BY <1>4 DEF Reserved, Startable
  <2>2. process = "ready"
    BY <2>1, Typed DEF IInv, ChatFits, ServerFits, IsLiveSession, ServerTyped
  <2> QED BY <2>1, <2>2 DEF IInv, ServerFits, Unnoticed
<1> QED BY <1>2, <1>3, <1>4

\* A thread is started, and a turn is sent, only while the journal grants it: between
\* the check and the request no revocation can have begun that has not stopped the
\* command, but for one that failed after its record was written (createSession,
\* startTurn; ADR 0010).
THEOREM TransferConsent == Spec => TransfersUnderConsent
<1>1. IInv /\ [Next]_vars =>
        [\A k \in Clients : Transfers(k) => journal = "granted" \/ Unnoticed]_vars
  BY SentUnderConsent
<1> QED BY <1>1, Invariance, PTL DEF Spec, TransfersUnderConsent
=============================================================================
