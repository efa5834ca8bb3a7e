---------------------------- MODULE DesktopRuntime ----------------------------
(***************************************************************************)
(* The desktop application's start and end (main.mjs, runtime.mjs): it     *)
(* prepares and starts the API, the agent host and the web server one      *)
(* after the other, and stops them when it quits, at any point of the      *)
(* start.  The agent host (agent-host/src/main.ts) is configured by        *)
(* messages and ends by itself when its parent is silent or gone.  A child *)
(* is the leader of its process group.                                     *)
(***************************************************************************)
EXTENDS Naturals, Sequences

VARIABLES
    boot,   \* bootstrap: plan, credentials, where it is, whether it failed, whether there is
            \* an assistant, and which tokens it gave to whom
    proc,   \* the children
    app,    \* the end: whether it quits, the children it waits for, those started since
    host    \* the agent host: how far its configuration is, what it serves, what it sent

vars == <<boot, proc, app, host>>

Children == {"infra", "migrate", "api", "buildHost", "host", "buildWeb", "web"}
Step(do, who) == [do |-> do, who |-> who]
Run(who) == Step("run", who)
Start(who) == Step("start", who)
Wait(who) == Step("wait", who)
\* The messages that are waited for: exactly the host's first one, and the answer to
\* this request with an address on the loopback interface.
Ready == Step("message", "ready")
Configured == Step("message", "configured")
HostPlan == <<Start("host"), Ready, Configured>>
Optional(condition, steps) == IF condition THEN steps ELSE <<>>

(* Credentials: the tokens that the API tells its callers apart by *)

Credentials(owner, assistant) == [owner |-> owner, assistant |-> assistant]
CreateSourceCredentials == Credentials("newOwner", "newAssistant")
ValidCredential(token) == token # "unusable"

\* What an API that runs already was started with is in the environment, if anywhere.
\* Assumed: its tokens are those of the environment wherever these are usable.
Environments == [owner : {"own", "unusable"}, assistant : {"assisting", "own", "unusable"}]
ExistingSourceCredentials(e) ==
    IF ~ValidCredential(e.owner) THEN Credentials("none", "none")
    ELSE Credentials(e.owner, IF ValidCredential(e.assistant) /\ e.assistant # e.owner THEN e.assistant ELSE "none")

\* startPackagedFinanceServices
Packaged == <<Start("api"), Wait("api")>> \o HostPlan \o <<Start("web"), Wait("web")>>

\* startFinanceServices: with an API, ready or not, or a web server that is there already.
Source(apiRuns, apiReady, webRuns, credentials) ==
    Optional(~apiReady, <<Run("infra"), Run("migrate")>> \o Optional(~apiRuns, <<Start("api")>>) \o <<Wait("api")>>)
    \o Optional(~webRuns /\ credentials, <<Run("buildHost")>> \o HostPlan)
    \o Optional(~webRuns, <<Run("buildWeb"), Start("web"), Wait("web")>>)

Starts ==
    {[plan |-> Packaged, credentials |-> CreateSourceCredentials]} \cup
    {[plan |-> Source(FALSE, FALSE, webRuns, TRUE), credentials |-> CreateSourceCredentials] : webRuns \in BOOLEAN} \cup
    {LET given == ExistingSourceCredentials(start[3]) IN
        [plan |-> Source(TRUE, start[1], start[2], given.assistant # "none"), credentials |-> given]
     : start \in BOOLEAN \X BOOLEAN \X Environments}

ApiStarts == Start("api") \in {boot.plan[i] : i \in DOMAIN boot.plan}

Init ==
    /\ \E start \in Starts :
          boot = [plan |-> start.plan, credentials |-> start.credentials, at |-> 1, failed |-> FALSE,
                  assistant |-> FALSE, given |-> [c \in Children |-> {}]]
    /\ proc = [c \in Children |-> "none"]
    /\ app = [quit |-> "no", waits |-> {}, late |-> {}]
    /\ host = [stage |-> "none", gateway |-> FALSE, client |-> FALSE, sent |-> {}, configure |-> FALSE]

-----------------------------------------------------------------------------
(* Bootstrap: it goes on until the application has ended, quitting or not *)

Now == boot.plan[boot.at]
Up == boot.at > Len(boot.plan)
At(do, who) == app.quit # "done" /\ ~boot.failed /\ ~Up /\ Now = Step(do, who)
Advance == boot' = [boot EXCEPT !.at = @ + 1]
Gives(c, tokens) == [boot EXCEPT !.at = @ + 1, !.given[c] = tokens]

\* What a child finds in its environment: the API both tokens, the web server the
\* owner's and, with an assistant, the gateway's; the agent host gets its by a message.
ApiEnvironment == {boot.credentials.owner, boot.credentials.assistant}
WebEnvironment == ({boot.credentials.owner} \ {"none"}) \cup (IF boot.assistant THEN {"gateway"} ELSE {})
HostEnvironment == {}
\* What was there of these before is taken out (from source; the packaged application
\* passes its own environment on, assumed to have none of them).
EnvironmentOf(c) ==
    CASE c = "api" -> ApiEnvironment [] c = "web" -> WebEnvironment [] c = "host" -> HostEnvironment

\* What fails is the start as a whole, or only the assistant, which is left out.
ForAssistant(step) == step.do = "message" \/ step.who \in {"buildHost", "host"}
Fail ==
    boot' = IF ForAssistant(Now)
            THEN [boot EXCEPT !.at = CHOOSE i \in @ + 1..Len(boot.plan) :
                    /\ ~ForAssistant(boot.plan[i])
                    /\ \A j \in @ + 1..i - 1 : ForAssistant(boot.plan[j])]
            ELSE [boot EXCEPT !.failed = TRUE]

\* A child that cannot be started leaves no process.
Spawn(c) ==
    /\ \E state \in {"runs", "ended"} : proc' = [proc EXCEPT ![c] = state]
    /\ app' = [app EXCEPT !.late = IF app.quit = "no" THEN @ ELSE @ \cup {c}]

RunBegins(c) ==
    /\ At("run", c) /\ proc[c] = "none"
    /\ Spawn(c)
    /\ UNCHANGED <<boot, host>>

\* A command ends well or not; one that was stopped or never started does not.
RunEnds(c) ==
    /\ At("run", c) /\ proc[c] = "ended"
    /\ Advance \/ Fail
    /\ UNCHANGED <<proc, app, host>>

StartChild(c) ==
    /\ At("start", c)
    /\ Spawn(c)
    /\ host' = IF c = "host" /\ proc'[c] = "runs" THEN [host EXCEPT !.stage = "new"] ELSE host
    /\ boot' = Gives(c, EnvironmentOf(c))

\* waitForUrl: the service answers, or 60 seconds are over.
Waited(c) ==
    /\ At("wait", c)
    /\ \/ proc[c] # "ended" /\ Advance
       \/ Fail
    /\ UNCHANGED <<proc, app, host>>

\* waitForChildMessage: the host is there and is sent its configuration.
HostAnswers ==
    /\ At("message", "ready") /\ "ready" \in host.sent
    /\ boot' = Gives("host", {boot.credentials.assistant, "gateway"})
    /\ host' = [host EXCEPT !.configure = TRUE]
    /\ UNCHANGED <<proc, app>>

HostConfigured ==
    /\ At("message", "configured") /\ "configured" \in host.sent
    /\ boot' = [boot EXCEPT !.at = @ + 1, !.assistant = TRUE]
    /\ UNCHANGED <<proc, app, host>>

\* The path of Codex or its home is none: the host is sent nothing and left to its own timer.
NoConfiguration ==
    /\ At("message", "ready") /\ "ready" \in host.sent
    /\ Fail
    /\ UNCHANGED <<proc, app, host>>

\* A failure, the end of the host or 30 seconds.
MessageFails(m) ==
    /\ At("message", m)
    /\ Fail
    /\ UNCHANGED <<proc, app, host>>

-----------------------------------------------------------------------------
(* The end *)

\* before-quit: by the owner, by the last window or after a failed start.
Quit ==
    /\ app.quit = "no"
    /\ app' = [app EXCEPT !.quit = "stopping", !.waits = {c \in Children : proc[c] = "runs"}]
    /\ UNCHANGED <<boot, proc, host>>

AllEnded == \A c \in app.waits : proc[c] = "ended"

Stopped ==
    /\ app.quit = "stopping" /\ AllEnded
    /\ app' = [app EXCEPT !.quit = "done"]
    /\ UNCHANGED <<boot, proc, host>>

\* Mutation of StopTimesOut: who does not end by SIGTERM is left.
StopTimesOut_Leaves ==
    /\ app.quit = "stopping" /\ ~AllEnded
    /\ app' = [app EXCEPT !.quit = "done"]
    /\ UNCHANGED <<boot, proc, host>>

\* After five seconds SIGKILL, for those found when the quit began.
StopTimesOut ==
    /\ app.quit = "stopping" /\ ~AllEnded
    /\ app' = [app EXCEPT !.quit = "done"]
    /\ proc' = [c \in Children |-> IF c \in app.waits THEN "ended" ELSE proc[c]]
    /\ host' = IF "host" \in app.waits THEN [host EXCEPT !.stage = "gone"] ELSE host
    /\ UNCHANGED boot

\* A child ends: by itself, by a crash, or by the signal, which it may ignore.
ChildEnds(c) ==
    /\ proc[c] = "runs"
    /\ proc' = [proc EXCEPT ![c] = "ended"]
    /\ host' = IF c = "host" THEN [host EXCEPT !.stage = "gone"] ELSE host
    /\ UNCHANGED <<boot, app>>

-----------------------------------------------------------------------------
(* The agent host *)

HostIn(stage) == proc["host"] = "runs" /\ host.stage = stage

HostReady ==
    /\ HostIn("new")
    /\ host' = [host EXCEPT !.stage = "waiting", !.sent = @ \cup {"ready"}]
    /\ UNCHANGED <<boot, proc, app>>

\* A reason to end while nothing is served yet: 15 seconds without a configuration,
\* one that is refused, a part that does not start, the signal or the parent's end.
HostGivesUp ==
    /\ \E stage \in {"new", "waiting", "service", "gateway"} : HostIn(stage)
    /\ proc' = [proc EXCEPT !["host"] = "ended"]
    /\ host' = [host EXCEPT !.stage = "gone", !.sent = @ \cup {"failed"}]
    /\ UNCHANGED <<boot, app>>

\* The configuration is valid; the timer is cleared.
Configure ==
    /\ HostIn("waiting") /\ host.configure
    /\ host' = [host EXCEPT !.stage = "service"]
    /\ UNCHANGED <<boot, proc, app>>

ServiceStarted ==
    /\ HostIn("service")
    /\ host' = [host EXCEPT !.stage = "gateway", !.client = TRUE]
    /\ UNCHANGED <<boot, proc, app>>

GatewayStarted ==
    /\ HostIn("gateway")
    /\ host' = [host EXCEPT !.stage = "configured", !.gateway = TRUE, !.sent = @ \cup {"configured"}]
    /\ UNCHANGED <<boot, proc, app>>

\* shutdown: first the gateway, then the credential, then the service; a second reason
\* to end does not wait for the first.
Shutdown ==
    /\ HostIn("configured") /\ app.quit # "no"
    /\ host' = [host EXCEPT !.stage = "ending", !.gateway = FALSE]
    /\ UNCHANGED <<boot, proc, app>>

ClearCredential ==
    /\ HostIn("ending") /\ host.client
    /\ host' = [host EXCEPT !.client = FALSE]
    /\ UNCHANGED <<boot, proc, app>>

Next ==
    \/ \E c \in Children :
          RunBegins(c) \/ RunEnds(c) \/ StartChild(c) \/ Waited(c) \/ ChildEnds(c)
    \/ HostAnswers \/ NoConfiguration \/ HostConfigured \/ \E m \in {"ready", "configured"} : MessageFails(m)
    \/ Quit \/ Stopped \/ StopTimesOut
    \/ HostReady \/ HostGivesUp \/ Configure \/ ServiceStarted \/ GatewayStarted
    \/ Shutdown \/ ClearCredential

Spec == Init /\ [][Next]_vars

-----------------------------------------------------------------------------
\* When the application has ended, no child is left that ran when the quit began,
\* whatever the start was doing and whatever ignores its signal (runtime.mjs:187-204).
\* A child that bootstrap starts later is not stopped: README, section 4.
QuitStopsWhatItFound ==
    app.quit = "done" => \A c \in Children : proc[c] = "runs" => c \in app.late

\* A web server that was given the gateway is given one that is up with its credential
\* and service, unless the host has ended or is ending (runtime.mjs:300-327, main.ts:48-86).
AssistantServed ==
    boot.assistant /\ proc["host"] = "runs" /\ host.stage # "ending" => host.gateway /\ host.client

\* Whoever asks the API or the gateway holds a token that is accepted there: the API was
\* given it, by this start or by the one that runs already, and the assistant never holds
\* the owner's, nor the web server the assistant's (runtime.mjs:217-324, 374-412).
TokensAccepted ==
    /\ boot.given["web"] \subseteq {boot.credentials.owner, "gateway"}
    /\ "gateway" \in boot.given["web"] => "gateway" \in boot.given["host"]
    /\ boot.given["host"] \subseteq {boot.credentials.assistant, "gateway"}
    /\ ApiStarts /\ proc["api"] # "none" => boot.given["web"] \cup boot.given["host"] \subseteq boot.given["api"] \cup {"gateway"}
    /\ boot.given["host"] \cap {"none", "own", "newOwner", "unusable"} = {}
=============================================================================
