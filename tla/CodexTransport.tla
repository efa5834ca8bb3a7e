---------------------------- MODULE CodexTransport ----------------------------
(***************************************************************************)
(* One provider child from its start to its end: the process object        *)
(* (codex-process.ts), the JSON-RPC client on its pipes                    *)
(* (json-rpc-client.ts) and the framer (jsonl-framer.ts).  The host is one *)
(* event loop: a data event hands its frames over one after the other with *)
(* nothing in between (`chunk`), and a continuation of a settled promise   *)
(* comes before the next event (`Settled`).                                *)
(***************************************************************************)
EXTENDS Naturals, Sequences, FiniteSets

CONSTANTS
    Initialize,      \* the request that start() sends
    Calls,           \* the other requests of the host
    ServerRequests,  \* requests of the child
    Limit,           \* #maxPendingRequests (64 in the code)
    MaxFrames        \* bound: frames of one data event

Requests == Calls \cup {Initialize}

ASSUME LimitAssumption == Limit \in Nat \ {0}
ASSUME InitializeAssumption == Initialize \notin Calls

VARIABLES
    status,    \* #status of the process object
    fatal,     \* #fatal: the owner was told of a fatal error
    bound,     \* #rpc is set
    closed,    \* #closed of the client (TRUE before there is one)
    child,     \* the process: none, running, killed (SIGKILL sent) or gone
    starting,  \* start(): no, init, stop (waits for its own stop), done or failed
    stops,     \* per caller of stop(): no, term, kill or done
    req,       \* per request: new, pending or how its promise ended
    queue,     \* #writeQueue: frames whose write is not settled, in order
    drain,     \* the head of the queue is written and waits for "drain"
    asked,     \* requests the child was sent and has not answered
    told,      \* server requests whose answer was written
    srv,       \* per server request: where #answerServerRequest stands
    chunk      \* frames of the data event being handled

vars == <<status, fatal, bound, closed, child, starting, stops, req, queue, drain, asked, told, srv, chunk>>
wire == <<queue, drain, asked, told, srv>>

Stoppers == {"owner", "start"}
Ended == {"resolved", "failed", "timed_out", "refused"}
Pending(r) == {x \in DOMAIN r : r[x] = "pending"}
Call(r) == [kind |-> "call", id |-> r]
Answer(s) == [kind |-> "answer", id |-> s]

Frames ==
    [kind : {"result", "error"}, id : asked] \cup
    [kind : {"request"}, id : {s \in ServerRequests : srv[s] = "none"}, valid : BOOLEAN] \cup
    [kind : {"notification"}, valid : BOOLEAN] \cup
    [kind : {"malformed", "unframed"}]

TypeOK ==
    /\ status \in {"stopped", "starting", "ready", "stopping", "crashed"}
    /\ fatal \in BOOLEAN /\ bound \in BOOLEAN /\ closed \in BOOLEAN /\ drain \in BOOLEAN
    /\ child \in {"none", "running", "killed", "gone"}
    /\ starting \in {"no", "init", "stop", "done", "failed"}
    /\ stops \in [Stoppers -> {"no", "term", "kill", "done"}]
    /\ req \in [Requests -> {"new", "pending"} \cup Ended]
    /\ srv \in [ServerRequests -> {"none", "handling", "plain", "deferred", "hook", "done", "dropped"}]
    /\ asked \subseteq Requests /\ told \subseteq ServerRequests

Init ==
    /\ status = "stopped" /\ fatal = FALSE /\ bound = FALSE /\ closed = TRUE
    /\ child = "none" /\ starting = "no" /\ stops = [c \in Stoppers |-> "no"]
    /\ req = [r \in Requests |-> "new"]
    /\ queue = <<>> /\ drain = FALSE /\ asked = {} /\ told = {}
    /\ srv = [s \in ServerRequests |-> "none"] /\ chunk = <<>>

-----------------------------------------------------------------------------
(* The end of a client and of a process *)

Rejected(r) == [x \in Requests |-> IF r[x] = "pending" THEN "failed" ELSE r[x]]

\* #fail of the process with what it closes; a client that fails comes here too.
Failed ==
    /\ fatal' = TRUE
    /\ status' = IF fatal \/ status \in {"stopping", "stopped"} THEN status ELSE "crashed"
    /\ closed' = TRUE
    /\ req' = Rejected(req)

\* #fail of a client: nothing more after it was closed.
ClientFails == IF closed THEN UNCHANGED <<fatal, status, closed, req>> ELSE Failed

\* The continuation of start() is next.
Settled == starting = "init" /\ req[Initialize] # "pending"
Quiet == chunk = <<>> /\ ~Settled
\* A timer, a pipe or the child gets its turn: no write is ready either.
Event == Quiet /\ (queue = <<>> \/ drain)

\* stop() up to its first wait, in the state that `state` describes.
Alive == child \in {"running", "killed"}
BeginStop(c) ==
    /\ closed' = TRUE /\ bound' = FALSE
    /\ req' = Rejected(req)
    /\ IF Alive
         THEN status' = "stopping" /\ stops' = [stops EXCEPT ![c] = "term"]
         ELSE status' = "stopped" /\ stops' = [stops EXCEPT ![c] = "done"]

-----------------------------------------------------------------------------
(* start(), stop() and the child's exit *)

\* The binary is refused or cannot be spawned: reported, stopped and thrown in one go.
StartRefused ==
    /\ starting = "no" /\ status = "stopped" /\ Quiet
    /\ starting' = "failed" /\ fatal' = TRUE
    /\ UNCHANGED <<status, bound, closed, child, stops, req, wire, chunk>>

Start ==
    /\ starting = "no" /\ status = "stopped" /\ Quiet
    /\ status' = "starting" /\ fatal' = FALSE /\ starting' = "init"
    /\ child' = "running" /\ bound' = TRUE /\ closed' = FALSE
    /\ req' = [req EXCEPT ![Initialize] = "pending"]
    /\ queue' = Append(queue, Call(Initialize))
    /\ UNCHANGED <<stops, drain, asked, told, srv, chunk>>

\* The answer names the home, the platform and the host that were asked for.
Initialized ==
    /\ Settled /\ chunk = <<>>
    /\ req[Initialize] = "resolved"
    /\ status' = "ready" /\ starting' = "done"
    /\ UNCHANGED <<fatal, bound, closed, child, stops, req, wire, chunk>>

\* It does not, or there was none: start() stops what it started.
InitializeFails ==
    /\ Settled /\ chunk = <<>>
    /\ fatal' = TRUE
    /\ IF status = "stopped"
         THEN starting' = "failed" /\ UNCHANGED <<status, bound, closed, stops, req>>
         ELSE BeginStop("start") /\ starting' = IF Alive THEN "stop" ELSE "failed"
    /\ UNCHANGED <<child, wire, chunk>>

Stop ==
    /\ Quiet /\ stops["owner"] = "no"
    /\ status # "stopped"
    /\ BeginStop("owner")
    /\ UNCHANGED <<fatal, child, starting, wire, chunk>>

\* Mutation of TermTimesOut: a child that ignores SIGTERM is left alone.
TermTimesOut_GivesUp(c) ==
    /\ Event /\ stops[c] = "term" /\ Alive
    /\ stops' = [stops EXCEPT ![c] = "kill"]
    /\ UNCHANGED <<status, fatal, bound, closed, child, starting, req, wire, chunk>>

\* Five seconds after SIGTERM the process group gets SIGKILL.
TermTimesOut(c) ==
    /\ Event /\ stops[c] = "term" /\ Alive
    /\ child' = "killed"
    /\ stops' = [stops EXCEPT ![c] = "kill"]
    /\ UNCHANGED <<status, fatal, bound, closed, starting, req, wire, chunk>>

\* The child closed, or the second wait is over as well.
StopEnds(c) ==
    /\ Event
    /\ stops[c] \in {"term", "kill"} /\ (stops[c] = "term" => child = "gone")
    /\ status' = "stopped"
    /\ stops' = [stops EXCEPT ![c] = "done"]
    /\ starting' = IF c = "start" THEN "failed" ELSE starting
    /\ UNCHANGED <<fatal, bound, closed, child, req, wire, chunk>>

\* The child exits by itself or by a signal.
Exit ==
    /\ Event /\ Alive
    /\ child' = "gone"
    /\ IF status \in {"stopping", "stopped"} THEN UNCHANGED <<status, fatal, closed, req>> ELSE Failed
    /\ UNCHANGED <<bound, starting, stops, wire, chunk>>

-----------------------------------------------------------------------------
(* Requests of the host *)

\* Mutation of Room: one request more than the table takes.
Room_OneMore == ~closed /\ Cardinality(Pending(req)) <= Limit
Room == ~closed /\ Cardinality(Pending(req)) < Limit

Request(r) ==
    /\ Quiet /\ req[r] = "new" /\ starting # "no"
    /\ status = "ready" /\ bound /\ Room
    /\ req' = [req EXCEPT ![r] = "pending"]
    /\ queue' = Append(queue, Call(r))
    /\ UNCHANGED <<status, fatal, bound, closed, child, starting, stops, drain, asked, told, srv, chunk>>

\* The process is not ready, or the client is closed or has its fill of requests.
RequestRefused(r) ==
    /\ Quiet /\ req[r] = "new" /\ starting # "no"
    /\ ~(status = "ready" /\ bound /\ Room)
    /\ req' = [req EXCEPT ![r] = "refused"]
    /\ UNCHANGED <<status, fatal, bound, closed, child, starting, stops, wire, chunk>>

\* Mutation of TimeOut: the timer starts when the request is written.
TimeOut_AfterWrite(r) ==
    /\ Event /\ req[r] = "pending" /\ r \in asked
    /\ req' = [req EXCEPT ![r] = "timed_out"]
    /\ UNCHANGED <<status, fatal, bound, closed, child, starting, stops, wire, chunk>>

TimeOut(r) ==
    /\ Event /\ req[r] = "pending"
    /\ req' = [req EXCEPT ![r] = "timed_out"]
    /\ UNCHANGED <<status, fatal, bound, closed, child, starting, stops, wire, chunk>>

-----------------------------------------------------------------------------
(* The write queue *)

\* The rest of #answerServerRequest and of request() when a write settles.
Wrote(f) == IF f.kind = "call" THEN srv ELSE [srv EXCEPT ![f.id] = IF @ = "deferred" THEN "hook" ELSE "done"]
NotWritten(f) == IF f.kind = "call" THEN srv ELSE [srv EXCEPT ![f.id] = "dropped"]

\* The next frame goes to the pipe, which has room or makes the queue wait; a
\* request that has timed out meanwhile is sent all the same.
Write(full) ==
    /\ chunk = <<>> /\ queue # <<>> /\ ~drain /\ ~closed
    /\ LET f == Head(queue) IN
        /\ asked' = IF f.kind = "call" THEN asked \cup {f.id} ELSE asked
        /\ told' = IF f.kind = "answer" THEN told \cup {f.id} ELSE told
        /\ drain' = full
        /\ queue' = IF full THEN queue ELSE Tail(queue)
        /\ srv' = IF full THEN srv ELSE Wrote(f)
    /\ UNCHANGED <<status, fatal, bound, closed, child, starting, stops, req, chunk>>

\* The client was closed before the frame had its turn.
WriteClosed ==
    /\ chunk = <<>> /\ queue # <<>> /\ ~drain /\ closed
    /\ queue' = Tail(queue)
    /\ srv' = NotWritten(Head(queue))
    /\ UNCHANGED <<status, fatal, bound, closed, child, starting, stops, req, drain, asked, told, chunk>>

Drained ==
    /\ Quiet /\ drain /\ Alive
    /\ drain' = FALSE
    /\ queue' = Tail(queue)
    /\ srv' = Wrote(Head(queue))
    /\ UNCHANGED <<status, fatal, bound, closed, child, starting, stops, req, asked, told, chunk>>

\* The pipe to the child breaks: the client fails, and a write that waits is rejected.
OutputFails ==
    /\ Event /\ child # "none" /\ (drain \/ ~closed)
    /\ ClientFails
    /\ drain' = FALSE
    /\ queue' = IF drain THEN Tail(queue) ELSE queue
    /\ srv' = IF drain THEN NotWritten(Head(queue)) ELSE srv
    /\ UNCHANGED <<bound, child, starting, stops, asked, told, chunk>>

-----------------------------------------------------------------------------
(* Frames of the child *)

Data ==
    /\ Event /\ ~closed
    /\ \E n \in 1..MaxFrames : \E fs \in [1..n -> Frames] :
        /\ \A i, j \in 1..n : i # j /\ "id" \in DOMAIN fs[i] /\ "id" \in DOMAIN fs[j] => fs[i].id # fs[j].id
        /\ chunk' = fs
    /\ UNCHANGED <<status, fatal, bound, closed, child, starting, stops, req, wire>>

\* The output ends, with a last line without its newline or without one.
End ==
    /\ Event /\ ~closed
    /\ \E last \in {<<>>} \cup {<<f>> : f \in Frames} : chunk' = last \o <<[kind |-> "unframed"]>>
    /\ UNCHANGED <<status, fatal, bound, closed, child, starting, stops, req, wire>>

Frame == Head(chunk)
\* The framer goes on with the next line of its data, or throws.
Rest == IF Frame.kind = "unframed" THEN <<>> ELSE Tail(chunk)
Response == Frame.kind \in {"result", "error"}

\* A response that a request still waits for.
ReceiveResponse ==
    /\ chunk # <<>> /\ Response /\ req[Frame.id] = "pending"
    /\ req' = [req EXCEPT ![Frame.id] = IF Frame.kind = "result" THEN "resolved" ELSE "failed"]
    /\ asked' = asked \ {Frame.id}
    /\ chunk' = Tail(chunk)
    /\ UNCHANGED <<status, fatal, bound, closed, child, starting, stops, queue, drain, told, srv>>

\* One that came too late, or a frame that is no valid envelope: fatal. The other
\* frames of the same data event are handled all the same, unless the bytes
\* could not be split (the framer throws).
ReceiveInvalid ==
    /\ chunk # <<>>
    /\ \/ Response /\ req[Frame.id] # "pending"
       \/ Frame.kind \in {"malformed", "unframed"}
       \/ Frame.kind = "notification" /\ ~Frame.valid
    /\ IF Frame.kind = "notification" /\ ~fatal THEN Failed ELSE ClientFails
    /\ asked' = IF Response THEN asked \ {Frame.id} ELSE asked
    /\ chunk' = Rest
    /\ UNCHANGED <<bound, child, starting, stops, queue, drain, told, srv>>

ReceiveNotification ==
    /\ chunk # <<>> /\ Frame.kind = "notification" /\ Frame.valid
    /\ chunk' = Tail(chunk)
    /\ UNCHANGED <<status, fatal, bound, closed, child, starting, stops, req, wire>>

ReceiveRequest ==
    /\ chunk # <<>> /\ Frame.kind = "request"
    /\ srv' = [srv EXCEPT ![Frame.id] = IF Frame.valid THEN "handling" ELSE "dropped"]
    /\ IF Frame.valid \/ fatal THEN UNCHANGED <<status, fatal, closed, req>> ELSE Failed
    /\ chunk' = Tail(chunk)
    /\ UNCHANGED <<bound, child, starting, stops, queue, drain, asked, told>>

\* What the policy makes of a method: a tool call is answered and may abort its
\* turn; approvals are declined and other methods refused, which always aborts it.
Policy == [tool |-> {"plain", "deferred"}, approval |-> {"deferred"}, unsupported |-> {"deferred"}]
Handled == UNION {Policy[method] : method \in DOMAIN Policy}

\* Mutation of Answered: the interruption does not wait for the answer to be written.
Answered_HookFirst(s, how) ==
    /\ Quiet /\ srv[s] = "handling" /\ how \in Handled
    /\ srv' = [srv EXCEPT ![s] = IF closed THEN "dropped" ELSE IF how = "deferred" THEN "hook" ELSE how]
    /\ queue' = IF closed THEN queue ELSE Append(queue, Answer(s))
    /\ UNCHANGED <<status, fatal, bound, closed, child, starting, stops, req, drain, asked, told, chunk>>

\* The host answers: with a result, with one that aborts the turn afterwards, or it throws.
Answered(s, how) ==
    /\ Quiet /\ srv[s] = "handling" /\ how \in Handled
    /\ srv' = [srv EXCEPT ![s] = IF closed THEN "dropped" ELSE how]
    /\ queue' = IF closed THEN queue ELSE Append(queue, Answer(s))
    /\ UNCHANGED <<status, fatal, bound, closed, child, starting, stops, req, drain, asked, told, chunk>>

HandlerFails(s) ==
    /\ Quiet /\ srv[s] = "handling"
    /\ srv' = [srv EXCEPT ![s] = "dropped"]
    /\ IF fatal THEN UNCHANGED <<status, fatal, closed, req>> ELSE Failed
    /\ UNCHANGED <<bound, child, starting, stops, queue, drain, asked, told, chunk>>

\* #runAfterResponse: the interruption of the turn succeeds, or its failure is fatal.
HookEnds(s, ok) ==
    /\ Quiet /\ srv[s] = "hook"
    /\ srv' = [srv EXCEPT ![s] = "done"]
    /\ IF ok THEN UNCHANGED <<status, fatal, closed, req>> ELSE ClientFails
    /\ UNCHANGED <<bound, child, starting, stops, queue, drain, asked, told, chunk>>

-----------------------------------------------------------------------------
Next ==
    \/ StartRefused \/ Start \/ Initialized \/ InitializeFails \/ Stop \/ Exit
    \/ \E c \in Stoppers : TermTimesOut(c) \/ StopEnds(c)
    \/ \E r \in Calls : Request(r) \/ RequestRefused(r)
    \/ \E r \in Requests : TimeOut(r)
    \/ \E full \in BOOLEAN : Write(full)
    \/ WriteClosed \/ Drained \/ OutputFails \/ Data \/ End
    \/ ReceiveResponse \/ ReceiveInvalid \/ ReceiveNotification \/ ReceiveRequest
    \/ \E s \in ServerRequests :
        \/ \E how \in Handled : Answered(s, how)
        \/ HandlerFails(s)
        \/ \E ok \in BOOLEAN : HookEnds(s, ok)

Spec == Init /\ [][Next]_vars

\* Timers fire, ready writes and continuations run; the child owes nothing.
Fairness ==
    /\ \A r \in Requests : SF_vars(TimeOut(r))
    /\ \A c \in Stoppers : SF_vars(TermTimesOut(c)) /\ SF_vars(StopEnds(c))
    /\ WF_vars(Initialized \/ InitializeFails)
    /\ WF_vars(\E full \in BOOLEAN : Write(full)) /\ WF_vars(WriteClosed)
    /\ WF_vars(ReceiveResponse \/ ReceiveInvalid \/ ReceiveNotification \/ ReceiveRequest)

FairSpec == Spec /\ Fairness

-----------------------------------------------------------------------------
(* Properties *)

Ledger == INSTANCE RequestLedger WITH open <- ~closed, call <- req

\* A request is settled once and only by an open client, no more than Limit wait,
\* and whatever closes the client settles all that wait in the same step
\* (json-rpc-client.ts:129-169, 329-343).
ImplementsLedger == Ledger!Spec

\* Every request, every stop() and start() come to an end, though the child may
\* stop reading, answer nothing, ignore SIGTERM or never go away.  Each comes once
\* here, so that in the end none of them is under way.
UnderWay ==
    \/ Pending(req) # {}
    \/ \E c \in Stoppers : stops[c] \in {"term", "kill"}
    \/ starting \in {"init", "stop"}

EverythingEnds == <>[]~UnderWay

\* A stopped process object has left no child that was not at least sent SIGKILL,
\* also when start() and its owner stop it at the same time (codex-process.ts:158-174).
NoChildLeft == TypeOK /\ (status = "stopped" => child # "running")

\* The interruption that follows an answer runs after that answer went to the
\* pipe, behind everything queued before it (json-rpc-client.ts:269-301).
HookAfterAnswer == \A s \in ServerRequests : srv[s] \in {"hook", "done"} => s \in told
=============================================================================
