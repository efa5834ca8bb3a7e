---------------------------- MODULE ToolDispatcher ----------------------------
(***************************************************************************)
(* The dispatcher of the provider's tool calls                             *)
(* (apps/agent-host/src/finance-tool-dispatcher.ts): it lets the model     *)
(* call the finance API within one session and turn, within budgets, each  *)
(* call once, and under a consent that still stands when the answer does.  *)
(*                                                                         *)
(* A call is a record with a step, its last await: after the first consent *)
(* check ("granted"), while the API works on it ("asked"), while the body  *)
(* of the API's answer is read ("reading", finance-api-client.ts), after   *)
(* the second consent check ("checked").  Between them the service may     *)
(* interrupt or finish the turn, abandon the session and revoke the        *)
(* consent, and the provider may send other calls.                         *)
(*                                                                         *)
(* All sessions are taken to resume one provider thread.  Sessions and     *)
(* provider turns are numbered in the order they start.  What a call asks  *)
(* for is its tool; a retry with other arguments is one with another tool. *)
(***************************************************************************)
EXTENDS Integers, FiniteSets

CONSTANTS
    CallIds,                            \* the provider's ids of its calls
    TurnReads, TurnProposals,           \* FINANCE_TURN_READ_LIMIT, _PROPOSAL_LIMIT
    SessionReads, SessionProposals,     \* FINANCE_SESSION_READ_LIMIT, ...
    TurnOutput, SessionOutput,          \* FINANCE_TURN_OUTPUT_LIMIT_BYTES, ...
    Sizes,                              \* sizes of an answer
    TurnCorrections,                    \* FINANCE_TURN_CORRECTION_LIMIT
    MaxSessions, MaxTurns               \* bounds on how many of them start

ASSUME LimitsAssumption ==
    /\ TurnReads \in Nat /\ TurnProposals \in Nat /\ TurnOutput \in Nat
    /\ SessionReads \in Nat /\ SessionProposals \in Nat /\ SessionOutput \in Nat
    /\ TurnCorrections \in Nat /\ MaxSessions \in Nat /\ MaxTurns \in Nat
    /\ Sizes \subseteq Nat

VARIABLES
    consent,            \* does the consent journal grant?
    session,            \* number of the session, 0 without one
    turn,               \* [id, aborted] of the provider turn, id 0 without one
    started,            \* [sessions, turns]: how many have started
    activeCall,         \* the flag that admits one call at a time
    usage,              \* [turn |-> Usage, session |-> Usage]
    corrections,        \* corrections of the turn
    ledger,             \* the calls of the session by id: what was asked and answered
    calls,              \* the calls in progress
    asked,              \* the requests the API has got
    answer              \* what the last answer to the provider was: data or not

vars == <<consent, session, turn, started, activeCall, usage, corrections, ledger,
          calls, asked, answer>>

-----------------------------------------------------------------------------
\* MAX_FINANCE_CALL_LEDGER_ENTRIES
MaxLedger == SessionReads + SessionProposals

\* What a call asks for: a tool that reads, one that proposes, one with arguments that
\* do not fit its schema ("misfit"), one that does not exist or too many of them.
Tools == {"read", "proposal", "misfit", "forbidden"}

\* What an answer says: the data asked for, a failure the model may correct, a
\* failure the turn survives, or a failure that aborts the turn.
Results == {"ok", "correctable", "failed", "abort"}

\* What is counted: the calls of each kind, and the size of the answers.
Counted == {"read", "proposal"}
Usages == [Counted \cup {"output"} -> Nat]
NoUsage == [kind \in Counted \cup {"output"} |-> 0]
NoTurn == [id |-> 0, aborted |-> FALSE]
NoCalls == [id \in {} |-> 0]

\* callDigest
Digest(call) == [turn |-> call.turn, tool |-> call.tool]

Init ==
    /\ consent = TRUE
    /\ session = 0
    /\ turn = NoTurn
    /\ started = [sessions |-> 0, turns |-> 0]
    /\ activeCall = FALSE
    /\ usage = [turn |-> NoUsage, session |-> NoUsage]
    /\ corrections = 0
    /\ ledger = NoCalls
    /\ calls = {}
    /\ asked = {}
    /\ answer = "none"

-----------------------------------------------------------------------------
(* What the service does.                                                  *)

StartSession ==
    /\ session = 0 /\ ~activeCall
    /\ started.sessions < MaxSessions
    /\ session' = started.sessions + 1
    /\ started' = [started EXCEPT !.sessions = @ + 1]
    /\ usage' = [turn |-> NoUsage, session |-> NoUsage]
    /\ ledger' = NoCalls
    /\ UNCHANGED <<consent, turn, activeCall, corrections, calls, asked, answer>>

StartTurn ==
    /\ session # 0 /\ turn = NoTurn /\ ~activeCall
    /\ started.turns < MaxTurns
    /\ turn' = [id |-> started.turns + 1, aborted |-> FALSE]
    /\ started' = [started EXCEPT !.turns = @ + 1]
    /\ usage' = [usage EXCEPT !.turn = NoUsage]
    /\ corrections' = 0
    /\ UNCHANGED <<consent, session, activeCall, ledger, calls, asked, answer>>

InterruptTurn ==
    /\ turn # NoTurn /\ ~turn.aborted
    /\ turn' = [turn EXCEPT !.aborted = TRUE]
    /\ UNCHANGED <<consent, session, started, activeCall, usage, corrections, ledger, calls,
                   asked, answer>>

FinishTurn ==
    /\ turn # NoTurn /\ ~activeCall
    /\ turn' = NoTurn
    /\ usage' = [usage EXCEPT !.turn = NoUsage]
    /\ corrections' = 0
    /\ UNCHANGED <<consent, session, started, activeCall, ledger, calls, asked, answer>>

CloseSession ==
    /\ session # 0 /\ turn = NoTurn /\ ~activeCall
    /\ session' = 0
    /\ usage' = [usage EXCEPT !.session = NoUsage]
    /\ ledger' = NoCalls
    /\ UNCHANGED <<consent, turn, started, activeCall, corrections, calls, asked, answer>>

\* After a fatal error of the provider: whatever is active is left behind.
AbandonSession ==
    /\ session # 0
    /\ session' = 0
    /\ turn' = NoTurn
    /\ usage' = [turn |-> NoUsage, session |-> NoUsage]
    /\ corrections' = 0
    /\ ledger' = NoCalls
    /\ UNCHANGED <<consent, started, activeCall, calls, asked, answer>>

\* The service's revokeConsent writes the journal and aborts the turn in one go.
RevokeConsent ==
    /\ consent
    /\ consent' = FALSE
    /\ turn' = IF turn = NoTurn THEN turn ELSE [turn EXCEPT !.aborted = TRUE]
    /\ UNCHANGED <<session, started, activeCall, usage, corrections, ledger, calls, asked,
                   answer>>

GrantConsent ==
    /\ ~consent
    /\ consent' = TRUE
    /\ UNCHANGED <<session, turn, started, activeCall, usage, corrections, ledger, calls,
                   asked, answer>>

-----------------------------------------------------------------------------
(* dispatch()                                                              *)

Respond(result) == answer' = IF result = "ok" THEN "data" ELSE "none"

\* Mutation of Remember: only answers with data are kept.
Remember_OkOnly(call, result) ==
    ledger' = IF Cardinality(DOMAIN ledger) < MaxLedger /\ result = "ok"
              THEN [id \in DOMAIN ledger \cup {call.id} |->
                       IF id = call.id THEN [digest |-> Digest(call), result |-> result]
                       ELSE ledger[id]]
              ELSE ledger

\* remember
Remember(call, result) ==
    ledger' = IF Cardinality(DOMAIN ledger) < MaxLedger
              THEN [id \in DOMAIN ledger \cup {call.id} |->
                       IF id = call.id THEN [digest |-> Digest(call), result |-> result]
                       ELSE ledger[id]]
              ELSE ledger

\* correctableFailure: the first of a turn may be corrected, later ones abort it.
Correctable(call) ==
    IF corrections >= TurnCorrections
    THEN Remember(call, "abort") /\ Respond("abort") /\ UNCHANGED corrections
    ELSE Remember(call, "correctable") /\ Respond("correctable")
         /\ corrections' = corrections + 1

Known(id) == id \in DOMAIN ledger

\* A call that is not of this turn, contradicts an earlier one, or comes while
\* another is active or the ledger is full, is refused and forgotten.
DispatchRefused ==
    /\ Respond("abort")
    /\ UNCHANGED <<consent, session, turn, started, activeCall, usage, corrections, ledger,
                   calls, asked>>

\* A repeated call is answered as before.
DispatchRepeated(id) ==
    /\ session # 0 /\ turn # NoTurn
    /\ Known(id) /\ ledger[id].digest.turn = turn.id
    /\ Respond(ledger[id].result)
    /\ UNCHANGED <<consent, session, turn, started, activeCall, usage, corrections, ledger,
                   calls, asked>>

\* A new call of this turn, while no other is active.
Admitted(call) ==
    /\ session # 0 /\ turn # NoTurn
    /\ ~Known(call.id)
    /\ Cardinality(DOMAIN ledger) < MaxLedger
    /\ ~activeCall

\* validateFinanceToolCall
Valid(tool) == tool \in Counted
Violation(tool) == IF tool = "misfit" THEN "invalid_arguments" ELSE "unknown_tool"

\* The tool or its arguments break the contract.
DispatchInvalid(call) ==
    /\ Admitted(call)
    /\ ~Valid(call.tool)
    /\ IF Violation(call.tool) = "invalid_arguments" THEN Correctable(call)
       ELSE Remember(call, "abort") /\ Respond("abort") /\ UNCHANGED corrections
    /\ UNCHANGED <<consent, session, turn, started, activeCall, usage, calls, asked>>

TurnLimit(tool) == IF tool = "proposal" THEN TurnProposals ELSE TurnReads
SessionLimit(tool) == IF tool = "proposal" THEN SessionProposals ELSE SessionReads

\* reserveCall's condition
InBudget(tool) ==
    usage.turn[tool] < TurnLimit(tool) /\ usage.session[tool] < SessionLimit(tool)

DispatchOverBudget(call) ==
    /\ Admitted(call)
    /\ Valid(call.tool) /\ ~InBudget(call.tool)
    /\ Remember(call, "abort")
    /\ Respond("abort")
    /\ UNCHANGED <<consent, session, turn, started, activeCall, usage, corrections, calls,
                   asked>>

\* The reservation stays when the consent is denied.
DispatchReserved(call) ==
    /\ Admitted(call)
    /\ Valid(call.tool) /\ InBudget(call.tool)
    /\ usage' = [usage EXCEPT !.turn[call.tool] = @ + 1, !.session[call.tool] = @ + 1]
    /\ IF consent
       THEN /\ calls' = calls \cup {[session |-> session, turn |-> call.turn, id |-> call.id,
                                     tool |-> call.tool, step |-> "granted"]}
            /\ activeCall' = TRUE
            /\ UNCHANGED <<ledger, answer>>
       ELSE /\ Remember(call, "abort")
            /\ Respond("abort")
            /\ UNCHANGED <<calls, activeCall>>
    /\ UNCHANGED <<consent, session, turn, started, corrections, asked>>

\* The signal of the call's own turn; finishing or abandoning a turn aborts it.
Aborted(call) == turn.id # call.turn \/ turn.aborted

Proceed(call, step) == calls' = (calls \ {call}) \cup {[call EXCEPT !.step = step]}

End(call) ==
    /\ calls' = calls \ {call}
    /\ activeCall' = FALSE

\* A proposal carries the ids of its call, from which the key that the API knows it by
\* is made; a read carries none, and they only tell its requests apart here.
CorrelationFor(call) == [session |-> call.session, turn |-> call.turn, id |-> call.id]

\* The request as the API gets it, and whether it was refused as invalid.
Request(call, refused) ==
    [of |-> CorrelationFor(call), tool |-> call.tool, refused |-> refused]

\* api.call: an aborted signal sends nothing.
Ask(call) ==
    /\ call.step = "granted"
    /\ IF Aborted(call)
       THEN /\ End(call)
            /\ Remember(call, "failed")
            /\ Respond("failed")
            /\ UNCHANGED asked
       ELSE /\ Proceed(call, "asked")
            /\ asked' = asked \cup {Request(call, FALSE)}
            /\ UNCHANGED <<activeCall, ledger, answer>>
    /\ UNCHANGED <<consent, session, turn, started, usage, corrections>>

(* The API's answer *)

Statuses == {200, 400, 401, 403, 404, 409, 422, 500, 503}

\* classifyHttpFailure
Classified(status) ==
    CASE status \in {400, 422} -> "invalid_request"
      [] status \in {401, 403} -> "unauthorized"
      [] status = 409 -> "stale"
      [] status >= 500 -> "unavailable"
      [] OTHER -> "rejected"

\* What ends a request before a body is read: it is not carried out, times out or is
\* aborted ("unavailable"), the API answers an error, or with something else than JSON.
HeadFailures ==
    {"unavailable", "invalid_response"} \cup {Classified(status) : status \in Statuses \ {200}}

\* What a body holds, as far as its reader tells: too many bytes, no JSON or JSON of some
\* shape; or its stream ends with the abortion of the turn or the time limit.
Bodies == {"projection", "proposal", "other", "garbled", "large", "cut"}

\* The schema of a tool's answers
Expected(tool) == IF tool = "proposal" THEN "proposal" ELSE "projection"

\* readBounded, which passes on the abortion's own error, and the checks of what it read
BodyFailure(body) ==
    CASE body = "cut" -> "AbortError"
      [] body = "large" -> "response_too_large"
      [] OTHER -> "invalid_response"

BodyFailures(tool) == {BodyFailure(body) : body \in Bodies \ {Expected(tool)}}

\* An answer with a JSON body begins.
ReceiveHead(call) ==
    /\ call.step = "asked"
    /\ Proceed(call, "reading")
    /\ UNCHANGED <<consent, session, turn, started, activeCall, usage, corrections, ledger,
                   asked, answer>>

\* The data asked for, and the second consent check.
ReceiveData(call) ==
    /\ call.step = "reading"
    /\ IF consent
       THEN /\ Proceed(call, "checked")
            /\ UNCHANGED <<activeCall, ledger, answer>>
       ELSE /\ End(call)
            /\ Remember(call, "abort")
            /\ Respond("abort")
    /\ UNCHANGED <<consent, session, turn, started, usage, corrections, asked>>

\* releaseCall
Released(tool) ==
    [usage EXCEPT !.turn[tool] = IF @ = 0 THEN 0 ELSE @ - 1,
                  !.session[tool] = IF @ = 0 THEN 0 ELSE @ - 1]

\* invalid_request: the API refuses the arguments, and the reservation is given back.
ReceiveInvalid(call) ==
    /\ call.step = "asked"
    /\ usage' = Released(call.tool)
    /\ asked' = (asked \ {Request(call, FALSE)}) \cup {Request(call, TRUE)}
    /\ Correctable(call)
    /\ End(call)
    /\ UNCHANGED <<consent, session, turn, started>>

\* mapFailure: what the turn survives, and what ends it.
MapFailure(code) ==
    IF code \in {"stale", "rejected", "unavailable", "invalid_response", "response_too_large"}
    THEN "failed" ELSE "abort"

\* A failure other than a refusal of the arguments.
Failures(call) ==
    (IF call.step = "asked" THEN HeadFailures
     ELSE IF call.step = "reading" THEN BodyFailures(call.tool) ELSE {}) \ {"invalid_request"}

Fail(call, code) == Remember(call, MapFailure(code)) /\ Respond(MapFailure(code))

\* Mutation of ReceiveFailure: every failure gives the reservation back.
ReceiveFailure_Releases(call) ==
    /\ \E code \in Failures(call) : Fail(call, code)
    /\ usage' = Released(call.tool)
    /\ End(call)
    /\ UNCHANGED <<consent, session, turn, started, corrections, asked>>

\* What the API did of the request is unknown, and the reservation stays.
ReceiveFailure(call) ==
    /\ \E code \in Failures(call) : Fail(call, code)
    /\ End(call)
    /\ UNCHANGED <<consent, session, turn, started, usage, corrections, asked>>

\* boundedSuccess
FitsOutput(size) ==
    /\ usage.turn["output"] + size <= TurnOutput
    /\ usage.session["output"] + size <= SessionOutput

\* Mutation of Current: the abortion of the turn is not looked at.
Current_IgnoresAbort(call) == session = call.session /\ turn.id = call.turn

\* The comparison after the second consent check.
Current(call) == session = call.session /\ ~Aborted(call)

\* The answer with the data, unless the turn was interrupted or it is too large.
Return(call) ==
    /\ call.step = "checked"
    /\ \/ \E size \in Sizes :
             /\ Current(call) /\ FitsOutput(size)
             /\ usage' = [usage EXCEPT !.turn["output"] = @ + size,
                                       !.session["output"] = @ + size]
             /\ Remember(call, "ok")
             /\ Respond("ok")
       \/ /\ Current(call) => \E size \in Sizes : ~FitsOutput(size)
          /\ Remember(call, "abort")
          /\ Respond("abort")
          /\ UNCHANGED usage
    /\ End(call)
    /\ UNCHANGED <<consent, session, turn, started, corrections, asked>>

Next ==
    \/ StartSession
    \/ StartTurn
    \/ InterruptTurn
    \/ FinishTurn
    \/ CloseSession
    \/ AbandonSession
    \/ RevokeConsent
    \/ GrantConsent
    \/ DispatchRefused
    \/ \E id \in CallIds : DispatchRepeated(id)
    \/ \E id \in CallIds, tool \in Tools :
          LET call == [id |-> id, turn |-> turn.id, tool |-> tool] IN
          \/ DispatchInvalid(call)
          \/ DispatchOverBudget(call)
          \/ DispatchReserved(call)
    \/ \E call \in calls :
          \/ Ask(call)
          \/ ReceiveHead(call)
          \/ ReceiveData(call)
          \/ ReceiveInvalid(call)
          \/ ReceiveFailure(call)
          \/ Return(call)

Spec == Init /\ [][Next]_vars

-----------------------------------------------------------------------------
Turns == 1..MaxTurns
Digests == [turn : Turns, tool : Tools]

\* The usage stays a number within the limits, whatever is released late, and the
\* flag is up exactly while the one call it admits is in progress.
TypeOK ==
    /\ consent \in BOOLEAN
    /\ session \in 0..MaxSessions
    /\ turn \in [id : 0..MaxTurns, aborted : BOOLEAN]
    /\ started \in [sessions : 0..MaxSessions, turns : 0..MaxTurns]
    /\ usage \in [turn : Usages, session : Usages]
    /\ \A tool \in Counted : /\ usage.turn[tool] <= TurnLimit(tool)
                             /\ usage.session[tool] <= SessionLimit(tool)
    /\ usage.turn["output"] <= TurnOutput /\ usage.session["output"] <= SessionOutput
    /\ corrections \in 0..TurnCorrections
    /\ DOMAIN ledger \subseteq CallIds
    /\ \A id \in DOMAIN ledger : ledger[id] \in [digest : Digests, result : Results]
    /\ calls \subseteq [session : 1..MaxSessions, turn : Turns, id : CallIds, tool : Tools,
                        step : {"granted", "asked", "reading", "checked"}]
    /\ asked \subseteq [of : [session : 1..MaxSessions, turn : Turns, id : CallIds],
                        tool : Tools, refused : BOOLEAN]
    /\ answer \in {"none", "data"}
    /\ activeCall = (calls # {})
    /\ Cardinality(calls) <= 1

\* The requests of one kind that may have had an effect.
Effective(tool) == {r \in asked : r.tool = tool /\ ~r.refused}
InTurn(tool, t) == {r \in Effective(tool) : r.of.turn = t}
InSession(tool, s) == {r \in Effective(tool) : r.of.session = s}

\* The budgets: however calls fail, are corrected or are cut off, the API gets no
\* more than the agreed number of effective requests in a turn and in a session.
WithinBudget ==
    /\ TypeOK
    /\ \A tool \in Counted :
          /\ \A t \in Turns : Cardinality(InTurn(tool, t)) <= TurnLimit(tool)
          /\ \A s \in 1..MaxSessions : Cardinality(InSession(tool, s)) <= SessionLimit(tool)

\* Exactly once at the host (ADR 0010): a call of a session is put to the API
\* once, however often the provider repeats it and whatever became of it.
AskedOnce ==
    [][ \A call \in calls :
          call.step = "granted" /\ [call EXCEPT !.step = "asked"] \in calls' =>
             \A r \in asked : r.of.session = call.session => r.of.id # call.id ]_vars

\* An answer stands: while the session lasts, a call that was answered keeps what
\* it was asked and what it was answered.
AnswersStand ==
    [][ session # 0 /\ session' = session =>
          \A id \in DOMAIN ledger : Known(id)' /\ ledger'[id] = ledger[id] ]_vars

\* A call is made once and has one answer, however often the provider repeats it.
OneCallOneAnswer == AskedOnce /\ AnswersStand

\* A call brings data back only under a consent that stands at that moment, in a
\* turn nobody has interrupted, of the session it was made in.
DataUnderConsent ==
    [][ \A call \in calls :
          call \notin calls' /\ answer' = "data" /\ call.step = "checked" =>
             consent /\ session = call.session /\ turn = [id |-> call.turn, aborted |-> FALSE]
      ]_vars

\* ADR 0010: the host checks the current grant before every tool response.
AnswersUnderConsent == [][ answer' = "data" /\ answer = "none" => consent ]_vars

=============================================================================
