---------------------------- MODULE FinanceSession ----------------------------
(***************************************************************************)
(* The finance chat state of the agent host: the reducer                   *)
(* reduceFinanceChatState of apps/agent-host/src/session-manager.ts.       *)
(*                                                                         *)
(* The reducer is a pure function from a state and an event to the next    *)
(* state; an event it refuses throws and leaves the state as it is.  Each  *)
(* event type is one action here, its guard the conditions under which the *)
(* reducer does not throw.  Events come from everywhere (the owner's HTTP  *)
(* commands, provider notifications, the exit of the child process), so    *)
(* ReducerNext offers every event in every state: what holds here holds whatever  *)
(* order the callers use.                                                  *)
(***************************************************************************)
EXTENDS Naturals, FiniteSets

CONSTANTS
    ResourceIds,        \* session, turn, provider thread and provider turn ids
    ConsentVersions,    \* versions of the consent text
    MaxIssued,          \* MAX_ISSUED_RESOURCE_IDS
    None                \* the null of an id or a version

ASSUME MaxIssuedAssumption == MaxIssued \in Nat
ASSUME NoneAssumption == None \notin ResourceIds /\ None \notin ConsentVersions

VARIABLES
    host,               \* status of the host process
    appServer,          \* status of the provider's app server process
    auth,               \* login at the provider
    consent,            \* [status, version]
    session,            \* [status, id, consentVersion, providerThreadId]
    turn,               \* [status, id, sessionId, providerTurnId]
    issued              \* set of [id, kind]: every identifier seen in this epoch

reducerVars == <<host, appServer, auth, consent, session, turn, issued>>

-----------------------------------------------------------------------------
HostStatuses == {"starting", "ready", "degraded", "stopping", "stopped"}
AppServerStatuses == {"stopped", "starting", "ready", "stopping", "crashed"}
AuthStatuses == {"unknown", "logged_out", "authenticated"}
ConsentStatuses == {"unknown", "granted", "revoke_pending", "revoked"}
SessionStatuses == {"none", "starting", "ready", "context_lost", "closed"}
TurnStatuses ==
    {"none", "starting", "running", "interrupting", "interrupted", "completed", "failed"}
Kinds == {"provider_thread", "provider_turn", "session", "turn"}

hostTransitions ==
    [ starting |-> {"ready", "degraded", "stopping"},
      ready    |-> {"degraded", "stopping"},
      degraded |-> {"ready", "stopping"},
      stopping |-> {"stopped"},
      stopped  |-> {} ]

appServerTransitions ==
    [ stopped  |-> {"starting"},
      starting |-> {"ready", "stopping", "crashed"},
      ready    |-> {"stopping", "crashed"},
      stopping |-> {"stopped", "crashed"},
      crashed  |-> {"starting", "stopping", "stopped"} ]

authTransitions ==
    [ unknown       |-> {"logged_out", "authenticated"},
      logged_out    |-> {"unknown", "authenticated"},
      authenticated |-> {"unknown", "logged_out"} ]

\* The null session and the null turn.
NoSession ==
    [status |-> "none", id |-> None, consentVersion |-> None, providerThreadId |-> None]
NoTurn == [status |-> "none", id |-> None, sessionId |-> None, providerTurnId |-> None]

IsLiveSession(s) == s.status \in {"starting", "ready"}
IsActiveTurn(t) == t.status \in {"starting", "running", "interrupting"}

-----------------------------------------------------------------------------
(* The ledger of identifiers.                                              *)

IsIssued(id) == \E i \in issued : i.id = id

\* availableResourceId: an identifier nobody has seen.
Available(id) == ~IsIssued(id)

\* Mutation of Reattachable: the role of the earlier sighting is not compared.
Reattachable_AnyRole(id, kind) == TRUE

\* reattachedResourceId: not seen, or seen in the same role only.
Reattachable(id, kind) == \A i \in issued : i.id = id => i.kind = kind

\* issueResourceIds: the ledger is bounded.
Issue(id, kind) ==
    /\ Cardinality(issued) + 1 <= MaxIssued
    /\ issued' = issued \cup {[id |-> id, kind |-> kind]}

-----------------------------------------------------------------------------
Authenticated == auth = "authenticated"
Granted(version) == consent = [status |-> "granted", version |-> version]

\* loseActiveContext: a live session loses its context, an active turn fails.
LoseActiveContext ==
    /\ session' = IF IsLiveSession(session)
                  THEN [session EXCEPT !.status = "context_lost"] ELSE session
    /\ turn' = IF IsActiveTurn(turn) THEN [turn EXCEPT !.status = "failed"] ELSE turn

ReducerInit ==
    /\ host = "starting"
    /\ appServer = "stopped"
    /\ auth = "unknown"
    /\ consent = [status |-> "unknown", version |-> None]
    /\ session = NoSession
    /\ turn = NoTurn
    /\ issued = {}

HostStatus(status) ==
    /\ status \in hostTransitions[host]
    /\ status = "stopping" => ~IsLiveSession(session)
    /\ host' = status
    /\ UNCHANGED <<appServer, auth, consent, session, turn, issued>>

\* handleChildExit: the child's exit, also reported as app_server.status crashed.
ChildExited ==
    /\ appServer' = "crashed"
    /\ host' = IF host \in {"stopping", "stopped"} THEN host ELSE "degraded"
    /\ LoseActiveContext
    /\ UNCHANGED <<auth, consent, issued>>

\* Mutation of AppServerStatus: the app server may stop under a live session.
AppServerStatus_StopsLiveSession(status) ==
    /\ status \in appServerTransitions[appServer]
    /\ \/ status = "crashed" /\ ChildExited
       \/ /\ status # "crashed"
          /\ appServer' = status
          /\ UNCHANGED <<host, auth, consent, session, turn, issued>>

AppServerStatus(status) ==
    /\ status \in appServerTransitions[appServer]
    /\ \/ status = "crashed" /\ ChildExited
       \/ /\ status # "crashed"
          /\ status = "stopping" => ~IsLiveSession(session)
          /\ appServer' = status
          /\ UNCHANGED <<host, auth, consent, session, turn, issued>>

AuthStatus(status) ==
    /\ status \in authTransitions[auth]
    /\ auth' = status
    /\ \/ status = "logged_out" /\ LoseActiveContext
       \/ status # "logged_out" /\ UNCHANGED <<session, turn>>
    /\ UNCHANGED <<host, appServer, consent, issued>>

ConsentLoaded(status, version) ==
    /\ consent.status = "unknown"
    /\ ~IsLiveSession(session)
    /\ consent' = [status |-> status, version |-> version]
    /\ UNCHANGED <<host, appServer, auth, session, turn, issued>>

ConsentGranted(version) ==
    /\ consent.status \in {"unknown", "revoked"}
    /\ consent' = [status |-> "granted", version |-> version]
    /\ UNCHANGED <<host, appServer, auth, session, turn, issued>>

\* Mutation of ConsentRevokePending: only a running turn enters the interruption.
ConsentRevokePending_RunningOnly(version) ==
    /\ Granted(version)
    /\ consent' = [consent EXCEPT !.status = "revoke_pending"]
    /\ turn' = IF turn.status = "running" THEN [turn EXCEPT !.status = "interrupting"] ELSE turn
    /\ UNCHANGED <<host, appServer, auth, session, issued>>

ConsentRevokePending(version) ==
    /\ Granted(version)
    /\ consent' = [consent EXCEPT !.status = "revoke_pending"]
    /\ turn' = IF IsActiveTurn(turn) THEN [turn EXCEPT !.status = "interrupting"] ELSE turn
    /\ UNCHANGED <<host, appServer, auth, session, issued>>

ConsentRevoked(version) ==
    /\ consent = [status |-> "revoke_pending", version |-> version]
    /\ consent' = [consent EXCEPT !.status = "revoked"]
    /\ UNCHANGED <<host, appServer, auth, session, turn, issued>>

SessionStart(id, version) ==
    /\ host = "ready" /\ appServer = "ready"
    /\ Authenticated
    /\ Granted(version)
    /\ session.status \in {"none", "closed"}
    /\ Available(id)
    /\ session' = [status |-> "starting", id |-> id, consentVersion |-> version,
                   providerThreadId |-> None]
    /\ turn' = NoTurn
    /\ Issue(id, "session")
    /\ UNCHANGED <<host, appServer, auth, consent>>

\* A resumed conversation names the thread it was bound to, so its identifier
\* may have been seen before, but only as a provider thread.
SessionReady(id, thread, resumed) ==
    /\ session.id = id /\ session.status = "starting"
    /\ Authenticated
    /\ Granted(session.consentVersion)
    /\ IF resumed THEN Reattachable(thread, "provider_thread") ELSE Available(thread)
    /\ session' = [session EXCEPT !.providerThreadId = thread, !.status = "ready"]
    /\ IF IsIssued(thread) THEN UNCHANGED issued ELSE Issue(thread, "provider_thread")
    /\ UNCHANGED <<host, appServer, auth, consent, turn>>

SessionFail(id) ==
    /\ session.id = id /\ session.status = "starting"
    /\ session' = [session EXCEPT !.status = "context_lost"]
    /\ UNCHANGED <<host, appServer, auth, consent, turn, issued>>

\* Mutation of SessionClose: the active turn is not looked at.
SessionClose_IgnoresTurn(id) ==
    /\ session.id = id /\ session.status \notin {"none", "closed"}
    /\ session' = [session EXCEPT !.status = "closed"]
    /\ UNCHANGED <<host, appServer, auth, consent, turn, issued>>

SessionClose(id) ==
    /\ session.id = id /\ session.status \notin {"none", "closed"}
    /\ ~IsActiveTurn(turn)
    /\ session' = [session EXCEPT !.status = "closed"]
    /\ UNCHANGED <<host, appServer, auth, consent, turn, issued>>

TurnStart(sessionId, id) ==
    /\ session.id = sessionId /\ session.status = "ready"
    /\ Authenticated
    /\ Granted(session.consentVersion)
    /\ ~IsActiveTurn(turn)
    /\ Available(id)
    /\ turn' = [status |-> "starting", id |-> id, sessionId |-> sessionId,
                providerTurnId |-> None]
    /\ Issue(id, "turn")
    /\ UNCHANGED <<host, appServer, auth, consent, session>>

TurnRunning(id, providerTurn) ==
    /\ Authenticated
    /\ session.status # "none"
    /\ Granted(session.consentVersion)
    /\ Available(providerTurn)
    /\ turn.id = id /\ turn.status = "starting"
    /\ turn' = [turn EXCEPT !.providerTurnId = providerTurn, !.status = "running"]
    /\ Issue(providerTurn, "provider_turn")
    /\ UNCHANGED <<host, appServer, auth, consent, session>>

TurnInterrupt(id) ==
    /\ turn.id = id /\ turn.status \in {"starting", "running"}
    /\ turn' = [turn EXCEPT !.status = "interrupting"]
    /\ UNCHANGED <<host, appServer, auth, consent, session, issued>>

\* Mutation of TurnFinish: the expected statuses are not compared.
TurnFinish_AnyStatus(id, status) ==
    /\ turn.id = id
    /\ turn' = [turn EXCEPT !.status = status]
    /\ UNCHANGED <<host, appServer, auth, consent, session, issued>>

TurnFinish(id, status) ==
    /\ turn.id = id /\ IsActiveTurn(turn)
    /\ turn' = [turn EXCEPT !.status = status]
    /\ UNCHANGED <<host, appServer, auth, consent, session, issued>>

ReducerNext ==
    \/ \E status \in HostStatuses : HostStatus(status)
    \/ \E status \in AppServerStatuses : AppServerStatus(status)
    \/ \E status \in AuthStatuses : AuthStatus(status)
    \/ ChildExited
    \/ \E version \in ConsentVersions :
          \/ \E status \in {"granted", "revoke_pending", "revoked"} :
                ConsentLoaded(status, version)
          \/ ConsentGranted(version)
          \/ ConsentRevokePending(version)
          \/ ConsentRevoked(version)
    \/ \E id \in ResourceIds :
          \/ \E version \in ConsentVersions : SessionStart(id, version)
          \/ \E thread \in ResourceIds, resumed \in BOOLEAN :
                SessionReady(id, thread, resumed)
          \/ SessionFail(id)
          \/ SessionClose(id)
          \/ \E turnId \in ResourceIds : TurnStart(id, turnId)
          \/ \E providerTurn \in ResourceIds : TurnRunning(id, providerTurn)
          \/ TurnInterrupt(id)
          \/ \E status \in {"interrupted", "completed", "failed"} : TurnFinish(id, status)

ReducerSpec == ReducerInit /\ [][ReducerNext]_reducerVars

-----------------------------------------------------------------------------
\* Every variable has the shape of FinanceChatState: statuses from the union
\* types of session-manager.ts, ids and versions or null.
ReducerTyped ==
    /\ host \in HostStatuses
    /\ appServer \in AppServerStatuses
    /\ auth \in AuthStatuses
    /\ consent \in [status : ConsentStatuses, version : ConsentVersions \cup {None}]
    /\ session \in [status : SessionStatuses, id : ResourceIds \cup {None},
                    consentVersion : ConsentVersions \cup {None},
                    providerThreadId : ResourceIds \cup {None}]
    /\ turn \in [status : TurnStatuses, id : ResourceIds \cup {None},
                 sessionId : ResourceIds \cup {None},
                 providerTurnId : ResourceIds \cup {None}]
    /\ issued \subseteq [id : ResourceIds, kind : Kinds]

\* An identifier plays one role in an epoch (the comment on IssuedResourceKind):
\* resuming a conversation whose thread was seen before adds no second role, and
\* the ids the current session and turn use are recorded under their own role.
OneRolePerIdentifier ==
    /\ \A i, j \in issued : i.id = j.id => i = j
    /\ session.status # "none" => [id |-> session.id, kind |-> "session"] \in issued
    /\ session.providerThreadId # None =>
          [id |-> session.providerThreadId, kind |-> "provider_thread"] \in issued
    /\ turn.status # "none" => [id |-> turn.id, kind |-> "turn"] \in issued
    /\ turn.providerTurnId # None =>
          [id |-> turn.providerTurnId, kind |-> "provider_turn"] \in issued

\* A live session runs on a ready app server of a host that is not stopping, and
\* for a user who has not been seen to log out: the exit of the child, a logout
\* and every stop path end it.
LiveSessionHasProvider ==
    IsLiveSession(session) =>
        /\ appServer = "ready"
        /\ host \in {"ready", "degraded"}
        /\ auth # "logged_out"

\* An active turn belongs to the current session, and that session is ready: no
\* close, failure, crash or new session can leave a turn behind.
ActiveTurnInReadySession ==
    IsActiveTurn(turn) => session.status = "ready" /\ session.id = turn.sessionId

\* The revocation barrier: a turn that is not being interrupted works under a
\* consent granted now, in the version its session was opened with.
TurnUnderConsent ==
    turn.status \in {"starting", "running"} => Granted(session.consentVersion)

\* A turn that ended stays as it ended until another one replaces it, and a
\* session that lost its context or closed never becomes live again.
NoResurrection ==
    [][ /\ turn.status \in {"interrupted", "completed", "failed"} /\ turn'.id = turn.id
              => turn' = turn
        /\ session.status \in {"context_lost", "closed"} /\ session'.id = session.id
              => ~IsLiveSession(session') ]_reducerVars

=============================================================================
