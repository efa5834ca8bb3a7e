------------------------ MODULE SessionTransportProofs ------------------------
(***************************************************************************)
(* Proofs about the two layers that the agent service stands on.           *)
(*                                                                         *)
(* FinanceSession, for any identifiers, consent versions and ledger bound: *)
(* each invariant of the reducer is proved on its own with the earlier     *)
(* ones as assumptions of the step; ReducerInv is their conjunction.      *)
(*                                                                         *)
(* CodexTransport, for every number of requests and every limit of the     *)
(* pending table: it implements RequestLedger, leaves no child behind, and *)
(* runs what follows an answer after the answer.                           *)
(*                                                                         *)
(* The modules share no name, and neither speaks of the other's state.     *)
(***************************************************************************)
EXTENDS FinanceSession, CodexTransport, TLAPS

-----------------------------------------------------------------------------
(* The reducer *)

\* The inductive invariant.
ReducerInv ==
    /\ ReducerTyped
    /\ OneRolePerIdentifier
    /\ LiveSessionHasProvider
    /\ ActiveTurnInReadySession
    /\ TurnUnderConsent

\* The events that concern the processes, the login and the consent.
Environment ==
    \/ \E next \in HostStatuses : HostStatus(next)
    \/ \E next \in AppServerStatuses : AppServerStatus(next)
    \/ \E next \in AuthStatuses : AuthStatus(next)
    \/ ChildExited
    \/ \E version \in ConsentVersions :
          \/ \E next \in {"granted", "revoke_pending", "revoked"} :
                ConsentLoaded(next, version)
          \/ ConsentGranted(version)
          \/ ConsentRevokePending(version)
          \/ ConsentRevoked(version)

\* The events that concern one session or turn.
Conversation(id) ==
    \/ \E version \in ConsentVersions : SessionStart(id, version)
    \/ \E thread \in ResourceIds, resumed \in BOOLEAN : SessionReady(id, thread, resumed)
    \/ SessionFail(id)
    \/ SessionClose(id)
    \/ \E turnId \in ResourceIds : TurnStart(id, turnId)
    \/ \E providerTurn \in ResourceIds : TurnRunning(id, providerTurn)
    \/ TurnInterrupt(id)
    \/ \E next \in {"interrupted", "completed", "failed"} : TurnFinish(id, next)

-----------------------------------------------------------------------------
\* The initial state of the reducer satisfies every invariant.
LEMMA InitInv == ReducerInit => ReducerInv
  BY DEF ReducerInit, ReducerInv, ReducerTyped, OneRolePerIdentifier, LiveSessionHasProvider,
     ActiveTurnInReadySession, TurnUnderConsent, NoSession, NoTurn, IsLiveSession,
     IsActiveTurn, HostStatuses, AppServerStatuses, AuthStatuses, ConsentStatuses,
     SessionStatuses, TurnStatuses

\* What session.ready makes of a session: it keeps its id and its consent version.
LEMMA ReadySession ==
  ASSUME ReducerTyped, NEW thread \in ResourceIds,
         session' = [session EXCEPT !.providerThreadId = thread, !.status = "ready"]
  PROVE  /\ session' \in [status : SessionStatuses, id : ResourceIds \cup {None},
                          consentVersion : ConsentVersions \cup {None},
                          providerThreadId : ResourceIds \cup {None}]
         /\ session'.status = "ready" /\ session'.providerThreadId = thread
         /\ session'.id = session.id /\ session'.consentVersion = session.consentVersion
<1> DEFINE renamed == [session EXCEPT !.providerThreadId = thread]
<1>1. session' = [renamed EXCEPT !.status = "ready"]
  OBVIOUS
<1>2. /\ renamed \in [status : SessionStatuses, id : ResourceIds \cup {None},
                    consentVersion : ConsentVersions \cup {None},
                    providerThreadId : ResourceIds \cup {None}]
      /\ renamed.providerThreadId = thread
      /\ renamed.id = session.id /\ renamed.consentVersion = session.consentVersion
  BY DEF ReducerTyped
<1> HIDE DEF renamed
<1> QED BY <1>1, <1>2 DEF SessionStatuses

\* What turn.running makes of a turn: it keeps its id and its session.
LEMMA RunningTurn ==
  ASSUME ReducerTyped, NEW providerTurn \in ResourceIds,
         turn' = [turn EXCEPT !.providerTurnId = providerTurn, !.status = "running"]
  PROVE  /\ turn' \in [status : TurnStatuses, id : ResourceIds \cup {None},
                       sessionId : ResourceIds \cup {None},
                       providerTurnId : ResourceIds \cup {None}]
         /\ turn'.status = "running" /\ turn'.providerTurnId = providerTurn
         /\ turn'.id = turn.id /\ turn'.sessionId = turn.sessionId
<1> DEFINE renamed == [turn EXCEPT !.providerTurnId = providerTurn]
<1>1. turn' = [renamed EXCEPT !.status = "running"]
  OBVIOUS
<1>2. /\ renamed \in [status : TurnStatuses, id : ResourceIds \cup {None},
                    sessionId : ResourceIds \cup {None},
                    providerTurnId : ResourceIds \cup {None}]
      /\ renamed.providerTurnId = providerTurn
      /\ renamed.id = turn.id /\ renamed.sessionId = turn.sessionId
  BY DEF ReducerTyped
<1> HIDE DEF renamed
<1> QED BY <1>1, <1>2 DEF TurnStatuses

\* No event leaves the shape of FinanceChatState.
LEMMA TypeStep == ASSUME ReducerTyped, [ReducerNext]_reducerVars PROVE ReducerTyped'
<1> USE DEF ReducerTyped, HostStatuses, AppServerStatuses, AuthStatuses, ConsentStatuses,
            SessionStatuses, TurnStatuses, Kinds
<1>1. CASE UNCHANGED reducerVars
  BY <1>1 DEF reducerVars
<1>2. CASE Environment
  <2>1. ASSUME NEW next \in HostStatuses, HostStatus(next) PROVE ReducerTyped'
    BY <2>1 DEF HostStatus
  <2>2. ASSUME ChildExited PROVE ReducerTyped'
    BY <2>2 DEF ChildExited, LoseActiveContext
  <2>3. ASSUME NEW next \in AppServerStatuses, AppServerStatus(next) PROVE ReducerTyped'
    BY <2>2, <2>3 DEF AppServerStatus
  <2>4. ASSUME NEW next \in AuthStatuses, AuthStatus(next) PROVE ReducerTyped'
    BY <2>4 DEF AuthStatus, LoseActiveContext
  <2>5. ASSUME NEW version \in ConsentVersions,
               NEW next \in {"granted", "revoke_pending", "revoked"},
               ConsentLoaded(next, version) PROVE ReducerTyped'
    BY <2>5 DEF ConsentLoaded
  <2>6. ASSUME NEW version \in ConsentVersions, ConsentGranted(version) PROVE ReducerTyped'
    BY <2>6 DEF ConsentGranted
  <2>7. ASSUME NEW version \in ConsentVersions, ConsentRevokePending(version) PROVE ReducerTyped'
    BY <2>7 DEF ConsentRevokePending
  <2>8. ASSUME NEW version \in ConsentVersions, ConsentRevoked(version) PROVE ReducerTyped'
    BY <2>8 DEF ConsentRevoked
  <2> QED BY <1>2, <2>1, <2>2, <2>3, <2>4, <2>5, <2>6, <2>7, <2>8 DEF Environment
<1>3. ASSUME NEW id \in ResourceIds, Conversation(id) PROVE ReducerTyped'
  <2>1. ASSUME NEW version \in ConsentVersions, SessionStart(id, version) PROVE ReducerTyped'
    BY <2>1 DEF SessionStart, NoTurn, Issue
  <2>2. ASSUME NEW thread \in ResourceIds, NEW resumed \in BOOLEAN,
               SessionReady(id, thread, resumed) PROVE ReducerTyped'
    <3>1. issued' = issued \/ issued' = issued \cup {[id |-> thread, kind |-> "provider_thread"]}
      BY <2>2 DEF SessionReady, Issue
    <3>2. session' \in [status : SessionStatuses, id : ResourceIds \cup {None},
                        consentVersion : ConsentVersions \cup {None},
                        providerThreadId : ResourceIds \cup {None}]
      BY <2>2, ReadySession DEF SessionReady
    <3>3. UNCHANGED <<host, appServer, auth, consent, turn>>
      BY <2>2 DEF SessionReady
    <3> QED BY <3>1, <3>2, <3>3
  <2>3. ASSUME SessionFail(id) PROVE ReducerTyped'
    BY <2>3 DEF SessionFail
  <2>4. ASSUME SessionClose(id) PROVE ReducerTyped'
    BY <2>4 DEF SessionClose
  <2>5. ASSUME NEW turnId \in ResourceIds, TurnStart(id, turnId) PROVE ReducerTyped'
    BY <2>5 DEF TurnStart, Issue
  <2>6. ASSUME NEW providerTurn \in ResourceIds, TurnRunning(id, providerTurn) PROVE ReducerTyped'
    <3>1. turn' \in [status : TurnStatuses, id : ResourceIds \cup {None},
                     sessionId : ResourceIds \cup {None},
                     providerTurnId : ResourceIds \cup {None}]
      BY <2>6, RunningTurn DEF TurnRunning
    <3>2. issued' = issued \cup {[id |-> providerTurn, kind |-> "provider_turn"]}
      BY <2>6 DEF TurnRunning, Issue
    <3>3. UNCHANGED <<host, appServer, auth, consent, session>>
      BY <2>6 DEF TurnRunning
    <3> QED BY <3>1, <3>2, <3>3
  <2>7. ASSUME TurnInterrupt(id) PROVE ReducerTyped'
    BY <2>7 DEF TurnInterrupt
  <2>8. ASSUME NEW next \in {"interrupted", "completed", "failed"}, TurnFinish(id, next)
        PROVE ReducerTyped'
    BY <2>8 DEF TurnFinish
  <2> QED BY <1>3, <2>1, <2>2, <2>3, <2>4, <2>5, <2>6, <2>7, <2>8 DEF Conversation
<1> QED BY <1>1, <1>2, <1>3 DEF ReducerNext, Environment, Conversation

-----------------------------------------------------------------------------
\* The events that issue no identifier.
EndsQuietly(id) ==
    \/ SessionFail(id)
    \/ SessionClose(id)
    \/ TurnInterrupt(id)
    \/ \E next \in {"interrupted", "completed", "failed"} : TurnFinish(id, next)

\* No event gives an identifier a second role.
LEMMA OneRoleStep ==
  ASSUME ReducerTyped, OneRolePerIdentifier, [ReducerNext]_reducerVars PROVE OneRolePerIdentifier'
<1> DEFINE KeepsIds ==
      /\ issued' = issued
      /\ session'.id = session.id /\ session'.providerThreadId = session.providerThreadId
      /\ session'.status # "none" => session.status # "none"
      /\ turn'.id = turn.id /\ turn'.providerTurnId = turn.providerTurnId
      /\ turn'.status # "none" => turn.status # "none"
<1>1. KeepsIds => OneRolePerIdentifier'
  BY DEF OneRolePerIdentifier
<1>2. CASE UNCHANGED reducerVars
  BY <1>1, <1>2 DEF reducerVars
<1>3. CASE Environment
  <2>1. ChildExited => KeepsIds
    BY DEF ChildExited, LoseActiveContext, ReducerTyped, IsLiveSession, IsActiveTurn
  <2> QED
    BY <1>1, <1>3, <2>1 DEF Environment, HostStatus, AppServerStatus, AuthStatus,
       LoseActiveContext, ConsentLoaded, ConsentGranted, ConsentRevokePending,
       ConsentRevoked, ReducerTyped, IsLiveSession, IsActiveTurn
<1>4. ASSUME NEW id \in ResourceIds, EndsQuietly(id) PROVE OneRolePerIdentifier'
  BY <1>1, <1>4 DEF EndsQuietly, SessionFail, SessionClose, TurnInterrupt, TurnFinish,
     IsActiveTurn, ReducerTyped
<1>5. ASSUME NEW id \in ResourceIds, NEW version \in ConsentVersions,
             SessionStart(id, version) PROVE OneRolePerIdentifier'
  BY <1>5 DEF SessionStart, Available, IsIssued, Issue, NoTurn, OneRolePerIdentifier, ReducerTyped
<1>6. ASSUME NEW id \in ResourceIds, NEW thread \in ResourceIds, NEW resumed \in BOOLEAN,
             SessionReady(id, thread, resumed) PROVE OneRolePerIdentifier'
  <2>1. /\ session'.status = "ready" /\ session'.providerThreadId = thread
        /\ session'.id = session.id
    BY <1>6, ReadySession DEF SessionReady
  <2>2. session.status # "none" /\ UNCHANGED turn
    BY <1>6 DEF SessionReady
  <2>3. CASE IsIssued(thread)
    <3>1. PICK i \in issued : i.id = thread
      BY <2>3 DEF IsIssued
    <3>2. i.kind = "provider_thread" /\ issued' = issued
      BY <1>6, <2>3, <3>1 DEF SessionReady, Available, Reattachable
    <3>3. i = [id |-> thread, kind |-> "provider_thread"]
      BY <3>1, <3>2 DEF ReducerTyped
    <3> QED BY <2>1, <2>2, <3>1, <3>2, <3>3 DEF OneRolePerIdentifier
  <2>4. CASE ~IsIssued(thread)
    <3>1. issued' = issued \cup {[id |-> thread, kind |-> "provider_thread"]}
      BY <1>6, <2>4 DEF SessionReady, Issue
    <3> QED BY <2>1, <2>2, <2>4, <3>1 DEF IsIssued, OneRolePerIdentifier, ReducerTyped
  <2> QED BY <2>3, <2>4
<1>7. ASSUME NEW id \in ResourceIds, NEW turnId \in ResourceIds, TurnStart(id, turnId)
      PROVE OneRolePerIdentifier'
  BY <1>7 DEF TurnStart, Available, IsIssued, Issue, OneRolePerIdentifier, ReducerTyped
<1>8. ASSUME NEW id \in ResourceIds, NEW providerTurn \in ResourceIds,
             TurnRunning(id, providerTurn) PROVE OneRolePerIdentifier'
  <2>1. turn'.status = "running" /\ turn'.providerTurnId = providerTurn /\ turn'.id = turn.id
    BY <1>8, RunningTurn DEF TurnRunning
  <2>2. /\ issued' = issued \cup {[id |-> providerTurn, kind |-> "provider_turn"]}
        /\ turn.status # "none" /\ UNCHANGED session
        /\ ~IsIssued(providerTurn)
    BY <1>8 DEF TurnRunning, Issue, Available
  <2> QED BY <2>1, <2>2 DEF IsIssued, OneRolePerIdentifier, ReducerTyped
<1> QED BY <1>2, <1>3, <1>4, <1>5, <1>6, <1>7, <1>8 DEF ReducerNext, Environment, EndsQuietly

-----------------------------------------------------------------------------
\* No event leaves a live session without its provider.
LEMMA LiveSessionStep ==
  ASSUME ReducerTyped, LiveSessionHasProvider, [ReducerNext]_reducerVars PROVE LiveSessionHasProvider'
<1> USE DEF LiveSessionHasProvider, IsLiveSession
<1>1. CASE UNCHANGED reducerVars
  BY <1>1 DEF reducerVars
<1>2. ChildExited => ~IsLiveSession(session')
  BY DEF ChildExited, LoseActiveContext, ReducerTyped
<1>3. ASSUME NEW next \in HostStatuses, HostStatus(next) PROVE LiveSessionHasProvider'
  BY <1>3 DEF HostStatus, hostTransitions, HostStatuses, ReducerTyped
<1>4. ASSUME NEW next \in AppServerStatuses, AppServerStatus(next)
      PROVE LiveSessionHasProvider'
  BY <1>2, <1>4 DEF AppServerStatus, appServerTransitions, AppServerStatuses, ReducerTyped
<1>5. ASSUME NEW next \in AuthStatuses, AuthStatus(next) PROVE LiveSessionHasProvider'
  BY <1>5 DEF AuthStatus, LoseActiveContext, AuthStatuses, ReducerTyped
<1>6. ASSUME NEW version \in ConsentVersions,
             \/ \E next \in {"granted", "revoke_pending", "revoked"} :
                   ConsentLoaded(next, version)
             \/ ConsentGranted(version)
             \/ ConsentRevokePending(version)
             \/ ConsentRevoked(version)
      PROVE LiveSessionHasProvider'
  BY <1>6 DEF ConsentLoaded, ConsentGranted, ConsentRevokePending, ConsentRevoked
<1>7. ASSUME NEW id \in ResourceIds, NEW version \in ConsentVersions,
             SessionStart(id, version) PROVE LiveSessionHasProvider'
  BY <1>7 DEF SessionStart, Authenticated
<1>8. ASSUME NEW id \in ResourceIds, NEW thread \in ResourceIds, NEW resumed \in BOOLEAN,
             SessionReady(id, thread, resumed) PROVE LiveSessionHasProvider'
  BY <1>8 DEF SessionReady
<1>9. ASSUME NEW id \in ResourceIds, Conversation(id),
             ~\E version \in ConsentVersions : SessionStart(id, version),
             ~\E thread \in ResourceIds, resumed \in BOOLEAN : SessionReady(id, thread, resumed)
      PROVE LiveSessionHasProvider'
  BY <1>9 DEF Conversation, SessionFail, SessionClose, TurnStart, TurnRunning,
     TurnInterrupt,
     TurnFinish, ReducerTyped
<1> QED
  BY <1>1, <1>2, <1>3, <1>4, <1>5, <1>6, <1>7, <1>8, <1>9 DEF ReducerNext, Conversation

\* No event leaves an active turn behind, or a working turn without its consent.
LEMMA ActiveTurnStep ==
  ASSUME ReducerTyped, ActiveTurnInReadySession, TurnUnderConsent, [ReducerNext]_reducerVars
  PROVE  ActiveTurnInReadySession' /\ TurnUnderConsent'
<1> USE DEF ActiveTurnInReadySession, TurnUnderConsent, IsActiveTurn, Granted
<1> DEFINE Goal == ActiveTurnInReadySession' /\ TurnUnderConsent'
<1>1. CASE UNCHANGED reducerVars
  BY <1>1 DEF reducerVars
<1>2. LoseActiveContext => ~IsActiveTurn(turn')
  BY DEF LoseActiveContext, ReducerTyped
<1>3. CASE Environment
  <2>1. ASSUME NEW version \in ConsentVersions, ConsentRevokePending(version) PROVE Goal
    BY <2>1 DEF ConsentRevokePending, ReducerTyped
  <2>2. ASSUME NEW version \in ConsentVersions,
               NEW next \in {"granted", "revoke_pending", "revoked"},
               ConsentLoaded(next, version) PROVE Goal
    BY <2>2 DEF ConsentLoaded
  <2>3. ASSUME NEW version \in ConsentVersions, ConsentGranted(version) PROVE Goal
    BY <2>3 DEF ConsentGranted
  <2>4. ASSUME NEW version \in ConsentVersions, ConsentRevoked(version) PROVE Goal
    BY <2>4 DEF ConsentRevoked
  <2> QED
    BY <1>2, <1>3, <2>1, <2>2, <2>3, <2>4 DEF Environment, ChildExited, HostStatus,
       AppServerStatus, AuthStatus
<1>4. ASSUME NEW id \in ResourceIds, NEW version \in ConsentVersions,
             SessionStart(id, version) PROVE Goal
  BY <1>4 DEF SessionStart, NoTurn
<1>5. ASSUME NEW id \in ResourceIds, NEW thread \in ResourceIds, NEW resumed \in BOOLEAN,
             SessionReady(id, thread, resumed) PROVE Goal
  BY <1>5 DEF SessionReady
<1>6. ASSUME NEW id \in ResourceIds, NEW turnId \in ResourceIds, TurnStart(id, turnId)
      PROVE Goal
  BY <1>6 DEF TurnStart
<1>7. ASSUME NEW id \in ResourceIds, NEW providerTurn \in ResourceIds,
             TurnRunning(id, providerTurn) PROVE Goal
  BY <1>7, RunningTurn DEF TurnRunning
<1>8. ASSUME NEW id \in ResourceIds, EndsQuietly(id) PROVE Goal
  BY <1>8 DEF EndsQuietly, SessionFail, SessionClose, TurnInterrupt, TurnFinish, ReducerTyped
<1> QED
  BY <1>1, <1>3, <1>4, <1>5, <1>6, <1>7, <1>8 DEF ReducerNext, Environment, EndsQuietly

\* Every step of the reducer preserves the inductive invariant.
LEMMA InvStep == ReducerInv /\ [ReducerNext]_reducerVars => ReducerInv'
  BY TypeStep, OneRoleStep, LiveSessionStep, ActiveTurnStep DEF ReducerInv

\* The inductive invariant holds in every reachable state.
LEMMA ReducerInvariance == ReducerSpec => []ReducerInv
  BY InitInv, InvStep, PTL DEF ReducerSpec

-----------------------------------------------------------------------------
\* The reducer keeps its state within the types of session-manager.ts.
THEOREM TypeCorrect == ReducerSpec => []ReducerTyped
<1>1. ReducerInv => ReducerTyped
  BY DEF ReducerInv
<1> QED BY <1>1, ReducerInvariance, PTL

\* Identifiers never change role, however sessions resume earlier threads.
THEOREM OneRole == ReducerSpec => []OneRolePerIdentifier
<1>1. ReducerInv => OneRolePerIdentifier
  BY DEF ReducerInv
<1> QED BY <1>1, ReducerInvariance, PTL

\* No stop, crash or logout leaves a live session behind.
THEOREM LiveSession == ReducerSpec => []LiveSessionHasProvider
<1>1. ReducerInv => LiveSessionHasProvider
  BY DEF ReducerInv
<1> QED BY <1>1, ReducerInvariance, PTL

\* An active turn always has its ready session.
THEOREM ActiveTurn == ReducerSpec => []ActiveTurnInReadySession
<1>1. ReducerInv => ActiveTurnInReadySession
  BY DEF ReducerInv
<1> QED BY <1>1, ReducerInvariance, PTL

\* The revocation barrier: no turn works without the consent of its session.
THEOREM RevocationBarrier == ReducerSpec => []TurnUnderConsent
<1>1. ReducerInv => TurnUnderConsent
  BY DEF ReducerInv
<1> QED BY <1>1, ReducerInvariance, PTL

\* An ended turn and a lost or closed session stay what they are.
THEOREM EndedStaysEnded == ReducerSpec => NoResurrection
<1> DEFINE A ==
      /\ turn.status \in {"interrupted", "completed", "failed"} /\ turn'.id = turn.id
            => turn' = turn
      /\ session.status \in {"context_lost", "closed"} /\ session'.id = session.id
            => ~IsLiveSession(session')
<1>1. ASSUME ReducerInv, [ReducerNext]_reducerVars PROVE [A]_reducerVars
  <2> USE DEF IsLiveSession, IsActiveTurn
  <2>1. ReducerTyped /\ OneRolePerIdentifier
    BY <1>1 DEF ReducerInv
  <2>2. turn.status # "none" => turn.id \in ResourceIds /\ IsIssued(turn.id)
    BY <2>1 DEF OneRolePerIdentifier, ReducerTyped, IsIssued
  <2>3. session.status # "none" => IsIssued(session.id)
    BY <2>1 DEF OneRolePerIdentifier, IsIssued
  <2>4. LoseActiveContext => A
    BY <2>1 DEF LoseActiveContext, ReducerTyped
  <2>5. CASE Environment
    BY <2>4, <2>5, <2>1 DEF Environment, HostStatus, AppServerStatus, AuthStatus,
       ChildExited,
       ConsentLoaded, ConsentGranted, ConsentRevokePending, ConsentRevoked, ReducerTyped
  <2>6. ASSUME NEW id \in ResourceIds, NEW version \in ConsentVersions,
               SessionStart(id, version) PROVE A
    BY <2>2, <2>3, <2>6, NoneAssumption DEF SessionStart, Available, NoTurn
  <2>7. ASSUME NEW id \in ResourceIds, NEW turnId \in ResourceIds, TurnStart(id, turnId)
        PROVE A
    BY <2>2, <2>7 DEF TurnStart, Available
  <2>8. ASSUME NEW id \in ResourceIds, NEW thread \in ResourceIds, NEW resumed \in BOOLEAN,
               SessionReady(id, thread, resumed) PROVE A
    BY <2>8 DEF SessionReady
  <2>9. ASSUME NEW id \in ResourceIds, NEW providerTurn \in ResourceIds,
               TurnRunning(id, providerTurn) PROVE A
    BY <2>9 DEF TurnRunning
  <2>10. ASSUME NEW id \in ResourceIds, EndsQuietly(id) PROVE A
    BY <2>1, <2>10 DEF EndsQuietly, SessionFail, SessionClose, TurnInterrupt, TurnFinish, ReducerTyped
  <2> QED BY <1>1, <2>5, <2>6, <2>7, <2>8, <2>9, <2>10 DEF ReducerNext, Environment, EndsQuietly
<1> QED BY <1>1, ReducerInvariance, PTL DEF ReducerSpec, NoResurrection


-----------------------------------------------------------------------------
(* The inductive invariant *)

\* What waits for the pipe is a request of the host or an answer to the child.
QueueTyped == queue \in Seq([kind : {"call"}, id : Requests] \cup [kind : {"answer"}, id : ServerRequests])

\* Before start() nothing was asked, stopped or started.
NotStarted ==
    starting = "no" =>
        /\ status = "stopped" /\ closed /\ child = "none"
        /\ \A c \in Stoppers : stops[c] = "no"
        /\ \A r \in Requests : req[r] = "new"

\* A closed client has no request that waits.
ClosedIsEmpty == closed => \A r \in Requests : req[r] # "pending"

\* A write that waits for "drain" is the head of the queue and already in the pipe.
DrainedHead ==
    drain => /\ queue # <<>>
             /\ Head(queue).kind = "answer" => Head(queue).id \in told

\* The second wait of a stop() comes after SIGKILL.
KilledIsNotRunning == \A c \in Stoppers : stops[c] = "kill" => child # "running"

IInv ==
    /\ TypeOK /\ QueueTyped
    /\ NotStarted /\ ClosedIsEmpty /\ DrainedHead /\ KilledIsNotRunning
    /\ NoChildLeft /\ HookAfterAnswer

\* A client that was just made satisfies the invariant.
LEMMA InitIInv == Init => IInv
<1> SUFFICES ASSUME Init PROVE IInv
  OBVIOUS
<1>1. TypeOK /\ NoChildLeft
  BY DEF Init, TypeOK, NoChildLeft, Stoppers, Ended
<1>2. QueueTyped /\ DrainedHead /\ HookAfterAnswer
  BY DEF Init, QueueTyped, DrainedHead, HookAfterAnswer
<1>3. NotStarted /\ ClosedIsEmpty /\ KilledIsNotRunning
  BY DEF Init, NotStarted, ClosedIsEmpty, KilledIsNotRunning, Stoppers
<1> QED BY <1>1, <1>2, <1>3 DEF IInv

\* The requests of a client that is closed: those that waited have failed.
LEMMA RejectedRequests ==
    ASSUME NEW r \in [Requests -> {"new", "pending"} \cup Ended]
    PROVE  /\ Rejected(r) \in [Requests -> {"new", "pending"} \cup Ended]
           /\ \A x \in Requests : Rejected(r)[x] # "pending" /\ (r[x] = "new" => Rejected(r)[x] = "new")
  BY DEF Rejected, Ended

\* What a failure does: it closes the client, rejects what waits, and never makes
\* a process object "stopped".
LEMMA FailureKeeps ==
    ASSUME IInv, Failed \/ ClientFails \/ UNCHANGED <<status, fatal, closed, req>>
    PROVE  /\ status' \in {"stopped", "starting", "ready", "stopping", "crashed"}
           /\ fatal' \in BOOLEAN /\ closed' \in BOOLEAN
           /\ req' \in [Requests -> {"new", "pending"} \cup Ended]
           /\ status = "stopped" <=> status' = "stopped"
           /\ closed => closed'
           /\ \A x \in Requests : req[x] = "new" => req'[x] = "new"
           /\ ClosedIsEmpty'
<1>1. CASE Failed
  BY <1>1, RejectedRequests DEF IInv, TypeOK, Failed, ClosedIsEmpty
<1>2. CASE UNCHANGED <<status, fatal, closed, req>>
  BY <1>2 DEF IInv, TypeOK, ClosedIsEmpty
<1> QED BY <1>1, <1>2 DEF ClientFails

\* The beginning of a stop: it is over at once only if no child runs.
LEMMA StopBegins ==
    ASSUME IInv, NEW c \in Stoppers, BeginStop(c)
    PROVE  /\ status' \in {"stopped", "stopping"}
           /\ bound' \in BOOLEAN /\ closed' = TRUE
           /\ stops' \in [Stoppers -> {"no", "term", "kill", "done"}]
           /\ req' \in [Requests -> {"new", "pending"} \cup Ended]
           /\ status' = "stopped" => child # "running"
           /\ \A d \in Stoppers : stops'[d] = "kill" => stops[d] = "kill"
           /\ ClosedIsEmpty'
  BY RejectedRequests DEF IInv, TypeOK, BeginStop, Alive, ClosedIsEmpty

\* Every step of the transport keeps the invariant.
LEMMA StepIInv == IInv /\ [Next]_vars => IInv'
<1> SUFFICES ASSUME IInv, [Next]_vars PROVE IInv'
  OBVIOUS
<1> USE DEF IInv, TypeOK, QueueTyped, NotStarted, ClosedIsEmpty, DrainedHead,
     KilledIsNotRunning, NoChildLeft, HookAfterAnswer, Stoppers, Ended, wire
<1>1. CASE StartRefused
  BY <1>1 DEF StartRefused
<1>2. CASE Start
  <2>1. TypeOK'
    BY <1>2 DEF Start, Call, Requests
  <2>2. QueueTyped'
    BY <1>2 DEF Start, Call, Requests
  <2>3. NotStarted'
    BY <1>2 DEF Start, Call, Requests
  <2>4. ClosedIsEmpty'
    BY <1>2 DEF Start, Call, Requests
  <2>5. DrainedHead'
    BY <1>2 DEF Start, Call, Requests
  <2>6. KilledIsNotRunning'
    BY <1>2 DEF Start, Call, Requests
  <2>7. NoChildLeft'
    BY <1>2 DEF Start, Call, Requests
  <2>8. HookAfterAnswer'
    BY <1>2 DEF Start, Call, Requests
  <2> QED BY <2>1, <2>2, <2>3, <2>4, <2>5, <2>6, <2>7, <2>8
<1>3. CASE Initialized
  BY <1>3 DEF Initialized
<1>4. CASE InitializeFails
  <2>1. TypeOK'
    BY <1>4, StopBegins DEF InitializeFails, Alive, Settled
  <2>2. QueueTyped'
    BY <1>4, StopBegins DEF InitializeFails, Alive, Settled
  <2>3. NotStarted'
    BY <1>4, StopBegins DEF InitializeFails, Alive, Settled
  <2>4. ClosedIsEmpty'
    BY <1>4, StopBegins DEF InitializeFails, Alive, Settled
  <2>5. DrainedHead'
    BY <1>4, StopBegins DEF InitializeFails, Alive, Settled
  <2>6. KilledIsNotRunning'
    BY <1>4, StopBegins DEF InitializeFails, Alive, Settled
  <2>7. NoChildLeft'
    BY <1>4, StopBegins DEF InitializeFails, Alive, Settled
  <2>8. HookAfterAnswer'
    BY <1>4, StopBegins DEF InitializeFails, Alive, Settled
  <2> QED BY <2>1, <2>2, <2>3, <2>4, <2>5, <2>6, <2>7, <2>8
<1>5. CASE Stop
  BY <1>5, StopBegins DEF Stop, Alive, Quiet
<1>6. CASE Exit
  <2>1. TypeOK'
    BY <1>6, FailureKeeps DEF Exit, Alive
  <2>2. QueueTyped'
    BY <1>6, FailureKeeps DEF Exit, Alive
  <2>3. NotStarted'
    BY <1>6, FailureKeeps DEF Exit, Alive
  <2>4. ClosedIsEmpty'
    BY <1>6, FailureKeeps DEF Exit, Alive
  <2>5. DrainedHead'
    BY <1>6, FailureKeeps DEF Exit, Alive
  <2>6. KilledIsNotRunning'
    BY <1>6, FailureKeeps DEF Exit, Alive
  <2>7. NoChildLeft'
    BY <1>6, FailureKeeps DEF Exit, Alive
  <2>8. HookAfterAnswer'
    BY <1>6, FailureKeeps DEF Exit, Alive
  <2> QED BY <2>1, <2>2, <2>3, <2>4, <2>5, <2>6, <2>7, <2>8
<1>7. CASE \E c \in Stoppers : TermTimesOut(c)
  BY <1>7 DEF TermTimesOut, Alive
<1>8. CASE \E c \in Stoppers : StopEnds(c)
  BY <1>8 DEF StopEnds
<1>9. CASE \E r \in Calls : Request(r)
  BY <1>9 DEF Request, Call, Room, Requests
<1>10. CASE \E r \in Calls : RequestRefused(r)
  BY <1>10 DEF RequestRefused, Requests
<1>11. CASE \E r \in Requests : TimeOut(r)
  BY <1>11 DEF TimeOut, Event, Quiet
<1>12. CASE \E full \in BOOLEAN : Write(full)
  BY <1>12 DEF Write, Wrote
<1>13. CASE WriteClosed
  <2>1. TypeOK'
    BY <1>13 DEF WriteClosed, NotWritten
  <2>2. QueueTyped'
    BY <1>13 DEF WriteClosed, NotWritten
  <2>3. NotStarted'
    BY <1>13 DEF WriteClosed, NotWritten
  <2>4. ClosedIsEmpty'
    BY <1>13 DEF WriteClosed, NotWritten
  <2>5. DrainedHead'
    BY <1>13 DEF WriteClosed, NotWritten
  <2>6. KilledIsNotRunning'
    BY <1>13 DEF WriteClosed, NotWritten
  <2>7. NoChildLeft'
    BY <1>13 DEF WriteClosed, NotWritten
  <2>8. HookAfterAnswer'
    BY <1>13 DEF WriteClosed, NotWritten
  <2> QED BY <2>1, <2>2, <2>3, <2>4, <2>5, <2>6, <2>7, <2>8
<1>14. CASE Drained
  <2>1. TypeOK'
    BY <1>14 DEF Drained, Wrote
  <2>2. QueueTyped'
    BY <1>14 DEF Drained, Wrote
  <2>3. NotStarted'
    BY <1>14 DEF Drained, Wrote
  <2>4. ClosedIsEmpty'
    BY <1>14 DEF Drained, Wrote
  <2>5. DrainedHead'
    BY <1>14 DEF Drained, Wrote
  <2>6. KilledIsNotRunning'
    BY <1>14 DEF Drained, Wrote
  <2>7. NoChildLeft'
    BY <1>14 DEF Drained, Wrote
  <2>8. HookAfterAnswer'
    BY <1>14 DEF Drained, Wrote
  <2> QED BY <2>1, <2>2, <2>3, <2>4, <2>5, <2>6, <2>7, <2>8
<1>15. CASE OutputFails
  <2>1. TypeOK'
    BY <1>15, FailureKeeps DEF OutputFails, NotWritten
  <2>2. QueueTyped'
    BY <1>15, FailureKeeps DEF OutputFails, NotWritten
  <2>3. NotStarted'
    BY <1>15, FailureKeeps DEF OutputFails, NotWritten
  <2>4. ClosedIsEmpty'
    BY <1>15, FailureKeeps DEF OutputFails, NotWritten
  <2>5. DrainedHead'
    BY <1>15, FailureKeeps DEF OutputFails, NotWritten
  <2>6. KilledIsNotRunning'
    BY <1>15, FailureKeeps DEF OutputFails, NotWritten
  <2>7. NoChildLeft'
    BY <1>15, FailureKeeps DEF OutputFails, NotWritten
  <2>8. HookAfterAnswer'
    BY <1>15, FailureKeeps DEF OutputFails, NotWritten
  <2> QED BY <2>1, <2>2, <2>3, <2>4, <2>5, <2>6, <2>7, <2>8
<1>16. CASE Data
  BY <1>16 DEF Data
<1>17. CASE End
  BY <1>17 DEF End
<1>18. CASE ReceiveResponse
  <2>1. TypeOK'
    BY <1>18 DEF ReceiveResponse
  <2>2. QueueTyped'
    BY <1>18 DEF ReceiveResponse
  <2>3. NotStarted'
    BY <1>18 DEF ReceiveResponse
  <2>4. ClosedIsEmpty'
    BY <1>18 DEF ReceiveResponse
  <2>5. DrainedHead'
    BY <1>18 DEF ReceiveResponse
  <2>6. KilledIsNotRunning'
    BY <1>18 DEF ReceiveResponse
  <2>7. NoChildLeft'
    BY <1>18 DEF ReceiveResponse
  <2>8. HookAfterAnswer'
    BY <1>18 DEF ReceiveResponse
  <2> QED BY <2>1, <2>2, <2>3, <2>4, <2>5, <2>6, <2>7, <2>8
<1>19. CASE ReceiveInvalid
  <2>1. TypeOK'
    BY <1>19, FailureKeeps DEF ReceiveInvalid
  <2>2. QueueTyped'
    BY <1>19, FailureKeeps DEF ReceiveInvalid
  <2>3. NotStarted'
    BY <1>19, FailureKeeps DEF ReceiveInvalid
  <2>4. ClosedIsEmpty'
    BY <1>19, FailureKeeps DEF ReceiveInvalid
  <2>5. DrainedHead'
    BY <1>19, FailureKeeps DEF ReceiveInvalid
  <2>6. KilledIsNotRunning'
    BY <1>19, FailureKeeps DEF ReceiveInvalid
  <2>7. NoChildLeft'
    BY <1>19, FailureKeeps DEF ReceiveInvalid
  <2>8. HookAfterAnswer'
    BY <1>19, FailureKeeps DEF ReceiveInvalid
  <2> QED BY <2>1, <2>2, <2>3, <2>4, <2>5, <2>6, <2>7, <2>8
<1>20. CASE ReceiveNotification
  BY <1>20 DEF ReceiveNotification
<1>21. CASE ReceiveRequest
  <2>1. TypeOK'
    BY <1>21, FailureKeeps DEF ReceiveRequest
  <2>2. QueueTyped'
    BY <1>21, FailureKeeps DEF ReceiveRequest
  <2>3. NotStarted'
    BY <1>21, FailureKeeps DEF ReceiveRequest
  <2>4. ClosedIsEmpty'
    BY <1>21, FailureKeeps DEF ReceiveRequest
  <2>5. DrainedHead'
    BY <1>21, FailureKeeps DEF ReceiveRequest
  <2>6. KilledIsNotRunning'
    BY <1>21, FailureKeeps DEF ReceiveRequest
  <2>7. NoChildLeft'
    BY <1>21, FailureKeeps DEF ReceiveRequest
  <2>8. HookAfterAnswer'
    BY <1>21, FailureKeeps DEF ReceiveRequest
  <2> QED BY <2>1, <2>2, <2>3, <2>4, <2>5, <2>6, <2>7, <2>8
<1>22. CASE \E s \in ServerRequests, how \in Handled : Answered(s, how)
  BY <1>22 DEF Answered, Handled, Policy, Answer
<1>23. CASE \E s \in ServerRequests : HandlerFails(s)
  <2>1. TypeOK'
    BY <1>23, FailureKeeps DEF HandlerFails
  <2>2. QueueTyped'
    BY <1>23, FailureKeeps DEF HandlerFails
  <2>3. NotStarted'
    BY <1>23, FailureKeeps DEF HandlerFails
  <2>4. ClosedIsEmpty'
    BY <1>23, FailureKeeps DEF HandlerFails
  <2>5. DrainedHead'
    BY <1>23, FailureKeeps DEF HandlerFails
  <2>6. KilledIsNotRunning'
    BY <1>23, FailureKeeps DEF HandlerFails
  <2>7. NoChildLeft'
    BY <1>23, FailureKeeps DEF HandlerFails
  <2>8. HookAfterAnswer'
    BY <1>23, FailureKeeps DEF HandlerFails
  <2> QED BY <2>1, <2>2, <2>3, <2>4, <2>5, <2>6, <2>7, <2>8
<1>24. CASE \E s \in ServerRequests, ok \in BOOLEAN : HookEnds(s, ok)
  <2>1. TypeOK'
    BY <1>24, FailureKeeps DEF HookEnds
  <2>2. QueueTyped'
    BY <1>24, FailureKeeps DEF HookEnds
  <2>3. NotStarted'
    BY <1>24, FailureKeeps DEF HookEnds
  <2>4. ClosedIsEmpty'
    BY <1>24, FailureKeeps DEF HookEnds
  <2>5. DrainedHead'
    BY <1>24, FailureKeeps DEF HookEnds
  <2>6. KilledIsNotRunning'
    BY <1>24, FailureKeeps DEF HookEnds
  <2>7. NoChildLeft'
    BY <1>24, FailureKeeps DEF HookEnds
  <2>8. HookAfterAnswer'
    BY <1>24, FailureKeeps DEF HookEnds
  <2> QED BY <2>1, <2>2, <2>3, <2>4, <2>5, <2>6, <2>7, <2>8
<1>25. CASE UNCHANGED vars
  BY <1>25 DEF vars
<1> QED
  BY <1>1, <1>2, <1>3, <1>4, <1>5, <1>6, <1>7, <1>8, <1>9, <1>10, <1>11, <1>12, <1>13,
     <1>14, <1>15, <1>16, <1>17, <1>18, <1>19, <1>20, <1>21, <1>22, <1>23, <1>24, <1>25 DEF Next

-----------------------------------------------------------------------------
(* Every step of the transport is a step of the ledger, or leaves it alone *)

\* A client that closes rejects what waits: the Close of the ledger.
LEMMA ClosingIsClose ==
    ASSUME IInv, closed', req' = Rejected(req)
    PROVE  Ledger!Close \/ UNCHANGED Ledger!vars
<1>1. CASE closed
  <2>1. Rejected(req) = req
    BY <1>1 DEF IInv, TypeOK, ClosedIsEmpty, Rejected
  <2> QED BY <1>1, <2>1 DEF Ledger!vars, IInv, TypeOK
<1>2. CASE ~closed
  BY <1>2 DEF Ledger!Close, Rejected
<1> QED BY <1>1, <1>2

\* A failure is the Close of the ledger, or changes nothing of it.
LEMMA FailureIsClose ==
    ASSUME IInv, Failed \/ ClientFails \/ UNCHANGED <<status, fatal, closed, req>>
    PROVE  Ledger!Close \/ UNCHANGED Ledger!vars
<1>1. CASE Failed
  BY <1>1, ClosingIsClose DEF Failed
<1>2. CASE UNCHANGED <<closed, req>>
  BY <1>2 DEF Ledger!vars
<1> QED BY <1>1, <1>2 DEF ClientFails

\* The ledger counts with the operator that the transport counts with.
LEMMA SameCardinality == ASSUME NEW S PROVE Ledger!Cardinality(S) = Cardinality(S)
  BY DEF Ledger!Cardinality, Cardinality

\* A step of the transport is one of the ledger, or leaves it alone.
LEMMA StepImplementsLedger == IInv /\ [Next]_vars => [Ledger!Next]_(Ledger!vars)
<1> SUFFICES ASSUME IInv, [Next]_vars PROVE Ledger!Next \/ UNCHANGED Ledger!vars
  OBVIOUS
<1>1. CASE Start
  <2>1. Initialize \in Requests /\ closed /\ ~closed' /\ \A q \in Requests : req[q] = "new"
    BY <1>1 DEF Start, IInv, NotStarted, Requests
  <2>2. Ledger!Open(Initialize)
    BY <1>1, <2>1 DEF Start, Ledger!Open
  <2> QED BY <2>1, <2>2 DEF Ledger!Next
<1>2. ASSUME NEW r \in Calls, Request(r) PROVE Ledger!Next
  <2>1. Pending(req) = Ledger!Waiting
    BY DEF Pending, Ledger!Waiting, IInv, TypeOK
  <2>2. ~closed /\ Cardinality(Ledger!Waiting) < Limit /\ UNCHANGED closed
    BY <1>2, <2>1 DEF Request, Room
  <2>3. Ledger!Ask(r)
    BY <1>2, <2>2, SameCardinality DEF Request, Ledger!Ask
  <2> QED BY <2>3 DEF Ledger!Next, Requests
<1>3. ASSUME NEW r \in Calls, RequestRefused(r) PROVE Ledger!Next
  BY <1>3 DEF RequestRefused, Ledger!Next, Ledger!Refuse, Requests
<1>4. ASSUME NEW r \in Requests, TimeOut(r) PROVE Ledger!Next
  <2>1. Ledger!Settle(r)
    BY <1>4 DEF TimeOut, Ledger!Settle, Ledger!Ends, IInv, ClosedIsEmpty
  <2> QED BY <2>1 DEF Ledger!Next
<1>5. CASE ReceiveResponse
  <2>1. CASE Frame.id \in Requests
    <3>1. Ledger!Settle(Frame.id)
      BY <1>5, <2>1 DEF ReceiveResponse, Ledger!Settle, Ledger!Ends, IInv, ClosedIsEmpty
    <3> QED BY <2>1, <3>1 DEF Ledger!Next
  <2>2. CASE Frame.id \notin Requests
    BY <1>5, <2>2 DEF ReceiveResponse, Ledger!vars, IInv, TypeOK
  <2> QED BY <2>1, <2>2
<1>6. CASE InitializeFails \/ Stop
  <2>1. CASE UNCHANGED <<closed, req>>
    BY <2>1 DEF Ledger!vars
  <2>2. CASE closed' /\ req' = Rejected(req)
    BY <2>2, ClosingIsClose DEF Ledger!Next
  <2> QED BY <1>6, <2>1, <2>2 DEF InitializeFails, Stop, BeginStop
<1>7. CASE \/ Exit \/ OutputFails \/ ReceiveInvalid \/ ReceiveRequest
           \/ \E s \in ServerRequests : HandlerFails(s)
           \/ \E s \in ServerRequests, ok \in BOOLEAN : HookEnds(s, ok)
  <2>1. Failed \/ ClientFails \/ UNCHANGED <<status, fatal, closed, req>>
    BY <1>7 DEF Exit, OutputFails, ReceiveInvalid, ReceiveRequest, HandlerFails, HookEnds
  <2> QED BY <2>1, FailureIsClose DEF Ledger!Next
<1>8. CASE \/ StartRefused \/ Initialized \/ WriteClosed \/ Drained \/ Data \/ End \/ ReceiveNotification
           \/ \E c \in Stoppers : TermTimesOut(c) \/ StopEnds(c)
           \/ \E full \in BOOLEAN : Write(full)
           \/ \E s \in ServerRequests, how \in Handled : Answered(s, how)
           \/ UNCHANGED vars
  BY <1>8 DEF StartRefused, Initialized, WriteClosed, Drained, Data, End,
     ReceiveNotification,
     TermTimesOut, StopEnds, Write, Answered, vars, Ledger!vars
<1> QED BY <1>1, <1>2, <1>3, <1>4, <1>5, <1>6, <1>7, <1>8 DEF Next

-----------------------------------------------------------------------------
\* The invariant holds of every behaviour of the transport.
THEOREM Invariance == Spec => []IInv
  BY InitIInv, StepIInv, PTL DEF Spec

\* The transport implements the ledger of requests: whatever the pipe and the child
\* do, a call that waits is settled once, by an open client, and at the latest by
\* what closes it, and no more than the limit wait (json-rpc-client.ts:129-169, 329-343).
THEOREM LedgerImplemented == Spec => ImplementsLedger
<1>1. Init => Ledger!Init
  BY DEF Init, Ledger!Init
<1> QED BY <1>1, Invariance, StepImplementsLedger, PTL DEF Spec, ImplementsLedger,
   Ledger!Spec

\* A process object that calls itself stopped has no child that was not sent
\* SIGKILL, whoever stops it and how often (codex-process.ts:158-174).
THEOREM ChildGone == Spec => []NoChildLeft
  BY Invariance, PTL DEF IInv

\* The interruption of a turn that an answer carries begins when the answer is in
\* the pipe, however many answers queue before it (json-rpc-client.ts:269-301).
THEOREM AnswerBeforeHook == Spec => []HookAfterAnswer
  BY Invariance, PTL DEF IInv
=============================================================================
