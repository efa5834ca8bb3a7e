---------------------------- MODULE BankConnection ----------------------------
(***************************************************************************)
(* The preparation of a bank connection: the page, open in several tabs    *)
(* (bank-connection.tsx), and the service (services/banking.py).  The page *)
(* shows the youngest connection and edits it, or makes the first one;     *)
(* answers may be lost and requests arrive late.  A change reads its row   *)
(* with SELECT ... FOR UPDATE in one step and commits in a later one;      *)
(* RowLocks says whether the row stays locked between the two, as in       *)
(* Receivables.                                                            *)
(***************************************************************************)
EXTENDS Naturals, FiniteSets, SequencesExt

CONSTANTS
    Tabs,            \* tabs with the page
    Codes,           \* bank codes the owner enters
    Setups,          \* what the other fields may hold
    MaxBankChanges,  \* bound: connections made and changed
    MaxBankCalls,    \* bound: requests of the tabs at a time
    RowLocks,        \* does FOR UPDATE lock the row it reads?
    None

VARIABLES
    connections,  \* the API's rows, oldest first: version, code, setup
    form,         \* per tab: what it shows and whether it waits
    bankCalls     \* requests that are not over

vars == <<connections, form, bankCalls>>

Fields == [code : Codes, setup : Setups]
Saving == {"create", "update"}
Tab == [seen |-> None, loaded |-> FALSE, failed |-> FALSE, saving |-> FALSE]

\* A request of a tab: with the row and version it stands on, and what that showed;
\* in the API, with the row it has read.
Request(tab, kind, body) ==
    [tab |-> tab, kind |-> kind, body |-> body, stage |-> "sent", read |-> None, answer |-> None]

Init ==
    /\ connections = <<>>
    /\ form = [t \in Tabs |-> Tab]
    /\ bankCalls = {Request(t, "load", None) : t \in Tabs}

-----------------------------------------------------------------------------
(* The service *)

\* get_readiness: the youngest row.
Readiness ==
    IF connections = <<>> THEN None
    ELSE [id |-> Len(connections), row |-> Last(connections)]

Changes == FoldSeq(LAMBDA row, n : row.version + n, 0, connections)

Taken(code, id) == \E i \in DOMAIN connections : i # id /\ connections[i].code = code

\* Mutation of Current: the version is not compared.
Current_Any(body) == TRUE
Current(body) == connections[body.id].version = body.expected

\* The changes: the fields the request names with another value than the row read has.
Changed(row, body) == {f \in DOMAIN body.fields : body.fields[f] # row[f]}

\* Only they are written, with the version after the one read.
Updated(row, read, body) ==
    [version |-> read.version + 1,
     code |-> IF "code" \in Changed(read, body) THEN body.fields.code ELSE row.code,
     setup |-> IF "setup" \in Changed(read, body) THEN body.fields.setup ELSE row.setup]

Answered(c, answer) ==
    bankCalls' = (bankCalls \ {c}) \cup
                 (IF c.stage = "sent"
                  THEN {[c EXCEPT !.stage = "answered", !.read = None, !.answer = answer]} ELSE {})

\* A bank has one connection; a second is refused by the unique constraint.
CreateConnection(c) ==
    /\ c.kind = "create"
    /\ IF Taken(c.body.fields.code, 0)
         THEN Answered(c, [ok |-> FALSE]) /\ UNCHANGED connections
         ELSE /\ Changes < MaxBankChanges
              /\ connections' = Append(connections,
                    [version |-> 1, code |-> c.body.fields.code, setup |-> c.body.fields.setup])
              /\ Answered(c, [ok |-> TRUE])

\* The row is locked from its SELECT to the end of the transaction.
RowFree(c) == RowLocks => \A d \in bankCalls : d.read # None => d.body.id # c.body.id

\* update_connection up to its commit: a stale change, or none, is refused.
ReadConnection(c) ==
    /\ c.kind = "update" /\ c.read = None /\ RowFree(c)
    /\ LET row == connections[c.body.id] IN
       IF Current(c.body) /\ Changed(row, c.body) # {}
         THEN bankCalls' = (bankCalls \ {c}) \cup {[c EXCEPT !.read = row]}
         ELSE Answered(c, [ok |-> FALSE])
    /\ UNCHANGED connections

\* The commit, or the rollback on the unique constraint.
UpdateConnection(c) ==
    /\ c.read # None
    /\ LET id == c.body.id
           row == Updated(connections[id], c.read, c.body) IN
       IF Taken(row.code, id)
         THEN Answered(c, [ok |-> FALSE]) /\ UNCHANGED connections
         ELSE /\ Changes < MaxBankChanges
              /\ connections' = [connections EXCEPT ![id] = row]
              /\ Answered(c, [ok |-> TRUE])

Load(c) ==
    /\ c.kind \in {"load", "reload"}
    /\ Answered(c, [readiness |-> Readiness])
    /\ UNCHANGED connections

Handle ==
    \E c \in bankCalls :
       /\ c.stage # "answered"
       /\ CreateConnection(c) \/ ReadConnection(c) \/ UpdateConnection(c) \/ Load(c)
       /\ UNCHANGED form

-----------------------------------------------------------------------------
(* The page *)

\* What the form differs in from the row it was made from.
Payload(seen, values) ==
    LET names == {f \in {"code", "setup"} : seen.row[f] # values[f]} IN
    [id |-> seen.id, expected |-> seen.row.version, fields |-> [f \in names |-> values[f]], over |-> seen.row]

\* The form is there once readiness was loaded, and its button while nothing is saved.
FormEnabled(t) == form[t].loaded /\ ~form[t].failed /\ ~form[t].saving

\* A form without a change ends with an error and sends nothing.
SaveConnection(t) ==
    /\ FormEnabled(t)
    /\ Cardinality(bankCalls) < MaxBankCalls
    /\ \E values \in Fields :
          LET call == IF form[t].seen = None
                        THEN Request(t, "create", [fields |-> values])
                        ELSE Request(t, "update", Payload(form[t].seen, values)) IN
          /\ DOMAIN call.body.fields # {}
          /\ bankCalls' = bankCalls \cup {call}
    /\ form' = [form EXCEPT ![t].saving = TRUE]
    /\ UNCHANGED connections

\* A save is followed by a load of its own.
Take(c) ==
    /\ c.stage = "answered"
    /\ \/ /\ c.kind \in {"load", "reload"}
          /\ form' = [form EXCEPT ![c.tab].seen = c.answer.readiness, ![c.tab].loaded = TRUE,
                                  ![c.tab].failed = FALSE, ![c.tab].saving = @ /\ c.kind = "load"]
          /\ bankCalls' = bankCalls \ {c}
       \/ /\ c.kind \in Saving /\ c.answer.ok
          /\ bankCalls' = (bankCalls \ {c}) \cup {Request(c.tab, "reload", None)}
          /\ UNCHANGED form
       \/ /\ c.kind \in Saving /\ ~c.answer.ok
          /\ form' = [form EXCEPT ![c.tab].saving = FALSE]
          /\ bankCalls' = bankCalls \ {c}
    /\ UNCHANGED connections

\* No answer, or the proxy's 503: what was saved may be there all the same, while the
\* form still stands on what it showed.
Fail(c) ==
    /\ c.stage # "unheard"
    /\ form' = [form EXCEPT ![c.tab].saving = FALSE, ![c.tab].failed = @ \/ c.kind = "load"]
    /\ bankCalls' = (bankCalls \ {c}) \cup
          (IF c.stage = "sent" /\ c.kind \in Saving THEN {[c EXCEPT !.stage = "unheard"]} ELSE {})
    /\ UNCHANGED connections

Drop(c) ==
    /\ c.stage = "unheard"
    /\ bankCalls' = bankCalls \ {c}
    /\ UNCHANGED <<connections, form>>

\* The tab is loaded again, the only way on after an error or an outdated form.
Reopen(t) ==
    /\ LET late == {[c EXCEPT !.stage = "unheard"] :
                      c \in {d \in bankCalls : d.tab = t /\ d.kind \in Saving /\ d.stage # "answered"}} IN
          bankCalls' = {c \in bankCalls : c.tab # t} \cup late \cup {Request(t, "load", None)}
    /\ Cardinality(bankCalls') <= MaxBankCalls
    /\ form' = [form EXCEPT ![t] = Tab]
    /\ UNCHANGED connections

Next ==
    \/ Handle
    \/ \E c \in bankCalls : Take(c) \/ Fail(c) \/ Drop(c)
    \/ \E t \in Tabs : SaveConnection(t) \/ Reopen(t)

Spec == Init /\ [][Next]_vars

-----------------------------------------------------------------------------
\* A field of a connection is replaced only by a request of a tab that had read the
\* value it replaces, whichever tab and however late, while the API's SELECT locks the
\* row it reads (banking.py:87-147).  (Without, and what the form shows
\* meanwhile: README, section 4.)
NoUpdateLost ==
    \A i \in DOMAIN connections : connections'[i] # connections[i] =>
       \E c \in bankCalls \ bankCalls' :
          /\ c.kind = "update" /\ c.body.id = i
          /\ \A f \in {"code", "setup"} :
                connections'[i][f] # connections[i][f] => c.body.over[f] = connections[i][f]
=============================================================================
