# Chelaro: a verification project

Chelaro is a local personal-finance desktop application: an Electron shell starts a Python API (`apps/api`), a
web server (`apps/web`) and an *agent host* (`apps/agent-host`, Node) that talks to a Codex child process on
the owner's behalf. This directory holds TLA+ modules of the parts whose correctness depends on the order of
things, the TLC configurations that check them, and TLAPS proofs of the properties that matter most. Source
paths below are relative to `src/`.

## 1. Inventory

| Part | State it keeps | Operations | What is hard | Modules |
|---|---|---|---|---|
| session reducer, `agent-host/src/session-manager.ts` | host, app server, auth, consent, session, turn, issued identifiers | 18 event types of `reduceFinanceChatState` | events of five sources in any order; identifiers used twice or in two roles | `FinanceSession`, `SessionTransportProofs` |
| consent journal, `consent-journal.ts` | append-only file, its hash chain | `load`, `grant`, `beginRevocation`, `completeRevocation`, `assertGranted` | death and power loss between write and sync, a second host, a full file, contract upgrades | `ConsentJournal`, `ConsentToolProofs` |
| tool dispatcher, `finance-tool-dispatcher.ts`, with its contract and the API client's exchange | session, turn, abort signal, call ledger, budgets, the request under way | `startSession` … `abandonSession`, `dispatch` | everything may change while the API is awaited; repeated calls; a body that breaks off | `ToolDispatcher`, `ConsentToolProofs` |
| agent service, `finance-agent-service.ts`, `finance-auth-controller.ts` | the chat state, process, dispatcher, projector, conversation, the waits in flight | the owner's commands, notifications, tool calls, fatal errors, `stop()` | every command is cut at its awaits, nothing serialises commands (`finance-gateway.ts:108-187`) | `AgentService`, `AgentServiceProofs` |
| set-up of provider threads, the same file with `finance-thread-contract.ts` | model catalog, picker, bindings, threads at the provider, usage | `refreshModelCatalog`, `createSession`'s requests, `closeSession`, `deleteConversation`, usage reports | four requests in a row, each refused, substituted or carried out unheard | `ThreadSetup`, `DesktopProofs` |
| JSON-RPC client, framer, provider process, request policy | pending requests, write queue, frames, the child | `request`, incoming frames, answers with interruptions, `start`, `stop`, exit | time-outs and late answers, back pressure, a child that ignores everything | `CodexTransport`, `RequestLedger`, `SessionTransportProofs` |
| receivables and proposals, `services/personal_finance.py` | receivables, payments, reversals, proposals, events | create, update, pay, reverse, propose, approve, reject | transactions that interleave at each statement; row locks on PostgreSQL only | `Receivables`, `ReceivablesProofs` |
| conversations, `services/assistant_conversations.py` | conversation, turns, messages, provider thread | create, bind, reserve, complete, fail, rename, archive, delete | late ends of turns, numbering, deletion in between | `ConversationHistory`, `ConversationHistoryProofs` |
| gateway and stream, `finance-gateway.ts`, `finance-chat-stream.ts` | replay buffer, subscribers, event ids; messages, sequence numbers | publish, subscribe; delta, complete, finish, abort | gaps, cursors older than the buffer, slow subscribers | `AssistantStream`, `AssistantStreamProofs` |
| assistant's page, `finance-assistant.tsx` and its panels | open conversation, tasks, draft, message to repeat, list | submit, repeat, select, new, archive, delete, open and close a session | a click while an earlier command awaits its answer | `AssistantPage`, `WebPageProofs` |
| proposals beside the chat, `use-assistant-proposals.ts`, `proposal-card.tsx` | pages of cards, the load under way | poll, load older, decide | a load that began before a decision ends after it | `ProposalCards`, `WebPageProofs` |
| overview, `personal-dashboard.tsx`, `receivable-drawer.tsx`, `finance-proposals-drawer.tsx` | dashboard, drawers, forms, requests | load, pay, edit, reverse, enter, decide | an answer is lost after the API booked | `FinanceDashboard`, `WebPageProofs` |
| invoices, `invoice-workbook.tsx`, `services/workbooks.py` | table, drafts, change sets, proposals | load, type, save, propose, decide | drafts over old values, late loads, overlapping changes of a row | `Workbook`, `WebPageProofs` |
| documents, `document-inbox.tsx`, `services/documents.py`, `document_storage.py` | quarantine, store, rows, list | upload in batches, list | crash between link and commit, equal uploads | `DocumentInbox`, `WebPageProofs` |
| bank connection, `bank-connection.tsx`, `services/banking.py` | versioned rows; forms of two tabs | create, update, load | a save over what the other tab changed | `BankConnection`, `WebPageProofs` |
| desktop runtime and host bootstrap, `desktop/src/main.mjs`, `runtime.mjs`, `agent-host/src/main.ts` | children, credentials, plan, the host's stages | start, fail, quit, configure, shut down | a quit in the middle of the start, children that fail or ignore signals | `DesktopRuntime`, `DesktopProofs` |
| desktop updates, `update-manager.mjs`, `github-release-client.mjs`, `desktop-update-button.tsx` | state, download, installers, the page's copy | check, download, verify, open, retry | checks during downloads, openings and dialogs | `DesktopUpdate`, `DesktopProofs` |
| API platform, `database.py`, `auth.py`, `middleware.py`, … | session per request | commit, rollback | locks that SQLite ignores | `RowLocks` of `Receivables`, `ConversationHistory`, `Workbook`, `BankConnection` |
| contracts and validators | none | predicates over message shapes | nothing interleaves | in the modules that take their verdict |
| `packages/agent-storage`, generated protocol types, scripts, docker | none at run time | | | not modelled |

How they interact: the gateway calls the service's methods and gets its events by callback. The service keeps
the reducer's state, calls the journal (synchronously), the dispatcher (synchronously, except `dispatch`), the
child through the JSON-RPC client, and the API through HTTP. The child's notifications and requests come back
as callbacks. The dispatcher calls the journal and the API. All of the host is one event loop: what is between
two awaits is atomic, and every model of host code takes exactly those pieces as its actions. The API runs
requests concurrently, each in one database transaction; where requests for one row can overlap, the modules
(`Receivables`, `ConversationHistory`, `Workbook`, `BankConnection`) take each read under a lock, and the commit,
as an action. The web server only passes requests on: every page's
request is `sent`, then `answered` or `unheard`, and the page goes on when the answer arrives. The desktop
application starts all of them and hands out their addresses and tokens.

Per part, what makes it correct: an ended turn or session stays ended and a turn needs a granted consent
(reducer); an acknowledged revocation survives everything (journal); budgets hold and no answer with data
leaves without consent (dispatcher); a completed revocation leaves nothing running and always comes about, and
so does a shutdown (service); the thread a session runs on has the configuration that is shown and stored
(set-up); a request ends once and always (transport); outstanding amount, payments and events agree
(receivables); the transcript has no gaps and no turn ends twice (conversations); the page shows what the
provider sent, calls complete only what is stored, and catches up after every lost connection (stream); a
prompt reaches the conversation it was typed in (page); what was decided, booked, removed or saved is not
decided, booked, shown or overwritten again by a late answer (pages); a quit stops every child it found (runtime);
the installer opened is the one named (updates). `PROJECT.json` lists the hazards, each with its line.

## 2. The modules

`FinanceSession` translates `reduceFinanceChatState` event by event; an action is enabled where the reducer
does not throw. A session and a turn that were never there are records with status `none`. Identifiers are
model values; `issued` is the ledger with its roles, and `MaxIssued` its limit (256 in the code). Consent
versions are model values, since the reducer only compares them.

`ConsentJournal` has one operation per host, with the steps of `#append` as actions: read and decide, open and
recheck, write, fsync. `file` is what the hosts see, `synced` the prefix that survives a loss of power. A
record is an action with a sequence number and whether it belongs to the older contract; a chain is valid when
its sequence numbers and actions follow each other, which stands for the hash chain. `owner` records what the
owner was told last. A `PowerLoss` keeps the synced prefix and any number of later records.

`ToolDispatcher` keeps session, turn, abort, ledger, active call and usage. `Dispatch` is the part of
`dispatch()` up to the API call, `Receive…` the part after it; the turn, the session and the consent may
change in between. The API client's exchange is part of the wait: status, declared size, body and the failures
of each decide what the dispatcher is told. The three byte and call limits are small constants that play the
same part as 12/1/256 KiB and 60/5/1 MiB.

`AgentService` has one `ops` record per caller (a caller is one HTTP request that the gateway passes on): the
kind of the command, the step it awaits and what it remembered before the await. Actions that answer a wait
have the rest of the handler up to the next await. `Urgent` holds the callers whose promise is already
settled: their continuation comes before any new event, as microtasks do. Sessions and turns are numbered; the
state of the dispatcher is reduced to whose turn it serves, whether it is aborted and whether a call is in
flight. The rows of the turns in the API are part of the state, since the order of saving, showing and failing
is the point. Provider notifications are enabled when the provider could send them: they are external choices.
`stop()` begins when no command is in flight, because `gateway.stop()` (`server.close`) waits for them; it
runs with the credential already cleared (`main.ts:26`), so its calls to the API fail at once. A projector
that was aborted is modelled as none. The journal on disk and the consent in the chat state are two variables.
A handler writes the one and then tells the other, but `append` may throw with its record already in the file
(`consent-journal.ts:225-232`) and the reducer may refuse its event; the handler then ends in between, and the
two differ. `Unnoticed` is the state that matters: a revocation is recorded and the chat state still consents.
A record that is torn makes the journal unreadable, which is `ConsentJournal`'s subject.

`ThreadSetup` is the other half of the same file: what thread a session gets. `createSession`'s requests are
one step each, taken when the answer is read; a failure may hide that the provider carried the request out.
The model catalog, the picker's selection (the gateway requires one), the binding stored with a conversation
and the thread's actual configuration are records over `Selections`; `Unreviewed` are models that Codex may
offer or run and an earlier version of the program may have bound, but this one does not know. Turns, consent
and authorisation are left to `AgentService`. Usage and compaction are reports that name their thread.

`CodexTransport` is the pipe to the child: the client's pending table (`Limit`), the promise chain of writes
with a write that waits for `drain`, the framer's frames of one data event, the answers the host owes to
requests of the child with the hook that runs after the answer is written, and the child's life from `spawn`
to `close` with the two timers of `stop`. `Policy` is the table of `server-request-policy.ts`. `RequestLedger`
is what a caller may rely on: a connection that is open until it is closed, requests that are pending and then
settle once, and none pending once it is closed. `CodexTransport!Ledger` is `INSTANCE RequestLedger WITH open
<- ~closed, call <- req`; `ImplementsLedger` is its specification as a property.

`Receivables` and `ConversationHistory` have one transaction per client. `Begin…` chooses the request; a read
(with the lock, where `RowLocks` says that the database has them) takes a snapshot into the transaction; a
commit writes it and its events, or the request is refused. `RowLocks = FALSE` is the packaged application:
SQLite ignores `FOR UPDATE`, and `database.py` does not begin transactions as writers.

`AssistantStream` follows an answer from the projector over the gateway and the web server's proxy, which
hands the cursor on, to the page. A chunk is the triple of turn, message and sequence number, and a digest is
the text it was made from, so that a text is right when its triples are. `Publish` is the gateway's
`publish()`: it numbers, keeps what `Kept` leaves of the buffer, and writes to the page, where a write that
has to wait cuts the connection after any number of frames. `wire` holds what is written and not read;
`Disconnect` loses it and the browser subscribes again with its cursor. `page` is the React state: snapshot,
open streams, shown messages. The service around it is reduced to what the page can see of a turn
(`AgentService` has the rest), an interrupting turn to one that fails later, and the check of the digest, a
promise that settles by itself, to the step that starts it. Two history variables name the cases a property
leaves out: `skipped` (a replay from cursor 0 begins behind a gap, `finance-gateway.ts:204`) and `overtaken`
(the last snapshot came with an answer and not with an event).

The pages and the desktop application are one module each, and `Application` puts them side by side:
`Workbook`, `FinanceDashboard`, `DocumentInbox`, `BankConnection`, `ProposalCards`, `AssistantPage`,
`ThreadSetup`, `DesktopUpdate`, `DesktopRuntime`. A page module has the page's React state, the rows of the
API that the page shows, and requests that are sent, carried out, and answered, refused or lost on the way
back; the continuation in the page is the step that reads the answer. The API carries a request of `Workbook` or
`BankConnection` out as the code does, each `SELECT … FOR UPDATE` a step and the commit another, and `RowLocks`
says whether what was read stays locked in between. The requests of the other pages are one step: their
transactions are `Receivables`' subject (overview, proposal cards) or meet in a unique constraint (documents).
Guards of a click are the `disabled` conditions of its control. In particular:

- `Workbook` types drafts over shown rows and saves them with the version of the row shown at that moment; a
  proposal of the assistant and the owner's decision change the same rows.
- `FinanceDashboard` sends each form with the version of the detail under it, repeats it after an error, and
  has the assistant pay the same receivable; `ledger.booked` counts what the API booked per form.
- `DocumentInbox` has file system and database as two states that a crash leaves at any point between them.
- `BankConnection` has two tabs that save over expected versions; only the fields that differ from the row as
  it was read are written, with the version after the one that was read.
- `ProposalCards` has loads that begin before a decision and end after it, and pages of `PageSize`.
- `AssistantPage` has the commands of the page with their `isWorking` and `historyLoading` flags, and the host
  reduced to what its routes admit. `astray` marks the situations in which the page can send a prompt to another
  conversation than the one shown: a click while a prompt, a session or a selection is under way, which the page
  admits although nothing is finished (section 4). `PromptWhereTyped` speaks of all others.
- `DesktopRuntime` has the children in the order of their start (packaged or from source), the host's own
  stages in `main.ts`, and a quit at any step. A running API's tokens are those of the environment where
  usable, and a packaged application's own environment has none of the variables: both are assumptions about
  the machine.
- `DesktopUpdate` has the main process, the file system and the page's copy of the state, with posts in the
  order they were sent. A check may begin whenever the state allows one, also while the system is opening an
  installer, for which nothing sets a time: such an opening is `overtaken`, and when it then fails, its error
  names the release of the check; the manager is `misled` from there on (section 4). Checks do not overlap each
  other (they are 6 h apart), and one download is under way at a time.

`Application` gives the parts their own variables, since the program does: pages are unmounted when another
one opens, the assistant's panel stays behind but reads other tables, and the desktop application shares
nothing with a page but its start. `Application` therefore runs one part at a time (`Init` chooses it, the
variables of the others are `None`): it is the sum of the parts and not their product, which would show
nothing more. The values of symmetric sets are shared between parts for the same reason.

The `MC…` modules only extend a module and name its symmetry sets; the `.cfg` files give values to constants.

## 3. Runs and what they show

| Run | Configuration | Shows |
|---|---|---|
| `finance_session` | 5 identifiers, 4 may be issued, 2 consent versions | every order of events that the reducer accepts keeps its four invariants and never revives an ended turn or session. Four issued names are enough for a session, a turn, their two provider names, a full ledger and a name met again |
| `consent_journal` | 2 hosts, room for 6 records, 8 written in all | two full grant/revoke cycles, a crash or loss of power at every step, a second host racing at every step, a full file: a revocation that was acknowledged holds, every file left behind can be read and has room to revoke, a grant comes only from a call to grant |
| `tool_dispatcher` | 3 calls, limits of one or two, 2 sessions, 2 turns | limits are met in a turn and in a session, a call is repeated with the same and with other contents, the API answers after abort, abandonment, a new turn |
| `tool_retry` (violated) | 2 calls, 1 session, 1 turn | finding 2 |
| `receivables` | 2 clients, 1 receivable, 2 payments, 2 proposals, 1 key, versions to 3 | every interleaving of two requests over one receivable, where all conflicts are; amounts 1 of 2 give open, partial and paid states and an overpayment that must be refused |
| `receivables_sqlite` (violated) | the same without row locks | finding 1 |
| `conversation_history` | 2 clients, 2 conversations, 2 turns, 2 threads, versions to 5 | reserve against complete, fail, delete, and two conversations competing for one provider thread |
| `agent_service` | 2 callers, 2 sessions, 2 turns | every pair of commands at every await, with notifications, a tool call, logout, crash, time-outs, consent records that are written and reported as failed, and a shutdown. Two of each is what a command needs to meet its own session's or turn's successor |
| `agent_revocation` | 2 callers, 1 session, 1 turn, with fairness | a begun revocation completes, or ends with no process left where its last record cannot be written; a shutdown completes |
| `assistant_stream` | 2 turns of one message of up to 3 chunks, a buffer of 2 events, 7 events, 1 other command or change, 1 reload | every way to cut, replay and reset the event stream around an answer. Seven events are a whole turn with its message, or a failed turn and the next one's first chunk; two events of buffer make a page that misses three lose a chunk; the reload comes anywhere |
| `codex_transport` | initialise and 2 calls against a table of one, 1 request of the child, 2 frames per data event, with fairness | the transport implements `RequestLedger`, everything begun ends, no child is left, hooks run after their answers. With a table of one the second call meets a full table, and one that just became free; two frames show what a frame does to its successor |
| `application` | see below | each page and the desktop application against late, lost and repeated requests |

The `application` run's bounds, part by part. `Workbook`: 2 rows, 2 typed texts and 1 suggested, 2 change
sets, 2 requests at a time, so that a save, a load and a decision overlap. `FinanceDashboard`: 1 form of the
owner and the assistant's payment of an amount of 2, versions to 3, 1 entry. `DocumentInbox`: 3 files of which
one is refused, 2 uploads. `BankConnection`: 2 tabs, 2 bank codes, 3 setups, 3 changes; with two setups a
stale save could never write a value that differs. Rows read for a change are locked (`RowLocks`) in `Workbook`
and `BankConnection`. `ProposalCards`: 2 proposals on pages of one, 1 decision.
`AssistantPage`: 2 conversations, 2 tasks, 4 clicks, 1 request that fails. `ThreadSetup`: 2 selections and 1
unreviewed, 3 openings, 2 mishaps: one opening that fails, one that is repeated and one after it.
`DesktopUpdate`: releases 1 to 3, 2 copies of installers, 2 checks, 2 posts under way; the second check is the one
that overtakes an opening or finds a newer release. `DesktopRuntime` has no bound: a start ends by itself.

Deadlock is off where bounds or identifiers run out or where the program may end; the other runs check it.

Several small invariants are one named conjunction where they say one thing about one piece of state, and a
module's type invariant is part of its structural one: `BooksAgree` (outstanding amount, status, payments,
events and versions), `TranscriptMatchesTurns` (numbering, turns and messages, nothing left of a deleted
conversation), `ShownIsWritten` (what is shown is a beginning of what was written, what is complete is
stored), `OneCallOneAnswer` (one request to the API per call, one answer per name), `ReadableWithRoom` (every
file can be read by the host that wrote it and has room to revoke), `ProviderAsTold` (process, app server and
state shown agree; revoked and stopped are quiet), `EndingsComplete` (revocation and shutdown),
`ChildrenServeAndStop` (a web server that knows the gateway finds it with tokens it accepts; a quit stops
every child it found).

Fairness. `FairSpec` of `AgentService`: every answer of a command's step and the end of the process stop are
strongly fair. The code bounds each of them by a timer: 15 s for a JSON-RPC request
(`json-rpc-client.ts:145`), 10 s for an API call (`finance-api-client.ts`), 5 s and 1 s for SIGTERM and
SIGKILL (`codex-process.ts:158-174`). It is strong because a crash can take the provider's answer away and put
a rejection in its place. `FairSpec` of `CodexTransport`: the timers themselves (`TimeOut`, `TermTimesOut`,
`StopEnds`) are strongly fair, because Node's event loop comes to its timers whatever input arrives, and
another frame may disable a timer's step for a moment; the continuations of settled promises, writes and
received frames are weakly fair. Nothing is assumed of the owner, of the child (it may never answer, read or
exit on SIGTERM), of its notifications, or of crashes. The remaining properties are safety properties and use
no fairness.

Every property has a mutant in `PROJECT.json`: a definition replaced by a plausible slip of the code
(`…_Suffix` operators in the modules, used nowhere else) under which the same run finds the property violated.

## 4. Where code and documents disagree

1. `receivables_sqlite`: ADR 0005 and ARCHITECTURE.md promise that outstanding amount and payment history
   agree and that stale changes are refused; on SQLite two interleaved requests lose an update
   (`apps/api/src/finance_os_api/services/personal_finance.py:1099`).
2. `tool_retry`: ADR 0010 promises a check of the grant before every tool response; the answer to a repeated
   call comes from the ledger unchecked (`apps/agent-host/src/finance-tool-dispatcher.ts:152`).

### Met while modelling

These have no run of their own. The modules do what the code does; where a property has to leave a case out,
it says so. Paths are those of section 1.

Agent host:

- `deleteConversation` (`finance-agent-service.ts:361-375`) passes the whole binding as the `threadId` of
  `thread/delete`, so Codex refuses it and a bound conversation cannot be deleted (ADR 0013:42; the test at
  `finance-agent-service.test.ts:309-310` looks at the method only). Deleting a conversation whose session is
  being opened is not refused, because `#conversationId` is set at the end of the opening.
- A conversation bound to a model that this version does not know can neither be opened
  (`finance-api-client.ts:115-121`) nor deleted, and each attempt leaves a lost session.
- A starting or lost session cannot be closed (`finance-agent-service.ts:356`, `closeSession` of the
  dispatcher throws without a session), though ADR 0013 wants a lost context to leave the owner a choice: no
  session can be opened until the host restarts. After a revocation with a lost session the next grant's
  refresh is refused too. A close during `turn/start`, and a `thread/unsubscribe` that was carried out
  unheard, leave a session that cannot be closed either.
- A refused `createSession` still resets the usage and the last compaction of the session that runs
  (`finance-agent-service.ts:275-277`); two compactions in one turn count once (`:611-615`).
- Every consent record can be written and reported as failed (`consent-journal.ts:225-232`), and journal and
  chat state then differ until a later command or a restart. A revocation: (pending, granted), the `Unnoticed`
  state. The revocation is reported as failed and nothing is interrupted, and a `createSession` or `startTurn`
  that awaits an answer goes on to send (`finance-agent-service.ts:283-299`, `:386-396`), since what follows
  the await looks at the chat state only; ADR 0010:61-62 promises a check of the current grant before thread
  creation and every turn. `TransfersUnderConsent` excepts this case only, and without the exception TLC finds
  it violated in seven states. Repeating the revocation goes on where it stopped. A grant: (granted, revoked),
  the provider can be started and no session can be opened; a revocation then records its beginning and is
  refused by the reducer, which leaves (pending, revoked), where neither a grant nor a revocation helps until
  the host restarts. The end of a revocation: (revoked, revoke_pending), the next grant is refused by the
  reducer and leaves (granted, revoke_pending), from where a revocation works. None of them leaves a session
  alive, the first apart (`LiveUnderConsent`).
- A repeated revocation answers from a record that an earlier process wrote and did not sync
  (`consent-journal.ts:169`), against the durable `revoke_pending` of ADR 0010. `RevocationHolds` speaks of
  the call that wrote the record.
- `main.ts:26` clears the API credential before `service.stop()`, so the failure of an active turn never
  reaches the API and its row stays reserved.
- MCP servers are disabled by the names that `config/read` gave; one configured between that answer and
  `thread/start` is not among them (`finance-agent-service.ts:283-300`).
- A time-out while a body is read rejects with the raw abort error instead of a classified one
  (`readBounded`), which the dispatcher takes for a missing consent and ends the turn; a reservation that
  timed out at the client may still be committed.
- Transport: an answer to `initialize` followed by a bad frame in one chunk lets `start()` overwrite `crashed`
  by `ready` (`codex-process.ts:129-141`); frames behind a fatal one in the same chunk are still delivered
  (`jsonl-framer.ts:34-50`); after `close()` nobody listens to errors of stdin (`json-rpc-client.ts:345-350`);
  a write that waits for `drain` never settles when the pipe closes without an error (`:321-323`); a deferred
  answer that is too large is replaced by an error and its hook does not run; after a protocol failure the
  child runs on until it is revoked or stopped.

Assistant's page:

- `closeSession` inside `createSession` ends `isWorking` (`finance-assistant.tsx:589-599`): while a new
  conversation is created every control is enabled, and a prompt typed then is shown under one conversation
  and sent to another (`astray`). A session that opens later than the proxy's 20 s becomes ready while another
  conversation is loaded.
- `historyLoading` is one flag for several loads, and whichever ends first clears it (`finance-assistant.tsx:439`,
  `:521`): "older messages" of a stored conversation, which does not wait for `isWorking`, ends it under the list
  of another tab, and that list then ends it under a selection. A prompt typed then gets a conversation of its
  own, the selection arrives and shows another one, and the prompt can be repeated there (`astray` again).
  It takes nine clicks, more than the run admits: the attempt to prove `PromptWhereTyped` found it.
- The page offers to send a question again (`finance-assistant.tsx:679-690`) also when the API stored the
  answer and only its confirmation was lost; a turn accepted after 20 s puts the prompt back into the draft
  while it is answered.
- Older messages loaded during an archive or a deletion are put before the empty new conversation.
- The event source stays closed when the proxy answers with an error (`finance-assistant.tsx:245-262`).
- A choice of model is undone by any change of state while no session is open (`:120-124`); a selection that
  the catalog lacks is shown as its first entry, and the opening is refused until another one is picked
  (`chat-panel.tsx:344-353`).

Other pages and the API:

- Invoices and bank connection on SQLite: the version is compared after a `SELECT … FOR UPDATE` that locks
  nothing there, and the commit comes awaits later (`workbooks.py:108-138`, `:210-271`, `:288-315`;
  `banking.py:95-138`), so that two changes of one version are both committed and one replaces the other unseen.
  ARCHITECTURE.md:117, ADR 0003:17 and REST_ACCESS.md:126 promise that the second is refused. It is the case of
  finding 1; with `RowLocks = FALSE` the `application` run finds `ReplacedInSight` violated in 16 states.
- Invoices: what is typed while a save is under way is discarded (`invoice-workbook.tsx:149`); a draft over an
  old value is saved with the version of the row shown at the time of saving (`:121`); an older load may
  arrive last.
- Overview: the entry form has no idempotency key, so a lost answer books twice; the proposals drawer keeps
  one `decidingId`, so deciding a second proposal re-enables the first one's buttons
  (`finance-proposals-drawer.tsx:59-82`); amounts that do not parse throw outside the `try`
  (`receivable-drawer.tsx:97-109`).
- Documents: the first list, answered before an upload and arriving after it, replaces the list; a failure in
  a batch leaves stored files unlisted; a crash leaves a quarantined or a linked file without a row.
- Bank connection: a creation whose answer was lost, repeated with another bank code, makes a second
  connection; a save whose reload failed shows an error and refuses the repetition as stale.
- Proposal cards: a poll every 2 s outdates slower loads and drops an older page under way.

Desktop:

- `stopAll` takes a snapshot and misses children that the start adds while it waits (`runtime.mjs:188-203`); a
  second reason to end makes the host exit before `service.stop()` is done (`main.ts:32-34`); a shutdown
  during the configuration stops nothing (`main.ts:68-70`).
- `openInstaller` waits for the system without a limit, and a check in between replaces the release
  (`update-manager.mjs:85-88`, `:99-103`). If the opening fails then, the page names the new version and offers to
  open again what is the old installer; and if it fails during the next download, a further check can replace the
  release under that download. `misled` marks both, and `InstallerAsShown` excepts the version there, but not
  that the installer is whole, marked and later than the one that runs. The dialog disappears during a check and
  comes back by itself.

## 5. What is proved

`SessionTransportProofs` holds the proofs of two machines that share no name, the reducer and the transport. Of
the reducer it proves the five properties of the `finance_session` run and type correctness for every set of
identifiers and versions and every ledger limit. `ReducerTyped` is inductive. The other invariants need each
other: a turn is under consent because it is in the ready session, whose version was granted; the session is
live because its provider is ready, and each event that takes provider, consent or session away also ends the
turn. The inductive invariant is their conjunction with the ledger facts (what session and turn carry is in the
ledger under its role, an identifier has one role). `EndedStaysEnded` is the action property, proved from the
same invariant. Assumptions: the named `ASSUME`s of the module (`None` is no identifier, the limit is a natural
number).

`AgentServiceProofs` proves the five safety properties of the `agent_service` run for any number of commands in
flight, sessions and turns: `LiveConsent`, `ToolsServeShownTurn`, `ShownDurable`, `ProviderTold` and, as an
action property, `TransferConsent` (with the exception of `Unnoticed`). None of them can be proved from itself
alone. `IInv` adds what the code relies on without saying so, one definition per thing:

- `OpsFit`: a command stands at a step of its kind; one that waits for the provider is cut off or finds its
  process (`Fits`). At most one opens a session, starts are of different turns, and a shutdown is alone
  (`Apart`).
- `Attended`: a process that stops is waited for, one that failed is about to be stopped, and, once the chat state
  does not consent, a `createSession` that could go on to `thread/start` finds a revocation that goes on first and
  cuts it off (`Barrier`). This is why a consent that was checked before an await is still there when the
  request is written.
- `ServerFits`: a process is there only while the journal grants or is pending, and the app server
  that is shown is that process. `ChatFits`: a live session has its app server, an active turn is in the ready
  session.
- `DispatcherFits`: the dispatcher serves the session that was opened last; without consent in the chat state
  it has no turn or an aborted one. `SavesFit`: a save that ends its turn is of a turn the dispatcher let go
  of.

It is keyed on the consent of the chat state and not on the journal's, because the commands look at the former
and a record may be written that it is never told of; a step that writes nothing but the record keeps `IInv` by
itself (`RecordKeepsIInv`). `LiveConsent` comes from a second invariant over the first, `LiveConsented`: a live
session without consent in the chat state has a revocation on its way to its end, which holds because the
revocation raises the barrier and writes its record in one step, and each of its later steps keeps it a
revocation or ends the session. What is on disk follows: a live session has its process, a process has a journal
that grants or is pending, and one that is pending under a consenting chat state went unnoticed.

There is a lemma per action. Most of them need only to know that the step takes nothing from the other commands
(`Spares`, `Mild`), and the fragments that many handlers share, `HandleFatal`, `SyncAuth`, the close of a
session and the interrupt, have one lemma each.

`ConsentToolProofs` is about the two guards of the host, the consent journal and the tool dispatcher. Of the
journal it proves the three properties of its run (`RevocationStands`, `AlwaysReadable`, `GrantsByGrant`) for
any number of hosts, any capacity and any length of the file. The invariant ties the file to the sequence
numbers: where the records up to a place have the numbers of their places, they follow one another as the hash
chain demands and fit the capacity (`JournalChained`). Each operation under way has the record of its call, and
its read was of this file (`OpsInStep`). A recorded revocation has no grant with a place after it, in the file
or under way (`RevocationRecorded`): a grant that another host checked before it comes too late to have the
number of its place. Assumptions: 501 records of 453 to 467 bytes fit into the 256 KiB of the file, so that the
capacity is a multiple of three, far below `MAX_RECORDS`, and a granted file never ends where no revocation
fits.

Of the dispatcher it proves the three properties of its run (`BudgetHolds`, `CalledOnce`, `DataWithConsent`) for
any limits, calls, sessions and turns. The invariant is about what the usage covers: at least the requests of
the turn, and of the session, that were sent, and the one whose call was reserved and is about to be sent. A
call that outlived its session finds neither to give its reservation back to, which is why the usage is compared
with the requests and not with the calls.

Of the transport, `SessionTransportProofs` proves that it implements `RequestLedger` (`LedgerImplemented`): the
initial state maps to an initial state, and every step to a step of the ledger or to a stutter, for any number
of requests and any limit of the table. `ChildGone` and `AnswerBeforeHook` come from the same invariant: a
closed client has no pending request (`ClosedIsEmpty`), a write that waits for `drain` is the head of the queue
(`DrainedHead`), the second wait of a `stop()` comes after SIGKILL (`KilledIsNotRunning`), and before `start()`
nothing was asked (`NotStarted`).

`ReceivablesProofs` (`BooksAlwaysAgree`, `AppliedOnce`, `NothingOverwritten`) and `ConversationHistoryProofs`
(`TranscriptAgrees`, `TurnEndsOnce`) assume `RowLocks`: they are about PostgreSQL, and finding 1 is their
counterexample on SQLite. The argument is the same in both: what a transaction has read under a lock is the
stored row, and no other transaction has the same row (`RowsHeld`), so that a commit is of what was checked. For
the receivables, the sum of the payments is a number of units (`Units` is a set of pairs of a payment and a
unit, `Booked` its cardinality), so that a payment adds its units to it and a reversal takes them out; sums by
recursion or folds cannot be reasoned about here. For the conversations, the places of the transcript and the
messages are in bijection, which turns "numbered without gaps" into two facts about each message.
`NothingOverwritten` and `TurnEndsOnce` are action properties.

`AssistantStreamProofs` proves the three properties of its run (`AnswersShown`, `NoGaps`, `CatchesUp`) for any
number and length of answers and any limit of the buffer. None of them says anything of the frames that are kept
or under way, so none is inductive. The invariant says what these frames may be, in two parts:

- `Events` is about numbers and turns. The buffer ends with the last number given (`ReplayNumbered`), and the
  wire goes on where the page's cursor is, or begins with a reset (`WireNumbered`); hence no gap. Whoever has
  read up to a number knows the host's turn, unless a later state event is still in the buffer or the buffer
  begins too late (`Tells`). This holds at each place of the buffer and the wire and at the cursor
  (`ReplayTold`, `WireTold`, `PageTold`), so that the connection may be cut anywhere and the next replay or
  reset brings what is missing. The exceptions are those of `skipped` and `overtaken`.
- `Answers` is about texts. A chunk that is kept or under way is of the message it names, a completion has the
  stored text, and nothing of that message follows it (`FramesFit`). What the page put together is a beginning
  of the answer (`StreamsFit`). What it shows is that beginning, the stored text if it is shown as complete, and
  a message that failed while it was open hears no more (`ShownFits`, `Heard`).

Most handlers of the host end in `Publish`. What it leaves of buffer, wire and page is proved once
(`PublishEffect`, `PublishStep`), for any events that report the step they come from (`Reports`, `EventsFit`).

`WebPageProofs` and `DesktopProofs` prove the properties of the parts of `Application`. A behaviour is one of
one part (`PartStep`), and each part has an inductive invariant of its own. That of a page says what a request,
an answer or a list that is on its way still knows of the API's tables:

- Documents (`DocumentsInv`, theorem `DocumentsHaveFiles`): an upload that linked its file has it in the store,
  one that was answered has its row, and a list that was answered names rows (`UploadsFit`); hence
  `RowsHaveFiles` at every crash.
- Overview (`DashboardInv`, `FormsBookOnce`): a request to pay for a form that was booked names a version that
  the receivable no longer has (`CallFits`), however late it comes, and so does a form of a booked payment that
  is sent again (`DrawerFits`); the drawer is loaded by one request at a time (`OneDetail`). Hence
  `OneBookingPerForm`.
- Proposal cards (`CardsInv`, `DecisionsStayShown`): a decision among the cards is the API's (`Reflects`), one
  that was confirmed has been made (`DecisionsMade`), and a load that may still have an effect knows every
  decision that is shown, since one that is shown later ends it (`LoadKnows`). Hence `DecidedStaysDecided`.
- Bank connection (`BankInv`, `UpdatesSeen`) and invoices (`WorkbookInv`, `CellsSeen`): what was read at a
  version is what the row holds as long as it has that version (`WasRead`, `WasSeen`), because versions move
  with the values. A request that has read a row holds it as it is (`RowHeld`, `SheetLocks`), because the row is
  locked until the commit: both theorems assume `RowLocks`, as those of `ReceivablesProofs` do (section 4
  has the counterexample on SQLite). A save that the API accepts therefore replaces what its sender saw:
  `NoUpdateLost`, `ReplacedInSight`.
- Conversations list (`HistoryInv`, `ListsAreRight`): a list that was read and may still be shown is right,
  because every command that makes it wrong outdates it first (`ListFits`, `TaskFits`). Hence
  `RemovedStaysRemoved`.
- Assistant's page (`PromptInv`, `PromptsGoWhereTyped`): the flags of the page are too weak to say what is under
  way, so the invariant says it of the tasks. As long as nothing is astray (`Calm`), at most one of them is a
  command that keeps others away (`Major`); a command that leads to a prompt stands for the conversation that is
  open (`Stands`); and a session that the page knows and that is no longer starting is of the host's
  conversation, which is that of the last prompt, if there is one (`SessionsFit`). Every click either finds no
  such command or makes the page astray, every answer ends its command or goes on with it, and what the host does
  by itself gives no session to anyone. Hence `PromptWhereTyped`.
- Opening of a session (`SetupInv`, `ReadyRunsAsBound`, `SessionThreadReports`): what an opening read of the
  binding is still so, and the thread it verified runs on what the owner asked for and is the only one that
  reports (`OpeningFits`); stored bindings name threads that the provider has (`BindingsFit`), and between two
  sessions no thread reports.
- Desktop runtime (`RuntimeInv`, `ServicesServeAndStop`): the order of the plan (`PlanFits`, in `RuntimeTyped`);
  what runs during a quit was found at its beginning or started since (`QuitFits`), and only the former is
  promised to be stopped; the host says only what is
  so (`HostFits`); the start has an assistant, and gives the gateway's token to the web server, only once the
  host has said that it serves, and an API that was started knows both tokens (`TokensFit`).
- Desktop updates (`UpdateInv`, `OpensWhatItShows`): what comes of a download was verified and marked, and is of
  the release under way (`DownloadFits`); the installer that can be opened is of the version the state names
  (`OpenFits`); the last post to the page is the manager's state (`PostsFit`); and what the page shows, is
  posted and has asked for never mixes two versions to open (`PageFits`). The last three hold until the manager is
  misled (`UpdateWell`), the rest always (`UpdateSound`). Hence `InstallerAsShown`.

Assumptions are the named `ASSUME`s of `Application`: among them `NoneApart`, that the value for "nothing" is no
identifier and no record.

The theorems hold for every value of the constants that the named `ASSUME`s of the modules admit; every such
assumption is evaluated in the runs. The bounds on what is started (`MaxSessions`, `MaxVersion`, …) are
constants too, so the theorems hold for all of them.

Only model-checked: the liveness properties (`EndingsComplete`, `EverythingEnds`). Liveness under fairness and
`ENABLED` are outside the prover, as are induction over data and `RECURSIVE` operators, which no module here
uses.


## 6. Not modelled, and why

- Wording, formats, hashes and base64, JSON schemas and response validators: pure functions of one message,
  for which tables of tests are the better tool. A module takes their verdict as a choice.
- Listings and paging that only read, the analytics page, months of the overview, layout and styles.
- Gateway: bodies, authorisation and the limit of subscribers. Several pages on one event stream are one page
  with reloads.
- Finance API client: what the history calls check of the echoed fields.
- Discovery of the Codex binary and its isolation directory: one outcome, found or not.
- The API platform beyond transactions: authentication, headers, the creation of the schema.
- Windows, menus, opening the release page, and the end-to-end paths of the desktop shell.
- `packages/agent-storage` (not shipped), generated protocol types, scripts, docker.

Assumptions that the modules make and the code does not enforce: a request of `createSession` that failed was
carried out before its failure is seen or never (no commit of a former host's request after a restart); checks
for updates do not overlap each other, and downloads neither; the machine's assumptions of `DesktopRuntime` in
section 2; a resumed thread reports under the identifier it was asked for (`finance-agent-service.ts:306`); no
more than the bounds of section 3 happen at once. The two `SELECT`s of a table that is loaded are one step, as
are the requests of `FinanceDashboard` (`Receivables` interleaves them), `DocumentInbox`'s database statements and
`ProposalCards`. A loss of power is modelled for the consent journal, not for the document store.

## 7. Plan

The modules of the plan are written, and every safety property of theirs is proved; what is left, in this order:

1. An abstract specification of the event connection (a reader gets a gapless run of events or a reset), which
   `AssistantStream` implements; `ConsentJournal` as one durable consent variable.
2. Several pages on one gateway with the limit of subscribers; the months of the overview.
