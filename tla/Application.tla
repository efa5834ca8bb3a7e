------------------------------ MODULE Application ------------------------------
(***************************************************************************)
(* The application around the assistant's core: the pages of the web       *)
(* application, each with the part of the API or the host it works on, the *)
(* opening of a session in the host, and the desktop application that      *)
(* starts, stops and updates everything.  The parts share no state: a page *)
(* is unmounted when another is opened, the assistant that stays behind it *)
(* has tables of its own, and what the API does for others (another        *)
(* window, the provider) is an action of the part's own module.  A         *)
(* behaviour is therefore one of one part, and the properties are stated   *)
(* for each.                                                               *)
(***************************************************************************)
EXTENDS Naturals, FiniteSets

CONSTANTS
    None,
    RowLocks,        \* does FOR UPDATE lock the row it reads?
    Rows, Typed, Suggested, ProposalIds, MaxChanges, MaxSheetCalls,
    Forms, Assistant, Original, MaxVersion, MaxEntries, MaxDeskCalls,
    Files, Unsupported, UploadIds,
    Tabs, Codes, Setups, MaxBankChanges, MaxBankCalls,
    MaxProposals, PageSize, MaxDecisions,
    Conversations, MaxTasks, MaxClicks, MaxTroubles,
    Selections, Unreviewed, Preset, MaxOpenings, MaxMishaps,
    Installed, Newest, MaxCopies, MaxChecks, MaxPosts

ASSUME TextsApart == Typed \cap Suggested = {} /\ Typed # {}
ASSUME AssistantIsNoForm == Assistant \notin Forms
ASSUME SomeUnsupported == Unsupported \subseteq Files
ASSUME PresetReviewed == Preset \in Selections /\ Selections \cap Unreviewed = {}
ASSUME LocksAssumption == RowLocks \in BOOLEAN
ASSUME PositiveSizes == PageSize \in Nat \ {0} /\ MaxCopies \in Nat \ {0}
\* None is nothing that it stands beside.
ASSUME NoneApart ==
    /\ None # <<>>
    /\ None \notin Forms \cup Nat \cup STRING
    /\ None \notin [version : Nat, stand : SUBSET (Forms \cup {Assistant})]
    /\ None \notin [of : Conversations \cup {None}, state : {"starting", "ready", "lost"}]
    /\ None \notin [on : Conversations, state : {"starting", "ready", "lost", "closed"}, thread : Nat \cup {None}]
    /\ LET bindings == [thread : Nat, selection : Selections \cup Unreviewed \cup {None}] IN
          /\ None \notin bindings
          /\ None \notin [on : Conversations, wants : Selections \cup Unreviewed,
                          step : {"config", "runtime", "thread", "bind"},
                          binding : bindings \cup {None}, thread : Nat \cup {None}]

VARIABLES
    part,
    invoices, changes, proposed, sheet, sheetCalls,
    ledger, desk, drawer, review, deskCalls,
    archive, uploads, inbox,
    connections, form, bankCalls,
    offers, cards, load, decisions,
    store, server, page, tasks, listing,
    runtimes, codex, agent, opening, picker,
    update, download, installers, button,
    boot, proc, app, host

workbook == <<invoices, changes, proposed, sheet, sheetCalls>>
dashboard == <<ledger, desk, drawer, review, deskCalls>>
documents == <<archive, uploads, inbox>>
banking == <<connections, form, bankCalls>>
proposals == <<offers, cards, load, decisions>>
assistant == <<store, server, page, tasks, listing>>
threads == <<runtimes, codex, agent, opening, picker>>
updates == <<update, download, installers, button>>
runtime == <<boot, proc, app, host>>
vars == <<part, workbook, dashboard, documents, banking, proposals, assistant, threads, updates, runtime>>

Workbook == INSTANCE Workbook
FinanceDashboard == INSTANCE FinanceDashboard
DocumentInbox == INSTANCE DocumentInbox
BankConnection == INSTANCE BankConnection
ProposalCards == INSTANCE ProposalCards
AssistantPage == INSTANCE AssistantPage
ThreadSetup == INSTANCE ThreadSetup
DesktopUpdate == INSTANCE DesktopUpdate
DesktopRuntime == INSTANCE DesktopRuntime

NoWorkbook == invoices = None /\ changes = None /\ proposed = None /\ sheet = None /\ sheetCalls = None
NoDashboard == ledger = None /\ desk = None /\ drawer = None /\ review = None /\ deskCalls = None
NoDocuments == archive = None /\ uploads = None /\ inbox = None
NoBanking == connections = None /\ form = None /\ bankCalls = None
NoProposals == offers = None /\ cards = None /\ load = None /\ decisions = None
NoAssistant == store = None /\ server = None /\ page = None /\ tasks = None /\ listing = None
NoThreads == runtimes = None /\ codex = None /\ agent = None /\ opening = None /\ picker = None
NoUpdates == update = None /\ download = None /\ installers = None /\ button = None
NoRuntime == boot = None /\ proc = None /\ app = None /\ host = None

Init ==
    /\ part \in {"workbook", "dashboard", "documents", "banking", "proposals",
                "assistant", "threads", "updates", "runtime"}
    /\ IF part = "workbook" THEN Workbook!Init ELSE NoWorkbook
    /\ IF part = "dashboard" THEN FinanceDashboard!Init ELSE NoDashboard
    /\ IF part = "documents" THEN DocumentInbox!Init ELSE NoDocuments
    /\ IF part = "banking" THEN BankConnection!Init ELSE NoBanking
    /\ IF part = "proposals" THEN ProposalCards!Init ELSE NoProposals
    /\ IF part = "assistant" THEN AssistantPage!Init ELSE NoAssistant
    /\ IF part = "threads" THEN ThreadSetup!Init ELSE NoThreads
    /\ IF part = "updates" THEN DesktopUpdate!Init ELSE NoUpdates
    /\ IF part = "runtime" THEN DesktopRuntime!Init ELSE NoRuntime

WorkbookStep ==
    /\ part = "workbook" /\ Workbook!Next
    /\ UNCHANGED <<part, dashboard, documents, banking, proposals, assistant, threads, updates, runtime>>
DashboardStep ==
    /\ part = "dashboard" /\ FinanceDashboard!Next
    /\ UNCHANGED <<part, workbook, documents, banking, proposals, assistant, threads, updates, runtime>>
DocumentStep ==
    /\ part = "documents" /\ DocumentInbox!Next
    /\ UNCHANGED <<part, workbook, dashboard, banking, proposals, assistant, threads, updates, runtime>>
BankingStep ==
    /\ part = "banking" /\ BankConnection!Next
    /\ UNCHANGED <<part, workbook, dashboard, documents, proposals, assistant, threads, updates, runtime>>
ProposalStep ==
    /\ part = "proposals" /\ ProposalCards!Next
    /\ UNCHANGED <<part, workbook, dashboard, documents, banking, assistant, threads, updates, runtime>>
AssistantStep ==
    /\ part = "assistant" /\ AssistantPage!Next
    /\ UNCHANGED <<part, workbook, dashboard, documents, banking, proposals, threads, updates, runtime>>
ThreadStep ==
    /\ part = "threads" /\ ThreadSetup!Next
    /\ UNCHANGED <<part, workbook, dashboard, documents, banking, proposals, assistant, updates, runtime>>
UpdateStep ==
    /\ part = "updates" /\ DesktopUpdate!Next
    /\ UNCHANGED <<part, workbook, dashboard, documents, banking, proposals, assistant, threads, runtime>>
RuntimeStep ==
    /\ part = "runtime" /\ DesktopRuntime!Next
    /\ UNCHANGED <<part, workbook, dashboard, documents, banking, proposals, assistant, threads, updates>>

Next ==
    \/ WorkbookStep \/ DashboardStep \/ DocumentStep \/ BankingStep
    \/ ProposalStep \/ AssistantStep \/ ThreadStep \/ UpdateStep \/ RuntimeStep

Spec == Init /\ [][Next]_vars

-----------------------------------------------------------------------------
\* A cell of the invoice table is replaced only in sight of what it replaces.
ReplacedInSight == [][part = "workbook" => Workbook!ReplacedInSight]_vars

\* A payment filled in once is booked at most once, however often its form is sent.
OneBookingPerForm == part = "dashboard" => FinanceDashboard!OneBookingPerForm

\* The file of a document's row is in the store, and what is listed has a row.
RowsHaveFiles == part = "documents" => DocumentInbox!RowsHaveFiles

\* A field of a bank connection is replaced only by a tab that had read its value.
NoUpdateLost == [][part = "banking" => BankConnection!NoUpdateLost]_vars

\* A proposal that is shown as decided is not shown as open again.
DecidedStaysDecided == [][part = "proposals" => ProposalCards!DecidedStaysDecided]_vars

\* A prompt reaches the conversation it was typed in.
PromptWhereTyped == [][part = "assistant" => AssistantPage!PromptWhereTyped]_vars

\* A conversation that was archived or deleted does not come back to the list.
RemovedStaysRemoved == [][part = "assistant" => AssistantPage!RemovedStaysRemoved]_vars

\* The thread of a ready session runs on the configuration that is shown and kept.
ReadyAsBound == part = "threads" => ThreadSetup!ReadyAsBound

\* The thread of the session is the only one whose usage is reported and shown.
OneThreadReports == part = "threads" => ThreadSetup!OneThreadReports

\* What is opened is a whole, marked, later installer of the version the dialog named.
InstallerAsShown == part = "updates" => DesktopUpdate!InstallerAsShown

\* No child that ran when the quit began is left when the application has ended, and
\* before it a web server that knows the gateway finds it up, until the host ends, with
\* tokens that the API and the gateway accept.
ChildrenServeAndStop ==
    part = "runtime" =>
        /\ DesktopRuntime!QuitStopsWhatItFound
        /\ DesktopRuntime!AssistantServed /\ DesktopRuntime!TokensAccepted
=============================================================================
