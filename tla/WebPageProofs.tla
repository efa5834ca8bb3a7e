---------------------------- MODULE WebPageProofs ----------------------------
(***************************************************************************)
(* What is proved of the pages of the web application, for every value of  *)
(* the constants.  Each page has an inductive invariant of its own, which  *)
(* says what a request, an answer or a list that is on its way still knows *)
(* of the API's tables.                                                    *)
(***************************************************************************)
EXTENDS Application, Sequences, SequenceTheorems, TLAPS

\* A behaviour is one of one part.
LEMMA PartStep ==
    ASSUME [Next]_vars
    PROVE  /\ part' = part
           /\ part = "workbook" => Workbook!Next \/ UNCHANGED workbook
           /\ part = "dashboard" => FinanceDashboard!Next \/ UNCHANGED dashboard
           /\ part = "documents" => DocumentInbox!Next \/ UNCHANGED documents
           /\ part = "banking" => BankConnection!Next \/ UNCHANGED banking
           /\ part = "proposals" => ProposalCards!Next \/ UNCHANGED proposals
           /\ part = "assistant" => AssistantPage!Next \/ UNCHANGED assistant
  BY DEF Next, vars, WorkbookStep, DashboardStep, DocumentStep, BankingStep, ProposalStep, AssistantStep,
     ThreadStep, UpdateStep, RuntimeStep

-----------------------------------------------------------------------------
(* Documents *)

\* An upload that was linked has its file in the store, and one that was answered has
\* its row.
Upload ==
    [stage : {"none"}]
    \cup [stage : {"sent", "refused", "staged", "new", "linked", "created", "duplicate"}, file : Files]
UploadsFit ==
    /\ uploads \in [UploadIds -> Upload]
    /\ \A u \in UploadIds :
          /\ uploads[u].stage = "linked" => uploads[u].file \in archive.store
          /\ uploads[u].stage \in {"created", "duplicate"} => uploads[u].file \in archive.rows

\* What is stored stays stored; a list that was answered names rows.
DocumentsInv ==
    /\ archive \in [store : SUBSET Files, rows : SUBSET Files]
    /\ inbox \in [listed : SUBSET Files, loading : BOOLEAN, failed : BOOLEAN, asked : {"sent", "answered", None},
                  answer : SUBSET Files, queue : SUBSET Files, sending : UploadIds \cup {None},
                  got : SUBSET Files, notice : {"success", "error", None}]
    /\ inbox.answer \subseteq archive.rows
    /\ DocumentInbox!RowsHaveFiles
    /\ UploadsFit

\* The archive is empty at first.
LEMMA DocumentsInit == DocumentInbox!Init => DocumentsInv
  BY DEF DocumentInbox!Init, DocumentInbox!NoUpload, DocumentInbox!Fresh, DocumentsInv, UploadsFit, Upload,
     DocumentInbox!RowsHaveFiles

\* An upload that moves to a stage its file allows.
LEMMA UploadMoves ==
    ASSUME DocumentsInv, NEW u \in UploadIds, uploads[u].stage # "none", NEW stage,
           stage \in {"refused", "staged", "new", "linked", "created", "duplicate"},
           DocumentInbox!Enter(u, stage),
           UNCHANGED inbox,
           archive' \in [store : SUBSET Files, rows : SUBSET Files],
           archive.store \subseteq archive'.store, archive.rows \subseteq archive'.rows,
           archive'.rows \subseteq archive'.store,
           stage = "linked" => uploads[u].file \in archive'.store,
           stage \in {"created", "duplicate"} => uploads[u].file \in archive'.rows
    PROVE  DocumentsInv'
<1>1. uploads' \in [UploadIds -> Upload]
  BY DEF DocumentsInv, UploadsFit, Upload, DocumentInbox!Enter
<1>2. UploadsFit'
  BY <1>1 DEF DocumentsInv, UploadsFit, Upload, DocumentInbox!Enter
<1> QED BY <1>2 DEF DocumentsInv, DocumentInbox!RowsHaveFiles

\* An upload goes on in the API.
LEMMA UploadStep ==
    ASSUME DocumentsInv, NEW u \in UploadIds,
           \/ DocumentInbox!Stage(u) \/ DocumentInbox!LookUp(u) \/ DocumentInbox!Link(u)
           \/ DocumentInbox!Insert(u) \/ DocumentInbox!Break(u)
    PROVE  DocumentsInv'
<1> USE DEF DocumentInbox!In
<1>1. uploads[u].stage # "none" => uploads[u].file \in Files
  BY DEF DocumentsInv, UploadsFit, Upload
<1>2. CASE DocumentInbox!Stage(u)
  BY <1>2, UploadMoves DEF DocumentInbox!Stage, DocumentsInv, DocumentInbox!RowsHaveFiles
<1>3. CASE DocumentInbox!LookUp(u)
  BY <1>3, UploadMoves DEF DocumentInbox!LookUp, DocumentsInv, DocumentInbox!RowsHaveFiles
<1>4. CASE DocumentInbox!Link(u)
  BY <1>1, <1>4, UploadMoves DEF DocumentInbox!Link, DocumentsInv, DocumentInbox!RowsHaveFiles
<1>5. CASE DocumentInbox!Insert(u)
  BY <1>1, <1>5, UploadMoves DEF DocumentInbox!Insert, DocumentsInv, DocumentInbox!RowsHaveFiles, UploadsFit
<1>6. CASE DocumentInbox!Break(u)
  BY <1>6, UploadMoves DEF DocumentInbox!Break, DocumentInbox!Working, DocumentsInv, DocumentInbox!RowsHaveFiles
<1> QED BY <1>2, <1>3, <1>4, <1>5, <1>6

\* The page sends the next file of its queue.
LEMMA SendStep ==
    ASSUME DocumentsInv, NEW q,
           q \in [listed : SUBSET Files, loading : BOOLEAN, failed : BOOLEAN, asked : {"sent", "answered", None},
                  answer : SUBSET Files, queue : SUBSET Files, sending : UploadIds \cup {None},
                  got : SUBSET Files, notice : {"success", "error", None}],
           q.listed \cup q.got \subseteq archive.rows, q.answer \subseteq archive.rows,
           DocumentInbox!Send(q), UNCHANGED archive
    PROVE  DocumentsInv'
<1>1. PICK file \in q.queue, u \in UploadIds :
         /\ uploads' = [uploads EXCEPT ![u] = [stage |-> "sent", file |-> file]]
         /\ inbox' = [q EXCEPT !.queue = @ \ {file}, !.sending = u]
  BY DEF DocumentInbox!Send
<1>2. file \in Files
  OBVIOUS
<1>3. uploads' \in [UploadIds -> Upload]
  BY <1>1, <1>2 DEF DocumentsInv, UploadsFit, Upload
<1>4. UploadsFit'
  BY <1>1, <1>2, <1>3 DEF DocumentsInv, UploadsFit, Upload
<1>5. /\ inbox' \in [listed : SUBSET Files, loading : BOOLEAN, failed : BOOLEAN, asked : {"sent", "answered", None},
                     answer : SUBSET Files, queue : SUBSET Files, sending : UploadIds \cup {None},
                     got : SUBSET Files, notice : {"success", "error", None}]
      /\ inbox'.listed = q.listed /\ inbox'.got = q.got /\ inbox'.answer = q.answer
  BY <1>1, <1>2
<1> QED BY <1>4, <1>5 DEF DocumentsInv, DocumentInbox!RowsHaveFiles

\* The page takes an answer, asks again or is left.
LEMMA InboxStep ==
    ASSUME DocumentsInv, UNCHANGED <<archive, uploads>>,
           \/ DocumentInbox!AnswerList \/ DocumentInbox!Listed \/ DocumentInbox!ListFails
           \/ DocumentInbox!ReloadDocuments \/ DocumentInbox!Reopen
           \/ \E u \in UploadIds : DocumentInbox!UploadFails(u)
    PROVE  DocumentsInv'
<1> USE DEF DocumentsInv, DocumentInbox!RowsHaveFiles
<1>1. UploadsFit'
  BY DEF UploadsFit
<1>2. CASE DocumentInbox!AnswerList
  BY <1>1, <1>2 DEF DocumentInbox!AnswerList
<1>3. CASE DocumentInbox!Listed
  BY <1>1, <1>3 DEF DocumentInbox!Listed
<1>4. CASE DocumentInbox!ListFails
  BY <1>1, <1>4 DEF DocumentInbox!ListFails
<1>5. CASE DocumentInbox!ReloadDocuments
  BY <1>1, <1>5 DEF DocumentInbox!ReloadDocuments
<1>6. CASE DocumentInbox!Reopen
  BY <1>1, <1>6 DEF DocumentInbox!Reopen, DocumentInbox!Fresh
<1>7. CASE \E u \in UploadIds : DocumentInbox!UploadFails(u)
  BY <1>1, <1>7 DEF DocumentInbox!UploadFails
<1> QED BY <1>2, <1>3, <1>4, <1>5, <1>6, <1>7

\* An upload of the batch is stored: the next one is sent, or the batch is listed.
LEMMA UploadedStep ==
    ASSUME DocumentsInv, NEW u \in UploadIds, DocumentInbox!Uploaded(u)
    PROVE  DocumentsInv'
<1>1. uploads[u].file \in Files /\ uploads[u].file \in archive.rows
  BY DEF DocumentInbox!Uploaded, DocumentsInv, UploadsFit, Upload
<1>2. PICK q : q = [inbox EXCEPT !.got = @ \cup {uploads[u].file}]
  OBVIOUS
<1>3. /\ q \in [listed : SUBSET Files, loading : BOOLEAN, failed : BOOLEAN, asked : {"sent", "answered", None},
                answer : SUBSET Files, queue : SUBSET Files, sending : UploadIds \cup {None},
                got : SUBSET Files, notice : {"success", "error", None}]
      /\ q.listed \cup q.got \subseteq archive.rows /\ q.answer \subseteq archive.rows
  BY <1>1, <1>2 DEF DocumentsInv, DocumentInbox!RowsHaveFiles
<1>4. CASE inbox.queue # {}
  <2>1. DocumentInbox!Send(q) /\ UNCHANGED archive
    BY <1>2, <1>4 DEF DocumentInbox!Uploaded
  <2> QED BY <1>3, <2>1, SendStep
<1>5. CASE inbox.queue = {}
  <2>1. /\ inbox' = [q EXCEPT !.listed = @ \cup q.got, !.sending = None, !.notice = "success"]
        /\ UNCHANGED <<archive, uploads>>
    BY <1>2, <1>5 DEF DocumentInbox!Uploaded
  <2>2. UploadsFit'
    BY <2>1 DEF DocumentsInv, UploadsFit
  <2> QED BY <1>3, <2>1, <2>2 DEF DocumentsInv, DocumentInbox!RowsHaveFiles
<1> QED BY <1>4, <1>5

\* Every step of the archive keeps the invariant.
LEMMA DocumentsStep ==
    ASSUME DocumentsInv, DocumentInbox!Next
    PROVE  DocumentsInv'
<1>1. CASE DocumentInbox!UploadFiles
  <2>1. PICK chosen \in SUBSET Files :
            DocumentInbox!Send([inbox EXCEPT !.queue = chosen, !.got = {}, !.notice = None])
    BY <1>1 DEF DocumentInbox!UploadFiles
  <2>2. PICK q : q = [inbox EXCEPT !.queue = chosen, !.got = {}, !.notice = None]
    OBVIOUS
  <2>3. /\ q \in [listed : SUBSET Files, loading : BOOLEAN, failed : BOOLEAN, asked : {"sent", "answered", None},
                  answer : SUBSET Files, queue : SUBSET Files, sending : UploadIds \cup {None},
                  got : SUBSET Files, notice : {"success", "error", None}]
        /\ q.listed \cup q.got \subseteq archive.rows /\ q.answer \subseteq archive.rows
    BY <2>2 DEF DocumentsInv, DocumentInbox!RowsHaveFiles
  <2>4. DocumentInbox!Send(q) /\ UNCHANGED archive
    BY <1>1, <2>1, <2>2 DEF DocumentInbox!UploadFiles
  <2> QED BY <2>3, <2>4, SendStep
<1>2. CASE DocumentInbox!Crash
  <2>1. uploads' = [u \in UploadIds |-> IF DocumentInbox!Working(u)
                                          THEN [uploads[u] EXCEPT !.stage = "refused"] ELSE uploads[u]]
        /\ UNCHANGED <<archive, inbox>>
    BY <1>2 DEF DocumentInbox!Crash
  <2>2. UploadsFit'
    BY <2>1 DEF DocumentsInv, UploadsFit, Upload, DocumentInbox!Working
  <2> QED BY <2>1, <2>2 DEF DocumentsInv, DocumentInbox!RowsHaveFiles
<1>3. ASSUME NEW u \in UploadIds, DocumentInbox!UploadFails(u)
      PROVE  UNCHANGED <<archive, uploads>>
  BY <1>3 DEF DocumentInbox!UploadFails
<1>4. ASSUME \/ DocumentInbox!AnswerList \/ DocumentInbox!Listed \/ DocumentInbox!ListFails
             \/ DocumentInbox!ReloadDocuments \/ DocumentInbox!Reopen
      PROVE  DocumentsInv'
  <2>1. UNCHANGED <<archive, uploads>>
    BY <1>4 DEF DocumentInbox!AnswerList, DocumentInbox!Listed, DocumentInbox!ListFails,
       DocumentInbox!ReloadDocuments, DocumentInbox!Reopen
  <2> QED BY <1>4, <2>1, InboxStep
<1>5. ASSUME NEW u \in UploadIds,
             \/ DocumentInbox!Stage(u) \/ DocumentInbox!LookUp(u) \/ DocumentInbox!Link(u)
             \/ DocumentInbox!Insert(u) \/ DocumentInbox!Break(u)
             \/ DocumentInbox!Uploaded(u) \/ DocumentInbox!UploadFails(u)
      PROVE  DocumentsInv'
  BY <1>3, <1>5, UploadStep, UploadedStep, InboxStep
<1> QED BY <1>1, <1>2, <1>4, <1>5 DEF DocumentInbox!Next

\* The file of a document's row is in the store, and what the page lists has a row,
\* whatever fails, crashes or races between the link and the commit.
THEOREM DocumentsHaveFiles == Spec => []RowsHaveFiles
<1> DEFINE Inv == part = "documents" => DocumentsInv
<1>1. Init => Inv
  BY DocumentsInit DEF Init
<1>2. Inv /\ [Next]_vars => Inv'
  <2> SUFFICES ASSUME DocumentsInv, [Next]_vars, part = "documents" PROVE DocumentsInv'
    BY PartStep
  <2>1. CASE UNCHANGED documents
    BY <2>1 DEF documents, DocumentsInv, UploadsFit, DocumentInbox!RowsHaveFiles
  <2> QED BY <2>1, PartStep, DocumentsStep
<1>3. Inv => RowsHaveFiles
  BY DEF RowsHaveFiles, DocumentsInv
<1> QED BY <1>1, <1>2, <1>3, PTL DEF Spec

-----------------------------------------------------------------------------
(* The overview *)

\* What the drawer can show of the receivable.
DetailSet == [version : Nat, stand : SUBSET (Forms \cup {Assistant})]
Sound(detail) == detail \in DetailSet /\ detail.version <= ledger.version

\* The forms that the drawer can show.
PayForm == [kind : {"pay"}, id : Forms]
FormSet == {FinanceDashboard!NoForm} \cup PayForm \cup [kind : {"edit"}, id : {None}]
           \cup [kind : {"reverse"}, id : Forms \cup {Assistant}]

LedgerSet == [version : Nat, stand : SUBSET (Forms \cup {Assistant}), booked : [Forms -> Nat],
              entries : Nat, proposal : {"none", "pending", "approved", "rejected"}, expected : Nat]
LedgerFits == ledger \in LedgerSet /\ FinanceDashboard!OneBookingPerForm
DrawerSet == [open : BOOLEAN, detail : DetailSet \cup {None}, form : FormSet, submitting : BOOLEAN]
ReviewSet == [open : BOOLEAN, list : BOOLEAN, stale : BOOLEAN, deciding : BOOLEAN]

\* A form that was booked stands on an older version; before its detail is there
\* nothing was asked for it.
DrawerFits ==
    /\ drawer \in DrawerSet /\ review \in ReviewSet
    /\ ~drawer.open => drawer.detail = None /\ drawer.form = FinanceDashboard!NoForm
    /\ review.open => ~drawer.open
    /\ review.list => review.open
    /\ drawer.detail # None => Sound(drawer.detail)
    /\ drawer.form \in PayForm =>
          IF drawer.detail = None
            THEN /\ ledger.booked[drawer.form.id] = 0
                 /\ \A c \in deskCalls : c.kind = "pay" => c.form # drawer.form.id
            ELSE ledger.booked[drawer.form.id] # 0 => drawer.detail.version < ledger.version

\* A request to pay a form that was booked names an older version, however late it is.
\* Whoever waits for the answer of a write has the drawer as it was then.
CallFits(c) ==
    /\ c = [kind |-> c.kind, form |-> c.form, expected |-> c.expected, then |-> c.then,
            mine |-> c.mine, stage |-> c.stage, answer |-> c.answer]
    /\ c.mine \in BOOLEAN
    /\ c.kind \in {"load", "reload", "detail", "list"} \cup FinanceDashboard!Writing
    /\ c.kind = "pay" =>
          /\ c.form \in Forms /\ c.expected \in Nat /\ c.expected <= ledger.version
          /\ ledger.booked[c.form] # 0 => c.expected < ledger.version
    /\ c.kind = "reverse" => c.form \in Forms \cup {Assistant}
    /\ c.kind = "detail" =>
          /\ drawer.open /\ drawer.detail = None
          /\ c.stage = "answered" => Sound(c.answer.detail)
    /\ c.kind = "list" =>
          /\ review.open
          /\ c.stage = "answered" => c.answer \in [pending : BOOLEAN, stale : BOOLEAN]
    /\ c.kind \in FinanceDashboard!Writing /\ c.then = "drawer" /\ c.mine =>
          /\ drawer.detail # None
          /\ c.stage = "answered" /\ c.answer.ok => Sound(c.answer.detail)

\* The drawer is loaded by one request at a time.
OneDetail == \A c, d \in deskCalls : c.kind = "detail" /\ d.kind = "detail" => c = d

DashboardInv ==
    /\ LedgerFits
    /\ DrawerFits
    /\ \A c \in deskCalls : CallFits(c)
    /\ OneDetail

\* The page is loading its dashboard at first.
LEMMA DashboardInit == FinanceDashboard!Init => DashboardInv
<1> SUFFICES ASSUME FinanceDashboard!Init PROVE DashboardInv
  OBVIOUS
<1> USE DEF FinanceDashboard!Init, FinanceDashboard!Load, FinanceDashboard!Request
<1>1. LedgerFits
  BY DEF LedgerFits, LedgerSet, FinanceDashboard!OneBookingPerForm
<1>2. DrawerFits
  BY DEF DrawerFits, DrawerSet, ReviewSet, FormSet, PayForm, FinanceDashboard!Closed,
     FinanceDashboard!NotReviewing, FinanceDashboard!NoForm
<1>3. \A c \in deskCalls : CallFits(c)
  <2> SUFFICES ASSUME NEW c, c = FinanceDashboard!Load PROVE CallFits(c)
    OBVIOUS
  <2>1. /\ c = [kind |-> c.kind, form |-> c.form, expected |-> c.expected, then |-> c.then,
                mine |-> c.mine, stage |-> c.stage, answer |-> c.answer]
        /\ c.kind = "load" /\ c.mine = TRUE
    OBVIOUS
  <2> QED BY <2>1 DEF CallFits, FinanceDashboard!Writing
<1>4. OneDetail
  BY DEF OneDetail
<1> QED BY <1>1, <1>2, <1>3, <1>4 DEF DashboardInv

\* A request is as it was while the drawers stay what they are to it.
LEMMA CallStays ==
    ASSUME NEW c, CallFits(c), UNCHANGED ledger,
           drawer'.open = drawer.open, drawer'.detail = drawer.detail, review'.open = review.open
    PROVE  CallFits(c)'
  BY DEF CallFits, Sound

\* The drawers stay as they were while the ledger does and no payment is asked for.
LEMMA DrawersStay ==
    ASSUME DashboardInv, UNCHANGED <<ledger, drawer, review>>,
           \A c \in deskCalls' : CallFits(c)'
                     /\ (c.kind = "pay" => \E d \in deskCalls : d.kind = "pay" /\ d.form = c.form),
           OneDetail'
    PROVE  DashboardInv'
<1>1. LedgerFits'
  BY DEF DashboardInv, LedgerFits, FinanceDashboard!OneBookingPerForm
<1>2. DrawerFits'
  BY DEF DashboardInv, DrawerFits, Sound
<1> QED BY <1>1, <1>2 DEF DashboardInv

\* What is asked for besides a payment or a detail fits.
LEMMA Asked ==
    ASSUME DashboardInv, UNCHANGED ledger, drawer'.open = drawer.open, drawer'.detail = drawer.detail,
           review'.open = review.open, NEW c, FinanceDashboard!Ask(c), CallFits(c)'
    PROVE  \A d \in deskCalls' : CallFits(d)' /\ (d = c \/ d \in deskCalls)
  BY CallStays DEF FinanceDashboard!Ask, DashboardInv

\* The API answers a request, or comes to one that nobody waits for any more.
LEMMA AnswersFit ==
    ASSUME NEW c \in deskCalls, OneDetail, NEW answer, CallFits(c), CallFits(c)',
           FinanceDashboard!WithAnswer(c, answer),
           c.kind = "detail" => Sound(answer.detail)',
           c.kind = "list" => answer \in [pending : BOOLEAN, stale : BOOLEAN],
           c.kind \in FinanceDashboard!Writing /\ answer.ok /\ c.then = "drawer" /\ c.mine => Sound(answer.detail)',
           \A d \in deskCalls : CallFits(d)'
    PROVE  /\ \A d \in deskCalls' :
                 CallFits(d)' /\ (d \in deskCalls \/ (d.kind = c.kind /\ d.form = c.form))
           /\ OneDetail'
<1> PICK e : e = [c EXCEPT !.stage = "answered", !.answer = answer]
  OBVIOUS
<1>0. PICK kind, form1, expected, then, mine, stage, answer1 :
         c = [kind |-> kind, form |-> form1, expected |-> expected, then |-> then,
              mine |-> mine, stage |-> stage, answer |-> answer1]
  BY DEF CallFits
<1>1. e = [kind |-> kind, form |-> form1, expected |-> expected, then |-> then,
           mine |-> mine, stage |-> "answered", answer |-> answer]
  BY <1>0
<1>4. /\ e = [kind |-> e.kind, form |-> e.form, expected |-> e.expected, then |-> e.then,
              mine |-> e.mine, stage |-> e.stage, answer |-> e.answer]
      /\ e.kind = c.kind /\ e.form = c.form /\ e.expected = c.expected /\ e.then = c.then
      /\ e.mine = c.mine /\ e.stage = "answered" /\ e.answer = answer
  BY <1>0, <1>1
<1>2. CallFits(e)'
  BY <1>4 DEF CallFits, FinanceDashboard!Writing
<1>3. \A d \in deskCalls' : d \in deskCalls \/ d = e
  BY DEF FinanceDashboard!WithAnswer
<1>5. OneDetail'
  BY <1>4 DEF FinanceDashboard!WithAnswer, OneDetail
<1> QED BY <1>4, <1>2, <1>3, <1>5

\* The books move on: a form is booked for the first time, by a request, and every
\* change of the receivable makes its version newer.
LEMMA BooksMove ==
    ASSUME DashboardInv, UNCHANGED <<drawer, review>>,
           ledger' \in LedgerSet, ledger'.version >= ledger.version,
           \A f \in Forms :
              \/ ledger'.booked[f] = ledger.booked[f]
              \/ /\ \E c \in deskCalls : c.kind = "pay" /\ c.form = f
                 /\ ledger.booked[f] = 0 /\ ledger'.booked[f] = 1 /\ ledger'.version > ledger.version
    PROVE  /\ LedgerFits'
           /\ \A d \in deskCalls : CallFits(d)'
           /\ (\A d \in deskCalls' : d.kind = "pay" => \E b \in deskCalls : b.kind = "pay" /\ b.form = d.form)
                => DrawerFits'
<1>1. ledger.version \in Nat /\ ledger'.version \in Nat /\ ledger \in LedgerSet
  BY DEF DashboardInv, LedgerFits, LedgerSet
<1>2. LedgerFits'
  BY <1>1 DEF DashboardInv, LedgerFits, FinanceDashboard!OneBookingPerForm
<1>3. ASSUME NEW detail, Sound(detail)
      PROVE  Sound(detail)' /\ (ledger'.version > ledger.version => detail.version < ledger'.version)
  BY <1>1, <1>3 DEF Sound, DetailSet
<1>4. ASSUME NEW d \in deskCalls
      PROVE  CallFits(d)'
  <2>1. CallFits(d)
    BY DEF DashboardInv
  <2>2. d.kind = "pay" =>
          /\ d.form \in Forms /\ d.expected \in Nat /\ d.expected <= ledger'.version
          /\ ledger'.booked[d.form] # 0 => d.expected < ledger'.version
    BY <1>1, <2>1 DEF CallFits
  <2> QED BY <1>3, <2>1, <2>2 DEF CallFits
<1>5. ASSUME \A d \in deskCalls' : d.kind = "pay" => \E b \in deskCalls : b.kind = "pay" /\ b.form = d.form
      PROVE  DrawerFits'
  <2>1. drawer.detail # None => Sound(drawer.detail)'
    BY <1>3 DEF DashboardInv, DrawerFits
  <2>2. ASSUME drawer.form \in PayForm, drawer.detail = None
        PROVE  /\ ledger'.booked[drawer.form.id] = 0
               /\ \A d \in deskCalls' : d.kind = "pay" => d.form # drawer.form.id
    <3>1. drawer.form.id \in Forms
      BY <2>2 DEF PayForm
    <3> QED BY <1>5, <2>2, <3>1 DEF DashboardInv, DrawerFits
  <2>3. ASSUME drawer.form \in PayForm, drawer.detail # None, ledger'.booked[drawer.form.id] # 0
        PROVE  drawer.detail.version < ledger'.version
    <3>1. drawer.form.id \in Forms
      BY <2>3 DEF PayForm
    <3>2. Sound(drawer.detail)
      BY <2>3 DEF DashboardInv, DrawerFits
    <3>3. ledger.booked[drawer.form.id] # 0 => drawer.detail.version < ledger.version
      BY <2>3 DEF DashboardInv, DrawerFits
    <3> QED BY <1>1, <1>3, <2>3, <3>1, <3>2, <3>3 DEF Sound, DetailSet
  <2> QED BY <2>1, <2>2, <2>3 DEF DashboardInv, DrawerFits
<1> QED BY <1>2, <1>4, <1>5

\* What an accepted request does to the books.
LEMMA EffectFits ==
    ASSUME DashboardInv, NEW c \in deskCalls, c.kind \in FinanceDashboard!Writing,
           FinanceDashboard!Accepted(c), ledger' = FinanceDashboard!Effect(c)
    PROVE  /\ ledger' \in LedgerSet /\ ledger'.version >= ledger.version
           /\ \A f \in Forms :
                 \/ ledger'.booked[f] = ledger.booked[f]
                 \/ /\ c.kind = "pay" /\ c.form = f /\ ledger.booked[f] = 0 /\ ledger'.booked[f] = 1
                    /\ ledger'.version > ledger.version
<1>1. ledger \in LedgerSet /\ CallFits(c)
  BY DEF DashboardInv, LedgerFits
<1>2. CASE c.kind = "entry"
  BY <1>1, <1>2 DEF LedgerSet, FinanceDashboard!Effect
<1>3. CASE c.kind = "pay"
  <2>1. ledger' = [ledger EXCEPT !.version = @ + 1, !.stand = @ \cup {c.form}, !.booked[c.form] = @ + 1]
    BY <1>3 DEF FinanceDashboard!Effect
  <2>2. c.expected = ledger.version
    BY <1>3 DEF FinanceDashboard!Accepted, FinanceDashboard!Current
  <2>3. c.form \in Forms /\ ledger.booked[c.form] = 0
    BY <1>1, <1>3, <2>2 DEF CallFits, LedgerSet
  <2>4. /\ ledger.stand \cup {c.form} \in SUBSET (Forms \cup {Assistant}) /\ ledger.version + 1 \in Nat
        /\ [ledger.booked EXCEPT ![c.form] = @ + 1] \in [Forms -> Nat]
    BY <1>1, <2>3 DEF LedgerSet
  <2>5. /\ ledger'.version = ledger.version + 1 /\ ledger' \in LedgerSet
        /\ ledger'.booked = [ledger.booked EXCEPT ![c.form] = @ + 1]
    BY <1>1, <2>1, <2>4 DEF LedgerSet
  <2> QED BY <1>1, <1>3, <2>3, <2>5 DEF LedgerSet
<1>4. CASE c.kind = "edit"
  BY <1>1, <1>4 DEF LedgerSet, FinanceDashboard!Effect
<1>5. CASE c.kind = "reverse"
  <2>1. ledger' = [ledger EXCEPT !.version = @ + 1, !.stand = @ \ {c.form}]
    BY <1>5 DEF FinanceDashboard!Effect
  <2>2. ledger.stand \ {c.form} \in SUBSET (Forms \cup {Assistant}) /\ ledger.version + 1 \in Nat
    BY <1>1 DEF LedgerSet
  <2>3. ledger'.version = ledger.version + 1 /\ ledger' \in LedgerSet /\ ledger'.booked = ledger.booked
    BY <1>1, <2>1, <2>2 DEF LedgerSet
  <2> QED BY <1>1, <2>3 DEF LedgerSet
<1>6. CASE c.kind = "approve"
  <2>1. ledger' = [ledger EXCEPT !.version = @ + 1, !.stand = @ \cup {Assistant}, !.proposal = "approved"]
    BY <1>6 DEF FinanceDashboard!Effect
  <2>2. ledger.stand \cup {Assistant} \in SUBSET (Forms \cup {Assistant}) /\ ledger.version + 1 \in Nat
    BY <1>1 DEF LedgerSet
  <2>3. ledger'.version = ledger.version + 1 /\ ledger' \in LedgerSet /\ ledger'.booked = ledger.booked
    BY <1>1, <2>1, <2>2 DEF LedgerSet
  <2> QED BY <1>1, <2>3 DEF LedgerSet
<1>7. CASE c.kind = "reject"
  BY <1>1, <1>7 DEF LedgerSet, FinanceDashboard!Effect
<1> QED BY <1>2, <1>3, <1>4, <1>5, <1>6, <1>7 DEF FinanceDashboard!Writing

\* The API comes to a write: it is accepted on the version it names, or refused.
LEMMA HandleStep ==
    ASSUME DashboardInv, FinanceDashboard!Handle
    PROVE  DashboardInv'
<1>1. PICK c \in deskCalls :
         /\ c.stage # "answered" /\ c.kind \in FinanceDashboard!Writing
         /\ IF FinanceDashboard!Accepted(c)
              THEN /\ ledger' = FinanceDashboard!Effect(c)
                   /\ FinanceDashboard!WithAnswer(c, [ok |-> TRUE,
                         detail |-> IF c.then = "drawer" /\ c.mine THEN FinanceDashboard!Detail' ELSE None])
              ELSE FinanceDashboard!WithAnswer(c, [ok |-> FALSE]) /\ UNCHANGED ledger
  BY DEF FinanceDashboard!Handle
<1>2. UNCHANGED <<drawer, review>>
  BY DEF FinanceDashboard!Handle
<1>3. CallFits(c) /\ OneDetail /\ c.kind # "detail" /\ c.kind # "list"
  BY <1>1 DEF DashboardInv, FinanceDashboard!Writing
<1>4. CASE FinanceDashboard!Accepted(c)
  <2>1. /\ LedgerFits'
        /\ \A d \in deskCalls : CallFits(d)'
        /\ (\A d \in deskCalls' : d.kind = "pay" => \E b \in deskCalls : b.kind = "pay" /\ b.form = d.form)
             => DrawerFits'
    BY <1>1, <1>2, <1>4, BooksMove, EffectFits
  <2>2. PICK answer : answer = [ok |-> TRUE,
                                detail |-> IF c.then = "drawer" /\ c.mine THEN FinanceDashboard!Detail' ELSE None]
    OBVIOUS
  <2>3. c.then = "drawer" /\ c.mine => Sound(answer.detail)'
    BY <2>1, <2>2 DEF LedgerFits, LedgerSet, Sound, DetailSet, FinanceDashboard!Detail
  <2>4. FinanceDashboard!WithAnswer(c, answer)
    BY <1>1, <1>4, <2>2
  <2>5. /\ \A d \in deskCalls' : CallFits(d)' /\ (d \in deskCalls \/ (d.kind = c.kind /\ d.form = c.form))
        /\ OneDetail'
    BY <1>3, <2>1, <2>3, <2>4, AnswersFit
  <2> QED BY <2>1, <2>5 DEF DashboardInv
<1>5. CASE ~FinanceDashboard!Accepted(c)
  <2>1. \A d \in deskCalls : CallFits(d)'
    BY <1>1, <1>2, <1>5, CallStays DEF DashboardInv
  <2>2. PICK answer : answer = [ok |-> FALSE]
    OBVIOUS
  <2>3. FinanceDashboard!WithAnswer(c, answer) /\ ~answer.ok
    BY <1>1, <1>5, <2>2
  <2>4. /\ \A d \in deskCalls' : CallFits(d)' /\ (d \in deskCalls \/ (d.kind = c.kind /\ d.form = c.form))
        /\ OneDetail'
    BY <1>3, <2>1, <2>3, AnswersFit
  <2> QED BY <1>1, <1>2, <1>5, <2>4, DrawersStay
<1> QED BY <1>4, <1>5

\* A request that nobody hears of any more.
LEMMA Unheard ==
    ASSUME NEW c, CallFits(c)', NEW e, e = [c EXCEPT !.stage = "unheard"]
    PROVE  CallFits(e)' /\ e.kind = c.kind /\ e.form = c.form
<1>0. PICK kind, form1, expected, then, mine, stage1, answer :
         c = [kind |-> kind, form |-> form1, expected |-> expected, then |-> then,
              mine |-> mine, stage |-> stage1, answer |-> answer]
  BY DEF CallFits
<1>1. e = [kind |-> kind, form |-> form1, expected |-> expected, then |-> then,
           mine |-> mine, stage |-> "unheard", answer |-> answer]
  BY <1>0
<1>2. /\ e = [kind |-> e.kind, form |-> e.form, expected |-> e.expected, then |-> e.then,
              mine |-> e.mine, stage |-> e.stage, answer |-> e.answer]
      /\ e.kind = c.kind /\ e.form = c.form /\ e.expected = c.expected /\ e.then = c.then
      /\ e.mine = c.mine /\ e.stage = "unheard"
  BY <1>0, <1>1
<1> QED BY <1>2 DEF CallFits

\* The requests of a drawer that is closed.
LEMMA WithoutFits ==
    ASSUME DashboardInv, NEW kinds, NEW loads, NEW c \in FinanceDashboard!Without(kinds, loads),
           \A d \in deskCalls : d.kind # loads /\ d.kind \notin kinds /\ d.then \notin kinds => CallFits(d)',
           \A d \in deskCalls : d.kind # loads /\ (d.kind \in kinds \/ d.then \in kinds) =>
              CallFits([d EXCEPT !.mine = FALSE])'
    PROVE  CallFits(c)' /\ \E d \in deskCalls : d.kind = c.kind /\ d.form = c.form /\ d.kind # loads
<1>1. PICK d \in deskCalls :
         d.kind # loads /\ c = [d EXCEPT !.mine = @ /\ d.kind \notin kinds /\ d.then \notin kinds]
  BY DEF FinanceDashboard!Without
<1>2. CallFits(d)
  BY DEF DashboardInv
<1>3. PICK kind, form1, expected, then, mine, stage1, answer :
         /\ d = [kind |-> kind, form |-> form1, expected |-> expected, then |-> then,
                 mine |-> mine, stage |-> stage1, answer |-> answer]
         /\ mine \in BOOLEAN
  BY <1>2 DEF CallFits
<1>4. c = [kind |-> kind, form |-> form1, expected |-> expected, then |-> then,
           mine |-> mine /\ kind \notin kinds /\ then \notin kinds, stage |-> stage1, answer |-> answer]
  BY <1>1, <1>3
<1>5. c.kind = d.kind /\ c.form = d.form
  BY <1>3, <1>4
<1>6. CASE d.kind \in kinds \/ d.then \in kinds
  <2>1. PICK e : e = [d EXCEPT !.mine = FALSE]
    OBVIOUS
  <2>2. c = e
    BY <1>3, <1>4, <1>6, <2>1
  <2> QED BY <1>1, <1>5, <1>6, <2>1, <2>2
<1>7. CASE ~(d.kind \in kinds \/ d.then \in kinds)
  <2>1. c = d
    BY <1>3, <1>4, <1>7
  <2> QED BY <1>1, <1>5, <1>7, <2>1
<1> QED BY <1>6, <1>7

\* The API comes to a read, which may be answered with what is out of date by then.
LEMMA HandleReadStep ==
    ASSUME DashboardInv, FinanceDashboard!HandleRead
    PROVE  DashboardInv'
<1>1. UNCHANGED <<ledger, drawer, review>>
  BY DEF FinanceDashboard!HandleRead
<1>2. PICK c \in deskCalls :
         \/ /\ c.kind \in {"load", "reload"}
            /\ FinanceDashboard!WithAnswer(c, FinanceDashboard!Dashboard)
         \/ /\ c.kind = "detail"
            /\ FinanceDashboard!WithAnswer(c, [detail |-> FinanceDashboard!Detail])
         \/ /\ c.kind = "list"
            /\ FinanceDashboard!WithAnswer(c, [pending |-> ledger.proposal = "pending",
                                              stale |-> ledger.expected # ledger.version])
  BY DEF FinanceDashboard!HandleRead
<1>3. \A d \in deskCalls : CallFits(d) /\ CallFits(d)'
  BY <1>1, CallStays DEF DashboardInv
<1>4. c.kind \notin FinanceDashboard!Writing /\ OneDetail
  BY <1>2 DEF DashboardInv, FinanceDashboard!Writing
<1>5. ASSUME NEW answer, FinanceDashboard!WithAnswer(c, answer),
             c.kind = "detail" => Sound(answer.detail)',
             c.kind = "list" => answer \in [pending : BOOLEAN, stale : BOOLEAN]
      PROVE  DashboardInv'
  <2>1. /\ \A d \in deskCalls' : CallFits(d)' /\ (d \in deskCalls \/ (d.kind = c.kind /\ d.form = c.form))
        /\ OneDetail'
    BY <1>3, <1>4, <1>5, AnswersFit
  <2> QED BY <1>1, <2>1, DrawersStay
<1>6. Sound(FinanceDashboard!Detail)'
  BY <1>1 DEF DashboardInv, LedgerFits, LedgerSet, Sound, DetailSet, FinanceDashboard!Detail
<1>7. CASE c.kind \in {"load", "reload"}
  BY <1>2, <1>5, <1>7
<1>8. CASE c.kind = "detail"
  <2>1. PICK answer : answer = [detail |-> FinanceDashboard!Detail]
    OBVIOUS
  <2>2. Sound(answer.detail)'
    BY <1>1, <1>6, <2>1 DEF Sound, FinanceDashboard!Detail
  <2> QED BY <1>2, <1>5, <1>8, <2>1, <2>2
<1>9. CASE c.kind = "list"
  <2>1. PICK answer : answer = [pending |-> ledger.proposal = "pending",
                                stale |-> ledger.expected # ledger.version]
    OBVIOUS
  <2> QED BY <1>2, <1>5, <1>9, <2>1
<1> QED BY <1>2, <1>7, <1>8, <1>9

\* A drawer that only ends its waiting, and requests that end or are not heard of.
LEMMA WaitingEnds ==
    ASSUME DashboardInv, UNCHANGED ledger, NEW c \in deskCalls,
           drawer' = drawer \/ drawer' = [drawer EXCEPT !.submitting = FALSE],
           review' = review \/ review' = [review EXCEPT !.deciding = FALSE],
           \/ deskCalls' = deskCalls \ {c}
           \/ c.kind # "detail" /\ deskCalls' = (deskCalls \ {c}) \cup {[c EXCEPT !.stage = "unheard"]}
    PROVE  DashboardInv'
<1>1. drawer'.open = drawer.open /\ drawer'.detail = drawer.detail /\ drawer'.form = drawer.form
         /\ drawer' \in DrawerSet
  BY DEF DashboardInv, DrawerFits, DrawerSet
<1>2. review'.open = review.open /\ review'.list = review.list /\ review' \in ReviewSet
  BY DEF DashboardInv, DrawerFits, ReviewSet
<1>3. \A d \in deskCalls : CallFits(d)'
  BY <1>1, <1>2, CallStays DEF DashboardInv
<1>4. PICK e : e = [c EXCEPT !.stage = "unheard"]
  OBVIOUS
<1>5. CallFits(e)' /\ e.kind = c.kind /\ e.form = c.form
  BY <1>3, <1>4, Unheard
<1>6. \A d \in deskCalls' : d \in deskCalls \/ (d = e /\ c.kind # "detail")
  BY <1>4
<1>7. OneDetail'
  BY <1>5, <1>6 DEF OneDetail, DashboardInv
<1>8. DrawerFits'
  BY <1>1, <1>2, <1>5, <1>6 DEF DashboardInv, DrawerFits, Sound
<1>9. LedgerFits'
  BY DEF DashboardInv, LedgerFits, FinanceDashboard!OneBookingPerForm
<1> QED BY <1>3, <1>5, <1>6, <1>7, <1>8, <1>9 DEF DashboardInv

\* The drawer takes its detail, when it waits for it.
LEMMA TakeDetailStep ==
    ASSUME DashboardInv, UNCHANGED <<ledger, review>>, NEW c \in deskCalls, c.stage = "answered",
           FinanceDashboard!TakeDetail(c)
    PROVE  DashboardInv'
<1>1. Sound(c.answer.detail) /\ drawer.open /\ drawer.detail = None /\ c.kind = "detail"
  BY DEF DashboardInv, CallFits, FinanceDashboard!TakeDetail
<1>2. c.answer.detail # None /\ c.answer.detail \in DetailSet
  BY <1>1, NoneApart DEF Sound, DetailSet
<1>3. /\ drawer'.open = drawer.open /\ drawer'.detail = c.answer.detail /\ drawer'.form = drawer.form
      /\ drawer' \in DrawerSet /\ deskCalls' = deskCalls \ {c}
  BY <1>2 DEF DashboardInv, DrawerFits, DrawerSet, FinanceDashboard!TakeDetail
<1>4. DrawerFits'
  BY <1>1, <1>2, <1>3 DEF DashboardInv, DrawerFits, Sound
<1>5. LedgerFits' /\ OneDetail'
  BY <1>3 DEF DashboardInv, LedgerFits, FinanceDashboard!OneBookingPerForm, OneDetail
<1>6. ASSUME NEW d \in deskCalls' PROVE CallFits(d)'
  <2>1. CallFits(d) /\ d.kind # "detail"
    BY <1>1, <1>3 DEF DashboardInv, OneDetail
  <2> QED BY <1>1, <1>2, <1>3, <2>1 DEF CallFits, Sound
<1> QED BY <1>4, <1>5, <1>6 DEF DashboardInv

\* The review takes its list.
LEMMA TakeListStep ==
    ASSUME DashboardInv, UNCHANGED <<ledger, drawer>>, NEW c \in deskCalls, c.stage = "answered",
           FinanceDashboard!TakeList(c)
    PROVE  DashboardInv'
<1>1. c.answer \in [pending : BOOLEAN, stale : BOOLEAN] /\ review.open
  BY DEF DashboardInv, CallFits, FinanceDashboard!TakeList
<1>2. review' \in ReviewSet /\ review'.open = review.open /\ deskCalls' = deskCalls \ {c}
  BY <1>1 DEF DashboardInv, DrawerFits, ReviewSet, FinanceDashboard!TakeList
<1>3. \A d \in deskCalls : CallFits(d)'
  BY <1>2, CallStays DEF DashboardInv
<1>4. DrawerFits'
  BY <1>1, <1>2 DEF DashboardInv, DrawerFits, Sound
<1>5. LedgerFits' /\ OneDetail'
  BY <1>2 DEF DashboardInv, LedgerFits, FinanceDashboard!OneBookingPerForm, OneDetail
<1> QED BY <1>2, <1>3, <1>4, <1>5 DEF DashboardInv

\* The answer of a change shows the receivable as it is now, in the drawer that asked.
LEMMA TakeDoneStep ==
    ASSUME DashboardInv, UNCHANGED ledger, NEW c \in deskCalls, c.stage = "answered",
           FinanceDashboard!TakeDone(c)
    PROVE  DashboardInv'
<1>1. CallFits(c) /\ c.kind \in FinanceDashboard!Writing /\ c.answer.ok
  BY DEF DashboardInv, FinanceDashboard!TakeDone
<1>2. review' \in ReviewSet /\ review'.open = review.open /\ (review'.list => review.list)
  BY DEF DashboardInv, DrawerFits, ReviewSet, FinanceDashboard!TakeDone
<1>3. ASSUME c.then = "drawer", c.mine
      PROVE  /\ Sound(c.answer.detail) /\ c.answer.detail # None /\ drawer.detail # None
             /\ drawer'.detail = c.answer.detail /\ drawer'.form = FinanceDashboard!NoForm
             /\ drawer' \in DrawerSet /\ drawer'.open = drawer.open /\ drawer.open
  <2>1. Sound(c.answer.detail) /\ drawer.detail # None
    BY <1>1, <1>3 DEF CallFits
  <2>2. drawer' = [drawer EXCEPT !.detail = c.answer.detail, !.form = FinanceDashboard!NoForm]
    BY <1>3 DEF FinanceDashboard!TakeDone
  <2>3. c.answer.detail # None /\ c.answer.detail \in DetailSet /\ FinanceDashboard!NoForm \in FormSet
    BY <2>1, NoneApart DEF Sound, DetailSet, FormSet
  <2>4. drawer \in DrawerSet /\ drawer.open
    BY <2>1 DEF DashboardInv, DrawerFits
  <2> QED BY <2>1, <2>2, <2>3, <2>4 DEF DrawerSet
<1>4. ~(c.then = "drawer" /\ c.mine) => UNCHANGED drawer
  BY DEF FinanceDashboard!TakeDone
<1>5. ASSUME NEW d \in deskCalls PROVE CallFits(d)' /\ (d.kind = "detail" => UNCHANGED drawer)
  <2>1. CASE c.then = "drawer" /\ c.mine
    <3>1. CallFits(d)
      BY DEF DashboardInv
    <3> QED BY <1>2, <1>3, <2>1, <3>1 DEF CallFits, Sound
  <2>2. CASE ~(c.then = "drawer" /\ c.mine)
    BY <1>2, <1>4, <2>2, CallStays DEF DashboardInv
  <2> QED BY <2>1, <2>2
<1>6. PICK e : e = [FinanceDashboard!Reload(c.then) EXCEPT !.mine = c.mine]
  OBVIOUS
<1>7. CallFits(e)' /\ e.kind = "reload"
  <2>1. c.mine \in BOOLEAN
    BY <1>1 DEF CallFits
  <2>2. e = [kind |-> "reload", form |-> None, expected |-> None, then |-> c.then,
             mine |-> c.mine, stage |-> "sent", answer |-> None]
    BY <1>6 DEF FinanceDashboard!Reload, FinanceDashboard!Request
  <2> QED BY <2>1, <2>2 DEF CallFits, FinanceDashboard!Writing
<1>8. deskCalls' = (deskCalls \ {c}) \cup {e}
  BY <1>6 DEF FinanceDashboard!TakeDone
<1>9. DrawerFits'
  <2>1. CASE c.then = "drawer" /\ c.mine
    <3>1. FinanceDashboard!NoForm \notin PayForm
      BY NoneApart DEF FinanceDashboard!NoForm, PayForm
    <3> QED BY <1>2, <1>3, <2>1, <3>1 DEF DashboardInv, DrawerFits, Sound
  <2>2. CASE ~(c.then = "drawer" /\ c.mine)
    BY <1>2, <1>4, <1>7, <1>8, <2>2 DEF DashboardInv, DrawerFits, Sound
  <2> QED BY <2>1, <2>2
<1>10. LedgerFits' /\ OneDetail'
  BY <1>7, <1>8 DEF DashboardInv, LedgerFits, FinanceDashboard!OneBookingPerForm, OneDetail
<1> QED BY <1>5, <1>7, <1>8, <1>9, <1>10 DEF DashboardInv

\* An answer is taken, or a request fails or is given up.
LEMMA TakeStep ==
    ASSUME DashboardInv, FinanceDashboard!Take \/ FinanceDashboard!Fail \/ FinanceDashboard!Drop
    PROVE  DashboardInv'
<1>1. CASE FinanceDashboard!Take
  <2>1. PICK c \in deskCalls :
           /\ c.stage = "answered"
           /\ \/ FinanceDashboard!TakeDashboard(c) \/ FinanceDashboard!TakeDetail(c) \/ FinanceDashboard!TakeList(c)
              \/ FinanceDashboard!TakeDone(c) \/ FinanceDashboard!TakeRefused(c)
           /\ UNCHANGED ledger
    BY <1>1 DEF FinanceDashboard!Take
  <2>2. CASE FinanceDashboard!TakeDashboard(c)
    BY <2>1, <2>2, WaitingEnds DEF FinanceDashboard!TakeDashboard
  <2>3. CASE FinanceDashboard!TakeDetail(c)
    BY <2>1, <2>3, TakeDetailStep DEF FinanceDashboard!TakeDetail
  <2>4. CASE FinanceDashboard!TakeList(c)
    BY <2>1, <2>4, TakeListStep DEF FinanceDashboard!TakeList
  <2>5. CASE FinanceDashboard!TakeDone(c)
    BY <2>1, <2>5, TakeDoneStep
  <2>6. CASE FinanceDashboard!TakeRefused(c)
    BY <2>1, <2>6, WaitingEnds DEF FinanceDashboard!TakeRefused, FinanceDashboard!Finished
  <2> QED BY <2>1, <2>2, <2>3, <2>4, <2>5, <2>6
<1>2. CASE FinanceDashboard!Fail
  <2>1. PICK c \in deskCalls :
           /\ IF c.kind \in {"load", "reload"}
                THEN /\ drawer' = IF c.then = "drawer" /\ c.mine THEN [drawer EXCEPT !.submitting = FALSE] ELSE drawer
                     /\ review' = IF c.then = "review" /\ c.mine THEN [review EXCEPT !.deciding = FALSE] ELSE review
                ELSE FinanceDashboard!Finished(c)
           /\ deskCalls' = (deskCalls \ {c}) \cup
                 (IF c.stage = "sent" /\ c.kind \in FinanceDashboard!Writing
                    THEN {[c EXCEPT !.stage = "unheard"]} ELSE {})
           /\ UNCHANGED ledger
    BY <1>2 DEF FinanceDashboard!Fail
  <2>2. /\ drawer' = drawer \/ drawer' = [drawer EXCEPT !.submitting = FALSE]
        /\ review' = review \/ review' = [review EXCEPT !.deciding = FALSE]
    BY <2>1 DEF FinanceDashboard!Finished
  <2>3. \/ deskCalls' = deskCalls \ {c}
        \/ c.kind # "detail" /\ deskCalls' = (deskCalls \ {c}) \cup {[c EXCEPT !.stage = "unheard"]}
    BY <2>1 DEF FinanceDashboard!Writing
  <2> QED BY <2>1, <2>2, <2>3, WaitingEnds
<1>3. CASE FinanceDashboard!Drop
  BY <1>3, WaitingEnds DEF FinanceDashboard!Drop
<1> QED BY <1>1, <1>2, <1>3

\* The assistant's proposal is stored with the version it is made for.
LEMMA ProposeStep ==
    ASSUME DashboardInv, FinanceDashboard!Propose
    PROVE  DashboardInv'
<1>1. ledger' = [ledger EXCEPT !.proposal = "pending", !.expected = ledger.version]
      /\ UNCHANGED <<drawer, review, deskCalls>>
  BY DEF FinanceDashboard!Propose
<1>2. ledger \in LedgerSet
  BY DEF DashboardInv, LedgerFits
<1>3. ledger' \in LedgerSet /\ ledger'.version = ledger.version /\ ledger'.booked = ledger.booked
  BY <1>1, <1>2 DEF LedgerSet
<1>4. ledger'.version >= ledger.version
  BY <1>2, <1>3 DEF LedgerSet
<1>5. /\ LedgerFits' /\ \A d \in deskCalls : CallFits(d)'
      /\ (\A d \in deskCalls' : d.kind = "pay" => \E b \in deskCalls : b.kind = "pay" /\ b.form = d.form)
           => DrawerFits'
  BY <1>1, <1>3, <1>4, BooksMove
<1> QED BY <1>1, <1>5 DEF DashboardInv, OneDetail

\* Requests of the page that neither book nor ask for a detail.
LEMMA PlainRequest ==
    ASSUME NEW kind \in {"load", "reload", "entry", "approve", "reject"}, NEW then,
           then = "drawer" => kind \in {"load", "reload"},
           NEW c, c = FinanceDashboard!Request(kind, None, None, then)
    PROVE  CallFits(c)' /\ c.kind = kind
<1>1. c = [kind |-> kind, form |-> None, expected |-> None, then |-> then,
           mine |-> TRUE, stage |-> "sent", answer |-> None]
  BY DEF FinanceDashboard!Request
<1>2. /\ c = [kind |-> c.kind, form |-> c.form, expected |-> c.expected, then |-> c.then,
              mine |-> c.mine, stage |-> c.stage, answer |-> c.answer]
      /\ c.kind = kind /\ c.then = then /\ c.mine = TRUE /\ c.stage = "sent"
  BY <1>1
<1> QED BY <1>2 DEF CallFits, FinanceDashboard!Writing

\* A request that is sent while the drawers stay what they are to the others.
LEMMA RequestStep ==
    ASSUME DashboardInv, UNCHANGED ledger, drawer'.open = drawer.open, drawer'.detail = drawer.detail,
           drawer'.form = drawer.form, drawer' \in DrawerSet,
           review'.open = review.open, review'.list => review.list, review' \in ReviewSet,
           NEW c, FinanceDashboard!Ask(c), CallFits(c)',
           c.kind = "pay" => drawer.detail # None,
           c.kind = "detail" => \A d \in deskCalls : d.kind # "detail"
    PROVE  DashboardInv'
<1>1. \A d \in deskCalls' : CallFits(d)' /\ (d = c \/ d \in deskCalls)
  BY Asked
<1>2. DrawerFits'
  BY <1>1 DEF DashboardInv, DrawerFits, Sound
<1>3. LedgerFits' /\ OneDetail'
  BY <1>1 DEF DashboardInv, LedgerFits, FinanceDashboard!OneBookingPerForm, OneDetail
<1> QED BY <1>1, <1>2, <1>3 DEF DashboardInv

\* The dashboard: another month, another try, the entry dialog.
LEMMA DeskStep ==
    ASSUME DashboardInv,
           \/ FinanceDashboard!MovePeriod \/ FinanceDashboard!Retry \/ FinanceDashboard!OpenEntry
           \/ FinanceDashboard!CloseEntry \/ FinanceDashboard!SubmitEntry
    PROVE  DashboardInv'
<1>1. UNCHANGED <<ledger, drawer, review>>
  BY DEF FinanceDashboard!MovePeriod, FinanceDashboard!Retry, FinanceDashboard!OpenEntry,
     FinanceDashboard!CloseEntry, FinanceDashboard!SubmitEntry
<1>2. \A d \in deskCalls : CallFits(d)'
  BY <1>1, CallStays DEF DashboardInv
<1>3. drawer \in DrawerSet /\ review \in ReviewSet
  BY DEF DashboardInv, DrawerFits
<1>4. CASE FinanceDashboard!MovePeriod
  <2>1. PICK c : c = FinanceDashboard!Load
    OBVIOUS
  <2>2. CallFits(c)' /\ c.kind = "load"
    BY <2>1, PlainRequest DEF FinanceDashboard!Load
  <2>3. \A d \in deskCalls' : d = c \/ d \in deskCalls
    BY <1>4, <2>1 DEF FinanceDashboard!MovePeriod
  <2>4. OneDetail'
    BY <2>2, <2>3 DEF DashboardInv, OneDetail
  <2> QED BY <1>1, <1>2, <2>2, <2>3, <2>4, DrawersStay
<1>5. CASE FinanceDashboard!Retry
  <2>1. PICK c : c = FinanceDashboard!Reload(None)
    OBVIOUS
  <2>2. CallFits(c)' /\ c.kind = "reload" /\ FinanceDashboard!Ask(c)
    BY <1>5, <2>1, PlainRequest DEF FinanceDashboard!Reload, FinanceDashboard!Retry
  <2> QED BY <1>1, <1>3, <2>2, RequestStep
<1>6. CASE FinanceDashboard!SubmitEntry
  <2>1. PICK c : c = FinanceDashboard!Request("entry", None, None, "entry")
    OBVIOUS
  <2>2. CallFits(c)' /\ c.kind = "entry" /\ FinanceDashboard!Ask(c)
    BY <1>6, <2>1, PlainRequest DEF FinanceDashboard!SubmitEntry
  <2> QED BY <1>1, <1>3, <2>2, RequestStep
<1>7. CASE FinanceDashboard!OpenEntry \/ FinanceDashboard!CloseEntry
  <2>1. UNCHANGED deskCalls
    BY <1>7 DEF FinanceDashboard!OpenEntry, FinanceDashboard!CloseEntry
  <2> QED BY <1>1, <1>2, <2>1, DrawersStay DEF DashboardInv, OneDetail
<1> QED BY <1>4, <1>5, <1>6, <1>7

\* A form is opened on a payment that was neither booked nor asked for.
LEMMA FreshFits ==
    ASSUME DashboardInv, NEW blank \in FinanceDashboard!Fresh
    PROVE  /\ blank \in PayForm /\ blank \in FormSet /\ ledger.booked[blank.id] = 0
           /\ \A c \in deskCalls : c.kind = "pay" => c.form # blank.id
<1>1. PICK f \in Forms : blank = [kind |-> "pay", id |-> f] /\ ledger.booked[f] = 0 /\ \A c \in deskCalls : c.form # f
  BY DEF FinanceDashboard!Fresh
<1> QED BY <1>1 DEF PayForm, FormSet

\* The request for what the drawer shows.
LEMMA DetailRequest ==
    ASSUME NEW c, c = FinanceDashboard!Request("detail", None, None, None), drawer'.open, drawer'.detail = None
    PROVE  CallFits(c)' /\ c.kind = "detail"
<1>1. c = [kind |-> "detail", form |-> None, expected |-> None, then |-> None,
           mine |-> TRUE, stage |-> "sent", answer |-> None]
  BY DEF FinanceDashboard!Request
<1>2. /\ c = [kind |-> c.kind, form |-> c.form, expected |-> c.expected, then |-> c.then,
              mine |-> c.mine, stage |-> c.stage, answer |-> c.answer]
      /\ c.kind = "detail" /\ c.mine = TRUE /\ c.stage = "sent"
  BY <1>1
<1> QED BY <1>2 DEF CallFits, FinanceDashboard!Writing

\* The drawer is opened from the dashboard; nothing that waits belongs to it.
LEMMA OpenDrawerStep ==
    ASSUME DashboardInv, FinanceDashboard!OpenDrawer
    PROVE  DashboardInv'
<1>1. PICK blank \in {FinanceDashboard!NoForm} \cup FinanceDashboard!Fresh :
         drawer' = [FinanceDashboard!Closed EXCEPT !.open = TRUE, !.form = blank]
  BY DEF FinanceDashboard!OpenDrawer
<1>2. PICK c : c = FinanceDashboard!Request("detail", None, None, None)
  OBVIOUS
<1>3. /\ FinanceDashboard!Ask(c) /\ ~drawer.open /\ ~review.open
      /\ UNCHANGED <<ledger, review>>
  BY <1>2 DEF FinanceDashboard!OpenDrawer, FinanceDashboard!Dialog
<1>4. blank \in FormSet
  BY FreshFits DEF FormSet
<1>5. drawer' = [open |-> TRUE, detail |-> None, form |-> blank, submitting |-> FALSE]
  BY <1>1 DEF FinanceDashboard!Closed
<1>6. drawer'.open /\ drawer'.detail = None /\ drawer'.form = blank /\ drawer' \in DrawerSet
  BY <1>4, <1>5 DEF DrawerSet
<1>7. CallFits(c)' /\ c.kind = "detail"
  BY <1>2, <1>6, DetailRequest
<1>8. ~drawer.open /\ drawer.detail = None /\ ~review.list
  BY <1>3 DEF DashboardInv, DrawerFits
<1>9. ASSUME NEW d \in deskCalls PROVE CallFits(d)' /\ d.kind # "detail"
  BY <1>3, <1>6, <1>8 DEF DashboardInv, CallFits, Sound
<1>10. \A d \in deskCalls' : d = c \/ d \in deskCalls
  BY <1>3 DEF FinanceDashboard!Ask
<1>11. blank \in PayForm =>
         ledger.booked[blank.id] = 0 /\ \A d \in deskCalls : d.kind = "pay" => d.form # blank.id
  <2>1. FinanceDashboard!NoForm \notin PayForm
    BY NoneApart DEF FinanceDashboard!NoForm, PayForm
  <2> QED BY <2>1, FreshFits
<1>12. DrawerFits'
  BY <1>3, <1>6, <1>7, <1>8, <1>10, <1>11 DEF DashboardInv, DrawerFits
<1>13. LedgerFits' /\ OneDetail'
  BY <1>3, <1>7, <1>9, <1>10 DEF DashboardInv, LedgerFits, FinanceDashboard!OneBookingPerForm, OneDetail
<1> QED BY <1>7, <1>9, <1>10, <1>12, <1>13 DEF DashboardInv

\* A request that goes on when its drawer is closed.
LEMMA Orphan ==
    ASSUME NEW d, CallFits(d), UNCHANGED ledger, d.kind # "detail", d.kind = "list" => review'.open,
           NEW e, e = [d EXCEPT !.mine = FALSE]
    PROVE  CallFits(e)'
<1>1. PICK kind, form1, expected, then, mine, stage1, answer :
         d = [kind |-> kind, form |-> form1, expected |-> expected, then |-> then,
              mine |-> mine, stage |-> stage1, answer |-> answer]
  BY DEF CallFits
<1>2. e = [kind |-> kind, form |-> form1, expected |-> expected, then |-> then,
           mine |-> FALSE, stage |-> stage1, answer |-> answer]
  BY <1>1
<1>3. /\ e = [kind |-> e.kind, form |-> e.form, expected |-> e.expected, then |-> e.then,
              mine |-> e.mine, stage |-> e.stage, answer |-> e.answer]
      /\ e.kind = d.kind /\ e.form = d.form /\ e.expected = d.expected /\ e.mine = FALSE
      /\ e.stage = d.stage /\ e.answer = d.answer
  BY <1>1, <1>2
<1> QED BY <1>3 DEF CallFits

\* The drawer is closed: its load is dropped and its writes answer nobody.
LEMMA CloseDrawerStep ==
    ASSUME DashboardInv, FinanceDashboard!CloseDrawer
    PROVE  DashboardInv'
<1> DEFINE kinds == {"pay", "edit", "reverse", "drawer"}
<1>1. /\ drawer' = [open |-> FALSE, detail |-> None, form |-> FinanceDashboard!NoForm, submitting |-> FALSE]
      /\ deskCalls' = FinanceDashboard!Without(kinds, "detail") /\ UNCHANGED <<ledger, review>>
  BY DEF FinanceDashboard!CloseDrawer, FinanceDashboard!Closed
<1>2. ~drawer'.open /\ drawer'.detail = None /\ drawer'.form = FinanceDashboard!NoForm /\ drawer' \in DrawerSet
  BY <1>1 DEF DrawerSet, FormSet
<1>3. ASSUME NEW d \in deskCalls, d.kind # "detail", d.kind \notin kinds, d.then \notin kinds
      PROVE  CallFits(d)'
  BY <1>1, <1>3 DEF DashboardInv, CallFits, Sound
<1>4. ASSUME NEW d \in deskCalls, d.kind # "detail" PROVE CallFits([d EXCEPT !.mine = FALSE])'
  <2>1. PICK e : e = [d EXCEPT !.mine = FALSE]
    OBVIOUS
  <2>2. CallFits(d) /\ (d.kind = "list" => review'.open)
    BY <1>1 DEF DashboardInv, CallFits
  <2> QED BY <1>1, <1>4, <2>1, <2>2, Orphan
<1>5. ASSUME NEW c \in deskCalls'
      PROVE  CallFits(c)' /\ \E d \in deskCalls : d.kind = c.kind /\ d.form = c.form /\ d.kind # "detail"
  <2> HIDE DEF kinds
  <2> QED BY <1>1, <1>3, <1>4, <1>5, WithoutFits
<1>6. LedgerFits' /\ OneDetail'
  BY <1>1, <1>5 DEF DashboardInv, LedgerFits, FinanceDashboard!OneBookingPerForm, OneDetail
<1>7. FinanceDashboard!NoForm \notin PayForm
  BY NoneApart DEF FinanceDashboard!NoForm, PayForm
<1>8. DrawerFits'
  BY <1>1, <1>2, <1>7 DEF DashboardInv, DrawerFits
<1> QED BY <1>5, <1>6, <1>8 DEF DashboardInv

\* The review is opened, decides or is closed.
LEMMA ReviewStep ==
    ASSUME DashboardInv,
           \/ FinanceDashboard!OpenReview \/ FinanceDashboard!CloseReview
           \/ \E decision \in {"approve", "reject"} : FinanceDashboard!Decide(decision)
    PROVE  DashboardInv'
<1>1. drawer \in DrawerSet /\ review \in ReviewSet /\ (review.list => review.open)
  BY DEF DashboardInv, DrawerFits
<1>2. CASE FinanceDashboard!OpenReview
  <2>1. PICK c : c = FinanceDashboard!Request("list", None, None, None)
    OBVIOUS
  <2>2. /\ FinanceDashboard!Ask(c) /\ UNCHANGED <<ledger, drawer>> /\ ~drawer.open
        /\ review' = [open |-> TRUE, list |-> FALSE, stale |-> FALSE, deciding |-> FALSE]
    BY <1>2, <2>1 DEF FinanceDashboard!OpenReview, FinanceDashboard!NotReviewing, FinanceDashboard!Dialog
  <2>3. review'.open /\ ~review'.list /\ review' \in ReviewSet
    BY <2>2 DEF ReviewSet
  <2>4. c = [kind |-> "list", form |-> None, expected |-> None, then |-> None,
             mine |-> TRUE, stage |-> "sent", answer |-> None]
    BY <2>1 DEF FinanceDashboard!Request
  <2>5. /\ c = [kind |-> c.kind, form |-> c.form, expected |-> c.expected, then |-> c.then,
                mine |-> c.mine, stage |-> c.stage, answer |-> c.answer]
        /\ c.kind = "list" /\ c.mine = TRUE /\ c.stage = "sent"
    BY <2>4
  <2>6. CallFits(c)'
    BY <2>3, <2>5 DEF CallFits, FinanceDashboard!Writing
  <2>7. ASSUME NEW d \in deskCalls' PROVE CallFits(d)' /\ (d = c \/ d \in deskCalls)
    BY <2>2, <2>3, <2>6, <2>7 DEF DashboardInv, CallFits, Sound, FinanceDashboard!Ask
  <2>8. LedgerFits' /\ OneDetail'
    BY <2>2, <2>5, <2>7 DEF DashboardInv, LedgerFits, FinanceDashboard!OneBookingPerForm, OneDetail
  <2>9. DrawerFits'
    BY <2>2, <2>3, <2>5, <2>7 DEF DashboardInv, DrawerFits, Sound
  <2> QED BY <2>7, <2>8, <2>9 DEF DashboardInv
<1>3. CASE FinanceDashboard!CloseReview
  <2> DEFINE kinds == {"approve", "reject", "review"}
  <2>1. /\ review' = [open |-> FALSE, list |-> FALSE, stale |-> FALSE, deciding |-> FALSE]
        /\ deskCalls' = FinanceDashboard!Without(kinds, "list") /\ UNCHANGED <<ledger, drawer>>
    BY <1>3 DEF FinanceDashboard!CloseReview, FinanceDashboard!NotReviewing
  <2>2. ~review'.open /\ ~review'.list /\ review' \in ReviewSet
    BY <2>1 DEF ReviewSet
  <2>3. ASSUME NEW d \in deskCalls, d.kind # "list", d.kind \notin kinds, d.then \notin kinds
        PROVE  CallFits(d)'
    BY <2>1, <2>3 DEF DashboardInv, CallFits, Sound
  <2>4. ASSUME NEW d \in deskCalls, d.kind # "list", d.kind \in kinds \/ d.then \in kinds
        PROVE  CallFits([d EXCEPT !.mine = FALSE])'
    <3>1. PICK e : e = [d EXCEPT !.mine = FALSE]
      OBVIOUS
    <3>2. CallFits(d)
      BY DEF DashboardInv
    <3>3. CASE d.kind # "detail"
      BY <2>1, <2>4, <3>1, <3>2, <3>3, Orphan
    <3>4. CASE d.kind = "detail"
      <4>1. PICK kind, form1, expected, then, mine, stage1, answer :
               d = [kind |-> kind, form |-> form1, expected |-> expected, then |-> then,
                    mine |-> mine, stage |-> stage1, answer |-> answer]
        BY <3>2 DEF CallFits
      <4>2. e = [kind |-> kind, form |-> form1, expected |-> expected, then |-> then,
                 mine |-> FALSE, stage |-> stage1, answer |-> answer]
        BY <3>1, <4>1
      <4>3. /\ e = [kind |-> e.kind, form |-> e.form, expected |-> e.expected, then |-> e.then,
                    mine |-> e.mine, stage |-> e.stage, answer |-> e.answer]
            /\ e.kind = "detail" /\ e.mine = FALSE /\ e.stage = d.stage /\ e.answer = d.answer
        BY <3>4, <4>1, <4>2
      <4>4. CallFits(e)'
        BY <2>1, <3>2, <3>4, <4>3 DEF CallFits, Sound, FinanceDashboard!Writing
      <4> QED BY <3>1, <4>4
    <3> QED BY <3>3, <3>4
  <2>5. ASSUME NEW c \in deskCalls'
        PROVE  CallFits(c)' /\ \E d \in deskCalls : d.kind = c.kind /\ d.form = c.form /\ d.kind # "list"
    <3> HIDE DEF kinds
    <3> QED BY <2>1, <2>3, <2>4, <2>5, WithoutFits
  <2>6. OneDetail'
    <3>1. ASSUME NEW c \in deskCalls' PROVE
            \E d \in deskCalls : /\ d.kind = c.kind
                                 /\ c = [d EXCEPT !.mine = @ /\ d.kind \notin kinds /\ d.then \notin kinds]
      <4>1. PICK d \in deskCalls :
               c = [d EXCEPT !.mine = @ /\ d.kind \notin kinds /\ d.then \notin kinds]
        BY <2>1 DEF FinanceDashboard!Without
      <4>2. d.kind = c.kind
        <5>1. PICK m : c = [d EXCEPT !.mine = m]
          BY <4>1
        <5>2. "mine" # "kind"
          OBVIOUS
        <5>3. "kind" \in DOMAIN d
          BY DEF DashboardInv, CallFits
        <5> QED BY <5>1, <5>2, <5>3
      <4> QED BY <4>1, <4>2
    <3> QED BY <3>1 DEF DashboardInv, OneDetail
  <2>7. LedgerFits' /\ DrawerFits'
    BY <2>1, <2>2, <2>5 DEF DashboardInv, LedgerFits, FinanceDashboard!OneBookingPerForm, DrawerFits, Sound
  <2> QED BY <2>5, <2>6, <2>7 DEF DashboardInv
<1>4. ASSUME NEW decision \in {"approve", "reject"}, FinanceDashboard!Decide(decision)
      PROVE  DashboardInv'
  <2>1. PICK c : c = FinanceDashboard!Request(decision, None, None, "review")
    OBVIOUS
  <2>2. CallFits(c)' /\ c.kind = decision /\ FinanceDashboard!Ask(c)
    BY <1>4, <2>1, PlainRequest DEF FinanceDashboard!Decide
  <2>3. /\ review' \in ReviewSet /\ review'.open = review.open /\ review'.list = review.list
        /\ UNCHANGED <<ledger, drawer>>
    BY <1>1, <1>4 DEF ReviewSet, FinanceDashboard!Decide
  <2> QED BY <1>1, <2>2, <2>3, RequestStep
<1> QED BY <1>2, <1>3, <1>4

\* From a proposal the receivable is opened in place of the review.
LEMMA OpenReceivableStep ==
    ASSUME DashboardInv, FinanceDashboard!OpenReceivable
    PROVE  DashboardInv'
<1> DEFINE kinds == {"approve", "reject", "review"}
<1>1. PICK c : c = FinanceDashboard!Request("detail", None, None, None)
  OBVIOUS
<1>2. /\ drawer' = [open |-> TRUE, detail |-> None, form |-> FinanceDashboard!NoForm, submitting |-> FALSE]
      /\ review' = [open |-> FALSE, list |-> FALSE, stale |-> FALSE, deciding |-> FALSE]
      /\ deskCalls' = FinanceDashboard!Without(kinds, "list") \cup {c} /\ UNCHANGED ledger /\ review.list
  BY <1>1 DEF FinanceDashboard!OpenReceivable, FinanceDashboard!NotReviewing, FinanceDashboard!Closed
<1>3. /\ drawer'.open /\ drawer'.detail = None /\ drawer'.form = FinanceDashboard!NoForm /\ drawer' \in DrawerSet
      /\ review' \in ReviewSet /\ ~review'.open /\ ~review'.list
  BY <1>2 DEF DrawerSet, ReviewSet, FormSet
<1>4. ~drawer.open /\ drawer.detail = None
  BY <1>2 DEF DashboardInv, DrawerFits
<1>5. ASSUME NEW d \in deskCalls PROVE d.kind # "detail" /\ (d.kind # "list" => CallFits(d)')
  BY <1>2, <1>4 DEF DashboardInv, CallFits, Sound
<1>6. ASSUME NEW d \in deskCalls, d.kind # "list" PROVE CallFits([d EXCEPT !.mine = FALSE])'
  <2>1. PICK e : e = [d EXCEPT !.mine = FALSE]
    OBVIOUS
  <2> QED BY <1>2, <1>5, <1>6, <2>1, Orphan DEF DashboardInv
<1>7. ASSUME NEW d \in FinanceDashboard!Without(kinds, "list")
      PROVE  CallFits(d)' /\ \E b \in deskCalls : b.kind = d.kind /\ b.form = d.form /\ b.kind # "list"
  <2> HIDE DEF kinds
  <2> QED BY <1>5, <1>6, WithoutFits
<1>8. CallFits(c)' /\ c.kind = "detail"
  BY <1>1, <1>3, DetailRequest
<1>9. LedgerFits' /\ OneDetail'
  BY <1>2, <1>5, <1>7, <1>8 DEF DashboardInv, LedgerFits, FinanceDashboard!OneBookingPerForm, OneDetail
<1>10. FinanceDashboard!NoForm \notin PayForm
  BY NoneApart DEF FinanceDashboard!NoForm, PayForm
<1>11. DrawerFits'
  BY <1>2, <1>3, <1>10 DEF DashboardInv, DrawerFits
<1> QED BY <1>2, <1>7, <1>8, <1>9, <1>11 DEF DashboardInv

\* The drawer loads again, or a form is opened, given up or sent.
LEMMA FormStep ==
    ASSUME DashboardInv,
           \/ FinanceDashboard!LoadDetail \/ FinanceDashboard!OpenForm
           \/ FinanceDashboard!CancelForm \/ FinanceDashboard!Submit
    PROVE  DashboardInv'
<1>1. drawer \in DrawerSet /\ review \in ReviewSet /\ UNCHANGED <<ledger, review>>
  BY DEF DashboardInv, DrawerFits, FinanceDashboard!LoadDetail, FinanceDashboard!OpenForm,
     FinanceDashboard!CancelForm, FinanceDashboard!Submit
<1>2. CASE FinanceDashboard!LoadDetail
  <2>1. PICK c : c = FinanceDashboard!Request("detail", None, None, None)
    OBVIOUS
  <2>2. /\ FinanceDashboard!Ask(c) /\ UNCHANGED drawer /\ drawer.open
        /\ drawer.detail = None /\ \A d \in deskCalls : d.kind # "detail"
    BY <1>2, <2>1 DEF FinanceDashboard!LoadDetail, FinanceDashboard!Showing
  <2>3. CallFits(c)' /\ c.kind = "detail"
    BY <2>1, <2>2, DetailRequest
  <2> QED BY <1>1, <2>2, <2>3, RequestStep
<1>3. CASE FinanceDashboard!OpenForm \/ FinanceDashboard!CancelForm
  <2>1. drawer.detail # None /\ UNCHANGED deskCalls /\ drawer.open
    BY <1>3 DEF DashboardInv, DrawerFits, FinanceDashboard!OpenForm, FinanceDashboard!CancelForm,
       FinanceDashboard!Showing
  <2>2. PICK blank : drawer' = [drawer EXCEPT !.form = blank]
                     /\ (blank = FinanceDashboard!NoForm \/ blank \in FinanceDashboard!Offered)
    BY <1>3 DEF FinanceDashboard!OpenForm, FinanceDashboard!CancelForm
  <2>3. blank \in FormSet /\ (blank \in PayForm => ledger.booked[blank.id] = 0)
    <3>1. CASE blank = FinanceDashboard!NoForm
      BY <3>1, NoneApart DEF FormSet, FinanceDashboard!NoForm, PayForm
    <3>2. CASE blank \in FinanceDashboard!Fresh
      BY <3>2, FreshFits
    <3>3. CASE blank \in [kind : {"edit"}, id : {None}] \cup [kind : {"reverse"}, id : drawer.detail.stand]
      <4>1. drawer.detail.stand \subseteq Forms \cup {Assistant}
        BY <2>1 DEF DashboardInv, DrawerFits, Sound, DetailSet
      <4>2. blank.kind # "pay"
        BY <3>3
      <4> QED BY <3>3, <4>1, <4>2 DEF FormSet, PayForm
    <3> QED BY <2>2, <3>1, <3>2, <3>3 DEF FinanceDashboard!Offered
  <2>4. /\ drawer' \in DrawerSet /\ drawer'.open = drawer.open /\ drawer'.detail = drawer.detail
        /\ drawer'.form = blank
    BY <1>1, <2>2, <2>3 DEF DrawerSet
  <2>5. DrawerFits'
    BY <1>1, <2>1, <2>3, <2>4 DEF DashboardInv, DrawerFits, Sound
  <2>6. \A d \in deskCalls : CallFits(d)'
    BY <1>1, <2>4, CallStays DEF DashboardInv
  <2> QED BY <1>1, <2>1, <2>5, <2>6 DEF DashboardInv, LedgerFits, FinanceDashboard!OneBookingPerForm, OneDetail
<1>4. CASE FinanceDashboard!Submit
  <2>1. drawer.detail # None /\ drawer.form # FinanceDashboard!NoForm /\ Sound(drawer.detail)
    BY <1>4 DEF DashboardInv, DrawerFits, FinanceDashboard!Submit, FinanceDashboard!CanSubmit,
       FinanceDashboard!Showing
  <2>2. PICK c : c = FinanceDashboard!Request(drawer.form.kind, drawer.form.id, drawer.detail.version, "drawer")
    OBVIOUS
  <2>3. FinanceDashboard!Ask(c) /\ drawer' = [drawer EXCEPT !.submitting = TRUE]
    BY <1>4, <2>2 DEF FinanceDashboard!Submit
  <2>4. /\ drawer' \in DrawerSet /\ drawer'.open = drawer.open /\ drawer'.detail = drawer.detail
        /\ drawer'.form = drawer.form
    BY <1>1, <2>3 DEF DrawerSet
  <2>5. c = [kind |-> drawer.form.kind, form |-> drawer.form.id, expected |-> drawer.detail.version,
             then |-> "drawer", mine |-> TRUE, stage |-> "sent", answer |-> None]
    BY <2>2 DEF FinanceDashboard!Request
  <2>6. /\ c = [kind |-> c.kind, form |-> c.form, expected |-> c.expected, then |-> c.then,
                mine |-> c.mine, stage |-> c.stage, answer |-> c.answer]
        /\ c.kind = drawer.form.kind /\ c.form = drawer.form.id /\ c.expected = drawer.detail.version
        /\ c.mine = TRUE /\ c.stage = "sent"
    BY <2>5
  <2>7. /\ drawer.form.kind \in {"pay", "edit", "reverse"}
        /\ drawer.form.kind = "pay" => drawer.form \in PayForm /\ drawer.form.id \in Forms
        /\ drawer.form.kind = "reverse" => drawer.form.id \in Forms \cup {Assistant}
    BY <1>1, <2>1 DEF DrawerSet, FormSet, PayForm
  <2>8. /\ drawer.detail.version \in Nat /\ drawer.detail.version <= ledger.version
        /\ drawer.form.kind = "pay" =>
              (ledger.booked[drawer.form.id] # 0 => drawer.detail.version < ledger.version)
    BY <2>1, <2>7 DEF DashboardInv, DrawerFits, Sound, DetailSet
  <2>9. CallFits(c)'
    BY <1>1, <2>1, <2>4, <2>6, <2>7, <2>8 DEF CallFits, FinanceDashboard!Writing
  <2> QED BY <1>1, <2>1, <2>3, <2>4, <2>6, <2>7, <2>9, RequestStep
<1> QED BY <1>2, <1>3, <1>4

\* Every step of the overview keeps the invariant.
LEMMA DashboardStepFits ==
    ASSUME DashboardInv, FinanceDashboard!Next
    PROVE  DashboardInv'
  BY HandleStep, HandleReadStep, TakeStep, ProposeStep, DeskStep, OpenDrawerStep, CloseDrawerStep,
     FormStep, ReviewStep, OpenReceivableStep DEF FinanceDashboard!Next

\* A payment filled in once is booked at most once: whatever is sent again or arrives late
\* names the version that the form stood on, and that is old once the form is booked.
THEOREM FormsBookOnce == Spec => []OneBookingPerForm
<1> DEFINE Inv == part = "dashboard" => DashboardInv
<1>1. Init => Inv
  BY DashboardInit DEF Init
<1>2. Inv /\ [Next]_vars => Inv'
  <2> SUFFICES ASSUME DashboardInv, [Next]_vars, part = "dashboard" PROVE DashboardInv'
    BY PartStep
  <2>1. CASE UNCHANGED dashboard
    <3>1. UNCHANGED <<ledger, drawer, review, deskCalls>>
      BY <2>1 DEF dashboard
    <3>2. \A d \in deskCalls' : CallFits(d)'
      BY <3>1, CallStays DEF DashboardInv
    <3> QED BY <3>1, <3>2, DrawersStay DEF DashboardInv, OneDetail
  <2> QED BY <2>1, PartStep, DashboardStepFits
<1>3. Inv => OneBookingPerForm
  BY DEF OneBookingPerForm, DashboardInv, LedgerFits
<1> QED BY <1>1, <1>2, <1>3, PTL DEF Spec

-----------------------------------------------------------------------------
(* The cards of the proposals *)

Offers == [status : {"pending", "approved", "rejected"}, stale : BOOLEAN]

\* Proposals as a page has them: a decision among them is the API's.
Reflects(items) ==
    /\ items \in [DOMAIN items -> Offers] /\ DOMAIN items \subseteq DOMAIN offers
    /\ \A i \in DOMAIN items : ProposalCards!Decided(items[i]) => offers[i].status = items[i].status

\* What came knows every decision that was shown.
Knows(came, was) ==
    \A i \in DOMAIN was \cap DOMAIN came : ProposalCards!Decided(was[i]) => came[i].status = was[i].status

\* The load that may still have an effect knows the decisions that are shown: a decision
\* that is shown later ends it.
LoadKnows ==
    load # None =>
        /\ load = [older |-> load.older, cursor |-> load.cursor, got |-> load.got, count |-> load.count,
                   answer |-> load.answer, by |-> load.by]
        /\ Reflects(load.got) /\ Knows(load.got, cards.items)
        /\ load.answer # None => Reflects(load.answer.items) /\ Knows(load.answer.items, cards.items)

\* A decision that was confirmed has been made.
DecisionsMade ==
    \A d \in decisions :
        /\ d = [id |-> d.id, decision |-> d.decision, stage |-> d.stage, mine |-> d.mine]
        /\ d.id \in DOMAIN offers /\ d.decision \in {"approve", "reject"}
        /\ d.stage = "confirmed" => offers[d.id].status = ProposalCards!Status(d.decision)

CardsInv ==
    /\ offers \in Seq(Offers)
    /\ cards = [items |-> cards.items, before |-> cards.before, pages |-> cards.pages, error |-> cards.error]
    /\ Reflects(cards.items)
    /\ LoadKnows
    /\ DecisionsMade

\* The API forgets no proposal and changes no decision.
DecisionsFinal ==
    /\ offers' \in Seq(Offers) /\ DOMAIN offers \subseteq DOMAIN offers'
    /\ \A i \in DOMAIN offers : ProposalCards!Decided(offers[i]) => offers'[i].status = offers[i].status

\* The rows of a sequence of proposals.
LEMMA OffersAre ==
    ASSUME NEW s \in Seq(Offers)
    PROVE  /\ DOMAIN s = 1 .. Len(s) /\ Len(s) \in Nat
           /\ \A i \in DOMAIN s : s[i] \in Offers
  BY LenProperties, ElementOfSeq

\* What a page has is still right after a step of the API.
LEMMA StillReflects ==
    ASSUME CardsInv, DecisionsFinal, NEW items, Reflects(items)
    PROVE  Reflects(items)'
  BY OffersAre DEF CardsInv, DecisionsFinal, Reflects, ProposalCards!Decided, Offers

\* A proposal is changed in one field.
LEMMA OfferChanges ==
    ASSUME CardsInv, NEW i \in DOMAIN offers, NEW offer \in Offers,
           ProposalCards!Decided(offers[i]) => offer.status = offers[i].status,
           offers' = [offers EXCEPT ![i] = offer]
    PROVE  DecisionsFinal /\ offers'[i] = offer /\ DOMAIN offers' = DOMAIN offers
  <1>1. offers \in Seq(Offers) /\ i \in 1 .. Len(offers)
    BY OffersAre DEF CardsInv
  <1>2. /\ offers' \in Seq(Offers) /\ Len(offers') = Len(offers)
        /\ \A j \in 1 .. Len(offers) : offers'[j] = IF j = i THEN offer ELSE offers[j]
    BY <1>1, ExceptSeq
  <1>3. DOMAIN offers = 1 .. Len(offers) /\ DOMAIN offers' = 1 .. Len(offers)
    BY <1>1, <1>2, OffersAre
  <1> QED
    BY <1>1, <1>2, <1>3 DEF DecisionsFinal

\* A step of the API that leaves the page alone.
LEMMA ApiKeeps ==
    ASSUME CardsInv, DecisionsFinal, UNCHANGED <<cards, load>>,
           DecisionsMade'
    PROVE  CardsInv'
  <1>1. Reflects(cards.items)'
    BY StillReflects DEF CardsInv
  <1>2. LoadKnows'
    BY StillReflects DEF CardsInv, LoadKnows, Knows
  <1> QED
    BY <1>1, <1>2 DEF CardsInv, DecisionsFinal

\* Decisions that are left alone stay as they were made.
LEMMA StillMade ==
    ASSUME CardsInv, DecisionsFinal, UNCHANGED decisions
    PROVE  DecisionsMade'
  BY DEF CardsInv, DecisionsFinal, DecisionsMade, ProposalCards!Status, ProposalCards!Decided

\* What the API does by itself, or for another window.
LEMMA OthersKeep ==
    ASSUME CardsInv, ProposalCards!Propose \/ ProposalCards!TargetChanges \/ ProposalCards!DecidedElsewhere
    PROVE  CardsInv'
  <1>1. UNCHANGED <<cards, load, decisions>>
    BY DEF ProposalCards!Propose, ProposalCards!TargetChanges, ProposalCards!DecidedElsewhere
  <1>2. DecisionsFinal
    <2>1. CASE ProposalCards!Propose
      <3>1. ProposalCards!Pending \in Offers
        BY DEF ProposalCards!Pending, Offers
      <3>2. /\ offers' \in Seq(Offers) /\ Len(offers') = Len(offers) + 1
            /\ \A i \in 1 .. Len(offers) : offers'[i] = offers[i]
        BY <2>1, <3>1, AppendProperties DEF CardsInv, ProposalCards!Propose
      <3>3. DOMAIN offers = 1 .. Len(offers) /\ DOMAIN offers' = 1 .. Len(offers') /\ Len(offers) \in Nat
        BY <3>2, OffersAre DEF CardsInv
      <3> QED
        BY <3>2, <3>3 DEF DecisionsFinal
    <2>2. CASE ProposalCards!TargetChanges
      <3>1. PICK i \in DOMAIN offers : offers' = [offers EXCEPT ![i].stale = TRUE]
        BY <2>2 DEF ProposalCards!TargetChanges, ProposalCards!Made
      <3>2. PICK offer : offer = [offers[i] EXCEPT !.stale = TRUE]
        OBVIOUS
      <3>3. offers[i] \in Offers
        BY OffersAre DEF CardsInv
      <3>4. offer \in Offers /\ offer.status = offers[i].status
        BY <3>2, <3>3 DEF Offers
      <3>5. offers' = [offers EXCEPT ![i] = offer]
        BY <3>1, <3>2
      <3> QED
        BY <3>4, <3>5, OfferChanges
    <2>3. CASE ProposalCards!DecidedElsewhere
      <3>1. PICK i \in DOMAIN offers, decision \in {"approve", "reject"} :
               ~ProposalCards!Decided(offers[i])
               /\ offers' = [offers EXCEPT ![i].status = ProposalCards!Status(decision)]
        BY <2>3 DEF ProposalCards!DecidedElsewhere, ProposalCards!Made, ProposalCards!Decidable
      <3>2. PICK offer : offer = [offers[i] EXCEPT !.status = ProposalCards!Status(decision)]
        OBVIOUS
      <3>3. offer \in Offers /\ offers' = [offers EXCEPT ![i] = offer]
        BY <3>1, <3>2, OffersAre DEF CardsInv, Offers, ProposalCards!Status
      <3> QED
        BY <3>1, <3>3, OfferChanges
    <2> QED
      BY <2>1, <2>2, <2>3
  <1> QED
    BY <1>1, <1>2, StillMade, ApiKeeps

\* A decision arrives at the API.
LEMMA DecisionKeeps ==
    ASSUME CardsInv, NEW d \in decisions, ProposalCards!AnswerDecision(d)
    PROVE  CardsInv'
  <1>1. PICK answer \in {"confirmed", "failed"} :
           /\ answer = IF ProposalCards!Decidable(d.id, d.decision) THEN "confirmed" ELSE "failed"
           /\ offers' = IF answer = "confirmed"
                        THEN [offers EXCEPT ![d.id].status = ProposalCards!Status(d.decision)] ELSE offers
           /\ decisions' = (decisions \ {d}) \cup (IF d.stage = "sent" THEN {[d EXCEPT !.stage = answer]} ELSE {})
           /\ UNCHANGED <<cards, load>>
    BY DEF ProposalCards!AnswerDecision
  <1>2. /\ d = [id |-> d.id, decision |-> d.decision, stage |-> d.stage, mine |-> d.mine]
        /\ d.id \in DOMAIN offers /\ d.decision \in {"approve", "reject"}
    BY DEF CardsInv, DecisionsMade
  <1>3. DecisionsFinal /\ (answer = "confirmed" => offers'[d.id].status = ProposalCards!Status(d.decision))
    <2>1. CASE answer = "confirmed"
      <3>1. PICK offer : offer = [offers[d.id] EXCEPT !.status = ProposalCards!Status(d.decision)]
        OBVIOUS
      <3>2. /\ offer \in Offers /\ offer.status = ProposalCards!Status(d.decision)
            /\ offers' = [offers EXCEPT ![d.id] = offer]
        BY <1>1, <1>2, <2>1, <3>1, OffersAre DEF CardsInv, Offers, ProposalCards!Status
      <3>3. ~ProposalCards!Decided(offers[d.id])
        BY <1>1, <2>1 DEF ProposalCards!Decidable
      <3> QED
        BY <1>2, <3>2, <3>3, OfferChanges
    <2>2. CASE answer = "failed"
      BY <1>1, <2>2 DEF CardsInv, DecisionsFinal
    <2> QED
      BY <2>1, <2>2
  <1>4. PICK said : said = [d EXCEPT !.stage = answer]
    OBVIOUS
  <1>5. said = [id |-> d.id, decision |-> d.decision, stage |-> answer, mine |-> d.mine]
    BY <1>2, <1>4
  <1>6. DecisionsMade'
    <2> SUFFICES ASSUME NEW e \in decisions'
                 PROVE  /\ e = [id |-> e.id, decision |-> e.decision, stage |-> e.stage, mine |-> e.mine]
                        /\ e.id \in DOMAIN offers' /\ e.decision \in {"approve", "reject"}
                        /\ e.stage = "confirmed" => offers'[e.id].status = ProposalCards!Status(e.decision)
      BY DEF DecisionsMade
    <2>1. e \in decisions \/ e = said
      BY <1>1, <1>4
    <2>2. CASE e \in decisions
      BY <1>3, <2>2 DEF CardsInv, DecisionsMade, DecisionsFinal, ProposalCards!Status, ProposalCards!Decided
    <2>3. CASE e = said
      BY <1>2, <1>3, <1>5, <2>3 DEF DecisionsFinal
    <2> QED
      BY <2>1, <2>2, <2>3
  <1> QED
    BY <1>1, <1>3, <1>6, ApiKeeps

\* What comes is shown over what was shown.
LEMMA JoinedReflects ==
    ASSUME NEW came, NEW was, Reflects(came), Reflects(was)
    PROVE  /\ Reflects(ProposalCards!Joined(came, was))
           /\ \A shown : Knows(came, shown) /\ Knows(was, shown) => Knows(ProposalCards!Joined(came, was), shown)
           /\ Knows(came, was) => Knows(ProposalCards!Joined(came, was), was)
  <1>1. PICK both : both = ProposalCards!Joined(came, was)
    OBVIOUS
  <1>a. both = [i \in DOMAIN came \cup DOMAIN was |-> IF i \in DOMAIN came THEN came[i] ELSE was[i]]
    BY <1>1 DEF ProposalCards!Joined
  <1>b. /\ DOMAIN both = DOMAIN came \cup DOMAIN was
        /\ \A i \in DOMAIN came : both[i] = came[i]
        /\ \A i \in DOMAIN was \ DOMAIN came : both[i] = was[i]
    BY <1>a
  <1>c. both \in [DOMAIN both -> Offers]
    BY <1>a, <1>b DEF Reflects
  <1>2. Reflects(both)
    BY <1>b, <1>c DEF Reflects
  <1>3. ASSUME NEW shown, Knows(came, shown), Knows(was, shown)
        PROVE  Knows(both, shown)
    BY <1>b, <1>3 DEF Knows
  <1>4. Knows(came, was) => Knows(both, was)
    BY <1>b DEF Knows
  <1> QED
    BY <1>1, <1>2, <1>3, <1>4

\* No load has an effect while there is none, or one that has read nothing yet.
LEMMA LoadStarts ==
    ASSUME CardsInv, NEW older, NEW by, load' = ProposalCards!NewLoad(older, by) \/ load' = None,
           UNCHANGED offers
    PROVE  LoadKnows'
  <1>1. CASE load' = ProposalCards!NewLoad(older, by)
    <2>1. /\ load' = [older |-> load'.older, cursor |-> load'.cursor, got |-> load'.got, count |-> load'.count,
                      answer |-> load'.answer, by |-> load'.by]
          /\ load'.got = <<>> /\ load'.answer = None
      BY <1>1 DEF ProposalCards!NewLoad
    <2>2. DOMAIN <<>> = {} /\ <<>> \in [{} -> Offers]
      OBVIOUS
    <2>3. Reflects(load.got)' /\ Knows(load.got, cards.items)'
      BY <2>1, <2>2 DEF Reflects, Knows
    <2> QED
      BY <2>1, <2>3 DEF LoadKnows
  <1>2. CASE load' = None
    BY <1>2 DEF LoadKnows
  <1> QED
    BY <1>1, <1>2

\* A step that reads nothing into what is shown and confirms nothing.
LEMMA StepOfHook ==
    ASSUME CardsInv, UNCHANGED <<offers, cards>>, LoadKnows', DecisionsMade'
    PROVE  CardsInv'
  BY DEF CardsInv, Reflects

\* The decisions of a page of which some cards left.
LEMMA SeenMade ==
    ASSUME CardsInv, UNCHANGED offers, NEW items, decisions' = ProposalCards!Seen(items)
    PROVE  DecisionsMade'
  <1> SUFFICES ASSUME NEW e \in decisions'
               PROVE  /\ e = [id |-> e.id, decision |-> e.decision, stage |-> e.stage, mine |-> e.mine]
                      /\ e.id \in DOMAIN offers /\ e.decision \in {"approve", "reject"}
                      /\ e.stage = "confirmed" => offers[e.id].status = ProposalCards!Status(e.decision)
    BY DEF DecisionsMade
  <1>1. PICK d \in decisions : e = [d EXCEPT !.mine = @ /\ d.id \in DOMAIN items]
    BY DEF ProposalCards!Seen
  <1>2. /\ d = [id |-> d.id, decision |-> d.decision, stage |-> d.stage, mine |-> d.mine]
        /\ d.id \in DOMAIN offers /\ d.decision \in {"approve", "reject"}
        /\ d.stage = "confirmed" => offers[d.id].status = ProposalCards!Status(d.decision)
    BY DEF CardsInv, DecisionsMade
  <1>3. PICK mine : e = [d EXCEPT !.mine = mine]
    BY <1>1
  <1> QED
    BY <1>2, <1>3

\* A page is read: it is the proposals as they are.
LEMMA AnswerPageKeeps ==
    ASSUME CardsInv, ProposalCards!AnswerPage
    PROVE  CardsInv'
  <1>1. load # None /\ UNCHANGED <<offers, cards, decisions>>
    BY DEF ProposalCards!AnswerPage
  <1>2. PICK answer : answer = ProposalCards!Page(load.cursor)
    OBVIOUS
  <1>3. load' = [load EXCEPT !.answer = answer]
    BY <1>2 DEF ProposalCards!AnswerPage
  <1>4. PICK read \in SUBSET DOMAIN offers : answer.items = [i \in read |-> offers[i]]
    <2>1. PICK read : read = ProposalCards!OnPage(load.cursor)
      OBVIOUS
    <2>2. read \in SUBSET DOMAIN offers
      BY <2>1 DEF ProposalCards!OnPage, ProposalCards!Below, ProposalCards!Made
    <2>3. answer.items = [i \in read |-> offers[i]]
      BY <1>2, <2>1 DEF ProposalCards!Page, ProposalCards!Restrict
    <2> QED
      BY <2>2, <2>3
  <1>5. Reflects(answer.items)
    BY <1>4, OffersAre DEF CardsInv, Reflects
  <1>6. Knows(answer.items, cards.items)
    BY <1>4 DEF CardsInv, Reflects, Knows
  <1>7. LoadKnows'
    <2>1. load' = [older |-> load.older, cursor |-> load.cursor, got |-> load.got, count |-> load.count,
                   answer |-> answer, by |-> load.by]
      BY <1>1, <1>3 DEF CardsInv, LoadKnows
    <2>2. Reflects(load.got) /\ Knows(load.got, cards.items)
      BY <1>1 DEF CardsInv, LoadKnows
    <2> QED
      BY <1>1, <1>5, <1>6, <2>1, <2>2 DEF LoadKnows, Reflects, Knows
  <1> QED
    BY <1>1, <1>7, StepOfHook DEF CardsInv, DecisionsMade

\* The next page is asked for, or a load begins.
LEMMA LoadsKeep ==
    ASSUME CardsInv, ProposalCards!NextPage \/ ProposalCards!Refresh \/ ProposalCards!LoadOlder
    PROVE  CardsInv'
  <1>1. UNCHANGED <<offers, cards, decisions>>
    BY DEF ProposalCards!NextPage, ProposalCards!Refresh, ProposalCards!LoadOlder
  <1>2. LoadKnows'
    <2>1. CASE ProposalCards!NextPage
      <3>1. load # None /\ load.answer # None
        BY <2>1 DEF ProposalCards!NextPage
      <3>2. PICK got, count, cursor :
               got = ProposalCards!Joined(load.answer.items, load.got)
               /\ count = load.count + 1 /\ cursor = load.answer.before
        OBVIOUS
      <3>3. load' = [load EXCEPT !.got = got, !.count = count, !.cursor = cursor, !.answer = None]
        BY <2>1, <3>2 DEF ProposalCards!NextPage
      <3>4. load' = [older |-> load.older, cursor |-> cursor, got |-> got, count |-> count,
                     answer |-> None, by |-> load.by]
        BY <3>1, <3>3 DEF CardsInv, LoadKnows
      <3>5. Reflects(got) /\ Knows(got, cards.items)
        BY <3>1, <3>2, JoinedReflects DEF CardsInv, LoadKnows
      <3> QED
        BY <1>1, <3>4, <3>5 DEF LoadKnows, Reflects, Knows
    <2>2. CASE ProposalCards!Refresh
      BY <1>1, <2>2, LoadStarts DEF ProposalCards!Refresh
    <2>3. CASE ProposalCards!LoadOlder
      BY <1>1, <2>3, LoadStarts DEF ProposalCards!LoadOlder
    <2> QED
      BY <2>1, <2>2, <2>3
  <1> QED
    BY <1>1, <1>2, StepOfHook DEF CardsInv, DecisionsMade

\* A load ends: what came is shown.
LEMMA LoadedKeeps ==
    ASSUME CardsInv, ProposalCards!Loaded
    PROVE  CardsInv' /\ ProposalCards!DecidedStaysDecided
  <1>1. load # None /\ load.answer # None /\ UNCHANGED offers /\ load' = None
    BY DEF ProposalCards!Loaded
  <1>2. PICK got : got = ProposalCards!Joined(load.answer.items, load.got)
    OBVIOUS
  <1>3. PICK items : items = IF load.older = None THEN got ELSE ProposalCards!Joined(got, cards.items)
    OBVIOUS
  <1>4. PICK before, pages : cards' = [items |-> items, before |-> before, error |-> FALSE, pages |-> pages]
    BY <1>2, <1>3 DEF ProposalCards!Loaded
  <1>5. decisions' = ProposalCards!Seen(items)
    BY <1>2, <1>3 DEF ProposalCards!Loaded
  <1>6. Reflects(got) /\ Knows(got, cards.items)
    BY <1>1, <1>2, JoinedReflects DEF CardsInv, LoadKnows
  <1>7. Reflects(items) /\ Knows(items, cards.items)
    BY <1>3, <1>6, JoinedReflects DEF CardsInv
  <1>8. cards'.items = items
        /\ cards' = [items |-> cards'.items, before |-> cards'.before, pages |-> cards'.pages, error |-> cards'.error]
    BY <1>4
  <1>9. DecisionsMade'
    BY <1>1, <1>5, SeenMade
  <1>10. LoadKnows'
    BY <1>1 DEF LoadKnows
  <1>11. Reflects(cards.items)'
    BY <1>1, <1>7, <1>8 DEF Reflects
  <1>12. CardsInv'
    BY <1>1, <1>8, <1>9, <1>10, <1>11 DEF CardsInv
  <1>13. ProposalCards!DecidedStaysDecided
    BY <1>7, <1>8 DEF Knows, ProposalCards!DecidedStaysDecided
  <1> QED
    BY <1>12, <1>13

\* A load fails.
LEMMA LoadFailsKeeps ==
    ASSUME CardsInv, ProposalCards!LoadFails
    PROVE  CardsInv' /\ ProposalCards!DecidedStaysDecided
  <1>1. /\ UNCHANGED offers /\ load' = None /\ cards' = [cards EXCEPT !.error = TRUE]
        /\ decisions' = ProposalCards!Seen(cards.items)
    BY DEF ProposalCards!LoadFails
  <1>2. cards'.items = cards.items
        /\ cards' = [items |-> cards'.items, before |-> cards'.before, pages |-> cards'.pages, error |-> cards'.error]
    BY <1>1 DEF CardsInv
  <1>3. DecisionsMade'
    BY <1>1, SeenMade
  <1>4. LoadKnows' /\ Reflects(cards.items)'
    BY <1>1, <1>2 DEF CardsInv, LoadKnows, Reflects
  <1> QED
    BY <1>1, <1>2, <1>3, <1>4 DEF CardsInv, ProposalCards!DecidedStaysDecided

\* A decision that was confirmed is shown: what is shown of it already is the same, and
\* no load that began before has an effect.
LEMMA ConfirmedKeeps ==
    ASSUME CardsInv, NEW d \in decisions, ProposalCards!Confirmed(d)
    PROVE  CardsInv' /\ ProposalCards!DecidedStaysDecided
  <1>1. /\ UNCHANGED offers /\ load' = None /\ decisions' = decisions \ {d}
        /\ d.decision \in {"approve", "reject"}
        /\ offers[d.id].status = ProposalCards!Status(d.decision)
    BY DEF ProposalCards!Confirmed, CardsInv, DecisionsMade
  <1>2. PICK status \in {"approved", "rejected"} : status = ProposalCards!Status(d.decision)
    BY <1>1 DEF ProposalCards!Status
  <1>3. PICK items : items = IF d.id \in DOMAIN cards.items
                             THEN [cards.items EXCEPT ![d.id].status = status] ELSE cards.items
    OBVIOUS
  <1>4. cards' = [cards EXCEPT !.items = items]
    BY <1>2, <1>3 DEF ProposalCards!Confirmed
  <1>5. /\ DOMAIN items = DOMAIN cards.items /\ items \in [DOMAIN items -> Offers]
        /\ \A i \in DOMAIN items :
              items[i].status = IF i = d.id THEN status ELSE cards.items[i].status
    <2>1. cards.items \in [DOMAIN cards.items -> Offers]
      BY DEF CardsInv, Reflects
    <2>2. CASE d.id \in DOMAIN cards.items
      <3>1. PICK card : card = [cards.items[d.id] EXCEPT !.status = status]
        OBVIOUS
      <3>2. card \in Offers /\ card.status = status
        BY <1>2, <2>1, <2>2, <3>1 DEF Offers
      <3>3. items = [cards.items EXCEPT ![d.id] = card]
        BY <1>3, <2>2, <3>1
      <3> QED
        BY <2>1, <2>2, <3>2, <3>3
    <2>3. CASE d.id \notin DOMAIN cards.items
      BY <1>3, <2>1, <2>3
    <2> QED
      BY <2>2, <2>3
  <1>6. cards'.items = items
        /\ cards' = [items |-> cards'.items, before |-> cards'.before, pages |-> cards'.pages, error |-> cards'.error]
    BY <1>4 DEF CardsInv
  <1>7. Reflects(cards.items)'
    BY <1>1, <1>2, <1>5, <1>6 DEF CardsInv, Reflects, ProposalCards!Decided
  <1>8. ProposalCards!DecidedStaysDecided
    BY <1>1, <1>2, <1>5, <1>6 DEF CardsInv, Reflects, ProposalCards!DecidedStaysDecided
  <1>9. LoadKnows' /\ DecisionsMade'
    BY <1>1 DEF CardsInv, LoadKnows, DecisionsMade
  <1> QED
    BY <1>1, <1>6, <1>7, <1>8, <1>9 DEF CardsInv

\* The owner decides, a decision fails, or it ends.
LEMMA DecisionStepsKeep ==
    ASSUME CardsInv,
           \/ \E i \in ProposalCards!Ids, decision \in {"approve", "reject"} : ProposalCards!Decide(i, decision)
           \/ \E d \in decisions : ProposalCards!DecisionFails(d) \/ ProposalCards!Ends(d)
    PROVE  CardsInv'
  <1>1. UNCHANGED <<offers, cards>>
    BY DEF ProposalCards!Decide, ProposalCards!DecisionFails, ProposalCards!Ends
  <1>2. LoadKnows'
    <2>1. UNCHANGED load \/ \E d : load' = ProposalCards!NewLoad(None, d.id)
      BY DEF ProposalCards!Decide, ProposalCards!DecisionFails, ProposalCards!Ends
    <2> QED
      BY <1>1, <2>1, LoadStarts DEF CardsInv, LoadKnows, Reflects
  <1>3. \A e \in decisions' \ decisions :
           /\ e = [id |-> e.id, decision |-> e.decision, stage |-> e.stage, mine |-> e.mine]
           /\ e.id \in DOMAIN offers /\ e.decision \in {"approve", "reject"} /\ e.stage # "confirmed"
    <2>1. ASSUME NEW i \in ProposalCards!Ids, NEW decision \in {"approve", "reject"},
                 ProposalCards!Decide(i, decision), NEW e \in decisions' \ decisions
          PROVE  /\ e = [id |-> e.id, decision |-> e.decision, stage |-> e.stage, mine |-> e.mine]
                 /\ e.id \in DOMAIN offers /\ e.decision \in {"approve", "reject"} /\ e.stage # "confirmed"
      <3>1. e = [id |-> i, decision |-> decision, stage |-> "sent", mine |-> TRUE]
        BY <2>1 DEF ProposalCards!Decide
      <3>2. i \in DOMAIN offers
        BY <2>1 DEF ProposalCards!Decide, CardsInv, Reflects
      <3> QED
        BY <3>1, <3>2
    <2>2. ASSUME NEW d \in decisions, ProposalCards!DecisionFails(d), NEW e \in decisions' \ decisions
          PROVE  /\ e = [id |-> e.id, decision |-> e.decision, stage |-> e.stage, mine |-> e.mine]
                 /\ e.id \in DOMAIN offers /\ e.decision \in {"approve", "reject"} /\ e.stage # "confirmed"
      <3>1. /\ d = [id |-> d.id, decision |-> d.decision, stage |-> d.stage, mine |-> d.mine]
            /\ d.id \in DOMAIN offers /\ d.decision \in {"approve", "reject"}
        BY DEF CardsInv, DecisionsMade
      <3>2. e = [d EXCEPT !.stage = "refreshing"] \/ e = [d EXCEPT !.stage = "unheard", !.mine = FALSE]
        BY <2>2 DEF ProposalCards!DecisionFails
      <3>3. \/ e = [id |-> d.id, decision |-> d.decision, stage |-> "refreshing", mine |-> d.mine]
            \/ e = [id |-> d.id, decision |-> d.decision, stage |-> "unheard", mine |-> FALSE]
        BY <3>1, <3>2
      <3> QED
        BY <3>1, <3>3
    <2>3. ASSUME NEW d \in decisions, ProposalCards!Ends(d)
          PROVE  decisions' \ decisions = {}
      BY <2>3 DEF ProposalCards!Ends
    <2> QED
      BY <2>1, <2>2, <2>3
  <1>4. DecisionsMade'
    BY <1>1, <1>3 DEF CardsInv, DecisionsMade
  <1> QED
    BY <1>1, <1>2, <1>4, StepOfHook

\* The invariant holds at the start.
LEMMA CardsStart ==
    ASSUME ProposalCards!Init
    PROVE  CardsInv
  <1>1. offers \in Seq(Offers)
    <2>1. PICK n \in 0 .. MaxProposals : offers \in [1 .. n -> {ProposalCards!Pending}]
      BY DEF ProposalCards!Init
    <2>2. ProposalCards!Pending \in Offers
      BY DEF ProposalCards!Pending, Offers
    <2>3. offers \in [1 .. n -> Offers] /\ n \in Nat
      BY <2>1, <2>2
    <2> QED
      BY <2>3
  <1>2. /\ cards = [items |-> <<>>, before |-> None, pages |-> 1, error |-> FALSE]
        /\ load = ProposalCards!NewLoad(None, None) /\ decisions = {}
    BY DEF ProposalCards!Init
  <1>3. DOMAIN <<>> = {} /\ <<>> \in [{} -> Offers]
    OBVIOUS
  <1>4. cards.items = <<>> /\ Reflects(cards.items)
    BY <1>2, <1>3 DEF Reflects
  <1>5. /\ load = [older |-> load.older, cursor |-> load.cursor, got |-> load.got, count |-> load.count,
                   answer |-> load.answer, by |-> load.by]
        /\ load.got = <<>> /\ load.answer = None
    BY <1>2 DEF ProposalCards!NewLoad
  <1>6. LoadKnows
    BY <1>3, <1>4, <1>5 DEF LoadKnows, Reflects, Knows
  <1> QED
    BY <1>1, <1>2, <1>4, <1>6 DEF CardsInv, DecisionsMade

\* Every step keeps the invariant, and no card that shows a decision is shown open again.
LEMMA CardsKeep ==
    ASSUME CardsInv, ProposalCards!Next \/ UNCHANGED proposals
    PROVE  CardsInv' /\ ProposalCards!DecidedStaysDecided
  <1>1. ASSUME UNCHANGED cards
        PROVE  ProposalCards!DecidedStaysDecided
    BY <1>1 DEF ProposalCards!DecidedStaysDecided
  <1>2. CASE UNCHANGED proposals
    <2>1. UNCHANGED <<offers, cards, load, decisions>>
      BY <1>2 DEF proposals
    <2> QED
      BY <1>1, <2>1 DEF CardsInv, Reflects, LoadKnows, Knows, DecisionsMade
  <1>3. CASE ProposalCards!Propose \/ ProposalCards!TargetChanges \/ ProposalCards!DecidedElsewhere
    <2>1. UNCHANGED cards
      BY <1>3 DEF ProposalCards!Propose, ProposalCards!TargetChanges, ProposalCards!DecidedElsewhere
    <2> QED
      BY <1>1, <1>3, <2>1, OthersKeep
  <1>4. CASE ProposalCards!AnswerPage
    BY <1>1, <1>4, AnswerPageKeeps DEF ProposalCards!AnswerPage
  <1>5. CASE ProposalCards!NextPage \/ ProposalCards!Refresh \/ ProposalCards!LoadOlder
    <2>1. UNCHANGED cards
      BY <1>5 DEF ProposalCards!NextPage, ProposalCards!Refresh, ProposalCards!LoadOlder
    <2> QED
      BY <1>1, <1>5, <2>1, LoadsKeep
  <1>6. CASE ProposalCards!Loaded
    BY <1>6, LoadedKeeps
  <1>7. CASE ProposalCards!LoadFails
    BY <1>7, LoadFailsKeeps
  <1>8. ASSUME NEW d \in decisions, ProposalCards!AnswerDecision(d)
        PROVE  CardsInv' /\ ProposalCards!DecidedStaysDecided
    BY <1>1, <1>8, DecisionKeeps DEF ProposalCards!AnswerDecision
  <1>9. ASSUME NEW d \in decisions, ProposalCards!Confirmed(d)
        PROVE  CardsInv' /\ ProposalCards!DecidedStaysDecided
    BY <1>9, ConfirmedKeeps
  <1>10. CASE \/ \E i \in ProposalCards!Ids, decision \in {"approve", "reject"} : ProposalCards!Decide(i, decision)
              \/ \E d \in decisions : ProposalCards!DecisionFails(d) \/ ProposalCards!Ends(d)
    <2>1. UNCHANGED cards
      BY <1>10 DEF ProposalCards!Decide, ProposalCards!DecisionFails, ProposalCards!Ends
    <2> QED
      BY <1>1, <1>10, <2>1, DecisionStepsKeep
  <1> QED
    BY <1>2, <1>3, <1>4, <1>5, <1>6, <1>7, <1>8, <1>9, <1>10 DEF ProposalCards!Next

\* A card that shows a decision is never shown open again.
THEOREM DecisionsStayShown == Spec => DecidedStaysDecided
  <1>1. Init => (part = "proposals" => CardsInv)
    BY CardsStart DEF Init
  <1>2. (part = "proposals" => CardsInv) /\ [Next]_vars => (part = "proposals" => CardsInv)'
    BY PartStep, CardsKeep
  <1>3. (part = "proposals" => CardsInv) /\ [Next]_vars
        => [part = "proposals" => ProposalCards!DecidedStaysDecided]_vars
    BY PartStep, CardsKeep
  <1> QED
    BY <1>1, <1>2, <1>3, PTL DEF Spec, DecidedStaysDecided

-----------------------------------------------------------------------------
(* The bank connection *)

BankRow == [version : Nat, code : Codes, setup : Setups]
Readings == {None} \cup [id : Nat, row : BankRow]
BankTab == [seen : Readings, loaded : BOOLEAN, failed : BOOLEAN, saving : BOOLEAN]

\* A row was read here: while it has this version it is the same.
WasRead(id, row) ==
    /\ id \in DOMAIN connections /\ row \in BankRow
    /\ row.version <= connections[id].version
    /\ row.version = connections[id].version => row = connections[id]

ReadingFits(reading) == reading \in Readings /\ (reading # None => WasRead(reading.id, reading.row))

\* What a request names is what the owner may enter.
FieldsFit(fields) ==
    /\ "code" \in DOMAIN fields => fields["code"] \in Codes
    /\ "setup" \in DOMAIN fields => fields["setup"] \in Setups

BankCallFits(c) ==
    /\ c = [tab |-> c.tab, kind |-> c.kind, body |-> c.body, stage |-> c.stage, read |-> c.read,
            answer |-> c.answer]
    /\ c.tab \in Tabs /\ c.kind \in {"create", "update", "load", "reload"}
    /\ c.kind = "create" => c.body.fields \in BankConnection!Fields
    /\ c.kind = "update" =>
          /\ WasRead(c.body.id, c.body.over) /\ c.body.expected = c.body.over.version
          /\ FieldsFit(c.body.fields)
    /\ c.kind \in {"load", "reload"} /\ c.stage = "answered" => ReadingFits(c.answer.readiness)

\* A request that has read its row has it as it is, and of the version it expects.
RowHeld(c) ==
    c.read # None => /\ c.kind = "update" /\ c.read = connections[c.body.id]
                     /\ c.body.expected = c.read.version

BankInv ==
    /\ connections \in Seq(BankRow)
    /\ form \in [Tabs -> BankTab]
    /\ \A t \in Tabs : ReadingFits(form[t].seen)
    /\ \A c \in bankCalls : BankCallFits(c) /\ RowHeld(c)
    /\ \A c, d \in bankCalls : c.read # None /\ d.read # None /\ c.body.id = d.body.id => c = d

\* A row changes with its version.
RowsMove ==
    /\ connections' \in Seq(BankRow) /\ DOMAIN connections \subseteq DOMAIN connections'
    /\ \A i \in DOMAIN connections :
          \/ connections'[i] = connections[i]
          \/ connections'[i].version = connections[i].version + 1

\* The rows of the sequence.
LEMMA BankRowsAre ==
    ASSUME NEW s \in Seq(BankRow)
    PROVE  /\ DOMAIN s = 1 .. Len(s) /\ Len(s) \in Nat
           /\ \A i \in DOMAIN s : s[i] \in BankRow /\ s[i].version \in Nat
  <1>1. \A i \in 1 .. Len(s) : s[i] \in BankRow
    BY ElementOfSeq
  <1> QED
    BY <1>1, LenProperties DEF BankRow

\* What was read stays what was read.
LEMMA StillRead ==
    ASSUME BankInv, RowsMove
    PROVE  /\ \A id, row : WasRead(id, row) => WasRead(id, row)'
           /\ \A reading : ReadingFits(reading) => ReadingFits(reading)'
           /\ \A c : BankCallFits(c) => BankCallFits(c)'
  <1>1. ASSUME NEW id, NEW row, WasRead(id, row)
        PROVE  WasRead(id, row)'
    <2>1. /\ id \in DOMAIN connections /\ id \in DOMAIN connections'
          /\ connections[id].version \in Nat /\ row.version \in Nat
      BY <1>1, BankRowsAre DEF BankInv, RowsMove, WasRead, BankRow
    <2>2. CASE connections'[id] = connections[id]
      BY <1>1, <2>1, <2>2 DEF WasRead
    <2>3. CASE connections'[id].version = connections[id].version + 1
      <3>1. row.version < connections'[id].version
        BY <1>1, <2>1, <2>3 DEF WasRead
      <3> QED
        BY <1>1, <2>1, <2>3, <3>1 DEF WasRead
    <2> QED
      BY <2>1, <2>2, <2>3 DEF RowsMove
  <1>2. ASSUME NEW reading, ReadingFits(reading)
        PROVE  ReadingFits(reading)'
    BY <1>1, <1>2 DEF ReadingFits
  <1>3. ASSUME NEW c, BankCallFits(c)
        PROVE  BankCallFits(c)'
    BY <1>1, <1>2, <1>3 DEF BankCallFits
  <1> QED
    BY <1>1, <1>2, <1>3

\* The rows are as they were.
LEMMA RowsStay ==
    ASSUME BankInv, UNCHANGED connections
    PROVE  RowsMove /\ BankConnection!NoUpdateLost
  BY DEF BankInv, RowsMove, BankConnection!NoUpdateLost

\* A request is answered; what the others have read stays.
LEMMA BankAnswered ==
    ASSUME BankInv, RowsMove, NEW c \in bankCalls, c.stage # "answered", NEW answer,
           BankConnection!Answered(c, answer), UNCHANGED form,
           \A d \in bankCalls \ {c} : d.read # None => connections'[d.body.id] = connections[d.body.id],
           c.kind \in {"load", "reload"} => ReadingFits(answer.readiness)'
    PROVE  BankInv' /\ c \notin bankCalls'
  <1>1. PICK said : said = [[[c EXCEPT !.stage = "answered"] EXCEPT !.read = None] EXCEPT !.answer = answer]
    OBVIOUS
  <1>2. bankCalls' = (bankCalls \ {c}) \cup (IF c.stage = "sent" THEN {said} ELSE {})
    BY <1>1 DEF BankConnection!Answered
  <1>3. BankCallFits(c)
    BY DEF BankInv
  <1>4. said = [tab |-> c.tab, kind |-> c.kind, body |-> c.body, stage |-> "answered", read |-> None,
                answer |-> answer]
    <2>1. PICK c1 : c1 = [c EXCEPT !.stage = "answered"]
      OBVIOUS
    <2>2. c1 = [tab |-> c.tab, kind |-> c.kind, body |-> c.body, stage |-> "answered", read |-> c.read,
                answer |-> c.answer]
      BY <1>3, <2>1 DEF BankCallFits
    <2>3. PICK c2 : c2 = [c1 EXCEPT !.read = None]
      OBVIOUS
    <2>4. c2 = [tab |-> c.tab, kind |-> c.kind, body |-> c.body, stage |-> "answered", read |-> None,
                answer |-> c.answer]
      BY <2>2, <2>3
    <2>5. said = [c2 EXCEPT !.answer = answer]
      BY <1>1, <2>1, <2>3
    <2> QED
      BY <2>4, <2>5
  <1>5. said.stage = "answered" /\ said # c /\ said.read = None
    BY <1>4
  <1>6. BankCallFits(c)'
    BY <1>3, StillRead
  <1>7. BankCallFits(said)'
    BY <1>4, <1>6 DEF BankCallFits
  <1>8. \A d \in bankCalls' : BankCallFits(d)' /\ RowHeld(d)'
    BY <1>2, <1>5, <1>7, StillRead DEF BankInv, RowHeld
  <1>9. \A t \in Tabs : ReadingFits(form[t].seen)'
    BY StillRead DEF BankInv
  <1>10. \A d, e \in bankCalls' : d.read # None /\ e.read # None /\ d.body.id = e.body.id => d = e
    BY <1>2, <1>5 DEF BankInv
  <1> QED
    BY <1>2, <1>5, <1>8, <1>9, <1>10 DEF BankInv, RowsMove

\* A request reads its row, which nobody else holds.
LEMMA BankReads ==
    ASSUME RowLocks, BankInv, NEW c \in bankCalls, BankConnection!ReadConnection(c), c.stage # "answered",
           UNCHANGED form
    PROVE  BankInv' /\ BankConnection!NoUpdateLost
  <1>1. BankCallFits(c) /\ c.kind = "update" /\ BankConnection!RowFree(c) /\ UNCHANGED connections
    BY DEF BankInv, BankConnection!ReadConnection
  <1>2. RowsMove /\ BankConnection!NoUpdateLost
    BY <1>1, RowsStay
  <1>3. CASE BankConnection!Answered(c, [ok |-> FALSE])
    BY <1>1, <1>2, <1>3, BankAnswered
  <1>4. CASE ~BankConnection!Answered(c, [ok |-> FALSE])
    <2>1. PICK row : row = connections[c.body.id]
      OBVIOUS
    <2>2. PICK held : held = [c EXCEPT !.read = row]
      OBVIOUS
    <2>3. BankConnection!Current(c.body) /\ bankCalls' = (bankCalls \ {c}) \cup {held}
      BY <1>4, <2>1, <2>2 DEF BankConnection!ReadConnection
    <2>4. held = [tab |-> c.tab, kind |-> c.kind, body |-> c.body, stage |-> c.stage, read |-> row,
                  answer |-> c.answer]
      BY <1>1, <2>2 DEF BankCallFits
    <2>5. BankCallFits(held) /\ RowHeld(held)
      BY <1>1, <2>1, <2>3, <2>4 DEF BankCallFits, RowHeld, BankConnection!Current
    <2>6. \A d \in bankCalls : d.read # None => d.body.id # held.body.id
      BY <1>1, <2>4 DEF BankConnection!RowFree
    <2>7. \A d, e \in bankCalls' : d.read # None /\ e.read # None /\ d.body.id = e.body.id => d = e
      BY <2>3, <2>6 DEF BankInv
    <2>8. \A d \in bankCalls' : BankCallFits(d)' /\ RowHeld(d)'
      BY <1>1, <1>2, <2>3, <2>5, StillRead DEF BankInv, RowHeld
    <2> QED
      BY <1>1, <1>2, <2>7, <2>8, StillRead DEF BankInv, RowsMove
  <1> QED
    BY <1>3, <1>4

\* The API handles a request: it replaces only what the request had read.
LEMMA BankHandleKeeps ==
    ASSUME RowLocks, BankInv, BankConnection!Handle
    PROVE  BankInv' /\ BankConnection!NoUpdateLost
  <1>1. PICK c \in bankCalls :
           /\ c.stage # "answered" /\ UNCHANGED form
           /\ \/ BankConnection!CreateConnection(c) \/ BankConnection!ReadConnection(c)
              \/ BankConnection!UpdateConnection(c) \/ BankConnection!Load(c)
    BY DEF BankConnection!Handle
  <1>2. BankCallFits(c)
    BY DEF BankInv
  <1>3. connections \in Seq(BankRow) /\ DOMAIN connections = 1 .. Len(connections) /\ Len(connections) \in Nat
    BY BankRowsAre DEF BankInv
  <1>4. CASE BankConnection!CreateConnection(c)
    <2>1. c.kind = "create"
      BY <1>4 DEF BankConnection!CreateConnection
    <2>2. PICK ok \in BOOLEAN : BankConnection!Answered(c, [ok |-> ok])
      BY <1>4 DEF BankConnection!CreateConnection
    <2>3. RowsMove /\ \A i \in DOMAIN connections : connections'[i] = connections[i]
      <3>1. CASE UNCHANGED connections
        BY <3>1, RowsStay
      <3>2. CASE connections' = Append(connections,
                    [version |-> 1, code |-> c.body.fields.code, setup |-> c.body.fields.setup])
        <4>1. PICK row \in BankRow : row = [version |-> 1, code |-> c.body.fields.code, setup |-> c.body.fields.setup]
          BY <1>2, <2>1 DEF BankCallFits, BankConnection!Fields, BankRow
        <4>2. /\ connections' \in Seq(BankRow) /\ Len(connections') = Len(connections) + 1
              /\ \A i \in 1 .. Len(connections) : connections'[i] = connections[i]
          BY <1>3, <3>2, <4>1, AppendProperties
        <4>3. DOMAIN connections' = 1 .. Len(connections')
          BY <4>2, BankRowsAre
        <4> QED
          BY <1>3, <4>2, <4>3 DEF RowsMove
      <3> QED
        BY <1>4, <3>1, <3>2 DEF BankConnection!CreateConnection
    <2>4. \A d \in bankCalls : d.read # None => d.body.id \in DOMAIN connections
      BY DEF BankInv, BankCallFits, RowHeld, WasRead
    <2>5. BankInv'
      BY <1>1, <2>1, <2>2, <2>3, <2>4, BankAnswered
    <2> QED
      BY <2>3, <2>5 DEF BankConnection!NoUpdateLost
  <1>5. CASE BankConnection!UpdateConnection(c)
    <2>1. c.kind = "update" /\ c.read = connections[c.body.id] /\ c.body.expected = c.read.version
      BY <1>5 DEF BankConnection!UpdateConnection, BankInv, RowHeld
    <2>2. PICK ok \in BOOLEAN : BankConnection!Answered(c, [ok |-> ok])
      BY <1>5 DEF BankConnection!UpdateConnection
    <2>3. CASE UNCHANGED connections
      BY <1>1, <2>1, <2>2, <2>3, RowsStay, BankAnswered
    <2>4. CASE connections' # connections
      <3>1. PICK id, row : id = c.body.id /\ row = BankConnection!Updated(connections[id], c.read, c.body)
        OBVIOUS
      <3>2. connections' = [connections EXCEPT ![id] = row]
        BY <1>5, <2>4, <3>1 DEF BankConnection!UpdateConnection
      <3>3. id \in DOMAIN connections /\ c.body.over = connections[id] /\ connections[id] \in BankRow
        BY <1>2, <1>3, <2>1, <3>1, BankRowsAre DEF BankCallFits, WasRead
      <3>4. row \in BankRow /\ row.version = connections[id].version + 1
        <4>1. FieldsFit(c.body.fields)
          BY <1>2, <2>1 DEF BankCallFits
        <4>2. PICK code, setup :
                 /\ code = IF "code" \in BankConnection!Changed(c.read, c.body) THEN c.body.fields["code"]
                           ELSE connections[id].code
                 /\ setup = IF "setup" \in BankConnection!Changed(c.read, c.body) THEN c.body.fields["setup"]
                            ELSE connections[id].setup
          OBVIOUS
        <4>3. code \in Codes /\ setup \in Setups
          BY <3>3, <4>1, <4>2 DEF BankRow, FieldsFit, BankConnection!Changed
        <4>4. row = [version |-> connections[id].version + 1, code |-> code, setup |-> setup]
          BY <2>1, <3>1, <4>2 DEF BankConnection!Updated
        <4> QED
          BY <3>3, <4>3, <4>4 DEF BankRow
      <3>5. /\ connections' \in Seq(BankRow) /\ Len(connections') = Len(connections)
            /\ \A i \in 1 .. Len(connections) : connections'[i] = IF i = id THEN row ELSE connections[i]
        BY <1>3, <3>2, <3>3, <3>4, ExceptSeq
      <3>6. DOMAIN connections' = 1 .. Len(connections')
        BY <3>5, BankRowsAre
      <3>7. RowsMove
        BY <1>3, <3>4, <3>5, <3>6 DEF RowsMove
      <3>8. \A d \in bankCalls \ {c} : d.read # None => d.body.id \in DOMAIN connections /\ d.body.id # id
        BY <1>5, <3>1 DEF BankInv, BankCallFits, RowHeld, WasRead, BankConnection!UpdateConnection
      <3>9. BankInv' /\ c \notin bankCalls'
        BY <1>1, <1>3, <2>1, <2>2, <3>5, <3>7, <3>8, BankAnswered
      <3> QED
        BY <1>3, <2>1, <3>1, <3>3, <3>5, <3>9 DEF BankConnection!NoUpdateLost
    <2> QED
      BY <2>3, <2>4
  <1>6. CASE BankConnection!Load(c)
    <2>1. BankConnection!Answered(c, [readiness |-> BankConnection!Readiness]) /\ UNCHANGED connections
      BY <1>6 DEF BankConnection!Load
    <2>2. ReadingFits(BankConnection!Readiness)
      <3>1. CASE connections = <<>>
        BY <3>1 DEF BankConnection!Readiness, ReadingFits, Readings
      <3>2. CASE connections # <<>>
        <4>1. Len(connections) \in DOMAIN connections
          BY <1>3, <3>2, EmptySeq
        <4>2. PICK row \in BankRow : row = connections[Len(connections)]
          BY <1>3, <4>1, BankRowsAre
        <4>3. BankConnection!Readiness = [id |-> Len(connections), row |-> row]
          BY <3>2, <4>2 DEF BankConnection!Readiness, BankConnection!Last
        <4>4. WasRead(Len(connections), row)
          BY <1>3, <4>1, <4>2, BankRowsAre DEF WasRead
        <4> QED
          BY <1>3, <4>3, <4>4 DEF ReadingFits, Readings
      <3> QED
        BY <3>1, <3>2
    <2>3. PICK reading : reading = BankConnection!Readiness /\ ReadingFits(reading)
      BY <2>2
    <2>4. RowsMove /\ BankConnection!NoUpdateLost
      BY <2>1, RowsStay
    <2>5. ReadingFits(reading)'
      BY <2>3, <2>4, StillRead
    <2> QED
      BY <1>1, <2>1, <2>3, <2>4, <2>5, BankAnswered
  <1>7. CASE BankConnection!ReadConnection(c)
    BY <1>1, <1>7, BankReads
  <1> QED
    BY <1>1, <1>4, <1>5, <1>6, <1>7

\* A request that the page has not waited for.
LateCall(c, d) == c = [d EXCEPT !.stage = "unheard"]

\* A step of the page: it adds no request but new ones that fit, waits for some no more,
\* and reads only readings.
LEMMA BankPageStep ==
    ASSUME BankInv, UNCHANGED connections, form' \in [Tabs -> BankTab],
           \A t \in Tabs : ReadingFits(form'[t].seen),
           \A c \in bankCalls' : \/ c \in bankCalls
                                 \/ BankCallFits(c) /\ c.read = None
                                 \/ \E d \in bankCalls \ bankCalls' : LateCall(c, d)
    PROVE  BankInv' /\ BankConnection!NoUpdateLost
  <1>1. RowsMove /\ BankConnection!NoUpdateLost
    BY RowsStay
  <1>2. \A t \in Tabs : ReadingFits(form[t].seen)'
    BY <1>1, StillRead
  <1>3. ASSUME NEW c, NEW d \in bankCalls, LateCall(c, d)
        PROVE  BankCallFits(c) /\ RowHeld(c) /\ c.read = d.read /\ c.body = d.body
    <2>1. BankCallFits(d) /\ RowHeld(d)
      BY DEF BankInv
    <2>2. c = [tab |-> d.tab, kind |-> d.kind, body |-> d.body, stage |-> "unheard", read |-> d.read,
               answer |-> d.answer]
      BY <1>3, <2>1 DEF BankCallFits, LateCall
    <2> QED
      BY <2>1, <2>2 DEF BankCallFits, RowHeld
  <1>4. \A c \in bankCalls' : BankCallFits(c) /\ RowHeld(c)
    BY <1>3 DEF BankInv, RowHeld
  <1>5. \A c \in bankCalls' : BankCallFits(c)' /\ RowHeld(c)'
    BY <1>1, <1>4, StillRead DEF RowHeld
  <1>6. ASSUME NEW c \in bankCalls', NEW d \in bankCalls', c.read # None, d.read # None, c.body.id = d.body.id
        PROVE  c = d
    <2>1. PICK c0 \in bankCalls : c = c0 \/ (LateCall(c, c0) /\ c0 \notin bankCalls')
      BY <1>6
    <2>2. PICK d0 \in bankCalls : d = d0 \/ (LateCall(d, d0) /\ d0 \notin bankCalls')
      BY <1>6
    <2>3. c0.read = c.read /\ c0.body = c.body /\ d0.read = d.read /\ d0.body = d.body
      BY <1>3, <2>1, <2>2
    <2>4. c0 = d0
      BY <1>6, <2>3 DEF BankInv
    <2> QED
      BY <2>1, <2>2, <2>4 DEF LateCall
  <1> QED
    BY <1>1, <1>2, <1>5, <1>6 DEF BankInv, RowsMove

\* The form of one tab is another.
LEMMA OneTab ==
    ASSUME BankInv, NEW t \in Tabs, NEW tab \in BankTab, ReadingFits(tab.seen),
           form' = [form EXCEPT ![t] = tab]
    PROVE  form' \in [Tabs -> BankTab] /\ \A u \in Tabs : ReadingFits(form'[u].seen)
  <1>1. /\ form' \in [Tabs -> BankTab]
        /\ \A u \in Tabs : form'[u] = IF u = t THEN tab ELSE form[u]
    BY DEF BankInv
  <1> QED
    BY <1>1 DEF BankInv

\* Two flags of a form are set, or its reading and its flags.
LEMMA TabFlags ==
    ASSUME BankInv, NEW t \in Tabs, NEW saving \in BOOLEAN, NEW failed \in BOOLEAN,
           form' = [form EXCEPT ![t].saving = saving, ![t].failed = failed]
    PROVE  form' \in [Tabs -> BankTab] /\ \A u \in Tabs : ReadingFits(form'[u].seen)
  <1>1. PICK tab : tab = [form[t] EXCEPT !.saving = saving, !.failed = failed]
    OBVIOUS
  <1>2. form[t] \in BankTab /\ ReadingFits(form[t].seen) /\ form \in [Tabs -> BankTab]
    BY DEF BankInv
  <1>3. tab \in BankTab /\ tab.seen = form[t].seen
    BY <1>1, <1>2 DEF BankTab
  <1>4. form' = [form EXCEPT ![t] = tab]
    BY <1>1, <1>2 DEF BankTab
  <1> QED
    BY <1>2, <1>3, <1>4, OneTab

\* A tab that has been read shows the reading, whatever its flags were.
LEMMA TabReads ==
    ASSUME BankInv, NEW t \in Tabs, NEW reading, ReadingFits(reading), NEW saving \in BOOLEAN,
           form' = [form EXCEPT ![t].seen = reading, ![t].loaded = TRUE, ![t].failed = FALSE, ![t].saving = saving]
    PROVE  form' \in [Tabs -> BankTab] /\ \A u \in Tabs : ReadingFits(form'[u].seen)
  <1>1. PICK tab : tab = [seen |-> reading, loaded |-> TRUE, failed |-> FALSE, saving |-> saving]
    OBVIOUS
  <1>2. form[t] \in BankTab /\ form \in [Tabs -> BankTab]
    BY DEF BankInv
  <1>3. tab \in BankTab /\ tab.seen = reading
    BY <1>1 DEF BankTab, ReadingFits
  <1>a. PICK read : read = [[[[form[t] EXCEPT !.seen = reading] EXCEPT !.loaded = TRUE] EXCEPT !.failed = FALSE]
                               EXCEPT !.saving = saving]
    OBVIOUS
  <1>b. read = tab
    <2>1. PICK r0 : r0 = form[t]
      OBVIOUS
    <2>2. r0 = [seen |-> r0.seen, loaded |-> r0.loaded, failed |-> r0.failed, saving |-> r0.saving]
      BY <1>2, <2>1 DEF BankTab
    <2>3. PICK r1 : r1 = [r0 EXCEPT !.seen = reading]
      OBVIOUS
    <2>4. r1 = [seen |-> reading, loaded |-> r0.loaded, failed |-> r0.failed, saving |-> r0.saving]
      BY <2>2, <2>3
    <2>5. PICK r2 : r2 = [r1 EXCEPT !.loaded = TRUE]
      OBVIOUS
    <2>6. r2 = [seen |-> reading, loaded |-> TRUE, failed |-> r0.failed, saving |-> r0.saving]
      BY <2>4, <2>5
    <2>7. PICK r3 : r3 = [r2 EXCEPT !.failed = FALSE]
      OBVIOUS
    <2>8. r3 = [seen |-> reading, loaded |-> TRUE, failed |-> FALSE, saving |-> r0.saving]
      BY <2>6, <2>7
    <2>9. read = [r3 EXCEPT !.saving = saving]
      BY <1>a, <2>1, <2>3, <2>5, <2>7
    <2>10. read = [seen |-> reading, loaded |-> TRUE, failed |-> FALSE, saving |-> saving]
      BY <2>8, <2>9
    <2> QED
      BY <1>1, <2>10
  <1>c. form' = [form EXCEPT ![t] = read]
    BY <1>2, <1>a
  <1>4. form' = [form EXCEPT ![t] = tab]
    BY <1>b, <1>c
  <1> QED
    BY <1>3, <1>4, OneTab

\* A new request stands on what its tab shows.
LEMMA BankRequest ==
    ASSUME NEW t \in Tabs, NEW body, NEW kind \in {"create", "update", "load", "reload"},
           kind = "create" => body.fields \in BankConnection!Fields,
           kind = "update" => /\ WasRead(body.id, body.over) /\ body.expected = body.over.version
                              /\ FieldsFit(body.fields)
    PROVE  /\ BankCallFits(BankConnection!Request(t, kind, body))
           /\ BankConnection!Request(t, kind, body).read = None
  <1>1. PICK c : /\ c = BankConnection!Request(t, kind, body)
                 /\ c = [tab |-> t, kind |-> kind, body |-> body, stage |-> "sent", read |-> None,
                         answer |-> None]
    BY DEF BankConnection!Request
  <1> QED
    BY <1>1 DEF BankCallFits

\* The owner saves.
LEMMA SaveKeeps ==
    ASSUME BankInv, NEW t \in Tabs, BankConnection!SaveConnection(t)
    PROVE  BankInv' /\ BankConnection!NoUpdateLost
  <1>0. PICK values \in BankConnection!Fields :
           bankCalls' = bankCalls \cup
               {IF form[t].seen = None
                THEN BankConnection!Request(t, "create", [fields |-> values])
                ELSE BankConnection!Request(t, "update", BankConnection!Payload(form[t].seen, values))}
    BY DEF BankConnection!SaveConnection
  <1>a. PICK call : call = IF form[t].seen = None
                           THEN BankConnection!Request(t, "create", [fields |-> values])
                           ELSE BankConnection!Request(t, "update", BankConnection!Payload(form[t].seen, values))
    OBVIOUS
  <1>1. /\ call = IF form[t].seen = None
                  THEN BankConnection!Request(t, "create", [fields |-> values])
                  ELSE BankConnection!Request(t, "update", BankConnection!Payload(form[t].seen, values))
        /\ bankCalls' = bankCalls \cup {call}
        /\ form' = [form EXCEPT ![t].saving = TRUE] /\ UNCHANGED connections
    BY <1>0, <1>a DEF BankConnection!SaveConnection
  <1>2. form[t] \in BankTab /\ ReadingFits(form[t].seen) /\ form \in [Tabs -> BankTab]
    BY DEF BankInv
  <1>3. BankCallFits(call) /\ call.read = None
    <2>1. CASE form[t].seen = None
      <3>1. PICK body : body = [fields |-> values]
        OBVIOUS
      <3>2. body.fields = values
        BY <3>1
      <3> QED
        BY <1>1, <2>1, <3>1, <3>2, BankRequest
    <2>2. CASE form[t].seen # None
      <3>1. PICK body : body = BankConnection!Payload(form[t].seen, values)
        OBVIOUS
      <3>2. WasRead(form[t].seen.id, form[t].seen.row)
        BY <1>2, <2>2 DEF ReadingFits
      <3>3. PICK names \in SUBSET {"code", "setup"} :
               body = [id |-> form[t].seen.id, expected |-> form[t].seen.row.version,
                       fields |-> [f \in names |-> values[f]], over |-> form[t].seen.row]
        BY <3>1 DEF BankConnection!Payload
      <3>4. FieldsFit(body.fields)
        <4>1. body.fields = [f \in names |-> values[f]]
          BY <3>3
        <4>2. values["code"] \in Codes /\ values["setup"] \in Setups
          BY DEF BankConnection!Fields
        <4> QED
          BY <4>1, <4>2 DEF FieldsFit
      <3>5. body.id = form[t].seen.id /\ body.over = form[t].seen.row /\ body.expected = form[t].seen.row.version
        BY <3>3
      <3> QED
        BY <1>1, <2>2, <3>1, <3>2, <3>4, <3>5, BankRequest
    <2> QED
      BY <2>1, <2>2
  <1>4. PICK tab : tab = [form[t] EXCEPT !.saving = TRUE]
    OBVIOUS
  <1>5. tab \in BankTab /\ tab.seen = form[t].seen /\ form' = [form EXCEPT ![t] = tab]
    BY <1>1, <1>2, <1>4 DEF BankTab
  <1> QED
    BY <1>1, <1>2, <1>3, <1>5, OneTab, BankPageStep

\* The page takes an answer.
LEMMA TakeKeeps ==
    ASSUME BankInv, NEW c \in bankCalls, BankConnection!Take(c)
    PROVE  BankInv' /\ BankConnection!NoUpdateLost
  <1>1. BankCallFits(c) /\ c.tab \in Tabs /\ c.stage = "answered" /\ UNCHANGED connections
    BY DEF BankInv, BankCallFits, BankConnection!Take
  <1>2. CASE c.kind \in {"load", "reload"}
    <2>0. PICK reading : reading = c.answer.readiness
      OBVIOUS
    <2>1. PICK saving \in BOOLEAN :
             /\ form' = [form EXCEPT ![c.tab].seen = reading, ![c.tab].loaded = TRUE,
                                     ![c.tab].failed = FALSE, ![c.tab].saving = saving]
             /\ bankCalls' = bankCalls \ {c}
      <3>1. PICK saving : saving = (form[c.tab].saving /\ c.kind = "load")
        OBVIOUS
      <3>2. saving \in BOOLEAN
        BY <3>1
      <3> QED
        BY <1>2, <2>0, <3>1, <3>2 DEF BankConnection!Take, BankConnection!Saving
    <2>2. ReadingFits(reading)
      BY <1>1, <1>2, <2>0 DEF BankCallFits
    <2> QED
      BY <1>1, <2>1, <2>2, TabReads, BankPageStep
  <1>3. CASE c.kind \in {"create", "update"}
    <2>1. CASE c.answer.ok
      <3>1. bankCalls' = (bankCalls \ {c}) \cup {BankConnection!Request(c.tab, "reload", None)} /\ UNCHANGED form
        BY <1>3, <2>1 DEF BankConnection!Take
      <3>2. /\ BankCallFits(BankConnection!Request(c.tab, "reload", None))
            /\ BankConnection!Request(c.tab, "reload", None).read = None
        BY <1>1, BankRequest
      <3> QED
        BY <1>1, <3>1, <3>2, BankPageStep DEF BankInv
    <2>2. CASE ~c.answer.ok
      <3>1. form' = [form EXCEPT ![c.tab].saving = FALSE] /\ bankCalls' = bankCalls \ {c}
        BY <1>3, <2>2 DEF BankConnection!Take
      <3>2. form[c.tab] \in BankTab /\ ReadingFits(form[c.tab].seen) /\ form \in [Tabs -> BankTab]
        BY <1>1 DEF BankInv
      <3>3. PICK tab : tab = [form[c.tab] EXCEPT !.saving = FALSE]
        OBVIOUS
      <3>4. tab \in BankTab /\ tab.seen = form[c.tab].seen /\ form' = [form EXCEPT ![c.tab] = tab]
        BY <3>1, <3>2, <3>3 DEF BankTab
      <3> QED
        BY <1>1, <3>1, <3>2, <3>4, OneTab, BankPageStep
    <2> QED
      BY <2>1, <2>2
  <1> QED
    BY <1>1, <1>2, <1>3 DEF BankCallFits

\* A request fails, or it never arrived.
LEMMA FailKeeps ==
    ASSUME BankInv, NEW c \in bankCalls, BankConnection!Fail(c) \/ BankConnection!Drop(c)
    PROVE  BankInv' /\ BankConnection!NoUpdateLost
  <1>1. BankCallFits(c) /\ c.tab \in Tabs /\ UNCHANGED connections
    BY DEF BankInv, BankCallFits, BankConnection!Fail, BankConnection!Drop
  <1>2. CASE BankConnection!Drop(c)
    BY <1>1, <1>2, BankPageStep DEF BankConnection!Drop, BankInv
  <1>3. CASE BankConnection!Fail(c)
    <2>1. PICK late : LateCall(late, c)
      BY DEF LateCall
    <2>2. \A d \in bankCalls' : d \in bankCalls \ {c} \/ d = late
      BY <1>3, <2>1 DEF BankConnection!Fail, LateCall
    <2>3. late.stage = "unheard" /\ c.stage # "unheard"
      BY <1>1, <1>3, <2>1 DEF LateCall, BankCallFits, BankConnection!Fail
    <2>4. \A d \in bankCalls' : d \in bankCalls \/ \E e \in bankCalls \ bankCalls' : LateCall(d, e)
      BY <2>1, <2>2, <2>3
    <2>5. PICK failed \in BOOLEAN : form' = [form EXCEPT ![c.tab].saving = FALSE, ![c.tab].failed = failed]
      <3>1. PICK failed : failed = (form[c.tab].failed \/ c.kind = "load")
        OBVIOUS
      <3>2. failed \in BOOLEAN
        BY <3>1
      <3> QED
        BY <1>3, <3>1, <3>2 DEF BankConnection!Fail
    <2> QED
      BY <1>1, <2>4, <2>5, TabFlags, BankPageStep
  <1> QED
    BY <1>2, <1>3

\* A tab is loaded again.
LEMMA ReopenKeeps ==
    ASSUME BankInv, NEW t \in Tabs, BankConnection!Reopen(t)
    PROVE  BankInv' /\ BankConnection!NoUpdateLost
  <1>1. form' = [form EXCEPT ![t] = BankConnection!Tab] /\ UNCHANGED connections
    BY DEF BankConnection!Reopen
  <1>2. BankConnection!Tab \in BankTab /\ ReadingFits(BankConnection!Tab.seen)
    BY DEF BankConnection!Tab, BankTab, Readings, ReadingFits
  <1>3. ASSUME NEW d \in bankCalls', d \notin bankCalls, d # BankConnection!Request(t, "load", None)
        PROVE  \E e \in bankCalls \ bankCalls' : LateCall(d, e)
    <2>1. PICK e \in bankCalls : /\ LateCall(d, e) /\ e.tab = t /\ e.kind \in BankConnection!Saving
      BY <1>3 DEF BankConnection!Reopen, LateCall
    <2>2. BankCallFits(e)
      BY DEF BankInv
    <2>3. e.stage # "unheard"
      BY <1>3, <2>1, <2>2 DEF LateCall, BankCallFits
    <2>4. ASSUME e \in bankCalls'
          PROVE  FALSE
      <3>1. \/ e.tab # t \/ e = BankConnection!Request(t, "load", None)
            \/ \E c \in bankCalls : LateCall(e, c)
        BY <2>4 DEF BankConnection!Reopen, LateCall
      <3>2. CASE e = BankConnection!Request(t, "load", None)
        BY <2>1, <3>2 DEF BankConnection!Request, BankConnection!Saving
      <3>3. CASE \E c \in bankCalls : LateCall(e, c)
        <4>1. PICK c \in bankCalls : LateCall(e, c)
          BY <3>3
        <4>2. BankCallFits(c)
          BY DEF BankInv
        <4> QED
          BY <2>3, <4>1, <4>2 DEF LateCall, BankCallFits
      <3> QED
        BY <2>1, <3>1, <3>2, <3>3
    <2> QED
      BY <2>1, <2>4
  <1>4. /\ BankCallFits(BankConnection!Request(t, "load", None))
        /\ BankConnection!Request(t, "load", None).read = None
    BY BankRequest
  <1> QED
    BY <1>1, <1>2, <1>3, <1>4, OneTab, BankPageStep

\* The invariant holds at the start.
LEMMA BankStart ==
    ASSUME BankConnection!Init
    PROVE  BankInv
  <1>1. connections = <<>> /\ connections \in Seq(BankRow)
    BY EmptySeq DEF BankConnection!Init
  <1>2. BankConnection!Tab \in BankTab /\ ReadingFits(BankConnection!Tab.seen)
    BY DEF BankConnection!Tab, BankTab, Readings, ReadingFits
  <1>3. form \in [Tabs -> BankTab] /\ \A t \in Tabs : ReadingFits(form[t].seen)
    BY <1>2 DEF BankConnection!Init
  <1>4. \A c \in bankCalls : BankCallFits(c) /\ c.read = None
    BY BankRequest DEF BankConnection!Init
  <1> QED
    BY <1>1, <1>3, <1>4 DEF BankInv, RowHeld

\* Every step keeps the invariant and replaces only what its request had read.
LEMMA BankingKeeps ==
    ASSUME RowLocks, BankInv, BankConnection!Next \/ UNCHANGED banking
    PROVE  BankInv' /\ BankConnection!NoUpdateLost
  <1>1. CASE UNCHANGED banking
    BY <1>1, BankPageStep DEF banking, BankInv
  <1>2. CASE BankConnection!Next
    BY <1>2, BankHandleKeeps, TakeKeeps, FailKeeps, SaveKeeps, ReopenKeeps DEF BankConnection!Next
  <1> QED
    BY <1>1, <1>2

\* A field of a connection is replaced only by a request of a tab that had read it, where
\* the database locks the rows that are read for a change.
THEOREM UpdatesSeen == ASSUME RowLocks PROVE Spec => NoUpdateLost
  <1>1. Init => (part = "banking" => BankInv)
    BY BankStart DEF Init
  <1>2. (part = "banking" => BankInv) /\ [Next]_vars => (part = "banking" => BankInv)'
    BY PartStep, BankingKeeps
  <1>3. (part = "banking" => BankInv) /\ [Next]_vars => [part = "banking" => BankConnection!NoUpdateLost]_vars
    BY PartStep, BankingKeeps
  <1> QED
    BY <1>1, <1>2, <1>3, PTL DEF Spec, NoUpdateLost

-----------------------------------------------------------------------------
(* The list of the conversations *)

HistoryTabs == {"active", "archived"}

ViewFits(p) ==
    /\ p = [snap |-> p.snap, active |-> p.active, tab |-> p.tab, list |-> p.list, last |-> p.last,
            working |-> p.working, loading |-> p.loading, selecting |-> p.selecting,
            astray |-> p.astray, clicks |-> p.clicks]
    /\ p.tab \in HistoryTabs

\* A task that turns to a tab knows which, and awaits no more than its list.
TaskFits(t) ==
    /\ t = [kind |-> t.kind, on |-> t.on, step |-> t.step, to |-> t.to]
    /\ t.kind = "tab" => t.on \in HistoryTabs /\ t.step \in {"click", "close", "list"}

\* A list that was read and may still have an effect is right: what makes it wrong, the
\* end of a history action, outdates it.
ListFits ==
    listing # None =>
        /\ listing = [tab |-> listing.tab, items |-> listing.items, by |-> listing.by]
        /\ listing.tab \in HistoryTabs /\ listing.by \in {"mount", "tab", None}
        /\ listing.items # None =>
              listing.items \subseteq Conversations /\ \A c \in listing.items : store[c] = listing.tab

HistoryInv ==
    /\ store \in [Conversations -> {"absent", "active", "archived", "deleted"}]
    /\ ViewFits(page)
    /\ \A t \in tasks : TaskFits(t)
    /\ ListFits

\* A page whose list has nothing that the page does not show.
Near(p) == ViewFits(p) /\ p.list \subseteq page.list

\* A step that adds nothing to the list, nor to a list that was read.
PageMoves ==
    /\ Near(page')
    /\ \A u \in tasks' : u \in tasks \/ TaskFits(u)
    /\ \/ listing' \in {None, listing}
       \/ \E tab \in HistoryTabs, by \in {"mount", "tab", None} : listing' = AssistantPage!NewLoad(tab, by)

\* The pages the commands make.
LEMMA PagesMade ==
    ASSUME NEW p, ViewFits(p)
    PROVE  /\ ViewFits(AssistantPage!Blank(p)) /\ AssistantPage!Blank(p).list = p.list
           /\ \A s : ViewFits(AssistantPage!Heard(p, s)) /\ AssistantPage!Heard(p, s).list = p.list
           /\ \A c : ViewFits(AssistantPage!Sends(p, c)) /\ AssistantPage!Sends(p, c).list = p.list
           /\ /\ ViewFits(AssistantPage!Unselected(p)) /\ AssistantPage!Unselected(p).list = p.list
              /\ AssistantPage!Unselected(p).tab = p.tab
  <1>1. ViewFits(AssistantPage!Blank(p)) /\ AssistantPage!Blank(p).list = p.list
    <2>1. PICK q : q = [p EXCEPT !.active = None]
      OBVIOUS
    <2>2. ViewFits(q) /\ q.list = p.list
      BY <2>1 DEF ViewFits
    <2>3. PICK r : r = [q EXCEPT !.last = None]
      OBVIOUS
    <2>4. ViewFits(r) /\ r.list = p.list
      BY <2>2, <2>3 DEF ViewFits
    <2> QED
      BY <2>1, <2>3, <2>4 DEF AssistantPage!Blank
  <1>2. ASSUME NEW s PROVE ViewFits(AssistantPage!Heard(p, s)) /\ AssistantPage!Heard(p, s).list = p.list
    <2>1. PICK v : v = AssistantPage!Snapshot(s)
      OBVIOUS
    <2>2. PICK q : q = [p EXCEPT !.snap = v]
      OBVIOUS
    <2>3. ViewFits(q) /\ q.list = p.list
      BY <2>2 DEF ViewFits
    <2> QED
      BY <2>1, <2>2, <2>3 DEF AssistantPage!Heard
  <1>3. ASSUME NEW c PROVE ViewFits(AssistantPage!Sends(p, c)) /\ AssistantPage!Sends(p, c).list = p.list
    <2>1. PICK q : q = [p EXCEPT !.working = TRUE]
      OBVIOUS
    <2>2. ViewFits(q) /\ q.list = p.list
      BY <2>1 DEF ViewFits
    <2>3. PICK r : r = [q EXCEPT !.last = c]
      OBVIOUS
    <2>4. ViewFits(r) /\ r.list = p.list
      BY <2>2, <2>3 DEF ViewFits
    <2> QED
      BY <2>1, <2>3, <2>4 DEF AssistantPage!Sends
  <1>4. /\ ViewFits(AssistantPage!Unselected(p)) /\ AssistantPage!Unselected(p).list = p.list
        /\ AssistantPage!Unselected(p).tab = p.tab
    BY DEF ViewFits, AssistantPage!Unselected
  <1> QED
    BY <1>1, <1>2, <1>3, <1>4

\* A step that adds nothing to the list.
LEMMA PageMovesKeep ==
    ASSUME HistoryInv, PageMoves, UNCHANGED store
    PROVE  HistoryInv' /\ AssistantPage!RemovedStaysRemoved
  <1>1. ViewFits(page') /\ page'.list \subseteq page.list
    BY DEF PageMoves, Near
  <1>2. AssistantPage!RemovedStaysRemoved
    BY <1>1 DEF AssistantPage!RemovedStaysRemoved
  <1>3. \A t \in tasks' : TaskFits(t)
    BY DEF HistoryInv, PageMoves
  <1>4. ListFits'
    <2>1. CASE listing' = listing
      BY <2>1 DEF HistoryInv, ListFits
    <2>2. CASE listing' = None
      BY <2>2 DEF ListFits
    <2>3. ASSUME NEW tab \in HistoryTabs, NEW by \in {"mount", "tab", None},
                 listing' = AssistantPage!NewLoad(tab, by)
          PROVE  ListFits'
      BY <2>3 DEF ListFits, AssistantPage!NewLoad
    <2> QED
      BY <2>1, <2>2, <2>3 DEF PageMoves
  <1> QED
    BY <1>1, <1>2, <1>3, <1>4 DEF HistoryInv

\* A task goes on, or ends.
LEMMA TaskGoesOn ==
    ASSUME NEW t, NEW p, Near(p),
           \/ AssistantPage!End(t, p)
           \/ \E u : TaskFits(u) /\ AssistantPage!Becomes(t, u, p)
           \/ \E step : /\ TaskFits(t) /\ AssistantPage!Await(t, step, p)
                        /\ t.kind # "tab" \/ step = "close"
    PROVE  Near(page') /\ \A u \in tasks' : u \in tasks \/ TaskFits(u)
  <1>1. CASE AssistantPage!End(t, p)
    BY <1>1 DEF AssistantPage!End
  <1>2. ASSUME NEW u, TaskFits(u), AssistantPage!Becomes(t, u, p)
        PROVE  Near(page') /\ \A v \in tasks' : v \in tasks \/ TaskFits(v)
    BY <1>2 DEF AssistantPage!Becomes
  <1>3. ASSUME NEW step, TaskFits(t), AssistantPage!Await(t, step, p), t.kind # "tab" \/ step = "close"
        PROVE  Near(page') /\ \A v \in tasks' : v \in tasks \/ TaskFits(v)
    <2>1. PICK u : u = [t EXCEPT !.step = step]
      OBVIOUS
    <2>2. u = [kind |-> t.kind, on |-> t.on, step |-> step, to |-> t.to]
      BY <1>3, <2>1 DEF TaskFits
    <2>3. TaskFits(u)
      BY <1>3, <2>2 DEF TaskFits
    <2> QED
      BY <1>3, <2>1, <2>3 DEF AssistantPage!Await, AssistantPage!Becomes
  <1> QED
    BY <1>1, <1>2, <1>3

\* A new task.
LEMMA TasksMade ==
    /\ \A kind, c, step : (kind = "tab" => c \in HistoryTabs /\ step \in {"click", "close", "list"}) =>
          /\ TaskFits(AssistantPage!Task(kind, c, step))
          /\ AssistantPage!Task(kind, c, step).kind = kind /\ AssistantPage!Task(kind, c, step).on = c
    /\ \A kind, c, to : kind # "tab" => TaskFits(AssistantPage!Prompt(kind, c, to))
  <1>1. ASSUME NEW kind, NEW c, NEW step, kind = "tab" => c \in HistoryTabs /\ step \in {"click", "close", "list"}
        PROVE  /\ TaskFits(AssistantPage!Task(kind, c, step))
               /\ AssistantPage!Task(kind, c, step).kind = kind /\ AssistantPage!Task(kind, c, step).on = c
    BY <1>1 DEF TaskFits, AssistantPage!Task
  <1>2. ASSUME NEW kind, NEW c, NEW to, kind # "tab"
        PROVE  TaskFits(AssistantPage!Prompt(kind, c, to))
    BY <1>2 DEF TaskFits, AssistantPage!Task, AssistantPage!Prompt
  <1> QED
    BY <1>1, <1>2

\* The list of a tab is loaded.
LEMMA TabShown ==
    ASSUME HistoryInv, NEW t, NEW tab \in HistoryTabs, NEW p, Near(p), AssistantPage!Show(t, tab, p)
    PROVE  PageMoves
  <1>1. PICK q : q = AssistantPage!Blank(p)
    OBVIOUS
  <1>2. Near(q)
    BY <1>1, PagesMade DEF Near
  <1>3. PICK r : r = [q EXCEPT !.tab = tab]
    OBVIOUS
  <1>4. Near(r)
    BY <1>2, <1>3 DEF Near, ViewFits
  <1>5. PICK o : o = [r EXCEPT !.loading = TRUE]
    OBVIOUS
  <1>6. Near(o)
    BY <1>4, <1>5 DEF Near, ViewFits
  <1>7. o = [AssistantPage!Blank(p) EXCEPT !.tab = tab, !.loading = TRUE]
    BY <1>1, <1>3, <1>5
  <1>8. PICK u : u = AssistantPage!Task("tab", tab, "list")
    OBVIOUS
  <1>9. TaskFits(u)
    BY <1>8, TasksMade
  <1>10. AssistantPage!Becomes(t, u, o) /\ listing' = AssistantPage!NewLoad(tab, "tab")
    BY <1>7, <1>8 DEF AssistantPage!Show
  <1> QED
    BY <1>6, <1>9, <1>10, TaskGoesOn DEF PageMoves

\* A command whose way is free.
LEMMA GoesOn ==
    ASSUME HistoryInv, NEW t, TaskFits(t), NEW p, Near(p), NEW x \in {None, listing},
           AssistantPage!GoOn(t, p, x)
    PROVE  PageMoves
  <1>1. ASSUME NEW step, AssistantPage!Await(t, step, p), t.kind # "tab", listing' = x
        PROVE  PageMoves
    BY <1>1, TaskGoesOn DEF PageMoves
  <1>2. CASE t.kind = "tab" /\ AssistantPage!Show(t, t.on, p)
    BY <1>2, TabShown DEF TaskFits
  <1>3. CASE t.kind = "new" /\ p.tab = "archived" /\ AssistantPage!Show(t, "active", AssistantPage!Unselected(p))
    <2>1. Near(AssistantPage!Unselected(p))
      BY PagesMade DEF Near
    <2> QED
      BY <1>3, <2>1, TabShown DEF HistoryTabs
  <1>4. CASE /\ t.kind = "new" /\ p.tab = "active" /\ listing' = x
             /\ AssistantPage!End(t, AssistantPage!Blank(AssistantPage!Unselected(p)))
    <2>1. Near(AssistantPage!Unselected(p))
      BY PagesMade DEF Near
    <2>2. Near(AssistantPage!Blank(AssistantPage!Unselected(p)))
      BY <2>1, PagesMade DEF Near
    <2> QED
      BY <1>4, <2>2, TaskGoesOn DEF PageMoves
  <1>5. CASE t.kind = "select" /\ AssistantPage!Await(t, "read", p) /\ listing' = x
    BY <1>1, <1>5
  <1>6. CASE t.kind = "set status" /\ AssistantPage!Await(t, "patch", p) /\ listing' = x
    BY <1>1, <1>6
  <1>7. CASE t.kind = "delete" /\ AssistantPage!Await(t, "forget", p) /\ listing' = x
    BY <1>1, <1>7
  <1>8. CASE /\ t.kind \in {"start", "submit"} /\ t.on # None
             /\ AssistantPage!Await(t, "open", [p EXCEPT !.working = TRUE]) /\ listing' = x
    <2>1. PICK q : q = [p EXCEPT !.working = TRUE]
      OBVIOUS
    <2>2. Near(q)
      BY <2>1 DEF Near, ViewFits
    <2>3. t.kind # "tab" /\ AssistantPage!Await(t, "open", q)
      BY <1>8, <2>1
    <2> QED
      BY <1>8, <2>2, <2>3, TaskGoesOn DEF PageMoves
  <1>9. CASE t.kind = "submit" /\ t.on = None /\ AssistantPage!Await(t, "create", p) /\ listing' = x
    BY <1>1, <1>9
  <1> QED
    BY <1>2, <1>3, <1>4, <1>5, <1>6, <1>7, <1>8, <1>9 DEF AssistantPage!GoOn

\* The owner's click is counted.
LEMMA Clicked ==
    ASSUME NEW q, Near(q), NEW p, p = [q EXCEPT !.clicks = @ + 1, !.astray = @ \/ AssistantPage!Underway]
    PROVE  Near(p)
  <1>1. PICK away : away = (q.astray \/ AssistantPage!Underway)
    OBVIOUS
  <1>2. PICK r : r = [q EXCEPT !.clicks = q.clicks + 1]
    OBVIOUS
  <1>3. Near(r) /\ r.astray = q.astray
    BY <1>2 DEF Near, ViewFits
  <1>4. p = [r EXCEPT !.astray = away]
    BY <1>1, <1>2, <1>3
  <1> QED
    BY <1>3, <1>4 DEF Near, ViewFits

\* A command begins.
LEMMA CommandBegins ==
    ASSUME HistoryInv, NEW t, TaskFits(t), NEW q, Near(q), NEW x \in {None, listing},
           AssistantPage!Command(t, q, x)
    PROVE  PageMoves /\ UNCHANGED store
  <1>1. PICK p : p = [q EXCEPT !.clicks = @ + 1, !.astray = @ \/ AssistantPage!Underway]
    OBVIOUS
  <1>2. Near(p)
    BY <1>1, Clicked
  <1>3. /\ IF AssistantPage!InTheWay(t, p)
           THEN AssistantPage!Await(t, "close", [p EXCEPT !.working = TRUE]) /\ listing' = x
           ELSE AssistantPage!GoOn(t, p, x)
        /\ UNCHANGED store
    BY <1>1 DEF AssistantPage!Command
  <1>4. CASE AssistantPage!InTheWay(t, p)
    <2>1. PICK r : r = [p EXCEPT !.working = TRUE]
      OBVIOUS
    <2>2. Near(r)
      BY <1>2, <2>1 DEF Near, ViewFits
    <2>3. AssistantPage!Await(t, "close", r) /\ listing' = x
      BY <1>3, <1>4, <2>1
    <2> QED
      BY <1>3, <2>2, <2>3, TaskGoesOn DEF PageMoves
  <1>5. CASE ~AssistantPage!InTheWay(t, p)
    BY <1>2, <1>3, <1>5, GoesOn
  <1> QED
    BY <1>4, <1>5

\* A prompt is sent.
LEMMA PromptSent ==
    ASSUME HistoryInv, NEW prompt, TaskFits(prompt), AssistantPage!Sending(prompt)
    PROVE  PageMoves /\ UNCHANGED store
  <1>1. PICK q : q = AssistantPage!Sends(page, prompt.on)
    OBVIOUS
  <1>2. Near(q)
    BY <1>1, PagesMade DEF HistoryInv, Near
  <1>3. PICK p : p = [q EXCEPT !.clicks = @ + 1, !.astray = @ \/ AssistantPage!Underway]
    OBVIOUS
  <1>4. AssistantPage!Becomes(prompt, prompt, p) /\ UNCHANGED <<store, listing>>
    BY <1>1, <1>3 DEF AssistantPage!Sending
  <1>5. Near(p)
    BY <1>2, <1>3, Clicked
  <1> QED
    BY <1>4, <1>5, TaskGoesOn DEF PageMoves

\* What the owner clicks adds nothing to the list.
LEMMA ClicksKeep ==
    ASSUME HistoryInv,
           \/ AssistantPage!NewConversation \/ AssistantPage!Start \/ AssistantPage!Submit
           \/ AssistantPage!SubmitToSession \/ AssistantPage!Retry \/ AssistantPage!LoadOlder
           \/ AssistantPage!CloseSession
           \/ \E tab \in HistoryTabs : AssistantPage!ShowHistoryStatus(tab)
           \/ \E c \in Conversations :
                 \/ AssistantPage!SelectConversation(c)
                 \/ \E kind \in AssistantPage!HistoryKinds : AssistantPage!RunHistoryAction(kind, c)
           \/ \E kind \in {"set up", "revoke", "interrupt"} : AssistantPage!Ask(kind)
    PROVE  PageMoves /\ UNCHANGED store
  <1>1. Near(page) /\ ViewFits(page)
    BY DEF HistoryInv, Near
  <1>2. CASE AssistantPage!NewConversation
    <2>1. PICK t : t = AssistantPage!Task("new", None, "click")
      OBVIOUS
    <2>2. TaskFits(t)
      BY <2>1, TasksMade
    <2> QED
      BY <1>1, <1>2, <2>1, <2>2, CommandBegins DEF AssistantPage!NewConversation
  <1>3. CASE AssistantPage!Start
    <2>1. PICK t : t = AssistantPage!Task("start", page.active, "click")
      OBVIOUS
    <2>2. TaskFits(t)
      BY <2>1, TasksMade
    <2> QED
      BY <1>1, <1>3, <2>1, <2>2, CommandBegins DEF AssistantPage!Start
  <1>4. CASE AssistantPage!Submit
    <2>1. PICK t : t = AssistantPage!Task("submit", page.active, "click")
      OBVIOUS
    <2>2. TaskFits(t)
      BY <2>1, TasksMade
    <2>3. PICK q : q = [page EXCEPT !.working = TRUE]
      OBVIOUS
    <2>4. Near(q)
      BY <1>1, <2>3 DEF Near, ViewFits
    <2>5. AssistantPage!Command(t, q, listing)
      BY <1>4, <2>1, <2>3 DEF AssistantPage!Submit
    <2> QED
      BY <2>2, <2>4, <2>5, CommandBegins
  <1>5. CASE AssistantPage!SubmitToSession
    <2>1. PICK t : t = AssistantPage!Prompt("submit", page.active, page.active)
      OBVIOUS
    <2>2. TaskFits(t)
      BY <2>1, TasksMade
    <2> QED
      BY <1>5, <2>1, <2>2, PromptSent DEF AssistantPage!SubmitToSession
  <1>6. CASE AssistantPage!Retry
    <2>1. PICK t : t = AssistantPage!Prompt("retry", page.last, page.snap.session.of)
      OBVIOUS
    <2>2. TaskFits(t)
      BY <2>1, TasksMade
    <2> QED
      BY <1>6, <2>1, <2>2, PromptSent DEF AssistantPage!Retry
  <1>7. CASE AssistantPage!LoadOlder
    <2>1. PICK t : t = AssistantPage!Task("older", page.active, "read")
      OBVIOUS
    <2>2. TaskFits(t) /\ t.kind = "older"
      BY <2>1 DEF TaskFits, AssistantPage!Task
    <2>3. PICK q : q = [page EXCEPT !.loading = TRUE]
      OBVIOUS
    <2>4. Near(q)
      BY <1>1, <2>3 DEF Near, ViewFits
    <2>5. PICK p : p = [q EXCEPT !.clicks = page.clicks + 1]
      OBVIOUS
    <2>6. Near(p)
      BY <2>4, <2>5 DEF Near, ViewFits
    <2>7. q.clicks = page.clicks
      BY <1>1, <2>3 DEF ViewFits
    <2>8. AssistantPage!Await(t, "read", p) /\ UNCHANGED <<store, listing>>
      BY <1>7, <2>1, <2>3, <2>5 DEF AssistantPage!LoadOlder
    <2> QED
      BY <2>2, <2>6, <2>8, TaskGoesOn DEF PageMoves
  <1>8. CASE AssistantPage!CloseSession
    <2>1. PICK t : t = AssistantPage!Task("close", None, "click")
      OBVIOUS
    <2>2. TaskFits(t)
      BY <2>1, TasksMade
    <2> QED
      BY <1>1, <1>8, <2>1, <2>2, CommandBegins DEF AssistantPage!CloseSession
  <1>9. ASSUME NEW tab \in HistoryTabs, AssistantPage!ShowHistoryStatus(tab)
        PROVE  PageMoves /\ UNCHANGED store
    <2>1. PICK t : t = AssistantPage!Task("tab", tab, "click")
      OBVIOUS
    <2>2. TaskFits(t)
      BY <2>1, TasksMade
    <2> QED
      BY <1>1, <1>9, <2>1, <2>2, CommandBegins DEF AssistantPage!ShowHistoryStatus
  <1>10. ASSUME NEW c \in Conversations, AssistantPage!SelectConversation(c)
         PROVE  PageMoves /\ UNCHANGED store
    <2>1. PICK t : t = AssistantPage!Task("select", c, "click")
      OBVIOUS
    <2>2. TaskFits(t)
      BY <2>1, TasksMade
    <2>3. PICK q : q = [page EXCEPT !.loading = TRUE]
      OBVIOUS
    <2>4. Near(q)
      BY <1>1, <2>3 DEF Near, ViewFits
    <2>5. PICK r : r = [q EXCEPT !.selecting = c]
      OBVIOUS
    <2>6. Near(r)
      BY <2>4, <2>5 DEF Near, ViewFits
    <2>7. AssistantPage!Command(t, r, listing)
      BY <1>10, <2>1, <2>3, <2>5 DEF AssistantPage!SelectConversation
    <2> QED
      BY <2>2, <2>6, <2>7, CommandBegins
  <1>11. ASSUME NEW c \in Conversations, NEW kind \in AssistantPage!HistoryKinds, AssistantPage!RunHistoryAction(kind, c)
         PROVE  PageMoves /\ UNCHANGED store
    <2>1. PICK t : t = AssistantPage!Task(kind, c, "click")
      OBVIOUS
    <2>2. TaskFits(t)
      BY <2>1, TasksMade DEF AssistantPage!HistoryKinds
    <2> QED
      BY <1>1, <1>11, <2>1, <2>2, CommandBegins DEF AssistantPage!RunHistoryAction
  <1>12. ASSUME NEW kind \in {"set up", "revoke", "interrupt"}, AssistantPage!Ask(kind)
         PROVE  PageMoves /\ UNCHANGED store
    <2>1. PICK t : t = AssistantPage!Task(kind, None, "ask")
      OBVIOUS
    <2>2. TaskFits(t) /\ t.kind # "tab"
      BY <2>1, TasksMade
    <2>3. PICK q : q = [page EXCEPT !.working = TRUE]
      OBVIOUS
    <2>4. Near(q) /\ q.clicks = page.clicks /\ q.astray = page.astray
      BY <1>1, <2>3 DEF Near, ViewFits
    <2>5. PICK p : p = [q EXCEPT !.clicks = @ + 1, !.astray = @ \/ AssistantPage!Underway]
      OBVIOUS
    <2>6. Near(p)
      BY <2>4, <2>5, Clicked
    <2>7. AssistantPage!Await(t, "ask", p) /\ UNCHANGED <<store, listing>>
      BY <1>12, <2>1, <2>3, <2>5 DEF AssistantPage!Ask
    <2> QED
      BY <2>2, <2>6, <2>7, TaskGoesOn DEF PageMoves
  <1> QED
    BY <1>2, <1>3, <1>4, <1>5, <1>6, <1>7, <1>8, <1>9, <1>10, <1>11, <1>12

\* What comes of a request, on the page.
LEMMA ResultPages ==
    ASSUME NEW can, NEW s, NEW p, Near(p), NEW r \in AssistantPage!Results(can, s, p)
    PROVE  Near(r.page)
  <1>1. PICK q : q = AssistantPage!Heard(p, s)
    OBVIOUS
  <1>2. Near(q)
    BY <1>1, PagesMade DEF Near
  <1>3. r.page = p \/ r.page = q
    BY <1>1 DEF AssistantPage!Results, AssistantPage!Carried, AssistantPage!Failed
  <1> QED
    BY <1>2, <1>3

\* An answer that is not about the store adds nothing to the list.
LEMMA AnswersKeep ==
    ASSUME HistoryInv, NEW t \in tasks,
           \/ AssistantPage!AnswerAsk(t) \/ AssistantPage!AnswerClose(t) \/ AssistantPage!AnswerOpen(t)
           \/ AssistantPage!AnswerOpening(t) \/ AssistantPage!AnswerTurn(t) \/ AssistantPage!AnswerRead(t)
           \/ AssistantPage!AnswerForget(t)
    PROVE  PageMoves /\ UNCHANGED store
  <1>1. TaskFits(t) /\ Near(page) /\ ViewFits(page)
    BY DEF HistoryInv, Near
  <1>2. CASE AssistantPage!AnswerAsk(t)
    <2>1. PICK s \in AssistantPage!Asked(t.kind) : \E r \in AssistantPage!Results(TRUE, s, page) :
             AssistantPage!End(t, [r.page EXCEPT !.working = IF t.kind = "status" THEN @ ELSE FALSE])
      BY <1>2 DEF AssistantPage!AnswerAsk
    <2>2. PICK r \in AssistantPage!Results(TRUE, s, page) :
             AssistantPage!End(t, [r.page EXCEPT !.working = IF t.kind = "status" THEN @ ELSE FALSE])
      BY <2>1
    <2>3. Near(r.page)
      BY <1>1, ResultPages
    <2>4. PICK working : working = IF t.kind = "status" THEN r.page.working ELSE FALSE
      OBVIOUS
    <2>5. PICK p : p = [r.page EXCEPT !.working = working]
      OBVIOUS
    <2>6. Near(p)
      BY <2>3, <2>5 DEF Near, ViewFits
    <2>7. AssistantPage!End(t, p)
      BY <2>2, <2>4, <2>5
    <2> QED
      BY <1>2, <2>6, <2>7, TaskGoesOn DEF PageMoves, AssistantPage!AnswerAsk
  <1>3. CASE AssistantPage!AnswerClose(t)
    <2>1. PICK q : q = [page EXCEPT !.working = FALSE]
      OBVIOUS
    <2>2. Near(q)
      BY <1>1, <2>1 DEF Near, ViewFits
    <2>3. PICK r \in AssistantPage!Results(AssistantPage!CanClose, AssistantPage!WithoutSession, q) :
             IF t.kind = "close" \/ AssistantPage!InTheWay(t, r.page)
             THEN /\ AssistantPage!End(t, [r.page EXCEPT !.loading =
                         IF t.kind = "select" /\ ~AssistantPage!Superseded(t) THEN FALSE ELSE @])
                  /\ listing' = IF t.kind \in AssistantPage!HistoryKinds THEN None ELSE listing
             ELSE AssistantPage!GoOn(t, r.page, listing)
      BY <1>3, <2>1 DEF AssistantPage!AnswerClose
    <2>4. Near(r.page)
      BY <2>2, ResultPages
    <2>5. CASE t.kind = "close" \/ AssistantPage!InTheWay(t, r.page)
      <3>1. PICK loading : loading = IF t.kind = "select" /\ ~AssistantPage!Superseded(t) THEN FALSE
                                      ELSE r.page.loading
        OBVIOUS
      <3>2. PICK p : p = [r.page EXCEPT !.loading = loading]
        OBVIOUS
      <3>3. Near(p)
        BY <2>4, <3>2 DEF Near, ViewFits
      <3>4. AssistantPage!End(t, p) /\ listing' \in {None, listing}
        BY <2>3, <2>5, <3>1, <3>2
      <3> QED
        BY <1>3, <3>3, <3>4, TaskGoesOn DEF PageMoves, AssistantPage!AnswerClose
    <2>6. CASE ~(t.kind = "close" \/ AssistantPage!InTheWay(t, r.page))
      BY <1>1, <1>3, <2>3, <2>4, <2>6, GoesOn DEF AssistantPage!AnswerClose
    <2> QED
      BY <2>5, <2>6
  <1>4. CASE AssistantPage!AnswerOpen(t)
    <2>1. t.step = "open" /\ t.kind # "tab" /\ UNCHANGED <<store, listing>>
      BY <1>1, <1>4 DEF AssistantPage!AnswerOpen, TaskFits
    <2>2. PICK q : q = [page EXCEPT !.working = FALSE]
      OBVIOUS
    <2>3. Near(q)
      BY <1>1, <2>2 DEF Near, ViewFits
    <2>4. AssistantPage!Await(t, "opening", page) \/ AssistantPage!End(t, q)
      BY <1>4, <2>2 DEF AssistantPage!AnswerOpen
    <2> QED
      BY <1>1, <2>1, <2>3, <2>4, TaskGoesOn DEF PageMoves
  <1>5. CASE AssistantPage!AnswerOpening(t)
    <2>1. PICK h : h = AssistantPage!Heard(page, server)
      OBVIOUS
    <2>2. Near(h)
      BY <1>1, <2>1, PagesMade DEF Near
    <2>3. PICK after : after = [h EXCEPT !.working = FALSE]
      OBVIOUS
    <2>4. Near(after)
      BY <2>2, <2>3 DEF Near, ViewFits
    <2>5. PICK sends : sends = AssistantPage!Sends(after, t.on)
      OBVIOUS
    <2>6. Near(sends)
      BY <2>4, <2>5, PagesMade DEF Near
    <2>7. PICK q : q = [page EXCEPT !.working = FALSE]
      OBVIOUS
    <2>8. Near(q)
      BY <1>1, <2>7 DEF Near, ViewFits
    <2>9. PICK u : u = AssistantPage!Prompt(t.kind, t.on, t.on)
      OBVIOUS
    <2>10. /\ (t.kind = "submit" /\ AssistantPage!Becomes(t, u, sends)) \/ AssistantPage!End(t, after)
              \/ AssistantPage!End(t, q)
           /\ UNCHANGED <<store, listing>>
      BY <1>5, <2>1, <2>3, <2>5, <2>7, <2>9 DEF AssistantPage!AnswerOpening
    <2>11. t.kind = "submit" => TaskFits(u)
      BY <2>9, TasksMade
    <2> QED
      BY <2>4, <2>6, <2>8, <2>10, <2>11, TaskGoesOn DEF PageMoves
  <1>6. CASE AssistantPage!AnswerTurn(t)
    <2>1. PICK q : q = [page EXCEPT !.working = FALSE]
      OBVIOUS
    <2>2. Near(q)
      BY <1>1, <2>1 DEF Near, ViewFits
    <2>3. PICK r \in AssistantPage!Results(AssistantPage!CanTurn(t.to), AssistantPage!TurnBegun, q) :
             /\ AssistantPage!End(t, r.page)
             /\ listing' = IF r.ok THEN AssistantPage!NewLoad(page.tab, None) ELSE listing
      BY <1>6, <2>1 DEF AssistantPage!AnswerTurn
    <2>4. Near(r.page)
      BY <2>2, ResultPages
    <2> QED
      BY <1>1, <1>6, <2>3, <2>4, TaskGoesOn DEF PageMoves, ViewFits, AssistantPage!AnswerTurn
  <1>7. CASE AssistantPage!AnswerRead(t)
    <2>1. PICK q : q = [page EXCEPT !.loading = FALSE]
      OBVIOUS
    <2>2. Near(q)
      BY <1>1, <2>1 DEF Near, ViewFits
    <2>3. PICK last : last = IF t.kind = "select" THEN None ELSE page.last
      OBVIOUS
    <2>4. PICK n : n = [page EXCEPT !.active = t.on]
      OBVIOUS
    <2>5. Near(n)
      BY <1>1, <2>4 DEF Near, ViewFits
    <2>6. PICK o : o = [n EXCEPT !.loading = FALSE]
      OBVIOUS
    <2>7. Near(o)
      BY <2>5, <2>6 DEF Near, ViewFits
    <2>8. PICK p : p = [o EXCEPT !.last = last]
      OBVIOUS
    <2>9. Near(p)
      BY <2>7, <2>8 DEF Near, ViewFits
    <2>10. p = [page EXCEPT !.active = t.on, !.loading = FALSE, !.last = last]
      BY <2>4, <2>6, <2>8
    <2>11. /\ AssistantPage!End(t, p) \/ AssistantPage!End(t, q) \/ AssistantPage!End(t, page)
           /\ UNCHANGED <<store, listing>>
      BY <1>7, <2>1, <2>3, <2>10 DEF AssistantPage!AnswerRead
    <2> QED
      BY <1>1, <2>2, <2>9, <2>11, TaskGoesOn DEF PageMoves
  <1>8. CASE AssistantPage!AnswerForget(t)
    <2>1. CASE AssistantPage!Await(t, "erase", page) /\ UNCHANGED listing
      <3>1. t.kind # "tab"
        BY <1>1, <1>8 DEF AssistantPage!AnswerForget, TaskFits
      <3> QED
        BY <1>1, <1>8, <2>1, <3>1, TaskGoesOn DEF PageMoves, AssistantPage!AnswerForget
    <2>2. CASE AssistantPage!Removed(t, FALSE)
      <3>1. AssistantPage!End(t, page) /\ listing' = None
        BY <2>2 DEF AssistantPage!Removed
      <3> QED
        BY <1>1, <1>8, <3>1, TaskGoesOn DEF PageMoves, AssistantPage!AnswerForget
    <2> QED
      BY <1>8, <2>1, <2>2 DEF AssistantPage!AnswerForget
  <1> QED
    BY <1>2, <1>3, <1>4, <1>5, <1>6, <1>7, <1>8

\* A conversation is made, and the page turns to it; or it was made unheard.
LEMMA AnswerCreateKeeps ==
    ASSUME HistoryInv, NEW t \in tasks, AssistantPage!AnswerCreate(t)
    PROVE  HistoryInv' /\ AssistantPage!RemovedStaysRemoved
  <1>1. TaskFits(t) /\ Near(page) /\ ViewFits(page) /\ t.step = "create"
    BY DEF HistoryInv, Near, AssistantPage!AnswerCreate
  <1>2. t.kind # "tab"
    BY <1>1 DEF TaskFits
  <1>3. ASSUME NEW c \in Conversations, store[c] = "absent", store' = [store EXCEPT ![c] = "active"],
               AssistantPage!Becomes(t, [t EXCEPT !.on = c, !.step = "open"],
                   [page EXCEPT !.active = c, !.tab = "active", !.list = {c}, !.working = TRUE]),
               listing' = AssistantPage!NewLoad("active", None)
        PROVE  HistoryInv' /\ AssistantPage!RemovedStaysRemoved
    <2>1. PICK u : u = [t EXCEPT !.on = c, !.step = "open"]
      OBVIOUS
    <2>2. PICK v : v = [t EXCEPT !.on = c]
      OBVIOUS
    <2>3. v = [kind |-> t.kind, on |-> c, step |-> t.step, to |-> t.to]
      BY <1>1, <2>2 DEF TaskFits
    <2>4. u = [v EXCEPT !.step = "open"]
      BY <2>1, <2>2
    <2>5. u = [kind |-> t.kind, on |-> c, step |-> "open", to |-> t.to]
      BY <2>3, <2>4
    <2>6. TaskFits(u)
      BY <1>2, <2>5 DEF TaskFits
    <2>7. PICK p1 : p1 = [page EXCEPT !.active = c]
      OBVIOUS
    <2>8. ViewFits(p1)
      BY <1>1, <2>7 DEF ViewFits
    <2>9. PICK p2 : p2 = [p1 EXCEPT !.tab = "active"]
      OBVIOUS
    <2>10. ViewFits(p2) /\ p2.tab = "active"
      BY <2>8, <2>9 DEF ViewFits, HistoryTabs
    <2>11. PICK p3 : p3 = [p2 EXCEPT !.list = {c}]
      OBVIOUS
    <2>12. ViewFits(p3) /\ p3.tab = "active" /\ p3.list = {c}
      BY <2>10, <2>11 DEF ViewFits
    <2>13. page' = [p3 EXCEPT !.working = TRUE]
      BY <1>3, <2>7, <2>9, <2>11 DEF AssistantPage!Becomes
    <2>14. ViewFits(page') /\ page'.tab = "active" /\ page'.list = {c}
      BY <2>12, <2>13 DEF ViewFits
    <2>15. \A w \in tasks' : TaskFits(w)
      BY <1>3, <2>1, <2>6 DEF AssistantPage!Becomes, HistoryInv
    <2>16. /\ store' \in [Conversations -> {"absent", "active", "archived", "deleted"}]
           /\ store'[c] = "active"
      BY <1>3 DEF HistoryInv
    <2>17. ListFits'
      BY <1>3 DEF ListFits, AssistantPage!NewLoad, HistoryTabs
    <2> QED
      BY <2>14, <2>15, <2>16, <2>17 DEF HistoryInv, AssistantPage!RemovedStaysRemoved
  <1>4. ASSUME UNCHANGED store \/ \E c \in Conversations : store[c] = "absent" /\ store' = [store EXCEPT ![c] = "active"],
               AssistantPage!End(t, [page EXCEPT !.working = FALSE]), UNCHANGED listing
        PROVE  HistoryInv' /\ AssistantPage!RemovedStaysRemoved
    <2>1. PICK q : q = [page EXCEPT !.working = FALSE]
      OBVIOUS
    <2>2. ViewFits(q) /\ q.list = page.list
      BY <1>1, <2>1 DEF ViewFits
    <2>3. page' = q /\ \A w \in tasks' : TaskFits(w)
      BY <1>4, <2>1 DEF AssistantPage!End, HistoryInv
    <2>4. store' \in [Conversations -> {"absent", "active", "archived", "deleted"}]
      BY <1>4 DEF HistoryInv
    <2>5. ListFits'
      <3>1. \A c \in Conversations : store[c] \in HistoryTabs => store'[c] = store[c]
        BY <1>4 DEF HistoryInv, HistoryTabs
      <3> QED
        BY <1>4, <3>1 DEF HistoryInv, ListFits
    <2> QED
      BY <2>2, <2>3, <2>4, <2>5 DEF HistoryInv, AssistantPage!RemovedStaysRemoved
  <1> QED
    BY <1>3, <1>4 DEF AssistantPage!AnswerCreate

\* A history action ends: every list that was read is outdated.
LEMMA AnswerRemovalKeeps ==
    ASSUME HistoryInv, NEW t \in tasks, AssistantPage!AnswerRemoval(t)
    PROVE  HistoryInv' /\ AssistantPage!RemovedStaysRemoved
  <1>1. PICK ok \in BOOLEAN, done \in BOOLEAN :
           /\ store' = IF ~done THEN store ELSE
                 [store EXCEPT ![t.on] = IF t.step = "erase" THEN "deleted" ELSE AssistantPage!Flipped(store[t.on])]
           /\ AssistantPage!Removed(t, ok)
    BY DEF AssistantPage!AnswerRemoval
  <1>2. store' \in [Conversations -> {"absent", "active", "archived", "deleted"}]
    BY <1>1 DEF HistoryInv, AssistantPage!Flipped
  <1>3. PICK gone : gone = [page EXCEPT !.list = page.list \ {t.on}]
    OBVIOUS
  <1>4. ViewFits(page) /\ ViewFits(gone) /\ gone.list \subseteq page.list
    BY <1>3 DEF HistoryInv, ViewFits
  <1>5. PICK blank : blank = AssistantPage!Blank(gone)
    OBVIOUS
  <1>6. ViewFits(blank) /\ blank.list = gone.list
    BY <1>4, <1>5, PagesMade
  <1>7. page' \in {page, blank, gone} /\ tasks' \subseteq tasks /\ listing' = None
    BY <1>1, <1>3, <1>5 DEF AssistantPage!Removed, AssistantPage!End
  <1>8. ViewFits(page') /\ page'.list \subseteq page.list
    BY <1>4, <1>6, <1>7
  <1>9. ListFits'
    BY <1>7 DEF ListFits
  <1> QED
    BY <1>2, <1>7, <1>8, <1>9 DEF HistoryInv, AssistantPage!RemovedStaysRemoved

\* The list is read, as the store is.
LEMMA ReadListKeeps ==
    ASSUME HistoryInv, AssistantPage!ReadList
    PROVE  HistoryInv' /\ AssistantPage!RemovedStaysRemoved
  <1>1. PICK items : items = {c \in Conversations : store[c] = listing.tab}
    OBVIOUS
  <1>2. /\ listing # None /\ listing' = [listing EXCEPT !.items = items]
        /\ UNCHANGED <<store, server, page, tasks>>
    BY <1>1 DEF AssistantPage!ReadList
  <1>3. /\ listing' = [tab |-> listing.tab, items |-> items, by |-> listing.by]
        /\ listing.tab \in HistoryTabs /\ listing.by \in {"mount", "tab", None}
    BY <1>2 DEF HistoryInv, ListFits
  <1>4. items \subseteq Conversations /\ \A c \in items : store[c] = listing.tab
    BY <1>1
  <1>5. ListFits'
    BY <1>2, <1>3, <1>4 DEF ListFits
  <1> QED
    BY <1>2, <1>5 DEF HistoryInv, AssistantPage!RemovedStaysRemoved

\* What waits for a list goes on with it.
LEMMA ShownFits ==
    ASSUME NEW t, TaskFits(t), NEW items, NEW p, ViewFits(p), AssistantPage!Shown(t, items, p)
    PROVE  /\ ViewFits(page') /\ page'.list = p.list /\ page'.tab = p.tab
           /\ \A u \in tasks' : u \in tasks \/ TaskFits(u)
  <1>1. CASE t.kind = "mount" /\ items # {}
    <2>1. PICK c \in items : AssistantPage!Becomes(t, [t EXCEPT !.on = c, !.step = "read"], [p EXCEPT !.active = c])
      BY <1>1 DEF AssistantPage!Shown
    <2>2. PICK v : v = [t EXCEPT !.on = c]
      OBVIOUS
    <2>3. v = [kind |-> t.kind, on |-> c, step |-> t.step, to |-> t.to]
      BY <2>2 DEF TaskFits
    <2>4. PICK u : u = [v EXCEPT !.step = "read"]
      OBVIOUS
    <2>5. u = [kind |-> t.kind, on |-> c, step |-> "read", to |-> t.to]
      BY <2>3, <2>4
    <2>6. TaskFits(u)
      BY <1>1, <2>5 DEF TaskFits
    <2>7. PICK q : q = [p EXCEPT !.active = c]
      OBVIOUS
    <2>8. ViewFits(q) /\ q.list = p.list /\ q.tab = p.tab
      BY <2>7 DEF ViewFits
    <2>9. AssistantPage!Becomes(t, u, q)
      BY <2>1, <2>2, <2>4, <2>7
    <2> QED
      BY <2>6, <2>8, <2>9 DEF AssistantPage!Becomes
  <1>2. CASE ~(t.kind = "mount" /\ items # {})
    <2>1. PICK q : q = [p EXCEPT !.loading = FALSE]
      OBVIOUS
    <2>2. ViewFits(q) /\ q.list = p.list /\ q.tab = p.tab
      BY <2>1 DEF ViewFits
    <2>3. AssistantPage!End(t, q)
      BY <1>2, <2>1 DEF AssistantPage!Shown
    <2> QED
      BY <2>2, <2>3 DEF AssistantPage!End
  <1> QED
    BY <1>1, <1>2

\* The list comes to the page: it is still right.
LEMMA ListArrivesKeeps ==
    ASSUME HistoryInv, AssistantPage!ListArrives
    PROVE  HistoryInv' /\ AssistantPage!RemovedStaysRemoved
  <1>1. PICK list : list = IF listing.tab = page.tab THEN listing.items ELSE page.list
    OBVIOUS
  <1>2. PICK p : p = [page EXCEPT !.list = list]
    OBVIOUS
  <1>3. ViewFits(p) /\ p.list = list /\ p.tab = page.tab
    BY <1>2 DEF HistoryInv, ViewFits
  <1>4. p = [page EXCEPT !.list = IF listing.tab = page.tab THEN listing.items ELSE @]
    BY <1>1, <1>2
  <1>5. /\ \/ page' = p /\ UNCHANGED tasks
           \/ \E t \in tasks : AssistantPage!Shown(t, listing.items, p)
        /\ listing' = None /\ UNCHANGED store /\ listing # None /\ listing.items # None
    BY <1>4 DEF AssistantPage!ListArrives
  <1>6. ViewFits(page') /\ page'.list = list /\ page'.tab = page.tab /\ \A u \in tasks' : TaskFits(u)
    <2>1. ASSUME NEW t \in tasks, AssistantPage!Shown(t, listing.items, p)
          PROVE  ViewFits(page') /\ page'.list = list /\ page'.tab = page.tab /\ \A u \in tasks' : TaskFits(u)
      BY <1>3, <2>1, ShownFits DEF HistoryInv
    <2> QED
      BY <1>3, <1>5, <2>1 DEF HistoryInv
  <1>7. \A c \in list \ page.list : store[c] = page.tab
    BY <1>1, <1>5 DEF HistoryInv, ListFits
  <1>8. ListFits'
    BY <1>5 DEF ListFits
  <1> QED
    BY <1>5, <1>6, <1>7, <1>8 DEF HistoryInv, AssistantPage!RemovedStaysRemoved

\* No list comes, or one that is outdated; or the host has news.
LEMMA NoListKeeps ==
    ASSUME HistoryInv,
           \/ AssistantPage!ListFails \/ AssistantPage!StateChanged
           \/ \E t \in tasks : AssistantPage!Outdated(t)
    PROVE  PageMoves /\ UNCHANGED store
  <1>1. Near(page) /\ ViewFits(page)
    BY DEF HistoryInv, Near
  <1>2. CASE AssistantPage!ListFails
    <2>1. PICK q : q = [page EXCEPT !.loading = FALSE]
      OBVIOUS
    <2>2. Near(q)
      BY <1>1, <2>1 DEF Near, ViewFits
    <2>3. /\ UNCHANGED <<page, tasks>> \/ \E t \in tasks : AssistantPage!End(t, q)
          /\ listing' = None /\ UNCHANGED store
      BY <1>2, <2>1 DEF AssistantPage!ListFails
    <2> QED
      BY <1>1, <2>2, <2>3, TaskGoesOn DEF PageMoves
  <1>3. CASE AssistantPage!StateChanged
    <2>1. Near(page')
      BY <1>1, <1>3, PagesMade DEF AssistantPage!StateChanged, Near
    <2>2. listing' = listing \/ listing' = AssistantPage!NewLoad(page.tab, None)
      BY <1>3 DEF AssistantPage!StateChanged
    <2> QED
      BY <1>1, <1>3, <2>1, <2>2 DEF AssistantPage!StateChanged, PageMoves, ViewFits
  <1>4. ASSUME NEW t \in tasks, AssistantPage!Outdated(t)
        PROVE  PageMoves /\ UNCHANGED store
    <2>1. PICK items : AssistantPage!Shown(t, items, page)
      BY <1>4 DEF AssistantPage!Outdated
    <2>2. TaskFits(t)
      BY DEF HistoryInv
    <2> QED
      BY <1>1, <1>4, <2>1, <2>2, ShownFits DEF AssistantPage!Outdated, PageMoves, Near
  <1> QED
    BY <1>2, <1>3, <1>4

\* Every step keeps the invariant and shows only what has the tab's status.
LEMMA HistoryKeeps ==
    ASSUME HistoryInv, AssistantPage!Next \/ UNCHANGED assistant
    PROVE  HistoryInv' /\ AssistantPage!RemovedStaysRemoved
  <1>1. CASE \/ UNCHANGED assistant
             \/ AssistantPage!TurnEnds \/ AssistantPage!SessionStarts \/ AssistantPage!ProviderDies
    <2>1. UNCHANGED <<store, page, tasks, listing>>
      BY <1>1 DEF assistant, AssistantPage!TurnEnds, AssistantPage!SessionStarts, AssistantPage!ProviderDies
    <2> QED
      BY <2>1, PageMovesKeep DEF PageMoves, Near, HistoryInv
  <1>2. CASE \/ AssistantPage!NewConversation \/ AssistantPage!Start \/ AssistantPage!Submit
             \/ AssistantPage!SubmitToSession \/ AssistantPage!Retry \/ AssistantPage!LoadOlder
             \/ AssistantPage!CloseSession
             \/ \E tab \in HistoryTabs : AssistantPage!ShowHistoryStatus(tab)
             \/ \E c \in Conversations :
                   \/ AssistantPage!SelectConversation(c)
                   \/ \E kind \in AssistantPage!HistoryKinds : AssistantPage!RunHistoryAction(kind, c)
             \/ \E kind \in {"set up", "revoke", "interrupt"} : AssistantPage!Ask(kind)
    BY <1>2, ClicksKeep, PageMovesKeep
  <1>3. CASE \E t \in tasks :
                \/ AssistantPage!AnswerAsk(t) \/ AssistantPage!AnswerClose(t) \/ AssistantPage!AnswerOpen(t)
                \/ AssistantPage!AnswerOpening(t) \/ AssistantPage!AnswerTurn(t) \/ AssistantPage!AnswerRead(t)
                \/ AssistantPage!AnswerForget(t)
    BY <1>3, AnswersKeep, PageMovesKeep
  <1>4. CASE \E t \in tasks : AssistantPage!AnswerCreate(t) \/ AssistantPage!AnswerRemoval(t)
    BY <1>4, AnswerCreateKeeps, AnswerRemovalKeeps
  <1>5. CASE \/ AssistantPage!ListFails \/ AssistantPage!StateChanged
             \/ \E t \in tasks : AssistantPage!Outdated(t)
    BY <1>5, NoListKeeps, PageMovesKeep
  <1>6. CASE AssistantPage!ReadList \/ AssistantPage!ListArrives
    BY <1>6, ReadListKeeps, ListArrivesKeeps
  <1> QED
    BY <1>1, <1>2, <1>3, <1>4, <1>5, <1>6 DEF AssistantPage!Next, HistoryTabs

\* The invariant holds at the start.
LEMMA HistoryStart ==
    ASSUME AssistantPage!Init
    PROVE  HistoryInv
  <1>1. store \in [Conversations -> {"absent", "active", "archived", "deleted"}]
    BY DEF AssistantPage!Init
  <1>2. ViewFits(page)
    BY DEF AssistantPage!Init, ViewFits, HistoryTabs
  <1>3. \A t \in tasks : TaskFits(t)
    BY TasksMade DEF AssistantPage!Init
  <1>4. ListFits
    BY DEF AssistantPage!Init, AssistantPage!NewLoad, ListFits, HistoryTabs
  <1> QED
    BY <1>1, <1>2, <1>3, <1>4 DEF HistoryInv

\* A conversation comes to the list of a tab only while it has that status.
THEOREM ListsAreRight == Spec => RemovedStaysRemoved
  <1>1. Init => (part = "assistant" => HistoryInv)
    BY HistoryStart DEF Init
  <1>2. (part = "assistant" => HistoryInv) /\ [Next]_vars => (part = "assistant" => HistoryInv)'
    BY PartStep, HistoryKeeps
  <1>3. (part = "assistant" => HistoryInv) /\ [Next]_vars
        => [part = "assistant" => AssistantPage!RemovedStaysRemoved]_vars
    BY PartStep, HistoryKeeps
  <1> QED
    BY <1>1, <1>2, <1>3, PTL DEF Spec, RemovedStaysRemoved

-----------------------------------------------------------------------------
(* Where a prompt goes *)

Asking == {"set up", "revoke", "interrupt"}
Leading == {"start", "submit", "retry", "select"}

\* Where a task of its kind can stand, and what it is about.
StepFits(t) ==
    /\ t.kind \in {"mount", "select", "start", "submit"} => t.on \in Conversations \cup {None}
    /\ \/ t.kind = "mount" /\ t.step \in {"list", "read"}
       \/ t.kind \in {"status"} \cup Asking /\ t.step = "ask"
       \/ t.kind = "older" /\ t.step = "read"
       \/ t.kind = "tab" /\ t.step \in {"close", "list"}
       \/ t.kind \in {"new", "close"} /\ t.step = "close"
       \/ t.kind = "select" /\ t.step \in {"close", "read"}
       \/ t.kind = "set status" /\ t.step \in {"close", "patch"}
       \/ t.kind = "delete" /\ t.step \in {"close", "forget", "erase"}
       \/ t.kind = "start" /\ t.step \in {"close", "open", "opening"}
       \/ t.kind = "submit" /\ t.step \in {"close", "open", "opening", "turn"}
       \/ t.kind = "submit" /\ t.step = "create" /\ t.on = None
       \/ t.kind = "retry" /\ t.step = "turn"

\* Commands that keep others away, or should: those that show, while they are under way,
\* that the page is busy, those of the list, and those that lead to a prompt.
Major(t) ==
    \/ t.kind \in {"new", "close"} \cup Leading \cup Asking \cup AssistantPage!HistoryKinds
    \/ t.kind = "tab" /\ t.step # "list"

\* A prompt stands for the conversation that is open, and nothing is open in the host when
\* it asks for a session, unless the host has to refuse it.
Stands(t, p, s) ==
    /\ Major(t) => p.working = TRUE \/ t.kind \in Leading \cup AssistantPage!HistoryKinds
    /\ t.kind \in {"start", "submit"} /\ t.step # "turn" => t.on = p.active
    /\ t.step = "turn" => t.on = t.to
    /\ t.step \in {"create", "open"} => ~AssistantPage!Open(p) \/ s.session # None

\* The session that the page knows is the host's, if that has one.  Once a prompt was sent,
\* both are of the conversation that is open, and the prompt is of it.
SessionsFit(p, s) ==
    /\ AssistantPage!Open(p) /\ p.snap.session.state # "starting" =>
          s.session = None \/ s.session.of = p.snap.session.of
    /\ p.last # None =>
          /\ p.last = p.active
          /\ s.session # None => s.session.of = p.last
          /\ AssistantPage!Open(p) /\ p.snap.session.state # "starting" => p.snap.session.of = p.last

Calm(ts, p, s) ==
    /\ \A t, u \in ts : Major(t) /\ Major(u) => t = u
    /\ \A t \in ts : Stands(t, p, s)
    /\ SessionsFit(p, s)

\* While the page is set up it offers nothing that asks for a conversation.
MountFits(ts, p) ==
    \A t \in ts : t.kind = "mount" =>
        /\ p.last = None /\ p.loading = TRUE
        /\ \A u \in ts : u = t \/ u.kind \in {"status", "close"} \cup Asking

Turns == {"none", "active", "ended"}
SessionOf == [of : Conversations \cup {None}, state : {"starting", "ready", "lost"}]
HostSet == [usable : BOOLEAN, turn : Turns, troubles : Nat, session : SessionOf \cup {None}]

PromptFits ==
    /\ page.astray \in BOOLEAN /\ page.working \in BOOLEAN /\ page.active \in Conversations \cup {None}
    /\ \A t \in tasks : StepFits(t)
    /\ MountFits(tasks, page)
    /\ page.astray = FALSE => Calm(tasks, page, server)

PromptInv == HistoryInv /\ server \in HostSet /\ PromptFits


\* What is no major command stands anywhere.
LEMMA MinorStands ==
    ASSUME NEW t, StepFits(t), ~Major(t), NEW p, NEW s
    PROVE  Stands(t, p, s)
  BY DEF StepFits, Major, Stands, Leading, Asking, AssistantPage!HistoryKinds

\* Of the major commands there is one, which goes on or ends.
LEMMA MajorGoesOn ==
    ASSUME NEW ts, NEW t, \A v \in ts : StepFits(v), \A v \in ts : v = t \/ ~Major(v),
           NEW p, NEW s, SessionsFit(p, s)
    PROVE  /\ Calm(ts \ {t}, p, s)
           /\ \A u : Stands(u, p, s) => Calm((ts \ {t}) \cup {u}, p, s)
  BY MinorStands DEF Calm

\* Another command goes on or ends beside them.
LEMMA MinorGoesOn ==
    ASSUME NEW ts, NEW p, NEW s, Calm(ts, p, s), NEW rest \in SUBSET ts,
           NEW q, NEW r, SessionsFit(q, r), q.working = p.working, q.active = p.active,
           AssistantPage!Open(q) => AssistantPage!Open(p) \/ r.session # None,
           s.session # None => r.session # None
    PROVE  /\ Calm(rest, q, r)
           /\ \A u : StepFits(u) /\ ~Major(u) => Calm(rest \cup {u}, q, r)
  <1>1. ASSUME NEW t \in ts PROVE Stands(t, q, r)
    BY DEF Calm, Stands
  <1> QED
    BY <1>1, MinorStands DEF Calm

\* What the commands make of the page.
LEMMA PageFields ==
    ASSUME NEW p, ViewFits(p)
    PROVE  /\ LET b == AssistantPage!Blank(p) IN
                 /\ b.active = None /\ b.last = None /\ b.snap = p.snap /\ b.working = p.working
                 /\ b.astray = p.astray /\ b.loading = p.loading
           /\ \A s : LET h == AssistantPage!Heard(p, s) IN
                 /\ h.snap = AssistantPage!Snapshot(s) /\ h.active = p.active /\ h.last = p.last
                 /\ h.working = p.working /\ h.astray = p.astray /\ h.loading = p.loading
           /\ \A c : LET x == AssistantPage!Sends(p, c) IN
                 /\ x.last = c /\ x.working = TRUE /\ x.snap = p.snap /\ x.active = p.active
                 /\ x.astray = p.astray /\ x.loading = p.loading
           /\ LET n == AssistantPage!Unselected(p) IN
                 /\ n.snap = p.snap /\ n.active = p.active /\ n.last = p.last /\ n.working = p.working
                 /\ n.astray = p.astray /\ n.loading = p.loading
  <1>1. LET b == AssistantPage!Blank(p) IN
            /\ b.active = None /\ b.last = None /\ b.snap = p.snap /\ b.working = p.working
            /\ b.astray = p.astray /\ b.loading = p.loading
    BY DEF ViewFits, AssistantPage!Blank
  <1>2. ASSUME NEW s
        PROVE  LET h == AssistantPage!Heard(p, s) IN
                 /\ h.snap = AssistantPage!Snapshot(s) /\ h.active = p.active /\ h.last = p.last
                 /\ h.working = p.working /\ h.astray = p.astray /\ h.loading = p.loading
    <2>1. PICK v : v = AssistantPage!Snapshot(s)
      OBVIOUS
    <2>2. AssistantPage!Heard(p, s) = [p EXCEPT !.snap = v]
      BY <2>1 DEF AssistantPage!Heard
    <2> QED
      BY <2>1, <2>2 DEF ViewFits
  <1>3. ASSUME NEW c
        PROVE  LET x == AssistantPage!Sends(p, c) IN
                 /\ x.last = c /\ x.working = TRUE /\ x.snap = p.snap /\ x.active = p.active
                 /\ x.astray = p.astray /\ x.loading = p.loading
    BY DEF ViewFits, AssistantPage!Sends
  <1>4. LET n == AssistantPage!Unselected(p) IN
            /\ n.snap = p.snap /\ n.active = p.active /\ n.last = p.last /\ n.working = p.working
            /\ n.astray = p.astray /\ n.loading = p.loading
    BY DEF ViewFits, AssistantPage!Unselected
  <1> QED
    BY <1>1, <1>2, <1>3, <1>4

\* What the page knows fits as long as the host's session is the same, or none.
LEMMA SessionsStay ==
    ASSUME NEW p, ViewFits(p), NEW s \in HostSet, NEW r \in HostSet, SessionsFit(p, s),
           r.session # None => s.session # None /\ r.session.of = s.session.of
    PROVE  /\ SessionsFit(p, r) /\ SessionsFit(AssistantPage!Heard(p, r), r)
           /\ AssistantPage!Open(AssistantPage!Heard(p, r)) => r.session # None
  <1>1. SessionsFit(p, r)
    BY DEF SessionsFit
  <1>2. PICK h : h = AssistantPage!Heard(p, r)
    OBVIOUS
  <1>3. h.snap = AssistantPage!Snapshot(r) /\ h.active = p.active /\ h.last = p.last
    BY <1>2 DEF ViewFits, AssistantPage!Heard
  <1>4. AssistantPage!Open(h) =>
            /\ r.session # None
            /\ h.snap.session.state # "starting" => h.snap.session = r.session
    BY <1>3 DEF AssistantPage!Open, AssistantPage!Snapshot, AssistantPage!Session
  <1>5. SessionsFit(h, r)
    BY <1>1, <1>3, <1>4 DEF SessionsFit
  <1> QED
    BY <1>1, <1>2, <1>4, <1>5

\* Pages that know the same fit the same.
LEMMA SessionsSame ==
    ASSUME NEW p, NEW q, q.snap = p.snap, q.last = p.last \/ q.last = None, q.active = p.active \/ q.last = None,
           NEW s, SessionsFit(p, s)
    PROVE  SessionsFit(q, s) /\ (AssistantPage!Open(q) <=> AssistantPage!Open(p))
  BY DEF SessionsFit, AssistantPage!Open

\* A page that is not busy, with nothing under way that it does not show, has no major
\* command.
LEMMA NoMajors ==
    ASSUME PromptInv, page.astray = FALSE, ~AssistantPage!Underway, ~AssistantPage!Working
    PROVE  \A t \in tasks : ~Major(t)
  BY DEF PromptInv, PromptFits, Calm, Stands, AssistantPage!Underway, AssistantPage!Working, Leading

\* While it is set up nothing else is asked for.
LEMMA NoMount ==
    ASSUME PromptInv, page.loading # TRUE \/ \E t \in tasks : t.kind \notin {"mount", "status", "close"} \cup Asking
    PROVE  \A t \in tasks : t.kind # "mount"
  BY DEF PromptInv, PromptFits, MountFits


\* A task of the kind that the owner starts at this page.
Begins(t) ==
    /\ t = [kind |-> t.kind, on |-> t.on, step |-> t.step, to |-> t.to]
    /\ t.kind \in {"new", "tab", "select", "start", "submit"} \cup AssistantPage!HistoryKinds
    /\ t.kind \in {"select", "start", "submit"} => t.on \in Conversations \cup {None}

\* A session or a prompt is of the conversation that is open.
Fits(t, p) == t.kind \in {"start", "submit"} => t.on = p.active

\* What a command leaves that goes on or ends.
Goes(t, p) ==
    /\ \A v \in tasks' : StepFits(v) /\ v.kind # "mount"
    /\ page'.astray = p.astray /\ page'.working \in BOOLEAN /\ page'.active \in Conversations \cup {None}
    /\ \A s : (\A v \in tasks : v = t \/ ~Major(v)) /\ SessionsFit(p, s) /\ Fits(t, p) => Calm(tasks', page', s)

\* What comes of a command whose way is free.
LEMMA GoOnFits ==
    ASSUME HistoryInv, NEW p, ViewFits(p), p.working \in BOOLEAN, p.active \in Conversations \cup {None},
           NEW t, Begins(t),
           \A v \in tasks : StepFits(v) /\ v.kind # "mount",
           ~AssistantPage!InTheWay(t, p), NEW x, AssistantPage!GoOn(t, p, x)
    PROVE  Goes(t, p)
  <1>1. ASSUME NEW u, StepFits(u), u.kind # "mount", NEW q, AssistantPage!Becomes(t, u, q),
               q.astray = p.astray, q.working \in BOOLEAN, q.active \in Conversations \cup {None},
               \A s : SessionsFit(p, s) /\ Fits(t, p) => SessionsFit(q, s) /\ Stands(u, q, s)
        PROVE  Goes(t, p)
    <2>1. tasks' = (tasks \ {t}) \cup {u} /\ page' = q
      BY <1>1 DEF AssistantPage!Becomes
    <2>2. ASSUME NEW s, \A v \in tasks : v = t \/ ~Major(v), SessionsFit(p, s), Fits(t, p)
          PROVE  Calm(tasks', page', s)
      BY <1>1, <2>1, <2>2, MajorGoesOn
    <2> QED
      BY <1>1, <2>1, <2>2 DEF Goes
  <1>2. ASSUME NEW step, NEW u, u = [t EXCEPT !.step = step]
        PROVE  u = [kind |-> t.kind, on |-> t.on, step |-> step, to |-> t.to]
    BY <1>2 DEF Begins
  <1>3. ASSUME NEW step, AssistantPage!Await(t, step, p),
               \/ t.kind = "select" /\ step = "read"
               \/ t.kind = "set status" /\ step = "patch"
               \/ t.kind = "delete" /\ step = "forget"
               \/ t.kind = "submit" /\ step = "create" /\ t.on = None
        PROVE  Goes(t, p)
    <2>1. PICK u : u = [t EXCEPT !.step = step]
      OBVIOUS
    <2>2. u = [kind |-> t.kind, on |-> t.on, step |-> step, to |-> t.to]
      BY <1>2, <2>1
    <2>3. StepFits(u) /\ u.kind # "mount"
      BY <1>3, <2>2 DEF StepFits, Begins
    <2>4. ASSUME NEW s, Fits(t, p) PROVE Stands(u, p, s)
      BY <1>3, <2>2, <2>4 DEF Stands, Fits, Leading, AssistantPage!HistoryKinds, AssistantPage!InTheWay
    <2>5. AssistantPage!Becomes(t, u, p)
      BY <1>3, <2>1 DEF AssistantPage!Await
    <2> QED
      BY <1>1, <2>3, <2>4, <2>5
  <1>4. ASSUME NEW q, ViewFits(q), q.snap = p.snap, q.astray = p.astray, q.working = p.working,
               NEW tab, AssistantPage!Show(t, tab, q)
        PROVE  Goes(t, p)
    <2>1. PICK u : u = AssistantPage!Task("tab", tab, "list")
      OBVIOUS
    <2>2. u.kind = "tab" /\ u.step = "list" /\ StepFits(u) /\ ~Major(u)
      BY <2>1 DEF AssistantPage!Task, StepFits, Major, Leading, Asking, AssistantPage!HistoryKinds
    <2>3. PICK b : b = AssistantPage!Blank(q)
      OBVIOUS
    <2>4. /\ ViewFits(b) /\ b.active = None /\ b.last = None /\ b.snap = p.snap
          /\ b.working = p.working /\ b.astray = p.astray
      <3>1. ViewFits(b)
        BY <1>4, <2>3, PagesMade
      <3> QED
        BY <1>4, <2>3, <3>1 DEF ViewFits, AssistantPage!Blank
    <2>5. PICK r : r = [b EXCEPT !.tab = tab, !.loading = TRUE]
      OBVIOUS
    <2>6. r.active = None /\ r.last = None /\ r.snap = p.snap /\ r.working = p.working /\ r.astray = p.astray
      BY <2>4, <2>5 DEF ViewFits
    <2>7. AssistantPage!Becomes(t, u, r)
      BY <1>4, <2>1, <2>3, <2>5 DEF AssistantPage!Show
    <2>8. ASSUME NEW s, SessionsFit(p, s) PROVE SessionsFit(r, s) /\ Stands(u, r, s)
      BY <2>2, <2>6, <2>8, SessionsSame, MinorStands
    <2> QED
      BY <1>1, <2>2, <2>6, <2>7, <2>8
  <1>5. CASE t.kind = "tab" /\ AssistantPage!Show(t, t.on, p)
    BY <1>4, <1>5
  <1>6. PICK n : n = AssistantPage!Unselected(p)
    OBVIOUS
  <1>7. ViewFits(n) /\ n.snap = p.snap /\ n.working = p.working /\ n.astray = p.astray
    BY <1>6, PageFields, PagesMade
  <1>8. CASE t.kind = "new" /\ p.tab = "archived" /\ AssistantPage!Show(t, "active", n)
    BY <1>4, <1>7, <1>8
  <1>9. CASE t.kind = "new" /\ p.tab = "active" /\ AssistantPage!End(t, AssistantPage!Blank(n))
    <2>1. PICK b : b = AssistantPage!Blank(n)
      OBVIOUS
    <2>2. b.active = None /\ b.last = None /\ b.snap = p.snap /\ b.working = p.working /\ b.astray = p.astray
      BY <1>7, <2>1 DEF ViewFits, AssistantPage!Blank
    <2>3. tasks' = tasks \ {t} /\ page' = b
      BY <1>9, <2>1 DEF AssistantPage!End
    <2>4. ASSUME NEW s, \A v \in tasks : v = t \/ ~Major(v), SessionsFit(p, s)
          PROVE  Calm(tasks', page', s)
      BY <2>2, <2>3, <2>4, SessionsSame, MajorGoesOn
    <2> QED
      BY <2>2, <2>3, <2>4 DEF Goes
  <1>10. CASE /\ t.kind \in {"start", "submit"} /\ t.on # None
              /\ AssistantPage!Await(t, "open", [p EXCEPT !.working = TRUE])
    <2>1. PICK q : q = [p EXCEPT !.working = TRUE]
      OBVIOUS
    <2>2. q.working = TRUE /\ q.snap = p.snap /\ q.last = p.last /\ q.active = p.active /\ q.astray = p.astray
      BY <2>1 DEF ViewFits
    <2>3. PICK u : u = [t EXCEPT !.step = "open"]
      OBVIOUS
    <2>4. u = [kind |-> t.kind, on |-> t.on, step |-> "open", to |-> t.to]
      BY <1>2, <2>3
    <2>5. StepFits(u) /\ u.kind # "mount"
      BY <1>10, <2>4 DEF StepFits, Begins
    <2>6. ASSUME NEW s, SessionsFit(p, s), Fits(t, p) PROVE SessionsFit(q, s) /\ Stands(u, q, s)
      <3>1. SessionsFit(q, s)
        BY <2>2, <2>6, SessionsSame
      <3>2. ~AssistantPage!Open(q)
        BY <1>10, <2>2 DEF AssistantPage!Open, AssistantPage!InTheWay, AssistantPage!HistoryKinds
      <3> QED
        BY <1>10, <2>2, <2>4, <2>6, <3>1, <3>2 DEF Stands, Fits
    <2>7. AssistantPage!Becomes(t, u, q)
      BY <1>10, <2>1, <2>3 DEF AssistantPage!Await
    <2> QED
      BY <1>1, <2>2, <2>5, <2>6, <2>7
  <1> QED
    BY <1>3, <1>5, <1>6, <1>8, <1>9, <1>10 DEF AssistantPage!GoOn

\* The owner's click, once the page has counted it, was made with nothing under way.
LEMMA ClickedFields ==
    ASSUME NEW q, ViewFits(q), q.astray \in BOOLEAN, NEW p,
           p = [q EXCEPT !.clicks = @ + 1, !.astray = @ \/ AssistantPage!Underway]
    PROVE  /\ ViewFits(p) /\ p.snap = q.snap /\ p.active = q.active /\ p.last = q.last /\ p.working = q.working
           /\ p.loading = q.loading /\ p.astray \in BOOLEAN
           /\ p.astray = FALSE => q.astray = FALSE /\ ~AssistantPage!Underway
  <1>1. PICK away \in BOOLEAN : away = (q.astray \/ AssistantPage!Underway)
    OBVIOUS
  <1>2. PICK r : r = [q EXCEPT !.clicks = q.clicks + 1]
    OBVIOUS
  <1>3. /\ ViewFits(r) /\ r.astray = q.astray /\ r.snap = q.snap /\ r.active = q.active /\ r.last = q.last
        /\ r.working = q.working /\ r.loading = q.loading
    BY <1>2 DEF ViewFits
  <1>4. p = [r EXCEPT !.astray = away]
    BY <1>1, <1>2, <1>3
  <1>5. away = FALSE => q.astray = FALSE /\ ~AssistantPage!Underway
    BY <1>1
  <1> QED
    BY <1>3, <1>4, <1>5 DEF ViewFits


\* Beside a page that is set up goes what may.
LEMMA MountStays ==
    ASSUME NEW ts, NEW p, MountFits(ts, p), NEW q, q.last = p.last, q.loading = p.loading, NEW rest \in SUBSET ts
    PROVE  /\ MountFits(rest, q)
           /\ \A u : u.kind \in {"status", "close"} \cup Asking => MountFits(rest \cup {u}, q)
  BY DEF MountFits, Asking

\* A command begins, and closes the session that is in its way or goes on.
LEMMA CommandFits ==
    ASSUME PromptInv, NEW kind, NEW c, NEW t, t = AssistantPage!Task(kind, c, "click"),
           NEW q, ViewFits(q), q.snap = page.snap, q.active = page.active, q.last = page.last,
           q.astray = page.astray, q.working \in BOOLEAN, ~AssistantPage!Working,
           NEW x, AssistantPage!Command(t, q, x),
           \/ kind = "close" /\ q.loading = page.loading
           \/ /\ page.loading # TRUE
              /\ \/ kind \in {"new", "tab"} \cup AssistantPage!HistoryKinds
                 \/ kind = "select" /\ c \in Conversations
                 \/ kind \in {"start", "submit"} /\ c = page.active
    PROVE  PromptFits' /\ UNCHANGED server
  <1>1. /\ t = [kind |-> kind, on |-> c, step |-> "click", to |-> None]
        /\ t.kind = kind /\ t.on = c /\ t.to = None
    BY DEF AssistantPage!Task
  <1>2. PICK p : p = [q EXCEPT !.clicks = @ + 1, !.astray = @ \/ AssistantPage!Underway]
    OBVIOUS
  <1>3. /\ ViewFits(p) /\ p.snap = page.snap /\ p.active = page.active /\ p.last = page.last
        /\ p.working \in BOOLEAN /\ p.loading = q.loading /\ p.astray \in BOOLEAN
        /\ p.astray = FALSE => page.astray = FALSE /\ ~AssistantPage!Underway
    <2>1. q.astray \in BOOLEAN
      BY DEF PromptInv, PromptFits
    <2>2. /\ ViewFits(p) /\ p.snap = q.snap /\ p.active = q.active /\ p.last = q.last /\ p.working = q.working
          /\ p.loading = q.loading /\ p.astray \in BOOLEAN
          /\ p.astray = FALSE => q.astray = FALSE /\ ~AssistantPage!Underway
      BY <1>2, <2>1, ClickedFields
    <2> QED
      BY <2>2
  <1>4. p.astray = FALSE => Calm(tasks, page, server) /\ SessionsFit(p, server) /\ \A v \in tasks : ~Major(v)
    BY <1>3, NoMajors, SessionsSame DEF PromptInv, PromptFits, Calm
  <1>5. /\ IF AssistantPage!InTheWay(t, p)
           THEN AssistantPage!Await(t, "close", [p EXCEPT !.working = TRUE])
           ELSE AssistantPage!GoOn(t, p, x)
        /\ UNCHANGED server
    BY <1>2 DEF AssistantPage!Command
  <1>6. \A v \in tasks : StepFits(v)
    BY DEF PromptInv, PromptFits
  <1>7. p.active \in Conversations \cup {None}
    BY <1>3 DEF PromptInv, PromptFits
  <1>8. CASE AssistantPage!InTheWay(t, p)
    <2>1. PICK r : r = [p EXCEPT !.working = TRUE]
      OBVIOUS
    <2>2. /\ r.working = TRUE /\ r.snap = p.snap /\ r.active = p.active /\ r.last = p.last
          /\ r.loading = p.loading /\ r.astray = p.astray
      BY <1>3, <2>1 DEF ViewFits
    <2>3. PICK u : u = [t EXCEPT !.step = "close"]
      OBVIOUS
    <2>4. u = [kind |-> kind, on |-> c, step |-> "close", to |-> None]
      BY <1>1, <2>3
    <2>5. StepFits(u)
      BY <1>3, <1>7, <2>4 DEF StepFits, AssistantPage!HistoryKinds
    <2>6. page' = r /\ tasks' = (tasks \ {t}) \cup {u}
      BY <1>5, <1>8, <2>1, <2>3 DEF AssistantPage!Await, AssistantPage!Becomes
    <2>7. MountFits(tasks', page')
      <3>1. CASE kind = "close" /\ q.loading = page.loading
        <4>1. PICK rest \in SUBSET tasks : rest = tasks \ {t}
          OBVIOUS
        <4>2. u.kind = "close" /\ r.last = page.last /\ r.loading = page.loading /\ MountFits(tasks, page)
          BY <1>3, <2>2, <2>4, <3>1 DEF PromptInv, PromptFits
        <4> QED
          BY <2>6, <4>1, <4>2, MountStays
      <3>2. CASE page.loading # TRUE /\ kind # "mount"
        BY <2>4, <2>6, <3>2, NoMount DEF MountFits
      <3> QED
        BY <3>1, <3>2 DEF AssistantPage!HistoryKinds
    <2>8. ASSUME p.astray = FALSE PROVE Calm(tasks', page', server)
      <3>1. SessionsFit(r, server)
        BY <1>4, <2>2, <2>8, SessionsSame
      <3>2. Stands(u, r, server)
        BY <1>3, <2>2, <2>4 DEF Stands, AssistantPage!HistoryKinds
      <3> QED
        BY <1>4, <1>6, <2>6, <2>8, <3>1, <3>2, MajorGoesOn
    <2> QED
      BY <1>3, <1>5, <1>6, <1>7, <2>2, <2>5, <2>6, <2>7, <2>8 DEF PromptFits
  <1>9. CASE ~AssistantPage!InTheWay(t, p)
    <2>1. AssistantPage!GoOn(t, p, x)
      BY <1>5, <1>9
    <2>2. kind # "close"
      BY <1>1, <2>1 DEF AssistantPage!GoOn
    <2>3. page.loading # TRUE
      BY <2>2
    <2>4. \A v \in tasks : StepFits(v) /\ v.kind # "mount"
      BY <1>6, <2>3, NoMount
    <2>5. Begins(t) /\ Fits(t, p)
      <3>1. CASE kind \in {"new", "tab"} \cup AssistantPage!HistoryKinds
        BY <1>1, <3>1 DEF Begins, Fits, AssistantPage!HistoryKinds
      <3>2. CASE kind = "select" /\ c \in Conversations
        BY <1>1, <3>2 DEF Begins, Fits
      <3>3. CASE kind \in {"start", "submit"} /\ c = page.active
        BY <1>1, <1>3, <1>7, <3>3 DEF Begins, Fits
      <3> QED
        BY <2>2, <3>1, <3>2, <3>3
    <2>6. Goes(t, p)
      BY <1>3, <1>7, <1>9, <2>1, <2>4, <2>5, GoOnFits DEF PromptInv
    <2> QED
      BY <1>3, <1>4, <1>5, <2>5, <2>6 DEF Goes, PromptFits, MountFits
  <1> QED
    BY <1>8, <1>9

\* A prompt goes to the session that the page knows.
LEMMA SendingFits ==
    ASSUME PromptInv, NEW kind \in {"submit", "retry"}, NEW c, NEW to, NEW t, t = AssistantPage!Prompt(kind, c, to),
           \A v \in tasks : v.kind # "mount", ~AssistantPage!Working,
           kind = "submit" => c \in Conversations \cup {None},
           AssistantPage!Open(page), page.snap.session.of = to, page.snap.session.state = "ready",
           SessionsFit(page, server) => c = page.active /\ c = to,
           AssistantPage!Sending(t)
    PROVE  PromptFits' /\ UNCHANGED server
  <1>1. /\ t = [kind |-> kind, on |-> c, step |-> "turn", to |-> to]
        /\ t.kind = kind /\ t.on = c /\ t.step = "turn" /\ t.to = to
    BY DEF AssistantPage!Task, AssistantPage!Prompt
  <1>2. PICK q : q = AssistantPage!Sends(page, c)
    OBVIOUS
  <1>3. /\ ViewFits(q) /\ q.last = c /\ q.working = TRUE /\ q.snap = page.snap /\ q.active = page.active
        /\ q.astray = page.astray
    <2>1. ViewFits(q)
      BY <1>2, PagesMade DEF PromptInv, HistoryInv
    <2> QED
      BY <1>2, <2>1 DEF PromptInv, HistoryInv, ViewFits, AssistantPage!Sends
  <1>4. PICK p : p = [q EXCEPT !.clicks = @ + 1, !.astray = @ \/ AssistantPage!Underway]
    OBVIOUS
  <1>5. /\ p.snap = page.snap /\ p.active = page.active /\ p.last = c /\ p.working = TRUE /\ p.astray \in BOOLEAN
        /\ p.astray = FALSE => page.astray = FALSE /\ ~AssistantPage!Underway
    <2>1. q.astray \in BOOLEAN
      BY <1>3 DEF PromptInv, PromptFits
    <2>2. /\ p.snap = q.snap /\ p.active = q.active /\ p.last = q.last /\ p.working = q.working
          /\ p.astray \in BOOLEAN
          /\ p.astray = FALSE => q.astray = FALSE /\ ~AssistantPage!Underway
      BY <1>3, <1>4, <2>1, ClickedFields
    <2> QED
      BY <1>3, <2>2
  <1>6. page' = p /\ tasks' = (tasks \ {t}) \cup {t} /\ UNCHANGED server
    BY <1>1, <1>2, <1>4 DEF AssistantPage!Sending, AssistantPage!Becomes
  <1>7. StepFits(t) /\ t.kind # "mount" /\ \A v \in tasks : StepFits(v)
    BY <1>1 DEF StepFits, PromptInv, PromptFits
  <1>8. ASSUME p.astray = FALSE PROVE Calm(tasks', page', server)
    <2>1. SessionsFit(page, server) /\ \A v \in tasks : ~Major(v)
      BY <1>5, <1>8, NoMajors DEF PromptInv, PromptFits, Calm
    <2>2. SessionsFit(p, server)
      BY <1>5, <2>1 DEF SessionsFit, AssistantPage!Open
    <2>3. Stands(t, p, server)
      BY <1>1, <1>5, <2>1 DEF Stands
    <2> QED
      BY <1>6, <1>7, <2>1, <2>2, <2>3, MajorGoesOn
  <1>9. page'.astray \in BOOLEAN /\ page'.working \in BOOLEAN /\ page'.active \in Conversations \cup {None}
    BY <1>5, <1>6 DEF PromptInv, PromptFits
  <1>10. (\A v \in tasks' : StepFits(v)) /\ MountFits(tasks', page')
    BY <1>6, <1>7 DEF MountFits
  <1>11. page'.astray = FALSE => Calm(tasks', page', server')
    BY <1>6, <1>8
  <1> QED
    BY <1>6, <1>9, <1>10, <1>11 DEF PromptFits


\* Whatever the owner clicks.
LEMMA ClicksFit ==
    ASSUME PromptInv,
           \/ AssistantPage!NewConversation \/ AssistantPage!Start \/ AssistantPage!Submit
           \/ AssistantPage!SubmitToSession \/ AssistantPage!Retry \/ AssistantPage!LoadOlder
           \/ AssistantPage!CloseSession
           \/ \E tab \in HistoryTabs : AssistantPage!ShowHistoryStatus(tab)
           \/ \E c \in Conversations :
                 \/ AssistantPage!SelectConversation(c)
                 \/ \E kind \in AssistantPage!HistoryKinds : AssistantPage!RunHistoryAction(kind, c)
           \/ \E kind \in Asking : AssistantPage!Ask(kind)
    PROVE  PromptFits' /\ UNCHANGED server
  <1>1. /\ ViewFits(page) /\ page.working \in BOOLEAN /\ page.astray \in BOOLEAN
        /\ page.active \in Conversations \cup {None}
    BY DEF PromptInv, HistoryInv, PromptFits
  <1>2. CASE AssistantPage!NewConversation
    BY <1>1, <1>2, CommandFits DEF AssistantPage!NewConversation, AssistantPage!SidebarEnabled
  <1>3. ASSUME NEW tab \in HistoryTabs, AssistantPage!ShowHistoryStatus(tab)
        PROVE  PromptFits' /\ UNCHANGED server
    BY <1>1, <1>3, CommandFits DEF AssistantPage!ShowHistoryStatus, AssistantPage!SidebarEnabled
  <1>4. CASE AssistantPage!CloseSession
    BY <1>1, <1>4, CommandFits DEF AssistantPage!CloseSession
  <1>5. ASSUME NEW c \in Conversations, NEW kind \in AssistantPage!HistoryKinds,
               AssistantPage!RunHistoryAction(kind, c)
        PROVE  PromptFits' /\ UNCHANGED server
    BY <1>1, <1>5, CommandFits
    DEF AssistantPage!RunHistoryAction, AssistantPage!RowEnabled, AssistantPage!SidebarEnabled
  <1>6. ASSUME NEW c \in Conversations, AssistantPage!SelectConversation(c)
        PROVE  PromptFits' /\ UNCHANGED server
    <2>1. PICK q : q = [page EXCEPT !.loading = TRUE, !.selecting = c]
      OBVIOUS
    <2>2. /\ ViewFits(q) /\ q.snap = page.snap /\ q.active = page.active /\ q.last = page.last
          /\ q.working = page.working /\ q.astray = page.astray
      BY <1>1, <2>1 DEF ViewFits
    <2>3. /\ AssistantPage!Command(AssistantPage!Task("select", c, "click"), q, listing)
          /\ ~AssistantPage!Working /\ page.loading # TRUE
      BY <1>6, <2>1 DEF AssistantPage!SelectConversation, AssistantPage!RowEnabled, AssistantPage!SidebarEnabled
    <2> QED
      BY <1>1, <2>2, <2>3, CommandFits
  <1>7. CASE AssistantPage!Start
    BY <1>1, <1>7, CommandFits DEF AssistantPage!Start, AssistantPage!ChatEnabled
  <1>8. CASE AssistantPage!Submit
    <2>1. PICK q : q = [page EXCEPT !.working = TRUE]
      OBVIOUS
    <2>2. /\ ViewFits(q) /\ q.snap = page.snap /\ q.active = page.active /\ q.last = page.last
          /\ q.working = TRUE /\ q.astray = page.astray
      BY <1>1, <2>1 DEF ViewFits
    <2>3. /\ AssistantPage!Command(AssistantPage!Task("submit", page.active, "click"), q, listing)
          /\ ~AssistantPage!Working /\ page.loading # TRUE
      BY <1>8, <2>1 DEF AssistantPage!Submit, AssistantPage!ChatEnabled
    <2> QED
      BY <1>1, <2>2, <2>3, CommandFits
  <1>9. CASE AssistantPage!SubmitToSession
    <2>1. /\ ~AssistantPage!Working /\ page.loading # TRUE /\ page.snap # None
          /\ page.snap.session # None /\ page.snap.session.of = page.active /\ page.snap.session.state = "ready"
          /\ AssistantPage!Sending(AssistantPage!Prompt("submit", page.active, page.active))
      BY <1>9 DEF AssistantPage!SubmitToSession, AssistantPage!ChatEnabled, AssistantPage!CanChat,
         AssistantPage!Known, AssistantPage!SessionReady, AssistantPage!ReadyFor
    <2>2. \A v \in tasks : v.kind # "mount"
      BY <2>1, NoMount
    <2> QED
      BY <1>1, <2>1, <2>2, SendingFits DEF AssistantPage!Open
  <1>10. CASE AssistantPage!Retry
    <2>1. /\ ~AssistantPage!Working /\ page.last # None /\ AssistantPage!Open(page)
          /\ page.snap.session.state = "ready"
          /\ AssistantPage!Sending(AssistantPage!Prompt("retry", page.last, page.snap.session.of))
      BY <1>10 DEF AssistantPage!Retry, AssistantPage!RetryOffered
    <2>2. \A v \in tasks : v.kind # "mount"
      BY <2>1 DEF PromptInv, PromptFits, MountFits
    <2>3. SessionsFit(page, server) => page.last = page.active /\ page.last = page.snap.session.of
      BY <2>1 DEF SessionsFit
    <2> QED
      BY <2>1, <2>2, <2>3, SendingFits
  <1>11. CASE AssistantPage!LoadOlder
    <2>1. PICK t : t = AssistantPage!Task("older", page.active, "read")
      OBVIOUS
    <2>2. t = [kind |-> "older", on |-> page.active, step |-> "read", to |-> None]
      BY <2>1 DEF AssistantPage!Task
    <2>3. PICK u : u = [t EXCEPT !.step = "read"]
      OBVIOUS
    <2>4. u.kind = "older" /\ u.step = "read" /\ StepFits(u) /\ ~Major(u)
      BY <2>2, <2>3 DEF StepFits, Major, Leading, Asking, AssistantPage!HistoryKinds
    <2>5. PICK p : p = [page EXCEPT !.loading = TRUE, !.clicks = @ + 1]
      OBVIOUS
    <2>6. /\ p.snap = page.snap /\ p.active = page.active /\ p.last = page.last
          /\ p.working = page.working /\ p.astray = page.astray
      BY <1>1, <2>5 DEF ViewFits
    <2>7. /\ tasks' = (tasks \ {t}) \cup {u} /\ page' = p /\ UNCHANGED server
          /\ page.loading # TRUE
      BY <1>11, <2>1, <2>3, <2>5 DEF AssistantPage!LoadOlder, AssistantPage!Await, AssistantPage!Becomes
    <2>8. MountFits(tasks', page')
      BY <2>4, <2>7, NoMount DEF MountFits
    <2>9. page.astray = FALSE => Calm(tasks', p, server)
      <3>1. PICK rest \in SUBSET tasks : rest = tasks \ {t}
        OBVIOUS
      <3>2. ASSUME page.astray = FALSE PROVE Calm(rest \cup {u}, p, server)
        <4>1. Calm(tasks, page, server) /\ SessionsFit(page, server)
          BY <3>2 DEF PromptInv, PromptFits, Calm
        <4>2. SessionsFit(p, server) /\ (AssistantPage!Open(p) <=> AssistantPage!Open(page))
          BY <2>6, <4>1, SessionsSame
        <4> QED
          BY <2>4, <2>6, <4>1, <4>2, MinorGoesOn
      <3> QED
        BY <2>7, <3>1, <3>2
    <2> QED
      BY <1>1, <2>4, <2>6, <2>7, <2>8, <2>9 DEF PromptInv, PromptFits
  <1>12. ASSUME NEW kind \in Asking, AssistantPage!Ask(kind)
         PROVE  PromptFits' /\ UNCHANGED server
    <2>1. PICK t : t = AssistantPage!Task(kind, None, "ask")
      OBVIOUS
    <2>2. t = [kind |-> kind, on |-> None, step |-> "ask", to |-> None]
      BY <2>1 DEF AssistantPage!Task
    <2>3. PICK u : u = [t EXCEPT !.step = "ask"]
      OBVIOUS
    <2>4. u.kind = kind /\ u.step = "ask" /\ StepFits(u)
      BY <2>2, <2>3 DEF StepFits, Asking
    <2>5. PICK q : q = [page EXCEPT !.working = TRUE]
      OBVIOUS
    <2>6. /\ ViewFits(q) /\ q.snap = page.snap /\ q.active = page.active /\ q.last = page.last
          /\ q.working = TRUE /\ q.astray = page.astray /\ q.loading = page.loading /\ q.clicks = page.clicks
      BY <1>1, <2>5 DEF ViewFits
    <2>7. PICK p : p = [q EXCEPT !.clicks = @ + 1, !.astray = @ \/ AssistantPage!Underway]
      OBVIOUS
    <2>8. /\ p.snap = q.snap /\ p.active = q.active /\ p.last = q.last /\ p.working = q.working
          /\ p.loading = q.loading /\ p.astray \in BOOLEAN
          /\ p.astray = FALSE => q.astray = FALSE /\ ~AssistantPage!Underway
      <3>1. ViewFits(q) /\ q.astray \in BOOLEAN
        BY <1>1, <2>6
      <3> QED
        BY <2>7, <3>1, ClickedFields
    <2>9. /\ tasks' = (tasks \ {t}) \cup {u} /\ page' = p /\ UNCHANGED server /\ ~AssistantPage!Working
      BY <1>12, <2>1, <2>3, <2>5, <2>7 DEF AssistantPage!Ask, AssistantPage!Await, AssistantPage!Becomes
    <2>10. PICK rest \in SUBSET tasks : rest = tasks \ {t}
      OBVIOUS
    <2>11. MountFits(tasks', page')
      BY <2>4, <2>6, <2>8, <2>9, <2>10, MountStays DEF PromptInv, PromptFits
    <2>12. ASSUME p.astray = FALSE PROVE Calm(tasks', p, server)
      <3>1. (\A v \in tasks : StepFits(v) /\ ~Major(v)) /\ SessionsFit(page, server)
        BY <2>6, <2>8, <2>9, <2>12, NoMajors DEF PromptInv, PromptFits, Calm
      <3>2. SessionsFit(p, server)
        BY <2>6, <2>8, <3>1, SessionsSame
      <3>3. Stands(u, p, server)
        BY <2>4, <2>6, <2>8 DEF Stands, Asking
      <3> QED
        BY <2>9, <3>1, <3>2, <3>3, MajorGoesOn
    <2> QED
      BY <1>1, <2>4, <2>6, <2>8, <2>9, <2>11, <2>12 DEF PromptInv, PromptFits
  <1> QED
    BY <1>2, <1>3, <1>4, <1>5, <1>6, <1>7, <1>8, <1>9, <1>10, <1>11, <1>12


\* What the host becomes.
LEMMA HostMade ==
    ASSUME NEW s \in HostSet
    PROVE  /\ AssistantPage!Trouble(s) \in HostSet /\ AssistantPage!Trouble(s).session = s.session
           /\ AssistantPage!Trouble(s).turn = s.turn
           /\ s.session \in SessionOf \cup {None} /\ s.turn \in Turns
           /\ LET l == AssistantPage!Lost(s.session) IN
                 l \in SessionOf \cup {None} /\ (l # None => s.session # None /\ l.of = s.session.of)
  BY NoneApart DEF HostSet, SessionOf, Turns, AssistantPage!Trouble, AssistantPage!Lost

LEMMA HostBecomes ==
    ASSUME server \in HostSet
    PROVE  /\ AssistantPage!WithoutSession \in HostSet /\ AssistantPage!WithoutSession.session = None
           /\ AssistantPage!WithoutSession.turn = server.turn
           /\ AssistantPage!TurnBegun \in HostSet /\ AssistantPage!TurnBegun.session = server.session
           /\ \A c \in Conversations \cup {None} : LET o == AssistantPage!Opened(c) IN
                 o \in HostSet /\ o.session # None /\ o.session.of = c /\ o.turn = "none"
  <1>1. /\ AssistantPage!WithoutSession \in HostSet /\ AssistantPage!WithoutSession.session = None
        /\ AssistantPage!WithoutSession.turn = server.turn
    BY DEF HostSet, AssistantPage!WithoutSession
  <1>2. AssistantPage!TurnBegun \in HostSet /\ AssistantPage!TurnBegun.session = server.session
    BY DEF HostSet, Turns, AssistantPage!TurnBegun
  <1>3. ASSUME NEW c \in Conversations \cup {None}
        PROVE  LET o == AssistantPage!Opened(c) IN
                 o \in HostSet /\ o.session # None /\ o.session.of = c /\ o.turn = "none"
    <2>1. PICK x : x = AssistantPage!Session(c, "starting")
      OBVIOUS
    <2>2. x \in SessionOf /\ x # None /\ x.of = c
      BY <2>1, NoneApart DEF AssistantPage!Session, SessionOf
    <2>3. PICK o : o = [server EXCEPT !.session = x, !.turn = "none"]
      OBVIOUS
    <2>4. o \in HostSet /\ o.session = x /\ o.turn = "none"
      BY <2>2, <2>3 DEF HostSet, Turns
    <2> QED
      BY <2>1, <2>2, <2>3, <2>4 DEF AssistantPage!Opened
  <1> QED
    BY <1>1, <1>2, <1>3

\* What a request makes of the host that has a session of the same conversation, or none.
LEMMA AskedMade ==
    ASSUME server \in HostSet, NEW kind, NEW s \in AssistantPage!Asked(kind),
           kind \in {"status"} \cup Asking
    PROVE  /\ s \in HostSet
           /\ s.session # None => server.session # None /\ s.session.of = server.session.of
           /\ kind = "status" => s = server
           /\ s.turn = "active" => server.turn = "active"
  <1>1. CASE kind = "status"
    BY <1>1 DEF AssistantPage!Asked
  <1>2. CASE kind = "set up"
    <2>1. PICK u \in BOOLEAN : s = [server EXCEPT !.usable = u]
      BY <1>2 DEF AssistantPage!Asked
    <2> QED
      BY <1>2, <2>1 DEF HostSet
  <1>3. CASE kind = "revoke"
    <2>1. PICK l : l = AssistantPage!Lost(server.session)
      OBVIOUS
    <2>2. PICK x \in {l, None} : s = [server EXCEPT !.usable = FALSE, !.session = x,
                                                    !.turn = AssistantPage!Ended(server.turn)]
      BY <1>3, <2>1 DEF AssistantPage!Asked
    <2>3. x \in SessionOf \cup {None} /\ (x # None => server.session # None /\ x.of = server.session.of)
      BY <2>1, <2>2, HostMade
    <2>4. PICK e \in Turns : e = AssistantPage!Ended(server.turn) /\ e # "active"
      BY DEF HostSet, Turns, AssistantPage!Ended
    <2>5. s = [server EXCEPT !.usable = FALSE, !.session = x, !.turn = e]
      BY <2>2, <2>4
    <2>6. s \in HostSet /\ s.session = x /\ s.turn = e
      BY <2>3, <2>5 DEF HostSet
    <2> QED
      BY <1>3, <2>3, <2>4, <2>6
  <1>4. CASE kind = "interrupt"
    <2>1. PICK e \in Turns : e = AssistantPage!Ended(server.turn) /\ e # "active"
      BY DEF HostSet, Turns, AssistantPage!Ended
    <2>2. s = [server EXCEPT !.turn = e]
      BY <1>4, <2>1 DEF AssistantPage!Asked, AssistantPage!Interrupted
    <2>3. s \in HostSet /\ s.session = server.session /\ s.turn = e
      BY <2>1, <2>2 DEF HostSet
    <2> QED
      BY <1>4, <2>1, <2>3
  <1> QED
    BY <1>1, <1>2, <1>3, <1>4 DEF Asking

\* What comes of a request.
LEMMA ResultCases ==
    ASSUME server \in HostSet, NEW can, NEW s \in HostSet, NEW p,
           NEW r \in AssistantPage!Results(can, s, p)
    PROVE  /\ r.server \in HostSet
           /\ \/ r.server.session = server.session /\ r.server.turn = server.turn
              \/ r.server.session = s.session /\ r.server.turn = s.turn
  <1>1. CASE r = AssistantPage!Failed(server, p)
    BY <1>1 DEF AssistantPage!Failed
  <1>2. CASE r = AssistantPage!Carried(s, p)
    BY <1>2 DEF AssistantPage!Carried
  <1>3. ASSUME NEW x \in {server, s}, r = AssistantPage!Failed(AssistantPage!Trouble(x), p)
        PROVE  /\ r.server \in HostSet
               /\ r.server.session = x.session /\ r.server.turn = x.turn
    <2>1. PICK y : y = AssistantPage!Trouble(x)
      OBVIOUS
    <2>2. y \in HostSet /\ y.session = x.session /\ y.turn = x.turn
      BY <1>3, <2>1, HostMade
    <2> QED
      BY <1>3, <2>1, <2>2 DEF AssistantPage!Failed
  <1> QED
    BY <1>1, <1>2, <1>3 DEF AssistantPage!Results

LEMMA ResultPage ==
    ASSUME NEW can, NEW s, NEW p, NEW r \in AssistantPage!Results(can, s, p)
    PROVE  r = AssistantPage!Carried(s, p) \/ (r.page = p /\ ~r.ok)
  BY DEF AssistantPage!Results, AssistantPage!Failed

\* It fits, when the host has a session of the same conversation after it, or none.
LEMMA ResultFits ==
    ASSUME server \in HostSet, NEW can, NEW s \in HostSet, NEW p, ViewFits(p),
           NEW r \in AssistantPage!Results(can, s, p),
           s.session # None => server.session # None /\ s.session.of = server.session.of
    PROVE  /\ ViewFits(r.page) /\ r.page.active = p.active /\ r.page.last = p.last
           /\ r.page.working = p.working /\ r.page.astray = p.astray /\ r.page.loading = p.loading
           /\ SessionsFit(p, server) => SessionsFit(r.page, r.server)
           /\ AssistantPage!Open(r.page) => AssistantPage!Open(p) \/ r.server.session # None
  <1>1. PICK h : h = AssistantPage!Heard(p, s)
    OBVIOUS
  <1>2. /\ ViewFits(h) /\ h.active = p.active /\ h.last = p.last /\ h.working = p.working
        /\ h.astray = p.astray /\ h.loading = p.loading
    <2>1. PICK v : v = AssistantPage!Snapshot(s)
      OBVIOUS
    <2>2. h = [p EXCEPT !.snap = v]
      BY <1>1, <2>1 DEF AssistantPage!Heard
    <2> QED
      BY <2>2 DEF ViewFits
  <1>3. r.server \in HostSet /\ (r.page = p \/ (r.page = h /\ r.server = s))
    <2>1. CASE r = AssistantPage!Carried(s, p)
      BY <1>1, <2>1, ResultCases DEF AssistantPage!Carried
    <2>2. CASE r.page = p
      BY <2>2, ResultCases
    <2> QED
      BY <2>1, <2>2, ResultPage
  <1>4. r.server.session # None => server.session # None /\ r.server.session.of = server.session.of
    <2>1. r.server.session = server.session \/ r.server.session = s.session
      BY ResultCases
    <2> QED
      BY <2>1
  <1>5. SessionsFit(p, server) => SessionsFit(r.page, r.server)
    BY <1>1, <1>3, <1>4, SessionsStay
  <1>6. AssistantPage!Open(r.page) => AssistantPage!Open(p) \/ r.server.session # None
    <2>1. CASE r.page = h /\ r.server = s
      <3>1. h.snap = AssistantPage!Snapshot(s)
        BY <1>1 DEF ViewFits, AssistantPage!Heard
      <3> QED
        BY <2>1, <3>1 DEF AssistantPage!Open, AssistantPage!Snapshot
    <2> QED
      BY <1>3, <2>1
  <1> QED
    BY <1>2, <1>3, <1>5, <1>6


\* A host that begins no turn.
Quiet == server' \in HostSet /\ (server'.turn = "active" => server.turn = "active")

LEMMA OneMajor ==
    ASSUME PromptInv, page.astray = FALSE, NEW t \in tasks, Major(t)
    PROVE  /\ \A v \in tasks : v = t \/ ~Major(v)
           /\ SessionsFit(page, server) /\ Stands(t, page, server)
  BY DEF PromptInv, PromptFits, Calm

\* What is known of the task and the page.
LEMMA PromptFacts ==
    ASSUME PromptInv, NEW t \in tasks
    PROVE  /\ ViewFits(page) /\ page.working \in BOOLEAN /\ page.astray \in BOOLEAN
           /\ page.active \in Conversations \cup {None} /\ server \in HostSet
           /\ StepFits(t) /\ t = [kind |-> t.kind, on |-> t.on, step |-> t.step, to |-> t.to]
           /\ \A v \in tasks : StepFits(v)
           /\ MountFits(tasks, page)
           /\ page.astray = FALSE => Calm(tasks, page, server)
  BY DEF PromptInv, HistoryInv, TaskFits, PromptFits

\* A request without a subject.
LEMMA AnswerAskFits ==
    ASSUME PromptInv, NEW t \in tasks, AssistantPage!AnswerAsk(t)
    PROVE  PromptFits' /\ Quiet
  <1>1. t.kind \in {"status"} \cup Asking
    BY PromptFacts DEF StepFits, Asking, AssistantPage!AnswerAsk
  <1>2. PICK can, s, r :
           /\ s \in AssistantPage!Asked(t.kind) /\ r \in AssistantPage!Results(can, s, page)
           /\ server' = r.server
           /\ AssistantPage!End(t, [r.page EXCEPT !.working = IF t.kind = "status" THEN @ ELSE FALSE])
    BY DEF AssistantPage!AnswerAsk
  <1>3. s \in AssistantPage!Asked(t.kind) /\ r \in AssistantPage!Results(can, s, page)
    BY <1>2
  <1>4. /\ s \in HostSet /\ server \in HostSet
        /\ s.session # None => server.session # None /\ s.session.of = server.session.of
        /\ t.kind = "status" => s = server
        /\ s.turn = "active" => server.turn = "active"
    BY <1>1, <1>3, AskedMade DEF PromptInv
  <1>5. s \in HostSet /\ server \in HostSet
    BY <1>4
  <1>6. /\ r.server \in HostSet
        /\ \/ r.server.session = server.session /\ r.server.turn = server.turn
           \/ r.server.session = s.session /\ r.server.turn = s.turn
    BY <1>5, <1>3, ResultCases
  <1>7. Quiet
    BY <1>2, <1>4, <1>6 DEF Quiet
  <1>8. /\ ViewFits(r.page) /\ r.page.active = page.active /\ r.page.last = page.last
        /\ r.page.working = page.working /\ r.page.astray = page.astray /\ r.page.loading = page.loading
        /\ SessionsFit(page, server) => SessionsFit(r.page, r.server)
        /\ AssistantPage!Open(r.page) => AssistantPage!Open(page) \/ r.server.session # None
    <2>1. ViewFits(page)
      BY PromptFacts
    <2>2. s.session # None => server.session # None /\ s.session.of = server.session.of
      BY <1>4
    <2> QED
      BY <1>5, <1>3, <2>1, <2>2, ResultFits
  <1>9. t.kind = "status" => r.server.session = server.session
    BY <1>4, <1>6
  <1>10. PICK working : working = IF t.kind = "status" THEN r.page.working ELSE FALSE
    OBVIOUS
  <1>11. PICK p : p = [r.page EXCEPT !.working = working]
    OBVIOUS
  <1>12. /\ p.snap = r.page.snap /\ p.active = page.active /\ p.last = page.last /\ p.working = working
         /\ p.astray = page.astray /\ p.loading = page.loading
    BY <1>8, <1>11 DEF ViewFits
  <1>13. page' = p /\ tasks' = tasks \ {t}
    BY <1>2, <1>10, <1>11 DEF AssistantPage!End
  <1>14. PICK rest \in SUBSET tasks : rest = tasks \ {t}
    OBVIOUS
  <1>15. MountFits(tasks', page')
    BY <1>12, <1>13, <1>14, PromptFacts, MountStays
  <1>16. ASSUME page.astray = FALSE PROVE Calm(tasks', p, r.server)
    <2>1. Calm(tasks, page, server) /\ SessionsFit(page, server)
      BY <1>16, PromptFacts DEF Calm
    <2>2. SessionsFit(p, r.server) /\ (AssistantPage!Open(p) <=> AssistantPage!Open(r.page))
      BY <1>8, <1>12, <2>1, SessionsSame
    <2>3. CASE t.kind = "status"
      <3>1. p.working = page.working /\ p.active = page.active
        BY <1>8, <1>10, <1>12, <2>3
      <3>2. /\ AssistantPage!Open(p) => AssistantPage!Open(page) \/ r.server.session # None
            /\ server.session # None => r.server.session # None
        BY <1>8, <1>9, <2>2, <2>3
      <3>3. Calm(rest, p, r.server)
        BY <2>1, <2>2, <3>1, <3>2, MinorGoesOn
      <3> QED
        BY <1>13, <1>14, <3>3
    <2>4. CASE t.kind # "status"
      <3>1. Major(t)
        BY <1>1, <2>4 DEF Major
      <3> QED
        BY <1>13, <1>16, <2>2, <3>1, OneMajor, PromptFacts, MajorGoesOn
    <2> QED
      BY <2>3, <2>4
  <1>17. working \in BOOLEAN
    BY <1>8, <1>10, PromptFacts
  <1>18. page'.astray \in BOOLEAN /\ page'.working \in BOOLEAN /\ page'.active \in Conversations \cup {None}
    BY <1>12, <1>13, <1>17, PromptFacts
  <1>19. page'.astray = FALSE => Calm(tasks', page', server')
    BY <1>2, <1>12, <1>13, <1>16
  <1> QED
    BY <1>7, <1>13, <1>15, <1>18, <1>19, PromptFacts DEF PromptFits

\* A session is closed, or not, and the command goes on or ends.
LEMMA AnswerCloseFits ==
    ASSUME PromptInv, NEW t \in tasks, AssistantPage!AnswerClose(t)
    PROVE  PromptFits' /\ Quiet
  <1>1. /\ t.kind \in {"tab", "new", "close", "select", "start", "submit"} \cup AssistantPage!HistoryKinds
        /\ t.step = "close"
    BY PromptFacts DEF StepFits, Asking, AssistantPage!AnswerClose, AssistantPage!HistoryKinds
  <1>2. Major(t)
    BY <1>1 DEF Major, Leading
  <1>3. PICK q : q = [page EXCEPT !.working = FALSE]
    OBVIOUS
  <1>4. /\ ViewFits(q) /\ q.snap = page.snap /\ q.active = page.active /\ q.last = page.last
        /\ q.working = FALSE /\ q.loading = page.loading /\ q.astray = page.astray
    BY <1>3, PromptFacts DEF ViewFits
  <1>5. PICK can, s, r :
           /\ s = AssistantPage!WithoutSession /\ r \in AssistantPage!Results(can, s, q)
           /\ server' = r.server
           /\ IF t.kind = "close" \/ AssistantPage!InTheWay(t, r.page)
              THEN AssistantPage!End(t, [r.page EXCEPT !.loading =
                       IF t.kind = "select" /\ ~AssistantPage!Superseded(t) THEN FALSE ELSE @])
              ELSE AssistantPage!GoOn(t, r.page, listing)
    BY <1>3 DEF AssistantPage!AnswerClose
  <1>6. s \in HostSet /\ s.session = None /\ s.turn = server.turn
    BY <1>5, PromptFacts, HostBecomes
  <1>7. r \in AssistantPage!Results(can, s, q)
    BY <1>5
  <1>8. /\ r.server \in HostSet
        /\ \/ r.server.session = server.session /\ r.server.turn = server.turn
           \/ r.server.session = s.session /\ r.server.turn = s.turn
    <2>1. s \in HostSet /\ server \in HostSet
      BY <1>6, PromptFacts
    <2> QED
      BY <1>7, <2>1, ResultCases
  <1>9. Quiet
    BY <1>5, <1>6, <1>8 DEF Quiet
  <1>10. /\ ViewFits(r.page) /\ r.page.active = q.active /\ r.page.last = q.last
         /\ r.page.working = q.working /\ r.page.astray = q.astray /\ r.page.loading = q.loading
         /\ SessionsFit(q, server) => SessionsFit(r.page, r.server)
    <2>1. s \in HostSet /\ server \in HostSet
      BY <1>6, PromptFacts
    <2>2. ViewFits(q) /\ (s.session # None => server.session # None /\ s.session.of = server.session.of)
      BY <1>4, <1>6
    <2> QED
      BY <1>7, <2>1, <2>2, ResultFits
  <1>11. /\ r.page.active = page.active /\ r.page.last = page.last /\ r.page.working = FALSE
         /\ r.page.astray = page.astray /\ r.page.loading = page.loading
    BY <1>4, <1>10
  <1>12. page.astray = FALSE =>
            (\A v \in tasks : v = t \/ ~Major(v)) /\ SessionsFit(r.page, server') /\ Fits(t, r.page)
    <2>1. ASSUME page.astray = FALSE
          PROVE  (\A v \in tasks : v = t \/ ~Major(v)) /\ SessionsFit(page, server) /\ Stands(t, page, server)
      BY <1>2, <2>1, OneMajor
    <2>2. SessionsFit(page, server) => SessionsFit(q, server)
      BY <1>4, SessionsSame
    <2>3. Stands(t, page, server) => Fits(t, r.page)
      BY <1>1, <1>11 DEF Stands, Fits
    <2> QED
      BY <1>5, <1>10, <2>1, <2>2, <2>3
  <1>13. CASE t.kind = "close" \/ AssistantPage!InTheWay(t, r.page)
    <2>1. PICK loading : loading = IF t.kind = "select" /\ ~AssistantPage!Superseded(t) THEN FALSE ELSE r.page.loading
      OBVIOUS
    <2>2. PICK p : p = [r.page EXCEPT !.loading = loading]
      OBVIOUS
    <2>3. /\ p.snap = r.page.snap /\ p.active = page.active /\ p.last = page.last /\ p.working = FALSE
          /\ p.astray = page.astray /\ p.loading = loading
      BY <1>10, <1>11, <2>2 DEF ViewFits
    <2>4. page' = p /\ tasks' = tasks \ {t}
      BY <1>5, <1>13, <2>1, <2>2 DEF AssistantPage!End
    <2>5. MountFits(tasks', page')
      <3>1. CASE t.kind = "close"
        <4>1. PICK rest \in SUBSET tasks : rest = tasks \ {t}
          OBVIOUS
        <4>2. p.loading = page.loading
          BY <1>11, <2>1, <2>3, <3>1
        <4> QED
          BY <2>3, <2>4, <4>1, <4>2, PromptFacts, MountStays
      <3>2. CASE t.kind # "close"
        BY <1>1, <2>4, <3>2, NoMount DEF MountFits, Asking, AssistantPage!HistoryKinds
      <3> QED
        BY <3>1, <3>2
    <2>6. page'.astray = FALSE => Calm(tasks', page', server')
      BY <1>11, <1>12, <2>3, <2>4, SessionsSame, PromptFacts, MajorGoesOn
    <2>7. page'.astray \in BOOLEAN /\ page'.working \in BOOLEAN /\ page'.active \in Conversations \cup {None}
      BY <2>3, <2>4, PromptFacts
    <2> QED
      BY <1>9, <2>4, <2>5, <2>6, <2>7, PromptFacts DEF PromptFits
  <1>14. CASE ~(t.kind = "close" \/ AssistantPage!InTheWay(t, r.page))
    <2>1. AssistantPage!GoOn(t, r.page, listing) /\ ~AssistantPage!InTheWay(t, r.page) /\ t.kind # "close"
      BY <1>5, <1>14
    <2>2. Begins(t)
      BY <1>1, <2>1, PromptFacts DEF Begins, StepFits
    <2>3. \A v \in tasks : StepFits(v) /\ v.kind # "mount"
      BY <1>1, <2>1, NoMount, PromptFacts DEF Asking, AssistantPage!HistoryKinds
    <2>4. Goes(t, r.page)
      <3>1. HistoryInv /\ r.page.working \in BOOLEAN /\ r.page.active \in Conversations \cup {None}
        BY <1>11, PromptFacts DEF PromptInv
      <3> QED
        BY <1>10, <2>1, <2>2, <2>3, <3>1, GoOnFits
    <2>5. page'.astray = FALSE => Calm(tasks', page', server')
      BY <1>11, <1>12, <2>4 DEF Goes
    <2>6. page'.astray \in BOOLEAN
      BY <1>11, <2>4, PromptFacts DEF Goes
    <2> QED
      BY <1>9, <2>4, <2>5, <2>6 DEF Goes, PromptFits, MountFits
  <1> QED
    BY <1>13, <1>14


\* The host has the same session, or none.
LEMMA HostStays ==
    ASSUME PromptInv, NEW p, p.snap = page.snap, p.last = page.last \/ p.last = None,
           p.active = page.active \/ p.last = None, NEW r,
           r.session # None => server.session # None /\ r.session.of = server.session.of
    PROVE  /\ SessionsFit(page, server) => SessionsFit(p, r)
           /\ AssistantPage!Open(p) <=> AssistantPage!Open(page)
  BY DEF SessionsFit, AssistantPage!Open

\* A conversation is made for the prompt.
LEMMA AnswerCreateFits ==
    ASSUME PromptInv, NEW t \in tasks, AssistantPage!AnswerCreate(t)
    PROVE  PromptFits' /\ Quiet
  <1>1. t.kind = "submit" /\ t.step = "create" /\ t.on = None
    BY PromptFacts DEF StepFits, Asking, AssistantPage!AnswerCreate
  <1>2. Major(t)
    BY <1>1 DEF Major, Leading
  <1>3. \A v \in tasks : v.kind # "mount"
    BY <1>1, NoMount DEF Asking
  <1>4. page.astray = FALSE =>
           /\ \A v \in tasks : v = t \/ ~Major(v)
           /\ SessionsFit(page, server) /\ page.active = None /\ page.last = None
           /\ ~AssistantPage!Open(page) \/ server.session # None
    <2>1. ASSUME page.astray = FALSE
          PROVE  (\A v \in tasks : v = t \/ ~Major(v)) /\ SessionsFit(page, server) /\ Stands(t, page, server)
      BY <1>2, <2>1, OneMajor
    <2>2. Stands(t, page, server) => page.active = None /\ (~AssistantPage!Open(page) \/ server.session # None)
      BY <1>1 DEF Stands
    <2>3. SessionsFit(page, server) /\ page.active = None => page.last = None
      BY DEF SessionsFit
    <2> QED
      BY <2>1, <2>2, <2>3
  <1>5. ASSUME NEW c \in Conversations,
               AssistantPage!Becomes(t, [t EXCEPT !.on = c, !.step = "open"],
                   [page EXCEPT !.active = c, !.tab = "active", !.list = {c}, !.working = TRUE]),
               UNCHANGED server
        PROVE  PromptFits' /\ Quiet
    <2>1. PICK u : u = [t EXCEPT !.on = c, !.step = "open"]
      OBVIOUS
    <2>2. u.kind = "submit" /\ u.on = c /\ u.step = "open"
      BY <1>1, <2>1, PromptFacts
    <2>3. PICK p : p = [page EXCEPT !.active = c, !.tab = "active", !.list = {c}, !.working = TRUE]
      OBVIOUS
    <2>4. /\ p.snap = page.snap /\ p.active = c /\ p.last = page.last /\ p.working = TRUE
          /\ p.astray = page.astray
      BY <2>3, PromptFacts DEF ViewFits
    <2>5. page' = p /\ tasks' = (tasks \ {t}) \cup {u}
      BY <1>5, <2>1, <2>3 DEF AssistantPage!Becomes
    <2>6. StepFits(u)
      BY <2>2 DEF StepFits
    <2>7. ASSUME page.astray = FALSE PROVE Calm(tasks', p, server)
      <3>1. SessionsFit(p, server) /\ (AssistantPage!Open(p) <=> AssistantPage!Open(page))
        BY <1>4, <2>4, <2>7, SessionsSame
      <3>2. Stands(u, p, server)
        BY <1>4, <2>2, <2>4, <2>7, <3>1 DEF Stands
      <3> QED
        BY <1>4, <2>5, <2>7, <3>1, <3>2, PromptFacts, MajorGoesOn
    <2>8. MountFits(tasks', page')
      BY <1>3, <2>2, <2>5 DEF MountFits
    <2>9. page'.astray \in BOOLEAN /\ page'.working \in BOOLEAN /\ page'.active \in Conversations \cup {None}
      BY <2>4, <2>5, PromptFacts
    <2>10. page'.astray = FALSE => Calm(tasks', page', server')
      BY <1>5, <2>4, <2>5, <2>7
    <2> QED
      BY <1>5, <2>5, <2>6, <2>8, <2>9, <2>10, PromptFacts DEF PromptFits, Quiet
  <1>6. ASSUME AssistantPage!End(t, [page EXCEPT !.working = FALSE]), server' = AssistantPage!Trouble(server)
        PROVE  PromptFits' /\ Quiet
    <2>1. PICK p : p = [page EXCEPT !.working = FALSE]
      OBVIOUS
    <2>2. /\ p.snap = page.snap /\ p.active = page.active /\ p.last = page.last /\ p.working = FALSE
          /\ p.astray = page.astray
      BY <2>1, PromptFacts DEF ViewFits
    <2>3. page' = p /\ tasks' = tasks \ {t}
      BY <1>6, <2>1 DEF AssistantPage!End
    <2>4. server' \in HostSet /\ server'.session = server.session /\ server'.turn = server.turn
      BY <1>6, PromptFacts, HostMade
    <2>5. ASSUME page.astray = FALSE PROVE Calm(tasks', p, server')
      BY <1>4, <2>2, <2>3, <2>4, <2>5, HostStays, PromptFacts, MajorGoesOn
    <2>6. MountFits(tasks', page')
      BY <1>3, <2>3 DEF MountFits
    <2>7. page'.astray \in BOOLEAN /\ page'.working \in BOOLEAN /\ page'.active \in Conversations \cup {None}
      BY <2>2, <2>3, PromptFacts
    <2>8. page'.astray = FALSE => Calm(tasks', page', server')
      BY <2>2, <2>3, <2>5
    <2> QED
      BY <2>3, <2>4, <2>6, <2>7, <2>8, PromptFacts DEF PromptFits, Quiet
  <1> QED
    BY <1>5, <1>6 DEF AssistantPage!AnswerCreate

\* The host opens a session of the conversation, or refuses.
LEMMA AnswerOpenFits ==
    ASSUME PromptInv, NEW t \in tasks, AssistantPage!AnswerOpen(t)
    PROVE  PromptFits' /\ Quiet
  <1>1. t.kind \in {"start", "submit"} /\ t.step = "open" /\ t.on \in Conversations \cup {None}
    BY PromptFacts DEF StepFits, Asking, AssistantPage!AnswerOpen
  <1>2. Major(t)
    BY <1>1 DEF Major, Leading
  <1>3. \A v \in tasks : v.kind # "mount"
    BY <1>1, NoMount DEF Asking
  <1>4. PICK s : s = AssistantPage!Opened(t.on) /\ s \in HostSet /\ s.session # None /\ s.session.of = t.on
                 /\ s.turn = "none"
    BY <1>1, PromptFacts, HostBecomes
  <1>5. PICK can, r :
           /\ can = (AssistantPage!CanOpen /\ store[t.on] = "active")
           /\ r \in AssistantPage!Results(can, s, page)
           /\ server' = r.server
           /\ IF r.ok THEN AssistantPage!Await(t, "opening", page)
              ELSE AssistantPage!End(t, [page EXCEPT !.working = FALSE])
    BY <1>4 DEF AssistantPage!AnswerOpen
  <1>6. /\ r.server \in HostSet
        /\ \/ r.server.session = server.session /\ r.server.turn = server.turn
           \/ r.server.session = s.session /\ r.server.turn = s.turn
    <2>1. s \in HostSet /\ server \in HostSet /\ r \in AssistantPage!Results(can, s, page)
      BY <1>4, <1>5, PromptFacts
    <2> QED
      BY <2>1, ResultCases
  <1>7. Quiet
    BY <1>4, <1>5, <1>6 DEF Quiet
  <1>8. r.server.session = server.session \/ server.session = None
    <2>1. CASE can
      BY <1>5, <2>1 DEF AssistantPage!CanOpen
    <2>2. CASE ~can
      <3>1. r = AssistantPage!Failed(server, page)
        BY <1>5, <2>2 DEF AssistantPage!Results
      <3> QED
        BY <3>1 DEF AssistantPage!Failed
    <2> QED
      BY <2>1, <2>2
  <1>9. ASSUME page.astray = FALSE
        PROVE  /\ \A v \in tasks : v = t \/ ~Major(v)
               /\ t.on = page.active /\ SessionsFit(page, r.server)
    <2>1. (\A v \in tasks : v = t \/ ~Major(v)) /\ SessionsFit(page, server) /\ Stands(t, page, server)
      BY <1>2, <1>9, OneMajor
    <2>2. t.on = page.active /\ (~AssistantPage!Open(page) \/ server.session # None)
      BY <1>1, <2>1 DEF Stands
    <2>3. CASE r.server.session = server.session
      <3>1. SessionsFit(page, r.server)
        BY <2>1, <2>3 DEF SessionsFit
      <3> QED
        BY <2>1, <2>2, <3>1
    <2>4. CASE server.session = None /\ r.server.session = s.session
      <3>1. SessionsFit(page, r.server)
        BY <1>4, <2>1, <2>2, <2>4 DEF SessionsFit
      <3> QED
        BY <2>1, <2>2, <3>1
    <2> QED
      BY <1>6, <1>8, <2>3, <2>4
  <1>10. CASE AssistantPage!Await(t, "opening", page)
    <2>1. PICK u : u = [t EXCEPT !.step = "opening"]
      OBVIOUS
    <2>2. u.kind = t.kind /\ u.on = t.on /\ u.step = "opening"
      BY <2>1, PromptFacts
    <2>3. page' = page /\ tasks' = (tasks \ {t}) \cup {u}
      BY <1>10, <2>1 DEF AssistantPage!Await, AssistantPage!Becomes
    <2>4. StepFits(u)
      BY <1>1, <2>2 DEF StepFits
    <2>5. ASSUME page.astray = FALSE PROVE Calm(tasks', page, r.server)
      <3>1. Stands(u, page, r.server)
        BY <1>1, <1>9, <2>2, <2>5 DEF Stands, Leading
      <3> QED
        BY <1>9, <2>3, <2>5, <3>1, PromptFacts, MajorGoesOn
    <2>6. MountFits(tasks', page')
      BY <1>1, <1>3, <2>2, <2>3 DEF MountFits
    <2>7. page'.astray = FALSE => Calm(tasks', page', server')
      BY <1>5, <2>3, <2>5
    <2> QED
      BY <1>7, <2>3, <2>4, <2>6, <2>7, PromptFacts DEF PromptFits
  <1>11. CASE AssistantPage!End(t, [page EXCEPT !.working = FALSE])
    <2>1. PICK p : p = [page EXCEPT !.working = FALSE]
      OBVIOUS
    <2>2. /\ p.snap = page.snap /\ p.active = page.active /\ p.last = page.last /\ p.working = FALSE
          /\ p.astray = page.astray
      BY <2>1, PromptFacts DEF ViewFits
    <2>3. page' = p /\ tasks' = tasks \ {t}
      BY <1>11, <2>1 DEF AssistantPage!End
    <2>4. ASSUME page.astray = FALSE PROVE Calm(tasks', p, r.server)
      <3>1. SessionsFit(p, r.server)
        BY <1>9, <2>2, <2>4, SessionsSame
      <3> QED
        BY <1>9, <2>3, <2>4, <3>1, PromptFacts, MajorGoesOn
    <2>5. MountFits(tasks', page')
      BY <1>3, <2>3 DEF MountFits
    <2>6. page'.astray \in BOOLEAN /\ page'.working \in BOOLEAN /\ page'.active \in Conversations \cup {None}
      BY <2>2, <2>3, PromptFacts
    <2>7. page'.astray = FALSE => Calm(tasks', page', server')
      BY <1>5, <2>2, <2>3, <2>4
    <2> QED
      BY <1>7, <2>3, <2>5, <2>6, <2>7, PromptFacts DEF PromptFits
  <1> QED
    BY <1>5, <1>10, <1>11


\* A command ends, or goes on at a step where it stands for what it did, with a page that
\* knows what it knew.
LEMMA EndsFit ==
    ASSUME PromptInv, NEW t \in tasks, Major(t), t.kind \notin {"close"} \cup Asking,
           NEW p, page' = p, p.snap = page.snap, p.last = page.last \/ p.last = None,
           p.active = page.active \/ p.last = None, p.active \in Conversations \cup {None},
           p.working \in BOOLEAN, p.astray = page.astray,
           server' \in HostSet, server'.session = server.session, server'.turn = server.turn,
           \/ tasks' = tasks \ {t}
           \/ \E u : /\ tasks' = (tasks \ {t}) \cup {u} /\ StepFits(u) /\ u.kind # "mount"
                     /\ page.astray = FALSE => Stands(u, p, server')
    PROVE  PromptFits' /\ Quiet
  <1>1. \A v \in tasks : v.kind # "mount"
    <2>1. t.kind # "mount" /\ t.kind # "status"
      BY DEF Major, Leading, Asking, AssistantPage!HistoryKinds
    <2> QED
      BY <2>1, NoMount
  <1>2. ASSUME page.astray = FALSE PROVE Calm(tasks', p, server')
    <2>1. (\A v \in tasks : v = t \/ ~Major(v)) /\ SessionsFit(page, server)
      BY <1>2, OneMajor
    <2>2. SessionsFit(p, server')
      BY <2>1, HostStays
    <2>3. /\ Calm(tasks \ {t}, p, server')
          /\ \A u : Stands(u, p, server') => Calm((tasks \ {t}) \cup {u}, p, server')
      BY <2>1, <2>2, PromptFacts, MajorGoesOn
    <2> QED
      BY <1>2, <2>3
  <1>3. (\A v \in tasks' : StepFits(v)) /\ MountFits(tasks', page')
    BY <1>1, PromptFacts DEF MountFits
  <1>4. page'.astray \in BOOLEAN /\ page'.working \in BOOLEAN /\ page'.active \in Conversations \cup {None}
    BY PromptFacts
  <1>5. page'.astray = FALSE => Calm(tasks', page', server')
    BY <1>2
  <1> QED
    BY <1>3, <1>4, <1>5 DEF PromptFits, Quiet

\* The session is ready, or it is not.
LEMMA AnswerOpeningFits ==
    ASSUME PromptInv, NEW t \in tasks, AssistantPage!AnswerOpening(t)
    PROVE  PromptFits' /\ Quiet
  <1>1. /\ t.kind \in {"start", "submit"} /\ t.step = "opening" /\ t.on \in Conversations \cup {None}
        /\ UNCHANGED server
    BY PromptFacts DEF StepFits, Asking, AssistantPage!AnswerOpening
  <1>2. Major(t) /\ t.kind \notin {"close"} \cup Asking
    BY <1>1 DEF Major, Leading, Asking
  <1>3. PICK h : h = AssistantPage!Heard(page, server)
    OBVIOUS
  <1>4. /\ ViewFits(h) /\ h.snap = AssistantPage!Snapshot(server) /\ h.active = page.active /\ h.last = page.last
        /\ h.astray = page.astray
    <2>1. PICK v : v = AssistantPage!Snapshot(server)
      OBVIOUS
    <2>2. h = [page EXCEPT !.snap = v]
      BY <1>3, <2>1 DEF AssistantPage!Heard
    <2> QED
      BY <2>1, <2>2, PromptFacts DEF ViewFits
  <1>5. PICK after : after = [h EXCEPT !.working = FALSE]
    OBVIOUS
  <1>6. /\ ViewFits(after) /\ after.snap = h.snap /\ after.active = page.active /\ after.last = page.last
        /\ after.working = FALSE /\ after.astray = page.astray
    BY <1>4, <1>5 DEF ViewFits
  <1>7. \A v \in tasks : v.kind # "mount"
    BY <1>1, NoMount DEF Asking
  <1>8. ASSUME page.astray = FALSE
        PROVE  /\ \A v \in tasks : v = t \/ ~Major(v)
               /\ t.on = page.active /\ SessionsFit(after, server)
    <2>1. (\A v \in tasks : v = t \/ ~Major(v)) /\ SessionsFit(page, server) /\ Stands(t, page, server)
      BY <1>2, <1>8, OneMajor
    <2>2. t.on = page.active
      BY <1>1, <2>1 DEF Stands
    <2>3. SessionsFit(h, server)
      BY <1>3, <2>1, PromptFacts, SessionsStay
    <2>4. SessionsFit(after, server)
      BY <1>4, <1>6, <2>3, SessionsSame
    <2> QED
      BY <2>1, <2>2, <2>4
  <1>9. CASE AssistantPage!End(t, [page EXCEPT !.working = FALSE])
    <2>1. PICK p : p = [page EXCEPT !.working = FALSE]
      OBVIOUS
    <2>2. /\ p.snap = page.snap /\ p.active = page.active /\ p.last = page.last /\ p.working = FALSE
          /\ p.astray = page.astray
      BY <2>1, PromptFacts DEF ViewFits
    <2>3. page' = p /\ tasks' = tasks \ {t}
      BY <1>9, <2>1 DEF AssistantPage!End
    <2> QED
      BY <1>1, <1>2, <2>2, <2>3, PromptFacts, EndsFit
  <1>10. CASE AssistantPage!End(t, after)
    <2>1. page' = after /\ tasks' = tasks \ {t}
      BY <1>10 DEF AssistantPage!End
    <2>2. page'.astray = FALSE => Calm(tasks', page', server')
      BY <1>1, <1>6, <1>8, <2>1, PromptFacts, MajorGoesOn
    <2>3. MountFits(tasks', page')
      BY <1>7, <2>1 DEF MountFits
    <2>4. page'.astray \in BOOLEAN /\ page'.working \in BOOLEAN /\ page'.active \in Conversations \cup {None}
      BY <1>6, <2>1, PromptFacts
    <2> QED
      BY <1>1, <2>1, <2>2, <2>3, <2>4, PromptFacts DEF PromptFits, Quiet
  <1>11. CASE /\ AssistantPage!ReadyFor(server.session, t.on) /\ t.kind = "submit"
              /\ AssistantPage!Becomes(t, AssistantPage!Prompt(t.kind, t.on, t.on), AssistantPage!Sends(after, t.on))
    <2>1. PICK u : u = AssistantPage!Prompt(t.kind, t.on, t.on)
      OBVIOUS
    <2>2. u.kind = "submit" /\ u.step = "turn" /\ u.on = t.on /\ u.to = t.on
      BY <1>11, <2>1 DEF AssistantPage!Prompt, AssistantPage!Task
    <2>3. PICK p : p = AssistantPage!Sends(after, t.on)
      OBVIOUS
    <2>4. /\ p.snap = h.snap /\ p.active = page.active /\ p.last = t.on /\ p.working = TRUE
          /\ p.astray = page.astray
      BY <1>6, <2>3 DEF ViewFits, AssistantPage!Sends
    <2>5. page' = p /\ tasks' = (tasks \ {t}) \cup {u}
      BY <1>11, <2>1, <2>3 DEF AssistantPage!Becomes
    <2>6. StepFits(u)
      BY <1>1, <2>2 DEF StepFits
    <2>7. ASSUME page.astray = FALSE PROVE Calm(tasks', p, server)
      <3>1. p.snap.session = server.session
        BY <1>4, <1>11, <2>4 DEF AssistantPage!Snapshot, AssistantPage!ReadyFor
      <3>2. p.snap.session.of = t.on /\ server.session.of = t.on /\ t.on = p.active
        BY <1>8, <1>11, <2>4, <2>7, <3>1 DEF AssistantPage!ReadyFor
      <3>3. SessionsFit(p, server)
        BY <2>4, <3>1, <3>2 DEF SessionsFit
      <3>4. Stands(u, p, server)
        BY <2>2, <2>4 DEF Stands
      <3> QED
        BY <1>8, <2>5, <2>7, <3>3, <3>4, PromptFacts, MajorGoesOn
    <2>8. MountFits(tasks', page')
      BY <1>7, <2>2, <2>5 DEF MountFits
    <2>9. page'.astray \in BOOLEAN /\ page'.working \in BOOLEAN /\ page'.active \in Conversations \cup {None}
      BY <2>4, <2>5, PromptFacts
    <2>10. page'.astray = FALSE => Calm(tasks', page', server')
      BY <1>1, <2>4, <2>5, <2>7
    <2> QED
      BY <1>1, <2>5, <2>6, <2>8, <2>9, <2>10, PromptFacts DEF PromptFits, Quiet
  <1> QED
    BY <1>3, <1>5, <1>9, <1>10, <1>11 DEF AssistantPage!AnswerOpening

\* A prompt is taken, or not; if a turn begins, it is in the conversation that the prompt
\* stands for.
LEMMA AnswerTurnFits ==
    ASSUME PromptInv, NEW t \in tasks, AssistantPage!AnswerTurn(t)
    PROVE  /\ PromptFits' /\ server' \in HostSet
           /\ page.astray = FALSE /\ server.turn # "active" /\ server'.turn = "active" =>
                 t \notin tasks' /\ t.step = "turn" /\ t.on = server.session.of
  <1>1. t.kind \in {"submit", "retry"} /\ t.step = "turn"
    BY PromptFacts DEF StepFits, Asking, AssistantPage!AnswerTurn
  <1>2. Major(t)
    BY <1>1 DEF Major, Leading
  <1>3. \A v \in tasks : v.kind # "mount"
    BY <1>1, NoMount DEF Asking
  <1>4. PICK q : q = [page EXCEPT !.working = FALSE]
    OBVIOUS
  <1>5. /\ ViewFits(q) /\ q.snap = page.snap /\ q.active = page.active /\ q.last = page.last
        /\ q.working = FALSE /\ q.astray = page.astray
    BY <1>4, PromptFacts DEF ViewFits
  <1>6. PICK can, s, r :
           /\ s = AssistantPage!TurnBegun /\ can = AssistantPage!CanTurn(t.to)
           /\ r \in AssistantPage!Results(can, s, q)
           /\ server' = r.server /\ AssistantPage!End(t, r.page)
    BY <1>4 DEF AssistantPage!AnswerTurn
  <1>7. s \in HostSet /\ server \in HostSet /\ s.session = server.session
    BY <1>6, PromptFacts, HostBecomes
  <1>8. r \in AssistantPage!Results(can, s, q)
    BY <1>6
  <1>9. r.server \in HostSet /\ r.server.session = server.session
    BY <1>7, <1>8, ResultCases
  <1>10. /\ ViewFits(r.page) /\ r.page.active = q.active /\ r.page.last = q.last
         /\ r.page.working = q.working /\ r.page.astray = q.astray
         /\ SessionsFit(q, server) => SessionsFit(r.page, r.server)
    <2>1. s.session # None => server.session # None /\ s.session.of = server.session.of
      BY <1>7
    <2> QED
      BY <1>5, <1>7, <1>8, <2>1, ResultFits
  <1>11. page' = r.page /\ tasks' = tasks \ {t} /\ server' = r.server
    BY <1>6 DEF AssistantPage!End
  <1>12. ASSUME page.astray = FALSE
         PROVE  (\A v \in tasks : v = t \/ ~Major(v)) /\ SessionsFit(page, server) /\ t.on = t.to
    <2>1. (\A v \in tasks : v = t \/ ~Major(v)) /\ SessionsFit(page, server) /\ Stands(t, page, server)
      BY <1>2, <1>12, OneMajor
    <2> QED
      BY <1>1, <2>1 DEF Stands
  <1>13. page'.astray = FALSE => Calm(tasks', page', server')
    <2>1. ASSUME page.astray = FALSE PROVE Calm(tasks', r.page, r.server)
      <3>1. SessionsFit(q, server)
        BY <1>5, <1>12, <2>1, SessionsSame
      <3> QED
        BY <1>10, <1>11, <1>12, <2>1, <3>1, PromptFacts, MajorGoesOn
    <2> QED
      BY <1>5, <1>10, <1>11, <2>1
  <1>14. MountFits(tasks', page')
    BY <1>3, <1>11 DEF MountFits
  <1>15. page'.astray \in BOOLEAN /\ page'.working \in BOOLEAN /\ page'.active \in Conversations \cup {None}
    BY <1>5, <1>10, <1>11, PromptFacts
  <1>16. PromptFits'
    BY <1>11, <1>13, <1>14, <1>15, PromptFacts DEF PromptFits
  <1>17. ASSUME page.astray = FALSE, server.turn # "active", server'.turn = "active"
         PROVE  t \notin tasks' /\ t.step = "turn" /\ t.on = server.session.of
    <2>1. CASE can
      BY <1>1, <1>6, <1>11, <1>12, <1>17, <2>1 DEF AssistantPage!CanTurn, AssistantPage!ReadyFor
    <2>2. CASE ~can
      <3>1. r = AssistantPage!Failed(server, q)
        BY <1>6, <2>2 DEF AssistantPage!Results
      <3> QED
        BY <1>11, <1>17, <3>1 DEF AssistantPage!Failed
    <2> QED
      BY <2>1, <2>2
  <1> QED
    BY <1>9, <1>11, <1>16, <1>17


\* Another command ends, or the page is set up further.
LEMMA MinorFits ==
    ASSUME PromptInv, NEW t \in tasks, ~Major(t), t.kind \in {"older", "tab", "mount"},
           NEW p, page' = p, p.snap = page.snap, p.last = page.last, p.working = page.working,
           p.astray = page.astray, p.active \in Conversations \cup {None},
           p.active = page.active \/ t.kind = "mount",
           server' \in HostSet, server'.session = server.session, server'.turn = server.turn,
           \/ tasks' = tasks \ {t}
           \/ /\ t.kind = "mount" /\ p.loading = page.loading
              /\ \E u : tasks' = (tasks \ {t}) \cup {u} /\ StepFits(u) /\ u.kind = "mount"
    PROVE  PromptFits' /\ Quiet
  <1>1. IF t.kind = "mount"
          THEN /\ page.last = None /\ page.loading = TRUE
               /\ \A v \in tasks : v = t \/ v.kind \in {"status", "close"} \cup Asking
          ELSE \A v \in tasks : v.kind # "mount"
    <2>1. CASE t.kind = "mount"
      BY <2>1, PromptFacts DEF MountFits
    <2>2. CASE t.kind # "mount"
      BY <2>2, NoMount DEF Asking
    <2> QED
      BY <2>1, <2>2
  <1>2. MountFits(tasks', page') /\ \A v \in tasks' : StepFits(v)
    BY <1>1, PromptFacts DEF MountFits, Asking
  <1>3. ASSUME page.astray = FALSE PROVE Calm(tasks', p, server')
    <2>1. Calm(tasks, page, server) /\ SessionsFit(page, server)
      BY <1>3, PromptFacts DEF Calm
    <2>2. p.active = page.active \/ p.last = None
      BY <1>1
    <2>3. SessionsFit(p, server') /\ (AssistantPage!Open(p) <=> AssistantPage!Open(page))
      BY <2>1, <2>2, HostStays
    <2>4. ASSUME NEW v \in tasks, v # t PROVE Stands(v, p, server')
      <3>1. Stands(v, page, server)
        BY <2>1 DEF Calm
      <3>2. v.kind \in {"start", "submit"} => p.active = page.active
        BY <1>1, <2>4 DEF Asking
      <3> QED
        BY <2>3, <3>1, <3>2 DEF Stands
    <2>5. ASSUME NEW u, StepFits(u), u.kind = "mount" PROVE ~Major(u) /\ Stands(u, p, server')
      <3>1. ~Major(u)
        BY <2>5 DEF Major, Leading, Asking, AssistantPage!HistoryKinds
      <3> QED
        BY <2>5, <3>1, MinorStands
    <2> QED
      BY <2>1, <2>3, <2>4, <2>5 DEF Calm
  <1>4. page'.astray \in BOOLEAN /\ page'.working \in BOOLEAN /\ page'.active \in Conversations \cup {None}
    BY PromptFacts
  <1>5. page'.astray = FALSE => Calm(tasks', page', server')
    BY <1>3
  <1> QED
    BY <1>2, <1>4, <1>5 DEF PromptFits, Quiet

\* Something happens beside the commands.
LEMMA EventFits ==
    ASSUME PromptInv, UNCHANGED tasks, NEW p, page' = p, p.active = page.active, p.last = page.last,
           p.working = page.working, p.astray = page.astray, p.loading = page.loading,
           server' \in HostSet, server'.turn = "active" => server.turn = "active",
           server.session # None => server'.session # None,
           SessionsFit(page, server) => SessionsFit(p, server'),
           AssistantPage!Open(p) => AssistantPage!Open(page) \/ server'.session # None
    PROVE  PromptFits' /\ Quiet
  <1>1. ASSUME page.astray = FALSE PROVE Calm(tasks, p, server')
    <2>1. Calm(tasks, page, server) /\ SessionsFit(page, server)
      BY <1>1 DEF PromptInv, PromptFits, Calm
    <2>2. tasks \in SUBSET tasks
      OBVIOUS
    <2> QED
      BY <2>1, <2>2, MinorGoesOn
  <1>2. MountFits(tasks', page')
    BY DEF PromptInv, PromptFits, MountFits
  <1>3. page'.astray \in BOOLEAN /\ page'.working \in BOOLEAN /\ page'.active \in Conversations \cup {None}
    BY DEF PromptInv, PromptFits
  <1>4. page'.astray = FALSE => Calm(tasks', page', server')
    BY <1>1
  <1>5. \A v \in tasks' : StepFits(v)
    BY DEF PromptInv, PromptFits
  <1> QED
    BY <1>2, <1>3, <1>4, <1>5 DEF PromptFits, Quiet

\* Messages were read, or not.
LEMMA AnswerReadFits ==
    ASSUME PromptInv, NEW t \in tasks, AssistantPage!AnswerRead(t)
    PROVE  PromptFits' /\ Quiet
  <1>1. t.kind \in {"mount", "older", "select"} /\ t.step = "read"
    BY PromptFacts DEF StepFits, Asking, AssistantPage!AnswerRead
  <1>2. t.kind = "mount" \/ t.kind = "select" => t.on \in Conversations \cup {None}
    BY PromptFacts DEF StepFits
  <1>3. server' \in HostSet /\ server'.session = server.session /\ server'.turn = server.turn
    BY PromptFacts, HostMade DEF AssistantPage!AnswerRead
  <1>4. PICK q : q = [page EXCEPT !.loading = FALSE]
    OBVIOUS
  <1>5. /\ q.snap = page.snap /\ q.active = page.active /\ q.last = page.last /\ q.working = page.working
        /\ q.astray = page.astray
    BY <1>4, PromptFacts DEF ViewFits
  <1>6. PICK last : last = IF t.kind = "select" THEN None ELSE page.last
    OBVIOUS
  <1>7. PICK p : p = [page EXCEPT !.active = t.on, !.loading = FALSE, !.last = last]
    OBVIOUS
  <1>8. /\ p.snap = page.snap /\ p.active = t.on /\ p.last = last /\ p.working = page.working
        /\ p.astray = page.astray
    BY <1>7, PromptFacts DEF ViewFits
  <1>9. /\ tasks' = tasks \ {t}
        /\ page' \in {q, page} \/ (t.kind \in {"select", "mount"} /\ page' = p)
    BY <1>4, <1>6, <1>7 DEF AssistantPage!AnswerRead, AssistantPage!End
  <1>10. CASE t.kind = "select"
    <2>1. Major(t) /\ t.kind \notin {"close"} \cup Asking
      BY <1>10 DEF Major, Leading, Asking
    <2>2. CASE page' = p
      BY <1>2, <1>3, <1>6, <1>8, <1>9, <1>10, <2>1, <2>2, PromptFacts, EndsFit
    <2>3. CASE page' = q
      BY <1>3, <1>5, <1>9, <2>1, <2>3, PromptFacts, EndsFit
    <2>4. CASE page' = page
      BY <1>3, <1>9, <2>1, <2>4, PromptFacts, EndsFit
    <2> QED
      BY <1>9, <2>2, <2>3, <2>4
  <1>11. CASE t.kind \in {"mount", "older"}
    <2>1. ~Major(t)
      BY <1>11 DEF Major, Leading, Asking, AssistantPage!HistoryKinds
    <2>2. CASE t.kind = "mount" /\ page' = p
      <3>1. p.last = page.last
        BY <1>6, <1>8, <2>2
      <3> QED
        BY <1>2, <1>3, <1>8, <1>9, <2>1, <2>2, <3>1, MinorFits
    <2>3. CASE page' = q
      BY <1>3, <1>5, <1>9, <1>11, <2>1, <2>3, PromptFacts, MinorFits
    <2>4. CASE page' = page
      BY <1>3, <1>9, <1>11, <2>1, <2>4, PromptFacts, MinorFits
    <2> QED
      BY <1>9, <1>11, <2>2, <2>3, <2>4
  <1> QED
    BY <1>1, <1>10, <1>11

\* A conversation was removed, or not.
LEMMA AnswerRemovalFits ==
    ASSUME PromptInv, NEW t \in tasks, AssistantPage!AnswerRemoval(t) \/ AssistantPage!AnswerForget(t)
    PROVE  PromptFits' /\ Quiet
  <1>1. t.kind \in AssistantPage!HistoryKinds /\ (t.step = "forget" => t.kind = "delete")
    BY PromptFacts
    DEF StepFits, Asking, AssistantPage!HistoryKinds, AssistantPage!AnswerRemoval, AssistantPage!AnswerForget
  <1>2. Major(t) /\ t.kind \notin {"close"} \cup Asking
    BY <1>1 DEF Major, Asking, AssistantPage!HistoryKinds
  <1>3. server' \in HostSet /\ server'.session = server.session /\ server'.turn = server.turn
    BY PromptFacts, HostMade DEF AssistantPage!AnswerRemoval, AssistantPage!AnswerForget
  <1>4. ASSUME NEW ok \in BOOLEAN, AssistantPage!Removed(t, ok)
        PROVE  PromptFits' /\ Quiet
    <2>1. PICK gone : gone = [page EXCEPT !.list = @ \ {t.on}]
      OBVIOUS
    <2>2. /\ ViewFits(gone) /\ gone.snap = page.snap /\ gone.active = page.active /\ gone.last = page.last
          /\ gone.working = page.working /\ gone.astray = page.astray
      BY <2>1, PromptFacts DEF ViewFits
    <2>3. PICK blank : blank = AssistantPage!Blank(gone)
      OBVIOUS
    <2>4. /\ blank.snap = page.snap /\ blank.active = None /\ blank.last = None
          /\ blank.working = page.working /\ blank.astray = page.astray
      BY <2>2, <2>3 DEF ViewFits, AssistantPage!Blank
    <2>5. page' \in {page, gone, blank} /\ tasks' = tasks \ {t}
      BY <1>4, <2>1, <2>3 DEF AssistantPage!Removed, AssistantPage!End
    <2>6. CASE page' = page
      BY <1>2, <1>3, <2>5, <2>6, PromptFacts, EndsFit
    <2>7. CASE page' = gone
      BY <1>2, <1>3, <2>2, <2>5, <2>7, PromptFacts, EndsFit
    <2>8. CASE page' = blank
      BY <1>2, <1>3, <2>4, <2>5, <2>8, PromptFacts, EndsFit
    <2> QED
      BY <2>5, <2>6, <2>7, <2>8
  <1>5. CASE AssistantPage!Await(t, "erase", page) /\ t.step = "forget"
    <2>1. PICK u : u = [t EXCEPT !.step = "erase"]
      OBVIOUS
    <2>2. u.kind = "delete" /\ u.step = "erase"
      BY <1>1, <1>5, <2>1, PromptFacts
    <2>3. StepFits(u) /\ u.kind # "mount" /\ Stands(u, page, server')
      BY <2>2 DEF StepFits, Stands, AssistantPage!HistoryKinds
    <2>4. page' = page /\ tasks' = (tasks \ {t}) \cup {u}
      BY <1>5, <2>1 DEF AssistantPage!Await, AssistantPage!Becomes
    <2> QED
      BY <1>2, <1>3, <2>3, <2>4, PromptFacts, EndsFit
  <1> QED
    BY <1>4, <1>5 DEF AssistantPage!AnswerRemoval, AssistantPage!AnswerForget


\* What waits for a list goes on with it, or ends without.
LEMMA ShownFitsPrompt ==
    ASSUME PromptInv, NEW t \in tasks, t.kind \in {"tab", "mount"}, NEW items,
           \A c \in items : c \in Conversations, NEW p, ViewFits(p), p.snap = page.snap,
           p.active = page.active, p.last = page.last, p.working = page.working,
           p.astray = page.astray, p.loading = page.loading,
           server' \in HostSet, server'.session = server.session, server'.turn = server.turn,
           AssistantPage!Shown(t, items, p) \/ AssistantPage!End(t, [p EXCEPT !.loading = FALSE])
    PROVE  PromptFits' /\ Quiet
  <1>1. CASE AssistantPage!End(t, [p EXCEPT !.loading = FALSE])
    <2>1. PICK q : q = [p EXCEPT !.loading = FALSE]
      OBVIOUS
    <2>2. /\ q.snap = page.snap /\ q.active = page.active /\ q.last = page.last /\ q.working = page.working
          /\ q.astray = page.astray
      BY <2>1 DEF ViewFits
    <2>3. page' = q /\ tasks' = tasks \ {t}
      BY <1>1, <2>1 DEF AssistantPage!End
    <2>4. CASE ~Major(t)
      BY <2>2, <2>3, <2>4, PromptFacts, MinorFits
    <2>5. CASE Major(t)
      <3>1. t.kind \notin {"close"} \cup Asking
        BY DEF Asking
      <3> QED
        BY <2>2, <2>3, <2>5, <3>1, PromptFacts, EndsFit
    <2> QED
      BY <2>4, <2>5
  <1>2. ASSUME NEW c \in items, t.kind = "mount",
               AssistantPage!Becomes(t, [t EXCEPT !.on = c, !.step = "read"], [p EXCEPT !.active = c])
        PROVE  PromptFits' /\ Quiet
    <2>1. PICK u : u = [t EXCEPT !.on = c, !.step = "read"]
      OBVIOUS
    <2>2. u.kind = "mount" /\ u.on = c /\ u.step = "read"
      BY <1>2, <2>1, PromptFacts
    <2>3. StepFits(u)
      BY <2>2 DEF StepFits
    <2>4. PICK q : q = [p EXCEPT !.active = c]
      OBVIOUS
    <2>5. /\ q.snap = page.snap /\ q.active = c /\ q.last = page.last /\ q.working = page.working
          /\ q.astray = page.astray /\ q.loading = page.loading
      BY <2>4 DEF ViewFits
    <2>6. page' = q /\ tasks' = (tasks \ {t}) \cup {u}
      BY <1>2, <2>1, <2>4 DEF AssistantPage!Becomes
    <2>7. ~Major(t)
      BY <1>2 DEF Major, Leading, Asking, AssistantPage!HistoryKinds
    <2> QED
      BY <1>2, <2>2, <2>3, <2>5, <2>6, <2>7, MinorFits
  <1> QED
    BY <1>1, <1>2 DEF AssistantPage!Shown

\* The lists.
LEMMA ListsFit ==
    ASSUME PromptInv,
           \/ AssistantPage!ReadList \/ AssistantPage!ListArrives \/ AssistantPage!ListFails
           \/ \E t \in tasks : AssistantPage!Outdated(t)
    PROVE  PromptFits' /\ Quiet
  <1>1. ViewFits(page) /\ server \in HostSet /\ ListFits /\ \A t \in tasks : StepFits(t)
    BY DEF PromptInv, PromptFits, HistoryInv
  <1>2. CASE AssistantPage!ReadList
    BY <1>1, <1>2, EventFits DEF AssistantPage!ReadList
  <1>3. CASE AssistantPage!ListArrives
    <2>1. PICK list : list = IF listing.tab = page.tab THEN listing.items ELSE page.list
      OBVIOUS
    <2>2. PICK p : p = [page EXCEPT !.list = list]
      OBVIOUS
    <2>3. /\ ViewFits(p) /\ p.snap = page.snap /\ p.active = page.active /\ p.last = page.last
          /\ p.working = page.working /\ p.astray = page.astray /\ p.loading = page.loading
      BY <1>1, <2>2 DEF ViewFits
    <2>4. /\ \/ page' = p /\ UNCHANGED tasks
             \/ \E t \in tasks : listing.by # None /\ t.kind = listing.by /\ AssistantPage!Shown(t, listing.items, p)
          /\ UNCHANGED server /\ listing # None /\ listing.items # None
      BY <1>3, <2>1, <2>2 DEF AssistantPage!ListArrives
    <2>5. CASE page' = p /\ UNCHANGED tasks
      BY <1>1, <2>3, <2>4, <2>5, SessionsSame, EventFits DEF AssistantPage!Open
    <2>6. ASSUME NEW t \in tasks, listing.by # None, t.kind = listing.by, AssistantPage!Shown(t, listing.items, p)
          PROVE  PromptFits' /\ Quiet
      <3>1. t.kind \in {"tab", "mount"} /\ \A c \in listing.items : c \in Conversations
        BY <1>1, <2>4, <2>6 DEF ListFits
      <3> QED
        BY <1>1, <2>3, <2>4, <2>6, <3>1, ShownFitsPrompt
    <2> QED
      BY <2>4, <2>5, <2>6
  <1>4. CASE AssistantPage!ListFails
    <2>1. server' \in HostSet /\ server'.session = server.session /\ server'.turn = server.turn
      BY <1>1, <1>4, HostMade DEF AssistantPage!ListFails
    <2>2. CASE UNCHANGED <<page, tasks>>
      BY <2>1, <2>2, EventFits DEF SessionsFit
    <2>3. ASSUME NEW t \in tasks, listing.by # None, t.kind = listing.by,
                 AssistantPage!End(t, [page EXCEPT !.loading = FALSE])
          PROVE  PromptFits' /\ Quiet
      <3>1. t.kind \in {"tab", "mount"}
        BY <1>1, <1>4, <2>3 DEF ListFits, AssistantPage!ListFails
      <3>2. PICK items : items = {}
        OBVIOUS
      <3> QED
        BY <1>1, <2>1, <2>3, <3>1, <3>2, ShownFitsPrompt
    <2> QED
      BY <1>4, <2>2, <2>3 DEF AssistantPage!ListFails
  <1>5. ASSUME NEW t \in tasks, AssistantPage!Outdated(t)
        PROVE  PromptFits' /\ Quiet
    <2>1. PICK items : items = {c \in Conversations : store[c] = "active"} /\ AssistantPage!Shown(t, items, page)
      BY <1>5 DEF AssistantPage!Outdated
    <2>2. t.kind \in {"tab", "mount"} /\ UNCHANGED server
      BY <1>1, <1>5 DEF StepFits, Asking, AssistantPage!Outdated
    <2>3. \A c \in items : c \in Conversations
      BY <2>1
    <2> QED
      BY <1>1, <2>1, <2>2, <2>3, ShownFitsPrompt
  <1> QED
    BY <1>2, <1>3, <1>4, <1>5

\* The host goes on by itself, and tells the page.
LEMMA HostFits ==
    ASSUME PromptInv,
           \/ AssistantPage!TurnEnds \/ AssistantPage!SessionStarts \/ AssistantPage!ProviderDies
           \/ AssistantPage!StateChanged \/ UNCHANGED assistant
    PROVE  PromptFits' /\ Quiet
  <1>1. ViewFits(page) /\ server \in HostSet
    BY DEF PromptInv, HistoryInv
  <1>2. ASSUME UNCHANGED <<page, tasks>>, server' \in HostSet, server'.turn = "active" => server.turn = "active",
               server'.session # None <=> server.session # None, server'.session.of = server.session.of
        PROVE  PromptFits' /\ Quiet
    BY <1>2, EventFits DEF SessionsFit
  <1>3. CASE AssistantPage!TurnEnds
    <2>1. server' = [server EXCEPT !.turn = "ended"] /\ UNCHANGED <<page, tasks>>
      BY <1>3 DEF AssistantPage!TurnEnds
    <2>2. server' \in HostSet /\ server'.turn = "ended" /\ server'.session = server.session
      BY <1>1, <2>1 DEF HostSet, Turns
    <2> QED
      BY <1>2, <2>1, <2>2
  <1>4. CASE AssistantPage!SessionStarts
    <2>1. PICK state \in {"ready", "lost"} :
             /\ server' = [server EXCEPT !.session.state = state]
             /\ server.session # None /\ UNCHANGED <<page, tasks>>
      BY <1>4 DEF AssistantPage!SessionStarts
    <2>2. PICK x : x = [server.session EXCEPT !.state = state]
      OBVIOUS
    <2>3. x \in SessionOf /\ x # None /\ x.of = server.session.of
      BY <1>1, <2>1, <2>2, NoneApart DEF HostSet, SessionOf
    <2>4. server' = [server EXCEPT !.session = x]
      BY <2>1, <2>2
    <2>5. server' \in HostSet /\ server'.turn = server.turn /\ server'.session = x
      BY <1>1, <2>3, <2>4 DEF HostSet
    <2> QED
      BY <1>2, <2>1, <2>3, <2>5
  <1>5. CASE AssistantPage!ProviderDies
    <2>1. PICK l : l = AssistantPage!Lost(server.session)
      OBVIOUS
    <2>2. l \in SessionOf \cup {None} /\ (l # None <=> server.session # None) /\ l.of = server.session.of
      BY <1>1, <2>1, NoneApart DEF HostSet, SessionOf, AssistantPage!Lost
    <2>3. PICK e \in Turns : e = AssistantPage!Ended(server.turn) /\ e # "active"
      BY <1>1 DEF HostSet, Turns, AssistantPage!Ended
    <2>4. /\ server' = [server EXCEPT !.usable = FALSE, !.session = l, !.turn = e, !.troubles = @ + 1]
          /\ UNCHANGED <<page, tasks>>
      BY <1>5, <2>1, <2>3 DEF AssistantPage!ProviderDies
    <2>5. server' \in HostSet /\ server'.turn = e /\ server'.session = l
      <3>1. PICK s : s = [server EXCEPT !.usable = FALSE, !.session = l, !.turn = e]
        OBVIOUS
      <3>2. s \in HostSet /\ s.session = l /\ s.turn = e /\ s.troubles = server.troubles
        BY <1>1, <2>2, <3>1 DEF HostSet
      <3>3. server' = AssistantPage!Trouble(s)
        BY <2>4, <3>1, <3>2 DEF AssistantPage!Trouble
      <3> QED
        BY <3>2, <3>3, HostMade
    <2> QED
      BY <1>2, <2>2, <2>3, <2>4, <2>5
  <1>6. CASE AssistantPage!StateChanged
    <2>1. PICK h : h = AssistantPage!Heard(page, server)
      OBVIOUS
    <2>2. PICK v : v = AssistantPage!Snapshot(server)
      OBVIOUS
    <2>3. h = [page EXCEPT !.snap = v]
      BY <2>1, <2>2 DEF AssistantPage!Heard
    <2>4. /\ h.active = page.active /\ h.last = page.last /\ h.working = page.working
          /\ h.astray = page.astray /\ h.loading = page.loading
      BY <1>1, <2>3 DEF ViewFits
    <2>5. page' = h /\ UNCHANGED <<server, tasks>>
      BY <1>6, <2>1 DEF AssistantPage!StateChanged
    <2>6. AssistantPage!Open(h) => server.session # None
      <3>1. h.snap = v
        BY <1>1, <2>3 DEF ViewFits
      <3> QED
        BY <2>2, <3>1 DEF AssistantPage!Open, AssistantPage!Snapshot
    <2>7. SessionsFit(page, server) => SessionsFit(h, server)
      BY <1>1, <2>1, SessionsStay
    <2> QED
      BY <1>1, <2>4, <2>5, <2>6, <2>7, EventFits
  <1>7. CASE UNCHANGED assistant
    BY <1>1, <1>2, <1>7 DEF assistant
  <1> QED
    BY <1>3, <1>4, <1>5, <1>6, <1>7

\* Every step keeps the invariant, and begins a turn only for the conversation that its
\* prompt was typed in.
LEMMA PromptKeeps ==
    ASSUME PromptInv, AssistantPage!Next \/ UNCHANGED assistant
    PROVE  PromptInv' /\ AssistantPage!PromptWhereTyped
  <1>1. HistoryInv' /\ server \in HostSet
    BY HistoryKeeps DEF PromptInv
  <1>2. CASE PromptFits' /\ Quiet
    BY <1>1, <1>2 DEF PromptInv, Quiet, AssistantPage!PromptWhereTyped
  <1>3. CASE \/ AssistantPage!TurnEnds \/ AssistantPage!SessionStarts \/ AssistantPage!ProviderDies
             \/ AssistantPage!StateChanged \/ UNCHANGED assistant
    BY <1>2, <1>3, HostFits
  <1>4. CASE \/ AssistantPage!NewConversation \/ AssistantPage!Start \/ AssistantPage!Submit
             \/ AssistantPage!SubmitToSession \/ AssistantPage!Retry \/ AssistantPage!LoadOlder
             \/ AssistantPage!CloseSession
             \/ \E tab \in HistoryTabs : AssistantPage!ShowHistoryStatus(tab)
             \/ \E c \in Conversations :
                   \/ AssistantPage!SelectConversation(c)
                   \/ \E kind \in AssistantPage!HistoryKinds : AssistantPage!RunHistoryAction(kind, c)
             \/ \E kind \in Asking : AssistantPage!Ask(kind)
    <2>1. PromptFits' /\ UNCHANGED server
      BY <1>4, ClicksFit
    <2> QED
      BY <1>1, <1>2, <2>1 DEF Quiet
  <1>5. CASE \E t \in tasks :
                \/ AssistantPage!AnswerAsk(t) \/ AssistantPage!AnswerClose(t) \/ AssistantPage!AnswerCreate(t)
                \/ AssistantPage!AnswerOpen(t) \/ AssistantPage!AnswerOpening(t) \/ AssistantPage!AnswerRead(t)
                \/ AssistantPage!AnswerRemoval(t) \/ AssistantPage!AnswerForget(t)
    BY <1>2, <1>5, AnswerAskFits, AnswerCloseFits, AnswerCreateFits, AnswerOpenFits, AnswerOpeningFits,
       AnswerReadFits, AnswerRemovalFits
  <1>6. ASSUME NEW t \in tasks, AssistantPage!AnswerTurn(t)
        PROVE  PromptInv' /\ AssistantPage!PromptWhereTyped
    <2>1. /\ PromptFits' /\ server' \in HostSet
          /\ page.astray = FALSE /\ server.turn # "active" /\ server'.turn = "active" =>
                t \notin tasks' /\ t.step = "turn" /\ t.on = server.session.of
      BY <1>6, AnswerTurnFits
    <2>2. PromptInv'
      BY <1>1, <2>1 DEF PromptInv
    <2>3. ASSUME ~page.astray PROVE page.astray = FALSE
      BY <2>3 DEF PromptInv, PromptFits
    <2>4. AssistantPage!PromptWhereTyped
      BY <2>1, <2>3 DEF AssistantPage!PromptWhereTyped
    <2> QED
      BY <2>2, <2>4
  <1>7. CASE \/ AssistantPage!ReadList \/ AssistantPage!ListArrives \/ AssistantPage!ListFails
             \/ \E t \in tasks : AssistantPage!Outdated(t)
    BY <1>2, <1>7, ListsFit
  <1> QED
    BY <1>3, <1>4, <1>5, <1>6, <1>7 DEF AssistantPage!Next, HistoryTabs, Asking

\* The invariant holds at the start.
LEMMA PromptStart ==
    ASSUME AssistantPage!Init
    PROVE  PromptInv
  <1>1. /\ page.snap = None /\ page.active = None /\ page.last = None /\ page.working = FALSE
        /\ page.astray = FALSE /\ page.loading = TRUE
    BY DEF AssistantPage!Init
  <1>2. \A t \in tasks :
           (t.kind = "mount" /\ t.step = "list" /\ t.on = None) \/ (t.kind = "status" /\ t.step = "ask")
    BY DEF AssistantPage!Init, AssistantPage!Task
  <1>3. \A t, u \in tasks : t.kind = "mount" /\ u.kind = "mount" => t = u
    BY DEF AssistantPage!Init, AssistantPage!Task
  <1>4. \A t \in tasks : StepFits(t) /\ ~Major(t)
    BY <1>2 DEF StepFits, Major, Leading, Asking, AssistantPage!HistoryKinds
  <1>5. MountFits(tasks, page)
    BY <1>1, <1>2, <1>3 DEF MountFits
  <1>6. Calm(tasks, page, server)
    <2>1. SessionsFit(page, server)
      BY <1>1 DEF SessionsFit, AssistantPage!Open
    <2> QED
      BY <1>4, <2>1, MinorStands DEF Calm
  <1>7. server \in HostSet
    <2>1. server.session \in SessionOf \cup {None}
      BY DEF AssistantPage!Init, AssistantPage!Session, SessionOf
    <2> QED
      BY <2>1 DEF AssistantPage!Init, HostSet, Turns
  <1> QED
    BY <1>1, <1>4, <1>5, <1>6, <1>7, HistoryStart DEF PromptInv, PromptFits

\* A prompt reaches the conversation it was typed in, or the one made for it, unless the
\* owner clicked while a prompt or a selection was under way with nothing to tell.
THEOREM PromptsGoWhereTyped == Spec => PromptWhereTyped
  <1>1. Init => (part = "assistant" => PromptInv)
    BY PromptStart DEF Init
  <1>2. (part = "assistant" => PromptInv) /\ [Next]_vars => (part = "assistant" => PromptInv)'
    BY PartStep, PromptKeeps
  <1>3. (part = "assistant" => PromptInv) /\ [Next]_vars
        => [part = "assistant" => AssistantPage!PromptWhereTyped]_vars
    BY PartStep, PromptKeeps
  <1> QED
    BY <1>1, <1>2, <1>3, PTL DEF Spec, PromptWhereTyped

-----------------------------------------------------------------------------
(* The invoice table *)

\* A cell was seen at a version: while the row has it, the cell has that value.
WasSeen(r, version, value) ==
    /\ r \in Rows /\ version \in Nat /\ version <= invoices[r].version
    /\ version = invoices[r].version => value = invoices[r].value

RowsFit(rows) == \A r \in DOMAIN rows : WasSeen(r, rows[r].version, rows[r].value)
TableFits(table) == RowsFit(table) /\ (table = Workbook!NoTable \/ DOMAIN table = Rows)

\* What a save names, and the value its row showed when it was clicked.
BodyFits(body) == \A r \in DOMAIN body : WasSeen(r, body[r].expected, body[r].seen)

SheetFits(s) ==
    /\ s = [table |-> s.table, drafts |-> s.drafts, loading |-> s.loading, failed |-> s.failed,
            saving |-> s.saving, open |-> s.open, list |-> s.list, deciding |-> s.deciding,
            pending |-> s.pending]
    /\ TableFits(s.table) /\ DOMAIN s.drafts \subseteq Rows

SheetCallFits(c) ==
    /\ c = [kind |-> c.kind, arg |-> c.arg, body |-> c.body, stage |-> c.stage, read |-> c.read,
            answer |-> c.answer]
    /\ c.kind \in {"load", "save", "list", "approve", "reject"}
    /\ c.kind = "save" => BodyFits(c.body)
    /\ c.kind = "load" /\ c.stage = "answered" => TableFits(c.answer.rows)
    /\ c.kind = "save" /\ c.stage = "answered" => c.answer.ok \in BOOLEAN
    /\ c.kind = "save" /\ c.stage = "answered" /\ c.answer.ok => RowsFit(c.answer.rows)

\* What a pending proposal says of its row was so, and so when it is being made.
ProposalFits(q) ==
    q.status \in {"read", "pending"} =>
        /\ q = [status |-> q.status, row |-> q.row, before |-> q.before, value |-> q.value,
                expected |-> q.expected]
        /\ WasSeen(q.row, q.expected, q.before)

InvoicesFit ==
    /\ invoices = [r \in Rows |-> [version |-> invoices[r].version, value |-> invoices[r].value]]
    /\ \A r \in Rows : invoices[r].version \in Nat

WorkbookInv ==
    /\ InvoicesFit
    /\ proposed = [p \in ProposalIds |-> proposed[p]] /\ \A p \in ProposalIds : ProposalFits(proposed[p])
    /\ SheetFits(sheet)
    /\ \A c \in sheetCalls : SheetCallFits(c)

\* What a request has read for its change is as it was read, and of the versions it
\* expects; the proposal it decides is open.
ReadFits(c) ==
    /\ c.kind \in {"save", "approve", "reject"}
    /\ \A r \in DOMAIN c.read : r \in Rows /\ c.read[r] = invoices[r]
    /\ c.kind = "save" => DOMAIN c.read = DOMAIN c.body /\ Workbook!Versions(c.read, c.body)
    /\ c.kind # "save" =>
          /\ c.arg \in ProposalIds /\ proposed[c.arg].status = "pending"
          /\ c.read # <<>> => /\ DOMAIN c.read = {proposed[c.arg].row}
                              /\ c.read[proposed[c.arg].row].version = proposed[c.arg].expected

\* No two requests have read the same row, or decide the same proposal.
SheetLocks ==
    /\ \A c \in sheetCalls : c.read # None => ReadFits(c)
    /\ \A c, d \in sheetCalls : c.read # None /\ d.read # None =>
          \/ c = d
          \/ /\ DOMAIN c.read \cap DOMAIN d.read = {}
             /\ c.kind # "save" /\ d.kind # "save" => c.arg # d.arg

\* A cell changes with its row's version.
CellsMove ==
    /\ InvoicesFit'
    /\ \A r \in Rows : invoices'[r] = invoices[r] \/ invoices'[r].version = invoices[r].version + 1

\* What was seen was seen.
LEMMA StillSeen ==
    ASSUME InvoicesFit, CellsMove, NEW r, NEW version, NEW value, WasSeen(r, version, value)
    PROVE  WasSeen(r, version, value)'
  <1>1. r \in Rows /\ version \in Nat /\ invoices[r].version \in Nat /\ version <= invoices[r].version
    BY DEF WasSeen, InvoicesFit
  <1>2. CASE invoices'[r] = invoices[r]
    BY <1>2 DEF WasSeen
  <1>3. CASE invoices'[r].version = invoices[r].version + 1
    BY <1>1, <1>3 DEF WasSeen
  <1> QED
    BY <1>1, <1>2, <1>3 DEF CellsMove

\* Rows, bodies and proposals that were right are right.
LEMMA StillFit ==
    ASSUME InvoicesFit, CellsMove
    PROVE  /\ \A rows : RowsFit(rows) => RowsFit(rows)'
           /\ \A body : BodyFits(body) => BodyFits(body)'
           /\ \A table : TableFits(table) => TableFits(table)'
           /\ \A q : ProposalFits(q) => ProposalFits(q)'
           /\ \A c : SheetCallFits(c) => SheetCallFits(c)'
           /\ \A s : SheetFits(s) => SheetFits(s)'
  <1>1. ASSUME NEW rows, RowsFit(rows) PROVE RowsFit(rows)'
    BY <1>1, StillSeen DEF RowsFit
  <1>2. ASSUME NEW body, BodyFits(body) PROVE BodyFits(body)'
    BY <1>2, StillSeen DEF BodyFits
  <1>3. ASSUME NEW table, TableFits(table) PROVE TableFits(table)'
    BY <1>1, <1>3 DEF TableFits
  <1>4. ASSUME NEW q, ProposalFits(q) PROVE ProposalFits(q)'
    BY <1>4, StillSeen DEF ProposalFits
  <1>5. ASSUME NEW c, SheetCallFits(c) PROVE SheetCallFits(c)'
    BY <1>1, <1>2, <1>3, <1>5 DEF SheetCallFits
  <1>6. ASSUME NEW s, SheetFits(s) PROVE SheetFits(s)'
    BY <1>3, <1>6 DEF SheetFits
  <1> QED
    BY <1>1, <1>2, <1>3, <1>4, <1>5, <1>6

\* A step of the page: the rows stay, and what is new fits.
LEMMA SheetStep ==
    ASSUME WorkbookInv, UNCHANGED <<invoices, proposed>>, SheetFits(sheet'),
           \A c \in sheetCalls' : c \in sheetCalls \/ SheetCallFits(c)
    PROVE  WorkbookInv' /\ Workbook!ReplacedInSight
  <1>1. CellsMove
    BY DEF WorkbookInv, InvoicesFit, CellsMove
  <1>2. SheetFits(sheet)'
    BY DEF SheetFits, TableFits, RowsFit, WasSeen
  <1>3. \A c \in sheetCalls' : SheetCallFits(c)'
    BY <1>1, StillFit DEF WorkbookInv
  <1>4. \A p \in ProposalIds : ProposalFits(proposed[p])'
    BY <1>1, StillFit DEF WorkbookInv
  <1> QED
    BY <1>2, <1>3, <1>4 DEF WorkbookInv, InvoicesFit, Workbook!ReplacedInSight

\* A step of the API: what it leaves alone still fits.
LEMMA ApiStep ==
    ASSUME WorkbookInv, CellsMove, UNCHANGED sheet,
           proposed' = [p \in ProposalIds |-> proposed'[p]],
           \A p \in ProposalIds : proposed'[p] = proposed[p] \/ ProposalFits(proposed[p])',
           \A c \in sheetCalls' : c \in sheetCalls \/ SheetCallFits(c)'
    PROVE  WorkbookInv'
  <1>1. SheetFits(sheet)'
    BY StillFit DEF WorkbookInv
  <1>2. \A c \in sheetCalls' : SheetCallFits(c)'
    BY StillFit DEF WorkbookInv
  <1>3. ASSUME NEW p \in ProposalIds PROVE ProposalFits(proposed[p])'
    <2>1. CASE proposed'[p] = proposed[p]
      <3>1. PICK q : q = proposed[p]
        OBVIOUS
      <3>2. ProposalFits(q)'
        BY <3>1, StillFit DEF WorkbookInv
      <3> QED
        BY <2>1, <3>1, <3>2
    <2>2. CASE ProposalFits(proposed[p])'
      BY <2>2
    <2> QED
      BY <2>1, <2>2
  <1> QED
    BY <1>1, <1>2, <1>3 DEF WorkbookInv, CellsMove

\* A request is answered: nobody answers it again.
LEMMA SheetAnswered ==
    ASSUME WorkbookInv, CellsMove, NEW c \in sheetCalls, c.stage # "answered", NEW answer,
           Workbook!Answered(c, answer),
           c.kind = "load" => TableFits(answer.rows)',
           c.kind = "save" => answer.ok \in BOOLEAN,
           c.kind = "save" /\ answer.ok => RowsFit(answer.rows)'
    PROVE  /\ \A d \in sheetCalls' : d \in sheetCalls \/ SheetCallFits(d)'
           /\ \A d \in sheetCalls' : d \in sheetCalls \ {c} \/ d.read = None
           /\ c \notin sheetCalls'
  <1>1. SheetCallFits(c)' /\ SheetCallFits(c)
    BY StillFit DEF WorkbookInv
  <1>2. PICK a : a = [c EXCEPT !.stage = "answered"]
    OBVIOUS
  <1>3. a = [kind |-> c.kind, arg |-> c.arg, body |-> c.body, stage |-> "answered", read |-> c.read,
             answer |-> c.answer]
    BY <1>1, <1>2 DEF SheetCallFits
  <1>a. PICK b : b = [a EXCEPT !.read = None]
    OBVIOUS
  <1>b. b = [kind |-> c.kind, arg |-> c.arg, body |-> c.body, stage |-> "answered", read |-> None,
             answer |-> c.answer]
    BY <1>3, <1>a
  <1>4. PICK d : d = [b EXCEPT !.answer = answer]
    OBVIOUS
  <1>5. d = [kind |-> c.kind, arg |-> c.arg, body |-> c.body, stage |-> "answered", read |-> None,
             answer |-> answer]
    BY <1>b, <1>4
  <1>6. SheetCallFits(d)'
    BY <1>1, <1>5 DEF SheetCallFits
  <1>7. d # c /\ d.read = None
    BY <1>5
  <1>8. sheetCalls' \subseteq (sheetCalls \ {c}) \cup {d}
    BY <1>2, <1>a, <1>4 DEF Workbook!Answered
  <1> QED
    BY <1>6, <1>7, <1>8

\* Rows are changed as they were read, each with its version.
LEMMA RowsApplied ==
    ASSUME InvoicesFit, NEW c, Workbook!Diffs(c, c.read) \subseteq DOMAIN c.read,
           \A r \in DOMAIN c.read : r \in Rows /\ c.read[r] = invoices[r],
           invoices' = Workbook!WithRows(invoices, Workbook!Applied(c))
    PROVE  /\ CellsMove
           /\ \A r \in Rows : invoices'[r] # invoices[r] => r \in DOMAIN c.read
           /\ \A r \in DOMAIN c.read : Workbook!WithRows(c.read, Workbook!Applied(c))[r] = invoices'[r]
  <1>0. PICK rows : rows = Workbook!Applied(c)
    OBVIOUS
  <1>a. /\ DOMAIN rows = Workbook!Diffs(c, c.read)
        /\ \A r \in DOMAIN rows :
              rows[r] = [version |-> invoices[r].version + 1, value |-> Workbook!Body(c)[r].value]
    BY <1>0 DEF Workbook!Applied
  <1>b. DOMAIN invoices = Rows
    BY DEF InvoicesFit
  <1>c. /\ DOMAIN invoices' = Rows /\ invoices' = [r \in Rows |-> invoices'[r]]
        /\ \A r \in Rows : invoices'[r] = IF r \in DOMAIN rows THEN rows[r] ELSE invoices[r]
    BY <1>0, <1>b DEF Workbook!WithRows
  <1>2. ASSUME NEW r \in Rows
        PROVE  /\ invoices'[r] = [version |-> invoices'[r].version, value |-> invoices'[r].value]
               /\ invoices'[r].version \in Nat
               /\ invoices'[r] = invoices[r] \/ invoices'[r].version = invoices[r].version + 1
    <2>1. /\ invoices[r] = [version |-> invoices[r].version, value |-> invoices[r].value]
          /\ invoices[r].version \in Nat
      BY DEF InvoicesFit
    <2>2. PICK row : row = invoices'[r]
      OBVIOUS
    <2>3. PICK was : was = invoices[r]
      OBVIOUS
    <2>4. CASE row = was
      BY <2>1, <2>2, <2>3, <2>4
    <2>5. CASE r \in DOMAIN rows
      <3>1. row = [version |-> was.version + 1, value |-> Workbook!Body(c)[r].value]
        BY <1>a, <1>c, <2>2, <2>3, <2>5
      <3>2. row.version = was.version + 1 /\ row.value = Workbook!Body(c)[r].value
        BY <3>1
      <3> QED
        BY <2>1, <2>2, <2>3, <3>1, <3>2
    <2> QED
      BY <1>c, <2>2, <2>3, <2>4, <2>5
  <1>4. invoices' = [r \in Rows |-> [version |-> invoices'[r].version, value |-> invoices'[r].value]]
    BY <1>2, <1>c
  <1>5. InvoicesFit'
    BY <1>2, <1>4 DEF InvoicesFit
  <1>6. \A r \in DOMAIN c.read : Workbook!WithRows(c.read, rows)[r] = invoices'[r]
    BY <1>c DEF Workbook!WithRows
  <1> QED
    BY <1>0, <1>2, <1>5, <1>6, <1>a, <1>c DEF CellsMove

\* The rows a request has read stay as they are, and so does the proposal it decides.
Untouched(c) ==
    c.read # None => /\ \A r \in DOMAIN c.read : invoices'[r] = invoices[r]
                     /\ c.kind # "save" => proposed'[c.arg] = proposed[c.arg]

\* What the other requests have read is theirs, whatever becomes of one.
LEMMA OthersUntouched ==
    ASSUME WorkbookInv, SheetLocks, NEW c \in sheetCalls,
           \A r \in Rows : invoices'[r] # invoices[r] => c.read # None /\ r \in DOMAIN c.read,
           \A p \in ProposalIds : proposed'[p] # proposed[p] => c.read # None /\ c.kind # "save" /\ p = c.arg
    PROVE  \A d \in sheetCalls \ {c} : Untouched(d)
  BY DEF SheetLocks, ReadFits, Untouched

\* The locks of requests that stay, and of those nobody waits for any more.
LEMMA LocksStay ==
    ASSUME WorkbookInv, SheetLocks,
           \A e \in sheetCalls' : \/ e.read = None
                                  \/ e \in sheetCalls /\ Untouched(e)
                                  \/ \E d \in sheetCalls \ sheetCalls' : e = Workbook!Unheard(d) /\ Untouched(d)
    PROVE  SheetLocks'
  <1>1. ASSUME NEW e \in sheetCalls', e.read # None
        PROVE  \E d \in sheetCalls :
                  /\ e = d \/ (e = Workbook!Unheard(d) /\ d \notin sheetCalls')
                  /\ e.kind = d.kind /\ e.arg = d.arg /\ e.body = d.body /\ e.read = d.read
                  /\ ReadFits(e)'
    <2>1. PICK d \in sheetCalls :
             /\ Untouched(d)
             /\ e = d \/ (e = Workbook!Unheard(d) /\ d \notin sheetCalls')
      BY <1>1
    <2>2. e.kind = d.kind /\ e.arg = d.arg /\ e.body = d.body /\ e.read = d.read
      <3>1. CASE e = d
        BY <3>1
      <3>2. CASE e = Workbook!Unheard(d)
        <4>1. SheetCallFits(d)
          BY DEF WorkbookInv
        <4>2. e = [kind |-> d.kind, arg |-> d.arg, body |-> d.body, stage |-> "unheard", read |-> d.read,
                   answer |-> d.answer]
          BY <3>2, <4>1 DEF SheetCallFits, Workbook!Unheard
        <4> QED
          BY <4>2
      <3> QED
        BY <2>1, <3>1, <3>2
    <2>3. ReadFits(d)
      BY <1>1, <2>2 DEF SheetLocks
    <2>4. ReadFits(e)'
      BY <1>1, <2>1, <2>2, <2>3 DEF ReadFits, Untouched, Workbook!Versions
    <2> QED
      BY <2>1, <2>2, <2>4
  <1>2. ASSUME NEW e \in sheetCalls', NEW f \in sheetCalls', e.read # None, f.read # None
        PROVE  \/ e = f
               \/ /\ DOMAIN e.read \cap DOMAIN f.read = {}
                  /\ e.kind # "save" /\ f.kind # "save" => e.arg # f.arg
    <2>1. PICK d \in sheetCalls :
             /\ e = d \/ (e = Workbook!Unheard(d) /\ d \notin sheetCalls')
             /\ e.kind = d.kind /\ e.arg = d.arg /\ e.read = d.read
      BY <1>1, <1>2
    <2>2. PICK g \in sheetCalls :
             /\ f = g \/ (f = Workbook!Unheard(g) /\ g \notin sheetCalls')
             /\ f.kind = g.kind /\ f.arg = g.arg /\ f.read = g.read
      BY <1>1, <1>2
    <2>3. CASE d = g
      BY <2>1, <2>2, <2>3
    <2>4. CASE d # g
      BY <1>2, <2>1, <2>2, <2>4 DEF SheetLocks
    <2> QED
      BY <2>3, <2>4
  <1> QED
    BY <1>1, <1>2 DEF SheetLocks

\* A list is answered with the rows as they are.
LEMMA LoadHandled ==
    ASSUME WorkbookInv, SheetLocks, NEW c \in sheetCalls, c.stage # "answered", UNCHANGED sheet,
           Workbook!HandleLoad(c) \/ Workbook!HandleList(c) \/ Workbook!HandleReject(c)
    PROVE  WorkbookInv' /\ SheetLocks' /\ Workbook!ReplacedInSight
  <1>1. UNCHANGED <<invoices, sheet>> /\ InvoicesFit
    BY DEF WorkbookInv, Workbook!HandleLoad, Workbook!HandleList, Workbook!HandleReject
  <1>2. CellsMove
    BY <1>1 DEF InvoicesFit, CellsMove
  <1>3. \A d \in sheetCalls' : /\ d \in sheetCalls \/ SheetCallFits(d)'
                               /\ d \in sheetCalls \ {c} \/ d.read = None
    <2>1. CASE Workbook!HandleLoad(c)
      <3>1. PICK pending : Workbook!Answered(c, [rows |-> invoices, pending |-> pending])
        BY <2>1 DEF Workbook!HandleLoad
      <3>2. PICK answer : answer = [rows |-> invoices, pending |-> pending]
        OBVIOUS
      <3>3. answer.rows = invoices /\ c.kind = "load"
        BY <2>1, <3>2 DEF Workbook!HandleLoad
      <3>4. TableFits(invoices)
        <4>1. DOMAIN invoices = Rows
          BY <1>1 DEF InvoicesFit
        <4>2. \A r \in Rows : WasSeen(r, invoices[r].version, invoices[r].value)
          BY <1>1 DEF InvoicesFit, WasSeen
        <4> QED
          BY <4>1, <4>2 DEF TableFits, RowsFit
      <3>5. TableFits(answer.rows)
        BY <3>3, <3>4
      <3>6. TableFits(answer.rows)'
        BY <1>1, <1>2, <3>5, StillFit
      <3> QED
        BY <1>2, <3>1, <3>2, <3>3, <3>6, SheetAnswered
    <2>2. CASE Workbook!HandleList(c) \/ Workbook!HandleReject(c)
      <3>1. PICK answer : Workbook!Answered(c, answer) /\ c.kind \in {"list", "reject"}
        BY <2>2 DEF Workbook!HandleList, Workbook!HandleReject
      <3> QED
        BY <1>2, <3>1, SheetAnswered
    <2> QED
      BY <2>1, <2>2
  <1>4. /\ proposed' = [p \in ProposalIds |-> proposed'[p]]
        /\ \A p \in ProposalIds :
              \/ proposed'[p] = proposed[p]
              \/ ProposalFits(proposed[p])' /\ c.read # None /\ c.kind # "save" /\ p = c.arg
    <2>1. CASE UNCHANGED proposed
      BY <2>1 DEF WorkbookInv
    <2>2. CASE /\ c.read # None /\ c.kind = "reject"
               /\ c.arg \in ProposalIds /\ proposed[c.arg].status = "pending"
               /\ proposed' = [proposed EXCEPT ![c.arg].status = "rejected"]
      <3>1. PICK was : was = proposed[c.arg]
        OBVIOUS
      <3>2. PICK q : q = [was EXCEPT !.status = "rejected"]
        OBVIOUS
      <3>3. was = [status |-> was.status, row |-> was.row, before |-> was.before, value |-> was.value,
                   expected |-> was.expected]
        BY <2>2, <3>1 DEF WorkbookInv, ProposalFits
      <3>4. q.status = "rejected"
        BY <3>2, <3>3
      <3>5. proposed' = [proposed EXCEPT ![c.arg] = q]
        BY <2>2, <3>1, <3>2
      <3> QED
        BY <2>2, <3>4, <3>5 DEF WorkbookInv, ProposalFits
    <2>3. CASE Workbook!HandleReject(c)
      <3>1. ReadFits(c)
        BY <2>3 DEF SheetLocks, Workbook!HandleReject
      <3> QED
        BY <2>2, <2>3, <3>1 DEF ReadFits, Workbook!HandleReject
    <2> QED
      BY <2>1, <2>3 DEF Workbook!HandleLoad, Workbook!HandleList
  <1>5. Workbook!ReplacedInSight
    BY <1>1 DEF Workbook!ReplacedInSight
  <1>6. SheetLocks'
    BY <1>1, <1>3, <1>4, OthersUntouched, LocksStay
  <1> QED
    BY <1>1, <1>2, <1>3, <1>4, <1>5, <1>6, ApiStep

\* A request reads what it locks: no other has it.
LEMMA LockHandled ==
    ASSUME RowLocks, WorkbookInv, SheetLocks, NEW c \in sheetCalls, c.stage # "answered", UNCHANGED sheet,
           Workbook!LockProposal(c) \/ Workbook!LockInvoices(c)
    PROVE  WorkbookInv' /\ SheetLocks' /\ Workbook!ReplacedInSight
  <1>1. /\ UNCHANGED <<invoices, proposed, sheet>> /\ InvoicesFit /\ SheetCallFits(c)
        /\ c.kind \in {"save", "approve", "reject"}
    BY DEF WorkbookInv, Workbook!LockProposal, Workbook!LockInvoices, Workbook!Decisions
  <1>2. CellsMove
    BY <1>1 DEF InvoicesFit, CellsMove
  <1>3. \A d \in sheetCalls : Untouched(d)
    BY <1>1 DEF Untouched
  <1>4. CASE Workbook!Answered(c, Workbook!Refused)
    <2>1. PICK answer : answer = [ok |-> FALSE]
      OBVIOUS
    <2>2. Workbook!Answered(c, answer) /\ answer.ok = FALSE
      BY <1>4, <2>1 DEF Workbook!Refused
    <2>3. \A d \in sheetCalls' : d \in sheetCalls \/ SheetCallFits(d)
      <3>1. \A d \in sheetCalls' : d \in sheetCalls \/ SheetCallFits(d)'
        BY <1>1, <1>2, <2>2, SheetAnswered
      <3> QED
        BY <1>1, <3>1 DEF SheetCallFits, TableFits, RowsFit, BodyFits, WasSeen
    <2>4. \A d \in sheetCalls' : d \in sheetCalls \ {c} \/ d.read = None
      BY <1>1, <1>2, <2>2, SheetAnswered
    <2>5. SheetLocks'
      BY <1>3, <2>4, LocksStay
    <2> QED
      BY <1>1, <2>3, <2>5, SheetStep DEF WorkbookInv
  <1>5. CASE ~Workbook!Answered(c, Workbook!Refused)
    <2>1. PICK read : /\ Workbook!Reads(c, read)
                      /\ \/ /\ Workbook!LockProposal(c) /\ read = <<>> /\ c.arg \in Workbook!Pending
                         \/ /\ Workbook!LockInvoices(c)
                            /\ read = Workbook!Restrict(invoices, DOMAIN Workbook!Body(c))
                            /\ Workbook!Versions(read, Workbook!Body(c))
      BY <1>5 DEF Workbook!LockProposal, Workbook!LockInvoices
    <2>2. PICK held : held = [c EXCEPT !.read = read]
      OBVIOUS
    <2>3. /\ sheetCalls' = (sheetCalls \ {c}) \cup {held}
          /\ held = [kind |-> c.kind, arg |-> c.arg, body |-> c.body, stage |-> c.stage, read |-> read,
                     answer |-> c.answer]
      BY <1>1, <2>1, <2>2 DEF SheetCallFits, Workbook!Reads
    <2>4. SheetCallFits(held)
      BY <1>1, <2>3 DEF SheetCallFits
    <2>5. /\ ReadFits(held)
          /\ \A d \in sheetCalls \ {c} : d.read # None =>
                /\ DOMAIN read \cap DOMAIN d.read = {}
                /\ c.kind # "save" /\ d.kind # "save" => c.arg # d.arg
      <3>1. CASE Workbook!LockProposal(c) /\ read = <<>> /\ c.arg \in Workbook!Pending
        <4>1. DOMAIN read = {} /\ c.kind \in {"approve", "reject"} /\ Workbook!ProposalFree(c.arg)
          BY <3>1 DEF Workbook!LockProposal, Workbook!Decisions
        <4>2. ReadFits(held)
          BY <2>3, <3>1, <4>1 DEF ReadFits, Workbook!Pending
        <4>3. ASSUME NEW d \in sheetCalls \ {c}, d.read # None, d.kind # "save"
              PROVE  c.arg # d.arg
          <5>1. d.kind \in {"approve", "reject"}
            BY <4>3 DEF SheetLocks, ReadFits
          <5> QED
            BY <4>1, <4>3, <5>1 DEF Workbook!ProposalFree, Workbook!HoldsProposal, Workbook!Decisions
        <4> QED
          BY <4>1, <4>2, <4>3
      <3>2. CASE /\ Workbook!LockInvoices(c)
                 /\ read = Workbook!Restrict(invoices, DOMAIN Workbook!Body(c))
                 /\ Workbook!Versions(read, Workbook!Body(c))
        <4>1. /\ DOMAIN read = DOMAIN Workbook!Body(c)
              /\ \A r \in DOMAIN read : read[r] = invoices[r]
          BY <3>2 DEF Workbook!Restrict
        <4>2. \A d \in sheetCalls : d.read # None => DOMAIN read \cap DOMAIN d.read = {}
          BY <3>2, <4>1 DEF Workbook!LockInvoices, Workbook!RowFree, Workbook!HoldsRow
        <4>3. CASE c.kind = "save"
          <5>1. Workbook!Body(c) = c.body /\ BodyFits(c.body)
            BY <1>1, <4>3 DEF Workbook!Body, SheetCallFits
          <5>2. \A r \in DOMAIN read : r \in Rows
            BY <4>1, <5>1 DEF BodyFits, WasSeen
          <5> QED
            BY <2>3, <3>2, <4>1, <4>2, <4>3, <5>1, <5>2 DEF ReadFits
        <4>4. CASE c.kind = "approve" /\ c.read = <<>>
          <5>1. c.read # None \/ None = <<>>
            BY <4>4
          <5>2. None # <<>>
            BY NoneApart
          <5>3. ReadFits(c)
            BY <5>1, <5>2, <4>4 DEF SheetLocks
          <5>4. PICK q : q = proposed[c.arg]
            OBVIOUS
          <5>5. q.status = "pending" /\ ProposalFits(q) /\ c.arg \in ProposalIds
            BY <4>4, <5>3, <5>4 DEF ReadFits, WorkbookInv
          <5>6. /\ DOMAIN Workbook!Body(c) = {q.row}
                /\ Workbook!Body(c)[q.row] = [expected |-> q.expected, value |-> q.value]
            BY <4>4, <5>4 DEF Workbook!Body, Workbook!Change
          <5>7. q.row \in Rows /\ read[q.row].version = q.expected
            BY <3>2, <5>5, <5>6 DEF ProposalFits, WasSeen, Workbook!Versions
          <5>8. ReadFits(held)
            BY <2>3, <4>1, <4>4, <5>4, <5>5, <5>6, <5>7 DEF ReadFits
          <5>9. \A d \in sheetCalls \ {c} : d.read # None /\ d.kind # "save" => c.arg # d.arg
            BY <4>4, <5>1, <5>2 DEF SheetLocks
          <5> QED
            BY <4>2, <5>8, <5>9
        <4> QED
          BY <3>2, <4>3, <4>4 DEF Workbook!LockInvoices
      <3> QED
        BY <2>1, <3>1, <3>2
    <2>6. ReadFits(held)'
      BY <1>1, <2>5 DEF ReadFits, Workbook!Versions
    <2>7. \A d \in sheetCalls : d.read # None => ReadFits(d)'
      BY <1>1 DEF SheetLocks, ReadFits, Workbook!Versions
    <2>8. held.read = read /\ held.kind = c.kind /\ held.arg = c.arg
      BY <2>3
    <2>9. SheetLocks'
      BY <2>3, <2>5, <2>6, <2>7, <2>8 DEF SheetLocks
    <2> QED
      BY <1>1, <2>3, <2>4, <2>9, SheetStep DEF WorkbookInv
  <1> QED
    BY <1>4, <1>5

\* A save is committed only where its rows are as it saw them.
LEMMA SaveHandled ==
    ASSUME WorkbookInv, SheetLocks, NEW c \in sheetCalls, c.stage # "answered", UNCHANGED sheet,
           Workbook!HandleSave(c)
    PROVE  WorkbookInv' /\ SheetLocks' /\ Workbook!ReplacedInSight
  <1>1. SheetCallFits(c) /\ BodyFits(c.body) /\ c.kind = "save" /\ InvoicesFit /\ UNCHANGED proposed
    BY DEF WorkbookInv, SheetCallFits, Workbook!HandleSave
  <1>2. /\ c.read # None /\ DOMAIN c.read = DOMAIN c.body /\ Workbook!Versions(c.read, c.body)
        /\ \A r \in DOMAIN c.read : r \in Rows /\ c.read[r] = invoices[r]
    BY <1>1 DEF SheetLocks, ReadFits, Workbook!HandleSave
  <1>3. Workbook!Diffs(c, c.read) \subseteq DOMAIN c.read
    BY <1>1, <1>2 DEF Workbook!Diffs
  <1>4. PICK rows : rows = Workbook!WithRows(c.read, Workbook!Applied(c))
    OBVIOUS
  <1>5. PICK answer : answer = [ok |-> TRUE, rows |-> rows]
    OBVIOUS
  <1>6. /\ invoices' = Workbook!WithRows(invoices, Workbook!Applied(c))
        /\ Workbook!Answered(c, answer)
    BY <1>4, <1>5 DEF Workbook!HandleSave, Workbook!CommitRows, Workbook!Done
  <1>7. /\ CellsMove /\ \A r \in Rows : invoices'[r] # invoices[r] => r \in DOMAIN c.read
        /\ \A r \in DOMAIN c.read : rows[r] = invoices'[r]
    BY <1>1, <1>2, <1>3, <1>4, <1>6, RowsApplied
  <1>8. RowsFit(rows)'
    <2>1. DOMAIN rows = DOMAIN c.read
      BY <1>4 DEF Workbook!WithRows
    <2>2. \A r \in Rows : WasSeen(r, invoices[r].version, invoices[r].value)'
      BY <1>7 DEF CellsMove, InvoicesFit, WasSeen
    <2> QED
      BY <1>2, <1>7, <2>1, <2>2 DEF RowsFit
  <1>9. answer.ok \in BOOLEAN /\ RowsFit(answer.rows)'
    BY <1>5, <1>8
  <1>10. /\ \A d \in sheetCalls' : d \in sheetCalls \/ SheetCallFits(d)'
         /\ \A d \in sheetCalls' : d \in sheetCalls \ {c} \/ d.read = None
         /\ c \notin sheetCalls'
    BY <1>1, <1>6, <1>7, <1>9, SheetAnswered
  <1>11. \A r \in DOMAIN c.body : c.body[r].seen = invoices[r].value
    BY <1>1, <1>2 DEF BodyFits, WasSeen, Workbook!Versions
  <1>12. Workbook!ReplacedInSight
    BY <1>1, <1>2, <1>7, <1>10, <1>11 DEF Workbook!ReplacedInSight
  <1>13. SheetLocks'
    BY <1>1, <1>2, <1>7, <1>10, OthersUntouched, LocksStay
  <1> QED
    BY <1>1, <1>7, <1>10, <1>12, <1>13, ApiStep DEF WorkbookInv

\* A proposal is applied only to the row it was made of.
LEMMA ApproveHandled ==
    ASSUME WorkbookInv, SheetLocks, NEW c \in sheetCalls, c.stage # "answered", UNCHANGED sheet,
           Workbook!HandleApprove(c)
    PROVE  WorkbookInv' /\ SheetLocks' /\ Workbook!ReplacedInSight
  <1>1. c.kind = "approve" /\ InvoicesFit /\ c.read # None /\ c.read # <<>> /\ ReadFits(c)
    BY DEF WorkbookInv, SheetLocks, Workbook!HandleApprove
  <1>2. PICK p, answer : p = c.arg /\ answer = Workbook!Done(<<>>)
    OBVIOUS
  <1>3. PICK was : was = proposed[p]
    OBVIOUS
  <1>4. /\ p \in ProposalIds /\ was.status = "pending" /\ ProposalFits(was)
        /\ was = [status |-> was.status, row |-> was.row, before |-> was.before, value |-> was.value,
                  expected |-> was.expected]
    BY <1>1, <1>2, <1>3 DEF WorkbookInv, ReadFits, ProposalFits
  <1>5. /\ DOMAIN c.read = {was.row} /\ c.read[was.row].version = was.expected
        /\ c.read[was.row] = invoices[was.row]
        /\ \A r \in DOMAIN c.read : r \in Rows /\ c.read[r] = invoices[r]
    BY <1>1, <1>2, <1>3 DEF ReadFits
  <1>6. Workbook!Diffs(c, c.read) \subseteq DOMAIN c.read
    BY <1>1, <1>2, <1>3, <1>5 DEF Workbook!Diffs, Workbook!Change
  <1>7. /\ invoices' = Workbook!WithRows(invoices, Workbook!Applied(c)) /\ Workbook!Answered(c, answer)
        /\ proposed' = [proposed EXCEPT ![p].status = "approved"]
    BY <1>2 DEF Workbook!HandleApprove, Workbook!CommitRows
  <1>8. CellsMove /\ \A r \in Rows : invoices'[r] # invoices[r] => r = was.row
    BY <1>1, <1>5, <1>6, <1>7, RowsApplied
  <1>9. was.before = invoices[was.row].value
    BY <1>4, <1>5 DEF ProposalFits, WasSeen
  <1>10. PICK q : q = [was EXCEPT !.status = "approved"]
    OBVIOUS
  <1>11. q.status = "approved"
    BY <1>4, <1>10
  <1>12. proposed' = [proposed EXCEPT ![p] = q]
    BY <1>3, <1>7, <1>10
  <1>13. /\ proposed'[p] = q /\ proposed' = [o \in ProposalIds |-> proposed'[o]]
         /\ \A o \in ProposalIds : proposed'[o] = proposed[o] \/ o = p
    BY <1>4, <1>12 DEF WorkbookInv
  <1>14. ProposalFits(proposed[p])'
    BY <1>11, <1>13 DEF ProposalFits
  <1>15. /\ \A d \in sheetCalls' : d \in sheetCalls \/ SheetCallFits(d)'
         /\ \A d \in sheetCalls' : d \in sheetCalls \ {c} \/ d.read = None
    BY <1>1, <1>7, <1>8, SheetAnswered
  <1>16. Workbook!ReplacedInSight
    BY <1>3, <1>4, <1>8, <1>9, <1>11, <1>13 DEF Workbook!ReplacedInSight
  <1>17. SheetLocks'
    BY <1>1, <1>2, <1>5, <1>8, <1>13, <1>15, OthersUntouched, LocksStay
  <1> QED
    BY <1>8, <1>13, <1>14, <1>15, <1>16, <1>17, ApiStep

\* The assistant proposes a change to a row as it was when it was read.
LEMMA ProposeKeeps ==
    ASSUME WorkbookInv, SheetLocks, NEW p \in ProposalIds,
           \/ \E r \in Rows, v \in Suggested : Workbook!ReadForProposal(p, r, v)
           \/ Workbook!CreateProposal(p)
    PROVE  WorkbookInv' /\ SheetLocks' /\ Workbook!ReplacedInSight
  <1>1. UNCHANGED <<invoices, sheet, sheetCalls>> /\ InvoicesFit
    BY DEF WorkbookInv, Workbook!ReadForProposal, Workbook!CreateProposal
  <1>2. CellsMove
    BY <1>1 DEF InvoicesFit, CellsMove
  <1>3. PICK was : was = proposed[p] /\ was.status # "pending" /\ ProposalFits(was)
    BY DEF WorkbookInv, Workbook!ReadForProposal, Workbook!CreateProposal, Workbook!NoProposal
  <1>4. PICK q : proposed' = [proposed EXCEPT ![p] = q] /\ ProposalFits(q)
    <2>1. ASSUME NEW r \in Rows, NEW v \in Suggested, Workbook!ReadForProposal(p, r, v)
          PROVE  \E q : proposed' = [proposed EXCEPT ![p] = q] /\ ProposalFits(q)
      <3>1. PICK q : q = [status |-> "read", row |-> r, before |-> invoices[r].value, value |-> v,
                          expected |-> invoices[r].version]
        OBVIOUS
      <3>2. proposed' = [proposed EXCEPT ![p] = q]
        BY <2>1, <3>1 DEF Workbook!ReadForProposal
      <3>3. WasSeen(q.row, q.expected, q.before)
        BY <1>1, <3>1 DEF InvoicesFit, WasSeen
      <3>4. ProposalFits(q)
        BY <3>1, <3>3 DEF ProposalFits
      <3> QED
        BY <3>2, <3>4
    <2>2. CASE Workbook!CreateProposal(p)
      <3>1. CASE proposed' = [proposed EXCEPT ![p] = Workbook!NoProposal]
        <4>1. PICK q : q = Workbook!NoProposal /\ q = [status |-> "none"]
          BY DEF Workbook!NoProposal
        <4>2. ProposalFits(q)
          BY <4>1 DEF ProposalFits
        <4> QED
          BY <3>1, <4>1, <4>2
      <3>2. CASE proposed' = [proposed EXCEPT ![p].status = "pending"]
        <4>1. PICK q : q = [was EXCEPT !.status = "pending"]
          OBVIOUS
        <4>2. was.status = "read"
          BY <1>3, <2>2 DEF Workbook!CreateProposal
        <4>3. q = [status |-> "pending", row |-> was.row, before |-> was.before, value |-> was.value,
                   expected |-> was.expected]
          BY <1>3, <4>1, <4>2 DEF ProposalFits
        <4>4. ProposalFits(q)
          BY <1>3, <4>2, <4>3 DEF ProposalFits
        <4> QED
          BY <1>3, <3>2, <4>1, <4>4
      <3> QED
        BY <2>2, <3>1, <3>2 DEF Workbook!CreateProposal
    <2> QED
      BY <2>1, <2>2
  <1>5. ProposalFits(q)'
    BY <1>1, <1>2, <1>4, StillFit
  <1>6. /\ proposed' = [o \in ProposalIds |-> proposed'[o]] /\ proposed'[p] = q
        /\ \A o \in ProposalIds : proposed'[o] = proposed[o] \/ o = p
    BY <1>4 DEF WorkbookInv
  <1>7. \A o \in ProposalIds : proposed'[o] = proposed[o] \/ ProposalFits(proposed[o])'
    BY <1>5, <1>6
  <1>8. Workbook!ReplacedInSight
    BY <1>1 DEF Workbook!ReplacedInSight
  <1>9. \A d \in sheetCalls : Untouched(d)
    BY <1>1, <1>3, <1>6 DEF SheetLocks, ReadFits, Untouched
  <1>10. SheetLocks'
    BY <1>1, <1>9, LocksStay
  <1> QED
    BY <1>1, <1>2, <1>6, <1>7, <1>8, <1>10, ApiStep

\* A new request of the page.
LEMMA SheetRequest ==
    ASSUME NEW kind \in {"load", "save", "list", "approve", "reject"}, NEW arg, NEW body,
           kind = "save" => BodyFits(body)
    PROVE  SheetCallFits(Workbook!Request(kind, arg, body))
  <1>1. PICK c : /\ c = Workbook!Request(kind, arg, body)
                 /\ c = [kind |-> kind, arg |-> arg, body |-> body, stage |-> "sent", read |-> None,
                         answer |-> None]
    BY DEF Workbook!Request
  <1> QED
    BY <1>1 DEF SheetCallFits

\* A request nobody waits for.
LEMMA SheetUnheard ==
    ASSUME NEW c, SheetCallFits(c)
    PROVE  SheetCallFits(Workbook!Unheard(c))
  <1>1. PICK d : /\ d = Workbook!Unheard(c)
                 /\ d = [c EXCEPT !.stage = "unheard"]
    BY DEF Workbook!Unheard
  <1>2. d = [kind |-> c.kind, arg |-> c.arg, body |-> c.body, stage |-> "unheard", read |-> c.read,
             answer |-> c.answer]
    BY <1>1 DEF SheetCallFits
  <1> QED
    BY <1>1, <1>2 DEF SheetCallFits

\* The page as it is opened.
LEMMA NewSheetFits == SheetFits(Workbook!Fresh)
  <1>1. PICK s : s = Workbook!Fresh
    OBVIOUS
  <1>2. s = [table |-> <<>>, drafts |-> <<>>, loading |-> TRUE, failed |-> FALSE, saving |-> FALSE,
             open |-> FALSE, list |-> {}, deciding |-> None, pending |-> 0]
    BY <1>1 DEF Workbook!Fresh, Workbook!NoTable
  <1>3. TableFits(<<>>)
    BY DEF TableFits, RowsFit, Workbook!NoTable
  <1>4. SheetFits(s)
    BY <1>2, <1>3 DEF SheetFits
  <1> QED
    BY <1>1, <1>4

\* What the owner does.
LEMMA OwnerKeeps ==
    ASSUME WorkbookInv,
           \/ \E r \in Rows, text \in Typed : Workbook!UpdateCell(r, text)
           \/ Workbook!Discard \/ Workbook!SaveChanges \/ Workbook!OpenProposals
           \/ Workbook!Retry \/ Workbook!Reopen
           \/ \E p \in ProposalIds, action \in Workbook!Decisions : Workbook!DecideProposal(p, action)
    PROVE  WorkbookInv' /\ Workbook!ReplacedInSight
  <1>1. SheetFits(sheet)
    BY DEF WorkbookInv
  <1>2. ASSUME NEW r \in Rows, NEW text \in Typed, Workbook!UpdateCell(r, text)
        PROVE  WorkbookInv' /\ Workbook!ReplacedInSight
    <2>1. PICK drafts : drafts = IF text = sheet.table[r].value
                                 THEN Workbook!Restrict(sheet.drafts, DOMAIN sheet.drafts \ {r})
                                 ELSE [q \in DOMAIN sheet.drafts \cup {r} |-> IF q = r THEN text ELSE sheet.drafts[q]]
      OBVIOUS
    <2>2. DOMAIN drafts \subseteq Rows
      <3>1. CASE text = sheet.table[r].value
        <4>1. DOMAIN drafts = DOMAIN sheet.drafts \ {r}
          BY <2>1, <3>1 DEF Workbook!Restrict
        <4> QED
          BY <1>1, <4>1 DEF SheetFits
      <3>2. CASE text # sheet.table[r].value
        <4>1. DOMAIN drafts = DOMAIN sheet.drafts \cup {r}
          BY <2>1, <3>2
        <4> QED
          BY <1>1, <4>1 DEF SheetFits
      <3> QED
        BY <3>1, <3>2
    <2>3. sheet' = [sheet EXCEPT !.drafts = drafts] /\ UNCHANGED <<invoices, proposed, sheetCalls>>
      BY <1>2, <2>1 DEF Workbook!UpdateCell
    <2>4. SheetFits(sheet')
      BY <1>1, <2>2, <2>3 DEF SheetFits
    <2> QED
      BY <2>3, <2>4, SheetStep
  <1>3. CASE Workbook!Discard
    <2>1. sheet' = [sheet EXCEPT !.drafts = <<>>] /\ UNCHANGED <<invoices, proposed, sheetCalls>>
      BY <1>3 DEF Workbook!Discard
    <2>2. SheetFits(sheet')
      BY <1>1, <2>1 DEF SheetFits
    <2> QED
      BY <2>1, <2>2, SheetStep
  <1>4. CASE Workbook!SaveChanges
    <2>1. PICK body : body = Workbook!ChangeSet
      OBVIOUS
    <2>2. /\ sheet' = [sheet EXCEPT !.saving = TRUE] /\ sheet.table # Workbook!NoTable
          /\ sheetCalls' = sheetCalls \cup {Workbook!Request("save", None, body)}
          /\ UNCHANGED <<invoices, proposed>>
      BY <1>4, <2>1 DEF Workbook!SaveChanges, Workbook!Ask
    <2>3. SheetFits(sheet')
      BY <1>1, <2>2 DEF SheetFits
    <2>4. DOMAIN sheet.table = Rows /\ RowsFit(sheet.table) /\ DOMAIN sheet.drafts \subseteq Rows
      BY <1>1, <2>2 DEF SheetFits, TableFits
    <2>5. BodyFits(body)
      <3>1. /\ DOMAIN body = DOMAIN sheet.drafts
            /\ \A r \in DOMAIN body : body[r].expected = sheet.table[r].version /\ body[r].seen = sheet.table[r].value
        BY <2>1 DEF Workbook!ChangeSet
      <3> QED
        BY <2>4, <3>1 DEF BodyFits, RowsFit
    <2>6. SheetCallFits(Workbook!Request("save", None, body))
      BY <2>5, SheetRequest
    <2> QED
      BY <2>2, <2>3, <2>6, SheetStep
  <1>5. CASE Workbook!OpenProposals
    <2>1. PICK open : open = ~sheet.open
      OBVIOUS
    <2>2. /\ sheet' = [sheet EXCEPT !.open = open] /\ UNCHANGED <<invoices, proposed>>
          /\ sheetCalls' \subseteq sheetCalls \cup {Workbook!Request("list", None, None)}
      BY <1>5, <2>1 DEF Workbook!OpenProposals, Workbook!Ask
    <2>3. SheetFits(sheet')
      BY <1>1, <2>2 DEF SheetFits
    <2>4. SheetCallFits(Workbook!Request("list", None, None))
      BY SheetRequest
    <2> QED
      BY <2>2, <2>3, <2>4, SheetStep
  <1>6. CASE Workbook!Retry
    <2>1. /\ UNCHANGED <<invoices, proposed>>
          /\ sheet' = [sheet EXCEPT !.loading = TRUE, !.failed = FALSE]
          /\ sheetCalls' = sheetCalls \cup {Workbook!Request("load", None, None)}
      BY <1>6 DEF Workbook!Retry, Workbook!Ask, Workbook!LoadCall
    <2>2. PICK s : s = [sheet EXCEPT !.loading = TRUE]
      OBVIOUS
    <2>3. SheetFits(s)
      BY <1>1, <2>2 DEF SheetFits
    <2>4. sheet' = [s EXCEPT !.failed = FALSE]
      BY <2>1, <2>2
    <2>5. SheetFits(sheet')
      BY <2>3, <2>4 DEF SheetFits
    <2>6. SheetCallFits(Workbook!Request("load", None, None))
      BY SheetRequest
    <2> QED
      BY <2>1, <2>5, <2>6, SheetStep
  <1>7. CASE Workbook!Reopen
    <2>1. /\ UNCHANGED <<invoices, proposed>> /\ sheet' = Workbook!Fresh
          /\ \A d \in sheetCalls' : \/ d = Workbook!Request("load", None, None)
                                    \/ \E c \in sheetCalls : d = Workbook!Unheard(c)
      BY <1>7 DEF Workbook!Reopen, Workbook!LoadCall
    <2>2. SheetFits(sheet')
      BY <2>1, NewSheetFits
    <2>3. \A c \in sheetCalls : SheetCallFits(Workbook!Unheard(c))
      BY SheetUnheard DEF WorkbookInv
    <2>4. SheetCallFits(Workbook!Request("load", None, None))
      BY SheetRequest
    <2> QED
      BY <2>1, <2>2, <2>3, <2>4, SheetStep
  <1>8. ASSUME NEW p \in ProposalIds, NEW action \in Workbook!Decisions, Workbook!DecideProposal(p, action)
        PROVE  WorkbookInv' /\ Workbook!ReplacedInSight
    <2>1. /\ UNCHANGED <<invoices, proposed>> /\ sheet' = [sheet EXCEPT !.deciding = p]
          /\ sheetCalls' = sheetCalls \cup {Workbook!Request(action, p, None)}
      BY <1>8 DEF Workbook!DecideProposal, Workbook!Ask
    <2>2. SheetFits(sheet')
      BY <1>1, <2>1 DEF SheetFits
    <2>3. SheetCallFits(Workbook!Request(action, p, None))
      BY SheetRequest DEF Workbook!Decisions
    <2> QED
      BY <2>1, <2>2, <2>3, SheetStep
  <1> QED
    BY <1>2, <1>3, <1>4, <1>5, <1>6, <1>7, <1>8

\* A page whose table is replaced by rows that were read.
LEMMA TableTaken ==
    ASSUME NEW s, SheetFits(s), NEW table, TableFits(table), NEW r, r = [s EXCEPT !.table = table]
    PROVE  SheetFits(r)
  BY DEF SheetFits

\* Rows of an answer in the table.
LEMMA WithRowsFits ==
    ASSUME NEW table, TableFits(table), NEW rows, RowsFit(rows)
    PROVE  TableFits(Workbook!WithRows(table, rows))
  <1>1. PICK t : t = Workbook!WithRows(table, rows)
    OBVIOUS
  <1>2. /\ DOMAIN t = DOMAIN table
        /\ \A r \in DOMAIN t : t[r] = IF r \in DOMAIN rows THEN rows[r] ELSE table[r]
    BY <1>1 DEF Workbook!WithRows
  <1>3. RowsFit(t)
    BY <1>2 DEF TableFits, RowsFit
  <1>4. CASE DOMAIN table = Rows
    BY <1>1, <1>2, <1>3, <1>4 DEF TableFits
  <1>5. CASE table = <<>>
    <2>1. DOMAIN table = {} /\ t = [r \in {} |-> table[r]]
      BY <1>1, <1>5 DEF Workbook!WithRows
    <2>2. t = <<>>
      BY <2>1
    <2> QED
      BY <1>1, <1>3, <2>2 DEF TableFits, Workbook!NoTable
  <1> QED
    BY <1>4, <1>5 DEF TableFits, Workbook!NoTable

\* An answer is taken.
LEMMA SheetTakeKeeps ==
    ASSUME WorkbookInv, NEW c \in sheetCalls, c.stage = "answered",
           \/ Workbook!TakeLoad(c) \/ Workbook!TakeSave(c) \/ Workbook!TakeList(c) \/ Workbook!TakeDecision(c),
           UNCHANGED <<invoices, proposed>>
    PROVE  WorkbookInv' /\ Workbook!ReplacedInSight
  <1>1. SheetFits(sheet) /\ SheetCallFits(c)
    BY DEF WorkbookInv
  <1>2. CASE Workbook!TakeLoad(c)
    <2>1. PICK deciding : deciding = IF c.arg = None THEN sheet.deciding ELSE None
      OBVIOUS
    <2>2. PICK s1 : s1 = [sheet EXCEPT !.table = c.answer.rows]
      OBVIOUS
    <2>3. SheetFits(s1) /\ s1.deciding = sheet.deciding
      <3>1. c.kind = "load"
        BY <1>2 DEF Workbook!TakeLoad
      <3>2. TableFits(c.answer.rows)
        BY <1>1, <3>1 DEF SheetCallFits
      <3>3. s1.deciding = sheet.deciding
        BY <1>1, <2>2 DEF SheetFits
      <3> QED
        BY <1>1, <2>2, <3>2, <3>3, TableTaken
    <2>4. PICK s2 : s2 = [s1 EXCEPT !.pending = c.answer.pending]
      OBVIOUS
    <2>5. SheetFits(s2)
      BY <2>3, <2>4 DEF SheetFits
    <2>6. PICK s3 : s3 = [s2 EXCEPT !.loading = FALSE]
      OBVIOUS
    <2>7. SheetFits(s3)
      BY <2>5, <2>6 DEF SheetFits
    <2>8. PICK s4 : s4 = [s3 EXCEPT !.deciding = deciding]
      OBVIOUS
    <2>9. SheetFits(s4)
      BY <2>7, <2>8 DEF SheetFits
    <2>10. sheet' = [sheet EXCEPT !.table = c.answer.rows, !.pending = c.answer.pending, !.loading = FALSE,
                                  !.deciding = deciding]
      BY <1>2, <2>1 DEF Workbook!TakeLoad
    <2>11. sheet' = s4
      BY <2>2, <2>4, <2>6, <2>8, <2>10
    <2>12. sheetCalls' = sheetCalls \ {c}
      BY <1>2 DEF Workbook!TakeLoad
    <2> QED
      BY <2>9, <2>11, <2>12, SheetStep
  <1>3. CASE Workbook!TakeSave(c)
    <2>1. c.kind = "save" /\ sheetCalls' = sheetCalls \ {c} /\ c.answer.ok \in BOOLEAN
      BY <1>1, <1>3 DEF Workbook!TakeSave, SheetCallFits
    <2>2. PICK s1 : s1 = [sheet EXCEPT !.saving = FALSE]
      OBVIOUS
    <2>3. SheetFits(s1)
      BY <1>1, <2>2 DEF SheetFits
    <2>4. CASE ~c.answer.ok
      <3>1. sheet' = s1
        BY <1>3, <2>2, <2>4 DEF Workbook!TakeSave
      <3> QED
        BY <2>1, <2>3, <3>1, SheetStep
    <2>5. CASE c.answer.ok
      <3>1. PICK table : table = Workbook!WithRows(sheet.table, c.answer.rows)
        OBVIOUS
      <3>2. TableFits(table)
        BY <1>1, <2>1, <2>5, <3>1, WithRowsFits DEF SheetFits, SheetCallFits
      <3>3. PICK s2 : s2 = [s1 EXCEPT !.drafts = <<>>]
        OBVIOUS
      <3>4. SheetFits(s2)
        BY <2>3, <3>3 DEF SheetFits
      <3>5. PICK s3 : s3 = [s2 EXCEPT !.table = table]
        OBVIOUS
      <3>6. SheetFits(s3)
        BY <3>2, <3>4, <3>5, TableTaken
      <3>7. sheet' = [sheet EXCEPT !.saving = FALSE, !.drafts = <<>>, !.table = table]
        BY <1>3, <2>5, <3>1 DEF Workbook!TakeSave
      <3>8. sheet' = s3
        BY <2>2, <3>3, <3>5, <3>7
      <3> QED
        BY <2>1, <3>6, <3>8, SheetStep
    <2> QED
      BY <2>1, <2>4, <2>5
  <1>4. CASE Workbook!TakeList(c)
    <2>1. sheet' = [sheet EXCEPT !.list = c.answer] /\ sheetCalls' = sheetCalls \ {c}
      BY <1>4 DEF Workbook!TakeList
    <2>2. SheetFits(sheet')
      BY <1>1, <2>1 DEF SheetFits
    <2> QED
      BY <2>1, <2>2, SheetStep
  <1>5. CASE Workbook!TakeDecision(c)
    <2>1. SheetCallFits(Workbook!Request("load", c.arg, None))
      BY SheetRequest
    <2>2. sheetCalls' \subseteq sheetCalls \cup {Workbook!Request("load", c.arg, None)}
      BY <1>5 DEF Workbook!TakeDecision, Workbook!LoadCall
    <2>3. CASE ~c.answer.ok
      <3>1. sheet' = [sheet EXCEPT !.deciding = None]
        BY <1>5, <2>3 DEF Workbook!TakeDecision
      <3>2. SheetFits(sheet')
        BY <1>1, <3>1 DEF SheetFits
      <3> QED
        BY <2>1, <2>2, <3>2, SheetStep
    <2>4. CASE c.answer.ok
      <3>1. PICK loading : loading = ((c.kind = "approve") \/ sheet.loading)
        OBVIOUS
      <3>2. PICK failed : failed = ((c.kind # "approve") /\ sheet.failed)
        OBVIOUS
      <3>3. PICK deciding : deciding = IF c.kind = "approve" THEN sheet.deciding ELSE None
        OBVIOUS
      <3>4. PICK s1 : s1 = [sheet EXCEPT !.list = sheet.list \ {c.arg}]
        OBVIOUS
      <3>5. SheetFits(s1)
        BY <1>1, <3>4 DEF SheetFits
      <3>6. PICK s2 : s2 = [s1 EXCEPT !.pending = Workbook!Less(sheet.pending)]
        OBVIOUS
      <3>7. SheetFits(s2)
        BY <3>5, <3>6 DEF SheetFits
      <3>8. PICK s3 : s3 = [s2 EXCEPT !.loading = loading]
        OBVIOUS
      <3>9. SheetFits(s3)
        BY <3>7, <3>8 DEF SheetFits
      <3>10. PICK s4 : s4 = [s3 EXCEPT !.failed = failed]
        OBVIOUS
      <3>11. SheetFits(s4)
        BY <3>9, <3>10 DEF SheetFits
      <3>12. PICK s5 : s5 = [s4 EXCEPT !.deciding = deciding]
        OBVIOUS
      <3>13. SheetFits(s5)
        BY <3>11, <3>12 DEF SheetFits
      <3>14. sheet' = [sheet EXCEPT !.list = sheet.list \ {c.arg}, !.pending = Workbook!Less(sheet.pending),
                                    !.loading = loading, !.failed = failed, !.deciding = deciding]
        BY <1>5, <2>4, <3>1, <3>2, <3>3 DEF Workbook!TakeDecision
      <3>15. sheet' = s5
        BY <3>4, <3>6, <3>8, <3>10, <3>12, <3>14
      <3> QED
        BY <2>1, <2>2, <3>13, <3>15, SheetStep
    <2> QED
      BY <2>3, <2>4
  <1> QED
    BY <1>2, <1>3, <1>4, <1>5

\* No step of the page changes what is locked: it adds requests that have read nothing,
\* or waits for some no more.
LEMMA PageLocks ==
    ASSUME WorkbookInv, SheetLocks, UNCHANGED <<invoices, proposed>>,
           \A e \in sheetCalls' : \/ e \in sheetCalls
                                  \/ \E kind, arg, body : e = Workbook!Request(kind, arg, body)
                                  \/ \E d \in sheetCalls \ sheetCalls' : e = Workbook!Unheard(d)
    PROVE  SheetLocks'
  <1>1. \A d \in sheetCalls : Untouched(d)
    BY DEF Untouched
  <1>2. \A kind, arg, body : Workbook!Request(kind, arg, body).read = None
    BY DEF Workbook!Request
  <1> QED
    BY <1>1, <1>2, LocksStay

\* A request that becomes unheard is there no more as it was.
LEMMA LateIsAnother ==
    ASSUME NEW c, SheetCallFits(c), NEW d, SheetCallFits(d)
    PROVE  /\ Workbook!Unheard(c).stage = "unheard"
           /\ c.stage = "unheard" => Workbook!Unheard(c) = c
  <1>1. PICK e : e = Workbook!Unheard(c) /\ e = [c EXCEPT !.stage = "unheard"]
    BY DEF Workbook!Unheard
  <1>2. e = [kind |-> c.kind, arg |-> c.arg, body |-> c.body, stage |-> "unheard", read |-> c.read,
             answer |-> c.answer]
    BY <1>1 DEF SheetCallFits
  <1> QED
    BY <1>1, <1>2 DEF SheetCallFits

\* The page's steps.
LEMMA PageKeepsLocks ==
    ASSUME WorkbookInv, SheetLocks,
           \/ \E r \in Rows, text \in Typed : Workbook!UpdateCell(r, text)
           \/ Workbook!Discard \/ Workbook!SaveChanges \/ Workbook!OpenProposals
           \/ Workbook!Retry \/ Workbook!Reopen
           \/ \E p \in ProposalIds, action \in Workbook!Decisions : Workbook!DecideProposal(p, action)
           \/ Workbook!Take \/ Workbook!Fail \/ Workbook!Drop
    PROVE  SheetLocks'
  <1>1. ASSUME NEW r \in Rows, NEW text \in Typed, Workbook!UpdateCell(r, text)
        PROVE  SheetLocks'
    BY <1>1, PageLocks DEF Workbook!UpdateCell
  <1>2. CASE Workbook!Discard \/ Workbook!SaveChanges \/ Workbook!OpenProposals \/ Workbook!Retry
    <2>1. /\ UNCHANGED <<invoices, proposed>>
          /\ \A e \in sheetCalls' : e \in sheetCalls \/ \E kind, arg, body : e = Workbook!Request(kind, arg, body)
      BY <1>2 DEF Workbook!Discard, Workbook!SaveChanges, Workbook!OpenProposals, Workbook!Retry, Workbook!Ask,
                  Workbook!LoadCall
    <2> QED
      BY <2>1, PageLocks
  <1>3. ASSUME NEW p \in ProposalIds, NEW action \in Workbook!Decisions, Workbook!DecideProposal(p, action)
        PROVE  SheetLocks'
    <2>1. UNCHANGED <<invoices, proposed>> /\ sheetCalls' = sheetCalls \cup {Workbook!Request(action, p, None)}
      BY <1>3 DEF Workbook!DecideProposal, Workbook!Ask
    <2> QED
      BY <2>1, PageLocks
  <1>4. CASE Workbook!Take
    <2>1. PICK c \in sheetCalls :
             /\ \/ Workbook!TakeLoad(c) \/ Workbook!TakeSave(c) \/ Workbook!TakeList(c) \/ Workbook!TakeDecision(c)
             /\ UNCHANGED <<invoices, proposed>>
      BY <1>4 DEF Workbook!Take
    <2>2. \A e \in sheetCalls' : e \in sheetCalls \/ e = Workbook!Request("load", c.arg, None)
      BY <2>1 DEF Workbook!TakeLoad, Workbook!TakeSave, Workbook!TakeList, Workbook!TakeDecision, Workbook!LoadCall
    <2> QED
      BY <2>1, <2>2, PageLocks
  <1>5. CASE Workbook!Drop
    BY <1>5, PageLocks DEF Workbook!Drop
  <1>6. CASE Workbook!Fail
    <2>1. PICK c \in sheetCalls :
             /\ c.stage # "unheard" /\ UNCHANGED <<invoices, proposed>>
             /\ \A e \in sheetCalls' : e \in sheetCalls \ {c} \/ e = Workbook!Unheard(c)
      BY <1>6 DEF Workbook!Fail
    <2>2. Workbook!Unheard(c) # c
      BY <2>1, LateIsAnother DEF WorkbookInv
    <2>3. c \notin sheetCalls'
      BY <2>1, <2>2
    <2> QED
      BY <2>1, <2>3, PageLocks
  <1>7. CASE Workbook!Reopen
    <2>1. /\ UNCHANGED <<invoices, proposed>>
          /\ \A e \in sheetCalls' : \/ e = Workbook!Request("load", None, None)
                                    \/ \E d \in sheetCalls : e = Workbook!Unheard(d) /\ d.kind # "load"
      BY <1>7 DEF Workbook!Reopen, Workbook!LoadCall
    <2>2. ASSUME NEW e \in sheetCalls', NEW d \in sheetCalls, e = Workbook!Unheard(d), d.kind # "load",
                 d \in sheetCalls'
          PROVE  e \in sheetCalls
      <3>1. SheetCallFits(d)
        BY DEF WorkbookInv
      <3>2. CASE d = Workbook!Request("load", None, None)
        BY <2>2, <3>2 DEF Workbook!Request
      <3>3. CASE \E c \in sheetCalls : d = Workbook!Unheard(c)
        <4>1. d.stage = "unheard"
          BY <3>3, LateIsAnother DEF WorkbookInv
        <4> QED
          BY <2>2, <3>1, <4>1, LateIsAnother
      <3> QED
        BY <2>1, <2>2, <3>2, <3>3
    <2> QED
      BY <2>1, <2>2, PageLocks
  <1> QED
    BY <1>1, <1>2, <1>3, <1>4, <1>5, <1>6, <1>7

\* No answer comes.
LEMMA SheetFailKeeps ==
    ASSUME WorkbookInv, Workbook!Fail \/ Workbook!Drop
    PROVE  WorkbookInv' /\ Workbook!ReplacedInSight
  <1>1. SheetFits(sheet)
    BY DEF WorkbookInv
  <1>2. CASE Workbook!Drop
    BY <1>1, <1>2, SheetStep DEF Workbook!Drop
  <1>3. CASE Workbook!Fail
    <2>1. PICK c \in sheetCalls :
             /\ sheet' = CASE c.kind = "load" -> [sheet EXCEPT !.loading = FALSE, !.failed = TRUE,
                                                     !.deciding = IF c.arg = None THEN @ ELSE None]
                           [] c.kind = "save" -> [sheet EXCEPT !.saving = FALSE]
                           [] c.kind = "list" -> sheet
                           [] OTHER -> [sheet EXCEPT !.deciding = None]
             /\ sheetCalls' \subseteq sheetCalls \cup {Workbook!Unheard(c)}
             /\ UNCHANGED <<invoices, proposed>>
      BY <1>3 DEF Workbook!Fail
    <2>2. SheetCallFits(c) /\ SheetCallFits(Workbook!Unheard(c))
      BY SheetUnheard DEF WorkbookInv
    <2>3. SheetFits(sheet')
      <3>1. CASE c.kind = "load"
        <4>1. PICK deciding : deciding = IF c.arg = None THEN sheet.deciding ELSE None
          OBVIOUS
        <4>2. PICK s1 : s1 = [sheet EXCEPT !.loading = FALSE]
          OBVIOUS
        <4>3. SheetFits(s1)
          BY <1>1, <4>2 DEF SheetFits
        <4>4. PICK s2 : s2 = [s1 EXCEPT !.failed = TRUE]
          OBVIOUS
        <4>5. SheetFits(s2)
          BY <4>3, <4>4 DEF SheetFits
        <4>6. PICK s3 : s3 = [s2 EXCEPT !.deciding = deciding]
          OBVIOUS
        <4>7. SheetFits(s3)
          BY <4>5, <4>6 DEF SheetFits
        <4>8. sheet' = [sheet EXCEPT !.loading = FALSE, !.failed = TRUE, !.deciding = deciding]
          BY <2>1, <3>1, <4>1
        <4> QED
          BY <4>2, <4>4, <4>6, <4>7, <4>8
      <3>2. CASE c.kind = "save"
        <4>1. sheet' = [sheet EXCEPT !.saving = FALSE]
          BY <2>1, <3>2
        <4> QED
          BY <1>1, <4>1 DEF SheetFits
      <3>3. CASE c.kind = "list"
        BY <1>1, <2>1, <3>3
      <3>4. CASE c.kind \in {"approve", "reject"}
        <4>1. sheet' = [sheet EXCEPT !.deciding = None]
          BY <2>1, <3>4
        <4> QED
          BY <1>1, <4>1 DEF SheetFits
      <3> QED
        BY <2>2, <3>1, <3>2, <3>3, <3>4 DEF SheetCallFits
    <2> QED
      BY <2>1, <2>2, <2>3, SheetStep
  <1> QED
    BY <1>2, <1>3

\* The invariant holds at the start.
LEMMA WorkbookStart ==
    ASSUME Workbook!Init
    PROVE  WorkbookInv
  <1>1. PICK v \in Typed : invoices = [r \in Rows |-> [version |-> 1, value |-> v]]
    BY DEF Workbook!Init
  <1>2. \A r \in Rows : invoices[r] = [version |-> 1, value |-> v]
    BY <1>1
  <1>3. InvoicesFit
    BY <1>1, <1>2 DEF InvoicesFit
  <1>4. proposed = [p \in ProposalIds |-> proposed[p]] /\ \A p \in ProposalIds : ProposalFits(proposed[p])
    <2>1. proposed = [p \in ProposalIds |-> [status |-> "none"]]
      BY DEF Workbook!Init, Workbook!NoProposal
    <2> QED
      BY <2>1 DEF ProposalFits
  <1>5. SheetFits(sheet)
    BY NewSheetFits DEF Workbook!Init
  <1>6. \A c \in sheetCalls : SheetCallFits(c)
    BY SheetRequest DEF Workbook!Init, Workbook!LoadCall
  <1> QED
    BY <1>3, <1>4, <1>5, <1>6 DEF WorkbookInv

\* No request has read anything at the start.
LEMMA LocksStart ==
    ASSUME Workbook!Init
    PROVE  SheetLocks
  <1>1. \A c \in sheetCalls : c.read = None
    BY DEF Workbook!Init, Workbook!LoadCall, Workbook!Request
  <1> QED
    BY <1>1 DEF SheetLocks

\* Every step keeps the invariant and replaces a cell in sight of it.
LEMMA WorkbookKeeps ==
    ASSUME RowLocks, WorkbookInv, SheetLocks, Workbook!Next \/ UNCHANGED workbook
    PROVE  WorkbookInv' /\ SheetLocks' /\ Workbook!ReplacedInSight
  <1>1. CASE UNCHANGED workbook
    <2>1. SheetFits(sheet') /\ UNCHANGED <<invoices, proposed, sheetCalls>>
      BY <1>1 DEF workbook, WorkbookInv
    <2> QED
      BY <2>1, SheetStep, PageLocks
  <1>2. CASE Workbook!Handle
    <2>1. PICK c \in sheetCalls :
             /\ c.stage # "answered"
             /\ \/ Workbook!HandleLoad(c) \/ Workbook!HandleList(c)
                \/ Workbook!LockProposal(c) \/ Workbook!LockInvoices(c)
                \/ Workbook!HandleSave(c) \/ Workbook!HandleApprove(c) \/ Workbook!HandleReject(c)
             /\ UNCHANGED sheet
      BY <1>2 DEF Workbook!Handle
    <2> QED
      BY <2>1, LoadHandled, LockHandled, SaveHandled, ApproveHandled
  <1>3. CASE Workbook!Take
    <2>1. PICK c \in sheetCalls :
             /\ c.stage = "answered"
             /\ \/ Workbook!TakeLoad(c) \/ Workbook!TakeSave(c) \/ Workbook!TakeList(c) \/ Workbook!TakeDecision(c)
             /\ UNCHANGED <<invoices, proposed>>
      BY <1>3 DEF Workbook!Take
    <2> QED
      BY <1>3, <2>1, SheetTakeKeeps, PageKeepsLocks
  <1>4. CASE Workbook!Fail \/ Workbook!Drop
    BY <1>4, SheetFailKeeps, PageKeepsLocks
  <1>5. CASE \/ \E p \in ProposalIds, r \in Rows, v \in Suggested : Workbook!ReadForProposal(p, r, v)
             \/ \E p \in ProposalIds : Workbook!CreateProposal(p)
    BY <1>5, ProposeKeeps
  <1>6. CASE \/ \E r \in Rows, text \in Typed : Workbook!UpdateCell(r, text)
             \/ Workbook!Discard \/ Workbook!SaveChanges \/ Workbook!OpenProposals
             \/ Workbook!Retry \/ Workbook!Reopen
             \/ \E p \in ProposalIds, action \in Workbook!Decisions : Workbook!DecideProposal(p, action)
    BY <1>6, OwnerKeeps, PageKeepsLocks
  <1> QED
    BY <1>1, <1>2, <1>3, <1>4, <1>5, <1>6 DEF Workbook!Next

\* A cell is replaced only by a change that its author made in sight of its value, where
\* the database locks the rows that are read for a change.
THEOREM CellsSeen == ASSUME RowLocks PROVE Spec => ReplacedInSight
  <1>1. Init => (part = "workbook" => WorkbookInv /\ SheetLocks)
    BY WorkbookStart, LocksStart DEF Init
  <1>2. (part = "workbook" => WorkbookInv /\ SheetLocks) /\ [Next]_vars
        => (part = "workbook" => WorkbookInv /\ SheetLocks)'
    BY PartStep, WorkbookKeeps
  <1>3. (part = "workbook" => WorkbookInv /\ SheetLocks) /\ [Next]_vars
        => [part = "workbook" => Workbook!ReplacedInSight]_vars
    BY PartStep, WorkbookKeeps
  <1> QED
    BY <1>1, <1>2, <1>3, PTL DEF Spec, ReplacedInSight
=============================================================================
