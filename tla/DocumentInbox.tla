----------------------------- MODULE DocumentInbox -----------------------------
(***************************************************************************)
(* The document archive: the page (document-inbox.tsx), the service        *)
(* (services/documents.py) and the store of files                          *)
(* (services/document_storage.py).  An upload is staged in quarantine,     *)
(* looked up by its digest, linked into the store and recorded, with other *)
(* uploads, failures and crashes of the API between any two of these       *)
(* steps.  A file stands for its content and so for its digest.            *)
(***************************************************************************)
EXTENDS Naturals, FiniteSets

CONSTANTS
    Files,        \* what the owner may upload
    Unsupported,  \* those that are empty or of another type
    UploadIds,    \* bound: uploads
    None

VARIABLES
    archive,   \* the API: stored files, rows of the database
    uploads,   \* the API's handlers, one per request to upload
    inbox      \* the page

vars == <<archive, uploads, inbox>>

NoUpload == [stage |-> "none"]
Fresh == [listed |-> {}, loading |-> TRUE, failed |-> FALSE, asked |-> "sent", answer |-> {},
          queue |-> {}, sending |-> None, got |-> {}, notice |-> None]

Init ==
    /\ archive = [store |-> {}, rows |-> {}]
    /\ uploads = [u \in UploadIds |-> NoUpload]
    /\ inbox = Fresh

-----------------------------------------------------------------------------
(* The service *)

In(u, stage) == uploads[u].stage = stage
Enter(u, stage) == uploads' = [uploads EXCEPT ![u].stage = stage]

\* stage: a refused file leaves nothing behind.
Stage(u) ==
    /\ In(u, "sent")
    /\ Enter(u, IF uploads[u].file \in Unsupported THEN "refused" ELSE "staged")
    /\ UNCHANGED <<archive, inbox>>

\* _by_sha256: the content is there already, or goes on to the store.
LookUp(u) ==
    /\ In(u, "staged")
    /\ Enter(u, IF uploads[u].file \in archive.rows THEN "duplicate" ELSE "new")
    /\ UNCHANGED <<archive, inbox>>

\* commit: a link to a file that is there already is as good as a new one.
Link(u) ==
    /\ In(u, "new")
    /\ archive' = [archive EXCEPT !.store = @ \cup {uploads[u].file}]
    /\ Enter(u, "linked")
    /\ UNCHANGED inbox

\* Mutation of Insert: the upload that loses the race takes its file back.
Insert_TakesBack(u) ==
    /\ In(u, "linked")
    /\ IF uploads[u].file \in archive.rows
         THEN Enter(u, "duplicate") /\ archive' = [archive EXCEPT !.store = @ \ {uploads[u].file}]
         ELSE Enter(u, "created") /\ archive' = [archive EXCEPT !.rows = @ \cup {uploads[u].file}]
    /\ UNCHANGED inbox

\* flush and commit of the document with its invoice; the unique digest refuses
\* the second of two, which answers with the first.
Insert(u) ==
    /\ In(u, "linked")
    /\ IF uploads[u].file \in archive.rows
         THEN Enter(u, "duplicate") /\ UNCHANGED archive
         ELSE Enter(u, "created") /\ archive' = [archive EXCEPT !.rows = @ \cup {uploads[u].file}]
    /\ UNCHANGED inbox

Working(u) == uploads[u].stage \in {"staged", "new", "linked"}

\* The database fails: the staged or linked file stays where it is.
Break(u) ==
    /\ Working(u)
    /\ Enter(u, "refused")
    /\ UNCHANGED <<archive, inbox>>

\* The API ends; the desktop application starts it again.
Crash ==
    /\ \E u \in UploadIds : Working(u)
    /\ uploads' = [u \in UploadIds |-> IF Working(u) THEN [uploads[u] EXCEPT !.stage = "refused"] ELSE uploads[u]]
    /\ UNCHANGED <<archive, inbox>>

AnswerList ==
    /\ inbox.asked = "sent"
    /\ inbox' = [inbox EXCEPT !.asked = "answered", !.answer = archive.rows]
    /\ UNCHANGED <<archive, uploads>>

-----------------------------------------------------------------------------
(* The page *)

\* The first upload of the queue that is left is sent under a number of its own.
Send(page) ==
    \E file \in page.queue, u \in {v \in UploadIds : uploads[v] = NoUpload} :
       /\ uploads' = [uploads EXCEPT ![u] = [stage |-> "sent", file |-> file]]
       /\ inbox' = [page EXCEPT !.queue = @ \ {file}, !.sending = u]

\* The button and the place to drop files on, also while the list is loading.
CanAdd == inbox.sending = None

UploadFiles ==
    /\ CanAdd
    /\ \E chosen \in SUBSET Files \ {{}} : Send([inbox EXCEPT !.queue = chosen, !.got = {}, !.notice = None])
    /\ UNCHANGED archive

\* The rows of this batch come first, then the others of the list.
Uploaded(u) ==
    /\ inbox.sending = u /\ uploads[u].stage \in {"created", "duplicate"}
    /\ LET page == [inbox EXCEPT !.got = @ \cup {uploads[u].file}] IN
       IF inbox.queue # {} THEN Send(page)
       ELSE /\ inbox' = [page EXCEPT !.listed = @ \cup page.got, !.sending = None, !.notice = "success"]
            /\ UNCHANGED uploads
    /\ UNCHANGED archive

\* An error ends the batch; what it has stored so far is not listed.
UploadFails(u) ==
    /\ inbox.sending = u
    /\ inbox' = [inbox EXCEPT !.queue = {}, !.sending = None, !.notice = "error"]
    /\ UNCHANGED <<archive, uploads>>

\* The answer replaces the list, and with it what was uploaded since it was made.
Listed ==
    /\ inbox.asked = "answered"
    /\ inbox' = [inbox EXCEPT !.listed = inbox.answer, !.asked = None, !.answer = {}, !.loading = FALSE, !.failed = FALSE]
    /\ UNCHANGED <<archive, uploads>>

ListFails ==
    /\ inbox.asked # None
    /\ inbox' = [inbox EXCEPT !.asked = None, !.answer = {}, !.loading = FALSE, !.failed = TRUE]
    /\ UNCHANGED <<archive, uploads>>

ReloadDocuments ==
    /\ inbox.failed
    /\ inbox' = [inbox EXCEPT !.asked = "sent", !.loading = TRUE, !.failed = FALSE]
    /\ UNCHANGED <<archive, uploads>>

\* The page is left and opened again; its uploads go on.
Reopen ==
    /\ inbox' = Fresh
    /\ UNCHANGED <<archive, uploads>>

Next ==
    \/ \E u \in UploadIds :
          \/ Stage(u) \/ LookUp(u) \/ Link(u) \/ Insert(u) \/ Break(u)
          \/ Uploaded(u) \/ UploadFails(u)
    \/ Crash \/ AnswerList
    \/ UploadFiles \/ Listed \/ ListFails \/ ReloadDocuments \/ Reopen

Spec == Init /\ [][Next]_vars

-----------------------------------------------------------------------------
\* The file of a row is in the store, and what the page lists, or has heard is
\* stored, has a row: whatever fails, crashes or races between the link and the
\* commit, at worst a file is left without a row (documents.py:24-53).
RowsHaveFiles ==
    /\ archive.rows \subseteq archive.store
    /\ inbox.listed \cup inbox.got \subseteq archive.rows
=============================================================================
