----------------------------- MODULE DesktopUpdate -----------------------------
(***************************************************************************)
(* Updates of the desktop application: the manager in the main process     *)
(* (update-manager.mjs), the release client that downloads and verifies    *)
(* (github-release-client.mjs) and the button of the page with its dialog  *)
(* (desktop-update-button.tsx), which knows the manager's state by what    *)
(* the main process posts.  Checks come from the manager's timers, and one *)
(* is through before the next is due six hours later; the system may take  *)
(* longer than that to open an installer, for which nothing sets a time.   *)
(***************************************************************************)
EXTENDS Integers, Sequences

CONSTANTS
    Installed,    \* the version of this application
    Newest,       \* bound: the last version GitHub may name
    MaxCopies,    \* bound: copies of one installer in the directory (100 in the code)
    MaxChecks,    \* bound: checks begun
    MaxPosts,     \* bound: messages under way in one direction, installers being opened
    None

VARIABLES
    update,     \* the manager: state, release, installer, whether it checks, checks begun; the installers
                \* being opened since the last check began, by the version asked for, and how
                \* many from before it (overtaken); whether one of those failed late (misled)
    download,   \* the download under way: how far, and what has arrived
    installers, \* the files in the directory of downloads, never overwritten
    button      \* the page: state shown, dialog, posts and calls under way

vars == <<update, download, installers, button>>

State(status, version) == [status |-> status, stage |-> None, version |-> version]
Error(stage, version) == [status |-> "error", stage |-> stage, version |-> version]
Retryable(state, stage) == state.status = "error" /\ state.stage = stage
NoDownload == [step |-> "none"]

Call(kind, version) == [kind |-> kind, version |-> version]
AsksState == Call("getState", None)

Init ==
    /\ update = [state |-> State("idle", None), release |-> None, installer |-> None, checking |-> FALSE, checks |-> 0,
                 opening |-> <<>>, overtaken |-> 0, misled |-> FALSE, quit |-> FALSE]
    /\ download = NoDownload
    /\ installers = {}
    /\ button = [shown |-> None, dialog |-> FALSE, posts |-> <<>>, calls |-> <<AsksState>>]

\* A post that repeats the one before it tells the page nothing.
Posted(b, state) ==
    [b EXCEPT !.posts = IF @ # <<>> /\ @[Len(@)] = state THEN @ ELSE Append(@, state)]
CanPost == Len(button.posts) < MaxPosts

Publish(manager, state) ==
    /\ CanPost
    /\ update' = [manager EXCEPT !.state = state]
    /\ button' = Posted(button, state)

\* What names the release throws when a check has found none since: nothing is published.
Tell(manager, state) ==
    IF update.release = None THEN update' = manager /\ UNCHANGED button ELSE Publish(manager, state)

-----------------------------------------------------------------------------
(* The check *)

\* Mutation of Checkable: a check may begin during a download.
Checkable_Always == TRUE
Checkable == update.state.status \notin {"downloading", "downloaded"}

\* By the timers, which stop() ends.  What the system is opening is overtaken.
Check ==
    /\ ~update.quit /\ ~update.checking /\ Checkable /\ update.checks < MaxChecks
    /\ Publish([update EXCEPT !.checking = TRUE, !.checks = @ + 1,
                              !.opening = <<>>, !.overtaken = @ + Len(update.opening)],
               State("checking", None))
    /\ UNCHANGED <<download, installers>>

\* What GitHub names as the latest release: whether it is neither a draft nor a
\* prerelease, and whether page, installer and checksums are those of its version.
Payloads == [version : 0..Newest, stable : BOOLEAN, own : BOOLEAN]
ValidRelease(payload) == payload.stable /\ payload.own
Newer(version) == version > Installed

Checked ==
    /\ update.checking
    /\ \E payload \in Payloads :
          /\ ValidRelease(payload)
          /\ LET release == IF Newer(payload.version) THEN payload.version ELSE None IN
                Publish([update EXCEPT !.checking = FALSE, !.release = release],
                        State(IF release = None THEN "idle" ELSE "available", release))
    /\ UNCHANGED <<download, installers>>

\* Without an answer, or with one that is no valid release, the release of before stays.
CheckFails ==
    /\ update.checking
    /\ Publish([update EXCEPT !.checking = FALSE], Error("check", None))
    /\ UNCHANGED <<download, installers>>

-----------------------------------------------------------------------------
(* The button and its dialog *)

\* The calls, without the question for the state that another page had asked.
Others(calls) ==
    LET asks == {i \in DOMAIN calls : calls[i] = AsksState}
        asked == CHOOSE i \in asks : TRUE IN
    IF asks = {} THEN calls
    ELSE [i \in 1..Len(calls) - 1 |-> calls[IF i < asked THEN i ELSE i + 1]]

\* The page is loaded again: what was posted to it before is lost, its calls are not.
Reload ==
    /\ Len(button.calls) < MaxPosts
    /\ button' = [button EXCEPT !.shown = None, !.dialog = FALSE, !.posts = <<>>,
                     !.calls = Append(Others(@), AsksState)]
    /\ UNCHANGED <<update, download, installers>>

Deliver ==
    /\ button.posts # <<>>
    /\ button' = [button EXCEPT !.shown = Head(button.posts), !.posts = Tail(@)]
    /\ UNCHANGED <<update, download, installers>>

\* The button is there while a version is shown; the dialog that was open comes back with it.
Visible == button.shown # None /\ button.shown.version # None

ToggleDialog ==
    /\ Visible
    /\ button' = [button EXCEPT !.dialog = ~@]
    /\ UNCHANGED <<update, download, installers>>

Opens == button.shown.status = "downloaded" \/ Retryable(button.shown, "open")

RunPrimaryAction ==
    /\ Visible /\ button.dialog /\ button.shown.status # "downloading"
    /\ Len(button.calls) < MaxPosts
    /\ button' = [button EXCEPT !.calls =
                     Append(@, IF Opens THEN Call("open", button.shown.version) ELSE Call("download", None))]
    /\ UNCHANGED <<update, download, installers>>

Calls(kind) == button.calls # <<>> /\ Head(button.calls).kind = kind
Answered == [button EXCEPT !.calls = Tail(@)]

\* The answer is under way behind what was posted before.
GetState ==
    /\ ~update.quit /\ Calls("getState") /\ CanPost
    /\ button' = Posted(Answered, update.state)
    /\ UNCHANGED <<update, download, installers>>

-----------------------------------------------------------------------------
(* The download *)

CanDownload ==
    /\ ~update.quit /\ update.release # None
    /\ update.state.status = "available" \/ Retryable(update.state, "download")

\* Bound: one download at a time.  Only one that is misled takes a second call for one.
Download ==
    /\ Calls("download") /\ CanDownload /\ CanPost /\ download = NoDownload
    /\ update' = [update EXCEPT !.state = State("downloading", update.release)]
    /\ button' = Posted(Answered, State("downloading", update.release))
    /\ download' = [step |-> "checksum", version |-> update.release, body |-> "none", marked |-> FALSE]
    /\ UNCHANGED installers

\* From an allowed origin, no longer than 64 KB and with one line for the installer.
FetchChecksum ==
    /\ download.step = "checksum"
    /\ download' = [download EXCEPT !.step = "fetch"]
    /\ UNCHANGED <<update, installers, button>>

\* Each chunk publishes the progress: what is there is a part of the installer, all
\* of it, something else of its size, or more than that.
Progress ==
    /\ download.step = "fetch" /\ download.body \in {"none", "part"} /\ update.release # None
    /\ \E body \in {"part", "whole", "other", "longer"} : download' = [download EXCEPT !.body = body]
    /\ Publish(update, State("downloading", update.release))
    /\ UNCHANGED installers

SizeMatches == download.body \in {"whole", "other"}
DigestMatches == download.body = "whole"

Verify ==
    /\ download.step = "fetch" /\ SizeMatches /\ DigestMatches
    /\ download' = [download EXCEPT !.step = "mark"]
    /\ UNCHANGED <<update, installers, button>>

MarkQuarantined ==
    /\ download.step = "mark"
    /\ download' = [download EXCEPT !.step = "link", !.marked = TRUE]
    /\ UNCHANGED <<update, installers, button>>

\* linkWithoutOverwrite: under the first name that is free.
Free(version) == {n \in 0..(MaxCopies - 1) : \A i \in installers : i.version = version => i.copy # n}
LinkWithoutOverwrite ==
    /\ download.step = "link" /\ Free(download.version) # {}
    /\ LET first == CHOOSE n \in Free(download.version) : \A m \in Free(download.version) : n <= m
           file == [version |-> download.version, body |-> download.body,
                    marked |-> download.marked, copy |-> first] IN
          /\ installers' = installers \cup {file}
          /\ download' = IF update.release = None THEN NoDownload
                         ELSE [step |-> "done", version |-> download.version, file |-> file]
    /\ Tell(update, State("downloading", update.release))

\* The temporary directory goes, whatever came of the download.
Downloaded ==
    /\ download.step = "done"
    /\ Tell([update EXCEPT !.installer = download.file], State("downloaded", update.release))
    /\ download' = NoDownload
    /\ UNCHANGED installers

\* A response that is none, another origin, another size or digest, a full disk or no free name.
DownloadFails ==
    /\ download.step \in {"checksum", "fetch", "mark", "link"}
    /\ Tell(update, Error("download", update.release))
    /\ download' = NoDownload
    /\ UNCHANGED installers

-----------------------------------------------------------------------------
(* The installer and the end *)

CanOpen ==
    /\ ~update.quit /\ update.installer # None
    /\ update.state.status = "downloaded" \/ Retryable(update.state, "open")

OpenInstaller ==
    /\ Calls("open") /\ CanOpen /\ Len(update.opening) + update.overtaken < MaxPosts
    /\ update' = [update EXCEPT !.opening = Append(@, Head(button.calls).version)]
    /\ button' = Answered
    /\ UNCHANGED <<download, installers>>

Opened ==
    /\ update.opening # <<>>
    /\ update' = [update EXCEPT !.opening = Tail(@)]
    /\ UNCHANGED <<download, installers, button>>

OpenFails ==
    /\ update.opening # <<>>
    /\ Tell([update EXCEPT !.opening = Tail(@)], Error("open", update.release))
    /\ UNCHANGED <<download, installers>>

OvertakenOpened ==
    /\ update.overtaken > 0
    /\ update' = [update EXCEPT !.overtaken = @ - 1]
    /\ UNCHANGED <<download, installers, button>>

\* The failure names the release of the check, whose installer need not be there, and lets
\* a check, a download or a click begin that the state had refused.
OvertakenFails ==
    /\ update.overtaken > 0
    /\ Tell([update EXCEPT !.overtaken = @ - 1, !.misled = @ \/ update.release # None],
            Error("open", update.release))
    /\ UNCHANGED <<download, installers>>

\* A call the manager's state does not allow changes nothing; stop() takes the handlers away.
Refuse ==
    /\ update.quit \/ (Calls("download") /\ ~CanDownload) \/ (Calls("open") /\ ~CanOpen)
    /\ button.calls # <<>>
    /\ button' = Answered
    /\ UNCHANGED <<update, download, installers>>

\* stop: what is under way goes on until the process ends.
Stop ==
    /\ update' = [update EXCEPT !.quit = TRUE]
    /\ UNCHANGED <<download, installers, button>>

Next ==
    \/ Check \/ Checked \/ CheckFails
    \/ Reload \/ Deliver \/ ToggleDialog \/ RunPrimaryAction \/ GetState
    \/ Download \/ FetchChecksum \/ Progress \/ Verify \/ MarkQuarantined \/ LinkWithoutOverwrite
    \/ Downloaded \/ DownloadFails
    \/ OpenInstaller \/ Opened \/ OpenFails \/ OvertakenOpened \/ OvertakenFails \/ Refuse \/ Stop

Spec == Init /\ [][Next]_vars

-----------------------------------------------------------------------------
\* A download is of the release that is offered, what can be opened is the installer of
\* the version the manager names, and what was asked for by the version in the dialog is
\* what the system opens (update-manager.mjs:56-97, 108-120).
InstallerAsOffered ==
    /\ download # NoDownload => update.release = download.version
    /\ update.state.status = "downloaded" =>
          update.installer \in installers /\ update.installer.version = update.state.version
    /\ \A i \in DOMAIN update.opening : update.opening[i] = update.installer.version

\* Only a whole, marked installer of a later version is ever given to the system.
InstallerVerified ==
    update.installer # None =>
        /\ update.installer \in installers
        /\ update.installer.body = "whole" /\ update.installer.marked
        /\ update.installer.version > Installed

\* Once nothing is under way the page shows the manager's state, also after it was
\* loaded again during a download (desktop-update-button.tsx:15-29).
ShownIsCurrent ==
    ~update.quit /\ button.posts = <<>> /\ AsksState \notin {button.calls[i] : i \in DOMAIN button.calls}
        => button.shown = update.state

\* However checks, downloads, clicks, reloads and late answers of the system overlap, the
\* installer is verified and the page comes to show the manager's state.  The version
\* opened is the one shown, unless an opening failed after a check had overtaken it: that
\* failure names the release of the check (update-manager.mjs:85-88, 99-103).
InstallerAsShown ==
    /\ InstallerVerified
    /\ ShownIsCurrent
    /\ ~update.misled => InstallerAsOffered
=============================================================================
