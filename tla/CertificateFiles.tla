-------------------------- MODULE CertificateFiles --------------------------
(***************************************************************************)
(* CertificateFiles (web/src/CertificatePages.tsx): the tab of a           *)
(* certificate's page that shows, copies and archives its files.  The list *)
(* of files is a query that it shares with the page around it.             *)
(***************************************************************************)
EXTENDS WebApp, FiniteSets

CONSTANTS
    PublicFiles,    \* cert, chain and fullchain
    Listings,       \* the lists of files that the server may answer with
    MaxRequests     \* bound on the requests under way in the tab

VARIABLES
    files,      \* the query certificate-files
    viewer      \* the state of the component; NoViewer when it is not mounted

-----------------------------------------------------------------------------
Key   == "private-key"
Files == PublicFiles \cup {Key}
None  == "none"

ASSUME FilesAssumption ==
    /\ PublicFiles # {} /\ {Key, None} \cap PublicFiles = {}
    /\ Listings \subseteq SUBSET Files
    /\ MaxRequests \in Nat

\* Both dialogs have one state variable for the password that is typed.
NoViewer ==
    [selected |-> None, content |-> None, dialog |-> None, password |-> FALSE,
     requests |-> {}]

\* The queries of a page are sent when it mounts.
NoFiles == [list |-> {}, status |-> "pending", fetch |-> TRUE]

Listed     == files.status = "success" /\ files.list # {}
ViewerOpen == viewer.selected # None /\ viewer.content # None
Modal      == viewer.dialog # None \/ ViewerOpen

hasPublicBundle == PublicFiles \subseteq files.list
hasPrivateKey   == Key \in files.list

-----------------------------------------------------------------------------
Show(v) == viewer' = v /\ UNCHANGED files

\* listCertificateFiles answers; an error keeps the list.
FilesAnswer ==
    /\ files.fetch
    /\ \/ \E l \in Listings : files' = [list |-> l, status |-> "success", fetch |-> FALSE]
       \/ files' = [files EXCEPT !.status = "error", !.fetch = FALSE]
    /\ UNCHANGED viewer /\ Local

\* load.mutate(file): without a session there is only an error.
Load(f) ==
    /\ Listed /\ ~Modal /\ session
    /\ f \in files.list \ {Key}
    /\ Cardinality(viewer.requests) < MaxRequests
    /\ Show([viewer EXCEPT !.requests = @ \cup {f}])
    /\ Local

LoadAnswers(f) ==
    /\ f \in viewer.requests \cap PublicFiles
    /\ LET v == [viewer EXCEPT !.requests = @ \ {f}]
       IN  \/ Show([v EXCEPT !.selected = f, !.content = f])
           \/ Show(v)
    /\ Local

\* setPasswordOpen and setArchivePasswordOpen
AskPassword(d) ==
    /\ Listed /\ ~Modal
    /\ hasPrivateKey /\ (d = "archive" => hasPublicBundle)
    /\ Show([viewer EXCEPT !.dialog = d])
    /\ Local

TypePassword(typed) ==
    /\ viewer.dialog # None
    /\ Show([viewer EXCEPT !.password = typed])
    /\ Local

CancelPassword ==
    /\ viewer.dialog # None
    /\ Show([viewer EXCEPT !.dialog = None, !.password = FALSE])
    /\ Local

\* reveal.mutate() and archive.mutate(private), each disabled while it is pending.
Request(r) ==
    /\ CASE r = "reveal"  -> viewer.dialog = "reveal" /\ viewer.password
         [] r = "archive" -> viewer.dialog = "archive" /\ viewer.password
         [] r = "public"  -> Listed /\ ~Modal /\ hasPublicBundle
    /\ IF r = "reveal" THEN r \notin viewer.requests
                       ELSE {"archive", "public"} \cap viewer.requests = {}
    /\ Cardinality(viewer.requests) < MaxRequests
    /\ Sends
    /\ Show([viewer EXCEPT !.requests = IF Accepted(session) THEN @ \cup {r} ELSE @])

Close(v, d) == IF v.dialog = d THEN [v EXCEPT !.dialog = None] ELSE v

\* Mutant: the title changes only to a file that is listed.
RevealKeepsTitle ==
    /\ "reveal" \in viewer.requests
    /\ LET v == [viewer EXCEPT !.requests = @ \ {"reveal"}]
       IN  \/ Show(Close([v EXCEPT !.selected = IF hasPrivateKey THEN Key ELSE @,
                                   !.content = Key, !.password = FALSE], "reveal"))
           \/ Show(v)
    /\ Local

\* The answer may find the list without the key, and another dialog open.
RevealAnswers ==
    /\ "reveal" \in viewer.requests
    /\ LET v == [viewer EXCEPT !.requests = @ \ {"reveal"}]
       IN  \/ Show(Close([v EXCEPT !.selected = IF hasPrivateKey THEN Key ELSE None,
                                   !.content = Key, !.password = FALSE], "reveal"))
           \/ Show(v)
    /\ Local

ArchiveAnswers ==
    /\ \E r \in {"archive", "public"} \cap viewer.requests :
          LET v == [viewer EXCEPT !.requests = @ \ {r}]
          IN  \/ Show(Close([v EXCEPT !.password = FALSE], "archive"))
              \/ Show(v)
    /\ Local

CloseViewer ==
    /\ ViewerOpen
    /\ Show([viewer EXCEPT !.selected = None, !.content = None])
    /\ Local

\* Mutant: the effect looks at the dialog that asked, not at what is shown.
HideWithDialog ==
    /\ viewer.selected = Key /\ viewer.content = Key /\ viewer.dialog = "reveal"
    /\ Show([viewer EXCEPT !.selected = None, !.content = None])
    /\ Local

\* The effect's timer of two minutes.
HideKey ==
    /\ viewer.selected = Key /\ viewer.content = Key
    /\ Show([viewer EXCEPT !.selected = None, !.content = None])
    /\ Local

FilesRun ==
    \/ \E f \in PublicFiles : LoadAnswers(f)
    \/ RevealAnswers \/ ArchiveAnswers \/ HideKey

\* What is pressed in a dialog, and beside it.
FilesDialogs ==
    \/ \E typed \in BOOLEAN : TypePassword(typed)
    \/ CancelPassword \/ CloseViewer
    \/ \E r \in {"reveal", "archive"} : Request(r)

FilesButtons ==
    \/ \E f \in PublicFiles : Load(f)
    \/ \E d \in {"reveal", "archive"} : AskPassword(d)
    \/ Request("public")

-----------------------------------------------------------------------------
(* Correctness properties *)

\* The viewer never shows the content of one file under the name of another, although
\* answers of several requests arrive in any order and in any dialog.
ContentMatchesTitle == ViewerOpen => viewer.content = viewer.selected

\* A private key that is shown is hidden again without an action of the user, whatever
\* else is loaded, revealed or archived meanwhile.
KeyHiddenInTime ==
    (ViewerOpen /\ viewer.content = Key) ~> ~(ViewerOpen /\ viewer.content = Key)
=============================================================================
