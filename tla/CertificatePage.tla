-------------------------- MODULE CertificatePage ---------------------------
(***************************************************************************)
(* CertificateDetailPage with RenewalSettings (web/src/CertificatePages.   *)
(* tsx): the operations on one certificate and the three dialogs that ask  *)
(* for the administrator's password.  The page does not remount when only  *)
(* the id in its address changes.                                          *)
(***************************************************************************)
EXTENDS CertificateFiles

CONSTANT Certificates   \* statuses and modes that the server may answer with

VARIABLES
    certificate,    \* the state of the page
    removing        \* its mutation remove, which outlives the page

-----------------------------------------------------------------------------
Statuses ==
    {"pending", "issuing", "active", "expiring", "expired", "renewing", "failed",
     "disabled", "revoked"}

ASSUME CertificatesAssumption ==
    Certificates # {} /\ Certificates \subseteq [status: Statuses, acme: BOOLEAN]

Dialogs == {"force", "revoke", "delete"}

\* The operations; a forced renewal asks for the password in a request before its own.
Operations == {"issue", "renew", "reauthenticate", "force", "revoke", "update"}

NoCertificate ==
    [query |-> "pending", fetch |-> TRUE, data |-> CHOOSE c \in Certificates : TRUE,
     tab |-> "overview", dialog |-> None, passwords |-> {}, named |-> FALSE, op |-> None]

CertificateInit ==
    certificate = NoCertificate /\ files = NoFiles /\ viewer = NoViewer /\ removing = "idle"

-----------------------------------------------------------------------------
canIssue(c)  == c.status \in {"pending", "failed", "active", "expiring", "expired"}
canRenew(c)  == c.status \in {"active", "expiring", "expired"}
canRevoke(c) == c.acme /\ c.status \in {"active", "expiring"}

\* The page shows the certificate and not a message.
Shown == On("certificate") /\ certificate.query = "success"
Free  == Shown /\ certificate.dialog = None /\ ~Modal

\* The rest of the page stays as it is, or the tab of the files is unmounted with it.
Page(c)  == certificate' = c /\ UNCHANGED <<files, viewer, removing>>
Leave(c) == certificate' = c /\ viewer' = NoViewer /\ UNCHANGED <<files, removing>>

\* getCertificate answers, after a first look at the cache.
CertificateAnswers ==
    /\ On("certificate") /\ certificate.fetch
    /\ \/ \E c \in Certificates :
            \E cached \in {FALSE, certificate.query = "pending"} :
                Page([certificate EXCEPT !.query = "success", !.data = c, !.fetch = cached])
       \/ Leave([certificate EXCEPT !.query = "error", !.fetch = FALSE])
    /\ Local

\* The tabs; the one of the files mounts a second observer of their query.
\* Bound: it is not open together with an operation of the page.
SetTab(t) ==
    /\ Free /\ certificate.tab # t
    /\ t = "files" => certificate.op = None /\ removing = "idle"
    /\ certificate' = [certificate EXCEPT !.tab = t]
    /\ viewer' = NoViewer
    /\ files' = [files EXCEPT !.fetch = @ \/ t = "files"]
    /\ UNCHANGED removing /\ Local

OpenDialog(d) ==
    /\ Free
    /\ CASE d = "force"  -> canRenew(certificate.data)
         [] d = "revoke" -> canRevoke(certificate.data)
         [] d = "delete" -> TRUE
    /\ Page([certificate EXCEPT !.dialog = d])
    /\ Local

\* What is typed in a dialog.  Whether the files are deleted as well is the service's
\* concern.
Type ==
    /\ Shown /\ certificate.dialog # None
    /\ \/ \E p \in {{}, {certificate.dialog}} :
            Page([certificate EXCEPT !.passwords = (@ \ {certificate.dialog}) \cup p])
       \/ /\ certificate.dialog = "delete"
          /\ \E n \in BOOLEAN : Page([certificate EXCEPT !.named = n])
    /\ Local

\* Mutant: the dialogs of force and revoke are closed without their password.
CloseKeepsPassword(c, d) ==
    [c EXCEPT !.dialog = IF @ = d THEN None ELSE @,
              !.passwords = IF d = "delete" THEN @ \ {d} ELSE @,
              !.named = @ /\ d # "delete"]

\* closeForceDialog, closeRevokeDialog, closeDeleteDialog
CloseDialog(c, d) ==
    [c EXCEPT !.dialog = IF @ = d THEN None ELSE @,
              !.passwords = @ \ {d},
              !.named = @ /\ d # "delete"]

Cancel ==
    /\ Shown /\ certificate.dialog # None
    /\ Page(CloseDialog(certificate, certificate.dialog))
    /\ Local

Offered(o) ==
    CASE o = "issue"          -> Free /\ canIssue(certificate.data)
      [] o = "renew"          -> Free /\ canRenew(certificate.data)
      [] o = "update"         -> Free /\ certificate.tab = "settings"
      [] o = "reauthenticate" -> Shown /\ "force" \in certificate.passwords
      [] o = "revoke"         -> Shown /\ "revoke" \in certificate.passwords

\* Bound: one operation of the page at a time, and none in the tab of the files.
Operate(o) ==
    /\ Offered(o) /\ certificate.op = None /\ certificate.tab # "files"
    /\ Sends
    /\ Page([certificate EXCEPT !.op = IF Accepted(session) THEN o ELSE None])

\* The second request of a forced renewal, which nothing cancels.
ForceRenew ==
    /\ certificate.op = "reauthenticate"
    /\ Sends
    /\ Page([certificate EXCEPT !.op = IF Accepted(session) THEN "force" ELSE None])

\* onSuccess closes the operation's dialog and sets the query; an error does neither,
\* and does not ask for the status that the service has left.
OperationAnswers ==
    /\ certificate.op # None
    /\ LET done == [certificate EXCEPT !.op = None]
       IN  \/ /\ certificate.op # "reauthenticate"
              /\ \E c \in Certificates :
                    Page(CloseDialog([done EXCEPT !.data = c, !.query = "success"],
                                     certificate.op))
           \/ Page(done)
    /\ Local

\* remove.mutate(), with the name of the certificate typed.
DeleteCertificate ==
    /\ Shown /\ certificate.named /\ "delete" \in certificate.passwords
    /\ removing = "idle" /\ certificate.tab # "files"
    /\ Sends
    /\ removing' = Write(session)
    /\ UNCHANGED <<certificate, files, viewer>>

\* onSuccess goes to the list of certificates from wherever the tab is by then.
RemoveSucceeds ==
    /\ removing = "sent" /\ ~Redirects
    /\ removing' = "idle"
    /\ Goto("home", user, session)
    /\ UNCHANGED <<session, csrfToken, meta, signIn, signOut, expired>>

RemoveFails ==
    /\ removing = "sent"
    /\ removing' = "idle"
    /\ UNCHANGED <<certificate, files, viewer>> /\ Local

\* The id changes under the page: its queries are others, its dialogs stay.
Retarget ==
    /\ certificate' = [certificate EXCEPT !.query = "pending", !.fetch = TRUE]
    /\ files' = NoFiles /\ viewer' = NoViewer

\* A dialog of the page covers the buttons of the tab, but not its answers.
FilesTab ==
    /\ Shown /\ certificate.tab = "files"
    /\ FilesRun \/ FilesDialogs \/ (certificate.dialog = None /\ FilesButtons)

\* The step of FilesTab that the timer takes.
KeyTimer ==
    /\ Shown /\ certificate.tab = "files"
    /\ HideKey /\ UNCHANGED <<certificate, removing>>

CertificateNext ==
    \/ CertificateAnswers
    \/ \E t \in {"overview", "files", "settings"} : SetTab(t)
    \/ \E d \in Dialogs : OpenDialog(d)
    \/ Type \/ Cancel
    \/ \E o \in Operations \ {"force"} : Operate(o)
    \/ ForceRenew \/ OperationAnswers
    \/ DeleteCertificate \/ RemoveFails
    \/ /\ On("certificate")
       /\ FilesAnswer \/ FilesTab
       /\ UNCHANGED <<certificate, removing>>

-----------------------------------------------------------------------------
(* Correctness properties *)

\* A password that was typed is gone with its dialog, however the dialog was closed: by
\* the user, by the answer to its own request or by a late answer to an earlier one.
PasswordsNeedDialog ==
    /\ certificate.passwords \subseteq {certificate.dialog}
    /\ viewer.password => viewer.dialog # None
=============================================================================
