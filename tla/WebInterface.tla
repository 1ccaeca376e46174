---------------------------- MODULE WebInterface ----------------------------
(***************************************************************************)
(* The web interface in one browser tab: the shell (WebApp) and the page   *)
(* that its route mounts.  A page's state begins anew when it is mounted;  *)
(* the requests to create and to delete a certificate go on without their  *)
(* page, and navigate when they succeed.  The dashboard, the lists and the *)
(* system information, which only read, are the page "home".               *)
(***************************************************************************)
EXTENDS CreatePage, CertificatePage, CredentialsPage, PolicyPage

vars == <<appVars, create, creating, certificate, files, viewer, removing,
          credentials, policy>>

Init == AppInit /\ CreateInit /\ CertificateInit /\ CredentialsInit /\ PolicyInit

-----------------------------------------------------------------------------
\* The state of every page that is not mounted.
Unmount ==
    /\ create' = NewForm /\ credentials' = NoCredentials /\ policy' = NoPolicy
    /\ certificate' = NoCertificate /\ files' = NoFiles /\ viewer' = NoViewer

UnchangedPages == UNCHANGED <<create, certificate, files, viewer, credentials, policy>>

Routed == IF route' = route THEN UnchangedPages ELSE Unmount

Shell(A) == A /\ Routed /\ UNCHANGED <<creating, removing>>

\* The document and everything in it is discarded.
ReloadTab == Reload /\ Unmount /\ creating' = "idle" /\ removing' = "idle"

\* The navigations of answers that may come after their page.
CreateAnswers ==
    \/ /\ CreateSucceeds
       /\ IF route # "certificate" THEN Unmount
          ELSE Retarget /\ UNCHANGED <<create, credentials, policy>>
       /\ UNCHANGED removing
    \/ CreateFails /\ UnchangedPages /\ UNCHANGED removing

RemoveAnswers == RemoveSucceeds /\ Routed /\ UNCHANGED creating

PageStep ==
    \/ CreateNext
       /\ UNCHANGED <<certificate, files, viewer, removing, credentials, policy>>
    \/ CertificateNext /\ UNCHANGED <<create, creating, credentials, policy>>
    \/ CredentialsPageNext
       /\ UNCHANGED <<create, creating, certificate, files, viewer, removing, policy>>
    \/ PolicyNext
       /\ UNCHANGED <<create, creating, certificate, files, viewer, removing, credentials>>

Next == Shell(AppNext) \/ ReloadTab \/ CreateAnswers \/ RemoveAnswers \/ PageStep

\* The server and the network answer or fail, redirects are rendered, and the timer of
\* a private key fires while the key is shown.  Users owe nothing.
Fairness ==
    /\ WF_vars(Shell(MetaAnswers))
    /\ WF_vars(Shell(UserAnswers))
    /\ WF_vars(Shell(LoginRoute))
    /\ WF_vars(Shell(AuthenticatedArea))
    /\ WF_vars(Shell(LoginAnswers))
    /\ WF_vars(Shell(SignOutAnswers))
    /\ WF_vars(KeyTimer /\ UNCHANGED <<create, creating, credentials, policy>>)

Spec == Init /\ [][Next]_vars /\ Fairness
=============================================================================
