-------------------------- MODULE CredentialsPage ---------------------------
(***************************************************************************)
(* DNSCredentialsPage (web/src/DNSCredentialsPage.tsx): one dialog that    *)
(* creates and replaces credentials, one that renames them, and the        *)
(* buttons of the list.  The lists of credentials and providers come from  *)
(* the server and are not kept in the model.                               *)
(***************************************************************************)
EXTENDS WebApp

CONSTANTS
    Items,      \* the credentials that are listed, with provider and source
    Providers

VARIABLE credentials

-----------------------------------------------------------------------------
Sources == {"encrypted", "environment"}
New     == "new"        \* editing is null

ASSUME ItemsAssumption ==
    /\ Items \subseteq [id: STRING, provider: Providers, source: Sources]
    /\ \A i, j \in Items : i.id = j.id => i = j
    /\ New \notin {i.id : i \in Items}
    /\ "cloudflare" \in Providers

\* values is empty, or says for which credential, provider and source it was filled in.
NoCredentials ==
    [open |-> FALSE, editing |-> New, provider |-> "cloudflare", source |-> "encrypted",
     named |-> FALSE, values |-> <<>>, dialog |-> "none", renamed |-> FALSE,
     requests |-> {}]

CredentialsInit == credentials = NoCredentials

-----------------------------------------------------------------------------
Set(c) == credentials' = c /\ Local

Form(c) == <<c.editing, c.provider, c.source>>

\* setValues({}) and setValues of something.
Clear(c)  == [c EXCEPT !.values = <<>>]
Fields(c) == [c EXCEPT !.values = Form(c)]

\* No dialog covers the list.
List == On("credentials") /\ ~credentials.open /\ credentials.dialog = "none"

StartCreate == List /\ Set([credentials EXCEPT !.open = TRUE])

\* startEdit: the variables of the environment are shown, the secrets are not.
StartEdit(i) ==
    /\ List
    /\ LET c == [credentials EXCEPT !.open = TRUE, !.editing = i.id, !.named = TRUE,
                                    !.provider = i.provider, !.source = i.source]
       IN  Set(IF i.source = "environment" THEN Fields(c) ELSE Clear(c))

\* Mutant: another provider keeps the fields of the one before.
ChangeKeepsValues ==
    /\ On("credentials") /\ credentials.open
    /\ \/ \E n \in BOOLEAN : Set([credentials EXCEPT !.named = n])
       \/ \E p \in Providers : Set([credentials EXCEPT !.provider = p])
       \/ \E s \in Sources : Set(Clear([credentials EXCEPT !.source = s]))
       \/ Set(Fields(credentials)) \/ Set(Clear(credentials))

\* The fields of the dialog.  parsePairs drops the lines without a key.
Change ==
    /\ On("credentials") /\ credentials.open
    /\ \/ \E n \in BOOLEAN : Set([credentials EXCEPT !.named = n])
       \/ \E p \in Providers : Set(Clear([credentials EXCEPT !.provider = p]))
       \/ \E s \in Sources : Set(Clear([credentials EXCEPT !.source = s]))
       \/ Set(Fields(credentials)) \/ Set(Clear(credentials))

\* The name, the provider and the source stay for the next time.
CancelEdit ==
    /\ On("credentials") /\ credentials.open
    /\ Set(Clear([credentials EXCEPT !.open = FALSE, !.editing = New]))

\* The requests: save, rename, test and remove, each disabled while it is pending.
CredentialRequest(r) ==
    /\ On("credentials") /\ r \notin credentials.requests
    /\ CASE r = "save"   -> credentials.open /\ credentials.named
         [] r = "rename" -> credentials.dialog = "rename" /\ credentials.renamed
         [] r \in {"test", "remove"} -> List /\ Items # {}
    /\ Sends
    /\ credentials' = [credentials EXCEPT
          !.requests = IF Accepted(session) THEN @ \cup {r} ELSE @]

\* onSuccess of save resets the dialog, whichever credential it shows by then.
CredentialAnswers(r) ==
    /\ r \in credentials.requests
    /\ LET c == [credentials EXCEPT !.requests = @ \ {r}]
       IN  \/ Set(c)
           \/ /\ r = "save"
              /\ Set(Clear([c EXCEPT !.open = FALSE, !.editing = New, !.named = FALSE]))
           \/ /\ r = "rename"
              /\ Set([c EXCEPT !.dialog = IF @ = "rename" THEN "none" ELSE @,
                               !.renamed = FALSE])

\* setRenaming and setReferencesFor, and their dialogs.
OpenItem(d) ==
    /\ List /\ Items # {}
    /\ Set([credentials EXCEPT !.dialog = d, !.renamed = d = "rename"])

CloseItem ==
    /\ On("credentials") /\ credentials.dialog # "none"
    /\ Set([credentials EXCEPT !.dialog = "none", !.renamed = FALSE])

TypeName(typed) ==
    /\ On("credentials") /\ credentials.dialog = "rename"
    /\ Set([credentials EXCEPT !.renamed = typed])

CredentialsRun == \E r \in {"save", "rename", "test", "remove"} : CredentialAnswers(r)

CredentialsPageNext ==
    \/ StartCreate \/ Change \/ CancelEdit \/ CloseItem
    \/ \E i \in Items : StartEdit(i)
    \/ \E d \in {"rename", "references"} : OpenItem(d)
    \/ \E typed \in BOOLEAN : TypeName(typed)
    \/ \E r \in {"save", "rename", "test", "remove"} : CredentialRequest(r)
    \/ CredentialsRun

-----------------------------------------------------------------------------
(* Correctness properties *)

\* The values that the dialog would send were entered for the credential, the provider
\* and the source that it shows, although the dialog is one for all credentials, keeps
\* what it last showed, and is reset by answers to what it sent before.
ValuesMatchForm == credentials.values \in {<<>>, Form(credentials)}
=============================================================================
