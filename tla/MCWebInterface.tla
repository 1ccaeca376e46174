--------------------------- MODULE MCWebInterface ---------------------------
(***************************************************************************)
(* Small instances of the web interface: for the form a wildcard, a name   *)
(* below it in capitals and one that is two levels below; for the other    *)
(* pages one public file and the key, two credentials of different sources.*)
(***************************************************************************)
EXTENDS WebInterface

Named(labels, upper) == [labels |-> labels, upper |-> upper]

SomeNames ==
    {Named(<<"*", "example", "com">>, FALSE), Named(<<"www", "example", "com">>, TRUE),
     Named(<<"a", "b", "example", "com">>, FALSE)}

\* The boundaries of the rules on days.
EdgeDays == {NaN, 1, 90, 91, 365, 366, 3650, 3651}

SomeListings == {{}, PublicFiles \cup {Key}}

SomeCertificates ==
    {[status |-> "active", acme |-> TRUE], [status |-> "failed", acme |-> FALSE]}

SomeItems ==
    {[id |-> "c1", provider |-> "cloudflare", source |-> "environment"],
     [id |-> "c2", provider |-> "custom", source |-> "encrypted"]}

\* Which of the two starts a behaviour has; it never changes.
VARIABLE start

\* A tab that is signed in, on the page of the form, with no answer late.
FormInit ==
    /\ session = TRUE /\ csrfToken = "good" /\ meta = "ok" /\ route = "create"
    /\ user = [data |-> "user", error |-> FALSE, fetch |-> "idle"]
    /\ signIn = "idle" /\ signOut = "idle" /\ expired = FALSE
    /\ CreateInit /\ CertificateInit /\ CredentialsInit /\ PolicyInit

\* What the form needs to be filled in and submitted, or refused, beside the other pages.
SmallForm(form) ==
    /\ form.primary \in {Empty, Named(<<"a", "b", "example", "com">>, FALSE)}
    /\ form.sans = <<>>
    /\ form.valid_days = NewForm.valid_days
    /\ form.renew_before_days = NewForm.renew_before_days
    /\ \A f \in FormFields : form.text[f] \in {{}, Both}

\* Spec from either start, within bounds: the whole tab with a small form, or every form
\* while nothing else happens.
StartsInit ==
    \/ start = "tab" /\ Init
    \/ start = "form" /\ FormInit

StartsNext ==
    /\ \/ start = "tab" /\ Next /\ SmallForm(create')
       \/ start = "form" /\ PageStep
    /\ UNCHANGED start

StartsSpec == StartsInit /\ [][StartsNext]_<<vars, start>> /\ Fairness
=============================================================================
