----------------------------- MODULE CreatePage -----------------------------
(***************************************************************************)
(* CreateCertificatePage (web/src/CertificatePages.tsx): a form of five    *)
(* steps over one schema.  React Hook Form and zod are external: trigger   *)
(* runs the whole schema and looks at the issues of the fields it is       *)
(* given, and superRefine runs unless a field has not even its type.       *)
(***************************************************************************)
EXTENDS WebApp, Domains

CONSTANTS
    Names,      \* the names that are typed
    MaxSans,    \* bound on the names in the field of the SANs
    Days,       \* the numbers that are typed
    FormFields  \* the fields of Plain and Settings whose text matters in this instance

VARIABLES
    create,     \* the form while its page is mounted
    creating    \* its mutation, which outlives the page

-----------------------------------------------------------------------------
\* What valueAsNumber makes of a field that was cleared.
NaN == -1

Plain    == {"name", "output_directory"}
Settings == {"acme_email", "ca_directory_url", "dns_credential_id"}

ASSUME FormAssumption ==
    /\ Names \subseteq Name
    /\ Days \subseteq Nat \cup {NaN}
    /\ FormFields \subseteq Plain \cup Settings
    /\ MaxSans \in Nat

\* A text is kept as the set of those whose rule takes it.
Both == {"form", "server"}

\* Only the form takes a name of too many bytes but not characters, an address that has
\* an @ and no more, a CA that url.Parse reads otherwise than the browser (https:host),
\* and a credential deleted since the list was read.  Only the server takes a CA whose
\* port is too high.  For the directory both have the same expression.
Texts(f) ==
    CASE f = "output_directory" -> {{}, Both}
      [] f = "ca_directory_url" -> SUBSET Both
      [] OTHER -> {{}, {"form"}, Both}

\* The texts that someone refuses.
Refused(form, by) == {f \in FormFields : by \notin form.text[f]}

\* The default values; an empty name, address or credential is refused by both.
NewForm ==
    [step |-> 0, mode |-> "self_signed", primary |-> Empty, sans |-> <<>>,
     valid_days |-> 365, renew_before_days |-> 30, challenge |-> "dns-01",
     text |-> [f \in FormFields |->
                  IF f \in {"output_directory", "ca_directory_url"} THEN Both ELSE {}]]

CreateInit == create = NewForm /\ creating = "idle"

-----------------------------------------------------------------------------
NotNumber(form) == {f \in {"valid_days", "renew_before_days"} : form[f] = NaN}

\* formSchema, field by field.
Base(form) ==
    NotNumber(form)
    \cup (Refused(form, "form") \cap Plain)
    \cup {f \in {"primary_domain"} : form.primary = Empty}
    \cup {f \in {"valid_days"} : form[f] \notin 1 .. 3650}
    \cup {f \in {"renew_before_days"} : form[f] \notin 1 .. 365}

\* The settings of a public certificate that are looked at: a credential is for DNS-01.
Looked(form) ==
    {f \in Settings : f = "dns_credential_id" => form.challenge = "dns-01"}

\* superRefine, for what depends on the kind of certificate.
SuperRefine(form) ==
    IF form.mode = "acme"
    THEN FindRedundantACMEDomain(form.primary, ParseSANDomains(form.sans))
         \cup (Refused(form, "form") \cap Looked(form))
    ELSE {f \in {"renew_before_days"} : form.renew_before_days >= form.valid_days}

Issues(form) == Base(form) \cup IF NotNumber(form) = {} THEN SuperRefine(form) ELSE {}

\* The fields that advance checks on each step.
StepFields(form) ==
    CASE form.step = 0 -> {"mode"}
      [] form.step = 1 -> {"name", "primary_domain", "sans"}
      [] form.step = 2 -> IF form.mode = "acme" THEN Settings ELSE {"valid_days"}
      [] form.step = 3 -> {"output_directory", "renew_before_days"}

-----------------------------------------------------------------------------
Fill(form) == create' = form /\ UNCHANGED creating /\ Local

\* The buttons and fields that each step shows.
Edit ==
    /\ On("create")
    /\ \/ /\ create.step = 0
          /\ \E m \in {"acme", "self_signed"} : Fill([create EXCEPT !.mode = m])
       \/ /\ create.step = 1
          /\ \/ \E n \in Names \cup {Empty} : Fill([create EXCEPT !.primary = n])
             \/ \E s \in SeqOf(Names, MaxSans) : Fill([create EXCEPT !.sans = s])
       \/ /\ create.step = 2 /\ create.mode = "self_signed"
          /\ \E d \in Days : Fill([create EXCEPT !.valid_days = d])
       \/ /\ create.step = 2 /\ create.mode = "acme"
          /\ \E c \in {"dns-01", "http-01"} : Fill([create EXCEPT !.challenge = c])
       \/ /\ create.step = 3
          /\ \E d \in Days : Fill([create EXCEPT !.renew_before_days = d])
       \/ /\ create.step \in 1 .. 3
          /\ \E f \in StepFields(create) \cap FormFields \cap (Plain \cup Looked(create)) :
                \E t \in Texts(f) : Fill([create EXCEPT !.text[f] = t])

Advance ==
    /\ On("create") /\ create.step < 4
    /\ StepFields(create) \cap Issues(create) = {}
    /\ Fill([create EXCEPT !.step = @ + 1])

Back ==
    /\ On("create") /\ create.step > 0
    /\ Fill([create EXCEPT !.step = @ - 1])

\* handleSubmit and the mutation.  Bound: one request to create at a time in the tab.
Submit ==
    /\ On("create") /\ create.step = 4 /\ creating = "idle"
    /\ Issues(create) = {}
    /\ Sends
    /\ creating' = Write(session)
    /\ UNCHANGED create

CreateNext == Edit \/ Advance \/ Back \/ Submit

\* onSuccess goes to the new certificate from wherever the tab is by then.
CreateSucceeds ==
    /\ creating = "sent" /\ ~Redirects
    /\ creating' = "idle"
    /\ Goto("certificate", user, session)
    /\ UNCHANGED <<session, csrfToken, meta, signIn, signOut, expired>>

CreateFails ==
    /\ creating = "sent"
    /\ creating' = "idle"
    /\ Local

-----------------------------------------------------------------------------
(* The checks of the server (internal/certificate/service.go, acmesh/engine.go) *)

\* CreateACME before its first effect.  It looks neither at the address nor at the CA.
AcceptsACME(form) ==
    /\ Refused(form, "server") \cap Plain = {}
    /\ Normalizes(form.primary, form.sans)
    /\ ValidateACMEDomains(form.primary, form.sans)
    /\ form.renew_before_days \in 1 .. 90
    /\ form.challenge = "dns-01" => "dns_credential_id" \notin Refused(form, "server")

\* CreateSelfSigned before its first effect.
AcceptsSelfSigned(form) ==
    /\ Refused(form, "server") \cap Plain = {}
    /\ Normalizes(form.primary, form.sans)
    /\ form.valid_days \in 1 .. 3650
    /\ form.renew_before_days >= 1
    /\ form.renew_before_days < form.valid_days

ServiceAccepts(form) ==
    IF form.mode = "acme" THEN AcceptsACME(form) ELSE AcceptsSelfSigned(form)

\* The names of a request once they are normalized.
Requested(form) == {ToLower(n) : n \in {form.primary} \cup Range(form.sans)} \ {Empty}

FewNames(form) == Cardinality(Requested(form)) <= 100

\* HTTP-01 cannot prove a wildcard.
Provable(form) == form.challenge = "http-01" => \A d \in Requested(form) : ~IsWildcard(d)

\* issueArguments, on names that are normalized.  By then the row and the job exist: what
\* it refuses is left behind as a failed certificate.
EngineAccepts(form) ==
    /\ FewNames(form)
    /\ Refused(form, "server") \cap {"acme_email", "ca_directory_url"} = {}
    /\ Provable(form)

-----------------------------------------------------------------------------
(* Correctness properties *)

\* Whether a request is taken: by the service and, for ACME, by the engine before it
\* runs a command.
Taken(form) == ServiceAccepts(form) /\ (form.mode = "acme" => EngineAccepts(form))

\* The requests in which the two are known to differ: names the form does not look at; a
\* text only one of them takes; for ACME renewals of 91 to 365 days ahead, wildcards
\* under HTTP-01 and more than 100 names, which the form takes, and a wrong validity
\* left from before the kind was chosen, which only the form looks at; for self-signed
\* certificates renewals more than a year ahead, which only the form refuses.
KnownDifference(form) ==
    \/ ~Normalizes(form.primary, form.sans)
    \/ \E f \in FormFields \cap (Plain \cup IF form.mode = "acme" THEN Looked(form) ELSE {}) :
          form.text[f] \notin {{}, Both}
    \/ /\ form.mode = "acme"
       /\ \/ form.renew_before_days \in 91 .. 365 \/ form.valid_days \notin 1 .. 3650
          \/ ~Provable(form) \/ ~FewNames(form)
    \/ form.mode # "acme" /\ form.renew_before_days > 365

\* The form and the server, which check a certificate's names, days, texts and method in
\* two languages and at three places, take the same requests but for the known
\* differences: both look at the same fields, under the same kind and method, and find
\* the same names covered by a wildcard.
FormAgreesWithService ==
    ~KnownDifference(create) => (Issues(create) = {} <=> Taken(create))

\* Doc (Features.test.tsx): names that a wildcard covers are refused on the step of the
\* domains, so that the later steps of a public certificate never have them.
RedundantStopsAtDomains ==
    create.mode = "acme" /\ create.step > 1
    => FindRedundantACMEDomain(create.primary, ParseSANDomains(create.sans)) = {}
=============================================================================
