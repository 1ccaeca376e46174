------------------------ MODULE WebInterfaceProofs -------------------------
(***************************************************************************)
(* Proofs about the web interface, for every set of names, files,          *)
(* certificates, credentials and times: the invariants of its pages, the   *)
(* agreement of the form of a new certificate with the service, and the    *)
(* agreement of the shell with the session although answers of             *)
(* getCurrentUser may be older than the login or the sign-out before them. *)
(***************************************************************************)
EXTENDS WebInterface, TLAPS

-----------------------------------------------------------------------------
(* The states of the pages *)

FormSet ==
    [step: 0 .. 4, mode: {"acme", "self_signed"}, primary: Name, sans: Seq(Name),
     valid_days: Int, renew_before_days: Int, challenge: {"dns-01", "http-01"},
     text: [FormFields -> SUBSET Both]]

CertificateSet ==
    [query: {"pending", "success", "error"}, fetch: BOOLEAN, data: Certificates,
     tab: {"overview", "files", "settings"}, dialog: Dialogs \cup {None},
     passwords: SUBSET Dialogs, named: BOOLEAN, op: Operations \cup {None}]

FilesSet ==
    [list: SUBSET Files, status: {"pending", "success", "error"}, fetch: BOOLEAN]

ViewerSet ==
    [selected: Files \cup {None}, content: Files \cup {None},
     dialog: {None, "reveal", "archive"}, password: BOOLEAN,
     requests: SUBSET (PublicFiles \cup {"reveal", "archive", "public"})]

Editings == {i.id : i \in Items} \cup {New}

CredentialsSet ==
    [open: BOOLEAN, editing: Editings, provider: Providers, source: Sources,
     named: BOOLEAN, values: {<<>>} \cup (Editings \X Providers \X Sources),
     dialog: {"none", "rename", "references"}, renamed: BOOLEAN,
     requests: SUBSET {"save", "rename", "test", "remove"}]

CronSet ==
    [form: {"daily", "12h", "6h", "other"}, hour: Int, minute: Int,
     lead: {"none", "hour", "minute"}]

PolicySet ==
    [query: {"pending", "success", "error"}, fetch: BOOLEAN, cron: CronSet,
     mode: {"daily", "12h", "6h", "custom_daily", "advanced"},
     time: [hour: Int, minute: Int], requests: SUBSET {"save", "run"}]

-----------------------------------------------------------------------------
(* The inductive invariant *)

FormInv        == create \in FormSet
CredentialsInv == credentials \in CredentialsSet /\ ValuesMatchForm
PolicyInv      == policy \in PolicySet /\ PresetMatchesCron
CertificateInv ==
    /\ certificate \in CertificateSet /\ files \in FilesSet /\ viewer \in ViewerSet
    /\ PasswordsNeedDialog /\ ContentMatchesTitle

\* The side of the login page on which the tab is once the redirect that is due, if any,
\* has been rendered.
AtLogin == IF Redirects THEN route # "login" ELSE route = "login"

\* Before the application's name is known nothing has been asked, and before a user was
\* read nothing but a login has been sent.
NothingSent ==
    /\ meta # "ok" => user = NoQuery /\ signIn = "idle"
    /\ user.data = "undefined" => signOut = "idle" /\ creating = "idle" /\ removing = "idle"

\* A user that was read and is shown is the cookie's.
ReadAgrees ==
    (meta = "ok" /\ user.fetch = "idle" /\ ~user.error) =>
        /\ user.data # "undefined"
        /\ ~expired /\ ~Redirects => user.data = GetCurrentUser(session)

\* An answer under way that is no longer true will be followed by a redirect, which asks
\* again.
LateAnswer ==
    (meta = "ok" /\ user.fetch # "idle" /\ ~expired) =>
        \/ user.fetch = GetCurrentUser(session)
        \/ user.fetch = "user" /\ AtLogin
        \/ user.fetch = "null" /\ ~AtLogin

\* The login page is left before anything else is asked.
LeavesLogin ==
    (meta = "ok" /\ route = "login" /\ user.data = "user") => user.fetch = "idle"

ShellInv ==
    /\ AppTypeOK /\ creating \in Pending /\ removing \in Pending
    /\ NothingSent /\ ReadAgrees /\ LateAnswer /\ LeavesLogin

WebInv == FormInv /\ CredentialsInv /\ PolicyInv /\ CertificateInv /\ ShellInv

-----------------------------------------------------------------------------
(* The form of a new certificate and the service *)

\* What endsWith leaves when it leaves one label.
LEMMA SuffixIsTail ==
    ASSUME NEW s \in Seq(STRING), NEW t \in Seq(STRING), Len(t) = Len(s) + 1
    PROVE  IsStrictSuffix(s, t) <=> s = Tail(t)
<1> DEFINE r == Reverse(s)
           u == Reverse(t)
           n == Len(s)
<1>1. n \in Nat /\ Len(t) = n + 1 /\ s # t
  OBVIOUS
<1>2. /\ r \in Seq(STRING) /\ Len(r) = n /\ \A i \in 1 .. n : r[i] = s[n - i + 1]
      /\ u \in Seq(STRING) /\ Len(u) = n + 1 /\ \A i \in 1 .. n + 1 : u[i] = t[n + 1 - i + 1]
  <2>1. \A i \in 1 .. n : s[n - i + 1] \in STRING
    OBVIOUS
  <2>2. \A i \in 1 .. n + 1 : t[n + 1 - i + 1] \in STRING
    BY <1>1
  <2> QED
    BY <1>1, <2>1, <2>2 DEF Reverse
<1> HIDE DEF r, u
<1>3. IsStrictSuffix(s, t) <=> SubSeq(r, 1, n) = SubSeq(u, 1, n)
  BY <1>1, <1>2 DEF IsStrictSuffix, IsSuffix, IsPrefix, r, u
<1>4. SubSeq(r, 1, n) = SubSeq(u, 1, n) <=> \A i \in 1 .. n : r[i] = u[i]
  <2>1. /\ SubSeq(r, 1, n) \in Seq(STRING) /\ Len(SubSeq(r, 1, n)) = n
        /\ \A i \in 1 .. n : SubSeq(r, 1, n)[i] = r[i]
    BY <1>1, <1>2
  <2>2. /\ SubSeq(u, 1, n) \in Seq(STRING) /\ Len(SubSeq(u, 1, n)) = n
        /\ \A i \in 1 .. n : SubSeq(u, 1, n)[i] = u[i]
    BY <1>1, <1>2
  <2> QED
    BY <1>1, <2>1, <2>2
<1>5. (\A i \in 1 .. n : r[i] = u[i]) <=> \A j \in 1 .. n : s[j] = t[j + 1]
  <2>1. \A i \in 1 .. n : n - i + 1 \in 1 .. n /\ n - (n - i + 1) + 1 = i
                          /\ n + 1 - i + 1 = (n - i + 1) + 1
    BY <1>1
  <2>2. \A i \in 1 .. n : r[i] = s[n - i + 1] /\ u[i] = t[(n - i + 1) + 1]
    BY <1>1, <1>2, <2>1
  <2>3. ASSUME \A i \in 1 .. n : r[i] = u[i], NEW j \in 1 .. n
        PROVE  s[j] = t[j + 1]
    <3> DEFINE i == n - j + 1
    <3>1. i \in 1 .. n /\ n - i + 1 = j
      BY <1>1
    <3> HIDE DEF i
    <3>2. r[i] = u[i] /\ r[i] = s[n - i + 1] /\ u[i] = t[(n - i + 1) + 1]
      BY <2>2, <2>3, <3>1
    <3> QED
      BY <3>1, <3>2
  <2>4. ASSUME \A j \in 1 .. n : s[j] = t[j + 1], NEW i \in 1 .. n
        PROVE  r[i] = u[i]
    BY <2>1, <2>2, <2>4
  <2> QED
    BY <2>3, <2>4
<1>6. s = Tail(t) <=> \A j \in 1 .. n : s[j] = t[j + 1]
  <2> DEFINE q == Tail(t)
  <2>1. q \in Seq(STRING) /\ Len(q) = n /\ \A j \in 1 .. n : q[j] = t[j + 1]
    BY <1>1
  <2> HIDE DEF q
  <2>2. s = q <=> \A j \in 1 .. n : s[j] = q[j]
    BY <1>1, <2>1
  <2> QED
    BY <2>1, <2>2 DEF q
<1> QED
  BY <1>3, <1>4, <1>5, <1>6

\* The two versions of wildcardCoversDomain are the same.
LEMMA CoversSame ==
    ASSUME NEW w \in Name, NEW d \in Name, IsWildcard(w), w.upper = d.upper
    PROVE  WildcardCoversDomain(w, d) <=> ServiceCovers(w, d)
<1> DEFINE s == Tail(w.labels)
           t == d.labels
<1>1. /\ w.labels \in Seq(STRING) /\ Len(w.labels) > 1 /\ s \in Seq(STRING)
      /\ Len(w.labels) = Len(s) + 1 /\ t \in Seq(STRING) /\ Len(t) \in Nat
  BY DEF Name, IsWildcard
<1>2. ServiceCovers(w, d) <=> \E i \in DOMAIN t : t[i] # "" /\ t = <<t[i]>> \o s
  BY DEF ServiceCovers, Range
<1>3. WildcardCoversDomain(w, d)
      <=> IsStrictSuffix(s, t) /\ Len(t) = Len(w.labels) /\ Head(t) # ""
  BY DEF WildcardCoversDomain
<1> HIDE DEF s, t
<1>4. Len(t) = Len(s) + 1 => (IsStrictSuffix(s, t) <=> s = Tail(t))
  BY <1>1, SuffixIsTail
<1>5. ASSUME Len(t) = Len(s) + 1, s = Tail(t)
      PROVE  1 \in DOMAIN t /\ t[1] = Head(t) /\ t = <<t[1]>> \o s
  BY <1>1, <1>5
<1>6. ASSUME NEW i \in DOMAIN t, t = <<t[i]>> \o s
      PROVE  Len(t) = Len(s) + 1 /\ s = Tail(t) /\ Head(t) = t[i]
  <2>1. t[i] \in STRING
    BY <1>1
  <2> QED
    BY <1>1, <1>6, <2>1
<1> QED
  BY <1>1, <1>2, <1>3, <1>4, <1>5, <1>6

\* The form finds a redundant name exactly where the service does.
LEMMA RedundantSame ==
    ASSUME NEW primary \in Name, NEW sans \in Seq(Name)
    PROVE  FindRedundantACMEDomain(primary, ParseSANDomains(sans)) = {}
           <=> ValidateACMEDomains(primary, sans)
<1> DEFINE names == {ToLower(n) : n \in {primary} \cup (Range(sans) \ {Empty})}
           domains == {ToLower(n) : n \in {primary} \cup Range(sans)} \ {Empty}
           redundant == {n \in names : ~IsWildcard(n) /\ Covered(n, names)}
<1>1. Empty \in Name /\ ToLower(Empty) = Empty /\ ~IsWildcard(Empty) /\ Empty.labels = <<>>
  <2>1. Empty.labels = <<>> /\ Empty.upper = FALSE /\ <<>> \in Seq(STRING) /\ ~(Len(<<>>) > 1)
    BY DEF Empty
  <2>2. Empty \in Name
    BY <2>1 DEF Empty, Name
  <2>3. ToLower(Empty) = Empty
    BY <2>1, <2>2 DEF ToLower, Name
  <2>4. ~IsWildcard(Empty)
    BY <2>1 DEF IsWildcard
  <2> QED
    BY <2>1, <2>2, <2>3, <2>4
<1>2. \A n \in Range(sans) : n \in Name
  BY DEF Range
<1>3. \A n \in Name : ToLower(n) \in Name /\ ToLower(n).upper = FALSE
  BY DEF ToLower, Name
<1>4. domains \subseteq names /\ names \subseteq domains \cup {Empty}
  BY <1>1
<1>5. \A n \in names : n \in Name /\ n.upper = FALSE
  BY <1>2, <1>3
<1>6. \A w \in Name : IsWildcard(w) => ~ServiceCovers(w, Empty)
  BY <1>1 DEF ServiceCovers, Range
<1>7. FindRedundantACMEDomain(primary, ParseSANDomains(sans)) = {} <=> redundant = {}
  BY DEF FindRedundantACMEDomain, ParseSANDomains
<1>8. ValidateACMEDomains(primary, sans)
      <=> \A d, w \in domains : IsWildcard(w) /\ ~IsWildcard(d) => ~ServiceCovers(w, d)
  BY DEF ValidateACMEDomains
<1> HIDE DEF names, domains
<1>9. redundant = {}
      <=> \A d, w \in names : IsWildcard(w) /\ ~IsWildcard(d) => ~WildcardCoversDomain(w, d)
  BY DEF Covered
<1>10. \A d, w \in names : IsWildcard(w) => (WildcardCoversDomain(w, d) <=> ServiceCovers(w, d))
  BY <1>5, CoversSame
<1> QED
  BY <1>1, <1>4, <1>5, <1>6, <1>7, <1>8, <1>9, <1>10

\* Of the texts that are taken by both or by none, the two refuse the same.
LEMMA TextsAgree ==
    ASSUME ~KnownDifference(create)
    PROVE  /\ Refused(create, "form") \cap Plain = {} <=> Refused(create, "server") \cap Plain = {}
           /\ create.mode = "acme" =>
                (Refused(create, "form") \cap Looked(create) = {}
                 <=> /\ Refused(create, "server") \cap {"acme_email", "ca_directory_url"} = {}
                     /\ create.challenge = "dns-01"
                          => "dns_credential_id" \notin Refused(create, "server"))
<1> DEFINE read == Plain \cup IF create.mode = "acme" THEN Looked(create) ELSE {}
<1>1. \A f \in FormFields \cap read : create.text[f] \in {{}, Both}
  BY DEF KnownDifference
<1>2. \A f \in read : f \in Refused(create, "form") <=> f \in Refused(create, "server")
  <2>1. "form" \in Both /\ "server" \in Both
    BY DEF Both
  <2> HIDE DEF read
  <2> QED
    BY <1>1, <2>1 DEF Refused
<1>3. CASE create.mode = "acme"
  <2>1. Looked(create) = {"acme_email", "ca_directory_url"}
                         \cup {f \in {"dns_credential_id"} : create.challenge = "dns-01"}
    BY DEF Looked, Settings
  <2>2. read = Plain \cup Looked(create)
    BY <1>3
  <2> HIDE DEF read
  <2>3. Refused(create, "form") \cap Looked(create) = {}
        <=> Refused(create, "server") \cap Looked(create) = {}
    BY <1>2, <2>2
  <2>4. Refused(create, "server") \cap Looked(create) = {}
        <=> /\ Refused(create, "server") \cap {"acme_email", "ca_directory_url"} = {}
            /\ create.challenge = "dns-01"
                 => "dns_credential_id" \notin Refused(create, "server")
    BY <2>1
  <2> QED
    BY <1>2, <2>2, <2>3, <2>4
<1>4. CASE create.mode # "acme"
  BY <1>2, <1>4
<1> QED
  BY <1>3, <1>4

\* Whatever the form holds, the two agree.
LEMMA FormAgrees ==
    ASSUME create \in FormSet
    PROVE  FormAgreesWithService
<1> DEFINE v == create.valid_days
           r == create.renew_before_days
           names == ValidateACMEDomains(create.primary, create.sans)
           plain == Refused(create, "form") \cap Plain = {}
           looked == Refused(create, "form") \cap Looked(create) = {}
<1>1. /\ create.mode \in {"acme", "self_signed"} /\ create.primary \in Name
      /\ create.sans \in Seq(Name) /\ v \in Int /\ r \in Int
  BY DEF FormSet
<1>2. SUFFICES ASSUME ~KnownDifference(create)
               PROVE  Issues(create) = {} <=> Taken(create)
  BY DEF FormAgreesWithService
<1>2a. /\ Normalizes(create.primary, create.sans)
       /\ create.mode = "acme" => v \in 1 .. 3650 /\ r \notin 91 .. 365
       /\ create.mode # "acme" => ~(r > 365)
       /\ create.mode = "acme" => Provable(create) /\ FewNames(create)
  BY <1>2 DEF KnownDifference
<1>3. create.primary # Empty
  <2>1. Len(ToLower(create.primary).labels) > 1
    BY <1>2a DEF Normalizes, ValidateDomain
  <2>2. ToLower(create.primary).labels = create.primary.labels
    BY <1>1 DEF ToLower, Name
  <2>3. Empty.labels = <<>> /\ ~(Len(<<>>) > 1)
    BY DEF Empty
  <2> QED
    BY <2>1, <2>2, <2>3
<1>4. NotNumber(create) = {} <=> v # NaN /\ r # NaN
  BY DEF NotNumber
<1>5. Base(create) = {} <=> /\ NotNumber(create) = {} /\ plain
                           /\ v \in 1 .. 3650 /\ r \in 1 .. 365
  <2>1. {f \in {"primary_domain"} : create.primary = Empty} = {}
    BY <1>3
  <2>2. {f \in {"valid_days"} : create[f] \notin 1 .. 3650} = {} <=> v \in 1 .. 3650
    OBVIOUS
  <2>3. {f \in {"renew_before_days"} : create[f] \notin 1 .. 365} = {} <=> r \in 1 .. 365
    OBVIOUS
  <2> QED
    BY <2>1, <2>2, <2>3, SMTT(30) DEF Base
<1>6. Issues(create) = {} <=> Base(create) = {} /\ SuperRefine(create) = {}
  BY <1>5 DEF Issues
<1>7. create.mode = "acme" => (SuperRefine(create) = {} <=> names /\ looked)
  <2>1. FindRedundantACMEDomain(create.primary, ParseSANDomains(create.sans)) = {} <=> names
    BY <1>1, <1>2a, RedundantSame
  <2>2. create.mode = "acme" =>
          SuperRefine(create) =
            FindRedundantACMEDomain(create.primary, ParseSANDomains(create.sans))
            \cup (Refused(create, "form") \cap Looked(create))
    BY DEF SuperRefine
  <2> HIDE DEF names
  <2> QED
    BY <2>1, <2>2
<1>8. create.mode # "acme" => (SuperRefine(create) = {} <=> ~(r >= v))
  BY DEF SuperRefine
<1>9. Taken(create) <=>
        /\ plain
        /\ create.mode = "acme" => names /\ r \in 1 .. 90 /\ looked
        /\ create.mode # "acme" => v \in 1 .. 3650 /\ r >= 1 /\ r < v
  <2>1. CASE create.mode = "acme"
    <3>1. EngineAccepts(create)
          <=> Refused(create, "server") \cap {"acme_email", "ca_directory_url"} = {}
      BY <1>2a, <2>1 DEF EngineAccepts
    <3>2. AcceptsACME(create)
          <=> /\ plain /\ names /\ r \in 1 .. 90
              /\ create.challenge = "dns-01"
                   => "dns_credential_id" \notin Refused(create, "server")
      BY <1>2, <1>2a, TextsAgree DEF AcceptsACME
    <3> QED
      BY <1>2, <2>1, <3>1, <3>2, TextsAgree DEF Taken, ServiceAccepts
  <2>2. CASE create.mode # "acme"
    <3>1. AcceptsSelfSigned(create) <=> plain /\ v \in 1 .. 3650 /\ r >= 1 /\ r < v
      BY <1>2, <1>2a, TextsAgree DEF AcceptsSelfSigned
    <3> QED
      BY <2>2, <3>1 DEF Taken, ServiceAccepts
  <2> QED
    BY <2>1, <2>2
<1> HIDE DEF v, r, names, plain, looked
<1>10. /\ v \in 1 .. 3650 => v # NaN
       /\ r \in 1 .. 365 => r # NaN
       /\ r \notin 91 .. 365 => (r \in 1 .. 365 <=> r \in 1 .. 90)
       /\ ~(r > 365) => (r \in 1 .. 365 <=> r >= 1)
       /\ r >= v <=> ~(r < v)
  BY <1>1 DEF NaN
<1>11. CASE create.mode = "acme"
  <2>1. Base(create) = {} <=> plain /\ r \in 1 .. 90
    BY <1>2a, <1>4, <1>5, <1>10, <1>11
  <2> QED
    BY <1>6, <1>7, <1>9, <1>11, <2>1
<1>12. CASE create.mode # "acme"
  <2>1. Base(create) = {} <=> plain /\ v \in 1 .. 3650 /\ r >= 1
    BY <1>2a, <1>4, <1>5, <1>10, <1>12
  <2> QED
    BY <1>6, <1>8, <1>9, <1>10, <1>12, <2>1
<1> QED
  BY <1>11, <1>12

-----------------------------------------------------------------------------
(* The steps of the pages *)

LEMMA NewFormType == NewForm \in FormSet
<1>1. <<>> \in Seq(STRING) /\ <<>> \in Seq(Name)
  OBVIOUS
<1>2. Empty \in Name
  BY <1>1 DEF Empty, Name
<1>3. [f \in FormFields |-> IF f \in {"output_directory", "ca_directory_url"} THEN Both ELSE {}]
      \in [FormFields -> SUBSET Both]
  OBVIOUS
<1> QED
  BY <1>1, <1>2, <1>3 DEF NewForm, FormSet

LEMMA FormStep ==
    ASSUME FormInv, CreateNext
    PROVE  FormInv'
<1> USE DEF FormInv
<1>1. CASE Edit
  <2>1. ASSUME NEW m \in {"acme", "self_signed"}, create' = [create EXCEPT !.mode = m]
        PROVE  create' \in FormSet
    BY <2>1 DEF FormSet
  <2>2. ASSUME NEW n \in Names \cup {Empty}, create' = [create EXCEPT !.primary = n]
        PROVE  create' \in FormSet
    <3>1. n \in Name
      BY FormAssumption, NewFormType DEF NewForm, FormSet
    <3> QED
      BY <2>2, <3>1 DEF FormSet
  <2>3. ASSUME NEW s \in SeqOf(Names, MaxSans), create' = [create EXCEPT !.sans = s]
        PROVE  create' \in FormSet
    <3>1. PICK m \in 0 .. MaxSans : s \in [1 .. m -> Names]
      BY DEF SeqOf
    <3>2. s \in Seq(Name)
      BY <3>1, FormAssumption
    <3> QED
      BY <2>3, <3>2 DEF FormSet
  <2>4. ASSUME NEW d \in Days, create' = [create EXCEPT !.valid_days = d]
        PROVE  create' \in FormSet
    <3>1. d \in Int
      BY FormAssumption DEF NaN
    <3> QED
      BY <2>4, <3>1 DEF FormSet
  <2>5. ASSUME NEW d \in Days, create' = [create EXCEPT !.renew_before_days = d]
        PROVE  create' \in FormSet
    <3>1. d \in Int
      BY FormAssumption DEF NaN
    <3> QED
      BY <2>5, <3>1 DEF FormSet
  <2>6. ASSUME NEW f \in FormFields, NEW t \in Texts(f),
               create' = [create EXCEPT !.text[f] = t]
        PROVE  create' \in FormSet
    <3>1. t \in SUBSET Both
      BY DEF Texts, Both
    <3>2. [create.text EXCEPT ![f] = t] \in [FormFields -> SUBSET Both]
      BY <3>1 DEF FormSet
    <3>3. create' = [create EXCEPT !.text = [create.text EXCEPT ![f] = t]]
      BY <2>6
    <3> QED
      BY <3>2, <3>3 DEF FormSet
  <2>7. ASSUME NEW c \in {"dns-01", "http-01"}, create' = [create EXCEPT !.challenge = c]
        PROVE  create' \in FormSet
    BY <2>7 DEF FormSet
  <2> QED
    BY <1>1, <2>1, <2>2, <2>3, <2>4, <2>5, <2>6, <2>7 DEF Edit, Fill
<1>2. CASE Advance
  <2>1. create.step \in 0 .. 4 /\ create.step < 4
    BY <1>2 DEF Advance, FormSet
  <2>2. create.step + 1 \in 0 .. 4
    BY <2>1
  <2> QED
    BY <1>2, <2>2 DEF Advance, Fill, FormSet
<1>3. CASE Back
  <2>1. create.step \in 0 .. 4 /\ create.step > 0
    BY <1>3 DEF Back, FormSet
  <2>2. create.step - 1 \in 0 .. 4
    BY <2>1
  <2> QED
    BY <1>3, <2>2 DEF Back, Fill, FormSet
<1>4. CASE Submit
  BY <1>4 DEF Submit
<1> QED
  BY <1>1, <1>2, <1>3, <1>4 DEF CreateNext

LEMMA NoCredentialsInv ==
    /\ NoCredentials \in CredentialsSet
    /\ NoCredentials.values = <<>>
  BY ItemsAssumption DEF NoCredentials, CredentialsSet, Editings, Sources

\* Every step of the page leaves the values and what is shown alone, empties the values,
\* or fills them in for what is shown.
LEMMA CredentialsKept ==
    ASSUME CredentialsInv, NEW c \in CredentialsSet, credentials' = c,
           c.values = credentials.values, c.editing = credentials.editing,
           c.provider = credentials.provider, c.source = credentials.source
    PROVE  CredentialsInv'
  BY DEF CredentialsInv, ValuesMatchForm, Form

LEMMA CredentialsCleared ==
    ASSUME NEW c \in CredentialsSet, credentials' = Clear(c)
    PROVE  CredentialsInv'
<1>1. Clear(c) \in CredentialsSet /\ Clear(c).values = <<>>
  BY DEF Clear, CredentialsSet
<1> QED
  BY <1>1 DEF CredentialsInv, ValuesMatchForm

LEMMA CredentialsFilled ==
    ASSUME NEW c \in CredentialsSet, credentials' = Fields(c)
    PROVE  CredentialsInv'
<1>1. Form(c) \in Editings \X Providers \X Sources
  BY DEF Form, CredentialsSet
<1>2. Fields(c) \in CredentialsSet /\ Fields(c).values = Form(c) /\ Form(Fields(c)) = Form(c)
  <2>1. Fields(c) \in CredentialsSet /\ Fields(c).values = Form(c)
    BY <1>1 DEF Fields, CredentialsSet
  <2>2. Form(Fields(c)) = Form(c)
    BY DEF Fields, Form, CredentialsSet
  <2> QED
    BY <2>1, <2>2
<1> QED
  BY <1>2 DEF CredentialsInv, ValuesMatchForm

LEMMA CredentialsStep ==
    ASSUME CredentialsInv, CredentialsPageNext
    PROVE  CredentialsInv'
<1> DEFINE old == credentials
           Requests == {"save", "rename", "test", "remove"}
<1>1. /\ old \in CredentialsSet /\ old.requests \in SUBSET Requests
      /\ old.dialog \in {"none", "rename", "references"}
  BY DEF CredentialsInv, CredentialsSet
<1>2. /\ New \in Editings
      /\ \A i \in Items : i.id \in Editings /\ i.provider \in Providers /\ i.source \in Sources
  BY ItemsAssumption DEF Editings
<1>3. CASE StartCreate
  <2> DEFINE c == [old EXCEPT !.open = TRUE]
  <2>1. /\ c \in CredentialsSet /\ c.values = old.values /\ c.editing = old.editing
        /\ c.provider = old.provider /\ c.source = old.source
    BY <1>1 DEF CredentialsSet
  <2>2. credentials' = c
    BY <1>3 DEF StartCreate, Set
  <2> HIDE DEF c
  <2> QED
    BY <2>1, <2>2, CredentialsKept
<1>4. ASSUME NEW i \in Items, StartEdit(i) PROVE CredentialsInv'
  <2> DEFINE c == [old EXCEPT !.open = TRUE, !.editing = i.id, !.named = TRUE,
                              !.provider = i.provider, !.source = i.source]
  <2>1. c \in CredentialsSet
    BY <1>1, <1>2 DEF CredentialsSet
  <2>2. credentials' = Fields(c) \/ credentials' = Clear(c)
    BY <1>4 DEF StartEdit, Set
  <2> HIDE DEF c
  <2> QED
    BY <2>1, <2>2, CredentialsFilled, CredentialsCleared
<1>5. CASE Change
  <2>1. ASSUME NEW n \in BOOLEAN, credentials' = [old EXCEPT !.named = n]
        PROVE  CredentialsInv'
    <3> DEFINE c == [old EXCEPT !.named = n]
    <3>1. /\ c \in CredentialsSet /\ c.values = old.values /\ c.editing = old.editing
          /\ c.provider = old.provider /\ c.source = old.source
      BY <1>1 DEF CredentialsSet
    <3>2. credentials' = c
      BY <2>1
    <3> HIDE DEF c
    <3> QED
      BY <3>1, <3>2, CredentialsKept
  <2>2. \A q \in Providers : [old EXCEPT !.provider = q] \in CredentialsSet
    BY <1>1 DEF CredentialsSet
  <2>3. \A q \in Sources : [old EXCEPT !.source = q] \in CredentialsSet
    BY <1>1 DEF CredentialsSet
  <2>4. ASSUME NEW q \in Providers, credentials' = Clear([old EXCEPT !.provider = q])
        PROVE  CredentialsInv'
    BY <2>2, <2>4, CredentialsCleared
  <2>5. ASSUME NEW q \in Sources, credentials' = Clear([old EXCEPT !.source = q])
        PROVE  CredentialsInv'
    BY <2>3, <2>5, CredentialsCleared
  <2>6. CASE credentials' = Fields(old) \/ credentials' = Clear(old)
    BY <1>1, <2>6, CredentialsFilled, CredentialsCleared
  <2> QED
    BY <1>5, <2>1, <2>4, <2>5, <2>6 DEF Change, Set
<1>6. CASE CancelEdit
  <2>1. [old EXCEPT !.open = FALSE, !.editing = New] \in CredentialsSet
    BY <1>1, <1>2 DEF CredentialsSet
  <2> QED
    BY <1>6, <2>1, CredentialsCleared DEF CancelEdit, Set
<1>7. ASSUME NEW d \in {"none", "rename", "references"}, NEW n \in BOOLEAN,
             NEW q \in SUBSET Requests,
             credentials' = [old EXCEPT !.dialog = d, !.renamed = n, !.requests = q]
      PROVE  CredentialsInv'
  <2> DEFINE c == [old EXCEPT !.dialog = d, !.renamed = n, !.requests = q]
  <2>1. /\ c \in CredentialsSet /\ c.values = old.values /\ c.editing = old.editing
        /\ c.provider = old.provider /\ c.source = old.source
    BY <1>1 DEF CredentialsSet
  <2>2. credentials' = c
    BY <1>7
  <2> HIDE DEF c
  <2> QED
    BY <2>1, <2>2, CredentialsKept
<1>8. ASSUME NEW d \in {"none", "rename", "references"}, NEW n \in BOOLEAN,
             NEW q \in SUBSET Requests,
             \/ credentials' = [old EXCEPT !.dialog = d, !.renamed = n]
             \/ credentials' = [old EXCEPT !.renamed = n]
             \/ credentials' = [old EXCEPT !.requests = q]
      PROVE  CredentialsInv'
  <2>1. /\ [old EXCEPT !.dialog = d, !.renamed = n]
            = [old EXCEPT !.dialog = d, !.renamed = n, !.requests = old.requests]
        /\ [old EXCEPT !.renamed = n]
            = [old EXCEPT !.dialog = old.dialog, !.renamed = n, !.requests = old.requests]
        /\ [old EXCEPT !.requests = q]
            = [old EXCEPT !.dialog = old.dialog, !.renamed = old.renamed, !.requests = q]
        /\ old.renamed \in BOOLEAN
    BY <1>1 DEF CredentialsSet
  <2>2. CASE credentials' = [old EXCEPT !.dialog = d, !.renamed = n]
    <3>1. credentials' = [old EXCEPT !.dialog = d, !.renamed = n, !.requests = old.requests]
      BY <2>1, <2>2
    <3> QED
      BY <1>1, <1>7, <3>1, Zenon
  <2>3. CASE credentials' = [old EXCEPT !.renamed = n]
    <3>1. credentials' = [old EXCEPT !.dialog = old.dialog, !.renamed = n,
                                     !.requests = old.requests]
      BY <2>1, <2>3
    <3> QED
      BY <1>1, <1>7, <3>1, Zenon
  <2>4. CASE credentials' = [old EXCEPT !.requests = q]
    BY <1>1, <1>7, <2>1, <2>4
  <2> QED
    BY <1>8, <2>2, <2>3, <2>4
<1>9. CASE CloseItem
  BY <1>1, <1>8, <1>9 DEF CloseItem, Set
<1>10. ASSUME NEW d \in {"rename", "references"}, OpenItem(d) PROVE CredentialsInv'
  <2>1. (d = "rename") \in BOOLEAN
    OBVIOUS
  <2> QED
    BY <1>1, <1>8, <1>10, <2>1 DEF OpenItem, Set
<1>11. ASSUME NEW typed \in BOOLEAN, TypeName(typed) PROVE CredentialsInv'
  BY <1>1, <1>8, <1>11 DEF TypeName, Set
<1>12. ASSUME NEW r \in Requests, CredentialRequest(r) PROVE CredentialsInv'
  <2>1. PICK q \in SUBSET Requests : credentials' = [old EXCEPT !.requests = q]
    BY <1>1, <1>12 DEF CredentialRequest
  <2> QED
    BY <1>1, <1>8, <2>1
<1>13. ASSUME NEW r \in Requests, CredentialAnswers(r) PROVE CredentialsInv'
  <2> DEFINE q == old.requests \ {r}
             c == [old EXCEPT !.requests = q]
  <2>1. q \in SUBSET Requests /\ c \in CredentialsSet /\ c.dialog = old.dialog
    BY <1>1 DEF CredentialsSet
  <2>2. CASE credentials' = c
    BY <1>8, <2>1, <2>2
  <2>3. CASE credentials' = Clear([c EXCEPT !.open = FALSE, !.editing = New, !.named = FALSE])
    <3> HIDE DEF c
    <3>1. [c EXCEPT !.open = FALSE, !.editing = New, !.named = FALSE] \in CredentialsSet
      BY <1>2, <2>1 DEF CredentialsSet
    <3> QED
      BY <2>3, <3>1, CredentialsCleared
  <2>4. ASSUME NEW d \in {"none", "rename", "references"},
               credentials' = [c EXCEPT !.dialog = d, !.renamed = FALSE]
        PROVE  CredentialsInv'
    <3>1. [c EXCEPT !.dialog = d, !.renamed = FALSE]
          = [old EXCEPT !.dialog = d, !.renamed = FALSE, !.requests = q]
      BY <1>1 DEF CredentialsSet
    <3> QED
      BY <1>7, <2>1, <2>4, <3>1
  <2>5. \/ credentials' = c
        \/ credentials' = Clear([c EXCEPT !.open = FALSE, !.editing = New, !.named = FALSE])
        \/ credentials' = [c EXCEPT !.dialog = IF c.dialog = "rename" THEN "none" ELSE c.dialog,
                                    !.renamed = FALSE]
    BY <1>13 DEF CredentialAnswers, Set
  <2>6. (IF c.dialog = "rename" THEN "none" ELSE c.dialog) \in {"none", "rename", "references"}
    BY <1>1, <2>1
  <2> HIDE DEF c
  <2> QED
    BY <2>2, <2>3, <2>4, <2>5, <2>6
<1> QED
  BY <1>3, <1>4, <1>5, <1>6, <1>9, <1>10, <1>11, <1>12, <1>13
     DEF CredentialsPageNext, CredentialsRun

\* What PresetMatchesCron says of a state of the editor.
Consistent(e) ==
    e.query = "success" =>
        /\ e.mode = "daily" => e.cron = Daily(3, 0)
        /\ e.mode = "12h" => e.cron = Every12h
        /\ e.mode = "6h" => e.cron = Every6h
        /\ e.mode = "custom_daily" /\ e.time # Cleared => DailyTimeFor(e.cron) = e.time

LEMMA PresetAsConsistent ==
    /\ policy \in PolicySet => (PresetMatchesCron <=> Consistent(policy))
    /\ policy' \in PolicySet => (PresetMatchesCron' <=> Consistent(policy'))
<1>1. ASSUME policy \in PolicySet PROVE PresetMatchesCron <=> Consistent(policy)
  <2>1. policy.mode \in {"daily", "12h", "6h", "custom_daily", "advanced"}
    BY <1>1 DEF PolicySet
  <2> QED
    BY <2>1 DEF PresetMatchesCron, Consistent
<1>2. ASSUME policy' \in PolicySet PROVE PresetMatchesCron' <=> Consistent(policy')
  <2>1. policy'.mode \in {"daily", "12h", "6h", "custom_daily", "advanced"}
    BY <1>2 DEF PolicySet
  <2> QED
    BY <2>1 DEF PresetMatchesCron, Consistent
<1> QED
  BY <1>1, <1>2

LEMMA CronTypes ==
    /\ Daily(3, 0) \in CronSet /\ Every12h \in CronSet /\ Every6h \in CronSet
    /\ \A c \in Typed : c \in CronSet
    /\ Cleared \in [hour: Int, minute: Int] /\ Time(4, 0) \in [hour: Int, minute: Int]
    /\ \A t \in Times : t \in [hour: Int, minute: Int]
<1>1. \A h, m \in Int, l \in {"none", "hour", "minute"}, f \in {"daily", "12h", "6h", "other"} :
         Cron(f, h, m, l) \in CronSet
  BY DEF Cron, CronSet
<1>2. Hours \subseteq Int /\ Minutes \subseteq Int
  BY TimesAssumption
<1>3. \A h, m \in Int : Time(h, m) \in [hour: Int, minute: Int]
  BY DEF Time
<1>4. \A c \in Typed : c \in CronSet
  BY <1>1, <1>2 DEF Typed, Every12h, Every6h, Other
<1>5. -1 \in Int /\ 0 \in Int /\ 3 \in Int /\ 4 \in Int
  OBVIOUS
<1>6. \A t \in Times : t \in [hour: Int, minute: Int]
  BY <1>2, <1>3 DEF Times
<1> QED
  BY <1>1, <1>3, <1>4, <1>5, <1>6 DEF Daily, Every12h, Every6h, Cleared

LEMMA DailyTimeType ==
    ASSUME NEW c \in CronSet
    PROVE  DailyTimeFor(c) \in [hour: Int, minute: Int]
<1>1. c.hour \in Int /\ c.minute \in Int
  BY DEF CronSet
<1> QED
  BY <1>1, CronTypes DEF DailyTimeFor, Time

\* A time of day survives being written as a cron expression and read again.
LEMMA TimeRoundTrip ==
    ASSUME NEW t \in [hour: Int, minute: Int]
    PROVE  /\ CronForDailyTime(t) \in CronSet
           /\ t # Cleared => DailyTimeFor(CronForDailyTime(t)) = t
<1>1. t.hour \in Int /\ t.minute \in Int /\ t = [hour |-> t.hour, minute |-> t.minute]
  OBVIOUS
<1>2. CronForDailyTime(t) \in CronSet
  BY <1>1 DEF CronForDailyTime, Daily, Cron, CronSet
<1>3. ASSUME t # Cleared PROVE DailyTimeFor(CronForDailyTime(t)) = t
  <2> DEFINE c == CronForDailyTime(t)
  <2>1. c.form = "daily" /\ c.lead = "none" /\ c.hour = t.hour /\ c.minute = t.minute
    BY <1>3 DEF CronForDailyTime, Daily, Cron
  <2> HIDE DEF c
  <2>2. DailyTimeFor(c) = Time(t.hour, t.minute)
    BY <2>1 DEF DailyTimeFor
  <2> QED
    BY <1>1, <2>2 DEF Time, c
<1> QED
  BY <1>2, <1>3

LEMMA EditorFields ==
    ASSUME NEW c \in CronSet
    PROVE  /\ Editor(c) \in PolicySet /\ Editor(c).cron = c /\ Editor(c).mode = PresetFor(c)
           /\ Editor(c).mode = "custom_daily" => DailyTimeFor(c) = Editor(c).time
<1> DEFINE time == IF DailyTimeFor(c) = Cleared THEN Time(4, 0) ELSE DailyTimeFor(c)
           mode == PresetFor(c)
<1>1. time \in [hour: Int, minute: Int]
  BY CronTypes, DailyTimeType
<1>2. /\ mode \in {"daily", "12h", "6h", "custom_daily", "advanced"}
      /\ mode = "custom_daily" => DailyTimeFor(c) = time
  BY DEF PresetFor
<1>3. Editor(c) = [query |-> "success", fetch |-> FALSE, cron |-> c, mode |-> mode,
                   time |-> time, requests |-> {}]
  BY DEF Editor
<1> HIDE DEF time, mode
<1>4. /\ Editor(c) \in PolicySet /\ Editor(c).cron = c /\ Editor(c).mode = mode
      /\ Editor(c).time = time
  BY <1>1, <1>2, <1>3 DEF PolicySet
<1> QED
  BY <1>2, <1>4 DEF mode

\* An editor that mounts shows what it was given.
LEMMA EditorConsistent ==
    ASSUME NEW c \in CronSet, NEW f \in BOOLEAN, NEW q \in SUBSET {"save", "run"}
    PROVE  LET e == [Editor(c) EXCEPT !.fetch = f, !.requests = q]
           IN  e \in PolicySet /\ Consistent(e)
<1> DEFINE e == [Editor(c) EXCEPT !.fetch = f, !.requests = q]
           mode == PresetFor(c)
<1>1. /\ mode = "daily" => c = Daily(3, 0)
      /\ mode = "12h" => c = Every12h
      /\ mode = "6h" => c = Every6h
  BY DEF PresetFor
<1> HIDE DEF mode
<1>2. /\ e \in PolicySet /\ e.cron = c /\ e.mode = mode
      /\ e.mode = "custom_daily" => DailyTimeFor(c) = e.time
  <2> DEFINE ed == Editor(c)
  <2>1. /\ ed \in PolicySet /\ ed.cron = c /\ ed.mode = mode
        /\ ed.mode = "custom_daily" => DailyTimeFor(c) = ed.time
    BY EditorFields DEF mode
  <2> HIDE DEF ed
  <2>2. LET x == [ed EXCEPT !.fetch = f, !.requests = q]
        IN  x \in PolicySet /\ x.cron = ed.cron /\ x.mode = ed.mode /\ x.time = ed.time
    BY <2>1 DEF PolicySet
  <2> QED
    BY <2>1, <2>2 DEF ed
<1> HIDE DEF e
<1>3. Consistent(e)
  BY <1>1, <1>2 DEF Consistent
<1> QED
  BY <1>2, <1>3 DEF e

LEMMA PolicyMounts ==
    ASSUME PolicyInv, NEW c \in CronSet, NEW f \in BOOLEAN,
           NEW q \in SUBSET {"save", "run"},
           policy' = [Editor(c) EXCEPT !.fetch = f, !.requests = q]
    PROVE  PolicyInv'
<1>1. policy' \in PolicySet /\ Consistent(policy')
  BY EditorConsistent
<1> QED
  BY <1>1, PresetAsConsistent DEF PolicyInv

LEMMA PolicyKept ==
    ASSUME PolicyInv, NEW e \in PolicySet, policy' = e, e.query \in {policy.query, "error"},
           e.mode = policy.mode, e.cron = policy.cron, e.time = policy.time
    PROVE  PolicyInv'
  BY PresetAsConsistent DEF PolicyInv, Consistent

LEMMA NoPolicyInv == NoPolicy \in PolicySet /\ NoPolicy.query = "pending"
<1>1. Editor(Daily(3, 0)) \in PolicySet
  BY CronTypes, EditorFields
<1> QED
  BY <1>1 DEF NoPolicy, PolicySet

LEMMA PolicyStep ==
    ASSUME PolicyInv, PolicyNext
    PROVE  PolicyInv'
<1>1. /\ policy \in PolicySet /\ policy.requests \in SUBSET {"save", "run"}
      /\ policy.fetch \in BOOLEAN /\ policy.time \in [hour: Int, minute: Int]
      /\ policy.cron \in CronSet /\ Consistent(policy)
  BY PresetAsConsistent DEF PolicyInv, PolicySet
<1>2. ASSUME NEW f \in BOOLEAN, NEW q \in SUBSET {"save", "run"},
             NEW s \in {policy.query, "error"},
             policy' = [policy EXCEPT !.query = s, !.fetch = f, !.requests = q]
      PROVE  PolicyInv'
  <2> DEFINE e == [policy EXCEPT !.query = s, !.fetch = f, !.requests = q]
  <2>1. /\ e \in PolicySet /\ e.query = s /\ e.mode = policy.mode
        /\ e.cron = policy.cron /\ e.time = policy.time
    BY <1>1 DEF PolicySet
  <2>2. policy' = e
    BY <1>2
  <2> HIDE DEF e
  <2> QED
    BY <2>1, <2>2, PolicyKept
<1>3. CASE PolicyAnswers
  <2>1. ASSUME NEW c \in Typed, NEW cached \in {FALSE, policy.query = "pending"},
               policy' = Mounts(c, cached)
        PROVE  PolicyInv'
    <3>1. cached \in BOOLEAN /\ c \in CronSet
      BY CronTypes
    <3>2. policy' = [Editor(c) EXCEPT !.fetch = cached, !.requests = policy.requests]
      BY <2>1 DEF Mounts
    <3> QED
      BY <1>1, <3>1, <3>2, PolicyMounts, Zenon
  <2>2. CASE policy' = [policy EXCEPT !.fetch = FALSE]
    <3>1. policy' = [policy EXCEPT !.query = policy.query, !.fetch = FALSE,
                                   !.requests = policy.requests]
      BY <1>1, <2>2 DEF PolicySet
    <3> QED
      BY <1>1, <1>2, <3>1
  <2>3. CASE policy' = [policy EXCEPT !.query = "error", !.fetch = FALSE]
    <3>1. policy' = [policy EXCEPT !.query = "error", !.fetch = FALSE,
                                   !.requests = policy.requests]
      BY <1>1, <2>3 DEF PolicySet
    <3> QED
      BY <1>1, <1>2, <3>1
  <2> QED
    BY <1>3, <2>1, <2>2, <2>3 DEF PolicyAnswers, Put
<1>4. ASSUME NEW r \in {"save", "run"}, PolicyRequestAnswers(r) PROVE PolicyInv'
  <2> DEFINE rest == policy.requests \ {r}
  <2>1. rest \in SUBSET {"save", "run"}
    BY <1>1
  <2>2. CASE policy' = [policy EXCEPT !.requests = rest]
    <3>1. policy' = [policy EXCEPT !.query = policy.query, !.fetch = policy.fetch,
                                   !.requests = rest]
      BY <1>1, <2>2 DEF PolicySet
    <3> QED
      BY <1>1, <1>2, <2>1, <3>1
  <2>3. CASE policy' = [policy EXCEPT !.requests = rest, !.fetch = TRUE]
    <3>1. policy' = [policy EXCEPT !.query = policy.query, !.fetch = TRUE,
                                   !.requests = rest]
      BY <1>1, <2>3 DEF PolicySet
    <3> QED
      BY <1>1, <1>2, <2>1, <3>1
  <2>4. ASSUME NEW c \in Typed, policy' = [Mounts(c, policy.fetch) EXCEPT !.requests = rest]
        PROVE  PolicyInv'
    <3>1. policy' = [Editor(c) EXCEPT !.fetch = policy.fetch, !.requests = rest]
      BY <2>4 DEF Mounts, Editor
    <3> QED
      BY <1>1, <2>1, <3>1, CronTypes, PolicyMounts
  <2> QED
    BY <1>4, <2>2, <2>3, <2>4 DEF PolicyRequestAnswers, Put
<1>5. ASSUME NEW m \in {"daily", "12h", "6h", "custom_daily", "advanced"}, SelectPreset(m)
      PROVE  PolicyInv'
  <2> DEFINE c == CASE m = "daily" -> Daily(3, 0)
                    [] m = "12h" -> Every12h
                    [] m = "6h" -> Every6h
                    [] m = "custom_daily" -> CronForDailyTime(policy.time)
                    [] m = "advanced" -> policy.cron
             e == [policy EXCEPT !.mode = m, !.cron = c]
  <2>1. /\ c \in CronSet
        /\ m = "daily" => c = Daily(3, 0)
        /\ m = "12h" => c = Every12h
        /\ m = "6h" => c = Every6h
        /\ m = "custom_daily" => c = CronForDailyTime(policy.time)
    BY <1>1, CronTypes, TimeRoundTrip
  <2>2. policy' = e
    BY <1>5 DEF SelectPreset, Put
  <2> HIDE DEF c
  <2>3. e \in PolicySet /\ e.mode = m /\ e.cron = c /\ e.time = policy.time
    BY <1>1, <2>1 DEF PolicySet
  <2> HIDE DEF e
  <2>4. Consistent(e)
    BY <1>1, <2>1, <2>3, TimeRoundTrip DEF Consistent
  <2> QED
    BY <2>2, <2>3, <2>4, PresetAsConsistent DEF PolicyInv
<1>6. ASSUME NEW t \in Times \cup {Cleared}, SetDailyTime(t) PROVE PolicyInv'
  <2> DEFINE c == CronForDailyTime(t)
             e == [policy EXCEPT !.time = t, !.cron = c]
  <2>1. t \in [hour: Int, minute: Int]
    BY CronTypes
  <2>2. c \in CronSet /\ (t # Cleared => DailyTimeFor(c) = t)
    BY <2>1, TimeRoundTrip
  <2>3. policy' = e /\ policy.mode = "custom_daily"
    BY <1>6 DEF SetDailyTime, Put
  <2> HIDE DEF c
  <2>4. e \in PolicySet /\ e.mode = policy.mode /\ e.cron = c /\ e.time = t
    BY <1>1, <2>1, <2>2 DEF PolicySet
  <2> HIDE DEF e
  <2>5. Consistent(e)
    BY <2>2, <2>3, <2>4 DEF Consistent
  <2> QED
    BY <2>3, <2>4, <2>5, PresetAsConsistent DEF PolicyInv
<1>7. ASSUME NEW c \in Typed, TypeCron(c) PROVE PolicyInv'
  <2> DEFINE e == [policy EXCEPT !.cron = c]
  <2>1. c \in CronSet
    BY CronTypes
  <2>2. policy' = e /\ policy.mode = "advanced"
    BY <1>7 DEF TypeCron, Put
  <2>3. e \in PolicySet /\ e.mode = policy.mode
    BY <1>1, <2>1 DEF PolicySet
  <2> HIDE DEF e
  <2> QED
    BY <2>2, <2>3, PresetAsConsistent DEF PolicyInv, Consistent
<1>8. ASSUME NEW r \in {"save", "run"}, PolicyRequest(r) PROVE PolicyInv'
  <2>1. PICK q \in SUBSET {"save", "run"} : policy' = [policy EXCEPT !.requests = q]
    BY <1>1, <1>8 DEF PolicyRequest
  <2>2. policy' = [policy EXCEPT !.query = policy.query, !.fetch = policy.fetch, !.requests = q]
    BY <1>1, <2>1 DEF PolicySet
  <2> QED
    BY <1>1, <1>2, <2>2
<1> QED
  BY <1>3, <1>4, <1>5, <1>6, <1>7, <1>8 DEF PolicyNext, PolicyRuns

\* What CertificateInv says of a state of the tab of the files and of the page around it.
ViewerGood(v) ==
    /\ v \in ViewerSet
    /\ v.password => v.dialog # None
    /\ v.selected # None /\ v.content # None => v.content = v.selected

PageGood(c) == c \in CertificateSet /\ c.passwords \subseteq {c.dialog}

LEMMA CertificateParts ==
    /\ CertificateInv <=> PageGood(certificate) /\ files \in FilesSet /\ ViewerGood(viewer)
    /\ CertificateInv' <=> PageGood(certificate') /\ files' \in FilesSet /\ ViewerGood(viewer')
  BY DEF CertificateInv, PasswordsNeedDialog, ContentMatchesTitle, ViewerOpen, ViewerGood,
         PageGood

LEMMA NothingShown ==
    /\ ViewerGood(NoViewer) /\ NoFiles \in FilesSet /\ PageGood(NoCertificate)
<1>1. ViewerGood(NoViewer)
  BY DEF NoViewer, ViewerGood, ViewerSet, Files
<1>2. NoFiles \in FilesSet
  BY DEF NoFiles, FilesSet
<1>3. (CHOOSE c \in Certificates : TRUE) \in Certificates
  BY CertificatesAssumption
<1> DEFINE d == CHOOSE c \in Certificates : TRUE
<1>4. NoCertificate = [query |-> "pending", fetch |-> TRUE, data |-> d, tab |-> "overview",
                       dialog |-> None, passwords |-> {}, named |-> FALSE, op |-> None]
  BY DEF NoCertificate
<1> HIDE DEF d
<1>5. PageGood(NoCertificate)
  BY <1>3, <1>4 DEF PageGood, CertificateSet, d
<1> QED
  BY <1>1, <1>2, <1>5

LEMMA FilesStep ==
    ASSUME ViewerGood(viewer), FilesRun \/ FilesDialogs \/ FilesButtons
    PROVE  ViewerGood(viewer') /\ files' = files
<1> DEFINE Requests == PublicFiles \cup {"reveal", "archive", "public"}
<1>1. viewer \in ViewerSet /\ viewer.requests \in SUBSET Requests
  BY DEF ViewerGood, ViewerSet
<1>2. \A q \in SUBSET Requests : ViewerGood([viewer EXCEPT !.requests = q])
  BY DEF ViewerGood, ViewerSet
<1>3. ASSUME NEW v, ViewerGood(v), NEW d \in {"reveal", "archive"}, v.password = FALSE
      PROVE  ViewerGood(Close(v, d))
  BY <1>3 DEF ViewerGood, ViewerSet, Close
<1>4. ASSUME NEW f \in PublicFiles, LoadAnswers(f) PROVE ViewerGood(viewer') /\ files' = files
  <2> DEFINE v == [viewer EXCEPT !.requests = viewer.requests \ {f}]
  <2>1. ViewerGood(v)
    BY <1>1, <1>2
  <2>2. \/ viewer' = [v EXCEPT !.selected = f, !.content = f]
        \/ viewer' = v
    BY <1>4 DEF LoadAnswers, Show
  <2>3. files' = files
    BY <1>4 DEF LoadAnswers, Show
  <2> HIDE DEF v
  <2>4. ViewerGood([v EXCEPT !.selected = f, !.content = f])
    BY <2>1 DEF ViewerGood, ViewerSet, Files
  <2> QED
    BY <2>1, <2>2, <2>3, <2>4
<1>5. CASE RevealAnswers
  <2> DEFINE v == [viewer EXCEPT !.requests = viewer.requests \ {"reveal"}]
             k == IF hasPrivateKey THEN Key ELSE None
             w == [v EXCEPT !.selected = k, !.content = Key, !.password = FALSE]
  <2>1. ViewerGood(v)
    BY <1>1, <1>2
  <2>2. viewer' = Close(w, "reveal") \/ viewer' = v
    BY <1>5 DEF RevealAnswers, Show
  <2>3. files' = files
    BY <1>5 DEF RevealAnswers, Show
  <2>4. k \in {Key, None}
    OBVIOUS
  <2> HIDE DEF v, k
  <2>5. ViewerGood(w) /\ w.password = FALSE
    BY <2>1, <2>4 DEF ViewerGood, ViewerSet, Files
  <2> HIDE DEF w
  <2> QED
    BY <1>3, <2>1, <2>2, <2>3, <2>5
<1>6. CASE ArchiveAnswers
  <2>1. PICK r \in {"archive", "public"} \cap viewer.requests :
           LET v == [viewer EXCEPT !.requests = viewer.requests \ {r}]
           IN  \/ Show(Close([v EXCEPT !.password = FALSE], "archive"))
               \/ Show(v)
    BY <1>6 DEF ArchiveAnswers
  <2> DEFINE v == [viewer EXCEPT !.requests = viewer.requests \ {r}]
             w == [v EXCEPT !.password = FALSE]
  <2>2. ViewerGood(v)
    BY <1>1, <1>2
  <2>3. (viewer' = Close(w, "archive") \/ viewer' = v) /\ files' = files
    BY <2>1 DEF Show
  <2> HIDE DEF v
  <2>4. ViewerGood(w) /\ w.password = FALSE
    BY <2>2 DEF ViewerGood, ViewerSet
  <2> HIDE DEF w
  <2> QED
    BY <1>3, <2>2, <2>3, <2>4
<1>7. CASE HideKey \/ CloseViewer
  <2>1. viewer' = [viewer EXCEPT !.selected = None, !.content = None] /\ files' = files
    BY <1>7 DEF HideKey, CloseViewer, Show
  <2> QED
    BY <2>1 DEF ViewerGood, ViewerSet
<1>8. ASSUME NEW typed \in BOOLEAN, TypePassword(typed)
      PROVE  ViewerGood(viewer') /\ files' = files
  <2>1. /\ viewer' = [viewer EXCEPT !.password = typed] /\ files' = files
        /\ viewer.dialog # None
    BY <1>8 DEF TypePassword, Show
  <2> QED
    BY <2>1 DEF ViewerGood, ViewerSet
<1>9. CASE CancelPassword
  <2>1. viewer' = [viewer EXCEPT !.dialog = None, !.password = FALSE] /\ files' = files
    BY <1>9 DEF CancelPassword, Show
  <2> QED
    BY <2>1 DEF ViewerGood, ViewerSet
<1>10. ASSUME NEW r \in {"reveal", "archive", "public"}, Request(r)
       PROVE  ViewerGood(viewer') /\ files' = files
  <2>1. /\ viewer' = [viewer EXCEPT !.requests = IF Accepted(session) THEN viewer.requests \cup {r}
                                                 ELSE viewer.requests]
        /\ files' = files
    BY <1>10 DEF Request, Show
  <2>2. (IF Accepted(session) THEN viewer.requests \cup {r} ELSE viewer.requests)
           \in SUBSET Requests
    BY <1>1
  <2> QED
    BY <1>2, <2>1, <2>2
<1>11. ASSUME NEW f \in PublicFiles, Load(f) PROVE ViewerGood(viewer') /\ files' = files
  <2>1. viewer' = [viewer EXCEPT !.requests = viewer.requests \cup {f}] /\ files' = files
    BY <1>11 DEF Load, Show
  <2> QED
    BY <1>1, <1>2, <2>1
<1>12. ASSUME NEW d \in {"reveal", "archive"}, AskPassword(d)
       PROVE  ViewerGood(viewer') /\ files' = files
  <2>1. viewer' = [viewer EXCEPT !.dialog = d] /\ files' = files
    BY <1>12 DEF AskPassword, Show
  <2>2. d # None
    BY DEF None
  <2> QED
    BY <2>1, <2>2 DEF ViewerGood, ViewerSet
<1> QED
  BY <1>4, <1>5, <1>6, <1>7, <1>8, <1>9, <1>10, <1>11, <1>12
     DEF FilesRun, FilesDialogs, FilesButtons

LEMMA DialogCloses ==
    ASSUME NEW c, PageGood(c), NEW d
    PROVE  PageGood(CloseDialog(c, d))
<1>1. c \in CertificateSet /\ c.passwords \subseteq {c.dialog} /\ c.passwords \in SUBSET Dialogs
      /\ c.named \in BOOLEAN /\ c.dialog \in Dialogs \cup {None}
  BY DEF PageGood, CertificateSet
<1> DEFINE dialog == IF c.dialog = d THEN None ELSE c.dialog
           passwords == c.passwords \ {d}
           named == c.named /\ d # "delete"
           e == [c EXCEPT !.dialog = dialog, !.passwords = passwords, !.named = named]
<1>2. /\ dialog \in Dialogs \cup {None} /\ passwords \in SUBSET Dialogs /\ named \in BOOLEAN
      /\ passwords \subseteq {dialog}
  BY <1>1
<1>3. CloseDialog(c, d) = e
  BY DEF CloseDialog
<1> HIDE DEF dialog, passwords, named
<1>4. e \in CertificateSet /\ e.dialog = dialog /\ e.passwords = passwords
  BY <1>1, <1>2 DEF CertificateSet
<1> HIDE DEF e
<1> QED
  BY <1>2, <1>3, <1>4 DEF PageGood

\* A step that leaves the dialogs of the page alone.
LEMMA PageKept ==
    ASSUME NEW c \in CertificateSet, PageGood(certificate),
           c.dialog = certificate.dialog, c.passwords = certificate.passwords
    PROVE  PageGood(c)
  BY DEF PageGood

LEMMA CertificateStep ==
    ASSUME CertificateInv, CertificateNext
    PROVE  CertificateInv'
<1> DEFINE old == certificate
           Kept == files' = files /\ viewer' = viewer
<1>1. /\ PageGood(old) /\ files \in FilesSet /\ ViewerGood(viewer)
      /\ old \in CertificateSet /\ old.passwords \subseteq {old.dialog}
      /\ old.passwords \in SUBSET Dialogs /\ old.dialog \in Dialogs \cup {None}
      /\ old.op \in Operations \cup {None}
  BY CertificateParts DEF PageGood, CertificateSet
<1>2. ASSUME PageGood(certificate'), files' \in FilesSet, ViewerGood(viewer')
      PROVE  CertificateInv'
  BY <1>2, CertificateParts
<1>3. ASSUME NEW o \in Operations \cup {None} PROVE PageGood([old EXCEPT !.op = o])
  <2> DEFINE c == [old EXCEPT !.op = o]
  <2>1. c \in CertificateSet /\ c.dialog = old.dialog /\ c.passwords = old.passwords
    BY <1>1 DEF CertificateSet
  <2> HIDE DEF c
  <2>2. PageGood(c)
    BY <1>1, <2>1, PageKept
  <2> QED
    BY <2>2 DEF c
<1>4. CASE CertificateAnswers
  <2>1. ASSUME NEW c \in Certificates, NEW cached \in {FALSE, old.query = "pending"},
               Page([old EXCEPT !.query = "success", !.data = c, !.fetch = cached])
        PROVE  CertificateInv'
    <3> DEFINE d == [old EXCEPT !.query = "success", !.data = c, !.fetch = cached]
    <3>1. cached \in BOOLEAN
      OBVIOUS
    <3>2. d \in CertificateSet /\ d.dialog = old.dialog /\ d.passwords = old.passwords
      BY <1>1, <3>1 DEF CertificateSet
    <3>3. certificate' = d /\ Kept
      BY <2>1 DEF Page
    <3> HIDE DEF d
    <3>4. PageGood(d)
      BY <1>1, <3>2, PageKept
    <3> QED
      BY <1>1, <1>2, <3>3, <3>4
  <2>2. ASSUME Leave([old EXCEPT !.query = "error", !.fetch = FALSE])
        PROVE  CertificateInv'
    <3> DEFINE d == [old EXCEPT !.query = "error", !.fetch = FALSE]
    <3>1. d \in CertificateSet /\ d.dialog = old.dialog /\ d.passwords = old.passwords
      BY <1>1 DEF CertificateSet
    <3>2. certificate' = d /\ files' = files /\ viewer' = NoViewer
      BY <2>2 DEF Leave
    <3> HIDE DEF d
    <3>3. PageGood(d)
      BY <1>1, <3>1, PageKept
    <3> QED
      BY <1>1, <1>2, <3>2, <3>3, NothingShown
  <2> QED
    BY <1>4, <2>1, <2>2 DEF CertificateAnswers
<1>5. ASSUME NEW t \in {"overview", "files", "settings"}, SetTab(t) PROVE CertificateInv'
  <2> DEFINE d == [old EXCEPT !.tab = t]
             f == files.fetch \/ t = "files"
             g == [files EXCEPT !.fetch = f]
  <2>1. d \in CertificateSet /\ d.dialog = old.dialog /\ d.passwords = old.passwords
    BY <1>1 DEF CertificateSet
  <2>2. certificate' = d /\ viewer' = NoViewer /\ files' = g
    BY <1>5 DEF SetTab
  <2>3. f \in BOOLEAN
    BY <1>1 DEF FilesSet
  <2> HIDE DEF f
  <2>4. g \in FilesSet
    BY <1>1, <2>3 DEF FilesSet
  <2> HIDE DEF d, g
  <2>5. PageGood(d)
    BY <1>1, <2>1, PageKept
  <2> QED
    BY <1>2, <2>2, <2>4, <2>5, NothingShown
<1>6. ASSUME NEW d \in Dialogs, OpenDialog(d) PROVE CertificateInv'
  <2> DEFINE c == [old EXCEPT !.dialog = d]
  <2>1. certificate' = c /\ Kept /\ old.dialog = None
    BY <1>6 DEF OpenDialog, Page, Free
  <2>2. old.passwords = {}
    BY <1>1, <2>1 DEF Dialogs, None
  <2>3. c \in CertificateSet /\ c.passwords = old.passwords
    BY <1>1 DEF CertificateSet
  <2> HIDE DEF c
  <2>4. PageGood(c)
    BY <2>2, <2>3 DEF PageGood
  <2> QED
    BY <1>1, <1>2, <2>1, <2>4
<1>7. CASE Type
  <2>1. old.dialog \in Dialogs
    BY <1>1, <1>7 DEF Type
  <2>2. ASSUME NEW p \in {{}, {old.dialog}},
               Page([old EXCEPT !.passwords = (old.passwords \ {old.dialog}) \cup p])
        PROVE  CertificateInv'
    <3> DEFINE q == (old.passwords \ {old.dialog}) \cup p
               c == [old EXCEPT !.passwords = q]
    <3>1. certificate' = c /\ Kept
      BY <2>2 DEF Page
    <3>2. q \in SUBSET Dialogs /\ q \subseteq {old.dialog}
      BY <1>1, <2>1
    <3> HIDE DEF q
    <3>3. c \in CertificateSet /\ c.passwords = q /\ c.dialog = old.dialog
      BY <1>1, <3>2 DEF CertificateSet
    <3> HIDE DEF c
    <3>4. PageGood(c)
      BY <3>2, <3>3 DEF PageGood
    <3> QED
      BY <1>1, <1>2, <3>1, <3>4
  <2>3. ASSUME NEW n \in BOOLEAN, Page([old EXCEPT !.named = n])
        PROVE  CertificateInv'
    <3> DEFINE c == [old EXCEPT !.named = n]
    <3>1. c \in CertificateSet /\ c.dialog = old.dialog /\ c.passwords = old.passwords
      BY <1>1 DEF CertificateSet
    <3>2. certificate' = c /\ Kept
      BY <2>3 DEF Page
    <3> HIDE DEF c
    <3>3. PageGood(c)
      BY <1>1, <3>1, PageKept
    <3> QED
      BY <1>1, <1>2, <3>2, <3>3
  <2> QED
    BY <1>7, <2>2, <2>3 DEF Type
<1>8. CASE Cancel
  BY <1>1, <1>2, <1>8, DialogCloses DEF Cancel, Page
<1>9. ASSUME NEW o \in Operations \ {"force"}, Operate(o) PROVE CertificateInv'
  <2>1. PICK q \in Operations \cup {None} : certificate' = [old EXCEPT !.op = q] /\ Kept
    BY <1>9 DEF Operate, Page
  <2> QED
    BY <1>1, <1>2, <1>3, <2>1
<1>10. CASE ForceRenew
  <2>1. PICK q \in Operations \cup {None} : certificate' = [old EXCEPT !.op = q] /\ Kept
    BY <1>10 DEF ForceRenew, Page, Operations
  <2> QED
    BY <1>1, <1>2, <1>3, <2>1
<1>11. CASE OperationAnswers
  <2> DEFINE done == [old EXCEPT !.op = None]
  <2>1. PageGood(done)
    BY <1>3
  <2>2. CASE Page(done)
    BY <1>1, <1>2, <2>1, <2>2 DEF Page
  <2>3. ASSUME NEW c \in Certificates,
               Page(CloseDialog([done EXCEPT !.data = c, !.query = "success"], old.op))
        PROVE  CertificateInv'
    <3> HIDE DEF done
    <3> DEFINE d == [done EXCEPT !.data = c, !.query = "success"]
    <3>1. d \in CertificateSet /\ d.dialog = done.dialog /\ d.passwords = done.passwords
      BY <2>1 DEF PageGood, CertificateSet
    <3>2. certificate' = CloseDialog(d, old.op) /\ Kept
      BY <2>3 DEF Page
    <3> HIDE DEF d
    <3>3. PageGood(d)
      BY <2>1, <3>1 DEF PageGood
    <3> QED
      BY <1>1, <1>2, <3>2, <3>3, DialogCloses
  <2> QED
    BY <1>11, <2>2, <2>3 DEF OperationAnswers
<1>12. CASE DeleteCertificate \/ RemoveFails
  BY <1>1, <1>2, <1>12 DEF DeleteCertificate, RemoveFails
<1>13. CASE FilesAnswer /\ certificate' = certificate
  <2>1. viewer' = viewer
    BY <1>13 DEF FilesAnswer
  <2>2. files' \in FilesSet
    <3>1. ASSUME NEW l \in Listings, files' = [list |-> l, status |-> "success", fetch |-> FALSE]
          PROVE  files' \in FilesSet
      <4>1. l \in SUBSET Files
        BY FilesAssumption
      <4> QED
        BY <3>1, <4>1 DEF FilesSet
    <3>2. CASE files' = [files EXCEPT !.status = "error", !.fetch = FALSE]
      BY <1>1, <3>2 DEF FilesSet
    <3> QED
      BY <1>13, <3>1, <3>2 DEF FilesAnswer
  <2> QED
    BY <1>1, <1>2, <1>13, <2>1, <2>2
<1>14. CASE FilesTab /\ certificate' = certificate
  BY <1>1, <1>2, <1>14, FilesStep DEF FilesTab
<1> QED
  BY <1>4, <1>5, <1>6, <1>7, <1>8, <1>9, <1>10, <1>11, <1>12, <1>13, <1>14
     DEF CertificateNext

-----------------------------------------------------------------------------
(* The steps of the shell *)

UserSet ==
    [data: {"undefined", "null", "user"}, error: BOOLEAN, fetch: {"idle", "null", "user"}]

\* What Mount and SetQueryData do to a query, field by field.
LEMMA MountFields ==
    ASSUME NEW q \in UserSet, NEW valid \in BOOLEAN
    PROVE  LET m == Mount(q, valid)
           IN  /\ m \in UserSet /\ m.data = q.data
               /\ q.fetch # "idle" => m = q
               /\ q.fetch = "idle" => /\ m.fetch = GetCurrentUser(valid) /\ m.fetch # "idle"
                                      /\ m.error <=> q.error /\ q.data # "undefined"
<1> DEFINE g == GetCurrentUser(valid)
           x == q.error /\ q.data # "undefined"
           m == [q EXCEPT !.fetch = g, !.error = x]
<1>1. g \in {"null", "user"} /\ x \in BOOLEAN
  BY DEF GetCurrentUser, UserSet
<1>2. Mount(q, valid) = IF q.fetch = "idle" THEN m ELSE q
  BY DEF Mount
<1> HIDE DEF g, x
<1>3. m \in UserSet /\ m.data = q.data /\ m.fetch = g /\ m.error = x
  BY <1>1 DEF UserSet
<1> HIDE DEF m
<1> QED
  BY <1>1, <1>2, <1>3 DEF g, x

LEMMA SetFields ==
    ASSUME NEW q \in UserSet, NEW value \in {"null", "user"}
    PROVE  LET m == SetQueryData(q, value)
           IN  m \in UserSet /\ m.data = value /\ m.error = FALSE /\ m.fetch = q.fetch
  BY DEF SetQueryData, UserSet

\* The shell's part of the invariant, with the fields of the query that it reads.
LEMMA ShellFacts ==
    ASSUME ShellInv
    PROVE  /\ session \in BOOLEAN /\ expired \in BOOLEAN
           /\ csrfToken \in {"unset", "good", "stale"}
           /\ meta \in {"pending", "retrying", "ok", "error"} /\ route \in Pages \cup {"login"}
           /\ user \in UserSet /\ user.data \in {"undefined", "null", "user"}
           /\ user.error \in BOOLEAN /\ user.fetch \in {"idle", "null", "user"}
           /\ signIn \in Pending /\ signOut \in Pending
           /\ creating \in Pending /\ removing \in Pending
           /\ NoQuery.data = "undefined" /\ NoQuery.error = FALSE /\ NoQuery.fetch = "idle"
           /\ NoQuery \in UserSet /\ "login" \notin Pages
  BY DEF ShellInv, AppTypeOK, UserSet, NoQuery, Pages

\* The query and the route as they were; only requests and the token change.
LEMMA ShellSame ==
    ASSUME ShellInv, session' = session, meta' = meta, route' = route, user' = user,
           expired' = expired, csrfToken' \in {"unset", "good", "stale"},
           signIn' \in Pending, signOut' \in Pending, creating' \in Pending,
           removing' \in Pending,
           meta # "ok" => signIn' = "idle",
           user.data = "undefined" => signOut' = "idle" /\ creating' = "idle"
                                      /\ removing' = "idle"
    PROVE  ShellInv'
<1>1. AppTypeOK'
  BY DEF ShellInv, AppTypeOK
<1>2. NothingSent'
  BY DEF ShellInv, NothingSent
<1>3. ReadAgrees' /\ LateAnswer' /\ LeavesLogin'
  BY DEF ShellInv, ReadAgrees, LateAnswer, LeavesLogin, Redirects, IsPending, AtLogin
<1> QED
  BY <1>1, <1>2, <1>3 DEF ShellInv

\* The route changes; what is sent does not, but for answers.
LEMMA ShellGoto ==
    ASSUME ShellInv, meta = "ok", NEW r \in Pages \cup {"login"}, Goto(r, user, session),
           \/ (route = "login") = (r = "login")
           \/ Redirects
           \/ route = "login" /\ user.data # "undefined",
           session' = session, meta' = meta, expired' = expired, csrfToken' = csrfToken,
           signIn' = signIn, signOut' = signOut,
           creating' \in {creating, "idle"}, removing' \in {removing, "idle"}
    PROVE  ShellInv'
<1>1. route' = r
  BY DEF Goto
<1>2. CASE (route = "login") = (r = "login")
  <2>1. user' = user
    BY <1>2 DEF Goto
  <2>2. AppTypeOK' /\ creating' \in Pending /\ removing' \in Pending
    BY <1>1, <2>1 DEF ShellInv, AppTypeOK, Pending
  <2>3. NothingSent'
    BY <2>1 DEF ShellInv, NothingSent
  <2>4. ReadAgrees' /\ LateAnswer' /\ LeavesLogin'
    BY <1>1, <1>2, <2>1
       DEF ShellInv, ReadAgrees, LateAnswer, LeavesLogin, Redirects, IsPending, AtLogin
  <2> QED
    BY <2>2, <2>3, <2>4 DEF ShellInv
<1>3. CASE (route = "login") # (r = "login")
  <2>1. user' = Mount(user, session)
    BY <1>3 DEF Goto
  <2>2. /\ user' \in UserSet /\ user'.data = user.data
        /\ user.fetch # "idle" => user' = user
        /\ user.fetch = "idle" => /\ user'.fetch = GetCurrentUser(session)
                                  /\ user'.fetch # "idle"
    BY <2>1, ShellFacts, MountFields
  <2>3. user'.fetch # "idle"
    BY <2>2
  <2>4. AppTypeOK' /\ creating' \in Pending /\ removing' \in Pending
    BY <1>1, <2>2 DEF ShellInv, AppTypeOK, Pending, UserSet
  <2>5. NothingSent'
    BY <2>2 DEF ShellInv, NothingSent
  <2>6. ReadAgrees'
    BY <2>3 DEF ReadAgrees
  <2>7. LateAnswer'
    <3>1. CASE user.fetch = "idle"
      BY <2>2, <3>1 DEF LateAnswer
    <3>2. CASE user.fetch # "idle"
      <4>1. user' = user
        BY <2>2, <3>2
      <4>2. CASE route = "login"
        BY <1>1, <1>3, <3>2, <4>1, <4>2, ShellFacts
           DEF ShellInv, LateAnswer, LeavesLogin, Redirects, IsPending, AtLogin
      <4>3. CASE route # "login"
        BY <1>1, <1>3, <3>2, <4>1, <4>3, ShellFacts
           DEF ShellInv, LateAnswer, LeavesLogin, Redirects, IsPending, AtLogin
      <4> QED
        BY <4>2, <4>3
    <3> QED
      BY <3>1, <3>2
  <2>8. LeavesLogin'
    BY <1>1, <1>3, <2>2 DEF LeavesLogin, Redirects
  <2> QED
    BY <2>4, <2>5, <2>6, <2>7, <2>8 DEF ShellInv
<1> QED
  BY <1>2, <1>3

\* setQueryData and the navigation of a login or a sign-out that was answered.
LEMMA ShellSets ==
    ASSUME ShellInv, meta = "ok", NEW value \in {"null", "user"},
           NEW r \in {"home", "login"},
           \/ value = "user" /\ r = "home" /\ session' = TRUE
           \/ value = "null" /\ r = "login" /\ session' = FALSE,
           Goto(r, SetQueryData(user, value), session'),
           meta' = meta, expired' \in BOOLEAN, csrfToken' = csrfToken,
           signIn' \in Pending, signOut' \in Pending,
           creating' = creating, removing' = removing
    PROVE  ShellInv'
<1> DEFINE q == SetQueryData(user, value)
<1>1. q \in UserSet /\ q.data = value /\ q.error = FALSE /\ q.fetch = user.fetch
  BY ShellFacts, SetFields
<1>2. route' = r /\ user' = IF (route = "login") # (r = "login") THEN Mount(q, session') ELSE q
  BY DEF Goto
<1>3. session' \in BOOLEAN
  OBVIOUS
<1> HIDE DEF q
<1>4. /\ user' \in UserSet /\ user'.data = value
      /\ user'.fetch = "idle" => user.fetch = "idle"
      /\ user'.error \in BOOLEAN
  BY <1>1, <1>2, <1>3, MountFields DEF UserSet
<1>5. AppTypeOK' /\ creating' \in Pending /\ removing' \in Pending
  BY <1>2, <1>3, <1>4 DEF ShellInv, AppTypeOK, Pages, UserSet
<1>6. NothingSent'
  BY <1>4 DEF NothingSent
<1>7. user'.data = GetCurrentUser(session') /\ ~Redirects'
  BY <1>2, <1>4 DEF Redirects, IsPending, GetCurrentUser
<1>8. ReadAgrees' /\ LateAnswer' /\ LeavesLogin'
  <2>1. user'.fetch \in {"idle", "null", "user"}
    BY <1>4 DEF UserSet
  <2>2. AtLogin' <=> value = "null"
    BY <1>2, <1>7 DEF AtLogin
  <2>3. ReadAgrees'
    BY <1>4, <1>7 DEF ReadAgrees
  <2>4. GetCurrentUser(session') = value
    BY <1>4, <1>7
  <2>5. LateAnswer'
    <3> SUFFICES ASSUME user'.fetch # "idle"
                 PROVE  (\/ user.fetch = GetCurrentUser(session)
                         \/ user.fetch = "user" /\ AtLogin
                         \/ user.fetch = "null" /\ ~AtLogin)'
      BY DEF LateAnswer
    <3>1. CASE user'.fetch = value
      BY <2>4, <3>1
    <3>2. CASE user'.fetch # value
      BY <2>1, <2>2, <3>2
    <3> QED
      BY <3>1, <3>2
  <2>6. LeavesLogin'
    BY <1>2, <1>4 DEF LeavesLogin
  <2> QED
    BY <2>3, <2>5, <2>6
<1> QED
  BY <1>5, <1>6, <1>8 DEF ShellInv

\* The answer to getCurrentUser: an answer that is out of date leads to a redirect.
LEMMA ShellAnswered ==
    ASSUME ShellInv, UserAnswers, creating' = creating, removing' = removing
    PROVE  ShellInv'
<1>1. /\ user.fetch # "idle" /\ ~Redirects
      /\ session' = session /\ csrfToken' = csrfToken /\ meta' = meta /\ route' = route
      /\ signIn' = signIn /\ signOut' = signOut /\ expired' = expired
  BY DEF UserAnswers
<1>2. meta = "ok"
  BY <1>1, ShellFacts DEF ShellInv, NothingSent
<1>3. CASE user' = [data |-> user.fetch, error |-> FALSE, fetch |-> "idle"]
  <2>1. user' \in UserSet /\ user'.data = user.fetch /\ user'.error = FALSE
        /\ user'.fetch = "idle" /\ user'.data # "undefined"
    BY <1>1, <1>3, ShellFacts DEF UserSet
  <2>2. AppTypeOK' /\ creating' \in Pending /\ removing' \in Pending
    BY <1>1, <2>1 DEF ShellInv, AppTypeOK, UserSet
  <2>3. NothingSent' /\ LateAnswer' /\ LeavesLogin'
    BY <1>1, <1>2, <2>1 DEF NothingSent, LateAnswer, LeavesLogin
  <2>4. ReadAgrees'
    <3>1. SUFFICES ASSUME ~expired, ~Redirects' PROVE user'.data = GetCurrentUser(session)
      BY <1>1, <2>1 DEF ReadAgrees
    <3>2. \/ user.fetch = GetCurrentUser(session)
          \/ user.fetch = "user" /\ AtLogin
          \/ user.fetch = "null" /\ ~AtLogin
      BY <1>1, <1>2, <3>1 DEF ShellInv, LateAnswer
    <3> QED
      BY <1>1, <1>2, <2>1, <3>1, <3>2 DEF AtLogin, Redirects, IsPending
  <2> QED
    BY <2>2, <2>3, <2>4 DEF ShellInv
<1>4. CASE user' = [user EXCEPT !.error = TRUE, !.fetch = "idle"]
  <2>1. user' \in UserSet /\ user'.data = user.data /\ user'.error = TRUE /\ user'.fetch = "idle"
    BY <1>4, ShellFacts DEF UserSet
  <2>2. AppTypeOK' /\ creating' \in Pending /\ removing' \in Pending
    BY <1>1, <2>1 DEF ShellInv, AppTypeOK, UserSet
  <2>3. NothingSent'
    BY <1>1, <1>2, <2>1 DEF ShellInv, NothingSent
  <2>4. ReadAgrees' /\ LateAnswer' /\ LeavesLogin'
    BY <2>1 DEF ReadAgrees, LateAnswer, LeavesLogin
  <2> QED
    BY <2>2, <2>3, <2>4 DEF ShellInv
<1> QED
  BY <1>3, <1>4 DEF UserAnswers

LEMMA ShellMeta ==
    ASSUME ShellInv, MetaAnswers, creating' = creating, removing' = removing
    PROVE  ShellInv'
<1>1. /\ meta \in {"pending", "retrying"}
      /\ session' = session /\ csrfToken' = csrfToken /\ route' = route
      /\ signIn' = signIn /\ signOut' = signOut /\ expired' = expired
  BY DEF MetaAnswers
<1>2. /\ user = NoQuery /\ signIn = "idle" /\ signOut = "idle"
      /\ creating = "idle" /\ removing = "idle"
  BY <1>1, ShellFacts DEF ShellInv, NothingSent
<1>3. CASE meta' = "ok" /\ user' = Mount(user, session)
  <2>1. /\ user' \in UserSet /\ user'.data = "undefined"
        /\ user'.fetch = GetCurrentUser(session) /\ user'.fetch # "idle"
    BY <1>2, <1>3, ShellFacts, MountFields
  <2>2. AppTypeOK' /\ creating' \in Pending /\ removing' \in Pending
    BY <1>1, <1>3, <2>1 DEF ShellInv, AppTypeOK, UserSet
  <2>3. NothingSent'
    BY <1>1, <1>2, <1>3 DEF NothingSent
  <2>4. ReadAgrees' /\ LateAnswer' /\ LeavesLogin'
    BY <1>1, <2>1 DEF ReadAgrees, LateAnswer, LeavesLogin
  <2> QED
    BY <2>2, <2>3, <2>4 DEF ShellInv
<1>4. CASE meta' \in {"retrying", "error"} /\ user' = user
  <2>1. AppTypeOK' /\ creating' \in Pending /\ removing' \in Pending
    BY <1>1, <1>4 DEF ShellInv, AppTypeOK
  <2>2. NothingSent'
    BY <1>1, <1>2, <1>4 DEF NothingSent
  <2>3. ReadAgrees' /\ LateAnswer' /\ LeavesLogin'
    BY <1>4 DEF ReadAgrees, LateAnswer, LeavesLogin
  <2> QED
    BY <2>1, <2>2, <2>3 DEF ShellInv
<1> QED
  BY <1>3, <1>4 DEF MetaAnswers

LEMMA TokenType ==
    ASSUME ShellInv, GetCSRFToken
    PROVE  csrfToken' \in {"unset", "good", "stale"}
  BY ShellFacts DEF GetCSRFToken

\* The shell's own steps.
LEMMA ShellStep ==
    ASSUME ShellInv, AppNext, creating' = creating, removing' = removing
    PROVE  ShellInv'
<1>1. CASE MetaAnswers
  BY <1>1, ShellMeta
<1>2. CASE UserAnswers
  BY <1>2, ShellAnswered
<1>3. CASE LoginAnswers
  <2>1. signIn = "sent" /\ signIn' = "idle" /\ csrfToken' = csrfToken /\ meta' = meta
        /\ signOut' = signOut
    BY <1>3 DEF LoginAnswers
  <2>2. meta = "ok"
    BY <2>1 DEF ShellInv, NothingSent
  <2>3. CASE session' = TRUE /\ expired' = FALSE
             /\ Goto("home", SetQueryData(user, "user"), TRUE)
    <3>1. session' = TRUE /\ Goto("home", SetQueryData(user, "user"), session')
      BY <2>3
    <3>2. signIn' \in Pending /\ signOut' \in Pending /\ expired' \in BOOLEAN
      BY <2>1, <2>3, ShellFacts DEF Pending
    <3> QED
      BY <2>1, <2>2, <3>1, <3>2, ShellSets
  <2>4. CASE UNCHANGED <<session, route, user, expired>>
    BY <2>1, <2>2, <2>4, ShellSame, ShellFacts DEF Pending, ShellInv, NothingSent
  <2> QED
    BY <1>3, <2>3, <2>4 DEF LoginAnswers
<1>4. CASE SignOutAnswers
  <2>1. signOut = "sent" /\ signOut' = "idle" /\ csrfToken' = csrfToken /\ meta' = meta
        /\ signIn' = signIn /\ expired' = expired
    BY <1>4 DEF SignOutAnswers
  <2>2. meta = "ok"
    BY <2>1, ShellFacts DEF ShellInv, NothingSent
  <2>3. CASE session' = FALSE /\ Goto("login", SetQueryData(user, "null"), FALSE)
    <3>1. session' = FALSE /\ Goto("login", SetQueryData(user, "null"), session')
      BY <2>3
    <3>2. signIn' \in Pending /\ signOut' \in Pending /\ expired' \in BOOLEAN
      BY <2>1, ShellFacts DEF Pending
    <3> QED
      BY <2>1, <2>2, <3>1, <3>2, ShellSets
  <2>4. CASE UNCHANGED <<session, route, user>>
    BY <2>1, <2>2, <2>4, ShellSame, ShellFacts DEF Pending, ShellInv, NothingSent
  <2> QED
    BY <1>4, <2>3, <2>4 DEF SignOutAnswers
<1>5. CASE LoginRoute
  <2>1. /\ Redirects /\ meta = "ok" /\ Goto("home", user, session) /\ "home" \in Pages
        /\ UNCHANGED <<session, csrfToken, meta, signIn, signOut, expired>>
    BY <1>5 DEF LoginRoute, Redirects, Pages
  <2> QED
    BY <2>1, ShellGoto
<1>6. CASE AuthenticatedArea
  <2>1. /\ Redirects /\ meta = "ok" /\ Goto("login", user, session)
        /\ UNCHANGED <<session, csrfToken, meta, signIn, signOut, expired>>
    BY <1>6 DEF AuthenticatedArea, Redirects
  <2> QED
    BY <2>1, ShellGoto
<1>7. CASE Login
  <2>1. /\ meta = "ok" /\ signIn' \in Pending /\ csrfToken' \in {"unset", "good", "stale"}
        /\ UNCHANGED <<session, meta, route, user, signOut, expired>>
    BY <1>7, TokenType DEF Login, LoginShown, Write, Pending
  <2> QED
    BY <2>1, ShellSame, ShellFacts DEF ShellInv, NothingSent
<1>8. CASE SignOut
  <2>1. /\ meta = "ok" /\ user.data = "user" /\ signOut' \in Pending
        /\ csrfToken' \in {"unset", "good", "stale"}
        /\ UNCHANGED <<session, meta, route, user, signIn, expired>>
    BY <1>8, TokenType DEF SignOut, Area, Write, Pending
  <2> QED
    BY <2>1, ShellSame, ShellFacts
<1>9. ASSUME NEW p \in OpenPages, Navigate(p) PROVE ShellInv'
  <2>1. p \in Pages /\ p # "login"
    BY OpenPagesAssumption, ShellFacts
  <2>2. /\ meta = "ok" /\ route # "login" /\ Goto(p, user, session)
        /\ UNCHANGED <<session, csrfToken, meta, signIn, signOut, expired>>
    BY <1>9 DEF Navigate, Area
  <2> QED
    BY <2>1, <2>2, ShellGoto
<1>10. CASE SessionExpires
  <2>1. /\ session' = FALSE /\ expired' = TRUE
        /\ UNCHANGED <<csrfToken, meta, route, user, signIn, signOut>>
    BY <1>10 DEF SessionExpires
  <2>2. AppTypeOK' /\ NothingSent' /\ LeavesLogin'
    BY <2>1 DEF ShellInv, AppTypeOK, NothingSent, LeavesLogin
  <2>3. ReadAgrees' /\ LateAnswer'
    BY <2>1 DEF ShellInv, ReadAgrees, LateAnswer
  <2> QED
    BY <2>2, <2>3 DEF ShellInv
<1>11. CASE CsrfExpires
  <2>1. /\ csrfToken' = "stale"
        /\ UNCHANGED <<session, meta, route, user, signIn, signOut, expired>>
    BY <1>11 DEF CsrfExpires
  <2> QED
    BY <2>1, ShellSame, ShellFacts DEF ShellInv, NothingSent
<1> QED
  BY <1>1, <1>2, <1>3, <1>4, <1>5, <1>6, <1>7, <1>8, <1>9, <1>10, <1>11 DEF AppNext

\* A page's step leaves the shell alone but for the token.
LEMMA ShellAlone ==
    ASSUME ShellInv, Local \/ Sends, creating' \in Pending, removing' \in Pending,
           user.data = "undefined" => creating' = "idle" /\ removing' = "idle"
    PROVE  ShellInv'
<1>1. csrfToken' \in {"unset", "good", "stale"}
  BY ShellFacts, TokenType DEF Local, appVars, Sends
<1>2. /\ session' = session /\ meta' = meta /\ route' = route /\ user' = user
      /\ expired' = expired /\ signIn' = signIn /\ signOut' = signOut
  BY DEF Local, appVars, Sends
<1> QED
  BY <1>1, <1>2, ShellSame, ShellFacts DEF ShellInv, NothingSent

LEMMA CreateAlone ==
    ASSUME ShellInv, CreateNext
    PROVE  /\ Local \/ Sends
           /\ creating' \in Pending
           /\ user.data = "undefined" => creating' = "idle"
<1>1. CASE Edit \/ Advance \/ Back
  <2>1. Local /\ creating' = creating
    BY <1>1 DEF Edit, Advance, Back, Fill
  <2> QED
    BY <2>1, ShellFacts DEF ShellInv, NothingSent
<1>2. CASE Submit
  <2>1. Sends /\ creating' = Write(session) /\ user.data = "user"
    BY <1>2 DEF Submit, On, Area
  <2> QED
    BY <2>1 DEF Write, Pending
<1> QED
  BY <1>1, <1>2 DEF CreateNext

LEMMA CertificateAlone ==
    ASSUME ShellInv, CertificateNext
    PROVE  /\ Local \/ Sends
           /\ removing' \in Pending
           /\ user.data = "undefined" => removing' = "idle"
<1>1. removing \in Pending /\ (user.data = "undefined" => removing = "idle")
  BY ShellFacts DEF ShellInv, NothingSent
<1>2. CASE CertificateAnswers
  BY <1>1, <1>2 DEF CertificateAnswers, Page, Leave
<1>3. ASSUME NEW t \in {"overview", "files", "settings"}, SetTab(t)
      PROVE  Local /\ removing' = removing
  BY <1>3 DEF SetTab
<1>4. ASSUME NEW d \in Dialogs, OpenDialog(d) PROVE Local /\ removing' = removing
  BY <1>4 DEF OpenDialog, Page
<1>5. CASE Type \/ Cancel
  BY <1>1, <1>5 DEF Type, Cancel, Page
<1>6. ASSUME NEW o \in Operations \ {"force"}, Operate(o) PROVE Sends /\ removing' = removing
  BY <1>6 DEF Operate, Page
<1>7. CASE ForceRenew \/ OperationAnswers
  BY <1>1, <1>7 DEF ForceRenew, OperationAnswers, Page
<1>8. CASE DeleteCertificate
  <2>1. Sends /\ removing' = Write(session) /\ user.data = "user"
    BY <1>8 DEF DeleteCertificate, Shown, On, Area
  <2> QED
    BY <2>1 DEF Write, Pending
<1>9. CASE RemoveFails
  BY <1>9 DEF RemoveFails, Pending
<1>10. CASE (FilesAnswer \/ FilesTab) /\ removing' = removing
  <2>1. CASE FilesAnswer
    BY <1>1, <1>10, <2>1 DEF FilesAnswer
  <2>2. CASE FilesRun
    BY <1>1, <1>10, <2>2 DEF FilesRun, LoadAnswers, RevealAnswers, ArchiveAnswers, HideKey
  <2>3. CASE FilesDialogs
    BY <1>1, <1>10, <2>3
       DEF FilesDialogs, TypePassword, CancelPassword, CloseViewer, Request
  <2>4. CASE FilesButtons
    BY <1>1, <1>10, <2>4 DEF FilesButtons, Load, AskPassword, Request
  <2> QED
    BY <1>10, <2>1, <2>2, <2>3, <2>4 DEF FilesTab
<1> QED
  BY <1>1, <1>2, <1>3, <1>4, <1>5, <1>6, <1>7, <1>8, <1>9, <1>10 DEF CertificateNext

LEMMA CredentialsAlone ==
    ASSUME CredentialsPageNext
    PROVE  Local \/ Sends
  BY DEF CredentialsPageNext, StartCreate, Change, CancelEdit, CloseItem, StartEdit, OpenItem,
         TypeName, CredentialRequest, CredentialsRun, CredentialAnswers, Set

LEMMA PolicyAlone ==
    ASSUME PolicyNext
    PROVE  Local \/ Sends
  BY DEF PolicyNext, PolicyRuns, PolicyAnswers, PolicyRequestAnswers, SelectPreset,
         SetDailyTime, TypeCron, PolicyRequest, Put

-----------------------------------------------------------------------------
(* The pages and the shell together *)

PagesInv == FormInv /\ CredentialsInv /\ PolicyInv /\ CertificateInv

LEMMA Unmounted ==
    ASSUME Unmount
    PROVE  PagesInv'
<1>1. FormInv'
  BY NewFormType DEF Unmount, FormInv
<1>2. CredentialsInv'
  BY NoCredentialsInv DEF Unmount, CredentialsInv, ValuesMatchForm
<1>3. PolicyInv'
  BY NoPolicyInv DEF Unmount, PolicyInv, PresetMatchesCron
<1>4. CertificateInv'
  BY NothingShown, CertificateParts DEF Unmount
<1> QED
  BY <1>1, <1>2, <1>3, <1>4 DEF PagesInv

LEMMA SameForm == ASSUME FormInv, create' = create PROVE FormInv'
  BY DEF FormInv

LEMMA SameCredentials ==
    ASSUME CredentialsInv, credentials' = credentials PROVE CredentialsInv'
  BY DEF CredentialsInv, ValuesMatchForm

LEMMA SamePolicy == ASSUME PolicyInv, policy' = policy PROVE PolicyInv'
  BY PresetAsConsistent DEF PolicyInv

LEMMA SameCertificate ==
    ASSUME CertificateInv, UNCHANGED <<certificate, files, viewer>> PROVE CertificateInv'
  BY CertificateParts

LEMMA SamePages ==
    ASSUME PagesInv, UnchangedPages
    PROVE  PagesInv'
  BY SameForm, SameCredentials, SamePolicy, SameCertificate DEF PagesInv, UnchangedPages

LEMMA WebInit ==
    ASSUME Init
    PROVE  WebInv
<1>1. FormInv
  BY NewFormType DEF Init, CreateInit, FormInv
<1>2. CredentialsInv
  BY NoCredentialsInv DEF Init, CredentialsInit, CredentialsInv, ValuesMatchForm
<1>3. PolicyInv
  BY NoPolicyInv DEF Init, PolicyInit, PolicyInv, PresetMatchesCron
<1>4. CertificateInv
  BY NothingShown, CertificateParts DEF Init, CertificateInit
<1>5. ShellInv
  BY DEF Init, AppInit, CreateInit, CertificateInit, ShellInv, AppTypeOK, Pending, Pages,
         NoQuery, NothingSent, ReadAgrees, LateAnswer, LeavesLogin
<1> QED
  BY <1>1, <1>2, <1>3, <1>4, <1>5 DEF WebInv

\* The answer to a create or a delete that finds the tab anywhere.
LEMMA AnswerGoes ==
    ASSUME ShellInv, NEW r \in {"certificate", "home"},
           creating = "sent" \/ removing = "sent", ~Redirects, Goto(r, user, session),
           UNCHANGED <<session, csrfToken, meta, signIn, signOut, expired>>,
           creating' \in {creating, "idle"}, removing' \in {removing, "idle"}
    PROVE  ShellInv'
<1>1. user.data # "undefined" /\ meta = "ok"
  BY ShellFacts DEF ShellInv, NothingSent
<1>2. r \in Pages \cup {"login"} /\ r # "login"
  BY DEF Pages
<1> QED
  BY <1>1, <1>2, ShellGoto

LEMMA Retargeted ==
    ASSUME PagesInv, Retarget, UNCHANGED <<create, credentials, policy>>
    PROVE  PagesInv'
<1> DEFINE c == [certificate EXCEPT !.query = "pending", !.fetch = TRUE]
<1>1. PageGood(certificate)
  BY CertificateParts DEF PagesInv
<1>2. c \in CertificateSet /\ c.dialog = certificate.dialog
      /\ c.passwords = certificate.passwords
  BY <1>1 DEF PageGood, CertificateSet
<1>3. certificate' = c /\ files' = NoFiles /\ viewer' = NoViewer
  BY DEF Retarget
<1> HIDE DEF c
<1>4. CertificateInv'
  BY <1>1, <1>2, <1>3, PageKept, NothingShown, CertificateParts
<1> QED
  BY <1>4, SameForm, SameCredentials, SamePolicy DEF PagesInv

LEMMA WebStep ==
    ASSUME WebInv, [Next]_vars
    PROVE  WebInv'
<1>1. PagesInv /\ ShellInv
  BY DEF WebInv, PagesInv
<1>2. ASSUME PagesInv', ShellInv' PROVE WebInv'
  BY <1>2 DEF WebInv, PagesInv
<1>3. CASE Shell(AppNext)
  <2>1. ShellInv'
    BY <1>1, <1>3, ShellStep DEF Shell
  <2>2. PagesInv'
    BY <1>1, <1>3, SamePages, Unmounted DEF Shell, Routed
  <2> QED
    BY <1>2, <2>1, <2>2
<1>4. CASE ReloadTab
  <2>1. /\ csrfToken' = "unset" /\ meta' = "pending" /\ user' = NoQuery
        /\ signIn' = "idle" /\ signOut' = "idle" /\ creating' = "idle" /\ removing' = "idle"
        /\ session' = session /\ route' = route /\ expired' = expired
    BY <1>4 DEF ReloadTab, Reload
  <2>2. ShellInv'
    BY <1>1, <2>1 DEF ShellInv, AppTypeOK, Pending, NoQuery, NothingSent, ReadAgrees,
                      LateAnswer, LeavesLogin
  <2> QED
    BY <1>2, <1>4, <2>2, Unmounted DEF ReloadTab
<1>5. CASE CreateAnswers
  <2>1. CASE CreateSucceeds /\ removing' = removing
             /\ IF route # "certificate" THEN Unmount
                ELSE Retarget /\ UNCHANGED <<create, credentials, policy>>
    <3>1. ShellInv'
      BY <1>1, <2>1, AnswerGoes DEF CreateSucceeds
    <3>2. PagesInv'
      BY <1>1, <2>1, Unmounted, Retargeted
    <3> QED
      BY <1>2, <3>1, <3>2
  <2>2. CASE CreateFails /\ UnchangedPages /\ removing' = removing
    <3>1. ShellInv'
      BY <1>1, <2>2, ShellAlone, ShellFacts DEF CreateFails, Pending, ShellInv, NothingSent
    <3> QED
      BY <1>1, <1>2, <2>2, <3>1, SamePages
  <2> QED
    BY <1>5, <2>1, <2>2 DEF CreateAnswers
<1>6. CASE RemoveAnswers
  <2>1. ShellInv'
    BY <1>1, <1>6, AnswerGoes DEF RemoveAnswers, RemoveSucceeds
  <2>2. PagesInv'
    BY <1>1, <1>6, SamePages, Unmounted DEF RemoveAnswers, Routed
  <2> QED
    BY <1>2, <2>1, <2>2
<1>7. CASE PageStep
  <2>1. /\ creating \in Pending /\ removing \in Pending
        /\ user.data = "undefined" => creating = "idle" /\ removing = "idle"
    BY <1>1, ShellFacts DEF ShellInv, NothingSent
  <2>2. CASE CreateNext
             /\ UNCHANGED <<certificate, files, viewer, removing, credentials, policy>>
    <3>1. ShellInv'
      BY <1>1, <2>1, <2>2, CreateAlone, ShellAlone
    <3>2. PagesInv'
      BY <1>1, <2>2, FormStep, SameCredentials, SamePolicy, SameCertificate DEF PagesInv
    <3> QED
      BY <1>2, <3>1, <3>2
  <2>3. CASE CertificateNext /\ UNCHANGED <<create, creating, credentials, policy>>
    <3>1. ShellInv'
      BY <1>1, <2>1, <2>3, CertificateAlone, ShellAlone
    <3>2. PagesInv'
      BY <1>1, <2>3, CertificateStep, SameForm, SameCredentials, SamePolicy DEF PagesInv
    <3> QED
      BY <1>2, <3>1, <3>2
  <2>4. CASE CredentialsPageNext
             /\ UNCHANGED <<create, creating, certificate, files, viewer, removing, policy>>
    <3>1. ShellInv'
      BY <1>1, <2>1, <2>4, CredentialsAlone, ShellAlone
    <3>2. PagesInv'
      BY <1>1, <2>4, CredentialsStep, SameForm, SamePolicy, SameCertificate DEF PagesInv
    <3> QED
      BY <1>2, <3>1, <3>2
  <2>5. CASE PolicyNext
             /\ UNCHANGED <<create, creating, certificate, files, viewer, removing, credentials>>
    <3>1. ShellInv'
      BY <1>1, <2>1, <2>5, PolicyAlone, ShellAlone
    <3>2. PagesInv'
      BY <1>1, <2>5, PolicyStep, SameForm, SameCredentials, SameCertificate DEF PagesInv
    <3> QED
      BY <1>2, <3>1, <3>2
  <2> QED
    BY <1>7, <2>2, <2>3, <2>4, <2>5 DEF PageStep
<1>8. CASE UNCHANGED vars
  <2>1. Local /\ creating' = creating /\ removing' = removing
    BY <1>8 DEF vars, Local, appVars
  <2>2. ShellInv'
    BY <1>1, <2>1, ShellAlone, ShellFacts DEF ShellInv, NothingSent
  <2>3. PagesInv'
    BY <1>1, <1>8, SamePages DEF vars, UnchangedPages
  <2> QED
    BY <1>2, <2>2, <2>3
<1> QED
  BY <1>3, <1>4, <1>5, <1>6, <1>7, <1>8 DEF Next

-----------------------------------------------------------------------------
(* The theorems *)

\* The conjunction of what is shown below for each part holds of every reachable state
\* of the tab, whatever the network answers and in whatever order.
THEOREM WebInvariant == Spec => []WebInv
<1>1. Init => WebInv
  BY WebInit
<1>2. WebInv /\ [Next]_vars => WebInv'
  BY WebStep
<1> QED
  BY <1>1, <1>2, PTL DEF Spec

\* When the tab waits for nothing, its pages are shown exactly to a browser with a
\* session: an answer of getCurrentUser that is older than a login or a sign-out may
\* still be shown, but then a redirect asks again (App.tsx, LoginPage.tsx).
THEOREM ShellAgrees == Spec => []SettledAgrees
<1>1. ASSUME WebInv PROVE SettledAgrees
  <2>1. SUFFICES ASSUME Quiet, Area \/ LoginShown, ~user.error, ~expired
                 PROVE  Area <=> session
    BY DEF SettledAgrees
  <2>2. ShellInv /\ session \in BOOLEAN
    BY <1>1, ShellFacts DEF WebInv
  <2>3. meta = "ok" /\ user.fetch = "idle" /\ ~Redirects
    BY <2>1 DEF Quiet, Area, LoginShown, Redirects
  <2>4. user.data = GetCurrentUser(session)
    BY <2>1, <2>2, <2>3 DEF ShellInv, ReadAgrees
  <2> QED
    BY <2>1, <2>2, <2>4 DEF Area, LoginShown, GetCurrentUser
<1> QED
  BY <1>1, WebInvariant, PTL

\* A password that was typed is gone with its dialog, however the dialog was closed: by
\* its button, by the answer to its request or by a late answer to an earlier one
\* (closeForceDialog, closeRevokeDialog and closeDeleteDialog of CertificatePages.tsx,
\* and the dialogs of the files).
THEOREM PasswordsCleared == Spec => []PasswordsNeedDialog
<1>1. WebInv => PasswordsNeedDialog
  BY DEF WebInv, CertificateInv
<1> QED
  BY <1>1, WebInvariant, PTL

\* The viewer of the files never shows one file's content under another's name, whatever
\* the order in which loads and reveals are answered (CertificateFiles).
THEOREM ViewerTrue == Spec => []ContentMatchesTitle
<1>1. WebInv => ContentMatchesTitle
  BY DEF WebInv, CertificateInv
<1> QED
  BY <1>1, WebInvariant, PTL

\* The dialog of the credentials sends values only to the credential, provider and source
\* for which they were entered (DNSCredentialsPage.tsx).
THEOREM ValuesBelong == Spec => []ValuesMatchForm
<1>1. WebInv => ValuesMatchForm
  BY DEF WebInv, CredentialsInv
<1> QED
  BY <1>1, WebInvariant, PTL

\* The renewal policy that the editor would save is the one that it shows, for every hour
\* and minute (RenewalSettingsPage.tsx).
THEOREM EditorTrue == Spec => []PresetMatchesCron
<1>1. WebInv => PresetMatchesCron
  BY DEF WebInv, PolicyInv
<1> QED
  BY <1>1, WebInvariant, PTL

\* The form of a new certificate and the server take the same requests, for all names, any
\* number of SANs and all days, but for the requests of KnownDifference: superRefine and
\* findRedundantACMEDomain (validation.ts) on one side, ValidateACMEDomains
\* (validation.go), the checks of service.go and issueArguments (acmesh/engine.go) on
\* the other.
THEOREM FormIsFaithful == Spec => []FormAgreesWithService
<1>1. WebInv => FormAgreesWithService
  BY FormAgrees DEF WebInv, FormInv
<1> QED
  BY <1>1, WebInvariant, PTL
=============================================================================
