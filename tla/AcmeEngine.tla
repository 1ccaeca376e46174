------------------------------ MODULE AcmeEngine ------------------------------
(***************************************************************************)
(* Public certificates between their credential and the CA: the acme.sh    *)
(* commands of internal/certificate/acmesh/engine.go and the home          *)
(* directory they share, as the certificate service calls them.            *)
(*                                                                         *)
(* acme.sh (external) files everything under the primary domain and        *)
(* whether the key is ECC: that is all --renew, --install-cert and         *)
(* --revoke are told.  A certificate is issued by two commands, --issue or *)
(* --renew and then --install-cert; every certificate has a mutex of its   *)
(* own, so the commands of two certificates interleave.                    *)
(*                                                                         *)
(* run[c] is the handler that holds the mutex of certificate c, or its     *)
(* Create, which has none (CertificateService shows that there is only     *)
(* one).  seen[c] is a request that has read the row, found its status     *)
(* good and does not have the mutex yet: it goes on with what it has read. *)
(***************************************************************************)
EXTENDS Integers, FiniteSets, Credentials

CONSTANTS
    DomainOf,   \* primary domain of a certificate
    KeyTypeOf,  \* its key type
    DnsCerts,   \* the certificates created for dns-01; the others use http-01
    NoCert,
    MaxSerial   \* bound: certificates the CA issues in one behaviour

ASSUME AcmeAssumption ==
    /\ DnsCerts \subseteq Certs /\ NoCert \notin Certs
    /\ \A c \in Certs : KeyTypeOf[c] \in {"ec-256", "rsa-2048", "rsa-3072"}
    /\ MaxSerial \in Nat

VARIABLES
    row,        \* row[c]: status and serial number of certificate c
    seen,       \* seen[c]: a late request for c, and what it has read
    run,        \* run[c]: the handler on c
    home,       \* home[x]: serial of the certificate acme.sh has under x, 0 for none
    issuedFor,  \* issuedFor[n]: whose domain list the certificate n was issued for
    revoked     \* serials revoked at the CA

vars == <<cred, ref, rename, row, seen, run, home, issuedFor, revoked>>

-----------------------------------------------------------------------------
Serials  == 1..MaxSerial
Statuses == {"unborn", "issuing", "active", "renewing", "failed", "revoked", "gone"}

\* Mutant: the commands are not told about the key type.
SlotWithoutKey(c) == <<DomainOf[c], FALSE>>

\* Where acme.sh files the certificate: --ecc is passed for isECC(KeyType).
Slot(c) == <<DomainOf[c], KeyTypeOf[c] = "ec-256">>
Places  == {<<DomainOf[c], ecc>> : c \in Certs, ecc \in BOOLEAN}

Exists(c) == row[c].status \notin {"unborn", "gone"}
Issued    == {n \in Serials : issuedFor[n] # NoCert}
NextSerial == Cardinality(Issued) + 1

NoRun == [pc |-> "idle", op |-> "none", cred |-> NoCred, serial |-> 0]
NoRequest == [op |-> "none", cred |-> NoCred]
Goto(c, label) == run' = [run EXCEPT ![c].pc = label]
Return(c)      == run' = [run EXCEPT ![c] = NoRun]
\* An UPDATE of the row, which changes nothing once the row is deleted.
SetStatus(c, s) == row' = IF Exists(c) THEN [row EXCEPT ![c].status = s] ELSE row

Init ==
    /\ CredentialsInit
    /\ row = [c \in Certs |-> [status |-> "unborn", serial |-> 0]]
    /\ seen = [c \in Certs |-> NoRequest]
    /\ run = [c \in Certs |-> NoRun]
    /\ home = [x \in Places |-> 0]
    /\ issuedFor = [n \in Serials |-> NoCert]
    /\ revoked = {}

-----------------------------------------------------------------------------
(* The handlers begin *)

\* CreateACME: dns-01 needs a credential, which is resolved before the INSERT.
CreateACME(c, k) ==
    /\ row[c].status = "unborn" /\ run[c] = NoRun
    /\ c \in DnsCerts => k # NoCred
    /\ run' = [run EXCEPT ![c] = [NoRun EXCEPT !.op = "create", !.cred = k,
                                     !.pc = IF c \in DnsCerts THEN "resolve" ELSE "insert"]]
    /\ UNCHANGED <<table, rename, seen, row, home, issuedFor, revoked>>

\* manualIssueAllowed, renewAllowed, revokeAllowed.
Allowed(op) == IF op = "issue" THEN {"failed", "active"} ELSE {"active"}

\* Issue, Renew and Revoke read the row; the mutex comes later.
Get(c, op) ==
    /\ seen[c] = NoRequest
    /\ row[c].status \in Allowed(op)
    /\ seen' = [seen EXCEPT ![c] = [op |-> op, cred |-> ref[c]]]
    /\ UNCHANGED <<table, rename, row, run, home, issuedFor, revoked>>

Served(c) == seen' = [seen EXCEPT ![c] = NoRequest]

\* The mutex is not free, the row is gone or a statement fails.
Refuse(c) ==
    /\ seen[c] # NoRequest
    /\ Served(c)
    /\ UNCHANGED <<table, rename, row, run, home, issuedFor, revoked>>

\* The mutex is taken and the row made busy.  When the job cannot be created
\* an issue fails, while a renewal just returns and the row stays busy.
Begin(c) ==
    /\ seen[c].op \in {"issue", "renew"}
    /\ run[c] = NoRun /\ Exists(c)
    /\ SetStatus(c, IF seen[c].op = "issue" THEN "issuing" ELSE "renewing")
    /\ LET At(label) == [NoRun EXCEPT !.op = seen[c].op, !.cred = seen[c].cred, !.pc = label]
           noJob == IF seen[c].op = "issue" THEN At("fail") ELSE NoRun
       IN \E r \in {At(IF c \in DnsCerts THEN "resolve" ELSE "command"), noJob} :
            run' = [run EXCEPT ![c] = r]
    /\ Served(c)
    /\ UNCHANGED <<table, rename, home, issuedFor, revoked>>

Revoke(c) ==
    /\ seen[c].op = "revoke"
    /\ run[c] = NoRun /\ Exists(c)
    /\ run' = [run EXCEPT ![c] = [NoRun EXCEPT !.op = "revoke", !.pc = "revoke"]]
    /\ Served(c)
    /\ UNCHANGED <<table, rename, row, home, issuedFor, revoked>>

\* Delete waits for nobody but may meet a Create, which has no mutex.  What
\* acme.sh has filed stays there.
Delete(c) ==
    /\ Exists(c) /\ (run[c] = NoRun \/ run[c].op = "create")
    /\ row' = [row EXCEPT ![c] = [status |-> "gone", serial |-> 0]]
    /\ ref' = [ref EXCEPT ![c] = NoCred]
    /\ UNCHANGED <<cred, rename, seen, run, home, issuedFor, revoked>>

-----------------------------------------------------------------------------
(* Issuing *)

\* credential.Service.Resolve; it fails when the credential is gone or one of
\* its environment variables is not set.
Resolve(c) ==
    /\ run[c].pc = "resolve"
    /\ \/ Found(run[c].cred) /\ Goto(c, IF run[c].op = "create" THEN "insert" ELSE "command")
       \/ IF run[c].op = "create" THEN Return(c) ELSE Goto(c, "fail")
    /\ UNCHANGED <<table, rename, seen, row, home, issuedFor, revoked>>

\* CreateCertificate: the INSERT fails when the credential was deleted since.
Insert(c) ==
    /\ run[c].pc = "insert"
    /\ \/ /\ run[c].cred = NoCred \/ Found(run[c].cred)
          /\ row' = [row EXCEPT ![c].status = "issuing"]
          /\ ref' = [ref EXCEPT ![c] = run[c].cred]
          /\ Goto(c, "command")
       \/ Return(c) /\ UNCHANGED <<row, ref>>
    /\ UNCHANGED <<cred, rename, seen, home, issuedFor, revoked>>

\* --issue names all domains; --renew only the primary one, so the domain list
\* is the one acme.sh has filed.
DomainsFor(c) == IF run[c].op = "renew" THEN issuedFor[home[Slot(c)]] ELSE c

\* A command that fails or is killed after its timeout may have filed the new
\* certificate already.
CommandEnds(c) == Goto(c, "install") \/ Goto(c, "fail")

Command(c) ==
    /\ run[c].pc = "command"
    /\ \/ /\ NextSerial \in Serials
          /\ run[c].op = "renew" => home[Slot(c)] # 0
          /\ issuedFor' = [issuedFor EXCEPT ![NextSerial] = DomainsFor(c)]
          /\ home' = [home EXCEPT ![Slot(c)] = NextSerial]
          /\ CommandEnds(c)
       \/ Goto(c, "fail") /\ UNCHANGED <<home, issuedFor>>
    /\ UNCHANGED <<table, rename, seen, row, revoked>>

\* --install-cert hands out what is filed now; the key is checked against the
\* certificate, the domains are not.
Install(c) ==
    /\ run[c].pc = "install"
    /\ \/ run' = [run EXCEPT ![c].pc = "publish", ![c].serial = home[Slot(c)]]
       \/ Goto(c, "fail")
    /\ UNCHANGED <<table, rename, seen, row, home, issuedFor, revoked>>

\* Publish and MarkCertificateIssued or MarkCertificateRenewed; when only the
\* UPDATE fails the row stays busy.
Publish(c) ==
    /\ run[c].pc = "publish"
    /\ \/ /\ row' = IF Exists(c) THEN [row EXCEPT ![c] = [status |-> "active", serial |-> run[c].serial]]
                    ELSE row
          /\ Return(c)
       \/ Return(c) /\ UNCHANGED row
       \/ Goto(c, "fail") /\ UNCHANGED row
    /\ UNCHANGED <<table, rename, seen, home, issuedFor, revoked>>

\* Mutant: a renewal that failed leaves the certificate active, as its files
\* are still there.
FailRenewalKeepsActive(c) ==
    /\ run[c].pc = "fail"
    /\ SetStatus(c, IF run[c].op = "renew" THEN "active" ELSE "failed")
    /\ Return(c)
    /\ UNCHANGED <<table, rename, seen, home, issuedFor, revoked>>

\* failRenewal; the error of the UPDATE is ignored.
Fail(c) ==
    /\ run[c].pc = "fail"
    /\ SetStatus(c, "failed") \/ UNCHANGED row
    /\ Return(c)
    /\ UNCHANGED <<table, rename, seen, home, issuedFor, revoked>>

-----------------------------------------------------------------------------
(* Revoking *)

\* --revoke names the domain; what is filed there is revoked, also when the
\* command then fails.
RevokeCommand(c) ==
    /\ run[c].pc = "revoke"
    /\ \/ revoked' = revoked \cup {home[Slot(c)]} /\ (Goto(c, "setRevoked") \/ Return(c))
       \/ Return(c) /\ UNCHANGED revoked
    /\ UNCHANGED <<table, rename, seen, row, home, issuedFor>>

\* SetCertificateStatus(revoked), which may fail.
SetRevoked(c) ==
    /\ run[c].pc = "setRevoked"
    /\ SetStatus(c, "revoked") \/ UNCHANGED row
    /\ Return(c)
    /\ UNCHANGED <<table, rename, seen, home, issuedFor, revoked>>

\* The process is killed and started again: commands end with it.
Restart ==
    /\ run' = [c \in Certs |-> NoRun]
    /\ seen' = [c \in Certs |-> NoRequest]
    /\ rename' = [e \in Renamers |-> NoRename]
    /\ UNCHANGED <<table, row, home, issuedFor, revoked>>

-----------------------------------------------------------------------------
Handle(c) ==
    \/ \E k \in CredIds \cup {NoCred} : CreateACME(c, k)
    \/ \E op \in {"issue", "renew", "revoke"} : Get(c, op)
    \/ Refuse(c) \/ Begin(c) \/ Revoke(c) \/ Delete(c)
    \/ Resolve(c) \/ Insert(c) \/ Command(c) \/ Install(c) \/ Publish(c) \/ Fail(c)
    \/ RevokeCommand(c) \/ SetRevoked(c)

Next ==
    \/ \E c \in Certs : Handle(c)
    \/ CredentialsNext /\ UNCHANGED <<row, seen, run, home, issuedFor, revoked>>
    \/ Restart

Spec == Init /\ [][Next]_vars

-----------------------------------------------------------------------------
(* Correctness properties *)

\* The state keeps its types.
TypeOK ==
    /\ cred \in [CredIds -> Credential]
    /\ ref \in [Certs -> CredIds \cup {NoCred}]
    /\ rename \in [Renamers -> [id: CredIds \cup {NoCred}, row: Credential]]
    /\ row \in [Certs -> [status: Statuses, serial: 0..MaxSerial]]
    /\ seen \in [Certs -> [op: {"none", "issue", "renew", "revoke"}, cred: CredIds \cup {NoCred}]]
    /\ run \in [Certs -> [pc: {"idle", "resolve", "insert", "command", "install", "publish",
                               "fail", "revoke", "setRevoked"},
                          op: {"none", "create", "issue", "renew", "revoke"},
                          cred: CredIds \cup {NoCred}, serial: 0..MaxSerial]]
    /\ home \in [Places -> 0..MaxSerial]
    /\ issuedFor \in [Serials -> Certs \cup {NoCert}]
    /\ revoked \subseteq Serials

\* No certificate refers to a credential that is gone, although CreateACME
\* resolves the credential some time before it inserts the reference.
ReferencesExist == \A c \in Certs : ref[c] # NoCred => Found(ref[c])

\* No other certificate has the same primary domain and kind of key.  Nothing in
\* the code sees to it.
Alone(c) ==
    \A d \in Certs \ {c} :
        \/ DomainOf[d] # DomainOf[c]
        \/ (KeyTypeOf[d] = "ec-256") # (KeyTypeOf[c] = "ec-256")

\* A certificate never shows one that was issued for another certificate's
\* domains, if it is alone under its domain and kind of key: nothing else
\* protects what --issue or --renew has filed until --install-cert reads it.
OwnDomains ==
    \A c \in Certs : Alone(c) /\ Exists(c) /\ row[c].serial # 0 => issuedFor[row[c].serial] = c

\* Under the same condition a revocation revokes at the CA only what was issued
\* for the certificate, and, as long as the record is active, exactly the serial
\* number it shows, whatever renewals that failed, timed out or were interrupted
\* have filed since the status was checked.
RevokesWhatIsShown ==
    [][\A n \in revoked' \ revoked :
         \E c \in Certs :
            /\ run[c].pc = "revoke"
            /\ Alone(c) => issuedFor[n] = c /\ (row[c].status = "active" => row[c].serial = n)]_vars
=============================================================================
