----------------------------- MODULE Credentials -----------------------------
(***************************************************************************)
(* The DNS credentials (internal/credential/service.go) in their table     *)
(* dns_credentials, and the column of certificates that refers to them.    *)
(* Update replaces a row in one statement; Rename reads the row and then   *)
(* writes all of it back.  Nothing locks a credential.                     *)
(*                                                                         *)
(* A secret stands for provider, source mode and values (or references to  *)
(* environment variables), which prepare has accepted.                     *)
(***************************************************************************)
CONSTANTS
    CredIds,    \* ids newID() may return; none is used twice
    CredNames,
    Secrets,
    Certs,      \* certificates that may refer to a credential
    Renamers,   \* slots for concurrent Rename requests
    NoCred      \* SQL NULL in dns_credential_id

ASSUME CredentialsAssumption == NoCred \notin CredIds /\ CredNames # {} /\ Secrets # {}

VARIABLES
    cred,   \* cred[k]: the row of credential k
    ref,    \* ref[c]: certificates.dns_credential_id
    rename  \* rename[e]: a Rename between its SELECT and its UPDATE

table == <<cred, ref>>

Unborn  == [state |-> "unborn"]
Deleted == [state |-> "deleted"]
CredentialRow(n, s) == [state |-> "live", name |-> n, secret |-> s]
Credential == {Unborn, Deleted} \cup {CredentialRow(n, s) : n \in CredNames, s \in Secrets}

NoRename == [id |-> NoCred, row |-> Unborn]

Found(k) == k \in CredIds /\ cred[k].state = "live"

\* name is UNIQUE.
NameFree(k, n) == \A j \in CredIds \ {k} : Found(j) => cred[j].name # n

CredentialsInit ==
    /\ cred = [k \in CredIds |-> Unborn]
    /\ ref = [c \in Certs |-> NoCred]
    /\ rename = [e \in Renamers |-> NoRename]

-----------------------------------------------------------------------------
CreateDNSCredential(k, n, s) ==
    /\ cred[k] = Unborn /\ NameFree(k, n)
    /\ cred' = [cred EXCEPT ![k] = CredentialRow(n, s)]
    /\ UNCHANGED <<ref, rename>>

\* Update: every column of the row is replaced by one statement.
UpdateDNSCredential(k, n, s) ==
    /\ Found(k) /\ NameFree(k, n)
    /\ cred' = [cred EXCEPT ![k] = CredentialRow(n, s)]
    /\ UNCHANGED <<ref, rename>>

\* Rename, first half: the row with its secret is read.
RenameRead(e, k, n) ==
    /\ rename[e] = NoRename
    /\ Found(k)
    /\ rename' = [rename EXCEPT ![e] = [id |-> k, row |-> CredentialRow(n, cred[k].secret)]]
    /\ UNCHANGED table

\* Rename, second half: what was read is written back under the new name.  An
\* UPDATE of a row that is gone, or to a name that is taken, changes nothing.
RenameWrite(e) ==
    /\ rename[e] # NoRename
    /\ LET k == rename[e].id
       IN cred' = IF Found(k) /\ NameFree(k, rename[e].row.name)
                  THEN [cred EXCEPT ![k] = rename[e].row] ELSE cred
    /\ rename' = [rename EXCEPT ![e] = NoRename]
    /\ UNCHANGED ref

\* Mutant: the references stay.
DeleteKeepsReferences(k) ==
    /\ Found(k)
    /\ cred' = [cred EXCEPT ![k] = Deleted]
    /\ UNCHANGED <<ref, rename>>

\* Delete; the foreign key is ON DELETE SET NULL.
DeleteDNSCredential(k) ==
    /\ Found(k)
    /\ cred' = [cred EXCEPT ![k] = Deleted]
    /\ ref' = [c \in Certs |-> IF ref[c] = k THEN NoCred ELSE ref[c]]
    /\ UNCHANGED rename

CredentialsNext ==
    \/ \E k \in CredIds, n \in CredNames, s \in Secrets :
         CreateDNSCredential(k, n, s) \/ UpdateDNSCredential(k, n, s)
    \/ \E e \in Renamers : RenameWrite(e) \/ \E k \in CredIds, n \in CredNames : RenameRead(e, k, n)
    \/ \E k \in CredIds : DeleteDNSCredential(k)
=============================================================================
