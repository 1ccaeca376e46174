------------------------- MODULE CertificateLifecycle -------------------------
(***************************************************************************)
(* What an administrator may rely on about the rows of table certificates: *)
(* one execution at a time issues a certificate, only that one turns it    *)
(* active, with the serial number it issued, or failed; nobody renews or   *)
(* revokes what was never issued, revokes or deletes what is being         *)
(* renewed, or changes the settings with anything else.                    *)
(***************************************************************************)
EXTENDS Integers

CONSTANTS CertIds,
          Runs,     \* executions; each has the serial number it may issue
          Modes,
          Lossy     \* the outcome of an execution may not be recorded

VARIABLES life,     \* life[c]: no row yet, a row, or deleted
          row,      \* row[c]: status, mode, serial number and settings
          issuing   \* issuing[c]: the executions that issue c, one or none

records == <<life, row, issuing>>

Unborn == [status |-> "pending", mode |-> "self_signed", serial |-> 0, autoRenew |-> FALSE]

Init ==
    /\ life = [c \in CertIds |-> "unborn"]
    /\ row = [c \in CertIds |-> Unborn]
    /\ issuing = [c \in CertIds |-> {}]

-----------------------------------------------------------------------------
Live(c)  == life[c] = "live"
Quiet(c) == Live(c) /\ issuing[c] = {}

\* Nobody issues or has issued under the number r.
Unused(r) == \A c \in CertIds : r \notin issuing[c] /\ row[c].serial # r

\* The status changes, and nothing else of the row.
Status(c, s)   == row' = [row EXCEPT ![c].status = s]
Issuers(c, rs) == issuing' = [issuing EXCEPT ![c] = rs]

Create(c, r) ==
    /\ life[c] = "unborn" /\ Unused(r)
    /\ life' = [life EXCEPT ![c] = "live"]
    /\ \E m \in Modes, auto \in BOOLEAN :
          row' = [row EXCEPT ![c] = [status |-> "issuing", mode |-> m, serial |-> 0,
                                     autoRenew |-> auto]]
    /\ Issuers(c, {r})

Issue(c, r) == Quiet(c) /\ Unused(r) /\ Status(c, "issuing") /\ Issuers(c, {r}) /\ UNCHANGED life

\* Only what was issued before is renewed.
Renew(c, r) ==
    /\ Quiet(c) /\ Unused(r) /\ row[c].serial # 0
    /\ Status(c, "renewing") /\ Issuers(c, {r}) /\ UNCHANGED life

Succeed(c) ==
    /\ Live(c)
    /\ \E r \in issuing[c] : row' = [row EXCEPT ![c].status = "active", ![c].serial = r]
    /\ Issuers(c, {}) /\ UNCHANGED life

Fail(c) == Live(c) /\ issuing[c] # {} /\ Status(c, "failed") /\ Issuers(c, {}) /\ UNCHANGED life

\* The row stays busy, or says that nothing has changed.
LoseOutcome(c) ==
    Lossy /\ Live(c) /\ issuing[c] # {} /\ Issuers(c, {}) /\ UNCHANGED <<life, row>>

Revoke(c) ==
    /\ Quiet(c) /\ row[c].mode = "acme" /\ row[c].serial # 0
    /\ Status(c, "revoked") /\ UNCHANGED <<life, issuing>>

Settings(c) ==
    /\ Live(c)
    /\ \E auto \in BOOLEAN : row' = [row EXCEPT ![c].autoRenew = auto]
    /\ UNCHANGED <<life, issuing>>

\* A certificate may go while it is being created, not while it is issued again
\* after it was issued once.
Delete(c) ==
    /\ Live(c) /\ (issuing[c] # {} => row[c].serial = 0)
    /\ life' = [life EXCEPT ![c] = "deleted"]
    /\ Issuers(c, {}) /\ UNCHANGED row

Crash == issuing' = [c \in CertIds |-> {}] /\ UNCHANGED <<life, row>>

Next ==
    \/ \E c \in CertIds :
         \/ \E r \in Runs : Create(c, r) \/ Issue(c, r) \/ Renew(c, r)
         \/ Succeed(c) \/ Fail(c) \/ LoseOutcome(c)
         \/ Revoke(c) \/ Settings(c) \/ Delete(c)
    \/ Crash

Spec == Init /\ [][Next]_records
=============================================================================
