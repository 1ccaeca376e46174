------------------------ MODULE MCCertificateStarts -------------------------
(***************************************************************************)
(* CertificateService from two starts: the empty system, and a certificate *)
(* that was issued before, so that three handlers can meet on it.          *)
(***************************************************************************)
EXTENDS MCCertificateService

\* Which of the two starts a behaviour has; it never changes.
VARIABLE start

\* A certificate that was created and issued by run 1, and no handler running: a state
\* that Spec reaches without a fault.
LiveInit ==
    /\ life = [c \in CertIds |-> "live"]
    /\ row = [c \in CertIds |-> [status |-> "active", mode |-> "acme", serial |-> 1,
                                 autoRenew |-> TRUE]]
    /\ jobs = [r \in Runs |-> IF r = 1 THEN [status |-> "succeeded", type |-> "create", cert |-> c1]
                                       ELSE NoJob]
    /\ audit = {[cert |-> c1, type |-> "create", result |-> "succeeded"]}
    /\ disk = [d \in Dirs |-> 1]
    /\ backups = {}
    /\ lockGen = [c \in CertIds |-> 0]
    /\ locked = {}
    /\ ops = 1
    /\ op = [p \in Requests |-> Idle]

\* A file system call that fails ends the work of its handler.
FileFails ==
    \E p \in Requests :
        /\ op[p].pc \in {"publish", "moveAside", "swap", "backup", "removeFirst", "removeRest"}
        /\ op'[p].pc \in {"finishFailed", "auditFailed", "idle"}

\* Spec from either start, within bounds: from the empty system three executions, and
\* from the issued certificate three more, with no failing file system call and no crash.
StartsInit ==
    \/ start = "empty" /\ Init
    \/ start = "issued" /\ LiveInit

StartsNext ==
    /\ \/ \E p \in Requests : Begin(p) \/ Step(p)
       \/ start = "empty" /\ Restart
    /\ start = "empty" => ops' < MaxOps
    /\ start = "issued" => ~FileFails
    /\ UNCHANGED start

StartsSpec == StartsInit /\ [][StartsNext]_<<vars, start>>
=============================================================================
