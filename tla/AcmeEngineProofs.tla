-------------------------- MODULE AcmeEngineProofs --------------------------
(***************************************************************************)
(* Proofs about AcmeEngine, for any certificates, domains and credentials  *)
(* and any number of certificates that the CA issues: no reference to a    *)
(* credential that is gone, no certificate with another's domains, and no  *)
(* revocation of another serial number than the one that is shown.         *)
(***************************************************************************)
EXTENDS AcmeEngine, FiniteSetTheorems, TLAPS

-----------------------------------------------------------------------------
(* The inductive invariant *)

\* What Rename writes back is a row.
RenameLive == \A e \in Renamers : rename[e] # NoRename => rename[e].row.state = "live"

\* The CA has given out the serial numbers up to some number, so that the next one was
\* never given out.
Contiguous == \E m \in 0 .. MaxSerial : Issued = 1 .. m

\* What acme.sh has filed was issued for some certificate.
HomeIssued == \A x \in Places : home[x] # 0 => issuedFor[home[x]] # NoCert

\* A handler that issues, from where it is in the code.
Issuing == {"create", "issue", "renew"}

AtItsCalls(c) ==
    /\ run[c].pc \in {"resolve", "insert", "command", "install", "publish", "fail"}
          => run[c].op \in Issuing
    /\ run[c].pc \in {"revoke", "setRevoked"} => run[c].op = "revoke"

\* While a certificate is issued its row is busy or deleted.
BusyRow(c) == run[c].op \in Issuing => row[c].status # "active"

\* An active certificate, and one that is installed or revoked, has something filed.
Filed(c) ==
    (\/ row[c].status = "active" \/ seen[c].op = "revoke"
     \/ run[c].pc \in {"install", "publish", "revoke"})
    => home[Slot(c)] # 0

\* What is filed, shown or about to be shown for a certificate that is alone.
Own(c) ==
    Alone(c) =>
        /\ home[Slot(c)] # 0 => issuedFor[home[Slot(c)]] = c
        /\ row[c].serial # 0 => issuedFor[row[c].serial] = c
        /\ run[c].pc = "publish" => run[c].serial = home[Slot(c)]
        /\ row[c].status = "active" => row[c].serial = home[Slot(c)]

Good(c) == AtItsCalls(c) /\ BusyRow(c) /\ Filed(c) /\ Own(c)

AcmeInv ==
    /\ TypeOK /\ ReferencesExist /\ RenameLive /\ Contiguous /\ HomeIssued
    /\ \A c \in Certs : Good(c)

-----------------------------------------------------------------------------
(* Records and functions *)

Pcs == {"idle", "resolve", "insert", "command", "install", "publish", "fail", "revoke",
        "setRevoked"}
RunSet == [pc: Pcs, op: {"none", "create", "issue", "renew", "revoke"},
           cred: CredIds \cup {NoCred}, serial: 0 .. MaxSerial]
RowSet == [status: Statuses, serial: 0 .. MaxSerial]
SeenSet == [op: {"none", "issue", "renew", "revoke"}, cred: CredIds \cup {NoCred}]

LEMMA Types ==
    TypeOK <=>
        /\ cred \in [CredIds -> Credential]
        /\ ref \in [Certs -> CredIds \cup {NoCred}]
        /\ rename \in [Renamers -> [id: CredIds \cup {NoCred}, row: Credential]]
        /\ row \in [Certs -> RowSet] /\ seen \in [Certs -> SeenSet] /\ run \in [Certs -> RunSet]
        /\ home \in [Places -> 0 .. MaxSerial]
        /\ issuedFor \in [Serials -> Certs \cup {NoCert}]
        /\ revoked \subseteq Serials
  BY DEF TypeOK, Pcs, RunSet, RowSet, SeenSet

LEMMA Idle ==
    /\ NoRun \in RunSet /\ NoRun.pc = "idle" /\ NoRun.op = "none"
    /\ NoRequest \in SeenSet /\ NoRequest.op = "none"
  BY AcmeAssumption DEF NoRun, RunSet, Pcs, NoRequest, SeenSet

LEMMA SlotPlace ==
    ASSUME NEW c \in Certs
    PROVE  Slot(c) \in Places
<1> DEFINE ecc == KeyTypeOf[c] = "ec-256"
<1>1. ecc \in BOOLEAN /\ Slot(c) = <<DomainOf[c], ecc>>
  BY DEF Slot
<1> HIDE DEF ecc
<1> QED
  BY <1>1 DEF Places

\* Only the handler on c moves, to the record r.
Moves(c, r) ==
    /\ run' \in [Certs -> RunSet] /\ run'[c] = r
    /\ \A d \in Certs \ {c} : run'[d] = run[d]

LEMMA RunMoves ==
    ASSUME TypeOK, NEW c \in Certs, NEW r \in RunSet, run' = [run EXCEPT ![c] = r]
    PROVE  Moves(c, r)
  BY DEF TypeOK, Moves, RunSet, Pcs

LEMMA GotoMoves ==
    ASSUME TypeOK, NEW c \in Certs, NEW label \in Pcs, Goto(c, label)
    PROVE  /\ Moves(c, run'[c])
           /\ run'[c].pc = label /\ run'[c].op = run[c].op /\ run'[c].cred = run[c].cred
           /\ run'[c].serial = run[c].serial
<1> DEFINE r == [run[c] EXCEPT !.pc = label]
<1>1. run[c] \in RunSet
  BY DEF TypeOK, RunSet, Pcs
<1>2. /\ r \in RunSet /\ r.pc = label /\ r.op = run[c].op /\ r.cred = run[c].cred
      /\ r.serial = run[c].serial
  BY <1>1 DEF RunSet
<1>3. run' = [run EXCEPT ![c] = r]
  BY DEF Goto
<1> HIDE DEF r
<1> QED
  BY <1>2, <1>3, RunMoves DEF Moves

LEMMA ReturnMoves ==
    ASSUME TypeOK, NEW c \in Certs, Return(c)
    PROVE  Moves(c, NoRun)
  BY RunMoves, Idle DEF Return

\* Only the row of c changes, to the record r.
Writes(c, r) ==
    /\ row' \in [Certs -> RowSet] /\ row'[c] = r
    /\ \A d \in Certs \ {c} : row'[d] = row[d]

LEMMA RowWrites ==
    ASSUME TypeOK, NEW c \in Certs, NEW r \in RowSet, row' = [row EXCEPT ![c] = r]
    PROVE  Writes(c, r)
  BY DEF TypeOK, Writes, RowSet

LEMMA RowKept ==
    ASSUME TypeOK, NEW c \in Certs, row' = row
    PROVE  Writes(c, row[c])
  BY DEF TypeOK, Writes, RowSet

LEMMA StatusWrites ==
    ASSUME TypeOK, NEW c \in Certs, NEW s \in Statuses, row' = [row EXCEPT ![c].status = s]
    PROVE  Writes(c, row'[c]) /\ row'[c].status = s /\ row'[c].serial = row[c].serial
<1> DEFINE r == [row[c] EXCEPT !.status = s]
<1>1. row[c] \in RowSet
  BY DEF TypeOK, RowSet
<1>2. r \in RowSet /\ r.status = s /\ r.serial = row[c].serial
  BY <1>1 DEF RowSet
<1>3. row' = [row EXCEPT ![c] = r]
  OBVIOUS
<1> HIDE DEF r
<1> QED
  BY <1>2, <1>3, RowWrites DEF Writes

\* An UPDATE of the status, of a row that may be gone.
LEMMA SetStatusWrites ==
    ASSUME TypeOK, NEW c \in Certs, NEW s \in Statuses, SetStatus(c, s)
    PROVE  /\ Writes(c, row'[c]) /\ row'[c].serial = row[c].serial
           /\ Exists(c) => row'[c].status = s
           /\ ~Exists(c) => row'[c].status = row[c].status
<1>1. CASE Exists(c)
  BY <1>1, StatusWrites DEF SetStatus
<1>2. CASE ~Exists(c)
  <2>1. row' = row
    BY <1>2 DEF SetStatus
  <2> QED
    BY <1>2, <2>1, RowKept
<1> QED
  BY <1>1, <1>2

\* The request that is seen of c becomes q.
Sees(c, q) ==
    /\ seen' \in [Certs -> SeenSet] /\ seen'[c] = q
    /\ \A d \in Certs \ {c} : seen'[d] = seen[d]

LEMMA SeenChanges ==
    ASSUME TypeOK, NEW c \in Certs, NEW q \in SeenSet, seen' = [seen EXCEPT ![c] = q]
    PROVE  Sees(c, q)
  BY DEF TypeOK, Sees, SeenSet

LEMMA SeenKept ==
    ASSUME TypeOK, NEW c \in Certs, seen' = seen
    PROVE  Sees(c, seen[c])
  BY DEF TypeOK, Sees, SeenSet

LEMMA RunKept ==
    ASSUME TypeOK, NEW c \in Certs, run' = run
    PROVE  Moves(c, run[c])
  BY DEF TypeOK, Moves, RunSet, Pcs

-----------------------------------------------------------------------------
(* Kinds of steps *)

\* A step on one certificate that files and issues nothing.
LEMMA QuietStep ==
    ASSUME AcmeInv, NEW c \in Certs, Moves(c, run'[c]), Writes(c, row'[c]), Sees(c, seen'[c]),
           UNCHANGED <<cred, rename, home, issuedFor>>, revoked' \subseteq Serials,
           ref' \in [Certs -> CredIds \cup {NoCred}], ReferencesExist', Good(c)'
    PROVE  AcmeInv'
<1>1. TypeOK'
  BY Types DEF AcmeInv, TypeOK, Moves, Writes, Sees, RunSet, Pcs, RowSet, SeenSet
<1>2. RenameLive'
  BY DEF AcmeInv, RenameLive
<1>3. Contiguous' /\ HomeIssued'
  BY DEF AcmeInv, Contiguous, Issued, HomeIssued
<1>4. ASSUME NEW d \in Certs PROVE Good(d)'
  <2>1. CASE d = c
    BY <2>1
  <2>2. CASE d # c
    <3>1. run'[d] = run[d] /\ row'[d] = row[d] /\ seen'[d] = seen[d] /\ Good(d)
      BY <2>2 DEF AcmeInv, Moves, Writes, Sees
    <3> QED
      BY <3>1 DEF Good, AtItsCalls, BusyRow, Filed, Own
  <2> QED
    BY <2>1, <2>2
<1> QED
  BY <1>1, <1>2, <1>3, <1>4 DEF AcmeInv

\* The same when no reference changes either.
LEMMA SilentStep ==
    ASSUME AcmeInv, NEW c \in Certs, Moves(c, run'[c]), Writes(c, row'[c]), Sees(c, seen'[c]),
           UNCHANGED <<table, rename, home, issuedFor>>, revoked' \subseteq Serials, Good(c)'
    PROVE  AcmeInv'
<1>1. ReferencesExist' /\ ref' \in [Certs -> CredIds \cup {NoCred}]
  BY DEF AcmeInv, TypeOK, ReferencesExist, Found, table
<1> QED
  BY <1>1, QuietStep DEF table

\* What the invariant says of one certificate.
LEMMA GoodParts ==
    ASSUME AcmeInv, NEW c \in Certs
    PROVE  /\ TypeOK /\ AtItsCalls(c) /\ BusyRow(c) /\ Filed(c) /\ Own(c)
           /\ run[c] \in RunSet /\ row[c] \in RowSet /\ seen[c] \in SeenSet
           /\ home[Slot(c)] \in 0 .. MaxSerial /\ revoked \subseteq Serials
  BY SlotPlace, Types DEF AcmeInv, Good

-----------------------------------------------------------------------------
(* The handlers *)

LEMMA CreateStep ==
    ASSUME AcmeInv, NEW c \in Certs, NEW k \in CredIds \cup {NoCred}, CreateACME(c, k)
    PROVE  AcmeInv'
<1> DEFINE pc == IF c \in DnsCerts THEN "resolve" ELSE "insert"
           r == [NoRun EXCEPT !.op = "create", !.cred = k, !.pc = pc]
<1>1. pc \in {"resolve", "insert"}
  OBVIOUS
<1>2. /\ run' = [run EXCEPT ![c] = r] /\ row[c].status = "unborn"
      /\ UNCHANGED <<table, rename, seen, row, home, issuedFor, revoked>>
  BY DEF CreateACME
<1> HIDE DEF pc
<1>3. r \in RunSet /\ r.pc = pc /\ r.op = "create"
  BY <1>1, Idle DEF RunSet, Pcs
<1> HIDE DEF r
<1>4. Moves(c, r) /\ Writes(c, row[c]) /\ Sees(c, seen[c])
  BY <1>2, <1>3, GoodParts, RunMoves, RowKept, SeenKept
<1>5. Good(c)'
  BY <1>1, <1>2, <1>3, <1>4, GoodParts
     DEF Moves, Good, AtItsCalls, BusyRow, Filed, Own, Issuing
<1> QED
  BY <1>2, <1>4, <1>5, GoodParts, SilentStep DEF Moves, Writes, Sees

LEMMA GetStep ==
    ASSUME AcmeInv, NEW c \in Certs, NEW operation \in {"issue", "renew", "revoke"},
           Get(c, operation)
    PROVE  AcmeInv'
<1> DEFINE q == [op |-> operation, cred |-> ref[c]]
<1>1. /\ seen' = [seen EXCEPT ![c] = q] /\ row[c].status \in Allowed(operation)
      /\ UNCHANGED <<table, rename, row, run, home, issuedFor, revoked>>
  BY DEF Get
<1>2. q \in SeenSet /\ q.op = operation
  BY GoodParts DEF TypeOK, SeenSet
<1>3. operation = "revoke" => row[c].status = "active"
  BY <1>1 DEF Allowed
<1> HIDE DEF q
<1>4. Moves(c, run[c]) /\ Writes(c, row[c]) /\ Sees(c, q)
  BY <1>1, <1>2, GoodParts, RunKept, RowKept, SeenChanges
<1>5. Good(c)'
  BY <1>1, <1>2, <1>3, <1>4, GoodParts DEF Sees, Good, AtItsCalls, BusyRow, Filed, Own
<1> QED
  BY <1>1, <1>4, <1>5, GoodParts, SilentStep DEF Moves, Writes, Sees

LEMMA RefuseStep ==
    ASSUME AcmeInv, NEW c \in Certs, Refuse(c)
    PROVE  AcmeInv'
<1>1. /\ seen' = [seen EXCEPT ![c] = NoRequest]
      /\ UNCHANGED <<table, rename, row, run, home, issuedFor, revoked>>
  BY DEF Refuse, Served
<1>2. Moves(c, run[c]) /\ Writes(c, row[c]) /\ Sees(c, NoRequest)
  BY <1>1, GoodParts, RunKept, RowKept, SeenChanges, Idle
<1>3. Good(c)'
  BY <1>1, <1>2, GoodParts, Idle DEF Sees, Good, AtItsCalls, BusyRow, Filed, Own
<1> QED
  BY <1>1, <1>2, <1>3, GoodParts, SilentStep DEF Moves, Writes, Sees

LEMMA BeginStep ==
    ASSUME AcmeInv, NEW c \in Certs, Begin(c)
    PROVE  AcmeInv'
<1> DEFINE At(label) == [NoRun EXCEPT !.op = seen[c].op, !.cred = seen[c].cred, !.pc = label]
           s == IF seen[c].op = "issue" THEN "issuing" ELSE "renewing"
<1>1. /\ seen[c].op \in {"issue", "renew"} /\ Exists(c) /\ SetStatus(c, s)
      /\ seen' = [seen EXCEPT ![c] = NoRequest]
      /\ UNCHANGED <<table, rename, home, issuedFor, revoked>>
  BY DEF Begin, Served
<1>2. \/ run' = [run EXCEPT ![c] = NoRun]
      \/ \E label \in {"resolve", "command", "fail"} : run' = [run EXCEPT ![c] = At(label)]
  BY DEF Begin
<1>3. s \in {"issuing", "renewing"} /\ s \in Statuses
  BY DEF Statuses
<1> HIDE DEF s
<1>4. /\ Writes(c, row'[c]) /\ row'[c].serial = row[c].serial /\ row'[c].status = s
  BY <1>1, <1>3, GoodParts, SetStatusWrites
<1>5. \A label \in {"resolve", "command", "fail"} :
         At(label) \in RunSet /\ At(label).pc = label /\ At(label).op = seen[c].op
  BY GoodParts, Idle DEF RunSet, SeenSet, Pcs
<1> HIDE DEF At
<1>6. PICK r \in RunSet : /\ run' = [run EXCEPT ![c] = r]
                          /\ r = NoRun \/ (r.pc \in {"resolve", "command", "fail"}
                                           /\ r.op \in {"issue", "renew"})
  BY <1>1, <1>2, <1>5, Idle
<1>7. Moves(c, r) /\ Sees(c, NoRequest)
  BY <1>1, <1>6, GoodParts, RunMoves, SeenChanges, Idle
<1>8. Good(c)'
  BY <1>1, <1>3, <1>4, <1>6, <1>7, GoodParts, Idle
     DEF Moves, Sees, Good, AtItsCalls, BusyRow, Filed, Own, Issuing
<1> QED
  BY <1>1, <1>4, <1>7, <1>8, GoodParts, SilentStep DEF Moves, Sees

LEMMA RevokeStep ==
    ASSUME AcmeInv, NEW c \in Certs, Revoke(c)
    PROVE  AcmeInv'
<1> DEFINE r == [NoRun EXCEPT !.op = "revoke", !.pc = "revoke"]
<1>1. /\ seen[c].op = "revoke" /\ run' = [run EXCEPT ![c] = r]
      /\ seen' = [seen EXCEPT ![c] = NoRequest]
      /\ UNCHANGED <<table, rename, row, home, issuedFor, revoked>>
  BY DEF Revoke, Served
<1>2. r \in RunSet /\ r.pc = "revoke" /\ r.op = "revoke"
  BY Idle DEF RunSet, Pcs
<1> HIDE DEF r
<1>3. Moves(c, r) /\ Writes(c, row[c]) /\ Sees(c, NoRequest)
  BY <1>1, <1>2, GoodParts, RunMoves, RowKept, SeenChanges, Idle
<1>4. Good(c)'
  BY <1>1, <1>2, <1>3, GoodParts, Idle
     DEF Moves, Sees, Good, AtItsCalls, BusyRow, Filed, Own, Issuing
<1> QED
  BY <1>1, <1>3, <1>4, GoodParts, SilentStep DEF Moves, Writes, Sees

LEMMA DeleteStep ==
    ASSUME AcmeInv, NEW c \in Certs, Delete(c)
    PROVE  AcmeInv'
<1> DEFINE r == [status |-> "gone", serial |-> 0]
<1>1. /\ row' = [row EXCEPT ![c] = r] /\ ref' = [ref EXCEPT ![c] = NoCred]
      /\ UNCHANGED <<cred, rename, seen, run, home, issuedFor, revoked>>
  BY DEF Delete
<1>2. r \in RowSet /\ r.status = "gone" /\ r.serial = 0
  BY AcmeAssumption DEF RowSet, Statuses
<1> HIDE DEF r
<1>3. Moves(c, run[c]) /\ Writes(c, r) /\ Sees(c, seen[c])
  BY <1>1, <1>2, GoodParts, RunKept, RowWrites, SeenKept
<1>4. ref' \in [Certs -> CredIds \cup {NoCred}] /\ ReferencesExist'
  BY <1>1 DEF AcmeInv, TypeOK, ReferencesExist, Found
<1>5. Good(c)'
  BY <1>1, <1>2, <1>3, GoodParts DEF Writes, Good, AtItsCalls, BusyRow, Filed, Own
<1> QED
  BY <1>1, <1>3, <1>4, <1>5, GoodParts, QuietStep DEF Moves, Writes, Sees

\* A handler that goes on or returns without a write.
LEMMA GoesOn ==
    ASSUME AcmeInv, NEW c \in Certs, UNCHANGED <<table, rename, seen, row, home, issuedFor>>,
           revoked' \subseteq Serials,
           \/ Return(c)
           \/ \E label \in {"insert", "command", "fail"} :
                 Goto(c, label) /\ run[c].op \in Issuing
           \/ Goto(c, "install") /\ run[c].op \in Issuing /\ home[Slot(c)] # 0
           \/ Goto(c, "setRevoked") /\ run[c].op = "revoke"
    PROVE  AcmeInv'
<1>1. Writes(c, row[c]) /\ Sees(c, seen[c])
  BY GoodParts, RowKept, SeenKept
<1>2. CASE Return(c)
  <2>1. Moves(c, NoRun)
    BY <1>2, GoodParts, ReturnMoves
  <2>2. Good(c)'
    BY <1>1, <2>1, GoodParts, Idle
       DEF Moves, Good, AtItsCalls, BusyRow, Filed, Own, Issuing
  <2> QED
    BY <1>1, <2>1, <2>2, SilentStep DEF Moves, Writes, Sees
<1>3. ASSUME NEW label \in Pcs, Goto(c, label),
             \/ label \in {"insert", "command", "fail"} /\ run[c].op \in Issuing
             \/ label = "install" /\ run[c].op \in Issuing /\ home[Slot(c)] # 0
             \/ label = "setRevoked" /\ run[c].op = "revoke"
      PROVE  AcmeInv'
  <2>1. Moves(c, run'[c]) /\ run'[c].pc = label /\ run'[c].op = run[c].op
    BY <1>3, GoodParts, GotoMoves
  <2>2. Good(c)'
    BY <1>1, <1>3, <2>1, GoodParts
       DEF Good, AtItsCalls, BusyRow, Filed, Own, Issuing
  <2> QED
    BY <1>1, <2>1, <2>2, SilentStep DEF Writes, Sees
<1> QED
  BY <1>2, <1>3 DEF Pcs

LEMMA ResolveStep ==
    ASSUME AcmeInv, NEW c \in Certs, Resolve(c)
    PROVE  AcmeInv'
<1>1. run[c].op \in Issuing
  BY GoodParts DEF Resolve, AtItsCalls
<1>2. \/ Return(c)
      \/ \E label \in {"insert", "command", "fail"} : Goto(c, label)
  BY DEF Resolve
<1>3. UNCHANGED <<table, rename, seen, row, home, issuedFor>> /\ revoked' = revoked
  BY DEF Resolve
<1> QED
  BY <1>1, <1>2, <1>3, GoesOn, GoodParts

LEMMA InsertStep ==
    ASSUME AcmeInv, NEW c \in Certs, Insert(c)
    PROVE  AcmeInv'
<1>1. /\ run[c].op \in Issuing /\ run[c].pc = "insert"
      /\ UNCHANGED <<cred, rename, seen, home, issuedFor, revoked>>
  BY GoodParts DEF Insert, AtItsCalls
<1>2. CASE Return(c) /\ UNCHANGED <<row, ref>>
  BY <1>1, <1>2, GoesOn, GoodParts DEF table
<1>3. CASE /\ run[c].cred = NoCred \/ Found(run[c].cred)
           /\ row' = [row EXCEPT ![c].status = "issuing"]
           /\ ref' = [ref EXCEPT ![c] = run[c].cred]
           /\ Goto(c, "command")
  <2>1. /\ Moves(c, run'[c]) /\ run'[c].pc = "command" /\ run'[c].op = run[c].op
    BY <1>3, GoodParts, GotoMoves DEF Pcs
  <2>2. Writes(c, row'[c]) /\ row'[c].status = "issuing" /\ row'[c].serial = row[c].serial
    BY <1>3, GoodParts, StatusWrites DEF Statuses
  <2>3. Sees(c, seen[c])
    BY <1>1, GoodParts, SeenKept
  <2>4. run[c].cred \in CredIds \cup {NoCred}
    BY GoodParts DEF RunSet
  <2>5. ref' \in [Certs -> CredIds \cup {NoCred}] /\ ReferencesExist'
    BY <1>1, <1>3, <2>4 DEF AcmeInv, TypeOK, ReferencesExist, Found
  <2>6. Good(c)'
    BY <1>1, <2>1, <2>2, <2>3, GoodParts
       DEF Sees, Good, AtItsCalls, BusyRow, Filed, Own, Issuing
  <2> QED
    BY <1>1, <2>1, <2>2, <2>3, <2>5, <2>6, GoodParts, QuietStep DEF Sees
<1> QED
  BY <1>2, <1>3 DEF Insert

\* Two certificates under one domain and kind of key are not alone.
LEMMA SlotApart ==
    ASSUME NEW c \in Certs, NEW d \in Certs \ {c}, Alone(d)
    PROVE  Slot(d) # Slot(c)
<1> DEFINE x == KeyTypeOf[c] = "ec-256"
           y == KeyTypeOf[d] = "ec-256"
<1>1. DomainOf[c] # DomainOf[d] \/ x # y
  BY DEF Alone
<1>2. Slot(c) = <<DomainOf[c], x>> /\ Slot(d) = <<DomainOf[d], y>>
  BY DEF Slot
<1> HIDE DEF x, y
<1> QED
  BY <1>1, <1>2

\* The next serial number was never given out, and none is left out.
LEMMA NextIsFresh ==
    ASSUME AcmeInv, NextSerial \in Serials
    PROVE  issuedFor[NextSerial] = NoCert /\ Issued = 1 .. (NextSerial - 1)
<1>1. PICK m \in 0 .. MaxSerial : Issued = 1 .. m
  BY DEF AcmeInv, Contiguous
<1>2. m \in Nat /\ MaxSerial \in Nat
  BY AcmeAssumption
<1>3. Cardinality(1 .. m) = m
  BY <1>2, FS_Interval
<1>4. NextSerial = m + 1
  BY <1>1, <1>3 DEF NextSerial
<1>5. NextSerial \notin Issued
  BY <1>1, <1>2, <1>4
<1> QED
  BY <1>1, <1>2, <1>4, <1>5 DEF Issued

\* A command that files the next serial number under the place of c.
LEMMA FilesStep ==
    ASSUME AcmeInv, NEW c \in Certs, run[c].pc = "command", NextSerial \in Serials,
           run[c].op = "renew" => home[Slot(c)] # 0,
           issuedFor' = [issuedFor EXCEPT ![NextSerial] = DomainsFor(c)],
           home' = [home EXCEPT ![Slot(c)] = NextSerial], CommandEnds(c),
           UNCHANGED <<table, rename, seen, row, revoked>>
    PROVE  AcmeInv'
<1> DEFINE n == NextSerial
           f == DomainsFor(c)
<1>1. n \in Serials /\ n \in 1 .. MaxSerial /\ n # 0 /\ MaxSerial \in Nat
  BY AcmeAssumption DEF Serials
<1>2. issuedFor[n] = NoCert /\ Issued = 1 .. (n - 1)
  BY NextIsFresh
<1>3. f \in Certs /\ f # NoCert /\ (Alone(c) => f = c)
  <2>1. CASE run[c].op # "renew"
    BY <2>1, AcmeAssumption DEF DomainsFor
  <2>2. CASE run[c].op = "renew"
    <3>1. home[Slot(c)] \in 1 .. MaxSerial /\ Slot(c) \in Places
      BY <1>1, <2>2, SlotPlace, GoodParts
    <3>2. issuedFor[home[Slot(c)]] \in Certs
      BY <3>1, <1>1 DEF AcmeInv, TypeOK, HomeIssued, Serials
    <3>3. Alone(c) => issuedFor[home[Slot(c)]] = c
      BY <2>2, GoodParts DEF Own
    <3> QED
      BY <2>2, <3>2, <3>3, AcmeAssumption DEF DomainsFor
  <2> QED
    BY <2>1, <2>2
<1>4. issuedFor' = [issuedFor EXCEPT ![n] = f] /\ home' = [home EXCEPT ![Slot(c)] = n]
  OBVIOUS
<1> HIDE DEF n, f
<1>5. /\ issuedFor' \in [Serials -> Certs \cup {NoCert}] /\ issuedFor'[n] = f
      /\ \A k \in Serials : issuedFor[k] # NoCert => issuedFor'[k] = issuedFor[k]
      /\ \A k \in Serials \ {n} : issuedFor'[k] = issuedFor[k]
  BY <1>1, <1>2, <1>3, <1>4 DEF AcmeInv, TypeOK
<1>6. /\ home' \in [Places -> 0 .. MaxSerial] /\ home'[Slot(c)] = n
      /\ \A x \in Places \ {Slot(c)} : home'[x] = home[x]
  BY <1>1, <1>4, SlotPlace DEF AcmeInv, TypeOK
<1>7. PICK label \in {"install", "fail"} : Goto(c, label)
  BY DEF CommandEnds
<1>8. Moves(c, run'[c]) /\ run'[c].pc = label /\ run'[c].op = run[c].op
  BY <1>7, GoodParts, GotoMoves DEF Pcs
<1>9. TypeOK'
  BY <1>5, <1>6, <1>8, Types DEF AcmeInv, TypeOK, Moves, RunSet, Pcs, table
<1>10. RenameLive' /\ ReferencesExist'
  BY DEF AcmeInv, RenameLive, ReferencesExist, Found, table
<1>11. Contiguous'
  <2>1. Issued' = 1 .. n
    <3>1. ASSUME NEW k PROVE k \in Issued' <=> k \in 1 .. n
      <4>1. CASE k = n
        BY <4>1, <1>1, <1>3, <1>5 DEF Issued
      <4>2. CASE k # n
        <5>1. k \in Issued' <=> k \in Issued
          BY <4>2, <1>5 DEF Issued
        <5> QED
          BY <5>1, <4>2, <1>1, <1>2
      <4> QED
        BY <4>1, <4>2
    <3> QED
      BY <3>1
  <2> QED
    BY <2>1, <1>1 DEF Contiguous
<1>12. HomeIssued'
  <2> SUFFICES ASSUME NEW x \in Places, home'[x] # 0 PROVE issuedFor'[home'[x]] # NoCert
    BY DEF HomeIssued
  <2>1. CASE x = Slot(c)
    BY <2>1, <1>3, <1>5, <1>6
  <2>2. CASE x # Slot(c)
    <3>1. home'[x] = home[x] /\ home[x] \in 0 .. MaxSerial /\ issuedFor[home[x]] # NoCert
      BY <2>2, <1>6 DEF AcmeInv, TypeOK, HomeIssued
    <3>2. home[x] \in Serials
      BY <3>1, <1>1 DEF Serials
    <3> QED
      BY <3>1, <3>2, <1>5
  <2> QED
    BY <2>1, <2>2
<1>13. ASSUME NEW d \in Certs, Alone(d), NEW k \in 0 .. MaxSerial, k # 0, issuedFor[k] = d
       PROVE  issuedFor'[k] = d
  <2>1. k \in Serials /\ d # NoCert
    BY <1>1, <1>13, AcmeAssumption DEF Serials
  <2> QED
    BY <2>1, <1>5, <1>13
<1>14. Good(c)'
  <2>1. Own(c)'
    <3>1. row[c].serial \in 0 .. MaxSerial
      BY GoodParts DEF RowSet
    <3>2. row[c].status # "active"
      BY GoodParts DEF AtItsCalls, BusyRow
    <3>3. Alone(c) /\ row[c].serial # 0 => issuedFor'[row[c].serial] = c
      BY <3>1, <1>13, GoodParts DEF Own
    <3> QED
      BY <3>2, <3>3, <1>3, <1>5, <1>6, <1>7, <1>8 DEF Own, Alone
  <2> QED
    BY <2>1, <1>1, <1>6, <1>7, <1>8, GoodParts DEF Good, AtItsCalls, BusyRow, Filed, Issuing
<1>15. ASSUME NEW d \in Certs \ {c} PROVE Good(d)'
  <2>1. run'[d] = run[d] /\ row'[d] = row[d] /\ seen'[d] = seen[d]
    BY <1>8 DEF Moves
  <2>2. Slot(d) \in Places
    BY SlotPlace
  <2>3. AtItsCalls(d)' /\ BusyRow(d)' /\ Filed(d)'
    BY <2>1, <2>2, <1>1, <1>6, GoodParts DEF AtItsCalls, BusyRow, Filed
  <2>4. Own(d)'
    <3> SUFFICES ASSUME Alone(d) PROVE Own(d)'
      BY DEF Own, Alone
    <3>1. home'[Slot(d)] = home[Slot(d)]
      BY <2>2, <1>6, SlotApart
    <3>2. row[d].serial \in 0 .. MaxSerial /\ home[Slot(d)] \in 0 .. MaxSerial
      BY GoodParts DEF RowSet
    <3>3. /\ home[Slot(d)] # 0 => issuedFor'[home[Slot(d)]] = d
          /\ row[d].serial # 0 => issuedFor'[row[d].serial] = d
      BY <3>2, <1>13, GoodParts DEF Own
    <3> QED
      BY <2>1, <3>1, <3>3, GoodParts DEF Own
  <2> QED
    BY <2>3, <2>4 DEF Good
<1> QED
  BY <1>9, <1>10, <1>11, <1>12, <1>14, <1>15 DEF AcmeInv

LEMMA CommandStep ==
    ASSUME AcmeInv, NEW c \in Certs, Command(c)
    PROVE  AcmeInv'
<1>1. run[c].pc = "command" /\ run[c].op \in Issuing
  BY GoodParts DEF Command, AtItsCalls
<1>2. CASE Goto(c, "fail") /\ UNCHANGED <<home, issuedFor>>
  BY <1>1, <1>2, GoesOn, GoodParts DEF Command
<1> QED
  BY <1>1, <1>2, FilesStep DEF Command

LEMMA InstallStep ==
    ASSUME AcmeInv, NEW c \in Certs, Install(c)
    PROVE  AcmeInv'
<1>1. /\ run[c].pc = "install" /\ run[c].op \in Issuing
      /\ UNCHANGED <<table, rename, seen, row, home, issuedFor, revoked>>
  BY GoodParts DEF Install, AtItsCalls
<1>2. CASE Goto(c, "fail")
  BY <1>1, <1>2, GoesOn, GoodParts
<1>3. CASE run' = [run EXCEPT ![c].pc = "publish", ![c].serial = home[Slot(c)]]
  <2> DEFINE n == home[Slot(c)]
             r == [run[c] EXCEPT !.pc = "publish", !.serial = n]
  <2>1. run' = [run EXCEPT ![c] = r]
    BY <1>3
  <2>2. n \in 0 .. MaxSerial
    BY GoodParts
  <2> HIDE DEF n
  <2>3. r \in RunSet /\ r.pc = "publish" /\ r.op = run[c].op /\ r.serial = n
    BY <2>2, GoodParts DEF RunSet, Pcs
  <2> HIDE DEF r
  <2>4. Moves(c, r) /\ Writes(c, row[c]) /\ Sees(c, seen[c])
    BY <1>1, <2>1, <2>3, GoodParts, RunMoves, RowKept, SeenKept
  <2>5. Good(c)'
    BY <1>1, <2>3, <2>4, GoodParts
       DEF n, Moves, Good, AtItsCalls, BusyRow, Filed, Own, Issuing
  <2> QED
    BY <1>1, <2>4, <2>5, GoodParts, SilentStep DEF Moves, Writes, Sees
<1> QED
  BY <1>2, <1>3 DEF Install

LEMMA PublishStep ==
    ASSUME AcmeInv, NEW c \in Certs, Publish(c)
    PROVE  AcmeInv'
<1>1. /\ run[c].pc = "publish" /\ run[c].op \in Issuing
      /\ UNCHANGED <<table, rename, seen, home, issuedFor, revoked>>
  BY GoodParts DEF Publish, AtItsCalls
<1>2. CASE UNCHANGED row /\ (Return(c) \/ Goto(c, "fail"))
  BY <1>1, <1>2, GoesOn, GoodParts
<1>3. CASE Return(c) /\ Exists(c)
           /\ row' = [row EXCEPT ![c] = [status |-> "active", serial |-> run[c].serial]]
  <2> DEFINE n == run[c].serial
             r == [status |-> "active", serial |-> n]
  <2>1. n \in 0 .. MaxSerial
    BY GoodParts DEF RunSet
  <2>2. r \in RowSet /\ r.status = "active" /\ r.serial = n
    BY <2>1 DEF RowSet, Statuses
  <2>3. row' = [row EXCEPT ![c] = r]
    BY <1>3
  <2> HIDE DEF r
  <2>4. Moves(c, NoRun) /\ Writes(c, r) /\ Sees(c, seen[c])
    BY <1>1, <1>3, <2>2, <2>3, GoodParts, ReturnMoves, RowWrites, SeenKept
  <2>5. Good(c)'
    BY <1>1, <2>2, <2>4, GoodParts, Idle
       DEF Moves, Writes, Good, AtItsCalls, BusyRow, Filed, Own, Issuing
  <2> QED
    BY <1>1, <2>4, <2>5, GoodParts, SilentStep DEF Moves, Writes, Sees
<1> QED
  BY <1>2, <1>3 DEF Publish

\* A handler that returns after an UPDATE of the status which may not be made.
LEMMA SetsStep ==
    ASSUME AcmeInv, NEW c \in Certs, NEW s \in Statuses \ {"active"},
           SetStatus(c, s) \/ UNCHANGED row, Return(c),
           UNCHANGED <<table, rename, seen, home, issuedFor, revoked>>
    PROVE  AcmeInv'
<1>1. CASE UNCHANGED row
  BY <1>1, GoesOn, GoodParts
<1>2. CASE SetStatus(c, s)
  <2>1. Moves(c, NoRun) /\ Sees(c, seen[c])
    BY GoodParts, ReturnMoves, SeenKept
  <2>2. Writes(c, row'[c]) /\ row'[c].serial = row[c].serial /\ row'[c].status # "active"
    BY <1>2, GoodParts, SetStatusWrites DEF Exists
  <2>3. Good(c)'
    BY <2>1, <2>2, GoodParts, Idle DEF Moves, Good, AtItsCalls, BusyRow, Filed, Own, Issuing
  <2> QED
    BY <2>1, <2>2, <2>3, GoodParts, SilentStep DEF Moves, Sees
<1> QED
  BY <1>1, <1>2

LEMMA RevokeCommandStep ==
    ASSUME AcmeInv, NEW c \in Certs, RevokeCommand(c)
    PROVE  AcmeInv'
<1>1. /\ run[c].pc = "revoke" /\ run[c].op = "revoke" /\ home[Slot(c)] \in Serials
      /\ UNCHANGED <<table, rename, seen, row, home, issuedFor>>
  BY GoodParts, AcmeAssumption DEF RevokeCommand, AtItsCalls, Filed, Serials
<1>2. revoked' \subseteq Serials
  BY <1>1, GoodParts DEF RevokeCommand
<1> QED
  BY <1>1, <1>2, GoesOn DEF RevokeCommand

LEMMA HandleStep ==
    ASSUME AcmeInv, NEW c \in Certs, Handle(c)
    PROVE  AcmeInv'
<1>1. CASE Fail(c)
  BY <1>1, SetsStep DEF Fail, Statuses
<1>2. CASE SetRevoked(c)
  BY <1>2, SetsStep DEF SetRevoked, Statuses
<1> QED
  BY <1>1, <1>2, CreateStep, GetStep, RefuseStep, BeginStep, RevokeStep, DeleteStep, ResolveStep,
     InsertStep, CommandStep, InstallStep, PublishStep, RevokeCommandStep
     DEF Handle

LEMMA RestartStep ==
    ASSUME AcmeInv, Restart
    PROVE  AcmeInv'
<1>1. /\ run' = [c \in Certs |-> NoRun] /\ seen' = [c \in Certs |-> NoRequest]
      /\ rename' = [e \in Renamers |-> NoRename]
      /\ UNCHANGED <<cred, ref, row, home, issuedFor, revoked>>
  BY DEF Restart, table
<1>2. NoRename \in [id: CredIds \cup {NoCred}, row: Credential]
  BY DEF NoRename, Credential
<1>3. TypeOK'
  BY <1>1, <1>2, Idle DEF AcmeInv, TypeOK, RunSet, Pcs, SeenSet
<1>4. RenameLive' /\ ReferencesExist' /\ Contiguous' /\ HomeIssued'
  BY <1>1 DEF AcmeInv, RenameLive, ReferencesExist, Found, Contiguous, Issued, HomeIssued
<1>5. ASSUME NEW c \in Certs PROVE Good(c)'
  BY <1>1, Idle, GoodParts DEF Good, AtItsCalls, BusyRow, Filed, Own, Issuing
<1> QED
  BY <1>3, <1>4, <1>5 DEF AcmeInv

-----------------------------------------------------------------------------
(* The credentials *)

\* A step on the credentials.
LEMMA CredentialsStep ==
    ASSUME AcmeInv, CredentialsNext, UNCHANGED <<row, seen, run, home, issuedFor, revoked>>
    PROVE  AcmeInv'
<1> DEFINE Slots == [id: CredIds \cup {NoCred}, row: Credential]
<1>1. /\ cred \in [CredIds -> Credential] /\ ref \in [Certs -> CredIds \cup {NoCred}]
      /\ rename \in [Renamers -> Slots] /\ ReferencesExist /\ RenameLive
  BY DEF AcmeInv, TypeOK
<1>2. \A n \in CredNames, s \in Secrets :
         CredentialRow(n, s) \in Credential /\ CredentialRow(n, s).state = "live"
  BY DEF Credential, CredentialRow
<1>3. Deleted \in Credential /\ NoRename \in Slots
  BY DEF Credential, NoRename
<1>4. /\ cred' \in [CredIds -> Credential] /\ ref' \in [Certs -> CredIds \cup {NoCred}]
      /\ rename' \in [Renamers -> Slots] /\ ReferencesExist' /\ RenameLive'
  <2>1. CASE \E k \in CredIds, n \in CredNames, s \in Secrets :
               CreateDNSCredential(k, n, s) \/ UpdateDNSCredential(k, n, s)
    <3>1. PICK k \in CredIds, n \in CredNames, s \in Secrets :
                 cred' = [cred EXCEPT ![k] = CredentialRow(n, s)] /\ UNCHANGED <<ref, rename>>
      BY <2>1 DEF CreateDNSCredential, UpdateDNSCredential
    <3> DEFINE r == CredentialRow(n, s)
    <3>2. r \in Credential /\ r.state = "live" /\ cred' = [cred EXCEPT ![k] = r]
      BY <1>2, <3>1
    <3> HIDE DEF r
    <3> QED
      BY <1>1, <3>1, <3>2 DEF ReferencesExist, RenameLive, Found
  <2>2. CASE \E e \in Renamers : RenameWrite(e)
    <3>1. PICK e \in Renamers : RenameWrite(e)
      BY <2>2
    <3> DEFINE k == rename[e].id
               r == rename[e].row
    <3>2. r \in Credential /\ r.state = "live"
      BY <1>1, <3>1 DEF RenameWrite, RenameLive
    <3>3. cred' = cred \/ (Found(k) /\ cred' = [cred EXCEPT ![k] = r])
      BY <3>1 DEF RenameWrite
    <3>4. rename' = [rename EXCEPT ![e] = NoRename] /\ ref' = ref
      BY <3>1 DEF RenameWrite
    <3> HIDE DEF k, r
    <3> QED
      BY <1>1, <1>3, <3>2, <3>3, <3>4 DEF ReferencesExist, RenameLive, Found
  <2>3. CASE \E e \in Renamers, k \in CredIds, n \in CredNames : RenameRead(e, k, n)
    <3>1. PICK e \in Renamers, k \in CredIds, n \in CredNames : RenameRead(e, k, n)
      BY <2>3
    <3> DEFINE r == CredentialRow(n, cred[k].secret)
               q == [id |-> k, row |-> r]
    <3>2. r \in Credential /\ r.state = "live"
      <4>1. cred[k].state = "live" /\ cred[k] \in Credential
        BY <1>1, <3>1 DEF RenameRead, Found
      <4>2. PICK m \in CredNames, s \in Secrets : cred[k] = CredentialRow(m, s)
        BY <4>1 DEF Credential, Unborn, Deleted
      <4>3. cred[k].secret = s
        BY <4>2 DEF CredentialRow
      <4> QED
        BY <4>3, <1>2
    <3>3. rename' = [rename EXCEPT ![e] = q] /\ UNCHANGED table
      BY <3>1 DEF RenameRead
    <3> HIDE DEF r
    <3>4. q \in Slots /\ q.row.state = "live"
      BY <3>2
    <3> HIDE DEF q
    <3> QED
      BY <1>1, <3>3, <3>4 DEF ReferencesExist, RenameLive, Found, table
  <2>4. CASE \E k \in CredIds : DeleteDNSCredential(k)
    <3>1. PICK k \in CredIds : DeleteDNSCredential(k)
      BY <2>4
    <3>2. /\ cred' = [cred EXCEPT ![k] = Deleted] /\ UNCHANGED rename
          /\ ref' = [c \in Certs |-> IF ref[c] = k THEN NoCred ELSE ref[c]]
      BY <3>1 DEF DeleteDNSCredential
    <3> QED
      BY <1>1, <1>3, <3>2 DEF ReferencesExist, RenameLive, Found
  <2> QED
    BY <2>1, <2>2, <2>3, <2>4 DEF CredentialsNext
<1>5. TypeOK'
  BY <1>4 DEF AcmeInv, TypeOK
<1>6. Contiguous' /\ HomeIssued' /\ \A c \in Certs : Good(c)'
  BY DEF AcmeInv, Contiguous, Issued, HomeIssued, Good, AtItsCalls, BusyRow, Filed, Own
<1> QED
  BY <1>4, <1>5, <1>6 DEF AcmeInv

-----------------------------------------------------------------------------
(* The theorems *)

LEMMA InitGood == Init => AcmeInv
<1> SUFFICES ASSUME Init PROVE AcmeInv
  OBVIOUS
<1>1. /\ cred = [k \in CredIds |-> Unborn] /\ ref = [c \in Certs |-> NoCred]
      /\ rename = [e \in Renamers |-> NoRename]
      /\ row = [c \in Certs |-> [status |-> "unborn", serial |-> 0]]
      /\ seen = [c \in Certs |-> NoRequest] /\ run = [c \in Certs |-> NoRun]
      /\ home = [x \in Places |-> 0] /\ issuedFor = [n \in Serials |-> NoCert] /\ revoked = {}
  BY DEF Init, CredentialsInit
<1>2. MaxSerial \in Nat
  BY AcmeAssumption
<1> DEFINE r == [status |-> "unborn", serial |-> 0]
<1>3. r \in RowSet /\ r.status = "unborn" /\ r.serial = 0
  BY <1>2 DEF RowSet, Statuses
<1>4. /\ NoRename \in [id: CredIds \cup {NoCred}, row: Credential]
      /\ Unborn \in Credential /\ 0 \in 0 .. MaxSerial
  BY <1>2 DEF NoRename, Credential
<1> HIDE DEF r
<1>5. TypeOK
  BY <1>1, <1>3, <1>4, Types, Idle DEF r
<1>6. RenameLive /\ ReferencesExist /\ HomeIssued
  BY <1>1 DEF RenameLive, ReferencesExist, HomeIssued
<1>7. Contiguous
  <2>1. Issued = 1 .. 0
    BY <1>1 DEF Issued
  <2> QED
    BY <1>4, <2>1 DEF Contiguous
<1>8. ASSUME NEW c \in Certs PROVE Good(c)
  <2>1. row[c] = r
    BY <1>1 DEF r
  <2>2. home[Slot(c)] = 0
    BY <1>1, SlotPlace
  <2> QED
    BY <1>1, <1>3, <2>1, <2>2, Idle DEF Good, AtItsCalls, BusyRow, Filed, Own, Issuing
<1> QED
  BY <1>5, <1>6, <1>7, <1>8 DEF AcmeInv

LEMMA NextGood == AcmeInv /\ [Next]_vars => AcmeInv'
<1> SUFFICES ASSUME AcmeInv, [Next]_vars PROVE AcmeInv'
  OBVIOUS
<1>1. CASE UNCHANGED vars
  BY <1>1 DEF vars, AcmeInv, TypeOK, ReferencesExist, Found, RenameLive, Contiguous, Issued,
     HomeIssued, Good, AtItsCalls, BusyRow, Filed, Own
<1> QED
  BY <1>1, HandleStep, CredentialsStep, RestartStep DEF Next

\* The inductive invariant holds.
THEOREM AcmeInvariant == Spec => []AcmeInv
  BY InitGood, NextGood, PTL DEF Spec

\* The state keeps its types.
THEOREM AcmeTypes == Spec => []TypeOK
<1>1. AcmeInv => TypeOK
  BY DEF AcmeInv
<1> QED
  BY <1>1, AcmeInvariant, PTL

\* No certificate refers to a credential that is gone, although CreateACME resolves the
\* credential before it inserts the reference and Rename writes back what it has read.
THEOREM NoDeadReference == Spec => []ReferencesExist
<1>1. AcmeInv => ReferencesExist
  BY DEF AcmeInv
<1> QED
  BY <1>1, AcmeInvariant, PTL

\* No certificate that is alone under its domain and kind of key shows one that was issued
\* for another's domains, whatever commands on other certificates run in between.
THEOREM DomainsAreOwn == Spec => []OwnDomains
<1>1. AcmeInv => OwnDomains
  BY DEF AcmeInv, Good, Own, OwnDomains
<1> QED
  BY <1>1, AcmeInvariant, PTL

\* What a step revokes at the CA is, for a certificate that is alone, the serial number
\* the record shows while it is active, and one that was issued for this certificate.
LEMMA RevokesShown ==
    ASSUME AcmeInv, [Next]_vars, NEW n \in revoked' \ revoked
    PROVE  \E c \in Certs :
              /\ run[c].pc = "revoke"
              /\ Alone(c) => issuedFor[n] = c /\ (row[c].status = "active" => row[c].serial = n)
<1>1. PICK c \in Certs : RevokeCommand(c)
  BY DEF Next, vars, Handle, CreateACME, Get, Refuse, Begin, Revoke, Delete, Resolve, Insert,
     Command, Install, Publish, Fail, SetRevoked, Restart
<1>2. run[c].pc = "revoke" /\ n = home[Slot(c)] /\ home[Slot(c)] # 0
  BY <1>1, GoodParts DEF RevokeCommand, Filed
<1> QED
  BY <1>2, GoodParts DEF Own

\* A revocation revokes what the active record shows, whatever renewals that failed or
\* were interrupted have filed since the status was checked.
THEOREM RevocationIsShown == Spec => RevokesWhatIsShown
<1> DEFINE A == \A n \in revoked' \ revoked :
                   \E c \in Certs :
                      /\ run[c].pc = "revoke"
                      /\ Alone(c) => issuedFor[n] = c
                                     /\ (row[c].status = "active" => row[c].serial = n)
<1>1. AcmeInv /\ [Next]_vars => [A]_vars
  BY RevokesShown
<1> QED
  BY <1>1, InitGood, NextGood, PTL DEF Spec, RevokesWhatIsShown
=============================================================================
