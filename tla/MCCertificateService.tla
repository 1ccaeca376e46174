------------------------ MODULE MCCertificateService ------------------------
(***************************************************************************)
(* Instances of CertificateService for TLC.                                *)
(***************************************************************************)
EXTENDS CertificateService, TLC

CONSTANTS c1, c2, p1, p2, p3, d1

\* One certificate only, so that all requests meet on it.
OneDir == c1 :> d1

\* The second certificate asks for the directory of the first.
SharedDir == (c1 :> d1) @@ (c2 :> d1)

\* The handlers are the same program: the slots are interchangeable.
Slots == Permutations(Requests)
=============================================================================
