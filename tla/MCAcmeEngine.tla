----------------------------- MODULE MCAcmeEngine -----------------------------
(***************************************************************************)
(* Instances of AcmeEngine for TLC: two certificates for one domain.       *)
(***************************************************************************)
EXTENDS AcmeEngine, TLC

CONSTANTS c1, c2, k1, n1, n2, s1, e1, example

OneDomain == (c1 :> example) @@ (c2 :> example)

\* An ECC key and an RSA key: acme.sh keeps them apart.
EccAndRsa == (c1 :> "ec-256") @@ (c2 :> "rsa-2048")
=============================================================================
