---------------------------- MODULE MCRenewalScan ----------------------------
(***************************************************************************)
(* Instances of RenewalScan for TLC.                                       *)
(***************************************************************************)
EXTENDS RenewalScan

CONSTANTS c1, c2
=============================================================================
