-------------------------- MODULE PublishedDirectory --------------------------
(***************************************************************************)
(* What a service that mounts an output directory may rely on: the         *)
(* directory shows one complete version or it is not there, it never turns *)
(* into another version without being absent in between, and a version     *)
(* only disappears once it has been copied to the backups.  Only a removal *)
(* leaves a directory that misses files.                                   *)
(***************************************************************************)
CONSTANTS Versions,  \* the certificates that may be published
          Nothing,   \* the directory does not exist
          Broken     \* the directory misses files

VARIABLES shown,     \* what the directory shows
          kept       \* versions below /data/backups

ShowNothing == shown = Nothing /\ kept = {}

\* A version becomes visible, or becomes visible again, with all its files.
Show(v) == shown = Nothing /\ shown' = v /\ UNCHANGED kept

Keep == shown \in Versions /\ kept' = kept \cup {shown} /\ UNCHANGED shown

Withdraw == shown \in kept /\ shown' = Nothing /\ UNCHANGED kept

StartRemoval  == shown \in kept /\ shown' = Broken /\ UNCHANGED kept
FinishRemoval == shown = Broken /\ shown' = Nothing /\ UNCHANGED kept

Next ==
    \/ \E v \in Versions : Show(v)
    \/ Keep \/ Withdraw \/ StartRemoval \/ FinishRemoval

Spec == ShowNothing /\ [][Next]_<<shown, kept>>
=============================================================================
