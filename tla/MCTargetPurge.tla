---------------------------- MODULE MCTargetPurge ----------------------------
(* Small instances of the forced deletion for TLC.                         *)
EXTENDS TargetPurge, TLC
CONSTANTS s1, s2, s3, c1, c2
OldShots == (s1 :> 1) @@ (s2 :> 2) @@ (s3 :> 0)
=============================================================================
