------------------------ MODULE MCVersionSubmission ------------------------
(* Small instances of VersionSubmission for TLC.                            *)
EXTENDS VersionSubmission, TLC
CONSTANTS w1, w2
TwoWorkers == {w1, w2}
=============================================================================
