------------------------------- MODULE MCFiles -------------------------------
(* Two small instances checked in one run, side by side: the media          *)
(* derivation of a version and the recycle bin of the platform's files.     *)
(* A behaviour of the run is a behaviour of one of them, the other rests.   *)
EXTENDS MediaDerivation, FileLifecycle, TLC

CONSTANTS k1, k2, k3, w1, w2, c1, c2, c3

MediaAtRest ==
  /\ task = [k \in Candidates |-> NoTask]
  /\ worker = [w \in Workers |-> Resting]
  /\ bound = {} /\ refs = {} /\ gone = {} /\ disk = {}
  /\ mishaps = 0 /\ overlapped = FALSE /\ unanswered = {}
FileAtRest ==
  /\ info = "absent" /\ used = FALSE /\ place = "none" /\ rowOwner = NoClient
  /\ client = [c \in Clients |-> "idle"]
  /\ scan = "none" /\ finding = "none"
  /\ fileFaults = 0 /\ takenBack = FALSE /\ disturbed = FALSE

MCInit ==
  \/ Init /\ FileAtRest
  \/ MediaAtRest /\ FileInit
MCNext ==
  \/ Next /\ FileAtRest /\ UNCHANGED fileVars
  \/ FileNext /\ MediaAtRest /\ UNCHANGED mediaVars
MCSpec == MCInit /\ [][MCNext]_<<mediaVars, fileVars>> /\ Fairness /\ FileFairness
=============================================================================
