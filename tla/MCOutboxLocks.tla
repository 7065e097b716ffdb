----------------------------- MODULE MCOutboxLocks -----------------------------
(* Two small instances checked in one run, side by side: the directory      *)
(* outbox during a renumbering, and the row locks of the transactions       *)
(* around the outbox.  They share no state here; a behaviour of the run is  *)
(* a behaviour of one of them while the other rests.                        *)
EXTENDS MCStorageOutbox, DirectoryLocks

CONSTANTS t1, t2, t3, o1, o2

VARIABLE part

SideInit ==
  /\ part \in {"outbox", "locks"}
  /\ Init /\ LockInit
  /\ part # "locks" => failed = {}
SideNext ==
  \/ part = "outbox" /\ UNCHANGED <<lockVars, part>> /\ Next
  \/ part = "locks" /\ UNCHANGED <<vars, part>> /\ LockNext
SideSpec == SideInit /\ [][SideNext]_<<vars, lockVars, part>>
=============================================================================
