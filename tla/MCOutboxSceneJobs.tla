-------------------------- MODULE MCOutboxSceneJobs --------------------------
(* Three small instances checked in one run, side by side: the directory    *)
(* outbox with a worker in two processes, the shots of a scene whose        *)
(* renumberings it carries out, and the scheduler of the leader, which runs *)
(* such workers among the administrators' jobs.  They share no state here;  *)
(* a behaviour of the run is a behaviour of one while the others rest.      *)
EXTENDS MCStorageOutbox, SceneShots, JobSync

CONSTANTS p1, p2, s1, s2, s3

VARIABLE part

\* For a part that rests throughout one initial state is enough.
SideInit ==
  /\ part \in {"outbox", "scene", "jobs"}
  /\ Init /\ SceneInit /\ JobInit
  /\ part # "scene" => ActiveShots = {}
  /\ part # "jobs" => row = NotReading("no").list
SideNext ==
  \/ part = "outbox" /\ UNCHANGED <<sceneVars, jobVars, part>> /\ Next
  \/ part = "scene" /\ UNCHANGED <<vars, jobVars, part>> /\ SceneNext
  \/ part = "jobs" /\ UNCHANGED <<vars, sceneVars, part>> /\ JobNext
SideSpec == SideInit /\ [][SideNext]_<<vars, sceneVars, jobVars, part>>
=============================================================================
