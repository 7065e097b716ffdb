--------------------------- MODULE ApplicationLeader ---------------------------
(***************************************************************************)
(* Which application process runs the scheduler.  The processes compete    *)
(* for one Redis key with a time to live; the holder renews it, starts the *)
(* scheduler and its internal jobs, and gives all of that up when the key  *)
(* is gone, when a renewal raises, or when the process shuts down.         *)
(*                                                                         *)
(* A process is one event loop: what it does between two awaits is one     *)
(* step.  Its tasks are the start of the application, the renewal, the     *)
(* loop that competes for the key, the handler of a loss and the shutdown. *)
(***************************************************************************)
EXTENDS Naturals

CONSTANTS
  Procs,         \* application processes
  MaxMishaps,    \* bound: stalls, Redis errors, failed loads and kills
  Free, Ghost    \* model values: no owner; the token of a process that died

ASSUME LeaderAssumption == MaxMishaps \in Nat /\ {Free, Ghost} \cap Procs = {}

VARIABLES
  lock,       \* owner token in the Redis key
  isLeader,   \* _is_leader
  scheduler,  \* the scheduler is running
  renewal,    \* the renewal task is alive
  main,       \* the start and the shutdown of the application
  race,       \* the reacquire loop; "cut" when the shutdown cancelled it half-way
  lossTask,   \* _handle_lock_lost: "none", "stop" or "drain"
  job,        \* an internal job works on an operation
  mishaps

leaderVars == <<lock, isLeader, scheduler, renewal, main, race, lossTask, job, mishaps>>

Set(f, p, v) == f' = [f EXCEPT ![p] = v]
\* SET NX, or the key already carries the token of this process.
Acquirable(p) == lock \in {Free, p}
LockWithout(p) == IF lock = p THEN Free ELSE lock

NoNewRenewal(p) == UNCHANGED renewal
\* start_application_lock_renewal: a task that has ended is replaced.
StartRenewal(p) == Set(renewal, p, TRUE)

\* The internal jobs are registered when the jobs of the database are loaded.
Loading(p) == main[p] = "loading" \/ race[p] \in {"loading", "cut"}
\* _is_closing
IsClosing(p) == main[p] \in {"closing", "stopping", "draining", "closed"}

-----------------------------------------------------------------------------
(* Start of the application.                                               *)

\* lifespan: the key is taken and renewed before the plugins are started.
EarlyAcquire(p) ==
  /\ main[p] = "new"
  /\ Set(main, p, "booting")
  /\ IF Acquirable(p) THEN lock' = p /\ StartRenewal(p)
                      ELSE UNCHANGED <<lock, renewal>>
  /\ UNCHANGED <<isLeader, scheduler, race, lossTask, job, mishaps>>

\* init_system_scheduler, up to the load of the jobs from the database.
InitScheduler(p) ==
  /\ main[p] = "booting"
  /\ IF Acquirable(p)
     THEN /\ lock' = p
          /\ StartRenewal(p) /\ Set(isLeader, p, TRUE) /\ Set(scheduler, p, TRUE)
          /\ Set(main, p, "loading")
          /\ UNCHANGED race
     ELSE /\ Set(main, p, "serving") /\ Set(race, p, "sleeping")
          /\ UNCHANGED <<lock, renewal, isLeader, scheduler>>
  /\ UNCHANGED <<lossTask, job, mishaps>>

BootLoaded(p) ==
  /\ main[p] = "loading"
  /\ Set(main, p, "serving")
  /\ UNCHANGED <<lock, isLeader, scheduler, renewal, race, lossTask, job, mishaps>>

\* The start fails: leadership and renewal are given up, then the lease, and
\* then the error ends the start of the application.
BootLoadFails(p) ==
  /\ main[p] = "loading" /\ mishaps < MaxMishaps
  /\ Set(main, p, "releasing") /\ Set(isLeader, p, FALSE) /\ Set(renewal, p, FALSE)
  /\ mishaps' = mishaps + 1
  /\ UNCHANGED <<lock, scheduler, race, lossTask, job>>
BootReleases(p) ==
  /\ main[p] = "releasing"
  /\ Set(main, p, "failed")
  /\ lock' = LockWithout(p)
  /\ UNCHANGED <<isLeader, scheduler, renewal, race, lossTask, job, mishaps>>

-----------------------------------------------------------------------------
(* Renewal and loss.                                                       *)

\* on_lock_lost: nothing when the process does not call itself leader.
LoseLeadership(p) ==
  /\ Set(renewal, p, FALSE)
  /\ IF isLeader[p]
     THEN Set(isLeader, p, FALSE) /\ Set(lossTask, p, "stop")
     ELSE UNCHANGED <<isLeader, lossTask>>
  /\ UNCHANGED <<lock, scheduler, main, race, job>>

NotOwner(p) == lock # p
RenewalRefused(p) ==
  /\ renewal[p] /\ NotOwner(p)
  /\ LoseLeadership(p)
  /\ UNCHANGED mishaps
\* An error counts as a loss although the key may still be there.
RenewalRaises(p) ==
  /\ renewal[p] /\ mishaps < MaxMishaps
  /\ LoseLeadership(p)
  /\ mishaps' = mishaps + 1

\* _handle_lock_lost shuts the scheduler down, waits for the internal jobs and
\* only then competes again, unless a loop is already there.
LossStopsScheduler(p) ==
  /\ lossTask[p] = "stop"
  /\ Set(scheduler, p, FALSE) /\ Set(lossTask, p, "drain")
  /\ UNCHANGED <<lock, isLeader, renewal, main, race, job, mishaps>>

NothingToWaitFor(p) == TRUE
Drained(p) == ~job[p]
LossCompetesAgain(p) ==
  /\ lossTask[p] = "drain" /\ Drained(p)
  /\ Set(lossTask, p, "none")
  /\ IF ~IsClosing(p) /\ race[p] = "none"
     THEN Set(race, p, "sleeping") ELSE UNCHANGED race
  /\ UNCHANGED <<lock, isLeader, scheduler, renewal, main, job, mishaps>>

-----------------------------------------------------------------------------
(* The reacquire loop.                                                     *)

\* The loop sleeps for seconds: a handler that has nothing to wait for is done
\* by then, one that waits for a job may still be there.  A request for the key
\* that is on its way when the shutdown begins is answered all the same, and
\* nothing looks at _is_closing after it.
SleptEnough(p) == lossTask[p] = "none" \/ (lossTask[p] = "drain" /\ job[p])
AskForLock(p) ==
  /\ race[p] = "sleeping" /\ SleptEnough(p) /\ Acquirable(p)
  /\ lock' = p
  /\ Set(race, p, "won")
  /\ UNCHANGED <<isLeader, scheduler, renewal, main, lossTask, job, mishaps>>

\* _activate_scheduler_as_leader: scheduler.start() raises when it still runs,
\* and then the lease goes back.
LoopActivates(p) ==
  /\ race[p] = "won"
  /\ IF scheduler[p]
     THEN /\ Set(isLeader, p, FALSE) /\ Set(renewal, p, FALSE)
          /\ Set(race, p, "releasing")
          /\ UNCHANGED scheduler
     ELSE /\ Set(isLeader, p, TRUE) /\ StartRenewal(p) /\ Set(scheduler, p, TRUE)
          /\ Set(race, p, "loading")
  /\ UNCHANGED <<lock, main, lossTask, job, mishaps>>

LoopLoaded(p) ==
  /\ race[p] = "loading"
  /\ Set(race, p, "none")
  /\ UNCHANGED <<lock, isLeader, scheduler, renewal, main, lossTask, job, mishaps>>

\* The scheduler that was started keeps running.
LoopLoadFails(p) ==
  /\ race[p] = "loading" /\ mishaps < MaxMishaps
  /\ Set(race, p, "releasing") /\ Set(isLeader, p, FALSE) /\ Set(renewal, p, FALSE)
  /\ mishaps' = mishaps + 1
  /\ UNCHANGED <<lock, scheduler, main, lossTask, job>>
LoopReleases(p) ==
  /\ race[p] = "releasing"
  /\ Set(race, p, IF IsClosing(p) THEN "none" ELSE "sleeping")
  /\ lock' = LockWithout(p)
  /\ UNCHANGED <<isLeader, scheduler, renewal, main, lossTask, job, mishaps>>

-----------------------------------------------------------------------------
(* Internal jobs, shutdown, the environment.                               *)

\* run_shot_grid_...: returns at once unless the process is the leader.
JobStarts(p) ==
  /\ scheduler[p] /\ isLeader[p] /\ ~Loading(p) /\ ~job[p]
  /\ Set(job, p, TRUE)
  /\ UNCHANGED <<lock, isLeader, scheduler, renewal, main, race, lossTask, mishaps>>
JobEnds(p) ==
  /\ job[p]
  /\ Set(job, p, FALSE)
  /\ UNCHANGED <<lock, isLeader, scheduler, renewal, main, race, lossTask, mishaps>>

\* close_system_scheduler, also after a failed start: leadership first; then it
\* waits for the end of the renewal it cancels, if there is one.
BeginClose(p) ==
  /\ main[p] \in {"booting", "serving", "failed"}
  /\ Set(isLeader, p, FALSE) /\ Set(renewal, p, FALSE)
  /\ IF renewal[p] THEN Set(main, p, "closing") /\ UNCHANGED race
                   ELSE Set(main, p, "stopping") /\ Set(race, p, "none")
  /\ UNCHANGED <<lock, scheduler, lossTask, job, mishaps>>
\* Only now is the loop cancelled, wherever it is: what it has set in the
\* meantime stays, its own except clause does not see a cancellation.
CancelLoop(p) ==
  /\ main[p] = "closing"
  /\ Set(main, p, "stopping")
  /\ Set(race, p, IF race[p] = "loading" THEN "cut" ELSE "none")
  /\ UNCHANGED <<lock, isLeader, scheduler, renewal, lossTask, job, mishaps>>
\* Then come the handler and the scheduler, ...
CloseStopsScheduler(p) ==
  /\ main[p] = "stopping"
  /\ Set(main, p, "draining") /\ Set(lossTask, p, "none") /\ Set(scheduler, p, FALSE)
  /\ Set(race, p, "none")
  /\ UNCHANGED <<lock, isLeader, renewal, job, mishaps>>
\* ... and the lease when the jobs have ended, before the engines are closed.
CloseReleases(p) ==
  /\ main[p] = "draining" /\ Drained(p)
  /\ Set(main, p, "closed") /\ Set(isLeader, p, FALSE)
  /\ lock' = LockWithout(p)
  /\ UNCHANGED <<scheduler, renewal, race, lossTask, job, mishaps>>

\* The key outlives its holder by its time to live; a live holder loses it
\* only when its event loop or Redis stalls for longer.
LockExpires ==
  /\ lock # Free
  /\ IF lock \in Procs /\ renewal[lock]
     THEN mishaps < MaxMishaps /\ mishaps' = mishaps + 1
     ELSE UNCHANGED mishaps
  /\ lock' = Free
  /\ UNCHANGED <<isLeader, scheduler, renewal, main, race, lossTask, job>>

\* The supervisor starts the process again, with a new token.
Die(p) ==
  /\ main[p] # "new" /\ mishaps < MaxMishaps
  /\ lock' = IF lock = p THEN Ghost ELSE lock
  /\ Set(main, p, "new") /\ Set(race, p, "none") /\ Set(lossTask, p, "none")
  /\ Set(isLeader, p, FALSE) /\ Set(scheduler, p, FALSE) /\ Set(renewal, p, FALSE)
  /\ Set(job, p, FALSE)
  /\ mishaps' = mishaps + 1

-----------------------------------------------------------------------------
LeaderInit ==
  /\ lock = Free
  /\ isLeader = [p \in Procs |-> FALSE]
  /\ scheduler = [p \in Procs |-> FALSE]
  /\ renewal = [p \in Procs |-> FALSE]
  /\ main = [p \in Procs |-> "new"]
  /\ race = [p \in Procs |-> "none"]
  /\ lossTask = [p \in Procs |-> "none"]
  /\ job = [p \in Procs |-> FALSE]
  /\ mishaps = 0

TaskStep(p) ==
  \/ EarlyAcquire(p) \/ InitScheduler(p) \/ BootLoaded(p) \/ BootReleases(p)
  \/ RenewalRefused(p) \/ LossStopsScheduler(p) \/ LossCompetesAgain(p)
  \/ AskForLock(p) \/ LoopActivates(p) \/ LoopLoaded(p) \/ LoopReleases(p)
  \/ JobStarts(p) \/ JobEnds(p)
  \/ CancelLoop(p) \/ CloseStopsScheduler(p) \/ CloseReleases(p)
LeaderNext ==
  \/ \E p \in Procs : \/ TaskStep(p)
                      \/ BootLoadFails(p) \/ RenewalRaises(p) \/ LoopLoadFails(p)
                      \/ BeginClose(p) \/ Die(p)
  \/ LockExpires

\* Every task that can go on does so: the event loop is fair to each of them.
LeaderFairness ==
  /\ \A p \in Procs :
       /\ WF_leaderVars(RenewalRefused(p))
       /\ WF_leaderVars(LossStopsScheduler(p) \/ LossCompetesAgain(p))
       /\ WF_leaderVars(JobEnds(p))
       /\ WF_leaderVars(CancelLoop(p) \/ CloseStopsScheduler(p) \/ CloseReleases(p))
LeaderSpec == LeaderInit /\ [][LeaderNext]_leaderVars /\ LeaderFairness

-----------------------------------------------------------------------------
(* Properties.                                                             *)

LeaderTypeOK ==
  /\ lock \in Procs \cup {Free, Ghost}
  /\ isLeader \in [Procs -> BOOLEAN] /\ scheduler \in [Procs -> BOOLEAN]
  /\ renewal \in [Procs -> BOOLEAN] /\ job \in [Procs -> BOOLEAN]
  /\ main \in [Procs -> {"new", "booting", "loading", "releasing", "failed", "serving",
                         "closing", "stopping", "draining", "closed"}]
  /\ race \in [Procs -> {"none", "sleeping", "won", "loading", "releasing", "cut"}]
  /\ lossTask \in [Procs -> {"none", "stop", "drain"}]
  /\ mishaps \in 0..MaxMishaps

\* A process that calls itself leader either still owns the key or has a
\* renewal task that is going to find out: there is no leader that would never
\* notice that another process has taken over, whatever started or failed.
LeadersAreWatched == \A p \in Procs : isLeader[p] => renewal[p]

\* When a process starts its scheduler again, the job it was running as the
\* former leader has ended: two batches of one process never overlap.
SchedulerStartsDrained ==
  [][\A p \in Procs : ~scheduler[p] /\ scheduler'[p] => ~job[p]]_leaderVars

\* When the shutdown returns and the engines are closed, no job, scheduler or
\* loop is left that would use them, the process is no leader any more, and the
\* key is not its own, whatever its loop was doing when the shutdown began.  A
\* renewal of a leadership the loop won meanwhile, and its handler, may be left.
ClosedMeansDrained ==
  \A p \in Procs : main[p] = "closed" =>
    ~job[p] /\ ~scheduler[p] /\ ~isLeader[p] /\ race[p] = "none" /\ lock # p

\* A leader whose key is gone stops its scheduler, unless it gets the key back.
LossIsNoticed ==
  \A p \in Procs :
    (isLeader[p] /\ ~Loading(p) /\ lock # p) ~> (~scheduler[p] \/ lock = p)

\* Leadership passes on cleanly: a loss is noticed, and what the process began
\* as the leader has ended before it begins anew.
LeadershipPasses == SchedulerStartsDrained /\ LossIsNoticed

\* Whoever leads will learn of its loss, and whoever is closed has let go.
LeadersLetGo == LeadersAreWatched /\ ClosedMeansDrained
=============================================================================
