---------------------------- MODULE ProjectPurge ----------------------------
(***************************************************************************)
(* The permanent deletion of projects: the purge transaction that removes  *)
(* the project from the database and queues the deletion of its directory, *)
(* the purge worker (which does take over an expired claim, and is fenced  *)
(* by owner and attempt), and the directory initialization of the projects *)
(* that are created at the same NAS path before and afterwards.            *)
(***************************************************************************)
EXTENDS Integers, FiniteSets

CONSTANTS
  Projects,      \* projects of one name and type: they share one NAS path
  Workers,       \* scheduler batches, one claimed row each
  MaxAttempts,   \* max_attempts of the storage worker configuration
  MaxFaults,     \* bound: crashes, late heartbeats and database errors
  NoWorker, NoProject, Unmarked   \* model values

ASSUME PurgeAssumption ==
  /\ MaxAttempts \in Nat \ {0} /\ MaxFaults \in Nat
  /\ NoWorker \notin Workers
  /\ {NoProject, Unmarked} \cap Projects = {}

VARIABLES
  row,     \* sg_project: "absent", "live" or "purged"
  dirOp,   \* the newest directory operation of the project
  purge,   \* sg_project_purge
  worker,  \* what each worker is doing
  disk,    \* NAS: whose owner marker the directory at the path carries
  faults   \* faults so far

vars == <<row, dirOp, purge, worker, disk, faults>>

NoPurge == [status |-> "none", attempt |-> 0, owner |-> NoWorker,
            lease |-> FALSE, due |-> FALSE]
Idle == [pc |-> "idle", project |-> NoProject, attempt |-> 0, retryable |-> TRUE]
Purging == {"purge", "lost", "broken", "gone", "failed"}
Initializing == {"make", "mark", "ready", "conflict"}

-----------------------------------------------------------------------------
(* The API: create a project, purge a project.                             *)

\* create_project: the path must be free among the storage rows, which says
\* nothing of the purges that still have to delete it.
CreateProject(p) ==
  /\ row[p] = "absent"
  /\ \A q \in Projects : row[q] # "live"
  /\ row' = [row EXCEPT ![p] = "live"]
  /\ dirOp' = [dirOp EXCEPT ![p] = "pending"]
  /\ UNCHANGED <<purge, worker, disk, faults>>

RuntimeActive(p) == dirOp[p] = "processing"

\* purge_project: refused while a claimed operation may still be running; one
\* transaction deletes the project with its operations and queues the purge.
PurgeProject(p) ==
  /\ row[p] = "live"
  /\ ~RuntimeActive(p)
  /\ row' = [row EXCEPT ![p] = "purged"]
  /\ dirOp' = [dirOp EXCEPT ![p] = "none"]
  /\ purge' = [purge EXCEPT ![p] = [NoPurge EXCEPT !.status = "pending", !.due = TRUE]]
  /\ UNCHANGED <<worker, disk, faults>>

-----------------------------------------------------------------------------
(* The directory worker, as far as it touches the project directory.       *)

ClaimDirectory(w, p) ==
  /\ worker[w].pc = "idle"
  /\ dirOp[p] = "pending"
  /\ dirOp' = [dirOp EXCEPT ![p] = "processing"]
  /\ worker' = [worker EXCEPT ![w] = [Idle EXCEPT !.pc = "make", !.project = p]]
  /\ UNCHANGED <<row, purge, disk, faults>>

\* mkdir, or find the directory there: it must carry the project's own marker.
MakeDirectory(w) ==
  LET p == worker[w].project IN
  /\ worker[w].pc = "make"
  /\ disk' = IF disk = NoProject THEN Unmarked ELSE disk
  /\ worker' = [worker EXCEPT ![w].pc = CASE disk = NoProject -> "mark"
                                          [] disk = p -> "ready"
                                          [] OTHER -> "conflict"]
  /\ UNCHANGED <<row, dirOp, purge, faults>>

\* The marker is written after the mkdir, with O_EXCL: it fails when the
\* directory is gone again or carries somebody's marker.
MarkDirectory(w) ==
  /\ worker[w].pc = "mark"
  /\ disk' = IF disk = Unmarked THEN worker[w].project ELSE disk
  /\ worker' = [worker EXCEPT ![w].pc = IF disk = Unmarked THEN "ready" ELSE "conflict"]
  /\ UNCHANGED <<row, dirOp, purge, faults>>

\* mark_succeeded, mark_failed, or mark_retry_wait, which queues it again.
FinishDirectory(w) ==
  /\ worker[w].pc \in {"ready", "conflict"}
  /\ \E status \in IF worker[w].pc = "ready" THEN {"succeeded", "pending"}
                   ELSE {"failed", "pending"} :
       dirOp' = [dirOp EXCEPT ![worker[w].project] = status]
  /\ worker' = [worker EXCEPT ![w] = Idle]
  /\ UNCHANGED <<row, purge, disk, faults>>

-----------------------------------------------------------------------------
(* The purge worker.                                                       *)

\* Unlike the directory outbox, a claim whose lease has expired is due again.
Due(p) ==
  \/ purge[p].status = "pending"
  \/ purge[p].status = "retry_wait" /\ purge[p].due
  \/ purge[p].status = "processing" /\ ~purge[p].lease

ClaimPurge(w, p) ==
  LET attempt == purge[p].attempt + 1 IN
  /\ worker[w].pc = "idle"
  /\ Due(p)
  /\ purge' = [purge EXCEPT ![p] = [status |-> "processing", attempt |-> attempt,
                                    owner |-> w, lease |-> TRUE, due |-> FALSE]]
  /\ worker' = [worker EXCEPT ![w] =
       IF attempt > MaxAttempts
       THEN [pc |-> "failed", project |-> p, attempt |-> attempt, retryable |-> FALSE]
       ELSE [pc |-> "purge", project |-> p, attempt |-> attempt, retryable |-> TRUE]]
  /\ UNCHANGED <<row, dirOp, disk, faults>>

OwnedByAnyAttempt(w) == purge[worker[w].project].status = "processing"
\* The fence of every write-back: status, owner and attempt.
Owned(w) ==
  LET r == purge[worker[w].project] IN
  /\ r.status = "processing"
  /\ r.owner = w
  /\ r.attempt = worker[w].attempt

\* The heartbeat is refused: the lease has expired or somebody took over.
RenewRefused(w) ==
  /\ worker[w].pc = "purge"
  /\ ~(Owned(w) /\ purge[worker[w].project].lease)
  /\ worker' = [worker EXCEPT ![w].pc = "lost"]
  /\ UNCHANGED <<row, dirOp, purge, disk, faults>>

RenewRaises(w) ==
  /\ worker[w].pc = "purge"
  /\ faults < MaxFaults
  /\ worker' = [worker EXCEPT ![w].pc = "broken"]
  /\ faults' = faults + 1
  /\ UNCHANGED <<row, dirOp, purge, disk>>

\* A refused heartbeat drops the result, a raising one is a failure.
Removed(v) ==
  CASE v.pc = "purge" -> [v EXCEPT !.pc = "gone"]
    [] v.pc = "broken" -> [v EXCEPT !.pc = "failed"]
    [] v.pc = "lost" -> Idle

PurgeIgnoresErrors(w) ==
  /\ worker[w].pc \in {"purge", "lost", "broken"}
  /\ disk' \in {disk, NoProject}
  /\ worker' = [worker EXCEPT ![w] = Removed(worker[w])]
  /\ UNCHANGED <<row, dirOp, purge, faults>>

\* rmtree of the frozen path, whoever's marker it carries, then the exclusive
\* files.
PurgeSucceeds(w) ==
  /\ worker[w].pc \in {"purge", "lost", "broken"}
  /\ disk' = NoProject
  /\ worker' = [worker EXCEPT ![w] = Removed(worker[w])]
  /\ UNCHANGED <<row, dirOp, purge, faults>>

\* An error, which may come after a part of the tree has been removed.
PurgeFails(w, retryable) ==
  /\ worker[w].pc \in {"purge", "lost", "broken"}
  /\ disk' \in {disk} \cup IF disk = NoProject THEN {} ELSE {Unmarked, NoProject}
  /\ worker' = [worker EXCEPT ![w].pc = "failed", ![w].retryable = retryable]
  /\ UNCHANGED <<row, dirOp, purge, faults>>

Released(p, status) ==
  [purge EXCEPT ![p].status = status, ![p].owner = NoWorker, ![p].lease = FALSE]

MarkSucceeded(w) ==
  /\ worker[w].pc = "gone"
  /\ Owned(w)
  /\ purge' = Released(worker[w].project, "succeeded")
  /\ worker' = [worker EXCEPT ![w] = Idle]
  /\ UNCHANGED <<row, dirOp, disk, faults>>

Terminal(retryable, attempt) == ~retryable \/ attempt >= MaxAttempts

RecordFailure(w) ==
  LET terminal == Terminal(worker[w].retryable, worker[w].attempt) IN
  /\ worker[w].pc = "failed"
  /\ Owned(w)
  /\ purge' = Released(worker[w].project, IF terminal THEN "failed" ELSE "retry_wait")
  /\ worker' = [worker EXCEPT ![w] = Idle]
  /\ UNCHANGED <<row, dirOp, disk, faults>>

\* The fence finds no row: outcome "lease_lost".
LateResult(w) ==
  /\ worker[w].pc \in {"gone", "failed"}
  /\ ~Owned(w)
  /\ worker' = [worker EXCEPT ![w] = Idle]
  /\ UNCHANGED <<row, dirOp, purge, disk, faults>>

\* The process dies, or the write-back transaction fails: nothing is written.
Crash(w) ==
  /\ worker[w].pc # "idle"
  /\ faults < MaxFaults
  /\ worker' = [worker EXCEPT ![w] = Idle]
  /\ faults' = faults + 1
  /\ UNCHANGED <<row, dirOp, purge, disk>>

\* A lease held by nobody runs out; one that is being renewed only by a fault.
LeaseExpires(p) ==
  /\ purge[p].lease
  /\ IF \E w \in Workers : worker[w].pc \in Purging /\ worker[w].project = p /\ Owned(w)
     THEN faults < MaxFaults /\ faults' = faults + 1
     ELSE UNCHANGED faults
  /\ purge' = [purge EXCEPT ![p].lease = FALSE]
  /\ UNCHANGED <<row, dirOp, worker, disk>>

RetryTimeComes(p) ==
  /\ purge[p].status = "retry_wait" /\ ~purge[p].due
  /\ purge' = [purge EXCEPT ![p].due = TRUE]
  /\ UNCHANGED <<row, dirOp, worker, disk, faults>>

-----------------------------------------------------------------------------
Init ==
  /\ row = [p \in Projects |-> "absent"]
  /\ dirOp = [p \in Projects |-> "none"]
  /\ purge = [p \in Projects |-> NoPurge]
  /\ worker = [w \in Workers |-> Idle]
  /\ disk = NoProject
  /\ faults = 0

DirectoryStep(w) ==
  MakeDirectory(w) \/ MarkDirectory(w) \/ FinishDirectory(w)
PurgeIo(w) == PurgeSucceeds(w) \/ \E retryable \in BOOLEAN : PurgeFails(w, retryable)
WriteBack(w) == MarkSucceeded(w) \/ RecordFailure(w) \/ LateResult(w)

Next ==
  \/ \E p \in Projects : \/ CreateProject(p) \/ PurgeProject(p)
                         \/ LeaseExpires(p) \/ RetryTimeComes(p)
  \/ \E w \in Workers, p \in Projects : ClaimDirectory(w, p) \/ ClaimPurge(w, p)
  \/ \E w \in Workers : \/ DirectoryStep(w) \/ RenewRefused(w) \/ RenewRaises(w)
                        \/ PurgeIo(w) \/ WriteBack(w) \/ Crash(w)

Spec == Init /\ [][Next]_vars

\* The leader's job runs the purge batch first and the directory batch last,
\* again and again; a file system call ends; time passes.
Fairness ==
  /\ \A w \in Workers : WF_vars(DirectoryStep(w)) /\ WF_vars(PurgeIo(w))
                        /\ WF_vars(WriteBack(w))
  /\ \A p \in Projects : /\ SF_vars(\E w \in Workers : ClaimPurge(w, p))
                         /\ WF_vars(LeaseExpires(p))
                         /\ WF_vars(RetryTimeComes(p))

FairSpec == Spec /\ Fairness

-----------------------------------------------------------------------------
(* Properties.                                                             *)

\* The values each part of the state ranges over; a claim counts at most one
\* attempt beyond the limit for each lost claim, and then ends in "failed".
TypeOK ==
  /\ row \in [Projects -> {"absent", "live", "purged"}]
  /\ dirOp \in [Projects -> {"none", "pending", "processing", "succeeded", "failed"}]
  /\ purge \in [Projects ->
       [status : {"none", "pending", "processing", "retry_wait", "succeeded", "failed"},
        attempt : 0..(MaxAttempts + MaxFaults), owner : Workers \cup {NoWorker},
        lease : BOOLEAN, due : BOOLEAN]]
  /\ worker \in [Workers ->
       [pc : Purging \cup Initializing \cup {"idle"}, project : Projects \cup {NoProject},
        attempt : Nat, retryable : BOOLEAN]]
  /\ disk \in Projects \cup {NoProject, Unmarked}
  /\ faults \in 0..MaxFaults

QueueStage(status) ==
  CASE status = "none" -> "absent"
    [] status \in {"pending", "retry_wait"} -> "queued"
    [] status = "processing" -> "claimed"
    [] status = "succeeded" -> "done"
    [] status = "failed" -> "dead"
QueueState == [p \in Projects |-> QueueStage(purge[p].status)]
Queue == INSTANCE LeaseQueue WITH
  Jobs <- Projects, Takeover <- TRUE, state <- QueueState,
  epoch <- [p \in Projects |-> purge[p].attempt],
  running <- [w \in Workers |-> IF worker[w].pc \in Purging
                                 THEN <<worker[w].project, worker[w].attempt>>
                                 ELSE <<>>]

\* The purge queue is a lease queue with takeover: a purge that was taken over
\* is out of the first worker's hands, whose result is dropped however late it
\* comes, and a finished purge is never run again.
ImplementsQueue == Queue!QueueSpec

\* A purge that succeeded stays done: its project's directory is gone and no
\* directory operation that was running at the time brings it back.
SucceededMeansGone ==
  \A p \in Projects : purge[p].status = "succeeded" => disk # p

\* Nobody is still creating directories for a project that has been purged.
PurgedProjectIsQuiet ==
  \A p \in Projects, w \in Workers :
    row[p] = "purged" /\ worker[w].project = p => worker[w].pc \notin Initializing

\* Every purge comes to an end, also when the worker dies in the middle of it:
\* the expired claim is taken over until it succeeds or its attempts run out.
PurgeSettles ==
  \A p \in Projects :
    purge[p].status # "none" ~> purge[p].status \in {"succeeded", "failed"}

\* The project is gone for good once its purge has succeeded, and nobody works
\* for a purged project.
PurgeSafe == TypeOK /\ SucceededMeansGone /\ PurgedProjectIsQuiet

\* The queue works: it is a lease queue with takeover, and every purge ends.
QueueWorks == ImplementsQueue /\ PurgeSettles
=============================================================================
