--------------------------- MODULE StorageOutbox ---------------------------
(***************************************************************************)
(* The directory outbox of one project (table sg_storage_operation): who   *)
(* queues directory work, how the worker claims it under a lease, runs the *)
(* NAS I/O in a thread that nobody can kill, and writes the result back,   *)
(* and what that result does to the tasks and to the project's storage.    *)
(*                                                                         *)
(* One database transaction is one step, except for the transactions that  *)
(* wait for the project row lock: those read the storage status in the     *)
(* statement that waits, so the value is the one from before the wait.     *)
(***************************************************************************)
EXTENDS Integers, FiniteSets

CONSTANTS
  Workers,       \* worker coroutines, one claimed operation each
  Clients,       \* concurrent API requests that lock the project row
  Tasks,         \* production tasks
  Shots,         \* shots of the scene; each has one video task
  Assets,        \* assets; each has one image task per production item
  Episodes,      \* episodes still to be created
  Target,        \* Target[t] is the shot or the asset of task t
  LegacyShots,   \* shots whose directory existed before their task started
  LegacyAssets,  \* assets whose directory operation was queued at creation
  MaxAttempts,   \* ShotGridStorageWorkerService.MAX_ATTEMPTS
  MaxOps,        \* bound: rows ever inserted into sg_storage_operation
  MaxFaults,     \* bound: crashes, late heartbeats and database errors
  Project, Scene, NoWorker, Nothing   \* model values

Aggregates == Shots \cup Assets \cup Episodes \cup {Project, Scene}
OpIds == 1..MaxOps
Legacy == LegacyShots \cup LegacyAssets

ASSUME OutboxAssumption ==
  /\ MaxAttempts \in Nat \ {0} /\ MaxOps \in Nat /\ MaxFaults \in Nat
  /\ Target \in [Tasks -> Shots \cup Assets]
  /\ LegacyShots \subseteq Shots /\ LegacyAssets \subseteq Assets
  /\ IsFiniteSet(Legacy) /\ Cardinality(Legacy) < MaxOps
  /\ NoWorker \notin Workers
  /\ Project \notin Shots \cup Assets \cup Episodes
  /\ Scene \notin Shots \cup Assets \cup Episodes \cup {Project}
  /\ Shots \cap Assets = {} /\ Episodes \cap (Shots \cup Assets) = {}

VARIABLES
  ops,       \* sg_storage_operation
  nextOp,    \* the next operation_id
  storage,   \* sg_project_storage.storage_status
  task,      \* sg_task.task_status ("in_progress" stands for every later one)
  named,     \* sg_shot.storage_dir_name IS NOT NULL
  shotName,  \* generation of the shot's number and directory name in the DB
  shotLock,  \* sg_shot.lock_version
  worker,    \* what each worker coroutine is doing
  tx,        \* the project-locking request each client is running
  made,      \* NAS: the directory of the aggregate exists
  diskName,  \* NAS: generation of the name the shot's directory carries
  faults     \* faults so far

vars == <<ops, nextOp, storage, task, named, shotName, shotLock, worker, tx,
          made, diskName, faults>>

Active == {"pending", "processing", "retry_wait"}
OpStatus == Active \cup {"succeeded", "failed"}
Issued == 1..(nextOp - 1)

Op(type, agg, path, items, expected) ==
  [type |-> type, agg |-> agg, path |-> path, items |-> items,
   expected |-> expected, status |-> "pending", attempt |-> 0,
   owner |-> NoWorker, lease |-> FALSE, due |-> TRUE]
NoItems == [s \in Shots |-> 0]
PathOf(a) == IF a \in Shots THEN shotName[a] ELSE 0
DirectoryOp(type, a) == Op(type, a, PathOf(a), {}, NoItems)

IsLatest(i, a) ==
  /\ ops[i].agg = a
  /\ \A j \in Issued : ops[j].agg = a => j <= i
LatestStatus(a) ==
  IF \E i \in Issued : IsLatest(i, a)
  THEN ops[CHOOSE i \in Issued : IsLatest(i, a)].status
  ELSE "none"
HasActive(a) == \E i \in Issued : ops[i].agg = a /\ ops[i].status \in Active

Enqueue(op) ==
  /\ nextOp <= MaxOps
  /\ ops' = [ops EXCEPT ![nextOp] = op]
  /\ nextOp' = nextOp + 1

IsProjectInitialization(op) == op.agg = Project
IsShotRenumber(op) == op.type = "renumber_shot_directories"
CompletesTaskStart(op) == op.agg \in Shots \cup Assets

-----------------------------------------------------------------------------
(* API requests that take the project row lock.                            *)

LockFree == \A c \in Clients : tx[c].pc # "holding"
NoRequest == [pc |-> "idle", req |-> Nothing, seen |-> Nothing, latest |-> "none"]
Holding(r, seen) ==
  [pc |-> "holding", req |-> r, seen |-> seen,
   latest |-> IF r \in Tasks THEN LatestStatus(Target[r]) ELSE "none"]

\* SELECT project, storage ... FOR UPDATE OF project: the storage row is not
\* locked, so a statement that has to wait returns the row of its snapshot.
Begin(c, r) ==
  /\ tx[c].pc = "idle"
  /\ tx' = [tx EXCEPT ![c] = IF LockFree
                             THEN Holding(r, storage)
                             ELSE [NoRequest EXCEPT !.pc = "waiting",
                                                    !.req = r,
                                                    !.seen = storage]]
  /\ UNCHANGED <<ops, nextOp, storage, task, named, shotName, shotLock, worker,
                 made, diskName, faults>>

Acquire(c) ==
  /\ tx[c].pc = "waiting"
  /\ LockFree
  /\ tx' = [tx EXCEPT ![c] = Holding(tx[c].req, tx[c].seen)]
  /\ UNCHANGED <<ops, nextOp, storage, task, named, shotName, shotLock, worker,
                 made, diskName, faults>>

\* Any refusal, failed permission check or lost connection: rollback.
Abort(c) ==
  /\ tx[c].pc # "idle"
  /\ tx' = [tx EXCEPT ![c] = NoRequest]
  /\ UNCHANGED <<ops, nextOp, storage, task, named, shotName, shotLock, worker,
                 made, diskName, faults>>

StartStatus(latest) == IF latest = "succeeded" THEN "in_progress" ELSE "preparing"

\* start_task: straight to in_progress when the directory is ready, else to
\* preparing, queueing the directory when no operation was ever queued for it.
StartTask(c, t) ==
  LET a == Target[t]
      first == a \in Shots /\ ~named[a]
      latest == IF first THEN "none" ELSE tx[c].latest
  IN
  /\ tx[c].pc = "holding" /\ tx[c].req = t
  /\ tx[c].seen = "ready"
  /\ task[t] = "not_started"
  /\ task' = [task EXCEPT ![t] = StartStatus(latest)]
  /\ IF latest = "none"
     THEN Enqueue(DirectoryOp("ensure_directory", a))
     ELSE UNCHANGED <<ops, nextOp>>
  /\ named' = IF a \in Shots THEN [named EXCEPT ![a] = TRUE] ELSE named
  /\ shotLock' = IF a \in Shots THEN [shotLock EXCEPT ![a] = @ + 1] ELSE shotLock
  /\ tx' = [tx EXCEPT ![c] = NoRequest]
  /\ UNCHANGED <<storage, shotName, worker, made, diskName, faults>>

CreateEpisode(c, e) ==
  /\ tx[c].pc = "holding" /\ tx[c].req = e
  /\ tx[c].seen = "ready"
  /\ \A i \in Issued : ops[i].agg # e
  /\ Enqueue(DirectoryOp("ensure_directory", e))
  /\ tx' = [tx EXCEPT ![c] = NoRequest]
  /\ UNCHANGED <<storage, task, named, shotName, shotLock, worker, made,
                 diskName, faults>>

\* renumber_scene_shots with at least one existing directory to migrate: the
\* mapping and the lock versions of the moved shots are frozen in the payload.
RenumberScene(c, items) ==
  /\ tx[c].pc = "holding" /\ tx[c].req = Scene
  /\ tx[c].seen = "ready"
  /\ \E s \in items : named[s]
  /\ \A t \in Tasks : Target[t] \in Shots => task[t] = "not_started"
  /\ \A s \in Shots : named[s] => LatestStatus(s) = "succeeded"
  /\ Enqueue(Op("renumber_shot_directories", Scene, 0, items, shotLock))
  /\ storage' = "migrating"
  /\ tx' = [tx EXCEPT ![c] = NoRequest]
  /\ UNCHANGED <<task, named, shotName, shotLock, worker, made, diskName, faults>>

\* retry_project_storage and retry_operation lock the storage row as well, so
\* they read its current status; the failed operation itself is never reused.
RetryProjectStorage ==
  /\ LockFree
  /\ storage = "failed"
  /\ ~HasActive(Project)
  /\ Enqueue(DirectoryOp("reconcile_directory", Project))
  /\ storage' = "initializing"
  /\ UNCHANGED <<task, named, shotName, shotLock, worker, tx, made, diskName, faults>>

RetryOperation(i) ==
  LET op == ops[i] IN
  /\ LockFree
  /\ op.agg # Project
  /\ op.status = "failed"
  /\ storage = IF IsShotRenumber(op) THEN "migrating" ELSE "ready"
  /\ op.path = PathOf(op.agg)
  /\ ~HasActive(op.agg)
  /\ Enqueue(IF IsShotRenumber(op)
             THEN Op(op.type, Scene, 0, op.items, op.expected)
             ELSE DirectoryOp("reconcile_directory", op.agg))
  /\ UNCHANGED <<storage, task, named, shotName, shotLock, worker, tx, made,
                 diskName, faults>>

-----------------------------------------------------------------------------
(* The worker: claim, directory I/O under a heartbeat, write back.         *)

Idle == [pc |-> "idle", op |-> 0, attempt |-> 0, retryable |-> TRUE]

EligibleAlways(op) == TRUE
\* An asset's directory waits until one of its items has been started.
Eligible(op) ==
  op.agg \in Assets => \E t \in Tasks : Target[t] = op.agg /\ task[t] # "not_started"

DueWhenExpired(i) ==
  /\ \/ ops[i].status = "pending"
     \/ ops[i].status = "retry_wait" /\ ops[i].due
     \/ ops[i].status = "processing" /\ ~ops[i].lease
  /\ Eligible(ops[i])
Due(i) ==
  /\ \/ ops[i].status = "pending"
     \/ ops[i].status = "retry_wait" /\ ops[i].due
  /\ Eligible(ops[i])

\* ORDER BY next_retry_time NULLS FIRST, operation_id.
FirstDue(i) ==
  /\ Due(i)
  /\ \A j \in Issued :
       Due(j) /\ ops[j].status = "pending" => ops[i].status = "pending" /\ i <= j

Claim(w, i) ==
  /\ worker[w].pc = "idle"
  /\ FirstDue(i)
  /\ ops' = [ops EXCEPT ![i].status = "processing", ![i].attempt = @ + 1,
                        ![i].owner = w, ![i].lease = TRUE, ![i].due = FALSE]
  /\ worker' = [worker EXCEPT ![w] =
       IF ops[i].attempt + 1 <= MaxAttempts
       THEN [pc |-> "io", op |-> i, attempt |-> ops[i].attempt + 1, retryable |-> TRUE]
       ELSE [pc |-> "failed", op |-> i, attempt |-> ops[i].attempt + 1, retryable |-> FALSE]]
  /\ UNCHANGED <<nextOp, storage, task, named, shotName, shotLock, tx, made,
                 diskName, faults>>

\* The row the write-back looks for: status, owner and attempt, not the lease.
Owned(w) ==
  LET op == ops[worker[w].op] IN
  /\ op.status = "processing"
  /\ op.owner = w
  /\ op.attempt = worker[w].attempt

\* The heartbeat finds its lease expired: wait for the I/O, then report it.
RenewRefused(w) ==
  /\ worker[w].pc = "io"
  /\ ~ops[worker[w].op].lease
  /\ worker' = [worker EXCEPT ![w].pc = "lost"]
  /\ UNCHANGED <<ops, nextOp, storage, task, named, shotName, shotLock, tx, made,
                 diskName, faults>>

RenewRaises(w) ==
  /\ worker[w].pc = "io"
  /\ faults < MaxFaults
  /\ worker' = [worker EXCEPT ![w].pc = "broken"]
  /\ faults' = faults + 1
  /\ UNCHANGED <<ops, nextOp, storage, task, named, shotName, shotLock, tx, made,
                 diskName>>

\* What the thread has done on the NAS when it returns without an error.
EnsureDirectories(op) ==
  /\ made' = [made EXCEPT ![op.agg] = TRUE]
  /\ UNCHANGED diskName
RenumberDirectories(op) ==
  /\ diskName' = [s \in Shots |-> IF s \in op.items THEN shotName[s] + 1 ELSE diskName[s]]
  /\ UNCHANGED made

\* The I/O thread returns. Its work is on the disk whatever the lease says; a
\* refused heartbeat drops the result, a raising one turns it into a failure.
IoSucceeds(w) ==
  LET op == ops[worker[w].op] IN
  /\ worker[w].pc \in {"io", "lost", "broken"}
  /\ worker' = [worker EXCEPT ![w] =
       IF worker[w].pc = "lost" THEN Idle
       ELSE [worker[w] EXCEPT !.pc = IF worker[w].pc = "io" THEN "done" ELSE "failed"]]
  /\ IF IsShotRenumber(op) THEN RenumberDirectories(op) ELSE EnsureDirectories(op)
  /\ UNCHANGED <<ops, nextOp, storage, task, named, shotName, shotLock, tx, faults>>

IoFails(w, retryable) ==
  /\ worker[w].pc \in {"io", "lost", "broken"}
  /\ worker' = [worker EXCEPT ![w].pc = "failed", ![w].retryable = retryable]
  /\ UNCHANGED <<ops, nextOp, storage, task, named, shotName, shotLock, tx, made,
                 diskName, faults>>

RenumberMatchesAlways(op) == TRUE
RenumberMatches(op) == \A s \in op.items : shotLock[s] = op.expected[s]

\* _advance_preparing_tasks_statement: every waiting task of the directory.
AdvancedShotTasks(op) ==
  [t \in Tasks |-> IF Target[t] = op.agg /\ op.agg \in Shots /\ task[t] = "preparing"
                   THEN "in_progress" ELSE task[t]]
AdvancedTasks(op) ==
  [t \in Tasks |-> IF Target[t] = op.agg /\ CompletesTaskStart(op) /\ task[t] = "preparing"
                   THEN "in_progress" ELSE task[t]]

\* _apply_shot_renumber: the frozen shots take their new numbers.
Unmoved(op) == shotName
Renumbered(op) == [s \in Shots |-> shotName[s] + IF s \in op.items THEN 1 ELSE 0]

NoLock == TRUE
WriteBackLock == LockFree

\* mark_succeeded: under the project lock, so that no start_task that read the
\* directory as unfinished can commit a "preparing" task afterwards.
MarkSucceeded(w) ==
  LET i == worker[w].op
      op == ops[i]
  IN
  /\ worker[w].pc = "done"
  /\ WriteBackLock
  /\ Owned(w)
  /\ IsShotRenumber(op) => RenumberMatches(op)
  /\ ops' = [ops EXCEPT ![i].status = "succeeded", ![i].owner = NoWorker,
                        ![i].lease = FALSE]
  /\ task' = AdvancedTasks(op)
  /\ storage' = IF IsProjectInitialization(op) \/ IsShotRenumber(op)
                THEN "ready" ELSE storage
  /\ IF IsShotRenumber(op)
     THEN /\ shotName' = Renumbered(op)
          /\ shotLock' = [s \in Shots |-> shotLock[s] + IF s \in op.items THEN 1 ELSE 0]
     ELSE UNCHANGED <<shotName, shotLock>>
  /\ worker' = [worker EXCEPT ![w] = Idle]
  /\ UNCHANGED <<nextOp, named, tx, made, diskName, faults>>

\* _apply_shot_renumber raises: rollback, and the exception leaves run_once.
RenumberConflict(w) ==
  LET op == ops[worker[w].op] IN
  /\ worker[w].pc = "done"
  /\ LockFree
  /\ IsShotRenumber(op) /\ ~RenumberMatches(op)
  /\ worker' = [worker EXCEPT ![w] = Idle]
  /\ UNCHANGED <<ops, nextOp, storage, task, named, shotName, shotLock, tx, made,
                 diskName, faults>>

Terminal(retryable, attempt) == ~retryable \/ attempt >= MaxAttempts

\* _record_storage_error
StorageAfterError(op, terminal) ==
  CASE IsProjectInitialization(op) -> IF terminal THEN "failed" ELSE "initializing"
    [] IsShotRenumber(op) -> "migrating"
    [] OTHER -> storage

\* _record_failure: mark_failed or mark_retry_wait, then _record_storage_error.
RecordFailure(w) ==
  LET i == worker[w].op
      op == ops[i]
      terminal == Terminal(worker[w].retryable, worker[w].attempt)
  IN
  /\ worker[w].pc = "failed"
  /\ Owned(w)
  /\ ops' = [ops EXCEPT ![i].status = IF terminal THEN "failed" ELSE "retry_wait",
                        ![i].owner = NoWorker, ![i].lease = FALSE]
  /\ storage' = StorageAfterError(op, terminal)
  /\ worker' = [worker EXCEPT ![w] = Idle]
  /\ UNCHANGED <<nextOp, task, named, shotName, shotLock, tx, made, diskName, faults>>

\* The write-back transaction itself fails: rollback, the row stays claimed.
WriteBackRaises(w) ==
  /\ worker[w].pc \in {"done", "failed"}
  /\ faults < MaxFaults
  /\ worker' = [worker EXCEPT ![w] = Idle]
  /\ faults' = faults + 1
  /\ UNCHANGED <<ops, nextOp, storage, task, named, shotName, shotLock, tx, made,
                 diskName>>

\* The process dies, its I/O thread with it.
Crash(w) ==
  /\ worker[w].pc # "idle"
  /\ faults < MaxFaults
  /\ worker' = [worker EXCEPT ![w] = Idle]
  /\ faults' = faults + 1
  /\ UNCHANGED <<ops, nextOp, storage, task, named, shotName, shotLock, tx, made,
                 diskName>>

\* The clock passes lease_until: every heartbeat came too late, or none came.
LeaseExpires(i) ==
  /\ ops[i].lease
  /\ IF \E w \in Workers : worker[w].pc # "idle" /\ worker[w].op = i
     THEN faults < MaxFaults /\ faults' = faults + 1
     ELSE UNCHANGED faults
  /\ ops' = [ops EXCEPT ![i].lease = FALSE]
  /\ UNCHANGED <<nextOp, storage, task, named, shotName, shotLock, worker, tx,
                 made, diskName>>

\* The clock passes next_retry_time.
RetryTimeComes(i) ==
  /\ ops[i].status = "retry_wait" /\ ~ops[i].due
  /\ ops' = [ops EXCEPT ![i].due = TRUE]
  /\ UNCHANGED <<nextOp, storage, task, named, shotName, shotLock, worker, tx,
                 made, diskName, faults>>

-----------------------------------------------------------------------------
(* A project that has just been created; or an initialized one from before *)
(* an upgrade, whose database holds shots with a finished directory and a  *)
(* task that has not started, and assets queued when they were created.    *)

Finished(op) == [op EXCEPT !.status = "succeeded"]

\* The legacy rows in some order, after the project's own row.
InitialOp(rank, i) ==
  LET finishedBefore == {a \in LegacyShots : rank[a] = i}
      queuedBefore == {a \in LegacyAssets : rank[a] = i}
      project == DirectoryOp("initialize_project", Project)
  IN
  IF i = 1 THEN IF Legacy = {} THEN project ELSE Finished(project)
  ELSE IF finishedBefore # {}
  THEN Finished(DirectoryOp("ensure_directory", CHOOSE a \in finishedBefore : TRUE))
  ELSE DirectoryOp("ensure_directory",
         IF queuedBefore # {} THEN CHOOSE a \in queuedBefore : TRUE ELSE Nothing)
InitialOps ==
  {[i \in OpIds |-> InitialOp(rank, i)] :
    rank \in {r \in [Legacy -> 2..(Cardinality(Legacy) + 1)] :
                \A a, b \in Legacy : r[a] = r[b] => a = b}}

Init ==
  /\ nextOp = Cardinality(Legacy) + 2
  /\ storage = IF Legacy = {} THEN "initializing" ELSE "ready"
  /\ task = [t \in Tasks |-> "not_started"]
  /\ named = [s \in Shots |-> s \in LegacyShots]
  /\ shotName = [s \in Shots |-> 0]
  /\ shotLock = [s \in Shots |-> 0]
  /\ worker = [w \in Workers |-> Idle]
  /\ tx = [c \in Clients |-> NoRequest]
  /\ made = [a \in Aggregates |-> a \in LegacyShots \/ (a = Project /\ Legacy # {})]
  /\ diskName = [s \in Shots |-> 0]
  /\ faults = 0
  /\ ops \in InitialOps

ClientStep(c) ==
  \/ Acquire(c)
  \/ Abort(c)
  \/ \E t \in Tasks : StartTask(c, t)
  \/ \E e \in Episodes : CreateEpisode(c, e)
  \/ \E items \in SUBSET Shots : RenumberScene(c, items)

IoEnds(w) == IoSucceeds(w) \/ \E retryable \in BOOLEAN : IoFails(w, retryable)
WriteBack(w) == MarkSucceeded(w) \/ RenumberConflict(w) \/ RecordFailure(w)

WorkerStep(w) ==
  \/ \E i \in Issued : Claim(w, i)
  \/ RenewRefused(w)
  \/ RenewRaises(w)
  \/ IoEnds(w)
  \/ WriteBack(w)
  \/ WriteBackRaises(w)
  \/ Crash(w)

Next ==
  \/ \E c \in Clients, r \in Tasks \cup Episodes \cup {Scene} : Begin(c, r)
  \/ \E c \in Clients : ClientStep(c)
  \/ \E w \in Workers : WorkerStep(w)
  \/ RetryProjectStorage
  \/ \E i \in Issued : RetryOperation(i) \/ LeaseExpires(i) \/ RetryTimeComes(i)

Spec == Init /\ [][Next]_vars

\* The scheduler runs the batch again and again on the leader, an SMB call
\* ends, PostgreSQL grants a row lock to its waiters in turn (hence strong
\* fairness of the write-back), and a request ends one way or the other.
Fairness ==
  /\ \A w \in Workers : /\ WF_vars(\E i \in Issued : Claim(w, i))
                         /\ WF_vars(IoEnds(w))
                         /\ SF_vars(WriteBack(w))
  /\ \A c \in Clients : WF_vars(ClientStep(c))
  /\ WF_vars(\E i \in Issued : LeaseExpires(i))
  /\ \A i \in OpIds : WF_vars(i \in Issued /\ RetryTimeComes(i))

FairSpec == Spec /\ Fairness

-----------------------------------------------------------------------------
(* Properties.                                                             *)

StorageStatus == {"initializing", "ready", "failed", "migrating"}
OpRecord ==
  [type : {"initialize_project", "ensure_directory", "reconcile_directory",
           "renumber_shot_directories"},
   agg : Aggregates \cup {Nothing}, path : Nat, items : SUBSET Shots,
   expected : [Shots -> Nat], status : OpStatus, attempt : 0..MaxAttempts,
   owner : Workers \cup {NoWorker}, lease : BOOLEAN, due : BOOLEAN]
WorkerRecord ==
  [pc : {"idle", "io", "lost", "broken", "done", "failed"}, op : Nat,
   attempt : Nat, retryable : BOOLEAN]
TxRecord ==
  [pc : {"idle", "waiting", "holding"},
   req : Tasks \cup Episodes \cup {Scene, Nothing},
   seen : StorageStatus \cup {Nothing}, latest : OpStatus \cup {"none"}]

\* The values each part of the state ranges over: rows of the outbox, of the
\* project's storage, of the tasks and shots, and the running coroutines.
TypeOK ==
  /\ ops \in [OpIds -> OpRecord]
  /\ nextOp \in 1..(MaxOps + 1)
  /\ storage \in StorageStatus
  /\ task \in [Tasks -> {"not_started", "preparing", "in_progress"}]
  /\ named \in [Shots -> BOOLEAN]
  /\ shotName \in [Shots -> Nat]
  /\ shotLock \in [Shots -> Nat]
  /\ worker \in [Workers -> WorkerRecord]
  /\ tx \in [Clients -> TxRecord]
  /\ made \in [Aggregates -> BOOLEAN]
  /\ diskName \in [Shots -> Nat]
  /\ faults \in Nat

\* An operation is never taken over while its I/O may still run: as long as a
\* worker is anywhere between its claim and its write-back, lease expired or
\* not, the row carries that worker and that attempt, so two workers never
\* write to one directory (build_claim_statement never picks "processing").
ClaimsOwned ==
  \A w \in Workers :
    worker[w].pc # "idle" => worker[w].op \in Issued /\ Owned(w)

QueueState ==
  [i \in OpIds |-> IF i \notin Issued THEN "absent"
                   ELSE CASE ops[i].status \in {"pending", "retry_wait"} -> "queued"
                          [] ops[i].status = "processing" -> "claimed"
                          [] ops[i].status = "succeeded" -> "done"
                          [] ops[i].status = "failed" -> "dead"]
Queue == INSTANCE LeaseQueue WITH
  Jobs <- OpIds, Takeover <- FALSE, state <- QueueState,
  epoch <- [i \in OpIds |-> ops[i].attempt],
  running <- [w \in Workers |-> IF worker[w].pc = "idle" THEN <<>>
                                 ELSE <<worker[w].op, worker[w].attempt>>]

\* The outbox is a lease queue without takeover: an operation that a worker
\* holds is claimed by nobody else, also after its lease has expired, its
\* result is the holder's, and a finished operation is never run again.
ImplementsQueue == Queue!QueueSpec

\* A task never waits for a directory nobody will finish: while it is
\* "preparing", the newest operation of its shot or asset has not succeeded,
\* so its success, or that of a manual retry, still has to advance the task.
PreparingHasOperation ==
  \A t \in Tasks : task[t] = "preparing" =>
    \E i \in Issued : IsLatest(i, Target[t]) /\ ops[i].status # "succeeded"

\* A task is in production only when its directory is on the NAS, also when
\* it skipped "preparing" because an earlier operation had succeeded.
StartedHasDirectory ==
  \A t \in Tasks : task[t] = "in_progress" => made[Target[t]]

\* The directory of an asset appears only after one of its items was started,
\* even when its operation was queued before (the claim's eligibility clause).
AssetDirectoryAfterStart ==
  \A a \in Assets : made[a] =>
    \E t \in Tasks : Target[t] = a /\ task[t] # "not_started"

\* The storage status always says what the newest project initialization and
\* the newest renumbering came to: "ready" only after both succeeded, and
\* never "initializing" or "failed" by an operation that is already over.
StorageStatusExplained ==
  /\ storage = "ready" => /\ LatestStatus(Project) = "succeeded"
                          /\ LatestStatus(Scene) \in {"none", "succeeded"}
  /\ storage = "initializing" => LatestStatus(Project) \in Active
  /\ storage = "failed" => LatestStatus(Project) = "failed"
  /\ storage = "migrating" => LatestStatus(Scene) \in Active \cup {"failed"}

\* A name on the NAS that differs from the one in the database is never
\* silent: some renumbering of the scene is still on record as unfinished.
NamesAgree ==
  (\A i \in Issued : IsShotRenumber(ops[i]) => ops[i].status = "succeeded")
    => \A s \in Shots : named[s] => shotName[s] = diskName[s]

\* Once its task has been started a shot keeps its number and directory name,
\* even when the start slipped in while a renumbering was under way: the
\* frozen lock versions stop the switch.
StartedShotKeepsName ==
  [][\A t \in Tasks : Target[t] \in Shots /\ task[t] # "not_started"
       => shotName'[Target[t]] = shotName[Target[t]]]_vars

\* At most one unfinished operation per directory, however many retries and
\* starts of items that share an asset are requested at once.
OneActiveOperation ==
  \A i, j \in Issued :
    ops[i].agg = ops[j].agg /\ {ops[i].status, ops[j].status} \subseteq Active => i = j

\* A finished operation is history: no late worker and no retry touches it.
FinishedIsFinal ==
  [][\A i \in Issued : ops[i].status \in {"succeeded", "failed"} => ops'[i] = ops[i]]_vars

\* A task that was started leaves "preparing", or its operation has failed in
\* the director's sight and can be retried.
PreparingResolves ==
  \A t \in Tasks :
    task[t] = "preparing" ~> \/ task[t] = "in_progress"
                             \/ LatestStatus(Target[t]) = "failed"

\* The statuses are explained by the operations: one unfinished operation per
\* directory, one behind every task that waits, a finished one behind every
\* task in production, a started item behind every directory of an asset, and
\* the storage status is the outcome of the newest.
OperationsExplainStatuses ==
  /\ PreparingHasOperation /\ StartedHasDirectory /\ AssetDirectoryAfterStart
  /\ StorageStatusExplained /\ OneActiveOperation
=============================================================================
