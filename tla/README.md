# Shot Grid: a formal model of the production pipeline

TLA+ specifications of the parts of this repository that carry its own core
logic: **Shot Grid** (`src/ruoyi-fastapi-backend/module_shot_grid`), a
production tracker for animated film built on the RuoYi-Vue3-FastAPI platform,
and of the parts of the platform it stands on. Shot Grid keeps projects, shots,
assets, tasks, versions and deliveries in PostgreSQL and their files on a NAS,
and connects the two with background queues. Most models are about what happens
between the two: a database transaction is atomic, an SMB call is neither atomic
nor cancellable, and the worker, its lease and its process can each fail in
between. The others are about people who act on pages that are out of date.

Paths below are relative to `src/ruoyi-fastapi-backend/` unless they start with
`src/`; *SG* stands for `module_shot_grid`. The two documents quoted are
`src/shot-grid-frontend/docs/领域模型与API契约.md` (*the contract*) and
`项目需求规格与业务规则.md` beside it (*the requirements*).

## 1. Inventory

### 1.1 Components of Shot Grid

| Component | State it keeps | Operations | Hard behaviour | What makes it correct | Modelled |
|---|---|---|---|---|---|
| Directory outbox worker (`SG/service/storage_worker_service.py`, `SG/dao/storage_operation_dao.py`, `storage_path_adapter.py`) | `sg_storage_operation` rows: status, attempt, owner, lease, retry time; the rename journal on the NAS | claim, heartbeat, I/O, mark succeeded / retry / failed | the I/O runs in a thread that cannot be killed; crash between claim and write-back or between two renames; late heartbeat; renumbering applied to shots that changed meanwhile | one worker per directory; a result only from the owner; waiting tasks always advanced; database and NAS agree on names; an interrupted rename can be finished | `StorageOutbox`, `LeaseQueue`, `RenumberJournal` |
| Directory outbox producers (`task_service.start_task`, `episode_scene_service`, `shot_crud_service.renumber_scene_shots`, `storage_management_service`) | `sg_task.task_status`, `sg_project_storage.storage_status`, `sg_shot` names and lock versions | start a task, create an episode, renumber a scene, retry | the statement that waits for the project lock reads a snapshot of the storage row | no task preparing without an operation that will end it; no task in production without its directory | `StorageOutbox` |
| Project creation and purge (`project_service.py`, `project_purge_service.py`, `project_purge_worker_service.py`, `project_purge_path_adapter.py`) | `sg_project`, `sg_project_purge` rows, frozen manifest | create, purge, claim with takeover, delete the tree, write back | takeover of a half deleted tree; late result; path used again | what was purged stays gone; every purge ends | `ProjectPurge`, `LeaseQueue` |
| Row locks of these transactions | PostgreSQL row locks | `SELECT ... FOR UPDATE` in each transaction's order | two transactions waiting in a circle | the lock order project, operation, task, storage; two kinds of transactions reverse it | `DirectoryLocks` |
| Target purge: force delete of shots and assets (`force_delete_service.py`, `target_purge_service.py`, `target_purge_worker_service.py`) | `sg_target_purge` rows, reserved paths | force delete, claim, clean, retry by hand | no takeover; manual retry racing a late worker; cleaning beside renumberings | reserved paths are released exactly once; the directory of a living shot is spared | `TargetPurge` |
| Version submission and publishing (`version_submission_service.py`, `version_publish_worker_service.py`) | `sg_version_submission`, `sg_submission_file`, `sg_version`, task status, reserved version numbers | submit (new round, append), claim, publish files, commit, retry | the formal version is created long after the request; crash in `publishing` or `committing`; append racing a new round | a number is used once; one unresolved submission per task; a version has its files | `VersionSubmission`, `VersionLedger` |
| Review and reopen (`review_service.py`, `review_reopen_service.py`, `revision_transfer_service.py`) | issues, drafts, candidates, review records, version status | page, select, draft, approve, reject, defer, append, verify, reopen | several directors with pages of different age; issues appended after the producer's preflight | a conclusion is about what was seen; no issue is lost or left without an answer | `ReviewCycle`; the conclusion with its delivery in `VersionLedger` |
| Final delivery (`final_delivery_worker_service.py`, `final_delivery_dao.py`) | `sg_final_delivery` publish and revoke rows, the `CURRENT` manifest | queue, claim in row order, copy or remove, write back, retry | late result of a publish that was revoked; an abandoned predecessor blocks its successors | the delivered file is the one of the last conclusion | `FinalDelivery` |
| Media derivation (`media_derivation_service.py`) | derivation rows, version files, references | claim, ffmpeg, register, fail | lease lost during ffmpeg; registration whose answer is lost | only the owner registers, references survive | `MediaDerivation` |
| Shots and scenes (`shot_crud_service.py`, `episode_scene_service.py`) | `sg_shot` numbers, directory names, sort order | create, reorder, renumber, delete, assign, start | implicit renumbering; a migration under way; a request that read the status before it waited | numbers are unique, a started shot stands still, directories follow the table | `SceneShots`, `StorageOutbox` |
| Assets and requirements (`asset_crud_service.py`, `asset_requirement_service.py`) | rows and relations | create, edit, archive, match | names used again after archiving | | directory operations in `StorageOutbox`; records not modelled |
| Task scheduling, production adjustment, assignment (`task_schedule_service.py`, `production_adjustment_service.py`, `task_service.py`) | `sg_task` with lock version, plan, baseline; `sg_task_schedule_change` | change a schedule, adjust, what else raises the version | lost answers, repeated and changed requests under one key | the history explains the plan, an answer is true | `TaskSchedule` |
| Excel import (`shot_import_service.py`, `asset_import_service.py`, `import_preview_store.py`) | `sg_import_batch`, Redis preview | preview, commit, replay, expiry | expiry racing commit, double commit, lost answer | a batch is imported once and every record of it is true | `ImportBatch` |
| Members, roles, access (`project_member_service.py`, `platform_role_service.py`) | member rows, role relations and which of them are managed | create and delete projects, add, change, remove, reconcile, grant, assign | a role another project needs; removal racing an assignment | roles follow the memberships, assignees are members | `MemberAccess` |
| Background job registration of Shot Grid (`module_task/shot_grid_*_task.py`) | single-flight flags | run a batch, wait for it at shutdown | | | `ApplicationLeader`, fairness of the queues |
| Playback tickets, queries, storage roots and NAS mounts | one Redis key; none; configuration | | | | no, see section 7 |

### 1.2 Components of the platform

| Component | Hard behaviour | What makes it correct | Modelled |
|---|---|---|---|
| Application leader (`config/get_scheduler.py`, `server.py`) | lock renewal, loss, reacquire loop, failed start, shutdown | a leader owns the task that will notice a lost key; a shutdown leaves no scheduler, job or loop and gives the key back | `ApplicationLeader` |
| Scheduled jobs (`config/get_scheduler.py`, `module_admin/service/job_service.py`) | the scheduler is changed before the commit; leadership moves; a cached update time | the next comparison puts the scheduler right | `JobSync` |
| Log stream (`module_admin/service/log_service.py`) | redelivery, deduplication keys, claims of idle messages | each event is stored exactly once, as far as the keys allow | `LogStream` |
| File administration (`module_admin/service/file_service.py`) | bytes move after the commit; compensation; reconciliation | a file in use survives, rows and directories are brought together | `FileLifecycle` |
| Plugin system (`module_plugin`, `plugins/core`) | migrations in transactions of their own, a start of the application meanwhile, lost locks | a migration runs once, what is needed stays enabled, menus follow the record | `PluginLifecycle` |
| Users, roles, menus, departments | one transaction each over one table | | no |
| Response cache, rate limit, transport encryption, realtime notifications | one Redis key each, with a time to live; messages nothing depends on | | no |
| Code generator, command line, schema migrations, frontends, deployment | text, presentation, one-shot scripts | | no |

### 1.3 How they interact

* **Requests** run in one database transaction each. Those about directories
  start by locking the project row. They never touch the NAS; they insert rows
  into a queue and return.
* **Workers** are jobs of the APScheduler of the *application leader* (the
  process that holds a Redis lock). A batch claims rows in a transaction of its
  own, performs I/O in a thread with a heartbeat coroutine beside it, and writes
  the result back in another transaction. When the leadership moves, the old
  leader's batch still finishes beside the new one's.
* **Status columns** are the interface: the outbox write-back moves tasks from
  `preparing` to `in_progress` and storage from `initializing` or `migrating` to
  `ready`; the version commit moves tasks to `pending_review`; an approval
  queues a delivery, a new candidate a derivation.
* **Pages** are read in other transactions than the ones that act on them. A
  lock version or a hash travels with the page; the models keep what the person
  saw and compare what the code compares.

## 2. Modules

| Module | About | Composes |
|---|---|---|
| `LeaseQueue` | abstract: what every background queue promises (one taker at a time, an epoch per take, results of the current epoch only, with or without takeover) | |
| `StorageOutbox` | the directory outbox: producers, worker, write-back, NAS | refines `LeaseQueue` with `Takeover = FALSE` |
| `RenumberJournal` | the restartable two-phase rename that one I/O of a renumbering is | |
| `SceneShots` | numbers, names and directories of the shots of a scene | |
| `ProjectPurge` | project creation, directory initialization and purge at one NAS path | refines `LeaseQueue` with `Takeover = TRUE` |
| `TargetPurge` | force delete of shots, reserved names, cleaning queue | |
| `DirectoryLocks` | the row locks of all transactions around the outbox | |
| `VersionLedger` | abstract: the versions of one task as producer and director see them (accept, settle, page, approve, reject, reopen) | |
| `VersionSubmission` | the submission rows, the version worker, the files on the NAS | refines `VersionLedger`; takes its review actions from it |
| `FinalDelivery` | the delivery rows, the delivery worker, its file system threads, the `CURRENT` manifest | extends `VersionLedger`: its approval and reopening are the ledger's together with the rows they queue |
| `ReviewCycle` | issues, drafts, rounds and reopening, with stale pages and preflights | |
| `MediaDerivation` | derived files of candidates | |
| `TaskSchedule`, `MemberAccess`, `ImportBatch` | schedule history, members and roles, Excel import | |
| `ApplicationLeader`, `JobSync`, `LogStream`, `FileLifecycle`, `PluginLifecycle` | the platform | |
| `StorageOutboxProofs`, `VersionSubmissionProofs`, `TargetPurgeProofs` | theorems about the module of that name | |
| `AdministrationProofs` | theorems about `ProjectPurge` and `PluginLifecycle` | |
| `ProjectProofs` | theorems about `ImportBatch`, `ReviewCycle`, `SceneShots` and `MemberAccess` | |
| `TaskProofs` | theorems about `TaskSchedule`, `FinalDelivery` and `JobSync` | |
| `FilesProofs` | theorems about `FileLifecycle` and `MediaDerivation` | |
| `CoordinationProofs` | theorems about `DirectoryLocks`, `RenumberJournal`, `ApplicationLeader` and `LogStream` | |
| `MCOutboxSceneJobs` | `StorageOutbox`, `SceneShots` and `JobSync` side by side | |
| `MCOutboxLocks` | `StorageOutbox` and `DirectoryLocks` side by side | |
| `MCStorageOutbox`, `MCTargetPurge`, `MCVersionSubmission` | instances of one module | |
| `MCFinalDelivery` | `FinalDelivery` and `ApplicationLeader` side by side | |
| `MCAdministration` | `ProjectPurge` and `PluginLifecycle` side by side | |
| `MCCoordination` | `StorageOutbox`, `RenumberJournal` and `LogStream` side by side | |
| `MCFiles` | `MediaDerivation` and `FileLifecycle` side by side | |
| `MCReview` | `ReviewCycle`, `MemberAccess` and `TaskSchedule` side by side | |

*Side by side* means: the components share no state, a variable `part` says in
the initial state which of them moves, and the others rest in one fixed state.
Where liveness is checked, that is a state in which nothing is due, so that the
fairness of a resting component excludes no behaviour of the others. The run explores the union of the state spaces, not their
product, so a property of one component holds in it exactly if it holds in that
component alone.

### 2.1 `StorageOutbox`

| Variable | Code |
|---|---|
| `ops`, `nextOp` | `sg_storage_operation`; `lease` is `lease_until > now`, `due` is `next_retry_time <= now`; `path` is the generation of the directory name frozen in the row, `items` and `expected` the payload of a renumbering |
| `storage` | `sg_project_storage.storage_status` |
| `task` | `sg_task.task_status`: `not_started`, `preparing`, and `in_progress` for that and every later status |
| `named`, `shotName`, `shotLock` | `sg_shot.storage_dir_name IS NOT NULL`, the generation of the shot's number and name, `lock_version` |
| `worker` | where the coroutine is: `io` (heartbeat alive), `lost` (renewal refused), `broken` (renewal raised), `done`, `failed` |
| `tx` | requests that lock the project row: waiting or holding, with what their locking statement has read |
| `made`, `diskName` | the NAS: the directory exists, the generation of the name it carries |
| `faults` | bounds crashes, late heartbeats and database errors |

One transaction is one step, except that a request which has to wait for the
project row is split into `Begin`, `Acquire` and its effect: `SELECT ... FOR
UPDATE OF project` joined with the storage row returns, after the wait, the
*current* project row but the storage row of the statement's snapshot. The
model keeps that value (`tx[c].seen`); the later statements of the same
transaction read fresh rows. The retries lock the storage row too and therefore
read its current value. `Claim` takes the first due row (`FirstDue` follows the
`ORDER BY`); a claim beyond `MAX_ATTEMPTS` goes straight to a non-retryable
failure. `IoSucceeds` puts the effect on the NAS before any result is written,
so a lost lease or a crash leaves it there. `MarkSucceeded` and `RecordFailure`
are the whole write-back, with the tasks, shots and storage row it changes.

`Init` is either a project that has just been created (its initialization is
queued) or, with the `Legacy...` constants, one from before the upgrade:
directories made when shots were created, asset operations queued when assets
were created. The effect of the old code is the state of the database.

### 2.2 `ProjectPurge`

`row` is the project row, `dirOp` its newest directory operation, `purge` the
purge row, `disk` whose owner marker the directory at the common path carries
(`Unmarked` between `mkdir` and the marker, or after a partial deletion).
`CreateProject` checks that no *live* project holds the path, as the code does.
`PurgeProject` is refused while the directory operation is being processed.
`ClaimPurge` takes over an expired claim; every write-back is fenced by status,
owner and attempt, and `LateResult` is the outcome `lease_lost`.

### 2.3 `DirectoryLocks`

Each transaction is the sequence of rows its statements lock. The order in each
sequence is read from the statements in the source, and where one statement
locks several rows, from its `ORDER BY`. `run` is what each transaction is,
`got` how many of its rows it has, `holder` who has each row. `failed` are the
operations that have failed for good: a heartbeat or a write-back gets a row in
`processing` only, a manual retry goes on to the project row only for a row that
has failed (`MayGoOn`). `Circle` is a set of transactions that wait for each
other, and PostgreSQL cancels one of them (`Cancel`).

Circles do exist. `OnlyDeletionsDeadlock` says which: one transaction of each is
a force delete or a project purge that holds the project row and waits for an
operation, another is the error write-back or the manual retry of that operation,
which waits for the first. So the lock of the project that `mark_succeeded` takes
first does what its comment says, and the other two kinds are the only ones that
would need it. `ForceDeleteNeverBlocksAWorker` is what the plan of the permanent
deletion asks for; `locks_circle` refutes it.

### 2.4 `VersionLedger` and `VersionSubmission`

| Variable | Code |
|---|---|
| `task` | `sg_task.task_status` from `in_progress` on: `pending_review`, `revision`, `completed` |
| `versions` | `sg_version` with its candidates: status, review cycle, selected candidate, `lock_version` |
| `seen` | what the director's browser holds: version, lock version and candidates of the page |
| `subs` | `sg_version_submission` and `sg_submission_file`: mode, reserved version number, status of each file under its reserved candidate number, status, attempt, owner |
| `open` (ledger), `Open` (refinement mapping) | the one submission in `UNRESOLVED_SUBMISSION_STATUSES` |
| `worker` | where a claimed submission is: publishing, a file written but not marked, committing, the commit raised |
| `disk` | the NAS: which submission the file of a candidate was copied for |
| `faults` | bounds deaths and failed write-backs |

`CreateSubmission` reserves the version number and the candidate numbers; the
versions change only in `CommitPublished`, any number of steps later. The page
of the review is read in two statements (`OpenPage`, `LoadCandidates`), and a
submission may settle between them; the review commands then compare the lock
version. `CommitPublished(w, TRUE)` is a transaction that is durable although
its call raises: the failure write-back comes after it and must be fenced off.
The lease column is absent because no statement of this outbox reads it: the
renewal compares owner and attempt, and there is no takeover. The retry delay is
part of the claim, which may come at any time after it.

The refinement `ImplementsLedger` is the point of the pair: reservation,
publishing file by file, retries, failed and repeated commits together look like
one acceptance followed, perhaps, by one settlement with exactly the accepted
candidates.

### 2.5 `FinalDelivery`

| Variable | Code |
|---|---|
| `rows` | `sg_final_delivery` of the task in id order: operation, version, cycle, candidate, validity, status, attempt, owner |
| `worker` | the claimed row and its attempt |
| `io` | the file system thread of each worker, plus the threads that `_run_io_guardian` abandoned when a renewal raised: they go on by themselves |
| `manifest` | `CURRENT-<task>.json`: the row whose generation it carries |
| `raises`, `crashes` | bounds of renewals that raise and of deaths |

`ReadManifest` and `ReplaceManifest` are two file system calls of one thread, as
in `_write_current_manifest`. `Due` is the `NOT EXISTS` over earlier effective
rows of the task; `NotBusy` is `blocked_reason`; `RetryDelivery` goes to the
oldest failed revocation of the task, whatever version the request names. The
versions and submissions are the ledger's actions (`Accept` and `Settle` stand
for all of `VersionSubmission`), which is what the refinement there justifies.

### 2.6 `RenumberJournal`

What one I/O of a renumbering does on the NAS (`_renumber_shot_directories_sync`):
each directory moves into a staging directory, a marker says that all are there,
and each moves on to its new name. `place`, `foreign`, `staging` and `marker`
are the disk; `io` is what each run has looked at and is about to do, so that a
look and the rename that follows it are two steps; `lease` and `renumber` are
the operation's row. A run may be cut off anywhere by an error, and the next
attempt works from what it finds. A run that dies or loses its lease leaves the
row in `processing`, where `claim_next_operation` does not look: `Abandoned`. In
the instance two of the directories exchange their names.

### 2.7 `SceneShots`

`lifecycle`, `shotNo`, `shotDir`, `dirOp`, `shotTask` are the columns of a shot
and its latest operation and task; `tree` is the directory on the NAS;
`migrations` the queued renumberings with the shots that changed since they were
frozen; `waiting` and `late` are the request that reads the storage status in
the statement that waits for the project row. `ScenesSafe` is about numbers
(unique, positive), names (no two directories meant to be one), started shots
(they stand still) and migrations (they can always be finished unless a late
request was served).

### 2.8 `TargetPurge`

`shot` is the shot with what its tasks and operations say, `move` the
renumbering of the scene, `asked` a force delete that waits for the project row,
`purgeRow` the purge with its reserved names, `cleaner` the coroutines, `tree`
whose directory lies under each name. The forced deletion takes the shot away at
once and reserves its names; the cleaner deletes the directory later and
releases them. `overtaken` remembers that a force delete went by a storage
status that was out of date, which is what `target_stale_move` is about.

### 2.9 `MediaDerivation` and `FileLifecycle`

In `MediaDerivation`, `task` is `sg_media_derivation`, `bound` the files of the
version, `refs` its references, `gone` the deleted files, `disk` the derived
files; the completion replaces the references of the whole version by a list it
read before it waited, and `overlapped` remembers that two completions had read
it at the same time. In `FileLifecycle`, `info` is the file's row, `used` a
reference to it, `place` its bytes, `client` what each request is about to do,
`scan` and `finding` the reconciliation. A deletion moves the bytes while it
holds the row; restoring and purging commit first and move afterwards.

### 2.10 `ReviewCycle`

`rounds` is `sg_version` with its review list and cycles, `notes` the published
issues, `drafts` `sg_review_issue_draft`, `upload` the unresolved submission
with its answers, `form` the producer's last preflight, `page` what each
director sees. Every operation holds project, task and version for one
transaction and is one step; what is stale is the page and the preflight.

### 2.11 `TaskSchedule` and `MemberAccess`

In `TaskSchedule`, `plan`, `baseline`, `version`, `phase` are the task, `changes`
the append-only history, `dialog`, `wire` and `answer` the browser and the
network: requests are lost, delayed and repeated. In `MemberAccess`, `member`
are the roles of each user in each project, `relation` and `managed` the
platform roles and which of them Shot Grid created, `given` what an
administrator created, `assigned` the task of each project; `txn` and `held` are
transactions and their row locks, which are taken one by one.

### 2.12 `ImportBatch`

`batch` is `sg_import_batch`, `token` the preview in Redis, `imported` how often
the rows of a batch were written, `keyLock` the advisory lock of a key, `rowLock`
the row lock of a batch, `request` what each request does and what it was told.
A request that fails records the failure in a second transaction, which shots
and assets do differently (`kind`).

### 2.13 `ApplicationLeader` and `JobSync`

In `ApplicationLeader` a process is one event loop and what it does between two
awaits is one step; `lock` is the key in Redis, `renewal`, `race` (the loop that
competes for the key), `lossTask` and `main` are its tasks, `job` a batch that
is under way. A shutdown is four steps, one for each await at which something
else of the process may run: `BeginClose` gives up the leadership and cancels the
renewal, whose end it awaits; the loop may win the key and start the scheduler
meanwhile; `CancelLoop` cancels the loop wherever it is; `CloseStopsScheduler` and
`CloseReleases` follow. In `JobSync`, `row` is `sys_job`, `memory` and `stored` are the two
job stores, `known` is `_job_update_time_cache`, `syncing` the comparison with
the rows it has read, `loading` the start of a scheduler. `SchedulerSafe`
includes that the next comparison of the leader would put the scheduler right.

### 2.14 `LogStream` and `PluginLifecycle`

In `LogStream`, `message` is the stream and its consumer group, `dedup` the keys,
`rows` how often each event is stored; `forsaken` and `uncertain` remember the
events whose key was left without a row or went although they may be stored. In
`PluginLifecycle`, `record` is `sys_plugin` with its menus and jobs, `history`
the migration records, `applied` how often a migration was committed, `process`
the administrator's operation or an application that starts, serves and shuts
down; `unsure`, `blindly` and `overlap` remember an ambiguous commit, a recovery
that did not look at dependencies and an operation that outlived its lock.

## 3. Runs

Every passing run explores its whole bounded state space. Symmetry is used only
in `review`, over the transactions of `MemberAccess`, which no temporal property
of the run tells apart. Deadlock is checked in `outbox_start` and
`outbox_migration`; the system may stop in the others
because the bounds on rows, versions and faults are reached, or because the row
of a dead worker leaves nothing that may still happen.

| Run | Instance | Question and answer |
|---|---|---|
| `outbox_start` | 2 workers, 2 clients, an asset with 2 items whose operation was queued before the upgrade, 4 rows, 1 fault; a scene of 3 shots numbered 1 to 4, 1 migration under way; 2 servers, 1 job, 2 requests, 1 setback | Starts, retries, claims and write-backs in any order: claims stay owned and the statuses are explained by the operations. The shots of a scene keep their numbers apart and started shots stand still. A comparison always puts the scheduler right. Holds. |
| `outbox_migration` | 1 worker, 2 clients, 2 shots, one with a directory from before the upgrade, 4 rows, 1 fault; 3 transactions of any kind over 2 operations | Renumbering against starts: NAS and database agree on names unless an operation says otherwise, a started shot keeps its name, and the outbox implements `LeaseQueue` without takeover. Every circle of waiting transactions is one of a deletion with an error write-back or a manual retry. Holds. |
| `locks_circle` | 2 transactions, 1 operation | "One order of the project lock and the locks of the running records" (the plan of the permanent deletion). **Violated**: a force delete and an error write-back wait for each other. |
| `administration` | 2 projects of one path, 2 workers, 2 attempts, 2 faults; a base plugin with a migration and an addon that needs it, 1 operator, 1 server, 1 trouble | Purge with takeover and late results: what is purged stays gone, the queue implements `LeaseQueue` with takeover and every purge ends. Migrations run once, what is needed stays enabled, the menus follow the record. Holds. |
| `target` | 3 shots of 2 names, 2 cleaners, 2 attempts, 1 retry, 1 mishap | Reserved names are released once, a living shot keeps its directory (unless a force delete went by an old status), purges settle. Holds. |
| `target_stale_move` | 1 cleaner, 1 attempt, no mishap | "The numbers and files of other shots do not change" (the contract). **Violated**: a force delete that waited for the project row does not see the migration. |
| `submission` | 2 workers, 2 versions of 2 candidates, 2 cycles, 3 submissions of up to 2 files, 1 fault | A submission's target stays open until it settles, every candidate is the file copied for it, conclusions saw all candidates and freeze them, the ledger is implemented, and every submission settles unless its worker died. Holds. |
| `delivery` | 2 workers, 2 versions, 1 candidate, 2 cycles, 3 rows, 1 raised renewal, 1 death; 2 processes, 3 mishaps | One valid delivery of a completed task, deliveries in order, the manifest tells the truth; every delivery settles or waits for a visible failure. Leaders are watched, shutdowns leave no scheduler, job or loop, and leadership passes. Holds. |
| `files` | 3 candidates, 2 of them in the first submission, 2 workers, 2 attempts, 1 mishap; 3 requests on one file, 1 fault | Registrations are exact and settle; a file in use survives, and the reconciliation brings rows and directories together. Holds. |
| `coordination` | a new project, 1 worker, 1 client, an asset with 2 items, 1 episode, 4 rows, no fault; 2 runs over 3 shots (an exchange and a move), 3 attempts, 3 faults; 2 consumers, 2 events, 3 messages, batches of 2, 1 fault | A preparing task gets its directory or its failure becomes visible, and the statuses are explained from the initialization of the project on; the rename is exact and ends, is used up or is abandoned by a worker that cannot write back; events are stored once and messages handled. Holds. |
| `imports` | 2 batches, 2 keys, 3 requests, 1 fault | A batch is imported once, every record and answer is true, every request is answered. Holds. |
| `review` | 2 directors, 3 rounds, 3 files, 2 issues, 2 reviews of a version; 2 users, 2 projects, 2 open transactions; 2 plans, 1 dialog, 1 adjustment, 5 versions, 2 requests on the wire | Published issues are answered and stay, drafts belong to an open review, members, roles and assignees agree, the schedule history explains the plan. Holds. |

Seven of the runs put components side by side that have nothing to do with each
other; each component is explored completely, as section 2 explains.

Why the bounds are enough to be interesting. Two workers are an old leader's
batch and a new one's; a third would only repeat the second. Two clients are
enough for one that holds a row lock and one that waits with a stale snapshot.
Two items of one asset give the shared directory, two shots the collective
rename, of which one may have been started; three give an exchange of names
beside a move. `MaxAttempts = 2` has a first attempt, a retry and the limit (the
code has 5; only the comparison matters). Four outbox rows hold the
initialization, the operation of the tasks, a manual retry and one more request.
Three submissions over two versions hold a new round, an append and a further
round; two candidates make an append and a choice possible. Three delivery rows
hold publish, revoke and publish again. One fault at any point of the run is a
crash between any two steps; two in `administration`, where a takeover can fail
as well, and three in the leader election, where the successor may fail too, and
in the renumbering, where they are just enough to use up its three attempts. Two
directors with pages of different age are the smallest conflict of reviewers;
three rounds carry an issue over, answer it and review the answer.

## 4. Fairness

* *Claims.* The leader's jobs come round for ever (`module_task/shot_grid_*_task.py`),
  each batch claims what is due: weak fairness of the claim. In `ProjectPurge`,
  `TargetPurge` and `MediaDerivation` it is strong, per row: a worker is busy now
  and then, and the batch takes the oldest due row, so a due row is not passed
  over for ever.
* *I/O.* A file system call ends with a result or an error; weak fairness.
* *Write-back.* It waits for row locks, which come and go: PostgreSQL queues the
  waiters of a row, so a write-back that is possible again and again happens.
  That is strong fairness in `StorageOutbox`. In the others the write-back does
  not wait in the model and weak fairness is enough.
* *Requests* end (`ClientStep`, `RequestStep`), leases expire, retry times come,
  messages grow old, every task of an event loop that can go on does.
* *Reconciliation.* In `FileLifecycle` the scan is repeated and the administrator
  handles what it has found (strong fairness of `Resolve`): the documented duty
  of `docs/file_management_usage_guide.md`.
* *Nothing* is assumed of users (retry, approve, reopen, submit) or of a dead
  process: where the code has no takeover (`VersionSubmission`, `TargetPurge`,
  `FinalDelivery`), liveness is stated for rows on which no worker died.
  `RenumberEnds` names the abandoned row as an outcome, and the outbox in
  `coordination` has no fault for the same reason.
* `SceneShots`, `ReviewCycle`, `MemberAccess`, `TaskSchedule` and `JobSync` have
  no fairness: people drive them. `PluginFairness` states what the lifecycle lock
  and the administrator would have to do; no run checks a liveness property
  with it.

## 5. Proofs

The runs check small instances; the theorems below hold for every value of the
constants that satisfies the module's assumption (numbers of workers, clients,
rows, versions, attempts, faults). Most assumptions are sizes and the
distinctness of names (a worker is not a task, an episode is not a shot). A few
say what the code has made sure of before the model begins: the old shots of a
scene have different numbers, as the unique index demands (`TargetAssumption`);
the shots of a renumbering have different old and different new directories, none
of them a slot of the staging directory, which `_build_renumber_plan` checks
(`JournalAssumption`, `storage_path_adapter.py:179`).
TLC evaluates each of them on the runs.

| Theorem | Property | About |
|---|---|---|
| `TypeCorrect`, `ClaimsStayOwned`, `FinishedStaysFinal` | `TypeOK`, `ClaimsOwned`, `FinishedIsFinal` | `StorageOutbox`: attempts end at the limit, one worker per directory, results are final |
| `NamesAlwaysAgree`, `StartedShotsKeepNames` | `NamesAgree`, `StartedShotKeepsName` | names on the NAS and in the database; the step from one name to the next |
| `OutboxImplementsQueue` | `ImplementsQueue` | the outbox is a `LeaseQueue` without takeover |
| `TasksAreExplained`, `StatusesAreExplained` | the second: `OperationsExplainStatuses` | waiting tasks, made directories and storage statuses have the operations that explain them |
| `AcceptedStaysOpen`, `ConclusionsAreFinal`, `SubmissionImplementsLedger` | `SubmissionSafe`, `ConclusionsStand`, `ImplementsLedger` | `VersionSubmission`: targets and candidate numbers, what a conclusion was about, the formal creation as one settlement |
| `PurgedIsGone`, `PurgeImplementsQueue` | the first: `PurgeSafe` | `ProjectPurge`: what is purged stays gone, and the purge queue is a `LeaseQueue` with takeover |
| `PluginsMigrateOnce`, `PluginsServeAsRecorded` | `MigratedExactlyOnce`, `ServedAsRecorded` | `PluginLifecycle`: any plugins and dependencies |
| `ForcedDeletionIsSafe` | `TargetSafe` | `TargetPurge` |
| `DeliveriesAreSafe`, `ManifestIsTrue`, `ManifestNeverGoesBack` | the first two: `DeliverySafe`, `ManifestTellsTheTruth` | `FinalDelivery`: one valid delivery, rows in order, the manifest of the newest |
| `DerivationsAreExact` | `RegistrationsAreExact` | `MediaDerivation` |
| `RenamesAreExact` | `RenameIsExact` | `RenumberJournal`: any renumbering that passes the plan's checks |
| `ReviewsAreSafe`, `HistoryIsAlwaysAnswered`, `HistoryAlwaysStands` | `ReviewSafe`, `HistoryIsAnswered`, `HistoryStands` | `ReviewCycle`: any number of directors, versions, files, issues and reviews |
| `ScenesAreSafe` | `ScenesSafe` | `SceneShots`: any number of shots and migrations |
| `MembersAreSafe` | `MembersSafe` | `MemberAccess`: any users, projects and transactions |
| `SchedulerIsSafe` | `SchedulerSafe` | `JobSync`: any processes, requests and changes of the leader |
| `DeadlocksAreKnown` | `OnlyDeletionsDeadlock` | `DirectoryLocks`: any number of transactions, of all kinds, and of operations |
| `LogsAreStoredOnce` | `StoredExactlyOnce` | `LogStream` |
| `LeaderTypes`, `LeadersHaveLetGo`, `StartsDrained` | the second: `LeadersLetGo`; the third: `SchedulerStartsDrained`, the safety part of `LeadershipPasses` | `ApplicationLeader` |
| `FileTypes`, `UsedFiles`, `FilesAgree` | the second: `UsedFilesSurvive`; the third: `UndisturbedFilesAgree`, the safety part of `FilesReconcile` | `FileLifecycle` |
| `ImportTypes`, `ImportedExactly` | the second: `ImportsAreExact` | `ImportBatch` |
| `ScheduleIsTold` | `ScheduleTold` | `TaskSchedule` |

Every proof has the same form: an inductive invariant, checked by TLC before it
was proved, one lemma for its initial case, one lemma per action (or group of
actions that touch the same variables), and a temporal step at the end. What
each invariant adds to the property it serves, and why:

* **`IInv`** (`StorageOutboxProofs`). A claim raises the attempt, so
  `attempt <= MaxAttempts` is kept only if a row that can be claimed still has
  one left, which depends on a failure at the limit being terminal, which is
  known only while the row of a worker carries that worker's attempt:
  `TypeOK /\ RowsConsistent /\ ClaimsOwned`.
* **`NamesInv`**. That a renaming ends with the two names equal needs the frozen
  payload to be older than the shot (`FrozenLocks`: an `expected` lock version
  is never ahead), a shot without an unfinished renaming to be settled, and a
  worker that is done to have moved the directory to exactly the generation
  that the write-back will find (`RenamesDone`).
* **Refinement of `LeaseQueue`**. `Stages` maps a row to `absent`, `queued`,
  `taken` or its end, `Epochs` to its attempt, `Running` a coroutine to the row
  and attempt it believes in. Each action is shown to be one abstract step or a
  stutter; `Untried` (a row that is not queued has attempt 0) is what the
  submission of a row needs.
* **`EInv` and `SceneInv`** of `StorageOutboxProofs`. A status is explained by
  the *newest* row of an aggregate, so the lemmas are about what the newest row
  is after each action (`LatestPushed`, `LatestStays`), about older rows being
  over, about what a lock holder has read (`ReadInv`) and about successes
  having left a directory (`MadeInv`). This part holds always and is
  `TasksAreExplained`.

  The storage status itself needs a hypothesis, `LegacyShots = {} \/ OneAtATime`.
  Two requests that renumber one scene, of which the second read `ready` before
  it waited for the project row (`shot_crud_service.py:479`, the stale read of
  `Begin`), queue two migrations that are active together. The second ends in
  `RenumberConflict`, but until then `OneActiveOperation` and
  `StorageStatusExplained` are false. It takes a shot whose directory exists
  before its task starts, i.e. one from before the upgrade, and two clients at
  once; TLC shows it on an instance with both, and confirms over 8.6 million
  states that the rest of the invariant survives there.
* **`SubInv`** (`VersionSubmissionProofs`). There is one unresolved row per task
  and the row a worker holds is its own (`RowInv`); the versions are numbered
  without gaps, every number comes from a row, and a new round is about the
  first number that is missing (`VersionsFollowRows`); what a row says of a file
  is true of the NAS (`FilesAreThere`); and the page of the director is of a
  version that exists and not newer than it (`PageIsTrue`), which is why the
  comparison of lock versions is enough for `ConclusionsStand`. The mapping to
  the ledger takes `open` from the one unresolved row; only the creation of a
  submission and the formal transaction are visible steps.
* **`LockInv`**: a transaction holds exactly the rows at the beginning of its
  sequence. Who waits and is waited for holds the project row, or is an error
  write-back or a manual retry that holds its operation and nothing else
  (`BlockersHold`). The latter wait for the project or the storage row, so a
  circle has a member that holds the project row; it waits for an operation one
  of the latter holds, and that one waits for it. It is a deletion
  (`WaitsForAnOperation`): a write-back that holds the project has no other row
  yet and would be waited for by a retry only, which goes on to the project only
  if the operation has failed, while the write-back waits only for one in
  `processing`.
* **`LogInv`**: a key belongs to one consumer at most, a held key is of an
  event that is not stored yet or by its own batch, a stored event has its key or is
  among the exceptions the model names, and an event whose messages are not
  acknowledged still has a message that will be handled (`EventsHaveHope`).
* **`LeaderInv`**: from the step on that cancels it, a closing process has no
  reacquire loop, and from the later ones no handler, scheduler or job that could
  start again (`ShutdownIsFinal`); a renewal is not among them. For
  `SchedulerStartsDrained` it is joined by `DrainedBeforeStart`: a process in the
  reacquire loop has no job, and one that has won the key has handled its loss.
* **`FileInv`**: what a request found out about a row is still true when it acts
  on it, because it holds the row lock meanwhile; bytes are unlinked of a file
  only that nothing will activate again. As long as nothing disturbs them,
  `CalmInv` says what the point a request has reached tells of the row and the
  bytes; the one step that needs more is the move back of restored bytes, which
  no other request accompanies (`CalmRestores`).
* **`ImportInv`, `RefusalInv`**: who cleans up has written, who writes holds the
  key, the preview and the row, and a key is over once its batch is.
* **`ScheduleInv`**: no row of the history is younger than the task, and it
  carries the plan its request asked for.
* **`PurgeInv`**: one process at a time initializes a directory, a worker always
  has the project of the row it claimed, and a worker that lost its lease holds
  none; attempts beyond the limit are paid for by faults (`AttemptsArePaid`).
* **`PluginInv`**: while no operation outlived its lock one process works at a
  plugin (`OneAtWork`), what it has found out is still so (`WorkTells`: its
  migration, its check of the dependencies, its start), the record and the
  history tell what was done, and what is in use is served with its
  dependencies.
* **`TargetInv`**: whose directory a name on the NAS is (`TreeTells`), which
  names are reserved or on the way of a renumbering (`MoveTells`,
  `DirectoriesUnreserved`), and that a cleaned directory is gone; most of it
  only until a force delete went by an old status (`overtaken`).
* **`DeliveryInv`**: rows are begun in order (`BegunInOrder`, stronger than
  what the run checks), the newest effective row exists whenever there is one
  (`NewestIsThere`), and every thread still carries what its row says
  (`ThreadsTell`), abandoned ones included.
* **`MediaInv`**: a coroutine holds its claim or has lost it, every file on the
  disk has a row or a coroutine that explains it, and the list that a completion
  read is complete unless two overlapped (`ListsAreComplete`).
* **`JournalInv`**: before the marker no directory has its new name, after it
  none its old one, after success every one its new name (`PlacesTell`); one run
  works at a time, as a row in `processing` is claimed by nobody (`OneRunWorks`);
  and how far it has looked (`PassTells`).
* **`ReviewInv`**: the last version has the status of the task and the earlier
  ones are refused (`RoundsTell`), the cycles are complete (`CyclesTell`), an
  open issue before the last version was answered by it (`NotesTell`), and while
  a submission is under way its answers stay all open issues (`UploadTells`).
  That a page is out of date does not matter for safety: what it could miss is
  compared again under the locks.
* **`SceneInv`** of `ProjectProofs`: a migration gives its shots different
  numbers, and those of them whose lock version has not risen are as they were
  when it was frozen (`MoveTells`), so a write-back that passes its check cannot
  collide; unless a request was served late, there is one migration at most, it
  covers the whole scene, and the tree is between its two ends (`FitsNow`,
  `TreeTells`). The counting argument is `DifferentPositionsArrange`: different
  positions within 1..n fill it.
* **`MemberInv`** of `ProjectProofs`: while a transaction holds its rows, what it
  decided under them, the plan of grants and revocations included, is what it
  would decide again (`RequestTells`). Every step of somebody else respects the
  rows a transaction holds (`Respects`), so its plan is still right when it
  commits; a project being created has no other request, and a deletion has
  locked every member it found.
* **`JobInv`** of `TaskProofs`: where every update time, entry and row somebody
  holds came from (`Reconciled`). An update time the leader knows belongs to the
  entry it has (`KnownFits`), or the start of its scheduler will still add the
  job (`Expected`); a process that led before may know the time of an edit that
  is not committed yet, and then no entry, list or row may be in its way when it
  leads again (`KnownElsewhere`). That a row has one writer until its commit
  (`OneWriter`) is what makes an uncommitted time harmless. The attempt to prove
  the property as it was first stated failed: TLC found, in 19 steps beyond the
  bounds of the run, that an edit whose UPDATE finds nothing may schedule a row
  that is switched off, and `astray` now names that race too.

The leaves use Z3 and Zenon and, in the last step of each theorem, the
temporal prover. Facts about finite sets (a maximum exists, a subset is finite)
come from well-founded induction over a given set, not from induction over an
operator.

Every safety invariant, action property and refinement that a run checks is stated
by a theorem, those that are a conjunct of a temporal property included. Only
model-checked: liveness under fairness (`PreparingResolves`, `QueueWorks`,
`PurgeSettles`, `SubmissionSettles`, `DeliveriesTakeEffect`, `DerivationsSettle`,
`RenumberEnds`, `MessagesAreHandled`, `RequestsAreAnswered` and the rest of
`FilesReconcile` and of `LeadershipPasses`), which is beyond the prover.

## 6. Where code and documentation disagree

Two disagreements are runs of their own.

`target_stale_move`: `lock_project_storage` (`SG/dao/shot_crud_dao.py:441`) joins
the project and its storage row and locks the project row only. After a wait
PostgreSQL re-reads the locked row only, so a force delete passes its "ready"
check while the project is migrating, and its purge removes the directory that
the migration has moved to the frozen path. The contract, lines 4998 and 4999,
excludes both.

`locks_circle`: the plan of the permanent deletion
(`src/docs/superpowers/plans/2026-10-13-force-delete-permanent.md:90`) asks for one
order of the project lock and the locks of the running records, and the
verification record beside it (`2026-10-13-shot-asset-force-delete-verification.md:36`)
withdraws a reported deadlock because of `FOR UPDATE OF`. `lock_project_context`
(`SG/dao/project_purge_dao.py:66`) has no `OF` and locks the storage row too, then
the deletion locks operations, also those in `processing`; the error write-back
locks an operation and then the storage row (`storage_operation_dao.py:245`,
`:385`). When PostgreSQL cancels the write-back, its operation stays in
`processing` for ever (item 2).

The following were met while modelling; no run reports them. Where a model
excludes the case from a property, the history variable or guard that does so is
named.

*Directories*

1. `lock_project_storage` of `SG/dao/task_dao.py:390` has the same form: a start
   that waited runs during a migration, against the contract, line 1157 ("read
   only"). The renumbering then ends in `RenumberConflict` and its operation
   stays in `processing` (`late` in `SceneShots`).
2. A worker that dies leaves its directory operation in `processing` for ever.
   The contract lets another worker take it over (lines 1209 and 1219) and
   forbids exactly that elsewhere (line 5000). The code does the latter, so
   `PreparingResolves` is checked without faults.
3. The manual retry locks the operation before the project
   (`storage_management_service.py:199`, `:211`), every other request the project
   first: with a deletion it can wait in a circle like the error write-back of
   `locks_circle`. `OnlyDeletionsDeadlock` says that these are the only circles.
4. Deleting a shot checks directories and started work from the deleted position
   on only, but `_synchronize_scene_numbers` renumbers every row whose number
   differs from its position. As gaps are allowed, archiving a later shot can
   queue an implicit rename of earlier directories, against the contract, lines
   407 and 4218.
5. A started shot whose number differs from its position blocks every reordering
   and deletion in its scene, though the requirements, line 479, restrict the
   check to the moved interval.
6. The purge deletes the frozen path without looking at the owner marker
   (`SG/service/project_purge_path_adapter.py:118`, comment at line 42); a new
   project of the same name loses its directory.
7. A missing directory whose new name somebody else has counts as renamed
   (`storage_path_adapter.py:605`). A new name that is taken between the look at it
   and the rename is reported as final or as a retryable error, whichever error
   the file system gives (`:680`, `:682`).

*Shots and assets*

8. A shot task's name freezes the shot number at assignment
   (`task_service.py:207`); reorderings do not change it, while those of asset
   tasks follow (`asset_crud_service.py:286`, `:562`).
9. `resolve` and `rematch` add relations without raising the shot's lock version:
   a save from an older page removes the relation silently
   (`shot_crud_dao.py:901`) and the requirement stays `matched`; they also add
   relations to archived shots, and `get_usage_shot_count`
   (`asset_crud_dao.py:628`) counts those.
10. Archiving a completed item frees its name but its versions keep their files:
    a new item of that name builds the same file names, so its first submission
    meets an existing target (`version_publish_path_adapter.py:344`), stays
    `failed` and blocks its task.

*Versions, review, delivery*

11. `claim_next` (`SG/dao/version_submission_dao.py:548`) finds `pending` and
    `published` only. A worker that dies in `committing` blocks the task; a
    comment and a branch at line 618 and the contract, line 1281, describe a
    takeover that is gone.
12. When a renewal raises, `_run_io_guardian` of the delivery worker
    (`final_delivery_worker_service.py:243`) leaves its thread running; it can
    replace a newer manifest, against `final_delivery_path_adapter.py:81`.
13. The snapshot hash of the producer's preflight contains issue ids only: an
    issue edited between preflight and submission is answered unread. A batch
    rejection compares no page version, a single one publishes other directors'
    unseen drafts.
14. `media_derivation_service.py:448` replaces the references of a version by the
    list it read before it waited (`overlapped`), against the requirements, line
    1124.

*Members and schedule*

15. `purge_project` locks project then users, the member operations user then
    project: a circle that PostgreSQL resolves by a `DeadlockVictim`
    (`project_purge_service.py:98`, `project_member_service.py:48`).
16. A grant of a relation Shot Grid already manages does nothing and is revoked
    later with the membership.
17. An archived project answers a repeated request that had been applied "read
    only" (`task_schedule_service.py:185` before `:199`); the dialog keeps one
    key, so another plan after a success of unknown outcome gets
    `SG_IDEMPOTENCY_CONFLICT`.

*Platform*

18. `get_scheduler.py:477` starts the scheduler before the jobs are read: on a
    failure leadership is given up but the scheduler runs on (comment at 340). A
    lease lost while the reacquire loop is loading leaves no loop, and the
    process never competes again (746 to 757), against
    `tests/config/test_scheduler_leader_lease.py`.
19. An edit that changes the group of a job on the leader, racing a comparison,
    leaves the job in two stores, where it runs twice until edited again; an edit
    whose UPDATE names a group that another has changed finds nothing and
    schedules the row as it is, even one switched off
    (`job_service.py:142` to 145; `astray` in `JobSync`). With one worker nothing compares, so a failed commit
    leaves the scheduler different from the table until a restart.
20. A restore's compensation soft-deletes by id alone (`file_service.py:771`) and
    can delete a file referenced meanwhile; moves follow stale findings
    (`takenBack` and `disturbed` in `FileLifecycle`).
21. An event whose key outlives a consumer that died before its commit is
    acknowledged without being stored; a failed acknowledgement releases the
    keys and rows are stored twice (`forsaken`, `uncertain` in `LogStream`). A
    row the database refuses takes its batch back every time.
22. The `onShutdown` hook of a former writer marks a plugin's error without the
    lock (against `tests/plugins/core/management/test_plugin_state.py:695`);
    recovery does not look at dependencies (`blindly`); a lost commit answer
    records `failed` for an applied migration (`unsure`).
23. The shutdown cancels the loop only after it has awaited the end of the
    renewal, the listener and the comparison (1015 to 1032), and the loop does
    not look at `_is_closing` after its request for the key (783 to 794): it may
    win in between, set `_is_leader` again, start the scheduler and a renewal,
    and be cancelled then. The scheduler is shut down later and the key is given
    back, but the renewal outlives the shutdown and, when it finds the key gone
    before the end of the process, queues a loss handler; and until line 1066
    the process calls itself leader, against the comment at line 1012. It takes
    a request for the key that is under way when the shutdown begins and a
    renewal that is not over yet although the key is gone. `ClosedMeansDrained`
    speaks of what is left without them.

## 7. What is not modelled, and why

* *Inside the NAS.* A directory is one bit and a name, a file one number. Path
  validation, mounts and hashes are left out.
* *Inside one transaction.* Statements are one step, except where a statement
  waits for a lock with an old snapshot and in `MemberAccess`, which takes its
  row locks one by one. Transactions that the code serialises by row locks are
  serialised by the models; `DirectoryLocks` checks those locks.
* *Data.* Names, notes, permissions, wording, pagination and audit rows;
  parsing and validation of Excel sheets; ffmpeg.
* *Records.* Assets, requirements, episodes and their relations, editing and
  completing a project, manual review lists, due dates and reference files:
  one row each under a lock version.
* *Idempotent replay* of a submission (same key, same answer) changes no state;
  where a replay may meet a changed state (imports, schedule) it is modelled.
* *Assumptions on the platform.* The reacquire loop sleeps longer than a
  loss handler needs (`SleptEnough`); the stream is not trimmed below the
  unread messages; plugins have one release; an administrator looks at the
  database before marking a migration
  (`docs/plugin_migration_failure_runbook.md`).
* *Playback tickets, response cache, rate limit, transport nonces*: one Redis
  key each. A cached response computed before a write may be stored after its
  eviction and lives at most `expire_seconds` from then.
* *Queries, realtime messages, code generator, command line, schema migrations,
  frontends, deployment*: no state of their own that steps share. The
  `_resolve_update_sort_order` of `shot_crud_service.py` has no caller.

## 8. What is left

* Models: the records of assets and requirements (matching against deletion and
  stale pages); transport nonces and realtime tickets.
* Theorems: the lemmas several proofs share in another form (what a step of one
  transaction leaves of another's rows) could be stated once; the storage status
  for shots from before the upgrade under two clients (5, `EInv`) needs a weaker
  property that names its exceptions.
