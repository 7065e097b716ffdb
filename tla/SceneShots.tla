----------------------------- MODULE SceneShots -----------------------------
(***************************************************************************)
(* The numbers and directories of the shots of one scene: shots are        *)
(* created with any free number, reordered, renumbered and deleted; every  *)
(* reordering wants the numbers 1, 2, 3...; and a shot that already has a  *)
(* directory can only be renumbered by a migration, whose mapping is       *)
(* frozen in the queue and takes effect later (ShotGridShotCrudService,    *)
(* ShotGridTaskService.assign_shot and start_task, and the write-back of   *)
(* ShotGridStorageOperationDao).                                           *)
(*                                                                         *)
(* Every request holds the project row, so it is one step.  It reads the   *)
(* storage status in the statement that waits for that row: the status is  *)
(* the one from before the wait.  Lock versions of a page only add         *)
(* refusals and are left out; those frozen in a migration are kept, as the *)
(* set of its shots that changed since.                                    *)
(***************************************************************************)
EXTENDS Integers, FiniteSets, SequencesExt

CONSTANTS
  Slots,       \* shot ids of the scene, used or not
  MaxShotNo,   \* bound: the numbers a shot can be created with
  MaxMoves     \* bound: migrations under way

ASSUME SceneAssumption ==
  IsFiniteSet(Slots) /\ MaxShotNo \in Nat \ {0} /\ MaxMoves \in Nat \ {0}

VARIABLES
  lifecycle,      \* sg_shot.lifecycle_status, "absent" before the insert
  shotNo,         \* sg_shot.shot_no; sort_order is ten times that
  shotDir,        \* the number in sg_shot.storage_dir_name, 0 for NULL
  dirOp,          \* status of the shot's latest directory operation
  tree,           \* NAS: the number in the name of the shot's directory, 0: none
  shotTask,       \* the task of the shot
  began,          \* the number under which its production began, 0: not yet
  migrations,     \* renumber_shot_directories operations that have not succeeded
  storageStatus,  \* sg_project_storage.storage_status
  waiting,        \* a request that read "ready" waits for the project row
  late            \* such a request was served while a migration was under way

sceneVars == <<lifecycle, shotNo, shotDir, dirOp, tree, shotTask, began, migrations,
               storageStatus, waiting, late>>

ActiveShots == {s \in Slots : lifecycle[s] = "active"}
ProductionStarted(s) == shotTask[s] = "started"
HasDirectory(s) == shotDir[s] # 0

Migration ==
  [items : SUBSET Slots, source : [Slots -> 0..MaxShotNo],
   target : [Slots -> 0..Cardinality(Slots)], changed : SUBSET Slots, renamed : BOOLEAN]

SceneTypeOK ==
  /\ lifecycle \in [Slots -> {"absent", "active", "archived"}]
  /\ shotNo \in [Slots -> 0..MaxShotNo] /\ shotDir \in [Slots -> 0..MaxShotNo]
  /\ dirOp \in [Slots -> {"none", "queued", "succeeded"}]
  /\ tree \in [Slots -> 0..MaxShotNo] /\ began \in [Slots -> 0..MaxShotNo]
  /\ shotTask \in [Slots -> {"none", "assigned", "started"}]
  /\ Len(migrations) <= MaxMoves /\ \A i \in DOMAIN migrations : migrations[i] \in Migration
  /\ storageStatus \in {"ready", "migrating"} /\ waiting \in BOOLEAN /\ late \in BOOLEAN

\* Shots of earlier releases got their directory when they were created.
SceneInit ==
  /\ lifecycle \in [Slots -> {"absent", "active"}]
  /\ shotNo \in [Slots -> 0..MaxShotNo]
  /\ \A s \in Slots : shotNo[s] = 0 <=> lifecycle[s] = "absent"
  /\ \A s, x \in ActiveShots : s # x => shotNo[s] # shotNo[x]
  /\ \E legacy \in SUBSET ActiveShots :
       /\ shotDir = [s \in Slots |-> IF s \in legacy THEN shotNo[s] ELSE 0]
       /\ dirOp \in [Slots -> {"none", "queued", "succeeded"}]
       /\ \A s \in Slots : dirOp[s] = "none" <=> s \notin legacy
  /\ tree = [s \in Slots |-> IF dirOp[s] = "succeeded" THEN shotDir[s] ELSE 0]
  /\ shotTask = [s \in Slots |-> "none"] /\ began = [s \in Slots |-> 0]
  /\ migrations = <<>> /\ storageStatus = "ready" /\ waiting = FALSE /\ late = FALSE

-----------------------------------------------------------------------------
(* Who reads which storage status.                                         *)

\* SELECT project, storage ... FOR UPDATE OF project has to wait.
WaitForProject ==
  /\ storageStatus = "ready"
  /\ ~waiting
  /\ waiting' = TRUE
  /\ UNCHANGED <<lifecycle, shotNo, shotDir, dirOp, tree, shotTask, began, migrations,
                 storageStatus, late>>

\* A refusal, a failed permission check or a lost connection: rollback.
RollBack ==
  /\ waiting' = FALSE
  /\ UNCHANGED <<lifecycle, shotNo, shotDir, dirOp, tree, shotTask, began, migrations,
                 storageStatus, late>>

\* _lock_writable_project: the status is the current one for a request that
\* did not wait, and "ready" for the one that waited.
LockProject(seen) ==
  /\ seen # "migrating"
  /\ \/ seen = storageStatus /\ UNCHANGED <<waiting, late>>
     \/ /\ waiting /\ seen = "ready"
        /\ waiting' = FALSE
        /\ late' = (late \/ storageStatus = "migrating")

\* The lock version of these shots rises: no migration that froze it applies.
Raised(shots) ==
  [i \in DOMAIN migrations |->
     [migrations[i] EXCEPT !.changed = @ \cup (shots \cap migrations[i].items)]]

-----------------------------------------------------------------------------
(* Numbers and positions.                                                  *)

\* The rows of the scene in their order, and their positions in it.
Positions(shots) == [s \in shots |-> Cardinality({x \in shots : shotNo[x] <= shotNo[s]})]

\* The positions after s is taken out and put in at position p.
Moved(s, p) ==
  LET others == Positions(ActiveShots \ {s}) IN
  [x \in ActiveShots |->
     IF x = s THEN p ELSE others[x] + IF others[x] >= p THEN 1 ELSE 0]

\* The rows between the two places of a shot, both included.
Between(a, b) ==
  {x \in ActiveShots : \/ a <= Positions(ActiveShots)[x] /\ Positions(ActiveShots)[x] <= b
                       \/ b <= Positions(ActiveShots)[x] /\ Positions(ActiveShots)[x] <= a}

NotInPlace(position) ==
  {s \in DOMAIN position : shotNo[s] # position[s] \/ shotDir[s] \notin {0, position[s]}}

OrderMutable(shots) == \A s \in shots : ~ProductionStarted(s)
DirectoriesReady(shots) == \A s \in shots : HasDirectory(s) => dirOp[s] = "succeeded"

\* _synchronize_scene_numbers: every row takes its position for a number, at
\* once when none of the rows out of place has a directory, and through a
\* migration otherwise. `deleted` are the rows the same transaction archives.
Synchronize(position, deleted, seen) ==
  LET items == NotInPlace(position)
      migration ==
        [items |-> items, source |-> shotDir, changed |-> {}, renamed |-> FALSE,
         target |-> [s \in Slots |-> IF s \in items THEN position[s] ELSE 0]]
  IN
  /\ OrderMutable(items)
  /\ DirectoriesReady(items)
  /\ \/ /\ \A s \in items : ~HasDirectory(s)
        /\ shotNo' = [s \in Slots |-> IF s \in items THEN position[s] ELSE shotNo[s]]
        /\ migrations' = Raised(items \cup deleted)
        /\ UNCHANGED storageStatus
     \/ /\ \E s \in items : HasDirectory(s)
        /\ seen = "ready"
        /\ Len(migrations) < MaxMoves
        /\ migrations' = Append(Raised(deleted), migration)
        /\ storageStatus' = "migrating"
        /\ UNCHANGED shotNo

-----------------------------------------------------------------------------
(* The requests.                                                           *)

\* create_shot: any number that no active shot of the scene has.
CreateShot(s, n, seen) ==
  /\ LockProject(seen)
  /\ seen = "ready"
  /\ lifecycle[s] = "absent"
  /\ \A x \in ActiveShots : shotNo[x] # n
  /\ lifecycle' = [lifecycle EXCEPT ![s] = "active"]
  /\ shotNo' = [shotNo EXCEPT ![s] = n]
  /\ UNCHANGED <<shotDir, dirOp, tree, shotTask, began, migrations, storageStatus>>

\* update_shot never changes the number, but raises the lock version.
UpdateShot(s, seen) ==
  /\ LockProject(seen)
  /\ seen = "ready"
  /\ s \in ActiveShots /\ ~ProductionStarted(s)
  /\ migrations' = Raised({s})
  /\ UNCHANGED <<lifecycle, shotNo, shotDir, dirOp, tree, shotTask, began, storageStatus>>

\* assign_shot and batch_assign_shots: the first assignment creates the task.
AssignShot(s, seen) ==
  /\ LockProject(seen)
  /\ seen = "ready"
  /\ s \in ActiveShots /\ shotTask[s] = "none"
  /\ shotTask' = [shotTask EXCEPT ![s] = "assigned"]
  /\ UNCHANGED <<lifecycle, shotNo, shotDir, dirOp, tree, began, migrations, storageStatus>>

\* start_task: the number the shot has now names its directory for good.
StartShot(s, seen) ==
  /\ LockProject(seen)
  /\ seen = "ready"
  /\ s \in ActiveShots /\ shotTask[s] = "assigned"
  /\ shotTask' = [shotTask EXCEPT ![s] = "started"]
  /\ began' = [began EXCEPT ![s] = shotNo[s]]
  /\ shotDir' = [shotDir EXCEPT ![s] = IF HasDirectory(s) THEN @ ELSE shotNo[s]]
  /\ dirOp' = [dirOp EXCEPT ![s] = IF @ = "none" THEN "queued" ELSE @]
  /\ migrations' = Raised({s})
  /\ UNCHANGED <<lifecycle, shotNo, tree, storageStatus>>

\* reorder_shot, which only a migration under way forbids.
ReorderShot(s, p, seen) ==
  /\ LockProject(seen)
  /\ s \in ActiveShots
  /\ p \in 1..Cardinality(ActiveShots)
  /\ OrderMutable(Between(Positions(ActiveShots)[s], p))
  /\ Synchronize(Moved(s, p), {}, seen)
  /\ UNCHANGED <<lifecycle, shotDir, dirOp, tree, shotTask, began>>

\* renumber_scene_shots: no shot of the scene may have started.
RenumberShots(seen) ==
  /\ LockProject(seen)
  /\ seen = "ready"
  /\ ActiveShots # {}
  /\ OrderMutable(ActiveShots)
  /\ DirectoriesReady(ActiveShots)
  /\ Synchronize(Positions(ActiveShots), {}, seen)
  /\ UNCHANGED <<lifecycle, shotDir, dirOp, tree, shotTask, began>>

\* _prepare_delete_scene_plans: the rows from the first deleted one on.
FromFirst(shots) ==
  {x \in ActiveShots : \E s \in shots : Positions(ActiveShots)[s] <= Positions(ActiveShots)[x]}

\* archive_shot and batch_delete_shots.
DeleteShots(shots, seen) ==
  /\ LockProject(seen)
  /\ shots \subseteq ActiveShots /\ shots # {}
  /\ OrderMutable(FromFirst(shots))
  /\ \A s \in FromFirst(shots) : ~HasDirectory(s)
  /\ lifecycle' = [s \in Slots |-> IF s \in shots THEN "archived" ELSE lifecycle[s]]
  /\ shotTask' = [s \in Slots |-> IF s \in shots THEN "none" ELSE shotTask[s]]
  /\ Synchronize(Positions(ActiveShots \ shots), shots, seen)
  /\ UNCHANGED <<shotDir, dirOp, tree, began>>

-----------------------------------------------------------------------------
(* The worker.  What it takes to rename several directories is the subject *)
(* of RenumberJournal, and the claims of StorageOutbox: here each of its   *)
(* operations makes or renames its directories, and then writes back.      *)

MakeDirectory(s) ==
  /\ dirOp[s] = "queued"
  /\ dirOp' = [dirOp EXCEPT ![s] = "succeeded"]
  /\ tree' = [tree EXCEPT ![s] = shotDir[s]]
  /\ UNCHANGED <<lifecycle, shotNo, shotDir, shotTask, began, migrations, storageStatus,
                 waiting, late>>

WithDirectory(m) == {s \in m.items : m.source[s] # 0}

\* The frozen mapping, whatever the rows say by now.
RenameShotDirectories(i) ==
  LET m == migrations[i]
      renamed == WithDirectory(m)
  IN
  /\ ~m.renamed
  /\ \A s \in renamed : tree[s] = m.source[s]
  /\ \A x \in Slots \ renamed, s \in renamed : tree[x] # m.target[s]
  /\ tree' = [s \in Slots |-> IF s \in renamed THEN m.target[s] ELSE tree[s]]
  /\ migrations' = [migrations EXCEPT ![i].renamed = TRUE]
  /\ UNCHANGED <<lifecycle, shotNo, shotDir, dirOp, shotTask, began, storageStatus,
                 waiting, late>>

\* The rows are active and carry the frozen lock versions; the unique index
\* over the numbers of the active shots refuses a number that is taken.
NumbersFree(m) ==
  \A x \in ActiveShots \ m.items, s \in m.items : shotNo[x] # m.target[s]
Unchecked(m) == NumbersFree(m)
StillApplies(m) == m.changed = {} /\ NumbersFree(m)

\* mark_succeeded and _apply_shot_renumber. When the check fails it raises and
\* the operation stays "processing": no action here.
ApplyShotRenumber(i) ==
  LET m == migrations[i]
      numbered == [s \in Slots |-> IF s \in m.items THEN m.target[s] ELSE shotNo[s]]
  IN
  /\ m.renamed
  /\ StillApplies(m)
  /\ shotNo' = numbered
  /\ shotDir' = [s \in Slots |-> IF s \in WithDirectory(m) THEN m.target[s] ELSE shotDir[s]]
  /\ storageStatus' = "ready"
  /\ migrations' = RemoveAt(Raised(m.items), i)
  /\ UNCHANGED <<lifecycle, dirOp, tree, shotTask, began, waiting, late>>

SceneNext ==
  \/ WaitForProject
  \/ RollBack
  \/ \E seen \in {"ready", "migrating"} :
       \/ \E s \in Slots, n \in 1..MaxShotNo : CreateShot(s, n, seen)
       \/ \E s \in Slots : UpdateShot(s, seen) \/ AssignShot(s, seen) \/ StartShot(s, seen)
       \/ \E s \in Slots, p \in 1..Cardinality(Slots) : ReorderShot(s, p, seen)
       \/ RenumberShots(seen)
       \/ \E shots \in SUBSET Slots : DeleteShots(shots, seen)
  \/ \E s \in Slots : MakeDirectory(s)
  \/ \E i \in DOMAIN migrations : RenameShotDirectories(i) \/ ApplyShotRenumber(i)

SceneSpec == SceneInit /\ [][SceneNext]_sceneVars

-----------------------------------------------------------------------------
\* Two active shots never have the same number, and a directory always
\* carries the number of its shot in the table, whichever mixture of direct
\* renumberings and migrations led there.
NumbersNameDirectories ==
  /\ \A s, x \in ActiveShots : s # x => shotNo[s] # shotNo[x]
  /\ \A s \in ActiveShots : shotDir[s] \in {0, shotNo[s]}

\* Once production of a shot has started, the shot keeps the number and the
\* directory name it started with and cannot be deleted, even when a
\* migration that was frozen earlier is written back later.
StartedShotsStandStill ==
  \A s \in Slots : ProductionStarted(s) =>
    s \in ActiveShots /\ shotNo[s] = began[s] /\ shotDir[s] = began[s]

\* The directory on the NAS has the name the table gives it, or the one a
\* migration has already renamed it to; a deleted shot leaves no directory.
TreeFollowsTable ==
  ~late =>
    /\ \A s \in ActiveShots : dirOp[s] = "succeeded" =>
         \/ tree[s] = shotDir[s]
         \/ \E i \in DOMAIN migrations :
              s \in migrations[i].items /\ tree[s] = migrations[i].target[s]
    /\ \A s \in Slots : lifecycle[s] = "archived" => tree[s] = 0

\* The project is locked exactly while one migration is under way; that
\* migration still applies, touches no shot whose production has started and
\* leaves the scene numbered 1, 2, 3...: it does not end in an operation that
\* can neither succeed nor be repeated.
MigrationsCanFinish ==
  ~late =>
    /\ Len(migrations) = (IF storageStatus = "migrating" THEN 1 ELSE 0)
    /\ \A i \in DOMAIN migrations :
         LET m == migrations[i] IN
         /\ StillApplies(m)
         /\ m.items \subseteq ActiveShots
         /\ \A s \in m.items : ~ProductionStarted(s)
         /\ {IF s \in m.items THEN m.target[s] ELSE shotNo[s] : s \in ActiveShots}
              = 1..Cardinality(ActiveShots)

\* The four of them.
ScenesSafe ==
  /\ SceneTypeOK
  /\ NumbersNameDirectories
  /\ StartedShotsStandStill
  /\ TreeFollowsTable
  /\ MigrationsCanFinish
=============================================================================
