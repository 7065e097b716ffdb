----------------------------- MODULE TargetPurge -----------------------------
(***************************************************************************)
(* The forced deletion of shots of one scene: the request removes the shot *)
(* from the database at once, freezes the path of its directory, reserves  *)
(* its names and leaves the deletion of the directory to a queue that has  *)
(* no takeover but a manual retry.  Meanwhile other shots are created,     *)
(* started and renumbered, and their directories live beside the reserved  *)
(* ones.  A name is the number of a shot in its scene: number n and the    *)
(* directory VIDEO/<episode>/<scene>_<n> are both written n.               *)
(***************************************************************************)
EXTENDS Integers, FiniteSets

CONSTANTS
  Shots, Names,  \* shots and the numbers they may carry, a set 1..n
  Old,           \* Old[s]: the name of a shot from before, 0 if still to come
  Cleaners,      \* coroutines of the target purge worker
  MaxTries,      \* ShotGridTargetPurgeWorkerService: max_attempts
  MaxRetries,    \* bound: manual retries
  MaxMishaps,    \* bound: deaths, late heartbeats and database errors
  Nobody         \* model value

ASSUME TargetAssumption ==
  /\ Names \subseteq Nat \ {0}
  /\ IsFiniteSet(Shots) /\ Old \in [Shots -> Names \cup {0}]
  /\ \A s, t \in Shots : Old[s] = Old[t] /\ Old[s] # 0 => s = t
  /\ MaxTries \in Nat \ {0} /\ MaxRetries \in Nat /\ MaxMishaps \in Nat
  /\ Nobody \notin Shots \cup Cleaners

VARIABLES
  shot,      \* sg_shot with what its tasks and directory operations say
  move,      \* the renumbering of the scene in the directory outbox
  asked,     \* a force delete that waits for the project row
  purgeRow,  \* sg_target_purge and sg_target_purge_path, by the deleted shot
  cleaner,   \* what each coroutine is doing
  tree,      \* NAS: whose directory lies under each name
  retries, mishaps,
  overtaken  \* a force delete went by a storage status that was out of date

requestVars == <<shot, move, asked, overtaken>>
targetVars == <<shot, move, asked, purgeRow, cleaner, tree, retries, mishaps,
                overtaken>>

Live == {s \in Shots : shot[s].state = "live"}
DirectoryOf(s) == IF shot[s].dir = 0 THEN shot[s].no ELSE shot[s].dir
Unfinished == {s \in Shots : purgeRow[s].status \notin {"none", "succeeded"}}

NothingReserved == {}
Reserved == UNION {purgeRow[s].names : s \in Unfinished}

\* storage_status is "migrating" from the renumbering until its write-back.
Migrating == move.status \notin {"none", "succeeded"}

-----------------------------------------------------------------------------
(* Requests.  Each holds the project row from its first statement on.      *)

CreateShot(s, n) ==
  /\ shot[s].state = "absent"
  /\ ~Migrating
  /\ \A t \in Live : shot[t].no # n
  /\ n \notin Reserved
  /\ shot' = [shot EXCEPT ![s].state = "live", ![s].no = n]
  /\ UNCHANGED <<move, asked, purgeRow, cleaner, tree, retries, mishaps, overtaken>>

\* start_task names the directory and queues it, unless it is an old one.
StartShot(s) ==
  /\ s \in Live /\ ~shot[s].started
  /\ ~Migrating
  /\ {shot[s].no, DirectoryOf(s)} \cap Reserved = {}
  /\ shot' = [shot EXCEPT ![s].started = TRUE, ![s].dir = DirectoryOf(s),
                          ![s].op = IF @ = "none" THEN "pending" ELSE @]
  /\ UNCHANGED <<move, asked, purgeRow, cleaner, tree, retries, mishaps, overtaken>>

\* The directory worker; its failures and leases are those of StorageOutbox.
ClaimDirectory(s) ==
  /\ s \in Live /\ shot[s].op = "pending"
  /\ shot' = [shot EXCEPT ![s].op = "processing"]
  /\ UNCHANGED <<move, asked, purgeRow, cleaner, tree, retries, mishaps, overtaken>>

FinishDirectory(s) ==
  /\ s \in Live /\ shot[s].op = "processing"
  /\ tree' = [tree EXCEPT ![shot[s].dir] = IF @ = Nobody THEN s ELSE @]
  /\ shot' = [shot EXCEPT ![s].op = "succeeded"]
  /\ UNCHANGED <<move, asked, purgeRow, cleaner, retries, mishaps, overtaken>>

Moved(to) == {s \in Live : to[s] # shot[s].no}
ProjectClear == Unfinished = {}

\* Renumbering of shots whose directories have to move: frozen in a payload.
RenumberLater(to) ==
  /\ ~Migrating
  /\ \A s \in Moved(to) : ~shot[s].started
  /\ \E s \in Moved(to) : shot[s].dir # 0
  /\ ProjectClear
  /\ move' = [status |-> "pending",
              items |-> [s \in Moved(to) |->
                           [from |-> shot[s].dir, to |-> to[s]]]]
  /\ UNCHANGED <<shot, asked, purgeRow, cleaner, tree, retries, mishaps, overtaken>>

\* ... and of shots without a directory: the trigger refuses reserved names.
RenumberNow(to) ==
  /\ ~Migrating
  /\ Moved(to) # {}
  /\ \A s \in Moved(to) : ~shot[s].started /\ shot[s].dir = 0
  /\ \A s \in Moved(to) : to[s] \notin Reserved
  /\ shot' = [s \in Shots |-> IF s \in Moved(to) THEN [shot[s] EXCEPT !.no = to[s]]
                                                 ELSE shot[s]]
  /\ UNCHANGED <<move, asked, purgeRow, cleaner, tree, retries, mishaps, overtaken>>

\* The two-phase rename, as one step: whatever lies under the source names.
MoveDirectories ==
  LET named == {s \in DOMAIN move.items : move.items[s].from # 0}
      sources == {move.items[s].from : s \in named}
      targets == {move.items[s].to : s \in named}
  IN
  /\ move.status = "pending"
  /\ \A n \in sources : tree[n] # Nobody
  /\ \A n \in targets \ sources : tree[n] = Nobody
  /\ tree' = [n \in Names |->
       IF n \in targets
       THEN tree[move.items[CHOOSE s \in named : move.items[s].to = n].from]
       ELSE IF n \in sources THEN Nobody ELSE tree[n]]
  /\ move' = [move EXCEPT !.status = "moved"]
  /\ UNCHANGED <<shot, asked, purgeRow, cleaner, retries, mishaps, overtaken>>

\* The write-back finds the shots unchanged and their new names free; otherwise
\* it rolls back, and the row stays with its dead claim.
FinishMove ==
  /\ move.status = "moved"
  /\ IF \A s \in DOMAIN move.items :
          s \in Live /\ ~shot[s].started /\ move.items[s].to \notin Reserved
     THEN /\ move' = [move EXCEPT !.status = "succeeded"]
          /\ shot' = [s \in Shots |->
               IF s \in DOMAIN move.items
               THEN [shot[s] EXCEPT
                       !.no = move.items[s].to,
                       !.dir = IF @ = 0 THEN 0 ELSE move.items[s].to]
               ELSE shot[s]]
     ELSE move' = [move EXCEPT !.status = "stuck"] /\ UNCHANGED shot
  /\ UNCHANGED <<asked, purgeRow, cleaner, tree, retries, mishaps, overtaken>>

\* The force delete reads the storage status in the statement that waits for
\* the project row, so a renumbering that commits meanwhile is not seen.
AskDelete(s) ==
  /\ asked.shot = Nobody
  /\ s \in Live
  /\ asked' = [shot |-> s, migrating |-> Migrating]
  /\ UNCHANGED <<shot, move, purgeRow, cleaner, tree, retries, mishaps, overtaken>>

NotAsked == [shot |-> Nobody, migrating |-> FALSE]
RefuseDelete ==
  /\ asked.shot # Nobody
  /\ asked' = NotAsked
  /\ UNCHANGED <<shot, move, purgeRow, cleaner, tree, retries, mishaps, overtaken>>

Quiescent(s) == shot[s].op # "processing"

ReservedNames(s) == {shot[s].no, DirectoryOf(s)}

NoPurge == [status |-> "none", dir |-> 0, names |-> {}, attempt |-> 0,
            owner |-> Nobody, lease |-> FALSE, due |-> FALSE]
Deleted == [state |-> "deleted", no |-> 0, dir |-> 0, started |-> FALSE, op |-> "none"]

\* delete_targets_permanently: manifest, reservation and the whole business
\* graph in one transaction, except while a worker may be at the directory.
ForceDelete ==
  LET s == asked.shot IN
  /\ s \in Live
  /\ ~asked.migrating
  /\ Quiescent(s)
  /\ \A t \in Live \ {s} : DirectoryOf(t) # DirectoryOf(s)
  /\ ReservedNames(s) \cap Reserved = {}
  /\ purgeRow' = [purgeRow EXCEPT ![s] =
       [NoPurge EXCEPT !.status = "pending", !.dir = DirectoryOf(s),
                       !.names = ReservedNames(s)]]
  /\ shot' = [shot EXCEPT ![s] = Deleted]
  /\ asked' = NotAsked
  /\ overtaken' = (overtaken \/ Migrating)
  /\ UNCHANGED <<move, cleaner, tree, retries, mishaps>>

Retryable(status) == status \in {"failed", "retry_wait"}

\* A manual retry begins the attempts anew.
RetryPurge(s) ==
  /\ Retryable(purgeRow[s].status)
  /\ retries < MaxRetries
  /\ purgeRow' = [purgeRow EXCEPT ![s].status = "pending", ![s].attempt = 0,
                                  ![s].due = FALSE]
  /\ retries' = retries + 1
  /\ UNCHANGED <<shot, move, asked, cleaner, tree, mishaps, overtaken>>

-----------------------------------------------------------------------------
(* The worker.                                                             *)

Resting == [pc |-> "idle", shot |-> Nobody, attempt |-> 0, retryable |-> TRUE]
Rest(c) == cleaner' = [cleaner EXCEPT ![c] = Resting]

DueWhenPending(s) == purgeRow[s].status = "pending"
Due(s) ==
  \/ purgeRow[s].status = "pending"
  \/ purgeRow[s].status = "retry_wait" /\ purgeRow[s].due

\* The order of the claims matters to nobody: a batch goes on until none is due.
ClaimPurge(c, s) ==
  /\ cleaner[c].pc = "idle"
  /\ Due(s)
  /\ purgeRow' = [purgeRow EXCEPT ![s].status = "processing", ![s].attempt = @ + 1,
                                  ![s].owner = c, ![s].lease = TRUE, ![s].due = FALSE]
  /\ cleaner' = [cleaner EXCEPT ![c] =
       IF purgeRow[s].attempt + 1 <= MaxTries
       THEN [pc |-> "io", shot |-> s, attempt |-> purgeRow[s].attempt + 1, retryable |-> TRUE]
       ELSE [pc |-> "failed", shot |-> s, attempt |-> purgeRow[s].attempt + 1, retryable |-> FALSE]]
  /\ UNCHANGED <<requestVars, tree, retries, mishaps>>

Holds(c) ==
  LET row == purgeRow[cleaner[c].shot] IN
  row.status = "processing" /\ row.owner = c /\ row.attempt = cleaner[c].attempt
\* _lock_owned: here, unlike in the other queues, the lease must be alive too.
Owned(c) == Holds(c) /\ purgeRow[cleaner[c].shot].lease

RenewRefused(c) ==
  /\ cleaner[c].pc = "io"
  /\ ~Owned(c)
  /\ cleaner' = [cleaner EXCEPT ![c].pc = "lost"]
  /\ UNCHANGED <<requestVars, purgeRow, tree, retries, mishaps>>

RenewRaises(c) ==
  /\ cleaner[c].pc = "io"
  /\ mishaps < MaxMishaps
  /\ cleaner' = [cleaner EXCEPT ![c].pc = "broken"]
  /\ mishaps' = mishaps + 1
  /\ UNCHANGED <<requestVars, purgeRow, tree, retries>>

InIo == {"io", "lost", "broken"}

\* _purge_target_sync removes what lies at the frozen path.
CleanSucceeds(c) ==
  /\ cleaner[c].pc \in InIo
  /\ tree' = [tree EXCEPT ![purgeRow[cleaner[c].shot].dir] = Nobody]
  /\ cleaner' = [cleaner EXCEPT ![c] =
       CASE cleaner[c].pc = "io" -> [@ EXCEPT !.pc = "done"]
         [] cleaner[c].pc = "broken" -> [@ EXCEPT !.pc = "failed"]
         [] cleaner[c].pc = "lost" -> Resting]
  /\ UNCHANGED <<requestVars, purgeRow, retries, mishaps>>

CleanFails(c, retryable) ==
  /\ cleaner[c].pc \in InIo
  /\ cleaner' = [cleaner EXCEPT ![c].pc = "failed", ![c].retryable = retryable]
  /\ UNCHANGED <<requestVars, purgeRow, tree, retries, mishaps>>

Written(s, status) ==
  [purgeRow EXCEPT ![s].status = status, ![s].owner = Nobody, ![s].lease = FALSE]

\* mark_succeeded also removes the reserved names.
MarkPurged(c) ==
  LET s == cleaner[c].shot IN
  /\ cleaner[c].pc = "done"
  /\ Owned(c)
  /\ purgeRow' = [Written(s, "succeeded") EXCEPT ![s].names = {}]
  /\ Rest(c)
  /\ UNCHANGED <<requestVars, tree, retries, mishaps>>

Terminal(retryable, attempt) == ~retryable \/ attempt >= MaxTries

NamesAfterFailure(s) == purgeRow[s].names

RecordFailure(c) ==
  LET s == cleaner[c].shot IN
  /\ cleaner[c].pc = "failed"
  /\ Owned(c)
  /\ purgeRow' = [Written(s, IF Terminal(cleaner[c].retryable, cleaner[c].attempt)
                             THEN "failed" ELSE "retry_wait")
                   EXCEPT ![s].names = NamesAfterFailure(s)]
  /\ Rest(c)
  /\ UNCHANGED <<requestVars, tree, retries, mishaps>>

\* The lease ran out during the I/O: outcome "lease_lost", the row stays.
LateResult(c) ==
  /\ cleaner[c].pc \in {"done", "failed"}
  /\ ~Owned(c)
  /\ Rest(c)
  /\ UNCHANGED <<requestVars, purgeRow, tree, retries, mishaps>>

\* The process dies, or the write-back raises (a database error, or a file of
\* the manifest that has got a new reference): the row stays claimed.
Crash(c) ==
  /\ cleaner[c].pc # "idle"
  /\ mishaps < MaxMishaps
  /\ mishaps' = mishaps + 1
  /\ Rest(c)
  /\ UNCHANGED <<requestVars, purgeRow, tree, retries>>

\* A lease that is being renewed runs out only when the heartbeats are late.
LeaseExpires(s) ==
  /\ purgeRow[s].lease
  /\ IF \E c \in Cleaners : cleaner[c].pc # "idle" /\ cleaner[c].shot = s
     THEN mishaps < MaxMishaps /\ mishaps' = mishaps + 1
     ELSE UNCHANGED mishaps
  /\ purgeRow' = [purgeRow EXCEPT ![s].lease = FALSE]
  /\ UNCHANGED <<requestVars, cleaner, tree, retries>>

RetryTimeComes(s) ==
  /\ purgeRow[s].status = "retry_wait" /\ ~purgeRow[s].due
  /\ purgeRow' = [purgeRow EXCEPT ![s].due = TRUE]
  /\ UNCHANGED <<requestVars, cleaner, tree, retries, mishaps>>

-----------------------------------------------------------------------------
\* Old shots have a directory, and their tasks have not been started.
Init ==
  /\ shot = [s \in Shots |->
       IF Old[s] = 0
       THEN [Deleted EXCEPT !.state = "absent"]
       ELSE [state |-> "live", no |-> Old[s], dir |-> Old[s], started |-> FALSE,
             op |-> "succeeded"]]
  /\ move = [status |-> "none", items |-> <<>>]
  /\ asked = NotAsked
  /\ purgeRow = [s \in Shots |-> NoPurge]
  /\ cleaner = [c \in Cleaners |-> Resting]
  /\ tree = [n \in Names |->
       IF \E s \in Shots : Old[s] = n THEN CHOOSE s \in Shots : Old[s] = n ELSE Nobody]
  /\ retries = 0 /\ mishaps = 0
  /\ overtaken = FALSE

\* Numbers follow the position in the scene, so they are 1..k without gaps.
Orders ==
  {to \in [Live -> Names] : {to[s] : s \in Live} = 1..Cardinality(Live)}

ShotStep ==
  \/ \E s \in Shots :
       \/ \E n \in Names : CreateShot(s, n)
       \/ StartShot(s) \/ ClaimDirectory(s) \/ FinishDirectory(s)
       \/ AskDelete(s) \/ RetryPurge(s)
  \/ \E to \in Orders : RenumberLater(to) \/ RenumberNow(to)
  \/ MoveDirectories \/ FinishMove
  \/ RefuseDelete \/ ForceDelete

CleanIo(c) == CleanSucceeds(c) \/ \E retryable \in BOOLEAN : CleanFails(c, retryable)
WriteBack(c) == MarkPurged(c) \/ RecordFailure(c) \/ LateResult(c)
CleanerStep(c) ==
  \/ \E s \in Shots : ClaimPurge(c, s)
  \/ RenewRefused(c) \/ RenewRaises(c) \/ CleanIo(c) \/ WriteBack(c) \/ Crash(c)

Next ==
  \/ ShotStep
  \/ \E c \in Cleaners : CleanerStep(c)
  \/ \E s \in Shots : LeaseExpires(s) \/ RetryTimeComes(s)

Spec == Init /\ [][Next]_targetVars

\* The batch comes round for ever, file system calls and write-backs end.
Fairness ==
  /\ \A c \in Cleaners : WF_targetVars(CleanIo(c)) /\ WF_targetVars(WriteBack(c))
  /\ \A s \in Shots : /\ SF_targetVars(\E c \in Cleaners : ClaimPurge(c, s))
                      /\ WF_targetVars(RetryTimeComes(s))
FairSpec == Spec /\ Fairness

-----------------------------------------------------------------------------
(* Properties.                                                             *)

PurgeStatus == {"none", "pending", "processing", "retry_wait", "succeeded", "failed"}
MoveItem == [from : Names \cup {0}, to : Names]

\* The values of the rows, of the coroutines and of the directories; a purge
\* is never attempted more often than the limit allows.
TypeOK ==
  /\ shot \in [Shots ->
       [state : {"absent", "live", "deleted"}, no : Names \cup {0},
        dir : Names \cup {0}, started : BOOLEAN,
        op : {"none", "pending", "processing", "succeeded"}]]
  /\ move.status \in {"none", "pending", "moved", "succeeded", "stuck"}
  /\ DOMAIN move.items \subseteq Shots
  /\ \A s \in DOMAIN move.items : move.items[s] \in MoveItem
  /\ asked \in [shot : Shots \cup {Nobody}, migrating : BOOLEAN]
  /\ purgeRow \in [Shots ->
       [status : PurgeStatus, dir : Names \cup {0}, names : SUBSET Names,
        attempt : 0..MaxTries, owner : Cleaners \cup {Nobody},
        lease : BOOLEAN, due : BOOLEAN]]
  /\ cleaner \in [Cleaners ->
       [pc : InIo \cup {"idle", "done", "failed"}, shot : Shots \cup {Nobody},
        attempt : 0..MaxTries, retryable : BOOLEAN]]
  /\ tree \in [Names -> Shots \cup {Nobody}]
  /\ retries \in 0..MaxRetries /\ mishaps \in 0..MaxMishaps
  /\ overtaken \in BOOLEAN

\* From its claim to its write-back a coroutine holds the row, whatever has
\* happened to the lease: no claim and no manual retry takes the deletion of a
\* directory away from a thread that may still be deleting.
CleanerHoldsRow ==
  \A c \in Cleaners : cleaner[c].pc # "idle" => cleaner[c].shot \in Shots /\ Holds(c)

\* What is left of a deleted shot is always on record: its directory lies
\* under a name that an unfinished purge has reserved.
LeftoversAreReserved ==
  ~overtaken =>
    \A n \in Names :
      tree[n] \in Shots /\ shot[tree[n]].state = "deleted"
        => n \in purgeRow[tree[n]].names /\ purgeRow[tree[n]].dir = n

\* A live shot whose directory was made has it under its own name, while no
\* renumbering is under way, although names are used again and deletions run
\* late: no shot ever works in the directory of another, and no cleaning takes
\* a directory that has come to belong to a new shot.
ShotsKeepTheirDirectories ==
  ~overtaken /\ ~Migrating =>
    \A s \in Live : shot[s].op = "succeeded" => tree[shot[s].dir] = s

\* The directories of other shots are not touched by the cleaning.
CleaningSparesTheLiving ==
  [][\A n \in Names : tree[n] \in Live /\ tree'[n] # tree[n]
       => \E m \in Names : tree'[m] = tree[n]]_targetVars

\* The purges end: done, or failed where a user can retry them, unless the
\* process died or a lease ran out (then nothing takes the row up again).
Settled(s) == purgeRow[s].status \in {"none", "succeeded", "failed"}
PurgeSettles ==
  (\E s \in Shots : ~Settled(s)) ~> (\A s \in Shots : Settled(s)) \/ mishaps > 0

\* One coroutine cleans a directory, what it leaves behind is on record, and it
\* is never the directory of a living shot.
TargetSafe ==
  TypeOK /\ CleanerHoldsRow /\ LeftoversAreReserved /\ ShotsKeepTheirDirectories
=============================================================================
