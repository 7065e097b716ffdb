--------------------------- MODULE RenumberJournal ---------------------------
(***************************************************************************)
(* How the directories of the shots of one scene get their new names on    *)
(* the NAS (_renumber_shot_directories_sync): every directory moves into a *)
(* staging directory, a marker file says that all of them are there, and   *)
(* then every one moves to its new name.  A call may fail between any two  *)
(* of these steps; the next run of the same payload has to go on from what *)
(* it finds.  One file system call is one step; what a run looked at may   *)
(* have changed when it acts on it.                                        *)
(*                                                                         *)
(* The row of the operation is claimed only while it is pending or waits   *)
(* for a retry: the operation of a worker that died, or that lost its      *)
(* lease while its I/O thread went on, stays "processing" for ever.        *)
(***************************************************************************)
EXTENDS Naturals, Sequences

CONSTANTS
  Runs,          \* executions of the operation: I/O threads of the workers
  Items,         \* the payload: the shots, in its order, without repetition
  SourceDir,     \* SourceDir[s] is the old name of the directory of shot s
  TargetDir,     \* TargetDir[s] is its new name
  MaxTries,      \* MAX_ATTEMPTS
  MaxRunFaults,  \* bound: I/O errors, deaths, lost leases, names taken meanwhile
  NoIo, Lost    \* model values

\* What _build_renumber_plan makes sure of: no two old names and no two new
\* names are the same, and none is that of a slot in the staging directory.
ASSUME JournalAssumption ==
  /\ Items \in Seq(DOMAIN SourceDir) /\ DOMAIN TargetDir = DOMAIN SourceDir
  /\ \A s \in DOMAIN SourceDir :
       /\ \E i \in 1..Len(Items) : Items[i] = s
       /\ {SourceDir[s][1], TargetDir[s][1]} \cap {"SHOT"} = {}
       /\ Lost \notin {SourceDir[s], TargetDir[s], <<"SHOT", s>>}
       /\ \A t \in DOMAIN SourceDir \ {s} :
            SourceDir[s] # SourceDir[t] /\ TargetDir[s] # TargetDir[t]
  /\ MaxRunFaults \in Nat /\ MaxTries \in Nat \ {0} /\ NoIo \notin Runs

VARIABLES
  place,      \* where the directory with the files of each shot is
  foreign,    \* new names that somebody else's directory occupies
  staging,    \* the staging directory exists
  marker,     \* the commit marker in it exists
  io,         \* what each run is doing: pc, item, the rename it is about to do
  lease,      \* the run that holds the lease of the operation
  renumber,   \* status of the operation; "open" is pending or retry_wait
  tries,      \* its attempt_count
  runFaults

journalVars ==
  <<place, foreign, staging, marker, io, lease, renumber, tries, runFaults>>

RenumberShots == DOMAIN SourceDir
Slot(s) == <<"SHOT", s>>
NoMove == <<>>
Resting == [pc |-> "idle", i |-> 0, move |-> NoMove]
Names == {SourceDir[s] : s \in RenumberShots} \cup {TargetDir[s] : s \in RenumberShots}

Missing == {s \in RenumberShots : place[s] = Lost}

Exists(path) == path \in foreign \/ \E s \in RenumberShots : place[s] = path
Item(r) == Items[io[r].i]
Step(r, pc, i) == io' = [io EXCEPT ![r] = [pc |-> pc, i |-> i, move |-> NoMove]]
OnDiskOnly == UNCHANGED <<foreign, lease, renumber, tries, runFaults>>

\* The error of a run is written back only under its lease.
RunFails(r, retryable) ==
  /\ io' = [io EXCEPT ![r] = Resting]
  /\ IF lease = r
     THEN /\ lease' = NoIo
          /\ renumber' = IF retryable /\ tries < MaxTries THEN "open" ELSE "failed"
     ELSE UNCHANGED <<lease, renumber>>
  /\ UNCHANGED <<place, foreign, staging, marker, tries>>

-----------------------------------------------------------------------------
ClaimRenumber(r) ==
  /\ renumber = "open" /\ io[r] = Resting
  /\ renumber' = "processing" /\ lease' = r
  /\ tries' = tries + 1
  /\ Step(r, "mkdir", 1)
  /\ UNCHANGED <<place, foreign, staging, marker, runFaults>>

MakeStaging(r) ==
  /\ io[r].pc = "mkdir"
  /\ staging' = TRUE
  /\ Step(r, "marker", 1)
  /\ UNCHANGED <<place, marker>> /\ OnDiskOnly

\* commit_started = commit_marker.exists()
PhaseIgnoringMarker == "stage"
Phase == IF marker THEN "put" ELSE "stage"
ReadMarker(r) ==
  /\ io[r].pc = "marker"
  /\ Step(r, Phase, 1)
  /\ UNCHANGED <<place, staging, marker>> /\ OnDiskOnly

\* First pass: look at the old name, the new name and the staged directory.
StagedAlready(s) == Exists(Slot(s)) /\ ~Exists(SourceDir[s])
NothingStagedBefore(s) == ~Exists(Slot(s)) /\ ~Exists(SourceDir[s]) /\ Exists(TargetDir[s])
MayPass(s) == StagedAlready(s) \/ (~Exists(Slot(s)) /\ ~Exists(SourceDir[s])
                                   /\ Exists(TargetDir[s]))
MustStage(s) == Exists(SourceDir[s]) /\ ~Exists(Slot(s))

LookAtSource(r) ==
  /\ io[r].pc = "stage" /\ io[r].i <= Len(Items)
  /\ \/ /\ MustStage(Item(r))
        /\ io' = [io EXCEPT ![r].move = <<SourceDir[Item(r)], Slot(Item(r))>>,
                            ![r].pc = "stage_rename"]
     \/ /\ MayPass(Item(r))
        /\ Step(r, "stage", io[r].i + 1)
  /\ UNCHANGED <<place, staging, marker>> /\ OnDiskOnly

\* SG_STORAGE_PATH_CONFLICT or SG_STORAGE_SOURCE_MISSING: not retryable.
SourceRefused(r) ==
  /\ io[r].pc = "stage" /\ io[r].i <= Len(Items)
  /\ ~MustStage(Item(r)) /\ ~MayPass(Item(r))
  /\ RunFails(r, FALSE)
  /\ UNCHANGED runFaults

\* os.rename moves whatever carries the old name.
NextItem(r) == [pc |-> IF io[r].pc = "stage_rename" THEN "stage" ELSE "put",
                i |-> io[r].i + 1, move |-> NoMove]
Rename(r) ==
  LET from == io[r].move[1]
      to == io[r].move[2]
  IN
  /\ io[r].pc \in {"stage_rename", "put_rename"}
  /\ ~Exists(to)
  /\ place' = [s \in RenumberShots |-> IF place[s] = from THEN to ELSE place[s]]
  /\ io' = [io EXCEPT ![r] = NextItem(r)]
  /\ UNCHANGED <<staging, marker>> /\ OnDiskOnly

\* The new name has been taken since the run looked at it: FileExistsError is
\* final, the OSError of a file system that reports ENOTEMPTY is retried.
RenameRaises(r) ==
  /\ io[r].pc \in {"stage_rename", "put_rename"}
  /\ Exists(io[r].move[2])
  /\ \E retryable \in BOOLEAN : RunFails(r, retryable)
  /\ UNCHANGED runFaults

\* The marker is created exclusively; one that is already there will do.
CreateMarker(r) ==
  /\ io[r].pc = "stage" /\ io[r].i > Len(Items)
  /\ marker' = TRUE
  /\ Step(r, "put", 1)
  /\ UNCHANGED <<place, staging>> /\ OnDiskOnly

\* Second pass: a staged directory goes to its new name, which must be free.
InPlace(s) == ~Exists(Slot(s)) /\ Exists(TargetDir[s])
MustPut(s) == Exists(Slot(s)) /\ ~Exists(TargetDir[s])
LookAtTarget(r) ==
  /\ io[r].pc = "put" /\ io[r].i <= Len(Items)
  /\ \/ /\ MustPut(Item(r))
        /\ io' = [io EXCEPT ![r].move = <<Slot(Item(r)), TargetDir[Item(r)]>>,
                            ![r].pc = "put_rename"]
     \/ /\ InPlace(Item(r))
        /\ Step(r, "put", io[r].i + 1)
  /\ UNCHANGED <<place, staging, marker>> /\ OnDiskOnly

TargetRefused(r) ==
  /\ io[r].pc = "put" /\ io[r].i <= Len(Items)
  /\ ~MustPut(Item(r)) /\ ~InPlace(Item(r))
  /\ RunFails(r, FALSE)
  /\ UNCHANGED runFaults

\* mark_succeeded commits the new names and numbers, under the lease only.
CommitRenumber(r) ==
  /\ io[r].pc = "put" /\ io[r].i > Len(Items)
  /\ IF lease = r
     THEN /\ renumber' = "succeeded"
          /\ lease' = NoIo
          /\ Step(r, "cleanup", 1)
     ELSE /\ io' = [io EXCEPT ![r] = Resting]
          /\ UNCHANGED <<renumber, lease>>
  /\ UNCHANGED <<place, foreign, staging, marker, tries, runFaults>>

\* finalize_operation: nothing may be left in the staging directory.
CleanupAllowed ==
  /\ staging /\ marker
  /\ \A s \in RenumberShots : InPlace(s)
RemoveMarker(r) ==
  /\ io[r].pc = "cleanup" /\ CleanupAllowed
  /\ marker' = FALSE
  /\ Step(r, "rmdir", 1)
  /\ UNCHANGED <<place, staging>> /\ OnDiskOnly

\* rmdir takes the directory only when it is empty; an error is swallowed.
RemoveStaging(r) ==
  /\ io[r].pc = "rmdir"
  /\ staging' = (marker \/ \E s \in RenumberShots : Exists(Slot(s)))
  /\ io' = [io EXCEPT ![r] = Resting]
  /\ UNCHANGED <<place, marker>> /\ OnDiskOnly

CleanupSkipped(r) ==
  /\ io[r].pc = "cleanup" /\ ~CleanupAllowed
  /\ io' = [io EXCEPT ![r] = Resting]
  /\ UNCHANGED <<place, staging, marker>> /\ OnDiskOnly

-----------------------------------------------------------------------------
\* The NAS refuses a call: the operation waits for its next attempt.
IoError(r) ==
  /\ io[r].pc \notin {"idle", "cleanup", "rmdir"} /\ runFaults < MaxRunFaults
  /\ RunFails(r, TRUE)
  /\ runFaults' = runFaults + 1

\* The process dies, or the heartbeats fail for longer than the lease while the
\* thread, which cannot be stopped, goes on: nobody writes the row back.
RunStops(r) ==
  /\ io[r] # Resting /\ runFaults < MaxRunFaults
  /\ io' = [io EXCEPT ![r] = Resting]
  /\ lease' = IF lease = r THEN NoIo ELSE lease
  /\ runFaults' = runFaults + 1
  /\ UNCHANGED <<place, foreign, staging, marker, renumber, tries>>
RunLosesLease(r) ==
  /\ lease = r /\ runFaults < MaxRunFaults
  /\ lease' = NoIo
  /\ runFaults' = runFaults + 1
  /\ UNCHANGED <<place, foreign, staging, marker, io, renumber, tries>>

\* Somebody gives another directory a new name of the payload; an administrator
\* moves it away, or retries the operation: a new row with the same payload.
TakeName(n) ==
  /\ ~Exists(n) /\ runFaults < MaxRunFaults
  /\ foreign' = foreign \cup {n}
  /\ runFaults' = runFaults + 1
  /\ UNCHANGED <<place, staging, marker, io, lease, renumber, tries>>
ClearName(n) ==
  /\ n \in foreign
  /\ foreign' = foreign \ {n}
  /\ UNCHANGED <<place, staging, marker, io, lease, renumber, tries, runFaults>>
RetryRenumber ==
  /\ renumber = "failed"
  /\ renumber' = "open" /\ tries' = 0
  /\ UNCHANGED <<place, foreign, staging, marker, io, lease, runFaults>>

\* Others use only names that no shot of the payload has had.
ForeignNames == Names \ {SourceDir[s] : s \in RenumberShots}
JournalInit ==
  /\ \E gone \in SUBSET RenumberShots :
       place = [s \in RenumberShots |-> IF s \in gone THEN Lost ELSE SourceDir[s]]
  /\ foreign \in SUBSET ForeignNames
  /\ staging = FALSE /\ marker = FALSE
  /\ io = [r \in Runs |-> Resting]
  /\ lease = NoIo /\ renumber = "open"
  /\ tries = 0 /\ runFaults = 0

RunStep(r) ==
  \/ MakeStaging(r) \/ ReadMarker(r) \/ LookAtSource(r) \/ SourceRefused(r)
  \/ Rename(r) \/ RenameRaises(r) \/ CreateMarker(r)
  \/ LookAtTarget(r) \/ TargetRefused(r) \/ CommitRenumber(r)
  \/ RemoveMarker(r) \/ RemoveStaging(r) \/ CleanupSkipped(r)
JournalNext ==
  \/ \E r \in Runs : \/ ClaimRenumber(r) \/ RunStep(r)
                     \/ IoError(r) \/ RunStops(r) \/ RunLosesLease(r)
  \/ \E n \in ForeignNames : TakeName(n) \/ ClearName(n)
  \/ RetryRenumber

JournalFairness == \A r \in Runs : WF_journalVars(ClaimRenumber(r) \/ RunStep(r))
JournalSpec == JournalInit /\ [][JournalNext]_journalVars /\ JournalFairness

-----------------------------------------------------------------------------
(* Properties.                                                             *)

JournalTypeOK ==
  /\ place \in [RenumberShots -> Names \cup {Slot(s) : s \in RenumberShots} \cup {Lost}]
  /\ foreign \subseteq Names /\ staging \in BOOLEAN /\ marker \in BOOLEAN
  /\ lease \in Runs \cup {NoIo} /\ tries \in 0..MaxTries
  /\ renumber \in {"open", "processing", "failed", "succeeded"}
  /\ \A r \in Runs : io[r].i \in 0..(Len(Items) + 1)

\* The database calls the renumbering succeeded only when every directory that
\* was there carries its new name, whatever the runs before it had moved,
\* whatever was missing or in the way: the new names are read from then on.
SucceededMeansRenamed ==
  renumber = "succeeded" =>
    \A s \in RenumberShots \ Missing : place[s] = TargetDir[s]

\* A run never moves the files of one shot to the old name, the slot or the
\* new name of another one, although the names are exchanged between them.
FilesStayWithTheirShot ==
  \A s \in RenumberShots : place[s] \in {SourceDir[s], Slot(s), TargetDir[s], Lost}

\* From any state that failed calls have left, with no directory missing and no
\* name taken, the retries of the same payload bring the renumbering to its end,
\* unless a name is taken, the attempts are used up, or the worker that has
\* claimed it cannot write back, which the code never makes good.
Resumable ==
  /\ renumber = "open" /\ Missing = {} /\ foreign = {}
  /\ \A r \in Runs : io[r] = Resting
Abandoned == renumber = "processing" /\ lease = NoIo
RenumberEnds ==
  Resumable ~> \/ renumber = "succeeded" \/ Abandoned \/ foreign # {}
               \/ renumber = "failed" /\ tries = MaxTries

\* The renaming exchanges the names and loses nothing.
RenameIsExact == JournalTypeOK /\ SucceededMeansRenamed /\ FilesStayWithTheirShot
=============================================================================
