---------------------------- MODULE FileLifecycle ----------------------------
(***************************************************************************)
(* The recycle bin of the platform's files, for one file: its row, the     *)
(* references of the businesses that use it, and its bytes, which lie in   *)
(* the storage directory or in the trash.  A deletion moves the bytes      *)
(* while it holds the row; restoring and purging commit first and move or  *)
(* unlink afterwards, without the row.  A reconciliation compares the rows *)
(* with the directories, and an administrator lets it move the bytes.      *)
(***************************************************************************)
EXTENDS Naturals

CONSTANTS
  Clients,        \* requests at a time, one of them may be the nightly purge
  MaxFileFaults,  \* bound: I/O and database errors, lost answers and deaths
  NoClient        \* model value

ASSUME FileAssumption == MaxFileFaults \in Nat /\ NoClient \notin Clients

VARIABLES
  info,       \* sys_file_info.status; "absent" when the row is gone
  used,       \* some business references the file
  place,      \* where the bytes are: "store", "trash" or "none"
  rowOwner,   \* the request that holds the row lock
  client,     \* what each request is about to do
  scan,       \* the status the reconciliation run has read, or "none"
  finding,    \* the open issue of the reconciliation, or "none"
  fileFaults,
  takenBack,  \* history: a restore had to be taken back
  disturbed   \* history: a restore met a deletion, or a finding was followed

fileVars ==
  <<info, used, place, rowOwner, client, scan, finding, fileFaults, takenBack, disturbed>>
rowVars == <<info, used, rowOwner>>
auditVars == <<scan, finding>>
history == <<takenBack, disturbed>>

At(c, pc) == client[c] = pc
Turn(c, pc) == client' = [client EXCEPT ![c] = pc]
Fault == fileFaults < MaxFileFaults /\ fileFaults' = fileFaults + 1
LockRow(c) == rowOwner = NoClient /\ rowOwner' = c
UnlockRow == rowOwner' = NoClient
\* The answer of a commit may be lost: it is done or it is not.
MaybeCommitted(status) == info' \in {info, status}

-----------------------------------------------------------------------------
(* The references; a new one takes the lock of an active row.              *)

AnyRow == info # "absent"
Referable == info = "active"
Reference ==
  /\ rowOwner = NoClient /\ Referable /\ ~used
  /\ used' = TRUE
  /\ UNCHANGED <<info, place, rowOwner, client, auditVars, fileFaults, history>>

Release ==
  /\ used
  /\ used' = FALSE
  /\ UNCHANGED <<info, place, rowOwner, client, auditVars, fileFaults, history>>

-----------------------------------------------------------------------------
(* Deletion, refused for a file in use, and the disposal of a file whose   *)
(* time is up together with the references that have expired with it.      *)

BeginDelete(c) ==
  /\ At(c, "idle") /\ LockRow(c)
  /\ info = "active"
  /\ \/ ~used /\ Turn(c, "stage")
     \/ Turn(c, "stage expired")
  /\ disturbed' = (disturbed \/ \E d \in Clients : At(d, "move back"))
  /\ UNCHANGED <<info, used, place, auditVars, fileFaults, takenBack>>

Staging(c) == client[c] \in {"stage", "stage expired"}
\* stage_file_deletions takes bytes that are in the trash already for staged.
Stage(c) ==
  /\ Staging(c)
  /\ place' = IF place = "store" THEN "trash" ELSE place
  /\ Turn(c, IF At(c, "stage") THEN "delete" ELSE "delete expired")
  /\ UNCHANGED <<rowVars, auditVars, fileFaults, history>>

StageFails(c) ==
  /\ Staging(c) /\ Fault /\ UnlockRow
  /\ Turn(c, "idle")
  /\ UNCHANGED <<info, used, place, auditVars, history>>

CommitDelete(c) ==
  /\ client[c] \in {"delete", "delete expired"} /\ UnlockRow
  /\ info' = "deleted"
  /\ used' = (used /\ At(c, "delete"))
  /\ Turn(c, "idle")
  /\ UNCHANGED <<place, auditVars, fileFaults, history>>

\* restore_staged_files moves the bytes back, with the row unlocked.
DeleteRaises(c) ==
  /\ client[c] \in {"delete", "delete expired"} /\ Fault /\ UnlockRow
  /\ \/ UNCHANGED <<info, used>>
     \/ info' = "deleted" /\ used' = (used /\ At(c, "delete"))
  /\ Turn(c, "unstage")
  /\ UNCHANGED <<place, auditVars, history>>
Unstage(c) ==
  /\ At(c, "unstage")
  /\ place' = IF place = "trash" THEN "store" ELSE place
  /\ Turn(c, "idle")
  /\ UNCHANGED <<rowVars, auditVars, fileFaults, history>>

-----------------------------------------------------------------------------
(* Restoring.                                                              *)

NotActive == info \in {"deleted", "purging"}
Restorable == info = "deleted"
BeginRestore(c) ==
  /\ At(c, "idle") /\ LockRow(c)
  /\ Restorable /\ place = "trash"
  /\ Turn(c, "activate")
  /\ UNCHANGED <<info, used, place, auditVars, fileFaults, history>>

CommitRestore(c) ==
  /\ At(c, "activate") /\ UnlockRow
  /\ info' = "active"
  /\ Turn(c, "move back")
  /\ UNCHANGED <<used, place, auditVars, fileFaults, history>>

RestoreRaises(c) ==
  /\ At(c, "activate") /\ Fault /\ UnlockRow
  /\ MaybeCommitted("active")
  /\ Turn(c, "idle")
  /\ UNCHANGED <<used, place, auditVars, history>>

MoveBack(c) ==
  /\ At(c, "move back")
  /\ IF place = "trash" THEN place' = "store" /\ Turn(c, "idle")
                        ELSE UNCHANGED place /\ Turn(c, "compensate")
  /\ UNCHANGED <<rowVars, auditVars, fileFaults, history>>

MoveBackFails(c) ==
  /\ At(c, "move back") /\ Fault
  /\ Turn(c, "compensate")
  /\ UNCHANGED <<rowVars, place, auditVars, history>>

\* soft_delete_file_infos, whatever the row has become meanwhile.
Compensate(c) ==
  /\ At(c, "compensate") /\ rowOwner = NoClient
  /\ info' = IF info = "absent" THEN "absent" ELSE "deleted"
  /\ takenBack' = TRUE
  /\ Turn(c, "idle")
  /\ UNCHANGED <<used, place, rowOwner, auditVars, fileFaults, disturbed>>

-----------------------------------------------------------------------------
(* Purging, by hand or by the nightly job.                                 *)

Purgeable == info \in {"deleted", "purging"} /\ ~used /\ place # "store"
BeginPurge(c) ==
  /\ At(c, "idle") /\ LockRow(c)
  /\ Purgeable
  /\ Turn(c, "mark")
  /\ UNCHANGED <<info, used, place, auditVars, fileFaults, history>>

MarkPurging(c) ==
  /\ At(c, "mark") /\ UnlockRow
  /\ info' = "purging"
  /\ Turn(c, "unlink")
  /\ UNCHANGED <<used, place, auditVars, fileFaults, history>>

MarkRaises(c) ==
  /\ At(c, "mark") /\ Fault /\ UnlockRow
  /\ MaybeCommitted("purging")
  /\ Turn(c, "idle")
  /\ UNCHANGED <<used, place, auditVars, history>>

Unlink(c) ==
  /\ At(c, "unlink")
  /\ IF place = "store" THEN UNCHANGED place /\ Turn(c, "idle")
                        ELSE place' = "none" /\ Turn(c, "erase")
  /\ UNCHANGED <<rowVars, auditVars, fileFaults, history>>

UnlinkFails(c) ==
  /\ At(c, "unlink") /\ Fault
  /\ Turn(c, "idle")
  /\ UNCHANGED <<rowVars, place, auditVars, history>>

\* purge_file_infos: the references always, the row when it is still purging.
Erase(c) ==
  /\ At(c, "erase") /\ rowOwner = NoClient
  /\ used' = FALSE
  /\ info' = IF info = "purging" THEN "absent" ELSE info
  /\ Turn(c, "idle")
  /\ UNCHANGED <<place, rowOwner, auditVars, fileFaults, history>>

\* The process dies, or an error ends the request before it moves anything.
ClientDies(c) ==
  /\ ~At(c, "idle") /\ Fault
  /\ rowOwner' = IF rowOwner = c THEN NoClient ELSE rowOwner
  /\ Turn(c, "idle")
  /\ UNCHANGED <<info, used, place, auditVars, history>>

-----------------------------------------------------------------------------
(* The reconciliation: the rows are read first, the directories later.     *)

ScanRow ==
  /\ scan = "none" /\ info # "absent"
  /\ scan' = info
  /\ UNCHANGED <<rowVars, place, client, finding, fileFaults, history>>

OnlyPurging == scan = "purging" /\ place = "store"
InactiveInStore == scan # "active" /\ place = "store"
Finding ==
  IF scan = "active" /\ place = "trash" THEN "unexpected_trash"
  ELSE IF InactiveInStore THEN "unexpected_source" ELSE "none"
\* The finding of the last run is replaced, or closed when it is seen no more.
ScanDirectories ==
  /\ scan # "none"
  /\ finding' = Finding
  /\ scan' = "none"
  /\ UNCHANGED <<rowVars, place, client, fileFaults, history>>

\* restore_source and move_to_trash believe the finding; refused while a run is
\* going on, and undone when its commit fails.
Resolve ==
  /\ scan = "none"
  /\ \/ finding = "unexpected_trash" /\ place = "trash" /\ place' = "store"
     \/ finding = "unexpected_source" /\ place = "store" /\ place' = "trash"
  /\ finding' = "none" /\ disturbed' = TRUE
  /\ UNCHANGED <<rowVars, client, scan, fileFaults, takenBack>>

-----------------------------------------------------------------------------
FileInit ==
  /\ info = "active" /\ used = FALSE /\ place = "store"
  /\ rowOwner = NoClient
  /\ client = [c \in Clients |-> "idle"]
  /\ scan = "none" /\ finding = "none"
  /\ fileFaults = 0 /\ takenBack = FALSE /\ disturbed = FALSE

GoesOn(c) ==
  \/ Stage(c) \/ CommitDelete(c) \/ Unstage(c)
  \/ CommitRestore(c) \/ MoveBack(c) \/ Compensate(c)
  \/ MarkPurging(c) \/ Unlink(c) \/ Erase(c)
GoesWrong(c) ==
  \/ StageFails(c) \/ DeleteRaises(c) \/ RestoreRaises(c) \/ MoveBackFails(c)
  \/ MarkRaises(c) \/ UnlinkFails(c) \/ ClientDies(c)

FileNext ==
  \/ Reference \/ Release
  \/ ScanRow \/ ScanDirectories \/ Resolve
  \/ \E c \in Clients : \/ BeginDelete(c) \/ BeginRestore(c) \/ BeginPurge(c)
                        \/ GoesOn(c) \/ GoesWrong(c)

\* What is begun goes on; the reconciliation is run again and again, and the
\* administrator handles what it has found.
FileFairness ==
  /\ \A c \in Clients : WF_fileVars(GoesOn(c))
  /\ WF_fileVars(ScanRow) /\ WF_fileVars(ScanDirectories)
  /\ SF_fileVars(Resolve)
FileSpec == FileInit /\ [][FileNext]_fileVars /\ FileFairness

-----------------------------------------------------------------------------
(* Properties.                                                             *)

\* The values of the rows and requests; the lock of the row is held exactly as
\* long as a request is between its first statement and its commit or rollback.
InTransaction(c) ==
  client[c] \in {"stage", "stage expired", "delete", "delete expired", "activate", "mark"}
FileTypeOK ==
  /\ info \in {"active", "deleted", "purging", "absent"}
  /\ used \in BOOLEAN /\ place \in {"store", "trash", "none"}
  /\ rowOwner \in Clients \cup {NoClient}
  /\ client \in [Clients -> {"idle", "stage", "stage expired", "delete",
                             "delete expired", "unstage", "activate", "move back",
                             "compensate", "mark", "unlink", "erase"}]
  /\ scan \in {"none", "active", "deleted", "purging"}
  /\ finding \in {"none", "unexpected_trash", "unexpected_source"}
  /\ fileFaults \in 0..MaxFileFaults
  /\ \A c \in Clients : rowOwner = c <=> InTransaction(c)

\* A file in use is active and its bytes exist, whatever deletions, disposals,
\* purges and findings there were; only a restore that is taken back, after the
\* file was offered to everybody, breaks that.
UsedFilesSurvive == used => takenBack \/ (info = "active" /\ place # "none")

\* When nothing is going on the bytes are where the row says, unless a fault, a
\* deletion during a restore or the order of an administrator moved them.
Quiet == \A c \in Clients : At(c, "idle")
RowsAndBytesAgree ==
  /\ info = "active" => place = "store"
  /\ info = "deleted" => place = "trash"
  /\ info \in {"purging", "absent"} => place = "none"
UndisturbedFilesAgree ==
  Quiet /\ fileFaults = 0 /\ ~disturbed => RowsAndBytesAgree

\* Once nobody deletes, restores or purges any more, the runs and the orders
\* that follow them bring the bytes where the rows want them, stale findings
\* and all; what has been unlinked stays away.
ReconciliationConverges ==
  <>[]Quiet => <>[](place = "none" \/ ((info = "active") = (place = "store")))

\* Rows and bytes agree: always when nothing disturbs them, and after the
\* reconciliation when something did.
FilesReconcile == []UndisturbedFilesAgree /\ ReconciliationConverges
=============================================================================
