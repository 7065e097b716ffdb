----------------------------- MODULE FilesProofs -----------------------------
(***************************************************************************)
(* What holds of the platform's files for any number of requests, workers  *)
(* and faults: of the recycle bin, that a file in use is neither deleted   *)
(* nor without bytes (UsedFilesSurvive) and that undisturbed bytes are     *)
(* where the row says (UndisturbedFilesAgree); of the derived media, that  *)
(* they are registered once and none is left over (RegistrationsAreExact). *)
(***************************************************************************)
EXTENDS FileLifecycle, MediaDerivation, FiniteSetTheorems, TLAPS

\* A deletion holds an active row; one that has looked at the references holds
\* a row that nobody uses.
DeletionsHoldTheFile ==
  \A c \in Clients :
    /\ client[c] \in {"stage", "stage expired", "delete", "delete expired"} => info = "active"
    /\ client[c] \in {"stage", "delete"} => ~used

\* A restore or a purge holds a deleted row.
OthersHoldDeletedFile ==
  \A c \in Clients :
    /\ client[c] = "activate" => info = "deleted"
    /\ client[c] = "mark" => info \in {"deleted", "purging"}

\* Bytes are unlinked of a file that nothing will activate again: that is what
\* a restore that is taken back destroys.
UnlinkedIsDoomed ==
  takenBack \/
    /\ \A c \in Clients : client[c] \in {"unlink", "erase"} => info \in {"purging", "absent"}
    /\ place = "none" => info \in {"purging", "absent"}

FileInv ==
  /\ FileTypeOK /\ UsedFilesSurvive
  /\ DeletionsHoldTheFile /\ OthersHoldDeletedFile /\ UnlinkedIsDoomed

-----------------------------------------------------------------------------
\* The counter of faults stays within its bound.
LEMMA FaultsStart == 0 \in 0..MaxFileFaults
  BY FileAssumption
LEMMA FaultsCounted ==
  ASSUME fileFaults \in 0..MaxFileFaults, Fault
  PROVE  fileFaults' \in 0..MaxFileFaults
  BY FileAssumption DEF Fault

LEMMA FileInitInv == FileInit => FileInv
  BY FileAssumption, FaultsStart
     DEF FileInit, FileInv, FileTypeOK, UsedFilesSurvive, DeletionsHoldTheFile,
         OthersHoldDeletedFile, UnlinkedIsDoomed, InTransaction

\* The businesses and the reconciliation.
LEMMA SharedStepsKeepInv ==
  ASSUME FileInv, Reference \/ Release \/ ScanRow \/ ScanDirectories \/ Resolve
  PROVE  FileInv'
<1> USE FileAssumption
    DEF FileInv, FileTypeOK, UsedFilesSurvive, DeletionsHoldTheFile,
        OthersHoldDeletedFile, UnlinkedIsDoomed, InTransaction, rowVars, auditVars, history
<1>1. CASE Reference
  BY <1>1 DEF Reference, Referable
<1>2. CASE Release
  BY <1>2 DEF Release
<1>3. CASE ScanRow
  BY <1>3 DEF ScanRow
<1>4. CASE ScanDirectories
  BY <1>4 DEF ScanDirectories, Finding
<1>5. CASE Resolve
  BY <1>5 DEF Resolve
<1> QED
  BY <1>1, <1>2, <1>3, <1>4, <1>5

\* A deletion, from the lock of the row to its commit or rollback.
LEMMA DeletionKeepsInv ==
  ASSUME FileInv, NEW c \in Clients,
         \/ BeginDelete(c) \/ Stage(c) \/ StageFails(c)
         \/ CommitDelete(c) \/ DeleteRaises(c) \/ Unstage(c)
  PROVE  FileInv'
<1> USE FileAssumption
    DEF FileInv, FileTypeOK, UsedFilesSurvive, DeletionsHoldTheFile,
        OthersHoldDeletedFile, UnlinkedIsDoomed, InTransaction, rowVars, auditVars, history,
        At, Turn, LockRow, UnlockRow
<1>1. CASE BeginDelete(c)
  BY <1>1 DEF BeginDelete
<1>2. CASE Stage(c)
  BY <1>2 DEF Stage, Staging
<1>3. CASE StageFails(c)
  BY <1>3, FaultsCounted DEF StageFails, Staging
<1>4. CASE CommitDelete(c)
  BY <1>4 DEF CommitDelete
<1>5. CASE DeleteRaises(c)
  BY <1>5, FaultsCounted DEF DeleteRaises
<1>6. CASE Unstage(c)
  BY <1>6 DEF Unstage
<1> QED
  BY <1>1, <1>2, <1>3, <1>4, <1>5, <1>6

LEMMA RestoreKeepsInv ==
  ASSUME FileInv, NEW c \in Clients,
         \/ BeginRestore(c) \/ CommitRestore(c) \/ RestoreRaises(c)
         \/ MoveBack(c) \/ MoveBackFails(c) \/ Compensate(c)
  PROVE  FileInv'
<1> USE FileAssumption
    DEF FileInv, FileTypeOK, UsedFilesSurvive, DeletionsHoldTheFile,
        OthersHoldDeletedFile, UnlinkedIsDoomed, InTransaction, rowVars, auditVars, history,
        At, Turn, LockRow, UnlockRow, MaybeCommitted
<1>1. CASE BeginRestore(c)
  BY <1>1 DEF BeginRestore, Restorable
<1>2. CASE CommitRestore(c)
  BY <1>2 DEF CommitRestore
<1>3. CASE RestoreRaises(c)
  BY <1>3, FaultsCounted DEF RestoreRaises
<1>4. CASE MoveBack(c)
  BY <1>4 DEF MoveBack
<1>5. CASE MoveBackFails(c)
  BY <1>5, FaultsCounted DEF MoveBackFails
<1>6. CASE Compensate(c)
  BY <1>6 DEF Compensate
<1> QED
  BY <1>1, <1>2, <1>3, <1>4, <1>5, <1>6

LEMMA PurgeKeepsInv ==
  ASSUME FileInv, NEW c \in Clients,
         \/ BeginPurge(c) \/ MarkPurging(c) \/ MarkRaises(c)
         \/ Unlink(c) \/ UnlinkFails(c) \/ Erase(c) \/ ClientDies(c)
  PROVE  FileInv'
<1> USE FileAssumption
    DEF FileInv, FileTypeOK, UsedFilesSurvive, DeletionsHoldTheFile,
        OthersHoldDeletedFile, UnlinkedIsDoomed, InTransaction, rowVars, auditVars, history,
        At, Turn, LockRow, UnlockRow, MaybeCommitted
<1>1. CASE BeginPurge(c)
  BY <1>1 DEF BeginPurge, Purgeable
<1>2. CASE MarkPurging(c)
  BY <1>2 DEF MarkPurging
<1>3. CASE MarkRaises(c)
  BY <1>3, FaultsCounted DEF MarkRaises
<1>4. CASE Unlink(c)
  BY <1>4 DEF Unlink
<1>5. CASE UnlinkFails(c)
  BY <1>5, FaultsCounted DEF UnlinkFails
<1>6. CASE Erase(c)
  BY <1>6 DEF Erase
<1>7. CASE ClientDies(c)
  BY <1>7, FaultsCounted DEF ClientDies
<1> QED
  BY <1>1, <1>2, <1>3, <1>4, <1>5, <1>6, <1>7

LEMMA FileStepInv == FileInv /\ [FileNext]_fileVars => FileInv'
<1> SUFFICES ASSUME FileInv, [FileNext]_fileVars
             PROVE  FileInv'
  OBVIOUS
<1>1. CASE Reference \/ Release \/ ScanRow \/ ScanDirectories \/ Resolve
  BY <1>1, SharedStepsKeepInv
<1>2. ASSUME NEW c \in Clients,
             \/ BeginDelete(c) \/ BeginRestore(c) \/ BeginPurge(c)
             \/ GoesOn(c) \/ GoesWrong(c)
      PROVE  FileInv'
  BY <1>2, DeletionKeepsInv, RestoreKeepsInv, PurgeKeepsInv DEF GoesOn, GoesWrong
<1>3. CASE UNCHANGED fileVars
  BY <1>3
     DEF fileVars, FileInv, FileTypeOK, UsedFilesSurvive, DeletionsHoldTheFile,
         OthersHoldDeletedFile, UnlinkedIsDoomed, InTransaction
<1> QED
  BY <1>1, <1>2, <1>3 DEF FileNext

-----------------------------------------------------------------------------
\* The inductive invariant holds of every behaviour.
LEMMA FileInvariant == FileSpec => []FileInv
  BY FileInitInv, FileStepInv, PTL DEF FileSpec

\* The statuses are those the code writes, and the lock of the row is held by a
\* request exactly between its first statement and its commit or rollback.
THEOREM FileTypes == FileSpec => []FileTypeOK
<1>1. FileInv => FileTypeOK
  BY DEF FileInv
<1> QED
  BY <1>1, FileInvariant, PTL

\* However many requests delete, dispose of, restore and purge a file, fail and
\* die: a file that a business references is active and its bytes exist, until
\* a restore is taken back by soft_delete_file_infos.
THEOREM UsedFiles == FileSpec => []UsedFilesSurvive
<1>1. FileInv => UsedFilesSurvive
  BY DEF FileInv
<1> QED
  BY <1>1, FileInvariant, PTL

-----------------------------------------------------------------------------
\* What the requests are about to do tells where the bytes are, as long as no
\* fault, no overtaken restore and no order of the administrator moved them.
CalmClients ==
  \A c \in Clients :
    /\ client[c] \notin {"unstage", "compensate"}
    /\ client[c] \in {"stage", "stage expired"} => place = "store"
    /\ client[c] \in {"delete", "delete expired", "move back"} =>
         info = "active" /\ place = "trash"
    /\ client[c] \in {"unlink", "erase"} => info \in {"purging", "absent"}
    /\ client[c] = "erase" => place = "none"
\* A restore moves the bytes back alone.
CalmRestores ==
  \A c \in Clients : client[c] = "move back" =>
    rowOwner = NoClient /\ \A d \in Clients : client[d] = "move back" => c = d
\* Bytes that are not where the row says are about to be moved or unlinked.
CalmBytes ==
  /\ info = "active" /\ place # "store" =>
       \E c \in Clients : client[c] \in {"delete", "delete expired", "move back"}
  /\ info = "deleted" => place = "trash"
  /\ info = "purging" =>
       place = "none" \/ (place = "trash" /\ \E c \in Clients : client[c] = "unlink")
  /\ info = "absent" => place = "none"
Calm == fileFaults = 0 /\ ~disturbed
CalmInv == Calm => CalmClients /\ CalmRestores /\ CalmBytes

\* Nothing becomes calm again.
LEMMA FaultsAreKept ==
  ASSUME FileTypeOK, Fault
  PROVE  fileFaults' # 0
<1>1. fileFaults \in 0..MaxFileFaults /\ fileFaults' = fileFaults + 1
  BY DEF FileTypeOK, Fault
<1> QED
  BY <1>1, FileAssumption

\* With the clients kept as they are, nobody's part changes.
LEMMA SharedStepsStayCalm ==
  ASSUME FileInv, CalmInv, Reference \/ Release \/ ScanRow \/ ScanDirectories \/ Resolve
  PROVE  CalmInv'
<1> USE DEF CalmInv, Calm, CalmClients, CalmRestores, CalmBytes, rowVars, auditVars, history
<1>1. CASE Reference \/ Release
  BY <1>1 DEF Reference, Release
<1>2. CASE ScanRow \/ ScanDirectories
  BY <1>2 DEF ScanRow, ScanDirectories
<1>3. CASE Resolve
  BY <1>3 DEF Resolve
<1> QED
  BY <1>1, <1>2, <1>3

LEMMA BeginningsStayCalm ==
  ASSUME FileInv, CalmInv, NEW c \in Clients,
         BeginDelete(c) \/ BeginRestore(c) \/ BeginPurge(c)
  PROVE  CalmInv'
<1> USE FileAssumption
    DEF CalmInv, Calm, CalmClients, CalmRestores, CalmBytes, FileInv, FileTypeOK,
        InTransaction, At, Turn, LockRow, auditVars, history
<1>1. CASE BeginDelete(c)
  <2>1. CASE client' = [client EXCEPT ![c] = "stage"]
    BY <1>1, <2>1 DEF BeginDelete
  <2>2. CASE client' = [client EXCEPT ![c] = "stage expired"]
    BY <1>1, <2>2 DEF BeginDelete
  <2> QED
    BY <1>1, <2>1, <2>2 DEF BeginDelete
<1>2. CASE BeginRestore(c)
  BY <1>2 DEF BeginRestore, Restorable
<1>3. CASE BeginPurge(c)
  BY <1>3 DEF BeginPurge, Purgeable
<1> QED
  BY <1>1, <1>2, <1>3

LEMMA GoingOnStaysCalm ==
  ASSUME FileInv, CalmInv, NEW c \in Clients, GoesOn(c)
  PROVE  CalmInv'
<1> USE FileAssumption
    DEF CalmInv, Calm, CalmClients, CalmRestores, CalmBytes, FileInv, FileTypeOK,
        DeletionsHoldTheFile, OthersHoldDeletedFile, InTransaction, At, Turn, UnlockRow,
        rowVars, auditVars, history
<1>1. CASE Stage(c)
  <2>1. CASE client[c] = "stage"
    BY <1>1, <2>1 DEF Stage, Staging
  <2>2. CASE client[c] = "stage expired"
    BY <1>1, <2>2 DEF Stage, Staging
  <2> QED
    BY <1>1, <2>1, <2>2 DEF Stage, Staging
<1>2. CASE CommitDelete(c)
  BY <1>2 DEF CommitDelete
<1>3. CASE Unstage(c)
  BY <1>3 DEF Unstage
<1>4. CASE CommitRestore(c)
  BY <1>4 DEF CommitRestore
<1>5. CASE MoveBack(c)
  <2> SUFFICES ASSUME Calm'
               PROVE  CalmClients' /\ CalmRestores' /\ CalmBytes'
    OBVIOUS
  <2>1. Calm /\ info = "active" /\ place = "trash" /\ rowOwner = NoClient
    BY <1>5 DEF MoveBack
  <2>2. \A d \in Clients : d # c => client[d] \in {"idle", "mark"}
    BY <1>5, <2>1 DEF MoveBack
  <2>3. info' = "active" /\ place' = "store" /\ client' = [client EXCEPT ![c] = "idle"]
    BY <1>5, <2>1 DEF MoveBack
  <2> QED
    BY <2>2, <2>3
<1>6. CASE Compensate(c)
  BY <1>6 DEF Compensate
<1>7. CASE MarkPurging(c)
  BY <1>7 DEF MarkPurging
<1>8. CASE Unlink(c)
  BY <1>8 DEF Unlink
<1>9. CASE Erase(c)
  BY <1>9 DEF Erase
<1> QED
  BY <1>1, <1>2, <1>3, <1>4, <1>5, <1>6, <1>7, <1>8, <1>9 DEF GoesOn

LEMMA GoingWrongIsNotCalm ==
  ASSUME FileInv, NEW c \in Clients, GoesWrong(c)
  PROVE  ~Calm'
<1>1. FileTypeOK /\ Fault
  BY DEF FileInv, GoesWrong, StageFails, DeleteRaises, RestoreRaises, MoveBackFails,
         MarkRaises, UnlinkFails, ClientDies
<1> QED
  BY <1>1, FaultsAreKept DEF Calm

LEMMA CalmStep == FileInv /\ CalmInv /\ [FileNext]_fileVars => CalmInv'
<1> SUFFICES ASSUME FileInv, CalmInv, [FileNext]_fileVars
             PROVE  CalmInv'
  OBVIOUS
<1>1. CASE Reference \/ Release \/ ScanRow \/ ScanDirectories \/ Resolve
  BY <1>1, SharedStepsStayCalm
<1>2. ASSUME NEW c \in Clients,
             BeginDelete(c) \/ BeginRestore(c) \/ BeginPurge(c) \/ GoesOn(c)
      PROVE  CalmInv'
  BY <1>2, BeginningsStayCalm, GoingOnStaysCalm
<1>3. ASSUME NEW c \in Clients, GoesWrong(c)
      PROVE  CalmInv'
  BY <1>3, GoingWrongIsNotCalm DEF CalmInv
<1>4. CASE UNCHANGED fileVars
  BY <1>4 DEF fileVars, CalmInv, Calm, CalmClients, CalmRestores, CalmBytes
<1> QED
  BY <1>1, <1>2, <1>3, <1>4 DEF FileNext

\* However many requests delete, restore and purge at once: when all of them are
\* done the bytes are where the row says, unless something disturbed them.
THEOREM FilesAgree == FileSpec => []UndisturbedFilesAgree
<1>1. FileInit => CalmInv
  BY DEF FileInit, CalmInv, Calm, CalmClients, CalmRestores, CalmBytes
<1>2. FileInv /\ CalmInv => UndisturbedFilesAgree
  BY DEF FileInv, FileTypeOK, CalmInv, Calm, CalmBytes, UndisturbedFilesAgree,
         RowsAndBytesAgree, Quiet, At
<1> QED
  BY <1>1, <1>2, CalmStep, FileInvariant, PTL DEF FileSpec

-----------------------------------------------------------------------------
(* Derived media.                                                          *)

TaskRecord ==
  [status : {"none", "pending", "processing", "retry_wait", "failed", "completed"},
   attempt : 0..MaxAttempts, owner : Workers \cup {Nobody}, due : BOOLEAN]
MediaWorkerRecord ==
  [pc : {"idle", "deriving", "discarding", "derived", "replacing", "failing"},
   candidate : Candidates \cup {Nobody}, attempt : 0..MaxAttempts,
   retryable : BOOLEAN, files : SUBSET Files]

\* A task that waits has an attempt left; one that was registered had one.
AttemptsAreLeft ==
  \A k \in Candidates :
    /\ task[k].status = "none" => task[k].attempt = 0
    /\ task[k].status \in {"pending", "retry_wait"} => task[k].attempt < MaxAttempts
    /\ task[k].status = "failed" /\ task[k].due => task[k].attempt < MaxAttempts
    /\ task[k].status = "completed" => task[k].attempt > 0
    /\ task[k].status = "processing" => ~task[k].due

\* A coroutine holds its claim until it has reported: the row is given to nobody
\* else. Only one whose answer was lost has reported without knowing.
Working == {"deriving", "discarding", "derived", "replacing"}
CoroutinesHoldClaims ==
  \A w \in Workers :
    /\ worker[w].pc # "idle" => worker[w].candidate \in Candidates /\ worker[w].attempt > 0
    /\ worker[w].pc \in Working => HoldsClaim(w)

\* The files of the version are the sources and what the completed tasks have
\* registered.
FilesAreExplained ==
  \A k \in Candidates, n \in 0..MaxAttempts :
    <<k, n>> \in bound <=>
      \/ n = 0 /\ task[k].status # "none"
      \/ task[k].status = "completed" /\ n = task[k].attempt

\* What a coroutine is going to register lies on the disk, what it has not made
\* or has discarded does not.
OutputsAreThere ==
  \A w \in Workers :
    /\ worker[w].pc \in {"derived", "replacing"} => Output(w) \in disk
    /\ worker[w].pc \in {"deriving", "failing"} /\ HoldsClaim(w) => Output(w) \notin disk

\* The one completion under way has the files of the version in its list.
ListsAreComplete ==
  ~overlapped =>
    /\ \A v, w \in Workers : worker[v].pc = "replacing" /\ worker[w].pc = "replacing" => v = w
    /\ \A w \in Workers : worker[w].pc = "replacing" =>
         bound \subseteq worker[w].files /\ Output(w) \in worker[w].files

MediaInv ==
  /\ TypeOK /\ AttemptsAreLeft /\ CoroutinesHoldClaims /\ FilesAreExplained
  /\ OutputsAreThere /\ ListsAreComplete
  /\ RegisteredFilesExist /\ DerivedFilesAccounted /\ ReferencesSurvive

-----------------------------------------------------------------------------
LEMMA FilesArePairs ==
  /\ \A k, n : <<k, n>> \in Files <=> k \in Candidates /\ n \in 0..MaxAttempts
  /\ \A f \in Files : f[1] \in Candidates /\ f[2] \in 0..MaxAttempts /\ f = <<f[1], f[2]>>
  /\ 0 \in 0..MaxAttempts
  BY MediaAssumption DEF Files

LEMMA RegisteredExactlyOnce == MediaInv => RegisteredOnce
<1> SUFFICES ASSUME MediaInv, NEW k \in Candidates
             PROVE  Cardinality({f \in bound : f[1] = k /\ f # Source(k)})
                      = IF task[k].status = "completed" THEN 1 ELSE 0
  BY DEF RegisteredOnce
<1> DEFINE S == {f \in bound : f[1] = k /\ f # Source(k)}
           n == task[k].attempt
<1>1. /\ n \in 0..MaxAttempts /\ bound \subseteq Files
  BY DEF MediaInv, TypeOK
<1>2. \A f \in S : /\ f = <<k, f[2]>> /\ f[2] \in 0..MaxAttempts /\ f[2] # 0
  BY <1>1, FilesArePairs DEF Source
<1>3. \A f \in S : task[k].status = "completed" /\ f = <<k, n>>
  BY <1>2 DEF MediaInv, FilesAreExplained
<1>4. CASE task[k].status = "completed"
  <2>1. <<k, n>> \in bound /\ n > 0
    BY <1>1, <1>4 DEF MediaInv, FilesAreExplained, AttemptsAreLeft
  <2>2. n # 0
    BY <1>1, <2>1
  <2>3. <<k, n>> \in S
    BY <2>1, <2>2 DEF Source
  <2>4. S = {<<k, n>>}
    BY <1>3, <2>3
  <2> QED
    BY <1>4, <2>4, FS_Singleton
<1>5. CASE task[k].status # "completed"
  <2>1. S = {}
    BY <1>3, <1>5
  <2> QED
    BY <1>5, <2>1, FS_EmptySet
<1> QED
  BY <1>4, <1>5

LEMMA InvMeansExact == MediaInv => RegistrationsAreExact
  BY RegisteredExactlyOnce DEF MediaInv, RegistrationsAreExact

LEMMA RestingTyped == Resting \in MediaWorkerRecord /\ Resting.pc = "idle"
<1>1. 0 \in 0..MaxAttempts
  BY FilesArePairs
<1> QED
  BY <1>1 DEF Resting, MediaWorkerRecord

LEMMA MediaInitInv == Init => MediaInv
<1> SUFFICES ASSUME Init PROVE MediaInv
  OBVIOUS
<1>1. /\ NewTask \in TaskRecord /\ NewTask.status = "pending" /\ NewTask.attempt = 0
      /\ NoTask \in TaskRecord /\ NoTask.status = "none" /\ NoTask.attempt = 0
  BY FilesArePairs DEF NewTask, NoTask, TaskRecord
<1>2. /\ task \in [Candidates -> TaskRecord]
      /\ \A k \in Candidates : /\ task[k].attempt = 0 /\ task[k].status \in {"pending", "none"}
                               /\ task[k].status = "pending" <=> k \in First
  BY <1>1 DEF Init
<1>3. /\ worker \in [Workers -> MediaWorkerRecord] /\ \A w \in Workers : worker[w].pc = "idle"
  BY RestingTyped DEF Init
<1>4. /\ bound \subseteq Files /\ refs = bound
      /\ \A k, n : <<k, n>> \in bound <=> k \in First /\ n = 0
      /\ \A f \in bound : \E k \in Candidates : f = Source(k)
  BY FilesArePairs, MediaAssumption DEF Init, Source
<1>5. mishaps \in 0..MaxMishaps /\ MaxAttempts > 0 /\ 0 < MaxAttempts
  BY MediaAssumption DEF Init
<1>6. TypeOK
  BY <1>2, <1>3, <1>4, <1>5 DEF Init, TypeOK, TaskRecord, MediaWorkerRecord
<1>7. AttemptsAreLeft /\ CoroutinesHoldClaims /\ OutputsAreThere /\ ListsAreComplete
  BY <1>2, <1>3, <1>5
  DEF AttemptsAreLeft, CoroutinesHoldClaims, OutputsAreThere, ListsAreComplete, Working
<1>8. FilesAreExplained
  BY <1>2, <1>4 DEF FilesAreExplained
<1>9. RegisteredFilesExist /\ DerivedFilesAccounted /\ ReferencesSurvive
  BY <1>4 DEF Init, RegisteredFilesExist, DerivedFilesAccounted, ReferencesSurvive,
              VersionFilesReferenced
<1> QED
  BY <1>6, <1>7, <1>8, <1>9 DEF MediaInv

-----------------------------------------------------------------------------
(* Users.                                                                  *)

LEMMA AppendStep ==
  ASSUME MediaInv, NEW k \in Candidates, Append(k) PROVE MediaInv'
<1> USE DEF MediaInv
<1>1. /\ task[k].status = "none" /\ \A w \in Workers : worker[w].pc # "replacing"
      /\ bound' = bound \cup {Source(k)} /\ refs' = bound'
      /\ task' = [task EXCEPT ![k] = NewTask]
      /\ UNCHANGED <<worker, gone, disk, mishaps, overlapped, unanswered>>
  BY DEF Append, FilesOfAppend
<1>2. NewTask \in TaskRecord /\ NewTask.status = "pending" /\ NewTask.attempt = 0
  BY FilesArePairs DEF NewTask, TaskRecord
<1>3. task'[k] = NewTask /\ \A j \in Candidates : j # k => task'[j] = task[j]
  BY <1>1 DEF TypeOK
<1>4. Source(k) \in Files
  BY FilesArePairs DEF Source
<1>5. TypeOK'
  BY <1>1, <1>2, <1>4 DEF TypeOK, TaskRecord
<1>6. 0 < MaxAttempts
  BY MediaAssumption
<1>7. AttemptsAreLeft'
  BY <1>2, <1>3, <1>6 DEF AttemptsAreLeft
<1>8. \A w \in Workers : HoldsClaim(w) => worker[w].candidate # k
  BY <1>1 DEF HoldsClaim
<1>9. \A w \in Workers : worker[w].candidate \in Candidates => (HoldsClaim(w)' <=> HoldsClaim(w))
  BY <1>1, <1>2, <1>3 DEF HoldsClaim
<1>10. CoroutinesHoldClaims' /\ OutputsAreThere'
  BY <1>1, <1>9 DEF CoroutinesHoldClaims, OutputsAreThere, Output, Working
<1>11. FilesAreExplained'
  <2> SUFFICES ASSUME NEW j \in Candidates, NEW n \in 0..MaxAttempts
               PROVE  <<j, n>> \in bound' <=>
                        \/ n = 0 /\ task'[j].status # "none"
                        \/ task'[j].status = "completed" /\ n = task'[j].attempt
    BY DEF FilesAreExplained
  <2>1. <<j, n>> \in bound' <=> <<j, n>> \in bound \/ (j = k /\ n = 0)
    BY <1>1 DEF Source
  <2> QED
    BY <1>1, <1>2, <1>3, <2>1 DEF FilesAreExplained
<1>12. ListsAreComplete' /\ ReferencesSurvive'
  BY <1>1 DEF ListsAreComplete, ReferencesSurvive, VersionFilesReferenced
<1>13. RegisteredFilesExist'
  BY <1>1 DEF RegisteredFilesExist
<1>14. DerivedFilesAccounted'
  BY <1>1, <1>3 DEF DerivedFilesAccounted, TypeOK, Files
<1> QED
  BY <1>5, <1>7, <1>10, <1>11, <1>12, <1>13, <1>14

\* Files that are bound are of no coroutine that holds its claim.
LEMMA OutputIsNew ==
  ASSUME MediaInv, NEW w \in Workers, worker[w].pc # "idle", HoldsClaim(w)
  PROVE  Output(w) \notin bound /\ Output(w) \in Files
<1>1. /\ worker[w].candidate \in Candidates /\ worker[w].attempt \in 0..MaxAttempts
      /\ worker[w].attempt > 0
  BY DEF MediaInv, TypeOK, CoroutinesHoldClaims
<1>2. worker[w].attempt # 0
  BY <1>1
<1> QED
  BY <1>1, <1>2, FilesArePairs DEF MediaInv, FilesAreExplained, HoldsClaim, Output

LEMMA DeleteStep ==
  ASSUME MediaInv, NEW k \in Candidates, NEW n \in 0..MaxAttempts, DeleteFile(<<k, n>>)
  PROVE  MediaInv'
<1> USE DEF MediaInv
<1> DEFINE f == <<k, n>>
<1>1. /\ f \in bound /\ f \notin refs /\ gone' = gone \cup {f} /\ disk' = disk \ {f}
      /\ UNCHANGED <<task, worker, bound, refs, mishaps, overlapped, unanswered>>
  BY DEF DeleteFile
<1>2. TypeOK'
  BY <1>1 DEF TypeOK
<1>3. AttemptsAreLeft' /\ CoroutinesHoldClaims' /\ FilesAreExplained'
  BY <1>1 DEF AttemptsAreLeft, CoroutinesHoldClaims, FilesAreExplained, HoldsClaim
<1>4. \A w \in Workers : worker[w].pc \in {"derived", "replacing"} => Output(w) # f
  BY <1>1, OutputIsNew DEF CoroutinesHoldClaims, Working
<1>5. OutputsAreThere'
  BY <1>1, <1>4 DEF OutputsAreThere, Output, HoldsClaim
<1>6. ListsAreComplete' /\ ReferencesSurvive' /\ RegisteredFilesExist' /\ DerivedFilesAccounted'
  BY <1>1 DEF ListsAreComplete, ReferencesSurvive, VersionFilesReferenced, Output,
              RegisteredFilesExist, DerivedFilesAccounted
<1> QED
  BY <1>2, <1>3, <1>5, <1>6

LEMMA RetryTimeStep ==
  ASSUME MediaInv, NEW k \in Candidates, RetryTimeComes(k) PROVE MediaInv'
<1> USE DEF MediaInv
<1> DEFINE r == [task[k] EXCEPT !.status = "failed", !.due = TRUE]
<1>1. /\ task[k].status = "retry_wait" /\ task' = [task EXCEPT ![k] = r]
      /\ UNCHANGED <<worker, bound, refs, gone, disk, mishaps, overlapped, unanswered>>
  BY DEF RetryTimeComes
<1>2. task[k] \in TaskRecord
  BY DEF TypeOK, TaskRecord
<1>3. r \in TaskRecord /\ r.status = "failed" /\ r.attempt = task[k].attempt
  BY <1>2 DEF TaskRecord
<1> HIDE DEF r
<1>4. task'[k] = r /\ \A j \in Candidates : j # k => task'[j] = task[j]
  BY <1>1 DEF TypeOK
<1>5. TypeOK'
  BY <1>1, <1>3 DEF TypeOK, TaskRecord
<1>6. AttemptsAreLeft'
  BY <1>1, <1>3, <1>4 DEF AttemptsAreLeft
<1>7. \A w \in Workers : worker[w].candidate \in Candidates => (HoldsClaim(w)' <=> HoldsClaim(w))
  BY <1>1, <1>3, <1>4 DEF HoldsClaim
<1>8. CoroutinesHoldClaims' /\ OutputsAreThere'
  BY <1>1, <1>7 DEF CoroutinesHoldClaims, OutputsAreThere, Output, Working
<1>9. FilesAreExplained'
  BY <1>1, <1>3, <1>4 DEF FilesAreExplained
<1>10. ListsAreComplete' /\ ReferencesSurvive' /\ RegisteredFilesExist'
  BY <1>1 DEF ListsAreComplete, ReferencesSurvive, VersionFilesReferenced, Output,
              RegisteredFilesExist
<1>11. DerivedFilesAccounted'
  BY <1>1, <1>4, FilesArePairs DEF DerivedFilesAccounted, TypeOK
<1> QED
  BY <1>5, <1>6, <1>8, <1>9, <1>10, <1>11

-----------------------------------------------------------------------------
(* The coroutine.                                                          *)

LEMMA MediaClaimStep ==
  ASSUME MediaInv, NEW w \in Workers, NEW k \in Candidates, Claim(w, k)
  PROVE  MediaInv'
<1> USE DEF MediaInv
<1> DEFINE n == task[k].attempt + 1
           r == [status |-> "processing", attempt |-> n, owner |-> w, due |-> FALSE]
           v == [Resting EXCEPT !.pc = "deriving", !.candidate = k, !.attempt = n]
<1>1. /\ worker[w].pc = "idle" /\ Due(k)
      /\ task' = [task EXCEPT ![k] = r] /\ worker' = [worker EXCEPT ![w] = v]
      /\ UNCHANGED <<bound, refs, gone, disk, mishaps, overlapped, unanswered>>
  BY DEF Claim
<1>2. task[k].attempt < MaxAttempts /\ task[k].status \in {"pending", "failed"}
  BY <1>1 DEF Due, AttemptsAreLeft
<1>3. task[k].attempt \in 0..MaxAttempts
  BY DEF TypeOK
<1>4. n \in 0..MaxAttempts /\ n > 0 /\ n # 0
  BY <1>2, <1>3, MediaAssumption
<1>5. /\ r \in TaskRecord /\ r.status = "processing" /\ r.attempt = n /\ r.owner = w /\ ~r.due
  BY <1>4 DEF TaskRecord
<1>6. /\ v \in MediaWorkerRecord /\ v.pc = "deriving" /\ v.candidate = k /\ v.attempt = n
  BY <1>4, RestingTyped DEF Resting, MediaWorkerRecord
<1> HIDE DEF n
<1> HIDE DEF r
<1> HIDE DEF v
<1>7. /\ task'[k] = r /\ \A j \in Candidates : j # k => task'[j] = task[j]
      /\ worker'[w] = v /\ \A u \in Workers : u # w => worker'[u] = worker[u]
  BY <1>1 DEF TypeOK
<1>8. TypeOK'
  BY <1>1, <1>5, <1>6 DEF TypeOK, TaskRecord, MediaWorkerRecord
<1>9. AttemptsAreLeft'
  BY <1>5, <1>7 DEF AttemptsAreLeft
<1>10. HoldsClaim(w)'
  BY <1>5, <1>6, <1>7 DEF HoldsClaim
<1>11. \A u \in Workers : u # w /\ worker[u].candidate \in Candidates =>
         (HoldsClaim(u)' <=> HoldsClaim(u))
  BY <1>2, <1>5, <1>7 DEF HoldsClaim
<1>12. CoroutinesHoldClaims'
  BY <1>4, <1>6, <1>7, <1>10, <1>11 DEF CoroutinesHoldClaims, Working
<1>13. FilesAreExplained'
  <2> SUFFICES ASSUME NEW j \in Candidates, NEW m \in 0..MaxAttempts
               PROVE  <<j, m>> \in bound' <=>
                        \/ m = 0 /\ task'[j].status # "none"
                        \/ task'[j].status = "completed" /\ m = task'[j].attempt
    BY DEF FilesAreExplained
  <2>1. CASE j = k
    <3>1. <<k, m>> \in bound <=> m = 0
      BY <1>2 DEF FilesAreExplained
    <3> QED
      BY <1>1, <1>5, <1>7, <2>1, <3>1
  <2>2. CASE j # k
    <3>1. task'[j] = task[j]
      BY <1>7, <2>2
    <3> QED
      BY <1>1, <3>1 DEF FilesAreExplained
  <2> QED
    BY <2>1, <2>2
<1>14. OutputsAreThere'
  <2>1. <<k, n>> \notin bound
    BY <1>2, <1>4 DEF FilesAreExplained
  <2>2. <<k, n>> \notin disk
    BY <1>2, <2>1 DEF DerivedFilesAccounted
  <2>3. Output(w)' = <<k, n>>
    BY <1>6, <1>7 DEF Output
  <2>4. \A u \in Workers : u # w => Output(u)' = Output(u)
    BY <1>7 DEF Output
  <2>5. \A u \in Workers : u # w /\ worker[u].pc # "idle" => worker[u].candidate \in Candidates
    BY DEF CoroutinesHoldClaims
  <2>6. /\ worker'[w].pc \in {"derived", "replacing"} => Output(w)' \in disk'
        /\ worker'[w].pc \in {"deriving", "failing"} /\ HoldsClaim(w)' => Output(w)' \notin disk'
    BY <1>1, <1>6, <1>7, <2>2, <2>3
  <2>7. ASSUME NEW u \in Workers, u # w
        PROVE  /\ worker'[u].pc \in {"derived", "replacing"} => Output(u)' \in disk'
               /\ worker'[u].pc \in {"deriving", "failing"} /\ HoldsClaim(u)' =>
                    Output(u)' \notin disk'
    BY <1>1, <1>7, <1>11, <2>4, <2>5, <2>7 DEF OutputsAreThere
  <2> QED
    BY <2>6, <2>7 DEF OutputsAreThere
<1>15. ListsAreComplete'
  <2>1. \A u \in Workers : worker'[u].pc = "replacing" =>
          u # w /\ worker'[u] = worker[u] /\ Output(u)' = Output(u)
    BY <1>6, <1>7 DEF Output
  <2> QED
    BY <1>1, <2>1 DEF ListsAreComplete
<1>16. ReferencesSurvive' /\ RegisteredFilesExist'
  BY <1>1 DEF ReferencesSurvive, VersionFilesReferenced, RegisteredFilesExist
<1>17. DerivedFilesAccounted'
  BY <1>1, <1>2, <1>7, FilesArePairs DEF DerivedFilesAccounted, TypeOK
<1> QED
  BY <1>8, <1>9, <1>12, <1>13, <1>14, <1>15, <1>16, <1>17

\* No two coroutines hold claims of one candidate.
LEMMA ClaimsAreOfOne ==
  ASSUME MediaInv, NEW u \in Workers, NEW w \in Workers, u # w,
         worker[u].pc # "idle", HoldsClaim(u), worker[w].pc # "idle", HoldsClaim(w)
  PROVE  worker[u].candidate # worker[w].candidate /\ Output(u) # Output(w)
  BY DEF HoldsClaim, Output

\* What the other coroutines need when one of them gets new values.
LEMMA OthersStay ==
  ASSUME MediaInv, NEW w \in Workers, NEW v \in MediaWorkerRecord,
         worker' = [worker EXCEPT ![w] = v]
  PROVE  /\ worker' \in [Workers -> MediaWorkerRecord] /\ worker'[w] = v
         /\ \A u \in Workers : u # w =>
              worker'[u] = worker[u] /\ Output(u)' = Output(u)
<1>1. worker \in [Workers -> MediaWorkerRecord]
  BY DEF MediaInv, TypeOK, MediaWorkerRecord
<1>2. worker'[w] = v /\ \A u \in Workers : u # w => worker'[u] = worker[u]
  BY <1>1
<1>3. worker' \in [Workers -> MediaWorkerRecord]
  BY <1>1
<1> QED
  BY <1>2, <1>3 DEF Output

\* A coroutine that goes on without the database: it keeps its claim, and the
\* files of no other attempt are touched.
LEMMA GoesOnStep ==
  ASSUME MediaInv, NEW w \in Workers, NEW v \in MediaWorkerRecord,
         worker[w].pc \in Working, worker' = [worker EXCEPT ![w] = v],
         v.candidate = worker[w].candidate, v.attempt = worker[w].attempt,
         v.pc \in {"derived", "discarding", "failing"},
         disk' \in {disk \cup {Output(w)}, disk \ {Output(w)}},
         v.pc = "derived" => Output(w) \in disk', v.pc = "failing" => Output(w) \notin disk',
         mishaps' \in 0..MaxMishaps,
         UNCHANGED <<task, bound, refs, gone, overlapped, unanswered>>
  PROVE  MediaInv'
<1> USE DEF MediaInv
<1>1. worker[w].pc # "idle" /\ HoldsClaim(w) /\ worker[w].candidate \in Candidates
  BY DEF Working, CoroutinesHoldClaims
<1>2. Output(w) \notin bound /\ Output(w) \in Files
  BY <1>1, OutputIsNew
<1>3. /\ worker' \in [Workers -> MediaWorkerRecord] /\ worker'[w] = v
      /\ \A u \in Workers : u # w => worker'[u] = worker[u] /\ Output(u)' = Output(u)
  BY OthersStay
<1>4. TypeOK'
  BY <1>2, <1>3 DEF TypeOK, MediaWorkerRecord
<1>5. \A u \in Workers : worker'[u].candidate = worker[u].candidate
                         /\ worker'[u].attempt = worker[u].attempt /\ Output(u)' = Output(u)
  BY <1>3 DEF Output
<1>6. \A u \in Workers : HoldsClaim(u)' <=> HoldsClaim(u)
  BY <1>5 DEF HoldsClaim
<1>7. AttemptsAreLeft' /\ FilesAreExplained'
  BY DEF AttemptsAreLeft, FilesAreExplained
<1>8. CoroutinesHoldClaims'
  BY <1>1, <1>3, <1>5, <1>6 DEF CoroutinesHoldClaims, Working
<1>9. OutputsAreThere'
  <2>1. ASSUME NEW u \in Workers, u # w
        PROVE  /\ worker'[u].pc \in {"derived", "replacing"} => Output(u)' \in disk'
               /\ worker'[u].pc \in {"deriving", "failing"} /\ HoldsClaim(u)' =>
                    Output(u)' \notin disk'
    <3>1. worker[u].pc # "idle" /\ HoldsClaim(u) => Output(u) # Output(w)
      BY <1>1, <2>1, ClaimsAreOfOne
    <3>2. worker[u].pc \in {"derived", "replacing"} => HoldsClaim(u)
      BY DEF CoroutinesHoldClaims, Working
    <3> QED
      BY <1>3, <1>6, <2>1, <3>1, <3>2 DEF OutputsAreThere
  <2>2. /\ worker'[w].pc \in {"derived", "replacing"} => Output(w)' \in disk'
        /\ worker'[w].pc \in {"deriving", "failing"} /\ HoldsClaim(w)' =>
             Output(w)' \notin disk'
    BY <1>3, <1>5
  <2> QED
    BY <2>1, <2>2 DEF OutputsAreThere
<1>10. ListsAreComplete'
  <2>1. \A u \in Workers : worker'[u].pc = "replacing" =>
          worker'[u] = worker[u] /\ Output(u)' = Output(u)
    BY <1>3
  <2> QED
    BY <2>1 DEF ListsAreComplete
<1>11. ReferencesSurvive'
  BY DEF ReferencesSurvive, VersionFilesReferenced
<1>12. RegisteredFilesExist'
  BY <1>2 DEF RegisteredFilesExist
<1>13. DerivedFilesAccounted'
  BY <1>1 DEF DerivedFilesAccounted, HoldsClaim, Output
<1> QED
  BY <1>4, <1>7, <1>8, <1>9, <1>10, <1>11, <1>12, <1>13

LEMMA DeriveStep == ASSUME MediaInv, NEW w \in Workers, Derive(w) PROVE MediaInv'
<1>1. worker[w].pc = "deriving" /\ worker[w] \in MediaWorkerRecord
  BY DEF MediaInv, TypeOK, MediaWorkerRecord, Derive
<1>2. PICK pc \in {"derived", "discarding"} : worker' = [worker EXCEPT ![w].pc = pc]
  BY DEF Derive, Goto
<1> DEFINE v == [worker[w] EXCEPT !.pc = pc]
<1>3. /\ v \in MediaWorkerRecord /\ v.pc = pc
      /\ v.candidate = worker[w].candidate /\ v.attempt = worker[w].attempt
  BY <1>1 DEF MediaWorkerRecord
<1>4. worker' = [worker EXCEPT ![w] = v]
  BY <1>2
<1>5. mishaps' \in 0..MaxMishaps
  BY DEF Derive, MediaInv, TypeOK
<1> HIDE DEF v
<1> QED
  BY <1>1, <1>2, <1>3, <1>4, <1>5, GoesOnStep DEF Derive, Working

LEMMA RenewRaisesStep == ASSUME MediaInv, NEW w \in Workers, RenewRaises(w) PROVE MediaInv'
<1>1. worker[w].pc = "deriving" /\ worker[w] \in MediaWorkerRecord
  BY DEF MediaInv, TypeOK, MediaWorkerRecord, RenewRaises
<1> DEFINE v == [worker[w] EXCEPT !.pc = "discarding"]
<1>2. /\ v \in MediaWorkerRecord /\ v.pc = "discarding"
      /\ v.candidate = worker[w].candidate /\ v.attempt = worker[w].attempt
  BY <1>1 DEF MediaWorkerRecord
<1>3. worker' = [worker EXCEPT ![w] = v]
  BY DEF RenewRaises, Goto
<1>4. mishaps' \in 0..MaxMishaps
  BY MediaAssumption DEF RenewRaises, MediaInv, TypeOK
<1> HIDE DEF v
<1> QED
  BY <1>1, <1>2, <1>3, <1>4, GoesOnStep DEF RenewRaises, Working

\* A coroutine that turns to _fail with its files removed.
LEMMA TurnsToFail ==
  ASSUME MediaInv, NEW w \in Workers, NEW retryable \in BOOLEAN,
         worker[w].pc \in Working, Fails(w, retryable), disk' = Discarded(w),
         mishaps' \in 0..MaxMishaps,
         UNCHANGED <<task, bound, refs, gone, overlapped, unanswered>>
  PROVE  MediaInv'
<1>1. worker[w] \in MediaWorkerRecord
  BY DEF MediaInv, TypeOK, MediaWorkerRecord
<1> DEFINE v == [worker[w] EXCEPT !.pc = "failing", !.retryable = retryable]
<1>2. /\ v \in MediaWorkerRecord /\ v.pc = "failing"
      /\ v.candidate = worker[w].candidate /\ v.attempt = worker[w].attempt
  BY <1>1 DEF MediaWorkerRecord
<1>3. worker' = [worker EXCEPT ![w] = v]
  BY DEF Fails
<1> HIDE DEF v
<1> QED
  BY <1>2, <1>3, GoesOnStep DEF Discarded

LEMMA DeriveFailsStep ==
  ASSUME MediaInv, NEW w \in Workers, NEW retryable \in BOOLEAN, DeriveFails(w, retryable)
  PROVE  MediaInv'
<1>1. worker[w].pc = "deriving" /\ worker[w].pc \in Working
  BY DEF DeriveFails, Working
<1>2. Output(w) \notin disk
  BY <1>1 DEF MediaInv, OutputsAreThere, CoroutinesHoldClaims
<1>3. disk' = Discarded(w) /\ mishaps' \in 0..MaxMishaps
  BY <1>2 DEF DeriveFails, Discarded, MediaInv, TypeOK
<1> QED
  BY <1>1, <1>3, TurnsToFail DEF DeriveFails

LEMMA DiscardStep == ASSUME MediaInv, NEW w \in Workers, Discard(w) PROVE MediaInv'
<1>1. worker[w].pc \in Working /\ mishaps' \in 0..MaxMishaps
  BY DEF Discard, Working, MediaInv, TypeOK
<1> QED
  BY <1>1, TurnsToFail DEF Discard

LEMMA CompletionRefusedStep ==
  ASSUME MediaInv, NEW w \in Workers, CompletionRefused(w) PROVE MediaInv'
<1>1. worker[w].pc \in Working /\ mishaps' \in 0..MaxMishaps
  BY DEF CompletionRefused, Working, MediaInv, TypeOK
<1> QED
  BY <1>1, TurnsToFail DEF CompletionRefused

LEMMA CompletionRaisesStep ==
  ASSUME MediaInv, NEW w \in Workers, CompletionRaises(w) PROVE MediaInv'
<1>1. worker[w].pc \in Working
  BY DEF CompletionRaises, Working
<1>2. mishaps' \in 0..MaxMishaps
  BY MediaAssumption DEF CompletionRaises, MediaInv, TypeOK
<1> QED
  BY <1>1, <1>2, TurnsToFail DEF CompletionRaises

LEMMA ReadVersionFilesStep ==
  ASSUME MediaInv, NEW w \in Workers, ReadVersionFiles(w) PROVE MediaInv'
<1> USE DEF MediaInv
<1>1. /\ worker[w].pc = "derived" /\ worker[w] \in MediaWorkerRecord
      /\ HoldsClaim(w) /\ worker[w].candidate \in Candidates
  BY DEF ReadVersionFiles, CoroutinesHoldClaims, Working, TypeOK, MediaWorkerRecord
<1>2. Output(w) \notin bound /\ Output(w) \in Files
  BY <1>1, OutputIsNew
<1> DEFINE v == [worker[w] EXCEPT !.pc = "replacing", !.files = bound \cup {Output(w)}]
<1>3. /\ v \in MediaWorkerRecord /\ v.pc = "replacing" /\ v.files = bound \cup {Output(w)}
      /\ v.candidate = worker[w].candidate /\ v.attempt = worker[w].attempt
  BY <1>1, <1>2 DEF MediaWorkerRecord, TypeOK
<1>4. /\ worker' = [worker EXCEPT ![w] = v]
      /\ overlapped' = (overlapped \/ \E u \in Workers : worker[u].pc = "replacing")
      /\ UNCHANGED <<task, bound, refs, gone, disk, mishaps, unanswered>>
  BY <1>1 DEF ReadVersionFiles
<1> HIDE DEF v
<1>5. /\ worker' \in [Workers -> MediaWorkerRecord] /\ worker'[w] = v
      /\ \A u \in Workers : u # w => worker'[u] = worker[u] /\ Output(u)' = Output(u)
  BY <1>3, <1>4, OthersStay
<1>6. \A u \in Workers : worker'[u].candidate = worker[u].candidate
                         /\ worker'[u].attempt = worker[u].attempt /\ Output(u)' = Output(u)
  BY <1>3, <1>5 DEF Output
<1>7. \A u \in Workers : HoldsClaim(u)' <=> HoldsClaim(u)
  BY <1>4, <1>6 DEF HoldsClaim
<1>8. overlapped' \in BOOLEAN
  BY <1>4 DEF TypeOK
<1>9. TypeOK'
  BY <1>4, <1>5, <1>8 DEF TypeOK, MediaWorkerRecord
<1>10. AttemptsAreLeft' /\ FilesAreExplained'
  BY <1>4 DEF AttemptsAreLeft, FilesAreExplained
<1>11. CoroutinesHoldClaims'
  BY <1>1, <1>3, <1>5, <1>6, <1>7 DEF CoroutinesHoldClaims, Working
<1>12. OutputsAreThere'
  <2>1. ASSUME NEW u \in Workers
        PROVE  /\ worker'[u].pc \in {"derived", "replacing"} =>
                    worker[u].pc \in {"derived", "replacing"}
               /\ worker'[u].pc \in {"deriving", "failing"} =>
                    worker[u].pc \in {"deriving", "failing"}
    BY <1>1, <1>3, <1>5
  <2> QED
    BY <1>4, <1>6, <1>7, <2>1 DEF OutputsAreThere
<1>13. ListsAreComplete'
  <2> SUFFICES ASSUME ~overlapped'
               PROVE  /\ \A u, x \in Workers :
                           worker'[u].pc = "replacing" /\ worker'[x].pc = "replacing" => u = x
                      /\ \A u \in Workers : worker'[u].pc = "replacing" =>
                           bound' \subseteq worker'[u].files /\ Output(u)' \in worker'[u].files
    BY DEF ListsAreComplete
  <2>1. \A u \in Workers : worker[u].pc # "replacing"
    BY <1>4
  <2>2. \A u \in Workers : worker'[u].pc = "replacing" => u = w
    BY <1>5, <2>1
  <2> QED
    BY <1>3, <1>4, <1>5, <1>6, <2>2
<1>14. ReferencesSurvive' /\ RegisteredFilesExist' /\ DerivedFilesAccounted'
  <2>1. ~overlapped' => ~overlapped
    BY <1>4
  <2> QED
    BY <1>4, <2>1 DEF ReferencesSurvive, VersionFilesReferenced, RegisteredFilesExist,
                      DerivedFilesAccounted
<1> QED
  BY <1>9, <1>10, <1>11, <1>12, <1>13, <1>14

\* The commit of a completion, answered or not.
LEMMA RegistrationStep ==
  ASSUME MediaInv, NEW w \in Workers, NEW v \in MediaWorkerRecord,
         worker[w].pc = "replacing", Registered(w), worker' = [worker EXCEPT ![w] = v],
         \/ v.pc = "idle"
         \/ v.pc = "failing" /\ v.candidate = worker[w].candidate
                            /\ v.attempt = worker[w].attempt,
         \/ disk' = disk /\ unanswered' = unanswered
         \/ disk' = disk \ {Output(w)} /\ unanswered' = unanswered \cup {Output(w)},
         mishaps' \in 0..MaxMishaps, UNCHANGED <<gone, overlapped>>
  PROVE  MediaInv'
<1> USE DEF MediaInv
<1> DEFINE k == worker[w].candidate
           n == worker[w].attempt
           r == [task[k] EXCEPT !.status = "completed", !.owner = Nobody, !.due = FALSE]
<1>1. HoldsClaim(w) /\ k \in Candidates /\ n \in 0..MaxAttempts /\ n > 0
  BY DEF CoroutinesHoldClaims, Working, TypeOK
<1>2. /\ Output(w) = <<k, n>> /\ Output(w) \notin bound /\ Output(w) \in Files
      /\ Output(w) \in disk
  BY <1>1, OutputIsNew DEF Output, OutputsAreThere
<1>3. /\ bound' = bound \cup {Output(w)} /\ refs' = worker[w].files
      /\ task' = [task EXCEPT ![k] = r]
  BY DEF Registered
<1>4. task[k] \in TaskRecord /\ task[k].status = "processing" /\ task[k].attempt = n
  BY <1>1 DEF TypeOK, TaskRecord, HoldsClaim
<1>5. r \in TaskRecord /\ r.status = "completed" /\ r.attempt = n
  BY <1>4 DEF TaskRecord
<1> HIDE DEF r
<1> HIDE DEF k
<1> HIDE DEF n
<1>6. /\ task'[k] = r /\ \A j \in Candidates : j # k => task'[j] = task[j]
      /\ task' \in [Candidates -> TaskRecord]
  BY <1>1, <1>3, <1>5 DEF TypeOK, TaskRecord
<1>7. /\ worker' \in [Workers -> MediaWorkerRecord] /\ worker'[w] = v
      /\ \A u \in Workers : u # w => worker'[u] = worker[u] /\ Output(u)' = Output(u)
  BY OthersStay
<1>8. worker[w].files \subseteq Files
  BY DEF TypeOK
<1>9. TypeOK'
  <2>1. bound' \subseteq Files /\ refs' \subseteq Files /\ disk' \subseteq Files
        /\ unanswered' \subseteq Files
    BY <1>2, <1>3, <1>8 DEF TypeOK
  <2> QED
    BY <1>6, <1>7, <2>1 DEF TypeOK, TaskRecord, MediaWorkerRecord
<1>10. AttemptsAreLeft'
  BY <1>1, <1>5, <1>6 DEF AttemptsAreLeft
<1>11. \A u \in Workers : u # w /\ worker[u].pc # "idle" /\ HoldsClaim(u) =>
         worker[u].candidate # k /\ Output(u) # Output(w)
  BY <1>1, ClaimsAreOfOne DEF k
<1>12. \A u \in Workers : u # w /\ worker[u].pc # "idle" =>
         (HoldsClaim(u)' <=> HoldsClaim(u))
  <2> SUFFICES ASSUME NEW u \in Workers, u # w, worker[u].pc # "idle"
               PROVE  HoldsClaim(u)' <=> HoldsClaim(u)
    OBVIOUS
  <2>1. worker'[u] = worker[u] /\ worker[u].candidate \in Candidates
    BY <1>7 DEF CoroutinesHoldClaims
  <2>2. CASE worker[u].candidate = k
    <3>1. ~HoldsClaim(u)
      BY <1>11, <2>2
    <3>2. ~HoldsClaim(u)'
      BY <1>5, <1>6, <2>1, <2>2 DEF HoldsClaim
    <3> QED
      BY <3>1, <3>2
  <2>3. CASE worker[u].candidate # k
    BY <1>6, <2>1, <2>3 DEF HoldsClaim
  <2> QED
    BY <2>2, <2>3
<1>13. v.pc = "failing" => ~HoldsClaim(w)'
  BY <1>1, <1>5, <1>6, <1>7 DEF HoldsClaim, k
<1>14. CoroutinesHoldClaims'
  <2>1. ASSUME NEW u \in Workers, u # w
        PROVE  /\ worker'[u].pc # "idle" =>
                    worker'[u].candidate \in Candidates /\ worker'[u].attempt > 0
               /\ worker'[u].pc \in Working => HoldsClaim(u)'
    BY <1>7, <1>12, <2>1 DEF CoroutinesHoldClaims, Working
  <2>2. /\ worker'[w].pc # "idle" =>
             worker'[w].candidate \in Candidates /\ worker'[w].attempt > 0
        /\ worker'[w].pc \in Working => HoldsClaim(w)'
    BY <1>1, <1>7 DEF Working, k, n
  <2> QED
    BY <2>1, <2>2 DEF CoroutinesHoldClaims
<1>15. FilesAreExplained'
  <2> SUFFICES ASSUME NEW j \in Candidates, NEW m \in 0..MaxAttempts
               PROVE  <<j, m>> \in bound' <=>
                        \/ m = 0 /\ task'[j].status # "none"
                        \/ task'[j].status = "completed" /\ m = task'[j].attempt
    BY DEF FilesAreExplained
  <2>1. <<j, m>> \in bound' <=> <<j, m>> \in bound \/ (j = k /\ m = n)
    BY <1>2, <1>3
  <2>2. CASE j = k
    <3>1. <<k, m>> \in bound <=> m = 0
      BY <1>1, <1>4 DEF FilesAreExplained
    <3> QED
      BY <1>5, <1>6, <2>1, <2>2, <3>1
  <2>3. CASE j # k
    <3>1. task'[j] = task[j]
      BY <1>6, <2>3
    <3> QED
      BY <2>1, <2>3, <3>1 DEF FilesAreExplained
  <2> QED
    BY <2>2, <2>3
<1>16. OutputsAreThere'
  <2>1. ASSUME NEW u \in Workers, u # w
        PROVE  /\ worker'[u].pc \in {"derived", "replacing"} => Output(u)' \in disk'
               /\ worker'[u].pc \in {"deriving", "failing"} /\ HoldsClaim(u)' =>
                    Output(u)' \notin disk'
    <3>1. worker[u].pc \in {"derived", "replacing"} => HoldsClaim(u)
      BY DEF CoroutinesHoldClaims, Working
    <3> QED
      BY <1>7, <1>11, <1>12, <2>1, <3>1 DEF OutputsAreThere
  <2>2. /\ worker'[w].pc \in {"derived", "replacing"} => Output(w)' \in disk'
        /\ worker'[w].pc \in {"deriving", "failing"} /\ HoldsClaim(w)' =>
             Output(w)' \notin disk'
    BY <1>7, <1>13
  <2> QED
    BY <2>1, <2>2 DEF OutputsAreThere
<1>17. ListsAreComplete' /\ ReferencesSurvive'
  <2>1. CASE overlapped
    BY <2>1 DEF ListsAreComplete, ReferencesSurvive
  <2>2. CASE ~overlapped
    <3>1. /\ \A u \in Workers : worker[u].pc = "replacing" => u = w
          /\ bound \subseteq worker[w].files /\ Output(w) \in worker[w].files
      BY <2>2 DEF ListsAreComplete
    <3>2. \A u \in Workers : worker'[u].pc # "replacing"
      BY <1>7, <3>1
    <3>3. bound' \subseteq refs'
      BY <1>3, <3>1
    <3> QED
      BY <3>2, <3>3 DEF ListsAreComplete, ReferencesSurvive, VersionFilesReferenced
  <2> QED
    BY <2>1, <2>2
<1>18. RegisteredFilesExist'
  BY <1>2, <1>3 DEF RegisteredFilesExist
<1>19. DerivedFilesAccounted'
  <2> SUFFICES ASSUME NEW f \in disk', f \notin bound'
               PROVE  task'[f[1]].status = "processing" /\ task'[f[1]].attempt = f[2]
    BY DEF DerivedFilesAccounted
  <2>1. /\ f \in disk /\ f \notin bound /\ f # <<k, n>>
        /\ f[1] \in Candidates /\ f = <<f[1], f[2]>>
    BY <1>2, <1>3, FilesArePairs DEF TypeOK
  <2>2. task[f[1]].status = "processing" /\ task[f[1]].attempt = f[2]
    BY <2>1 DEF DerivedFilesAccounted
  <2>3. f[1] # k
    BY <1>4, <2>1, <2>2
  <2> QED
    BY <1>6, <2>1, <2>2, <2>3
<1> QED
  BY <1>9, <1>10, <1>14, <1>15, <1>16, <1>17, <1>18, <1>19

LEMMA CompleteStep == ASSUME MediaInv, NEW w \in Workers, Complete(w) PROVE MediaInv'
<1>1. mishaps' \in 0..MaxMishaps /\ worker' = [worker EXCEPT ![w] = Resting] /\ disk' = disk
  BY DEF Complete, Rest, Kept, MediaInv, TypeOK
<1> QED
  BY <1>1, RestingTyped, RegistrationStep DEF Complete

LEMMA AnswerLostStep == ASSUME MediaInv, NEW w \in Workers, AnswerLost(w) PROVE MediaInv'
<1>1. worker[w] \in MediaWorkerRecord
  BY DEF MediaInv, TypeOK, MediaWorkerRecord
<1> DEFINE v == [worker[w] EXCEPT !.pc = "failing", !.retryable = TRUE]
<1>2. /\ v \in MediaWorkerRecord /\ v.pc = "failing"
      /\ v.candidate = worker[w].candidate /\ v.attempt = worker[w].attempt
  BY <1>1 DEF MediaWorkerRecord
<1>3. worker' = [worker EXCEPT ![w] = v] /\ disk' = disk \ {Output(w)}
  BY DEF AnswerLost, Fails, Discarded
<1>4. mishaps' \in 0..MaxMishaps
  BY MediaAssumption DEF AnswerLost, MediaInv, TypeOK
<1> HIDE DEF v
<1> QED
  BY <1>2, <1>3, <1>4, RegistrationStep DEF AnswerLost

\* A coroutine that rests again, its row left as it was.
LEMMA RestStep ==
  ASSUME MediaInv, NEW w \in Workers, Rest(w), mishaps' \in 0..MaxMishaps,
         UNCHANGED <<task, bound, refs, gone, disk, overlapped, unanswered>>
  PROVE  MediaInv'
<1> USE DEF MediaInv
<1>1. /\ worker' \in [Workers -> MediaWorkerRecord] /\ worker'[w] = Resting
      /\ \A u \in Workers : u # w => worker'[u] = worker[u] /\ Output(u)' = Output(u)
  BY RestingTyped, OthersStay DEF Rest
<1>2. \A u \in Workers : worker'[u].pc # "idle" =>
        u # w /\ worker'[u] = worker[u] /\ Output(u)' = Output(u)
  BY <1>1, RestingTyped
<1>3. \A u \in Workers : u # w => (HoldsClaim(u)' <=> HoldsClaim(u))
  BY <1>1 DEF HoldsClaim
<1>4. TypeOK' /\ AttemptsAreLeft' /\ FilesAreExplained'
  BY <1>1 DEF TypeOK, MediaWorkerRecord, AttemptsAreLeft, FilesAreExplained
<1>5. CoroutinesHoldClaims'
  BY <1>2, <1>3 DEF CoroutinesHoldClaims, Working
<1>6. OutputsAreThere'
  BY <1>2, <1>3 DEF OutputsAreThere
<1>7. ListsAreComplete'
  BY <1>2 DEF ListsAreComplete
<1>8. ReferencesSurvive' /\ RegisteredFilesExist' /\ DerivedFilesAccounted'
  BY DEF ReferencesSurvive, VersionFilesReferenced, RegisteredFilesExist,
         DerivedFilesAccounted
<1> QED
  BY <1>4, <1>5, <1>6, <1>7, <1>8

LEMMA CrashStep == ASSUME MediaInv, NEW w \in Workers, Crash(w) PROVE MediaInv'
<1>1. mishaps' \in 0..MaxMishaps
  BY MediaAssumption DEF Crash, MediaInv, TypeOK
<1> QED
  BY <1>1, RestStep DEF Crash

\* _fail, which returns the claim for a later attempt or for good.
LEMMA FailStep == ASSUME MediaInv, NEW w \in Workers, Fail(w) PROVE MediaInv'
<1> USE DEF MediaInv
<1>1. /\ worker[w].pc = "failing" /\ Rest(w)
      /\ UNCHANGED <<bound, refs, gone, disk, mishaps, overlapped, unanswered>>
  BY DEF Fail
<1>2. CASE ~HoldsClaim(w)
  <2>1. task' = task /\ mishaps' \in 0..MaxMishaps
    BY <1>2 DEF Fail, TypeOK
  <2> QED
    BY <1>1, <2>1, RestStep
<1>3. CASE HoldsClaim(w)
  <2> DEFINE k == worker[w].candidate
             n == worker[w].attempt
             status == IF RetryAgain(w) THEN "retry_wait" ELSE "failed"
             r == [task[k] EXCEPT !.status = status, !.owner = Nobody]
  <2>1. task' = [task EXCEPT ![k] = r]
    BY <1>3 DEF Fail
  <2>2. k \in Candidates /\ n \in 0..MaxAttempts /\ n > 0
    BY <1>1 DEF CoroutinesHoldClaims, TypeOK
  <2>3. /\ task[k] \in TaskRecord /\ task[k].status = "processing" /\ task[k].attempt = n
        /\ ~task[k].due
    BY <1>3, <2>2 DEF TypeOK, TaskRecord, HoldsClaim, AttemptsAreLeft
  <2>4. status \in {"retry_wait", "failed"} /\ (status = "retry_wait" => n < MaxAttempts)
    BY DEF RetryAgain
  <2>5. /\ r \in TaskRecord /\ r.status \in {"retry_wait", "failed"} /\ r.attempt = n /\ ~r.due
        /\ r.status = "retry_wait" => n < MaxAttempts
    <3> HIDE DEF status
    <3> QED
      BY <2>3, <2>4 DEF TaskRecord
  <2>6. Output(w) = <<k, n>> /\ Output(w) \notin disk
    BY <1>1, <1>3 DEF Output, OutputsAreThere
  <2>7. k = worker[w].candidate
    OBVIOUS
  <2> HIDE DEF r
  <2> HIDE DEF k
  <2> HIDE DEF n
  <2>8. /\ task'[k] = r /\ \A j \in Candidates : j # k => task'[j] = task[j]
        /\ task' \in [Candidates -> TaskRecord]
    BY <2>1, <2>2, <2>5 DEF TypeOK, TaskRecord
  <2>9. /\ worker' \in [Workers -> MediaWorkerRecord] /\ worker'[w] = Resting
        /\ \A u \in Workers : u # w => worker'[u] = worker[u] /\ Output(u)' = Output(u)
    BY <1>1, RestingTyped, OthersStay DEF Rest
  <2>10. \A u \in Workers : worker'[u].pc # "idle" =>
           u # w /\ worker'[u] = worker[u] /\ Output(u)' = Output(u)
    BY <2>9, RestingTyped
  <2>11. \A u \in Workers : u # w /\ worker[u].pc # "idle" =>
           (HoldsClaim(u)' <=> HoldsClaim(u))
    <3> SUFFICES ASSUME NEW u \in Workers, u # w, worker[u].pc # "idle"
                 PROVE  HoldsClaim(u)' <=> HoldsClaim(u)
      OBVIOUS
    <3>1. worker'[u] = worker[u] /\ worker[u].candidate \in Candidates
      BY <2>9 DEF CoroutinesHoldClaims
    <3>2. CASE worker[u].candidate = k
      <4>1. ~HoldsClaim(u)
        BY <1>1, <1>3, <2>7, <3>2, ClaimsAreOfOne
      <4>2. ~HoldsClaim(u)'
        BY <2>5, <2>8, <3>1, <3>2 DEF HoldsClaim
      <4> QED
        BY <4>1, <4>2
    <3>3. CASE worker[u].candidate # k
      BY <2>8, <3>1, <3>3 DEF HoldsClaim
    <3> QED
      BY <3>2, <3>3
  <2>12. TypeOK'
    BY <1>1, <2>8, <2>9 DEF TypeOK, TaskRecord, MediaWorkerRecord
  <2>13. AttemptsAreLeft'
    BY <2>5, <2>8 DEF AttemptsAreLeft
  <2>14. CoroutinesHoldClaims'
    BY <2>10, <2>11 DEF CoroutinesHoldClaims, Working
  <2>15. FilesAreExplained'
    <3> SUFFICES ASSUME NEW j \in Candidates, NEW m \in 0..MaxAttempts
                 PROVE  <<j, m>> \in bound' <=>
                          \/ m = 0 /\ task'[j].status # "none"
                          \/ task'[j].status = "completed" /\ m = task'[j].attempt
      BY DEF FilesAreExplained
    <3>1. CASE j = k
      BY <1>1, <2>3, <2>5, <2>8, <3>1 DEF FilesAreExplained
    <3>2. CASE j # k
      <4>1. task'[j] = task[j]
        BY <2>8, <3>2
      <4> QED
        BY <1>1, <4>1 DEF FilesAreExplained
    <3> QED
      BY <3>1, <3>2
  <2>16. OutputsAreThere'
    BY <1>1, <2>10, <2>11 DEF OutputsAreThere
  <2>17. ListsAreComplete'
    BY <1>1, <2>10 DEF ListsAreComplete
  <2>18. ReferencesSurvive' /\ RegisteredFilesExist'
    BY <1>1 DEF ReferencesSurvive, VersionFilesReferenced, RegisteredFilesExist
  <2>19. DerivedFilesAccounted'
    <3> SUFFICES ASSUME NEW f \in disk, f \notin bound
                 PROVE  task'[f[1]].status = "processing" /\ task'[f[1]].attempt = f[2]
      BY <1>1 DEF DerivedFilesAccounted
    <3>1. f[1] \in Candidates /\ f = <<f[1], f[2]>> /\ f # <<k, n>>
      BY <2>6, FilesArePairs DEF TypeOK
    <3>2. task[f[1]].status = "processing" /\ task[f[1]].attempt = f[2]
      BY DEF DerivedFilesAccounted
    <3>3. f[1] # k
      BY <2>3, <3>1, <3>2
    <3> QED
      BY <2>8, <3>1, <3>2, <3>3
  <2> QED
    BY <2>12, <2>13, <2>14, <2>15, <2>16, <2>17, <2>18, <2>19
<1> QED
  BY <1>2, <1>3

-----------------------------------------------------------------------------
LEMMA MediaStepInv == MediaInv /\ [Next]_mediaVars => MediaInv'
<1> SUFFICES ASSUME MediaInv, [Next]_mediaVars PROVE MediaInv'
  OBVIOUS
<1>1. ASSUME NEW k \in Candidates, Append(k) PROVE MediaInv'
  BY <1>1, AppendStep
<1>2. ASSUME NEW k \in Candidates, RetryTimeComes(k) PROVE MediaInv'
  BY <1>2, RetryTimeStep
<1>3. ASSUME NEW k \in Candidates, NEW n \in 0..MaxAttempts, DeleteFile(<<k, n>>)
      PROVE  MediaInv'
  BY <1>3, DeleteStep
<1>4. ASSUME NEW w \in Workers, NEW k \in Candidates, Claim(w, k) PROVE MediaInv'
  BY <1>4, MediaClaimStep
<1>5. ASSUME NEW w \in Workers, WorkerGoesOn(w) PROVE MediaInv'
  BY <1>5, DeriveStep, DeriveFailsStep, DiscardStep, ReadVersionFilesStep, CompleteStep,
     CompletionRefusedStep, FailStep DEF WorkerGoesOn
<1>6. ASSUME NEW w \in Workers, WorkerMishap(w) PROVE MediaInv'
  BY <1>6, RenewRaisesStep, CompletionRaisesStep, AnswerLostStep, CrashStep DEF WorkerMishap
<1>7. CASE UNCHANGED mediaVars
  <2>1. UNCHANGED <<task, worker, bound, refs, gone, disk, mishaps, overlapped, unanswered>>
    BY <1>7 DEF mediaVars
  <2>2. \A w \in Workers : (HoldsClaim(w)' <=> HoldsClaim(w)) /\ Output(w)' = Output(w)
    BY <2>1 DEF HoldsClaim, Output
  <2>3. TypeOK' /\ AttemptsAreLeft' /\ FilesAreExplained'
    BY <2>1 DEF MediaInv, TypeOK, AttemptsAreLeft, FilesAreExplained
  <2>4. CoroutinesHoldClaims' /\ OutputsAreThere' /\ ListsAreComplete'
    BY <2>1, <2>2 DEF MediaInv, CoroutinesHoldClaims, OutputsAreThere, ListsAreComplete
  <2>5. RegisteredFilesExist' /\ DerivedFilesAccounted' /\ ReferencesSurvive'
    BY <2>1 DEF MediaInv, RegisteredFilesExist, DerivedFilesAccounted, ReferencesSurvive,
                VersionFilesReferenced
  <2> QED
    BY <2>3, <2>4, <2>5 DEF MediaInv
<1> QED
  BY <1>1, <1>2, <1>3, <1>4, <1>5, <1>6, <1>7 DEF Next

\* Whatever late results, lost answers, deaths and overlapping completions there
\* are, with any number of coroutines and candidates: a candidate's derived files
\* are registered once (lock_claim by status, owner and attempt), they exist unless
\* a user deleted them or the answer to the commit got lost, no file stays on the
\* disk unrecorded but for those of a worker that died, and every file of the
\* version is referenced as long as no two completions overlapped.
THEOREM DerivationsAreExact == Spec => []RegistrationsAreExact
<1>1. Spec => []MediaInv
  BY MediaInitInv, MediaStepInv, PTL DEF Spec
<1> QED
  BY <1>1, InvMeansExact, PTL
=============================================================================
