--------------------------- MODULE MediaDerivation ---------------------------
(***************************************************************************)
(* Thumbnails and proxy media of the candidates of one version.  A task is *)
(* queued with every candidate; a worker claims it, runs ffmpeg with a     *)
(* heartbeat outside any transaction, and then registers the derived files *)
(* in one transaction: file rows, version files, and the references of the *)
(* whole version, which are replaced by a list read before the locks of    *)
(* the files are waited for.  Two workers are at it when the leader has    *)
(* changed during a derivation.  A file is written <<candidate, attempt>>, *)
(* the source file of a candidate has attempt 0; the thumbnail and the     *)
(* proxy of one attempt are one file here.                                 *)
(***************************************************************************)
EXTENDS Integers, FiniteSets

CONSTANTS
  Candidates, First,  \* candidates, and those the version begins with
  Workers,            \* coroutines of the media worker
  MaxAttempts,        \* ShotGridMediaWorkerConfig.max_attempts
  MaxMishaps,         \* bound: deaths, database errors and lost answers
  Nobody              \* model value

ASSUME MediaAssumption ==
  /\ First \subseteq Candidates
  /\ MaxAttempts \in Nat \ {0} /\ MaxMishaps \in Nat
  /\ Nobody \notin Candidates \cup Workers

VARIABLES
  task,       \* sg_media_derivation
  worker,     \* what each coroutine is doing
  bound,      \* sg_version_file: the files of the version
  refs,       \* sys_file_reference of type shotgrid_version
  gone,       \* files whose sys_file_info has been deleted
  disk,       \* derived files under PRIVATE_UPLOAD_PATH
  mishaps,
  overlapped, \* two completions had read the file list at the same time
  unanswered  \* files whose registration was committed without an answer

mediaVars == <<task, worker, bound, refs, gone, disk, mishaps, overlapped, unanswered>>

Source(k) == <<k, 0>>
Output(w) == <<worker[w].candidate, worker[w].attempt>>
Resting == [pc |-> "idle", candidate |-> Nobody, attempt |-> 0, retryable |-> TRUE,
            files |-> {}]
Rest(w) == worker' = [worker EXCEPT ![w] = Resting]
Goto(w, pc) == worker' = [worker EXCEPT ![w].pc = pc]
Fails(w, retryable) ==
  worker' = [worker EXCEPT ![w] = [@ EXCEPT !.pc = "failing", !.retryable = retryable]]

NewTask == [status |-> "pending", attempt |-> 0, owner |-> Nobody, due |-> FALSE]
NoTask == [NewTask EXCEPT !.status = "none"]

-----------------------------------------------------------------------------
(* The formal transaction of an append, which holds the version row: a     *)
(* completion that has inserted version files holds it too, by foreign key.*)

FilesOfAppend(k) == bound \cup {Source(k)}

Append(k) ==
  /\ task[k].status = "none"
  /\ \A w \in Workers : worker[w].pc # "replacing"
  /\ FilesOfAppend(k) \cap gone = {}
  /\ bound' = bound \cup {Source(k)}
  /\ refs' = FilesOfAppend(k)
  /\ task' = [task EXCEPT ![k] = NewTask]
  /\ UNCHANGED <<worker, gone, disk, mishaps, overlapped, unanswered>>

\* delete_file_services refuses files with references, of whatever business.
DeleteFile(f) ==
  /\ f \in bound \ (refs \cup gone)
  /\ gone' = gone \cup {f}
  /\ disk' = disk \ {f}
  /\ UNCHANGED <<task, worker, bound, refs, mishaps, overlapped, unanswered>>

-----------------------------------------------------------------------------
(* The worker.                                                             *)

DueOnce(k) == task[k].status = "pending"
\* pending, or failed with its next_retry_time reached.
Due(k) ==
  \/ task[k].status = "pending"
  \/ task[k].status = "failed" /\ task[k].due

Claim(w, k) ==
  /\ worker[w].pc = "idle"
  /\ Due(k)
  /\ task' = [task EXCEPT ![k] = [status |-> "processing", attempt |-> @.attempt + 1,
                                  owner |-> w, due |-> FALSE]]
  /\ worker' = [worker EXCEPT ![w] =
       [Resting EXCEPT !.pc = "deriving", !.candidate = k,
                       !.attempt = task[k].attempt + 1]]
  /\ UNCHANGED <<bound, refs, gone, disk, mishaps, overlapped, unanswered>>

\* ffmpeg ends; the result is discarded after the soft timeout.
Derive(w) ==
  /\ worker[w].pc = "deriving"
  /\ disk' = disk \cup {Output(w)}
  /\ Goto(w, "derived") \/ Goto(w, "discarding")
  /\ UNCHANGED <<task, bound, refs, gone, mishaps, overlapped, unanswered>>

\* A renewal raises: the derivation is waited for, its files are discarded.
RenewRaises(w) ==
  /\ worker[w].pc = "deriving"
  /\ mishaps < MaxMishaps
  /\ mishaps' = mishaps + 1
  /\ disk' = disk \cup {Output(w)}
  /\ Goto(w, "discarding")
  /\ UNCHANGED <<task, bound, refs, gone, overlapped, unanswered>>

\* _derive_video and _derive_image leave nothing behind when they raise.
DeriveFails(w, retryable) ==
  /\ worker[w].pc = "deriving"
  /\ Fails(w, retryable)
  /\ UNCHANGED <<task, bound, refs, gone, disk, mishaps, overlapped, unanswered>>

Discarded(w) == disk \ {Output(w)}
Kept(w) == disk

Discard(w) ==
  /\ worker[w].pc = "discarding"
  /\ disk' = Discarded(w)
  /\ Fails(w, TRUE)
  /\ UNCHANGED <<task, bound, refs, gone, mishaps, overlapped, unanswered>>

HoldsAnyClaim(w) == TRUE
\* lock_claim: status, owner and attempt; the lease is not looked at.
HoldsClaim(w) ==
  LET row == task[worker[w].candidate] IN
  row.status = "processing" /\ row.owner = w /\ row.attempt = worker[w].attempt

\* _complete up to get_version_file_ids, which sees what is committed.
ReadVersionFiles(w) ==
  /\ worker[w].pc = "derived"
  /\ IF HoldsClaim(w)
     THEN /\ worker' = [worker EXCEPT ![w] = [@ EXCEPT
               !.pc = "replacing", !.files = bound \cup {Output(w)}]]
          /\ overlapped' = (overlapped \/ \E v \in Workers : worker[v].pc = "replacing")
          /\ UNCHANGED disk
     ELSE disk' = Discarded(w) /\ Rest(w) /\ UNCHANGED overlapped
  /\ UNCHANGED <<task, bound, refs, gone, mishaps, unanswered>>

FilesExist(w) == worker[w].files \cap gone = {}
Registered(w) ==
  /\ bound' = bound \cup {Output(w)}
  /\ refs' = worker[w].files
  /\ task' = [task EXCEPT ![worker[w].candidate] =
       [@ EXCEPT !.status = "completed", !.owner = Nobody, !.due = FALSE]]

\* The rest of _complete: the locks of the files, the references, the commit.
Complete(w) ==
  /\ worker[w].pc = "replacing"
  /\ FilesExist(w)
  /\ Registered(w)
  /\ disk' = Kept(w)
  /\ Rest(w)
  /\ UNCHANGED <<gone, mishaps, overlapped, unanswered>>

\* A file of the list does not exist any more: the references are refused.
CompletionRefused(w) ==
  /\ worker[w].pc = "replacing"
  /\ ~FilesExist(w)
  /\ disk' = Discarded(w)
  /\ Fails(w, TRUE)
  /\ UNCHANGED <<task, bound, refs, gone, mishaps, overlapped, unanswered>>

CompletionRaises(w) ==
  /\ worker[w].pc = "replacing"
  /\ mishaps < MaxMishaps
  /\ mishaps' = mishaps + 1
  /\ disk' = Discarded(w)
  /\ Fails(w, TRUE)
  /\ UNCHANGED <<task, bound, refs, gone, overlapped, unanswered>>

\* The commit is done, but the connection breaks before its answer.
AnswerLost(w) ==
  /\ worker[w].pc = "replacing"
  /\ FilesExist(w)
  /\ mishaps < MaxMishaps
  /\ mishaps' = mishaps + 1
  /\ Registered(w)
  /\ disk' = Discarded(w)
  /\ unanswered' = unanswered \cup {Output(w)}
  /\ Fails(w, TRUE)
  /\ UNCHANGED <<gone, overlapped>>

RetryAgain(w) == worker[w].retryable /\ worker[w].attempt < MaxAttempts

Fail(w) ==
  /\ worker[w].pc = "failing"
  /\ task' = IF HoldsClaim(w)
             THEN [task EXCEPT ![worker[w].candidate] =
                    [@ EXCEPT !.status = IF RetryAgain(w) THEN "retry_wait" ELSE "failed",
                              !.owner = Nobody]]
             ELSE task
  /\ Rest(w)
  /\ UNCHANGED <<bound, refs, gone, disk, mishaps, overlapped, unanswered>>

\* The process dies, or _fail itself raises: the row stays in processing.
Crash(w) ==
  /\ worker[w].pc # "idle"
  /\ mishaps < MaxMishaps
  /\ mishaps' = mishaps + 1
  /\ Rest(w)
  /\ UNCHANGED <<task, bound, refs, gone, disk, overlapped, unanswered>>

RetryTimeComes(k) ==
  /\ task[k].status = "retry_wait"
  /\ task' = [task EXCEPT ![k] = [@ EXCEPT !.status = "failed", !.due = TRUE]]
  /\ UNCHANGED <<worker, bound, refs, gone, disk, mishaps, overlapped, unanswered>>

-----------------------------------------------------------------------------
Init ==
  /\ task = [k \in Candidates |-> IF k \in First THEN NewTask ELSE NoTask]
  /\ worker = [w \in Workers |-> Resting]
  /\ bound = {Source(k) : k \in First} /\ refs = bound
  /\ gone = {} /\ disk = {}
  /\ mishaps = 0
  /\ overlapped = FALSE /\ unanswered = {}

WorkerGoesOn(w) ==
  \/ Derive(w) \/ (\E retryable \in BOOLEAN : DeriveFails(w, retryable)) \/ Discard(w)
  \/ ReadVersionFiles(w) \/ Complete(w) \/ CompletionRefused(w) \/ Fail(w)

WorkerMishap(w) ==
  RenewRaises(w) \/ CompletionRaises(w) \/ AnswerLost(w) \/ Crash(w)

Next ==
  \/ \E k \in Candidates : Append(k) \/ RetryTimeComes(k)
  \/ \E k \in Candidates, n \in 0..MaxAttempts : DeleteFile(<<k, n>>)
  \/ \E w \in Workers : \/ \E k \in Candidates : Claim(w, k)
                        \/ WorkerGoesOn(w) \/ WorkerMishap(w)

Spec == Init /\ [][Next]_mediaVars

\* The batch comes round for ever under some leader; what is begun ends.
Fairness ==
  /\ \A w \in Workers : WF_mediaVars(WorkerGoesOn(w))
  /\ \A k \in Candidates : /\ SF_mediaVars(\E w \in Workers : Claim(w, k))
                           /\ WF_mediaVars(RetryTimeComes(k))
FairSpec == Spec /\ Fairness

-----------------------------------------------------------------------------
(* Properties.                                                             *)

Files == Candidates \X (0..MaxAttempts)

\* The values of the rows and of the coroutines; no attempt beyond the limit.
TypeOK ==
  /\ task \in [Candidates ->
       [status : {"none", "pending", "processing", "retry_wait", "failed", "completed"},
        attempt : 0..MaxAttempts, owner : Workers \cup {Nobody}, due : BOOLEAN]]
  /\ worker \in [Workers ->
       [pc : {"idle", "deriving", "discarding", "derived", "replacing", "failing"},
        candidate : Candidates \cup {Nobody}, attempt : 0..MaxAttempts,
        retryable : BOOLEAN, files : SUBSET Files]]
  /\ bound \subseteq Files /\ refs \subseteq Files /\ gone \subseteq Files
  /\ disk \subseteq Files /\ unanswered \subseteq Files
  /\ mishaps \in 0..MaxMishaps /\ overlapped \in BOOLEAN

\* A candidate gets its derived files once: its task is completed exactly when
\* one attempt has been registered, whatever late results, lost answers and
\* renewals that raise there were.
RegisteredOnce ==
  \A k \in Candidates :
    Cardinality({f \in bound : f[1] = k /\ f # Source(k)})
      = IF task[k].status = "completed" THEN 1 ELSE 0

\* No derived file stays on the disk unrecorded, but for those of a worker
\* that died: they belong to the attempt of a row that is still in processing.
DerivedFilesAccounted ==
  \A f \in disk : \/ f \in bound
                  \/ task[f[1]].status = "processing" /\ task[f[1]].attempt = f[2]

\* What is registered can be opened, unless it was deleted by a user or the
\* answer to its commit got lost.
RegisteredFilesExist ==
  bound \subseteq disk \cup gone \cup unanswered \cup {Source(k) : k \in Candidates}

\* Every file of the version is referenced, so that nobody can delete it:
\* completions and appends lose no reference as long as no two completions
\* have read the list of files before either committed.
VersionFilesReferenced == bound \subseteq refs
ReferencesSurvive == ~overlapped => VersionFilesReferenced

\* The tasks end, completed or failed, unless a worker died or the database
\* failed it (a row in processing is never claimed again).
Settled(k) ==
  \/ task[k].status \in {"none", "completed"}
  \/ task[k].status = "failed" /\ ~task[k].due
DerivationsSettle ==
  (\E k \in Candidates : ~Settled(k)) ~> (\A k \in Candidates : Settled(k)) \/ mishaps > 0

\* A candidate's files are registered once, exist and stay referenced, and none
\* is left over.
RegistrationsAreExact ==
  TypeOK /\ RegisteredOnce /\ RegisteredFilesExist /\ DerivedFilesAccounted /\ ReferencesSurvive
=============================================================================
