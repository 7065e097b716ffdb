------------------------- MODULE VersionSubmission -------------------------
(***************************************************************************)
(* The version submissions of one task: accepted by the API, published to  *)
(* the NAS file by file and then formally created by the version worker,   *)
(* with retries and crashes, while the director reviews what is there.     *)
(*                                                                         *)
(* Rows of sg_version_submission and their files are "subs".  The lease    *)
(* time is left out: no statement of this outbox reads it.  A retry delay  *)
(* is part of the claim, which may come at any time after it.              *)
(***************************************************************************)
EXTENDS Naturals, FiniteSets

CONSTANTS
  Workers,        \* scheduler batches, one claimed row each
  MaxAttempts,    \* MAX_ATTEMPTS of the version worker
  MaxSubs,        \* bound: submissions of the task
  MaxFiles,       \* bound: files of one submission
  MaxFaults,      \* bound: worker deaths and failed write-backs
  MaxVersions, MaxCandidates, MaxCycles,   \* as in VersionLedger
  NoWorker        \* model value

ASSUME SubmissionAssumption ==
  /\ {MaxAttempts, MaxSubs, MaxFiles} \subseteq Nat \ {0} /\ MaxFaults \in Nat
  /\ {MaxVersions, MaxCandidates, MaxCycles} \subseteq Nat \ {0}
  /\ NoWorker \notin Workers

VARIABLES
  task, versions, seen,   \* as in VersionLedger
  subs,     \* sg_version_submission with its files, in the order of creation
  worker,   \* what each worker is doing
  disk,     \* NAS: the submission each candidate file was copied for, or 0
  faults    \* faults so far

vars == <<task, versions, seen, subs, worker, disk, faults>>
formal == <<task, versions, seen>>

SubNos == 1..MaxSubs
NoSub == [mode |-> "none", version |-> 0, files |-> <<>>,
          status |-> "none", attempt |-> 0, owner |-> NoWorker]
Idle == [pc |-> "idle", sub |-> 0, attempt |-> 0, file |-> 0]

\* UNRESOLVED_SUBMISSION_STATUSES.
UnresolvedStatuses == {"pending", "publishing", "published", "committing", "failed"}
Unresolved(s) == subs[s].status \in UnresolvedStatuses

\* What the review and the other submissions see of the unresolved one.
Open ==
  IF \E s \in SubNos : Unresolved(s)
  THEN LET s == CHOOSE x \in SubNos : Unresolved(x)
       IN [mode |-> subs[s].mode, version |-> subs[s].version,
           candidates |-> DOMAIN subs[s].files]
  ELSE [mode |-> "none", version |-> 0, candidates |-> {}]

Ledger == INSTANCE VersionLedger WITH open <- Open

-----------------------------------------------------------------------------
(* The API.                                                                *)

\* next_reserved_version_no: over the submissions, also those that failed.
NextVersionNo ==
  LET reserved == {subs[s].version : s \in SubNos}
  IN 1 + CHOOSE n \in reserved : \A k \in reserved : k <= n

\* create_submission.  The version number of a new round and the candidate
\* numbers are reserved here, long before anything exists under them.
CreateSubmission(s, mode, v, n) ==
  /\ subs[s] = NoSub /\ \A r \in 1..(s - 1) : subs[r] # NoSub
  /\ ~\E r \in SubNos : Unresolved(r)
  /\ Ledger!TargetOpen(mode, v)
  /\ mode = "new_round" => v = NextVersionNo
  /\ Ledger!NextCandidates(v, n) \subseteq Ledger!CandidateNos
  /\ subs' = [subs EXCEPT ![s] =
       [NoSub EXCEPT !.mode = mode, !.version = v, !.status = "pending",
                     !.files = [c \in Ledger!NextCandidates(v, n) |-> "pending"]]]
  /\ UNCHANGED <<formal, worker, disk, faults>>

\* retry_submission: same number, same files; what is published stays so.
RetrySubmission(s) ==
  /\ subs[s].status = "failed"
  /\ Ledger!TargetOpen(subs[s].mode, subs[s].version)
  /\ subs' = [subs EXCEPT ![s].status = "pending", ![s].attempt = 0,
       ![s].files = [c \in DOMAIN @ |-> IF @[c] = "failed" THEN "pending" ELSE @[c]]]
  /\ UNCHANGED <<formal, worker, disk, faults>>

-----------------------------------------------------------------------------
(* The version worker.                                                     *)

DuePendingOnly(s) == subs[s].status = "pending"
\* A row in publishing or committing is never due again.
Due(s) == subs[s].status \in {"pending", "published"}

\* claim_next: the copies are made first, the formal transaction in a later claim.
ClaimNext(w, s) ==
  LET attempt == IF subs[s].status = "pending" THEN subs[s].attempt + 1 ELSE subs[s].attempt
      status  == IF subs[s].status = "pending" THEN "publishing" ELSE "committing" IN
  /\ worker[w] = Idle
  /\ Due(s)
  /\ subs' = [subs EXCEPT ![s].status = status, ![s].attempt = attempt, ![s].owner = w,
       ![s].files = [c \in DOMAIN @ |->
                       IF status = "publishing" /\ @[c] # "published" THEN "publishing"
                       ELSE @[c]]]
  /\ worker' = [worker EXCEPT ![w] = [pc |-> status, sub |-> s, attempt |-> attempt, file |-> 0]]
  /\ UNCHANGED <<formal, disk, faults>>

HoldsAnyStatus(w, status) ==
  subs[worker[w].sub].attempt = worker[w].attempt
\* The fence of every write-back: status, owner and attempt.
Holds(w, status) ==
  LET sub == subs[worker[w].sub] IN
  /\ sub.status = status
  /\ sub.owner = w
  /\ sub.attempt = worker[w].attempt

Released(s, status) == [subs EXCEPT ![s].status = status, ![s].owner = NoWorker]

\* _publish_sync: copy, then rename without overwriting; a file that is already
\* there is accepted when its content is the same.
WriteFile(w, c) ==
  LET s == worker[w].sub  v == subs[s].version IN
  /\ worker[w].pc = "publishing" /\ worker[w].attempt <= MaxAttempts
  /\ c \in DOMAIN subs[s].files /\ subs[s].files[c] = "publishing"
  /\ disk[v][c] \in {0, s}
  /\ disk' = [disk EXCEPT ![v][c] = s]
  /\ worker' = [worker EXCEPT ![w].pc = "written", ![w].file = c]
  /\ UNCHANGED <<formal, subs, faults>>

\* mark_submission_file_published, one transaction per file.
MarkFilePublished(w) ==
  LET s == worker[w].sub IN
  /\ worker[w].pc = "written"
  /\ Holds(w, "publishing")
  /\ subs' = [subs EXCEPT ![s].files[worker[w].file] = "published"]
  /\ worker' = [worker EXCEPT ![w].pc = "publishing", ![w].file = 0]
  /\ UNCHANGED <<formal, disk, faults>>

Terminal(retryable, attempt) == ~retryable \/ attempt >= MaxAttempts

\* _record_publish_failure: the source or the NAS failed for one file, whose
\* copy may be there all the same (file 0: the failure came before any file).
RecordPublishFailure(w, c, retryable) ==
  LET s == worker[w].sub
      status == IF Terminal(retryable, worker[w].attempt) THEN "failed" ELSE "pending" IN
  /\ \/ worker[w].pc = "publishing" /\ c \in DOMAIN subs[s].files /\ subs[s].files[c] = "publishing"
     \/ worker[w].pc = "publishing" /\ c = 0 /\ ~retryable
     \/ worker[w].pc = "written" /\ c = worker[w].file
  /\ Holds(w, "publishing")
  /\ subs' = [Released(s, status) EXCEPT
       ![s].files = [f \in DOMAIN @ |-> IF f = c THEN "failed" ELSE @[f]]]
  /\ worker' = [worker EXCEPT ![w] = Idle]
  /\ UNCHANGED <<formal, disk, faults>>

AllFiles(s) == \A c \in DOMAIN subs[s].files : subs[s].files[c] = "published"

\* mark_published: every file of the submission is on the NAS.
MarkPublished(w) ==
  LET s == worker[w].sub IN
  /\ worker[w].pc = "publishing"
  /\ Holds(w, "publishing")
  /\ AllFiles(s)
  /\ subs' = Released(s, "published")
  /\ worker' = [worker EXCEPT ![w] = Idle]
  /\ UNCHANGED <<formal, disk, faults>>

\* commit_published_submission.  "raised": the transaction is durable but the
\* call ended with an error (the answer was lost, or the notification failed).
CommitPublished(w, raised) ==
  LET s == worker[w].sub IN
  /\ worker[w].pc = "committing"
  /\ Holds(w, "committing")
  /\ Ledger!TargetOpen(subs[s].mode, subs[s].version)
  /\ AllFiles(s)
  /\ versions' = Ledger!WithCandidates(subs[s].mode, subs[s].version, DOMAIN subs[s].files)
  /\ task' = "pending_review"
  /\ subs' = Released(s, "committed")
  /\ worker' = [worker EXCEPT ![w] = IF raised THEN [@ EXCEPT !.pc = "commit_error"] ELSE Idle]
  /\ UNCHANGED <<seen, disk, faults>>

CommitRaises(w) ==
  /\ worker[w].pc = "committing"
  /\ worker' = [worker EXCEPT ![w].pc = "commit_error"]
  /\ UNCHANGED <<formal, subs, disk, faults>>

\* _record_commit_failure: back to published with the attempt raised, or failed.
RecordCommitFailure(w, retryable) ==
  LET s == worker[w].sub IN
  /\ worker[w].pc = "commit_error"
  /\ IF ~Holds(w, "committing") THEN UNCHANGED subs
     ELSE subs' = IF Terminal(retryable, worker[w].attempt) THEN Released(s, "failed")
                  ELSE [Released(s, "published") EXCEPT ![s].attempt = @ + 1]
  /\ worker' = [worker EXCEPT ![w] = Idle]
  /\ UNCHANGED <<formal, disk, faults>>

\* The process dies, or a write-back transaction fails: nothing is written and
\* the row stays in publishing or committing.
Crash(w) ==
  /\ worker[w].pc # "idle"
  /\ faults < MaxFaults
  /\ faults' = faults + 1
  /\ worker' = [worker EXCEPT ![w] = Idle]
  /\ UNCHANGED <<formal, subs, disk>>

-----------------------------------------------------------------------------
(* The review, exactly as in VersionLedger.                                *)

Review ==
  /\ UNCHANGED <<subs, worker, disk, faults>>
  /\ \/ Ledger!LoadCandidates
     \/ \E v \in 1..MaxVersions :
          \/ Ledger!OpenPage(v)
          \/ \E c \in 1..MaxCandidates : Ledger!Approve(v, c)
          \/ Ledger!Reject(v)
          \/ Ledger!Reopen(v)

Init ==
  /\ task = "in_progress"
  /\ versions = [v \in 1..MaxVersions |-> Ledger!NoVersion]
  /\ seen = [version |-> 0, lock |-> 0, candidates |-> {}]
  /\ subs = [s \in SubNos |-> NoSub]
  /\ worker = [w \in Workers |-> Idle]
  /\ disk = [v \in 1..MaxVersions |-> [c \in 1..MaxCandidates |-> 0]]
  /\ faults = 0

WorkerStep(w) ==
  \/ \E c \in 1..MaxCandidates : WriteFile(w, c)
  \/ MarkFilePublished(w)
  \/ \E c \in 0..MaxCandidates, retryable \in BOOLEAN : RecordPublishFailure(w, c, retryable)
  \/ MarkPublished(w)
  \/ \E raised \in BOOLEAN : CommitPublished(w, raised)
  \/ CommitRaises(w)
  \/ \E retryable \in BOOLEAN : RecordCommitFailure(w, retryable)

Next ==
  \/ \E s \in SubNos :
       \/ \E mode \in {"new_round", "append"}, v \in 1..MaxVersions, n \in 1..MaxFiles :
            CreateSubmission(s, mode, v, n)
       \/ RetrySubmission(s)
       \/ \E w \in Workers : ClaimNext(w, s)
  \/ \E w \in Workers : WorkerStep(w) \/ Crash(w)
  \/ Review

Spec == Init /\ [][Next]_vars

\* The leader's version job comes round again and again, and what a worker has
\* claimed it carries to an end as long as its process lives.
FairSpec ==
  /\ Spec
  /\ WF_vars(\E w \in Workers, s \in SubNos : ClaimNext(w, s))
  /\ \A w \in Workers : WF_vars(WorkerStep(w))

-----------------------------------------------------------------------------
(* Properties.                                                             *)

\* The values each part of the state ranges over; a row is claimed at most
\* MaxAttempts times per retry, so the worker never meets one beyond the limit.
TypeOK ==
  /\ task \in {"in_progress", "pending_review", "revision", "completed"}
  /\ \A v \in 1..MaxVersions : versions[v] \in
       [status : {"none", "pending_review", "rejected", "final"}, cycle : 0..MaxCycles,
        candidates : SUBSET (1..MaxCandidates), selected : 0..MaxCandidates, lock : Nat]
  /\ \A s \in SubNos :
       /\ subs[s].status \in UnresolvedStatuses \cup {"none", "committed"}
       /\ subs[s].attempt \in 0..MaxAttempts
       /\ subs[s].owner \in Workers \cup {NoWorker}
       /\ \A c \in DOMAIN subs[s].files :
            c \in 1..MaxCandidates /\ subs[s].files[c] \in
              {"pending", "publishing", "published", "failed"}
  /\ worker \in [Workers ->
       [pc : {"idle", "publishing", "written", "committing", "commit_error"},
        sub : 0..MaxSubs, attempt : 0..MaxAttempts, file : 0..MaxCandidates]]
  /\ disk \in [1..MaxVersions -> [1..MaxCandidates -> 0..MaxSubs]]
  /\ faults \in 0..MaxFaults

\* A submission that has been accepted can still be committed: neither the
\* review nor a reopening closes its target while it waits, is published, has
\* failed or is being retried, and nobody takes its candidate numbers.
TargetStaysOpen ==
  \A s \in SubNos : Unresolved(s) =>
    /\ Ledger!TargetOpen(subs[s].mode, subs[s].version)
    /\ DOMAIN subs[s].files = Ledger!NextCandidates(subs[s].version,
                                                    Cardinality(DOMAIN subs[s].files))

\* Every candidate of a version is a file on the NAS, copied for the very
\* submission that brought it in.
CandidatesAreOnNas ==
  \A v \in 1..MaxVersions : \A c \in versions[v].candidates :
    LET s == disk[v][c] IN
      s # 0 /\ subs[s].status = "committed" /\ c \in DOMAIN subs[s].files

\* A conclusion of the director is one about all candidates of the version: an
\* append that settled after the page had been read makes the command stale.
ConclusionSawAllCandidates ==
  [][\A v \in 1..MaxVersions :
       versions[v].status = "pending_review" /\ versions'[v].status \in {"final", "rejected"}
         => seen.version = v /\ seen.candidates = versions[v].candidates]_vars

\* What the director has concluded about does not change afterwards, not even
\* while the version is under a second review.
ConcludedCandidatesAreFrozen ==
  [][\A v \in 1..MaxVersions :
       versions[v].status \in {"rejected", "final"} \/ versions[v].cycle > 1
         => versions'[v].candidates = versions[v].candidates]_vars

\* Publishing in steps, with retries, repeated and ambiguous commits, looks
\* like one acceptance and one settlement; a version has one submission's files.
ImplementsLedger == Ledger!LedgerSpec

\* As long as no worker dies, the submission that is under way (there is only
\* one) is committed or fails; it is never tried for ever.
SubmissionSettles ==
  (\E s \in SubNos : subs[s].status = "pending")
    ~> \/ \A s \in SubNos : subs[s].status \in {"none", "committed", "failed"}
       \/ faults > 0

\* What has been accepted can still be committed, and what is a candidate is
\* on the NAS.
SubmissionSafe == TypeOK /\ TargetStaysOpen /\ CandidatesAreOnNas

\* A conclusion is about all candidates of its version, and stays so.
ConclusionsStand == ConclusionSawAllCandidates /\ ConcludedCandidatesAreFrozen
=============================================================================
