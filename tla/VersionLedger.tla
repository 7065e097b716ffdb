--------------------------- MODULE VersionLedger ---------------------------
(***************************************************************************)
(* The versions of one task as the producer and the director see them: a   *)
(* submission is accepted and later settles as a whole, a version is       *)
(* reviewed, and a final version can be reopened.  What happens between    *)
(* acceptance and settlement (publishing to the NAS, retries, the formal   *)
(* transaction) is left to VersionSubmission, which implements this.       *)
(***************************************************************************)
EXTENDS Naturals, FiniteSets

CONSTANTS
  MaxVersions,     \* bound: versions of the task
  MaxCandidates,   \* MAX_CANDIDATE_NUMBER: candidates of one version
  MaxCycles        \* bound: review cycles of one version

ASSUME LedgerAssumption == {MaxVersions, MaxCandidates, MaxCycles} \subseteq Nat \ {0}

VARIABLES
  task,      \* sg_task.task_status, from the first day of production on
  versions,  \* sg_version of each version number with its candidates
  open,      \* the submission that has been accepted and has not settled
  seen       \* the version as the director's page shows it

ledgerVars == <<task, versions, open, seen>>

VersionNos == 1..MaxVersions
CandidateNos == 1..MaxCandidates
NoVersion == [status |-> "none", cycle |-> 0, candidates |-> {}, selected |-> 0, lock |-> 0]
NothingOpen == [mode |-> "none", version |-> 0, candidates |-> {}]

Exists(v) == versions[v].status # "none"
IsLatest(v) == Exists(v) /\ \A u \in VersionNos : Exists(u) => u <= v

-----------------------------------------------------------------------------
(* Submissions.                                                            *)

\* A reopened version is frozen: only its first review cycle takes candidates.
AppendOpen(v) ==
  /\ task = "pending_review"
  /\ IsLatest(v)
  /\ versions[v].status = "pending_review"
  /\ versions[v].cycle <= 1
NewRoundOpen == task \in {"in_progress", "revision"}

\* _submission_target: where a submission of that mode may still go.
TargetOpen(mode, v) == IF mode = "append" THEN AppendOpen(v) ELSE NewRoundOpen

\* The candidate numbers that n more files of version v get.
NextCandidates(v, n) ==
  LET last == Cardinality(versions[v].candidates) IN (last + 1)..(last + n)

Accept(mode, v, n) ==
  /\ open = NothingOpen
  /\ TargetOpen(mode, v)
  /\ mode = "new_round" => ~Exists(v) /\ \A u \in 1..(v - 1) : Exists(u)
  /\ NextCandidates(v, n) \subseteq CandidateNos
  /\ open' = [mode |-> mode, version |-> v, candidates |-> NextCandidates(v, n)]
  /\ UNCHANGED <<task, versions, seen>>

\* A single candidate needs no choice of the director.
NewVersion(candidates) ==
  [status |-> "pending_review", cycle |-> 1, candidates |-> candidates,
   selected |-> IF Cardinality(candidates) = 1 THEN 1 ELSE 0, lock |-> 0]

AppendedSameLock(version, candidates) ==
  [version EXCEPT !.candidates = @ \cup candidates]
Appended(version, candidates) ==
  [version EXCEPT !.candidates = @ \cup candidates, !.lock = @ + 1]

\* The version tables after a submission has been formally created.
WithCandidates(mode, v, candidates) ==
  [versions EXCEPT ![v] = IF mode = "append" THEN Appended(@, candidates)
                          ELSE NewVersion(candidates)]

Settle ==
  /\ open # NothingOpen
  /\ versions' = WithCandidates(open.mode, open.version, open.candidates)
  /\ task' = "pending_review"
  /\ open' = NothingOpen
  /\ UNCHANGED seen

-----------------------------------------------------------------------------
(* Review.                                                                 *)

\* get_review_context reads the version with its lock first and the candidates
\* in a later statement: a submission may settle in between.
OpenPage(v) ==
  /\ Exists(v)
  /\ seen' = [version |-> v, lock |-> versions[v].lock, candidates |-> {}]
  /\ UNCHANGED <<task, versions, open>>

LoadCandidates ==
  /\ seen.version # 0 /\ seen.candidates = {}
  /\ seen' = [seen EXCEPT !.candidates = versions[seen.version].candidates]
  /\ UNCHANGED <<task, versions, open>>

\* The page is complete and its lock version is still that of the row.
Current(v) ==
  seen.version = v /\ seen.lock = versions[v].lock /\ seen.candidates # {}

\* A command names the lock version of the page; nothing may be under way.
ReviewableDuringSubmission(v) ==
  /\ Current(v)
  /\ task = "pending_review" /\ versions[v].status = "pending_review"
  /\ IsLatest(v)
Reviewable(v) ==
  /\ Current(v)
  /\ task = "pending_review" /\ versions[v].status = "pending_review"
  /\ open = NothingOpen
  /\ IsLatest(v)

Approve(v, c) ==
  /\ Reviewable(v)
  /\ c \in versions[v].candidates /\ c \in seen.candidates
  /\ \A u \in VersionNos \ {v} : versions[u].status # "final"
  /\ versions' = [versions EXCEPT ![v].status = "final", ![v].selected = c, ![v].lock = @ + 1]
  /\ task' = "completed"
  /\ UNCHANGED <<open, seen>>

Reject(v) ==
  /\ Reviewable(v)
  /\ versions' = [versions EXCEPT ![v].status = "rejected", ![v].lock = @ + 1]
  /\ task' = "revision"
  /\ UNCHANGED <<open, seen>>

\* A new review cycle of the latest final version.
Reopen(v) ==
  /\ Current(v)
  /\ task = "completed" /\ versions[v].status = "final"
  /\ open = NothingOpen
  /\ IsLatest(v)
  /\ versions[v].cycle < MaxCycles
  /\ versions' = [versions EXCEPT ![v].status = "pending_review", ![v].cycle = @ + 1,
                                  ![v].lock = @ + 1]
  /\ task' = "pending_review"
  /\ UNCHANGED <<open, seen>>

-----------------------------------------------------------------------------
LedgerInit ==
  /\ task = "in_progress"
  /\ versions = [v \in VersionNos |-> NoVersion]
  /\ open = NothingOpen
  /\ seen = [version |-> 0, lock |-> 0, candidates |-> {}]

LedgerNext ==
  \/ \E mode \in {"new_round", "append"}, v \in VersionNos, n \in CandidateNos :
       Accept(mode, v, n)
  \/ Settle
  \/ LoadCandidates
  \/ \E v \in VersionNos :
       \/ OpenPage(v)
       \/ \E c \in CandidateNos : Approve(v, c)
       \/ Reject(v)
       \/ Reopen(v)

LedgerSpec == LedgerInit /\ [][LedgerNext]_ledgerVars
=============================================================================
