----------------------- MODULE VersionSubmissionProofs -----------------------
(***************************************************************************)
(* What the version submissions of a task guarantee for any number of      *)
(* versions, candidates, submissions, files, workers, failures and deaths: *)
(* an accepted submission keeps its target until it settles, a candidate   *)
(* is a file on the NAS, a conclusion of the director is about all         *)
(* candidates and stays so, and the whole machinery is one acceptance and  *)
(* one settlement of VersionLedger.                                        *)
(*                                                                         *)
(* The inductive invariant SubInv adds to what the runs check that only    *)
(* one row is unresolved, that the row a worker is at is its own           *)
(* (HoldsItsRow), that the existing versions follow the rows, that the     *)
(* rows are right about the files, and that the page of the director is    *)
(* not newer than its version.                                             *)
(***************************************************************************)
EXTENDS VersionSubmission, FiniteSetTheorems, WellFoundedInduction, TLAPS

-----------------------------------------------------------------------------
(* The values of the state.                                                *)

VersionIds == 1..MaxVersions
Candidates == 1..MaxCandidates
FileStatus == {"pending", "publishing", "published", "failed"}
SubFiles == UNION {[D -> FileStatus] : D \in SUBSET Candidates}
SubRecord ==
  [mode : {"none", "new_round", "append"}, version : 0..MaxVersions, files : SubFiles,
   status : UnresolvedStatuses \cup {"none", "committed"}, attempt : 0..MaxAttempts,
   owner : Workers \cup {NoWorker}]
VersionRecord ==
  [status : {"none", "pending_review", "rejected", "final"}, cycle : 0..MaxCycles,
   candidates : SUBSET Candidates, selected : 0..MaxCandidates, lock : Nat]
WorkerRecord ==
  [pc : {"idle", "publishing", "written", "committing", "commit_error"},
   sub : 0..MaxSubs, attempt : 0..MaxAttempts, file : 0..MaxCandidates]
SeenRecord == [version : 0..MaxVersions, lock : Nat, candidates : SUBSET Candidates]

Typed ==
  /\ task \in {"in_progress", "pending_review", "revision", "completed"}
  /\ versions \in [VersionIds -> VersionRecord]
  /\ seen \in SeenRecord
  /\ subs \in [SubNos -> SubRecord]
  /\ worker \in [Workers -> WorkerRecord]
  /\ disk \in [VersionIds -> [Candidates -> 0..MaxSubs]]
  /\ faults \in 0..MaxFaults

\* A row that waits to be copied has an attempt left.
PendingCanBeTried == \A s \in SubNos : subs[s].status = "pending" => subs[s].attempt < MaxAttempts

\* The row a worker is at is its own until it reports.
AtItsRow(w) ==
  LET s == worker[w].sub IN
  /\ worker[w].pc = "idle" => worker[w] = Idle
  /\ worker[w].pc # "idle" => s \in SubNos
  /\ worker[w].pc \in {"publishing", "written"} => Holds(w, "publishing")
  /\ worker[w].pc = "committing" => Holds(w, "committing")
  /\ worker[w].pc = "commit_error" =>
       Holds(w, "committing") \/ subs[s].status = "committed"
HoldsItsRow == \A w \in Workers : AtItsRow(w)

OneUnresolved == \A r, s \in SubNos : Unresolved(r) /\ Unresolved(s) => r = s
\* Rows are filled in order and have a target.
RowsHaveTargets ==
  \A s \in SubNos :
    IF subs[s].status = "none" THEN subs[s] = NoSub
    ELSE subs[s].mode # "none" /\ subs[s].version # 0

RowInv == Typed /\ PendingCanBeTried /\ HoldsItsRow /\ OneUnresolved /\ RowsHaveTargets

\* The existing versions are numbered without a gap, every number comes from a
\* row, and what does not exist is empty.
VersionsFollowRows ==
  /\ \A v \in VersionIds :
       /\ Ledger!Exists(v) =>
            /\ \A u \in 1..(v - 1) : Ledger!Exists(u)
            /\ \E s \in SubNos : subs[s].version = v
       /\ ~Ledger!Exists(v) => versions[v] = Ledger!NoVersion
  /\ \A s \in SubNos :
       /\ subs[s].status = "committed" => Ledger!Exists(subs[s].version)
       /\ Unresolved(s) /\ subs[s].mode = "new_round" =>
            /\ ~Ledger!Exists(subs[s].version)
            /\ \A u \in 1..(subs[s].version - 1) : Ledger!Exists(u)

\* What a row says of its files is true of the NAS.
FilesAreThere ==
  /\ \A s \in SubNos : \A c \in DOMAIN subs[s].files :
       subs[s].files[c] = "published" => disk[subs[s].version][c] = s
  /\ \A w \in Workers : worker[w].pc = "written" =>
       LET s == worker[w].sub IN
         /\ worker[w].file \in DOMAIN subs[s].files
         /\ disk[subs[s].version][worker[w].file] = s

\* The page is of a version and not newer than it; with the lock of the row it
\* has all candidates, or none yet.
PageIsTrue ==
  seen.version # 0 =>
    /\ Ledger!Exists(seen.version)
    /\ seen.lock <= versions[seen.version].lock
    /\ seen.lock = versions[seen.version].lock /\ seen.candidates # {} =>
         seen.candidates = versions[seen.version].candidates

SubInv ==
  RowInv /\ TargetStaysOpen /\ VersionsFollowRows /\ FilesAreThere /\ CandidatesAreOnNas /\ PageIsTrue

LEMMA Sizes ==
  /\ MaxAttempts \in Nat /\ MaxAttempts > 0 /\ MaxSubs \in Nat /\ MaxSubs > 0
  /\ MaxFiles \in Nat /\ MaxFiles > 0 /\ MaxFaults \in Nat /\ NoWorker \notin Workers
  /\ MaxVersions \in Nat /\ MaxVersions > 0 /\ MaxCandidates \in Nat /\ MaxCandidates > 0
  /\ MaxCycles \in Nat /\ MaxCycles > 0
  BY SubmissionAssumption

LEMMA NoSubTyped ==
  /\ NoSub \in SubRecord /\ NoSub.status = "none" /\ NoSub.version = 0 /\ NoSub.mode = "none"
  /\ NoSub.attempt = 0 /\ NoSub.owner = NoWorker
<1>1. <<>> \in [{} -> FileStatus]
  OBVIOUS
<1>2. <<>> \in SubFiles
  BY <1>1 DEF SubFiles
<1> QED
  BY <1>2, Sizes DEF NoSub, SubRecord

LEMMA FilesTyped ==
  /\ \A f \in SubFiles : /\ DOMAIN f \subseteq Candidates
                         /\ \A c \in DOMAIN f : f[c] \in FileStatus
                         /\ f = [c \in DOMAIN f |-> f[c]]
  /\ \A D \in SUBSET Candidates : \A f \in [D -> FileStatus] : f \in SubFiles
  BY DEF SubFiles

LEMMA TypedSuffices == RowInv => TypeOK
<1> SUFFICES ASSUME RowInv PROVE TypeOK
  OBVIOUS
<1>1. Typed
  BY DEF RowInv
<1>2. \A v \in VersionIds : versions[v] \in VersionRecord
  BY <1>1 DEF Typed
<1>3. \A s \in SubNos : subs[s] \in SubRecord
  BY <1>1 DEF Typed
<1>4. \A s \in SubNos : \A c \in DOMAIN subs[s].files :
        c \in Candidates /\ subs[s].files[c] \in FileStatus
  BY <1>3, FilesTyped DEF SubRecord
<1> QED
  BY <1>1, <1>2, <1>3, <1>4
  DEF TypeOK, Typed, VersionIds, Candidates, VersionRecord, SubRecord, WorkerRecord, FileStatus

LEMMA InitRows == Init => RowInv
<1> SUFFICES ASSUME Init PROVE RowInv
  OBVIOUS
<1>1. Typed
  <2>1. versions \in [VersionIds -> VersionRecord]
    BY Sizes DEF Init, VersionIds, VersionRecord, Ledger!NoVersion
  <2>2. seen \in SeenRecord
    BY Sizes DEF Init, SeenRecord
  <2>3. subs \in [SubNos -> SubRecord]
    BY NoSubTyped DEF Init
  <2>4. worker \in [Workers -> WorkerRecord]
    BY Sizes DEF Init, WorkerRecord, Idle
  <2>5. disk \in [VersionIds -> [Candidates -> 0..MaxSubs]]
    BY Sizes DEF Init, VersionIds, Candidates
  <2> QED
    BY <2>1, <2>2, <2>3, <2>4, <2>5, Sizes DEF Init, Typed
<1>2. PendingCanBeTried /\ OneUnresolved /\ RowsHaveTargets
  BY NoSubTyped DEF Init, PendingCanBeTried, OneUnresolved, RowsHaveTargets, Unresolved,
                    UnresolvedStatuses
<1>3. HoldsItsRow
  BY DEF Init, HoldsItsRow, AtItsRow, Idle
<1> QED
  BY <1>1, <1>2, <1>3 DEF RowInv

-----------------------------------------------------------------------------
(* What the steps do to the row they are about.                            *)

\* A later state of a row that has been accepted.
Keeps(s, x) ==
  /\ x \in SubRecord
  /\ x.mode = subs[s].mode /\ x.version = subs[s].version
  /\ DOMAIN x.files = DOMAIN subs[s].files
BecomesRow(s, x) == subs' = [subs EXCEPT ![s] = x]

LEMMA RowTyped ==
  ASSUME Typed, NEW s \in SubNos
  PROVE  /\ subs[s] \in SubRecord
         /\ subs[s].mode \in {"none", "new_round", "append"} /\ subs[s].version \in 0..MaxVersions
         /\ subs[s].files \in SubFiles
         /\ subs[s].status \in UnresolvedStatuses \cup {"none", "committed"}
         /\ subs[s].attempt \in 0..MaxAttempts /\ subs[s].owner \in Workers \cup {NoWorker}
         /\ DOMAIN subs[s].files \subseteq Candidates
         /\ \A c \in DOMAIN subs[s].files : subs[s].files[c] \in FileStatus
<1>1. subs[s] \in SubRecord
  BY DEF Typed
<1> QED
  BY <1>1, FilesTyped DEF SubRecord

LEMMA WorkerTyped ==
  ASSUME Typed, NEW w \in Workers
  PROVE  /\ worker[w].pc \in {"idle", "publishing", "written", "committing", "commit_error"}
         /\ worker[w].sub \in 0..MaxSubs /\ worker[w].attempt \in 0..MaxAttempts
         /\ worker[w].file \in 0..MaxCandidates
  BY DEF Typed, WorkerRecord

LEMMA RetryEffect ==
  ASSUME RowInv, NEW s \in SubNos, RetrySubmission(s)
  PROVE  \E x \in SubRecord :
           /\ BecomesRow(s, x) /\ Keeps(s, x)
           /\ x.status = "pending" /\ x.attempt = 0
           /\ \A c \in DOMAIN x.files :
                x.files[c] = "published" <=> subs[s].files[c] = "published"
<1> DEFINE fs == [c \in DOMAIN subs[s].files |->
                    IF subs[s].files[c] = "failed" THEN "pending" ELSE subs[s].files[c]]
           x == [subs[s] EXCEPT !.status = "pending", !.attempt = 0, !.files = fs]
<1>0. Typed
  BY DEF RowInv
<1>1. subs' = [subs EXCEPT ![s] = x]
  BY <1>0 DEF RetrySubmission, Typed
<1>2. fs \in SubFiles
  BY <1>0, RowTyped, FilesTyped DEF FileStatus
<1>3. x \in SubRecord
  <2>1. 0 \in 0..MaxAttempts /\ "pending" \in UnresolvedStatuses
    BY Sizes DEF UnresolvedStatuses
  <2> HIDE DEF fs
  <2> QED
    BY <1>0, <1>2, <2>1, RowTyped DEF SubRecord
<1>4. /\ x.mode = subs[s].mode /\ x.version = subs[s].version /\ x.files = fs
      /\ x.status = "pending" /\ x.attempt = 0
  BY <1>0, RowTyped DEF SubRecord
<1> HIDE DEF x
<1>5. Keeps(s, x)
  BY <1>3, <1>4 DEF Keeps
<1>6. \A c \in DOMAIN x.files : x.files[c] = "published" <=> subs[s].files[c] = "published"
  BY <1>4
<1> QED
  BY <1>1, <1>3, <1>4, <1>5, <1>6 DEF BecomesRow

LEMMA ClaimEffect ==
  ASSUME RowInv, NEW w \in Workers, NEW s \in SubNos, ClaimNext(w, s)
  PROVE  \E x \in SubRecord :
           /\ BecomesRow(s, x) /\ Keeps(s, x)
           /\ x.owner = w
           /\ \/ /\ subs[s].status = "pending" /\ x.status = "publishing"
                 /\ x.attempt = subs[s].attempt + 1
              \/ /\ subs[s].status = "published" /\ x.status = "committing"
                 /\ x.attempt = subs[s].attempt
           /\ worker' = [worker EXCEPT ![w] =
                [pc |-> x.status, sub |-> s, attempt |-> x.attempt, file |-> 0]]
           /\ \A c \in DOMAIN x.files :
                x.files[c] = "published" <=> subs[s].files[c] = "published"
<1> DEFINE pending == subs[s].status = "pending"
           fs == [c \in DOMAIN subs[s].files |->
                    IF pending /\ subs[s].files[c] # "published" THEN "publishing"
                    ELSE subs[s].files[c]]
           a == IF pending THEN subs[s].attempt + 1 ELSE subs[s].attempt
           st == IF pending THEN "publishing" ELSE "committing"
           x == [subs[s] EXCEPT !.status = st, !.attempt = a, !.owner = w, !.files = fs]
<1>0. Typed /\ PendingCanBeTried
  BY DEF RowInv
<1>1. /\ subs' = [subs EXCEPT ![s] = x]
      /\ worker' = [worker EXCEPT ![w] = [pc |-> st, sub |-> s, attempt |-> a, file |-> 0]]
  BY <1>0 DEF ClaimNext, Typed
<1>2. fs \in SubFiles
  BY <1>0, RowTyped, FilesTyped DEF FileStatus
<1>3. a \in 0..MaxAttempts
  BY <1>0, RowTyped, Sizes DEF PendingCanBeTried
<1>4. x \in SubRecord
  BY <1>0, <1>2, <1>3, RowTyped DEF SubRecord, UnresolvedStatuses
<1>5. /\ x.mode = subs[s].mode /\ x.version = subs[s].version /\ x.files = fs
      /\ x.status = st /\ x.attempt = a /\ x.owner = w
  BY <1>0, RowTyped DEF SubRecord
<1>6. \/ pending /\ st = "publishing" /\ a = subs[s].attempt + 1
      \/ subs[s].status = "published" /\ st = "committing" /\ a = subs[s].attempt
  BY DEF ClaimNext, Due
<1> HIDE DEF x
<1>7. Keeps(s, x)
  BY <1>4, <1>5 DEF Keeps
<1>8. \A c \in DOMAIN x.files : x.files[c] = "published" <=> subs[s].files[c] = "published"
  BY <1>5
<1> QED
  BY <1>1, <1>4, <1>5, <1>6, <1>7, <1>8 DEF BecomesRow

\* The row a worker is at while it publishes or commits.
LEMMA HeldRow ==
  ASSUME RowInv, NEW w \in Workers, worker[w].pc # "idle"
  PROVE  /\ worker[w].sub \in SubNos
         /\ worker[w].pc \in {"publishing", "written"} => Holds(w, "publishing")
         /\ worker[w].pc = "committing" => Holds(w, "committing")
         /\ worker[w].pc = "commit_error" =>
              Holds(w, "committing") \/ subs[worker[w].sub].status = "committed"
<1>1. HoldsItsRow
  BY DEF RowInv
<1> QED
  BY <1>1 DEF HoldsItsRow, AtItsRow

LEMMA FilePublishedEffect ==
  ASSUME RowInv, FilesAreThere, NEW w \in Workers, MarkFilePublished(w)
  PROVE  LET s == worker[w].sub IN
         \E x \in SubRecord :
           /\ s \in SubNos /\ BecomesRow(s, x) /\ Keeps(s, x)
           /\ subs[s].status = "publishing" /\ subs[s].owner = w
           /\ x.status = "publishing" /\ x.owner = w /\ x.attempt = subs[s].attempt
           /\ subs[s].attempt = worker[w].attempt
           /\ \A c \in DOMAIN x.files :
                x.files[c] = "published" <=> subs[s].files[c] = "published" \/ c = worker[w].file
           /\ disk[x.version][worker[w].file] = s
<1> DEFINE s == worker[w].sub
           c == worker[w].file
           fs == [subs[s].files EXCEPT ![c] = "published"]
           x == [subs[s] EXCEPT !.files = fs]
<1>0. Typed /\ s \in SubNos /\ worker[w].pc = "written" /\ c \in DOMAIN subs[s].files
  BY HeldRow DEF RowInv, MarkFilePublished, FilesAreThere
<1>1. subs' = [subs EXCEPT ![s] = x]
  BY <1>0 DEF MarkFilePublished, Typed
<1>2. fs \in SubFiles /\ DOMAIN fs = DOMAIN subs[s].files
  <2>1. fs \in [DOMAIN subs[s].files -> FileStatus]
    BY <1>0, RowTyped, FilesTyped DEF FileStatus
  <2> QED
    BY <2>1, <1>0, RowTyped, FilesTyped
<1>3. x \in SubRecord
  <2> HIDE DEF fs
  <2> QED
    BY <1>0, <1>2, RowTyped DEF SubRecord
<1>4. /\ x.mode = subs[s].mode /\ x.version = subs[s].version /\ x.files = fs
      /\ x.status = subs[s].status /\ x.attempt = subs[s].attempt /\ x.owner = subs[s].owner
  BY <1>0, RowTyped DEF SubRecord
<1>5. Holds(w, "publishing") /\ disk[subs[s].version][c] = s
  BY <1>0 DEF MarkFilePublished, FilesAreThere
<1>6. \A d \in DOMAIN fs : fs[d] = "published" <=> subs[s].files[d] = "published" \/ d = c
  BY <1>0, RowTyped, FilesTyped
<1> HIDE DEF x, fs
<1>7. Keeps(s, x)
  BY <1>2, <1>3, <1>4 DEF Keeps
<1> QED
  BY <1>0, <1>1, <1>3, <1>4, <1>5, <1>6, <1>7 DEF BecomesRow, Holds

\* A row that its worker lets go of.
LEMMA ReleaseEffect ==
  ASSUME RowInv, NEW s \in SubNos, NEW st \in UnresolvedStatuses \cup {"committed"},
         subs' = Released(s, st)
  PROVE  \E x \in SubRecord :
           /\ BecomesRow(s, x) /\ Keeps(s, x)
           /\ x.status = st /\ x.files = subs[s].files
<1> DEFINE x == [subs[s] EXCEPT !.status = st, !.owner = NoWorker]
<1>0. Typed
  BY DEF RowInv
<1>1. subs \in [SubNos -> SubRecord]
  BY <1>0 DEF Typed
<1>2. subs' = [subs EXCEPT ![s] = x]
  BY <1>1 DEF Released
<1>3. /\ x \in SubRecord /\ x.mode = subs[s].mode /\ x.version = subs[s].version
      /\ x.status = st /\ x.files = subs[s].files
  BY <1>1, <1>0, RowTyped DEF SubRecord
<1> HIDE DEF x
<1> QED
  BY <1>2, <1>3 DEF BecomesRow, Keeps

LEMMA PublishFailureEffect ==
  ASSUME RowInv, NEW w \in Workers, NEW c \in 0..MaxCandidates, NEW retryable \in BOOLEAN,
         RecordPublishFailure(w, c, retryable)
  PROVE  LET s == worker[w].sub IN
         \E x \in SubRecord :
           /\ s \in SubNos /\ BecomesRow(s, x) /\ Keeps(s, x)
           /\ subs[s].status = "publishing" /\ subs[s].owner = w
           /\ x.status \in {"pending", "failed"} /\ x.owner = NoWorker
           /\ x.attempt = subs[s].attempt
           /\ x.status = "pending" => x.attempt < MaxAttempts
           /\ \A d \in DOMAIN x.files : x.files[d] = "published" => subs[s].files[d] = "published"
<1> DEFINE s == worker[w].sub
           st == IF Terminal(retryable, worker[w].attempt) THEN "failed" ELSE "pending"
           fs == [f \in DOMAIN subs[s].files |-> IF f = c THEN "failed" ELSE subs[s].files[f]]
           x == [subs[s] EXCEPT !.status = st, !.owner = NoWorker, !.files = fs]
<1>0. Typed /\ s \in SubNos /\ Holds(w, "publishing") /\ subs \in [SubNos -> SubRecord]
  BY HeldRow DEF RowInv, RecordPublishFailure, Typed
<1>1. subs' = [subs EXCEPT ![s] = x]
  BY <1>0 DEF RecordPublishFailure, Released
<1>2. fs \in SubFiles
  BY <1>0, RowTyped, FilesTyped DEF FileStatus
<1>3. st \in {"pending", "failed"} /\ (st = "pending" => worker[w].attempt < MaxAttempts)
  BY <1>0, WorkerTyped, Sizes DEF Terminal
<1>4. x \in SubRecord
  <2> HIDE DEF fs, st
  <2> QED
    BY <1>0, <1>2, <1>3, RowTyped DEF SubRecord, UnresolvedStatuses
<1>5. /\ x.mode = subs[s].mode /\ x.version = subs[s].version /\ x.files = fs
      /\ x.status = st /\ x.attempt = subs[s].attempt /\ x.owner = NoWorker
  BY <1>0, RowTyped DEF SubRecord
<1> HIDE DEF x, st
<1>6. Keeps(s, x)
  BY <1>4, <1>5 DEF Keeps
<1>7. \A d \in DOMAIN x.files : x.files[d] = "published" => subs[s].files[d] = "published"
  BY <1>5
<1> QED
  BY <1>0, <1>1, <1>3, <1>4, <1>5, <1>6, <1>7 DEF BecomesRow, Holds

LEMMA PublishedEffect ==
  ASSUME RowInv, NEW w \in Workers, MarkPublished(w)
  PROVE  LET s == worker[w].sub IN
         \E x \in SubRecord :
           /\ s \in SubNos /\ BecomesRow(s, x) /\ Keeps(s, x)
           /\ subs[s].status = "publishing" /\ subs[s].owner = w
           /\ x.status = "published" /\ x.files = subs[s].files
<1>1. worker[w].sub \in SubNos /\ Holds(w, "publishing")
  BY HeldRow DEF MarkPublished
<1>2. "published" \in UnresolvedStatuses
  BY DEF UnresolvedStatuses
<1>3. \E x \in SubRecord :
           /\ BecomesRow(worker[w].sub, x) /\ Keeps(worker[w].sub, x)
           /\ x.status = "published" /\ x.files = subs[worker[w].sub].files
  BY <1>1, <1>2, ReleaseEffect DEF MarkPublished
<1> QED
  BY <1>1, <1>3 DEF Holds

LEMMA CommitEffect ==
  ASSUME RowInv, NEW w \in Workers, NEW raised \in BOOLEAN, CommitPublished(w, raised)
  PROVE  LET s == worker[w].sub IN
         /\ \E x \in SubRecord :
           /\ s \in SubNos /\ BecomesRow(s, x) /\ Keeps(s, x)
           /\ subs[s].status = "committing" /\ subs[s].owner = w
           /\ x.status = "committed" /\ x.files = subs[s].files
         /\ \E y \in WorkerRecord :
              /\ worker' = [worker EXCEPT ![w] = y]
              /\ y = Idle \/ (y.pc = "commit_error" /\ y.sub = s)
<1>1. worker[w].sub \in SubNos /\ Holds(w, "committing") /\ Typed
  BY HeldRow DEF CommitPublished, RowInv
<1>2. \E x \in SubRecord :
           /\ BecomesRow(worker[w].sub, x) /\ Keeps(worker[w].sub, x)
           /\ x.status = "committed" /\ x.files = subs[worker[w].sub].files
  BY <1>1, ReleaseEffect DEF CommitPublished
<1>3. worker \in [Workers -> WorkerRecord] /\ Idle \in WorkerRecord
  BY <1>1, Sizes DEF Typed, Idle, WorkerRecord
<1> DEFINE y == [worker[w] EXCEPT !.pc = "commit_error"]
<1>4. y \in WorkerRecord /\ y.pc = "commit_error" /\ y.sub = worker[w].sub
  BY <1>3 DEF WorkerRecord
<1>5. worker' = [worker EXCEPT ![w] = y] \/ worker' = [worker EXCEPT ![w] = Idle]
  BY <1>3 DEF CommitPublished
<1> HIDE DEF y
<1>6. \E z \in WorkerRecord : /\ worker' = [worker EXCEPT ![w] = z]
                              /\ z = Idle \/ (z.pc = "commit_error" /\ z.sub = worker[w].sub)
  BY <1>3, <1>4, <1>5
<1>7. subs[worker[w].sub].status = "committing" /\ subs[worker[w].sub].owner = w
  BY <1>1 DEF Holds
<1> QED
  BY <1>1, <1>2, <1>6, <1>7

LEMMA CommitFailureEffect ==
  ASSUME RowInv, NEW w \in Workers, NEW retryable \in BOOLEAN,
         RecordCommitFailure(w, retryable)
  PROVE  LET s == worker[w].sub IN
         \/ subs' = subs
         \/ \E x \in SubRecord :
              /\ s \in SubNos /\ BecomesRow(s, x) /\ Keeps(s, x)
              /\ subs[s].status = "committing" /\ subs[s].owner = w
              /\ x.status \in {"published", "failed"} /\ x.files = subs[s].files
<1> DEFINE s == worker[w].sub
           x == [subs[s] EXCEPT !.status = "published", !.owner = NoWorker,
                                !.attempt = subs[s].attempt + 1]
<1>1. s \in SubNos /\ Typed /\ subs \in [SubNos -> SubRecord]
  BY HeldRow DEF RecordCommitFailure, RowInv, Typed
<1>2. {"failed", "published"} \subseteq UnresolvedStatuses
  BY DEF UnresolvedStatuses
<1>3. CASE ~Holds(w, "committing")
  <2>1. subs' = subs
    BY <1>3 DEF RecordCommitFailure
  <2> QED
    BY <2>1
<1>4. CASE Holds(w, "committing") /\ Terminal(retryable, worker[w].attempt)
  <2>1. subs' = Released(s, "failed")
    BY <1>4 DEF RecordCommitFailure
  <2>2. \E z \in SubRecord :
             /\ BecomesRow(s, z) /\ Keeps(s, z)
             /\ z.status = "failed" /\ z.files = subs[s].files
    BY <1>1, <1>2, <2>1, ReleaseEffect
  <2> QED
    BY <1>1, <1>4, <2>2 DEF Holds
<1>5. CASE Holds(w, "committing") /\ ~Terminal(retryable, worker[w].attempt)
  <2>1. subs' = [Released(s, "published") EXCEPT ![s].attempt = @ + 1]
    BY <1>5 DEF RecordCommitFailure
  <2>2. subs' = [subs EXCEPT ![s] = x]
    BY <1>1, <2>1 DEF Released
  <2>3. subs[s].attempt + 1 \in 0..MaxAttempts
    BY <1>1, <1>5, WorkerTyped, Sizes DEF Terminal, Holds
  <2>4. x \in SubRecord
    BY <1>1, <1>2, <2>3, RowTyped DEF SubRecord
  <2>5. /\ x.mode = subs[s].mode /\ x.version = subs[s].version
        /\ x.files = subs[s].files /\ x.status = "published"
    BY <1>1, RowTyped DEF SubRecord
  <2> HIDE DEF x
  <2> QED
    BY <1>1, <1>5, <2>2, <2>4, <2>5 DEF BecomesRow, Keeps, Holds
<1> QED
  BY <1>3, <1>4, <1>5

\* A new row: its numbers are those that come next.
LEMMA CreateEffect ==
  ASSUME RowInv, NEW s \in SubNos, NEW mode \in {"new_round", "append"}, NEW v \in VersionIds,
         NEW n \in 1..MaxFiles, CreateSubmission(s, mode, v, n)
  PROVE  \E x \in SubRecord :
           /\ BecomesRow(s, x) /\ subs[s] = NoSub
           /\ x.mode = mode /\ x.version = v /\ x.status = "pending" /\ x.attempt = 0
           /\ DOMAIN x.files = Ledger!NextCandidates(v, n)
           /\ Ledger!NextCandidates(v, n) \subseteq Candidates
           /\ \A c \in DOMAIN x.files : x.files[c] = "pending"
<1> DEFINE fs == [c \in Ledger!NextCandidates(v, n) |-> "pending"]
           x == [NoSub EXCEPT !.mode = mode, !.version = v, !.status = "pending", !.files = fs]
<1>1. /\ subs' = [subs EXCEPT ![s] = x] /\ subs[s] = NoSub
      /\ Ledger!NextCandidates(v, n) \subseteq Candidates
  BY DEF CreateSubmission, Ledger!CandidateNos, Candidates
<1>2. fs \in SubFiles
  BY <1>1, FilesTyped DEF FileStatus
<1> HIDE DEF fs
<1>3. x \in SubRecord
  <2>1. v \in 0..MaxVersions /\ "pending" \in UnresolvedStatuses
    BY Sizes DEF VersionIds, UnresolvedStatuses
  <2> QED
    BY <1>2, <2>1, NoSubTyped DEF SubRecord
<1>4. /\ x.mode = mode /\ x.version = v /\ x.status = "pending" /\ x.attempt = 0
      /\ x.files = fs
  BY NoSubTyped DEF NoSub
<1> QED
  BY <1>1, <1>3, <1>4 DEF BecomesRow, fs

-----------------------------------------------------------------------------
(* The rows stay well formed.                                              *)

LEMMA RowsAfter ==
  ASSUME Typed, NEW s \in SubNos, NEW x \in SubRecord, BecomesRow(s, x)
  PROVE  /\ subs'[s] = x /\ \A r \in SubNos \ {s} : subs'[r] = subs[r]
         /\ subs' \in [SubNos -> SubRecord]
  BY DEF BecomesRow, Typed

\* A row that goes on keeps its target and stays the only unresolved one.
LEMMA RowGoesOn ==
  ASSUME RowInv, NEW s \in SubNos, NEW x \in SubRecord, BecomesRow(s, x), Keeps(s, x),
         Unresolved(s), x.status # "none",
         x.status = "pending" => x.attempt < MaxAttempts
  PROVE  PendingCanBeTried' /\ OneUnresolved' /\ RowsHaveTargets'
<1>1. Typed /\ PendingCanBeTried /\ OneUnresolved /\ RowsHaveTargets
  BY DEF RowInv
<1>2. subs'[s] = x /\ \A r \in SubNos \ {s} : subs'[r] = subs[r]
  BY <1>1, RowsAfter
<1>3. subs[s].status # "none"
  BY DEF Unresolved, UnresolvedStatuses
<1>4. PendingCanBeTried'
  BY <1>1, <1>2 DEF PendingCanBeTried
<1>5. OneUnresolved'
  BY <1>1, <1>2 DEF OneUnresolved, Unresolved
<1>6. RowsHaveTargets'
  BY <1>1, <1>2, <1>3 DEF RowsHaveTargets, Keeps
<1> QED
  BY <1>4, <1>5, <1>6

\* The step of one worker at its row, or of a request at a row that no worker
\* is at, leaves the others at theirs.
LEMMA OthersAtTheirRows ==
  ASSUME RowInv, NEW s \in SubNos, NEW x \in SubRecord, BecomesRow(s, x),
         NEW d \in Workers, worker'[d] = worker[d],
         worker[d].pc # "idle" => worker[d].sub # s
  PROVE  AtItsRow(d)'
<1>1. Typed /\ AtItsRow(d)
  BY DEF RowInv, HoldsItsRow
<1>2. \A r \in SubNos \ {s} : subs'[r] = subs[r]
  BY <1>1, RowsAfter
<1> QED
  BY <1>1, <1>2 DEF AtItsRow, Holds, Idle

LEMMA NobodyElseAt ==
  ASSUME RowInv, NEW s \in SubNos, NEW d \in Workers, worker[d].pc # "idle",
         \/ subs[s].status \notin {"publishing", "committing", "committed"}
         \/ subs[s].status # "committed" /\ subs[s].owner # d
  PROVE  worker[d].sub # s
<1>1. AtItsRow(d) /\ Typed
  BY DEF RowInv, HoldsItsRow
<1> QED
  BY <1>1, WorkerTyped DEF AtItsRow, Holds

LEMMA WorkerAfter ==
  ASSUME Typed, NEW w \in Workers, NEW y \in WorkerRecord, worker' = [worker EXCEPT ![w] = y]
  PROVE  /\ worker'[w] = y /\ \A d \in Workers \ {w} : worker'[d] = worker[d]
         /\ worker' \in [Workers -> WorkerRecord]
  BY DEF Typed

LEMMA IdleTyped == Idle \in WorkerRecord /\ Idle.pc = "idle"
  BY Sizes DEF Idle, WorkerRecord

\* The parts of the types that a step of the rows leaves alone.
LEMMA TypedStep ==
  ASSUME Typed, subs' \in [SubNos -> SubRecord], worker' \in [Workers -> WorkerRecord],
         task' \in {"in_progress", "pending_review", "revision", "completed"},
         versions' \in [VersionIds -> VersionRecord], seen' \in SeenRecord,
         disk' \in [VersionIds -> [Candidates -> 0..MaxSubs]], faults' \in 0..MaxFaults
  PROVE  Typed'
  BY DEF Typed

\* A worker lets go of its row, which goes on.
LEMMA WorkerReports ==
  ASSUME RowInv, NEW w \in Workers, NEW s \in SubNos, NEW x \in SubRecord,
         BecomesRow(s, x), Keeps(s, x),
         subs[s].status \in {"publishing", "committing"}, subs[s].owner = w, x.status # "none",
         x.status = "pending" => x.attempt < MaxAttempts,
         worker' = [worker EXCEPT ![w] = Idle], UNCHANGED <<formal, disk, faults>>
  PROVE  RowInv'
<1>1. Typed
  BY DEF RowInv
<1>2. PendingCanBeTried' /\ OneUnresolved' /\ RowsHaveTargets'
  BY RowGoesOn DEF Unresolved, UnresolvedStatuses
<1>3. /\ worker'[w] = Idle /\ \A d \in Workers \ {w} : worker'[d] = worker[d]
      /\ worker' \in [Workers -> WorkerRecord]
  BY <1>1, IdleTyped, WorkerAfter
<1>4. subs' \in [SubNos -> SubRecord]
  BY <1>1, RowsAfter
<1>5. Typed'
  BY <1>1, <1>3, <1>4 DEF Typed, formal
<1>6. AtItsRow(w)'
  BY <1>3, IdleTyped DEF AtItsRow
<1>7. ASSUME NEW d \in Workers \ {w} PROVE AtItsRow(d)'
  BY <1>3, <1>7, NobodyElseAt, OthersAtTheirRows
<1> QED
  BY <1>2, <1>5, <1>6, <1>7 DEF RowInv, HoldsItsRow

LEMMA RowRetry == ASSUME RowInv, NEW s \in SubNos, RetrySubmission(s) PROVE RowInv'
<1>1. Typed /\ subs[s].status = "failed" /\ UNCHANGED <<formal, worker, disk, faults>>
  BY DEF RowInv, RetrySubmission
<1>2. PICK x \in SubRecord : /\ BecomesRow(s, x) /\ Keeps(s, x)
                             /\ x.status = "pending" /\ x.attempt = 0
  BY RetryEffect
<1>3. PendingCanBeTried' /\ OneUnresolved' /\ RowsHaveTargets'
  BY <1>1, <1>2, Sizes, RowGoesOn DEF Unresolved, UnresolvedStatuses
<1>4. subs' \in [SubNos -> SubRecord]
  BY <1>1, <1>2, RowsAfter
<1>5. Typed'
  BY <1>1, <1>4 DEF Typed, formal
<1>6. ASSUME NEW d \in Workers PROVE AtItsRow(d)'
  BY <1>1, <1>2, <1>6, NobodyElseAt, OthersAtTheirRows
<1> QED
  BY <1>3, <1>5, <1>6 DEF RowInv, HoldsItsRow

LEMMA RowClaim ==
  ASSUME RowInv, NEW w \in Workers, NEW s \in SubNos, ClaimNext(w, s) PROVE RowInv'
<1>1. Typed /\ UNCHANGED <<formal, disk, faults>>
  BY DEF RowInv, ClaimNext
<1>2. PICK x \in SubRecord :
           /\ BecomesRow(s, x) /\ Keeps(s, x)
           /\ x.owner = w
           /\ \/ /\ subs[s].status = "pending" /\ x.status = "publishing"
                 /\ x.attempt = subs[s].attempt + 1
              \/ /\ subs[s].status = "published" /\ x.status = "committing"
                 /\ x.attempt = subs[s].attempt
           /\ worker' = [worker EXCEPT ![w] =
                [pc |-> x.status, sub |-> s, attempt |-> x.attempt, file |-> 0]]
  BY ClaimEffect
<1> DEFINE y == [pc |-> x.status, sub |-> s, attempt |-> x.attempt, file |-> 0]
<1>3. PendingCanBeTried' /\ OneUnresolved' /\ RowsHaveTargets'
  BY <1>2, RowGoesOn DEF Unresolved, UnresolvedStatuses
<1>4. subs'[s] = x /\ subs' \in [SubNos -> SubRecord]
  BY <1>1, <1>2, RowsAfter
<1>5. y \in WorkerRecord /\ y.pc = x.status /\ y.sub = s /\ y.attempt = x.attempt
  <2>1. x.attempt \in 0..MaxAttempts
    BY DEF SubRecord
  <2> QED
    BY <1>2, <2>1, Sizes DEF WorkerRecord, SubNos
<1>6. worker' = [worker EXCEPT ![w] = y]
  BY <1>2
<1> HIDE DEF y
<1>7. /\ worker'[w] = y /\ \A d \in Workers \ {w} : worker'[d] = worker[d]
      /\ worker' \in [Workers -> WorkerRecord]
  BY <1>1, <1>5, <1>6, WorkerAfter
<1>8. Typed'
  BY <1>1, <1>4, <1>7 DEF Typed, formal
<1>9. AtItsRow(w)'
  BY <1>2, <1>4, <1>5, <1>7 DEF AtItsRow, Holds
<1>10. ASSUME NEW d \in Workers \ {w} PROVE AtItsRow(d)'
  BY <1>2, <1>7, <1>10, NobodyElseAt, OthersAtTheirRows
<1> QED
  BY <1>3, <1>8, <1>9, <1>10 DEF RowInv, HoldsItsRow

LEMMA RowPublishFailure ==
  ASSUME RowInv, NEW w \in Workers, NEW c \in 0..MaxCandidates, NEW retryable \in BOOLEAN,
         RecordPublishFailure(w, c, retryable)
  PROVE  RowInv'
<1>1. worker' = [worker EXCEPT ![w] = Idle] /\ UNCHANGED <<formal, disk, faults>>
  BY DEF RecordPublishFailure
<1>2. PICK x \in SubRecord :
           /\ worker[w].sub \in SubNos /\ BecomesRow(worker[w].sub, x) /\ Keeps(worker[w].sub, x)
           /\ subs[worker[w].sub].status = "publishing" /\ subs[worker[w].sub].owner = w
           /\ x.status \in {"pending", "failed"}
           /\ x.status = "pending" => x.attempt < MaxAttempts
  BY PublishFailureEffect
<1> QED
  BY <1>1, <1>2, WorkerReports

LEMMA RowPublished ==
  ASSUME RowInv, NEW w \in Workers, MarkPublished(w) PROVE RowInv'
<1>1. worker' = [worker EXCEPT ![w] = Idle] /\ UNCHANGED <<formal, disk, faults>>
  BY DEF MarkPublished
<1>2. PICK x \in SubRecord :
           /\ worker[w].sub \in SubNos /\ BecomesRow(worker[w].sub, x) /\ Keeps(worker[w].sub, x)
           /\ subs[worker[w].sub].status = "publishing" /\ subs[worker[w].sub].owner = w
           /\ x.status = "published"
  BY PublishedEffect
<1> QED
  BY <1>1, <1>2, WorkerReports

\* A worker that leaves its row as it is.
LEMMA WorkerLeaves ==
  ASSUME RowInv, NEW w \in Workers, worker' = [worker EXCEPT ![w] = Idle],
         UNCHANGED <<formal, subs, disk>>, faults' \in 0..MaxFaults
  PROVE  RowInv'
<1>1. Typed /\ HoldsItsRow /\ PendingCanBeTried /\ OneUnresolved /\ RowsHaveTargets
  BY DEF RowInv
<1>3. /\ worker'[w] = Idle /\ \A d \in Workers \ {w} : worker'[d] = worker[d]
      /\ worker' \in [Workers -> WorkerRecord]
  BY <1>1, IdleTyped, WorkerAfter
<1>4. Typed'
  BY <1>1, <1>3 DEF Typed, formal
<1>5. PendingCanBeTried' /\ OneUnresolved' /\ RowsHaveTargets'
  BY <1>1 DEF PendingCanBeTried, OneUnresolved, RowsHaveTargets, Unresolved
<1>6. HoldsItsRow'
  BY <1>1, <1>3, IdleTyped DEF HoldsItsRow, AtItsRow, Holds
<1> QED
  BY <1>4, <1>5, <1>6 DEF RowInv

LEMMA RowCommitFailure ==
  ASSUME RowInv, NEW w \in Workers, NEW retryable \in BOOLEAN, RecordCommitFailure(w, retryable)
  PROVE  RowInv'
<1>1. worker' = [worker EXCEPT ![w] = Idle] /\ UNCHANGED <<formal, disk, faults>>
  BY DEF RecordCommitFailure
<1>2. CASE subs' = subs
  <2>1. faults \in 0..MaxFaults
    BY DEF RowInv, Typed
  <2> QED
    BY <1>1, <1>2, <2>1, WorkerLeaves
<1>3. CASE \E x \in SubRecord :
           /\ worker[w].sub \in SubNos /\ BecomesRow(worker[w].sub, x) /\ Keeps(worker[w].sub, x)
           /\ subs[worker[w].sub].status = "committing" /\ subs[worker[w].sub].owner = w
           /\ x.status \in {"published", "failed"}
  BY <1>1, <1>3, WorkerReports
<1> QED
  BY <1>2, <1>3, CommitFailureEffect

LEMMA RowCrash == ASSUME RowInv, NEW w \in Workers, Crash(w) PROVE RowInv'
<1>1. faults' \in 0..MaxFaults
  <2>1. faults \in 0..MaxFaults
    BY DEF RowInv, Typed
  <2> QED
    BY <2>1, Sizes DEF Crash
<1> QED
  BY <1>1, WorkerLeaves DEF Crash

\* A worker goes on at its row, whose status and attempt stay.
LEMMA WorkerGoesOn ==
  ASSUME RowInv, NEW w \in Workers, NEW s \in SubNos, NEW y \in WorkerRecord,
         worker' = [worker EXCEPT ![w] = y], worker[w].sub = s, y.sub = s,
         y.attempt = worker[w].attempt,
         \/ worker[w].pc \in {"publishing", "written"} /\ y.pc \in {"publishing", "written"}
         \/ worker[w].pc = "committing" /\ y.pc = "commit_error",
         UNCHANGED formal, UNCHANGED faults,
         disk' \in [VersionIds -> [Candidates -> 0..MaxSubs]],
         \/ subs' = subs
         \/ \E x \in SubRecord : /\ BecomesRow(s, x) /\ Keeps(s, x)
                                 /\ subs[s].status = "publishing" /\ subs[s].owner = w
                                 /\ x.status = subs[s].status /\ x.owner = w
                                 /\ x.attempt = subs[s].attempt
  PROVE  RowInv'
<1>1. Typed /\ HoldsItsRow /\ PendingCanBeTried /\ OneUnresolved /\ RowsHaveTargets
  BY DEF RowInv
<1>2. /\ worker'[w] = y /\ \A d \in Workers \ {w} : worker'[d] = worker[d]
      /\ worker' \in [Workers -> WorkerRecord]
  BY <1>1, WorkerAfter
<1>3. CASE subs' = subs
  <2>1. Typed'
    BY <1>1, <1>2, <1>3 DEF Typed, formal
  <2>2. PendingCanBeTried' /\ OneUnresolved' /\ RowsHaveTargets'
    BY <1>1, <1>3 DEF PendingCanBeTried, OneUnresolved, RowsHaveTargets, Unresolved
  <2>3. AtItsRow(w)'
    BY <1>1, <1>2, <1>3 DEF HoldsItsRow, AtItsRow, Holds
  <2>4. ASSUME NEW d \in Workers \ {w} PROVE AtItsRow(d)'
    BY <1>1, <1>2, <1>3, <2>4 DEF HoldsItsRow, AtItsRow, Holds, Idle
  <2> QED
    BY <2>1, <2>2, <2>3, <2>4 DEF RowInv, HoldsItsRow
<1>4. ASSUME NEW x \in SubRecord, BecomesRow(s, x), Keeps(s, x),
             subs[s].status = "publishing", subs[s].owner = w,
             x.status = subs[s].status, x.owner = w, x.attempt = subs[s].attempt
      PROVE  RowInv'
  <2>1. subs'[s] = x /\ subs' \in [SubNos -> SubRecord]
    BY <1>1, <1>4, RowsAfter
  <2>2. Typed'
    BY <1>1, <1>2, <2>1 DEF Typed, formal
  <2>3. PendingCanBeTried' /\ OneUnresolved' /\ RowsHaveTargets'
    BY <1>4, RowGoesOn DEF Unresolved, UnresolvedStatuses
  <2>4. AtItsRow(w)
    BY <1>1 DEF HoldsItsRow
  <2>5. AtItsRow(w)'
    BY <1>2, <1>4, <2>1, <2>4 DEF AtItsRow, Holds
  <2>6. ASSUME NEW d \in Workers \ {w} PROVE AtItsRow(d)'
    BY <1>2, <1>4, <2>6, NobodyElseAt, OthersAtTheirRows
  <2> QED
    BY <2>2, <2>3, <2>5, <2>6 DEF RowInv, HoldsItsRow
<1> QED
  BY <1>3, <1>4

-----------------------------------------------------------------------------
(* The versions: what a formal creation and a review do to them.           *)

LEMMA VersionTyped ==
  ASSUME Typed, NEW v \in VersionIds
  PROVE  /\ versions[v] \in VersionRecord
         /\ versions[v].status \in {"none", "pending_review", "rejected", "final"}
         /\ versions[v].cycle \in 0..MaxCycles /\ versions[v].candidates \subseteq Candidates
         /\ versions[v].selected \in 0..MaxCandidates /\ versions[v].lock \in Nat
  BY DEF Typed, VersionRecord

\* The row of version v is replaced.
BecomesVersion(v, y) == versions' = [versions EXCEPT ![v] = y]

LEMMA VersionsAfter ==
  ASSUME Typed, NEW v \in VersionIds, NEW y \in VersionRecord, BecomesVersion(v, y)
  PROVE  /\ versions'[v] = y /\ \A u \in VersionIds \ {v} : versions'[u] = versions[u]
         /\ versions' \in [VersionIds -> VersionRecord]
  BY DEF Typed, BecomesVersion

LEMMA FormalCreation ==
  ASSUME Typed, NEW v \in VersionIds, NEW mode \in {"new_round", "append"},
         NEW D \in SUBSET Candidates, versions' = Ledger!WithCandidates(mode, v, D)
  PROVE  \E y \in VersionRecord :
           /\ BecomesVersion(v, y)
           /\ mode = "append" =>
                /\ y.status = versions[v].status /\ y.cycle = versions[v].cycle
                /\ y.candidates = versions[v].candidates \cup D
                /\ y.lock = versions[v].lock + 1
           /\ mode # "append" =>
                y.status = "pending_review" /\ y.cycle = 1 /\ y.candidates = D /\ y.lock = 0
<1>1. CASE mode = "append"
  <2> DEFINE y == [versions[v] EXCEPT !.candidates = versions[v].candidates \cup D,
                                      !.lock = versions[v].lock + 1]
  <2>1. versions' = [versions EXCEPT ![v] = y]
    BY <1>1 DEF Ledger!WithCandidates, Ledger!Appended, Typed
  <2>2. versions[v].lock + 1 \in Nat /\ versions[v].candidates \cup D \in SUBSET Candidates
    BY VersionTyped
  <2>3. /\ y \in VersionRecord /\ y.status = versions[v].status /\ y.cycle = versions[v].cycle
        /\ y.candidates = versions[v].candidates \cup D /\ y.lock = versions[v].lock + 1
    BY <2>2, VersionTyped DEF VersionRecord
  <2> HIDE DEF y
  <2> QED
    BY <1>1, <2>1, <2>3 DEF BecomesVersion
<1>2. CASE mode # "append"
  <2> DEFINE y == Ledger!NewVersion(D)
  <2>1. versions' = [versions EXCEPT ![v] = y]
    BY <1>2 DEF Ledger!WithCandidates
  <2>2. /\ y \in VersionRecord /\ y.status = "pending_review" /\ y.cycle = 1
        /\ y.candidates = D /\ y.lock = 0
    <3>1. (IF Cardinality(D) = 1 THEN 1 ELSE 0) \in 0..MaxCandidates
      BY Sizes
    <3> HIDE DEF VersionRecord
    <3> QED
      BY <3>1, Sizes DEF VersionRecord, Ledger!NewVersion
  <2> HIDE DEF y
  <2> QED
    BY <1>2, <2>1, <2>2 DEF BecomesVersion
<1> QED
  BY <1>1, <1>2

LEMMA NothingUnresolved ==
  ASSUME RowInv
  PROVE  /\ Open = Ledger!NothingOpen <=> \A s \in SubNos : ~Unresolved(s)
         /\ \A s \in SubNos : Unresolved(s) =>
              Open = [mode |-> subs[s].mode, version |-> subs[s].version,
                      candidates |-> DOMAIN subs[s].files]
<1>1. ASSUME NEW s \in SubNos, Unresolved(s)
      PROVE  /\ Open = [mode |-> subs[s].mode, version |-> subs[s].version,
                        candidates |-> DOMAIN subs[s].files]
             /\ subs[s].mode # "none"
  <2>1. (CHOOSE x \in SubNos : Unresolved(x)) = s
    BY <1>1 DEF RowInv, OneUnresolved
  <2>2. subs[s].mode # "none"
    BY <1>1 DEF RowInv, RowsHaveTargets, Unresolved, UnresolvedStatuses
  <2> QED
    BY <1>1, <2>1, <2>2 DEF Open
<1>2. (\A s \in SubNos : ~Unresolved(s)) => Open = Ledger!NothingOpen
  BY DEF Open, Ledger!NothingOpen
<1> QED
  BY <1>1, <1>2 DEF Ledger!NothingOpen

\* A conclusion, or a reopening: nothing is unresolved, and only the status,
\* the cycle and the selection of the version on the page change.
Concludes(v, y) ==
  /\ v \in VersionIds /\ y \in VersionRecord /\ BecomesVersion(v, y)
  /\ y.candidates = versions[v].candidates /\ y.lock = versions[v].lock + 1
  /\ Ledger!Exists(v) /\ y.status # "none"
  /\ task' \in {"pending_review", "revision", "completed"}
  /\ Open = Ledger!NothingOpen /\ seen' = seen
  /\ seen.version = v /\ seen.lock = versions[v].lock /\ seen.candidates # {}

LEMMA ApproveEffect ==
  ASSUME Typed, NEW v \in VersionIds, NEW c \in Candidates, Ledger!Approve(v, c)
  PROVE  \E y \in VersionRecord : Concludes(v, y)
<1> DEFINE y == [versions[v] EXCEPT !.status = "final", !.selected = c,
                                    !.lock = versions[v].lock + 1]
<1>1. versions' = [versions EXCEPT ![v] = y]
  BY DEF Ledger!Approve, Typed
<1>2. versions[v].lock + 1 \in Nat /\ c \in 0..MaxCandidates
  BY VersionTyped, Sizes DEF Candidates
<1>3. /\ y \in VersionRecord /\ y.candidates = versions[v].candidates
      /\ y.lock = versions[v].lock + 1 /\ y.status = "final"
  BY <1>2, VersionTyped DEF VersionRecord
<1> HIDE DEF y
<1>4. Concludes(v, y)
  BY <1>1, <1>3 DEF Concludes, BecomesVersion, Ledger!Approve, Ledger!Reviewable,
                    Ledger!Current, Ledger!Exists
<1> QED
  BY <1>3, <1>4

LEMMA RejectEffect ==
  ASSUME Typed, NEW v \in VersionIds, Ledger!Reject(v)
  PROVE  \E y \in VersionRecord : Concludes(v, y)
<1> DEFINE y == [versions[v] EXCEPT !.status = "rejected", !.lock = versions[v].lock + 1]
<1>1. versions' = [versions EXCEPT ![v] = y]
  BY DEF Ledger!Reject, Typed
<1>2. versions[v].lock + 1 \in Nat
  BY VersionTyped
<1>3. /\ y \in VersionRecord /\ y.candidates = versions[v].candidates
      /\ y.lock = versions[v].lock + 1 /\ y.status = "rejected"
  BY <1>2, VersionTyped DEF VersionRecord
<1> HIDE DEF y
<1>4. Concludes(v, y)
  BY <1>1, <1>3 DEF Concludes, BecomesVersion, Ledger!Reject, Ledger!Reviewable,
                    Ledger!Current, Ledger!Exists
<1> QED
  BY <1>3, <1>4

LEMMA ReopenEffect ==
  ASSUME Typed, NEW v \in VersionIds, Ledger!Reopen(v)
  PROVE  \E y \in VersionRecord : Concludes(v, y) /\ versions[v].status = "final"
<1> DEFINE y == [versions[v] EXCEPT !.status = "pending_review",
                   !.cycle = versions[v].cycle + 1, !.lock = versions[v].lock + 1]
<1>1. versions' = [versions EXCEPT ![v] = y]
  BY DEF Ledger!Reopen, Typed
<1>2. versions[v].lock + 1 \in Nat /\ versions[v].cycle + 1 \in 0..MaxCycles
  BY VersionTyped, Sizes DEF Ledger!Reopen
<1>3. /\ y \in VersionRecord /\ y.candidates = versions[v].candidates
      /\ y.lock = versions[v].lock + 1 /\ y.status = "pending_review"
  BY <1>2, VersionTyped DEF VersionRecord
<1> HIDE DEF y
<1>4. Concludes(v, y) /\ versions[v].status = "final"
  BY <1>1, <1>3 DEF Concludes, BecomesVersion, Ledger!Reopen, Ledger!Current, Ledger!Exists
<1> QED
  BY <1>3, <1>4

\* The page is loaded in two statements.
PageMoves(x) ==
  /\ seen' = x /\ UNCHANGED <<task, versions>>
  /\ \/ /\ x.version \in VersionIds /\ Ledger!Exists(x.version)
        /\ x.lock = versions[x.version].lock /\ x.candidates = {}
     \/ /\ x.version = seen.version /\ x.version \in VersionIds /\ x.lock = seen.lock
        /\ x.candidates = versions[x.version].candidates

LEMMA PageEffect ==
  ASSUME Typed, Ledger!LoadCandidates \/ \E v \in VersionIds : Ledger!OpenPage(v)
  PROVE  \E x \in SeenRecord : PageMoves(x)
<1>1. CASE Ledger!LoadCandidates
  <2> DEFINE x == [seen EXCEPT !.candidates = versions[seen.version].candidates]
  <2>1. seen \in SeenRecord /\ seen.version # 0
    BY <1>1 DEF Ledger!LoadCandidates, Typed
  <2>2. seen.version \in VersionIds
    BY <2>1, Sizes DEF SeenRecord, VersionIds
  <2>3. /\ x \in SeenRecord /\ x.version = seen.version /\ x.lock = seen.lock
        /\ x.candidates = versions[seen.version].candidates
    BY <2>1, <2>2, VersionTyped DEF SeenRecord
  <2>4. seen' = x /\ UNCHANGED <<task, versions>>
    BY <1>1 DEF Ledger!LoadCandidates
  <2> HIDE DEF x
  <2> QED
    BY <2>2, <2>3, <2>4 DEF PageMoves
<1>2. ASSUME NEW v \in VersionIds, Ledger!OpenPage(v)
      PROVE  \E x \in SeenRecord : PageMoves(x)
  <2> DEFINE x == [version |-> v, lock |-> versions[v].lock, candidates |-> {}]
  <2>1. x \in SeenRecord /\ x.version = v /\ x.lock = versions[v].lock /\ x.candidates = {}
    BY VersionTyped, Sizes DEF SeenRecord, VersionIds
  <2>2. seen' = x /\ UNCHANGED <<task, versions>> /\ Ledger!Exists(v)
    BY <1>2 DEF Ledger!OpenPage
  <2> HIDE DEF x
  <2> QED
    BY <2>1, <2>2 DEF PageMoves
<1> QED
  BY <1>1, <1>2

\* What a review step is.
LEMMA ReviewEffect ==
  ASSUME RowInv, Review
  PROVE  /\ UNCHANGED <<subs, worker, disk, faults>>
         /\ \/ \E x \in SeenRecord : PageMoves(x)
            \/ \E v \in VersionIds, y \in VersionRecord : Concludes(v, y)
<1>1. Typed
  BY DEF RowInv
<1> QED
  BY <1>1, PageEffect, ApproveEffect, RejectEffect, ReopenEffect
  DEF Review, VersionIds, Candidates

-----------------------------------------------------------------------------
\* A worker at its row in another phase.
LEMMA WorkerWrites ==
  ASSUME Typed, NEW w \in Workers, NEW c \in 0..MaxCandidates,
         worker' = [worker EXCEPT ![w].pc = "written", ![w].file = c]
  PROVE  \E y \in WorkerRecord :
           /\ worker' = [worker EXCEPT ![w] = y]
           /\ y.pc = "written" /\ y.sub = worker[w].sub /\ y.attempt = worker[w].attempt /\ y.file = c
<1> DEFINE y == [worker[w] EXCEPT !.pc = "written", !.file = c]
<1>1. worker \in [Workers -> WorkerRecord] /\ worker[w] \in WorkerRecord
  BY DEF Typed
<1>2. worker' = [worker EXCEPT ![w] = y]
  BY <1>1
<1>3. /\ y \in WorkerRecord /\ y.pc = "written" /\ y.sub = worker[w].sub
      /\ y.attempt = worker[w].attempt /\ y.file = c
  BY <1>1 DEF WorkerRecord
<1> HIDE DEF y
<1> QED
  BY <1>2, <1>3

LEMMA WorkerReturns ==
  ASSUME Typed, NEW w \in Workers,
         worker' = [worker EXCEPT ![w].pc = "publishing", ![w].file = 0]
  PROVE  \E y \in WorkerRecord :
           /\ worker' = [worker EXCEPT ![w] = y]
           /\ y.pc = "publishing" /\ y.sub = worker[w].sub /\ y.attempt = worker[w].attempt /\ y.file = 0
<1> DEFINE y == [worker[w] EXCEPT !.pc = "publishing", !.file = 0]
<1>0. 0 \in 0..MaxCandidates
  BY Sizes
<1>1. worker \in [Workers -> WorkerRecord] /\ worker[w] \in WorkerRecord
  BY DEF Typed
<1>2. worker' = [worker EXCEPT ![w] = y]
  BY <1>1
<1>3. /\ y \in WorkerRecord /\ y.pc = "publishing" /\ y.sub = worker[w].sub
      /\ y.attempt = worker[w].attempt /\ y.file = 0
  BY <1>0, <1>1 DEF WorkerRecord
<1> HIDE DEF y
<1> QED
  BY <1>2, <1>3

LEMMA WorkerRaises ==
  ASSUME Typed, NEW w \in Workers,
         worker' = [worker EXCEPT ![w].pc = "commit_error"]
  PROVE  \E y \in WorkerRecord :
           /\ worker' = [worker EXCEPT ![w] = y]
           /\ y.pc = "commit_error" /\ y.sub = worker[w].sub /\ y.attempt = worker[w].attempt
<1> DEFINE y == [worker[w] EXCEPT !.pc = "commit_error"]
<1>1. worker \in [Workers -> WorkerRecord] /\ worker[w] \in WorkerRecord
  BY DEF Typed
<1>2. worker' = [worker EXCEPT ![w] = y]
  BY <1>1
<1>3. /\ y \in WorkerRecord /\ y.pc = "commit_error" /\ y.sub = worker[w].sub
      /\ y.attempt = worker[w].attempt
  BY <1>1 DEF WorkerRecord
<1> HIDE DEF y
<1> QED
  BY <1>2, <1>3

LEMMA WriteEffect ==
  ASSUME RowInv, NEW w \in Workers, NEW c \in Candidates, WriteFile(w, c)
  PROVE  LET s == worker[w].sub IN
         /\ s \in SubNos /\ subs[s].version \in VersionIds /\ worker[w].pc = "publishing"
         /\ c \in DOMAIN subs[s].files
         /\ disk[subs[s].version][c] \in {0, s}
         /\ disk' \in [VersionIds -> [Candidates -> 0..MaxSubs]]
         /\ \A v \in VersionIds, d \in Candidates :
              disk'[v][d] = IF v = subs[s].version /\ d = c THEN s ELSE disk[v][d]
         /\ \E y \in WorkerRecord :
              /\ worker' = [worker EXCEPT ![w] = y]
              /\ y.pc = "written" /\ y.sub = s /\ y.attempt = worker[w].attempt /\ y.file = c
<1> DEFINE s == worker[w].sub
           v == subs[s].version
<1>1. Typed /\ worker[w].pc = "publishing" /\ s \in SubNos /\ Holds(w, "publishing")
  BY HeldRow DEF RowInv, WriteFile
<1>2. v \in VersionIds
  <2>1. subs[s].version # 0
    BY <1>1 DEF RowInv, RowsHaveTargets, Holds
  <2> QED
    BY <1>1, <2>1, RowTyped, Sizes DEF VersionIds
<1>3. disk \in [VersionIds -> [Candidates -> 0..MaxSubs]]
  BY <1>1 DEF Typed
<1>4. disk' = [disk EXCEPT ![v][c] = s] /\ s \in 0..MaxSubs
  BY <1>1, Sizes DEF WriteFile, SubNos
<1> HIDE DEF v, s
<1>5. disk' \in [VersionIds -> [Candidates -> 0..MaxSubs]]
  BY <1>2, <1>3, <1>4
<1>6. \A u \in VersionIds, d \in Candidates :
        disk'[u][d] = IF u = v /\ d = c THEN s ELSE disk[u][d]
  BY <1>2, <1>3, <1>4
<1>7. worker' = [worker EXCEPT ![w].pc = "written", ![w].file = c]
  BY DEF WriteFile
<1>8. c \in 0..MaxCandidates
  BY Sizes DEF Candidates
<1>9. \E y \in WorkerRecord :
              /\ worker' = [worker EXCEPT ![w] = y]
              /\ y.pc = "written" /\ y.sub = worker[w].sub /\ y.attempt = worker[w].attempt
              /\ y.file = c
  BY <1>1, <1>7, <1>8, WorkerWrites
<1>10. c \in DOMAIN subs[s].files /\ disk[v][c] \in {0, s}
  BY DEF WriteFile, s, v
<1> QED
  BY <1>1, <1>2, <1>5, <1>6, <1>9, <1>10 DEF s, v

LEMMA RowWrite ==
  ASSUME RowInv, NEW w \in Workers, NEW c \in Candidates, WriteFile(w, c) PROVE RowInv'
<1>1. /\ UNCHANGED <<formal, subs, faults>>
      /\ disk' \in [VersionIds -> [Candidates -> 0..MaxSubs]]
  BY WriteEffect DEF WriteFile
<1>2. PICK y \in WorkerRecord :
              /\ worker' = [worker EXCEPT ![w] = y] /\ worker[w].sub \in SubNos
              /\ worker[w].pc = "publishing" /\ y.pc = "written" /\ y.sub = worker[w].sub
              /\ y.attempt = worker[w].attempt
  BY WriteEffect
<1> QED
  BY <1>1, <1>2, WorkerGoesOn

LEMMA RowFilePublished ==
  ASSUME RowInv, FilesAreThere, NEW w \in Workers, MarkFilePublished(w) PROVE RowInv'
<1>1. /\ UNCHANGED <<formal, disk, faults>> /\ Typed /\ worker[w].pc = "written"
      /\ worker' = [worker EXCEPT ![w].pc = "publishing", ![w].file = 0]
  BY DEF MarkFilePublished, RowInv
<1>2. PICK x \in SubRecord :
           /\ worker[w].sub \in SubNos /\ BecomesRow(worker[w].sub, x) /\ Keeps(worker[w].sub, x)
           /\ subs[worker[w].sub].status = "publishing" /\ subs[worker[w].sub].owner = w
           /\ x.status = "publishing" /\ x.owner = w /\ x.attempt = subs[worker[w].sub].attempt
  BY FilePublishedEffect
<1>3. 0 \in 0..MaxCandidates
  BY Sizes
<1>4. PICK y \in WorkerRecord :
              /\ worker' = [worker EXCEPT ![w] = y]
              /\ y.pc = "publishing" /\ y.sub = worker[w].sub /\ y.attempt = worker[w].attempt
  BY <1>1, <1>3, WorkerReturns
<1>5. disk' \in [VersionIds -> [Candidates -> 0..MaxSubs]]
  BY <1>1 DEF Typed
<1>6. \E z \in SubRecord :
           /\ BecomesRow(worker[w].sub, z) /\ Keeps(worker[w].sub, z)
           /\ subs[worker[w].sub].status = "publishing" /\ subs[worker[w].sub].owner = w
           /\ z.status = subs[worker[w].sub].status /\ z.owner = w
           /\ z.attempt = subs[worker[w].sub].attempt
  BY <1>2
<1>7. /\ worker[w].sub \in SubNos
      /\ worker[w].pc \in {"publishing", "written"} /\ y.pc \in {"publishing", "written"}
  BY <1>1, <1>2, <1>4
<1>8. UNCHANGED formal /\ UNCHANGED faults
  BY <1>1
<1> QED
  BY <1>4, <1>5, <1>6, <1>7, <1>8, WorkerGoesOn

LEMMA RowCommitRaises == ASSUME RowInv, NEW w \in Workers, CommitRaises(w) PROVE RowInv'
<1>1. /\ UNCHANGED <<formal, subs, disk, faults>> /\ Typed /\ worker[w].pc = "committing"
      /\ worker' = [worker EXCEPT ![w].pc = "commit_error"]
  BY DEF CommitRaises, RowInv
<1>2. worker[w].file \in 0..MaxCandidates
  BY <1>1, WorkerTyped
<1>3. PICK y \in WorkerRecord :
              /\ worker' = [worker EXCEPT ![w] = y]
              /\ y.pc = "commit_error" /\ y.sub = worker[w].sub /\ y.attempt = worker[w].attempt
  BY <1>1, <1>2, WorkerRaises
<1>4. disk' \in [VersionIds -> [Candidates -> 0..MaxSubs]]
  BY <1>1 DEF Typed
<1>5. worker[w].sub \in SubNos
  BY <1>1, HeldRow
<1> QED
  BY <1>1, <1>3, <1>4, <1>5, WorkerGoesOn

LEMMA RowCommit ==
  ASSUME RowInv, NEW w \in Workers, NEW raised \in BOOLEAN, CommitPublished(w, raised)
  PROVE  RowInv'
<1> DEFINE s == worker[w].sub
<1>1. Typed /\ UNCHANGED <<seen, disk, faults>> /\ task' = "pending_review"
  BY DEF RowInv, CommitPublished
<1>2. PICK x \in SubRecord :
           /\ s \in SubNos /\ BecomesRow(s, x) /\ Keeps(s, x)
           /\ subs[s].status = "committing" /\ subs[s].owner = w /\ x.status = "committed"
  BY CommitEffect
<1>3. PICK y \in WorkerRecord : /\ worker' = [worker EXCEPT ![w] = y]
                                /\ y = Idle \/ (y.pc = "commit_error" /\ y.sub = s)
  BY CommitEffect
<1>4. PendingCanBeTried' /\ OneUnresolved' /\ RowsHaveTargets'
  BY <1>2, RowGoesOn DEF Unresolved, UnresolvedStatuses
<1>5. subs'[s] = x /\ subs' \in [SubNos -> SubRecord]
  BY <1>1, <1>2, RowsAfter
<1>6. /\ worker'[w] = y /\ \A d \in Workers \ {w} : worker'[d] = worker[d]
      /\ worker' \in [Workers -> WorkerRecord]
  BY <1>1, <1>3, WorkerAfter
<1>7. versions' \in [VersionIds -> VersionRecord]
  <2>1. subs[s].version \in VersionIds /\ subs[s].mode \in {"new_round", "append"}
    <3>1. subs[s].version # 0 /\ subs[s].mode # "none"
      BY <1>2 DEF RowInv, RowsHaveTargets
    <3> QED
      BY <1>1, <1>2, <3>1, RowTyped, Sizes DEF VersionIds
  <2>2. DOMAIN subs[s].files \in SUBSET Candidates
    BY <1>1, <1>2, RowTyped
  <2>3. versions' = Ledger!WithCandidates(subs[s].mode, subs[s].version, DOMAIN subs[s].files)
    BY DEF CommitPublished
  <2>4. PICK z \in VersionRecord : BecomesVersion(subs[s].version, z)
    BY <1>1, <2>1, <2>2, <2>3, FormalCreation
  <2> QED
    BY <1>1, <2>1, <2>4, VersionsAfter
<1>8. Typed'
  BY <1>1, <1>5, <1>6, <1>7 DEF Typed
<1>9. AtItsRow(w)'
  BY <1>2, <1>3, <1>5, <1>6, IdleTyped DEF AtItsRow
<1>10. ASSUME NEW d \in Workers \ {w} PROVE AtItsRow(d)'
  BY <1>2, <1>6, <1>10, NobodyElseAt, OthersAtTheirRows
<1> QED
  BY <1>4, <1>8, <1>9, <1>10 DEF RowInv, HoldsItsRow

LEMMA RowCreate ==
  ASSUME RowInv, NEW s \in SubNos, NEW mode \in {"new_round", "append"}, NEW v \in VersionIds,
         NEW n \in 1..MaxFiles, CreateSubmission(s, mode, v, n)
  PROVE  RowInv'
<1>1. Typed /\ UNCHANGED <<formal, worker, disk, faults>> /\ \A r \in SubNos : ~Unresolved(r)
  BY DEF RowInv, CreateSubmission
<1>2. PICK x \in SubRecord :
           /\ BecomesRow(s, x) /\ subs[s] = NoSub
           /\ x.mode = mode /\ x.version = v /\ x.status = "pending" /\ x.attempt = 0
  BY CreateEffect
<1>3. /\ subs'[s] = x /\ \A r \in SubNos \ {s} : subs'[r] = subs[r]
      /\ subs' \in [SubNos -> SubRecord]
  BY <1>1, <1>2, RowsAfter
<1>4. Typed'
  BY <1>1, <1>3 DEF Typed, formal
<1>5. PendingCanBeTried'
  BY <1>2, <1>3, Sizes DEF PendingCanBeTried, RowInv
<1>6. OneUnresolved'
  BY <1>1, <1>3 DEF OneUnresolved, Unresolved
<1>7. v # 0
  BY DEF VersionIds
<1>8. RowsHaveTargets'
  BY <1>2, <1>3, <1>7 DEF RowsHaveTargets, RowInv
<1>9. ASSUME NEW d \in Workers PROVE AtItsRow(d)'
  BY <1>1, <1>2, <1>9, NobodyElseAt, OthersAtTheirRows, NoSubTyped
<1> QED
  BY <1>4, <1>5, <1>6, <1>8, <1>9 DEF RowInv, HoldsItsRow

LEMMA RowReview == ASSUME RowInv, Review PROVE RowInv'
<1>1. /\ Typed /\ HoldsItsRow /\ PendingCanBeTried /\ OneUnresolved /\ RowsHaveTargets
      /\ UNCHANGED <<subs, worker, disk, faults>>
  BY ReviewEffect DEF RowInv
<1>2. Typed'
  <2>1. CASE \E x \in SeenRecord : PageMoves(x)
    BY <1>1, <2>1 DEF PageMoves, Typed
  <2>2. ASSUME NEW v \in VersionIds, NEW y \in VersionRecord, Concludes(v, y) PROVE Typed'
    <3>1. versions' \in [VersionIds -> VersionRecord]
      BY <1>1, <2>2, VersionsAfter DEF Concludes
    <3> QED
      BY <1>1, <2>2, <3>1 DEF Concludes, Typed
  <2> QED
    BY <2>1, <2>2, ReviewEffect
<1>3. PendingCanBeTried' /\ OneUnresolved' /\ RowsHaveTargets'
  BY <1>1 DEF PendingCanBeTried, OneUnresolved, RowsHaveTargets, Unresolved
<1>4. HoldsItsRow'
  BY <1>1 DEF HoldsItsRow, AtItsRow, Holds
<1> QED
  BY <1>1, <1>2, <1>3, <1>4 DEF RowInv

LEMMA RowStutter == ASSUME RowInv, UNCHANGED vars PROVE RowInv'
  BY DEF RowInv, vars, Typed, PendingCanBeTried, OneUnresolved, RowsHaveTargets, HoldsItsRow,
         AtItsRow, Holds, Unresolved

LEMMA RowStep == ASSUME RowInv, FilesAreThere, [Next]_vars PROVE RowInv'
  BY RowCreate, RowRetry, RowClaim, RowWrite, RowFilePublished, RowPublishFailure, RowPublished,
     RowCommit, RowCommitRaises, RowCommitFailure, RowCrash, RowReview, RowStutter
  DEF Next, WorkerStep, VersionIds, Candidates

-----------------------------------------------------------------------------
(* Only four kinds of steps matter outside the outbox.                     *)

\* A step of the outbox that nobody else sees.
Quiet ==
  /\ UNCHANGED formal
  /\ \/ subs' = subs
     \/ \E s \in SubNos, x \in SubRecord :
          BecomesRow(s, x) /\ Keeps(s, x) /\ Unresolved(s) /\ x.status \in UnresolvedStatuses

LEMMA StepKinds ==
  ASSUME RowInv, FilesAreThere, [Next]_vars
  PROVE  \/ Quiet
         \/ \E s \in SubNos, mode \in {"new_round", "append"}, v \in VersionIds,
               n \in 1..MaxFiles : CreateSubmission(s, mode, v, n)
         \/ \E w \in Workers, raised \in BOOLEAN : CommitPublished(w, raised)
         \/ Review
<1>1. {"pending", "publishing", "published", "committing", "failed"} = UnresolvedStatuses
  BY DEF UnresolvedStatuses
<1>2. ASSUME NEW s \in SubNos, RetrySubmission(s) PROVE Quiet
  <2>1. PICK x \in SubRecord : BecomesRow(s, x) /\ Keeps(s, x) /\ x.status = "pending"
    BY <1>2, RetryEffect
  <2> QED
    BY <1>1, <1>2, <2>1 DEF Quiet, RetrySubmission, Unresolved
<1>3. ASSUME NEW s \in SubNos, NEW w \in Workers, ClaimNext(w, s) PROVE Quiet
  <2>1. PICK x \in SubRecord : /\ BecomesRow(s, x) /\ Keeps(s, x)
                               /\ subs[s].status \in {"pending", "published"}
                               /\ x.status \in {"publishing", "committing"}
    BY <1>3, ClaimEffect
  <2> QED
    BY <1>1, <1>3, <2>1 DEF Quiet, ClaimNext, Unresolved
<1>4. ASSUME NEW w \in Workers, WorkerStep(w) \/ Crash(w),
             ~\E raised \in BOOLEAN : CommitPublished(w, raised)
      PROVE  Quiet
  <2> DEFINE s == worker[w].sub
  <2>1. CASE subs' = subs /\ UNCHANGED formal
    BY <2>1 DEF Quiet
  <2>2. ASSUME UNCHANGED formal,
               \E x \in SubRecord : /\ s \in SubNos /\ BecomesRow(s, x) /\ Keeps(s, x)
                                    /\ subs[s].status \in {"publishing", "committing"}
                                    /\ x.status \in UnresolvedStatuses
        PROVE  Quiet
    BY <1>1, <2>2 DEF Quiet, Unresolved
  <2>3. ASSUME NEW c \in Candidates, WriteFile(w, c) PROVE Quiet
    BY <2>1, <2>3 DEF WriteFile
  <2>4. CASE MarkFilePublished(w)
    <3>1. PICK x \in SubRecord : /\ s \in SubNos /\ BecomesRow(s, x) /\ Keeps(s, x)
                                 /\ subs[s].status = "publishing" /\ x.status = "publishing"
      BY <2>4, FilePublishedEffect
    <3>2. UNCHANGED formal
      BY <2>4 DEF MarkFilePublished
    <3> QED
      BY <1>1, <2>2, <3>1, <3>2
  <2>5. ASSUME NEW c \in 0..MaxCandidates, NEW retryable \in BOOLEAN,
               RecordPublishFailure(w, c, retryable)
        PROVE  Quiet
    <3>1. PICK x \in SubRecord : /\ s \in SubNos /\ BecomesRow(s, x) /\ Keeps(s, x)
                                 /\ subs[s].status = "publishing"
                                 /\ x.status \in {"pending", "failed"}
      BY <2>5, PublishFailureEffect
    <3>2. UNCHANGED formal
      BY <2>5 DEF RecordPublishFailure
    <3> QED
      BY <1>1, <2>2, <3>1, <3>2
  <2>6. CASE MarkPublished(w)
    <3>1. PICK x \in SubRecord : /\ s \in SubNos /\ BecomesRow(s, x) /\ Keeps(s, x)
                                 /\ subs[s].status = "publishing" /\ x.status = "published"
      BY <2>6, PublishedEffect
    <3>2. UNCHANGED formal
      BY <2>6 DEF MarkPublished
    <3> QED
      BY <1>1, <2>2, <3>1, <3>2
  <2>7. CASE CommitRaises(w)
    BY <2>1, <2>7 DEF CommitRaises
  <2>8. ASSUME NEW retryable \in BOOLEAN, RecordCommitFailure(w, retryable) PROVE Quiet
    <3>1. UNCHANGED formal
      BY <2>8 DEF RecordCommitFailure
    <3>2. CASE subs' = subs
      BY <2>1, <3>1, <3>2
    <3>3. ASSUME NEW x \in SubRecord, s \in SubNos, BecomesRow(s, x), Keeps(s, x),
                 subs[s].status = "committing", x.status \in {"published", "failed"}
          PROVE  Quiet
      BY <1>1, <2>2, <3>1, <3>3
    <3> QED
      BY <2>8, <3>2, <3>3, CommitFailureEffect
  <2>9. CASE Crash(w)
    BY <2>1, <2>9 DEF Crash
  <2> QED
    BY <1>4, <2>3, <2>4, <2>5, <2>6, <2>7, <2>8, <2>9 DEF WorkerStep, Candidates
<1>5. CASE UNCHANGED vars
  BY <1>5 DEF vars, formal, Quiet
<1> QED
  BY <1>2, <1>3, <1>4, <1>5 DEF Next, VersionIds

\* A quiet step keeps what the others see of the rows.
LEMMA QuietKeeps ==
  ASSUME RowInv, Quiet
  PROVE  /\ \A r \in SubNos :
              /\ Unresolved(r)' <=> Unresolved(r)
              /\ subs'[r].mode = subs[r].mode /\ subs'[r].version = subs[r].version
              /\ DOMAIN subs'[r].files = DOMAIN subs[r].files
              /\ subs'[r].status = "committed" <=> subs[r].status = "committed"
         /\ UNCHANGED <<task, versions, seen>>
<1>1. CASE subs' = subs
  BY <1>1 DEF Quiet, formal, Unresolved
<1>2. ASSUME NEW s \in SubNos, NEW x \in SubRecord,
             BecomesRow(s, x), Keeps(s, x), Unresolved(s), x.status \in UnresolvedStatuses
      PROVE  \A r \in SubNos :
              /\ Unresolved(r)' <=> Unresolved(r)
              /\ subs'[r].mode = subs[r].mode /\ subs'[r].version = subs[r].version
              /\ DOMAIN subs'[r].files = DOMAIN subs[r].files
              /\ subs'[r].status = "committed" <=> subs[r].status = "committed"
  <2>1. subs'[s] = x /\ \A r \in SubNos \ {s} : subs'[r] = subs[r]
    BY <1>2, RowsAfter DEF RowInv
  <2>2. "committed" \notin UnresolvedStatuses
    BY DEF UnresolvedStatuses
  <2>3. ASSUME NEW r \in SubNos
        PROVE  /\ Unresolved(r)' <=> Unresolved(r)
               /\ subs'[r].mode = subs[r].mode /\ subs'[r].version = subs[r].version
               /\ DOMAIN subs'[r].files = DOMAIN subs[r].files
               /\ subs'[r].status = "committed" <=> subs[r].status = "committed"
    <3>1. CASE r = s
      BY <1>2, <2>1, <2>2, <3>1 DEF Unresolved, Keeps
    <3>2. CASE r # s
      BY <2>1, <3>2 DEF Unresolved
    <3> QED
      BY <3>1, <3>2
  <2> QED
    BY <2>3
<1>3. UNCHANGED <<task, versions, seen>>
  BY DEF Quiet, formal
<1> QED
  BY <1>1, <1>2, <1>3 DEF Quiet

-----------------------------------------------------------------------------
(* The files.                                                              *)

LEMMA RowVersion ==
  ASSUME RowInv, NEW s \in SubNos, subs[s].status # "none"
  PROVE  subs[s].version \in VersionIds /\ subs[s].mode \in {"new_round", "append"}
<1>1. subs[s].version # 0 /\ subs[s].mode # "none" /\ Typed
  BY DEF RowInv, RowsHaveTargets
<1> QED
  BY <1>1, RowTyped, Sizes DEF VersionIds

LEMMA FilesKept ==
  ASSUME RowInv, FilesAreThere, NEW s \in SubNos, NEW x \in SubRecord,
         BecomesRow(s, x), Keeps(s, x), disk' = disk,
         \A c \in DOMAIN x.files : x.files[c] = "published" =>
           subs[s].files[c] = "published" \/ disk[x.version][c] = s,
         \A d \in Workers : worker'[d].pc = "written" => worker'[d] = worker[d]
  PROVE  FilesAreThere'
<1>1. subs'[s] = x /\ \A r \in SubNos \ {s} : subs'[r] = subs[r]
  BY RowsAfter DEF RowInv
<1>2. ASSUME NEW r \in SubNos, NEW c \in DOMAIN subs'[r].files, subs'[r].files[c] = "published"
      PROVE  disk'[subs'[r].version][c] = r
  BY <1>1, <1>2 DEF FilesAreThere, Keeps
<1>3. ASSUME NEW d \in Workers, worker'[d].pc = "written"
      PROVE  /\ worker'[d].file \in DOMAIN subs'[worker'[d].sub].files
             /\ disk'[subs'[worker'[d].sub].version][worker'[d].file] = worker'[d].sub
  <2>1. worker'[d] = worker[d] /\ worker[d].sub \in SubNos
    BY <1>3, HeldRow
  <2> QED
    BY <1>1, <1>3, <2>1 DEF FilesAreThere, Keeps
<1> QED
  BY <1>2, <1>3 DEF FilesAreThere

LEMMA FilesWritten ==
  ASSUME RowInv, FilesAreThere, NEW w \in Workers, NEW c \in Candidates, WriteFile(w, c)
  PROVE  FilesAreThere'
<1> DEFINE s == worker[w].sub
           v == subs[s].version
<1>0. Typed /\ subs' = subs
  BY DEF RowInv, WriteFile
<1>1. /\ s \in SubNos /\ v \in VersionIds /\ c \in DOMAIN subs[s].files
      /\ disk[v][c] \in {0, s}
      /\ \A u \in VersionIds, d \in Candidates :
           disk'[u][d] = IF u = v /\ d = c THEN s ELSE disk[u][d]
  BY WriteEffect
<1>2. PICK y \in WorkerRecord : /\ worker' = [worker EXCEPT ![w] = y]
                                /\ y.pc = "written" /\ y.sub = s /\ y.file = c
  BY WriteEffect
<1>3. worker'[w] = y /\ \A d \in Workers \ {w} : worker'[d] = worker[d]
  BY <1>0, <1>2, WorkerAfter
<1> HIDE DEF s, v
<1>4. ASSUME NEW r \in SubNos, NEW d \in DOMAIN subs[r].files,
             disk[subs[r].version][d] = r
      PROVE  disk'[subs[r].version][d] = r
  <2>1. r # 0 /\ d \in Candidates
    BY <1>0, RowTyped, FilesTyped DEF SubNos
  <2>2. subs[r].version \in VersionIds
    <3>1. subs[r].status # "none"
      <4>1. DOMAIN NoSub.files = {}
        BY DEF NoSub
      <4> QED
        BY <4>1 DEF RowInv, RowsHaveTargets
    <3> QED
      BY <3>1, RowVersion
  <2>3. CASE subs[r].version = v /\ d = c
    BY <1>1, <1>4, <2>1, <2>3
  <2>4. CASE ~(subs[r].version = v /\ d = c)
    BY <1>1, <1>4, <2>1, <2>2, <2>4
  <2> QED
    BY <2>3, <2>4
<1>5. ASSUME NEW r \in SubNos, NEW d \in DOMAIN subs[r].files, subs[r].files[d] = "published"
      PROVE  disk'[subs[r].version][d] = r
  BY <1>4, <1>5 DEF FilesAreThere
<1>6. ASSUME NEW d \in Workers, worker'[d].pc = "written"
      PROVE  /\ worker'[d].file \in DOMAIN subs[worker'[d].sub].files
             /\ disk'[subs[worker'[d].sub].version][worker'[d].file] = worker'[d].sub
  <2>1. CASE d = w
    BY <1>1, <1>2, <1>3, <2>1 DEF v, Candidates
  <2>2. CASE d # w
    <3>1. worker'[d] = worker[d]
      BY <1>3, <2>2
    <3>2. worker[d].pc = "written" /\ worker[d].sub \in SubNos
      BY <1>6, <3>1, HeldRow
    <3>3. /\ worker[d].file \in DOMAIN subs[worker[d].sub].files
          /\ disk[subs[worker[d].sub].version][worker[d].file] = worker[d].sub
      BY <3>2 DEF FilesAreThere
    <3> QED
      BY <1>4, <3>1, <3>2, <3>3
  <2> QED
    BY <2>1, <2>2
<1> QED
  BY <1>0, <1>5, <1>6 DEF FilesAreThere

\* A worker that goes to rest has written nothing.
LEMMA NotWritten ==
  ASSUME RowInv, NEW w \in Workers, NEW y \in WorkerRecord, worker' = [worker EXCEPT ![w] = y],
         y.pc # "written"
  PROVE  \A d \in Workers : worker'[d].pc = "written" => worker'[d] = worker[d]
  BY WorkerAfter DEF RowInv

LEMMA FilesStay ==
  ASSUME RowInv, FilesAreThere, subs' = subs, disk' = disk,
         \A d \in Workers : worker'[d].pc = "written" => worker'[d] = worker[d]
  PROVE  FilesAreThere'
  BY DEF FilesAreThere

LEMMA FilesStep == ASSUME RowInv, FilesAreThere, [Next]_vars PROVE FilesAreThere'
<1>0. Typed
  BY DEF RowInv
<1>1. ASSUME NEW s \in SubNos, NEW mode \in {"new_round", "append"}, NEW v \in VersionIds,
             NEW n \in 1..MaxFiles, CreateSubmission(s, mode, v, n)
      PROVE  FilesAreThere'
  <2>1. PICK x \in SubRecord : /\ BecomesRow(s, x) /\ subs[s] = NoSub
                               /\ \A c \in DOMAIN x.files : x.files[c] = "pending"
    BY <1>1, CreateEffect
  <2>2. subs'[s] = x /\ \A r \in SubNos \ {s} : subs'[r] = subs[r]
    BY <1>0, <2>1, RowsAfter
  <2>3. worker' = worker /\ disk' = disk
    BY <1>1 DEF CreateSubmission
  <2>4. ASSUME NEW d \in Workers, worker[d].pc = "written" PROVE worker[d].sub # s
    BY <2>1, <2>4, NobodyElseAt, NoSubTyped
  <2>5. ASSUME NEW d \in Workers, worker[d].pc = "written" PROVE worker[d].sub \in SubNos
    BY <2>5, HeldRow
  <2> QED
    BY <2>1, <2>2, <2>3, <2>4, <2>5 DEF FilesAreThere
<1>2. ASSUME NEW s \in SubNos, RetrySubmission(s) PROVE FilesAreThere'
  <2>1. PICK x \in SubRecord : /\ BecomesRow(s, x) /\ Keeps(s, x)
                               /\ \A c \in DOMAIN x.files :
                                    x.files[c] = "published" <=> subs[s].files[c] = "published"
    BY <1>2, RetryEffect
  <2> QED
    BY <1>2, <2>1, FilesKept DEF RetrySubmission
<1>3. ASSUME NEW s \in SubNos, NEW w \in Workers, ClaimNext(w, s) PROVE FilesAreThere'
  <2>1. PICK x \in SubRecord : /\ BecomesRow(s, x) /\ Keeps(s, x)
                               /\ \A c \in DOMAIN x.files :
                                    x.files[c] = "published" <=> subs[s].files[c] = "published"
                               /\ x.status \in {"publishing", "committing"}
                               /\ worker' = [worker EXCEPT ![w] =
                                    [pc |-> x.status, sub |-> s, attempt |-> x.attempt, file |-> 0]]
    BY <1>3, ClaimEffect
  <2> DEFINE y == [pc |-> x.status, sub |-> s, attempt |-> x.attempt, file |-> 0]
  <2>2. worker' = [worker EXCEPT ![w] = y] /\ y.pc # "written"
    BY <2>1
  <2>3. worker \in [Workers -> WorkerRecord]
    BY <1>0 DEF Typed
  <2> HIDE DEF y
  <2>4. \A d \in Workers : worker'[d].pc = "written" => worker'[d] = worker[d]
    BY <2>2, <2>3
  <2> QED
    BY <1>3, <2>1, <2>4, FilesKept DEF ClaimNext
<1>4. ASSUME NEW w \in Workers, NEW c \in 0..MaxCandidates, NEW retryable \in BOOLEAN,
             RecordPublishFailure(w, c, retryable)
      PROVE  FilesAreThere'
  <2>1. PICK x \in SubRecord :
           /\ worker[w].sub \in SubNos /\ BecomesRow(worker[w].sub, x) /\ Keeps(worker[w].sub, x)
           /\ \A d \in DOMAIN x.files :
                x.files[d] = "published" => subs[worker[w].sub].files[d] = "published"
    BY <1>4, PublishFailureEffect
  <2>2. worker' = [worker EXCEPT ![w] = Idle] /\ disk' = disk
    BY <1>4 DEF RecordPublishFailure
  <2>3. \A d \in Workers : worker'[d].pc = "written" => worker'[d] = worker[d]
    BY <2>2, NotWritten, IdleTyped
  <2> QED
    BY <2>1, <2>2, <2>3, FilesKept
<1>5. ASSUME NEW w \in Workers, worker' = [worker EXCEPT ![w] = Idle], disk' = disk,
             \/ subs' = subs
             \/ \E x \in SubRecord :
                  /\ worker[w].sub \in SubNos /\ BecomesRow(worker[w].sub, x)
                  /\ Keeps(worker[w].sub, x) /\ x.files = subs[worker[w].sub].files
      PROVE  FilesAreThere'
  <2>1. \A d \in Workers : worker'[d].pc = "written" => worker'[d] = worker[d]
    BY <1>5, NotWritten, IdleTyped
  <2> QED
    BY <1>5, <2>1, FilesKept, FilesStay
<1>6. ASSUME NEW w \in Workers, MarkPublished(w) PROVE FilesAreThere'
  BY <1>5, <1>6, PublishedEffect DEF MarkPublished
<1>7. ASSUME NEW w \in Workers, NEW retryable \in BOOLEAN, RecordCommitFailure(w, retryable)
      PROVE  FilesAreThere'
  <2>1. worker' = [worker EXCEPT ![w] = Idle] /\ disk' = disk
    BY <1>7 DEF RecordCommitFailure
  <2>2. \/ subs' = subs
        \/ \E x \in SubRecord :
             /\ worker[w].sub \in SubNos /\ BecomesRow(worker[w].sub, x)
             /\ Keeps(worker[w].sub, x) /\ x.files = subs[worker[w].sub].files
    BY <1>7, CommitFailureEffect
  <2> QED
    BY <1>5, <2>1, <2>2
<1>8. ASSUME NEW w \in Workers, Crash(w) PROVE FilesAreThere'
  BY <1>5, <1>8 DEF Crash
<1>9. ASSUME NEW w \in Workers, MarkFilePublished(w) PROVE FilesAreThere'
  <2>1. PICK x \in SubRecord :
           /\ worker[w].sub \in SubNos /\ BecomesRow(worker[w].sub, x) /\ Keeps(worker[w].sub, x)
           /\ \A c \in DOMAIN x.files :
                x.files[c] = "published" <=>
                  subs[worker[w].sub].files[c] = "published" \/ c = worker[w].file
           /\ disk[x.version][worker[w].file] = worker[w].sub
    BY <1>9, FilePublishedEffect
  <2>2. /\ worker' = [worker EXCEPT ![w].pc = "publishing", ![w].file = 0] /\ disk' = disk
    BY <1>9 DEF MarkFilePublished
  <2>3. PICK y \in WorkerRecord : worker' = [worker EXCEPT ![w] = y] /\ y.pc = "publishing"
    BY <1>0, <2>2, WorkerReturns
  <2>4. \A d \in Workers : worker'[d].pc = "written" => worker'[d] = worker[d]
    BY <2>3, NotWritten
  <2> QED
    BY <2>1, <2>2, <2>4, FilesKept
<1>10. ASSUME NEW w \in Workers, NEW raised \in BOOLEAN, CommitPublished(w, raised)
       PROVE  FilesAreThere'
  <2>1. PICK x \in SubRecord :
           /\ worker[w].sub \in SubNos /\ BecomesRow(worker[w].sub, x)
           /\ Keeps(worker[w].sub, x) /\ x.files = subs[worker[w].sub].files
    BY <1>10, CommitEffect
  <2>2. PICK y \in WorkerRecord : /\ worker' = [worker EXCEPT ![w] = y]
                                  /\ y = Idle \/ y.pc = "commit_error"
    BY <1>10, CommitEffect
  <2>3. \A d \in Workers : worker'[d].pc = "written" => worker'[d] = worker[d]
    BY <2>2, NotWritten, IdleTyped
  <2>4. disk' = disk
    BY <1>10 DEF CommitPublished
  <2> QED
    BY <2>1, <2>3, <2>4, FilesKept
<1>11. ASSUME NEW w \in Workers, CommitRaises(w) PROVE FilesAreThere'
  <2>1. worker' = [worker EXCEPT ![w].pc = "commit_error"] /\ subs' = subs /\ disk' = disk
    BY <1>11 DEF CommitRaises
  <2>2. PICK y \in WorkerRecord : worker' = [worker EXCEPT ![w] = y] /\ y.pc = "commit_error"
    BY <1>0, <2>1, WorkerRaises
  <2> QED
    BY <2>1, <2>2, NotWritten, FilesStay
<1>12. CASE Review
  BY <1>12, ReviewEffect, FilesStay
<1>13. CASE UNCHANGED vars
  BY <1>13, FilesStay DEF vars
<1> QED
  BY <1>1, <1>2, <1>3, <1>4, <1>6, <1>7, <1>8, <1>9, <1>10, <1>11, <1>12, <1>13, FilesWritten
  DEF Next, WorkerStep, VersionIds, Candidates

\* What is on the NAS stays there.
LEMMA NasStep ==
  ASSUME RowInv, [Next]_vars, NEW v \in VersionIds, NEW c \in Candidates, disk[v][c] # 0
  PROVE  disk'[v][c] = disk[v][c]
<1>1. CASE \E w \in Workers, d \in Candidates : WriteFile(w, d)
  BY <1>1, WriteEffect
<1>2. CASE ~\E w \in Workers, d \in Candidates : WriteFile(w, d)
  <2>1. disk' = disk
    BY <1>2, ReviewEffect
    DEF Next, WorkerStep, vars, CreateSubmission, RetrySubmission, ClaimNext, MarkFilePublished,
        RecordPublishFailure, MarkPublished, CommitPublished, CommitRaises, RecordCommitFailure,
        Crash, Candidates
  <2> QED
    BY <2>1
<1> QED
  BY <1>1, <1>2

-----------------------------------------------------------------------------
(* The versions follow the rows.                                           *)

\* The numbers of the rows have a greatest one.
LEMMA GreatestNumber ==
  ASSUME Typed
  PROVE  \E s \in SubNos : \A r \in SubNos : subs[r].version <= subs[s].version
<1> DEFINE T == {MaxVersions - subs[s].version : s \in SubNos}
<1>1. \A s \in SubNos : subs[s].version \in 0..MaxVersions
  BY RowTyped
<1>2. T \subseteq Nat /\ T # {}
  <2>1. 1 \in SubNos
    BY Sizes DEF SubNos
  <2> QED
    BY <1>1, <2>1, Sizes
<1>3. PICK m \in T : \A n \in T : ~(<<n, m>> \in OpToRel(<, Nat))
  BY <1>2, NatLessThanWellFounded, WFMin
<1>4. ASSUME NEW n \in T PROVE m <= n
  <2>1. m \in Nat /\ n \in Nat
    BY <1>2
  <2>2. n < m => <<n, m>> \in OpToRel(<, Nat)
    <3>1. <<n, m>>[1] = n /\ <<n, m>>[2] = m /\ <<n, m>> \in Nat \X Nat
      BY <2>1
    <3> QED
      BY <3>1, Zenon DEF OpToRel
  <2>3. ~(n < m)
    BY <1>3, <2>2
  <2> QED
    BY <2>1, <2>3
<1>5. PICK s \in SubNos : m = MaxVersions - subs[s].version
  OBVIOUS
<1>6. ASSUME NEW r \in SubNos PROVE subs[r].version <= subs[s].version
  <2>1. m <= MaxVersions - subs[r].version
    BY <1>4
  <2> QED
    BY <1>1, <1>5, <2>1, Sizes
<1> QED
  BY <1>6

LEMMA NextNumber ==
  ASSUME Typed
  PROVE  \E s \in SubNos : /\ \A r \in SubNos : subs[r].version <= subs[s].version
                           /\ NextVersionNo = 1 + subs[s].version
<1>1. PICK s \in SubNos : \A r \in SubNos : subs[r].version <= subs[s].version
  BY GreatestNumber
<1> DEFINE R == {subs[r].version : r \in SubNos}
           m == CHOOSE n \in R : \A k \in R : k <= n
<1>2. m \in R /\ \A k \in R : k <= m
  BY <1>1
<1>3. PICK q \in SubNos : m = subs[q].version
  BY <1>2
<1>4. NextVersionNo = 1 + m
  BY DEF NextVersionNo
<1> QED
  BY <1>2, <1>3, <1>4

\* When nothing is unresolved, the next number is the one after the versions.
LEMMA NumberIsNew ==
  ASSUME RowInv, VersionsFollowRows, \A r \in SubNos : ~Unresolved(r), NextVersionNo \in VersionIds
  PROVE  /\ ~Ledger!Exists(NextVersionNo)
         /\ \A u \in 1..(NextVersionNo - 1) : Ledger!Exists(u)
<1>1. PICK s \in SubNos : /\ \A r \in SubNos : subs[r].version <= subs[s].version
                          /\ NextVersionNo = 1 + subs[s].version
  BY NextNumber DEF RowInv
<1>2. subs[s].version \in 0..MaxVersions
  BY RowTyped DEF RowInv
<1>3. ~Ledger!Exists(NextVersionNo)
  <2> SUFFICES ASSUME Ledger!Exists(NextVersionNo) PROVE FALSE
    OBVIOUS
  <2>1. PICK r \in SubNos : subs[r].version = NextVersionNo
    BY DEF VersionsFollowRows
  <2> QED
    BY <1>1, <1>2, <2>1
<1>4. ASSUME NEW u \in 1..(NextVersionNo - 1) PROVE Ledger!Exists(u)
  <2>1. u \in Nat /\ 1 <= u /\ u <= subs[s].version
    BY <1>1, <1>2, <1>4
  <2>2. subs[s].status = "committed"
    <3>1. subs[s].status # "none"
      BY <1>2, <2>1, NoSubTyped DEF RowInv, RowsHaveTargets
    <3> QED
      BY <3>1, RowTyped DEF RowInv, Unresolved
  <2>3. Ledger!Exists(subs[s].version) /\ subs[s].version \in VersionIds
    BY <2>2, RowVersion DEF VersionsFollowRows
  <2>4. \A q \in 1..(subs[s].version - 1) : Ledger!Exists(q)
    BY <2>3 DEF VersionsFollowRows
  <2> QED
    BY <1>2, <2>1, <2>3, <2>4
<1> QED
  BY <1>3, <1>4

\* A formal creation: row s is committed, and its version becomes y.
CommitsRow(s, y) ==
  /\ subs[s].status = "committing" /\ Unresolved(s) /\ AllFiles(s)
  /\ subs[s].version \in VersionIds /\ subs[s].mode \in {"new_round", "append"}
  /\ subs'[s].status = "committed" /\ subs'[s].version = subs[s].version
  /\ subs'[s].files = subs[s].files
  /\ \A r \in SubNos \ {s} : subs'[r] = subs[r]
  /\ \A r \in SubNos : ~Unresolved(r)'
  /\ Ledger!TargetOpen(subs[s].mode, subs[s].version)
  /\ versions' = Ledger!WithCandidates(subs[s].mode, subs[s].version,
                                       DOMAIN subs[s].files)
  /\ BecomesVersion(subs[s].version, y)
  /\ subs[s].mode = "append" =>
       /\ y.status = versions[subs[s].version].status
       /\ y.cycle = versions[subs[s].version].cycle
       /\ y.candidates = versions[subs[s].version].candidates \cup DOMAIN subs[s].files
       /\ y.lock = versions[subs[s].version].lock + 1
  /\ subs[s].mode # "append" =>
       /\ y.status = "pending_review" /\ y.cycle = 1
       /\ y.candidates = DOMAIN subs[s].files /\ y.lock = 0
  /\ task' = "pending_review" /\ seen' = seen /\ disk' = disk

LEMMA CommitStep ==
  ASSUME RowInv, NEW w \in Workers, NEW raised \in BOOLEAN, CommitPublished(w, raised)
  PROVE  \E s \in SubNos, y \in VersionRecord : CommitsRow(s, y)
<1> DEFINE s == worker[w].sub
<1>1. PICK x \in SubRecord :
           /\ s \in SubNos /\ BecomesRow(s, x) /\ Keeps(s, x)
           /\ subs[s].status = "committing" /\ x.status = "committed" /\ x.files = subs[s].files
  BY CommitEffect
<1>2. subs'[s] = x /\ \A r \in SubNos \ {s} : subs'[r] = subs[r]
  BY <1>1, RowsAfter DEF RowInv
<1>3. Unresolved(s)
  BY <1>1 DEF Unresolved, UnresolvedStatuses
<1>4. ASSUME NEW r \in SubNos PROVE ~Unresolved(r)'
  <2>1. "committed" \notin UnresolvedStatuses
    BY DEF UnresolvedStatuses
  <2>2. CASE r = s
    BY <1>1, <1>2, <2>1, <2>2 DEF Unresolved
  <2>3. CASE r # s
    BY <1>1, <1>2, <1>3, <2>3 DEF Unresolved, RowInv, OneUnresolved
  <2> QED
    BY <2>2, <2>3
<1>5. /\ AllFiles(s) /\ Ledger!TargetOpen(subs[s].mode, subs[s].version)
      /\ versions' = Ledger!WithCandidates(subs[s].mode, subs[s].version, DOMAIN subs[s].files)
      /\ task' = "pending_review" /\ seen' = seen /\ disk' = disk
  BY DEF CommitPublished
<1>6. subs[s].version \in VersionIds /\ subs[s].mode \in {"new_round", "append"}
  BY <1>1, RowVersion
<1>7. DOMAIN subs[s].files \in SUBSET Candidates
  BY <1>1, RowTyped DEF RowInv
<1> DEFINE v == subs[s].version
           mode == subs[s].mode
           D == DOMAIN subs[s].files
<1>8. PICK y \in VersionRecord :
           /\ BecomesVersion(v, y)
           /\ mode = "append" =>
                /\ y.status = versions[v].status /\ y.cycle = versions[v].cycle
                /\ y.candidates = versions[v].candidates \cup D
                /\ y.lock = versions[v].lock + 1
           /\ mode # "append" =>
                y.status = "pending_review" /\ y.cycle = 1 /\ y.candidates = D /\ y.lock = 0
  <2>1. Typed /\ v \in VersionIds /\ mode \in {"new_round", "append"} /\ D \in SUBSET Candidates
    BY <1>6, <1>7 DEF RowInv
  <2>2. versions' = Ledger!WithCandidates(mode, v, D)
    BY <1>5
  <2> HIDE DEF v, mode, D
  <2> QED
    BY <2>1, <2>2, FormalCreation
<1> HIDE DEF s
<1>9. /\ subs'[s].status = "committed" /\ subs'[s].version = subs[s].version
      /\ subs'[s].files = subs[s].files
  BY <1>1, <1>2 DEF Keeps
<1>10. CommitsRow(s, y)
  <2>1. \A r \in SubNos : ~Unresolved(r)'
    BY <1>4
  <2>2. \A r \in SubNos \ {s} : subs'[r] = subs[r]
    BY <1>2
  <2> QED
    BY <1>1, <1>3, <1>5, <1>6, <1>8, <1>9, <2>1, <2>2, Zenon DEF CommitsRow
<1> QED
  BY <1>1, <1>10

-----------------------------------------------------------------------------
(* The invariants of the targets, the versions, the candidates, the page.  *)

\* The kinds of the steps, as the lemmas about the invariants use them.
LEMMA StepCases ==
  ASSUME RowInv, FilesAreThere, [Next]_vars
  PROVE  \/ Quiet
         \/ \E s \in SubNos, mode \in {"new_round", "append"}, v \in VersionIds,
               n \in 1..MaxFiles : CreateSubmission(s, mode, v, n)
         \/ \E s \in SubNos, y \in VersionRecord : CommitsRow(s, y)
         \/ \E x \in SeenRecord : PageMoves(x) /\ UNCHANGED <<subs, disk>>
         \/ \E v \in VersionIds, y \in VersionRecord : Concludes(v, y) /\ UNCHANGED <<subs, disk>>
<1>1. CASE \E w \in Workers, raised \in BOOLEAN : CommitPublished(w, raised)
  BY <1>1, CommitStep
<1>2. CASE Review
  BY <1>2, ReviewEffect
<1> QED
  BY <1>1, <1>2, StepKinds

\* The row of a new submission.
CreatesRow(s, mode, v, n) ==
  /\ subs[s] = NoSub /\ \A r \in SubNos : ~Unresolved(r)
  /\ subs'[s].mode = mode /\ subs'[s].version = v /\ subs'[s].status = "pending"
  /\ DOMAIN subs'[s].files = Ledger!NextCandidates(v, n)
  /\ Ledger!NextCandidates(v, n) \subseteq Candidates
  /\ \A r \in SubNos \ {s} : subs'[r] = subs[r]
  /\ Ledger!TargetOpen(mode, v)
  /\ mode = "new_round" => v = NextVersionNo
  /\ UNCHANGED formal /\ disk' = disk

LEMMA CreateStep ==
  ASSUME RowInv, NEW s \in SubNos, NEW mode \in {"new_round", "append"}, NEW v \in VersionIds,
         NEW n \in 1..MaxFiles, CreateSubmission(s, mode, v, n)
  PROVE  CreatesRow(s, mode, v, n)
<1>1. PICK x \in SubRecord :
           /\ BecomesRow(s, x) /\ subs[s] = NoSub
           /\ x.mode = mode /\ x.version = v /\ x.status = "pending"
           /\ DOMAIN x.files = Ledger!NextCandidates(v, n)
           /\ Ledger!NextCandidates(v, n) \subseteq Candidates
  BY CreateEffect
<1>2. subs'[s] = x /\ \A r \in SubNos \ {s} : subs'[r] = subs[r]
  BY <1>1, RowsAfter DEF RowInv
<1> QED
  BY <1>1, <1>2 DEF CreatesRow, CreateSubmission

\* The ledger counts with the same operator.
LEMMA SameCardinality == ASSUME NEW S PROVE Ledger!Cardinality(S) = Cardinality(S)
  BY DEF Ledger!Cardinality, Cardinality

LEMMA Numbered ==
  ASSUME Typed, NEW v \in VersionIds, NEW n \in 1..MaxFiles
  PROVE  /\ IsFiniteSet(Ledger!NextCandidates(v, n))
         /\ Cardinality(Ledger!NextCandidates(v, n)) = n
<1>1. IsFiniteSet(Candidates)
  BY FS_Interval, Sizes DEF Candidates
<1>2. IsFiniteSet(versions[v].candidates)
  BY <1>1, FS_Subset, VersionTyped
<1>3. Cardinality(versions[v].candidates) \in Nat
  BY <1>2, FS_CardinalityType
<1> DEFINE last == Cardinality(versions[v].candidates)
<1>4. n \in Nat /\ n > 0
  BY Sizes
<1>5. Ledger!NextCandidates(v, n) = (last + 1)..(last + n)
  BY SameCardinality DEF Ledger!NextCandidates
<1>7. last \in Nat
  BY <1>3
<1> HIDE DEF last
<1>6. last + 1 \in Int /\ last + n \in Int /\ last + 1 <= last + n /\ (last + n) - (last + 1) + 1 = n
  BY <1>4, <1>7
<1> QED
  BY <1>4, <1>5, <1>6, FS_Interval

LEMMA TargetStep ==
  ASSUME RowInv, FilesAreThere, TargetStaysOpen, [Next]_vars
  PROVE  TargetStaysOpen'
<1>1. CASE Quiet
  <2>1. UNCHANGED <<task, versions>>
    BY <1>1, QuietKeeps
  <2>2. ASSUME NEW r \in SubNos, Unresolved(r)'
        PROVE  /\ Ledger!TargetOpen(subs[r].mode, subs[r].version)
               /\ DOMAIN subs[r].files = Ledger!NextCandidates(subs[r].version,
                                           Cardinality(DOMAIN subs[r].files))
               /\ subs'[r].mode = subs[r].mode /\ subs'[r].version = subs[r].version
               /\ DOMAIN subs'[r].files = DOMAIN subs[r].files
    BY <1>1, <2>2, QuietKeeps DEF TargetStaysOpen
  <2> QED
    BY <2>1, <2>2 DEF TargetStaysOpen, Ledger!TargetOpen, Ledger!AppendOpen,
      Ledger!NewRoundOpen, Ledger!IsLatest, Ledger!Exists, Ledger!NextCandidates, Ledger!VersionNos
<1>2. ASSUME NEW s \in SubNos, NEW mode \in {"new_round", "append"}, NEW v \in VersionIds,
             NEW n \in 1..MaxFiles, CreateSubmission(s, mode, v, n)
      PROVE  TargetStaysOpen'
  <2>1. CreatesRow(s, mode, v, n)
    BY <1>2, CreateStep
  <2>2. UNCHANGED <<task, versions>>
    BY <2>1 DEF CreatesRow, formal
  <2>3. Cardinality(DOMAIN subs'[s].files) = n
    BY <2>1, Numbered DEF CreatesRow, RowInv
  <2>4. ASSUME NEW r \in SubNos, Unresolved(r)' PROVE r = s
    BY <2>1, <2>4 DEF CreatesRow, Unresolved
  <2>5. /\ Ledger!TargetOpen(subs'[s].mode, subs'[s].version)
        /\ DOMAIN subs'[s].files = Ledger!NextCandidates(subs'[s].version,
                                     Cardinality(DOMAIN subs'[s].files))
    BY <2>1, <2>3 DEF CreatesRow
  <2> QED
    BY <2>2, <2>4, <2>5 DEF TargetStaysOpen, Ledger!TargetOpen, Ledger!AppendOpen,
      Ledger!NewRoundOpen, Ledger!IsLatest, Ledger!Exists, Ledger!NextCandidates, Ledger!VersionNos
<1>3. ASSUME NEW s \in SubNos, NEW y \in VersionRecord, CommitsRow(s, y) PROVE TargetStaysOpen'
  BY <1>3 DEF CommitsRow, TargetStaysOpen
<1>4. ASSUME NEW x \in SeenRecord, PageMoves(x), UNCHANGED <<subs, disk>> PROVE TargetStaysOpen'
  BY <1>4 DEF PageMoves, TargetStaysOpen, Unresolved, Ledger!TargetOpen, Ledger!AppendOpen,
      Ledger!NewRoundOpen, Ledger!IsLatest, Ledger!Exists, Ledger!NextCandidates, Ledger!VersionNos
<1>5. ASSUME NEW v \in VersionIds, NEW y \in VersionRecord, Concludes(v, y),
             UNCHANGED <<subs, disk>>
      PROVE  TargetStaysOpen'
  <2>1. \A s \in SubNos : ~Unresolved(s)
    BY <1>5, NothingUnresolved DEF Concludes
  <2> QED
    BY <1>5, <2>1 DEF TargetStaysOpen, Unresolved
<1> QED
  BY <1>1, <1>2, <1>3, <1>4, <1>5, StepCases

LEMMA VersionsStep ==
  ASSUME RowInv, FilesAreThere, VersionsFollowRows, [Next]_vars
  PROVE  VersionsFollowRows'
<1>0. Typed
  BY DEF RowInv
<1>1. CASE Quiet
  <2>1. UNCHANGED versions
    BY <1>1, QuietKeeps
  <2>2. \A r \in SubNos :
              /\ Unresolved(r)' <=> Unresolved(r)
              /\ subs'[r].mode = subs[r].mode /\ subs'[r].version = subs[r].version
              /\ subs'[r].status = "committed" <=> subs[r].status = "committed"
    BY <1>1, QuietKeeps
  <2> QED
    BY <2>1, <2>2 DEF VersionsFollowRows, Ledger!Exists
<1>2. ASSUME NEW s \in SubNos, NEW mode \in {"new_round", "append"}, NEW v \in VersionIds,
             NEW n \in 1..MaxFiles, CreateSubmission(s, mode, v, n)
      PROVE  VersionsFollowRows'
  <2>1. CreatesRow(s, mode, v, n)
    BY <1>2, CreateStep
  <2>2. UNCHANGED versions /\ subs[s].version = 0
    BY <2>1, NoSubTyped DEF CreatesRow, formal
  <2>3. mode = "new_round" => ~Ledger!Exists(v) /\ \A u \in 1..(v - 1) : Ledger!Exists(u)
    BY <2>1, NumberIsNew DEF CreatesRow
  <2>4. ASSUME NEW u \in VersionIds, Ledger!Exists(u)
        PROVE  \E r \in SubNos : subs'[r].version = u
    <3>1. PICK r \in SubNos : subs[r].version = u
      BY <2>4 DEF VersionsFollowRows
    <3>2. r # s
      BY <2>2, <3>1 DEF VersionIds
    <3> QED
      BY <2>1, <3>1, <3>2 DEF CreatesRow
  <2>5. ASSUME NEW r \in SubNos
        PROVE  /\ subs'[r].status = "committed" => Ledger!Exists(subs'[r].version)
               /\ Unresolved(r)' /\ subs'[r].mode = "new_round" =>
                    /\ ~Ledger!Exists(subs'[r].version)
                    /\ \A u \in 1..(subs'[r].version - 1) : Ledger!Exists(u)
    <3>1. CASE r = s
      BY <2>1, <2>3, <3>1 DEF CreatesRow
    <3>2. CASE r # s
      BY <2>1, <3>2 DEF CreatesRow, VersionsFollowRows, Unresolved
    <3> QED
      BY <3>1, <3>2
  <2> QED
    BY <2>2, <2>4, <2>5 DEF VersionsFollowRows, Ledger!Exists
<1>3. ASSUME NEW s \in SubNos, NEW y \in VersionRecord, CommitsRow(s, y)
      PROVE  VersionsFollowRows'
  <2> DEFINE v == subs[s].version
  <2>1. /\ v \in VersionIds /\ BecomesVersion(v, y) /\ subs'[s].version = v
        /\ \A r \in SubNos \ {s} : subs'[r] = subs[r]
        /\ \A r \in SubNos : ~Unresolved(r)'
    BY <1>3 DEF CommitsRow
  <2>2. versions'[v] = y /\ \A u \in VersionIds \ {v} : versions'[u] = versions[u]
    BY <1>0, <2>1, VersionsAfter
  <2>3. y.status # "none" /\ \A u \in 1..(v - 1) : Ledger!Exists(u)
    <3>1. CASE subs[s].mode = "append"
      <4>1. Ledger!Exists(v)
        BY <1>3, <3>1 DEF CommitsRow, Ledger!TargetOpen, Ledger!AppendOpen, Ledger!IsLatest
      <4>2. y.status = versions[v].status
        BY <1>3, <3>1 DEF CommitsRow
      <4> QED
        BY <2>1, <4>1, <4>2 DEF VersionsFollowRows, Ledger!Exists
    <3>2. CASE subs[s].mode = "new_round"
      BY <1>3, <3>2 DEF CommitsRow, VersionsFollowRows
    <3> QED
      BY <1>3, <3>1, <3>2 DEF CommitsRow
  <2> HIDE DEF v
  <2>4. \A u \in VersionIds : Ledger!Exists(u)' <=> Ledger!Exists(u) \/ u = v
    BY <2>2, <2>3 DEF Ledger!Exists
  <2>5. ASSUME NEW u \in VersionIds
        PROVE  /\ Ledger!Exists(u)' =>
                    /\ \A q \in 1..(u - 1) : Ledger!Exists(q)'
                    /\ \E r \in SubNos : subs'[r].version = u
               /\ ~Ledger!Exists(u)' => versions'[u] = Ledger!NoVersion
    <3>1. \A q \in 1..(u - 1) : q \in VersionIds
      BY Sizes DEF VersionIds
    <3>2. CASE u = v
      BY <2>1, <2>3, <2>4, <3>1, <3>2
    <3>3. CASE u # v
      <4>1. Ledger!Exists(u) =>
              /\ \A q \in 1..(u - 1) : Ledger!Exists(q)
              /\ \E r \in SubNos : subs[r].version = u
        BY DEF VersionsFollowRows
      <4>2. ASSUME NEW r \in SubNos PROVE subs'[r].version = subs[r].version
        BY <2>1 DEF v
      <4> QED
        BY <2>2, <2>4, <3>1, <3>3, <4>1, <4>2 DEF VersionsFollowRows
    <3> QED
      BY <3>2, <3>3
  <2>6. ASSUME NEW r \in SubNos, subs'[r].status = "committed"
        PROVE  versions'[subs'[r].version].status # "none"
    <3>1. CASE r = s
      BY <2>1, <2>2, <2>3, <3>1
    <3>2. CASE r # s
      <4>1. subs'[r] = subs[r] /\ subs[r].status = "committed"
        BY <2>1, <2>6, <3>2
      <4>2. subs[r].version \in VersionIds /\ Ledger!Exists(subs[r].version)
        BY <4>1, RowVersion DEF VersionsFollowRows
      <4> QED
        BY <2>2, <2>3, <4>1, <4>2 DEF Ledger!Exists
    <3> QED
      BY <3>1, <3>2
  <2> QED
    BY <2>1, <2>5, <2>6 DEF VersionsFollowRows, Ledger!Exists
<1>4. ASSUME NEW x \in SeenRecord, PageMoves(x), UNCHANGED <<subs, disk>>
      PROVE  VersionsFollowRows'
  BY <1>4 DEF PageMoves, VersionsFollowRows, Unresolved, Ledger!Exists
<1>5. ASSUME NEW v \in VersionIds, NEW y \in VersionRecord, Concludes(v, y),
             UNCHANGED <<subs, disk>>
      PROVE  VersionsFollowRows'
  <2>1. versions'[v] = y /\ \A u \in VersionIds \ {v} : versions'[u] = versions[u]
    BY <1>0, <1>5, VersionsAfter DEF Concludes
  <2>2. \A u \in VersionIds : Ledger!Exists(u)' <=> Ledger!Exists(u)
    BY <1>5, <2>1 DEF Ledger!Exists, Concludes
  <2>3. \A u \in VersionIds : \A q \in 1..(u - 1) : q \in VersionIds
    BY Sizes DEF VersionIds
  <2>4. ASSUME NEW u \in VersionIds
        PROVE  /\ Ledger!Exists(u)' =>
                    /\ \A q \in 1..(u - 1) : Ledger!Exists(q)'
                    /\ \E r \in SubNos : subs'[r].version = u
               /\ ~Ledger!Exists(u)' => versions'[u] = Ledger!NoVersion
    <3>1. u # v => versions'[u] = versions[u]
      BY <2>1
    <3>2. Ledger!Exists(v)
      BY <1>5 DEF Concludes
    <3> QED
      BY <1>5, <2>2, <2>3, <3>1, <3>2 DEF VersionsFollowRows
  <2>5. ASSUME NEW r \in SubNos
        PROVE  /\ subs[r].status = "committed" => versions'[subs[r].version].status # "none"
               /\ ~Unresolved(r)
    <3>1. ~Unresolved(r)
      BY <1>5, NothingUnresolved DEF Concludes
    <3>2. ASSUME subs[r].status = "committed" PROVE versions'[subs[r].version].status # "none"
      <4>1. subs[r].version \in VersionIds /\ Ledger!Exists(subs[r].version)
        BY <3>2, RowVersion DEF VersionsFollowRows
      <4> QED
        BY <1>5, <2>1, <4>1 DEF Ledger!Exists, Concludes
    <3> QED
      BY <3>1, <3>2
  <2> QED
    BY <1>5, <2>4, <2>5 DEF VersionsFollowRows, Unresolved, Ledger!Exists
<1> QED
  BY <1>1, <1>2, <1>3, <1>4, <1>5, StepCases

\* The candidates of a new version or an append are those of the row.
LEMMA NasCandidatesStep ==
  ASSUME RowInv, FilesAreThere, CandidatesAreOnNas, [Next]_vars
  PROVE  CandidatesAreOnNas'
<1>0. Typed
  BY DEF RowInv
<1>1. \A v \in VersionIds : \A c \in Candidates :
        disk[v][c] # 0 => disk'[v][c] = disk[v][c] /\ disk[v][c] \in SubNos
  <2>1. ASSUME NEW v \in VersionIds, NEW c \in Candidates, disk[v][c] # 0
        PROVE  disk'[v][c] = disk[v][c] /\ disk[v][c] \in SubNos
    <3>1. disk'[v][c] = disk[v][c]
      BY <2>1, NasStep
    <3>2. disk[v][c] \in 0..MaxSubs
      BY <1>0 DEF Typed
    <3> QED
      BY <2>1, <3>1, <3>2, Sizes DEF SubNos
  <2> QED
    BY <2>1
<1>2. \A v \in VersionIds : versions[v].candidates \subseteq Candidates
  BY <1>0, VersionTyped
\* A candidate that is there stays backed by its committed row.
<1>3. ASSUME NEW v \in VersionIds, NEW c \in versions[v].candidates,
             \A r \in SubNos : subs[r].status = "committed" =>
               subs'[r].status = "committed" /\ DOMAIN subs'[r].files = DOMAIN subs[r].files
      PROVE  /\ disk'[v][c] # 0 /\ subs'[disk'[v][c]].status = "committed"
             /\ c \in DOMAIN subs'[disk'[v][c]].files
  <2>1. /\ disk[v][c] # 0 /\ subs[disk[v][c]].status = "committed"
        /\ c \in DOMAIN subs[disk[v][c]].files
    BY DEF CandidatesAreOnNas, VersionIds
  <2>2. disk'[v][c] = disk[v][c] /\ disk[v][c] \in SubNos
    BY <1>1, <1>2, <2>1
  <2> QED
    BY <1>3, <2>1, <2>2
<1>4. ASSUME \A r \in SubNos : subs[r].status = "committed" =>
               subs'[r].status = "committed" /\ DOMAIN subs'[r].files = DOMAIN subs[r].files,
             \A v \in VersionIds : versions'[v].candidates = versions[v].candidates
      PROVE  CandidatesAreOnNas'
  BY <1>3, <1>4 DEF CandidatesAreOnNas, VersionIds
<1>5. CASE Quiet
  <2>1. /\ versions' = versions
        /\ \A r \in SubNos : /\ subs'[r].status = "committed" <=> subs[r].status = "committed"
                             /\ DOMAIN subs'[r].files = DOMAIN subs[r].files
    BY <1>5, QuietKeeps
  <2> QED
    BY <1>4, <2>1
<1>6. ASSUME NEW s \in SubNos, NEW mode \in {"new_round", "append"}, NEW v \in VersionIds,
             NEW n \in 1..MaxFiles, CreateSubmission(s, mode, v, n)
      PROVE  CandidatesAreOnNas'
  <2>1. CreatesRow(s, mode, v, n)
    BY <1>6, CreateStep
  <2>2. versions' = versions /\ subs[s].status # "committed"
    BY <2>1, NoSubTyped DEF CreatesRow, formal
  <2>3. \A r \in SubNos \ {s} : subs'[r] = subs[r]
    BY <2>1 DEF CreatesRow
  <2> QED
    BY <1>4, <2>2, <2>3
<1>7. ASSUME NEW s \in SubNos, NEW y \in VersionRecord, CommitsRow(s, y) PROVE CandidatesAreOnNas'
  <2> DEFINE v == subs[s].version
  <2>1. /\ v \in VersionIds /\ BecomesVersion(v, y) /\ subs'[s].status = "committed"
        /\ subs'[s].files = subs[s].files /\ AllFiles(s)
        /\ \A r \in SubNos \ {s} : subs'[r] = subs[r]
        /\ y.candidates \subseteq versions[v].candidates \cup DOMAIN subs[s].files
    BY <1>7 DEF CommitsRow
  <2>2. versions'[v] = y /\ \A u \in VersionIds \ {v} : versions'[u] = versions[u]
    BY <1>0, <2>1, VersionsAfter
  <2>3. \A r \in SubNos : subs[r].status = "committed" =>
               subs'[r].status = "committed" /\ DOMAIN subs'[r].files = DOMAIN subs[r].files
    BY <2>1
  <2>4. ASSUME NEW c \in DOMAIN subs[s].files
        PROVE  disk'[v][c] = s
    <3>1. disk[v][c] = s
      BY <2>1, <2>4 DEF AllFiles, FilesAreThere
    <3>2. c \in Candidates /\ s # 0
      BY <1>0, <2>4, RowTyped DEF SubNos
    <3> QED
      BY <1>1, <2>1, <3>1, <3>2
  <2>5. s # 0
    BY DEF SubNos
  <2> HIDE DEF v
  <2>6. ASSUME NEW u \in VersionIds, NEW c \in versions'[u].candidates
        PROVE  /\ disk'[u][c] # 0 /\ subs'[disk'[u][c]].status = "committed"
               /\ c \in DOMAIN subs'[disk'[u][c]].files
    <3>1. CASE c \in versions[u].candidates
      BY <1>3, <2>3, <3>1
    <3>2. CASE u = v /\ c \in DOMAIN subs[s].files
      BY <2>1, <2>4, <2>5, <3>2
    <3> QED
      BY <2>1, <2>2, <3>1, <3>2
  <2> QED
    BY <2>6 DEF CandidatesAreOnNas, VersionIds
<1>8. ASSUME NEW x \in SeenRecord, PageMoves(x), UNCHANGED <<subs, disk>>
      PROVE  CandidatesAreOnNas'
  BY <1>8 DEF PageMoves, CandidatesAreOnNas
<1>9. ASSUME NEW v \in VersionIds, NEW y \in VersionRecord, Concludes(v, y),
             UNCHANGED <<subs, disk>>
      PROVE  CandidatesAreOnNas'
  <2>1. versions'[v] = y /\ \A u \in VersionIds \ {v} : versions'[u] = versions[u]
    BY <1>0, <1>9, VersionsAfter DEF Concludes
  <2>2. \A u \in VersionIds : versions'[u].candidates = versions[u].candidates
    BY <1>9, <2>1 DEF Concludes
  <2> QED
    BY <1>4, <1>9, <2>2
<1> QED
  BY <1>5, <1>6, <1>7, <1>8, <1>9, StepCases

LEMMA PageStep ==
  ASSUME RowInv, FilesAreThere, VersionsFollowRows, PageIsTrue, [Next]_vars
  PROVE  PageIsTrue'
<1>0. Typed
  BY DEF RowInv
<1>1. seen \in SeenRecord /\ (seen.version # 0 => seen.version \in VersionIds)
  <2>1. seen \in SeenRecord
    BY <1>0 DEF Typed
  <2> QED
    BY <2>1, Sizes DEF SeenRecord, VersionIds
<1>2. CASE UNCHANGED <<versions, seen>>
  BY <1>2 DEF PageIsTrue, Ledger!Exists
<1>3. CASE Quiet
  BY <1>2, <1>3, QuietKeeps
<1>4. ASSUME NEW s \in SubNos, NEW mode \in {"new_round", "append"}, NEW v \in VersionIds,
             NEW n \in 1..MaxFiles, CreateSubmission(s, mode, v, n)
      PROVE  PageIsTrue'
  BY <1>2, <1>4, CreateStep DEF CreatesRow, formal
\* The version on the page gets a higher lock, or is another one.
<1>5. ASSUME NEW v \in VersionIds, NEW y \in VersionRecord, BecomesVersion(v, y), seen' = seen,
             Ledger!Exists(v) => y.status # "none" /\ y.lock = versions[v].lock + 1
      PROVE  PageIsTrue'
  <2>1. versions'[v] = y /\ \A u \in VersionIds \ {v} : versions'[u] = versions[u]
    BY <1>0, <1>5, VersionsAfter
  <2>2. CASE seen.version = v
    <3>1. seen.lock \in Nat /\ versions[v].lock \in Nat
      BY <1>0, <1>1, VersionTyped DEF SeenRecord
    <3>2. seen.version # 0 /\ Ledger!Exists(v) /\ seen.lock <= versions[v].lock
      BY <2>2 DEF PageIsTrue, VersionIds
    <3>3. seen.lock < y.lock /\ seen.lock <= y.lock /\ seen.lock # y.lock /\ y.status # "none"
      BY <1>5, <3>1, <3>2
    <3> QED
      BY <1>5, <2>1, <2>2, <3>3 DEF PageIsTrue, Ledger!Exists
  <2>3. CASE seen.version # v /\ seen.version # 0
    <3>1. versions'[seen.version] = versions[seen.version]
      BY <1>1, <2>1, <2>3
    <3> QED
      BY <1>5, <2>3, <3>1 DEF PageIsTrue, Ledger!Exists
  <2>4. CASE seen.version = 0
    BY <1>5, <2>4 DEF PageIsTrue
  <2> QED
    BY <2>2, <2>3, <2>4
<1>6. ASSUME NEW s \in SubNos, NEW y \in VersionRecord, CommitsRow(s, y) PROVE PageIsTrue'
  <2> DEFINE v == subs[s].version
  <2>1. v \in VersionIds /\ BecomesVersion(v, y) /\ seen' = seen
    BY <1>6 DEF CommitsRow
  <2>2. Ledger!Exists(v) => y.status # "none" /\ y.lock = versions[v].lock + 1
    <3>1. subs[s].mode = "new_round" => ~Ledger!Exists(v)
      BY <1>6 DEF CommitsRow, VersionsFollowRows
    <3> QED
      BY <1>6, <3>1 DEF CommitsRow, Ledger!Exists
  <2> QED
    BY <1>5, <2>1, <2>2
<1>7. ASSUME NEW x \in SeenRecord, PageMoves(x) PROVE PageIsTrue'
  <2>1. versions' = versions /\ seen' = x
    BY <1>7 DEF PageMoves
  <2>2. CASE /\ x.version \in VersionIds /\ Ledger!Exists(x.version)
             /\ x.lock = versions[x.version].lock /\ x.candidates = {}
    <3>1. x.lock \in Nat
      BY DEF SeenRecord
    <3> QED
      BY <2>1, <2>2, <3>1 DEF PageIsTrue, Ledger!Exists
  <2>3. CASE /\ x.version = seen.version /\ x.lock = seen.lock
             /\ x.candidates = versions[x.version].candidates
    BY <2>1, <2>3 DEF PageIsTrue, Ledger!Exists
  <2> QED
    BY <1>7, <2>2, <2>3 DEF PageMoves
<1>8. ASSUME NEW v \in VersionIds, NEW y \in VersionRecord, Concludes(v, y) PROVE PageIsTrue'
  BY <1>5, <1>8 DEF Concludes
<1> QED
  BY <1>3, <1>4, <1>6, <1>7, <1>8, StepCases

-----------------------------------------------------------------------------
LEMMA SubInit == Init => SubInv
<1> SUFFICES ASSUME Init PROVE SubInv
  OBVIOUS
<1>1. RowInv
  BY InitRows
<1>2. \A s \in SubNos : /\ ~Unresolved(s) /\ subs[s].status = "none"
                        /\ DOMAIN subs[s].files = {}
  BY NoSubTyped DEF Init, Unresolved, UnresolvedStatuses, NoSub
<1>3. \A v \in VersionIds : versions[v] = Ledger!NoVersion /\ ~Ledger!Exists(v)
  BY DEF Init, VersionIds, Ledger!Exists, Ledger!NoVersion
<1>4. \A v \in VersionIds : versions[v].candidates = {}
  BY <1>3 DEF Ledger!NoVersion
<1>5. TargetStaysOpen
  BY <1>2 DEF TargetStaysOpen
<1>6. VersionsFollowRows
  BY <1>2, <1>3 DEF VersionsFollowRows
<1>7. FilesAreThere
  BY <1>2 DEF FilesAreThere, Init, Idle
<1>8. CandidatesAreOnNas
  BY <1>4 DEF CandidatesAreOnNas, VersionIds
<1>9. PageIsTrue
  BY DEF PageIsTrue, Init
<1> QED
  BY <1>1, <1>5, <1>6, <1>7, <1>8, <1>9 DEF SubInv

LEMMA SubStep == SubInv /\ [Next]_vars => SubInv'
  BY RowStep, TargetStep, VersionsStep, FilesStep, NasCandidatesStep, PageStep DEF SubInv

\* For any number of submissions, files, versions, workers, failures and deaths
\* of workers: a submission that has been accepted (version_submission_service.py,
\* create_submission) can still be committed, whatever the review does meanwhile,
\* and a candidate of a version is a file on the NAS that was copied for the
\* very submission that brought it in.
THEOREM AcceptedStaysOpen == Spec => []SubmissionSafe
<1>1. SubInv => SubmissionSafe
  BY TypedSuffices DEF SubInv, SubmissionSafe
<1> QED
  BY <1>1, SubInit, SubStep, PTL DEF Spec

-----------------------------------------------------------------------------
(* The conclusions.                                                        *)

\* What a step may do to the conclusions.
SawAll ==
  \A v \in 1..MaxVersions :
    versions[v].status = "pending_review" /\ versions'[v].status \in {"final", "rejected"}
      => seen.version = v /\ seen.candidates = versions[v].candidates
Frozen ==
  \A v \in 1..MaxVersions :
    versions[v].status \in {"rejected", "final"} \/ versions[v].cycle > 1
      => versions'[v].candidates = versions[v].candidates

LEMMA ConclusionStep == ASSUME SubInv, [Next]_vars PROVE SawAll /\ Frozen
<1>0. Typed /\ RowInv /\ FilesAreThere /\ VersionsFollowRows /\ PageIsTrue
  BY DEF SubInv, RowInv
<1>1. CASE versions' = versions
  BY <1>1 DEF SawAll, Frozen
<1>2. CASE Quiet
  BY <1>0, <1>1, <1>2, QuietKeeps
<1>3. ASSUME NEW s \in SubNos, NEW mode \in {"new_round", "append"}, NEW v \in VersionIds,
             NEW n \in 1..MaxFiles, CreateSubmission(s, mode, v, n)
      PROVE  SawAll /\ Frozen
  BY <1>1, <1>3 DEF CreateSubmission, formal
<1>4. ASSUME NEW s \in SubNos, NEW y \in VersionRecord, CommitsRow(s, y) PROVE SawAll /\ Frozen
  <2> DEFINE v == subs[s].version
  <2>1. /\ v \in VersionIds /\ BecomesVersion(v, y) /\ subs[s].mode \in {"new_round", "append"}
        /\ subs[s].mode = "append" => y.status = versions[v].status
        /\ subs[s].mode # "append" => y.status = "pending_review"
    BY <1>4 DEF CommitsRow
  <2>2. versions'[v] = y /\ \A u \in VersionIds \ {v} : versions'[u] = versions[u]
    BY <1>0, <2>1, VersionsAfter
  <2>3. y.status = "pending_review"
    BY <1>4, <2>1 DEF CommitsRow, Ledger!TargetOpen, Ledger!AppendOpen
  <2>4. SawAll
    BY <2>2, <2>3 DEF SawAll, VersionIds
  <2>5. versions[v].status \notin {"rejected", "final"} /\ ~(versions[v].cycle > 1)
    <3>1. CASE subs[s].mode = "append"
      <4>1. versions[v].status = "pending_review" /\ versions[v].cycle <= 1
        BY <1>4, <3>1 DEF CommitsRow, Ledger!TargetOpen, Ledger!AppendOpen
      <4>2. versions[v].cycle \in 0..MaxCycles
        BY <1>0, <2>1, VersionTyped
      <4> QED
        BY <4>1, <4>2, Sizes
    <3>2. CASE subs[s].mode = "new_round"
      <4>1. versions[v] = Ledger!NoVersion
        BY <1>0, <1>4, <2>1, <3>2 DEF CommitsRow, VersionsFollowRows
      <4> QED
        BY <4>1 DEF Ledger!NoVersion
    <3> QED
      BY <2>1, <3>1, <3>2
  <2>6. Frozen
    BY <2>2, <2>5 DEF Frozen, VersionIds
  <2> QED
    BY <2>4, <2>6
<1>5. ASSUME NEW x \in SeenRecord, PageMoves(x) PROVE SawAll /\ Frozen
  BY <1>1, <1>5 DEF PageMoves
<1>6. ASSUME NEW v \in VersionIds, NEW y \in VersionRecord, Concludes(v, y)
      PROVE  SawAll /\ Frozen
  <2>1. versions'[v] = y /\ \A u \in VersionIds \ {v} : versions'[u] = versions[u]
    BY <1>0, <1>6, VersionsAfter DEF Concludes
  <2>2. seen.version = v /\ seen.candidates = versions[v].candidates
    <3>1. seen.version = v /\ v # 0 /\ seen.lock = versions[v].lock /\ seen.candidates # {}
      BY <1>6 DEF Concludes, VersionIds
    <3> QED
      BY <1>0, <3>1 DEF PageIsTrue
  <2>3. y.candidates = versions[v].candidates
    BY <1>6 DEF Concludes
  <2> QED
    BY <2>1, <2>2, <2>3 DEF SawAll, Frozen, VersionIds
<1> QED
  BY <1>0, <1>2, <1>3, <1>4, <1>5, <1>6, StepCases

\* However the commands of the director interleave with appends and formal
\* creations (review_service.py, create_review_action; review_reopen_service.py,
\* reopen): a conclusion is one about all candidates of the version, and what it
\* was about does not change afterwards, not even in a second review.
THEOREM ConclusionsAreFinal == Spec => ConclusionsStand
<1>1. SubInv /\ [Next]_vars => [SawAll /\ Frozen]_vars
  BY ConclusionStep
<1>2. [SawAll /\ Frozen]_vars =>
        [\A v \in 1..MaxVersions :
           versions[v].status = "pending_review" /\ versions'[v].status \in {"final", "rejected"}
             => seen.version = v /\ seen.candidates = versions[v].candidates]_vars
  BY DEF SawAll
<1>3. [SawAll /\ Frozen]_vars =>
        [\A v \in 1..MaxVersions :
           versions[v].status \in {"rejected", "final"} \/ versions[v].cycle > 1
             => versions'[v].candidates = versions[v].candidates]_vars
  BY DEF Frozen
<1>4. Spec => ConclusionSawAllCandidates
  BY <1>1, <1>2, SubInit, SubStep, PTL DEF Spec, ConclusionSawAllCandidates
<1>5. Spec => ConcludedCandidatesAreFrozen
  BY <1>1, <1>3, SubInit, SubStep, PTL DEF Spec, ConcludedCandidatesAreFrozen
<1> QED
  BY <1>4, <1>5 DEF ConclusionsStand

-----------------------------------------------------------------------------
(* The ledger: what is accepted and settled.                               *)

LEMMA LedgerNumbers == Ledger!VersionNos = VersionIds /\ Ledger!CandidateNos = Candidates
  BY DEF Ledger!VersionNos, Ledger!CandidateNos, VersionIds, Candidates

\* What is open is determined by what the others see of the rows.
OpenIsTheRow ==
  /\ Open = Ledger!NothingOpen <=> \A s \in SubNos : ~Unresolved(s)
  /\ \A s \in SubNos : Unresolved(s) =>
       Open = [mode |-> subs[s].mode, version |-> subs[s].version,
               candidates |-> DOMAIN subs[s].files]

LEMMA OpenNow == RowInv => OpenIsTheRow
  BY NothingUnresolved DEF OpenIsTheRow

LEMMA OpenNext == RowInv' => OpenIsTheRow'
  BY OpenNow, PTL

LEMMA OpenKept ==
  ASSUME RowInv, RowInv',
         \A r \in SubNos :
           /\ Unresolved(r)' <=> Unresolved(r)
           /\ subs'[r].mode = subs[r].mode /\ subs'[r].version = subs[r].version
           /\ DOMAIN subs'[r].files = DOMAIN subs[r].files
  PROVE  Open' = Open
<1>0. OpenIsTheRow /\ OpenIsTheRow'
  BY OpenNow, OpenNext
<1>1. CASE \A s \in SubNos : ~Unresolved(s)
  <2>1. \A s \in SubNos : ~Unresolved(s)'
    BY <1>1
  <2>2. Open' = Ledger!NothingOpen
    BY <1>0, <2>1 DEF OpenIsTheRow, Ledger!NothingOpen
  <2>3. Open = Ledger!NothingOpen
    BY <1>0, <1>1 DEF OpenIsTheRow
  <2> QED
    BY <2>2, <2>3
<1>2. ASSUME NEW s \in SubNos, Unresolved(s) PROVE Open' = Open
  <2>1. Unresolved(s)'
    BY <1>2
  <2>2. Open' = [mode |-> subs'[s].mode, version |-> subs'[s].version,
                 candidates |-> DOMAIN subs'[s].files]
    BY <1>0, <2>1 DEF OpenIsTheRow
  <2>3. Open = [mode |-> subs[s].mode, version |-> subs[s].version,
                candidates |-> DOMAIN subs[s].files]
    BY <1>0, <1>2 DEF OpenIsTheRow
  <2> QED
    BY <2>2, <2>3
<1> QED
  BY <1>1, <1>2

LEMMA LedgerStart == Init => Ledger!LedgerInit
<1> SUFFICES ASSUME Init PROVE Ledger!LedgerInit
  OBVIOUS
<1>1. RowInv /\ \A s \in SubNos : ~Unresolved(s)
  BY InitRows, NoSubTyped DEF Init, Unresolved, UnresolvedStatuses
<1>2. Open = Ledger!NothingOpen
  BY <1>1, NothingUnresolved
<1> QED
  BY <1>2, LedgerNumbers DEF Init, Ledger!LedgerInit, VersionIds

\* A row that is created is an acceptance.
LEMMA LedgerAccept ==
  ASSUME SubInv, SubInv', NEW s \in SubNos, NEW mode \in {"new_round", "append"},
         NEW v \in VersionIds, NEW n \in 1..MaxFiles, CreateSubmission(s, mode, v, n)
  PROVE  n \in Candidates /\ Ledger!Accept(mode, v, n)
<1>0. RowInv /\ Typed /\ VersionsFollowRows /\ CreatesRow(s, mode, v, n)
  BY CreateStep DEF SubInv, RowInv
<1>1. Open = Ledger!NothingOpen
  BY <1>0, NothingUnresolved DEF CreatesRow
<1>2. Unresolved(s)'
  BY <1>0 DEF CreatesRow, Unresolved, UnresolvedStatuses
<1>4. OpenIsTheRow'
  BY OpenNext DEF SubInv
<1>5. Open' = [mode |-> subs'[s].mode, version |-> subs'[s].version,
               candidates |-> DOMAIN subs'[s].files]
  BY <1>2, <1>4 DEF OpenIsTheRow
<1>6. Open' = [mode |-> mode, version |-> v, candidates |-> Ledger!NextCandidates(v, n)]
  BY <1>0, <1>5 DEF CreatesRow
<1>7. mode = "new_round" => ~Ledger!Exists(v) /\ \A u \in 1..(v - 1) : Ledger!Exists(u)
  BY <1>0, NumberIsNew DEF CreatesRow
<1>8. n \in Candidates
  <2>0. IsFiniteSet(Candidates)
    BY FS_Interval, Sizes DEF Candidates
  <2>1. IsFiniteSet(versions[v].candidates)
    BY <1>0, <2>0, FS_Subset, VersionTyped
  <2> DEFINE last == Cardinality(versions[v].candidates)
  <2>2. last \in Nat
    BY <2>1, FS_CardinalityType
  <2>3. n \in Nat /\ n > 0
    BY Sizes
  <2>4. (last + 1)..(last + n) \subseteq Candidates
    BY <1>0, SameCardinality DEF CreatesRow, Ledger!NextCandidates
  <2> HIDE DEF last
  <2>5. last + n \in (last + 1)..(last + n)
    BY <2>2, <2>3
  <2>6. last + n \in Candidates
    BY <2>4, <2>5
  <2> QED
    BY <2>2, <2>3, <2>6, Sizes DEF Candidates
<1>9. /\ Ledger!TargetOpen(mode, v) /\ Ledger!NextCandidates(v, n) \subseteq Ledger!CandidateNos
      /\ UNCHANGED <<task, versions, seen>>
  BY <1>0, LedgerNumbers DEF CreatesRow, formal
<1> QED
  BY <1>1, <1>6, <1>7, <1>8, <1>9 DEF Ledger!Accept

\* A formal creation is a settlement.
LEMMA LedgerSettle ==
  ASSUME SubInv, SubInv', NEW s \in SubNos, NEW y \in VersionRecord, CommitsRow(s, y)
  PROVE  Ledger!Settle
<1>0. RowInv
  BY DEF SubInv
<1>1. Open = [mode |-> subs[s].mode, version |-> subs[s].version,
              candidates |-> DOMAIN subs[s].files]
  BY <1>0, NothingUnresolved DEF CommitsRow
<1>2. Open # Ledger!NothingOpen
  BY <1>0, NothingUnresolved DEF CommitsRow
<1>3. OpenIsTheRow'
  BY OpenNext DEF SubInv
<1>4. \A r \in SubNos : ~Unresolved(r)'
  BY DEF CommitsRow
<1>5. Open' = Ledger!NothingOpen
  BY <1>3, <1>4 DEF OpenIsTheRow, Ledger!NothingOpen
<1>6. /\ versions' = Ledger!WithCandidates(Open.mode, Open.version, Open.candidates)
      /\ task' = "pending_review" /\ seen' = seen
  BY <1>1 DEF CommitsRow
<1> QED
  BY <1>2, <1>5, <1>6 DEF Ledger!Settle

LEMMA LedgerStep == ASSUME SubInv, SubInv', [Next]_vars PROVE [Ledger!LedgerNext]_Ledger!ledgerVars
<1>0. RowInv /\ FilesAreThere /\ RowInv'
  BY DEF SubInv
<1>1. CASE Quiet
  <2>1. /\ \A r \in SubNos :
             /\ Unresolved(r)' <=> Unresolved(r)
             /\ subs'[r].mode = subs[r].mode /\ subs'[r].version = subs[r].version
             /\ DOMAIN subs'[r].files = DOMAIN subs[r].files
        /\ UNCHANGED <<task, versions, seen>>
    BY <1>0, <1>1, QuietKeeps
  <2>2. Open' = Open
    BY <1>0, <2>1, OpenKept
  <2> QED
    BY <2>1, <2>2 DEF Ledger!ledgerVars
<1>2. ASSUME NEW s \in SubNos, NEW mode \in {"new_round", "append"}, NEW v \in VersionIds,
             NEW n \in 1..MaxFiles, CreateSubmission(s, mode, v, n)
      PROVE  Ledger!LedgerNext
  <2>1. n \in Candidates /\ Ledger!Accept(mode, v, n)
    BY <1>2, LedgerAccept
  <2> QED
    BY <2>1, LedgerNumbers DEF Ledger!LedgerNext
<1>3. ASSUME NEW s \in SubNos, NEW y \in VersionRecord, CommitsRow(s, y) PROVE Ledger!LedgerNext
  BY <1>3, LedgerSettle DEF Ledger!LedgerNext
<1>4. CASE Review
  BY <1>4, LedgerNumbers DEF Review, Ledger!LedgerNext, VersionIds, Candidates
<1> QED
  BY <1>0, <1>1, <1>2, <1>3, <1>4, StepKinds, CommitStep

\* Publishing file by file and the formal transaction, with their claims,
\* retries, ambiguous commits and deaths (version_publish_worker_service.py),
\* look from outside like one acceptance and one settlement: a version gets the
\* files of one submission, all of them, once, and under the numbers that were
\* reserved for it.
THEOREM SubmissionImplementsLedger == Spec => ImplementsLedger
<1>1. SubInv /\ SubInv' /\ [Next]_vars => [Ledger!LedgerNext]_Ledger!ledgerVars
  BY LedgerStep
<1> QED
  BY <1>1, LedgerStart, SubInit, SubStep, PTL DEF Spec, ImplementsLedger, Ledger!LedgerSpec
==============================================================================
