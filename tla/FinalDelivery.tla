--------------------------- MODULE FinalDelivery ---------------------------
(***************************************************************************)
(* The delivery of a task's approved candidate to the FINAL directory of   *)
(* the NAS and its revocation when the version is reopened: the rows of    *)
(* sg_final_delivery, the delivery worker with its file system threads,    *)
(* and the manifest CURRENT-<task>.json that tells which file is valid.    *)
(* The versions, submissions and reviews come from VersionLedger.          *)
(***************************************************************************)
EXTENDS VersionLedger, Sequences

CONSTANTS
  Workers,       \* scheduler batches, one claimed row each
  MaxAttempts,   \* DEFAULT_MAX_ATTEMPTS
  MaxRows,       \* bound: rows of the outbox
  MaxRaises,     \* bound: heartbeats that end with a database error
  MaxCrashes,    \* bound: worker deaths and failed write-backs
  NoWorker       \* model value

ASSUME DeliveryAssumption ==
  /\ {MaxAttempts, MaxRows} \subseteq Nat \ {0} /\ {MaxRaises, MaxCrashes} \subseteq Nat
  /\ NoWorker \notin Workers /\ Workers \cap 1..MaxRaises = {}

VARIABLES
  rows,      \* sg_final_delivery of the task, in the order of their ids
  worker,    \* what each worker is doing
  io,        \* the file system thread of each worker, and the abandoned ones
  manifest,  \* CURRENT-<task>.json: its generation, 0 before there is one
  raises,    \* heartbeats that have raised so far
  crashes    \* deaths so far

delivery == <<rows, worker, io, manifest, raises, crashes>>
vars == <<ledgerVars, delivery>>

Idle == [pc |-> "idle", row |-> 0, attempt |-> 0]
NoThread == [row |-> 0, at |-> "none"]
Threads == Workers \cup 1..MaxRaises

NewRow(op, v, cycle, c, validity) ==
  [op |-> op, version |-> v, cycle |-> cycle, candidate |-> c, validity |-> validity,
   status |-> "pending", attempt |-> 0, owner |-> NoWorker]

\* A row that still speaks for the task; a revoked publication does not.
Effective(i) == rows[i].op = "revoke" \/ rows[i].validity = "current"

\* get_for_update: the newest row of the version, 0 if it has none.
Newest(v) ==
  LET own == {i \in DOMAIN rows : rows[i].version = v}
  IN IF own = {} THEN 0 ELSE CHOOSE i \in own : \A j \in own : j <= i

-----------------------------------------------------------------------------
(* The API.                                                                *)

\* The approval queues the publication in its own transaction.
ApproveAndEnqueue(v, c) ==
  /\ Len(rows) < MaxRows
  /\ Approve(v, c)
  /\ rows' = Append(rows, NewRow("publish", v, versions[v].cycle, c, "current"))
  /\ UNCHANGED <<worker, io, manifest, raises, crashes>>

NotBusyUnchecked == TRUE
\* blocked_reason: nothing of this task is being executed, not even for a worker
\* that has died.
NotBusy == \A i \in DOMAIN rows : rows[i].status # "publishing"

RevokedStillValid(i) == [rows[i] EXCEPT !.status = IF @ = "pending" THEN "cancelled" ELSE @]
\* A publication that has not begun is cancelled, a finished one keeps its result.
Revoked(i) ==
  [rows[i] EXCEPT !.validity = "revoked",
                  !.status = IF @ = "pending" THEN "cancelled" ELSE @]

\* reopen: refused while a row of the task is being executed; the current
\* publication loses its validity and a revocation is queued behind it.
ReopenAndRevoke(v) ==
  LET i == Newest(v) IN
  /\ Len(rows) < MaxRows
  /\ NotBusy
  /\ i # 0 /\ rows[i].op = "publish" /\ rows[i].validity = "current"
  /\ Reopen(v)
  /\ rows' = Append([rows EXCEPT ![i] = Revoked(i)],
                    NewRow("revoke", v, versions[v].cycle + 1, rows[i].candidate, "revoked"))
  /\ UNCHANGED <<worker, io, manifest, raises, crashes>>

FailedRevokes == {i \in DOMAIN rows : rows[i].op = "revoke" /\ rows[i].status = "failed"}

\* retry_final_delivery: the oldest failed revocation of the task goes first,
\* whatever version the request names.
RetryDelivery(v) ==
  LET i == IF FailedRevokes = {} THEN Newest(v)
           ELSE CHOOSE j \in FailedRevokes : \A k \in FailedRevokes : j <= k IN
  /\ i # 0
  /\ rows[i].op = "publish" =>
       rows[i].validity = "current" /\ versions[v].status = "final" /\ task = "completed"
  /\ rows[i].status = "failed"
  /\ rows' = [rows EXCEPT ![i].status = "pending", ![i].attempt = 0]
  /\ UNCHANGED <<ledgerVars, worker, io, manifest, raises, crashes>>

-----------------------------------------------------------------------------
(* The delivery worker.                                                    *)

\* Rows of a task run in the order of their ids: an effective predecessor that
\* is waiting, running or has failed holds the row back.
Due(i) ==
  /\ rows[i].status = "pending" /\ Effective(i)
  /\ \A j \in 1..(i - 1) :
       Effective(j) => rows[j].status \notin {"pending", "publishing", "failed"}

\* _build_context: the state the publication was approved in.
StillApproved(i) ==
  LET r == rows[i] IN
  \/ r.op = "revoke"
  \/ /\ r.validity = "current" /\ task = "completed"
     /\ versions[r.version].status = "final" /\ versions[r.version].selected = r.candidate

\* claim_next, and the start of the file system thread. A revocation copies
\* nothing. A row whose state has changed, or with too many attempts, fails.
ClaimNext(w, i) ==
  LET attempt == rows[i].attempt + 1 IN
  /\ worker[w].pc = "idle"
  /\ Due(i)
  /\ rows' = [rows EXCEPT ![i].status = "publishing", ![i].attempt = attempt, ![i].owner = w]
  /\ worker' = [worker EXCEPT ![w] = [pc |-> "waiting", row |-> i, attempt |-> attempt]]
  /\ io' = [io EXCEPT ![w] = [row |-> i, at |->
       CASE ~StillApproved(i) \/ attempt > MaxAttempts -> "refused"
         [] rows[i].op = "publish" -> "files"
         [] OTHER -> "read"]]
  /\ UNCHANGED <<ledgerVars, manifest, raises, crashes>>

\* A thread goes on to its next call or to its result, which nobody reads of an
\* abandoned one.
Advance(t, at) ==
  io' = [io EXCEPT ![t] = IF t \notin Workers /\ at \in {"done", "error", "refused"}
                          THEN NoThread ELSE [@ EXCEPT !.at = at]]

\* _publish_final_sync: the candidate and its FINAL.json in the directory of
\* this version and cycle, never overwritten.
PublishFiles(t) ==
  /\ io[t].at = "files"
  /\ Advance(t, "read")
  /\ UNCHANGED <<ledgerVars, rows, worker, manifest, raises, crashes>>

NextIfAbsent(t) == IF manifest = 0 THEN "replace" ELSE "done"
\* What the generation of the manifest means for an operation: it is newer, it
\* is its own (a repeated attempt), or it is to be replaced.
NextIfOlder(t) ==
  CASE manifest > io[t].row -> "refused"
    [] manifest = io[t].row -> "done"
    [] OTHER -> "replace"

\* _write_current_manifest looks at the generation of the manifest ...
ReadManifest(t) ==
  /\ io[t].at = "read"
  /\ Advance(t, NextIfOlder(t))
  /\ UNCHANGED <<ledgerVars, rows, worker, manifest, raises, crashes>>

\* ... and replaces the file, whatever it says by then. "raised": the file is
\* replaced, but removing the temporary one fails or the answer is lost.
ReplaceManifest(t, raised) ==
  /\ io[t].at = "replace"
  /\ manifest' = io[t].row
  /\ Advance(t, IF raised THEN "error" ELSE "done")
  /\ UNCHANGED <<ledgerVars, rows, worker, raises, crashes>>

IoFails(t, retryable) ==
  /\ io[t].at \in {"files", "read", "replace"}
  /\ Advance(t, IF retryable THEN "error" ELSE "refused")
  /\ UNCHANGED <<ledgerVars, rows, worker, manifest, raises, crashes>>

\* _renew_lease raises: _run_io_guardian does not wait for the thread, which
\* goes on by itself while the worker records a failure.
RenewRaises(w) ==
  /\ io[w].at \in {"files", "read", "replace"}
  /\ raises < MaxRaises
  /\ raises' = raises + 1
  /\ io' = [io EXCEPT ![raises + 1] = io[w], ![w].at = "error"]
  /\ UNCHANGED <<ledgerVars, rows, worker, manifest, crashes>>

\* The fence of every write-back: status, owner and attempt.
Holds(w) ==
  LET r == rows[worker[w].row] IN
  r.status = "publishing" /\ r.owner = w /\ r.attempt = worker[w].attempt

Released(i, status) == [rows EXCEPT ![i].status = status, ![i].owner = NoWorker]
Rest(w) ==
  /\ worker' = [worker EXCEPT ![w] = Idle]
  /\ io' = [io EXCEPT ![w] = NoThread]

MarkPublished(w) ==
  /\ io[w].at = "done"
  /\ Holds(w)
  /\ rows' = Released(worker[w].row, "published")
  /\ Rest(w)
  /\ UNCHANGED <<ledgerVars, manifest, raises, crashes>>

Terminal(retryable, attempt) == ~retryable \/ attempt >= MaxAttempts

\* _record_failure, also for a thread that is done when the write-back raises.
RecordFailure(w) ==
  LET status == IF Terminal(io[w].at # "refused", worker[w].attempt)
                THEN "failed" ELSE "pending" IN
  /\ io[w].at \in {"error", "refused", "done"}
  /\ Holds(w)
  /\ rows' = Released(worker[w].row, status)
  /\ Rest(w)
  /\ UNCHANGED <<ledgerVars, manifest, raises, crashes>>

\* The process dies, or the write-back of a failure fails: the row stays in
\* publishing, where only an administrator can help it.
Crash(w) ==
  /\ worker[w].pc # "idle"
  /\ crashes < MaxCrashes
  /\ crashes' = crashes + 1
  /\ Rest(w)
  /\ UNCHANGED <<ledgerVars, rows, manifest, raises>>

-----------------------------------------------------------------------------
Init ==
  /\ LedgerInit
  /\ rows = <<>>
  /\ worker = [w \in Workers |-> Idle]
  /\ io = [t \in Threads |-> NoThread]
  /\ manifest = 0
  /\ raises = 0
  /\ crashes = 0

\* The steps of the ledger that do not touch the delivery.
Production ==
  /\ UNCHANGED delivery
  /\ \/ \E mode \in {"new_round", "append"}, v \in VersionNos, n \in CandidateNos :
          Accept(mode, v, n)
     \/ Settle
     \/ LoadCandidates
     \/ \E v \in VersionNos : OpenPage(v) \/ Reject(v)

ThreadStep(t) ==
  \/ PublishFiles(t) \/ ReadManifest(t)
  \/ \E raised \in BOOLEAN : ReplaceManifest(t, raised)
  \/ \E retryable \in BOOLEAN : IoFails(t, retryable)

Next ==
  \/ Production
  \/ \E v \in VersionNos :
       \/ \E c \in CandidateNos : ApproveAndEnqueue(v, c)
       \/ ReopenAndRevoke(v)
       \/ RetryDelivery(v)
  \/ \E w \in Workers :
       \/ \E i \in DOMAIN rows : ClaimNext(w, i)
       \/ RenewRaises(w) \/ MarkPublished(w) \/ RecordFailure(w) \/ Crash(w)
  \/ \E t \in Threads : ThreadStep(t)

Spec == Init /\ [][Next]_vars

\* The leader's job comes round again and again, and what a worker has claimed
\* it carries to an end: a file system call returns, its result is written back.
DeliveryFairness ==
  /\ WF_vars(\E w \in Workers, i \in 1..MaxRows : i \in DOMAIN rows /\ ClaimNext(w, i))
  /\ \A w \in Workers : WF_vars(ThreadStep(w) \/ MarkPublished(w) \/ RecordFailure(w))
FairSpec == Spec /\ DeliveryFairness

-----------------------------------------------------------------------------
(* Properties.                                                             *)

\* The values each part of the state ranges over.
TypeOK ==
  /\ rows \in Seq(
       [op : {"publish", "revoke"}, version : VersionNos, cycle : 1..MaxCycles,
        candidate : CandidateNos, validity : {"current", "revoked"},
        status : {"pending", "publishing", "published", "failed", "cancelled"},
        attempt : 0..MaxAttempts, owner : Workers \cup {NoWorker}]) /\ Len(rows) <= MaxRows
  /\ worker \in [Workers -> [pc : {"idle", "waiting"}, row : 0..MaxRows, attempt : 0..MaxAttempts]]
  /\ io \in [Threads -> [row : 0..MaxRows,
       at : {"none", "files", "read", "replace", "done", "error", "refused"}]]
  /\ manifest \in 0..Len(rows)
  /\ raises \in 0..MaxRaises /\ crashes \in 0..MaxCrashes

\* A completed task has exactly one valid delivery, of the candidate that was
\* approved in the last cycle of its final version; any other task has none.
CompletedHasOneDelivery ==
  LET valid == {i \in DOMAIN rows : rows[i].validity = "current"} IN
  IF task = "completed"
  THEN \E i \in valid :
         /\ valid = {i}
         /\ rows[i].op = "publish"
         /\ versions[rows[i].version].status = "final"
         /\ versions[rows[i].version].cycle = rows[i].cycle
         /\ versions[rows[i].version].selected = rows[i].candidate
  ELSE valid = {}

\* Only one delivery of the task is executed at a time, in the order of the
\* rows: whatever was queued before it is finished or void.
DeliveriesRunInOrder ==
  \A i \in DOMAIN rows : rows[i].status \in {"publishing", "published"} =>
    \A j \in 1..(i - 1) : Effective(j) => rows[j].status = "published"

\* When all work is done and no thread has been abandoned, the manifest is that
\* of the newest row: the valid file is the approved one, and after a reopening
\* no file is valid.
ManifestTellsTheTruth ==
  LET effective == {i \in DOMAIN rows : Effective(i)} IN
  (raises = 0 /\ effective # {} /\ \A i \in effective : rows[i].status = "published")
    => \A i \in effective : i <= manifest

\* As long as no heartbeat raises, which _run_io_guardian answers by abandoning
\* its thread, the manifest of an older delivery never replaces a newer one,
\* although a thread reads the generation in one call and replaces in another.
ManifestMovesForward == [][raises = 0 => manifest' >= manifest]_manifest

\* As long as no worker dies, the queue drains: a time comes when every delivery
\* is finished, has failed or is void, or waits behind one that has failed and
\* that a manual retry of the task will find.
DeliverySettles ==
  (\E i \in DOMAIN rows : rows[i].status = "pending") ~>
    \/ \A i \in DOMAIN rows :
         \/ rows[i].status \in {"published", "failed", "cancelled"}
         \/ \E j \in 1..(i - 1) : Effective(j) /\ rows[j].status = "failed"
    \/ crashes > 0

\* One valid delivery for a completed task, executed in the order of the rows.
DeliverySafe == TypeOK /\ CompletedHasOneDelivery /\ DeliveriesRunInOrder

\* The deliveries take effect: the manifest moves forward only, and to the end.
DeliveriesTakeEffect == ManifestMovesForward /\ DeliverySettles
=============================================================================
