--------------------------- MODULE DirectoryLocks ---------------------------
(***************************************************************************)
(* The row locks that the transactions around the directory outbox take,   *)
(* in the order in which their statements take them: who can wait for whom *)
(* in a circle.  A transaction keeps every lock until it ends.             *)
(***************************************************************************)
EXTENDS Naturals, Sequences, FiniteSets, SequencesExt

CONSTANTS
  Txns,    \* concurrent transactions
  Ops,     \* directory operations of the project
  NoTxn    \* model value

ASSUME LockAssumption ==
  /\ NoTxn \notin Txns /\ Ops # {} /\ IsFiniteSet(Ops)
  /\ Ops \cap {"project", "storage", "task", "shot", "none"} = {}

VARIABLES
  run,     \* what each transaction is: its kind and the operation it is about
  got,     \* how many of its locks it holds
  holder,  \* which transaction holds each row
  failed   \* the operations that have failed for good; a worker processes the others

lockVars == <<run, got, holder, failed>>

Rows == {"project", "storage", "task", "shot"} \cup Ops
NoRun == [kind |-> "none", op |-> "none"]

\* mark_succeeded as it would be without the project lock of its first statement.
MarkSucceededLocksOpFirst(o) == <<o, "project", "task", "storage">>
\* mark_succeeded of the directory of a task, and of a renumbering.
MarkSucceededLocks(o) == <<"project", o, "task", "storage">>
MarkRenumberedLocks(o) == <<"project", o, "shot", "storage">>

\* mark_retry_wait and mark_failed: the row, then _record_storage_error.
MarkErrorLocks(o) == <<o, "storage">>

RenewLeaseLocks(o) == <<o>>
StartTaskLocks(o) == <<"project", "task", "shot">>
RenumberSceneLocks(o) == <<"project", "shot", "storage">>
RetryProjectStorageLocks(o) == <<"project", "storage">>
RetryOperationLocks(o) == <<o, "project", "storage">>

\* lock_project_context is FOR UPDATE of the joined project and storage rows;
\* then come the target's graph and its operations, or all operations.
ForceDeleteLocks(o) == <<"project", "storage", "shot", "task", o>>
PurgeProjectLocks(o) == <<"project", "storage">> \o SetToSeq(Ops) \o <<"task", "shot">>

LockOrder(r) ==
  CASE r.kind = "mark_succeeded" -> MarkSucceededLocks(r.op)
    [] r.kind = "mark_renumbered" -> MarkRenumberedLocks(r.op)
    [] r.kind = "mark_error" -> MarkErrorLocks(r.op)
    [] r.kind = "renew_lease" -> RenewLeaseLocks(r.op)
    [] r.kind = "start_task" -> StartTaskLocks(r.op)
    [] r.kind = "renumber_scene" -> RenumberSceneLocks(r.op)
    [] r.kind = "retry_project_storage" -> RetryProjectStorageLocks(r.op)
    [] r.kind = "retry_operation" -> RetryOperationLocks(r.op)
    [] r.kind = "force_delete" -> ForceDeleteLocks(r.op)
    [] r.kind = "purge_project" -> PurgeProjectLocks(r.op)
    [] OTHER -> <<>>

WorkerKinds == {"mark_succeeded", "mark_renumbered", "mark_error", "renew_lease"}
RequestKinds == {"start_task", "renumber_scene", "retry_project_storage", "purge_project"}

NextRow(t) == LockOrder(run[t])[got[t] + 1]
\* _lock_owned_operation asks for a row in processing only; a retry goes on to the
\* project only if the row it has locked turns out to have failed.
MayGoOn(t) ==
  /\ run[t].kind \in WorkerKinds /\ NextRow(t) = run[t].op => run[t].op \notin failed
  /\ run[t].kind = "retry_operation" /\ got[t] = 1 => run[t].op \in failed
Waiting(t) == got[t] < Len(LockOrder(run[t])) /\ MayGoOn(t)

Lock(t) ==
  /\ Waiting(t)
  /\ holder[NextRow(t)] = NoTxn
  /\ holder' = [holder EXCEPT ![NextRow(t)] = t]
  /\ got' = [got EXCEPT ![t] = @ + 1]
  /\ UNCHANGED <<run, failed>>

\* mark_failed, with both of its rows; mark_retry_wait leaves the row to a worker.
Outcome(t) ==
  \/ UNCHANGED failed
  \/ run[t].kind = "mark_error" /\ got[t] = 2 /\ failed' = failed \cup {run[t].op}

Leave(t) ==
  /\ run' = [run EXCEPT ![t] = NoRun]
  /\ got' = [got EXCEPT ![t] = 0]
  /\ holder' = [r \in Rows |-> IF holder[r] = t THEN NoTxn ELSE holder[r]]

\* Commit, or rollback after a refusal at any point.
End(t) ==
  /\ run[t] # NoRun
  /\ Waiting(t) => holder[NextRow(t)] = NoTxn
  /\ Outcome(t)
  /\ Leave(t)

WaitsFor(t, u) == Waiting(t) /\ holder[NextRow(t)] = u

\* Each of a set of transactions waits for another one of the set.
Circle(S) == S # {} /\ \A t \in S : \E u \in S : WaitsFor(t, u)

\* PostgreSQL finds the circle after a while and rolls one of them back.
Cancel(t) ==
  /\ \E S \in SUBSET Txns : t \in S /\ Circle(S)
  /\ Leave(t)
  /\ UNCHANGED failed

LockRuns ==
  [kind : WorkerKinds \cup {"retry_operation", "force_delete"}, op : Ops]
    \cup [kind : RequestKinds, op : {"none"}]

BeginTxn(t) ==
  /\ run[t] = NoRun
  /\ \E r \in LockRuns : run' = [run EXCEPT ![t] = r]
  /\ UNCHANGED <<got, holder, failed>>

LockInit ==
  /\ run = [t \in Txns |-> NoRun]
  /\ got = [t \in Txns |-> 0]
  /\ holder = [r \in Rows |-> NoTxn]
  /\ failed \in SUBSET Ops

LockNext ==
  \E t \in Txns : BeginTxn(t) \/ Lock(t) \/ End(t) \/ Cancel(t)

LockSpec == LockInit /\ [][LockNext]_lockVars

-----------------------------------------------------------------------------
(* Properties.                                                             *)

\* Whenever transactions wait in a circle, a deletion that holds the project is
\* among them and waits for an operation whose error is written back, or which
\* is retried by hand, and that transaction waits for the deletion.  No other
\* two transactions, and no larger circle, ever block each other: the lock of
\* the project that mark_succeeded takes first keeps the successful write-back
\* out of every circle.
OnlyDeletionsDeadlock ==
  \A S \in SUBSET Txns : Circle(S) =>
    \E t, u \in S :
      /\ run[t].kind \in {"force_delete", "purge_project"} /\ holder["project"] = t
      /\ run[u].kind \in {"mark_error", "retry_operation"} /\ NextRow(t) = run[u].op
      /\ WaitsFor(t, u) /\ WaitsFor(u, t)

\* A forced deletion and the write-back of a worker never block each other: the
\* plan of the permanent deletion asks for one order of the project lock and the
\* locks of the running records, and the verification record dismisses a deadlock
\* over the storage and the operation rows.
ForceDeleteNeverBlocksAWorker ==
  \A t, u \in Txns :
    run[t].kind = "force_delete" /\ run[u].kind \in WorkerKinds =>
      ~(WaitsFor(t, u) /\ WaitsFor(u, t))
=============================================================================
