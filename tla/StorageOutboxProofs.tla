------------------------ MODULE StorageOutboxProofs ------------------------
(***************************************************************************)
(* What the directory outbox guarantees for any number of workers, clients,*)
(* tasks and operations: its rows keep their types and their attempt count *)
(* stays within MAX_ATTEMPTS, a claimed row belongs to the worker that is  *)
(* processing it until that worker writes back, a finished row is never    *)
(* touched again, the names in the database and on the NAS differ only     *)
(* while a renumbering is unfinished, a started shot keeps its name, and   *)
(* the outbox is a lease queue without takeover.                           *)
(*                                                                         *)
(* The second half is about what the statuses of a project mean: a task    *)
(* that waits has an operation behind it, a task in production has its     *)
(* directory, an asset's directory has a started item behind it, and the   *)
(* project's storage status is the outcome of its newest initialization    *)
(* and of its newest renumbering.                                          *)
(***************************************************************************)
EXTENDS StorageOutbox, FiniteSetTheorems, TLAPS

\* A row that can still be claimed has an attempt left, and only a row that
\* is being processed has a lease.
RowConsistent(op) ==
  /\ op \in OpRecord
  /\ op.status \in {"pending", "retry_wait"} => op.attempt < MaxAttempts
  /\ op.lease = TRUE => op.status = "processing"
RowsConsistent == \A i \in OpIds : RowConsistent(ops[i])

IInv == TypeOK /\ RowsConsistent /\ ClaimsOwned

-----------------------------------------------------------------------------
(* Facts about the operators the actions are built from.                   *)

\* A queued operation is a well-typed row with all its attempts left.
LEMMA OpType ==
  ASSUME NEW type \in {"initialize_project", "ensure_directory",
                       "reconcile_directory", "renumber_shot_directories"},
         NEW agg \in Aggregates \cup {Nothing}, NEW path \in Nat,
         NEW items \in SUBSET Shots, NEW expected \in [Shots -> Nat]
  PROVE  RowConsistent(Op(type, agg, path, items, expected))
  BY OutboxAssumption DEF Op, OpRecord, OpStatus, Active, RowConsistent

LEMMA DirectoryOpType ==
  ASSUME TypeOK,
         NEW type \in {"initialize_project", "ensure_directory", "reconcile_directory"},
         NEW a \in Aggregates \cup {Nothing}
  PROVE  RowConsistent(DirectoryOp(type, a))
<1>1. PathOf(a) \in Nat
  BY DEF PathOf, TypeOK
<1>2. NoItems \in [Shots -> Nat] /\ {} \in SUBSET Shots
  BY DEF NoItems
<1> QED
  BY <1>1, <1>2, OpType DEF DirectoryOp

\* A worker keeps its claim through a step that changes neither the worker
\* nor the issued rows.
LEMMA ClaimsKept ==
  ASSUME ClaimsOwned, UNCHANGED worker, Issued \subseteq Issued',
         \A i \in Issued : ops'[i] = ops[i]
  PROVE  ClaimsOwned'
  BY DEF ClaimsOwned, Owned

\* Queueing a row leaves every issued row alone and keeps the invariant.
LEMMA EnqueueKeeps ==
  ASSUME IInv, NEW op, RowConsistent(op), Enqueue(op), UNCHANGED worker
  PROVE  /\ ops' \in [OpIds -> OpRecord]
         /\ nextOp' \in 1..(MaxOps + 1)
         /\ RowsConsistent'
         /\ ClaimsOwned'
         /\ \A i \in Issued : ops'[i] = ops[i]
<1>1. nextOp \in OpIds
  BY OutboxAssumption DEF IInv, TypeOK, Enqueue, OpIds
<1>2. ops' = [ops EXCEPT ![nextOp] = op] /\ nextOp' = nextOp + 1
  BY DEF Enqueue
<1>3. ops' \in [OpIds -> OpRecord] /\ nextOp' \in 1..(MaxOps + 1)
  BY <1>1, <1>2, OutboxAssumption DEF IInv, TypeOK, OpIds, RowConsistent
<1>4. \A i \in Issued : ops'[i] = ops[i]
  BY <1>1, <1>2 DEF IInv, TypeOK, OpIds, Issued
<1>5. RowsConsistent'
  BY <1>1, <1>2 DEF IInv, TypeOK, RowsConsistent
<1>6. Issued \subseteq Issued'
  BY <1>1, <1>2 DEF Issued, OpIds
<1>7. ClaimsOwned'
  BY <1>4, <1>6, ClaimsKept DEF IInv
<1> QED
  BY <1>3, <1>4, <1>5, <1>7

\* Releasing a claim disturbs no other claim: two workers never own one row.
LEMMA ReleaseKeepsClaims ==
  ASSUME IInv, NEW w \in Workers, worker[w].pc # "idle",
         worker' = [worker EXCEPT ![w] = Idle], UNCHANGED nextOp,
         \A j \in OpIds \ {worker[w].op} : ops'[j] = ops[j]
  PROVE  ClaimsOwned'
<1> SUFFICES ASSUME NEW v \in Workers, worker'[v].pc # "idle"
             PROVE  worker'[v].op \in Issued' /\ Owned(v)'
  BY DEF ClaimsOwned
<1>1. v # w /\ worker'[v] = worker[v]
  BY DEF IInv, TypeOK, Idle
<1>2. Owned(v) /\ Owned(w) /\ worker[v].op \in Issued
  BY <1>1 DEF IInv, ClaimsOwned
<1>3. worker[v].op # worker[w].op
  BY <1>1, <1>2 DEF Owned
<1>4. worker[v].op \in OpIds
  BY <1>2, OutboxAssumption DEF IInv, TypeOK, Issued, OpIds
<1>5. ops'[worker[v].op] = ops[worker[v].op]
  BY <1>3, <1>4
<1> QED
  BY <1>1, <1>2, <1>5 DEF Owned, Issued

-----------------------------------------------------------------------------
(* The initial states.                                                     *)

LEMMA InitIInv == Init => IInv
<1> SUFFICES ASSUME Init PROVE IInv
  OBVIOUS
<1> USE DEF Init
<1>1. Cardinality(Legacy) \in Nat
  BY OutboxAssumption, FS_CardinalityType
<1>2. /\ nextOp \in 1..(MaxOps + 1)
      /\ storage \in StorageStatus
      /\ task \in [Tasks -> {"not_started", "preparing", "in_progress"}]
      /\ named \in [Shots -> BOOLEAN]
      /\ shotName \in [Shots -> Nat] /\ shotLock \in [Shots -> Nat]
      /\ diskName \in [Shots -> Nat] /\ faults \in Nat
  BY <1>1, OutboxAssumption DEF StorageStatus
<1>3. worker \in [Workers -> WorkerRecord]
  BY DEF Idle, WorkerRecord
<1>4. tx \in [Clients -> TxRecord]
  BY DEF NoRequest, TxRecord, OpStatus
<1>5. made \in [Aggregates -> BOOLEAN]
  OBVIOUS
<1>6. ASSUME NEW type \in {"initialize_project", "ensure_directory"},
             NEW a \in Aggregates \cup {Nothing}
      PROVE  /\ RowConsistent(DirectoryOp(type, a))
             /\ RowConsistent(Finished(DirectoryOp(type, a)))
  <2>1. PathOf(a) \in Nat /\ NoItems \in [Shots -> Nat] /\ {} \in SUBSET Shots
    BY DEF PathOf, NoItems
  <2>2. RowConsistent(DirectoryOp(type, a)) /\ DirectoryOp(type, a).lease = FALSE
    BY <2>1, OpType DEF DirectoryOp, Op
  <2> QED
    BY <2>2 DEF Finished, RowConsistent, OpRecord, OpStatus
<1>7. ASSUME NEW rank, NEW i \in OpIds
      PROVE  RowConsistent(InitialOp(rank, i))
  <2> DEFINE finishedBefore == {a \in LegacyShots : rank[a] = i}
             queuedBefore == {a \in LegacyAssets : rank[a] = i}
             later == IF queuedBefore # {} THEN CHOOSE a \in queuedBefore : TRUE
                      ELSE Nothing
  <2>1. CASE i = 1
    BY <1>6, <2>1 DEF InitialOp, Aggregates
  <2>2. CASE i # 1 /\ finishedBefore # {}
    <3> DEFINE a == CHOOSE b \in finishedBefore : TRUE
    <3>1. a \in finishedBefore
      BY <2>2
    <3>2. a \in Aggregates
      BY <3>1, OutboxAssumption DEF Aggregates
    <3>3. InitialOp(rank, i) = Finished(DirectoryOp("ensure_directory", a))
      BY <2>2 DEF InitialOp
    <3> QED
      BY <1>6, <3>2, <3>3
  <2>3. CASE i # 1 /\ finishedBefore = {}
    <3>1. later \in Aggregates \cup {Nothing}
      BY OutboxAssumption DEF Aggregates
    <3>2. InitialOp(rank, i) = DirectoryOp("ensure_directory", later)
      BY <2>3 DEF InitialOp
    <3> QED
      BY <1>6, <3>1, <3>2
  <2> QED
    BY <2>1, <2>2, <2>3
<1>8. ops \in [OpIds -> OpRecord] /\ RowsConsistent
  <2>1. PICK rank : ops = [i \in OpIds |-> InitialOp(rank, i)]
    BY DEF InitialOps
  <2> QED
    BY <1>7, <2>1 DEF RowsConsistent, RowConsistent
<1>9. ClaimsOwned
  BY DEF ClaimsOwned, Idle
<1> QED
  BY <1>2, <1>3, <1>4, <1>5, <1>8, <1>9 DEF IInv, TypeOK

-----------------------------------------------------------------------------
(* The steps of the API requests.                                          *)

LEMMA HoldingType ==
  ASSUME TypeOK, NEW r \in Tasks \cup Episodes \cup {Scene, Nothing},
         NEW seen \in StorageStatus \cup {Nothing}
  PROVE  Holding(r, seen) \in TxRecord
<1>1. ASSUME NEW a PROVE LatestStatus(a) \in OpStatus \cup {"none"}
  <2>1. CASE \E i \in Issued : IsLatest(i, a)
    <3> DEFINE i == CHOOSE j \in Issued : IsLatest(j, a)
    <3>1. i \in Issued
      BY <2>1
    <3>2. i \in OpIds
      BY <3>1, OutboxAssumption DEF TypeOK, Issued, OpIds
    <3>3. ops[i].status \in OpStatus
      BY <3>2 DEF TypeOK, OpRecord
    <3> QED
      BY <2>1, <3>3 DEF LatestStatus
  <2> QED
    BY <2>1 DEF LatestStatus
<1> QED
  BY <1>1 DEF Holding, TxRecord

\* Waiting for, getting and giving up the project lock touches requests only.
LEMMA LockStep ==
  ASSUME IInv, NEW c \in Clients,
         \/ \E r \in Tasks \cup Episodes \cup {Scene} : Begin(c, r)
         \/ Acquire(c)
         \/ Abort(c)
  PROVE  IInv'
<1>1. tx' \in [Clients -> TxRecord]
  <2>1. ASSUME NEW r \in Tasks \cup Episodes \cup {Scene}, Begin(c, r)
        PROVE  tx' \in [Clients -> TxRecord]
    <3>1. Holding(r, storage) \in TxRecord
      BY HoldingType DEF IInv, TypeOK
    <3>2. [NoRequest EXCEPT !.pc = "waiting", !.req = r, !.seen = storage] \in TxRecord
      BY DEF IInv, TypeOK, NoRequest, TxRecord
    <3> QED
      BY <2>1, <3>1, <3>2 DEF Begin, IInv, TypeOK
  <2>2. CASE Acquire(c)
    <3>1. /\ tx[c].seen \in StorageStatus \cup {Nothing}
          /\ tx[c].req \in Tasks \cup Episodes \cup {Scene, Nothing}
      BY DEF IInv, TypeOK, TxRecord
    <3>2. Holding(tx[c].req, tx[c].seen) \in TxRecord
      BY <3>1, HoldingType, <2>2 DEF IInv, Acquire
    <3> QED
      BY <2>2, <3>2 DEF Acquire, IInv, TypeOK
  <2>3. CASE Abort(c)
    BY <2>3 DEF Abort, IInv, TypeOK, NoRequest, TxRecord, OpStatus
  <2> QED
    BY <2>1, <2>2, <2>3
<1>2. UNCHANGED <<ops, nextOp, storage, task, named, shotName, shotLock, worker,
                  made, diskName, faults>>
  BY DEF Begin, Acquire, Abort
<1>3. TypeOK' /\ RowsConsistent'
  BY <1>1, <1>2 DEF IInv, TypeOK, RowsConsistent
<1>4. ClaimsOwned'
  BY <1>2 DEF IInv, ClaimsOwned, Issued, Owned
<1> QED
  BY <1>3, <1>4 DEF IInv

\* Returning from a request is well typed.
LEMMA ReturnType ==
  ASSUME TypeOK, NEW c \in Clients
  PROVE  [tx EXCEPT ![c] = NoRequest] \in [Clients -> TxRecord]
  BY DEF TypeOK, NoRequest, TxRecord, OpStatus

LEMMA StartTaskStep ==
  ASSUME IInv, NEW c \in Clients, NEW t \in Tasks, StartTask(c, t)
  PROVE  IInv'
<1> DEFINE a == Target[t]
<1>1. a \in Shots \cup Assets /\ a \in Aggregates \cup {Nothing}
  BY OutboxAssumption DEF Aggregates
<1>2. /\ task' \in [Tasks -> {"not_started", "preparing", "in_progress"}]
      /\ named' \in [Shots -> BOOLEAN]
      /\ shotLock' \in [Shots -> Nat]
      /\ tx' \in [Clients -> TxRecord]
      /\ UNCHANGED <<storage, shotName, worker, made, diskName, faults>>
  BY ReturnType DEF StartTask, StartStatus, IInv, TypeOK
<1>3. /\ ops' \in [OpIds -> OpRecord] /\ nextOp' \in 1..(MaxOps + 1)
      /\ RowsConsistent' /\ ClaimsOwned'
  <2>1. CASE Enqueue(DirectoryOp("ensure_directory", a))
    BY <1>1, <1>2, <2>1, DirectoryOpType, EnqueueKeeps DEF IInv
  <2>2. CASE UNCHANGED <<ops, nextOp>>
    BY <1>2, <2>2, ClaimsKept DEF IInv, TypeOK, RowsConsistent, Issued
  <2> QED
    BY <2>1, <2>2 DEF StartTask
<1> QED
  BY <1>2, <1>3 DEF IInv, TypeOK

LEMMA CreateEpisodeStep ==
  ASSUME IInv, NEW c \in Clients, NEW e \in Episodes, CreateEpisode(c, e)
  PROVE  IInv'
<1>1. /\ tx' \in [Clients -> TxRecord]
      /\ UNCHANGED <<storage, task, named, shotName, shotLock, worker, made,
                      diskName, faults>>
  BY ReturnType DEF CreateEpisode, IInv
<1>2. /\ ops' \in [OpIds -> OpRecord] /\ nextOp' \in 1..(MaxOps + 1)
      /\ RowsConsistent' /\ ClaimsOwned'
  BY <1>1, DirectoryOpType, EnqueueKeeps DEF CreateEpisode, IInv, Aggregates
<1> QED
  BY <1>1, <1>2 DEF IInv, TypeOK

LEMMA RenumberSceneStep ==
  ASSUME IInv, NEW c \in Clients, NEW items \in SUBSET Shots,
         RenumberScene(c, items)
  PROVE  IInv'
<1> DEFINE op == Op("renumber_shot_directories", Scene, 0, items, shotLock)
<1>1. RowConsistent(op)
  BY OpType DEF IInv, TypeOK, Aggregates
<1>2. /\ tx' \in [Clients -> TxRecord]
      /\ storage' \in StorageStatus
      /\ UNCHANGED <<task, named, shotName, shotLock, worker, made, diskName, faults>>
  BY ReturnType DEF RenumberScene, IInv, StorageStatus
<1>3. Enqueue(op)
  BY DEF RenumberScene
<1> HIDE DEF op
<1>4. /\ ops' \in [OpIds -> OpRecord] /\ nextOp' \in 1..(MaxOps + 1)
      /\ RowsConsistent' /\ ClaimsOwned'
  BY <1>1, <1>2, <1>3, EnqueueKeeps
<1> QED
  BY <1>2, <1>4 DEF IInv, TypeOK

\* A manual retry queues a new row and never reuses the failed one.
LEMMA RetryStep ==
  ASSUME IInv, RetryProjectStorage \/ \E i \in Issued : RetryOperation(i)
  PROVE  IInv'
<1>1. PICK op : Enqueue(op) /\ RowConsistent(op)
  <2>1. CASE RetryProjectStorage
    BY <2>1, DirectoryOpType DEF RetryProjectStorage, IInv, Aggregates
  <2>2. ASSUME NEW i \in Issued, RetryOperation(i)
        PROVE  \E op : Enqueue(op) /\ RowConsistent(op)
    <3>1. ops[i] \in OpRecord
      BY <2>2, OutboxAssumption DEF IInv, TypeOK, Issued, OpIds
    <3>2. CASE IsShotRenumber(ops[i])
      <4> DEFINE op == Op(ops[i].type, Scene, 0, ops[i].items, ops[i].expected)
      <4>1. RowConsistent(op)
        <5>1. /\ ops[i].type \in {"initialize_project", "ensure_directory",
                               "reconcile_directory", "renumber_shot_directories"}
              /\ ops[i].items \in SUBSET Shots
              /\ ops[i].expected \in [Shots -> Nat]
          BY <3>1 DEF OpRecord
        <5>2. Scene \in Aggregates \cup {Nothing} /\ 0 \in Nat
          BY DEF Aggregates
        <5> QED
          BY <5>1, <5>2, OpType
      <4>2. Enqueue(op)
        BY <2>2, <3>2 DEF RetryOperation
      <4> QED
        BY <4>1, <4>2
    <3>3. CASE ~IsShotRenumber(ops[i])
      <4> DEFINE op == DirectoryOp("reconcile_directory", ops[i].agg)
      <4>1. RowConsistent(op)
        BY <3>1, DirectoryOpType DEF OpRecord, IInv
      <4>2. Enqueue(op)
        BY <2>2, <3>3 DEF RetryOperation
      <4> QED
        BY <4>1, <4>2
    <3> QED
      BY <3>2, <3>3
  <2> QED
    BY <2>1, <2>2
<1>2. /\ storage' \in StorageStatus
      /\ UNCHANGED <<task, named, shotName, shotLock, worker, tx, made,
                      diskName, faults>>
  BY DEF RetryProjectStorage, RetryOperation, IInv, TypeOK, StorageStatus
<1>3. /\ ops' \in [OpIds -> OpRecord] /\ nextOp' \in 1..(MaxOps + 1)
      /\ RowsConsistent' /\ ClaimsOwned'
  BY <1>1, <1>2, EnqueueKeeps
<1> QED
  BY <1>2, <1>3 DEF IInv, TypeOK

-----------------------------------------------------------------------------
(* The steps of the worker and of the clock.                               *)

\* Only a due row is claimed, and no worker is processing a due row.
LEMMA ClaimStep ==
  ASSUME IInv, NEW w \in Workers, NEW i \in Issued, Claim(w, i)
  PROVE  IInv'
<1>1. i \in OpIds /\ ops[i] \in OpRecord
  BY OutboxAssumption DEF IInv, TypeOK, Issued, OpIds
<1>2. ops[i].status \in {"pending", "retry_wait"} /\ ops[i].attempt < MaxAttempts
  BY <1>1 DEF Claim, FirstDue, Due, IInv, RowsConsistent, RowConsistent
<1>3. /\ ops[i].attempt \in Nat /\ ops[i].attempt + 1 \in 0..MaxAttempts
      /\ ops[i].attempt + 1 <= MaxAttempts
  BY <1>1, <1>2, OutboxAssumption DEF OpRecord
<1>4. /\ ops' \in [OpIds -> OpRecord]
      /\ ops'[i].status = "processing"
      /\ ops'[i].owner = w
      /\ ops'[i].attempt = ops[i].attempt + 1
      /\ \A j \in OpIds \ {i} : ops'[j] = ops[j]
  BY <1>1, <1>3 DEF Claim, IInv, TypeOK, OpRecord, OpStatus, Active
<1>5. /\ worker' = [worker EXCEPT ![w] =
                      [pc |-> "io", op |-> i, attempt |-> ops[i].attempt + 1,
                       retryable |-> TRUE]]
  BY <1>3 DEF Claim
<1>6. worker' \in [Workers -> WorkerRecord]
  BY <1>1, <1>3, <1>5 DEF IInv, TypeOK, WorkerRecord, OpIds
<1>7. UNCHANGED <<nextOp, storage, task, named, shotName, shotLock, tx, made,
                  diskName, faults>>
  BY DEF Claim
<1>8. RowsConsistent'
  BY <1>4 DEF RowsConsistent, RowConsistent, IInv
<1>9. ASSUME NEW v \in Workers, worker'[v].pc # "idle"
      PROVE  worker'[v].op \in Issued' /\ Owned(v)'
  <2>1. CASE v = w
    BY <1>4, <1>5, <1>7, <2>1 DEF IInv, TypeOK, Owned, Issued
  <2>2. CASE v # w
    <3>1. worker'[v] = worker[v]
      BY <1>5, <2>2 DEF IInv, TypeOK
    <3>2. worker[v].op \in Issued /\ Owned(v)
      BY <1>9, <3>1 DEF IInv, ClaimsOwned
    <3>3. worker[v].op \in OpIds \ {i}
      BY <1>2, <3>2, OutboxAssumption DEF Owned, IInv, TypeOK, Issued, OpIds
    <3> QED
      BY <1>4, <1>7, <3>1, <3>2, <3>3 DEF Owned, Issued
  <2> QED
    BY <2>1, <2>2
<1> QED
  BY <1>4, <1>6, <1>7, <1>8, <1>9 DEF IInv, TypeOK, ClaimsOwned

\* The row a busy worker is processing.
LEMMA ClaimedRow ==
  ASSUME IInv, NEW w \in Workers, worker[w].pc # "idle"
  PROVE  /\ worker[w].op \in OpIds
         /\ ops[worker[w].op] \in OpRecord
         /\ Owned(w)
  BY OutboxAssumption DEF IInv, TypeOK, ClaimsOwned, Issued, OpIds

\* A worker that goes on with its claim, or drops it, without touching the row.
LEMMA WorkerOnlyStep ==
  ASSUME IInv, NEW w \in Workers, worker[w].pc # "idle", NEW r \in WorkerRecord,
         worker' = [worker EXCEPT ![w] = r],
         r.pc = "idle" \/ (r.op = worker[w].op /\ r.attempt = worker[w].attempt),
         UNCHANGED <<ops, nextOp>>
  PROVE  worker' \in [Workers -> WorkerRecord] /\ RowsConsistent' /\ ClaimsOwned'
<1>1. worker' \in [Workers -> WorkerRecord] /\ RowsConsistent'
  BY DEF IInv, TypeOK, RowsConsistent
<1>2. ASSUME NEW v \in Workers, worker'[v].pc # "idle"
      PROVE  worker'[v].op \in Issued' /\ Owned(v)'
  <2>1. worker'[v].op = worker[v].op /\ worker'[v].attempt = worker[v].attempt
    BY <1>2 DEF IInv, TypeOK
  <2>2. worker[v].op \in Issued /\ Owned(v)
    BY <1>2 DEF IInv, TypeOK, ClaimsOwned
  <2> QED
    BY <2>1, <2>2 DEF Owned, Issued
<1> QED
  BY <1>1, <1>2 DEF ClaimsOwned

LEMMA IoStep ==
  ASSUME IInv, NEW w \in Workers,
         \/ RenewRefused(w) \/ RenewRaises(w) \/ IoEnds(w)
         \/ RenumberConflict(w) \/ WriteBackRaises(w) \/ Crash(w)
  PROVE  IInv'
<1>1. worker[w] \in WorkerRecord /\ worker[w].pc # "idle"
  BY DEF IInv, TypeOK, RenewRefused, RenewRaises, IoEnds, IoSucceeds, IoFails,
         RenumberConflict, WriteBackRaises, Crash
<1>2. PICK r \in WorkerRecord :
        /\ worker' = [worker EXCEPT ![w] = r]
        /\ r.pc = "idle" \/ (r.op = worker[w].op /\ r.attempt = worker[w].attempt)
  <2>1. Idle \in WorkerRecord /\ Idle.pc = "idle"
    BY DEF Idle, WorkerRecord
  <2>2. ASSUME NEW pc \in {"lost", "broken", "done", "failed"}, NEW b \in BOOLEAN
        PROVE  LET r == [worker[w] EXCEPT !.pc = pc, !.retryable = b] IN
               /\ r \in WorkerRecord
               /\ r.op = worker[w].op /\ r.attempt = worker[w].attempt
    BY <1>1 DEF WorkerRecord
  <2>3. ASSUME NEW pc \in {"lost", "broken", "done", "failed"}
        PROVE  LET r == [worker[w] EXCEPT !.pc = pc] IN
               /\ r \in WorkerRecord
               /\ r.op = worker[w].op /\ r.attempt = worker[w].attempt
    BY <1>1 DEF WorkerRecord
  <2>4. CASE RenewRefused(w) \/ RenewRaises(w)
    BY <2>3, <2>4 DEF RenewRefused, RenewRaises, IInv, TypeOK
  <2>5. CASE IoSucceeds(w)
    BY <2>1, <2>3, <2>5 DEF IoSucceeds, IInv, TypeOK
  <2>6. ASSUME NEW b \in BOOLEAN, IoFails(w, b)
        PROVE  worker' = [worker EXCEPT ![w] =
                            [worker[w] EXCEPT !.pc = "failed", !.retryable = b]]
    BY <2>6 DEF IoFails, IInv, TypeOK
  <2>7. CASE RenumberConflict(w) \/ WriteBackRaises(w) \/ Crash(w)
    BY <2>1, <2>7 DEF RenumberConflict, WriteBackRaises, Crash
  <2> QED
    BY <2>2, <2>4, <2>5, <2>6, <2>7 DEF IoEnds
<1>3. /\ UNCHANGED <<ops, nextOp, storage, task, named, shotName, shotLock, tx>>
      /\ made' \in [Aggregates -> BOOLEAN]
      /\ diskName' \in [Shots -> Nat]
      /\ faults' \in Nat
  <2>1. CASE IoSucceeds(w)
    <3>1. CASE IsShotRenumber(ops[worker[w].op])
      BY <2>1, <3>1 DEF IoSucceeds, RenumberDirectories, IInv, TypeOK
    <3>2. CASE ~IsShotRenumber(ops[worker[w].op])
      BY <2>1, <3>2 DEF IoSucceeds, EnsureDirectories, IInv, TypeOK
    <3> QED
      BY <3>1, <3>2
  <2>2. CASE ~IoSucceeds(w)
    BY <2>2 DEF RenewRefused, RenewRaises, IoEnds, IoFails, RenumberConflict,
                WriteBackRaises, Crash, IInv, TypeOK
  <2> QED
    BY <2>1, <2>2
<1>4. worker' \in [Workers -> WorkerRecord] /\ RowsConsistent' /\ ClaimsOwned'
  BY <1>1, <1>2, <1>3, WorkerOnlyStep
<1> QED
  BY <1>3, <1>4 DEF IInv, TypeOK

LEMMA MarkSucceededStep ==
  ASSUME IInv, NEW w \in Workers, MarkSucceeded(w)
  PROVE  IInv'
<1> DEFINE i == worker[w].op
<1>1. worker[w].pc # "idle" /\ i \in OpIds /\ ops[i] \in OpRecord
  BY ClaimedRow DEF MarkSucceeded
<1>2. /\ ops' = [ops EXCEPT ![i].status = "succeeded", ![i].owner = NoWorker,
                            ![i].lease = FALSE]
      /\ worker' = [worker EXCEPT ![w] = Idle]
      /\ UNCHANGED <<nextOp, named, tx, made, diskName, faults>>
  BY DEF MarkSucceeded
<1>3. /\ ops' \in [OpIds -> OpRecord]
      /\ ops'[i].status = "succeeded" /\ ops'[i].lease = FALSE
      /\ \A j \in OpIds \ {i} : ops'[j] = ops[j]
  BY <1>1, <1>2 DEF IInv, TypeOK, OpRecord, OpStatus
<1>4. RowsConsistent'
  BY <1>3 DEF IInv, RowsConsistent, RowConsistent
<1>5. ClaimsOwned'
  BY <1>1, <1>2, <1>3, ReleaseKeepsClaims
<1>6. worker' \in [Workers -> WorkerRecord]
  BY <1>2 DEF IInv, TypeOK, Idle, WorkerRecord
<1>7. storage' \in StorageStatus
  BY DEF MarkSucceeded, IInv, TypeOK, StorageStatus
<1>8. task' \in [Tasks -> {"not_started", "preparing", "in_progress"}]
  <2>1. task' = AdvancedTasks(ops[i])
    BY DEF MarkSucceeded
  <2> QED
    BY <2>1 DEF AdvancedTasks, IInv, TypeOK
<1>9. shotName' \in [Shots -> Nat] /\ shotLock' \in [Shots -> Nat]
  <2>1. CASE IsShotRenumber(ops[i])
    <3>1. /\ shotName' = Renumbered(ops[i])
          /\ shotLock' = [s \in Shots |-> shotLock[s] + IF s \in ops[i].items THEN 1 ELSE 0]
      BY <2>1 DEF MarkSucceeded
    <3> QED
      BY <3>1 DEF Renumbered, IInv, TypeOK
  <2>2. CASE ~IsShotRenumber(ops[i])
    BY <2>2 DEF MarkSucceeded, IInv, TypeOK
  <2> QED
    BY <2>1, <2>2
<1> QED
  BY <1>2, <1>3, <1>4, <1>5, <1>6, <1>7, <1>8, <1>9 DEF IInv, TypeOK

\* A failure goes to "retry_wait" only with an attempt left.
LEMMA RecordFailureStep ==
  ASSUME IInv, NEW w \in Workers, RecordFailure(w)
  PROVE  IInv'
<1> DEFINE i == worker[w].op
           terminal == Terminal(worker[w].retryable, worker[w].attempt)
<1>1. worker[w].pc # "idle" /\ i \in OpIds /\ ops[i] \in OpRecord /\ Owned(w)
  BY ClaimedRow DEF RecordFailure
<1>2. /\ ops' = [ops EXCEPT ![i].status = IF terminal THEN "failed" ELSE "retry_wait",
                            ![i].owner = NoWorker, ![i].lease = FALSE]
      /\ worker' = [worker EXCEPT ![w] = Idle]
      /\ storage' = StorageAfterError(ops[i], terminal)
      /\ UNCHANGED <<nextOp, task, named, shotName, shotLock, tx, made, diskName, faults>>
  BY DEF RecordFailure
<1>3. ~terminal => ops[i].attempt < MaxAttempts
  BY <1>1, OutboxAssumption DEF Terminal, Owned, OpRecord
<1> HIDE DEF terminal
<1>4. /\ ops' \in [OpIds -> OpRecord]
      /\ ops'[i].status = IF terminal THEN "failed" ELSE "retry_wait"
      /\ ops'[i].attempt = ops[i].attempt /\ ops'[i].lease = FALSE
      /\ \A j \in OpIds \ {i} : ops'[j] = ops[j]
  BY <1>1, <1>2 DEF IInv, TypeOK, OpRecord, OpStatus, Active
<1>5. RowsConsistent'
  BY <1>3, <1>4 DEF IInv, RowsConsistent, RowConsistent
<1>6. ClaimsOwned'
  BY <1>1, <1>2, <1>4, ReleaseKeepsClaims
<1>7. worker' \in [Workers -> WorkerRecord]
  BY <1>2 DEF IInv, TypeOK, Idle, WorkerRecord
<1>8. storage' \in StorageStatus
  <2>1. CASE IsProjectInitialization(ops[i])
    BY <1>2, <2>1 DEF StorageAfterError, StorageStatus
  <2>2. CASE ~IsProjectInitialization(ops[i]) /\ IsShotRenumber(ops[i])
    BY <1>2, <2>2 DEF StorageAfterError, StorageStatus
  <2>3. CASE ~IsProjectInitialization(ops[i]) /\ ~IsShotRenumber(ops[i])
    BY <1>2, <2>3 DEF StorageAfterError, IInv, TypeOK
  <2> QED
    BY <2>1, <2>2, <2>3
<1> QED
  BY <1>2, <1>4, <1>5, <1>6, <1>7, <1>8 DEF IInv, TypeOK

\* Time passes: a lease runs out, or the time of a retry comes.
LEMMA TimeStep ==
  ASSUME IInv, NEW i \in Issued, LeaseExpires(i) \/ RetryTimeComes(i)
  PROVE  IInv'
<1>1. i \in OpIds /\ ops[i] \in OpRecord
  BY OutboxAssumption DEF IInv, TypeOK, Issued, OpIds
<1>2. \/ ops' = [ops EXCEPT ![i].lease = FALSE]
      \/ ops' = [ops EXCEPT ![i].due = TRUE]
  BY DEF LeaseExpires, RetryTimeComes
<1>3. /\ ops' \in [OpIds -> OpRecord]
      /\ \A j \in OpIds : /\ ops'[j].status = ops[j].status
                          /\ ops'[j].owner = ops[j].owner
                          /\ ops'[j].attempt = ops[j].attempt
                          /\ ops'[j].lease = TRUE => ops[j].lease = TRUE
  <2>1. CASE ops' = [ops EXCEPT ![i].lease = FALSE]
    BY <1>1, <2>1 DEF IInv, TypeOK, OpRecord
  <2>2. CASE ops' = [ops EXCEPT ![i].due = TRUE]
    BY <1>1, <2>2 DEF IInv, TypeOK, OpRecord
  <2> QED
    BY <1>2, <2>1, <2>2
<1>4. /\ UNCHANGED <<nextOp, storage, task, named, shotName, shotLock, worker,
                      tx, made, diskName>>
      /\ faults' \in Nat
  BY DEF LeaseExpires, RetryTimeComes, IInv, TypeOK
<1>5. RowsConsistent'
  BY <1>3 DEF IInv, RowsConsistent, RowConsistent
<1>6. ClaimsOwned'
  <2> SUFFICES ASSUME NEW w \in Workers, worker[w].pc # "idle"
               PROVE  worker[w].op \in Issued /\ Owned(w)'
    BY <1>4 DEF ClaimsOwned, Issued
  <2>1. worker[w].op \in Issued /\ worker[w].op \in OpIds /\ Owned(w)
    BY ClaimedRow DEF IInv, ClaimsOwned
  <2> QED
    BY <1>3, <1>4, <2>1 DEF Owned
<1> QED
  BY <1>3, <1>4, <1>5, <1>6 DEF IInv, TypeOK

-----------------------------------------------------------------------------
(* The theorems.                                                           *)

LEMMA StepIInv == IInv /\ [Next]_vars => IInv'
<1> SUFFICES ASSUME IInv, [Next]_vars PROVE IInv'
  OBVIOUS
<1>1. CASE UNCHANGED vars
  BY <1>1, ClaimsKept DEF vars, IInv, TypeOK, RowsConsistent, Issued
<1>2. CASE \E c \in Clients, r \in Tasks \cup Episodes \cup {Scene} : Begin(c, r)
  BY <1>2, LockStep
<1>3. ASSUME NEW c \in Clients, ClientStep(c) PROVE IInv'
  BY <1>3, LockStep, StartTaskStep, CreateEpisodeStep, RenumberSceneStep
  DEF ClientStep
<1>4. ASSUME NEW w \in Workers, WorkerStep(w) PROVE IInv'
  BY <1>4, ClaimStep, IoStep, MarkSucceededStep, RecordFailureStep
  DEF WorkerStep, WriteBack
<1>5. CASE RetryProjectStorage
  BY <1>5, RetryStep
<1>6. ASSUME NEW i \in Issued, RetryOperation(i) \/ LeaseExpires(i) \/ RetryTimeComes(i)
      PROVE  IInv'
  BY <1>6, RetryStep, TimeStep
<1> QED
  BY <1>1, <1>2, <1>3, <1>4, <1>5, <1>6 DEF Next

\* The rows of the outbox keep their types and no operation is ever attempted
\* more than MAX_ATTEMPTS times, however claims, failures, crashes and manual
\* retries follow each other (storage_worker_service.py, _record_failure).
THEOREM TypeCorrect == Spec => []TypeOK
<1>1. IInv => TypeOK
  BY DEF IInv
<1> QED
  BY <1>1, InitIInv, StepIInv, PTL DEF Spec

\* A claimed operation belongs to the worker that processes it until that
\* worker writes back, lease or no lease: no second worker ever touches the
\* same directory (storage_operation_dao.py, build_claim_statement).
THEOREM ClaimsStayOwned == Spec => []ClaimsOwned
<1>1. IInv => ClaimsOwned
  BY DEF IInv
<1> QED
  BY <1>1, InitIInv, StepIInv, PTL DEF Spec

\* No single step changes a row that has succeeded or failed.
LEMMA FinishedStep ==
  ASSUME IInv, [Next]_vars, NEW i \in Issued,
         ops[i].status \in {"succeeded", "failed"}
  PROVE  ops'[i] = ops[i]
<1>1. i \in OpIds /\ ops[i] \in OpRecord
  BY OutboxAssumption DEF IInv, TypeOK, Issued, OpIds
<1>2. ASSUME NEW op, Enqueue(op) PROVE ops'[i] = ops[i]
  BY <1>1, <1>2 DEF Enqueue, IInv, TypeOK, Issued, OpIds
<1>3. ASSUME NEW w \in Workers, WorkerStep(w) PROVE ops'[i] = ops[i]
  <2>1. ASSUME NEW j \in Issued, Claim(w, j) PROVE ops'[i] = ops[i]
    BY <1>1, <2>1 DEF Claim, FirstDue, Due, IInv, TypeOK
  <2>2. CASE MarkSucceeded(w) \/ RecordFailure(w)
    <3>1. worker[w].op # i
      BY <2>2 DEF MarkSucceeded, RecordFailure, Owned
    <3> QED
      BY <1>1, <2>2, <3>1 DEF MarkSucceeded, RecordFailure, IInv, TypeOK
  <2>3. CASE \/ RenewRefused(w) \/ RenewRaises(w) \/ IoEnds(w)
             \/ RenumberConflict(w) \/ WriteBackRaises(w) \/ Crash(w)
    BY <2>3 DEF RenewRefused, RenewRaises, IoEnds, IoSucceeds, IoFails,
                RenumberConflict, WriteBackRaises, Crash
  <2> QED
    BY <1>3, <2>1, <2>2, <2>3 DEF WorkerStep, WriteBack
<1>4. ASSUME NEW c \in Clients, ClientStep(c) PROVE ops'[i] = ops[i]
  BY <1>2, <1>4 DEF ClientStep, Acquire, Abort, StartTask, CreateEpisode, RenumberScene
<1>5. CASE RetryProjectStorage \/ \E j \in Issued : RetryOperation(j)
  BY <1>2, <1>5 DEF RetryProjectStorage, RetryOperation
<1>6. ASSUME NEW j \in Issued, LeaseExpires(j) \/ RetryTimeComes(j)
      PROVE  ops'[i] = ops[i]
  <2>1. ops[j].lease = TRUE \/ ops[j].status = "retry_wait"
    BY <1>6, OutboxAssumption
    DEF LeaseExpires, RetryTimeComes, IInv, TypeOK, OpRecord, Issued, OpIds
  <2>2. i # j
    BY <1>1, <2>1 DEF IInv, RowsConsistent, RowConsistent
  <2> QED
    BY <1>1, <1>6, <2>2 DEF LeaseExpires, RetryTimeComes, IInv, TypeOK
<1>7. CASE \E c \in Clients, r \in Tasks \cup Episodes \cup {Scene} : Begin(c, r)
  BY <1>7 DEF Begin
<1>8. CASE UNCHANGED vars
  BY <1>8 DEF vars
<1> QED
  BY <1>3, <1>4, <1>5, <1>6, <1>7, <1>8 DEF Next

\* A finished operation is history: no claim, late write-back, clock or retry
\* changes a row once it has succeeded or failed (storage_operation_dao.py,
\* _lock_owned_operation; retry_operation queues a new row instead).
THEOREM FinishedStaysFinal == Spec => FinishedIsFinal
<1>1. IInv /\ [Next]_vars => [\A i \in Issued :
        ops[i].status \in {"succeeded", "failed"} => ops'[i] = ops[i]]_vars
  BY FinishedStep
<1> QED
  BY <1>1, InitIInv, StepIInv, PTL DEF Spec, FinishedIsFinal

-----------------------------------------------------------------------------
(* What the worker's steps do to the rows.                                 *)

\* A claim changes one due row, which has an attempt left.
LEMMA ClaimEffect ==
  ASSUME IInv, NEW w \in Workers, NEW i \in Issued, Claim(w, i)
  PROVE  /\ i \in OpIds
         /\ ops[i].status \in {"pending", "retry_wait"}
         /\ ops'[i] = [ops[i] EXCEPT !.status = "processing", !.attempt = @ + 1,
                                     !.owner = w, !.lease = TRUE, !.due = FALSE]
         /\ ops'[i].status = "processing" /\ ops'[i].attempt = ops[i].attempt + 1
         /\ \A j \in OpIds \ {i} : ops'[j] = ops[j]
         /\ worker' = [worker EXCEPT ![w] =
                         [pc |-> "io", op |-> i, attempt |-> ops[i].attempt + 1,
                          retryable |-> TRUE]]
         /\ worker[w].pc = "idle"
<1>1. i \in OpIds /\ ops[i] \in OpRecord
  BY OutboxAssumption DEF IInv, TypeOK, Issued, OpIds
<1>2. ops[i].status \in {"pending", "retry_wait"} /\ ops[i].attempt < MaxAttempts
  BY <1>1 DEF Claim, FirstDue, Due, IInv, RowsConsistent, RowConsistent
<1>3. ops[i].attempt \in Nat /\ ops[i].attempt + 1 <= MaxAttempts
  BY <1>1, <1>2, OutboxAssumption DEF OpRecord
<1>4. /\ ops'[i] = [ops[i] EXCEPT !.status = "processing", !.attempt = @ + 1,
                                  !.owner = w, !.lease = TRUE, !.due = FALSE]
      /\ ops'[i].status = "processing" /\ ops'[i].attempt = ops[i].attempt + 1
      /\ \A j \in OpIds \ {i} : ops'[j] = ops[j]
  BY <1>1 DEF Claim, IInv, TypeOK, OpRecord
<1>5. worker' = [worker EXCEPT ![w] =
                   [pc |-> "io", op |-> i, attempt |-> ops[i].attempt + 1,
                    retryable |-> TRUE]]
  BY <1>3 DEF Claim
<1> QED
  BY <1>1, <1>2, <1>4, <1>5 DEF Claim

\* A write-back ends one row that its worker was processing.
LEMMA ReportEffect ==
  ASSUME IInv, NEW w \in Workers, MarkSucceeded(w) \/ RecordFailure(w)
  PROVE  LET i == worker[w].op IN
         /\ i \in Issued /\ i \in OpIds /\ ops[i].status = "processing"
         /\ ops'[i].attempt = ops[i].attempt /\ ops[i].attempt = worker[w].attempt
         /\ MarkSucceeded(w) => ops'[i].status = "succeeded"
         /\ RecordFailure(w) => ops'[i].status \in {"failed", "retry_wait"}
         /\ \A j \in OpIds \ {i} : ops'[j] = ops[j]
         /\ worker' = [worker EXCEPT ![w] = Idle] /\ worker[w].pc # "idle"
<1> DEFINE i == worker[w].op
<1>1. worker[w].pc # "idle" /\ i \in OpIds /\ ops[i] \in OpRecord /\ Owned(w) /\ i \in Issued
  BY ClaimedRow DEF MarkSucceeded, RecordFailure, IInv, ClaimsOwned
<1>2. ops[i].status = "processing" /\ ops[i].attempt = worker[w].attempt
  BY <1>1 DEF Owned
<1>3. CASE MarkSucceeded(w)
  <2>1. ~RecordFailure(w)
    BY <1>3 DEF MarkSucceeded, RecordFailure
  <2>2. /\ ops'[i].attempt = ops[i].attempt /\ ops'[i].status = "succeeded"
        /\ \A j \in OpIds \ {i} : ops'[j] = ops[j]
    BY <1>1, <1>3 DEF MarkSucceeded, IInv, TypeOK, OpRecord
  <2>3. worker' = [worker EXCEPT ![w] = Idle]
    BY <1>3 DEF MarkSucceeded
  <2> QED
    BY <1>1, <1>2, <2>1, <2>2, <2>3
<1>4. CASE RecordFailure(w)
  <2> DEFINE next == IF Terminal(worker[w].retryable, worker[w].attempt)
                     THEN "failed" ELSE "retry_wait"
  <2>1. ~MarkSucceeded(w)
    BY <1>4 DEF MarkSucceeded, RecordFailure
  <2>2. next \in {"failed", "retry_wait"}
    OBVIOUS
  <2>3. ops' = [ops EXCEPT ![i].status = next, ![i].owner = NoWorker, ![i].lease = FALSE]
    BY <1>4 DEF RecordFailure
  <2> HIDE DEF next
  <2>4. /\ ops'[i].attempt = ops[i].attempt /\ ops'[i].status = next
        /\ \A j \in OpIds \ {i} : ops'[j] = ops[j]
    BY <1>1, <2>3 DEF IInv, TypeOK, OpRecord
  <2>5. worker' = [worker EXCEPT ![w] = Idle]
    BY <1>4 DEF RecordFailure
  <2> QED
    BY <1>1, <1>2, <2>1, <2>2, <2>4, <2>5
<1> QED
  BY <1>3, <1>4

\* The other steps of a worker leave every row alone.
LEMMA RowsUntouched ==
  ASSUME NEW w \in Workers,
         \/ RenewRefused(w) \/ RenewRaises(w) \/ IoEnds(w)
         \/ RenumberConflict(w) \/ WriteBackRaises(w) \/ Crash(w)
  PROVE  UNCHANGED <<ops, nextOp>>
  BY DEF RenewRefused, RenewRaises, IoEnds, IoSucceeds, IoFails, RenumberConflict,
         WriteBackRaises, Crash

-----------------------------------------------------------------------------
(* The names of the shots, in the database and on the NAS.                 *)

Started(a) == \E t \in Tasks : Target[t] = a /\ task[t] # "not_started"

\* A renumbering that is still to give shot s its new name.
Unfinished(i, s) ==
  IsShotRenumber(ops[i]) /\ s \in ops[i].items /\ ops[i].status # "succeeded"

\* The lock version a renumbering has frozen is never ahead of the shot's, and
\* the start of the shot's production has overtaken it.
FrozenLocks ==
  \A i \in Issued : IsShotRenumber(ops[i]) =>
    \A s \in ops[i].items :
      /\ ops[i].expected[s] <= shotLock[s]
      /\ Started(s) => ops[i].expected[s] < shotLock[s]

\* Only an unfinished renumbering of a shot may have left its directory under
\* another name than the database gives.
NamesSettled ==
  \A s \in Shots :
    (\A i \in Issued : ~Unfinished(i, s)) => diskName[s] = shotName[s]

\* A worker that comes back from a renumbering has moved the directory of each
\* of its shots by one name, if it is the only one at that shot.
RenamesDone ==
  \A w \in Workers :
    worker[w].pc = "done" /\ IsShotRenumber(ops[worker[w].op]) =>
      \A s \in ops[worker[w].op].items :
        /\ shotLock[s] = ops[worker[w].op].expected[s]
        /\ \A j \in Issued \ {worker[w].op} : ~Unfinished(j, s)
        => diskName[s] = shotName[s] + 1

NamesInv == FrozenLocks /\ NamesSettled /\ RenamesDone

\* What a row was queued for never changes.
Purpose(op) == <<op.type, op.agg, op.path, op.items, op.expected>>

LEMMA RowsFrozen ==
  ASSUME IInv, [Next]_vars, NEW i \in Issued
  PROVE  i \in Issued' /\ Purpose(ops'[i]) = Purpose(ops[i])
<1>1. i \in OpIds /\ ops[i] \in OpRecord /\ nextOp \in Nat
  BY OutboxAssumption DEF IInv, TypeOK, Issued, OpIds
<1>2. ASSUME NEW op, Enqueue(op)
      PROVE  i \in Issued' /\ Purpose(ops'[i]) = Purpose(ops[i])
  BY <1>1, <1>2 DEF Enqueue, IInv, TypeOK, Issued, OpIds, Purpose
<1>3. ASSUME UNCHANGED <<ops, nextOp>>
      PROVE  i \in Issued' /\ Purpose(ops'[i]) = Purpose(ops[i])
  BY <1>1, <1>3 DEF Issued, Purpose
<1>4. ASSUME NEW w \in Workers, WorkerStep(w)
      PROVE  i \in Issued' /\ Purpose(ops'[i]) = Purpose(ops[i])
  <2>1. ASSUME NEW j \in Issued, Claim(w, j)
        PROVE  i \in Issued' /\ Purpose(ops'[i]) = Purpose(ops[i])
    BY <1>1, <2>1 DEF Claim, IInv, TypeOK, OpRecord, Issued, Purpose
  <2>2. CASE MarkSucceeded(w)
    BY <1>1, <2>2 DEF MarkSucceeded, IInv, TypeOK, OpRecord, Issued, Purpose
  <2>3. CASE RecordFailure(w)
    BY <1>1, <2>3 DEF RecordFailure, IInv, TypeOK, OpRecord, Issued, Purpose
  <2>4. CASE \/ RenewRefused(w) \/ RenewRaises(w) \/ IoEnds(w)
             \/ RenumberConflict(w) \/ WriteBackRaises(w) \/ Crash(w)
    BY <1>3, <2>4 DEF RenewRefused, RenewRaises, IoEnds, IoSucceeds, IoFails,
                      RenumberConflict, WriteBackRaises, Crash
  <2> QED
    BY <1>4, <2>1, <2>2, <2>3, <2>4 DEF WorkerStep, WriteBack
<1>5. ASSUME NEW c \in Clients, ClientStep(c)
      PROVE  i \in Issued' /\ Purpose(ops'[i]) = Purpose(ops[i])
  BY <1>2, <1>3, <1>5
  DEF ClientStep, Acquire, Abort, StartTask, CreateEpisode, RenumberScene
<1>6. ASSUME NEW j \in Issued, RetryOperation(j) \/ LeaseExpires(j) \/ RetryTimeComes(j)
      PROVE  i \in Issued' /\ Purpose(ops'[i]) = Purpose(ops[i])
  <2>1. CASE RetryOperation(j)
    BY <1>2, <2>1 DEF RetryOperation
  <2>2. CASE LeaseExpires(j) \/ RetryTimeComes(j)
    <3>1. /\ UNCHANGED nextOp
          /\ \/ ops' = [ops EXCEPT ![j].lease = FALSE]
             \/ ops' = [ops EXCEPT ![j].due = TRUE]
      BY <2>2 DEF LeaseExpires, RetryTimeComes
    <3>2. CASE ops' = [ops EXCEPT ![j].lease = FALSE]
      BY <1>1, <3>1, <3>2 DEF IInv, TypeOK, OpRecord, Issued, Purpose
    <3>3. CASE ops' = [ops EXCEPT ![j].due = TRUE]
      BY <1>1, <3>1, <3>3 DEF IInv, TypeOK, OpRecord, Issued, Purpose
    <3> QED
      BY <3>1, <3>2, <3>3
  <2> QED
    BY <1>6, <2>1, <2>2
<1>7. CASE \/ RetryProjectStorage
           \/ UNCHANGED vars
           \/ \E c \in Clients, r \in Tasks \cup Episodes \cup {Scene} : Begin(c, r)
  BY <1>2, <1>3, <1>7 DEF RetryProjectStorage, Begin, vars
<1> QED
  BY <1>4, <1>5, <1>6, <1>7 DEF Next

\* A step that renames nothing keeps the invariant, provided that whoever
\* starts the production of a shot raises its lock version.
LEMMA NamesKept ==
  ASSUME IInv, IInv', [Next]_vars, NamesInv, UNCHANGED <<shotName, diskName>>,
         \A s \in Shots : /\ shotLock[s] <= shotLock'[s]
                          /\ Started(s)' => Started(s) \/ shotLock[s] < shotLock'[s],
         \A i \in Issued, s \in Shots : Unfinished(i, s) <=> Unfinished(i, s)',
         \A i \in Issued' \ Issued : IsShotRenumber(ops'[i]) =>
           \A s \in ops'[i].items :
             /\ ops'[i].expected[s] <= shotLock'[s]
             /\ Started(s)' => ops'[i].expected[s] < shotLock'[s],
         \A w \in Workers :
           worker'[w].pc = "done" /\ IsShotRenumber(ops'[worker'[w].op]) =>
             worker[w].pc = "done" /\ worker'[w].op = worker[w].op
  PROVE  NamesInv'
<1>1. ASSUME NEW i \in Issued
      PROVE  /\ i \in Issued' /\ IsShotRenumber(ops'[i]) = IsShotRenumber(ops[i])
             /\ ops'[i].items = ops[i].items /\ ops'[i].expected = ops[i].expected
  BY RowsFrozen DEF Purpose, IsShotRenumber
<1>2. ASSUME NEW i \in Issued
      PROVE  ops[i].items \subseteq Shots /\ ops[i].expected \in [Shots -> Nat]
  BY OutboxAssumption DEF IInv, TypeOK, Issued, OpIds, OpRecord
<1>3. \A s \in Shots : shotLock[s] \in Nat /\ shotLock'[s] \in Nat
  BY DEF IInv, TypeOK
<1>4. FrozenLocks'
  <2> SUFFICES ASSUME NEW i \in Issued', IsShotRenumber(ops'[i]), NEW s \in ops'[i].items
               PROVE  /\ ops'[i].expected[s] <= shotLock'[s]
                      /\ Started(s)' => ops'[i].expected[s] < shotLock'[s]
    BY DEF FrozenLocks
  <2>1. CASE i \notin Issued
    BY <2>1
  <2>2. CASE i \in Issued
    <3>1. /\ s \in ops[i].items /\ s \in Shots /\ ops'[i].expected[s] = ops[i].expected[s]
          /\ ops[i].expected[s] \in Nat /\ IsShotRenumber(ops[i])
      BY <1>1, <1>2, <2>2
    <3>2. /\ ops[i].expected[s] <= shotLock[s]
          /\ Started(s) => ops[i].expected[s] < shotLock[s]
      BY <2>2, <3>1 DEF NamesInv, FrozenLocks
    <3> QED
      BY <1>3, <3>1, <3>2
  <2> QED
    BY <2>1, <2>2
<1>5. ASSUME NEW s \in Shots, NEW i \in Issued, ~Unfinished(i, s)'
      PROVE  ~Unfinished(i, s)
  BY <1>5
<1>6. NamesSettled'
  <2> SUFFICES ASSUME NEW s \in Shots, \A i \in Issued' : ~Unfinished(i, s)'
               PROVE  diskName[s] = shotName[s]
    BY DEF NamesSettled
  <2> QED
    BY <1>1, <1>5 DEF NamesInv, NamesSettled
<1>7. RenamesDone'
  <2> SUFFICES ASSUME NEW w \in Workers, worker'[w].pc = "done",
                      IsShotRenumber(ops'[worker'[w].op]), NEW s \in ops'[worker'[w].op].items,
                      shotLock'[s] = ops'[worker'[w].op].expected[s],
                      \A j \in Issued' \ {worker'[w].op} : ~Unfinished(j, s)'
               PROVE  diskName[s] = shotName[s] + 1
    BY DEF RenamesDone
  <2> DEFINE i == worker[w].op
  <2>1. worker[w].pc = "done" /\ worker'[w].op = i /\ i \in Issued
    BY DEF IInv, ClaimsOwned
  <2>2. /\ IsShotRenumber(ops[i]) /\ s \in ops[i].items /\ s \in Shots
        /\ ops'[i].expected[s] = ops[i].expected[s] /\ ops[i].expected[s] \in Nat
    BY <1>1, <1>2, <2>1
  <2>3. ops[i].expected[s] <= shotLock[s]
    BY <2>1, <2>2 DEF NamesInv, FrozenLocks
  <2>4. shotLock[s] = ops[i].expected[s]
    BY <1>3, <2>1, <2>2, <2>3
  <2>5. \A j \in Issued \ {i} : ~Unfinished(j, s)
    BY <1>1, <1>5, <2>1, <2>2
  <2> QED
    BY <2>1, <2>2, <2>4, <2>5 DEF NamesInv, RenamesDone
<1> QED
  BY <1>4, <1>6, <1>7 DEF NamesInv

\* A new row is the only one that Enqueue adds.
LEMMA EnqueueAdds ==
  ASSUME TypeOK, NEW op, Enqueue(op), NEW i \in Issued' \ Issued
  PROVE  i = nextOp /\ ops'[i] = op
  BY OutboxAssumption DEF TypeOK, Enqueue, Issued, OpIds

\* Queueing a row is quiet about names if the row is no renumbering, or one
\* that has frozen what the earlier one had.
LEMMA NamesQueue ==
  ASSUME IInv, IInv', [Next]_vars, NamesInv, NEW op, Enqueue(op),
         UNCHANGED <<shotName, diskName, worker>>,
         \A s \in Shots : /\ shotLock[s] <= shotLock'[s]
                          /\ Started(s)' => Started(s) \/ shotLock[s] < shotLock'[s],
         IsShotRenumber(op) =>
           \A s \in op.items : /\ op.expected[s] <= shotLock'[s]
                               /\ Started(s)' => op.expected[s] < shotLock'[s]
  PROVE  NamesInv'
<1>1. \A i \in Issued : ops'[i] = ops[i]
  BY OutboxAssumption DEF IInv, TypeOK, Enqueue, Issued, OpIds
<1>2. \A i \in Issued, s \in Shots : Unfinished(i, s) <=> Unfinished(i, s)'
  BY <1>1 DEF Unfinished, IsShotRenumber
<1>3. \A i \in Issued' \ Issued : ops'[i] = op
  BY EnqueueAdds DEF IInv
<1> QED
  BY <1>2, <1>3, NamesKept

\* The same for a step that queues nothing and finishes nothing.
LEMMA NamesRest ==
  ASSUME IInv, IInv', [Next]_vars, NamesInv, UNCHANGED <<shotName, diskName, nextOp>>,
         UNCHANGED <<shotLock, task>>,
         \A i \in Issued : ops'[i].status = "succeeded" <=> ops[i].status = "succeeded",
         \A w \in Workers :
           worker'[w].pc = "done" /\ IsShotRenumber(ops'[worker'[w].op]) =>
             worker[w].pc = "done" /\ worker'[w].op = worker[w].op
  PROVE  NamesInv'
<1>1. \A i \in Issued, s \in Shots : Unfinished(i, s) <=> Unfinished(i, s)'
  BY RowsFrozen DEF Unfinished, IsShotRenumber, Purpose
<1>2. \A s \in Shots : /\ shotLock[s] <= shotLock'[s]
                       /\ Started(s)' => Started(s) \/ shotLock[s] < shotLock'[s]
  BY DEF Started, IInv, TypeOK
<1>3. Issued' \ Issued = {}
  BY DEF Issued
<1> QED
  BY <1>1, <1>2, <1>3, NamesKept

LEMMA NamesClientStep ==
  ASSUME IInv, IInv', NamesInv, NEW c \in Clients, ClientStep(c), [Next]_vars
  PROVE  NamesInv'
<1>1. CASE Acquire(c) \/ Abort(c)
  BY <1>1, NamesRest DEF Acquire, Abort
<1>2. ASSUME NEW t \in Tasks, StartTask(c, t) PROVE NamesInv'
  <2> DEFINE a == Target[t]
             op == DirectoryOp("ensure_directory", a)
  <2>1. UNCHANGED <<shotName, diskName, worker>>
    BY <1>2 DEF StartTask
  <2>2. ASSUME NEW s \in Shots
        PROVE  /\ shotLock[s] <= shotLock'[s]
               /\ Started(s)' => Started(s) \/ shotLock[s] < shotLock'[s]
    <3>1. CASE s = a
      BY <1>2, <3>1 DEF StartTask, IInv, TypeOK
    <3>2. CASE s # a
      <4>1. shotLock'[s] = shotLock[s] /\ shotLock[s] \in Nat
        BY <1>2, <3>2 DEF StartTask, IInv, TypeOK
      <4>2. Started(s)' => Started(s)
        BY <1>2, <3>2 DEF StartTask, Started, IInv, TypeOK
      <4> QED
        BY <4>1, <4>2
    <3> QED
      BY <3>1, <3>2
  <2>3. CASE Enqueue(op)
    <3>1. ~IsShotRenumber(op)
      BY DEF IsShotRenumber, DirectoryOp, Op
    <3> QED
      BY <2>1, <2>2, <2>3, <3>1, NamesQueue
  <2>4. CASE UNCHANGED <<ops, nextOp>>
    <3>1. \A i \in Issued, s \in Shots : Unfinished(i, s) <=> Unfinished(i, s)'
      BY <2>4 DEF Unfinished
    <3>2. Issued' \ Issued = {}
      BY <2>4 DEF Issued
    <3> QED
      BY <2>1, <2>2, <2>4, <3>1, <3>2, NamesKept
  <2> QED
    BY <1>2, <2>3, <2>4 DEF StartTask
<1>3. ASSUME NEW e \in Episodes, CreateEpisode(c, e) PROVE NamesInv'
  <2>1. ~IsShotRenumber(DirectoryOp("ensure_directory", e))
    BY DEF IsShotRenumber, DirectoryOp, Op
  <2>2. \A s \in Shots : /\ shotLock[s] <= shotLock'[s]
                         /\ Started(s)' => Started(s) \/ shotLock[s] < shotLock'[s]
    BY <1>3 DEF CreateEpisode, Started, IInv, TypeOK
  <2> QED
    BY <1>3, <2>1, <2>2, NamesQueue DEF CreateEpisode
<1>4. ASSUME NEW items \in SUBSET Shots, RenumberScene(c, items) PROVE NamesInv'
  <2> DEFINE op == Op("renumber_shot_directories", Scene, 0, items, shotLock)
  <2>1. \A s \in Shots : ~Started(s) /\ ~Started(s)'
    BY <1>4 DEF RenumberScene, Started
  <2>2. op.items = items /\ op.expected = shotLock
    BY DEF Op
  <2>3. \A s \in Shots : shotLock'[s] = shotLock[s] /\ shotLock[s] \in Nat
    BY <1>4 DEF RenumberScene, IInv, TypeOK
  <2>4. Enqueue(op) /\ UNCHANGED <<shotName, diskName, worker>>
    BY <1>4 DEF RenumberScene
  <2> HIDE DEF op
  <2> QED
    BY <2>1, <2>2, <2>3, <2>4, NamesQueue
<1> QED
  BY <1>1, <1>2, <1>3, <1>4 DEF ClientStep

LEMMA NamesRetryStep ==
  ASSUME IInv, IInv', NamesInv, [Next]_vars,
         RetryProjectStorage \/ \E i \in Issued : RetryOperation(i)
  PROVE  NamesInv'
<1>1. UNCHANGED <<shotName, diskName, worker, shotLock, task>>
  BY DEF RetryProjectStorage, RetryOperation
<1>2. \A s \in Shots : /\ shotLock[s] <= shotLock'[s]
                       /\ Started(s)' => Started(s) \/ shotLock[s] < shotLock'[s]
  BY <1>1 DEF Started, IInv, TypeOK
<1>3. CASE RetryProjectStorage
  <2>1. ~IsShotRenumber(DirectoryOp("reconcile_directory", Project))
    BY DEF IsShotRenumber, DirectoryOp, Op
  <2> QED
    BY <1>1, <1>2, <1>3, <2>1, NamesQueue DEF RetryProjectStorage
<1>4. ASSUME NEW i \in Issued, RetryOperation(i), IsShotRenumber(ops[i]) PROVE NamesInv'
  <2> DEFINE op == Op(ops[i].type, Scene, 0, ops[i].items, ops[i].expected)
  <2>1. Enqueue(op)
    BY <1>4 DEF RetryOperation
  <2>2. op.items = ops[i].items /\ op.expected = ops[i].expected
    BY DEF Op
  <2>3. \A s \in ops[i].items : s \in Shots
    BY OutboxAssumption DEF IInv, TypeOK, Issued, OpIds, OpRecord
  <2>4. \A s \in ops[i].items :
          /\ ops[i].expected[s] <= shotLock'[s]
          /\ Started(s)' => ops[i].expected[s] < shotLock'[s]
    BY <1>1, <1>4 DEF NamesInv, FrozenLocks, Started
  <2> HIDE DEF op
  <2> QED
    BY <1>1, <1>2, <2>1, <2>2, <2>4, NamesQueue
<1>5. ASSUME NEW i \in Issued, RetryOperation(i), ~IsShotRenumber(ops[i]) PROVE NamesInv'
  <2>1. ~IsShotRenumber(DirectoryOp("reconcile_directory", ops[i].agg))
    BY DEF IsShotRenumber, DirectoryOp, Op
  <2>2. Enqueue(DirectoryOp("reconcile_directory", ops[i].agg))
    BY <1>5 DEF RetryOperation
  <2> QED
    BY <1>1, <1>2, <2>1, <2>2, NamesQueue
<1> QED
  BY <1>3, <1>4, <1>5

\* Everything a worker does except moving the directories of a renumbering
\* and reporting a success.
LEMMA NamesWorkStep ==
  ASSUME IInv, IInv', NamesInv, [Next]_vars, NEW w \in Workers,
         \/ \E i \in Issued : Claim(w, i)
         \/ RenewRefused(w) \/ RenewRaises(w) \/ RecordFailure(w)
         \/ RenumberConflict(w) \/ WriteBackRaises(w) \/ Crash(w)
         \/ \E b \in BOOLEAN : IoFails(w, b)
  PROVE  NamesInv'
<1>1. UNCHANGED <<shotName, diskName, nextOp, shotLock, task>>
  BY DEF Claim, RenewRefused, RenewRaises, RecordFailure, RenumberConflict,
         WriteBackRaises, Crash, IoFails
<1>2. \A v \in Workers \ {w} : worker'[v] = worker[v]
  BY DEF Claim, RenewRefused, RenewRaises, RecordFailure, RenumberConflict,
         WriteBackRaises, Crash, IoFails, IInv, TypeOK
<1>3. worker'[w].pc # "done"
  <2>1. ASSUME NEW i \in Issued, Claim(w, i) PROVE worker'[w].pc # "done"
    <3>1. worker' = [worker EXCEPT ![w] = [pc |-> "io", op |-> i,
                       attempt |-> ops[i].attempt + 1, retryable |-> TRUE]]
      BY <2>1, ClaimEffect
    <3>2. worker'[w] = [pc |-> "io", op |-> i, attempt |-> ops[i].attempt + 1,
                        retryable |-> TRUE]
      BY <3>1 DEF IInv, TypeOK
    <3> QED
      BY <3>2
  <2>2. CASE RenewRefused(w) \/ RenewRaises(w)
    <3>1. PICK pc \in {"lost", "broken"} : worker' = [worker EXCEPT ![w].pc = pc]
      BY <2>2 DEF RenewRefused, RenewRaises
    <3>2. worker'[w].pc = pc
      BY <3>1 DEF IInv, TypeOK, WorkerRecord
    <3> QED
      BY <3>2
  <2>3. CASE RecordFailure(w) \/ RenumberConflict(w) \/ WriteBackRaises(w) \/ Crash(w)
    BY <2>3 DEF RecordFailure, RenumberConflict, WriteBackRaises, Crash, Idle, IInv, TypeOK
  <2>4. ASSUME NEW b \in BOOLEAN, IoFails(w, b) PROVE worker'[w].pc # "done"
    <3> DEFINE next == [worker[w] EXCEPT !.pc = "failed", !.retryable = b]
    <3>1. worker'[w] = next
      BY <2>4 DEF IoFails, IInv, TypeOK
    <3>2. next.pc = "failed"
      BY DEF IInv, TypeOK, WorkerRecord
    <3> QED
      BY <3>1, <3>2
  <2> QED
    BY <2>1, <2>2, <2>3, <2>4
<1>4. \A i \in Issued : ops'[i].status = "succeeded" <=> ops[i].status = "succeeded"
  <2>0. Issued \subseteq OpIds
    BY OutboxAssumption DEF IInv, TypeOK, Issued, OpIds
  <2>1. ASSUME NEW i \in Issued, Claim(w, i)
        PROVE  \A j \in Issued : ops'[j].status = "succeeded" <=> ops[j].status = "succeeded"
    <3>1. ops[i].status # "succeeded" /\ ops'[i].status # "succeeded"
      BY <2>1, ClaimEffect
    <3>2. \A j \in OpIds \ {i} : ops'[j] = ops[j]
      BY <2>1, ClaimEffect
    <3> QED
      BY <2>0, <3>1, <3>2
  <2>2. CASE RecordFailure(w)
    <3> DEFINE i == worker[w].op
    <3>1. ops[i].status # "succeeded" /\ ops'[i].status # "succeeded"
      BY <2>2, ReportEffect
    <3>2. \A j \in OpIds \ {i} : ops'[j] = ops[j]
      BY <2>2, ReportEffect
    <3> QED
      BY <2>0, <3>1, <3>2
  <2>3. CASE UNCHANGED ops
    BY <2>3
  <2> QED
    BY <2>1, <2>2, <2>3
    DEF RenewRefused, RenewRaises, RenumberConflict, WriteBackRaises, Crash, IoFails
<1> QED
  BY <1>1, <1>2, <1>3, <1>4, NamesRest

\* The thread comes back from the NAS.
LEMMA NamesIoStep ==
  ASSUME IInv, IInv', NamesInv, [Next]_vars, NEW w \in Workers, IoSucceeds(w)
  PROVE  NamesInv'
<1> DEFINE i == worker[w].op
<1>1. UNCHANGED <<ops, nextOp, shotName, shotLock, task>>
  BY DEF IoSucceeds
<1>2. \A v \in Workers \ {w} : worker'[v] = worker[v]
  BY DEF IoSucceeds, IInv, TypeOK
<1>3. worker'[w].pc = "done" => worker'[w].op = i
  <2>1. CASE worker[w].pc = "lost"
    BY <2>1 DEF IoSucceeds, IInv, TypeOK, Idle
  <2>2. CASE worker[w].pc # "lost"
    <3> DEFINE pc == IF worker[w].pc = "io" THEN "done" ELSE "failed"
    <3>1. worker'[w] = [worker[w] EXCEPT !.pc = pc]
      BY <2>2 DEF IoSucceeds, IInv, TypeOK
    <3> QED
      BY <3>1 DEF IInv, TypeOK, WorkerRecord
  <2> QED
    BY <2>1, <2>2
<1>4. i \in Issued /\ i \in OpIds /\ Owned(w) /\ ops[i] \in OpRecord
  BY ClaimedRow DEF IoSucceeds, IInv, ClaimsOwned
<1>5. FrozenLocks'
  BY <1>1 DEF NamesInv, FrozenLocks, Started, Issued
<1>6. NamesSettled'
  <2> SUFFICES ASSUME NEW s \in Shots, \A j \in Issued : ~Unfinished(j, s)
               PROVE  diskName'[s] = shotName[s]
    BY <1>1 DEF NamesSettled, Unfinished, Issued
  <2>1. ~(IsShotRenumber(ops[i]) /\ s \in ops[i].items)
    BY <1>4 DEF Unfinished, Owned
  <2>2. diskName'[s] = diskName[s]
    BY <2>1 DEF IoSucceeds, RenumberDirectories, EnsureDirectories
  <2> QED
    BY <2>2 DEF NamesInv, NamesSettled
<1>7. RenamesDone'
  <2> SUFFICES ASSUME NEW v \in Workers, worker'[v].pc = "done",
                      IsShotRenumber(ops[worker'[v].op]), NEW s \in ops[worker'[v].op].items,
                      shotLock[s] = ops[worker'[v].op].expected[s],
                      \A j \in Issued \ {worker'[v].op} : ~Unfinished(j, s)
               PROVE  diskName'[s] = shotName[s] + 1
    BY <1>1 DEF RenamesDone, Unfinished, Issued
  <2>1. CASE v = w
    <3>1. worker'[v].op = i
      BY <1>3, <2>1
    <3>2. s \in Shots
      BY <1>4, <3>1 DEF OpRecord
    <3> QED
      BY <3>1, <3>2 DEF IoSucceeds, RenumberDirectories
  <2>2. CASE v # w
    <3>1. worker'[v] = worker[v] /\ worker[v].op \in Issued /\ Owned(v)
      BY <1>2, <2>2 DEF IInv, ClaimsOwned
    <3>2. i # worker[v].op
      BY <1>4, <2>2, <3>1 DEF Owned
    <3>3. ~(IsShotRenumber(ops[i]) /\ s \in ops[i].items)
      BY <1>4, <3>1, <3>2 DEF Unfinished, Owned
    <3>4. s \in Shots
      BY <3>1, ClaimedRow DEF OpRecord
    <3>5. diskName'[s] = diskName[s]
      BY <3>3, <3>4 DEF IoSucceeds, RenumberDirectories, EnsureDirectories
    <3> QED
      BY <3>1, <3>5 DEF NamesInv, RenamesDone
  <2> QED
    BY <2>1, <2>2
<1> QED
  BY <1>5, <1>6, <1>7 DEF NamesInv

\* A reported renumbering raises the lock version of each shot it moved, so
\* that every other one frozen before it can no longer match.
LEMMA NamesSuccessStep ==
  ASSUME IInv, IInv', NamesInv, [Next]_vars, NEW w \in Workers, MarkSucceeded(w)
  PROVE  NamesInv'
<1> DEFINE i == worker[w].op
<1>1. /\ i \in Issued /\ i \in OpIds /\ ops'[i].status = "succeeded"
      /\ \A j \in OpIds \ {i} : ops'[j] = ops[j]
      /\ worker' = [worker EXCEPT ![w] = Idle] /\ worker[w].pc = "done"
      /\ UNCHANGED <<nextOp, diskName>>
  BY ReportEffect DEF MarkSucceeded
<1>2. /\ Issued' = Issued /\ Issued \subseteq OpIds
      /\ \A j \in Issued : ops[j] \in OpRecord
  BY <1>1, OutboxAssumption DEF IInv, TypeOK, Issued, OpIds
<1>3. ASSUME NEW j \in Issued
      PROVE  /\ IsShotRenumber(ops'[j]) = IsShotRenumber(ops[j])
             /\ ops'[j].items = ops[j].items /\ ops'[j].expected = ops[j].expected
  BY RowsFrozen DEF Purpose, IsShotRenumber
<1>4. ASSUME NEW s \in Shots, NEW j \in Issued
      PROVE  Unfinished(j, s)' <=> j # i /\ Unfinished(j, s)
  BY <1>1, <1>2, <1>3 DEF Unfinished
<1>5. task' = AdvancedTasks(ops[i])
  BY DEF MarkSucceeded
<1>6. ASSUME NEW s \in Shots PROVE Started(s)' <=> Started(s)
  BY <1>5 DEF AdvancedTasks, Started, IInv, TypeOK
<1>7. \A s \in Shots : shotLock[s] \in Nat /\ shotName[s] \in Nat
  BY DEF IInv, TypeOK
<1>8. ASSUME NEW s \in Shots
      PROVE  IF IsShotRenumber(ops[i]) /\ s \in ops[i].items
             THEN shotLock'[s] = shotLock[s] + 1 /\ shotName'[s] = shotName[s] + 1
             ELSE shotLock'[s] = shotLock[s] /\ shotName'[s] = shotName[s]
  <2>1. CASE IsShotRenumber(ops[i])
    <3>1. /\ shotName' = Renumbered(ops[i])
          /\ shotLock' = [t \in Shots |-> shotLock[t] + IF t \in ops[i].items THEN 1 ELSE 0]
      BY <2>1 DEF MarkSucceeded
    <3>2. /\ shotName'[s] = shotName[s] + IF s \in ops[i].items THEN 1 ELSE 0
          /\ shotLock'[s] = shotLock[s] + IF s \in ops[i].items THEN 1 ELSE 0
      BY <3>1 DEF Renumbered
    <3>3. CASE s \in ops[i].items
      BY <2>1, <3>2, <3>3
    <3>4. CASE s \notin ops[i].items
      BY <1>7, <3>2, <3>4
    <3> QED
      BY <3>3, <3>4
  <2>2. CASE ~IsShotRenumber(ops[i])
    BY <2>2 DEF MarkSucceeded
  <2> QED
    BY <2>1, <2>2
<1>9. ASSUME NEW s \in Shots, IsShotRenumber(ops[i]), s \in ops[i].items
      PROVE  shotLock[s] = ops[i].expected[s]
  BY <1>9 DEF MarkSucceeded, RenumberMatches
<1>10. FrozenLocks'
  <2> SUFFICES ASSUME NEW j \in Issued, IsShotRenumber(ops[j]), NEW s \in ops[j].items
               PROVE  /\ ops[j].expected[s] <= shotLock'[s]
                      /\ Started(s)' => ops[j].expected[s] < shotLock'[s]
    BY <1>2, <1>3 DEF FrozenLocks
  <2>1. s \in Shots /\ ops[j].expected[s] \in Nat
    BY <1>2 DEF OpRecord
  <2>2. /\ ops[j].expected[s] <= shotLock[s]
        /\ Started(s) => ops[j].expected[s] < shotLock[s]
    BY DEF NamesInv, FrozenLocks
  <2>3. shotLock[s] <= shotLock'[s] /\ shotLock[s] \in Nat /\ shotLock'[s] \in Nat
    BY <1>7, <1>8, <2>1
  <2> QED
    BY <1>6, <2>1, <2>2, <2>3
<1>11. NamesSettled'
  <2> SUFFICES ASSUME NEW s \in Shots, \A j \in Issued : ~Unfinished(j, s)'
               PROVE  diskName[s] = shotName'[s]
    BY <1>1, <1>2 DEF NamesSettled
  <2>1. \A j \in Issued \ {i} : ~Unfinished(j, s)
    BY <1>4
  <2>2. CASE IsShotRenumber(ops[i]) /\ s \in ops[i].items
    BY <1>1, <1>8, <1>9, <2>1, <2>2 DEF NamesInv, RenamesDone
  <2>3. CASE ~(IsShotRenumber(ops[i]) /\ s \in ops[i].items)
    BY <1>8, <2>1, <2>3 DEF NamesInv, NamesSettled, Unfinished
  <2> QED
    BY <2>2, <2>3
<1>12. RenamesDone'
  <2> SUFFICES ASSUME NEW v \in Workers, worker'[v].pc = "done",
                      IsShotRenumber(ops'[worker'[v].op]), NEW s \in ops'[worker'[v].op].items,
                      shotLock'[s] = ops'[worker'[v].op].expected[s],
                      \A j \in Issued \ {worker'[v].op} : ~Unfinished(j, s)'
               PROVE  diskName[s] = shotName'[s] + 1
    BY <1>1, <1>2 DEF RenamesDone
  <2> DEFINE k == worker[v].op
  <2>1. v # w /\ worker'[v] = worker[v]
    BY <1>1 DEF IInv, TypeOK, Idle
  <2>2. k \in Issued /\ Owned(v) /\ Owned(w)
    BY <1>1, <2>1 DEF IInv, ClaimsOwned
  <2>3. k # i
    BY <2>1, <2>2 DEF Owned
  <2>4. /\ IsShotRenumber(ops[k]) /\ s \in ops[k].items /\ s \in Shots
        /\ ops[k].expected[s] \in Nat /\ shotLock'[s] = ops[k].expected[s]
    BY <1>2, <1>3, <2>1, <2>2 DEF OpRecord
  <2>5. ops[k].expected[s] <= shotLock[s]
    BY <2>2, <2>4 DEF NamesInv, FrozenLocks
  <2>6. ~(IsShotRenumber(ops[i]) /\ s \in ops[i].items)
    BY <1>7, <1>8, <2>4, <2>5
  <2>7. shotLock[s] = ops[k].expected[s] /\ shotName'[s] = shotName[s]
    BY <1>8, <2>4, <2>6
  <2>8. \A j \in Issued \ {k} : ~Unfinished(j, s)
    BY <1>4, <2>1, <2>4, <2>6 DEF Unfinished
  <2> QED
    BY <2>1, <2>4, <2>7, <2>8 DEF NamesInv, RenamesDone
<1> QED
  BY <1>10, <1>11, <1>12 DEF NamesInv

LEMMA NamesStep == IInv /\ IInv' /\ NamesInv /\ [Next]_vars => NamesInv'
<1> SUFFICES ASSUME IInv, IInv', NamesInv, [Next]_vars PROVE NamesInv'
  OBVIOUS
<1>1. CASE UNCHANGED vars
  BY <1>1, NamesRest DEF vars
<1>2. CASE \E c \in Clients, r \in Tasks \cup Episodes \cup {Scene} : Begin(c, r)
  BY <1>2, NamesRest DEF Begin
<1>3. CASE \E c \in Clients : ClientStep(c)
  BY <1>3, NamesClientStep
<1>4. ASSUME NEW w \in Workers, WorkerStep(w) PROVE NamesInv'
  BY <1>4, NamesWorkStep, NamesIoStep, NamesSuccessStep DEF WorkerStep, WriteBack, IoEnds
<1>5. CASE RetryProjectStorage \/ \E i \in Issued : RetryOperation(i)
  BY <1>5, NamesRetryStep
<1>6. ASSUME NEW i \in Issued, LeaseExpires(i) \/ RetryTimeComes(i) PROVE NamesInv'
  <2>1. /\ UNCHANGED <<nextOp, shotName, diskName, worker, shotLock, task>>
        /\ \/ ops' = [ops EXCEPT ![i].lease = FALSE]
           \/ ops' = [ops EXCEPT ![i].due = TRUE]
    BY <1>6 DEF LeaseExpires, RetryTimeComes
  <2>2. \A j \in Issued : j \in OpIds /\ ops[j] \in OpRecord
    BY OutboxAssumption DEF IInv, TypeOK, Issued, OpIds
  <2>3. \A j \in Issued : ops'[j].status = ops[j].status
    <3>1. CASE ops' = [ops EXCEPT ![i].lease = FALSE]
      BY <2>2, <3>1 DEF IInv, TypeOK, OpRecord
    <3>2. CASE ops' = [ops EXCEPT ![i].due = TRUE]
      BY <2>2, <3>2 DEF IInv, TypeOK, OpRecord
    <3> QED
      BY <2>1, <3>1, <3>2
  <2>4. \A v \in Workers :
          worker'[v].pc = "done" /\ IsShotRenumber(ops'[worker'[v].op]) =>
            worker[v].pc = "done" /\ worker'[v].op = worker[v].op
    BY <2>1
  <2> QED
    BY <2>1, <2>3, <2>4, NamesRest
<1> QED
  BY <1>1, <1>2, <1>3, <1>4, <1>5, <1>6 DEF Next

LEMMA NamesInit == Init => NamesInv
<1> SUFFICES ASSUME Init PROVE NamesInv
  OBVIOUS
<1>1. ASSUME NEW i \in OpIds PROVE ~IsShotRenumber(ops[i])
  <2>1. PICK rank : ops = [j \in OpIds |-> InitialOp(rank, j)]
    BY DEF Init, InitialOps
  <2>2. ASSUME NEW a
        PROVE  /\ ~IsShotRenumber(DirectoryOp("initialize_project", a))
               /\ ~IsShotRenumber(DirectoryOp("ensure_directory", a))
               /\ ~IsShotRenumber(Finished(DirectoryOp("initialize_project", a)))
               /\ ~IsShotRenumber(Finished(DirectoryOp("ensure_directory", a)))
    BY DEF IsShotRenumber, DirectoryOp, Op, Finished
  <2> QED
    BY <2>1, <2>2 DEF InitialOp
<1>2. Issued \subseteq OpIds
  BY InitIInv, OutboxAssumption DEF IInv, TypeOK, Issued, OpIds
<1>3. FrozenLocks
  BY <1>1, <1>2 DEF FrozenLocks
<1>4. NamesSettled
  BY DEF Init, NamesSettled
<1>5. RenamesDone
  BY DEF Init, RenamesDone, Idle
<1> QED
  BY <1>3, <1>4, <1>5 DEF NamesInv

\* A renumbering that does not touch a started shot is the only one that can
\* match the lock versions it has frozen.
LEMMA StartedNameStep ==
  ASSUME IInv, NamesInv, [Next]_vars, NEW t \in Tasks,
         Target[t] \in Shots, task[t] # "not_started"
  PROVE  shotName'[Target[t]] = shotName[Target[t]]
<1> DEFINE s == Target[t]
<1>1. ASSUME NEW w \in Workers, MarkSucceeded(w), IsShotRenumber(ops[worker[w].op])
      PROVE  shotName'[s] = shotName[s]
  <2> DEFINE op == ops[worker[w].op]
  <2>1. worker[w].op \in Issued /\ op \in OpRecord
    BY <1>1, ClaimedRow DEF MarkSucceeded, IInv, ClaimsOwned
  <2>2. \A r \in op.items : shotLock[r] = op.expected[r]
    BY <1>1 DEF MarkSucceeded, RenumberMatches
  <2>3. Started(s)
    BY DEF Started
  <2>4. s \notin op.items
    <3> SUFFICES ASSUME s \in op.items PROVE FALSE
      OBVIOUS
    <3>1. op.expected[s] < shotLock[s]
      BY <1>1, <2>1, <2>3 DEF NamesInv, FrozenLocks
    <3>2. shotLock[s] = op.expected[s] /\ shotLock[s] \in Nat
      BY <2>2 DEF IInv, TypeOK
    <3> QED
      BY <3>1, <3>2
  <2>5. shotName' = Renumbered(op)
    BY <1>1 DEF MarkSucceeded
  <2>6. shotName[s] \in Nat
    BY DEF IInv, TypeOK
  <2> QED
    BY <2>4, <2>5, <2>6 DEF Renumbered
<1>2. CASE UNCHANGED shotName
  BY <1>2
<1>3. (\E w \in Workers : MarkSucceeded(w) /\ IsShotRenumber(ops[worker[w].op]))
        \/ UNCHANGED shotName
  <2>1. ASSUME NEW w \in Workers, WorkerStep(w),
               ~(MarkSucceeded(w) /\ IsShotRenumber(ops[worker[w].op]))
        PROVE  UNCHANGED shotName
    BY <2>1 DEF WorkerStep, WriteBack, IoEnds, Claim, RenewRefused, RenewRaises, IoSucceeds,
           IoFails, MarkSucceeded, RenumberConflict, RecordFailure, WriteBackRaises, Crash
  <2>2. ASSUME NEW c \in Clients, ClientStep(c) PROVE UNCHANGED shotName
    BY <2>2 DEF ClientStep, Acquire, Abort, StartTask, CreateEpisode, RenumberScene
  <2> QED
    BY <2>1, <2>2 DEF Next, vars, Begin, RetryProjectStorage, RetryOperation,
       LeaseExpires, RetryTimeComes
<1> QED
  BY <1>1, <1>2, <1>3

\* With no renumbering on record as unfinished, every shot's directory carries
\* the name the database gives it, for any number of shots, renumberings and
\* retries, and however I/O, crashes and lost leases interleave
\* (storage_worker_service.py, _apply_shot_renumber; shot_crud_service.py).
THEOREM NamesAlwaysAgree == Spec => []NamesAgree
<1>1. NamesInv => NamesAgree
  BY DEF NamesInv, NamesSettled, NamesAgree, Unfinished
<1> QED
  BY <1>1, InitIInv, StepIInv, NamesInit, NamesStep, PTL DEF Spec

\* A shot whose production has started keeps its number and directory name,
\* whatever renumbering was under way (_apply_shot_renumber compares the lock
\* versions frozen by renumber_scene_shots, and start_task raises them).
THEOREM StartedShotsKeepNames == Spec => StartedShotKeepsName
<1>1. IInv /\ NamesInv /\ [Next]_vars =>
        [\A t \in Tasks : Target[t] \in Shots /\ task[t] # "not_started"
           => shotName'[Target[t]] = shotName[Target[t]]]_vars
  BY StartedNameStep
<1> QED
  BY <1>1, InitIInv, StepIInv, NamesInit, NamesStep, PTL DEF Spec, StartedShotKeepsName

-----------------------------------------------------------------------------
(* The outbox as a lease queue.                                            *)

\* A row that is not queued yet has never been attempted.
Untried == \A i \in OpIds \ Issued : ops[i].attempt = 0

LEMMA InitUntried == Init => Untried
<1> SUFFICES ASSUME Init, NEW i \in OpIds PROVE ops[i].attempt = 0
  BY DEF Untried
<1>1. PICK rank : ops = [j \in OpIds |-> InitialOp(rank, j)]
  BY DEF Init, InitialOps
<1>2. ASSUME NEW a, NEW type
      PROVE  /\ DirectoryOp(type, a).attempt = 0
             /\ Finished(DirectoryOp(type, a)).attempt = 0
  BY DEF DirectoryOp, Op, Finished
<1> QED
  BY <1>1, <1>2 DEF InitialOp

\* The worker's and the clock's steps change rows that are queued.
LEMMA StepUntried == IInv /\ Untried /\ [Next]_vars => Untried'
<1> SUFFICES ASSUME IInv, Untried, [Next]_vars PROVE Untried'
  OBVIOUS
<1>1. ASSUME NEW op, Enqueue(op) PROVE Untried'
  <2>1. /\ nextOp \in Nat /\ nextOp' = nextOp + 1
        /\ \A i \in OpIds : i # nextOp => ops'[i] = ops[i]
    BY <1>1 DEF Enqueue, IInv, TypeOK
  <2>2. \A i \in OpIds : i \notin Issued' => i \notin Issued /\ i # nextOp
    BY <2>1 DEF Issued, OpIds
  <2> QED
    BY <2>1, <2>2 DEF Untried
<1>2. ASSUME UNCHANGED nextOp, NEW i \in Issued, \A j \in OpIds \ {i} : ops'[j] = ops[j]
      PROVE  Untried'
  BY <1>2 DEF Untried, Issued
<1>3. CASE UNCHANGED <<ops, nextOp>>
  BY <1>3 DEF Untried, Issued
<1>4. ASSUME NEW c \in Clients, ClientStep(c) PROVE Untried'
  BY <1>1, <1>3, <1>4
  DEF ClientStep, Acquire, Abort, StartTask, CreateEpisode, RenumberScene
<1>5. ASSUME NEW w \in Workers, WorkerStep(w) PROVE Untried'
  <2>1. ASSUME NEW i \in Issued, Claim(w, i) PROVE Untried'
    BY <1>2, <2>1, ClaimEffect DEF Claim
  <2>2. CASE MarkSucceeded(w) \/ RecordFailure(w)
    <3>1. UNCHANGED nextOp
      BY <2>2 DEF MarkSucceeded, RecordFailure
    <3> QED
      BY <1>2, <2>2, <3>1, ReportEffect
  <2> QED
    BY <1>3, <1>5, <2>1, <2>2, RowsUntouched DEF WorkerStep, WriteBack
<1>6. ASSUME NEW i \in Issued, LeaseExpires(i) \/ RetryTimeComes(i) PROVE Untried'
  <2>1. UNCHANGED nextOp /\ \A j \in OpIds \ {i} : ops'[j] = ops[j]
    BY <1>6 DEF LeaseExpires, RetryTimeComes, IInv, TypeOK
  <2> QED
    BY <1>2, <2>1
<1> QED
  BY <1>1, <1>3, <1>4, <1>5, <1>6
  DEF Next, vars, Begin, RetryProjectStorage, RetryOperation

\* The state of the abstract queue that the rows and workers stand for.
Epochs == [i \in OpIds |-> ops[i].attempt]
At(v) == IF v.pc = "idle" THEN <<>> ELSE <<v.op, v.attempt>>
Running == [w \in Workers |-> At(worker[w])]
Stage(op) ==
  CASE op.status \in {"pending", "retry_wait"} -> "queued"
    [] op.status = "processing" -> "claimed"
    [] op.status = "succeeded" -> "done"
    [] op.status = "failed" -> "dead"
Stages == [i \in OpIds |-> IF i \notin Issued THEN "absent" ELSE Stage(ops[i])]

LEMMA QueueMapped ==
  /\ QueueState = Stages
  /\ Queue!QueueInit <=>
       /\ Stages \in [OpIds -> {"absent", "queued", "done"}]
       /\ Epochs = [i \in OpIds |-> 0]
       /\ Running = [w \in Workers |-> <<>>]
  /\ Queue!queueVars = <<Stages, Epochs, Running>>
  BY DEF QueueState, Stages, Stage, Epochs, Running, At, Queue!QueueInit, Queue!queueVars

\* What the abstract actions say of the mapped state.
LEMMA SubmitMapped ==
  ASSUME NEW i \in OpIds, Stages[i] = "absent",
         Stages' = [Stages EXCEPT ![i] = "queued"], UNCHANGED <<Epochs, Running>>
  PROVE  Queue!QueueNext
<1>1. Queue!Submit(i)
  BY QueueMapped DEF Queue!Submit, QueueState, Stages, Stage, Epochs, Running, At
<1> QED
  BY <1>1 DEF Queue!QueueNext

LEMMA TakeMapped ==
  ASSUME NEW w \in Workers, NEW i \in OpIds, Running[w] = <<>>, Stages[i] = "queued",
         Stages' = [Stages EXCEPT ![i] = "claimed"],
         Epochs' = [Epochs EXCEPT ![i] = Epochs[i] + 1],
         Running' = [Running EXCEPT ![w] = <<i, Epochs[i] + 1>>]
  PROVE  Queue!QueueNext
<1>1. Queue!Take(w, i)
  BY DEF Queue!Take, QueueState, Stages, Stage, Epochs, Running, At
<1> QED
  BY <1>1 DEF Queue!QueueNext

LEMMA ReportMapped ==
  ASSUME NEW w \in Workers, NEW i \in OpIds, NEW outcome \in {"queued", "done", "dead"},
         Running[w] = <<i, Epochs[i]>>, Stages[i] = "claimed",
         Stages' = [Stages EXCEPT ![i] = outcome], UNCHANGED Epochs,
         Running' = [Running EXCEPT ![w] = <<>>]
  PROVE  Queue!QueueNext
<1>1. Queue!Report(w, i, outcome)
  BY DEF Queue!Report, QueueState, Stages, Stage, Epochs, Running, At
<1> QED
  BY <1>1 DEF Queue!QueueNext

LEMMA DropMapped ==
  ASSUME NEW w \in Workers, Running[w] # <<>>, UNCHANGED <<Stages, Epochs>>,
         Running' = [Running EXCEPT ![w] = <<>>]
  PROVE  Queue!QueueNext
<1>1. Queue!Drop(w)
  BY DEF Queue!Drop, QueueState, Stages, Stage, Epochs, Running, At
<1> QED
  BY <1>1 DEF Queue!QueueNext

LEMMA SameStage ==
  ASSUME NEW o, NEW p, o.status = p.status, p.status \in OpStatus
  PROVE  Stage(o) = Stage(p)
  BY DEF Stage, OpStatus, Active

\* A step that changes the stage of one row.
LEMMA StageMoves ==
  ASSUME NEW i \in OpIds, i \in Issued', \A j \in OpIds \ {i} : ops'[j] = ops[j],
         \A j \in OpIds \ {i} : j \in Issued' <=> j \in Issued
  PROVE  Stages' = [Stages EXCEPT ![i] = Stage(ops'[i])]
<1>1. Stages'[i] = Stage(ops'[i])
  BY DEF Stages
<1>2. ASSUME NEW j \in OpIds, j # i PROVE Stages'[j] = Stages[j]
  BY <1>2 DEF Stages
<1> QED
  BY <1>1, <1>2 DEF Stages

\* Queueing a row submits it.
LEMMA EnqueueSubmits ==
  ASSUME IInv, Untried, NEW op, Enqueue(op), op.status = "pending", op.attempt = 0,
         UNCHANGED worker
  PROVE  Queue!QueueNext
<1>1. /\ nextOp \in OpIds /\ nextOp \notin Issued
      /\ ops'[nextOp] = op /\ \A j \in OpIds \ {nextOp} : ops'[j] = ops[j]
  BY DEF Enqueue, IInv, TypeOK, OpIds, Issued
<1>2. \A j \in OpIds : j \in Issued' <=> j = nextOp \/ j \in Issued
  BY <1>1 DEF Enqueue, IInv, TypeOK, OpIds, Issued
<1>3. Stages[nextOp] = "absent"
  BY <1>1 DEF Stages
<1>4. Stages' = [Stages EXCEPT ![nextOp] = "queued"]
  <2>1. Stage(ops'[nextOp]) = "queued"
    BY <1>1 DEF Stage
  <2> QED
    BY <1>1, <1>2, <2>1, StageMoves
<1>5. Epochs' = Epochs
  BY <1>1 DEF Epochs, Untried
<1>6. Running' = Running
  BY DEF Running, At
<1> QED
  BY <1>1, <1>3, <1>4, <1>5, <1>6, SubmitMapped

\* A step that neither claims, ends nor queues a row.
LEMMA QueueRests ==
  ASSUME IInv, UNCHANGED nextOp, Running' = Running,
         \A i \in OpIds : /\ ops'[i].status = ops[i].status
                          /\ ops'[i].attempt = ops[i].attempt
  PROVE  UNCHANGED Queue!queueVars
<1>1. \A i \in OpIds : Stage(ops'[i]) = Stage(ops[i])
  BY SameStage DEF IInv, TypeOK, OpRecord
<1>2. Stages' = Stages
  BY <1>1 DEF Stages, Issued
<1>3. Epochs' = Epochs
  BY DEF Epochs
<1> QED
  BY <1>2, <1>3, QueueMapped DEF QueueState, Stages, Stage, Epochs, Running, At, Queue!queueVars

\* A worker that goes on with its claim is still at the same row and epoch.
LEMMA WorkerRests ==
  ASSUME IInv, NEW w \in Workers, NEW r, worker' = [worker EXCEPT ![w] = r],
         worker[w].pc # "idle", r.pc # "idle",
         r.op = worker[w].op, r.attempt = worker[w].attempt
  PROVE  Running' = Running
  BY DEF Running, At, IInv, TypeOK

LEMMA WorkerStops ==
  ASSUME IInv, NEW w \in Workers, worker' = [worker EXCEPT ![w] = Idle]
  PROVE  Running' = [Running EXCEPT ![w] = <<>>]
  BY DEF Running, At, Idle, IInv, TypeOK

LEMMA WorkerRuns ==
  ASSUME NEW w \in Workers, worker[w].pc # "idle"
  PROVE  Running[w] = <<worker[w].op, worker[w].attempt>> /\ Running[w] # <<>>
  BY DEF Running, At

LEMMA ClaimTakes ==
  ASSUME IInv, NEW w \in Workers, NEW i \in Issued, Claim(w, i)
  PROVE  Queue!QueueNext
<1>1. /\ i \in OpIds /\ ops[i].status \in {"pending", "retry_wait"}
      /\ ops'[i].status = "processing" /\ ops'[i].attempt = ops[i].attempt + 1
      /\ \A j \in OpIds \ {i} : ops'[j] = ops[j]
      /\ worker' = [worker EXCEPT ![w] = [pc |-> "io", op |-> i,
                      attempt |-> ops[i].attempt + 1, retryable |-> TRUE]]
      /\ worker[w].pc = "idle" /\ nextOp' = nextOp
  BY ClaimEffect DEF Claim
<1>2. Running[w] = <<>> /\ Stages[i] = "queued"
  BY <1>1 DEF Running, At, Stages, Stage
<1>3. Stages' = [Stages EXCEPT ![i] = "claimed"]
  <2>1. Stage(ops'[i]) = "claimed"
    BY <1>1 DEF Stage
  <2> QED
    BY <1>1, <2>1, StageMoves DEF Issued
<1>4. Epochs' = [Epochs EXCEPT ![i] = Epochs[i] + 1] /\ Epochs[i] = ops[i].attempt
  BY <1>1 DEF Epochs
<1>5. Running' = [Running EXCEPT ![w] = <<i, ops[i].attempt + 1>>]
  BY <1>1 DEF Running, At, IInv, TypeOK
<1> QED
  BY <1>1, <1>2, <1>3, <1>4, <1>5, TakeMapped

LEMMA WriteBackReports ==
  ASSUME IInv, NEW w \in Workers, MarkSucceeded(w) \/ RecordFailure(w)
  PROVE  Queue!QueueNext
<1> DEFINE i == worker[w].op
<1>1. /\ i \in Issued /\ i \in OpIds /\ ops[i].status = "processing"
      /\ ops'[i].attempt = ops[i].attempt /\ ops[i].attempt = worker[w].attempt
      /\ ops'[i].status \in {"succeeded", "failed", "retry_wait"}
      /\ \A j \in OpIds \ {i} : ops'[j] = ops[j]
      /\ worker' = [worker EXCEPT ![w] = Idle] /\ worker[w].pc # "idle"
  BY ReportEffect
<1>2. nextOp' = nextOp
  BY DEF MarkSucceeded, RecordFailure
<1>3. Stages[i] = "claimed" /\ Running[w] = <<i, Epochs[i]>>
  BY <1>1, WorkerRuns DEF Stages, Stage, Epochs
<1>4. PICK outcome \in {"queued", "done", "dead"} : Stage(ops'[i]) = outcome
  BY <1>1 DEF Stage
<1>5. Stages' = [Stages EXCEPT ![i] = outcome]
  BY <1>1, <1>2, <1>4, StageMoves DEF Issued
<1>6. Epochs' = Epochs
  BY <1>1 DEF Epochs
<1>7. Running' = [Running EXCEPT ![w] = <<>>]
  BY <1>1, WorkerStops
<1> QED
  BY <1>1, <1>3, <1>5, <1>6, <1>7, ReportMapped

\* A worker that comes back, or dies, without a result.
LEMMA WorkerDrops ==
  ASSUME IInv, NEW w \in Workers, worker[w].pc # "idle",
         worker' = [worker EXCEPT ![w] = Idle], UNCHANGED <<ops, nextOp>>
  PROVE  Queue!QueueNext
<1>1. Running[w] # <<>>
  BY WorkerRuns
<1>2. Stages' = Stages /\ Epochs' = Epochs
  BY DEF Stages, Stage, Epochs, Issued
<1> QED
  BY <1>1, <1>2, WorkerStops, DropMapped

LEMMA QueueWorkerStep ==
  ASSUME IInv, NEW w \in Workers, WorkerStep(w)
  PROVE  Queue!QueueNext \/ UNCHANGED Queue!queueVars
<1>1. ASSUME NEW r, worker' = [worker EXCEPT ![w] = r], worker[w].pc # "idle",
             r.pc # "idle", r.op = worker[w].op, r.attempt = worker[w].attempt,
             UNCHANGED <<ops, nextOp>>
      PROVE  UNCHANGED Queue!queueVars
  BY <1>1, WorkerRests, QueueRests
<1>2. worker[w] \in WorkerRecord
  BY DEF IInv, TypeOK
<1>3. ASSUME NEW pc \in {"lost", "broken", "done", "failed"}, worker[w].pc # "idle",
             worker' = [worker EXCEPT ![w] = [worker[w] EXCEPT !.pc = pc]],
             UNCHANGED <<ops, nextOp>>
      PROVE  UNCHANGED Queue!queueVars
  <2> DEFINE r == [worker[w] EXCEPT !.pc = pc]
  <2>1. r.pc # "idle" /\ r.op = worker[w].op /\ r.attempt = worker[w].attempt
    BY <1>2 DEF WorkerRecord
  <2> QED
    BY <1>1, <1>3, <2>1
<1>4. CASE RenewRefused(w) \/ RenewRaises(w)
  <2>1. PICK pc \in {"lost", "broken"} :
          /\ worker' = [worker EXCEPT ![w] = [worker[w] EXCEPT !.pc = pc]]
          /\ worker[w].pc # "idle" /\ UNCHANGED <<ops, nextOp>>
    BY <1>4 DEF RenewRefused, RenewRaises, IInv, TypeOK
  <2> QED
    BY <1>3, <2>1
<1>5. CASE IoSucceeds(w)
  <2>1. CASE worker[w].pc = "lost"
    BY <1>5, <2>1, WorkerDrops DEF IoSucceeds
  <2>2. CASE worker[w].pc # "lost"
    <3> DEFINE pc == IF worker[w].pc = "io" THEN "done" ELSE "failed"
    <3>1. /\ worker' = [worker EXCEPT ![w] = [worker[w] EXCEPT !.pc = pc]]
          /\ worker[w].pc # "idle" /\ UNCHANGED <<ops, nextOp>>
      BY <1>5, <2>2 DEF IoSucceeds
    <3> QED
      BY <1>3, <3>1
  <2> QED
    BY <2>1, <2>2
<1>6. ASSUME NEW b \in BOOLEAN, IoFails(w, b) PROVE UNCHANGED Queue!queueVars
  <2> DEFINE r == [worker[w] EXCEPT !.pc = "failed", !.retryable = b]
  <2>1. r.pc # "idle" /\ r.op = worker[w].op /\ r.attempt = worker[w].attempt
    BY <1>2 DEF WorkerRecord
  <2>2. /\ worker' = [worker EXCEPT ![w] = r]
        /\ worker[w].pc # "idle" /\ UNCHANGED <<ops, nextOp>>
    BY <1>6 DEF IoFails, IInv, TypeOK
  <2> QED
    BY <1>1, <2>1, <2>2
<1>7. CASE RenumberConflict(w) \/ WriteBackRaises(w) \/ Crash(w)
  BY <1>7, WorkerDrops DEF RenumberConflict, WriteBackRaises, Crash
<1> QED
  BY <1>4, <1>5, <1>6, <1>7, ClaimTakes, WriteBackReports DEF WorkerStep, WriteBack, IoEnds

LEMMA QueueStep == IInv /\ Untried /\ [Next]_vars => [Queue!QueueNext]_(Queue!queueVars)
<1> SUFFICES ASSUME IInv, Untried, [Next]_vars
             PROVE  Queue!QueueNext \/ UNCHANGED Queue!queueVars
  OBVIOUS
<1>1. ASSUME UNCHANGED <<ops, nextOp, worker>>
      PROVE  UNCHANGED Queue!queueVars
  <2>1. Running' = Running
    BY <1>1 DEF Running, At
  <2> QED
    BY <1>1, <2>1, QueueRests
<1>2. ASSUME NEW type, NEW a, NEW path, NEW items, NEW expected
      PROVE  LET op == Op(type, a, path, items, expected) IN
             op.status = "pending" /\ op.attempt = 0
  BY DEF Op
<1>3. ASSUME NEW type, NEW a, NEW path, NEW items, NEW expected,
             Enqueue(Op(type, a, path, items, expected)), UNCHANGED worker
      PROVE  Queue!QueueNext
  BY <1>2, <1>3, EnqueueSubmits
<1>4. ASSUME NEW c \in Clients, ClientStep(c)
      PROVE  Queue!QueueNext \/ UNCHANGED Queue!queueVars
  <2>1. CASE Acquire(c) \/ Abort(c)
    BY <1>1, <2>1 DEF Acquire, Abort
  <2>2. ASSUME NEW t \in Tasks, StartTask(c, t)
        PROVE  Queue!QueueNext \/ UNCHANGED Queue!queueVars
    <3>1. CASE Enqueue(DirectoryOp("ensure_directory", Target[t]))
      BY <1>3, <2>2, <3>1 DEF StartTask, DirectoryOp
    <3> QED
      BY <1>1, <2>2, <3>1 DEF StartTask
  <2>3. ASSUME NEW e \in Episodes, CreateEpisode(c, e) PROVE Queue!QueueNext
    BY <1>3, <2>3 DEF CreateEpisode, DirectoryOp
  <2>4. ASSUME NEW items \in SUBSET Shots, RenumberScene(c, items) PROVE Queue!QueueNext
    BY <1>3, <2>4 DEF RenumberScene
  <2> QED
    BY <1>4, <2>1, <2>2, <2>3, <2>4 DEF ClientStep
<1>5. CASE RetryProjectStorage
  BY <1>3, <1>5 DEF RetryProjectStorage, DirectoryOp
<1>6. ASSUME NEW i \in Issued, RetryOperation(i) PROVE Queue!QueueNext
  <2>1. CASE IsShotRenumber(ops[i])
    BY <1>3, <1>6, <2>1 DEF RetryOperation
  <2>2. CASE ~IsShotRenumber(ops[i])
    BY <1>3, <1>6, <2>2 DEF RetryOperation, DirectoryOp
  <2> QED
    BY <2>1, <2>2
<1>7. ASSUME NEW i \in Issued, LeaseExpires(i) \/ RetryTimeComes(i)
      PROVE  UNCHANGED Queue!queueVars
  <2>1. /\ UNCHANGED <<nextOp, worker>>
        /\ \/ ops' = [ops EXCEPT ![i].lease = FALSE]
           \/ ops' = [ops EXCEPT ![i].due = TRUE]
    BY <1>7 DEF LeaseExpires, RetryTimeComes
  <2>2. \A j \in OpIds : /\ ops'[j].status = ops[j].status
                         /\ ops'[j].attempt = ops[j].attempt
    <3>1. CASE ops' = [ops EXCEPT ![i].lease = FALSE]
      BY <3>1 DEF IInv, TypeOK, OpRecord
    <3>2. CASE ops' = [ops EXCEPT ![i].due = TRUE]
      BY <3>2 DEF IInv, TypeOK, OpRecord
    <3> QED
      BY <2>1, <3>1, <3>2
  <2>3. Running' = Running
    BY <2>1 DEF Running, At
  <2> QED
    BY <2>1, <2>2, <2>3, QueueRests
<1>8. CASE \E c \in Clients, r \in Tasks \cup Episodes \cup {Scene} : Begin(c, r)
  BY <1>1, <1>8 DEF Begin
<1>9. CASE UNCHANGED vars
  BY <1>1, <1>9 DEF vars
<1> QED
  BY <1>4, <1>5, <1>6, <1>7, <1>8, <1>9, QueueWorkerStep DEF Next

LEMMA QueueInits == Init => Queue!QueueInit
<1> SUFFICES ASSUME Init PROVE Queue!QueueInit
  OBVIOUS
<1>1. PICK rank : ops = [i \in OpIds |-> InitialOp(rank, i)]
  BY DEF Init, InitialOps
<1>2. ASSUME NEW type, NEW a
      PROVE  /\ DirectoryOp(type, a).attempt = 0 /\ DirectoryOp(type, a).status = "pending"
             /\ Finished(DirectoryOp(type, a)).attempt = 0
             /\ Finished(DirectoryOp(type, a)).status = "succeeded"
  BY DEF DirectoryOp, Op, Finished
<1>3. ASSUME NEW i \in OpIds
      PROVE  ops[i].attempt = 0 /\ ops[i].status \in {"pending", "succeeded"}
  BY <1>1, <1>2 DEF InitialOp
<1>4. Stages \in [OpIds -> {"absent", "queued", "done"}]
  BY <1>3 DEF Stages, Stage
<1>5. Epochs = [i \in OpIds |-> 0]
  BY <1>3 DEF Epochs
<1>6. Running = [w \in Workers |-> <<>>]
  BY DEF Init, Running, At, Idle
<1> QED
  BY <1>4, <1>5, <1>6, QueueMapped

\* The directory outbox is a lease queue without takeover, for any number of
\* workers and rows: it is taken by one worker at a time, a result is its
\* holder's, and what is finished stays finished (build_claim_statement and
\* _lock_owned_operation of storage_operation_dao.py).
THEOREM OutboxImplementsQueue == Spec => ImplementsQueue
<1>1. Init => Queue!QueueInit
  BY QueueInits
<1> QED
  BY <1>1, InitIInv, StepIInv, InitUntried, StepUntried, QueueStep, PTL
  DEF Spec, ImplementsQueue, Queue!QueueSpec

-----------------------------------------------------------------------------
(* The newest row of an aggregate.                                         *)

Over == {"succeeded", "failed"}
Queued(a) == \E i \in Issued : ops[i].agg = a
\* Every row but the newest of an aggregate has come to an end.
Settled(a) ==
  \A i, j \in Issued : i < j /\ ops[i].agg = a /\ ops[j].agg = a => ops[i].status \in Over

RowsNamed ==
  \A i \in Issued : /\ ops[i].agg \in Aggregates
                    /\ IsShotRenumber(ops[i]) <=> ops[i].agg = Scene
NewestKnown == \A i \in Issued : \E j \in Issued : IsLatest(j, ops[i].agg)
OlderFinished == \A a \in Aggregates \ {Scene} : Settled(a)

LEMMA LatestIs ==
  TypeOK => \A a, i : i \in Issued /\ IsLatest(i, a) => LatestStatus(a) = ops[i].status
<1> SUFFICES ASSUME TypeOK, NEW a, NEW i \in Issued, IsLatest(i, a)
             PROVE  LatestStatus(a) = ops[i].status
  OBVIOUS
<1> DEFINE j == CHOOSE k \in Issued : IsLatest(k, a)
<1>1. j \in Issued /\ IsLatest(j, a)
  OBVIOUS
<1>2. i <= j /\ j <= i
  BY <1>1 DEF IsLatest
<1>3. i = j
  BY <1>1, <1>2 DEF Issued
<1> QED
  BY <1>3 DEF LatestStatus

LEMMA LatestIsNext ==
  (TypeOK => \A a, i : i \in Issued /\ IsLatest(i, a) => LatestStatus(a) = ops[i].status)'
  BY LatestIs, PTL

LEMMA LatestNone == \A a : ~Queued(a) => LatestStatus(a) = "none"
  BY DEF Queued, LatestStatus, IsLatest
LEMMA LatestNoneNext == (\A a : ~Queued(a) => LatestStatus(a) = "none")'
  BY LatestNone, PTL

\* Nothing was ever queued for an aggregate without a status.
LEMMA LatestSome ==
  ASSUME TypeOK, NewestKnown, NEW a
  PROVE  /\ Queued(a) <=> LatestStatus(a) # "none"
         /\ Queued(a) => \E i \in Issued : IsLatest(i, a) /\ LatestStatus(a) = ops[i].status
         /\ LatestStatus(a) \in OpStatus \cup {"none"}
<1>1. ASSUME Queued(a)
      PROVE  \E i \in Issued : IsLatest(i, a) /\ LatestStatus(a) = ops[i].status
  BY <1>1, LatestIs DEF Queued, NewestKnown
<1>2. \A i \in Issued : ops[i].status \in OpStatus
  BY OutboxAssumption DEF TypeOK, Issued, OpIds, OpRecord
<1>3. \A i \in Issued : ops[i].status # "none"
  BY <1>2 DEF OpStatus, Active
<1> QED
  BY <1>1, <1>2, <1>3, LatestNone

\* A row that is not over is the newest of its aggregate.
LEMMA UnfinishedIsNewest ==
  ASSUME TypeOK, NewestKnown, NEW i \in Issued, Settled(ops[i].agg),
         ops[i].status \notin Over
  PROVE  IsLatest(i, ops[i].agg) /\ LatestStatus(ops[i].agg) = ops[i].status
<1>1. PICK j \in Issued : IsLatest(j, ops[i].agg)
  BY DEF NewestKnown
<1>2. i <= j /\ ops[j].agg = ops[i].agg
  BY <1>1 DEF IsLatest
<1>3. i \in Int /\ j \in Int
  BY <1>1 DEF Issued
<1>4. i = j
  BY <1>1, <1>2, <1>3 DEF Settled
<1> QED
  BY <1>1, <1>4, LatestIs

\* Queueing a row makes it the newest of its aggregate and of no other.
LEMMA LatestPushed ==
  ASSUME TypeOK, TypeOK', NewestKnown, NEW op, Enqueue(op), NEW n, n = nextOp
  PROVE  /\ Issued' = Issued \cup {n} /\ ops'[n] = op /\ \A j \in Issued' : j <= n
         /\ \A i \in Issued : ops'[i] = ops[i] /\ i < n
         /\ n \in Issued' /\ IsLatest(n, op.agg)' /\ LatestStatus(op.agg)' = op.status
         /\ \A a : a # op.agg =>
              /\ LatestStatus(a)' = LatestStatus(a)
              /\ \A i \in Issued : IsLatest(i, a) => IsLatest(i, a)'
<1>0. /\ n \in OpIds /\ n \in Nat /\ nextOp' = n + 1 /\ Issued = 1..(n - 1)
      /\ Issued' = 1..n
  BY DEF TypeOK, Enqueue, Issued, OpIds
<1>1. /\ n \in OpIds /\ Issued' = Issued \cup {n} /\ Issued \subseteq OpIds /\ n \in Nat
      /\ ops'[n] = op /\ \A i \in Issued : ops'[i] = ops[i] /\ i < n
  <2>1. Issued' = Issued \cup {n} /\ \A i \in Issued : i < n
    BY <1>0 DEF OpIds
  <2>2. Issued \subseteq OpIds
    BY <1>0, OutboxAssumption DEF OpIds
  <2>3. ops'[n] = op /\ \A i \in OpIds : i # n => ops'[i] = ops[i]
    BY <1>0 DEF Enqueue, TypeOK
  <2> QED
    BY <1>0, <2>1, <2>2, <2>3
<1>2. n \in Issued' /\ IsLatest(n, op.agg)'
  <2>1. ops'[n].agg = op.agg /\ n \in Issued' /\ \A j \in Issued' : j <= n
    BY <1>0, <1>1
  <2> QED
    BY <2>1 DEF IsLatest
<1>3. ASSUME NEW a, a # op.agg, NEW i \in Issued, IsLatest(i, a)
      PROVE  IsLatest(i, a)'
  BY <1>1, <1>3 DEF IsLatest
<1>4. ASSUME NEW a, a # op.agg
      PROVE  LatestStatus(a)' = LatestStatus(a)
  <2>1. CASE Queued(a)
    <3>1. PICK i \in Issued : IsLatest(i, a) /\ LatestStatus(a) = ops[i].status
      BY <2>1, LatestSome
    <3>2. LatestStatus(a)' = ops'[i].status
      BY <1>1, <1>3, <1>4, <3>1, LatestIsNext
    <3> QED
      BY <1>1, <3>1, <3>2
  <2>2. CASE ~Queued(a)
    <3>1. ~Queued(a)'
      BY <1>1, <1>4, <2>2 DEF Queued
    <3> QED
      BY <2>2, <3>1, LatestNone, LatestNoneNext
  <2> QED
    BY <2>1, <2>2
<1>5. LatestStatus(op.agg)' = op.status
  BY <1>1, <1>2, LatestIsNext
<1>6. \A j \in Issued' : j <= n
  BY <1>0
<1> QED
  BY <1>1, <1>2, <1>3, <1>4, <1>5, <1>6

\* Without a new row the newest ones stay, and so do their statuses unless
\* the row itself changes.
LEMMA LatestStays ==
  ASSUME IInv, IInv', NewestKnown, [Next]_vars, nextOp' = nextOp
  PROVE  /\ \A a : Queued(a)' <=> Queued(a)
         /\ \A a, i : i \in Issued => (IsLatest(i, a)' <=> IsLatest(i, a))
         /\ \A a, i : i \in Issued /\ IsLatest(i, a) => LatestStatus(a)' = ops'[i].status
         /\ \A a : ~Queued(a) => LatestStatus(a)' = "none"
<1>1. Issued' = Issued
  BY DEF Issued
<1>2. \A i \in Issued : ops'[i].agg = ops[i].agg
  BY RowsFrozen DEF Purpose
<1>3. \A a : Queued(a)' <=> Queued(a)
  BY <1>1, <1>2 DEF Queued
<1>4. ASSUME NEW a, NEW i \in Issued PROVE IsLatest(i, a)' <=> IsLatest(i, a)
  BY <1>1, <1>2 DEF IsLatest
<1> QED
  BY <1>1, <1>3, <1>4, LatestIsNext, LatestNoneNext DEF IInv

LEMMA LatestKept ==
  ASSUME IInv, IInv', NewestKnown, [Next]_vars, nextOp' = nextOp, NEW a,
         \A i \in Issued : ops[i].agg = a => ops'[i].status = ops[i].status
  PROVE  LatestStatus(a)' = LatestStatus(a)
<1>1. CASE Queued(a)
  <2>1. PICK i \in Issued : IsLatest(i, a) /\ LatestStatus(a) = ops[i].status
    BY <1>1, LatestSome DEF IInv
  <2> QED
    BY <2>1, LatestStays DEF IsLatest
<1>2. CASE ~Queued(a)
  BY <1>2, LatestNone, LatestStays
<1> QED
  BY <1>1, <1>2

LEMMA LatestKindKept ==
  ASSUME IInv, IInv', NewestKnown, [Next]_vars, nextOp' = nextOp, NEW a,
         \A i \in Issued : ops'[i].status = "succeeded" <=> ops[i].status = "succeeded"
  PROVE  /\ LatestStatus(a)' = "none" <=> LatestStatus(a) = "none"
         /\ LatestStatus(a)' = "succeeded" <=> LatestStatus(a) = "succeeded"
<1>1. CASE Queued(a)
  <2>1. PICK i \in Issued : IsLatest(i, a) /\ LatestStatus(a) = ops[i].status
    BY <1>1, LatestSome DEF IInv
  <2>2. LatestStatus(a)' = ops'[i].status
    BY <2>1, LatestStays
  <2>3. i \in OpIds
    BY OutboxAssumption DEF IInv, TypeOK, Issued, OpIds
  <2>4. ops[i].status \in OpStatus /\ ops'[i].status \in OpStatus
    BY <2>3 DEF IInv, TypeOK, OpRecord
  <2>5. ops[i].status # "none" /\ ops'[i].status # "none"
    BY <2>4 DEF OpStatus, Active
  <2> QED
    BY <2>1, <2>2, <2>5
<1>2. CASE ~Queued(a)
  BY <1>2, LatestNone, LatestStays
<1> QED
  BY <1>1, <1>2

\* An unfinished row that changes takes the status of its aggregate with it.
LEMMA LatestMoved ==
  ASSUME IInv, IInv', NewestKnown, [Next]_vars, nextOp' = nextOp,
         NEW i \in Issued, NEW a, a = ops[i].agg, ops[i].status \notin Over, Settled(a),
         \A j \in OpIds \ {i} : ops'[j] = ops[j]
  PROVE  /\ LatestStatus(a) = ops[i].status /\ LatestStatus(a)' = ops'[i].status
         /\ \A b : b # a => LatestStatus(b)' = LatestStatus(b)
<1>1. IsLatest(i, a) /\ LatestStatus(a) = ops[i].status
  BY UnfinishedIsNewest DEF IInv
<1>2. LatestStatus(a)' = ops'[i].status
  BY <1>1, LatestStays
<1>3. Issued \subseteq OpIds
  BY OutboxAssumption DEF IInv, TypeOK, Issued, OpIds
<1>4. ASSUME NEW b, b # a PROVE LatestStatus(b)' = LatestStatus(b)
  BY <1>3, <1>4, LatestKept
<1> QED
  BY <1>1, <1>2, <1>4

-----------------------------------------------------------------------------
(* What explains the statuses.                                             *)

\* Requests hold the project row one at a time, and what a request has read of
\* the newest operation of its task's directory is still true of it: the
\* write-back of a success waits for the lock as well.
OneHolder == \A c, d \in Clients : tx[c].pc = "holding" /\ tx[d].pc = "holding" => c = d
ReadUnderLock ==
  \A c \in Clients, t \in Tasks : tx[c].pc = "holding" /\ tx[c].req = t =>
    /\ tx[c].latest = "none" <=> LatestStatus(Target[t]) = "none"
    /\ tx[c].latest = "succeeded" <=> LatestStatus(Target[t]) = "succeeded"
QueuedShotsNamed == \A i \in Issued : ops[i].agg \in Shots => named[ops[i].agg] = TRUE

\* A success on record is a directory on the NAS, and so is the success that a
\* worker is about to report.
SucceededIsMade ==
  \A i \in Issued :
    ops[i].status = "succeeded" /\ ~IsShotRenumber(ops[i]) => made[ops[i].agg] = TRUE
DoneIsMade ==
  \A w \in Workers :
    worker[w].pc = "done" /\ ~IsShotRenumber(ops[worker[w].op])
      => made[ops[worker[w].op].agg] = TRUE
ClaimedIsStarted ==
  \A w \in Workers :
    worker[w].pc # "idle" /\ ops[worker[w].op].agg \in Assets
      => Started(ops[worker[w].op].agg)

\* The storage status of the project and its newest initialization.
ProjectExplained ==
  /\ storage \in {"ready", "migrating"} <=> LatestStatus(Project) = "succeeded"
  /\ storage = "initializing" => LatestStatus(Project) \in Active
  /\ storage = "failed" => LatestStatus(Project) = "failed"
SceneAfterProject == Queued(Scene) => LatestStatus(Project) = "succeeded"
SeenReady ==
  \A c \in Clients :
    tx[c].pc # "idle" /\ tx[c].seen = "ready" => LatestStatus(Project) = "succeeded"

RowsInv == RowsNamed /\ NewestKnown /\ OlderFinished
ReadInv == OneHolder /\ ReadUnderLock /\ QueuedShotsNamed
MadeInv == SucceededIsMade /\ DoneIsMade /\ ClaimedIsStarted
TaskInv == PreparingHasOperation /\ StartedHasDirectory /\ AssetDirectoryAfterStart
ProjectInv == ProjectExplained /\ SceneAfterProject /\ SeenReady
EInv == RowsInv /\ ReadInv /\ MadeInv /\ TaskInv /\ ProjectInv

-----------------------------------------------------------------------------
(* Which steps queue a row, and which change one.                          *)

\* A row that a request or a retry may queue now.
Welcome(op) ==
  /\ op.status = "pending" /\ op.agg \in Aggregates
  /\ IsShotRenumber(op) <=> op.agg = Scene
  /\ op.agg # Scene => \A i \in Issued : ops[i].agg = op.agg => ops[i].status \in Over
  /\ op.agg \in Shots => named'[op.agg] = TRUE
  /\ op.agg = Project => storage = "failed" /\ storage' = "initializing"
  /\ op.agg # Project => storage' = storage \/ (op.agg = Scene /\ storage' = "migrating")
  /\ op.agg = Scene => LatestStatus(Project) = "succeeded"

LEMMA FreshWelcome ==
  ASSUME NEW type, type # "renumber_shot_directories", NEW a \in Aggregates, a # Scene
  PROVE  LET op == DirectoryOp(type, a) IN
         op.status = "pending" /\ op.agg = a /\ a \in Aggregates /\ ~IsShotRenumber(op)
  BY DEF DirectoryOp, Op, IsShotRenumber

LEMMA InactiveIsOver ==
  ASSUME TypeOK, NEW a, ~HasActive(a)
  PROVE  \A i \in Issued : ops[i].agg = a => ops[i].status \in Over
<1>1. \A i \in Issued : ops[i].status \in OpStatus
  BY OutboxAssumption DEF TypeOK, Issued, OpIds, OpRecord
<1> QED
  BY <1>1 DEF HasActive, OpStatus, Over

LEMMA StartTaskQueues ==
  ASSUME IInv, EInv, NEW c \in Clients, NEW t \in Tasks, StartTask(c, t)
  PROVE  \/ UNCHANGED <<ops, nextOp>>
         \/ \E op : Enqueue(op) /\ Welcome(op) /\ op.agg = Target[t]
<1> DEFINE a == Target[t]
           op == DirectoryOp("ensure_directory", a)
           first == a \in Shots /\ ~named[a]
<1>1. a \in Shots \cup Assets /\ a \in Aggregates /\ a # Scene /\ a # Project
  BY OutboxAssumption DEF Aggregates
<1>2. CASE Enqueue(op)
  <2>1. op.status = "pending" /\ op.agg = a /\ ~IsShotRenumber(op)
    BY <1>1, FreshWelcome
  <2>2. \A i \in Issued : ops[i].agg # a
    <3>1. CASE first
      BY <3>1 DEF EInv, ReadInv, QueuedShotsNamed
    <3>2. CASE ~first
      <4>1. nextOp' # nextOp
        BY <1>2 DEF Enqueue, IInv, TypeOK
      <4>2. tx[c].latest = "none" /\ tx[c].pc = "holding" /\ tx[c].req = t
        BY <3>2, <4>1 DEF StartTask
      <4>3. LatestStatus(a) = "none"
        BY <4>2 DEF EInv, ReadInv, ReadUnderLock
      <4> QED
        BY <4>3, LatestSome DEF IInv, EInv, RowsInv, Queued
    <3> QED
      BY <3>1, <3>2
  <2>3. a \in Shots => named'[a] = TRUE
    BY DEF StartTask, IInv, TypeOK
  <2>4. storage' = storage
    BY DEF StartTask
  <2> HIDE DEF op
  <2> QED
    BY <1>1, <1>2, <2>1, <2>2, <2>3, <2>4 DEF Welcome
<1> QED
  BY <1>2 DEF StartTask

LEMMA Queues ==
  ASSUME IInv, EInv, [Next]_vars
  PROVE  nextOp' = nextOp \/ \E op : Enqueue(op) /\ Welcome(op)
<1>1. ASSUME NEW c \in Clients, ClientStep(c)
      PROVE  nextOp' = nextOp \/ \E op : Enqueue(op) /\ Welcome(op)
  <2>1. CASE Acquire(c) \/ Abort(c)
    BY <2>1 DEF Acquire, Abort
  <2>2. ASSUME NEW t \in Tasks, StartTask(c, t)
        PROVE  nextOp' = nextOp \/ \E op : Enqueue(op) /\ Welcome(op)
    BY <2>2, StartTaskQueues
  <2>3. ASSUME NEW e \in Episodes, CreateEpisode(c, e)
        PROVE  \E op : Enqueue(op) /\ Welcome(op)
    <3> DEFINE op == DirectoryOp("ensure_directory", e)
    <3>1. e \in Aggregates /\ e # Scene /\ e # Project
      BY OutboxAssumption DEF Aggregates
    <3>2. op.status = "pending" /\ op.agg = e /\ ~IsShotRenumber(op)
      BY <3>1, FreshWelcome
    <3>3. Enqueue(op) /\ storage' = storage /\ named' = named
          /\ \A i \in Issued : ops[i].agg # e
      BY <2>3 DEF CreateEpisode
    <3>4. e \in Shots => named'[e] = TRUE
      BY <2>3, OutboxAssumption DEF CreateEpisode
    <3> QED
      BY <3>1, <3>2, <3>3, <3>4 DEF Welcome
  <2>4. ASSUME NEW items \in SUBSET Shots, RenumberScene(c, items)
        PROVE  \E op : Enqueue(op) /\ Welcome(op)
    <3> DEFINE op == Op("renumber_shot_directories", Scene, 0, items, shotLock)
    <3>1. op.status = "pending" /\ op.agg = Scene /\ IsShotRenumber(op)
      BY DEF Op, IsShotRenumber
    <3>2. Scene \in Aggregates /\ Scene \notin Shots /\ Scene # Project
      BY OutboxAssumption DEF Aggregates
    <3>3. /\ Enqueue(op) /\ storage' = "migrating"
          /\ tx[c].seen = "ready" /\ tx[c].pc # "idle"
      BY <2>4 DEF RenumberScene
    <3>4. LatestStatus(Project) = "succeeded"
      BY <3>3 DEF EInv, ProjectInv, SeenReady
    <3> HIDE DEF op
    <3> QED
      BY <3>1, <3>2, <3>3, <3>4 DEF Welcome
  <2> QED
    BY <1>1, <2>1, <2>2, <2>3, <2>4 DEF ClientStep
<1>2. CASE RetryProjectStorage
  <2> DEFINE op == DirectoryOp("reconcile_directory", Project)
  <2>1. Project \in Aggregates /\ Project # Scene /\ Project \notin Shots
    BY OutboxAssumption DEF Aggregates
  <2>2. op.status = "pending" /\ op.agg = Project /\ ~IsShotRenumber(op)
    BY <2>1, FreshWelcome
  <2>3. Enqueue(op) /\ storage = "failed" /\ storage' = "initializing" /\ ~HasActive(Project)
    BY <1>2 DEF RetryProjectStorage
  <2>4. \A i \in Issued : ops[i].agg = Project => ops[i].status \in Over
    BY <2>3, InactiveIsOver DEF IInv
  <2> HIDE DEF op
  <2> QED
    BY <2>1, <2>2, <2>3, <2>4 DEF Welcome
<1>3. ASSUME NEW i \in Issued, RetryOperation(i)
      PROVE  \E op : Enqueue(op) /\ Welcome(op)
  <2> DEFINE a == ops[i].agg
  <2>1. a \in Aggregates /\ (IsShotRenumber(ops[i]) <=> a = Scene) /\ a # Project
    BY <1>3 DEF EInv, RowsInv, RowsNamed, RetryOperation
  <2>2. \A j \in Issued : ops[j].agg = a => ops[j].status \in Over
    BY <1>3, InactiveIsOver DEF RetryOperation, IInv
  <2>3. a \in Shots => named'[a] = TRUE
    BY <1>3 DEF RetryOperation, EInv, ReadInv, QueuedShotsNamed
  <2>4. storage' = storage
    BY <1>3 DEF RetryOperation
  <2>5. CASE IsShotRenumber(ops[i])
    <3> DEFINE op == Op(ops[i].type, Scene, 0, ops[i].items, ops[i].expected)
    <3>1. op.status = "pending" /\ op.agg = Scene /\ IsShotRenumber(op)
      BY <2>5 DEF Op, IsShotRenumber
    <3>2. Enqueue(op)
      BY <1>3, <2>5 DEF RetryOperation
    <3>3. LatestStatus(Project) = "succeeded"
      BY <2>1, <2>5 DEF EInv, ProjectInv, SceneAfterProject, Queued
    <3>4. Scene \notin Shots /\ Scene # Project
      BY OutboxAssumption
    <3> HIDE DEF op
    <3> QED
      BY <2>1, <2>4, <2>5, <3>1, <3>2, <3>3, <3>4 DEF Welcome
  <2>6. CASE ~IsShotRenumber(ops[i])
    <3> DEFINE op == DirectoryOp("reconcile_directory", a)
    <3>1. op.status = "pending" /\ op.agg = a /\ ~IsShotRenumber(op)
      BY <2>1, <2>6, FreshWelcome
    <3>2. Enqueue(op)
      BY <1>3, <2>6 DEF RetryOperation
    <3> HIDE DEF op
    <3> QED
      BY <2>1, <2>2, <2>3, <2>4, <2>6, <3>1, <3>2 DEF Welcome
  <2> QED
    BY <2>5, <2>6
<1>4. ASSUME NEW w \in Workers, WorkerStep(w) PROVE nextOp' = nextOp
  BY <1>4, RowsUntouched DEF WorkerStep, WriteBack, Claim, MarkSucceeded, RecordFailure
<1> QED
  BY <1>1, <1>2, <1>3, <1>4 DEF Next, vars, Begin, LeaseExpires, RetryTimeComes

LEMMA Rests ==
  ASSUME IInv, [Next]_vars, nextOp' = nextOp
  PROVE  \/ \A i \in OpIds : ops'[i].status = ops[i].status
         \/ \E w \in Workers, i \in Issued : Claim(w, i)
         \/ \E w \in Workers : MarkSucceeded(w) \/ RecordFailure(w)
<1>1. ASSUME NEW i \in Issued, LeaseExpires(i) \/ RetryTimeComes(i)
      PROVE  \A j \in OpIds : ops'[j].status = ops[j].status
  <2>1. \/ ops' = [ops EXCEPT ![i].lease = FALSE]
        \/ ops' = [ops EXCEPT ![i].due = TRUE]
    BY <1>1 DEF LeaseExpires, RetryTimeComes
  <2>2. CASE ops' = [ops EXCEPT ![i].lease = FALSE]
    BY <2>2 DEF IInv, TypeOK, OpRecord
  <2>3. CASE ops' = [ops EXCEPT ![i].due = TRUE]
    BY <2>3 DEF IInv, TypeOK, OpRecord
  <2> QED
    BY <2>1, <2>2, <2>3
<1>2. ASSUME NEW op PROVE ~Enqueue(op)
  BY DEF Enqueue, IInv, TypeOK
<1>3. ASSUME NEW c \in Clients, ClientStep(c) PROVE UNCHANGED ops
  BY <1>2, <1>3 DEF ClientStep, Acquire, Abort, StartTask, CreateEpisode, RenumberScene
<1>4. ASSUME NEW w \in Workers, WorkerStep(w)
      PROVE  \/ UNCHANGED ops
             \/ \E i \in Issued : Claim(w, i)
             \/ MarkSucceeded(w) \/ RecordFailure(w)
  BY <1>4, RowsUntouched DEF WorkerStep, WriteBack
<1>5. ~RetryProjectStorage /\ \A i \in Issued : ~RetryOperation(i)
  BY <1>2 DEF RetryProjectStorage, RetryOperation
<1> QED
  BY <1>1, <1>3, <1>4, <1>5 DEF Next, vars, Begin

LEMMA RowsStep ==
  ASSUME IInv, IInv', EInv, [Next]_vars
  PROVE  RowsInv'
<1> DEFINE n == nextOp
<1>0. RowsNamed /\ NewestKnown /\ OlderFinished
  BY DEF EInv, RowsInv
<1>1. ASSUME NEW op, Enqueue(op), Welcome(op)
      PROVE  RowsInv'
  <2>1. PICK m : m = nextOp
    OBVIOUS
  <2>2. /\ IsLatest(m, op.agg)' /\ m \in Issued'
        /\ \A a : a # op.agg => \A i \in Issued : IsLatest(i, a) => IsLatest(i, a)'
    BY <1>0, <1>1, <2>1, LatestPushed DEF IInv
  <2>3. /\ Issued' = Issued \cup {m} /\ ops'[m] = op
        /\ \A i \in Issued : ops'[i] = ops[i] /\ i < m
        /\ \A i \in Issued' : i <= m
    BY <1>0, <1>1, <2>1, LatestPushed DEF IInv
  <2>4. RowsNamed'
    BY <1>0, <1>1, <2>3 DEF RowsNamed, Welcome, IsShotRenumber
  <2>5. NewestKnown'
    <3> SUFFICES ASSUME NEW i \in Issued', NEW a, a = ops'[i].agg
                 PROVE  \E j \in Issued' : IsLatest(j, a)'
      BY DEF NewestKnown
    <3>1. CASE a = op.agg
      BY <2>2, <3>1
    <3>2. CASE a # op.agg
      <4>1. i \in Issued /\ a = ops[i].agg
        BY <2>3, <3>2
      <4> QED
        BY <1>0, <2>2, <2>3, <3>2, <4>1 DEF NewestKnown
    <3> QED
      BY <3>1, <3>2
  <2>6. OlderFinished'
    <3> SUFFICES ASSUME NEW a \in Aggregates \ {Scene}, NEW i \in Issued', NEW j \in Issued',
                        i < j, ops'[i].agg = a, ops'[j].agg = a
                 PROVE  ops'[i].status \in Over
      BY DEF OlderFinished, Settled
    <3>1. i # m
      <4>1. i \in Int /\ j \in Int
        BY DEF Issued
      <4> QED
        BY <2>3, <4>1
    <3>2. i \in Issued /\ ops[i].agg = a /\ ops'[i] = ops[i]
      BY <2>3, <3>1
    <3>3. CASE a = op.agg
      BY <1>1, <3>2, <3>3 DEF Welcome
    <3>4. CASE a # op.agg
      <4>1. j \in Issued /\ ops[j].agg = a
        BY <2>3, <3>4
      <4> QED
        BY <1>0, <3>2, <4>1 DEF OlderFinished, Settled
    <3> QED
      BY <3>3, <3>4
  <2> QED
    BY <2>4, <2>5, <2>6 DEF RowsInv
<1>2. CASE nextOp' = nextOp
  <2>1. Issued' = Issued
    BY <1>2 DEF Issued
  <2>2. \A i \in Issued : ops'[i].agg = ops[i].agg /\ ops'[i].type = ops[i].type
    BY RowsFrozen DEF Purpose
  <2>3. RowsNamed'
    BY <1>0, <2>1, <2>2 DEF RowsNamed, IsShotRenumber
  <2>4. NewestKnown'
    <3> SUFFICES ASSUME NEW i \in Issued, NEW a, a = ops[i].agg
                 PROVE  \E j \in Issued : IsLatest(j, a)'
      BY <2>1, <2>2 DEF NewestKnown
    <3>1. PICK j \in Issued : IsLatest(j, a)
      BY <1>0 DEF NewestKnown
    <3> QED
      BY <1>0, <1>2, <3>1, LatestStays
  <2>5. \A i \in Issued : ops[i].status \in Over => ops'[i].status \in Over
    BY FinishedStep DEF Over
  <2>6. OlderFinished'
    BY <1>0, <2>1, <2>2, <2>5 DEF OlderFinished, Settled
  <2> QED
    BY <2>3, <2>4, <2>6 DEF RowsInv
<1> QED
  BY <1>1, <1>2, Queues

-----------------------------------------------------------------------------
(* What a request holds and has read.                                      *)

\* A request that gets in line for the project row, and one that gets it.
Waits(c, r) ==
  /\ tx[c].pc = "idle" /\ ~LockFree /\ UNCHANGED <<ops, nextOp, storage>>
  /\ tx' = [tx EXCEPT ![c] = [NoRequest EXCEPT !.pc = "waiting", !.req = r, !.seen = storage]]
Holds(c, r, seen) ==
  /\ LockFree /\ UNCHANGED <<ops, nextOp, storage>>
  /\ \/ tx[c].pc = "idle" /\ seen = storage
     \/ tx[c].pc = "waiting" /\ seen = tx[c].seen
  /\ tx' = [tx EXCEPT ![c] = Holding(r, seen)]

\* How a step changes the requests.
LEMMA Requests ==
  ASSUME IInv, [Next]_vars
  PROVE  \/ UNCHANGED tx
         \/ \E c \in Clients : tx' = [tx EXCEPT ![c] = NoRequest]
         \/ \E c \in Clients : \E r : Waits(c, r)
         \/ \E c \in Clients : \E r, seen : Holds(c, r, seen)
<1>1. ASSUME NEW c \in Clients, NEW r \in Tasks \cup Episodes \cup {Scene}, Begin(c, r)
      PROVE  Waits(c, r) \/ Holds(c, r, storage)
  BY <1>1 DEF Begin, Waits, Holds
<1>2. ASSUME NEW c \in Clients, Acquire(c)
      PROVE  Holds(c, tx[c].req, tx[c].seen)
  BY <1>2 DEF Acquire, Holds
<1>3. ASSUME NEW c \in Clients, ClientStep(c), ~Acquire(c)
      PROVE  tx' = [tx EXCEPT ![c] = NoRequest]
  BY <1>3 DEF ClientStep, Abort, StartTask, CreateEpisode, RenumberScene
<1>4. ASSUME NEW w \in Workers, WorkerStep(w) PROVE UNCHANGED tx
  BY <1>4 DEF WorkerStep, WriteBack, IoEnds, Claim, RenewRefused, RenewRaises, IoSucceeds,
     IoFails, MarkSucceeded, RenumberConflict, RecordFailure, WriteBackRaises, Crash
<1>5. CASE \/ RetryProjectStorage \/ UNCHANGED vars
           \/ \E i \in Issued : RetryOperation(i) \/ LeaseExpires(i) \/ RetryTimeComes(i)
  BY <1>5 DEF RetryProjectStorage, RetryOperation, LeaseExpires, RetryTimeComes, vars
<1>6. CASE \E c \in Clients, r \in Tasks \cup Episodes \cup {Scene} : Begin(c, r)
  BY <1>1, <1>6
<1>7. CASE \E c \in Clients : ClientStep(c)
  BY <1>2, <1>3, <1>7
<1> QED
  BY <1>4, <1>5, <1>6, <1>7 DEF Next

LEMMA HoldingFields ==
  ASSUME NEW r, NEW seen
  PROVE  /\ Holding(r, seen).pc = "holding" /\ Holding(r, seen).req = r
         /\ Holding(r, seen).seen = seen
         /\ r \in Tasks => Holding(r, seen).latest = LatestStatus(Target[r])
  BY DEF Holding

LEMMA HolderStep ==
  ASSUME IInv, OneHolder, [Next]_vars
  PROVE  OneHolder'
<1> SUFFICES ASSUME NEW c \in Clients, NEW d \in Clients,
                    tx'[c].pc = "holding", tx'[d].pc = "holding"
             PROVE  c = d
  BY DEF OneHolder
<1>1. CASE UNCHANGED tx
  BY <1>1 DEF OneHolder
<1>2. ASSUME NEW e \in Clients, tx' = [tx EXCEPT ![e] = NoRequest] PROVE c = d
  BY <1>2 DEF OneHolder, NoRequest, IInv, TypeOK
<1>3. ASSUME NEW e \in Clients, NEW v, v.pc = "waiting", tx' = [tx EXCEPT ![e] = v]
      PROVE  c = d
  BY <1>3 DEF OneHolder, IInv, TypeOK
<1>4. ASSUME NEW e \in Clients, NEW v, tx' = [tx EXCEPT ![e] = v], LockFree
      PROVE  c = d
  BY <1>4 DEF LockFree, IInv, TypeOK
<1>5. ASSUME NEW r PROVE [NoRequest EXCEPT !.pc = "waiting", !.req = r,
                                          !.seen = storage].pc = "waiting"
  BY DEF NoRequest
<1>6. ASSUME NEW e \in Clients, NEW r, Waits(e, r) PROVE c = d
  BY <1>3, <1>5, <1>6 DEF Waits
<1>7. ASSUME NEW e \in Clients, NEW r, NEW seen, Holds(e, r, seen) PROVE c = d
  BY <1>4, <1>7 DEF Holds
<1> QED
  BY <1>1, <1>2, <1>6, <1>7, Requests

\* Neither a claim nor a recorded failure ends or starts an operation.
LEMMA SuccessKept ==
  ASSUME IInv, [Next]_vars, nextOp' = nextOp, \A w \in Workers : ~MarkSucceeded(w)
  PROVE  \A i \in Issued : ops'[i].status = "succeeded" <=> ops[i].status = "succeeded"
<1>0. Issued \subseteq OpIds
  BY OutboxAssumption DEF IInv, TypeOK, Issued, OpIds
<1>1. CASE \A i \in OpIds : ops'[i].status = ops[i].status
  BY <1>0, <1>1
<1>2. ASSUME NEW i \in Issued, NEW j \in Issued,
             ops[i].status # "succeeded", ops'[i].status # "succeeded",
             \A k \in OpIds \ {i} : ops'[k] = ops[k]
      PROVE  ops'[j].status = "succeeded" <=> ops[j].status = "succeeded"
  BY <1>0, <1>2
<1>3. ASSUME NEW w \in Workers, NEW i \in Issued, Claim(w, i)
      PROVE  \A j \in Issued : ops'[j].status = "succeeded" <=> ops[j].status = "succeeded"
  <2>1. ops[i].status # "succeeded" /\ ops'[i].status # "succeeded"
    BY <1>3, ClaimEffect
  <2>2. \A k \in OpIds \ {i} : ops'[k] = ops[k]
    BY <1>3, ClaimEffect
  <2> QED
    BY <1>2, <2>1, <2>2
<1>4. ASSUME NEW w \in Workers, RecordFailure(w)
      PROVE  \A j \in Issued : ops'[j].status = "succeeded" <=> ops[j].status = "succeeded"
  <2> DEFINE i == worker[w].op
  <2>1. i \in Issued /\ ops[i].status # "succeeded" /\ ops'[i].status # "succeeded"
    BY <1>4, ReportEffect
  <2>2. \A k \in OpIds \ {i} : ops'[k] = ops[k]
    BY <1>4, ReportEffect
  <2> QED
    BY <1>2, <2>1, <2>2
<1> QED
  BY <1>1, <1>3, <1>4, Rests

\* A step that queues a row or ends one with success leaves nobody in the
\* possession of the lock.
LEMMA LockedSteps ==
  ASSUME IInv, OneHolder, [Next]_vars, NEW c \in Clients,
         tx[c].pc = "holding", tx'[c].pc = "holding"
  PROVE  nextOp' = nextOp /\ \A w \in Workers : ~MarkSucceeded(w)
<1>1. ~LockFree
  BY DEF LockFree
<1>2. \A w \in Workers : ~MarkSucceeded(w)
  BY <1>1 DEF MarkSucceeded, WriteBackLock
<1>3. ~RetryProjectStorage /\ \A i \in Issued : ~RetryOperation(i)
  BY <1>1 DEF RetryProjectStorage, RetryOperation
<1>4. ASSUME NEW d \in Clients, ClientStep(d) PROVE nextOp' = nextOp
  <2>1. CASE Acquire(d) \/ Abort(d)
    BY <2>1 DEF Acquire, Abort
  <2>2. CASE ~(Acquire(d) \/ Abort(d))
    <3>1. tx[d].pc = "holding" /\ tx' = [tx EXCEPT ![d] = NoRequest]
      BY <1>4, <2>2 DEF ClientStep, StartTask, CreateEpisode, RenumberScene
    <3>2. d = c
      BY <3>1 DEF OneHolder
    <3>3. tx'[c] = NoRequest
      BY <3>1, <3>2 DEF IInv, TypeOK
    <3> QED
      BY <3>3 DEF NoRequest
  <2> QED
    BY <2>1, <2>2
<1>5. ASSUME NEW w \in Workers, WorkerStep(w) PROVE nextOp' = nextOp
  BY <1>5, RowsUntouched DEF WorkerStep, WriteBack, Claim, MarkSucceeded, RecordFailure
<1> QED
  BY <1>2, <1>3, <1>4, <1>5 DEF Next, vars, Begin, LeaseExpires, RetryTimeComes

LEMMA ReadStep ==
  ASSUME IInv, IInv', EInv, [Next]_vars
  PROVE  ReadInv'
<1>0. RowsNamed /\ NewestKnown /\ OneHolder /\ ReadUnderLock /\ QueuedShotsNamed
  BY DEF EInv, RowsInv, ReadInv
<1>1. OneHolder'
  BY <1>0, HolderStep
<1>2. ReadUnderLock'
  <2> SUFFICES ASSUME NEW c \in Clients, NEW t \in Tasks, tx'[c].pc = "holding", tx'[c].req = t,
                      NEW a, a = Target[t]
               PROVE  /\ tx'[c].latest = "none" <=> LatestStatus(a)' = "none"
                      /\ tx'[c].latest = "succeeded" <=> LatestStatus(a)' = "succeeded"
    BY DEF ReadUnderLock
  <2>1. CASE tx'[c] = tx[c]
    <3>1. nextOp' = nextOp /\ \A w \in Workers : ~MarkSucceeded(w)
      BY <1>0, <2>1, LockedSteps
    <3>2. \A i \in Issued : ops'[i].status = "succeeded" <=> ops[i].status = "succeeded"
      BY <3>1, SuccessKept
    <3>3. /\ LatestStatus(a)' = "none" <=> LatestStatus(a) = "none"
          /\ LatestStatus(a)' = "succeeded" <=> LatestStatus(a) = "succeeded"
      BY <1>0, <3>1, <3>2, LatestKindKept
    <3> QED
      BY <1>0, <2>1, <3>3 DEF ReadUnderLock
  <2>2. CASE tx'[c] # tx[c]
    <3>1. PICK r, seen : tx'[c] = Holding(r, seen) /\ UNCHANGED <<ops, nextOp>>
      <4>1. ~UNCHANGED tx
        BY <2>2
      <4>2. ASSUME NEW d \in Clients, tx' = [tx EXCEPT ![d] = NoRequest] PROVE FALSE
        BY <2>2, <4>2 DEF NoRequest, IInv, TypeOK
      <4>3. ASSUME NEW d \in Clients, NEW r, Waits(d, r) PROVE FALSE
        <5>1. tx'[c] = tx[c] \/ tx'[c] = [NoRequest EXCEPT !.pc = "waiting", !.req = r,
                                                          !.seen = storage]
          BY <4>3 DEF Waits, IInv, TypeOK
        <5> QED
          BY <2>2, <5>1 DEF NoRequest
      <4>4. PICK d \in Clients : \E r, seen : Holds(d, r, seen)
        BY <4>1, <4>2, <4>3, Requests
      <4>5. PICK r, seen : Holds(d, r, seen)
        BY <4>4
      <4>6. tx'[c] = Holding(r, seen) /\ UNCHANGED <<ops, nextOp>>
        BY <2>2, <4>5 DEF Holds, IInv, TypeOK
      <4> QED
        BY <4>6
    <3>2. r = t /\ tx'[c].latest = LatestStatus(a)
      BY <3>1, HoldingFields
    <3>3. LatestStatus(a)' = LatestStatus(a)
      BY <1>0, <3>1, LatestKept
    <3> QED
      BY <3>2, <3>3
  <2> QED
    BY <2>1, <2>2
<1>3. ASSUME NEW s \in Shots, named[s] = TRUE PROVE named'[s] = TRUE
  <2>1. ASSUME NEW c \in Clients, ClientStep(c) PROVE named'[s] = TRUE
    <3>1. ASSUME NEW t \in Tasks, StartTask(c, t) PROVE named'[s] = TRUE
      BY <1>3, <3>1 DEF StartTask, IInv, TypeOK
    <3> QED
      BY <1>3, <2>1, <3>1 DEF ClientStep, Acquire, Abort, CreateEpisode, RenumberScene
  <2>2. ASSUME NEW w \in Workers, WorkerStep(w) PROVE named' = named
    BY <2>2 DEF WorkerStep, WriteBack, IoEnds, Claim, RenewRefused, RenewRaises, IoSucceeds,
       IoFails, MarkSucceeded, RenumberConflict, RecordFailure, WriteBackRaises, Crash
  <2> QED
    BY <1>3, <2>1, <2>2 DEF Next, vars, Begin, RetryProjectStorage, RetryOperation,
       LeaseExpires, RetryTimeComes
<1>4. QueuedShotsNamed'
  <2>1. ASSUME NEW op, Enqueue(op), Welcome(op) PROVE QueuedShotsNamed'
    <3> SUFFICES ASSUME NEW i \in Issued', ops'[i].agg \in Shots
                 PROVE  named'[ops'[i].agg] = TRUE
      BY DEF QueuedShotsNamed
    <3>1. CASE i \in Issued
      <4>1. ops'[i].agg = ops[i].agg
        BY <3>1, RowsFrozen DEF Purpose
      <4> QED
        BY <1>0, <1>3, <3>1, <4>1 DEF QueuedShotsNamed
    <3>2. CASE i \notin Issued
      <4>1. ops'[i] = op
        BY <2>1, <3>2, EnqueueAdds DEF IInv
      <4> QED
        BY <2>1, <4>1 DEF Welcome
    <3> QED
      BY <3>1, <3>2
  <2>2. CASE nextOp' = nextOp
    <3>1. \A i \in Issued : ops'[i].agg = ops[i].agg
      BY RowsFrozen DEF Purpose
    <3> QED
      BY <1>0, <1>3, <2>2, <3>1 DEF QueuedShotsNamed, Issued
  <2> QED
    BY <2>1, <2>2, Queues
<1> QED
  BY <1>1, <1>2, <1>4 DEF ReadInv

-----------------------------------------------------------------------------
(* Directories and tasks.                                                  *)

LEMMA Grows ==
  ASSUME IInv, [Next]_vars
  PROVE  /\ \A a \in Aggregates : made[a] = TRUE => made'[a] = TRUE
         /\ \A t \in Tasks : task[t] # "not_started" => task'[t] # "not_started"
<1>1. ASSUME NEW w \in Workers, IoSucceeds(w)
      PROVE  (\A a \in Aggregates : made[a] = TRUE => made'[a] = TRUE) /\ UNCHANGED task
  BY <1>1 DEF IoSucceeds, EnsureDirectories, RenumberDirectories, IInv, TypeOK
<1>2. ASSUME NEW w \in Workers, MarkSucceeded(w)
      PROVE  /\ UNCHANGED made
             /\ \A t \in Tasks : task[t] # "not_started" => task'[t] # "not_started"
  BY <1>2 DEF MarkSucceeded, AdvancedTasks, IInv, TypeOK
<1>3. ASSUME NEW c \in Clients, NEW t \in Tasks, StartTask(c, t)
      PROVE  /\ UNCHANGED made
             /\ \A u \in Tasks : task[u] # "not_started" => task'[u] # "not_started"
  BY <1>3 DEF StartTask, IInv, TypeOK
<1>4. ASSUME NEW w \in Workers, WorkerStep(w), ~IoSucceeds(w), ~MarkSucceeded(w)
      PROVE  UNCHANGED <<made, task>>
  BY <1>4 DEF WorkerStep, WriteBack, IoEnds, Claim, RenewRefused, RenewRaises,
     IoFails, RenumberConflict, RecordFailure, WriteBackRaises, Crash
<1>5. ASSUME NEW c \in Clients, ClientStep(c), \A t \in Tasks : ~StartTask(c, t)
      PROVE  UNCHANGED <<made, task>>
  BY <1>5 DEF ClientStep, Acquire, Abort, CreateEpisode, RenumberScene
<1>6. CASE UNCHANGED <<made, task>>
  BY <1>6
<1> QED
  BY <1>1, <1>2, <1>3, <1>4, <1>5, <1>6 DEF Next, vars, Begin, RetryProjectStorage,
     RetryOperation, LeaseExpires, RetryTimeComes

\* Where a busy worker comes from.
LEMMA WorkerFrom ==
  ASSUME IInv, [Next]_vars, NEW w \in Workers, worker'[w].pc # "idle"
  PROVE  /\ \/ worker[w].pc # "idle" /\ worker'[w].op = worker[w].op
            \/ \E i \in Issued : Claim(w, i) /\ worker'[w].op = i
         /\ worker'[w].pc = "done" =>
              /\ worker[w].pc # "idle" /\ worker'[w].op = worker[w].op
              /\ worker[w].pc = "done" \/ IoSucceeds(w)
<1>0. worker[w] \in WorkerRecord
  BY DEF IInv, TypeOK
<1>1. CASE worker'[w] = worker[w]
  BY <1>1
<1>2. ASSUME NEW i \in Issued, Claim(w, i)
      PROVE  worker'[w].op = i /\ worker'[w].pc = "io"
  <2>1. worker' = [worker EXCEPT ![w] = [pc |-> "io", op |-> i,
                     attempt |-> ops[i].attempt + 1, retryable |-> TRUE]]
    BY <1>2, ClaimEffect
  <2>2. worker'[w] = [pc |-> "io", op |-> i, attempt |-> ops[i].attempt + 1,
                      retryable |-> TRUE]
    BY <2>1 DEF IInv, TypeOK
  <2> QED
    BY <2>2
<1>3. ASSUME NEW pc, worker[w].pc # "idle", worker'[w] = [worker[w] EXCEPT !.pc = pc]
      PROVE  /\ worker[w].pc # "idle" /\ worker'[w].op = worker[w].op
             /\ worker'[w].pc = pc
  BY <1>0, <1>3 DEF WorkerRecord
<1>4. CASE RenewRefused(w) \/ RenewRaises(w)
  <2>1. PICK pc \in {"lost", "broken"} : worker' = [worker EXCEPT ![w].pc = pc]
    BY <1>4 DEF RenewRefused, RenewRaises
  <2>2. worker'[w] = [worker[w] EXCEPT !.pc = pc] /\ worker[w].pc # "idle"
    BY <1>4, <2>1 DEF RenewRefused, RenewRaises, IInv, TypeOK
  <2> QED
    BY <1>3, <2>2
<1>5. CASE IoSucceeds(w)
  <2>1. worker[w].pc # "lost"
    BY <1>5 DEF IoSucceeds, Idle, IInv, TypeOK
  <2> DEFINE pc == IF worker[w].pc = "io" THEN "done" ELSE "failed"
  <2>2. worker'[w] = [worker[w] EXCEPT !.pc = pc] /\ worker[w].pc # "idle"
    BY <1>5, <2>1 DEF IoSucceeds, IInv, TypeOK
  <2> HIDE DEF pc
  <2> QED
    BY <1>3, <1>5, <2>2
<1>6. ASSUME NEW b \in BOOLEAN, IoFails(w, b)
      PROVE  /\ worker[w].pc # "idle" /\ worker'[w].op = worker[w].op
             /\ worker'[w].pc = "failed"
  <2> DEFINE next == [worker[w] EXCEPT !.pc = "failed", !.retryable = b]
  <2>1. worker'[w] = next /\ worker[w].pc # "idle"
    BY <1>6 DEF IoFails, IInv, TypeOK
  <2>2. next.pc = "failed" /\ next.op = worker[w].op
    BY <1>0 DEF WorkerRecord
  <2> QED
    BY <2>1, <2>2
<1>7. ASSUME worker' = [worker EXCEPT ![w] = Idle] PROVE FALSE
  BY <1>7 DEF Idle, IInv, TypeOK
<1>8. CASE WorkerStep(w)
  BY <1>2, <1>4, <1>5, <1>6, <1>7, <1>8 DEF WorkerStep, WriteBack, IoEnds, MarkSucceeded,
     RenumberConflict, RecordFailure, WriteBackRaises, Crash
<1>9. ASSUME NEW v \in Workers, v # w, WorkerStep(v) PROVE worker'[w] = worker[w]
  BY <1>9 DEF WorkerStep, WriteBack, IoEnds, Claim, RenewRefused, RenewRaises, IoSucceeds,
     IoFails, MarkSucceeded, RenumberConflict, RecordFailure, WriteBackRaises, Crash,
     IInv, TypeOK
<1>10. ASSUME NEW c \in Clients, ClientStep(c) PROVE worker' = worker
  BY <1>10 DEF ClientStep, Acquire, Abort, StartTask, CreateEpisode, RenumberScene
<1> QED
  BY <1>1, <1>8, <1>9, <1>10 DEF Next, vars, Begin, RetryProjectStorage, RetryOperation,
     LeaseExpires, RetryTimeComes

\* Only a success that is reported turns a row into "succeeded".
LEMMA NewSuccess ==
  ASSUME IInv, [Next]_vars, nextOp' = nextOp, NEW i \in Issued,
         ops'[i].status = "succeeded", ops[i].status # "succeeded"
  PROVE  \E w \in Workers : MarkSucceeded(w) /\ worker[w].op = i
<1>1. PICK w \in Workers : MarkSucceeded(w)
  BY SuccessKept
<1>2. \A j \in OpIds \ {worker[w].op} : ops'[j] = ops[j]
  BY <1>1, ReportEffect
<1>3. i \in OpIds
  BY OutboxAssumption DEF IInv, TypeOK, Issued, OpIds
<1> QED
  BY <1>1, <1>2, <1>3

LEMMA MadeStep ==
  ASSUME IInv, IInv', EInv, [Next]_vars
  PROVE  MadeInv'
<1>0. RowsNamed /\ SucceededIsMade /\ DoneIsMade /\ ClaimedIsStarted
  BY DEF EInv, RowsInv, MadeInv
<1>1. \A i \in Issued : /\ ops'[i].agg = ops[i].agg /\ i \in Issued'
                        /\ IsShotRenumber(ops'[i]) = IsShotRenumber(ops[i])
                        /\ ops[i].agg \in Aggregates
  BY <1>0, RowsFrozen DEF Purpose, IsShotRenumber, RowsNamed
<1>2. \A w \in Workers : worker[w].pc # "idle" => worker[w].op \in Issued
  BY DEF IInv, ClaimsOwned
<1>3. \A a \in Aggregates : made[a] = TRUE => made'[a] = TRUE
  BY Grows
<1>4. SucceededIsMade'
  <2> SUFFICES ASSUME NEW i \in Issued', ops'[i].status = "succeeded",
                      ~IsShotRenumber(ops'[i])
               PROVE  made'[ops'[i].agg] = TRUE
    BY DEF SucceededIsMade
  <2>1. ASSUME NEW op, Enqueue(op), Welcome(op) PROVE i \in Issued /\ ops'[i] = ops[i]
    <3>1. PICK m : m = nextOp
      OBVIOUS
    <3>2. Issued' = Issued \cup {m} /\ ops'[m] = op /\ \A j \in Issued : ops'[j] = ops[j]
      BY <2>1, <3>1, LatestPushed DEF IInv, EInv, RowsInv
    <3>3. op.status # "succeeded"
      BY <2>1 DEF Welcome
    <3> QED
      BY <3>2, <3>3
  <2>2. i \in Issued
    BY <2>1, Queues DEF Issued
  <2>3. CASE ops[i].status = "succeeded"
    BY <1>0, <1>1, <1>3, <2>2, <2>3 DEF SucceededIsMade
  <2>4. CASE ops[i].status # "succeeded"
    <3>1. nextOp' = nextOp
      BY <2>1, <2>4, Queues
    <3>2. PICK w \in Workers : MarkSucceeded(w) /\ worker[w].op = i
      BY <2>2, <2>4, <3>1, NewSuccess
    <3>3. worker[w].pc = "done" /\ ~IsShotRenumber(ops[i])
      BY <1>1, <2>2, <3>2 DEF MarkSucceeded
    <3> QED
      BY <1>0, <1>1, <1>3, <2>2, <3>2, <3>3 DEF DoneIsMade
  <2> QED
    BY <2>3, <2>4
<1>5. DoneIsMade'
  <2> SUFFICES ASSUME NEW w \in Workers, worker'[w].pc = "done",
                      ~IsShotRenumber(ops'[worker'[w].op])
               PROVE  made'[ops'[worker'[w].op].agg] = TRUE
    BY DEF DoneIsMade
  <2> DEFINE i == worker[w].op
  <2>1. /\ worker[w].pc # "idle" /\ worker'[w].op = i
        /\ worker[w].pc = "done" \/ IoSucceeds(w)
    BY WorkerFrom
  <2>2. /\ i \in Issued /\ ops'[i].agg = ops[i].agg /\ ops[i].agg \in Aggregates
        /\ ~IsShotRenumber(ops[i])
    BY <1>1, <1>2, <2>1
  <2>3. CASE worker[w].pc = "done"
    BY <1>0, <1>3, <2>1, <2>2, <2>3 DEF DoneIsMade
  <2>4. CASE IoSucceeds(w)
    BY <2>1, <2>2, <2>4 DEF IoSucceeds, EnsureDirectories, IInv, TypeOK
  <2> QED
    BY <2>1, <2>3, <2>4
<1>6. ClaimedIsStarted'
  <2> SUFFICES ASSUME NEW w \in Workers, worker'[w].pc # "idle",
                      NEW i, i = worker'[w].op, ops'[i].agg \in Assets
               PROVE  \E t \in Tasks : Target[t] = ops'[i].agg /\ task'[t] # "not_started"
    BY DEF ClaimedIsStarted, Started
  <2>1. i \in Issued /\ Started(ops[i].agg)
    <3>1. CASE worker[w].pc # "idle" /\ worker'[w].op = worker[w].op
      BY <1>0, <1>1, <1>2, <3>1 DEF ClaimedIsStarted
    <3>2. ASSUME NEW j \in Issued, Claim(w, j), worker'[w].op = j
          PROVE  i \in Issued /\ Started(ops[i].agg)
      BY <1>1, <3>2 DEF Claim, FirstDue, Due, Eligible, Started
    <3> QED
      BY <3>1, <3>2, WorkerFrom
  <2> QED
    BY <1>1, <2>1, Grows DEF Started
<1> QED
  BY <1>4, <1>5, <1>6 DEF MadeInv

LEMMA PreparingForm ==
  TypeOK /\ NewestKnown =>
    (PreparingHasOperation <=>
       \A t \in Tasks : task[t] = "preparing" =>
         LatestStatus(Target[t]) \notin {"none", "succeeded"})
<1> SUFFICES ASSUME TypeOK, NewestKnown, NEW a
             PROVE  (\E i \in Issued : IsLatest(i, a) /\ ops[i].status # "succeeded")
                      <=> LatestStatus(a) \notin {"none", "succeeded"}
  BY DEF PreparingHasOperation
<1>1. \A i \in Issued : IsLatest(i, a) => LatestStatus(a) = ops[i].status /\ Queued(a)
  BY LatestIs DEF IsLatest, Queued
<1> QED
  BY <1>1, LatestSome
LEMMA PreparingFormNext ==
  (TypeOK /\ NewestKnown =>
    (PreparingHasOperation <=>
       \A t \in Tasks : task[t] = "preparing" =>
         LatestStatus(Target[t]) \notin {"none", "succeeded"}))'
  BY PreparingForm, PTL

LEMMA TaskStep ==
  ASSUME IInv, IInv', EInv, RowsInv', [Next]_vars
  PROVE  TaskInv'
<1>0. /\ RowsNamed /\ NewestKnown /\ ReadUnderLock /\ SucceededIsMade /\ DoneIsMade
      /\ ClaimedIsStarted /\ NewestKnown' /\ TypeOK /\ TypeOK'
      /\ PreparingHasOperation /\ StartedHasDirectory /\ AssetDirectoryAfterStart
  BY DEF EInv, RowsInv, ReadInv, MadeInv, TaskInv, IInv
<1>a. \A t \in Tasks : Target[t] \in Shots \cup Assets /\ Target[t] \in Aggregates
                       /\ Target[t] # Scene
  BY OutboxAssumption DEF Aggregates
<1>b. \A a \in Aggregates : made[a] \in BOOLEAN /\ made'[a] \in BOOLEAN
  BY <1>0 DEF TypeOK
<1>1. ASSUME NEW t \in Tasks, task[t] = "preparing"
      PROVE  LatestStatus(Target[t]) \notin {"none", "succeeded"}
  BY <1>0, <1>1, PreparingForm
<1>2. ASSUME NEW op, Enqueue(op), Welcome(op), NEW a
      PROVE  \/ LatestStatus(a)' = "pending"
             \/ op.agg # a /\ LatestStatus(a)' = LatestStatus(a)
  <2>1. PICK m : m = nextOp
    OBVIOUS
  <2>2. LatestStatus(op.agg)' = op.status
    BY <1>0, <1>2, <2>1, LatestPushed
  <2>3. a # op.agg => LatestStatus(a)' = LatestStatus(a)
    BY <1>0, <1>2, <2>1, LatestPushed
  <2> QED
    BY <1>2, <2>2, <2>3 DEF Welcome
<1>3. ASSUME NEW c \in Clients, NEW t \in Tasks, StartTask(c, t)
      PROVE  /\ \A u \in Tasks : u # t => task'[u] = task[u]
             /\ task'[t] = "preparing" =>
                  LatestStatus(Target[t])' \notin {"none", "succeeded"}
             /\ task'[t] = "in_progress" => LatestStatus(Target[t]) = "succeeded"
  <2> DEFINE a == Target[t]
             first == a \in Shots /\ ~named[a]
             latest == IF first THEN "none" ELSE tx[c].latest
  <2>1. task' = [task EXCEPT ![t] = StartStatus(latest)]
    BY <1>3 DEF StartTask
  <2>2. task'[t] = StartStatus(latest) /\ \A u \in Tasks : u # t => task'[u] = task[u]
    BY <1>0, <2>1 DEF TypeOK
  <2>3. latest # "none" =>
          /\ latest = "succeeded" <=> LatestStatus(a) = "succeeded"
          /\ LatestStatus(a) # "none"
    BY <1>0, <1>3 DEF ReadUnderLock, StartTask
  <2>4. CASE latest = "none"
    <3>1. ~UNCHANGED <<ops, nextOp>>
      BY <1>3, <2>4 DEF StartTask, Enqueue, IInv, TypeOK
    <3>2. PICK op : Enqueue(op) /\ Welcome(op) /\ op.agg = a
      BY <1>3, <3>1, StartTaskQueues
    <3>3. LatestStatus(a)' = "pending"
      BY <1>2, <3>2
    <3> QED
      BY <2>2, <2>4, <3>3 DEF StartStatus
  <2>5. CASE latest # "none"
    <3>1. nextOp' = nextOp /\ UNCHANGED ops
      BY <1>3, <2>5 DEF StartTask
    <3>2. LatestStatus(a)' = LatestStatus(a)
      BY <1>0, <3>1, LatestKept
    <3> QED
      BY <2>2, <2>3, <2>5, <3>2 DEF StartStatus
  <2> QED
    BY <2>4, <2>5
<1>4. ASSUME NEW w \in Workers, MarkSucceeded(w), NEW t \in Tasks, task'[t] # task[t]
      PROVE  ops[worker[w].op].agg = Target[t] /\ task'[t] = "in_progress"
  BY <1>0, <1>4 DEF MarkSucceeded, AdvancedTasks, TypeOK
<1>5. ASSUME NEW w \in Workers, MarkSucceeded(w), NEW t \in Tasks, task'[t] = "preparing"
      PROVE  ops[worker[w].op].agg # Target[t] /\ task[t] = "preparing"
  BY <1>0, <1>5, <1>a DEF MarkSucceeded, AdvancedTasks, CompletesTaskStart, TypeOK
<1>6. \/ \E c \in Clients, t \in Tasks : StartTask(c, t)
      \/ \E w \in Workers : MarkSucceeded(w)
      \/ UNCHANGED task
  <2>1. ASSUME NEW w \in Workers, WorkerStep(w), ~MarkSucceeded(w) PROVE UNCHANGED task
    BY <2>1 DEF WorkerStep, WriteBack, IoEnds, Claim, RenewRefused, RenewRaises,
       IoSucceeds, IoFails, RenumberConflict, RecordFailure, WriteBackRaises, Crash
  <2>2. ASSUME NEW c \in Clients, ClientStep(c), \A t \in Tasks : ~StartTask(c, t)
        PROVE  UNCHANGED task
    BY <2>2 DEF ClientStep, Acquire, Abort, CreateEpisode, RenumberScene
  <2> QED
    BY <2>1, <2>2 DEF Next, vars, Begin, RetryProjectStorage, RetryOperation,
       LeaseExpires, RetryTimeComes
<1>7. PreparingHasOperation'
  <2> SUFFICES ASSUME NEW t \in Tasks, task'[t] = "preparing"
               PROVE  LatestStatus(Target[t])' \notin {"none", "succeeded"}
    BY <1>0, PreparingFormNext
  <2> DEFINE a == Target[t]
  <2>1. ASSUME NEW w \in Workers, MarkSucceeded(w)
        PROVE  LatestStatus(a)' \notin {"none", "succeeded"}
    <3>1. ops[worker[w].op].agg # a /\ task[t] = "preparing"
      BY <1>5, <2>1
    <3>2. nextOp' = nextOp /\ \A j \in OpIds \ {worker[w].op} : ops'[j] = ops[j]
      BY <2>1, ReportEffect DEF MarkSucceeded
    <3>3. Issued \subseteq OpIds
      BY <1>0, OutboxAssumption DEF TypeOK, Issued, OpIds
    <3>4. LatestStatus(a)' = LatestStatus(a)
      BY <1>0, <3>1, <3>2, <3>3, LatestKept
    <3> QED
      BY <1>1, <3>1, <3>4
  <2>2. ASSUME NEW c \in Clients, StartTask(c, t)
        PROVE  LatestStatus(a)' \notin {"none", "succeeded"}
    BY <1>3, <2>2
  <2>3. CASE /\ \A w \in Workers : ~MarkSucceeded(w)
             /\ \A c \in Clients : ~StartTask(c, t)
    <3>1. task[t] = "preparing"
      BY <1>3, <1>6, <2>3
    <3>2. LatestStatus(a) \notin {"none", "succeeded"}
      BY <1>1, <3>1
    <3>3. ASSUME NEW op, Enqueue(op), Welcome(op)
          PROVE  LatestStatus(a)' \notin {"none", "succeeded"}
      BY <1>2, <3>2, <3>3
    <3>4. CASE nextOp' = nextOp
      <4>1. \A i \in Issued : ops'[i].status = "succeeded" <=> ops[i].status = "succeeded"
        BY <2>3, <3>4, SuccessKept
      <4>2. /\ LatestStatus(a)' = "none" <=> LatestStatus(a) = "none"
            /\ LatestStatus(a)' = "succeeded" <=> LatestStatus(a) = "succeeded"
        BY <1>0, <3>4, <4>1, LatestKindKept
      <4> QED
        BY <3>2, <4>2
    <3> QED
      BY <3>3, <3>4, Queues
  <2> QED
    BY <2>1, <2>2, <2>3
<1>8. StartedHasDirectory'
  <2> SUFFICES ASSUME NEW t \in Tasks, task'[t] = "in_progress"
               PROVE  made'[Target[t]] = TRUE
    BY DEF StartedHasDirectory
  <2> DEFINE a == Target[t]
  <2>1. made[a] = TRUE => made'[a] = TRUE
    BY <1>a, Grows
  <2>2. CASE task[t] = "in_progress"
    BY <1>0, <1>a, <1>b, <2>1, <2>2 DEF StartedHasDirectory
  <2>3. ASSUME NEW w \in Workers, MarkSucceeded(w), task[t] # "in_progress"
        PROVE  made'[a] = TRUE
    <3>1. ops[worker[w].op].agg = a /\ worker[w].pc = "done" /\ worker[w].op \in Issued
      BY <1>4, <2>3 DEF MarkSucceeded, IInv, ClaimsOwned
    <3>2. ~IsShotRenumber(ops[worker[w].op])
      BY <1>0, <1>a, <3>1 DEF RowsNamed
    <3> QED
      BY <1>0, <2>1, <3>1, <3>2 DEF DoneIsMade
  <2>4. ASSUME NEW c \in Clients, StartTask(c, t) PROVE made'[a] = TRUE
    <3>1. LatestStatus(a) = "succeeded"
      BY <1>3, <2>4
    <3>2. PICK i \in Issued : IsLatest(i, a) /\ ops[i].status = "succeeded"
      BY <1>0, <3>1, LatestSome
    <3>3. ops[i].agg = a /\ ~IsShotRenumber(ops[i])
      BY <1>0, <1>a, <3>2 DEF IsLatest, RowsNamed
    <3> QED
      BY <1>0, <2>1, <3>2, <3>3 DEF SucceededIsMade
  <2> QED
    BY <1>3, <1>6, <2>2, <2>3, <2>4
<1>9. AssetDirectoryAfterStart'
  <2> SUFFICES ASSUME NEW a \in Assets, made'[a] = TRUE PROVE Started(a)'
    BY <1>0 DEF AssetDirectoryAfterStart, Started, TypeOK
  <2>0. a \in Aggregates
    BY DEF Aggregates
  <2>1. Started(a)
    <3>1. CASE made[a] = TRUE
      BY <1>0, <3>1 DEF AssetDirectoryAfterStart, Started
    <3>2. CASE made[a] # TRUE
      <4>1. PICK w \in Workers : IoSucceeds(w)
        <5>1. ASSUME NEW w \in Workers, WorkerStep(w), ~IoSucceeds(w) PROVE UNCHANGED made
          BY <5>1 DEF WorkerStep, WriteBack, IoEnds, Claim, RenewRefused, RenewRaises,
             MarkSucceeded, IoFails, RenumberConflict, RecordFailure, WriteBackRaises, Crash
        <5>2. ASSUME NEW c \in Clients, ClientStep(c) PROVE UNCHANGED made
          BY <5>2 DEF ClientStep, Acquire, Abort, StartTask, CreateEpisode, RenumberScene
        <5>3. made' # made
          BY <3>2
        <5> QED
          BY <5>1, <5>2, <5>3 DEF Next, vars, Begin, RetryProjectStorage, RetryOperation,
             LeaseExpires, RetryTimeComes
      <4>2. ops[worker[w].op].agg = a /\ worker[w].pc # "idle"
        BY <1>0, <2>0, <3>2, <4>1
        DEF IoSucceeds, EnsureDirectories, RenumberDirectories, TypeOK
      <4> QED
        BY <1>0, <4>2 DEF ClaimedIsStarted
    <3> QED
      BY <3>1, <3>2
  <2> QED
    BY <2>1, Grows DEF Started
<1> QED
  BY <1>7, <1>8, <1>9 DEF TaskInv

-----------------------------------------------------------------------------
(* The storage status.                                                     *)

LEMMA Distinct ==
  /\ Project # Scene /\ Project \in Aggregates /\ Scene \in Aggregates
  /\ \A t \in Tasks : Target[t] # Scene /\ Target[t] # Project
  BY OutboxAssumption DEF Aggregates

\* Once the project has been initialized it stays so.
LEMMA ProjectStays ==
  ASSUME IInv, IInv', EInv, [Next]_vars, LatestStatus(Project) = "succeeded"
  PROVE  LatestStatus(Project)' = "succeeded"
<1>0. TypeOK /\ TypeOK' /\ NewestKnown /\ storage # "failed"
  BY DEF IInv, EInv, RowsInv, ProjectInv, ProjectExplained
<1>1. ASSUME NEW op, Enqueue(op), Welcome(op)
      PROVE  LatestStatus(Project)' = "succeeded"
  <2>1. PICK m : m = nextOp
    OBVIOUS
  <2>2. Project # op.agg
    BY <1>0, <1>1 DEF Welcome
  <2>3. LatestStatus(Project)' = LatestStatus(Project)
    BY <1>0, <1>1, <2>1, <2>2, LatestPushed
  <2> QED
    BY <2>3
<1>2. CASE nextOp' = nextOp
  <2>1. LatestStatus(Project) # "none"
    OBVIOUS
  <2>2. PICK i \in Issued : IsLatest(i, Project) /\ LatestStatus(Project) = ops[i].status
    BY <1>0, <2>1, LatestSome
  <2>3. ops'[i] = ops[i]
    BY <2>2, FinishedStep
  <2> QED
    BY <1>0, <1>2, <2>2, <2>3, LatestStays
<1> QED
  BY <1>1, <1>2, Queues

\* What the end of an operation does to the storage status.
LEMMA ReportStorage ==
  ASSUME IInv, EInv, NEW w \in Workers, MarkSucceeded(w) \/ RecordFailure(w)
  PROVE  LET i == worker[w].op IN
         /\ i \in Issued /\ ops[i].agg \in Aggregates
         /\ ops[i].agg = Project =>
              \/ ops'[i].status = "succeeded" /\ storage' = "ready"
              \/ ops'[i].status = "failed" /\ storage' = "failed"
              \/ ops'[i].status = "retry_wait" /\ storage' = "initializing"
         /\ ops[i].agg = Scene =>
              \/ ops'[i].status = "succeeded" /\ storage' = "ready"
              \/ ops'[i].status \in {"failed", "retry_wait"} /\ storage' = "migrating"
         /\ ops[i].agg \notin {Project, Scene} => storage' = storage
<1> DEFINE i == worker[w].op
<1>0. i \in Issued /\ i \in OpIds
  BY ReportEffect
<1>1. ops[i].agg \in Aggregates /\ (IsShotRenumber(ops[i]) <=> ops[i].agg = Scene)
  BY <1>0 DEF EInv, RowsInv, RowsNamed
<1>2. CASE MarkSucceeded(w)
  <2>1. ops'[i].status = "succeeded"
    BY <1>2, ReportEffect
  <2>2. storage' = IF IsProjectInitialization(ops[i]) \/ IsShotRenumber(ops[i])
                   THEN "ready" ELSE storage
    BY <1>2 DEF MarkSucceeded
  <2> QED
    BY <1>0, <1>1, <2>1, <2>2 DEF IsProjectInitialization
<1>3. CASE RecordFailure(w)
  <2> DEFINE terminal == Terminal(worker[w].retryable, worker[w].attempt)
  <2>1. /\ ops' = [ops EXCEPT ![i].status = IF terminal THEN "failed" ELSE "retry_wait",
                              ![i].owner = NoWorker, ![i].lease = FALSE]
        /\ storage' = StorageAfterError(ops[i], terminal)
    BY <1>3 DEF RecordFailure
  <2> HIDE DEF terminal
  <2>2. ops'[i].status = IF terminal THEN "failed" ELSE "retry_wait"
    BY <1>0, <2>1 DEF IInv, TypeOK, OpRecord
  <2>3. ops[i].agg = Project =>
          storage' = IF terminal THEN "failed" ELSE "initializing"
    BY <1>1, <2>1, Distinct DEF StorageAfterError, IsProjectInitialization
  <2>4. ops[i].agg = Scene => storage' = "migrating"
    BY <1>1, <2>1, Distinct DEF StorageAfterError, IsProjectInitialization
  <2>5. ops[i].agg \notin {Project, Scene} => storage' = storage
    <3> SUFFICES ASSUME ops[i].agg \notin {Project, Scene} PROVE storage' = storage
      OBVIOUS
    <3>1. ~IsProjectInitialization(ops[i]) /\ ~IsShotRenumber(ops[i])
      BY <1>1 DEF IsProjectInitialization
    <3> QED
      BY <2>1, <3>1 DEF StorageAfterError
  <2>6. CASE terminal
    BY <1>0, <1>1, <2>2, <2>3, <2>4, <2>5, <2>6
  <2>7. CASE ~terminal
    BY <1>0, <1>1, <2>2, <2>3, <2>4, <2>5, <2>7
  <2> QED
    BY <2>6, <2>7
<1> QED
  BY <1>2, <1>3

\* Only queueing a row or ending one changes the storage status.
LEMMA StorageRests ==
  ASSUME IInv, [Next]_vars, nextOp' = nextOp,
         \A w \in Workers : ~MarkSucceeded(w) /\ ~RecordFailure(w)
  PROVE  storage' = storage
<1>1. ASSUME NEW op PROVE ~Enqueue(op)
  BY DEF Enqueue, IInv, TypeOK
<1>2. ASSUME NEW w \in Workers, WorkerStep(w) PROVE storage' = storage
  BY <1>2 DEF WorkerStep, WriteBack, IoEnds, Claim, RenewRefused, RenewRaises,
     IoSucceeds, IoFails, RenumberConflict, WriteBackRaises, Crash
<1>3. ASSUME NEW c \in Clients, ClientStep(c) PROVE storage' = storage
  BY <1>1, <1>3 DEF ClientStep, Acquire, Abort, StartTask, CreateEpisode, RenumberScene
<1> QED
  BY <1>1, <1>2, <1>3 DEF Next, vars, Begin, RetryProjectStorage, RetryOperation,
     LeaseExpires, RetryTimeComes

\* A claim, or the end of an operation, of a settled aggregate.
LEMMA ClaimMoves ==
  ASSUME IInv, IInv', EInv, [Next]_vars, NEW w \in Workers, NEW i \in Issued, Claim(w, i),
         NEW a
  PROVE  /\ ops[i].agg = a /\ Settled(a) =>
              /\ LatestStatus(a) \in {"pending", "retry_wait"}
              /\ LatestStatus(a)' = "processing"
         /\ ops[i].agg # a => LatestStatus(a)' = LatestStatus(a)
<1>0. NewestKnown /\ nextOp' = nextOp /\ Issued \subseteq OpIds
  BY OutboxAssumption DEF Claim, EInv, RowsInv, IInv, TypeOK, Issued, OpIds
<1>1. /\ ops[i].status \in {"pending", "retry_wait"} /\ ops'[i].status = "processing"
      /\ \A j \in OpIds \ {i} : ops'[j] = ops[j]
  BY ClaimEffect
<1>2. CASE ops[i].agg = a /\ Settled(a)
  <2>1. ops[i].status \notin Over
    BY <1>1 DEF Over
  <2> QED
    BY <1>0, <1>1, <1>2, <2>1, LatestMoved
<1>3. CASE ops[i].agg # a
  BY <1>0, <1>1, <1>3, LatestKept
<1> QED
  BY <1>2, <1>3

LEMMA ReportMoves ==
  ASSUME IInv, IInv', EInv, [Next]_vars, NEW w \in Workers,
         MarkSucceeded(w) \/ RecordFailure(w), NEW a
  PROVE  LET i == worker[w].op IN
         /\ ops[i].agg = a /\ Settled(a) =>
              LatestStatus(a) = "processing" /\ LatestStatus(a)' = ops'[i].status
         /\ ops[i].agg # a => LatestStatus(a)' = LatestStatus(a)
<1> DEFINE i == worker[w].op
<1>0. NewestKnown /\ nextOp' = nextOp /\ Issued \subseteq OpIds
  BY OutboxAssumption
  DEF MarkSucceeded, RecordFailure, EInv, RowsInv, IInv, TypeOK, Issued, OpIds
<1>1. /\ i \in Issued /\ ops[i].status = "processing"
      /\ \A j \in OpIds \ {i} : ops'[j] = ops[j]
  BY ReportEffect
<1>2. CASE ops[i].agg = a /\ Settled(a)
  <2>1. ops[i].status \notin Over
    BY <1>1 DEF Over
  <2> QED
    BY <1>0, <1>1, <1>2, <2>1, LatestMoved
<1>3. CASE ops[i].agg # a
  BY <1>0, <1>1, <1>3, LatestKept
<1> QED
  BY <1>2, <1>3

\* A step of neither kind keeps the status of every aggregate.
LEMMA LatestRests ==
  ASSUME IInv, IInv', EInv, [Next]_vars, nextOp' = nextOp, NEW a,
         \A w \in Workers : ~MarkSucceeded(w) /\ ~RecordFailure(w),
         \A w \in Workers, i \in Issued : ~Claim(w, i)
  PROVE  LatestStatus(a)' = LatestStatus(a)
<1>1. \A i \in OpIds : ops'[i].status = ops[i].status
  BY Rests
<1>2. NewestKnown /\ Issued \subseteq OpIds
  BY OutboxAssumption DEF EInv, RowsInv, IInv, TypeOK, Issued, OpIds
<1> QED
  BY <1>1, <1>2, LatestKept

LEMMA ProjectStep ==
  ASSUME IInv, IInv', EInv, [Next]_vars
  PROVE  ProjectInv'
<1>0. /\ ProjectExplained /\ SceneAfterProject /\ SeenReady /\ NewestKnown
      /\ TypeOK /\ TypeOK' /\ Settled(Project)
  BY Distinct DEF EInv, RowsInv, ProjectInv, IInv, OlderFinished
<1>1. ProjectExplained'
  <2>1. ASSUME NEW op, Enqueue(op), Welcome(op) PROVE ProjectExplained'
    <3>1. PICK m : m = nextOp
      OBVIOUS
    <3>2. CASE op.agg = Project
      <4>1. LatestStatus(op.agg)' = op.status
        BY <1>0, <2>1, <3>1, LatestPushed
      <4>2. LatestStatus(Project)' = "pending"
        BY <2>1, <3>2, <4>1 DEF Welcome
      <4>3. storage' = "initializing"
        BY <2>1, <3>2 DEF Welcome
      <4> QED
        BY <4>2, <4>3 DEF ProjectExplained, Active
    <3>3. CASE op.agg # Project
      <4>1. LatestStatus(Project)' = LatestStatus(Project)
        BY <1>0, <2>1, <3>1, <3>3, LatestPushed
      <4>2. CASE storage' = storage
        BY <1>0, <4>1, <4>2 DEF ProjectExplained
      <4>3. CASE op.agg = Scene /\ storage' = "migrating"
        BY <2>1, <4>1, <4>3 DEF Welcome, ProjectExplained
      <4> QED
        BY <2>1, <3>3, <4>2, <4>3 DEF Welcome
    <3> QED
      BY <3>2, <3>3
  <2>2. ASSUME NEW w \in Workers, NEW i \in Issued, Claim(w, i) PROVE ProjectExplained'
    <3>1. storage' = storage
      BY <2>2 DEF Claim
    <3>2. CASE ops[i].agg = Project
      <4>1. /\ LatestStatus(Project) \in {"pending", "retry_wait"}
            /\ LatestStatus(Project)' = "processing"
        BY <1>0, <2>2, <3>2, ClaimMoves
      <4>2. storage = "initializing"
        BY <1>0, <4>1 DEF ProjectExplained, TypeOK, StorageStatus
      <4> QED
        BY <3>1, <4>1, <4>2 DEF ProjectExplained, Active
    <3>3. CASE ops[i].agg # Project
      <4>1. LatestStatus(Project)' = LatestStatus(Project)
        BY <2>2, <3>3, ClaimMoves
      <4> QED
        BY <1>0, <3>1, <4>1 DEF ProjectExplained
    <3> QED
      BY <3>2, <3>3
  <2>3. ASSUME NEW w \in Workers, MarkSucceeded(w) \/ RecordFailure(w)
        PROVE  ProjectExplained'
    <3> DEFINE i == worker[w].op
    <3>1. CASE ops[i].agg = Project
      <4>1. LatestStatus(Project)' = ops'[i].status
        BY <1>0, <2>3, <3>1, ReportMoves
      <4>2. \/ ops'[i].status = "succeeded" /\ storage' = "ready"
            \/ ops'[i].status = "failed" /\ storage' = "failed"
            \/ ops'[i].status = "retry_wait" /\ storage' = "initializing"
        BY <2>3, <3>1, ReportStorage
      <4> QED
        BY <4>1, <4>2 DEF ProjectExplained, Active
    <3>2. CASE ops[i].agg = Scene
      <4>1. LatestStatus(Project)' = LatestStatus(Project)
        BY <2>3, <3>2, ReportMoves, Distinct
      <4>2. storage' \in {"ready", "migrating"} /\ i \in Issued
        BY <2>3, <3>2, ReportStorage
      <4>3. LatestStatus(Project) = "succeeded"
        BY <1>0, <3>2, <4>2 DEF SceneAfterProject, Queued
      <4> QED
        BY <4>1, <4>2, <4>3 DEF ProjectExplained
    <3>3. CASE ops[i].agg \notin {Project, Scene}
      <4>1. LatestStatus(Project)' = LatestStatus(Project)
        BY <2>3, <3>3, ReportMoves
      <4>2. storage' = storage
        BY <2>3, <3>3, ReportStorage
      <4> QED
        BY <1>0, <4>1, <4>2 DEF ProjectExplained
    <3> QED
      BY <3>1, <3>2, <3>3
  <2>4. CASE /\ nextOp' = nextOp
             /\ \A w \in Workers : ~MarkSucceeded(w) /\ ~RecordFailure(w)
             /\ \A w \in Workers, i \in Issued : ~Claim(w, i)
    <3>1. storage' = storage
      BY <2>4, StorageRests
    <3>2. LatestStatus(Project)' = LatestStatus(Project)
      BY <2>4, LatestRests
    <3> QED
      BY <1>0, <3>1, <3>2 DEF ProjectExplained
  <2> QED
    BY <2>1, <2>2, <2>3, <2>4, Queues
<1>2. SceneAfterProject'
  <2> SUFFICES ASSUME Queued(Scene)' PROVE LatestStatus(Project)' = "succeeded"
    BY DEF SceneAfterProject
  <2>1. CASE Queued(Scene)
    BY <1>0, <2>1, ProjectStays DEF SceneAfterProject
  <2>2. CASE ~Queued(Scene)
    <3>1. nextOp' # nextOp
      BY <1>0, <2>2, LatestStays
    <3>2. PICK op : Enqueue(op) /\ Welcome(op)
      BY <3>1, Queues
    <3>3. PICK m : m = nextOp
      OBVIOUS
    <3>4. Issued' = Issued \cup {m} /\ ops'[m] = op /\ \A i \in Issued : ops'[i] = ops[i]
      BY <1>0, <3>2, <3>3, LatestPushed
    <3>5. op.agg = Scene
      BY <2>2, <3>4 DEF Queued
    <3> QED
      BY <3>2, <3>5, ProjectStays DEF Welcome
  <2> QED
    BY <2>1, <2>2
<1>3. SeenReady'
  <2> SUFFICES ASSUME NEW c \in Clients, tx'[c].pc # "idle", tx'[c].seen = "ready"
               PROVE  LatestStatus(Project) = "succeeded"
    BY ProjectStays DEF SeenReady
  <2>1. CASE tx'[c] = tx[c]
    BY <1>0, <2>1 DEF SeenReady
  <2>2. ASSUME NEW d \in Clients, tx' = [tx EXCEPT ![d] = NoRequest], tx'[c] # tx[c]
        PROVE  FALSE
    BY <1>0, <2>2 DEF NoRequest, TypeOK
  <2>3. ASSUME NEW d \in Clients, NEW r, Waits(d, r), tx'[c] # tx[c]
        PROVE  LatestStatus(Project) = "succeeded"
    <3>1. tx'[c] = [NoRequest EXCEPT !.pc = "waiting", !.req = r, !.seen = storage]
      BY <1>0, <2>3 DEF Waits, TypeOK
    <3>2. tx'[c].seen = storage
      BY <3>1 DEF NoRequest
    <3> QED
      BY <1>0, <3>2 DEF ProjectExplained
  <2>4. ASSUME NEW d \in Clients, NEW r, NEW seen, Holds(d, r, seen), tx'[c] # tx[c]
        PROVE  LatestStatus(Project) = "succeeded"
    <3>1. tx'[c] = Holding(r, seen) /\ d = c
      BY <1>0, <2>4 DEF Holds, TypeOK
    <3>2. seen = "ready"
      BY <3>1, HoldingFields
    <3>3. storage = "ready" \/ (tx[c].pc # "idle" /\ tx[c].seen = "ready")
      BY <2>4, <3>1, <3>2 DEF Holds
    <3> QED
      BY <1>0, <3>3 DEF ProjectExplained, SeenReady
  <2> QED
    BY <2>1, <2>2, <2>3, <2>4, Requests
<1> QED
  BY <1>1, <1>2, <1>3 DEF ProjectInv

LEMMA ExplainedStep == IInv /\ IInv' /\ EInv /\ [Next]_vars => EInv'
  BY RowsStep, ReadStep, MadeStep, TaskStep, ProjectStep DEF EInv

-----------------------------------------------------------------------------
(* The renumberings, when two requests cannot both queue one: either no     *)
(* shot had a directory before its task was started, or requests come one   *)
(* at a time.                                                               *)

OneAtATime == \A c, d \in Clients : c = d
NamedStarted == \A s \in Shots : named[s] = TRUE => Started(s)
SeenIsCurrent ==
  \A c \in Clients :
    /\ tx[c].pc # "waiting"
    /\ tx[c].pc = "holding" /\ tx[c].seen = "ready" => storage = "ready"
SceneExplained ==
  /\ storage = "ready" => LatestStatus(Scene) \in {"none", "succeeded"}
  /\ storage = "migrating" => LatestStatus(Scene) \in Active \cup {"failed"}
SceneInv ==
  /\ Settled(Scene) /\ SceneExplained
  /\ LegacyShots = {} => NamedStarted
  /\ LegacyShots # {} => SeenIsCurrent

\* Two rows cannot be queued in one step.
LEMMA OneEnqueue ==
  ASSUME TypeOK, NEW op1, NEW op2, Enqueue(op1), Enqueue(op2)
  PROVE  op1 = op2
  BY DEF TypeOK, Enqueue, OpIds

\* A renumbering is queued when none is under way.
LEMMA SceneQueues ==
  ASSUME IInv, EInv, SceneInv, [Next]_vars, NEW op, Enqueue(op), op.agg = Scene
  PROVE  /\ storage' = "migrating"
         /\ \A i \in Issued : ops[i].agg = Scene => ops[i].status \in Over
<1>0. /\ TypeOK /\ NewestKnown /\ RowsNamed
      /\ Settled(Scene) /\ SceneExplained /\ nextOp' # nextOp
  BY DEF IInv, EInv, RowsInv, SceneInv, Enqueue, TypeOK
<1>1. ASSUME storage = "ready"
      PROVE  \A i \in Issued : ops[i].agg = Scene => ops[i].status \in Over
  <2> SUFFICES ASSUME NEW i \in Issued, ops[i].agg = Scene, ops[i].status \notin Over
               PROVE  FALSE
    OBVIOUS
  <2>1. LatestStatus(Scene) = ops[i].status
    BY <1>0, UnfinishedIsNewest
  <2>2. LatestStatus(Scene) # "none"
    BY <1>0, LatestSome DEF Queued
  <2> QED
    BY <1>0, <1>1, <2>1, <2>2 DEF SceneExplained, Over
<1>2. ASSUME NEW c \in Clients, NEW items \in SUBSET Shots, RenumberScene(c, items)
      PROVE  storage = "ready" /\ storage' = "migrating"
  <2>1. CASE LegacyShots = {}
    <3>1. PICK s \in items : named[s] = TRUE
      BY <1>0, <1>2 DEF RenumberScene, TypeOK
    <3>2. Started(s)
      BY <2>1, <3>1 DEF SceneInv, NamedStarted
    <3> QED
      BY <1>2, <3>2 DEF RenumberScene, Started
  <2>2. CASE LegacyShots # {}
    BY <1>2, <2>2 DEF SceneInv, SeenIsCurrent, RenumberScene
  <2> QED
    BY <2>1, <2>2
<1>3. ASSUME NEW c \in Clients, ClientStep(c)
      PROVE  \E items \in SUBSET Shots : RenumberScene(c, items)
  <2>1. ASSUME NEW t \in Tasks, StartTask(c, t) PROVE FALSE
    <3>1. PICK op2 : Enqueue(op2) /\ op2.agg = Target[t]
      BY <1>0, <2>1, StartTaskQueues
    <3> QED
      BY <1>0, <3>1, OneEnqueue, Distinct
  <2>2. ASSUME NEW e \in Episodes, CreateEpisode(c, e) PROVE FALSE
    <3>1. Enqueue(DirectoryOp("ensure_directory", e))
      BY <2>2 DEF CreateEpisode
    <3>2. DirectoryOp("ensure_directory", e).agg = e
      BY DEF DirectoryOp, Op
    <3>3. op = DirectoryOp("ensure_directory", e)
      BY <1>0, <3>1, OneEnqueue
    <3> QED
      BY <3>2, <3>3, OutboxAssumption
  <2> QED
    BY <1>0, <1>3, <2>1, <2>2 DEF ClientStep, Acquire, Abort
<1>4. ~RetryProjectStorage
  <2> SUFFICES ASSUME RetryProjectStorage PROVE FALSE
    OBVIOUS
  <2>1. op = DirectoryOp("reconcile_directory", Project)
    BY <1>0, OneEnqueue DEF RetryProjectStorage
  <2>2. DirectoryOp("reconcile_directory", Project).agg = Project
    BY DEF DirectoryOp, Op
  <2> QED
    BY <2>1, <2>2, Distinct
<1>5. ASSUME NEW i \in Issued, RetryOperation(i)
      PROVE  /\ storage' = "migrating"
             /\ \A j \in Issued : ops[j].agg = Scene => ops[j].status \in Over
  <2>1. ops[i].agg = Scene /\ IsShotRenumber(ops[i])
    <3>1. CASE IsShotRenumber(ops[i])
      BY <1>0, <3>1 DEF RowsNamed
    <3>2. CASE ~IsShotRenumber(ops[i])
      <4>1. op = DirectoryOp("reconcile_directory", ops[i].agg)
        BY <1>0, <1>5, <3>2, OneEnqueue DEF RetryOperation
      <4>2. op.agg = ops[i].agg
        BY <4>1 DEF DirectoryOp, Op
      <4> QED
        BY <1>0, <3>2, <4>2 DEF RowsNamed
    <3> QED
      BY <3>1, <3>2
  <2>2. storage' = "migrating" /\ ~HasActive(Scene)
    BY <1>5, <2>1 DEF RetryOperation
  <2> QED
    BY <1>0, <2>2, InactiveIsOver
<1>6. ASSUME NEW w \in Workers, WorkerStep(w) PROVE FALSE
  BY <1>0, <1>6, RowsUntouched DEF WorkerStep, WriteBack, Claim, MarkSucceeded, RecordFailure
<1> QED
  BY <1>0, <1>1, <1>2, <1>3, <1>4, <1>5, <1>6
  DEF Next, vars, Begin, LeaseExpires, RetryTimeComes

LEMMA SceneSettles ==
  ASSUME IInv, IInv', EInv, SceneInv, [Next]_vars
  PROVE  Settled(Scene)'
<1> SUFFICES ASSUME NEW i \in Issued', NEW j \in Issued', i < j,
                    ops'[i].agg = Scene, ops'[j].agg = Scene
             PROVE  ops'[i].status \in Over
  BY DEF Settled
<1>0. TypeOK /\ TypeOK' /\ NewestKnown /\ Settled(Scene)
  BY DEF IInv, EInv, RowsInv, SceneInv
<1>1. ASSUME NEW op, Enqueue(op), Welcome(op) PROVE ops'[i].status \in Over
  <2>1. PICK m : m = nextOp
    OBVIOUS
  <2>2. /\ Issued' = Issued \cup {m} /\ ops'[m] = op
        /\ \A k \in Issued : ops'[k] = ops[k] /\ k < m
        /\ \A k \in Issued' : k <= m
    BY <1>0, <1>1, <2>1, LatestPushed
  <2>3. i \in Int /\ j \in Int
    BY DEF Issued
  <2>4. i \in Issued /\ ops'[i] = ops[i]
    BY <2>2, <2>3
  <2>5. CASE j \in Issued
    BY <1>0, <2>2, <2>4, <2>5 DEF Settled
  <2>6. CASE j \notin Issued
    <3>1. op.agg = Scene
      BY <2>2, <2>6
    <3> QED
      BY <1>1, <2>4, <3>1, SceneQueues
  <2> QED
    BY <2>5, <2>6
<1>2. CASE nextOp' = nextOp
  <2>1. Issued' = Issued
    BY <1>2 DEF Issued
  <2>2. ops[i].agg = Scene /\ ops[j].agg = Scene
    BY <2>1, RowsFrozen DEF Purpose
  <2>3. ops[i].status \in Over
    BY <1>0, <2>1, <2>2 DEF Settled
  <2> QED
    BY <2>1, <2>3, FinishedStep DEF Over
<1> QED
  BY <1>1, <1>2, Queues

LEMMA SceneStatusStep ==
  ASSUME IInv, IInv', EInv, SceneInv, [Next]_vars
  PROVE  SceneExplained'
<1>0. /\ TypeOK /\ TypeOK' /\ NewestKnown /\ Settled(Scene) /\ Settled(Project)
      /\ SceneExplained /\ SceneAfterProject /\ ProjectExplained
  BY Distinct DEF IInv, EInv, RowsInv, SceneInv, ProjectInv, OlderFinished
<1>1. ASSUME NEW op, Enqueue(op), Welcome(op) PROVE SceneExplained'
  <2>1. PICK m : m = nextOp
    OBVIOUS
  <2>2. CASE op.agg = Scene
    <3>1. LatestStatus(op.agg)' = op.status
      BY <1>0, <1>1, <2>1, LatestPushed
    <3>2. LatestStatus(Scene)' = "pending" /\ storage' = "migrating"
      BY <1>1, <2>2, <3>1, SceneQueues DEF Welcome
    <3> QED
      BY <3>2 DEF SceneExplained, Active
  <2>3. CASE op.agg # Scene
    <3>1. LatestStatus(Scene)' = LatestStatus(Scene)
      BY <1>0, <1>1, <2>1, <2>3, LatestPushed
    <3>2. storage' = storage \/ storage' = "initializing"
      BY <1>1, <2>3 DEF Welcome
    <3> QED
      BY <1>0, <3>1, <3>2 DEF SceneExplained
  <2> QED
    BY <2>2, <2>3
<1>2. ASSUME NEW w \in Workers, NEW i \in Issued, Claim(w, i) PROVE SceneExplained'
  <2>1. storage' = storage
    BY <1>2 DEF Claim
  <2>2. CASE ops[i].agg = Scene
    <3>1. /\ LatestStatus(Scene) \in {"pending", "retry_wait"}
          /\ LatestStatus(Scene)' = "processing"
      BY <1>0, <1>2, <2>2, ClaimMoves
    <3> QED
      BY <1>0, <2>1, <3>1 DEF SceneExplained, Active
  <2>3. CASE ops[i].agg # Scene
    <3>1. LatestStatus(Scene)' = LatestStatus(Scene)
      BY <1>2, <2>3, ClaimMoves
    <3> QED
      BY <1>0, <2>1, <3>1 DEF SceneExplained
  <2> QED
    BY <2>2, <2>3
<1>3. ASSUME NEW w \in Workers, MarkSucceeded(w) \/ RecordFailure(w) PROVE SceneExplained'
  <2> DEFINE i == worker[w].op
  <2>1. CASE ops[i].agg = Scene
    <3>1. LatestStatus(Scene)' = ops'[i].status
      BY <1>0, <1>3, <2>1, ReportMoves
    <3>2. \/ ops'[i].status = "succeeded" /\ storage' = "ready"
          \/ ops'[i].status \in {"failed", "retry_wait"} /\ storage' = "migrating"
      BY <1>3, <2>1, ReportStorage
    <3> QED
      BY <3>1, <3>2 DEF SceneExplained, Active
  <2>2. CASE ops[i].agg = Project
    <3>1. LatestStatus(Project) = "processing"
      BY <1>0, <1>3, <2>2, ReportMoves
    <3>2. ~Queued(Scene)
      BY <1>0, <3>1 DEF SceneAfterProject
    <3>3. LatestStatus(Scene)' = "none"
      <4>1. LatestStatus(Scene)' = LatestStatus(Scene)
        BY <1>3, <2>2, ReportMoves, Distinct
      <4> QED
        BY <3>2, <4>1, LatestNone
    <3>4. storage' \in {"ready", "failed", "initializing"}
      BY <1>3, <2>2, ReportStorage
    <3> QED
      BY <3>3, <3>4 DEF SceneExplained
  <2>3. CASE ops[i].agg \notin {Project, Scene}
    <3>1. LatestStatus(Scene)' = LatestStatus(Scene)
      BY <1>3, <2>3, ReportMoves
    <3>2. storage' = storage
      BY <1>3, <2>3, ReportStorage
    <3> QED
      BY <1>0, <3>1, <3>2 DEF SceneExplained
  <2> QED
    BY <2>1, <2>2, <2>3
<1>4. CASE /\ nextOp' = nextOp
           /\ \A w \in Workers : ~MarkSucceeded(w) /\ ~RecordFailure(w)
           /\ \A w \in Workers, i \in Issued : ~Claim(w, i)
  <2>1. storage' = storage
    BY <1>4, StorageRests
  <2>2. LatestStatus(Scene)' = LatestStatus(Scene)
    BY <1>4, LatestRests
  <2> QED
    BY <1>0, <2>1, <2>2 DEF SceneExplained
<1> QED
  BY <1>1, <1>2, <1>3, <1>4, Queues

LEMMA NamedStep ==
  ASSUME IInv, NamedStarted, [Next]_vars
  PROVE  NamedStarted'
<1> SUFFICES ASSUME NEW s \in Shots, named'[s] = TRUE PROVE Started(s)'
  BY DEF NamedStarted
<1>1. CASE named[s] = TRUE
  BY <1>1, Grows DEF NamedStarted, Started
<1>2. CASE named[s] # TRUE
  <2>1. ASSUME NEW w \in Workers, WorkerStep(w) PROVE named' = named
    BY <2>1 DEF WorkerStep, WriteBack, IoEnds, Claim, RenewRefused, RenewRaises, IoSucceeds,
       IoFails, MarkSucceeded, RenumberConflict, RecordFailure, WriteBackRaises, Crash
  <2>2. PICK c \in Clients : ClientStep(c)
    BY <1>2, <2>1 DEF Next, vars, Begin, RetryProjectStorage, RetryOperation,
       LeaseExpires, RetryTimeComes
  <2>3. PICK t \in Tasks : StartTask(c, t)
    BY <1>2, <2>2 DEF ClientStep, Acquire, Abort, CreateEpisode, RenumberScene
  <2>4. Target[t] = s
    BY <1>2, <2>3 DEF StartTask, IInv, TypeOK
  <2>5. task'[t] # "not_started"
    <3>1. PICK l : task' = [task EXCEPT ![t] = StartStatus(l)]
      BY <2>3 DEF StartTask
    <3> QED
      BY <3>1 DEF StartStatus, IInv, TypeOK
  <2> QED
    BY <2>4, <2>5 DEF Started
<1> QED
  BY <1>1, <1>2

LEMMA SeenStep ==
  ASSUME OneAtATime, IInv, IInv', EInv, SceneInv, SeenIsCurrent, [Next]_vars
  PROVE  SeenIsCurrent'
<1>0. /\ TypeOK /\ OneHolder /\ Settled(Scene) /\ Settled(Project)
      /\ SceneExplained /\ ProjectExplained
  BY Distinct DEF IInv, EInv, RowsInv, ReadInv, SceneInv, ProjectInv, OlderFinished
<1> SUFFICES ASSUME NEW c \in Clients
             PROVE  /\ tx'[c].pc # "waiting"
                    /\ tx'[c].pc = "holding" /\ tx'[c].seen = "ready" => storage' = "ready"
  BY DEF SeenIsCurrent
<1>1. CASE tx'[c] = tx[c]
  <2> SUFFICES ASSUME tx[c].pc = "holding", tx[c].seen = "ready" PROVE storage' = "ready"
    BY <1>1 DEF SeenIsCurrent
  <2>1. storage = "ready"
    BY DEF SeenIsCurrent
  <2>2. nextOp' = nextOp /\ \A w \in Workers : ~MarkSucceeded(w)
    BY <1>0, <1>1, LockedSteps
  <2>3. ASSUME NEW w \in Workers, RecordFailure(w) PROVE storage' = storage
    <3> DEFINE i == worker[w].op
    <3>1. ops[i].agg # Project
      <4>1. LatestStatus(Project) = "succeeded"
        BY <1>0, <2>1 DEF ProjectExplained
      <4> QED
        BY <1>0, <2>3, <4>1, ReportMoves
    <3>2. ops[i].agg # Scene
      <4>1. LatestStatus(Scene) # "processing"
        BY <1>0, <2>1 DEF SceneExplained
      <4> QED
        BY <1>0, <2>3, <4>1, ReportMoves
    <3> QED
      BY <2>3, <3>1, <3>2, ReportStorage
  <2>4. CASE \A w \in Workers : ~RecordFailure(w)
    BY <2>1, <2>2, <2>4, StorageRests
  <2> QED
    BY <2>1, <2>3, <2>4, StorageRests
<1>2. ASSUME NEW d \in Clients, tx' = [tx EXCEPT ![d] = NoRequest], tx'[c] # tx[c]
      PROVE  tx'[c].pc = "idle"
  BY <1>0, <1>2 DEF NoRequest, TypeOK
<1>3. ASSUME NEW d \in Clients, NEW r, Waits(d, r) PROVE FALSE
  BY <1>3 DEF Waits, LockFree, OneAtATime
<1>4. ASSUME NEW d \in Clients, NEW r, NEW seen, Holds(d, r, seen), tx'[c] # tx[c]
      PROVE  /\ tx'[c].pc = "holding"
             /\ tx'[c].seen = "ready" => storage' = "ready"
  <2>1. tx'[c] = Holding(r, seen) /\ d = c
    BY <1>0, <1>4 DEF Holds, TypeOK
  <2>2. tx[c].pc # "waiting"
    BY DEF SeenIsCurrent
  <2>3. seen = storage /\ storage' = storage
    BY <1>4, <2>1, <2>2 DEF Holds
  <2> QED
    BY <2>1, <2>3, HoldingFields
<1> QED
  BY <1>1, <1>2, <1>3, <1>4, Requests

LEMMA SceneStep ==
  ASSUME LegacyShots = {} \/ OneAtATime
  PROVE  IInv /\ IInv' /\ EInv /\ SceneInv /\ [Next]_vars => SceneInv'
<1> SUFFICES ASSUME IInv, IInv', EInv, SceneInv, [Next]_vars PROVE SceneInv'
  OBVIOUS
<1>1. Settled(Scene)' /\ SceneExplained'
  BY SceneSettles, SceneStatusStep
<1>2. LegacyShots = {} => NamedStarted'
  BY NamedStep DEF SceneInv
<1>3. LegacyShots # {} => SeenIsCurrent'
  BY SeenStep DEF SceneInv
<1> QED
  BY <1>1, <1>2, <1>3 DEF SceneInv

-----------------------------------------------------------------------------
(* The initial states: one row per directory.                              *)

LEMMA InitialRow ==
  ASSUME NEW rank, NEW i \in OpIds, NEW a \in Legacy, i # 1, rank[a] = i,
         \A b \in Legacy : rank[b] = i => b = a
  PROVE  LET op == InitialOp(rank, i) IN
         /\ op.agg = a /\ op.type = "ensure_directory"
         /\ op.status = IF a \in LegacyShots THEN "succeeded" ELSE "pending"
<1> DEFINE finishedBefore == {b \in LegacyShots : rank[b] = i}
           queuedBefore == {b \in LegacyAssets : rank[b] = i}
<1>1. CASE a \in LegacyShots
  <2>1. finishedBefore = {a}
    BY <1>1 DEF Legacy
  <2>2. InitialOp(rank, i) = Finished(DirectoryOp("ensure_directory", a))
    BY <2>1 DEF InitialOp
  <2> QED
    BY <1>1, <2>2 DEF Finished, DirectoryOp, Op
<1>2. CASE a \notin LegacyShots
  <2>1. finishedBefore = {} /\ queuedBefore = {a}
    BY <1>2 DEF Legacy
  <2>2. InitialOp(rank, i) = DirectoryOp("ensure_directory", a)
    BY <2>1 DEF InitialOp
  <2> QED
    BY <1>2, <2>2 DEF DirectoryOp, Op
<1> QED
  BY <1>1, <1>2

\* Legacy rows follow the project's, one per directory: ranks are a bijection.
LEMMA RanksCover ==
  ASSUME NEW rank \in [Legacy -> 2..(Cardinality(Legacy) + 1)],
         \A a, b \in Legacy : rank[a] = rank[b] => a = b
  PROVE  \A i \in 2..(Cardinality(Legacy) + 1) : \E a \in Legacy : rank[a] = i
<1> DEFINE n == Cardinality(Legacy)
           T == 2..(n + 1)
<1>1. n \in Nat
  BY OutboxAssumption, FS_CardinalityType
<1>2. IsFiniteSet(T) /\ Cardinality(T) = n
  <2>1. 2 \in Int /\ n + 1 \in Int
    BY <1>1
  <2>2. IsFiniteSet(T) /\ Cardinality(T) = IF 2 > n + 1 THEN 0 ELSE (n + 1) - 2 + 1
    BY <2>1, FS_Interval
  <2> QED
    BY <1>1, <2>2
<1>3. rank \in Injection(Legacy, T)
  BY DEF Injection, IsInjective
<1>4. rank \in Surjection(Legacy, T)
  BY <1>2, <1>3, FS_Injection
<1> QED
  BY <1>4 DEF Surjection

InitialRows(rank) ==
  \A i \in Issued :
    \/ /\ i = 1 /\ ops[i].agg = Project /\ ops[i].type = "initialize_project"
       /\ ops[i].status = IF Legacy = {} THEN "pending" ELSE "succeeded"
    \/ \E a \in Legacy :
         /\ rank[a] = i /\ i # 1 /\ ops[i].agg = a /\ ops[i].type = "ensure_directory"
         /\ ops[i].status = IF a \in LegacyShots THEN "succeeded" ELSE "pending"

LEMMA InitRows == Init => (\E rank : InitialRows(rank)) /\ 1 \in Issued
<1> SUFFICES ASSUME Init PROVE (\E rank : InitialRows(rank)) /\ 1 \in Issued
  OBVIOUS
<1> DEFINE n == Cardinality(Legacy)
<1>1. n \in Nat /\ n < MaxOps /\ MaxOps \in Nat
  BY OutboxAssumption, FS_CardinalityType
<1>2. Issued = 1..(n + 1) /\ Issued \subseteq OpIds /\ 1 \in Issued
  BY <1>1 DEF Init, Issued, OpIds
<1>3. PICK rank \in [Legacy -> 2..(n + 1)] :
        /\ \A a, b \in Legacy : rank[a] = rank[b] => a = b
        /\ ops = [i \in OpIds |-> InitialOp(rank, i)]
  BY DEF Init, InitialOps
<1>4. ASSUME NEW i \in Issued, i # 1
      PROVE  \E a \in Legacy :
               /\ rank[a] = i /\ i # 1 /\ ops[i].agg = a
               /\ ops[i].type = "ensure_directory"
               /\ ops[i].status = IF a \in LegacyShots THEN "succeeded" ELSE "pending"
  <2>1. i \in 2..(n + 1) /\ i \in OpIds
    BY <1>1, <1>2, <1>4
  <2>2. PICK a \in Legacy : rank[a] = i
    BY <1>3, <2>1, RanksCover
  <2>3. ops[i] = InitialOp(rank, i)
    BY <1>3, <2>1
  <2> QED
    BY <1>3, <1>4, <2>1, <2>2, <2>3, InitialRow
<1>5. /\ ops[1].agg = Project /\ ops[1].type = "initialize_project"
      /\ ops[1].status = IF Legacy = {} THEN "pending" ELSE "succeeded"
  <2>1. ops[1] = IF Legacy = {} THEN DirectoryOp("initialize_project", Project)
                 ELSE Finished(DirectoryOp("initialize_project", Project))
    BY <1>2, <1>3 DEF InitialOp
  <2> QED
    BY <2>1 DEF DirectoryOp, Op, Finished
<1>6. InitialRows(rank)
  BY <1>4, <1>5 DEF InitialRows
<1> QED
  BY <1>2, <1>6

LEMMA InitEInv == Init => EInv /\ SceneInv
<1> SUFFICES ASSUME Init PROVE EInv /\ SceneInv
  OBVIOUS
<1>0. TypeOK
  BY InitIInv DEF IInv
<1>1. PICK rank : InitialRows(rank)
  BY InitRows
<1>2. /\ Legacy \subseteq Aggregates /\ Project \in Aggregates /\ Scene \in Aggregates
      /\ Project # Scene /\ Project \notin Legacy /\ Scene \notin Legacy
      /\ \A a \in Legacy : a \in Shots => a \in LegacyShots
      /\ \A a \in Legacy : a \in Assets => a \notin LegacyShots
  BY OutboxAssumption DEF Legacy, Aggregates
<1>3. \A i, j \in Issued : ops[i].agg = ops[j].agg => i = j
  BY <1>1, <1>2 DEF InitialRows
<1>4. \A i \in Issued : /\ ops[i].agg \in Legacy \cup {Project}
                        /\ ~IsShotRenumber(ops[i])
                        /\ ops[i].status \in {"pending", "succeeded"}
  BY <1>1 DEF InitialRows, IsShotRenumber
<1>5. \A i \in Issued : /\ IsLatest(i, ops[i].agg)
                        /\ ops[i].status = LatestStatus(ops[i].agg)
  <2>1. \A i \in Issued : i <= i
    BY DEF Issued
  <2>2. \A i \in Issued : IsLatest(i, ops[i].agg)
    BY <1>3, <2>1 DEF IsLatest
  <2> QED
    BY <1>0, <2>2, LatestIs
<1>6. \A a : Settled(a)
  <2>1. \A i, j \in Issued : i < j => i # j
    BY DEF Issued
  <2> QED
    BY <1>3, <2>1 DEF Settled
<1>7. RowsInv
  BY <1>2, <1>4, <1>5, <1>6 DEF RowsInv, RowsNamed, NewestKnown, OlderFinished
<1>8. ReadInv
  <2>1. OneHolder /\ ReadUnderLock
    BY DEF Init, NoRequest, OneHolder, ReadUnderLock
  <2>2. QueuedShotsNamed
    <3> SUFFICES ASSUME NEW i \in Issued, ops[i].agg \in Shots
                 PROVE  named[ops[i].agg] = TRUE
      BY DEF QueuedShotsNamed
    <3>1. ops[i].agg \in LegacyShots
      BY <1>2, <1>4, OutboxAssumption
    <3> QED
      BY <3>1 DEF Init
  <2> QED
    BY <2>1, <2>2 DEF ReadInv
<1>9. MadeInv
  <2>1. SucceededIsMade
    <3> SUFFICES ASSUME NEW i \in Issued, ops[i].status = "succeeded"
                 PROVE  made[ops[i].agg] = TRUE
      BY DEF SucceededIsMade
    <3>1. CASE ops[i].agg = Project
      <4>1. Legacy # {}
        BY <1>1, <1>2, <3>1 DEF InitialRows
      <4> QED
        BY <1>2, <3>1, <4>1 DEF Init
    <3>2. CASE ops[i].agg # Project
      <4>1. ops[i].agg \in LegacyShots /\ ops[i].agg \in Aggregates
        BY <1>1, <1>2, <3>2 DEF InitialRows
      <4> QED
        BY <4>1 DEF Init
    <3> QED
      BY <3>1, <3>2
  <2>2. DoneIsMade /\ ClaimedIsStarted
    BY DEF Init, Idle, DoneIsMade, ClaimedIsStarted
  <2> QED
    BY <2>1, <2>2 DEF MadeInv
<1>10. TaskInv
  <2>1. PreparingHasOperation /\ StartedHasDirectory
    BY DEF Init, PreparingHasOperation, StartedHasDirectory
  <2>2. AssetDirectoryAfterStart
    <3> SUFFICES ASSUME NEW a \in Assets PROVE made[a] = FALSE
      BY DEF AssetDirectoryAfterStart
    <3>1. a \in Aggregates /\ a \notin LegacyShots /\ a # Project
      BY OutboxAssumption DEF Aggregates
    <3> QED
      BY <3>1 DEF Init
  <2> QED
    BY <2>1, <2>2 DEF TaskInv
<1>11. LatestStatus(Project) = IF Legacy = {} THEN "pending" ELSE "succeeded"
  <2>1. 1 \in Issued /\ \A a \in Legacy : ops[1].agg # a \/ ops[1].agg = Project
    BY <1>1, InitRows DEF InitialRows
  <2>2. ops[1].agg = Project /\ ops[1].status = IF Legacy = {} THEN "pending" ELSE "succeeded"
    BY <1>1, <1>2, <2>1 DEF InitialRows
  <2> QED
    BY <1>5, <2>1, <2>2
<1>12. LatestStatus(Scene) = "none" /\ ~Queued(Scene)
  BY <1>2, <1>4 DEF LatestStatus, IsLatest, Queued
<1>13. ProjectInv
  BY <1>11, <1>12 DEF Init, ProjectInv, ProjectExplained, SceneAfterProject, SeenReady,
                      Active, NoRequest
<1>14. SceneInv
  <2>1. SceneExplained
    BY <1>12 DEF Init, SceneExplained
  <2>2. SeenIsCurrent
    BY DEF Init, SeenIsCurrent, NoRequest
  <2>3. LegacyShots = {} => NamedStarted
    BY DEF Init, NamedStarted
  <2> QED
    BY <1>6, <2>1, <2>2, <2>3 DEF SceneInv
<1> QED
  BY <1>7, <1>8, <1>9, <1>10, <1>13, <1>14 DEF EInv

LEMMA StatusesExplained == IInv /\ EInv /\ SceneInv => OperationsExplainStatuses
<1> SUFFICES ASSUME IInv, EInv, SceneInv PROVE OperationsExplainStatuses
  OBVIOUS
<1>1. TaskInv /\ ProjectExplained /\ SceneExplained /\ RowsInv /\ Settled(Scene)
  BY DEF EInv, ProjectInv, SceneInv
<1>2. StorageStatusExplained
  BY <1>1 DEF StorageStatusExplained, ProjectExplained, SceneExplained
<1>3. OneActiveOperation
  <2> SUFFICES ASSUME NEW i \in Issued, NEW j \in Issued, ops[i].agg = ops[j].agg,
                      ops[i].status \in Active, ops[j].status \in Active
               PROVE  i = j
    BY DEF OneActiveOperation
  <2>1. Settled(ops[i].agg)
    BY <1>1 DEF RowsInv, RowsNamed, OlderFinished
  <2>2. ops[i].status \notin Over /\ ops[j].status \notin Over
    BY DEF Active, Over
  <2>3. ~(i < j) /\ ~(j < i)
    BY <2>1, <2>2 DEF Settled
  <2>4. i \in Int /\ j \in Int
    BY DEF Issued
  <2> QED
    BY <2>3, <2>4
<1> QED
  BY <1>1, <1>2, <1>3 DEF OperationsExplainStatuses, TaskInv

-----------------------------------------------------------------------------
(* The theorems.                                                           *)

LEMMA EInvAlways == Spec => [](IInv /\ EInv)
<1>1. Init => IInv /\ EInv
  BY InitIInv, InitEInv
<1>2. IInv /\ EInv /\ [Next]_vars => (IInv /\ EInv)'
  BY StepIInv, ExplainedStep
<1> QED
  BY <1>1, <1>2, PTL DEF Spec

\* Whatever the number of clients and workers, and also while two requests
\* renumber the scene at once: every task that waits for its directory has an
\* operation behind it that is not over or has visibly failed, every task in
\* production and every success on record has its directory on the NAS, an
\* asset's directory comes after the start of one of its items, the storage
\* status says what the project's newest initialization came to, and all rows
\* of a directory but the newest are over (start_task, mark_succeeded under
\* the project lock, retry_operation, the claim's eligibility clause).
THEOREM TasksAreExplained ==
  Spec => [](TaskInv /\ SucceededIsMade /\ ProjectExplained /\ OlderFinished)
<1>1. IInv /\ EInv => TaskInv /\ SucceededIsMade /\ ProjectExplained /\ OlderFinished
  BY DEF EInv, MadeInv, ProjectInv, RowsInv
<1> QED
  BY <1>1, EInvAlways, PTL

\* The whole property the runs check, when no shot has a directory before its
\* task starts or only one client sends requests: then no second renumbering
\* can have read "ready" before it waited for the project row
\* (renumber_scene_shots), and the storage status is explained by the newest
\* renumbering too, with at most one unfinished operation per directory.
THEOREM StatusesAreExplained ==
  ASSUME LegacyShots = {} \/ OneAtATime
  PROVE  Spec => []OperationsExplainStatuses
<1>1. Init => IInv /\ EInv /\ SceneInv
  BY InitIInv, InitEInv
<1>2. IInv /\ EInv /\ SceneInv /\ [Next]_vars => (IInv /\ EInv /\ SceneInv)'
  BY StepIInv, ExplainedStep, SceneStep
<1> QED
  BY <1>1, <1>2, StatusesExplained, PTL DEF Spec
=============================================================================
