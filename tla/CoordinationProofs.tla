------------------------- MODULE CoordinationProofs -------------------------
(***************************************************************************)
(* What holds for any number of transactions, processes, consumers and     *)
(* messages wherever Shot Grid has several of them work at the same rows,  *)
(* the same leadership or the same stream.                                 *)
(*                                                                         *)
(*  - Row locks: transactions wait in a circle only when a deletion and an *)
(*    error write-back or a manual retry wait for each other.              *)
(*  - Renumbering on the NAS: every shot's directory is at its old name,   *)
(*    in its slot of the staging directory or at its new name, as far as   *)
(*    the marker says, whatever call failed and whoever came between.      *)
(*  - Leadership: no process calls itself leader without a renewal that    *)
(*    can find out the contrary (LeadersAreWatched), a shutdown that has   *)
(*    returned has left no scheduler, job or loop (ClosedMeansDrained),    *)
(*    and no scheduler starts beside a job (SchedulerStartsDrained).       *)
(*  - Audit logs: an event is stored once at most, and it is stored when   *)
(*    the group is done with it, but for the two losses the code admits.   *)
(***************************************************************************)
EXTENDS DirectoryLocks, RenumberJournal, ApplicationLeader, LogStream,
        FiniteSetTheorems, WellFoundedInduction, TLAPS

-----------------------------------------------------------------------------
(* The lock sequences.                                                     *)

NoRepetition(L) == \A i, j \in 1..Len(L) : L[i] = L[j] => i = j

\* The operations of a project in the order in which a purge locks them.
LEMMA OpsInOrder ==
  LET Q == SetToSeq(Ops) IN
  /\ Q \in Seq(Ops) /\ Len(Q) \in Nat
  /\ NoRepetition(Q)
<1> DEFINE Q == SetToSeq(Ops)
           n == Cardinality(Ops)
<1>1. n \in Nat
  BY LockAssumption, FS_CardinalityType
<1>2. PICK b : b \in Bijection(1..n, Ops)
  BY LockAssumption, FS_CardinalityType DEF ExistsBijection
<1>3. b \in [1..n -> Ops] /\ IsInjective(b)
  BY <1>2 DEF Bijection, Injection
<1>4. Q \in [1..n -> Ops] /\ IsInjective(Q)
  BY <1>3 DEF SetToSeq
<1>5. Q \in Seq(Ops) /\ Len(Q) = n
  BY <1>1, <1>4
<1> QED
  BY <1>1, <1>4, <1>5 DEF NoRepetition, IsInjective

LEMMA PurgeOrder ==
  ASSUME NEW o
  PROVE  LET L == PurgeProjectLocks(o) IN
         L \in Seq(Rows) /\ NoRepetition(L) /\ L[1] = "project"
<1> DEFINE Q == SetToSeq(Ops)
           n == Len(Q)
           L == PurgeProjectLocks(o)
<1>1. Q \in Seq(Ops) /\ n \in Nat /\ \A i, j \in 1..n : Q[i] = Q[j] => i = j
  BY OpsInOrder DEF NoRepetition
<1>2. Ops \subseteq Rows /\ {"project", "storage", "task", "shot"} \subseteq Rows
  BY DEF Rows
<1>3. \A i \in 1..n : Q[i] \in Ops
  BY <1>1
<1>4. L \in Seq(Rows) /\ Len(L) = n + 4
  <2>1. Q \in Seq(Rows)
    BY <1>1, <1>2
  <2> QED
    BY <2>1, <1>2 DEF PurgeProjectLocks
<1>5. /\ L[1] = "project" /\ L[2] = "storage"
      /\ \A i \in 3..(n + 2) : L[i] = Q[i - 2]
      /\ L[n + 3] = "task" /\ L[n + 4] = "shot"
  BY <1>1 DEF PurgeProjectLocks
<1>6. NoRepetition(L)
  <2> SUFFICES ASSUME NEW i \in 1..(n + 4), NEW j \in 1..(n + 4), L[i] = L[j]
               PROVE  i = j
    BY <1>4 DEF NoRepetition
  <2>1. \A k \in 3..(n + 2) : L[k] \in Ops /\ k - 2 \in 1..n
    BY <1>1, <1>3, <1>5
  <2>2. \A k \in 1..(n + 4) : k \in 3..(n + 2) \/ k = 1 \/ k = 2 \/ k = n + 3 \/ k = n + 4
    BY <1>1
  <2>3. CASE i \in 3..(n + 2) /\ j \in 3..(n + 2)
    <3>1. Q[i - 2] = Q[j - 2]
      BY <1>5, <2>3
    <3>2. i - 2 = j - 2
      BY <1>1, <2>1, <2>3, <3>1
    <3> QED
      BY <3>2
  <2>4. CASE i \notin 3..(n + 2) \/ j \notin 3..(n + 2)
    BY <1>5, <2>1, <2>2, <2>4, LockAssumption
  <2> QED
    BY <2>3, <2>4
<1> QED
  BY <1>4, <1>5, <1>6

LEMMA OpIsARow ==
  ASSUME NEW o \in Ops
  PROVE  /\ o \in Rows /\ {"project", "storage", "task", "shot"} \subseteq Rows
         /\ o \notin {"project", "storage", "task", "shot", "none"}
  BY LockAssumption DEF Rows

\* The orders of the kinds of transaction, and which rows come first in them.
LEMMA OrderOf ==
  ASSUME NEW r \in LockRuns \cup {NoRun}
  PROVE  LET L == LockOrder(r) IN
         /\ L \in Seq(Rows) /\ Len(L) \in Nat /\ NoRepetition(L)
         /\ \/ Len(L) <= 1
            \/ L[1] = "project"
            \/ /\ r.kind = "mark_error" /\ Len(L) = 2
               /\ L[1] = r.op /\ L[2] = "storage"
            \/ /\ r.kind = "retry_operation" /\ Len(L) = 3
               /\ L[1] = r.op /\ L[2] = "project" /\ L[3] = "storage"
<1>1. CASE r = NoRun
  <2>1. LockOrder(r) = <<>>
    BY <1>1 DEF LockOrder, NoRun
  <2> QED
    BY <2>1 DEF NoRepetition
<1>2. CASE r \in LockRuns
  <2> DEFINE o == r.op
  <2>1. \/ /\ o \in Ops
           /\ r.kind \in {"mark_succeeded", "mark_renumbered", "mark_error", "renew_lease",
                          "retry_operation", "force_delete"}
        \/ r.kind \in {"start_task", "renumber_scene", "retry_project_storage", "purge_project"}
    BY <1>2 DEF LockRuns, WorkerKinds, RequestKinds
  <2>2. {"project", "storage", "task", "shot"} \subseteq Rows
    BY DEF Rows
  <2>3. CASE r.kind = "mark_succeeded"
    <3>1. LockOrder(r) = <<"project", o, "task", "storage">>
      BY <2>3 DEF LockOrder, MarkSucceededLocks
    <3> QED
      BY <2>1, <2>2, <2>3, <3>1, OpIsARow DEF NoRepetition
  <2>4. CASE r.kind = "mark_renumbered"
    <3>1. LockOrder(r) = <<"project", o, "shot", "storage">>
      BY <2>4 DEF LockOrder, MarkRenumberedLocks
    <3> QED
      BY <2>1, <2>2, <2>4, <3>1, OpIsARow DEF NoRepetition
  <2>5. CASE r.kind = "mark_error"
    <3>1. LockOrder(r) = <<o, "storage">>
      BY <2>5 DEF LockOrder, MarkErrorLocks
    <3> QED
      BY <2>1, <2>2, <2>5, <3>1, OpIsARow DEF NoRepetition
  <2>6. CASE r.kind = "renew_lease"
    <3>1. LockOrder(r) = <<o>>
      BY <2>6 DEF LockOrder, RenewLeaseLocks
    <3> QED
      BY <2>1, <2>2, <2>6, <3>1, OpIsARow DEF NoRepetition
  <2>7. CASE r.kind = "retry_operation"
    <3>1. LockOrder(r) = <<o, "project", "storage">>
      BY <2>7 DEF LockOrder, RetryOperationLocks
    <3> QED
      BY <2>1, <2>2, <2>7, <3>1, OpIsARow DEF NoRepetition
  <2>8. CASE r.kind = "force_delete"
    <3>1. LockOrder(r) = <<"project", "storage", "shot", "task", o>>
      BY <2>8 DEF LockOrder, ForceDeleteLocks
    <3> QED
      BY <2>1, <2>2, <2>8, <3>1, OpIsARow DEF NoRepetition
  <2>9. CASE r.kind = "start_task"
    <3>1. LockOrder(r) = <<"project", "task", "shot">>
      BY <2>9 DEF LockOrder, StartTaskLocks
    <3> QED
      BY <2>2, <3>1 DEF NoRepetition
  <2>10. CASE r.kind = "renumber_scene"
    <3>1. LockOrder(r) = <<"project", "shot", "storage">>
      BY <2>10 DEF LockOrder, RenumberSceneLocks
    <3> QED
      BY <2>2, <3>1 DEF NoRepetition
  <2>11. CASE r.kind = "retry_project_storage"
    <3>1. LockOrder(r) = <<"project", "storage">>
      BY <2>11 DEF LockOrder, RetryProjectStorageLocks
    <3> QED
      BY <2>2, <3>1 DEF NoRepetition
  <2>12. CASE r.kind = "purge_project"
    <3>1. LockOrder(r) = PurgeProjectLocks(o)
      BY <2>12 DEF LockOrder
    <3> QED
      BY <3>1, PurgeOrder
  <2> QED
    BY <2>1, <2>3, <2>4, <2>5, <2>6, <2>7, <2>8, <2>9, <2>10, <2>11, <2>12
<1> QED
  BY <1>1, <1>2

-----------------------------------------------------------------------------
(* What is held.                                                           *)

LockRunsOrNone == LockRuns \cup {NoRun}
LockTypeOK ==
  /\ run \in [Txns -> LockRunsOrNone] /\ got \in [Txns -> Nat]
  /\ holder \in [Rows -> Txns \cup {NoTxn}]
  /\ \A t \in Txns : got[t] <= Len(LockOrder(run[t]))
\* Exactly the first rows of its sequence belong to a transaction.
HoldsItsPrefix ==
  \A t \in Txns, r \in Rows :
    holder[r] = t <=> \E i \in 1..got[t] : LockOrder(run[t])[i] = r
LockInv == LockTypeOK /\ HoldsItsPrefix

LEMMA LockInitInv == LockInit => LockInv
<1> SUFFICES ASSUME LockInit PROVE LockInv
  OBVIOUS
<1>1. LockTypeOK
  BY OrderOf DEF LockInit, LockTypeOK, LockRunsOrNone
<1>2. HoldsItsPrefix
  BY LockAssumption DEF LockInit, HoldsItsPrefix
<1> QED
  BY <1>1, <1>2 DEF LockInv

LEMMA LockStepInv == LockInv /\ [LockNext]_lockVars => LockInv'
<1> SUFFICES ASSUME LockInv, [LockNext]_lockVars PROVE LockInv'
  OBVIOUS
<1>0. /\ LockTypeOK /\ HoldsItsPrefix
      /\ \A t \in Txns : /\ LockOrder(run[t]) \in Seq(Rows)
                         /\ NoRepetition(LockOrder(run[t]))
  BY OrderOf DEF LockInv, LockTypeOK, LockRunsOrNone
<1>1. ASSUME NEW t \in Txns, Lock(t) PROVE LockInv'
  <2> DEFINE L == LockOrder(run[t])
             n == got[t] + 1
  <2>1. n \in 1..Len(L) /\ got[t] \in Nat /\ L[n] \in Rows /\ L[n] = NextRow(t)
    BY <1>0, <1>1 DEF Lock, Waiting, NextRow, LockTypeOK
  <2>2. /\ run' = run /\ got' = [got EXCEPT ![t] = n]
        /\ holder' = [holder EXCEPT ![L[n]] = t] /\ holder[L[n]] = NoTxn
    BY <1>1, <2>1 DEF Lock
  <2>3. LockTypeOK'
    BY <1>0, <2>1, <2>2 DEF LockTypeOK
  <2>4. HoldsItsPrefix'
    <3> SUFFICES ASSUME NEW u \in Txns, NEW r \in Rows
                 PROVE  holder'[r] = u <=> \E i \in 1..got'[u] : LockOrder(run'[u])[i] = r
      BY DEF HoldsItsPrefix
    <3>1. CASE u # t
      <4>1. got'[u] = got[u] /\ run'[u] = run[u]
        BY <1>0, <2>2, <3>1 DEF LockTypeOK
      <4>2. holder'[r] = u <=> holder[r] = u
        BY <1>0, <2>1, <2>2, <3>1, LockAssumption DEF LockTypeOK
      <4> QED
        BY <1>0, <4>1, <4>2 DEF HoldsItsPrefix
    <3>2. CASE u = t
      <4>1. got'[t] = n /\ run'[t] = run[t]
        BY <1>0, <2>2 DEF LockTypeOK
      <4>2. 1..n = 1..got[t] \cup {n}
        BY <2>1
      <4>3. holder'[r] = t <=> holder[r] = t \/ r = L[n]
        BY <1>0, <2>1, <2>2 DEF LockTypeOK
      <4>4. holder[r] = t <=> \E i \in 1..got[t] : L[i] = r
        BY <1>0 DEF HoldsItsPrefix
      <4>5. (\E i \in 1..n : L[i] = r) <=> (\E i \in 1..got[t] : L[i] = r) \/ r = L[n]
        BY <4>2
      <4> QED
        BY <3>2, <4>1, <4>3, <4>4, <4>5
    <3> QED
      BY <3>1, <3>2
  <2> QED
    BY <2>3, <2>4 DEF LockInv
<1>2. ASSUME NEW t \in Txns, Leave(t) PROVE LockInv'
  <2>1. LockOrder(NoRun) = <<>>
    BY DEF LockOrder, NoRun
  <2>2. LockTypeOK'
    BY <1>0, <1>2, <2>1 DEF Leave, LockTypeOK, LockRunsOrNone
  <2>3. HoldsItsPrefix'
    <3> SUFFICES ASSUME NEW u \in Txns, NEW r \in Rows
                 PROVE  holder'[r] = u <=> \E i \in 1..got'[u] : LockOrder(run'[u])[i] = r
      BY DEF HoldsItsPrefix
    <3>1. CASE u # t
      <4>1. got'[u] = got[u] /\ run'[u] = run[u]
        BY <1>0, <1>2, <3>1 DEF Leave, LockTypeOK
      <4>2. holder'[r] = u <=> holder[r] = u
        BY <1>0, <1>2, <3>1, LockAssumption DEF Leave, LockTypeOK
      <4> QED
        BY <1>0, <4>1, <4>2 DEF HoldsItsPrefix
    <3>2. CASE u = t
      <4>1. got'[t] = 0 /\ holder'[r] # t
        BY <1>0, <1>2, LockAssumption DEF Leave, LockTypeOK
      <4> QED
        BY <3>2, <4>1
    <3> QED
      BY <3>1, <3>2
  <2> QED
    BY <2>2, <2>3 DEF LockInv
<1>3. ASSUME NEW t \in Txns, BeginTxn(t) PROVE LockInv'
  <2>1. LockOrder(NoRun) = <<>> /\ run[t] = NoRun /\ got' = got /\ holder' = holder
    BY <1>3 DEF LockOrder, NoRun, BeginTxn
  <2>2. got[t] = 0
    BY <1>0, <2>1 DEF LockTypeOK
  <2>3. PICK x \in LockRuns : run' = [run EXCEPT ![t] = x]
    BY <1>3 DEF BeginTxn
  <2>4. \A u \in Txns : u # t => run'[u] = run[u]
    BY <1>0, <2>3 DEF LockTypeOK
  <2>5. LockTypeOK'
    <3>1. run' \in [Txns -> LockRunsOrNone]
      BY <1>0, <2>3 DEF LockTypeOK, LockRunsOrNone
    <3>2. \A u \in Txns : got'[u] <= Len(LockOrder(run'[u]))
      <4> SUFFICES ASSUME NEW u \in Txns PROVE got'[u] <= Len(LockOrder(run'[u]))
        OBVIOUS
      <4>1. CASE u = t
        <5>1. Len(LockOrder(run'[t])) \in Nat
          BY <3>1, OrderOf DEF LockRunsOrNone
        <5> QED
          BY <2>1, <2>2, <4>1, <5>1
      <4>2. CASE u # t
        BY <1>0, <2>1, <2>4, <4>2 DEF LockTypeOK
      <4> QED
        BY <4>1, <4>2
    <3> QED
      BY <1>0, <2>1, <3>1, <3>2 DEF LockTypeOK
  <2>6. HoldsItsPrefix'
    <3> SUFFICES ASSUME NEW u \in Txns, NEW r \in Rows
                 PROVE  holder'[r] = u <=> \E i \in 1..got'[u] : LockOrder(run'[u])[i] = r
      BY DEF HoldsItsPrefix
    <3>1. CASE u = t
      BY <1>0, <2>1, <2>2, <3>1 DEF HoldsItsPrefix
    <3>2. CASE u # t
      BY <1>0, <2>1, <2>4, <3>2 DEF HoldsItsPrefix
    <3> QED
      BY <3>1, <3>2
  <2> QED
    BY <2>5, <2>6 DEF LockInv
<1>4. CASE UNCHANGED lockVars
  BY <1>0, <1>4 DEF lockVars, LockInv, LockTypeOK, HoldsItsPrefix
<1> QED
  BY <1>1, <1>2, <1>3, <1>4 DEF LockNext, End, Cancel

LEMMA NextIsARow == ASSUME LockInv, NEW t \in Txns, Waiting(t) PROVE NextRow(t) \in Rows
<1> DEFINE L == LockOrder(run[t])
<1>1. L \in Seq(Rows) /\ Len(L) \in Nat /\ got[t] \in Nat /\ got[t] < Len(L)
  BY OrderOf DEF LockInv, LockTypeOK, LockRunsOrNone, Waiting
<1>2. got[t] + 1 \in 1..Len(L)
  BY <1>1
<1> QED
  BY <1>1, <1>2 DEF NextRow

\* Who waits and is waited for holds the project, or one operation and no other row.
LEMMA BlockersHold ==
  ASSUME LockInv, NEW t \in Txns, Waiting(t), got[t] # 0
  PROVE  /\ NextRow(t) \in Rows /\ holder[NextRow(t)] # t
         /\ \/ holder["project"] = t /\ LockOrder(run[t])[1] = "project"
            \/ holder["project"] = t /\ NextRow(t) = "storage"
            \/ /\ \/ run[t].kind = "mark_error" /\ NextRow(t) = "storage"
                  \/ /\ run[t].kind = "retry_operation" /\ NextRow(t) = "project"
                     /\ run[t].op \in failed
               /\ \A r \in Rows : holder[r] = t <=> r = run[t].op
<1> DEFINE L == LockOrder(run[t])
<1>1. /\ run[t] \in LockRuns \cup {NoRun} /\ got[t] \in Nat
      /\ \A r \in Rows : holder[r] = t <=> \E i \in 1..got[t] : L[i] = r
  BY DEF LockInv, LockTypeOK, LockRunsOrNone, HoldsItsPrefix
<1>2. /\ L \in Seq(Rows) /\ Len(L) \in Nat /\ NoRepetition(L)
      /\ \/ Len(L) <= 1
         \/ L[1] = "project"
         \/ /\ run[t].kind = "mark_error" /\ Len(L) = 2
            /\ L[1] = run[t].op /\ L[2] = "storage"
         \/ /\ run[t].kind = "retry_operation" /\ Len(L) = 3
            /\ L[1] = run[t].op /\ L[2] = "project" /\ L[3] = "storage"
  BY <1>1, OrderOf
<1> HIDE DEF L
<1>3. got[t] < Len(L) /\ MayGoOn(t) /\ NextRow(t) = L[got[t] + 1]
  BY DEF Waiting, NextRow, L
<1>4. 1 \in 1..got[t] /\ got[t] + 1 \in 1..Len(L) /\ \A i \in 1..got[t] : i \in 1..Len(L)
  BY <1>1, <1>2, <1>3
<1>5. NextRow(t) \in Rows /\ holder[NextRow(t)] # t
  <2>1. NextRow(t) \in Rows
    BY <1>2, <1>3, <1>4
  <2>2. ASSUME NEW i \in 1..got[t] PROVE L[i] # NextRow(t)
    <3>1. i # got[t] + 1
      BY <1>1
    <3> QED
      BY <1>2, <1>3, <1>4, <3>1 DEF NoRepetition
  <2> QED
    BY <1>1, <2>1, <2>2
<1>6. "project" \in Rows
  BY DEF Rows
<1>7. CASE L[1] = "project"
  BY <1>1, <1>4, <1>5, <1>6, <1>7 DEF L
<1>8. CASE /\ run[t].kind = "mark_error" /\ Len(L) = 2
           /\ L[1] = run[t].op /\ L[2] = "storage"
  <2>1. got[t] = 1
    BY <1>1, <1>3, <1>8
  <2>2. \A r \in Rows : holder[r] = t <=> r = run[t].op
    BY <1>1, <1>8, <2>1
  <2> QED
    BY <1>3, <1>5, <1>8, <2>1, <2>2
<1>9. CASE /\ run[t].kind = "retry_operation" /\ Len(L) = 3
           /\ L[1] = run[t].op /\ L[2] = "project" /\ L[3] = "storage"
  <2>1. CASE got[t] = 1
    <3>1. \A r \in Rows : holder[r] = t <=> r = run[t].op
      BY <1>1, <1>9, <2>1
    <3>2. NextRow(t) = "project" /\ run[t].op \in failed
      BY <1>3, <1>9, <2>1 DEF MayGoOn
    <3> QED
      BY <1>5, <1>9, <3>1, <3>2
  <2>2. CASE got[t] = 2
    <3>1. holder["project"] = t /\ NextRow(t) = "storage"
      BY <1>1, <1>3, <1>6, <1>9, <2>2
    <3> QED
      BY <1>5, <3>1
  <2>3. got[t] \in {1, 2}
    BY <1>1, <1>3, <1>9
  <2> QED
    BY <2>1, <2>2, <2>3
<1> QED
  BY <1>1, <1>2, <1>3, <1>7, <1>8, <1>9

\* Who holds the project and waits for an operation deletes, or writes a success back
\* and has nothing but the project.
LEMMA WaitsForAnOperation ==
  ASSUME LockInv, NEW t \in Txns, Waiting(t), LockOrder(run[t])[1] = "project",
         NextRow(t) \in Ops
  PROVE  \/ run[t].kind \in {"force_delete", "purge_project"}
         \/ /\ NextRow(t) \notin failed
            /\ \A r \in Rows : holder[r] = t <=> r = "project"
<1> DEFINE r == run[t]
           o == r.op
           n == got[t]
<1>1. /\ r \in LockRuns \cup {NoRun} /\ n \in Nat /\ n < Len(LockOrder(r))
      /\ NextRow(t) = LockOrder(r)[n + 1] /\ MayGoOn(t)
      /\ \A x \in Rows : holder[x] = t <=> \E i \in 1..n : LockOrder(r)[i] = x
  BY DEF LockInv, LockTypeOK, LockRunsOrNone, Waiting, NextRow, HoldsItsPrefix
<1>2. NextRow(t) \notin {"project", "storage", "task", "shot"}
  BY OpIsARow
<1>3. r # NoRun
  <2>1. LockOrder(NoRun) = <<>>
    BY DEF LockOrder, NoRun
  <2> QED
    BY <1>1, <2>1
<1>4. CASE r.kind \in {"mark_succeeded", "mark_renumbered"}
  <2> DEFINE x == IF r.kind = "mark_succeeded" THEN "task" ELSE "shot"
  <2>1. LockOrder(r) = <<"project", o, x, "storage">> /\ x \in {"task", "shot"}
    BY <1>4 DEF LockOrder, MarkSucceededLocks, MarkRenumberedLocks
  <2> HIDE DEF x
  <2>2. n = 1 /\ NextRow(t) = o
    <3>1. n \in 0..3
      BY <1>1, <2>1
    <3> QED
      BY <1>1, <1>2, <2>1, <3>1
  <2>3. o \notin failed
    BY <1>1, <1>4, <2>2 DEF MayGoOn, WorkerKinds
  <2>4. \A y \in Rows : holder[y] = t <=> y = "project"
    BY <1>1, <2>1, <2>2
  <2> QED
    BY <2>2, <2>3, <2>4
<1>5. CASE r.kind \in {"mark_error", "renew_lease", "retry_operation"}
  <2>1. o \in Ops /\ LockOrder(r)[1] = o
    BY <1>1, <1>3, <1>5 DEF LockRuns, RequestKinds, LockOrder, MarkErrorLocks,
       RenewLeaseLocks, RetryOperationLocks
  <2> QED
    BY <2>1, OpIsARow
<1>6. CASE r.kind \in {"start_task", "renumber_scene", "retry_project_storage"}
  <2>1. \A i \in 1..Len(LockOrder(r)) :
          LockOrder(r)[i] \in {"project", "storage", "task", "shot"}
    BY <1>6 DEF LockOrder, StartTaskLocks, RenumberSceneLocks, RetryProjectStorageLocks
  <2>2. n + 1 \in 1..Len(LockOrder(r))
    <3>1. Len(LockOrder(r)) \in Nat
      BY <1>1, OrderOf
    <3> QED
      BY <1>1, <3>1
  <2> QED
    BY <1>1, <1>2, <2>1, <2>2
<1>7. r.kind \in {"mark_succeeded", "mark_renumbered", "mark_error", "renew_lease",
                  "retry_operation", "force_delete", "start_task", "renumber_scene",
                  "retry_project_storage", "purge_project"}
  BY <1>1, <1>3 DEF LockRuns, WorkerKinds, RequestKinds
<1> QED
  BY <1>4, <1>5, <1>6, <1>7

LEMMA CirclesAreOfTwo == LockInv => OnlyDeletionsDeadlock
<1> SUFFICES ASSUME LockInv, NEW S \in SUBSET Txns, Circle(S)
             PROVE  \E t, u \in S :
               /\ run[t].kind \in {"force_delete", "purge_project"} /\ holder["project"] = t
               /\ run[u].kind \in {"mark_error", "retry_operation"} /\ NextRow(t) = run[u].op
               /\ WaitsFor(t, u) /\ WaitsFor(u, t)
  BY DEF OnlyDeletionsDeadlock
<1>0. /\ LockTypeOK /\ HoldsItsPrefix
      /\ S # {} /\ \A t \in S : \E u \in S : WaitsFor(t, u)
      /\ \A t \in S : t \in Txns /\ Waiting(t)
  BY DEF LockInv, Circle, WaitsFor
<1>1. ASSUME NEW t \in S, NEW x \in Rows, holder[x] = t PROVE got[t] # 0
  <2>1. got[t] \in Nat /\ \E i \in 1..got[t] : LockOrder(run[t])[i] = x
    BY <1>0, <1>1 DEF LockTypeOK, HoldsItsPrefix
  <2> QED
    BY <2>1
\* Of the waiting transactions only the holder of the project can have the storage.
<1>2. ASSUME NEW t \in S, holder["storage"] = t PROVE holder["project"] = t
  <2>1. got[t] # 0
    BY <1>1, <1>2 DEF Rows
  <2>2. "storage" \in Rows /\ "storage" \notin Ops
    BY LockAssumption DEF Rows
  <2>3. run[t].op = "storage" => run[t] \notin LockRuns \cup {NoRun}
    BY <2>2, LockAssumption DEF LockRuns, NoRun
  <2>4. t \in Txns /\ Waiting(t) /\ run[t] \in LockRuns \cup {NoRun}
    BY <1>0 DEF LockTypeOK, LockRunsOrNone
  <2> QED
    BY <1>2, <2>1, <2>2, <2>3, <2>4, BlockersHold
<1>3. \E t \in S : holder["project"] = t
  <2>1. PICK s \in S, t \in S : WaitsFor(s, t)
    BY <1>0
  <2>2. PICK u \in S : WaitsFor(t, u)
    BY <1>0
  <2>3. holder[NextRow(t)] = u
    BY <2>2 DEF WaitsFor
  <2>4. CASE got[t] = 0
    \* What nobody holds is not waited for.
    <3>1. t \in Txns /\ holder[NextRow(s)] = t
      BY <1>0, <2>1 DEF WaitsFor
    <3>2. NextRow(s) \in Rows
      BY <1>0, NextIsARow
    <3> QED
      BY <1>1, <2>4, <3>1, <3>2
  <2>5. CASE got[t] # 0
    BY <1>0, <1>2, <2>3, <2>5, BlockersHold
  <2> QED
    BY <2>4, <2>5
<1>4. PICK d \in S : holder["project"] = d
  BY <1>3
<1>5. PICK v \in S : WaitsFor(d, v)
  BY <1>0
<1>6. PICK w \in S : WaitsFor(v, w)
  BY <1>0
<1>7. holder[NextRow(d)] = v /\ holder[NextRow(v)] = w
  BY <1>5, <1>6 DEF WaitsFor
<1>8. NextRow(d) \in Rows /\ "project" \in Rows /\ got[d] # 0 /\ v # d
  <2>1. "project" \in Rows
    BY DEF Rows
  <2>2. got[d] # 0
    BY <1>1, <1>4, <2>1
  <2> QED
    BY <1>0, <1>7, <2>1, <2>2, BlockersHold
<1>9. got[v] # 0 /\ holder["project"] # v
  BY <1>1, <1>4, <1>7, <1>8
<1>10. /\ NextRow(d) = run[v].op
       /\ \A r \in Rows : holder[r] = v <=> r = run[v].op
       /\ \/ run[v].kind = "mark_error" /\ NextRow(v) = "storage"
          \/ /\ run[v].kind = "retry_operation" /\ NextRow(v) = "project"
             /\ run[v].op \in failed
  BY <1>0, <1>7, <1>8, <1>9, BlockersHold
\* It is for the deletion that the other one waits.
<1>11. w = d
  BY <1>2, <1>4, <1>7, <1>10
<1>12. run[v].op \in Ops
  <2>1. run[v] \in LockRuns \cup {NoRun}
    BY <1>0 DEF LockTypeOK, LockRunsOrNone
  <2> QED
    BY <1>10, <2>1 DEF LockRuns, NoRun, RequestKinds
<1>13. LockOrder(run[d])[1] = "project"
  <2>1. "storage" \notin Ops
    BY LockAssumption
  <2> QED
    BY <1>0, <1>8, <1>9, <1>10, <1>12, <2>1, BlockersHold
<1>14. run[d].kind \in {"force_delete", "purge_project"}
  <2>1. CASE /\ NextRow(d) \notin failed
             /\ \A r \in Rows : holder[r] = d <=> r = "project"
    <3>1. NextRow(v) = "storage"
      BY <1>10, <2>1
    <3>2. "storage" \in Rows /\ holder["storage"] = d
      BY <1>7, <1>11, <3>1 DEF Rows
    <3> QED
      BY <2>1, <3>2
  <2> QED
    BY <1>0, <1>10, <1>12, <1>13, <2>1, WaitsForAnOperation
<1> QED
  BY <1>4, <1>5, <1>6, <1>10, <1>11, <1>14

\* However many transactions of the directory outbox run at once, on whatever
\* operations: only a deletion and the error write-back or the manual retry of
\* an operation can block each other.  mark_succeeded (storage_operation_dao.py)
\* never has to be cancelled by PostgreSQL because of a request.
THEOREM DeadlocksAreKnown == LockSpec => []OnlyDeletionsDeadlock
<1> QED
  BY LockInitInv, LockStepInv, CirclesAreOfTwo, PTL DEF LockSpec

-----------------------------------------------------------------------------
(* The application leader.                                                 *)

\* The shutdown takes away, one after the other, what could start the scheduler
\* or a job again: the loop, wherever the cancellation meets it, the scheduler,
\* the jobs.  What the loop has set before it is cancelled goes away later.
ShutdownIsFinal ==
  \A p \in Procs :
    /\ main[p] \in {"stopping", "draining", "closed"} => race[p] \in {"none", "cut"}
    /\ main[p] \in {"draining", "closed"} => ~scheduler[p] /\ race[p] = "none"
    /\ main[p] = "closed" => ~job[p] /\ ~isLeader[p] /\ lock # p

LeaderInv == LeaderTypeOK /\ LeadersAreWatched /\ ShutdownIsFinal

-----------------------------------------------------------------------------
\* The counter of mishaps stays within its bound.
LEMMA MishapsStart == 0 \in 0..MaxMishaps
  BY LeaderAssumption
LEMMA MishapsCounted ==
  ASSUME mishaps \in 0..MaxMishaps, mishaps < MaxMishaps, mishaps' = mishaps + 1
  PROVE  mishaps' \in 0..MaxMishaps
  BY LeaderAssumption

LEMMA LeaderInitInv == LeaderInit => LeaderInv
  BY LeaderAssumption, MishapsStart
     DEF LeaderInit, LeaderInv, LeaderTypeOK, LeadersAreWatched, ShutdownIsFinal

\* The actions that set most at a time, as to the types alone.
LEMMA LossTypes ==
  ASSUME LeaderTypeOK, NEW p \in Procs, LoseLeadership(p), mishaps' \in 0..MaxMishaps
  PROVE  LeaderTypeOK'
<1>1. renewal' \in [Procs -> BOOLEAN]
  BY DEF LeaderTypeOK, LoseLeadership, Set
<1>2. isLeader' \in [Procs -> BOOLEAN] /\ lossTask' \in [Procs -> {"none", "stop", "drain"}]
  <2>1. CASE isLeader[p]
    BY <2>1 DEF LeaderTypeOK, LoseLeadership, Set
  <2>2. CASE ~isLeader[p]
    BY <2>2 DEF LeaderTypeOK, LoseLeadership, Set
  <2> QED
    BY <2>1, <2>2
<1> QED
  BY <1>1, <1>2 DEF LeaderTypeOK, LoseLeadership

LEMMA InitTypes ==
  ASSUME LeaderTypeOK, NEW p \in Procs, InitScheduler(p), Acquirable(p)
  PROVE  LeaderTypeOK'
<1>1. isLeader' \in [Procs -> BOOLEAN] /\ renewal' \in [Procs -> BOOLEAN]
  BY DEF LeaderTypeOK, InitScheduler, Set, StartRenewal
<1>2. scheduler' \in [Procs -> BOOLEAN] /\ lock' \in Procs \cup {Free, Ghost}
  BY DEF LeaderTypeOK, InitScheduler, Set
<1>3. main' \in [Procs -> {"new", "booting", "loading", "releasing", "failed", "serving",
                          "closing", "stopping", "draining", "closed"}]
  BY DEF LeaderTypeOK, InitScheduler, Set
<1> QED
  BY <1>1, <1>2, <1>3 DEF LeaderTypeOK, InitScheduler

LEMMA ActivationTypes ==
  ASSUME LeaderTypeOK, NEW p \in Procs, LoopActivates(p)
  PROVE  LeaderTypeOK'
<1>1. CASE scheduler[p]
  <2>1. isLeader' \in [Procs -> BOOLEAN] /\ renewal' \in [Procs -> BOOLEAN]
    BY <1>1 DEF LeaderTypeOK, LoopActivates, Set
  <2>2. race' \in [Procs -> {"none", "sleeping", "won", "loading", "releasing", "cut"}]
    BY <1>1 DEF LeaderTypeOK, LoopActivates, Set
  <2> QED
    BY <1>1, <2>1, <2>2 DEF LeaderTypeOK, LoopActivates
<1>2. CASE ~scheduler[p]
  <2>1. isLeader' \in [Procs -> BOOLEAN] /\ renewal' \in [Procs -> BOOLEAN]
    BY <1>2 DEF LeaderTypeOK, LoopActivates, Set, StartRenewal
  <2>2. scheduler' \in [Procs -> BOOLEAN]
    BY <1>2 DEF LeaderTypeOK, LoopActivates, Set
  <2>3. race' \in [Procs -> {"none", "sleeping", "won", "loading", "releasing", "cut"}]
    BY <1>2 DEF LeaderTypeOK, LoopActivates, Set
  <2> QED
    BY <1>2, <2>1, <2>2, <2>3 DEF LeaderTypeOK, LoopActivates
<1> QED
  BY <1>1, <1>2

LEMMA StartKeepsInv ==
  ASSUME LeaderInv, NEW p \in Procs,
         \/ EarlyAcquire(p) \/ InitScheduler(p) \/ BootLoaded(p) \/ BootLoadFails(p)
         \/ BootReleases(p)
  PROVE  LeaderInv'
<1> USE LeaderAssumption
    DEF LeaderInv, LeaderTypeOK, LeadersAreWatched, ShutdownIsFinal, Set, StartRenewal,
        LockWithout
<1>1. CASE EarlyAcquire(p)
  <2>1. CASE Acquirable(p)
    <3>1. LeaderTypeOK'
      BY <1>1, <2>1 DEF EarlyAcquire
    <3>2. LeadersAreWatched'
      BY <1>1, <2>1 DEF EarlyAcquire
    <3>3. ShutdownIsFinal'
      BY <1>1, <2>1 DEF EarlyAcquire
    <3> QED
      BY <3>1, <3>2, <3>3
  <2>2. CASE ~Acquirable(p)
    BY <1>1, <2>2 DEF EarlyAcquire
  <2> QED
    BY <2>1, <2>2
<1>2. CASE InitScheduler(p)
  <2>1. CASE Acquirable(p)
    <3>1. LeaderTypeOK'
      BY <1>2, <2>1, InitTypes
    <3>2. LeadersAreWatched'
      BY <1>2, <2>1 DEF InitScheduler
    <3>3. ShutdownIsFinal'
      BY <1>2, <2>1 DEF InitScheduler
    <3> QED
      BY <3>1, <3>2, <3>3
  <2>2. CASE ~Acquirable(p)
    BY <1>2, <2>2 DEF InitScheduler
  <2> QED
    BY <2>1, <2>2
<1>3. CASE BootLoaded(p)
  BY <1>3 DEF BootLoaded
<1>4. CASE BootLoadFails(p)
  BY <1>4, MishapsCounted DEF BootLoadFails
<1>5. CASE BootReleases(p)
  BY <1>5 DEF BootReleases
<1> QED
  BY <1>1, <1>2, <1>3, <1>4, <1>5

LEMMA LossKeepsInv ==
  ASSUME LeaderInv, NEW p \in Procs,
         RenewalRefused(p) \/ RenewalRaises(p) \/ LossStopsScheduler(p) \/ LossCompetesAgain(p)
  PROVE  LeaderInv'
<1> USE LeaderAssumption
    DEF LeaderInv, LeaderTypeOK, LeadersAreWatched, ShutdownIsFinal, Set, LoseLeadership
<1>1. CASE RenewalRefused(p)
  <2>1. CASE isLeader[p]
    <3>1. LeaderTypeOK'
      BY <1>1, LossTypes DEF RenewalRefused
    <3>2. LeadersAreWatched'
      BY <1>1, <2>1 DEF RenewalRefused
    <3>3. ShutdownIsFinal'
      BY <1>1, <2>1 DEF RenewalRefused
    <3> QED
      BY <3>1, <3>2, <3>3
  <2>2. CASE ~isLeader[p]
    BY <1>1, <2>2 DEF RenewalRefused
  <2> QED
    BY <2>1, <2>2
<1>2. CASE RenewalRaises(p)
  <2>1. CASE isLeader[p]
    <3>1. LeaderTypeOK'
      BY <1>2, LossTypes, MishapsCounted DEF RenewalRaises
    <3>2. LeadersAreWatched'
      BY <1>2, <2>1 DEF RenewalRaises
    <3>3. ShutdownIsFinal'
      BY <1>2, <2>1 DEF RenewalRaises
    <3> QED
      BY <3>1, <3>2, <3>3
  <2>2. CASE ~isLeader[p]
    BY <1>2, <2>2, MishapsCounted DEF RenewalRaises
  <2> QED
    BY <2>1, <2>2
<1>3. CASE LossStopsScheduler(p)
  BY <1>3 DEF LossStopsScheduler
<1>4. CASE LossCompetesAgain(p)
  BY <1>4 DEF LossCompetesAgain, Drained, IsClosing
<1> QED
  BY <1>1, <1>2, <1>3, <1>4

LEMMA RaceKeepsInv ==
  ASSUME LeaderInv, NEW p \in Procs,
         \/ AskForLock(p) \/ LoopActivates(p) \/ LoopLoaded(p) \/ LoopLoadFails(p)
         \/ LoopReleases(p)
  PROVE  LeaderInv'
<1> USE LeaderAssumption
    DEF LeaderInv, LeaderTypeOK, LeadersAreWatched, ShutdownIsFinal, Set, StartRenewal,
        LockWithout
<1>1. CASE AskForLock(p)
  BY <1>1 DEF AskForLock
<1>2. CASE LoopActivates(p)
  <2>1. CASE scheduler[p]
    <3>1. LeaderTypeOK'
      BY <1>2, ActivationTypes DEF LeaderInv
    <3>2. LeadersAreWatched'
      BY <1>2, <2>1 DEF LoopActivates
    <3>3. ShutdownIsFinal'
      BY <1>2, <2>1 DEF LoopActivates
    <3> QED
      BY <3>1, <3>2, <3>3
  <2>2. CASE ~scheduler[p]
    <3>1. LeaderTypeOK'
      BY <1>2, ActivationTypes DEF LeaderInv
    <3>2. LeadersAreWatched'
      BY <1>2, <2>2 DEF LoopActivates
    <3>3. ShutdownIsFinal'
      BY <1>2, <2>2 DEF LoopActivates
    <3> QED
      BY <3>1, <3>2, <3>3
  <2> QED
    BY <2>1, <2>2
<1>3. CASE LoopLoaded(p)
  BY <1>3 DEF LoopLoaded
<1>4. CASE LoopLoadFails(p)
  BY <1>4, MishapsCounted DEF LoopLoadFails
<1>5. CASE LoopReleases(p)
  BY <1>5 DEF LoopReleases, IsClosing
<1> QED
  BY <1>1, <1>2, <1>3, <1>4, <1>5

LEMMA EndKeepsInv ==
  ASSUME LeaderInv, NEW p \in Procs,
         \/ JobStarts(p) \/ JobEnds(p) \/ BeginClose(p) \/ CancelLoop(p)
         \/ CloseStopsScheduler(p) \/ CloseReleases(p) \/ Die(p)
  PROVE  LeaderInv'
<1> USE LeaderAssumption
    DEF LeaderInv, LeaderTypeOK, LeadersAreWatched, ShutdownIsFinal, Set, LockWithout
<1>1. CASE JobStarts(p)
  BY <1>1 DEF JobStarts
<1>2. CASE JobEnds(p)
  BY <1>2 DEF JobEnds
<1>3. CASE BeginClose(p)
  <2>1. CASE renewal[p]
    BY <1>3, <2>1 DEF BeginClose
  <2>2. CASE ~renewal[p]
    BY <1>3, <2>2 DEF BeginClose
  <2> QED
    BY <2>1, <2>2
<1>7. CASE CancelLoop(p)
  BY <1>7 DEF CancelLoop
<1>4. CASE CloseStopsScheduler(p)
  BY <1>4 DEF CloseStopsScheduler
<1>5. CASE CloseReleases(p)
  BY <1>5 DEF CloseReleases, Drained
<1>6. CASE Die(p)
  BY <1>6, MishapsCounted DEF Die
<1> QED
  BY <1>1, <1>2, <1>3, <1>4, <1>5, <1>6, <1>7

LEMMA ExpiryKeepsInv == LeaderInv /\ LockExpires => LeaderInv'
  BY LeaderAssumption, MishapsCounted
     DEF LockExpires, LeaderInv, LeaderTypeOK, LeadersAreWatched, ShutdownIsFinal

LEMMA LeaderStepInv == LeaderInv /\ [LeaderNext]_leaderVars => LeaderInv'
<1> SUFFICES ASSUME LeaderInv, [LeaderNext]_leaderVars
             PROVE  LeaderInv'
  OBVIOUS
<1>1. ASSUME NEW p \in Procs,
             \/ TaskStep(p) \/ BootLoadFails(p) \/ RenewalRaises(p) \/ LoopLoadFails(p)
             \/ BeginClose(p) \/ Die(p)
      PROVE  LeaderInv'
  BY <1>1, StartKeepsInv, LossKeepsInv, RaceKeepsInv, EndKeepsInv DEF TaskStep
<1>2. CASE LockExpires
  BY <1>2, ExpiryKeepsInv
<1>3. CASE UNCHANGED leaderVars
  BY <1>3 DEF leaderVars, LeaderInv, LeaderTypeOK, LeadersAreWatched, ShutdownIsFinal
<1> QED
  BY <1>1, <1>2, <1>3 DEF LeaderNext

-----------------------------------------------------------------------------
\* The inductive invariant holds of every behaviour.
LEMMA LeaderInvariant == LeaderSpec => []LeaderInv
  BY LeaderInitInv, LeaderStepInv, PTL DEF LeaderSpec

\* The key, the flags and the tasks of the processes have the values of the code.
THEOREM LeaderTypes == LeaderSpec => []LeaderTypeOK
<1>1. LeaderInv => LeaderTypeOK
  BY DEF LeaderInv
<1> QED
  BY <1>1, LeaderInvariant, PTL

\* Whatever starts, fails, is lost or is won back, in any number of processes:
\* who calls itself leader has a renewal task that finds out when it is not.
THEOREM LeadersWatched == LeaderSpec => []LeadersAreWatched
<1>1. LeaderInv => LeadersAreWatched
  BY DEF LeaderInv
<1> QED
  BY <1>1, LeaderInvariant, PTL

\* When close_system_scheduler has returned, the process has no job, scheduler or
\* loop any more, is no leader and does not own the key, although the loop may
\* have won the key, or made the process leader again, while it was closing.
THEOREM ClosedDrained == LeaderSpec => []ClosedMeansDrained
<1>1. LeaderInv => ClosedMeansDrained
  BY DEF LeaderInv, ShutdownIsFinal, ClosedMeansDrained
<1> QED
  BY <1>1, LeaderInvariant, PTL

\* For any number of processes: a leader is watched, and a closed process holds
\* nothing and runs nothing.
THEOREM LeadersHaveLetGo == LeaderSpec => []LeadersLetGo
<1>1. LeadersAreWatched /\ ClosedMeansDrained => LeadersLetGo
  BY DEF LeadersLetGo
<1> QED
  BY <1>1, LeadersWatched, ClosedDrained, PTL

-----------------------------------------------------------------------------
\* A process that calls itself leader does not compete and handles no loss; one
\* that competes has ended its jobs, and a winner has handled the loss as well.
DrainedBeforeStart ==
  \A p \in Procs :
    /\ main[p] \in {"new", "booting"} =>
         ~job[p] /\ ~isLeader[p] /\ race[p] = "none" /\ lossTask[p] = "none"
    /\ race[p] # "none" => ~job[p]
    /\ race[p] = "won" => lossTask[p] = "none"
    /\ isLeader[p] => lossTask[p] = "none" /\ race[p] \in {"none", "loading", "cut"}
-----------------------------------------------------------------------------
\* What each task does to that: it touches the flags of its own process only.
LEMMA TasksStayDrained ==
  ASSUME LeaderInv, DrainedBeforeStart, NEW p \in Procs, TaskStep(p)
  PROVE  DrainedBeforeStart'
<1> USE DEF DrainedBeforeStart, LeaderInv, LeaderTypeOK, Set
<1>1. CASE EarlyAcquire(p)
  BY <1>1 DEF EarlyAcquire
<1>2. CASE InitScheduler(p)
  <2>1. CASE Acquirable(p)
    BY <1>2, <2>1 DEF InitScheduler
  <2>2. CASE ~Acquirable(p)
    BY <1>2, <2>2 DEF InitScheduler
  <2> QED
    BY <2>1, <2>2
<1>3. CASE BootLoaded(p)
  BY <1>3 DEF BootLoaded
<1>4. CASE RenewalRefused(p)
  BY <1>4 DEF RenewalRefused, LoseLeadership
<1>5. CASE LossStopsScheduler(p)
  BY <1>5 DEF LossStopsScheduler
<1>6. CASE LossCompetesAgain(p)
  BY <1>6 DEF LossCompetesAgain, Drained
<1>7. CASE AskForLock(p)
  BY <1>7 DEF AskForLock, SleptEnough
<1>8. CASE LoopActivates(p)
  <2>1. CASE scheduler[p]
    BY <1>8, <2>1 DEF LoopActivates
  <2>2. CASE ~scheduler[p]
    BY <1>8, <2>2 DEF LoopActivates
  <2> QED
    BY <2>1, <2>2
<1>9. CASE LoopLoaded(p)
  BY <1>9 DEF LoopLoaded
<1>10. CASE JobStarts(p)
  BY <1>10 DEF JobStarts, Loading
<1>11. CASE JobEnds(p)
  BY <1>11 DEF JobEnds
<1>12. CASE CloseStopsScheduler(p)
  BY <1>12 DEF CloseStopsScheduler
<1>13. CASE CloseReleases(p)
  BY <1>13 DEF CloseReleases
<1>14. CASE BootReleases(p)
  BY <1>14 DEF BootReleases
<1>15. CASE LoopReleases(p)
  BY <1>15 DEF LoopReleases
<1>16. CASE CancelLoop(p)
  BY <1>16 DEF CancelLoop
<1> QED
  BY <1>1, <1>2, <1>3, <1>4, <1>5, <1>6, <1>7, <1>8, <1>9, <1>10, <1>11, <1>12, <1>13,
     <1>14, <1>15, <1>16 DEF TaskStep

LEMMA MishapsStayDrained ==
  ASSUME LeaderInv, DrainedBeforeStart, NEW p \in Procs,
         \/ BootLoadFails(p) \/ RenewalRaises(p) \/ LoopLoadFails(p)
         \/ BeginClose(p) \/ Die(p)
  PROVE  DrainedBeforeStart'
<1> USE DEF DrainedBeforeStart, LeaderInv, LeaderTypeOK, Set
<1>1. CASE BootLoadFails(p)
  BY <1>1 DEF BootLoadFails
<1>2. CASE RenewalRaises(p)
  BY <1>2 DEF RenewalRaises, LoseLeadership
<1>3. CASE LoopLoadFails(p)
  BY <1>3 DEF LoopLoadFails
<1>4. CASE BeginClose(p)
  BY <1>4 DEF BeginClose
<1>5. CASE Die(p)
  BY <1>5 DEF Die
<1> QED
  BY <1>1, <1>2, <1>3, <1>4, <1>5

LEMMA DrainedStep == LeaderInv /\ DrainedBeforeStart /\ [LeaderNext]_leaderVars
                       => DrainedBeforeStart'
<1> SUFFICES ASSUME LeaderInv, DrainedBeforeStart, [LeaderNext]_leaderVars
             PROVE  DrainedBeforeStart'
  OBVIOUS
<1>1. ASSUME NEW p \in Procs,
             \/ TaskStep(p) \/ BootLoadFails(p) \/ RenewalRaises(p) \/ LoopLoadFails(p)
             \/ BeginClose(p) \/ Die(p)
      PROVE  DrainedBeforeStart'
  BY <1>1, TasksStayDrained, MishapsStayDrained
<1>2. CASE LockExpires
  BY <1>2 DEF LockExpires, DrainedBeforeStart
<1>3. CASE UNCHANGED leaderVars
  BY <1>3 DEF leaderVars, DrainedBeforeStart
<1> QED
  BY <1>1, <1>2, <1>3 DEF LeaderNext

\* Only two steps start a scheduler, and neither of them finds a job at work.
LEMMA OnlyDrainedStart ==
  ASSUME LeaderInv, DrainedBeforeStart, LeaderNext,
         NEW q \in Procs, ~scheduler[q], scheduler'[q]
  PROVE  ~job[q]
<1> USE DEF LeaderInv, LeaderTypeOK, Set
<1>1. ASSUME NEW p \in Procs, TaskStep(p)
      PROVE  ~job[q]
  <2>1. CASE InitScheduler(p)
    BY <2>1 DEF InitScheduler, DrainedBeforeStart
  <2>2. CASE LoopActivates(p)
    BY <2>2 DEF LoopActivates, DrainedBeforeStart
  <2>3. CASE \/ EarlyAcquire(p) \/ BootLoaded(p) \/ RenewalRefused(p)
             \/ LossCompetesAgain(p) \/ AskForLock(p) \/ LoopLoaded(p) \/ BootReleases(p)
             \/ LoopReleases(p) \/ JobStarts(p) \/ JobEnds(p) \/ CancelLoop(p)
             \/ CloseReleases(p)
    BY <2>3 DEF EarlyAcquire, BootLoaded, RenewalRefused, LoseLeadership, BootReleases,
                LossCompetesAgain, AskForLock, LoopLoaded, LoopReleases, JobStarts,
                JobEnds, CancelLoop, CloseReleases
  <2>4. CASE LossStopsScheduler(p) \/ CloseStopsScheduler(p)
    BY <2>4 DEF LossStopsScheduler, CloseStopsScheduler
  <2> QED
    BY <1>1, <2>1, <2>2, <2>3, <2>4 DEF TaskStep
<1>2. ASSUME NEW p \in Procs,
             \/ BootLoadFails(p) \/ RenewalRaises(p) \/ LoopLoadFails(p)
             \/ BeginClose(p) \/ Die(p)
      PROVE  ~job[q]
  BY <1>2 DEF BootLoadFails, RenewalRaises, LoseLeadership, LoopLoadFails, BeginClose, Die
<1>3. CASE LockExpires
  BY <1>3 DEF LockExpires
<1> QED
  BY <1>1, <1>2, <1>3 DEF LeaderNext

\* Whatever a process has lost, won back or been told to start: the job it was
\* running as the former leader has ended when its scheduler starts.
THEOREM StartsDrained == LeaderSpec => SchedulerStartsDrained
<1>1. LeaderInit => DrainedBeforeStart
  BY DEF LeaderInit, DrainedBeforeStart
<1>2. LeaderInv /\ DrainedBeforeStart /\ [LeaderNext]_leaderVars
        => [\A p \in Procs : ~scheduler[p] /\ scheduler'[p] => ~job[p]]_leaderVars
  BY OnlyDrainedStart
<1> QED
  BY <1>1, <1>2, DrainedStep, LeaderInvariant, PTL DEF LeaderSpec, SchedulerStartsDrained

-----------------------------------------------------------------------------
(* The audit log stream.                                                   *)

\* Nobody has to store the event any more: it is stored, or its key was lost.
Accounted(e) == rows[e] > 0 \/ e \in forsaken

RestingConsumers ==
  \A c \in Consumers : /\ consumer[c].pc = "wait" => consumer[c] = Reading
                       /\ consumer[c].pc = "ack" => consumer[c].todo = {}
\* A key belongs to one consumer at most.
KeysAreExclusive ==
  \A c, d \in Consumers : \A e \in consumer[c].held : e \in consumer[d].held => c = d
\* A held event is stored exactly when its consumer has committed.
HeldStored ==
  \A c \in Consumers : \A e \in consumer[c].held :
    IF consumer[c].pc = "ack" THEN rows[e] > 0 ELSE rows[e] = 0 \/ e \in uncertain
StoredIsKeyed == \A e \in Events : rows[e] > 0 => e \in dedup \/ e \in uncertain

\* What a consumer works on is delivered to it, unless it was claimed from it.
Delivered(c, m) ==
  \/ Accounted(EventOf[m])
  \/ message[m].status = "pending" /\ message[m].consumer = c
BatchIsDelivered ==
  \A c \in Consumers :
    /\ \A m \in consumer[c].todo : Delivered(c, m)
    /\ \A m \in consumer[c].done :
         Delivered(c, m) \/ (message[m].status = "acked" /\ consumer[c].pc = "release")

\* Behind the key of an event that is not stored there is a consumer at work on
\* a message that has not been acknowledged.
Carries(c, m, e) ==
  /\ m \in consumer[c].done /\ e \in consumer[c].held
  /\ EventOf[m] = e /\ message[m].status = "pending" /\ message[m].consumer = c
KeysAreCarried ==
  \A e \in dedup : Accounted(e) \/ \E c \in Consumers, m \in Messages : Carries(c, m, e)

\* An event that is not stored has a message left whose handling would store
\* it: nobody has put it aside as a duplicate.
Hope(m, e) ==
  /\ EventOf[m] = e /\ message[m].status # "acked"
  /\ \A c \in Consumers : m \in consumer[c].done => e \in consumer[c].held
EventsHaveHope ==
  \A e \in Events :
    (\E m \in Messages : EventOf[m] = e) => Accounted(e) \/ \E m \in Messages : Hope(m, e)

KeyInv == KeysAreExclusive /\ HeldStored /\ StoredIsKeyed /\ StoredAtMostOnce
DeliveryInv == RestingConsumers /\ BatchIsDelivered /\ KeysAreCarried /\ EventsHaveHope
LogInv == LogTypeOK /\ KeyInv /\ DeliveryInv
-----------------------------------------------------------------------------
LEMMA FirstInBatch ==
  ASSUME LogTypeOK, NEW c \in Consumers, consumer[c].todo # {}
  PROVE  First(c) \in consumer[c].todo
<1> DEFINE T == consumer[c].todo
<1>1. T \subseteq Nat
  BY DEF LogTypeOK, Messages
<1>2. PICK m \in T : \A n \in T : ~(<<n, m>> \in OpToRel(<, Nat))
  BY <1>1, NatLessThanWellFounded, WFMin
<1>3. ASSUME NEW n \in T PROVE m <= n
  <2>1. m \in Nat /\ n \in Nat
    BY <1>1
  <2>2. n < m => <<n, m>> \in OpToRel(<, Nat)
    <3>1. <<n, m>>[1] = n /\ <<n, m>>[2] = m /\ <<n, m>> \in Nat \X Nat
      BY <2>1
    <3> QED
      BY <3>1, Zenon DEF OpToRel
  <2>3. ~(n < m)
    BY <1>2, <2>2
  <2> QED
    BY <2>1, <2>3
<1> QED
  BY <1>3 DEF First

LEMMA LogInitInv == LogInit => LogInv
<1> SUFFICES ASSUME LogInit PROVE LogInv
  OBVIOUS
<1>1. LogTypeOK
  BY DEF LogInit, LogTypeOK, Reading
<1>2. KeyInv
  BY DEF LogInit, Reading, KeyInv, KeysAreExclusive, HeldStored, StoredIsKeyed, StoredAtMostOnce
<1>3. RestingConsumers /\ BatchIsDelivered /\ KeysAreCarried
  BY DEF LogInit, Reading, RestingConsumers, BatchIsDelivered, KeysAreCarried
<1>4. EventsHaveHope
  BY DEF LogInit, Reading, EventsHaveHope, Hope
<1> QED
  BY <1>1, <1>2, <1>3, <1>4 DEF LogInv, DeliveryInv

\* The effect of a step on one consumer and on the rest.
LEMMA ReadingFields ==
  Reading.pc = "wait" /\ Reading.todo = {} /\ Reading.held = {} /\ Reading.done = {}
  BY DEF Reading

LEMMA LogTypeStep == LogTypeOK /\ KeysAreExclusive /\ [LogNext]_logVars => LogTypeOK'
<1> SUFFICES ASSUME LogTypeOK, KeysAreExclusive, [LogNext]_logVars PROVE LogTypeOK'
  OBVIOUS
<1> DEFINE MessageRecord == [status : {"unsent", "new", "pending", "acked"},
                             consumer : Consumers \cup {Nobody}, idle : BOOLEAN]
           ConsumerRecord == [pc : {"wait", "work", "ack", "release"},
                              todo : SUBSET Messages, held : SUBSET Events,
                              done : SUBSET Messages]
<1>0. /\ message \in [Messages -> MessageRecord] /\ consumer \in [Consumers -> ConsumerRecord]
      /\ rows \in [Events -> Nat] /\ refused \subseteq Events /\ dedup \subseteq Events
      /\ \A c \in Consumers : consumer[c].held \subseteq dedup
      /\ \A m \in Messages : EventOf[m] \in Events
  BY LogAssumption DEF LogTypeOK
<1>1. Reading \in ConsumerRecord /\ Reading.held = {}
  BY DEF Reading
<1>2. ASSUME NEW m \in Messages, SendEvent(m) \/ GoesIdle(m) PROVE LogTypeOK'
  <2>1. message' \in [Messages -> MessageRecord]
    <3>1. CASE message' = [message EXCEPT ![m].status = "new"]
      BY <1>0, <3>1
    <3>2. CASE message' = [message EXCEPT ![m].idle = TRUE]
      BY <1>0, <3>2
    <3> QED
      BY <1>2, <3>1, <3>2 DEF SendEvent, GoesIdle
  <2> QED
    BY <1>0, <1>2, <2>1 DEF SendEvent, GoesIdle, LogTypeOK
<1>3. ASSUME NEW c \in Consumers, NEW batch \in SUBSET Messages
      PROVE  /\ Deliver(c, batch) => message' \in [Messages -> MessageRecord]
             /\ StartBatch(c, batch) => /\ consumer' \in [Consumers -> ConsumerRecord]
                                        /\ \A d \in Consumers : consumer'[d].held \subseteq dedup
  <2>1. Deliver(c, batch) => message' \in [Messages -> MessageRecord]
    BY <1>0 DEF Deliver
  <2>2. [Reading EXCEPT !.pc = "work", !.todo = batch] \in ConsumerRecord
        /\ [Reading EXCEPT !.pc = "work", !.todo = batch].held = {}
    BY DEF Reading
  <2>3. StartBatch(c, batch) => /\ consumer' \in [Consumers -> ConsumerRecord]
                                \* nothing is held yet
                                /\ \A d \in Consumers : consumer'[d].held \subseteq dedup
    <3> DEFINE x == [Reading EXCEPT !.pc = "work", !.todo = batch]
    <3> SUFFICES ASSUME consumer' = [consumer EXCEPT ![c] = x]
                 PROVE  /\ consumer' \in [Consumers -> ConsumerRecord]
                        /\ \A d \in Consumers : consumer'[d].held \subseteq dedup
      BY DEF StartBatch
    <3>1. x \in ConsumerRecord /\ x.held = {}
      BY <2>2
    <3> HIDE DEF x
    <3> QED
      BY <1>0, <3>1
  <2> QED
    BY <2>1, <2>3
<1>4. ASSUME NEW c \in Consumers, Read(c) \/ ClaimIdle(c) PROVE LogTypeOK'
  <2>1. Batch(New) \subseteq Messages /\ Batch(Claimable) \subseteq Messages
    BY DEF Batch, New, Claimable
  <2>2. CASE Read(c)
    BY <1>0, <1>3, <2>1, <2>2 DEF Read, LogTypeOK
  <2>3. CASE ClaimIdle(c)
    BY <1>0, <1>3, <2>1, <2>3 DEF ClaimIdle, LogTypeOK
  <2> QED
    BY <1>4, <2>2, <2>3
<1>5. ASSUME NEW c \in Consumers, NEW x \in ConsumerRecord,
             consumer' = [consumer EXCEPT ![c] = x], x.held \subseteq dedup',
             dedup' \subseteq Events,
             \A d \in Consumers \ {c} : consumer[d].held \subseteq dedup',
             message' \in [Messages -> MessageRecord], rows' \in [Events -> Nat],
             refused' = refused
      PROVE  LogTypeOK'
  BY <1>0, <1>5 DEF LogTypeOK
<1>6. ASSUME NEW c \in Consumers, Take(c) PROVE LogTypeOK'
  <2> DEFINE m == First(c)
             e == EventOf[m]
             x == IF Acquired(e)
                  THEN [consumer[c] EXCEPT !.pc = IF e \in refused THEN "release" ELSE "work",
                          !.todo = @ \ {m}, !.done = @ \cup {m}, !.held = @ \cup {e}]
                  ELSE [consumer[c] EXCEPT !.todo = @ \ {m}, !.done = @ \cup {m}]
  <2>1. m \in Messages /\ e \in Events
    BY <1>0, <1>6, FirstInBatch DEF Take
  <2>2. x \in ConsumerRecord /\ consumer[c].held \subseteq dedup
    BY <1>0, <2>1
  <2>3. /\ consumer' = [consumer EXCEPT ![c] = x]
        /\ dedup' = (IF Acquired(e) THEN dedup \cup {e} ELSE dedup)
        /\ UNCHANGED <<message, rows, refused>>
    BY <1>0, <1>6 DEF Take
  <2>4. x.held \subseteq dedup'
    BY <1>0, <2>2, <2>3
  <2> HIDE DEF x
  <2> QED
    BY <1>0, <1>5, <2>1, <2>2, <2>3, <2>4
<1>7. ASSUME NEW c \in Consumers, NEW pc \in {"ack", "release"},
             consumer' = [consumer EXCEPT ![c].pc = pc], dedup \subseteq dedup',
             dedup' \subseteq Events, refused' = refused,
             message' \in [Messages -> MessageRecord], rows' \in [Events -> Nat]
      PROVE  LogTypeOK'
  <2> DEFINE x == [consumer[c] EXCEPT !.pc = pc]
  <2>1. x \in ConsumerRecord /\ x.held = consumer[c].held
    BY <1>0
  <2>2. consumer' = [consumer EXCEPT ![c] = x]
    BY <1>0, <1>7
  <2> HIDE DEF x
  <2> QED
    BY <1>0, <1>5, <1>7, <2>1, <2>2
<1>8. ASSUME NEW c \in Consumers
      PROVE  /\ Stored(c) \in [Events -> Nat]
             /\ Acknowledged(c) \in [Messages -> MessageRecord]
  BY <1>0 DEF Stored, Acknowledged
<1>9. ASSUME NEW c \in Consumers, TakeFails(c) PROVE LogTypeOK'
  <2>1. dedup \subseteq dedup' /\ dedup' \subseteq Events
    BY <1>0, <1>9, FirstInBatch DEF TakeFails
  <2> QED
    BY <1>0, <1>7, <1>9, <2>1 DEF TakeFails
<1>10. ASSUME NEW c \in Consumers, Commit(c) \/ CommitFails(c) PROVE LogTypeOK'
  BY <1>0, <1>7, <1>8, <1>10 DEF Commit, CommitFails
<1>11. ASSUME NEW c \in Consumers, Ack(c) PROVE LogTypeOK'
  BY <1>0, <1>1, <1>5, <1>8, <1>11 DEF Ack
<1>12. ASSUME NEW c \in Consumers, AckFails(c) PROVE LogTypeOK'
  BY <1>0, <1>7, <1>8, <1>12 DEF AckFails
<1>13. ASSUME NEW c \in Consumers, Release(c) \/ ReleaseFails(c) PROVE LogTypeOK'
  BY <1>0, <1>1, <1>5, <1>13 DEF Release, ReleaseFails, KeysWithout, KeysAreExclusive
<1>14. ASSUME NEW c \in Consumers, ConsumerDies(c) PROVE LogTypeOK'
  BY <1>0, <1>1, <1>5, <1>14 DEF ConsumerDies
<1>15. ASSUME NEW e \in Events, KeyExpires(e) PROVE LogTypeOK'
  BY <1>0, <1>15 DEF KeyExpires, LogTypeOK
<1>16. CASE UNCHANGED logVars
  BY <1>0, <1>16 DEF logVars, LogTypeOK
<1> QED
  BY <1>2, <1>4, <1>6, <1>9, <1>10, <1>11, <1>12, <1>13, <1>14, <1>15, <1>16
  DEF LogNext, ConsumerStep, ConsumerFault

\* What the changes of a consumer come to.
LEMMA ConsumerChanges ==
  ASSUME LogTypeOK, NEW c \in Consumers
  PROVE  /\ consumer' = [consumer EXCEPT ![c] = Reading] =>
              /\ consumer'[c] = Reading
              /\ \A d \in Consumers \ {c} : consumer'[d] = consumer[d]
         /\ \A pc : consumer' = [consumer EXCEPT ![c].pc = pc] =>
              /\ consumer'[c].pc = pc /\ consumer'[c].held = consumer[c].held
              /\ consumer'[c].todo = consumer[c].todo /\ consumer'[c].done = consumer[c].done
              /\ \A d \in Consumers \ {c} : consumer'[d] = consumer[d]
         /\ \A batch : StartBatch(c, batch) =>
              /\ consumer'[c].pc = "work" /\ consumer'[c].held = {}
              /\ consumer'[c].todo = batch /\ consumer'[c].done = {}
              /\ \A d \in Consumers \ {c} : consumer'[d] = consumer[d]
<1>1. ASSUME NEW x, consumer' = [consumer EXCEPT ![c] = x]
      PROVE  consumer'[c] = x /\ \A d \in Consumers \ {c} : consumer'[d] = consumer[d]
  BY <1>1 DEF LogTypeOK
<1>2. ASSUME NEW pc, consumer' = [consumer EXCEPT ![c].pc = pc]
      PROVE  /\ consumer'[c].pc = pc /\ consumer'[c].held = consumer[c].held
             /\ consumer'[c].todo = consumer[c].todo /\ consumer'[c].done = consumer[c].done
             /\ \A d \in Consumers \ {c} : consumer'[d] = consumer[d]
  BY <1>2 DEF LogTypeOK
<1>3. ASSUME NEW batch, StartBatch(c, batch)
      PROVE  /\ consumer'[c].pc = "work" /\ consumer'[c].held = {}
             /\ consumer'[c].todo = batch /\ consumer'[c].done = {}
             /\ \A d \in Consumers \ {c} : consumer'[d] = consumer[d]
  BY <1>3 DEF StartBatch, Reading, LogTypeOK
<1> QED
  BY <1>1, <1>2, <1>3

\* One message of a batch: the event is new, and its key is taken.
Acquires(c) ==
  /\ EventOf[First(c)] \notin dedup /\ dedup' = dedup \cup {EventOf[First(c)]}
  /\ consumer'[c].held = consumer[c].held \cup {EventOf[First(c)]}
  /\ consumer'[c].pc \in {"work", "release"}
\* Or it has its key, and the message is put aside.
PutsAside(c) ==
  /\ EventOf[First(c)] \in dedup /\ dedup' = dedup
  /\ consumer'[c].held = consumer[c].held /\ consumer'[c].pc = "work"

LEMMA TakeEffect ==
  ASSUME LogTypeOK, NEW c \in Consumers, Take(c)
  PROVE  /\ First(c) \in consumer[c].todo /\ First(c) \in Messages
         /\ EventOf[First(c)] \in Events
         /\ consumer[c].pc = "work" /\ UNCHANGED <<message, rows, forsaken, uncertain>>
         /\ \A d \in Consumers \ {c} : consumer'[d] = consumer[d]
         /\ consumer'[c].todo = consumer[c].todo \ {First(c)}
         /\ consumer'[c].done = consumer[c].done \cup {First(c)}
         /\ Acquires(c) \/ PutsAside(c)
<1> DEFINE m == First(c)
           e == EventOf[m]
<1>1. m \in consumer[c].todo /\ m \in Messages /\ e \in Events
  BY FirstInBatch, LogAssumption DEF Take, LogTypeOK
<1>2. consumer[c].pc = "work" /\ UNCHANGED <<message, rows, forsaken, uncertain>>
  BY DEF Take, Doing, logHistory
<1>3. CASE Acquired(e)
  <2> DEFINE pc == IF e \in refused THEN "release" ELSE "work"
             x == [consumer[c] EXCEPT !.pc = pc, !.todo = @ \ {m}, !.done = @ \cup {m},
                                      !.held = @ \cup {e}]
  <2>1. /\ x.pc \in {"work", "release"} /\ x.todo = consumer[c].todo \ {m}
        /\ x.done = consumer[c].done \cup {m} /\ x.held = consumer[c].held \cup {e}
    BY DEF LogTypeOK
  <2>2. consumer' = [consumer EXCEPT ![c] = x] /\ dedup' = dedup \cup {e}
    BY <1>3 DEF Take, LogTypeOK
  <2> HIDE DEF x
  <2>3. consumer'[c] = x /\ \A d \in Consumers \ {c} : consumer'[d] = consumer[d]
    BY <2>2 DEF LogTypeOK
  <2> QED
    BY <1>1, <1>2, <1>3, <2>1, <2>2, <2>3 DEF Acquires, Acquired
<1>4. CASE ~Acquired(e)
  <2> DEFINE x == [consumer[c] EXCEPT !.todo = @ \ {m}, !.done = @ \cup {m}]
  <2>1. /\ x.pc = consumer[c].pc /\ x.todo = consumer[c].todo \ {m}
        /\ x.done = consumer[c].done \cup {m} /\ x.held = consumer[c].held
    BY DEF LogTypeOK
  <2>2. consumer' = [consumer EXCEPT ![c] = x] /\ dedup' = dedup
    BY <1>4 DEF Take, LogTypeOK
  <2> HIDE DEF x
  <2>3. consumer'[c] = x /\ \A d \in Consumers \ {c} : consumer'[d] = consumer[d]
    BY <2>2 DEF LogTypeOK
  <2> QED
    BY <1>1, <1>2, <1>4, <2>1, <2>2, <2>3 DEF PutsAside, Acquired
<1> QED
  BY <1>3, <1>4

LEMMA KeyStep ==
  LogTypeOK /\ KeyInv /\ RestingConsumers /\ [LogNext]_logVars => KeyInv'
<1> SUFFICES ASSUME LogTypeOK, KeyInv, RestingConsumers, [LogNext]_logVars PROVE KeyInv'
  OBVIOUS
<1>0. /\ \A c \in Consumers : consumer[c].held \subseteq dedup /\ consumer[c].held \subseteq Events
      /\ dedup \subseteq Events /\ rows \in [Events -> Nat]
      /\ KeysAreExclusive /\ HeldStored /\ StoredIsKeyed /\ StoredAtMostOnce
  BY DEF LogTypeOK, KeyInv
<1> USE DEF KeyInv
\* Keys, rows and what is held stay: only idle consumers start a batch.
<1>1. ASSUME UNCHANGED <<dedup, rows, uncertain>>,
             \A c \in Consumers : consumer'[c] = consumer[c] \/ consumer'[c].held = {}
      PROVE  KeyInv'
  BY <1>0, <1>1 DEF KeysAreExclusive, HeldStored, StoredIsKeyed, StoredAtMostOnce
<1>2. CASE \E m \in Messages : SendEvent(m) \/ GoesIdle(m)
  BY <1>1, <1>2 DEF SendEvent, GoesIdle, logHistory
<1>3. ASSUME NEW c \in Consumers, Read(c) \/ ClaimIdle(c) PROVE KeyInv'
  BY <1>1, <1>3, ConsumerChanges DEF Read, ClaimIdle, logHistory
<1>4. ASSUME NEW c \in Consumers, Take(c) PROVE KeyInv'
  <2>1. CASE Acquires(c)
    <3> DEFINE e == EventOf[First(c)]
    <3>1. rows[e] = 0 \/ e \in uncertain
      BY <1>0, <1>4, <2>1, TakeEffect DEF Acquires, StoredIsKeyed
    <3>2. KeysAreExclusive'
      BY <1>0, <1>4, <2>1, TakeEffect DEF Acquires, KeysAreExclusive
    <3>3. HeldStored'
      BY <1>0, <1>4, <2>1, <3>1, TakeEffect DEF Acquires, HeldStored
    <3> QED
      BY <1>0, <1>4, <2>1, <3>2, <3>3, TakeEffect DEF Acquires, StoredIsKeyed, StoredAtMostOnce
  <2>2. CASE PutsAside(c)
    BY <1>0, <1>4, <2>2, TakeEffect
    DEF PutsAside, KeysAreExclusive, HeldStored, StoredIsKeyed, StoredAtMostOnce
  <2> QED
    BY <1>4, <2>1, <2>2, TakeEffect
<1>5. ASSUME NEW c \in Consumers, TakeFails(c) PROVE KeyInv'
  <2>1. /\ dedup \subseteq dedup' /\ UNCHANGED <<rows, uncertain>>
        /\ consumer[c].pc = "work" /\ consumer' = [consumer EXCEPT ![c].pc = "release"]
    BY <1>5 DEF TakeFails, Doing
  <2> QED
    BY <1>0, <2>1, ConsumerChanges
    DEF KeysAreExclusive, HeldStored, StoredIsKeyed, StoredAtMostOnce
<1>6. ASSUME NEW c \in Consumers, rows' = Stored(c), consumer[c].pc = "work", dedup' = dedup,
             \/ consumer' = [consumer EXCEPT ![c].pc = "ack"] /\ uncertain' = uncertain
             \/ /\ consumer' = [consumer EXCEPT ![c].pc = "release"]
                /\ uncertain' = uncertain \cup consumer[c].held
      PROVE  KeyInv'
  <2>1. \A e \in Events : rows'[e] = IF e \in consumer[c].held THEN rows[e] + 1 ELSE rows[e]
    BY <1>6 DEF Stored
  <2>2. \A e \in Events : rows[e] \in Nat /\ rows'[e] >= rows[e]
                          /\ (e \in consumer[c].held => rows'[e] > 0)
    BY <1>0, <2>1
  <2>3. \A e \in consumer[c].held : rows[e] = 0 \/ e \in uncertain
    BY <1>0, <1>6 DEF HeldStored
  <2>4. consumer'[c].held = consumer[c].held
        /\ \A d \in Consumers \ {c} : consumer'[d] = consumer[d]
    BY <1>6, ConsumerChanges
  <2>5. KeysAreExclusive'
    BY <1>0, <2>4 DEF KeysAreExclusive
  <2>6. HeldStored'
    <3> SUFFICES ASSUME NEW d \in Consumers, NEW e \in consumer'[d].held
                 PROVE  IF consumer'[d].pc = "ack" THEN rows'[e] > 0
                        ELSE rows'[e] = 0 \/ e \in uncertain'
      BY DEF HeldStored
    <3>1. CASE d = c
      BY <1>0, <1>6, <2>2, <2>4, <3>1, ConsumerChanges
    <3>2. CASE d # c
      <4>1. e \in consumer[d].held /\ e \notin consumer[c].held /\ consumer'[d] = consumer[d]
        BY <1>0, <2>4, <3>2 DEF KeysAreExclusive
      <4>2. rows'[e] = rows[e]
        BY <1>0, <2>1, <4>1
      <4> QED
        BY <1>0, <1>6, <4>1, <4>2 DEF HeldStored
    <3> QED
      BY <3>1, <3>2
  <2>7. StoredIsKeyed'
    <3> SUFFICES ASSUME NEW e \in Events, rows'[e] > 0 PROVE e \in dedup \/ e \in uncertain'
      BY <1>6 DEF StoredIsKeyed
    <3>1. e \in consumer[c].held \/ rows[e] > 0
      BY <2>1
    <3> QED
      BY <1>0, <1>6, <3>1 DEF StoredIsKeyed
  <2>8. StoredAtMostOnce'
    <3> SUFFICES ASSUME NEW e \in Events, e \notin uncertain' PROVE rows'[e] <= 1
      BY DEF StoredAtMostOnce
    <3>1. e \notin uncertain
      BY <1>6
    <3>2. rows[e] \in Nat /\ rows[e] <= 1
      BY <1>0, <3>1 DEF StoredAtMostOnce
    <3>3. e \in consumer[c].held => rows[e] = 0
      BY <2>3, <3>1
    <3> QED
      BY <2>1, <3>2, <3>3
  <2> QED
    BY <2>5, <2>6, <2>7, <2>8
<1>7. ASSUME NEW c \in Consumers, Commit(c) PROVE KeyInv'
  BY <1>6, <1>7 DEF Commit, Ready, Doing, logHistory
<1>8. ASSUME NEW c \in Consumers, CommitFails(c) PROVE KeyInv'
  <2>1. CASE rows' = Stored(c) /\ uncertain' = uncertain \cup consumer[c].held
    BY <1>6, <1>8, <2>1 DEF CommitFails, Ready, Doing
  <2>2. CASE UNCHANGED <<rows, uncertain>>
    <3>1. consumer[c].pc = "work" /\ consumer' = [consumer EXCEPT ![c].pc = "release"]
          /\ dedup' = dedup
      BY <1>8 DEF CommitFails, Ready, Doing
    <3> QED
      BY <1>0, <2>2, <3>1, ConsumerChanges
      DEF KeysAreExclusive, HeldStored, StoredIsKeyed, StoredAtMostOnce
  <2> QED
    BY <1>8, <2>1, <2>2 DEF CommitFails
<1>9. ASSUME NEW c \in Consumers, Ack(c) \/ ConsumerDies(c) PROVE KeyInv'
  BY <1>1, <1>9, ConsumerChanges, ReadingFields DEF Ack, ConsumerDies, logHistory
<1>10. ASSUME NEW c \in Consumers, AckFails(c) PROVE KeyInv'
  <2>1. /\ UNCHANGED <<dedup, rows>> /\ uncertain' = uncertain \cup consumer[c].held
        /\ consumer' = [consumer EXCEPT ![c].pc = "release"]
    BY <1>10 DEF AckFails
  <2> QED
    BY <1>0, <2>1, ConsumerChanges
    DEF KeysAreExclusive, HeldStored, StoredIsKeyed, StoredAtMostOnce
<1>11. ASSUME NEW c \in Consumers, Release(c) \/ ReleaseFails(c) PROVE KeyInv'
  <2>1. /\ consumer[c].pc = "release" /\ consumer' = [consumer EXCEPT ![c] = Reading]
        /\ UNCHANGED <<rows, uncertain>>
        /\ \A e \in dedup : e \in dedup' \/ e \in consumer[c].held
    BY <1>11 DEF Release, ReleaseFails, KeysWithout, Doing, logHistory
  <2>2. \A e \in consumer[c].held : rows[e] = 0 \/ e \in uncertain
    BY <1>0, <2>1 DEF HeldStored
  <2>3. StoredIsKeyed'
    BY <1>0, <2>1, <2>2 DEF StoredIsKeyed
  <2> QED
    BY <1>0, <2>1, <2>3, ConsumerChanges, ReadingFields
    DEF KeysAreExclusive, HeldStored, StoredAtMostOnce
<1>12. ASSUME NEW e \in Events, KeyExpires(e) PROVE KeyInv'
  BY <1>0, <1>12
  DEF KeyExpires, KeysAreExclusive, HeldStored, StoredIsKeyed, StoredAtMostOnce
<1>13. CASE UNCHANGED logVars
  BY <1>1, <1>13 DEF logVars
<1> QED
  BY <1>2, <1>3, <1>4, <1>5, <1>7, <1>8, <1>9, <1>10, <1>11, <1>12, <1>13
  DEF LogNext, ConsumerStep, ConsumerFault

\* What the changes of the messages come to.
LEMMA MessageChanges ==
  ASSUME LogTypeOK, NEW c \in Consumers
  PROVE  /\ \A batch \in SUBSET Messages : Deliver(c, batch) =>
              /\ \A m \in batch : message'[m].status = "pending" /\ message'[m].consumer = c
              /\ \A m \in Messages \ batch : message'[m] = message[m]
         /\ message' = Acknowledged(c) =>
              /\ \A m \in consumer[c].done : m \in Messages => message'[m].status = "acked"
              /\ \A m \in Messages : m \notin consumer[c].done => message'[m] = message[m]
  BY DEF Deliver, Acknowledged

LEMMA AccountedStays ==
  ASSUME LogTypeOK, [LogNext]_logVars, NEW e \in Events, Accounted(e)
  PROVE  Accounted(e)'
<1>0. rows \in [Events -> Nat]
  BY DEF LogTypeOK
<1>1. ASSUME NEW c \in Consumers, rows' = Stored(c) PROVE rows[e] > 0 => rows'[e] > 0
  BY <1>0, <1>1 DEF Stored
<1>2. forsaken \subseteq forsaken'
  BY DEF LogNext, ConsumerStep, ConsumerFault, SendEvent, GoesIdle, Read, ClaimIdle, Take, TakeFails,
         Commit, CommitFails, Ack, AckFails, Release, ReleaseFails, ConsumerDies, KeyExpires,
         logHistory, logVars
<1>3. rows' = rows \/ \E c \in Consumers : rows' = Stored(c)
  BY DEF LogNext, ConsumerStep, ConsumerFault, SendEvent, GoesIdle, Read, ClaimIdle, Take, TakeFails,
         Commit, CommitFails, Ack, AckFails, Release, ReleaseFails, ConsumerDies, KeyExpires,
         logVars
<1> QED
  BY <1>1, <1>2, <1>3 DEF Accounted

\* Steps that change no consumer, no key and no status of a message.
LEMMA QuietDelivery ==
  ASSUME LogTypeOK, DeliveryInv, [LogNext]_logVars, UNCHANGED consumer, dedup' \subseteq dedup,
         \A m \in Messages : \/ message'[m].status = message[m].status
                                /\ message'[m].consumer = message[m].consumer
                             \/ message[m].status = "unsent" /\ message'[m].status = "new"
  PROVE  DeliveryInv'
<1>0. /\ RestingConsumers /\ BatchIsDelivered /\ KeysAreCarried /\ EventsHaveHope
      /\ dedup \subseteq Events /\ \A m \in Messages : EventOf[m] \in Events
      /\ \A c \in Consumers : consumer[c].todo \subseteq Messages /\ consumer[c].done \subseteq Messages
  BY LogAssumption DEF DeliveryInv, LogTypeOK
<1>1. \A e \in Events : Accounted(e) => Accounted(e)'
  BY AccountedStays
<1>2. RestingConsumers'
  BY <1>0 DEF RestingConsumers
<1>3. \A c \in Consumers, m \in Messages : Delivered(c, m) => Delivered(c, m)'
  BY <1>0, <1>1 DEF Delivered
<1>4. BatchIsDelivered'
  BY <1>0, <1>3 DEF BatchIsDelivered
<1>5. KeysAreCarried'
  <2> SUFFICES ASSUME NEW e \in dedup', ~Accounted(e)'
               PROVE  \E c \in Consumers, m \in Messages : Carries(c, m, e)'
    BY DEF KeysAreCarried
  <2>1. PICK c \in Consumers, m \in Messages : Carries(c, m, e)
    BY <1>0, <1>1 DEF KeysAreCarried
  <2> QED
    BY <2>1 DEF Carries
<1>6. EventsHaveHope'
  <2> SUFFICES ASSUME NEW e \in Events, \E m \in Messages : EventOf[m] = e, ~Accounted(e)'
               PROVE  \E m \in Messages : Hope(m, e)'
    BY DEF EventsHaveHope
  <2>1. PICK m \in Messages : Hope(m, e)
    BY <1>0, <1>1 DEF EventsHaveHope
  <2> QED
    BY <2>1 DEF Hope
<1> QED
  BY <1>2, <1>4, <1>5, <1>6 DEF DeliveryInv

\* A consumer gets a batch of messages that are new, or that nobody worked on
\* lately; taking them from somebody who works on them loses their events.
LEMMA BatchDelivery ==
  ASSUME LogTypeOK, DeliveryInv, [LogNext]_logVars, NEW c \in Consumers,
         NEW batch \in SUBSET Messages, consumer[c].pc = "wait",
         Deliver(c, batch), StartBatch(c, batch) \/ UNCHANGED consumer, UNCHANGED dedup,
         \A m \in batch : \/ message[m].status = "new"
                          \/ /\ message[m].status = "pending"
                             /\ BeingWorkedOn(m) => Accounted(EventOf[m])'
  PROVE  DeliveryInv'
<1>0. /\ RestingConsumers /\ BatchIsDelivered /\ KeysAreCarried /\ EventsHaveHope
      /\ dedup \subseteq Events /\ \A m \in Messages : EventOf[m] \in Events
      /\ \A d \in Consumers : consumer[d].todo \subseteq Messages /\ consumer[d].done \subseteq Messages
  BY LogAssumption DEF DeliveryInv, LogTypeOK
<1>1. \A e \in Events : Accounted(e) => Accounted(e)'
  BY AccountedStays
<1>2. /\ consumer[c] = Reading
      /\ \A d \in Consumers \ {c} : consumer'[d] = consumer[d]
      /\ consumer'[c].held = {} /\ consumer'[c].done = {}
      /\ consumer'[c].todo \subseteq batch
      /\ consumer'[c].pc # "ack" /\ (consumer'[c].pc = "wait" => consumer'[c] = Reading)
  BY <1>0, ConsumerChanges, ReadingFields DEF RestingConsumers
<1>3. /\ \A m \in batch : message'[m].status = "pending" /\ message'[m].consumer = c
      /\ \A m \in Messages \ batch : message'[m] = message[m]
  BY MessageChanges
<1>4. ASSUME NEW d \in Consumers \ {c}, NEW m \in consumer[d].todo \cup consumer[d].done,
             ~Accounted(EventOf[m])'
      PROVE  message'[m] = message[m]
  <2>1. m \in Messages /\ ~Accounted(EventOf[m])
    BY <1>0, <1>1, <1>4
  <2>2. \/ message[m].status = "pending" /\ message[m].consumer = d
        \/ message[m].status = "acked"
    BY <1>0, <1>4, <2>1 DEF BatchIsDelivered, Delivered
  <2>3. m \notin batch
    BY <1>4, <2>2 DEF BeingWorkedOn
  <2> QED
    BY <1>3, <2>1, <2>3
<1>5. RestingConsumers'
  BY <1>0, <1>2 DEF RestingConsumers
<1>6. BatchIsDelivered'
  <2>1. ASSUME NEW d \in Consumers \ {c}, NEW m \in consumer[d].todo \cup consumer[d].done
        PROVE  Delivered(d, m) => Delivered(d, m)'
    BY <1>0, <1>1, <1>4, <2>1 DEF Delivered
  <2>2. ASSUME NEW d \in Consumers \ {c}, NEW m \in consumer[d].done,
               ~Delivered(d, m)', message[m].status = "acked"
        PROVE  message'[m].status = "acked"
    BY <1>4, <2>2 DEF Delivered
  <2>3. \A m \in consumer'[c].todo : Delivered(c, m)'
    BY <1>2, <1>3 DEF Delivered
  <2> QED
    BY <1>0, <1>2, <2>1, <2>2, <2>3 DEF BatchIsDelivered
<1>7. KeysAreCarried'
  <2> SUFFICES ASSUME NEW e \in dedup, ~Accounted(e)'
               PROVE  \E d \in Consumers, m \in Messages : Carries(d, m, e)'
    BY DEF KeysAreCarried
  <2>1. PICK d \in Consumers, m \in Messages : Carries(d, m, e)
    BY <1>0, <1>1 DEF KeysAreCarried
  <2>2. d # c
    BY <1>2, <2>1, ReadingFields DEF Carries
  <2> QED
    BY <1>2, <1>4, <2>1, <2>2 DEF Carries
<1>8. EventsHaveHope'
  <2> SUFFICES ASSUME NEW e \in Events, \E m \in Messages : EventOf[m] = e, ~Accounted(e)'
               PROVE  \E m \in Messages : Hope(m, e)'
    BY DEF EventsHaveHope
  <2>1. PICK m \in Messages : Hope(m, e)
    BY <1>0, <1>1 DEF EventsHaveHope
  <2>2. message'[m].status # "acked"
    BY <1>3, <2>1 DEF Hope
  <2> QED
    BY <1>2, <2>1, <2>2 DEF Hope
<1> QED
  BY <1>5, <1>6, <1>7, <1>8 DEF DeliveryInv

\* A batch goes on: a message is kept as the one that stores its event, or put
\* aside because somebody else carries the event.
LEMMA TakeDelivery ==
  ASSUME LogTypeOK, DeliveryInv, [LogNext]_logVars, NEW c \in Consumers, Take(c)
  PROVE  DeliveryInv'
<1>n. PICK n : n = First(c)
  OBVIOUS
<1> DEFINE k == EventOf[n]
<1>0. /\ RestingConsumers /\ BatchIsDelivered /\ KeysAreCarried /\ EventsHaveHope
      /\ dedup \subseteq Events /\ \A m \in Messages : EventOf[m] \in Events
      /\ \A d \in Consumers : consumer[d].todo \subseteq Messages /\ consumer[d].done \subseteq Messages
  BY LogAssumption DEF DeliveryInv, LogTypeOK
<1>1. \A e \in Events : Accounted(e)' <=> Accounted(e)
  BY TakeEffect DEF Accounted
<1>2. /\ n \in consumer[c].todo /\ n \in Messages /\ k \in Events
      /\ consumer[c].pc = "work" /\ message' = message
      /\ \A d \in Consumers \ {c} : consumer'[d] = consumer[d]
      /\ consumer'[c].todo = consumer[c].todo \ {n}
      /\ consumer'[c].done = consumer[c].done \cup {n}
      /\ consumer[c].held \subseteq consumer'[c].held
      /\ consumer'[c].pc \in {"work", "release"}
      /\ dedup' \subseteq dedup \cup {k}
      /\ k \notin dedup => k \in consumer'[c].held
  BY <1>n, TakeEffect DEF Acquires, PutsAside
<1>3. \A d \in Consumers, m \in Messages : Delivered(d, m)' <=> Delivered(d, m)
  BY <1>0, <1>1, <1>2 DEF Delivered
<1>4. RestingConsumers'
  BY <1>0, <1>2 DEF RestingConsumers
<1>5. Delivered(c, n)
  BY <1>0, <1>2 DEF BatchIsDelivered
<1>6. BatchIsDelivered'
  <2> SUFFICES ASSUME NEW d \in Consumers
               PROVE  /\ \A m \in consumer'[d].todo : Delivered(d, m)'
                      /\ \A m \in consumer'[d].done : Delivered(d, m)'
                           \/ (message'[m].status = "acked" /\ consumer'[d].pc = "release")
    BY DEF BatchIsDelivered
  <2>1. CASE d # c
    BY <1>0, <1>2, <1>3, <2>1 DEF BatchIsDelivered
  <2>2. CASE d = c
    BY <1>0, <1>2, <1>3, <1>5, <2>2 DEF BatchIsDelivered
  <2> QED
    BY <2>1, <2>2
<1>7. ASSUME NEW e \in dedup, ~Accounted(e)
      PROVE  \E d \in Consumers, m \in Messages : Carries(d, m, e) /\ Carries(d, m, e)'
  <2>1. PICK d \in Consumers, m \in Messages : Carries(d, m, e)
    BY <1>0, <1>7 DEF KeysAreCarried
  <2>2. Carries(d, m, e)'
    BY <1>2, <2>1 DEF Carries
  <2> QED
    BY <2>1, <2>2
<1>8. KeysAreCarried'
  <2> SUFFICES ASSUME NEW e \in dedup', ~Accounted(e)'
               PROVE  \E d \in Consumers, m \in Messages : Carries(d, m, e)'
    BY DEF KeysAreCarried
  <2>1. CASE e \in dedup
    BY <1>0, <1>1, <1>7, <2>1
  <2>2. CASE e \notin dedup
    <3>1. e = k /\ ~Accounted(k)
      BY <1>1, <1>2, <2>2
    <3>2. Carries(c, n, e)'
      BY <1>2, <1>5, <2>2, <3>1 DEF Carries, Delivered
    <3> QED
      BY <1>2, <3>2
  <2> QED
    BY <2>1, <2>2
<1>9. EventsHaveHope'
  <2> SUFFICES ASSUME NEW e \in Events, \E m \in Messages : EventOf[m] = e, ~Accounted(e)'
               PROVE  \E m \in Messages : Hope(m, e)'
    BY DEF EventsHaveHope
  <2>0. ~Accounted(e)
    BY <1>1
  <2>1. PICK m \in Messages : Hope(m, e)
    BY <1>0, <2>0 DEF EventsHaveHope
  <2>2. CASE m # n \/ e \in consumer'[c].held
    BY <1>2, <2>1, <2>2 DEF Hope
  <2>3. CASE m = n /\ e \notin consumer'[c].held
    <3>1. e = k /\ e \in dedup
      BY <1>2, <2>1, <2>3 DEF Hope
    <3>2. PICK d \in Consumers, o \in Messages : Carries(d, o, e) /\ Carries(d, o, e)'
      BY <1>7, <2>0, <3>1
    <3>3. d # c
      BY <2>3, <3>2 DEF Carries
    <3>4. o # n
      BY <1>2, <1>5, <2>0, <3>1, <3>2, <3>3 DEF Carries, Delivered
    <3>5. ASSUME NEW x \in Consumers, o \in consumer'[x].done PROVE x = d
      <4>1. o \in consumer[x].done
        BY <1>2, <3>4, <3>5
      <4>2. EventOf[o] = e /\ message[o].status = "pending" /\ message[o].consumer = d
        BY <3>2 DEF Carries
      <4> QED
        BY <1>0, <2>0, <4>1, <4>2 DEF BatchIsDelivered, Delivered
    <3> QED
      BY <3>2, <3>5 DEF Hope, Carries
  <2> QED
    BY <2>2, <2>3
<1> QED
  BY <1>4, <1>6, <1>8, <1>9 DEF DeliveryInv

\* A consumer at work goes on to its acknowledgement or to the rollback, and
\* the acknowledgement, when it is made, is one of events that are stored.
LEMMA PhaseDelivery ==
  ASSUME LogTypeOK, KeyInv, DeliveryInv, [LogNext]_logVars, NEW c \in Consumers,
         NEW pc \in {"ack", "release"}, consumer' = [consumer EXCEPT ![c].pc = pc],
         \A e \in dedup' : e \in dedup \/ Accounted(e)',
         pc = "ack" => consumer[c].todo = {},
         \/ consumer[c].pc = "work" /\ message' = message
         \/ /\ consumer[c].pc = "ack" /\ pc = "release"
            /\ message' = message \/ message' = Acknowledged(c)
  PROVE  DeliveryInv'
<1>0. /\ RestingConsumers /\ BatchIsDelivered /\ KeysAreCarried /\ EventsHaveHope /\ HeldStored
      /\ dedup \subseteq Events /\ \A m \in Messages : EventOf[m] \in Events
      /\ \A d \in Consumers : /\ consumer[d].todo \subseteq Messages
                              /\ consumer[d].done \subseteq Messages
                              /\ consumer[d].held \subseteq Events
  BY LogAssumption DEF DeliveryInv, KeyInv, LogTypeOK
<1>1. \A e \in Events : Accounted(e) => Accounted(e)'
  BY AccountedStays
<1>2. /\ \A d \in Consumers : /\ consumer'[d].held = consumer[d].held
                              /\ consumer'[d].todo = consumer[d].todo
                              /\ consumer'[d].done = consumer[d].done
      /\ \A d \in Consumers \ {c} : consumer'[d] = consumer[d]
      /\ consumer'[c].pc = pc
  BY ConsumerChanges
<1>3. RestingConsumers'
  BY <1>0, <1>2 DEF RestingConsumers
\* What this step acknowledges is not in anybody else's hands unaccounted for.
<1>4. ASSUME NEW m \in Messages, message'[m] # message[m]
      PROVE  /\ message'[m].status = "acked" /\ consumer[c].pc = "ack" /\ pc = "release"
             /\ m \in consumer[c].done
             /\ Accounted(EventOf[m]) \/ (message[m].status = "pending" /\ message[m].consumer = c)
  <2>1. /\ message' = Acknowledged(c) /\ consumer[c].pc = "ack" /\ pc = "release"
    BY <1>4
  <2>2. m \in consumer[c].done /\ message'[m].status = "acked"
    BY <1>4, <2>1, MessageChanges
  <2> QED
    BY <1>0, <2>1, <2>2 DEF BatchIsDelivered, Delivered
<1>5. ASSUME NEW d \in Consumers, NEW m \in Messages, Delivered(d, m), ~Delivered(d, m)'
      PROVE  message'[m].status = "acked" /\ d = c /\ pc = "release"
  BY <1>0, <1>1, <1>4, <1>5 DEF Delivered
<1>6. BatchIsDelivered'
  <2> SUFFICES ASSUME NEW d \in Consumers
               PROVE  /\ \A m \in consumer'[d].todo : Delivered(d, m)'
                      /\ \A m \in consumer'[d].done : Delivered(d, m)'
                           \/ (message'[m].status = "acked" /\ consumer'[d].pc = "release")
    BY DEF BatchIsDelivered
  <2>1. ASSUME NEW m \in consumer[d].todo PROVE Delivered(d, m)'
    <3>1. m \in Messages /\ Delivered(d, m)
      BY <1>0, <2>1 DEF BatchIsDelivered
    <3>2. ~(consumer[d].pc = "ack" /\ d = c)
      BY <1>0, <2>1 DEF RestingConsumers
    <3>3. CASE message'[m] = message[m]
      BY <1>1, <1>0, <3>1, <3>3 DEF Delivered
    <3>4. CASE message'[m] # message[m]
      BY <1>4, <1>5, <3>1, <3>2, <3>4
    <3> QED
      BY <3>3, <3>4
  <2>2. ASSUME NEW m \in consumer[d].done, ~Delivered(d, m)'
        PROVE  message'[m].status = "acked" /\ consumer'[d].pc = "release"
    <3>1. CASE Delivered(d, m)
      BY <1>0, <1>2, <1>5, <2>2, <3>1
    <3>2. CASE ~Delivered(d, m)
      <4>1. message[m].status = "acked" /\ consumer[d].pc = "release"
        BY <1>0, <2>2, <3>2 DEF BatchIsDelivered
      <4> QED
        BY <1>0, <1>2, <1>4, <2>2, <4>1
    <3> QED
      BY <3>1, <3>2
  <2> QED
    BY <1>2, <2>1, <2>2
<1>7. KeysAreCarried'
  <2> SUFFICES ASSUME NEW e \in dedup', ~Accounted(e)'
               PROVE  \E d \in Consumers, m \in Messages : Carries(d, m, e)'
    BY DEF KeysAreCarried
  <2>1. e \in dedup /\ ~Accounted(e)
    BY <1>0, <1>1
  <2>2. PICK d \in Consumers, m \in Messages : Carries(d, m, e)
    BY <1>0, <2>1 DEF KeysAreCarried
  <2>3. consumer[d].pc # "ack"
    BY <1>0, <2>1, <2>2 DEF HeldStored, Carries, Accounted
  <2>4. message'[m] = message[m]
    BY <1>4, <2>1, <2>2, <2>3 DEF Carries
  <2> QED
    BY <1>2, <2>2, <2>4 DEF Carries
<1>8. EventsHaveHope'
  <2> SUFFICES ASSUME NEW e \in Events, \E m \in Messages : EventOf[m] = e, ~Accounted(e)'
               PROVE  \E m \in Messages : Hope(m, e)'
    BY DEF EventsHaveHope
  <2>1. ~Accounted(e)
    BY <1>1
  <2>2. PICK m \in Messages : Hope(m, e)
    BY <1>0, <2>1 DEF EventsHaveHope
  <2>3. message'[m] = message[m]
    <3> SUFFICES ASSUME message'[m] # message[m] PROVE FALSE
      OBVIOUS
    <3>1. e \in consumer[c].held /\ consumer[c].pc = "ack"
      BY <1>4, <2>2 DEF Hope
    <3> QED
      BY <1>0, <2>1, <3>1 DEF HeldStored, Accounted
  <2> QED
    BY <1>2, <2>2, <2>3 DEF Hope
<1> QED
  BY <1>3, <1>6, <1>7, <1>8 DEF DeliveryInv

\* A consumer puts its batch down: acknowledged, rolled back, or by its death.
LEMMA ResetDelivery ==
  ASSUME LogTypeOK, KeyInv, DeliveryInv, [LogNext]_logVars, NEW c \in Consumers,
         consumer' = [consumer EXCEPT ![c] = Reading], dedup' \subseteq dedup,
         \/ consumer[c].pc = "ack" /\ message' = Acknowledged(c)
         \/ /\ message' = message
            /\ \A e \in dedup' : e \in consumer[c].held => Accounted(e)'
  PROVE  DeliveryInv'
<1>0. /\ RestingConsumers /\ BatchIsDelivered /\ KeysAreCarried /\ EventsHaveHope /\ HeldStored
      /\ dedup \subseteq Events /\ \A m \in Messages : EventOf[m] \in Events
      /\ \A d \in Consumers : /\ consumer[d].todo \subseteq Messages
                              /\ consumer[d].done \subseteq Messages
                              /\ consumer[d].held \subseteq Events
  BY LogAssumption DEF DeliveryInv, KeyInv, LogTypeOK
<1>1. \A e \in Events : Accounted(e) => Accounted(e)'
  BY AccountedStays
<1>2. consumer'[c] = Reading /\ \A d \in Consumers \ {c} : consumer'[d] = consumer[d]
  BY ConsumerChanges
<1>3. RestingConsumers'
  BY <1>0, <1>2, ReadingFields DEF RestingConsumers
<1>4. ASSUME NEW m \in Messages, message'[m] # message[m]
      PROVE  /\ message'[m].status = "acked" /\ consumer[c].pc = "ack" /\ m \in consumer[c].done
             /\ Accounted(EventOf[m]) \/ (message[m].status = "pending" /\ message[m].consumer = c)
  <2>1. message' = Acknowledged(c) /\ consumer[c].pc = "ack"
    BY <1>4
  <2>2. m \in consumer[c].done /\ message'[m].status = "acked"
    BY <1>4, <2>1, MessageChanges
  <2> QED
    BY <1>0, <2>1, <2>2 DEF BatchIsDelivered, Delivered
<1>5. BatchIsDelivered'
  <2> SUFFICES ASSUME NEW d \in Consumers
               PROVE  /\ \A m \in consumer'[d].todo : Delivered(d, m)'
                      /\ \A m \in consumer'[d].done : Delivered(d, m)'
                           \/ (message'[m].status = "acked" /\ consumer'[d].pc = "release")
    BY DEF BatchIsDelivered
  <2>1. CASE d = c
    BY <1>2, <2>1, ReadingFields
  <2>2. CASE d # c
    <3>1. ASSUME NEW m \in Messages, Delivered(d, m) PROVE Delivered(d, m)'
      BY <1>0, <1>1, <1>4, <2>2, <3>1 DEF Delivered
    <3>2. ASSUME NEW m \in Messages, message[m].status = "acked" PROVE message'[m].status = "acked"
      BY <1>4, <3>2
    <3>3. consumer'[d] = consumer[d]
      BY <1>2, <2>2
    <3> QED
      BY <1>0, <3>1, <3>2, <3>3 DEF BatchIsDelivered
  <2> QED
    BY <2>1, <2>2
<1>6. KeysAreCarried'
  <2> SUFFICES ASSUME NEW e \in dedup', ~Accounted(e)'
               PROVE  \E d \in Consumers, m \in Messages : Carries(d, m, e)'
    BY DEF KeysAreCarried
  <2>1. e \in dedup /\ ~Accounted(e)
    BY <1>0, <1>1
  <2>2. PICK d \in Consumers, m \in Messages : Carries(d, m, e)
    BY <1>0, <2>1 DEF KeysAreCarried
  <2>3. consumer[d].pc # "ack"
    BY <1>0, <2>1, <2>2 DEF HeldStored, Carries, Accounted
  <2>4. d # c
    BY <2>2, <2>3 DEF Carries
  <2>5. message'[m] = message[m]
    BY <1>4, <2>1, <2>2, <2>4 DEF Carries
  <2> QED
    BY <1>2, <2>2, <2>4, <2>5 DEF Carries
<1>7. EventsHaveHope'
  <2> SUFFICES ASSUME NEW e \in Events, \E m \in Messages : EventOf[m] = e, ~Accounted(e)'
               PROVE  \E m \in Messages : Hope(m, e)'
    BY DEF EventsHaveHope
  <2>1. ~Accounted(e)
    BY <1>1
  <2>2. PICK m \in Messages : Hope(m, e)
    BY <1>0, <2>1 DEF EventsHaveHope
  <2>3. message'[m] = message[m]
    <3> SUFFICES ASSUME message'[m] # message[m] PROVE FALSE
      OBVIOUS
    <3>1. e \in consumer[c].held /\ consumer[c].pc = "ack"
      BY <1>4, <2>2 DEF Hope
    <3> QED
      BY <1>0, <2>1, <3>1 DEF HeldStored, Accounted
  <2> QED
    BY <1>2, <2>2, <2>3, ReadingFields DEF Hope
<1> QED
  BY <1>3, <1>5, <1>6, <1>7 DEF DeliveryInv

LEMMA DeliveryStep ==
  LogTypeOK /\ KeyInv /\ DeliveryInv /\ [LogNext]_logVars => DeliveryInv'
<1> SUFFICES ASSUME LogTypeOK, KeyInv, DeliveryInv, [LogNext]_logVars PROVE DeliveryInv'
  OBVIOUS
<1>0. dedup \subseteq Events /\ \A c \in Consumers : consumer[c].held \subseteq Events
  BY DEF LogTypeOK
<1>1. ASSUME NEW m \in Messages, SendEvent(m) \/ GoesIdle(m) PROVE DeliveryInv'
  <2>1. UNCHANGED <<consumer, dedup>>
    BY <1>1 DEF SendEvent, GoesIdle
  <2>2. ASSUME NEW n \in Messages
        PROVE  \/ message'[n].status = message[n].status
                  /\ message'[n].consumer = message[n].consumer
               \/ message[n].status = "unsent" /\ message'[n].status = "new"
    <3>1. CASE SendEvent(m)
      BY <3>1 DEF SendEvent, LogTypeOK
    <3>2. CASE GoesIdle(m)
      <4>1. message' = [message EXCEPT ![m].idle = TRUE]
        BY <3>2 DEF GoesIdle
      <4> QED
        BY <4>1 DEF LogTypeOK
    <3> QED
      BY <1>1, <3>1, <3>2
  <2> QED
    BY <2>1, <2>2, QuietDelivery
<1>2. ASSUME NEW c \in Consumers, Read(c) PROVE DeliveryInv'
  <2>1. /\ consumer[c].pc = "wait" /\ Deliver(c, Batch(New)) /\ UNCHANGED dedup
        /\ StartBatch(c, Batch(New)) \/ UNCHANGED consumer
    BY <1>2 DEF Read, Doing
  <2>2. PICK batch : batch = Batch(New)
    OBVIOUS
  <2>3. batch \in SUBSET Messages /\ \A m \in batch : message[m].status = "new"
    BY <2>2 DEF Batch, New
  <2> QED
    BY <2>1, <2>2, <2>3, BatchDelivery
<1>3. ASSUME NEW c \in Consumers, ClaimIdle(c) PROVE DeliveryInv'
  <2>1. /\ consumer[c].pc = "wait" /\ Deliver(c, Batch(Claimable)) /\ UNCHANGED <<dedup, rows>>
        /\ StartBatch(c, Batch(Claimable))
        /\ forsaken' = forsaken \cup
              Unstored({EventOf[m] : m \in {n \in Batch(Claimable) : BeingWorkedOn(n)}})
    BY <1>3 DEF ClaimIdle, Doing
  <2>2. PICK batch : batch = Batch(Claimable)
    OBVIOUS
  <2>3. batch \in SUBSET Messages /\ \A m \in batch : message[m].status = "pending"
    BY <2>2 DEF Batch, Claimable
  <2>4. ASSUME NEW m \in batch, BeingWorkedOn(m) PROVE Accounted(EventOf[m])'
    <3>1. EventOf[m] \in Events /\ rows \in [Events -> Nat]
      BY <2>3, LogAssumption DEF LogTypeOK
    <3>2. rows[EventOf[m]] = 0 => EventOf[m] \in forsaken'
      BY <2>1, <2>2, <2>4 DEF Unstored
    <3> QED
      BY <2>1, <3>1, <3>2 DEF Accounted
  <2> QED
    BY <2>1, <2>2, <2>3, <2>4, BatchDelivery
<1>4. ASSUME NEW c \in Consumers, TakeFails(c) PROVE DeliveryInv'
  <2>1. /\ consumer[c].pc = "work" /\ consumer' = [consumer EXCEPT ![c].pc = "release"]
        /\ message' = message /\ rows' = rows
    BY <1>4 DEF TakeFails, Doing
  <2>2. ASSUME NEW e \in dedup', e \notin dedup PROVE Accounted(e)'
    <3>1. e = EventOf[First(c)] /\ forsaken' = forsaken \cup Unstored({e})
      BY <1>4, <2>2 DEF TakeFails
    <3>2. e \in Events
      BY <1>4, <3>1, FirstInBatch, LogAssumption DEF TakeFails, LogTypeOK
    <3> QED
      BY <2>1, <3>1, <3>2 DEF Accounted, Unstored, LogTypeOK
  <2> QED
    BY <2>1, <2>2, PhaseDelivery
<1>5. ASSUME NEW c \in Consumers, Commit(c) PROVE DeliveryInv'
  <2>1. /\ consumer[c].pc = "work" /\ consumer[c].todo = {}
        /\ consumer' = [consumer EXCEPT ![c].pc = "ack"]
        /\ message' = message /\ dedup' = dedup
    BY <1>5 DEF Commit, Ready, Doing
  <2> QED
    BY <2>1, PhaseDelivery
<1>6. ASSUME NEW c \in Consumers, CommitFails(c) PROVE DeliveryInv'
  <2>1. /\ consumer[c].pc = "work" /\ consumer' = [consumer EXCEPT ![c].pc = "release"]
        /\ message' = message /\ dedup' = dedup
    BY <1>6 DEF CommitFails, Ready, Doing
  <2> QED
    BY <2>1, PhaseDelivery
<1>7. ASSUME NEW c \in Consumers, AckFails(c) PROVE DeliveryInv'
  <2>1. /\ consumer[c].pc = "ack" /\ consumer' = [consumer EXCEPT ![c].pc = "release"]
        /\ message' = message \/ message' = Acknowledged(c)
        /\ dedup' = dedup
    BY <1>7 DEF AckFails, Doing
  <2> QED
    BY <2>1, PhaseDelivery
<1>8. ASSUME NEW c \in Consumers, Ack(c) PROVE DeliveryInv'
  BY <1>8, ResetDelivery DEF Ack, Doing
<1>9. ASSUME NEW c \in Consumers, Release(c) PROVE DeliveryInv'
  <2>1. /\ consumer' = [consumer EXCEPT ![c] = Reading] /\ message' = message
        /\ dedup' = dedup \ consumer[c].held
    BY <1>9 DEF Release, KeysWithout
  <2> QED
    BY <2>1, ResetDelivery
<1>10. ASSUME NEW c \in Consumers, ReleaseFails(c) PROVE DeliveryInv'
  <2>1. PICK left \in SUBSET consumer[c].held :
             /\ dedup' = dedup \ (consumer[c].held \ left)
             /\ forsaken' = forsaken \cup Unstored(left)
    BY <1>10 DEF ReleaseFails
  <2>2. /\ consumer' = [consumer EXCEPT ![c] = Reading] /\ message' = message /\ rows' = rows
    BY <1>10 DEF ReleaseFails
  <2>3. ASSUME NEW e \in dedup', e \in consumer[c].held PROVE Accounted(e)'
    BY <1>0, <2>1, <2>2, <2>3 DEF Accounted, Unstored, LogTypeOK
  <2> QED
    BY <2>1, <2>2, <2>3, ResetDelivery
<1>11. ASSUME NEW c \in Consumers, ConsumerDies(c) PROVE DeliveryInv'
  <2>1. /\ consumer' = [consumer EXCEPT ![c] = Reading] /\ message' = message /\ rows' = rows
        /\ dedup' = dedup /\ forsaken' = forsaken \cup Unstored(consumer[c].held)
    BY <1>11 DEF ConsumerDies
  <2>2. ASSUME NEW e \in dedup', e \in consumer[c].held PROVE Accounted(e)'
    BY <1>0, <2>1, <2>2 DEF Accounted, Unstored, LogTypeOK
  <2> QED
    BY <2>1, <2>2, ResetDelivery
<1>12. ASSUME NEW e \in Events, KeyExpires(e) PROVE DeliveryInv'
  BY <1>12, QuietDelivery DEF KeyExpires
<1>13. CASE UNCHANGED logVars
  BY <1>13, QuietDelivery DEF logVars
<1> QED
  BY <1>1, <1>2, <1>3, <1>4, <1>5, <1>6, <1>7, <1>8, <1>9, <1>10, <1>11, <1>12, <1>13, TakeDelivery
  DEF LogNext, ConsumerStep, ConsumerFault

LEMMA LogStepInv == LogInv /\ [LogNext]_logVars => LogInv'
  BY LogTypeStep, KeyStep, DeliveryStep DEF LogInv, KeyInv, DeliveryInv

LEMMA LogInvSuffices == LogInv => StoredExactlyOnce
<1> SUFFICES ASSUME LogInv PROVE StoredExactlyOnce
  OBVIOUS
<1>1. DoneMeansStored
  <2> SUFFICES ASSUME NEW e \in Events, \E m \in Messages : EventOf[m] = e,
                      \A m \in Messages : EventOf[m] = e => message[m].status = "acked"
               PROVE  Accounted(e)
    BY DEF DoneMeansStored, Accounted
  <2> QED
    BY DEF LogInv, DeliveryInv, EventsHaveHope, Hope
<1> QED
  BY <1>1 DEF StoredExactlyOnce, LogInv, KeyInv

\* For any number of consumers, events and messages, however often an event is
\* sent, delivered, claimed and tried again (log_service.py, _process_messages,
\* _acquire_dedup): it is stored once at most, unless its key was removed after
\* a commit that may have happened, and it is stored when the group is done
\* with all its messages, unless its key was left behind without a row.
THEOREM LogsAreStoredOnce == LogSpec => []StoredExactlyOnce
<1> QED
  BY LogInitInv, LogStepInv, LogInvSuffices, PTL DEF LogSpec

-----------------------------------------------------------------------------
(* The directories of a renumbering.                                       *)

Paths == Names \cup {Slot(s) : s \in RenumberShots}
IoRecord ==
  [pc : {"idle", "mkdir", "marker", "stage", "stage_rename", "put", "put_rename",
         "cleanup", "rmdir"},
   i : 0..(Len(Items) + 1), move : {NoMove} \cup (Paths \X Paths)]

JournalTypes ==
  /\ place \in [RenumberShots -> Paths \cup {Lost}]
  /\ foreign \subseteq Names /\ staging \in BOOLEAN /\ marker \in BOOLEAN
  /\ lease \in Runs \cup {NoIo} /\ tries \in 0..MaxTries
  /\ renumber \in {"open", "processing", "failed", "succeeded"}
  /\ io \in [Runs -> IoRecord] /\ (renumber = "open" => tries < MaxTries)

\* Where a run is in the payload, and the rename that it is about to do.
RunTells(r) ==
  /\ io[r].pc \in {"stage", "put"} => io[r].i \in 1..(Len(Items) + 1)
  /\ io[r].pc \in {"stage_rename", "put_rename"} => io[r].i \in 1..Len(Items)
  /\ io[r].pc = "stage_rename" => io[r].move = <<SourceDir[Item(r)], Slot(Item(r))>>
  /\ io[r].pc = "put_rename" => io[r].move = <<Slot(Item(r)), TargetDir[Item(r)]>>

\* A run at work is alone, with or without its lease, because its row stays in
\* processing until it writes back; and it is in the pass that the marker says.
Working(r) == io[r].pc \notin {"idle", "cleanup", "rmdir"}
OneRunWorks ==
  /\ \A r \in Runs : Working(r) =>
       /\ renumber = "processing" /\ lease \in {r, NoIo}
       /\ \A q \in Runs \ {r} : ~Working(q)
  /\ lease # NoIo => Working(lease)
  /\ \A r \in Runs : io[r].pc \in {"cleanup", "rmdir"} => renumber = "succeeded"
  /\ \A r \in Runs : io[r].pc \in {"stage", "stage_rename"} => ~marker
  /\ \A r \in Runs : io[r].pc \in {"put", "put_rename"} => marker

\* ... until the marker exists no directory has its new name, from then on none
\* has its old one, and in the end every one has its new name.
StageOf(s) ==
  IF renumber = "succeeded" THEN {TargetDir[s], Lost}
  ELSE IF marker THEN {Slot(s), TargetDir[s], Lost} ELSE {SourceDir[s], Slot(s), Lost}
PlacesTell == \A s \in RenumberShots : place[s] \in StageOf(s)

\* ... and the items that a pass has behind it have been moved by it.
PassTells ==
  \A r \in Runs : \A j \in 1..Len(Items) : j < io[r].i =>
    /\ io[r].pc \in {"stage", "stage_rename"} => place[Items[j]] \in {Slot(Items[j]), Lost}
    /\ io[r].pc \in {"put", "put_rename"} => place[Items[j]] \in {TargetDir[Items[j]], Lost}

Orderly == OneRunWorks /\ PlacesTell /\ PassTells
JournalInv ==
  /\ JournalTypes /\ \A r \in Runs : RunTells(r)
  /\ Orderly

LEMMA InvMeansRenameIsExact == JournalInv => RenameIsExact
<1> SUFFICES ASSUME JournalInv PROVE RenameIsExact
  OBVIOUS
<1>1. JournalTypeOK
  BY DEF JournalInv, JournalTypes, JournalTypeOK, Paths, IoRecord
<1>2. SucceededMeansRenamed
  BY DEF JournalInv, Orderly, PlacesTell, StageOf, SucceededMeansRenamed, Missing
<1>3. FilesStayWithTheirShot
  BY DEF JournalInv, Orderly, PlacesTell, StageOf, FilesStayWithTheirShot
<1> QED
  BY <1>1, <1>2, <1>3 DEF RenameIsExact

LEMMA ItemsAreShots ==
  /\ Len(Items) \in Nat
  /\ \A i \in 1..Len(Items) : Items[i] \in RenumberShots
BY JournalAssumption DEF RenumberShots

\* The names of the payload are told apart, and from the slots.
LEMMA PathsDiffer ==
  \A s, t \in RenumberShots :
    /\ s # t => /\ SourceDir[s] # SourceDir[t] /\ TargetDir[s] # TargetDir[t]
                /\ Slot(s) # Slot(t)
    /\ SourceDir[s] # Slot(t) /\ TargetDir[s] # Slot(t)
    /\ Lost \notin {SourceDir[s], TargetDir[s], Slot(s)}
    /\ Slot(s) \notin Names
<1> SUFFICES ASSUME NEW s \in RenumberShots, NEW t \in RenumberShots
             PROVE  /\ s # t => /\ SourceDir[s] # SourceDir[t] /\ TargetDir[s] # TargetDir[t]
                                /\ Slot(s) # Slot(t)
                    /\ SourceDir[s] # Slot(t) /\ TargetDir[s] # Slot(t)
                    /\ Lost \notin {SourceDir[s], TargetDir[s], Slot(s)}
                    /\ Slot(s) \notin Names
  OBVIOUS
<1>1. Slot(s) = <<"SHOT", s>> /\ Slot(t) = <<"SHOT", t>> /\ Slot(s)[1] = "SHOT" /\ Slot(t)[1] = "SHOT"
  BY DEF Slot
<1>2. \A r \in RenumberShots : SourceDir[r][1] # "SHOT" /\ TargetDir[r][1] # "SHOT"
  BY JournalAssumption DEF RenumberShots
<1>3. Slot(s) \notin Names
  BY <1>1, <1>2 DEF Names
<1>4. s # t => SourceDir[s] # SourceDir[t] /\ TargetDir[s] # TargetDir[t]
  BY JournalAssumption DEF RenumberShots
<1>5. Lost \notin {SourceDir[s], TargetDir[s], Slot(s)}
  BY <1>1, JournalAssumption DEF RenumberShots
<1>6. s # t => Slot(s) # Slot(t)
  BY <1>1
<1> QED
  BY <1>1, <1>2, <1>3, <1>4, <1>5, <1>6

IoWritten(r, x) ==
  /\ io' \in [Runs -> IoRecord] /\ io'[r] = x
  /\ \A q \in Runs \ {r} : io'[q] = io[q]
LEMMA IoIsWritten ==
  ASSUME JournalTypes, NEW r \in Runs, NEW x \in IoRecord, io' = [io EXCEPT ![r] = x]
  PROVE  IoWritten(r, x)
BY DEF JournalTypes, IoWritten

\* Between two renames: a run goes from one item to the next, or lets go.
At(pc, i) == [pc |-> pc, i |-> i, move |-> NoMove]
LEMMA AtIs ==
  ASSUME NEW pc \in {"idle", "mkdir", "marker", "stage", "put", "cleanup", "rmdir"},
         NEW i \in 0..(Len(Items) + 1)
  PROVE  At(pc, i) \in IoRecord /\ At(pc, i).pc = pc /\ At(pc, i).i = i
BY DEF At, IoRecord

LEMMA StepIs ==
  ASSUME JournalTypes, NEW r \in Runs, NEW i \in 0..(Len(Items) + 1),
         NEW pc \in {"idle", "mkdir", "marker", "stage", "put", "cleanup", "rmdir"},
         Step(r, pc, i)
  PROVE  /\ IoWritten(r, At(pc, i))
         /\ At(pc, i) \in IoRecord /\ At(pc, i).pc = pc /\ At(pc, i).i = i
BY AtIs, IoIsWritten DEF Step, At
LEMMA RestIs ==
  ASSUME JournalTypes, NEW r \in Runs, io' = [io EXCEPT ![r] = Resting]
  PROVE  /\ IoWritten(r, At("idle", 0))
         /\ At("idle", 0) \in IoRecord /\ At("idle", 0).pc = "idle" /\ At("idle", 0).i = 0
<1>1. 0 \in 0..(Len(Items) + 1)
  BY ItemsAreShots
<1>2. Resting = At("idle", 0)
  BY DEF Resting, At
<1> QED
  BY <1>1, <1>2, AtIs, IoIsWritten

\* What the other runs know of themselves.
LEMMA OthersTell ==
  ASSUME \A q \in Runs : RunTells(q), NEW r \in Runs, NEW x, IoWritten(r, x), RunTells(r)'
  PROVE  \A q \in Runs : RunTells(q)'
BY DEF RunTells, IoWritten, Item

\* The steps that change neither a directory nor the marker.
LEMMA QuietStep ==
  ASSUME JournalInv, NEW r \in Runs, NEW x \in IoRecord, IoWritten(r, x), RunTells(r)',
         UNCHANGED <<place, marker>>, JournalTypes',
         OneRunWorks',
         renumber' = "succeeded" => \A s \in RenumberShots : place[s] \in {TargetDir[s], Lost},
         renumber = "succeeded" => renumber' = "succeeded",
         \A j \in 1..Len(Items) : j < x.i =>
           /\ x.pc \in {"stage", "stage_rename"} => place[Items[j]] \in {Slot(Items[j]), Lost}
           /\ x.pc \in {"put", "put_rename"} => place[Items[j]] \in {TargetDir[Items[j]], Lost}
  PROVE  JournalInv'
<1> USE DEF JournalInv
<1>1. \A q \in Runs : RunTells(q)'
  BY OthersTell
<1>2. Orderly'
  <2>1. Orderly /\ OneRunWorks'
    BY DEF Orderly
  <2>2. PlacesTell'
    BY <2>1 DEF Orderly, PlacesTell, StageOf
  <2>3. PassTells'
    <3> SUFFICES ASSUME NEW q \in Runs, NEW j \in 1..Len(Items), j < io'[q].i
                 PROVE  /\ io'[q].pc \in {"stage", "stage_rename"} => place[Items[j]] \in {Slot(Items[j]), Lost}
                        /\ io'[q].pc \in {"put", "put_rename"} => place[Items[j]] \in {TargetDir[Items[j]], Lost}
      BY DEF PassTells
    <3>1. CASE q = r
      BY <3>1 DEF IoWritten
    <3>2. CASE q # r
      BY <2>1, <3>2 DEF Orderly, PassTells, IoWritten
    <3> QED
      BY <3>1, <3>2
  <2> QED
    BY <2>1, <2>2, <2>3 DEF Orderly
<1> QED
  BY <1>1, <1>2

LEMMA WorkersAreAlone ==
  ASSUME JournalInv, NEW r \in Runs, Working(r)
  PROVE  /\ Orderly /\ renumber = "processing" /\ lease \in {r, NoIo}
         /\ \A q \in Runs \ {r} : io[q].pc = "idle"
BY DEF JournalInv, Orderly, OneRunWorks, Working

\* A run that goes on, with or without its lease.
LEMMA OneGoesOn ==
  ASSUME JournalInv, NEW r \in Runs, NEW x, IoWritten(r, x), Working(r),
         x.pc \in {"mkdir", "marker", "stage", "stage_rename", "put", "put_rename"},
         UNCHANGED <<lease, renumber>>,
         x.pc \in {"stage", "stage_rename"} => ~marker',
         x.pc \in {"put", "put_rename"} => marker'
  PROVE  OneRunWorks'
<1>1. /\ lease \in {r, NoIo} /\ renumber = "processing" /\ \A q \in Runs \ {r} : io[q].pc = "idle"
  BY WorkersAreAlone
<1>2. io'[r] = x /\ \A q \in Runs \ {r} : io'[q].pc = "idle"
  BY <1>1 DEF IoWritten
<1> QED
  BY <1>1, <1>2 DEF OneRunWorks, Working

LEMMA ClaimJournalStep == ASSUME JournalInv, NEW r \in Runs, ClaimRenumber(r) PROVE JournalInv'
<1> DEFINE x == At("mkdir", 1)
<1>1. /\ renumber = "open" /\ renumber' = "processing" /\ lease' = r /\ tries' = tries + 1
      /\ Step(r, "mkdir", 1)
      /\ UNCHANGED <<place, foreign, staging, marker, runFaults>>
  BY DEF ClaimRenumber
<1>2. 1 \in 0..(Len(Items) + 1)
  BY ItemsAreShots
<1>3. IoWritten(r, x) /\ x \in IoRecord /\ x.pc = "mkdir" /\ x.i = 1
  BY <1>1, <1>2, StepIs DEF JournalInv
<1> HIDE DEF x
<1>4. JournalTypes'
  <2>1. tries' \in 0..MaxTries
    BY <1>1, JournalAssumption DEF JournalInv, JournalTypes
  <2> QED
    BY <1>1, <1>3, <2>1 DEF JournalInv, JournalTypes, IoWritten
<1>5. RunTells(r)'
  BY <1>3 DEF RunTells, IoWritten
<1>6. OneRunWorks'
  <2>1. \A q \in Runs : io[q].pc = "idle"
    BY <1>1 DEF JournalInv, Orderly, OneRunWorks, Working
  <2>2. io'[r].pc = "mkdir" /\ \A q \in Runs \ {r} : io'[q].pc = "idle"
    BY <1>3, <2>1 DEF IoWritten
  <2> QED
    BY <1>1, <2>2 DEF OneRunWorks, Working
<1> QED
  BY <1>1, <1>3, <1>4, <1>5, <1>6, QuietStep

LEMMA StagingStep ==
  ASSUME JournalInv, NEW r \in Runs, MakeStaging(r) \/ ReadMarker(r) PROVE JournalInv'
<1> DEFINE x == At(IF io[r].pc = "mkdir" THEN "marker" ELSE Phase, 1)
<1>1. /\ io[r].pc \in {"mkdir", "marker"}
      /\ Step(r, IF io[r].pc = "mkdir" THEN "marker" ELSE Phase, 1)
      /\ UNCHANGED <<place, foreign, marker, lease, renumber, tries, runFaults>>
      /\ staging' \in BOOLEAN
  BY DEF MakeStaging, ReadMarker, OnDiskOnly, JournalInv, JournalTypes
<1>2. /\ 1 \in 0..(Len(Items) + 1) /\ 1 \in 1..(Len(Items) + 1)
      /\ Phase \in {"stage", "put"}
  BY ItemsAreShots DEF Phase
<1>3. /\ IoWritten(r, x) /\ x \in IoRecord /\ x.i = 1
      /\ x.pc = IF io[r].pc = "mkdir" THEN "marker" ELSE Phase
  BY <1>1, <1>2, StepIs DEF JournalInv
<1> HIDE DEF x
<1>4. JournalTypes'
  BY <1>1, <1>3 DEF JournalInv, JournalTypes, IoWritten
<1>5. RunTells(r)'
  BY <1>2, <1>3 DEF RunTells, IoWritten
<1>6. OneRunWorks' /\ Orderly /\ renumber' = "processing" /\ renumber = "processing"
  <2>1. x.pc \in {"marker", "stage", "put"}
    BY <1>2, <1>3
  <2>2. (x.pc = "stage" => ~marker') /\ (x.pc = "put" => marker')
    BY <1>1, <1>2, <1>3 DEF Phase
  <2> QED
    BY <1>1, <1>3, <2>1, <2>2, OneGoesOn, WorkersAreAlone DEF Working
<1> QED
  BY <1>1, <1>3, <1>4, <1>5, <1>6, QuietStep

\* The pass that a run is in, and what it sees there.
LEMMA PassIs ==
  ASSUME JournalInv, NEW r \in Runs, io[r].pc \in {"stage", "put"}, io[r].i <= Len(Items)
  PROVE  /\ io[r].i \in 1..Len(Items) /\ Item(r) \in RenumberShots
         /\ io[r].i + 1 \in 1..(Len(Items) + 1) /\ io[r].i + 1 \in 0..(Len(Items) + 1)
<1>1. io[r].i \in 1..(Len(Items) + 1)
  BY DEF JournalInv, RunTells
<1> QED
  BY <1>1, ItemsAreShots DEF Item

LEMMA WhoIsInTheSlot ==
  ASSUME JournalInv, NEW s \in RenumberShots
  PROVE  /\ place[s] = Slot(s) => Exists(Slot(s))
         /\ place[s] = SourceDir[s] => Exists(SourceDir[s])
         /\ Exists(Slot(s)) => place[s] = Slot(s)
<1>1. place[s] = Slot(s) => Exists(Slot(s))
  BY DEF Exists
<1>2. place[s] = SourceDir[s] => Exists(SourceDir[s])
  BY DEF Exists
<1>3. ASSUME Exists(Slot(s)) PROVE place[s] = Slot(s)
  <2>1. Slot(s) \notin foreign
    BY PathsDiffer DEF JournalInv, JournalTypes
  <2>2. PICK t \in RenumberShots : place[t] = Slot(s)
    BY <1>3, <2>1 DEF Exists
  <2>3. place[t] \in {SourceDir[t], Slot(t), TargetDir[t], Lost}
    BY <1>3 DEF JournalInv, Orderly, PlacesTell, StageOf
  <2> QED
    BY <2>2, <2>3, PathsDiffer
<1> QED
  BY <1>1, <1>2, <1>3

LEMMA SourceStep == ASSUME JournalInv, NEW r \in Runs, LookAtSource(r) PROVE JournalInv'
<1>1. /\ io[r].pc = "stage" /\ io[r].i <= Len(Items)
      /\ UNCHANGED <<place, staging, marker, foreign, lease, renumber, tries, runFaults>>
      /\ io[r] \in IoRecord
  BY DEF LookAtSource, OnDiskOnly, JournalInv, JournalTypes
<1>2. /\ io[r].i \in 1..Len(Items) /\ Item(r) \in RenumberShots
      /\ io[r].i + 1 \in 1..(Len(Items) + 1) /\ io[r].i + 1 \in 0..(Len(Items) + 1)
  BY <1>1, PassIs
<1>3. Orderly /\ renumber = "processing" /\ ~marker
  BY <1>1, WorkersAreAlone DEF Orderly, OneRunWorks, Working
<1>4. CASE MustStage(Item(r)) /\ io' = [io EXCEPT ![r].move = <<SourceDir[Item(r)], Slot(Item(r))>>,
                                                 ![r].pc = "stage_rename"]
  <2> DEFINE x == [io[r] EXCEPT !.move = <<SourceDir[Item(r)], Slot(Item(r))>>, !.pc = "stage_rename"]
  <2>1. io' = [io EXCEPT ![r] = x]
    BY <1>4
  <2>2. <<SourceDir[Item(r)], Slot(Item(r))>> \in Paths \X Paths
    BY <1>2 DEF Paths, Names
  <2>3. /\ x \in IoRecord /\ x.pc = "stage_rename" /\ x.i = io[r].i
        /\ x.move = <<SourceDir[Item(r)], Slot(Item(r))>>
    BY <1>1, <2>2 DEF IoRecord
  <2> HIDE DEF x
  <2>4. IoWritten(r, x)
    BY <2>1, <2>3, IoIsWritten DEF JournalInv
  <2>5. JournalTypes'
    BY <1>1, <2>4 DEF JournalInv, JournalTypes, IoWritten
  <2>6. RunTells(r)'
    BY <1>2, <2>3, <2>4 DEF RunTells, IoWritten, Item
  <2>7. OneRunWorks'
    BY <1>1, <1>3, <2>3, <2>4, OneGoesOn DEF Working
  <2>8. ASSUME NEW j \in 1..Len(Items), j < x.i
        PROVE  place[Items[j]] \in {Slot(Items[j]), Lost}
    BY <1>1, <1>3, <2>3, <2>8 DEF Orderly, PassTells
  <2> QED
    BY <1>1, <1>3, <2>3, <2>4, <2>5, <2>6, <2>7, <2>8, QuietStep
<1>5. CASE MayPass(Item(r)) /\ Step(r, "stage", io[r].i + 1)
  <2> DEFINE x == At("stage", io[r].i + 1)
  <2>1. IoWritten(r, x) /\ x \in IoRecord /\ x.pc = "stage" /\ x.i = io[r].i + 1
    BY <1>2, <1>5, StepIs DEF JournalInv
  <2> HIDE DEF x
  <2>2. JournalTypes'
    BY <1>1, <2>1 DEF JournalInv, JournalTypes, IoWritten
  <2>3. RunTells(r)'
    BY <1>2, <2>1 DEF RunTells, IoWritten
  <2>4. OneRunWorks'
    BY <1>1, <1>3, <2>1, OneGoesOn DEF Working
  <2>5. place[Item(r)] \in {Slot(Item(r)), Lost}
    <3>1. place[Item(r)] \in {SourceDir[Item(r)], Slot(Item(r)), Lost}
      BY <1>2, <1>3 DEF Orderly, PlacesTell, StageOf
    <3>2. ~Exists(SourceDir[Item(r)])
      BY <1>5 DEF MayPass, StagedAlready
    <3> QED
      BY <1>2, <3>1, <3>2, WhoIsInTheSlot
  <2>6. ASSUME NEW j \in 1..Len(Items), j < x.i
        PROVE  place[Items[j]] \in {Slot(Items[j]), Lost}
    <3>1. CASE j < io[r].i
      BY <1>1, <1>3, <2>6, <3>1 DEF Orderly, PassTells
    <3>2. CASE ~(j < io[r].i)
      <4>1. j = io[r].i
        BY <1>2, <2>1, <2>6, <3>2
      <4> QED
        BY <2>5, <2>6, <4>1 DEF Item
    <3> QED
      BY <3>1, <3>2
  <2> QED
    BY <1>1, <1>3, <2>1, <2>2, <2>3, <2>4, <2>6, QuietStep
<1> QED
  BY <1>4, <1>5 DEF LookAtSource

LEMMA TargetStep == ASSUME JournalInv, NEW r \in Runs, LookAtTarget(r) PROVE JournalInv'
<1>1. /\ io[r].pc = "put" /\ io[r].i <= Len(Items)
      /\ UNCHANGED <<place, staging, marker, foreign, lease, renumber, tries, runFaults>>
      /\ io[r] \in IoRecord
  BY DEF LookAtTarget, OnDiskOnly, JournalInv, JournalTypes
<1>2. /\ io[r].i \in 1..Len(Items) /\ Item(r) \in RenumberShots
      /\ io[r].i + 1 \in 1..(Len(Items) + 1) /\ io[r].i + 1 \in 0..(Len(Items) + 1)
  BY <1>1, PassIs
<1>3. Orderly /\ renumber = "processing" /\ marker
  BY <1>1, WorkersAreAlone DEF Orderly, OneRunWorks, Working
<1>4. CASE MustPut(Item(r)) /\ io' = [io EXCEPT ![r].move = <<Slot(Item(r)), TargetDir[Item(r)]>>,
                                               ![r].pc = "put_rename"]
  <2> DEFINE x == [io[r] EXCEPT !.move = <<Slot(Item(r)), TargetDir[Item(r)]>>, !.pc = "put_rename"]
  <2>1. io' = [io EXCEPT ![r] = x]
    BY <1>4
  <2>2. <<Slot(Item(r)), TargetDir[Item(r)]>> \in Paths \X Paths
    BY <1>2 DEF Paths, Names
  <2>3. /\ x \in IoRecord /\ x.pc = "put_rename" /\ x.i = io[r].i
        /\ x.move = <<Slot(Item(r)), TargetDir[Item(r)]>>
    BY <1>1, <2>2 DEF IoRecord
  <2> HIDE DEF x
  <2>4. IoWritten(r, x)
    BY <2>1, <2>3, IoIsWritten DEF JournalInv
  <2>5. JournalTypes'
    BY <1>1, <2>4 DEF JournalInv, JournalTypes, IoWritten
  <2>6. RunTells(r)'
    BY <1>2, <2>3, <2>4 DEF RunTells, IoWritten, Item
  <2>7. OneRunWorks'
    BY <1>1, <1>3, <2>3, <2>4, OneGoesOn DEF Working
  <2>8. ASSUME NEW j \in 1..Len(Items), j < x.i
        PROVE  place[Items[j]] \in {TargetDir[Items[j]], Lost}
    BY <1>1, <1>3, <2>3, <2>8 DEF Orderly, PassTells
  <2> QED
    BY <1>1, <1>3, <2>3, <2>4, <2>5, <2>6, <2>7, <2>8, QuietStep
<1>5. CASE InPlace(Item(r)) /\ Step(r, "put", io[r].i + 1)
  <2> DEFINE x == At("put", io[r].i + 1)
  <2>1. IoWritten(r, x) /\ x \in IoRecord /\ x.pc = "put" /\ x.i = io[r].i + 1
    BY <1>2, <1>5, StepIs DEF JournalInv
  <2> HIDE DEF x
  <2>2. JournalTypes'
    BY <1>1, <2>1 DEF JournalInv, JournalTypes, IoWritten
  <2>3. RunTells(r)'
    BY <1>2, <2>1 DEF RunTells, IoWritten
  <2>4. OneRunWorks'
    BY <1>1, <1>3, <2>1, OneGoesOn DEF Working
  <2>5. place[Item(r)] \in {TargetDir[Item(r)], Lost}
    <3>1. place[Item(r)] \in {Slot(Item(r)), TargetDir[Item(r)], Lost}
      BY <1>2, <1>3 DEF Orderly, PlacesTell, StageOf
    <3>2. ~Exists(Slot(Item(r)))
      BY <1>5 DEF InPlace
    <3> QED
      BY <1>2, <3>1, <3>2, WhoIsInTheSlot
  <2>6. ASSUME NEW j \in 1..Len(Items), j < x.i
        PROVE  place[Items[j]] \in {TargetDir[Items[j]], Lost}
    <3>1. CASE j < io[r].i
      BY <1>1, <1>3, <2>6, <3>1 DEF Orderly, PassTells
    <3>2. CASE ~(j < io[r].i)
      <4>1. j = io[r].i
        BY <1>2, <2>1, <2>6, <3>2
      <4> QED
        BY <2>5, <2>6, <4>1 DEF Item
    <3> QED
      BY <3>1, <3>2
  <2> QED
    BY <1>1, <1>3, <2>1, <2>2, <2>3, <2>4, <2>6, QuietStep
<1> QED
  BY <1>4, <1>5 DEF LookAtTarget

\* A run that ends, whatever it was doing, without another result.
LEMMA RunEndsStep ==
  ASSUME JournalInv, NEW r \in Runs, io' = [io EXCEPT ![r] = Resting],
         lease' = IF lease = r THEN NoIo ELSE lease,
         UNCHANGED <<place, foreign, staging, marker, tries>>,
         \/ renumber' = renumber
         \/ lease = r /\ renumber' = "open" /\ tries < MaxTries
         \/ lease = r /\ renumber' = "failed"
  PROVE  JournalInv'
<1> DEFINE x == At("idle", 0)
<1>2. IoWritten(r, x) /\ x \in IoRecord /\ x.pc = "idle" /\ x.i = 0
  BY RestIs DEF JournalInv
<1> HIDE DEF x
<1>3. JournalTypes'
  BY <1>2 DEF JournalInv, JournalTypes, IoWritten
<1>4. RunTells(r)'
  BY <1>2 DEF RunTells, IoWritten
<1>5. /\ OneRunWorks'
      /\ renumber' = "succeeded" <=> renumber = "succeeded"
  <2>1. OneRunWorks
    BY DEF JournalInv, Orderly
  <2>2. io'[r].pc = "idle" /\ \A q \in Runs \ {r} : io'[q] = io[q]
    BY <1>2 DEF IoWritten
  <2>3. CASE Working(r)
    <3>1. renumber = "processing" /\ lease' = NoIo /\ \A q \in Runs \ {r} : io[q].pc = "idle"
      BY <2>3, WorkersAreAlone
    <3>2. \A q \in Runs : io'[q].pc = "idle"
      BY <2>2, <3>1
    <3> QED
      BY <3>1, <3>2 DEF OneRunWorks, Working
  <2>4. CASE ~Working(r)
    <3>1. lease # r
      BY <2>1, <2>4, JournalAssumption DEF OneRunWorks
    <3>2. lease' = lease /\ renumber' = renumber /\ marker' = marker
      BY <3>1
    <3>3. \A q \in Runs : Working(q)' => q # r /\ Working(q)
      BY <2>2 DEF Working
    <3>4. lease' # NoIo => io'[lease'].pc \notin {"idle", "cleanup", "rmdir"}
      <4>1. lease # NoIo => Working(lease) /\ lease \in Runs \ {r}
        BY <2>1, <3>1 DEF OneRunWorks, JournalInv, JournalTypes
      <4> QED
        BY <2>2, <3>2, <4>1 DEF Working
    <3>5. \A q \in Runs : Working(q)' =>
            /\ renumber' = "processing" /\ lease' \in {q, NoIo}
            /\ \A u \in Runs \ {q} : ~Working(u)'
      BY <2>1, <3>2, <3>3 DEF OneRunWorks
    <3>6. \A q \in Runs : io'[q].pc \in {"cleanup", "rmdir"} => renumber' = "succeeded"
      BY <2>1, <2>2, <3>2 DEF OneRunWorks
    <3>7. \A q \in Runs : io'[q].pc \in {"stage", "stage_rename"} => ~marker'
      BY <2>1, <2>2, <3>2 DEF OneRunWorks
    <3>8. \A q \in Runs : io'[q].pc \in {"put", "put_rename"} => marker'
      BY <2>1, <2>2, <3>2 DEF OneRunWorks
    <3>9. marker' \in BOOLEAN
      BY <1>3 DEF JournalTypes
    <3> QED
      BY <3>2, <3>4, <3>5, <3>6, <3>7, <3>8, <3>9 DEF OneRunWorks, Working
  <2> QED
    BY <2>3, <2>4
<1>6. ASSUME renumber = "succeeded"
      PROVE  \A s \in RenumberShots : place[s] \in {TargetDir[s], Lost}
  BY <1>6 DEF JournalInv, Orderly, PlacesTell, StageOf
<1> QED
  BY <1>2, <1>3, <1>4, <1>5, <1>6, QuietStep

LEMMA RunFailsStep ==
  ASSUME JournalInv, NEW r \in Runs, NEW retryable \in BOOLEAN, RunFails(r, retryable)
  PROVE  JournalInv'
<1>1. CASE lease = r
  BY <1>1, RunEndsStep DEF RunFails
<1>2. CASE lease # r
  BY <1>2, RunEndsStep DEF RunFails
<1> QED
  BY <1>1, <1>2

\* A rename moves the directory of the item it is about, and no other one.
LEMMA RenameStep == ASSUME JournalInv, NEW r \in Runs, Rename(r) PROVE JournalInv'
<1> USE DEF JournalInv
<1> DEFINE s == Item(r)
           from == io[r].move[1]
           to == io[r].move[2]
           x == NextItem(r)
<1>1. /\ io[r].pc \in {"stage_rename", "put_rename"}
      /\ place' = [t \in RenumberShots |-> IF place[t] = from THEN to ELSE place[t]]
      /\ io' = [io EXCEPT ![r] = x]
      /\ UNCHANGED <<staging, marker, foreign, lease, renumber, tries, runFaults>>
  BY DEF Rename, OnDiskOnly
<1>2. io[r].i \in 1..Len(Items)
  BY <1>1 DEF RunTells
<1>3. /\ s \in RenumberShots
      /\ io[r].i + 1 \in 1..(Len(Items) + 1) /\ io[r].i + 1 \in 0..(Len(Items) + 1)
  BY <1>2, ItemsAreShots DEF Item
<1>4. /\ io[r].pc = "stage_rename" => from = SourceDir[s] /\ to = Slot(s)
      /\ io[r].pc = "put_rename" => from = Slot(s) /\ to = TargetDir[s]
  BY <1>1 DEF RunTells
<1>5. to \in Paths
  BY <1>1, <1>3, <1>4 DEF Paths, Names
<1> HIDE DEF from, to
<1>6. /\ x = At(IF io[r].pc = "stage_rename" THEN "stage" ELSE "put", io[r].i + 1)
      /\ x \in IoRecord /\ x.i = io[r].i + 1
      /\ x.pc = IF io[r].pc = "stage_rename" THEN "stage" ELSE "put"
  BY <1>3, AtIs DEF NextItem, At
<1> HIDE DEF x
<1>7. IoWritten(r, x)
  BY <1>1, <1>6, IoIsWritten
<1>8. JournalTypes'
  BY <1>1, <1>5, <1>7 DEF JournalTypes, IoWritten
<1>9. RunTells(r)'
  BY <1>3, <1>6, <1>7 DEF RunTells, IoWritten
<1>10. \A q \in Runs : RunTells(q)'
  BY <1>7, <1>9, OthersTell
<1>11. Orderly'
  <2>1. Orderly /\ renumber = "processing" /\ \A q \in Runs \ {r} : io[q].pc = "idle"
    BY <1>1, WorkersAreAlone DEF Working
  <2>2. (io[r].pc = "stage_rename" => ~marker) /\ (io[r].pc = "put_rename" => marker)
    BY <2>1 DEF Orderly, OneRunWorks
  <2>3. OneRunWorks'
    BY <1>1, <1>6, <1>7, <2>2, OneGoesOn DEF Working
  <2>4. \A t \in RenumberShots \ {s} : place'[t] = place[t]
    <3> SUFFICES ASSUME NEW t \in RenumberShots \ {s}, place[t] = from PROVE FALSE
      BY <1>1
    <3>1. place[t] \in StageOf(t)
      BY <2>1 DEF Orderly, PlacesTell
    <3>2. CASE io[r].pc = "stage_rename"
      BY <1>3, <1>4, <2>1, <2>2, <3>1, <3>2, PathsDiffer DEF StageOf
    <3>3. CASE io[r].pc = "put_rename"
      BY <1>3, <1>4, <2>1, <2>2, <3>1, <3>3, PathsDiffer DEF StageOf
    <3> QED
      BY <1>1, <3>2, <3>3
  <2>5. place'[s] \in {to, place[s]} /\ place'[s] # from
    <3>1. to # from
      BY <1>1, <1>3, <1>4, PathsDiffer
    <3> QED
      BY <1>1, <1>3, <3>1
  <2>6. /\ place'[s] \in StageOf(s)
        /\ io[r].pc = "stage_rename" => place'[s] \in {Slot(s), Lost}
        /\ io[r].pc = "put_rename" => place'[s] \in {TargetDir[s], Lost}
    <3>1. place[s] \in StageOf(s)
      BY <1>3, <2>1 DEF Orderly, PlacesTell
    <3>2. CASE io[r].pc = "stage_rename"
      BY <1>4, <2>1, <2>2, <2>5, <3>1, <3>2 DEF StageOf
    <3>3. CASE io[r].pc = "put_rename"
      BY <1>4, <2>1, <2>2, <2>5, <3>1, <3>3 DEF StageOf
    <3> QED
      BY <1>1, <3>2, <3>3
  <2>7. PlacesTell'
    <3>1. \A t \in RenumberShots : StageOf(t)' = StageOf(t)
      BY <1>1 DEF StageOf
    <3>2. \A t \in RenumberShots : place'[t] \in StageOf(t)
      BY <2>1, <2>4, <2>6 DEF Orderly, PlacesTell
    <3> QED
      BY <3>1, <3>2 DEF PlacesTell
  <2>8. PassTells'
    <3> SUFFICES ASSUME NEW q \in Runs, NEW j \in 1..Len(Items), j < io'[q].i,
                        io'[q].pc \in {"stage", "stage_rename", "put", "put_rename"}
                 PROVE  /\ io'[q].pc \in {"stage", "stage_rename"} => place'[Items[j]] \in {Slot(Items[j]), Lost}
                        /\ io'[q].pc \in {"put", "put_rename"} => place'[Items[j]] \in {TargetDir[Items[j]], Lost}
      BY DEF PassTells
    <3>1. q = r
      BY <1>7, <2>1 DEF IoWritten
    <3>2. j < io[r].i + 1 /\ io'[q].pc = IF io[r].pc = "stage_rename" THEN "stage" ELSE "put"
      BY <1>6, <1>7, <3>1 DEF IoWritten
    <3>3. CASE Items[j] = s
      BY <1>1, <2>6, <3>2, <3>3
    <3>4. CASE Items[j] # s
      <4>1. j < io[r].i /\ place'[Items[j]] = place[Items[j]]
        <5>1. Items[j] \in RenumberShots /\ j # io[r].i
          BY <3>4, ItemsAreShots DEF Item
        <5> QED
          BY <1>2, <2>4, <3>2, <3>4, <5>1
      <4> QED
        BY <1>1, <2>1, <3>2, <4>1 DEF Orderly, PassTells
    <3> QED
      BY <3>3, <3>4
  <2> QED
    BY <2>3, <2>7, <2>8 DEF Orderly
<1> QED
  BY <1>1, <1>8, <1>10, <1>11

\* The marker is set when the first pass is through: nothing has its old name.
LEMMA MarkerStep == ASSUME JournalInv, NEW r \in Runs, CreateMarker(r) PROVE JournalInv'
<1> USE DEF JournalInv
<1> DEFINE x == At("put", 1)
<1>1. /\ io[r].pc = "stage" /\ io[r].i > Len(Items)
      /\ marker' = TRUE /\ Step(r, "put", 1)
      /\ UNCHANGED <<place, staging, foreign, lease, renumber, tries, runFaults>>
  BY DEF CreateMarker, OnDiskOnly
<1>2. 1 \in 0..(Len(Items) + 1) /\ 1 \in 1..(Len(Items) + 1) /\ Len(Items) \in Nat
  BY ItemsAreShots
<1>3. IoWritten(r, x) /\ x \in IoRecord /\ x.pc = "put" /\ x.i = 1
  BY <1>1, <1>2, StepIs
<1> HIDE DEF x
<1>4. JournalTypes'
  BY <1>1, <1>3 DEF JournalTypes, IoWritten
<1>5. RunTells(r)'
  BY <1>2, <1>3 DEF RunTells, IoWritten
<1>6. \A q \in Runs : RunTells(q)'
  BY <1>3, <1>5, OthersTell
<1>7. Orderly'
  <2>1. Orderly /\ renumber = "processing" /\ \A q \in Runs \ {r} : io[q].pc = "idle"
    BY <1>1, WorkersAreAlone DEF Working
  <2>2. OneRunWorks'
    BY <1>1, <1>3, OneGoesOn DEF Working
  <2>3. \A s \in RenumberShots : place[s] \in {Slot(s), Lost}
    <3> TAKE s \in RenumberShots
    <3>1. PICK j \in 1..Len(Items) : Items[j] = s
      BY JournalAssumption DEF RenumberShots
    <3>2. j < io[r].i
      <4>1. io[r].i \in 1..(Len(Items) + 1)
        BY <1>1 DEF RunTells
      <4> QED
        BY <1>1, <1>2, <4>1
    <3> QED
      BY <1>1, <2>1, <3>1, <3>2 DEF Orderly, PassTells
  <2>4. PlacesTell'
    BY <1>1, <2>1, <2>3 DEF PlacesTell, StageOf
  <2>5. PassTells'
    BY <1>3, <2>1 DEF PassTells, IoWritten
  <2> QED
    BY <2>2, <2>4, <2>5 DEF Orderly
<1> QED
  BY <1>1, <1>4, <1>6, <1>7

LEMMA CommitJournalStep == ASSUME JournalInv, NEW r \in Runs, CommitRenumber(r) PROVE JournalInv'
<1> USE DEF JournalInv
<1>1. /\ io[r].pc = "put" /\ io[r].i > Len(Items)
      /\ UNCHANGED <<place, foreign, staging, marker, tries, runFaults>>
  BY DEF CommitRenumber
<1>2. 1 \in 0..(Len(Items) + 1) /\ 0 \in 0..(Len(Items) + 1) /\ Len(Items) \in Nat
  BY ItemsAreShots
<1>3. PICK x \in IoRecord :
        /\ IoWritten(r, x) /\ x.i \in {0, 1}
        /\ lease = r => x.pc = "cleanup" /\ renumber' = "succeeded" /\ lease' = NoIo
        /\ lease # r => x.pc = "idle" /\ UNCHANGED <<renumber, lease>>
  <2>1. CASE lease = r
    <3>1. Step(r, "cleanup", 1) /\ renumber' = "succeeded" /\ lease' = NoIo
      BY <2>1 DEF CommitRenumber
    <3>2. /\ IoWritten(r, At("cleanup", 1)) /\ At("cleanup", 1) \in IoRecord
          /\ At("cleanup", 1).pc = "cleanup" /\ At("cleanup", 1).i = 1
      BY <1>2, <3>1, StepIs
    <3> QED
      BY <2>1, <3>1, <3>2
  <2>2. CASE lease # r
    <3>1. io' = [io EXCEPT ![r] = Resting] /\ UNCHANGED <<renumber, lease>>
      BY <2>2 DEF CommitRenumber
    <3>2. /\ IoWritten(r, At("idle", 0)) /\ At("idle", 0) \in IoRecord
          /\ At("idle", 0).pc = "idle" /\ At("idle", 0).i = 0
      BY <3>1, RestIs
    <3> QED
      BY <2>2, <3>1, <3>2
  <2> QED
    BY <2>1, <2>2
<1>4. JournalTypes'
  BY <1>1, <1>3 DEF JournalTypes, IoWritten
<1>5. RunTells(r)'
  BY <1>3 DEF RunTells, IoWritten
<1>6. /\ OneRunWorks' /\ renumber # "succeeded"
      /\ \A s \in RenumberShots : place[s] \in {TargetDir[s], Lost}
      /\ x.pc \in {"cleanup", "idle"}
  <2>1. /\ Orderly /\ lease \in {r, NoIo} /\ renumber = "processing"
        /\ \A q \in Runs \ {r} : io[q].pc = "idle"
    BY <1>1, WorkersAreAlone DEF Working
  <2>2. lease' = NoIo /\ (x.pc = "cleanup" => renumber' = "succeeded") /\ x.pc \in {"cleanup", "idle"}
    BY <1>3, <2>1
  <2>3. io'[r].pc = x.pc /\ \A q \in Runs \ {r} : io'[q].pc = "idle"
    BY <1>3, <2>1 DEF IoWritten
  <2>4. OneRunWorks'
    BY <2>2, <2>3 DEF OneRunWorks, Working
  <2>5. \A s \in RenumberShots : place[s] \in {TargetDir[s], Lost}
    <3> TAKE s \in RenumberShots
    <3>1. PICK j \in 1..Len(Items) : Items[j] = s
      BY JournalAssumption DEF RenumberShots
    <3>2. j < io[r].i
      <4>1. io[r].i \in 1..(Len(Items) + 1)
        BY <1>1 DEF RunTells
      <4> QED
        BY <1>1, <1>2, <4>1
    <3> QED
      BY <1>1, <2>1, <3>1, <3>2 DEF Orderly, PassTells
  <2> QED
    BY <2>1, <2>2, <2>4, <2>5
<1> QED
  BY <1>1, <1>3, <1>4, <1>5, <1>6, QuietStep

\* The clearing up after a success.
LEMMA CleanupStep ==
  ASSUME JournalInv, NEW r \in Runs, RemoveMarker(r) \/ RemoveStaging(r) \/ CleanupSkipped(r)
  PROVE  JournalInv'
<1> USE DEF JournalInv
<1>1. /\ io[r].pc \in {"cleanup", "rmdir"}
      /\ UNCHANGED <<place, foreign, lease, renumber, tries, runFaults>>
      /\ marker' \in BOOLEAN /\ staging' \in BOOLEAN
  BY DEF RemoveMarker, RemoveStaging, CleanupSkipped, OnDiskOnly, JournalTypes
<1>2. 1 \in 0..(Len(Items) + 1) /\ 0 \in 0..(Len(Items) + 1)
  BY ItemsAreShots
<1>3. PICK x \in IoRecord : IoWritten(r, x) /\ x.pc \in {"rmdir", "idle"}
  <2>1. CASE RemoveMarker(r)
    BY <1>2, <2>1, StepIs DEF RemoveMarker
  <2>2. CASE RemoveStaging(r) \/ CleanupSkipped(r)
    BY <2>2, RestIs DEF RemoveStaging, CleanupSkipped
  <2> QED
    BY <2>1, <2>2
<1>4. JournalTypes'
  BY <1>1, <1>3 DEF JournalTypes, IoWritten
<1>5. RunTells(r)'
  BY <1>3 DEF RunTells, IoWritten
<1>6. \A q \in Runs : RunTells(q)'
  BY <1>3, <1>5, OthersTell
<1>7. Orderly'
  <2>1. Orderly /\ renumber = "succeeded"
    BY <1>1 DEF Orderly, OneRunWorks
  <2>2. /\ \A q \in Runs : io[q].pc \in {"idle", "cleanup", "rmdir"}
        /\ lease = NoIo
    BY <2>1 DEF Orderly, OneRunWorks, Working, JournalTypes
  <2>3. \A q \in Runs : io'[q].pc \in {"idle", "cleanup", "rmdir"}
    BY <1>3, <2>2 DEF IoWritten
  <2>4. OneRunWorks'
    BY <1>1, <2>1, <2>2, <2>3 DEF OneRunWorks, Working
  <2>5. PlacesTell'
    BY <1>1, <2>1 DEF Orderly, PlacesTell, StageOf
  <2>6. PassTells'
    BY <2>3 DEF PassTells
  <2> QED
    BY <2>4, <2>5, <2>6 DEF Orderly
<1> QED
  BY <1>1, <1>4, <1>6, <1>7

\* The lease, the names, the administrator, and steps of nobody.
LEMMA OtherStep ==
  ASSUME JournalInv,
         \/ \E r \in Runs : RunLosesLease(r)
         \/ \E n \in ForeignNames : TakeName(n) \/ ClearName(n)
         \/ RetryRenumber \/ UNCHANGED journalVars
  PROVE  JournalInv'
<1> USE DEF JournalInv
<1>1. UNCHANGED <<place, staging, marker, io>>
  BY DEF RunLosesLease, TakeName, ClearName, RetryRenumber, journalVars
<1>2. /\ lease' \in {lease, NoIo} /\ foreign' \subseteq Names
      /\ \/ UNCHANGED <<renumber, tries>>
         \/ renumber = "failed" /\ renumber' = "open" /\ tries' = 0
  BY DEF RunLosesLease, TakeName, ClearName, RetryRenumber, journalVars, JournalTypes, ForeignNames
<1>3. JournalTypes'
  BY <1>1, <1>2, JournalAssumption DEF JournalTypes
<1>4. \A q \in Runs : RunTells(q)'
  BY <1>1 DEF RunTells, Item
<1>5. Orderly'
  <2>1. Orderly
    OBVIOUS
  <2>2. OneRunWorks'
    BY <1>1, <1>2, <2>1 DEF Orderly, OneRunWorks, Working
  <2>3. PlacesTell'
    BY <1>1, <1>2, <2>1 DEF Orderly, PlacesTell, StageOf
  <2>4. PassTells'
    BY <1>1, <2>1 DEF Orderly, PassTells
  <2> QED
    BY <2>2, <2>3, <2>4 DEF Orderly
<1> QED
  BY <1>3, <1>4, <1>5

LEMMA JournalInitInv == JournalInit => JournalInv
<1> SUFFICES ASSUME JournalInit PROVE JournalInv
  OBVIOUS
<1>1. /\ foreign \subseteq Names /\ staging = FALSE /\ marker = FALSE
      /\ io = [r \in Runs |-> Resting] /\ lease = NoIo /\ renumber = "open" /\ tries = 0
  BY DEF JournalInit, ForeignNames
<1>2. place \in [RenumberShots -> Paths \cup {Lost}] /\ \A s \in RenumberShots : place[s] \in {SourceDir[s], Lost}
  <2>1. \A s \in RenumberShots : SourceDir[s] \in Paths
    BY DEF Paths, Names
  <2> QED
    BY <2>1 DEF JournalInit
<1>3. 0 \in 0..(Len(Items) + 1)
  BY ItemsAreShots
<1>4. Resting \in IoRecord /\ Resting.pc = "idle"
  BY <1>3 DEF Resting, IoRecord
<1>5. JournalTypes /\ \A r \in Runs : io[r].pc = "idle"
  <2>1. 0 \in 0..MaxTries /\ 0 < MaxTries
    BY JournalAssumption
  <2> QED
    BY <1>1, <1>2, <1>4, <2>1 DEF JournalTypes
<1>6. \A r \in Runs : RunTells(r)
  BY <1>5 DEF RunTells
<1>7. OneRunWorks /\ PlacesTell /\ PassTells
  BY <1>1, <1>2, <1>5 DEF OneRunWorks, Working, PlacesTell, StageOf, PassTells
<1> QED
  BY <1>5, <1>6, <1>7 DEF JournalInv, Orderly

LEMMA JournalNextInv == JournalInv /\ [JournalNext]_journalVars => JournalInv'
<1> SUFFICES ASSUME JournalInv, [JournalNext]_journalVars PROVE JournalInv'
  OBVIOUS
<1>1. ASSUME NEW r \in Runs, RunStep(r) PROVE JournalInv'
  <2>1. CASE SourceRefused(r) \/ TargetRefused(r)
    BY <2>1, RunFailsStep DEF SourceRefused, TargetRefused
  <2>2. CASE RenameRaises(r)
    BY <2>2, RunFailsStep DEF RenameRaises
  <2> QED
    BY <1>1, <2>1, <2>2, StagingStep, SourceStep, RenameStep, MarkerStep, TargetStep,
       CommitJournalStep, CleanupStep DEF RunStep
<1>2. ASSUME NEW r \in Runs, IoError(r) \/ RunStops(r) PROVE JournalInv'
  BY <1>2, RunFailsStep, RunEndsStep DEF IoError, RunStops
<1>3. ASSUME NEW r \in Runs, ClaimRenumber(r) PROVE JournalInv'
  BY <1>3, ClaimJournalStep
<1> QED
  BY <1>1, <1>2, <1>3, OtherStep DEF JournalNext

\* The renaming of the directories of a scene, for any payload, names, runs,
\* faults and directories that are missing or in the way: a run that failed
\* between any two of its steps is taken up where it stopped, no directory ever
\* gets a name of another shot, and what is called done is done, also when the
\* worker died or lost its lease while its thread went on.
THEOREM RenamesAreExact == JournalSpec => []RenameIsExact
<1>1. JournalInit => JournalInv
  BY JournalInitInv
<1>2. JournalInv /\ [JournalNext]_journalVars => JournalInv'
  BY JournalNextInv
<1>3. JournalInv => RenameIsExact
  BY InvMeansRenameIsExact
<1> QED
  BY <1>1, <1>2, <1>3, PTL DEF JournalSpec
=============================================================================
