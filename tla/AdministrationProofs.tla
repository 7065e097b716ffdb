------------------------ MODULE AdministrationProofs ------------------------
(***************************************************************************)
(* The purge of projects for any number of projects of one path, workers,  *)
(* attempts and faults: what is purged stays gone (PurgeSafe), and the     *)
(* purge queue is a lease queue with takeover.  The life of plugins for    *)
(* any plugins, dependencies, administrators, applications and troubles:   *)
(* a migration is applied once (MigratedExactlyOnce), and what is served   *)
(* is what the records say (ServedAsRecorded).                             *)
(***************************************************************************)
EXTENDS ProjectPurge, PluginLifecycle, TLAPS

(***************************************************************************)
(* The purge of projects.                                                  *)
(***************************************************************************)
PurgeRecord ==
  [status : {"none", "pending", "processing", "retry_wait", "succeeded", "failed"},
   attempt : 0..(MaxAttempts + MaxFaults), owner : Workers \cup {NoWorker},
   lease : BOOLEAN, due : BOOLEAN]
WorkerRecord ==
  [pc : Purging \cup Initializing \cup {"idle"}, project : Projects \cup {NoProject},
   attempt : Nat, retryable : BOOLEAN]

\* A project has a purge exactly from the day it was purged, and directory
\* operations exactly while it lives; a purge that was never queued was never
\* claimed.
RowsTell ==
  \A p \in Projects :
    /\ row[p] = "purged" <=> purge[p].status # "none"
    /\ row[p] # "live" => dirOp[p] = "none"
    /\ purge[p].status = "none" => purge[p].attempt = 0

\* Who is at work has a project; who creates directories has claimed the
\* operation, alone; who purges has a purged project.
WorkersHaveProjects ==
  \A w \in Workers :
    /\ worker[w].pc # "idle" => worker[w].project \in Projects
    /\ worker[w].pc \in Initializing => dirOp[worker[w].project] = "processing"
    /\ worker[w].pc \in Purging => row[worker[w].project] = "purged"
OneInitializer ==
  \A v, w \in Workers :
    /\ worker[v].pc \in Initializing /\ worker[w].pc \in Initializing
    /\ worker[v].project = worker[w].project
    => v = w

\* The directory that has been deleted does not come back.
GoneIsGone == \A w \in Workers : worker[w].pc = "gone" => disk # worker[w].project

\* The worker whose renewal was refused holds no lease any more.
HoldsLease(w) == Owned(w) /\ purge[worker[w].project].lease
LostHasNoLease == \A w \in Workers : worker[w].pc = "lost" => ~HoldsLease(w)

\* Somebody still works for the claim.
Held(p) ==
  \E w \in Workers : worker[w].pc \in Purging /\ worker[w].project = p /\ Owned(w)

\* A row that waits has an attempt left, and every attempt beyond the limit has
\* cost a fault: so has a claim that is going to be taken over.
AttemptsArePaid ==
  \A p \in Projects :
    /\ purge[p].attempt <= MaxAttempts + faults
    /\ purge[p].status \in {"pending", "retry_wait"} => purge[p].attempt < MaxAttempts
    /\ purge[p].status = "processing" /\ (~purge[p].lease \/ ~Held(p)) =>
         purge[p].attempt < MaxAttempts + faults

PurgeInv ==
  /\ TypeOK /\ SucceededMeansGone
  /\ RowsTell /\ WorkersHaveProjects /\ OneInitializer
  /\ GoneIsGone /\ LostHasNoLease /\ AttemptsArePaid

LEMMA InvMeansSafe == PurgeInv => PurgeSafe
<1> SUFFICES ASSUME PurgeInv, NEW p \in Projects, NEW w \in Workers,
                    row[p] = "purged", worker[w].project = p
             PROVE  worker[w].pc \notin Initializing
  BY DEF PurgeInv, PurgeSafe, PurgedProjectIsQuiet
<1> QED
  BY DEF PurgeInv, RowsTell, WorkersHaveProjects, Initializing

-----------------------------------------------------------------------------
LEMMA PurgeInitInv == Init => PurgeInv
<1> SUFFICES ASSUME Init PROVE PurgeInv
  OBVIOUS
<1>1. TypeOK
  <2>1. /\ 0 \in 0..(MaxAttempts + MaxFaults) /\ 0 \in 0..MaxFaults
    BY PurgeAssumption
  <2> QED
    BY <2>1 DEF Init, TypeOK, NoPurge, Idle
<1>2. SucceededMeansGone /\ RowsTell /\ WorkersHaveProjects /\ OneInitializer
      /\ GoneIsGone /\ LostHasNoLease
  BY PurgeAssumption
  DEF Init, NoPurge, Idle, SucceededMeansGone, RowsTell, WorkersHaveProjects,
      OneInitializer, GoneIsGone, LostHasNoLease, Purging, Initializing
<1>3. AttemptsArePaid
  BY PurgeAssumption DEF Init, NoPurge, AttemptsArePaid
<1> QED
  BY <1>1, <1>2, <1>3 DEF PurgeInv

-----------------------------------------------------------------------------
(* The API.                                                                *)

LEMMA CreateStep ==
  ASSUME PurgeInv, NEW p \in Projects, CreateProject(p) PROVE PurgeInv'
<1> USE DEF PurgeInv, CreateProject
<1>1. TypeOK'
  BY DEF TypeOK
<1>2. RowsTell' /\ WorkersHaveProjects'
  BY DEF TypeOK, RowsTell, WorkersHaveProjects, Initializing, Purging
<1>3. SucceededMeansGone' /\ OneInitializer' /\ GoneIsGone' /\ LostHasNoLease'
  BY DEF SucceededMeansGone, OneInitializer, GoneIsGone, LostHasNoLease, HoldsLease, Owned
<1>4. AttemptsArePaid'
  BY DEF AttemptsArePaid, Held, Owned
<1> QED
  BY <1>1, <1>2, <1>3, <1>4

LEMMA PurgeProjectStep ==
  ASSUME PurgeInv, NEW p \in Projects, PurgeProject(p) PROVE PurgeInv'
<1> USE DEF PurgeInv, PurgeProject
<1> DEFINE new == [NoPurge EXCEPT !.status = "pending", !.due = TRUE]
<1>1. /\ new.status = "pending" /\ new.attempt = 0 /\ new.owner = NoWorker
      /\ new.lease = FALSE /\ new \in PurgeRecord
  <2>1. 0 \in 0..(MaxAttempts + MaxFaults)
    BY PurgeAssumption
  <2> QED
    BY <2>1 DEF NoPurge, PurgeRecord
<1>2. /\ purge' = [purge EXCEPT ![p] = new] /\ purge'[p] = new
      /\ \A q \in Projects : q # p => purge'[q] = purge[q]
      /\ purge[p].status = "none"
  BY DEF TypeOK, RowsTell
<1> HIDE DEF new
<1>3. TypeOK'
  BY <1>1, <1>2 DEF TypeOK, PurgeRecord
<1>4. RowsTell'
  BY <1>1, <1>2 DEF TypeOK, RowsTell
<1>5. WorkersHaveProjects'
  BY DEF TypeOK, WorkersHaveProjects, RuntimeActive, Initializing, Purging
<1>6. SucceededMeansGone' /\ OneInitializer' /\ GoneIsGone'
  BY <1>1, <1>2 DEF SucceededMeansGone, OneInitializer, GoneIsGone
<1>7. \A w \in Workers : worker'[w] = worker[w] /\ Owned(w)' => Owned(w)
  BY <1>1, <1>2 DEF Owned, WorkersHaveProjects, TypeOK
<1>8. LostHasNoLease'
  BY <1>1, <1>2, <1>7 DEF LostHasNoLease, HoldsLease, Owned
<1>9. AttemptsArePaid'
  <2> SUFFICES ASSUME NEW q \in Projects
               PROVE  /\ purge'[q].attempt <= MaxAttempts + faults
                      /\ purge'[q].status \in {"pending", "retry_wait"} =>
                           purge'[q].attempt < MaxAttempts
                      /\ purge'[q].status = "processing" /\ (~purge'[q].lease \/ ~Held(q)') =>
                           purge'[q].attempt < MaxAttempts + faults
    BY DEF AttemptsArePaid
  <2>1. CASE q = p
    <3>1. faults \in Nat
      BY PurgeAssumption DEF TypeOK
    <3>2. 0 <= MaxAttempts + faults /\ 0 < MaxAttempts
      BY <3>1, PurgeAssumption
    <3> QED
      BY <2>1, <1>1, <1>2, <3>2
  <2>2. CASE q # p
    <3>1. purge'[q] = purge[q] /\ (Held(q) => Held(q)')
      BY <2>2, <1>2 DEF Held, Owned
    <3> QED
      BY <3>1 DEF AttemptsArePaid
  <2> QED
    BY <2>1, <2>2
<1> QED
  BY <1>3, <1>4, <1>5, <1>6, <1>8, <1>9

-----------------------------------------------------------------------------
(* A step that leaves the purge rows alone and moves one worker.           *)

\* What such a step has to show: the worker keeps its claim, or had none, or
\* the step is a fault.
LEMMA WorkerMoves ==
  ASSUME PurgeInv, NEW w \in Workers, NEW v \in WorkerRecord,
         worker' = [worker EXCEPT ![w] = v], UNCHANGED purge,
         faults' \in 0..MaxFaults,
         \/ /\ faults' = faults
            /\ Owned(w) /\ worker[w].pc \in Purging =>
                 \/ ~purge[worker[w].project].lease
                 \/ /\ v.pc \in Purging /\ v.project = worker[w].project
                    /\ v.attempt = worker[w].attempt
         \/ faults' = faults + 1,
         v.pc = "lost" =>
           /\ v.project = worker[w].project /\ v.attempt = worker[w].attempt
           /\ ~HoldsLease(w)
  PROVE  LostHasNoLease' /\ AttemptsArePaid'
<1>1. /\ worker'[w] = v /\ \A u \in Workers : u # w => worker'[u] = worker[u]
  BY DEF PurgeInv, TypeOK
<1>2. \A u \in Workers : u # w => (Owned(u)' <=> Owned(u))
  BY <1>1 DEF Owned
<1>3. LostHasNoLease'
  <2> SUFFICES ASSUME NEW u \in Workers, worker'[u].pc = "lost"
               PROVE  ~(Owned(u)' /\ purge'[worker'[u].project].lease)
    BY DEF LostHasNoLease, HoldsLease
  <2>1. CASE u = w
    BY <2>1, <1>1 DEF HoldsLease, Owned
  <2>2. CASE u # w
    BY <2>2, <1>1, <1>2 DEF PurgeInv, LostHasNoLease, HoldsLease
  <2> QED
    BY <2>1, <2>2
<1>4. AttemptsArePaid'
  <2> SUFFICES ASSUME NEW p \in Projects
               PROVE  /\ purge[p].attempt <= MaxAttempts + faults'
                      /\ purge[p].status \in {"pending", "retry_wait"} =>
                           purge[p].attempt < MaxAttempts
                      /\ purge[p].status = "processing" /\ (~purge[p].lease \/ ~Held(p)') =>
                           purge[p].attempt < MaxAttempts + faults'
    BY DEF AttemptsArePaid
  <2>1. /\ purge[p].attempt \in Nat /\ faults \in Nat /\ MaxAttempts \in Nat
    BY PurgeAssumption DEF PurgeInv, TypeOK
  <2>2. /\ purge[p].attempt <= MaxAttempts + faults
        /\ purge[p].status \in {"pending", "retry_wait"} => purge[p].attempt < MaxAttempts
        /\ purge[p].status = "processing" /\ (~purge[p].lease \/ ~Held(p)) =>
             purge[p].attempt < MaxAttempts + faults
    BY DEF PurgeInv, AttemptsArePaid
  <2>3. CASE faults' = faults + 1
    <3>1. purge[p].attempt <= MaxAttempts + faults' /\ purge[p].attempt < MaxAttempts + faults'
      BY <2>1, <2>2, <2>3
    <3> QED
      BY <2>2, <3>1
  <2>4. CASE faults' = faults
    <3>1. CASE ~purge[p].lease
      BY <2>2, <2>4, <3>1
    <3>2. CASE purge[p].lease /\ ~Held(p)
      BY <2>2, <2>4, <3>2
    <3>3. CASE purge[p].lease /\ Held(p)
      <4>1. PICK u \in Workers :
              worker[u].pc \in Purging /\ worker[u].project = p /\ Owned(u)
        BY <3>3 DEF Held
      <4>2. CASE u # w
        <5>1. Held(p)'
          BY <4>1, <4>2, <1>1, <1>2 DEF Held
        <5> QED
          BY <2>2, <2>4, <3>3, <5>1
      <4>3. CASE u = w
        <5>1. /\ v.pc \in Purging /\ v.project = worker[w].project
              /\ v.attempt = worker[w].attempt
          BY <2>1, <2>4, <3>3, <4>1, <4>3
        <5>2. Owned(w)'
          BY <4>1, <4>3, <5>1, <1>1 DEF Owned
        <5>3. Held(p)'
          BY <4>1, <4>3, <5>1, <5>2, <1>1 DEF Held
        <5> QED
          BY <2>2, <2>4, <3>3, <5>3
      <4> QED
        BY <4>2, <4>3
    <3> QED
      BY <3>1, <3>2, <3>3
  <2> QED
    BY <2>3, <2>4
<1> QED
  BY <1>3, <1>4

\* The states a worker's record may be in.
WorkerFits(v) ==
  /\ v.pc # "idle" => v.project \in Projects
  /\ v.pc \in Initializing => dirOp[v.project] = "processing"
  /\ v.pc \in Purging => row[v.project] = "purged"

LEMMA WorkerTypes ==
  ASSUME PurgeInv, NEW w \in Workers PROVE worker[w] \in WorkerRecord /\ WorkerFits(worker[w])
  BY DEF PurgeInv, TypeOK, WorkerRecord, WorkersHaveProjects, WorkerFits

\* The rest of such a step, when the rows stay as they are: what the worker does
\* to the disk, and that it creates directories only if it did before.
LEMMA WorkerFitsOn ==
  ASSUME PurgeInv, NEW w \in Workers, NEW v \in WorkerRecord,
         worker' = [worker EXCEPT ![w] = v], UNCHANGED <<row, dirOp, purge>>,
         faults' \in 0..MaxFaults, WorkerFits(v),
         v.pc \in Initializing =>
           worker[w].pc \in Initializing /\ v.project = worker[w].project,
         disk' \in Projects \cup {NoProject, Unmarked},
         \/ disk' = disk
         \/ disk' \notin Projects
         \/ (worker[w].pc \in Initializing /\ disk' = worker[w].project),
         v.pc = "gone" => disk' = NoProject
  PROVE  /\ TypeOK' /\ SucceededMeansGone' /\ RowsTell' /\ WorkersHaveProjects'
         /\ OneInitializer' /\ GoneIsGone'
<1>1. /\ worker'[w] = v /\ \A u \in Workers : u # w => worker'[u] = worker[u]
  BY DEF PurgeInv, TypeOK
<1>2. TypeOK'
  BY DEF PurgeInv, TypeOK, WorkerRecord
<1>3. RowsTell' /\ WorkersHaveProjects'
  BY <1>1 DEF PurgeInv, RowsTell, WorkersHaveProjects, WorkerFits
<1>4. OneInitializer'
  BY <1>1 DEF PurgeInv, OneInitializer
<1>5. disk' \in Projects => disk' = disk \/ row[disk'] = "live"
  BY DEF PurgeInv, TypeOK, RowsTell, WorkersHaveProjects, Initializing
<1>6. \A p \in Projects : row[p] = "purged" /\ disk # p => disk' # p
  BY <1>5
<1>7. SucceededMeansGone'
  BY <1>6 DEF PurgeInv, SucceededMeansGone, RowsTell
<1>8. GoneIsGone'
  BY <1>1, <1>6, PurgeAssumption DEF PurgeInv, GoneIsGone, WorkersHaveProjects, Purging, WorkerFits
<1> QED
  BY <1>2, <1>3, <1>4, <1>7, <1>8

LEMMA IdleFits == Idle \in WorkerRecord /\ WorkerFits(Idle) /\ Idle.pc = "idle"
  BY DEF Idle, WorkerRecord, WorkerFits, Purging, Initializing

-----------------------------------------------------------------------------
(* The directory worker.                                                   *)

LEMMA DirectoryMoves ==
  ASSUME PurgeInv, NEW w \in Workers, MakeDirectory(w) \/ MarkDirectory(w)
  PROVE  \E pc \in {"mark", "ready", "conflict"} :
           /\ worker' = [worker EXCEPT ![w].pc = pc]
           /\ worker[w].pc \in {"make", "mark"}
           /\ disk' \in {disk, Unmarked, worker[w].project}
           /\ UNCHANGED <<row, dirOp, purge, faults>>
<1> DEFINE p == worker[w].project
<1>0. worker[w].project # NoProject
  BY WorkerTypes, PurgeAssumption DEF WorkerFits, MakeDirectory, MarkDirectory
<1>1. CASE MakeDirectory(w)
  <2>1. CASE disk = NoProject
    <3>1. worker' = [worker EXCEPT ![w].pc = "mark"] /\ disk' = Unmarked
      BY <1>0, <1>1, <2>1 DEF MakeDirectory
    <3> QED
      BY <1>1, <3>1 DEF MakeDirectory
  <2>2. CASE disk # NoProject /\ disk = p
    <3>1. worker' = [worker EXCEPT ![w].pc = "ready"] /\ disk' = disk
      BY <1>1, <2>2 DEF MakeDirectory
    <3> QED
      BY <1>1, <3>1 DEF MakeDirectory
  <2>3. CASE disk # NoProject /\ disk # p
    <3>1. (CASE disk = NoProject -> "mark" [] disk = worker[w].project -> "ready"
             [] OTHER -> "conflict") = "conflict"
      BY <2>3
    <3>2. worker' = [worker EXCEPT ![w].pc = "conflict"] /\ disk' = disk
      BY <1>1, <2>3, <3>1 DEF MakeDirectory
    <3> QED
      BY <1>1, <3>2 DEF MakeDirectory
  <2> QED
    BY <2>1, <2>2, <2>3
<1>2. CASE MarkDirectory(w)
  BY <1>2 DEF MarkDirectory
<1> QED
  BY <1>1, <1>2

LEMMA DirectoryMovesStep ==
  ASSUME PurgeInv, NEW w \in Workers, MakeDirectory(w) \/ MarkDirectory(w)
  PROVE  PurgeInv'
<1> DEFINE p == worker[w].project
<1>1. PICK pc \in {"mark", "ready", "conflict"} :
        /\ worker' = [worker EXCEPT ![w].pc = pc]
        /\ worker[w].pc \in {"make", "mark"}
        /\ disk' \in {disk, Unmarked, p}
        /\ UNCHANGED <<row, dirOp, purge, faults>>
  BY DirectoryMoves
<1> DEFINE v == [worker[w] EXCEPT !.pc = pc]
<1>2. worker[w] \in WorkerRecord /\ WorkerFits(worker[w])
  BY WorkerTypes
<1>3. /\ v \in WorkerRecord /\ v.pc = pc /\ v.project = worker[w].project
      /\ worker' = [worker EXCEPT ![w] = v]
  BY <1>1, <1>2 DEF WorkerRecord, Initializing, PurgeInv, TypeOK
<1> HIDE DEF v
<1>4. worker[w].pc \in Initializing /\ worker[w].pc \notin Purging /\ v.pc \in Initializing
      /\ v.pc \notin Purging /\ worker[w].pc # "idle" /\ v.pc \notin {"lost", "gone", "idle"}
  BY <1>1, <1>3 DEF Initializing, Purging
<1>5. WorkerFits(v) /\ p \in Projects
  BY <1>2, <1>3, <1>4 DEF WorkerFits
<1>6. disk \in Projects \cup {NoProject, Unmarked} /\ faults \in 0..MaxFaults
  BY DEF PurgeInv, TypeOK
<1>7. /\ disk' \in Projects \cup {NoProject, Unmarked}
      /\ disk' = disk \/ disk' \notin Projects \/ disk' = worker[w].project
  BY <1>1, <1>5, <1>6, PurgeAssumption
<1>8. /\ TypeOK' /\ SucceededMeansGone' /\ RowsTell' /\ WorkersHaveProjects'
      /\ OneInitializer' /\ GoneIsGone'
  <2>1. UNCHANGED <<row, dirOp, purge>> /\ faults' \in 0..MaxFaults
    BY <1>1, <1>6
  <2>2. v.pc \in Initializing =>
          worker[w].pc \in Initializing /\ v.project = worker[w].project
    BY <1>3, <1>4
  <2>3. v.pc = "gone" => disk' = NoProject
    BY <1>4
  <2>4. \/ disk' = disk
        \/ disk' \notin Projects
        \/ (worker[w].pc \in Initializing /\ disk' = worker[w].project)
    BY <1>4, <1>7
  <2> QED
    BY <1>3, <1>5, <1>7, <2>1, <2>2, <2>3, <2>4, WorkerFitsOn
<1>9. LostHasNoLease' /\ AttemptsArePaid'
  BY <1>1, <1>3, <1>4, <1>6, WorkerMoves
<1> QED
  BY <1>8, <1>9 DEF PurgeInv

LEMMA FinishStep == ASSUME PurgeInv, NEW w \in Workers, FinishDirectory(w) PROVE PurgeInv'
<1> USE DEF PurgeInv
<1> DEFINE p == worker[w].project
<1>1. worker[w] \in WorkerRecord /\ WorkerFits(worker[w])
  BY WorkerTypes
<1>2. PICK status \in {"succeeded", "failed", "pending"} :
        dirOp' = [dirOp EXCEPT ![p] = status]
  BY DEF FinishDirectory
<1>3. /\ worker' = [worker EXCEPT ![w] = Idle] /\ UNCHANGED <<row, purge, disk, faults>>
      /\ worker[w].pc \in Initializing /\ worker[w].pc \notin Purging
      /\ worker[w].pc # "idle"
  BY DEF FinishDirectory, Initializing, Purging
<1>4. /\ p \in Projects /\ dirOp[p] = "processing"
  BY <1>1, <1>3 DEF WorkerFits
<1>5. /\ worker'[w] = Idle /\ \A u \in Workers : u # w => worker'[u] = worker[u]
      /\ Idle.pc = "idle" /\ Idle.pc \notin Initializing /\ Idle.pc \notin Purging
  BY <1>3 DEF TypeOK, Idle, Initializing, Purging
<1>6. TypeOK'
  BY <1>2, <1>3, IdleFits DEF TypeOK, WorkerRecord
<1>7. RowsTell'
  <2>1. row[p] = "live"
    BY <1>4 DEF RowsTell
  <2> QED
    BY <1>2, <1>3, <2>1 DEF RowsTell, TypeOK
<1>8. WorkersHaveProjects'
  <2>1. \A u \in Workers : u # w /\ worker[u].pc \in Initializing => worker[u].project # p
    BY <1>3 DEF OneInitializer
  <2>2. \A u \in Workers : u # w /\ worker[u].pc \in Initializing =>
          dirOp'[worker[u].project] = dirOp[worker[u].project]
    BY <1>2, <2>1 DEF TypeOK, WorkersHaveProjects, Initializing
  <2> QED
    BY <1>3, <1>5, <2>2 DEF WorkersHaveProjects
<1>9. OneInitializer' /\ GoneIsGone' /\ SucceededMeansGone'
  BY <1>3, <1>5 DEF OneInitializer, GoneIsGone, SucceededMeansGone
<1>10. LostHasNoLease' /\ AttemptsArePaid'
  <2>1. faults' \in 0..MaxFaults
    BY <1>3 DEF TypeOK
  <2> QED
    BY <1>3, <1>5, <2>1, IdleFits, WorkerMoves
<1> QED
  BY <1>6, <1>7, <1>8, <1>9, <1>10

LEMMA ClaimDirectoryStep ==
  ASSUME PurgeInv, NEW w \in Workers, NEW p \in Projects, ClaimDirectory(w, p)
  PROVE  PurgeInv'
<1> USE DEF PurgeInv
<1> DEFINE v == [Idle EXCEPT !.pc = "make", !.project = p]
<1>1. v.pc = "make" /\ v.project = p /\ v \in WorkerRecord
  BY DEF Idle, WorkerRecord, Initializing
<1>2. /\ worker' = [worker EXCEPT ![w] = v] /\ UNCHANGED <<row, purge, disk, faults>>
      /\ dirOp' = [dirOp EXCEPT ![p] = "processing"]
      /\ dirOp[p] = "pending" /\ worker[w].pc = "idle"
  BY DEF ClaimDirectory
<1> HIDE DEF v
<1>3. /\ worker'[w] = v /\ \A u \in Workers : u # w => worker'[u] = worker[u]
      /\ v.pc \notin Purging /\ v.pc \in Initializing /\ worker[w].pc \notin Purging
      /\ v.pc \notin {"lost", "gone"}
  BY <1>1, <1>2 DEF TypeOK, Initializing, Purging
<1>4. TypeOK'
  BY <1>1, <1>2 DEF TypeOK, WorkerRecord
<1>5. RowsTell'
  BY <1>2 DEF RowsTell, TypeOK
<1>6. \A u \in Workers : u # w /\ worker[u].pc \in Initializing => worker[u].project # p
  BY <1>2 DEF WorkersHaveProjects
<1>7. WorkersHaveProjects' /\ OneInitializer'
  BY <1>1, <1>2, <1>3, <1>6 DEF WorkersHaveProjects, OneInitializer, TypeOK
<1>8. GoneIsGone' /\ SucceededMeansGone'
  BY <1>2, <1>3 DEF GoneIsGone, SucceededMeansGone
<1>9. LostHasNoLease' /\ AttemptsArePaid'
  <2>1. faults' \in 0..MaxFaults
    BY <1>2 DEF TypeOK
  <2> QED
    BY <1>1, <1>2, <1>3, <2>1, WorkerMoves
<1> QED
  BY <1>4, <1>5, <1>7, <1>8, <1>9

-----------------------------------------------------------------------------
(* The purge worker.                                                       *)

LEMMA ClaimedWorker ==
  ASSUME NEW w \in Workers, NEW p \in Projects, ClaimPurge(w, p),
         NEW attempt, attempt = purge[p].attempt + 1
  PROVE  \E v : /\ worker' = [worker EXCEPT ![w] = v]
                /\ v.pc \in {"failed", "purge"} /\ v.project = p /\ v.attempt = attempt
                /\ v = [pc |-> v.pc, project |-> p, attempt |-> attempt,
                        retryable |-> v.retryable]
                /\ v.retryable \in BOOLEAN
<1>1. CASE attempt > MaxAttempts
  <2> DEFINE v == [pc |-> "failed", project |-> p, attempt |-> attempt, retryable |-> FALSE]
  <2>1. worker' = [worker EXCEPT ![w] = v]
    BY <1>1 DEF ClaimPurge
  <2>2. /\ v.pc = "failed" /\ v.project = p /\ v.attempt = attempt /\ v.retryable = FALSE
        /\ v = [pc |-> v.pc, project |-> p, attempt |-> attempt, retryable |-> v.retryable]
    OBVIOUS
  <2> HIDE DEF v
  <2> QED
    BY <2>1, <2>2
<1>2. CASE ~(attempt > MaxAttempts)
  <2> DEFINE v == [pc |-> "purge", project |-> p, attempt |-> attempt, retryable |-> TRUE]
  <2>1. worker' = [worker EXCEPT ![w] = v]
    BY <1>2 DEF ClaimPurge
  <2>2. /\ v.pc = "purge" /\ v.project = p /\ v.attempt = attempt /\ v.retryable = TRUE
        /\ v = [pc |-> v.pc, project |-> p, attempt |-> attempt, retryable |-> v.retryable]
    OBVIOUS
  <2> HIDE DEF v
  <2> QED
    BY <2>1, <2>2
<1> QED
  BY <1>1, <1>2

LEMMA ClaimPurgeStep ==
  ASSUME PurgeInv, NEW w \in Workers, NEW p \in Projects, ClaimPurge(w, p)
  PROVE  PurgeInv'
<1> USE DEF PurgeInv
<1> DEFINE attempt == purge[p].attempt + 1
           r == [status |-> "processing", attempt |-> attempt, owner |-> w,
                 lease |-> TRUE, due |-> FALSE]
<1>1. /\ worker[w].pc = "idle" /\ Due(p) /\ UNCHANGED <<row, dirOp, disk, faults>>
      /\ purge' = [purge EXCEPT ![p] = r]
  BY DEF ClaimPurge
<1>2. PICK v : /\ worker' = [worker EXCEPT ![w] = v]
               /\ v.pc \in {"failed", "purge"} /\ v.project = p /\ v.attempt = attempt
               /\ v = [pc |-> v.pc, project |-> p, attempt |-> attempt,
                       retryable |-> v.retryable]
               /\ v.retryable \in BOOLEAN
  BY ClaimedWorker
<1>3. /\ r.status = "processing" /\ r.attempt = attempt /\ r.owner = w /\ r.lease
  OBVIOUS
<1>4. purge[p].attempt \in Nat /\ faults \in 0..MaxFaults /\ faults \in Nat
  BY PurgeAssumption DEF TypeOK
<1>5. purge[p].attempt < MaxAttempts + faults
  <2>1. CASE purge[p].status \in {"pending", "retry_wait"}
    <3>1. purge[p].attempt < MaxAttempts
      BY <2>1 DEF AttemptsArePaid
    <3> QED
      BY <3>1, <1>4, PurgeAssumption
  <2>2. CASE purge[p].status = "processing" /\ ~purge[p].lease
    BY <2>2 DEF AttemptsArePaid
  <2> QED
    BY <1>1, <2>1, <2>2 DEF Due
<1>6. /\ attempt <= MaxAttempts + faults /\ attempt \in 0..(MaxAttempts + MaxFaults)
      /\ attempt \in Nat
  BY <1>4, <1>5, PurgeAssumption
<1>7. purge[p].status \in {"pending", "retry_wait", "processing"}
  BY <1>1 DEF Due
<1>8. r \in PurgeRecord
  BY <1>6 DEF PurgeRecord
<1>9. v \in WorkerRecord
  BY <1>2, <1>6 DEF WorkerRecord, Purging
<1>10. /\ worker'[w] = v /\ purge'[p] = r
       /\ \A u \in Workers : u # w => worker'[u] = worker[u]
       /\ \A q \in Projects : q # p => purge'[q] = purge[q]
  BY <1>1, <1>2 DEF TypeOK
<1> HIDE DEF r
<1> HIDE DEF attempt
<1>11. row[p] = "purged"
  BY <1>7 DEF RowsTell
<1>12. TypeOK'
  BY <1>1, <1>2, <1>8, <1>9 DEF TypeOK, PurgeRecord, WorkerRecord
<1>13. RowsTell' /\ SucceededMeansGone'
  BY <1>1, <1>3, <1>7, <1>10 DEF RowsTell, SucceededMeansGone
<1>14. /\ v.pc \in Purging /\ v.pc \notin Initializing /\ v.pc \notin {"lost", "gone"}
       /\ worker[w].pc \notin Purging
  BY <1>1, <1>2 DEF Purging, Initializing
<1>15. WorkersHaveProjects' /\ OneInitializer' /\ GoneIsGone'
  BY <1>1, <1>2, <1>10, <1>11, <1>14 DEF WorkersHaveProjects, OneInitializer, GoneIsGone
<1>16. \A u \in Workers : u # w =>
         /\ Owned(u)' => Owned(u) /\ worker[u].project # p
         /\ Owned(u) /\ worker[u].project # p => Owned(u)'
  <2> SUFFICES ASSUME NEW u \in Workers, u # w
               PROVE  /\ Owned(u)' => Owned(u) /\ worker[u].project # p
                      /\ Owned(u) /\ worker[u].project # p => Owned(u)'
    OBVIOUS
  <2>1. worker'[u] = worker[u]
    BY <1>10
  <2>2. CASE worker[u].project = p
    BY <2>1, <2>2, <1>3, <1>10 DEF Owned
  <2>3. CASE worker[u].project # p
    <3>1. purge'[worker[u].project] = purge[worker[u].project]
      BY <1>1, <2>3 DEF TypeOK
    <3> QED
      BY <2>1, <2>3, <3>1 DEF Owned
  <2> QED
    BY <2>2, <2>3
<1>17. LostHasNoLease'
  <2> SUFFICES ASSUME NEW u \in Workers, worker'[u].pc = "lost", Owned(u)',
                      purge'[worker'[u].project].lease
               PROVE  FALSE
    BY DEF LostHasNoLease, HoldsLease
  <2>1. u # w /\ worker'[u] = worker[u]
    BY <1>10, <1>14
  <2>2. Owned(u) /\ worker[u].project # p
    BY <2>1, <1>16
  <2>3. purge'[worker[u].project] = purge[worker[u].project]
    BY <1>1, <2>2 DEF TypeOK
  <2> QED
    BY <2>1, <2>2, <2>3 DEF LostHasNoLease, HoldsLease
<1>18. Held(p)'
  <2>1. Owned(w)'
    BY <1>2, <1>3, <1>10 DEF Owned
  <2> QED
    BY <1>2, <1>10, <1>14, <2>1 DEF Held
<1>19. AttemptsArePaid'
  <2> SUFFICES ASSUME NEW q \in Projects
               PROVE  /\ purge'[q].attempt <= MaxAttempts + faults
                      /\ purge'[q].status \in {"pending", "retry_wait"} =>
                           purge'[q].attempt < MaxAttempts
                      /\ purge'[q].status = "processing" /\ (~purge'[q].lease \/ ~Held(q)') =>
                           purge'[q].attempt < MaxAttempts + faults
    BY <1>1 DEF AttemptsArePaid
  <2>1. CASE q = p
    BY <2>1, <1>3, <1>6, <1>10, <1>18
  <2>2. CASE q # p
    <3>1. purge'[q] = purge[q]
      BY <2>2, <1>10
    <3>2. Held(q) => Held(q)'
      BY <2>2, <1>10, <1>14, <1>16 DEF Held
    <3> QED
      BY <3>1, <3>2 DEF AttemptsArePaid
  <2> QED
    BY <2>1, <2>2
<1> QED
  BY <1>12, <1>13, <1>15, <1>17, <1>19

\* The steps of a purge that leave its row alone.
LEMMA PurgeMoves ==
  ASSUME PurgeInv, NEW w \in Workers, NEW v \in WorkerRecord,
         worker' = [worker EXCEPT ![w] = v], UNCHANGED <<row, dirOp, purge>>,
         worker[w].pc \in Purging, disk' \in {disk, Unmarked, NoProject},
         faults' \in 0..MaxFaults, faults' = faults \/ faults' = faults + 1,
         \/ v = Idle /\ worker[w].pc = "lost"
         \/ /\ v.pc \in Purging /\ v.project = worker[w].project
            /\ v.attempt = worker[w].attempt,
         v.pc = "gone" => disk' = NoProject, v.pc = "lost" => ~HoldsLease(w)
  PROVE  PurgeInv'
<1>1. /\ worker[w].project \in Projects /\ row[worker[w].project] = "purged"
  BY WorkerTypes DEF WorkerFits, Purging
<1>2. v.pc \notin Initializing /\ Idle.pc = "idle" /\ Idle.pc \notin Purging
  BY DEF Purging, Initializing, Idle
<1>3. WorkerFits(v)
  BY <1>1, <1>2 DEF WorkerFits, Initializing, Idle
<1>4. disk' = disk \/ disk' \notin Projects
  BY PurgeAssumption
<1>5. disk' \in Projects \cup {NoProject, Unmarked}
  BY DEF PurgeInv, TypeOK
<1>6. /\ TypeOK' /\ SucceededMeansGone' /\ RowsTell' /\ WorkersHaveProjects'
      /\ OneInitializer' /\ GoneIsGone'
  BY <1>2, <1>3, <1>4, <1>5, WorkerFitsOn
<1>7. worker[w].pc = "lost" /\ Owned(w) => ~purge[worker[w].project].lease
  BY DEF PurgeInv, LostHasNoLease, HoldsLease
<1>8. LostHasNoLease' /\ AttemptsArePaid'
  <2>1. v.pc = "lost" =>
           /\ v.project = worker[w].project /\ v.attempt = worker[w].attempt
           /\ ~HoldsLease(w)
    BY <1>2
  <2>2. \/ /\ faults' = faults
            /\ Owned(w) /\ worker[w].pc \in Purging =>
                 \/ ~purge[worker[w].project].lease
                 \/ /\ v.pc \in Purging /\ v.project = worker[w].project
                    /\ v.attempt = worker[w].attempt
         \/ faults' = faults + 1
    BY <1>7
  <2> QED
    BY <2>1, <2>2, WorkerMoves
<1> QED
  BY <1>6, <1>8 DEF PurgeInv

\* Where a purge goes from a place where its I/O may still be running.
LEMMA PurgePlaces ==
  ASSUME PurgeInv, NEW w \in Workers, worker[w].pc \in Purging,
         NEW pc \in Purging, NEW retryable \in BOOLEAN,
         NEW v, v = [worker[w] EXCEPT !.pc = pc, !.retryable = retryable]
  PROVE  /\ v \in WorkerRecord /\ v.pc = pc /\ v.project = worker[w].project
         /\ v.attempt = worker[w].attempt
  BY DEF PurgeInv, TypeOK, WorkerRecord

LEMMA RenewStep ==
  ASSUME PurgeInv, NEW w \in Workers, RenewRefused(w) \/ RenewRaises(w) PROVE PurgeInv'
<1>1. faults \in 0..MaxFaults /\ worker[w] \in WorkerRecord /\ worker[w].retryable \in BOOLEAN
  BY DEF PurgeInv, TypeOK, WorkerRecord
<1>2. worker[w].pc \in Purging
  BY DEF RenewRefused, RenewRaises, Purging
<1>3. CASE RenewRefused(w)
  <2> DEFINE v == [worker[w] EXCEPT !.pc = "lost"]
  <2>1. /\ worker' = [worker EXCEPT ![w] = v] /\ UNCHANGED <<row, dirOp, purge, disk, faults>>
        /\ ~HoldsLease(w)
    BY <1>3 DEF RenewRefused, HoldsLease
  <2>2. /\ v \in WorkerRecord /\ v.pc = "lost" /\ v.project = worker[w].project
        /\ v.attempt = worker[w].attempt
    BY <1>1 DEF WorkerRecord, Purging
  <2> HIDE DEF v
  <2> QED
    BY <1>1, <1>2, <2>1, <2>2, PurgeMoves DEF Purging
<1>4. CASE RenewRaises(w)
  <2> DEFINE v == [worker[w] EXCEPT !.pc = "broken"]
  <2>1. /\ worker' = [worker EXCEPT ![w] = v] /\ UNCHANGED <<row, dirOp, purge, disk>>
        /\ faults < MaxFaults /\ faults' = faults + 1
    BY <1>4 DEF RenewRaises
  <2>2. /\ v \in WorkerRecord /\ v.pc = "broken" /\ v.project = worker[w].project
        /\ v.attempt = worker[w].attempt
    BY <1>1 DEF WorkerRecord, Purging
  <2>3. faults' \in 0..MaxFaults
    BY <1>1, <2>1, PurgeAssumption
  <2> HIDE DEF v
  <2> QED
    BY <1>2, <2>1, <2>2, <2>3, PurgeMoves DEF Purging
<1> QED
  BY <1>3, <1>4

LEMMA PurgeIoStep == ASSUME PurgeInv, NEW w \in Workers, PurgeIo(w) PROVE PurgeInv'
<1>1. faults \in 0..MaxFaults /\ worker[w] \in WorkerRecord
  BY DEF PurgeInv, TypeOK, WorkerRecord
<1>2. worker[w].pc \in {"purge", "lost", "broken"} /\ worker[w].pc \in Purging
      /\ UNCHANGED <<row, dirOp, purge, faults>>
  BY DEF PurgeIo, PurgeSucceeds, PurgeFails, Purging
<1>3. CASE PurgeSucceeds(w)
  <2>1. disk' = NoProject /\ worker' = [worker EXCEPT ![w] = Removed(worker[w])]
    BY <1>3 DEF PurgeSucceeds
  <2>2. CASE worker[w].pc = "lost"
    <3>1. Removed(worker[w]) = Idle
      BY <2>2 DEF Removed
    <3> QED
      BY <1>1, <1>2, <2>1, <2>2, <3>1, IdleFits, PurgeMoves DEF Purging
  <2>3. CASE worker[w].pc # "lost"
    <3>1. PICK pc \in {"gone", "failed"} : Removed(worker[w]) = [worker[w] EXCEPT !.pc = pc]
      BY <1>2, <2>3 DEF Removed
    <3> DEFINE v == [worker[w] EXCEPT !.pc = pc]
    <3>2. /\ v \in WorkerRecord /\ v.pc = pc /\ v.project = worker[w].project
          /\ v.attempt = worker[w].attempt /\ worker' = [worker EXCEPT ![w] = v]
      BY <1>1, <2>1, <3>1 DEF WorkerRecord, Purging
    <3> HIDE DEF v
    <3> QED
      BY <1>1, <1>2, <2>1, <3>2, PurgeMoves DEF Purging
  <2> QED
    BY <2>2, <2>3
<1>4. ASSUME NEW retryable \in BOOLEAN, PurgeFails(w, retryable) PROVE PurgeInv'
  <2> DEFINE v == [[worker[w] EXCEPT !.pc = "failed"] EXCEPT !.retryable = retryable]
  <2>1. worker' = [worker EXCEPT ![w] = v]
    BY <1>4 DEF PurgeFails, PurgeInv, TypeOK
  <2>2. disk' \in {disk, Unmarked, NoProject}
    BY <1>4 DEF PurgeFails
  <2>3. /\ v \in WorkerRecord /\ v.pc = "failed" /\ v.project = worker[w].project
        /\ v.attempt = worker[w].attempt
    BY <1>1 DEF WorkerRecord, Purging
  <2> HIDE DEF v
  <2> QED
    BY <1>1, <1>2, <2>1, <2>2, <2>3, PurgeMoves DEF Purging
<1> QED
  BY <1>3, <1>4 DEF PurgeIo

\* A write-back of the owner gives the row its outcome.
LEMMA ReportStep ==
  ASSUME PurgeInv, NEW w \in Workers, MarkSucceeded(w) \/ RecordFailure(w)
  PROVE  PurgeInv'
<1> USE DEF PurgeInv
<1> DEFINE p == worker[w].project
<1>1. /\ worker[w].pc \in Purging /\ worker[w].pc # "idle" /\ Owned(w)
      /\ worker' = [worker EXCEPT ![w] = Idle] /\ UNCHANGED <<row, dirOp, disk, faults>>
  BY DEF MarkSucceeded, RecordFailure, Purging
<1>2. p \in Projects /\ row[p] = "purged" /\ worker[w] \in WorkerRecord
  BY <1>1, WorkerTypes DEF WorkerFits
<1>3. purge[p].status = "processing" /\ purge[p].attempt = worker[w].attempt
  BY <1>1 DEF Owned
<1>4. PICK status \in {"succeeded", "failed", "retry_wait"} :
        /\ purge' = Released(p, status)
        /\ status = "succeeded" => worker[w].pc = "gone"
        /\ status = "retry_wait" => ~(worker[w].attempt >= MaxAttempts)
  <2>1. CASE MarkSucceeded(w)
    BY <2>1 DEF MarkSucceeded
  <2>2. CASE RecordFailure(w)
    BY <2>2 DEF RecordFailure, Terminal
  <2> QED
    BY <2>1, <2>2
<1>5. purge[p] \in PurgeRecord /\ purge[p].attempt \in Nat
  BY <1>2 DEF TypeOK, PurgeRecord
<1> DEFINE r == [purge[p] EXCEPT !.status = status, !.owner = NoWorker, !.lease = FALSE]
<1>6. /\ r \in PurgeRecord /\ r.status = status /\ r.attempt = purge[p].attempt
      /\ r.owner = NoWorker /\ r.lease = FALSE
  BY <1>5 DEF PurgeRecord
<1>7. purge' = [purge EXCEPT ![p] = r]
  BY <1>2, <1>4 DEF Released, TypeOK
<1> HIDE DEF r
<1>8. /\ worker'[w] = Idle /\ purge'[p] = r
      /\ \A u \in Workers : u # w => worker'[u] = worker[u]
      /\ \A q \in Projects : q # p => purge'[q] = purge[q]
      /\ Idle.pc = "idle" /\ Idle.pc \notin Purging /\ Idle.pc \notin Initializing
  BY <1>1, <1>2, <1>7 DEF TypeOK, Idle, Purging, Initializing
<1>9. TypeOK'
  BY <1>1, <1>6, <1>7, IdleFits DEF TypeOK, PurgeRecord, WorkerRecord
<1>10. RowsTell'
  BY <1>1, <1>2, <1>6, <1>8 DEF RowsTell
<1>11. SucceededMeansGone'
  <2>1. status = "succeeded" => disk # p
    BY <1>4 DEF GoneIsGone
  <2> QED
    BY <1>1, <1>2, <1>6, <1>8, <2>1 DEF SucceededMeansGone
<1>12. WorkersHaveProjects' /\ OneInitializer' /\ GoneIsGone'
  BY <1>1, <1>8 DEF WorkersHaveProjects, OneInitializer, GoneIsGone
<1>13. \A u \in Workers : u # w =>
         /\ Owned(u)' => Owned(u) /\ worker[u].project # p
         /\ Owned(u) /\ worker[u].project # p /\ worker[u].project \in Projects => Owned(u)'
  <2> SUFFICES ASSUME NEW u \in Workers, u # w
               PROVE  /\ Owned(u)' => Owned(u) /\ worker[u].project # p
                      /\ Owned(u) /\ worker[u].project # p /\ worker[u].project \in Projects
                           => Owned(u)'
    OBVIOUS
  <2>1. worker'[u] = worker[u]
    BY <1>8
  <2>2. CASE worker[u].project = p
    BY <2>1, <2>2, <1>4, <1>6, <1>8 DEF Owned
  <2>3. CASE worker[u].project # p
    <3>1. purge'[worker[u].project] = purge[worker[u].project]
      BY <1>7, <2>3 DEF TypeOK
    <3> QED
      BY <2>1, <2>3, <3>1 DEF Owned
  <2> QED
    BY <2>2, <2>3
<1>14. LostHasNoLease'
  <2> SUFFICES ASSUME NEW u \in Workers, worker'[u].pc = "lost", Owned(u)',
                      purge'[worker'[u].project].lease
               PROVE  FALSE
    BY DEF LostHasNoLease, HoldsLease
  <2>1. u # w /\ worker'[u] = worker[u]
    BY <1>8
  <2>2. Owned(u) /\ worker[u].project # p
    BY <2>1, <1>13
  <2>3. purge'[worker[u].project] = purge[worker[u].project]
    BY <1>7, <2>2 DEF TypeOK
  <2> QED
    BY <2>1, <2>2, <2>3 DEF LostHasNoLease, HoldsLease
<1>15. AttemptsArePaid'
  <2> SUFFICES ASSUME NEW q \in Projects
               PROVE  /\ purge'[q].attempt <= MaxAttempts + faults
                      /\ purge'[q].status \in {"pending", "retry_wait"} =>
                           purge'[q].attempt < MaxAttempts
                      /\ purge'[q].status = "processing" /\ (~purge'[q].lease \/ ~Held(q)') =>
                           purge'[q].attempt < MaxAttempts + faults
    BY <1>1 DEF AttemptsArePaid
  <2>1. CASE q = p
    <3>1. purge[p].attempt <= MaxAttempts + faults
      BY <1>2 DEF AttemptsArePaid
    <3>2. status = "retry_wait" => purge[p].attempt < MaxAttempts
      BY <1>3, <1>4, <1>5, PurgeAssumption
    <3> QED
      BY <2>1, <1>6, <1>8, <3>1, <3>2
  <2>2. CASE q # p
    <3>1. purge'[q] = purge[q]
      BY <2>2, <1>8
    <3>2. Held(q) => Held(q)'
      BY <2>2, <1>8, <1>13 DEF Held
    <3> QED
      BY <3>1, <3>2 DEF AttemptsArePaid
  <2> QED
    BY <2>1, <2>2
<1> QED
  BY <1>9, <1>10, <1>11, <1>12, <1>14, <1>15

\* A worker that leaves its row as it is: late, or dead.
LEMMA LeaveStep ==
  ASSUME PurgeInv, NEW w \in Workers, LateResult(w) \/ Crash(w) PROVE PurgeInv'
<1>1. /\ worker' = [worker EXCEPT ![w] = Idle] /\ UNCHANGED <<row, dirOp, purge, disk>>
  BY DEF LateResult, Crash
<1>2. faults \in 0..MaxFaults /\ disk \in Projects \cup {NoProject, Unmarked}
  BY DEF PurgeInv, TypeOK
<1>3. faults' \in 0..MaxFaults
  <2>1. CASE LateResult(w)
    BY <1>2, <2>1 DEF LateResult
  <2>2. CASE Crash(w)
    BY <1>2, <2>2, PurgeAssumption DEF Crash
  <2> QED
    BY <2>1, <2>2
<1>4. Idle.pc = "idle" /\ Idle.pc \notin Initializing
  BY DEF Idle, Initializing
<1>5. /\ TypeOK' /\ SucceededMeansGone' /\ RowsTell' /\ WorkersHaveProjects'
      /\ OneInitializer' /\ GoneIsGone'
  BY <1>1, <1>2, <1>3, <1>4, IdleFits, WorkerFitsOn
<1>6. LostHasNoLease' /\ AttemptsArePaid'
  <2>1. CASE LateResult(w)
    BY <1>1, <1>3, <1>4, <2>1, IdleFits, WorkerMoves DEF LateResult
  <2>2. CASE Crash(w)
    BY <1>1, <1>3, <1>4, <2>2, IdleFits, WorkerMoves DEF Crash
  <2> QED
    BY <2>1, <2>2
<1> QED
  BY <1>5, <1>6 DEF PurgeInv

-----------------------------------------------------------------------------
(* Time.                                                                   *)

LEMMA ClockEffect ==
  ASSUME PurgeInv, NEW p \in Projects, LeaseExpires(p) \/ RetryTimeComes(p)
  PROVE  \E r \in PurgeRecord :
           /\ purge' = [purge EXCEPT ![p] = r]
           /\ r.status = purge[p].status /\ r.attempt = purge[p].attempt
           /\ r.owner = purge[p].owner
           /\ r.lease => purge[p].lease
           /\ RetryTimeComes(p) => r.status # "processing"
<1>0. purge[p] \in PurgeRecord
  BY DEF PurgeInv, TypeOK, PurgeRecord
<1>1. CASE LeaseExpires(p)
  <2> DEFINE r == [purge[p] EXCEPT !.lease = FALSE]
  <2>1. /\ r \in PurgeRecord /\ r.status = purge[p].status /\ r.attempt = purge[p].attempt
        /\ r.owner = purge[p].owner /\ r.lease = FALSE
        /\ purge' = [purge EXCEPT ![p] = r]
    BY <1>0, <1>1 DEF PurgeRecord, LeaseExpires
  <2>2. RetryTimeComes(p) => r.status # "processing"
    BY <2>1 DEF RetryTimeComes
  <2> HIDE DEF r
  <2> QED
    BY <2>1, <2>2
<1>2. CASE RetryTimeComes(p)
  <2> DEFINE r == [purge[p] EXCEPT !.due = TRUE]
  <2>1. /\ r \in PurgeRecord /\ r.status = purge[p].status /\ r.attempt = purge[p].attempt
        /\ r.owner = purge[p].owner /\ r.lease = purge[p].lease
        /\ purge' = [purge EXCEPT ![p] = r] /\ purge[p].status = "retry_wait"
    BY <1>0, <1>2 DEF PurgeRecord, RetryTimeComes
  <2> HIDE DEF r
  <2> QED
    BY <2>1
<1> QED
  BY <1>1, <1>2

LEMMA ClockStep ==
  ASSUME PurgeInv, NEW p \in Projects, LeaseExpires(p) \/ RetryTimeComes(p)
  PROVE  PurgeInv'
<1> USE DEF PurgeInv
<1>1. /\ UNCHANGED <<row, dirOp, worker, disk>>
      /\ purge[p] \in PurgeRecord /\ faults \in 0..MaxFaults
  BY DEF LeaseExpires, RetryTimeComes, TypeOK, PurgeRecord
<1>2. PICK r \in PurgeRecord :
        /\ purge' = [purge EXCEPT ![p] = r]
        /\ r.status = purge[p].status /\ r.attempt = purge[p].attempt
        /\ r.owner = purge[p].owner
        /\ r.lease => purge[p].lease
        /\ RetryTimeComes(p) => r.status # "processing"
  BY ClockEffect
<1>3. /\ purge'[p] = r /\ \A q \in Projects : q # p => purge'[q] = purge[q]
      /\ \A w \in Workers : worker'[w] = worker[w]
  BY <1>1, <1>2 DEF TypeOK
<1>4. \A q \in Projects : /\ purge'[q].status = purge[q].status
                          /\ purge'[q].attempt = purge[q].attempt
                          /\ purge'[q].owner = purge[q].owner
                          /\ purge'[q].lease => purge[q].lease
  BY <1>2, <1>3
<1>5. \A w \in Workers : worker[w].project \in Projects => (Owned(w)' <=> Owned(w))
  BY <1>1, <1>4 DEF Owned
<1>6. faults' \in 0..MaxFaults /\ (faults' = faults \/ faults' = faults + 1)
  <2>1. CASE faults < MaxFaults /\ faults' = faults + 1
    BY <1>1, <2>1, PurgeAssumption
  <2>2. CASE faults' = faults
    BY <1>1, <2>2
  <2> QED
    BY <2>1, <2>2 DEF LeaseExpires, RetryTimeComes
<1>7. TypeOK'
  BY <1>1, <1>2, <1>6 DEF TypeOK, PurgeRecord
<1>8. RowsTell' /\ SucceededMeansGone' /\ WorkersHaveProjects' /\ OneInitializer' /\ GoneIsGone'
  BY <1>1, <1>4
  DEF RowsTell, SucceededMeansGone, WorkersHaveProjects, OneInitializer, GoneIsGone
<1>9. LostHasNoLease'
  <2> SUFFICES ASSUME NEW w \in Workers, worker[w].pc = "lost"
               PROVE  ~(Owned(w)' /\ purge'[worker[w].project].lease)
    BY <1>1 DEF LostHasNoLease, HoldsLease
  <2>1. worker[w].project \in Projects
    BY DEF WorkersHaveProjects
  <2> QED
    BY <1>4, <1>5, <2>1 DEF LostHasNoLease, HoldsLease
<1>10. \A q \in Projects : Held(q)' <=> Held(q)
  BY <1>3, <1>5 DEF Held
<1>11. ASSUME NEW q \in Projects
       PROVE  /\ purge'[q].attempt <= MaxAttempts + faults'
              /\ purge'[q].status \in {"pending", "retry_wait"} =>
                   purge'[q].attempt < MaxAttempts
              /\ purge'[q].status = "processing" /\ (~purge'[q].lease \/ ~Held(q)') =>
                   purge'[q].attempt < MaxAttempts + faults'
  <2>1. /\ purge[q].attempt \in Nat /\ faults \in Nat /\ MaxAttempts \in Nat
    BY PurgeAssumption DEF TypeOK
  <2>2. /\ purge[q].attempt <= MaxAttempts + faults
        /\ purge[q].status \in {"pending", "retry_wait"} => purge[q].attempt < MaxAttempts
        /\ purge[q].status = "processing" /\ (~purge[q].lease \/ ~Held(q)) =>
             purge[q].attempt < MaxAttempts + faults
    BY DEF AttemptsArePaid
  <2>3. CASE faults' = faults + 1
    <3>1. purge[q].attempt <= MaxAttempts + faults' /\ purge[q].attempt < MaxAttempts + faults'
      BY <2>1, <2>2, <2>3
    <3> QED
      BY <1>4, <2>2, <3>1
  <2>4. CASE faults' # faults + 1
    <3>1. faults' = faults
      BY <1>6, <2>4
    <3>2. purge[q].status = "processing" /\ Held(q) => q # p \/ r.lease = purge[p].lease
      BY <2>1, <2>4, <3>1, <1>2 DEF LeaseExpires, RetryTimeComes, Held
    <3>3. purge[q].status = "processing" /\ Held(q) => purge'[q].lease = purge[q].lease
      BY <1>3, <3>2
    <3> QED
      BY <1>4, <1>10, <2>2, <3>1, <3>3
  <2> QED
    BY <2>3, <2>4
<1>12. AttemptsArePaid'
  BY <1>11 DEF AttemptsArePaid
<1> QED
  BY <1>7, <1>8, <1>9, <1>12

-----------------------------------------------------------------------------
LEMMA PurgeStepInv == PurgeInv /\ [Next]_vars => PurgeInv'
<1>1. CASE UNCHANGED vars
  BY <1>1
  DEF vars, PurgeInv, TypeOK, SucceededMeansGone, RowsTell, WorkersHaveProjects, OneInitializer,
      GoneIsGone, LostHasNoLease, HoldsLease, AttemptsArePaid, Held, Owned
<1>2. ASSUME PurgeInv, Next PROVE PurgeInv'
  BY <1>2, CreateStep, PurgeProjectStep, ClockStep, ClaimDirectoryStep, ClaimPurgeStep,
     DirectoryMovesStep, FinishStep, RenewStep, PurgeIoStep, ReportStep, LeaveStep
  DEF Next, DirectoryStep, WriteBack
<1> QED
  BY <1>1, <1>2

\* Once a purge has succeeded the project's directory is gone for good, nobody
\* creates directories for a purged project, and no purge is claimed more often
\* than its attempts and the faults that cost it a claim allow: the fences of
\* project_purge_dao.py are enough, also when a claim is taken over while the
\* first worker's rmtree still runs.
THEOREM PurgedIsGone == Spec => []PurgeSafe
  BY PurgeInitInv, PurgeStepInv, InvMeansSafe, PTL DEF Spec

-----------------------------------------------------------------------------
(* The purge queue as a lease queue with takeover.                         *)

Epochs == [p \in Projects |-> purge[p].attempt]
At(v) == IF v.pc \in Purging THEN <<v.project, v.attempt>> ELSE <<>>
Running == [w \in Workers |-> At(worker[w])]

\* One place of a function of the state, or of the mapping, changes.
RowBecomes(p, r) == purge' = [purge EXCEPT ![p] = r]
WorkerBecomes(w, v) == worker' = [worker EXCEPT ![w] = v]
StageBecomes(p, s) == QueueState' = [QueueState EXCEPT ![p] = s]
EpochBecomes(p, e) == Epochs' = [Epochs EXCEPT ![p] = e]
RunBecomes(w, seat) == Running' = [Running EXCEPT ![w] = seat]

LEMMA QueueMapped ==
  /\ Queue!QueueInit <=>
       /\ QueueState \in [Projects -> {"absent", "queued", "done"}]
       /\ Epochs = [p \in Projects |-> 0]
       /\ Running = [w \in Workers |-> <<>>]
  /\ Queue!queueVars = <<QueueState, Epochs, Running>>
  /\ \A p \in Projects : Epochs[p] = purge[p].attempt /\ QueueState[p] = QueueStage(purge[p].status)
  /\ \A w \in Workers : Running[w] = At(worker[w])
  BY DEF Epochs, Running, At, QueueState, Queue!QueueInit, Queue!queueVars

LEMMA QueueMappedNext == (Queue!queueVars = <<QueueState, Epochs, Running>>)'
  BY QueueMapped, PTL

LEMMA QueueInitMapped == Init => Queue!QueueInit
<1> SUFFICES ASSUME Init PROVE Queue!QueueInit
  OBVIOUS
<1>1. \A p \in Projects : purge[p].status = "none" /\ purge[p].attempt = 0
  BY DEF Init, NoPurge
<1>2. \A w \in Workers : At(worker[w]) = <<>>
  BY DEF Init, Idle, At, Purging
<1>3. QueueState \in [Projects -> {"absent", "queued", "done"}]
  BY <1>1 DEF QueueState, QueueStage
<1>4. Epochs = [p \in Projects |-> 0] /\ Running = [w \in Workers |-> <<>>]
  BY <1>1, <1>2 DEF Epochs, Running
<1> QED
  BY <1>3, <1>4, QueueMapped

\* What the abstract actions say of the mapped state.
LEMMA SubmitMapped ==
  ASSUME NEW p \in Projects, QueueState[p] = "absent",
         StageBecomes(p, "queued"), UNCHANGED <<Epochs, Running>>
  PROVE  Queue!QueueNext
<1>1. Queue!Submit(p)
  BY DEF Queue!Submit, Epochs, Running, At, StageBecomes, EpochBecomes, RunBecomes
<1> QED
  BY <1>1 DEF Queue!QueueNext

LEMMA TakeMapped ==
  ASSUME NEW w \in Workers, NEW p \in Projects, Running[w] = <<>>,
         QueueState[p] \in {"queued", "claimed"},
         StageBecomes(p, "claimed"),
         EpochBecomes(p, Epochs[p] + 1),
         RunBecomes(w, <<p, Epochs[p] + 1>>)
  PROVE  Queue!QueueNext
<1>1. Queue!Take(w, p)
  BY DEF Queue!Take, Epochs, Running, At, StageBecomes, EpochBecomes, RunBecomes
<1> QED
  BY <1>1 DEF Queue!QueueNext

LEMMA ReportMapped ==
  ASSUME NEW w \in Workers, NEW p \in Projects, NEW outcome \in {"queued", "done", "dead"},
         Running[w] = <<p, Epochs[p]>>, QueueState[p] = "claimed",
         StageBecomes(p, outcome), UNCHANGED Epochs,
         RunBecomes(w, <<>>)
  PROVE  Queue!QueueNext
<1>1. Queue!Report(w, p, outcome)
  BY DEF Queue!Report, Epochs, Running, At, StageBecomes, EpochBecomes, RunBecomes
<1> QED
  BY <1>1 DEF Queue!QueueNext

LEMMA DropMapped ==
  ASSUME NEW w \in Workers, Running[w] # <<>>, UNCHANGED <<QueueState, Epochs>>,
         RunBecomes(w, <<>>)
  PROVE  Queue!QueueNext
<1>1. Queue!Drop(w)
  BY DEF Queue!Drop, Epochs, Running, At, StageBecomes, EpochBecomes, RunBecomes
<1> QED
  BY <1>1 DEF Queue!QueueNext

\* The mapping under a step of one row and of one worker.
LEMMA RowMoves ==
  ASSUME PurgeInv, NEW p \in Projects, NEW r, RowBecomes(p, r),
         NEW stage, QueueStage(r.status) = stage, NEW epoch, r.attempt = epoch
  PROVE  /\ StageBecomes(p, stage)
         /\ EpochBecomes(p, epoch)
<1>1. /\ purge'[p] = r /\ \A q \in Projects : q # p => purge'[q] = purge[q]
  BY DEF RowBecomes, PurgeInv, TypeOK
<1>2. StageBecomes(p, stage)
  <2>1. /\ QueueState' = [q \in Projects |-> QueueStage(purge'[q].status)]
        /\ [QueueState EXCEPT ![p] = stage]
             = [q \in Projects |-> IF q = p THEN stage ELSE QueueState[q]]
    BY DEF QueueState
  <2>2. \A q \in Projects :
          QueueStage(purge'[q].status) = IF q = p THEN stage ELSE QueueState[q]
    BY <1>1 DEF QueueState
  <2> QED
    BY <2>1, <2>2 DEF StageBecomes
<1>3. EpochBecomes(p, epoch)
  <2>1. /\ Epochs' = [q \in Projects |-> purge'[q].attempt]
        /\ [Epochs EXCEPT ![p] = epoch]
             = [q \in Projects |-> IF q = p THEN epoch ELSE Epochs[q]]
    BY DEF Epochs
  <2>2. \A q \in Projects : purge'[q].attempt = IF q = p THEN epoch ELSE Epochs[q]
    BY <1>1 DEF Epochs
  <2> QED
    BY <2>1, <2>2 DEF EpochBecomes
<1> QED
  BY <1>2, <1>3
LEMMA WorkerRuns ==
  ASSUME PurgeInv, NEW w \in Workers, NEW v, WorkerBecomes(w, v),
         NEW at, At(v) = at
  PROVE  RunBecomes(w, at)
<1>1. /\ worker'[w] = v /\ \A u \in Workers : u # w => worker'[u] = worker[u]
  BY DEF WorkerBecomes, PurgeInv, TypeOK
<1>2. /\ Running' = [u \in Workers |-> At(worker'[u])]
      /\ [Running EXCEPT ![w] = at] = [u \in Workers |-> IF u = w THEN at ELSE Running[u]]
  BY DEF Running
<1>3. \A u \in Workers : At(worker'[u]) = IF u = w THEN at ELSE Running[u]
  BY <1>1 DEF Running
<1> QED
  BY <1>2, <1>3 DEF RunBecomes
LEMMA WorkerRests ==
  ASSUME PurgeInv, NEW w \in Workers, NEW v, WorkerBecomes(w, v),
         At(v) = At(worker[w]), UNCHANGED purge
  PROVE  UNCHANGED <<QueueState, Epochs, Running>>
<1>1. RunBecomes(w, Running[w])
  BY WorkerRuns, QueueMapped
<1> QED
  BY <1>1 DEF Running, QueueState, Epochs, StageBecomes, EpochBecomes, RunBecomes
LEMMA RowRests ==
  ASSUME PurgeInv, NEW p \in Projects, NEW r, RowBecomes(p, r),
         QueueStage(r.status) = QueueStage(purge[p].status), r.attempt = purge[p].attempt,
         UNCHANGED worker
  PROVE  UNCHANGED <<QueueState, Epochs, Running>>
<1>1. /\ StageBecomes(p, QueueState[p])
      /\ EpochBecomes(p, Epochs[p])
  BY RowMoves, QueueMapped
<1> QED
  BY <1>1 DEF Running, QueueState, Epochs, StageBecomes, EpochBecomes, RunBecomes

LEMMA AtIdle == At(Idle) = <<>> /\ \A a, b : <<a, b>> # <<>>
  BY DEF At, Idle, Purging

LEMMA PurgeProjectSubmits ==
  ASSUME PurgeInv, NEW p \in Projects, PurgeProject(p) PROVE Queue!QueueNext
<1> DEFINE new == [NoPurge EXCEPT !.status = "pending", !.due = TRUE]
<1>1. new.status = "pending" /\ new.attempt = 0 /\ RowBecomes(p, new)
  BY DEF NoPurge, PurgeProject, RowBecomes
<1> HIDE DEF new
<1>2. purge[p].status = "none"
  BY DEF PurgeProject, PurgeInv, RowsTell
<1>3. QueueState[p] = "absent" /\ Epochs[p] = 0 /\ QueueStage("pending") = "queued"
  <2>1. purge[p].attempt = 0
    BY <1>2 DEF PurgeInv, RowsTell
  <2> QED
    BY <1>2, <2>1, QueueMapped DEF QueueStage
<1>4. /\ StageBecomes(p, "queued")
      /\ EpochBecomes(p, Epochs[p])
  BY <1>1, <1>3, RowMoves
<1>5. UNCHANGED <<Epochs, Running>>
  BY <1>4 DEF Epochs, EpochBecomes, Running, PurgeProject
<1> QED
  BY <1>3, <1>4, <1>5, SubmitMapped

LEMMA ClaimTakes ==
  ASSUME PurgeInv, NEW w \in Workers, NEW p \in Projects, ClaimPurge(w, p)
  PROVE  Queue!QueueNext
<1> DEFINE attempt == purge[p].attempt + 1
           r == [status |-> "processing", attempt |-> attempt, owner |-> w,
                 lease |-> TRUE, due |-> FALSE]
<1>1. /\ worker[w].pc = "idle" /\ RowBecomes(p, r)
      /\ r.status = "processing" /\ r.attempt = attempt
  BY DEF ClaimPurge, RowBecomes
<1>2. PICK v : /\ WorkerBecomes(w, v)
               /\ v.pc \in {"failed", "purge"} /\ v.project = p /\ v.attempt = attempt
  BY ClaimedWorker DEF WorkerBecomes
<1> HIDE DEF r
<1>3. At(v) = <<p, attempt>> /\ At(worker[w]) = <<>>
  BY <1>1, <1>2 DEF At, Purging
<1>4. Epochs[p] = purge[p].attempt /\ Running[w] = <<>>
  BY <1>3, QueueMapped
<1>5. QueueState[p] \in {"queued", "claimed"} /\ QueueStage("processing") = "claimed"
  BY QueueMapped DEF ClaimPurge, Due, QueueStage
<1>6. /\ StageBecomes(p, "claimed")
      /\ EpochBecomes(p, Epochs[p] + 1)
  BY <1>1, <1>4, <1>5, RowMoves
<1>7. RunBecomes(w, <<p, Epochs[p] + 1>>)
  BY <1>2, <1>3, <1>4, WorkerRuns
<1> QED
  BY <1>4, <1>5, <1>6, <1>7, TakeMapped

LEMMA WriteBackReports ==
  ASSUME PurgeInv, NEW w \in Workers, MarkSucceeded(w) \/ RecordFailure(w)
  PROVE  Queue!QueueNext
<1> DEFINE p == worker[w].project
<1>1. /\ worker[w].pc \in Purging /\ Owned(w) /\ WorkerBecomes(w, Idle)
  BY DEF MarkSucceeded, RecordFailure, Purging, WorkerBecomes
<1>2. p \in Projects
  BY <1>1, WorkerTypes DEF WorkerFits, Purging
<1>3. purge[p].status = "processing" /\ purge[p].attempt = worker[w].attempt
  BY <1>1 DEF Owned
<1>4. PICK status \in {"succeeded", "failed", "retry_wait"} : purge' = Released(p, status)
  BY DEF MarkSucceeded, RecordFailure
<1> DEFINE r == [purge[p] EXCEPT !.status = status, !.owner = NoWorker, !.lease = FALSE]
<1>5. r.status = status /\ r.attempt = purge[p].attempt /\ RowBecomes(p, r)
  <2>1. purge[p] \in PurgeRecord
    BY <1>2 DEF PurgeInv, TypeOK, PurgeRecord
  <2>2. r.status = status /\ r.attempt = purge[p].attempt
    BY <2>1 DEF PurgeRecord
  <2>3. RowBecomes(p, r)
    BY <1>2, <1>4 DEF Released, RowBecomes, PurgeInv, TypeOK
  <2> QED
    BY <2>2, <2>3
<1> HIDE DEF r
<1>6. PICK outcome \in {"queued", "done", "dead"} : QueueStage(status) = outcome
  BY DEF QueueStage
<1>7. Running[w] = <<p, Epochs[p]>> /\ QueueState[p] = "claimed"
  BY <1>1, <1>2, <1>3, QueueMapped DEF At, QueueStage
<1>8. /\ StageBecomes(p, outcome)
      /\ EpochBecomes(p, Epochs[p])
  BY <1>2, <1>5, <1>6, QueueMapped, RowMoves
<1>9. Epochs' = Epochs
  BY <1>8 DEF Epochs, EpochBecomes
<1>10. RunBecomes(w, <<>>)
  BY <1>1, AtIdle, WorkerRuns
<1> QED
  BY <1>2, <1>7, <1>8, <1>9, <1>10, ReportMapped

\* A worker that gives up its row, or one that had none.
LEMMA GivingUpDrops ==
  ASSUME PurgeInv, NEW w \in Workers, WorkerBecomes(w, Idle), UNCHANGED purge
  PROVE  [Queue!QueueNext]_(Queue!queueVars)
<1>1. CASE worker[w].pc \in Purging
  <2>1. Running[w] # <<>> /\ RunBecomes(w, <<>>)
    <3>1. At(worker[w]) # <<>> /\ Running[w] = At(worker[w])
      BY <1>1, AtIdle, QueueMapped DEF At
    <3>2. RunBecomes(w, <<>>)
      BY AtIdle, WorkerRuns
    <3> QED
      BY <3>1, <3>2
  <2>2. UNCHANGED <<QueueState, Epochs>>
    BY DEF QueueState, Epochs
  <2> QED
    BY <2>1, <2>2, DropMapped
<1>2. CASE worker[w].pc \notin Purging
  <2>1. At(worker[w]) = At(Idle)
    BY <1>2, AtIdle DEF At
  <2>2. UNCHANGED <<QueueState, Epochs, Running>>
    BY <2>1, WorkerRests
  <2> QED
    BY <2>2, QueueMapped, QueueMappedNext
<1> QED
  BY <1>1, <1>2

LEMMA WorkersRest ==
  ASSUME PurgeInv, NEW w \in Workers, UNCHANGED purge, NEW v,
         WorkerBecomes(w, v),
         \/ worker[w].pc \notin Purging /\ v.pc \notin Purging
         \/ /\ worker[w].pc \in Purging /\ v.pc \in Purging
            /\ v.project = worker[w].project /\ v.attempt = worker[w].attempt
  PROVE  [Queue!QueueNext]_(Queue!queueVars)
<1>1. At(v) = At(worker[w])
  BY DEF At
<1>2. UNCHANGED <<QueueState, Epochs, Running>>
  BY <1>1, WorkerRests
<1> QED
  BY <1>2, QueueMapped, QueueMappedNext

\* The steps of the directory worker, and those of a purge that goes on.
LEMMA OthersRest ==
  ASSUME PurgeInv, NEW w \in Workers,
         \/ DirectoryStep(w) \/ RenewRefused(w) \/ RenewRaises(w) \/ PurgeIo(w)
  PROVE  [Queue!QueueNext]_(Queue!queueVars)
<1>0. worker[w] \in WorkerRecord
  BY WorkerTypes
<1>1. CASE FinishDirectory(w)
  BY <1>1, GivingUpDrops DEF FinishDirectory, WorkerBecomes
<1>2. CASE MakeDirectory(w) \/ MarkDirectory(w)
  <2>1. PICK pc \in {"mark", "ready", "conflict"} : worker' = [worker EXCEPT ![w].pc = pc]
    BY <1>2, DirectoryMoves
  <2> DEFINE v == [worker[w] EXCEPT !.pc = pc]
  <2>2. v.pc = pc /\ WorkerBecomes(w, v)
    BY <1>0, <2>1 DEF WorkerRecord, WorkerBecomes, PurgeInv, TypeOK
  <2> HIDE DEF v
  <2>3. worker[w].pc \notin Purging /\ v.pc \notin Purging /\ UNCHANGED purge
    BY <1>2, <2>2 DEF MakeDirectory, MarkDirectory, Purging
  <2> QED
    BY <2>2, <2>3, WorkersRest
<1>3. CASE PurgeSucceeds(w) /\ worker[w].pc = "lost"
  BY <1>3, GivingUpDrops DEF PurgeSucceeds, Removed, WorkerBecomes
<1>4. ASSUME NEW v, WorkerBecomes(w, v), worker[w].pc \in Purging, UNCHANGED purge,
             v.pc \in Purging, v.project = worker[w].project, v.attempt = worker[w].attempt
      PROVE  [Queue!QueueNext]_(Queue!queueVars)
  BY <1>4, WorkersRest
<1>5. CASE PurgeSucceeds(w) /\ worker[w].pc # "lost"
  <2>1. PICK pc \in {"gone", "failed"} : Removed(worker[w]) = [worker[w] EXCEPT !.pc = pc]
    BY <1>5 DEF Removed, PurgeSucceeds
  <2> DEFINE v == [worker[w] EXCEPT !.pc = pc]
  <2>2. /\ v.pc = pc /\ v.project = worker[w].project /\ v.attempt = worker[w].attempt
    BY <1>0 DEF WorkerRecord
  <2>3. WorkerBecomes(w, v) /\ UNCHANGED purge /\ worker[w].pc \in Purging
    BY <1>5, <2>1 DEF PurgeSucceeds, WorkerBecomes, Purging
  <2> HIDE DEF v
  <2> QED
    BY <1>4, <2>2, <2>3 DEF Purging
<1>6. ASSUME NEW retryable \in BOOLEAN, PurgeFails(w, retryable)
      PROVE  [Queue!QueueNext]_(Queue!queueVars)
  <2> DEFINE v == [[worker[w] EXCEPT !.pc = "failed"] EXCEPT !.retryable = retryable]
  <2>1. /\ v.pc = "failed" /\ v.project = worker[w].project /\ v.attempt = worker[w].attempt
    BY <1>0 DEF WorkerRecord
  <2>2. WorkerBecomes(w, v) /\ UNCHANGED purge /\ worker[w].pc \in Purging
    BY <1>6 DEF PurgeFails, WorkerBecomes, PurgeInv, TypeOK, Purging
  <2> HIDE DEF v
  <2> QED
    BY <1>4, <2>1, <2>2 DEF Purging
<1>7. ASSUME NEW pc \in {"lost", "broken"}, worker' = [worker EXCEPT ![w].pc = pc],
             worker[w].pc = "purge", UNCHANGED purge
      PROVE  [Queue!QueueNext]_(Queue!queueVars)
  <2> DEFINE v == [worker[w] EXCEPT !.pc = pc]
  <2>1. /\ v.pc = pc /\ v.project = worker[w].project /\ v.attempt = worker[w].attempt
        /\ WorkerBecomes(w, v)
    BY <1>0, <1>7 DEF WorkerRecord, WorkerBecomes, PurgeInv, TypeOK
  <2> HIDE DEF v
  <2> QED
    BY <1>4, <1>7, <2>1 DEF Purging
<1> QED
  BY <1>1, <1>2, <1>3, <1>5, <1>6, <1>7 DEF DirectoryStep, PurgeIo, RenewRefused, RenewRaises

LEMMA ClockRests ==
  ASSUME PurgeInv, NEW p \in Projects, LeaseExpires(p) \/ RetryTimeComes(p)
  PROVE  [Queue!QueueNext]_(Queue!queueVars)
<1>1. PICK r : /\ RowBecomes(p, r) /\ r.status = purge[p].status
               /\ r.attempt = purge[p].attempt
  BY ClockEffect DEF RowBecomes
<1>2. UNCHANGED <<QueueState, Epochs, Running>>
  BY <1>1, RowRests DEF LeaseExpires, RetryTimeComes
<1> QED
  BY <1>2, QueueMapped, QueueMappedNext

LEMMA PurgeStepMapped == PurgeInv /\ [Next]_vars => [Queue!QueueNext]_(Queue!queueVars)
<1>1. ASSUME UNCHANGED <<purge, worker>>
      PROVE  [Queue!QueueNext]_(Queue!queueVars)
  <2>1. UNCHANGED <<QueueState, Epochs, Running>>
    BY <1>1 DEF QueueState, Epochs, Running
  <2> QED
    BY <2>1, QueueMapped, QueueMappedNext
<1>2. CASE UNCHANGED vars
  BY <1>1, <1>2 DEF vars
<1>3. ASSUME PurgeInv, Next PROVE [Queue!QueueNext]_(Queue!queueVars)
  <2>1. ASSUME NEW p \in Projects, CreateProject(p) PROVE [Queue!QueueNext]_(Queue!queueVars)
    BY <1>1, <2>1 DEF CreateProject
  <2>2. ASSUME NEW w \in Workers, NEW p \in Projects, ClaimDirectory(w, p)
        PROVE  [Queue!QueueNext]_(Queue!queueVars)
    <3> DEFINE v == [Idle EXCEPT !.pc = "make", !.project = p]
    <3>1. v.pc = "make" /\ WorkerBecomes(w, v) /\ worker[w].pc = "idle"
      BY <2>2 DEF ClaimDirectory, WorkerBecomes, Idle
    <3> HIDE DEF v
    <3>2. worker[w].pc \notin Purging /\ v.pc \notin Purging /\ UNCHANGED purge
      BY <2>2, <3>1 DEF ClaimDirectory, Purging
    <3> QED
      BY <1>3, <3>1, <3>2, WorkersRest
  <2>3. ASSUME NEW w \in Workers, LateResult(w) \/ Crash(w)
        PROVE  [Queue!QueueNext]_(Queue!queueVars)
    BY <1>3, <2>3, GivingUpDrops DEF LateResult, Crash, WorkerBecomes
  <2> QED
    BY <1>3, <2>1, <2>2, <2>3, PurgeProjectSubmits, ClaimTakes, WriteBackReports, OthersRest,
       ClockRests
    DEF Next, WriteBack
<1> QED
  BY <1>2, <1>3

\* Claims, takeovers, late results and deaths of the purge worker are those of a
\* lease queue with takeover: the result that counts is the one of the newest
\* claim, and a finished purge is never run again.
THEOREM PurgeImplementsQueue == Spec => ImplementsQueue
<1>1. Init => Queue!QueueInit
  BY QueueInitMapped
<1> QED
  BY <1>1, PurgeInitInv, PurgeStepInv, PurgeStepMapped, PTL
  DEF Spec, ImplementsQueue, Queue!QueueSpec

(***************************************************************************)
(* The life of plugins.                                                    *)
(***************************************************************************)
PluginRecord ==
  [known : BOOLEAN, installed : BOOLEAN, on : BOOLEAN, served : BOOLEAN,
   status : {"discovered", "installed", "error", "dependency_error"}]
ProcessRecord ==
  [kind : Operations \cup {"none", "start"}, plugin : SUBSET Plugins,
   at : Stages, todo : SUBSET Plugins, registry : SUBSET Plugins, lost : BOOLEAN]

ProcessTypes ==
  /\ lifecycleLock \in Processes \cup {Free, Dead}
  /\ lifecycleLock \in Processes =>
       process[lifecycleLock].at \notin {"rest", "serving", "shutdown"}
  /\ process \in [Processes -> ProcessRecord]
StoreTypes ==
  /\ record \in [Plugins -> PluginRecord]
  /\ history \in [Plugins -> {"none", "running", "success", "failed"}]
  /\ applied \in [Plugins -> Nat]
  /\ unsure \subseteq Plugins /\ blindly \subseteq Plugins
EnvironmentTypes ==
  /\ ready \in {"missing", "success", "failed"}
  /\ unimportable \subseteq Plugins /\ troubles \in 0..MaxTroubles
  /\ overlap \in BOOLEAN

LEMMA TypesAreThese == PluginTypeOK <=> ProcessTypes /\ StoreTypes /\ EnvironmentTypes
BY DEF PluginTypeOK, ProcessTypes, StoreTypes, EnvironmentTypes, PluginRecord, ProcessRecord

\* In the middle of an operation, which began with the lock.
Working(r) == process[r].at \notin {"rest", "serving", "shutdown"}
Installing == {"upsert", "migrate", "execute", "executed", "failed", "finish"}
OnPlugin == Installing \cup {"check", "report", "write"}
OfStart == {"defaults", "imports", "resources", "hooks"}

\* Each stage belongs to some operations; an operation on a plugin has one, and
\* a start installs only default plugins.  Who has lost the lock is in the
\* middle of an operation.
StageFits(r) ==
  /\ process[r].at \in OnPlugin => \E p \in Plugins : process[r].plugin = {p}
  /\ process[r].at \in OfStart => process[r].kind = "start"
  /\ process[r].at = "check" =>
       process[r].kind \in {"install", "enable", "disable", "uninstall", "purge"}
  /\ process[r].at \in Installing => process[r].kind \in {"install", "start"}
  /\ process[r].at = "write" =>
       process[r].kind \in {"enable", "disable", "uninstall", "purge", "mark"}
  /\ process[r].kind = "start" /\ process[r].at \in Installing =>
       process[r].plugin \subseteq DefaultEnabled
  /\ process[r].kind = "start" /\ process[r].at \in OnPlugin \cup {"defaults"} =>
       process[r].todo \subseteq DefaultEnabled
  /\ process[r].lost => Working(r) /\ lifecycleLock # r
StagesFit == \A r \in Processes : StageFits(r)

\* One process is in the middle of an operation.  It holds the lock; if it has
\* lost it, nobody has taken it.
OneAtWork ==
  \A r \in Processes : Working(r) =>
    /\ process[r].lost => lifecycleLock = Free
    /\ ~process[r].lost => lifecycleLock = r
    /\ \A q \in Processes : Working(q) => q = r

RecordsTell ==
  \A p \in Plugins :
    ~record[p].known => /\ ~record[p].installed /\ ~record[p].served
                        /\ record[p].status = "discovered"

\* What the history says of the migrations that are in the database, and of
\* those of installed plugins.
HistoryTells ==
  \A p \in Plugins :
    /\ history[p] = "none" => applied[p] = 0
    /\ history[p] = "failed" => applied[p] = 0 \/ p \in unsure
    /\ history[p] = "success" => applied[p] > 0
    /\ p \notin unsure => applied[p] <= 1
    /\ p \in Migrating /\ record[p].installed => history[p] = "success"

\* ... and of the migration that is under way.
MigrationTells(r) ==
  \A p \in Plugins : process[r].plugin = {p} =>
    /\ process[r].at \in {"execute", "executed", "failed"} => history[p] = "running"
    /\ process[r].at \in {"execute", "failed"} => applied[p] = 0 \/ p \in unsure
    /\ process[r].at = "executed" => applied[p] > 0
    /\ process[r].at = "finish" /\ p \in Migrating => history[p] = "success"

\* What a check of dependencies has found still holds when it is relied upon.
Relies(r) ==
  process[r].at \in Installing \/ (process[r].at = "write" /\ process[r].kind = "enable")
TakesAway(r) ==
  process[r].at = "write" /\ process[r].kind \in {"disable", "uninstall", "purge"}
Present(d) == record[d].installed /\ record[d].on
CheckHolds(r) ==
  \A p \in Plugins : process[r].plugin = {p} =>
    /\ Relies(r) => \A d \in Requires[p] : Present(d)
    /\ TakesAway(r) => ~Needed(p)
DependenciesInUse ==
  \A p \in Plugins \ blindly : InUse(p) => \A d \in Requires[p] : Present(d)

\* Served plugins, and those a start is going to serve.
Servable(p) ==
  record[p].installed /\ record[p].on /\ record[p].status # "dependency_error"
ServedIsServable == \A p \in Plugins : record[p].served => Servable(p)
InUseIsServed == ready = "success" => \A p \in Plugins : InUse(p) => record[p].served
StartTells(r) ==
  /\ Working(r) /\ process[r].kind = "start" => ready = "missing"
  /\ process[r].at \in {"imports", "resources", "hooks"} =>
       \A p \in process[r].registry : Servable(p)
  /\ process[r].at = "imports" => \A p \in Plugins : InUse(p) => p \in process[r].registry
  /\ process[r].at = "resources" =>
       /\ \A p \in process[r].todo : Servable(p)
       /\ \A p \in Plugins : InUse(p) => p \in process[r].todo \/ record[p].served
  /\ process[r].at = "hooks" => \A p \in Plugins : InUse(p) => record[p].served

\* What a process at work relies on.
WorkTells(r) == MigrationTells(r) /\ CheckHolds(r) /\ StartTells(r)
\* What the stores say to everybody.
StoresTell ==
  RecordsTell /\ HistoryTells /\ DependenciesInUse /\ ServedIsServable /\ InUseIsServed
Orderly == OneAtWork /\ StoresTell /\ \A r \in Processes : WorkTells(r)
PluginInv ==
  /\ ProcessTypes /\ StoreTypes /\ EnvironmentTypes
  /\ StagesFit
  /\ ~overlap => Orderly

LEMMA InvMeansMigrated == PluginInv => MigratedExactlyOnce
<1> SUFFICES ASSUME PluginInv PROVE MigratedExactlyOnce
  OBVIOUS
<1>1. PluginTypeOK
  BY TypesAreThese DEF PluginInv
<1>2. MigratedOnce
  BY DEF PluginInv, Orderly, StoresTell, HistoryTells, MigratedOnce
<1>3. InstalledMeansMigrated
  BY PluginAssumption
  DEF PluginInv, Orderly, StoresTell, HistoryTells, InstalledMeansMigrated
<1> QED
  BY <1>1, <1>2, <1>3 DEF MigratedExactlyOnce

LEMMA InvMeansServed == PluginInv => ServedAsRecorded
<1> SUFFICES ASSUME PluginInv PROVE ServedAsRecorded
  OBVIOUS
<1>1. DependenciesStay
  BY DEF PluginInv, Orderly, StoresTell, DependenciesInUse, Present, DependenciesStay
<1>2. ReadyMeansServed
  BY DEF PluginInv, Orderly, StoresTell, InUseIsServed, ReadyMeansServed
<1>3. MenusFollowTheRecord
  BY DEF PluginInv, Orderly, StoresTell, ServedIsServable, Servable, MenusFollowTheRecord
<1> QED
  BY <1>1, <1>2, <1>3 DEF ServedAsRecorded

-----------------------------------------------------------------------------
(* The steps of a process.                                                 *)

Others(r) == \A q \in Processes \ {r} : process'[q] = process[q]

LEMMA StepFacts ==
  ASSUME ProcessTypes, NEW r \in Processes, NEW stage \in Stages, Step(r, stage)
  PROVE  /\ process' \in [Processes -> ProcessRecord] /\ Others(r)
         /\ process'[r].at = stage /\ process'[r].kind = process[r].kind
         /\ process'[r].plugin = process[r].plugin /\ process'[r].todo = process[r].todo
         /\ process'[r].registry = process[r].registry /\ process'[r].lost = process[r].lost
BY DEF ProcessTypes, ProcessRecord, Step, Others

LEMMA RestingFacts ==
  /\ Resting.kind = "none" /\ Resting.plugin = {} /\ Resting.at = "rest"
  /\ Resting.todo = {} /\ Resting.registry = {} /\ Resting.lost = FALSE
  /\ Resting \in ProcessRecord
BY DEF Resting, ProcessRecord, Stages

LEMMA RestFacts ==
  ASSUME ProcessTypes, NEW r \in Processes, process' = [process EXCEPT ![r] = Resting]
  PROVE  /\ process' \in [Processes -> ProcessRecord] /\ Others(r)
         /\ process'[r] = Resting /\ ~Working(r)' /\ StageFits(r)'
BY RestingFacts DEF ProcessTypes, Others, StageFits, Working, OnPlugin, Installing, OfStart

\* The lock stays, comes to the process or is lost, and what the process does
\* next fits.
LEMMA ProcessStep ==
  ASSUME ProcessTypes, StagesFit, NEW r \in Processes,
         process' \in [Processes -> ProcessRecord], Others(r), StageFits(r)',
         lifecycleLock' \in {lifecycleLock, r, Free, Dead},
         lifecycleLock' = r => Working(r)'
  PROVE  ProcessTypes' /\ StagesFit'
<1>1. lifecycleLock' \in Processes => process'[lifecycleLock'].at \notin {"rest", "serving", "shutdown"}
  BY PluginAssumption DEF ProcessTypes, Others, Working
<1>2. ASSUME NEW q \in Processes, q # r PROVE StageFits(q)'
  BY <1>2, PluginAssumption DEF StagesFit, StageFits, Others, Working
<1> QED
  BY <1>1, <1>2 DEF ProcessTypes, StagesFit

LEMMA IdleTells ==
  ASSUME NEW r \in Processes, process[r].at \in {"rest", "serving", "shutdown"}
  PROVE  WorkTells(r)
BY DEF WorkTells, MigrationTells, CheckHolds, Relies, TakesAway, StartTells, Working, Installing

LEMMA OneWorks ==
  ASSUME Orderly, NEW r \in Processes, Working(r), Others(r)
  PROVE  \A q \in Processes \ {r} : ~Working(q)' /\ WorkTells(q)'
<1> SUFFICES ASSUME NEW q \in Processes, q # r PROVE ~Working(q)' /\ WorkTells(q)'
  OBVIOUS
<1>1. process'[q].at \in {"rest", "serving", "shutdown"}
  BY DEF Orderly, OneAtWork, Others, Working
<1> QED
  BY <1>1 DEF WorkTells, MigrationTells, CheckHolds, Relies, TakesAway, StartTells, Working, Installing

\* The process goes on, and holds the lock as it did.
LEMMA GoesOn ==
  ASSUME Orderly, NEW r \in Processes, Working(r), Others(r),
         lifecycleLock' = lifecycleLock, process'[r].lost = process[r].lost,
         StoresTell', WorkTells(r)'
  PROVE  Orderly'
<1>1. \A q \in Processes \ {r} : ~Working(q)' /\ WorkTells(q)'
  BY OneWorks
<1>2. OneAtWork'
  BY <1>1 DEF Orderly, OneAtWork
<1> QED
  BY <1>1, <1>2 DEF Orderly

\* The process ends its operation.
LEMMA Ends ==
  ASSUME Orderly, NEW r \in Processes, Working(r), Others(r), ~Working(r)', StoresTell'
  PROVE  Orderly'
<1>1. \A q \in Processes \ {r} : ~Working(q)' /\ WorkTells(q)'
  BY OneWorks
<1>2. WorkTells(r)'
  BY DEF WorkTells, MigrationTells, CheckHolds, Relies, TakesAway, StartTells, Working, Installing
<1>3. OneAtWork'
  BY <1>1 DEF OneAtWork
<1> QED
  BY <1>1, <1>2, <1>3 DEF Orderly

LEMMA StoresStay ==
  ASSUME StoreTypes, StoresUntouched
  PROVE  /\ StoreTypes'
         /\ StoresTell /\ (ready' = ready \/ ready' # "success") => StoresTell'
<1>1. StoreTypes'
  BY DEF StoreTypes, StoresUntouched
<1>2. ASSUME StoresTell, ready' = ready \/ ready' # "success" PROVE StoresTell'
  BY <1>2 DEF StoresUntouched, StoresTell, RecordsTell, HistoryTells, DependenciesInUse,
    ServedIsServable, InUseIsServed, Servable, InUse, IsError, Present
<1> QED
  BY <1>1, <1>2

LEMMA EnvironmentStays ==
  ASSUME EnvironmentTypes, EnvironmentUntouched, Quiet \/ Trouble
  PROVE  EnvironmentTypes' /\ ready' = ready /\ (~overlap' => ~overlap)
<1>1. troubles' \in 0..MaxTroubles
  BY PluginAssumption DEF EnvironmentTypes, Quiet, Trouble
<1> QED
  BY <1>1 DEF EnvironmentTypes, EnvironmentUntouched

LEMMA PluginIs ==
  ASSUME NEW r \in Processes, StageFits(r), process[r].at \in OnPlugin
  PROVE  \E p \in Plugins : process[r].plugin = {p} /\ Plugin(r) = p
BY DEF StageFits, Plugin

LEMMA EndFacts ==
  ASSUME ProcessTypes, StagesFit, NEW r \in Processes, End(r)
  PROVE  ProcessTypes' /\ StagesFit' /\ Others(r) /\ ~Working(r)'
<1>1. /\ process' \in [Processes -> ProcessRecord] /\ Others(r)
      /\ process'[r] = Resting /\ ~Working(r)' /\ StageFits(r)'
  BY RestFacts DEF End
<1>2. lifecycleLock' \in {lifecycleLock, Free, Dead} /\ lifecycleLock' # r
  BY PluginAssumption DEF End, Release
<1> QED
  BY <1>1, <1>2, ProcessStep

\* What a failure writes about a plugin takes it out of use and out of service;
\* whether it is installed and enabled stays as it was.
LEMMA ErrorWritten ==
  ASSUME StoreTypes, NEW p \in Plugins, NEW status \in {"error", "dependency_error"},
         record' = InError(p, status)
  PROVE  /\ record' \in [Plugins -> PluginRecord]
         /\ \A q \in Plugins \ {p} : record'[q] = record[q]
         /\ record'[p].known /\ ~record'[p].served /\ record'[p].status = status
         /\ record[p].known => record'[p].installed = record[p].installed
                               /\ record'[p].on = record[p].on
         /\ ~record[p].known => ~record'[p].installed
<1> DEFINE entry == [Written(p) EXCEPT !.status = status, !.served = FALSE]
<1>1. Written(p) \in PluginRecord
  BY DEF Written, NoRecord, PluginRecord, StoreTypes
<1>2. /\ entry \in PluginRecord /\ entry.status = status /\ entry.served = FALSE
      /\ entry.known = Written(p).known /\ entry.installed = Written(p).installed
      /\ entry.on = Written(p).on
  BY <1>1 DEF PluginRecord
<1>3. record' = [record EXCEPT ![p] = entry]
  BY DEF InError
<1>4. record[p].known => Written(p) = record[p]
  BY DEF Written
<1>5. ~record[p].known => Written(p).known /\ ~Written(p).installed
  BY DEF Written, NoRecord
<1>6. Written(p).known
  BY <1>4, <1>5
<1> HIDE DEF entry
<1>7. record'[p] = entry /\ record' \in [Plugins -> PluginRecord]
      /\ \A q \in Plugins \ {p} : record'[q] = record[q]
  BY <1>2, <1>3 DEF StoreTypes
<1>8. record'[p].known /\ ~record'[p].served /\ record'[p].status = status
  BY <1>2, <1>6, <1>7
<1>9. record[p].known => record'[p].installed = record[p].installed
                         /\ record'[p].on = record[p].on
  BY <1>2, <1>4, <1>7
<1>10. ~record[p].known => ~record'[p].installed
  BY <1>2, <1>5, <1>7
<1> QED
  BY <1>7, <1>8, <1>9, <1>10

HistoryStays == UNCHANGED <<history, applied, unsure>>

LEMMA ErrorTells ==
  ASSUME StoreTypes, NEW p \in Plugins, NEW status \in {"error", "dependency_error"},
         record' = InError(p, status), HistoryStays, UNCHANGED <<blindly, ready>>
  PROVE  /\ StoreTypes'
         /\ StoresTell =>
              /\ StoresTell'
              /\ \A d \in Plugins : Present(d) => Present(d)'
              /\ \A q \in Plugins : InUse(q)' => InUse(q) /\ q # p /\ record'[q] = record[q]
              /\ \A q \in Plugins : Servable(q) /\ (q = p => status = "error") => Servable(q)'
<1>1. /\ record' \in [Plugins -> PluginRecord]
      /\ \A q \in Plugins \ {p} : record'[q] = record[q]
      /\ record'[p].known /\ ~record'[p].served /\ record'[p].status = status
      /\ record[p].known => record'[p].installed = record[p].installed
                            /\ record'[p].on = record[p].on
      /\ ~record[p].known => ~record'[p].installed
  BY ErrorWritten
<1>2. StoreTypes'
  BY <1>1 DEF StoreTypes, HistoryStays
<1> SUFFICES ASSUME StoresTell
             PROVE  /\ StoresTell'
                    /\ \A d \in Plugins : Present(d) => Present(d)'
                    /\ \A q \in Plugins : InUse(q)' => InUse(q) /\ q # p /\ record'[q] = record[q]
                    /\ \A q \in Plugins : Servable(q) /\ (q = p => status = "error") => Servable(q)'
  BY <1>2
<1>3. record'[p].installed => record[p].known /\ record[p].installed
  BY <1>1
<1>4. \A d \in Plugins : Present(d) => Present(d)'
  BY <1>1 DEF Present, StoresTell, RecordsTell
<1>5. \A q \in Plugins : InUse(q)' => InUse(q) /\ q # p /\ record'[q] = record[q]
  BY <1>1 DEF InUse, IsError
<1>6. \A q \in Plugins : Servable(q) /\ (q = p => status = "error") => Servable(q)'
  BY <1>1 DEF Servable, StoresTell, RecordsTell
<1>7. RecordsTell'
  BY <1>1 DEF StoresTell, RecordsTell
<1>8. HistoryTells'
  BY <1>1, <1>3 DEF StoresTell, HistoryTells, HistoryStays
<1>9. DependenciesInUse'
  BY <1>4, <1>5, PluginAssumption DEF StoresTell, DependenciesInUse
<1>10. ServedIsServable'
  BY <1>1 DEF StoresTell, ServedIsServable, Servable
<1>11. InUseIsServed'
  BY <1>5 DEF StoresTell, InUseIsServed
<1> QED
  BY <1>4, <1>5, <1>6, <1>7, <1>8, <1>9, <1>10, <1>11 DEF StoresTell

\* A hook that fails while another process is at work does not disturb it.
LEMMA ErrorSpares ==
  ASSUME StoreTypes, StoresTell, NEW p \in Plugins, record' = InError(p, "error"),
         HistoryStays, UNCHANGED <<blindly, ready>>, ProcessTypes,
         NEW q \in Processes, process'[q] = process[q], WorkTells(q)
  PROVE  WorkTells(q)'
<1>1. /\ \A d \in Plugins : Present(d) => Present(d)'
      /\ \A x \in Plugins : InUse(x)' => InUse(x) /\ x # p /\ record'[x] = record[x]
      /\ \A x \in Plugins : Servable(x) => Servable(x)'
  BY ErrorTells
<1>2. MigrationTells(q)'
  BY DEF WorkTells, MigrationTells, HistoryStays
<1>3. Relies(q)' = Relies(q) /\ TakesAway(q)' = TakesAway(q)
  BY DEF Relies, TakesAway
<1>4. \A x \in Plugins : Needed(x)' => Needed(x)
  BY <1>1 DEF Needed
<1>5. CheckHolds(q)'
  BY <1>1, <1>3, <1>4, PluginAssumption DEF WorkTells, CheckHolds
<1>6. process[q].registry \subseteq Plugins /\ process[q].todo \subseteq Plugins
  BY DEF ProcessTypes, ProcessRecord
<1>7. StartTells(q)'
  BY <1>1, <1>6 DEF WorkTells, StartTells, Working
<1> QED
  BY <1>2, <1>5, <1>7 DEF WorkTells

LEMMA WorkStays ==
  ASSUME StoresUntouched, NEW q \in Processes, process'[q] = process[q], WorkTells(q),
         ready' \in {ready, "missing"}
  PROVE  WorkTells(q)'
BY DEF StoresUntouched, WorkTells, MigrationTells, CheckHolds, Relies, TakesAway,
  StartTells, Working, Present, Needed, InUse, IsError, Servable

\* A process that is not at work takes a step.
LEMMA SideStep ==
  ASSUME Orderly, NEW r \in Processes, Others(r), ~Working(r), ~Working(r)',
         lifecycleLock' = lifecycleLock, StoresTell',
         \A q \in Processes \ {r} : WorkTells(q)'
  PROVE  Orderly'
<1>1. WorkTells(r)'
  BY DEF WorkTells, MigrationTells, CheckHolds, Relies, TakesAway, StartTells, Working, Installing
<1>2. OneAtWork'
  BY DEF Orderly, OneAtWork, Others, Working
<1> QED
  BY <1>1, <1>2 DEF Orderly

-----------------------------------------------------------------------------
(* The beginning of an operation.                                          *)

LEMMA Acquires ==
  ASSUME PluginInv, NEW r \in Processes, NEW w \in ProcessRecord, Acquire(r, w),
         StoresUntouched, ready' \in {ready, "missing"}, StageFits(r)', WorkTells(r)',
         w.at \notin {"rest", "serving", "shutdown"}, ~w.lost
  PROVE  ProcessTypes' /\ StagesFit' /\ StoreTypes' /\ (~overlap' => Orderly')
<1> USE DEF PluginInv
<1>1. /\ process' \in [Processes -> ProcessRecord] /\ Others(r) /\ process'[r] = w
      /\ lifecycleLock' = r /\ lifecycleLock = Free
      /\ Working(r)'
  BY DEF Acquire, ProcessTypes, Others, Working
<1>2. ProcessTypes' /\ StagesFit'
  BY <1>1, ProcessStep
<1>3. StoreTypes'
  BY StoresStay
<1>4. ASSUME ~overlap' PROVE Orderly'
  <2>1. ~overlap /\ \A q \in Processes : ~process[q].lost
    BY <1>4 DEF Acquire
  <2>2. \A q \in Processes : ~Working(q)
    BY <2>1, <1>1, PluginAssumption DEF Orderly, OneAtWork
  <2>3. \A q \in Processes \ {r} : ~Working(q)' /\ WorkTells(q)'
    BY <2>2, <1>1 DEF Others, Working, WorkTells, MigrationTells, CheckHolds, Relies, TakesAway,
       StartTells, Installing
  <2>4. OneAtWork'
    BY <1>1, <2>3 DEF OneAtWork
  <2>5. StoresTell'
    BY <2>1, StoresStay DEF Orderly
  <2> QED
    BY <2>3, <2>4, <2>5 DEF Orderly
<1> QED
  BY <1>2, <1>3, <1>4

LEMMA BeginStep ==
  ASSUME PluginInv, NEW r \in Operators, NEW k \in Operations, NEW p \in Plugins,
         Begin(r, k, p)
  PROVE  PluginInv'
<1> DEFINE stage == IF k = "mark" THEN "write" ELSE "check"
           w == [Resting EXCEPT !.kind = k, !.plugin = {p}, !.at = stage]
<1>1. /\ w \in ProcessRecord /\ w.kind = k /\ w.plugin = {p} /\ w.at = stage /\ w.todo = {}
      /\ w.lost = FALSE
  BY RestingFacts DEF ProcessRecord, Stages
<1>2. Acquire(r, w) /\ StoresUntouched /\ UNCHANGED <<ready, unimportable, troubles>>
  BY DEF Begin, Quiet
<1> HIDE DEF w
<1>3. r \in Processes /\ process'[r] = w /\ lifecycleLock' = r
  BY <1>2 DEF Processes, Acquire, PluginInv, ProcessTypes
<1>4. stage \in {"check", "write"} /\ (stage = "write" <=> k = "mark") /\ k # "start"
  BY DEF Operations
<1> HIDE DEF stage
<1>5. StageFits(r)'
  BY <1>1, <1>3, <1>4 DEF StageFits, Operations, OnPlugin, Installing, OfStart, Working
<1>6. WorkTells(r)'
  BY <1>1, <1>3, <1>4 DEF WorkTells, MigrationTells, CheckHolds, Relies, TakesAway,
    StartTells, Working, Installing
<1>7. ProcessTypes' /\ StagesFit' /\ StoreTypes' /\ (~overlap' => Orderly')
  BY <1>1, <1>2, <1>3, <1>4, <1>5, <1>6, Acquires
<1>8. EnvironmentTypes'
  BY <1>2 DEF PluginInv, EnvironmentTypes, Acquire
<1> QED
  BY <1>7, <1>8 DEF PluginInv

LEMMA BeginStartStep ==
  ASSUME PluginInv, NEW r \in Servers, BeginStart(r) PROVE PluginInv'
<1> DEFINE w == [Resting EXCEPT !.kind = "start", !.at = "defaults", !.todo = DefaultsMissing]
<1>1. /\ w \in ProcessRecord /\ w.kind = "start" /\ w.plugin = {} /\ w.at = "defaults"
      /\ w.todo \subseteq DefaultEnabled /\ w.lost = FALSE
  BY RestingFacts, PluginAssumption DEF ProcessRecord, Stages, DefaultsMissing
<1>2. Acquire(r, w) /\ StoresUntouched /\ UNCHANGED <<unimportable, troubles>>
      /\ ready' = "missing"
  BY DEF BeginStart, Quiet
<1> HIDE DEF w
<1>3. r \in Processes /\ process'[r] = w /\ lifecycleLock' = r
  BY <1>2 DEF Processes, Acquire, PluginInv, ProcessTypes
<1>5. StageFits(r)'
  BY <1>1, <1>3 DEF StageFits, OnPlugin, Installing, OfStart, Working
<1>6. WorkTells(r)'
  BY <1>1, <1>2, <1>3 DEF WorkTells, MigrationTells, CheckHolds, Relies, TakesAway,
    StartTells, Working, Installing
<1>7. ProcessTypes' /\ StagesFit' /\ StoreTypes' /\ (~overlap' => Orderly')
  BY <1>1, <1>2, <1>3, <1>5, <1>6, Acquires
<1>8. EnvironmentTypes'
  BY <1>2 DEF PluginInv, EnvironmentTypes, Acquire
<1> QED
  BY <1>7, <1>8 DEF PluginInv

-----------------------------------------------------------------------------
(* The stages of an operation.                                             *)

LEMMA CheckStep ==
  ASSUME PluginInv, NEW r \in Processes, Check(r) PROVE PluginInv'
<1> USE DEF PluginInv
<1>1. PICK p \in Plugins : process[r].plugin = {p} /\ Plugin(r) = p
  BY PluginIs DEF Check, IsAt, StagesFit, OnPlugin
<1>2. /\ process[r].at = "check" /\ StoresUntouched
      /\ EnvironmentUntouched /\ Quiet
      /\ process[r].kind \in {"install", "enable", "disable", "uninstall", "purge"}
  BY DEF Check, IsAt, StagesFit, StageFits
<1>3. StoreTypes' /\ EnvironmentTypes' /\ ready' = ready /\ (~overlap' => ~overlap)
  BY <1>2, StoresStay, EnvironmentStays
<1>4. ASSUME NEW stage \in {"upsert", "write", "report"}, Step(r, stage),
             lifecycleLock' = lifecycleLock,
             \/ stage = "report"
             \/ stage = "upsert" /\ process[r].kind = "install" /\ DependenciesMet(p)
             \/ stage = "write" /\ process[r].kind = "enable" /\ DependenciesMet(p)
             \/ stage = "write" /\ process[r].kind \in {"disable", "uninstall", "purge"} /\ ~Needed(p)
      PROVE  PluginInv'
  <2>1. /\ process' \in [Processes -> ProcessRecord] /\ Others(r)
        /\ process'[r].at = stage /\ process'[r].kind = process[r].kind
        /\ process'[r].plugin = {p} /\ process'[r].todo = process[r].todo
        /\ process'[r].registry = process[r].registry /\ process'[r].lost = process[r].lost
    <3>1. stage \in Stages
      BY DEF Stages
    <3> QED
      BY <1>1, <1>4, <3>1, StepFacts
  <2>2. Working(r) /\ Working(r)'
    BY <1>2, <2>1 DEF Working
  <2>3. StageFits(r)'
    BY <1>2, <1>4, <2>1, <2>2 DEF StagesFit, StageFits, OnPlugin, Installing, OfStart
  <2>4. ProcessTypes' /\ StagesFit'
    BY <1>4, <2>1, <2>2, <2>3, ProcessStep
  <2>5. ASSUME ~overlap PROVE Orderly'
    <3>1. MigrationTells(r)'
      BY <2>1 DEF MigrationTells
    <3>2. DependenciesMet(p) => \A d \in Requires[p] : Present(d)'
      BY <1>2 DEF DependenciesMet, InUse, Present, StoresUntouched
    <3>3. Needed(p)' = Needed(p)
      BY <1>2 DEF Needed, InUse, IsError, StoresUntouched
    <3>4. CheckHolds(r)'
      BY <1>4, <2>1, <3>2, <3>3 DEF CheckHolds, Relies, TakesAway, Installing
    <3>5. StartTells(r)'
      BY <1>2, <2>1 DEF StartTells
    <3>6. WorkTells(r)'
      BY <3>1, <3>4, <3>5 DEF WorkTells
    <3>7. StoresTell'
      BY <2>5, <1>2, <1>3, StoresStay DEF Orderly
    <3> QED
      BY <2>5, <1>4, <2>1, <2>2, <3>6, <3>7, GoesOn
  <2> QED
    BY <1>3, <2>4, <2>5
<1>5. ASSUME End(r) PROVE PluginInv'
  <2>1. ProcessTypes' /\ StagesFit' /\ Others(r) /\ ~Working(r)'
    BY <1>5, EndFacts
  <2>2. ASSUME ~overlap PROVE Orderly'
    BY <1>2, <1>3, <2>1, <2>2, StoresStay, Ends DEF Orderly, Working
  <2> QED
    BY <1>3, <2>1, <2>2
<1>6. \/ End(r)
      \/ \E stage \in {"upsert", "write", "report"} :
           /\ Step(r, stage) /\ lifecycleLock' = lifecycleLock
           /\ \/ stage = "report"
              \/ stage = "upsert" /\ process[r].kind = "install" /\ DependenciesMet(p)
              \/ stage = "write" /\ process[r].kind = "enable" /\ DependenciesMet(p)
              \/ stage = "write" /\ process[r].kind \in {"disable", "uninstall", "purge"}
                 /\ ~Needed(p)
  BY <1>1, <1>2 DEF Check
<1> QED
  BY <1>4, <1>5, <1>6

\* A step from one stage of the install to another, or to the report of its
\* failure.
LEMMA InstallStep ==
  ASSUME PluginInv, NEW r \in Processes, process[r].at \in Installing,
         NEW stage \in Installing \cup {"report"}, Step(r, stage),
         lifecycleLock' = lifecycleLock, StoreTypes', EnvironmentUntouched, Quiet \/ Trouble,
         UNCHANGED <<record, blindly>>,
         ~overlap => HistoryTells' /\ MigrationTells(r)'
  PROVE  PluginInv'
<1> USE DEF PluginInv
<1>1. EnvironmentTypes' /\ ready' = ready /\ (~overlap' => ~overlap)
  BY EnvironmentStays
<1>2. /\ process' \in [Processes -> ProcessRecord] /\ Others(r)
      /\ process'[r].at = stage /\ process'[r].kind = process[r].kind
      /\ process'[r].plugin = process[r].plugin /\ process'[r].todo = process[r].todo
      /\ process'[r].registry = process[r].registry /\ process'[r].lost = process[r].lost
  <2>1. stage \in Stages
    BY DEF Stages, Installing
  <2> QED
    BY <2>1, StepFacts
<1>3. Working(r) /\ Working(r)'
  BY <1>2 DEF Working, Installing
<1>4. StageFits(r)'
  BY <1>2, <1>3 DEF StagesFit, StageFits, OnPlugin, Installing, OfStart
<1>5. ProcessTypes' /\ StagesFit'
  BY <1>2, <1>3, <1>4, ProcessStep
<1>6. ASSUME ~overlap PROVE Orderly'
  <2>1. CheckHolds(r)'
    <3>1. WorkTells(r)
      BY <1>6 DEF Orderly
    <3>2. Relies(r) /\ ~TakesAway(r)'
      BY <1>2 DEF Relies, TakesAway, Installing
    <3> QED
      BY <1>2, <3>1, <3>2 DEF WorkTells, CheckHolds, Present
  <2>2. StartTells(r)'
    <3>1. StartTells(r)
      BY <1>6 DEF Orderly, WorkTells
    <3> QED
      BY <1>1, <1>2, <1>3, <3>1 DEF StartTells, Installing
  <2>3. WorkTells(r)'
    BY <1>6, <2>1, <2>2 DEF WorkTells
  <2>4. StoresTell'
    BY <1>1, <1>6 DEF Orderly, StoresTell, RecordsTell, DependenciesInUse, ServedIsServable,
      InUseIsServed, Servable, InUse, IsError, Present
  <2> QED
    BY <1>6, <1>2, <1>3, <2>3, <2>4, GoesOn
<1> QED
  BY <1>1, <1>5, <1>6

LEMMA UpsertStep ==
  ASSUME PluginInv, NEW r \in Processes, Upsert(r) PROVE PluginInv'
<1>1. /\ process[r].at \in Installing /\ Step(r, "migrate") /\ "migrate" \in Installing
      /\ StoresUntouched
  BY DEF Upsert, IsAt, Installing
<1>2. StoreTypes'
  BY <1>1, StoresStay DEF PluginInv
<1>3. ASSUME ~overlap PROVE HistoryTells' /\ MigrationTells(r)'
  <2>1. process'[r].at = "migrate"
    BY <1>1, StepFacts DEF PluginInv, Stages
  <2> QED
    BY <1>1, <1>3, <2>1, StoresStay
    DEF MigrationTells, StoresTell, StoresUntouched, HistoryTells, PluginInv, Orderly
<1> QED
  BY <1>1, <1>2, <1>3, InstallStep DEF Upsert, StoresUntouched

LEMMA MigrateStep ==
  ASSUME PluginInv, NEW r \in Processes, Migrate(r) PROVE PluginInv'
<1> USE DEF PluginInv
<1>1. PICK p \in Plugins : process[r].plugin = {p} /\ Plugin(r) = p
  BY PluginIs DEF Migrate, IsAt, StagesFit, OnPlugin, Installing
<1>2. /\ process[r].at \in Installing
      /\ UNCHANGED <<lifecycleLock, record, applied, unsure, blindly>>
      /\ EnvironmentUntouched /\ Quiet
  BY DEF Migrate, IsAt, Installing
<1>3. ASSUME NEW stage \in {"finish", "report"}, Step(r, stage), UNCHANGED history,
             stage = "finish" => p \notin Migrating \/ history[p] = "success"
      PROVE  PluginInv'
  <2>1. process'[r].at = stage /\ process'[r].plugin = {p}
    BY <1>1, <1>3, StepFacts DEF Stages
  <2>2. StoreTypes'
    BY <1>2, <1>3 DEF StoreTypes
  <2>3. ASSUME ~overlap PROVE HistoryTells' /\ MigrationTells(r)'
    <3>1. HistoryTells'
      BY <1>2, <1>3, <2>3 DEF Orderly, StoresTell, HistoryTells
    <3>2. MigrationTells(r)'
      BY <1>2, <1>3, <2>1 DEF MigrationTells
    <3> QED
      BY <3>1, <3>2
  <2>4. stage \in Installing \cup {"report"}
    BY DEF Installing
  <2> QED
    BY <1>2, <1>3, <2>2, <2>3, <2>4, InstallStep
<1>4. ASSUME p \in Migrating, ~HistoryRefuses(p), history[p] # "success",
             history' = [history EXCEPT ![p] = "running"], Step(r, "execute")
      PROVE  PluginInv'
  <2>1. process'[r].at = "execute" /\ process'[r].plugin = {p}
    BY <1>1, <1>4, StepFacts DEF Stages
  <2>2. StoreTypes' /\ history'[p] = "running" /\ \A q \in Plugins \ {p} : history'[q] = history[q]
    BY <1>2, <1>4 DEF StoreTypes
  <2>3. history[p] \in {"none", "failed"}
    BY <1>4 DEF StoreTypes, HistoryRefuses
  <2>4. ASSUME ~overlap PROVE HistoryTells' /\ MigrationTells(r)'
    <3>1. HistoryTells
      BY <2>4 DEF Orderly, StoresTell
    <3>2. HistoryTells'
      BY <1>2, <1>4, <2>2, <3>1 DEF HistoryTells
    <3>3. applied'[p] = 0 \/ p \in unsure'
      BY <1>2, <2>3, <3>1 DEF HistoryTells
    <3>4. MigrationTells(r)'
      BY <2>1, <2>2, <3>3 DEF MigrationTells
    <3> QED
      BY <3>2, <3>4
  <2>5. "execute" \in Installing
    BY DEF Installing
  <2> QED
    BY <1>2, <1>4, <2>2, <2>4, <2>5, InstallStep
<1> QED
  BY <1>1, <1>3, <1>4 DEF Migrate

LEMMA ExecuteStep ==
  ASSUME PluginInv, NEW r \in Processes, Execute(r) PROVE PluginInv'
<1> USE DEF PluginInv
<1>1. PICK p \in Plugins : process[r].plugin = {p} /\ Plugin(r) = p
  BY PluginIs DEF Execute, IsAt, StagesFit, OnPlugin, Installing
<1>2. /\ process[r].at = "execute" /\ process[r].at \in Installing
      /\ UNCHANGED <<lifecycleLock, record, history, blindly>> /\ EnvironmentUntouched
  BY DEF Execute, IsAt, Installing
<1>3. PICK stage \in {"executed", "failed"} :
        /\ Step(r, stage) /\ (Quiet \/ Trouble)
        /\ \/ Applies(p) /\ stage = "executed" /\ unsure' = unsure
           \/ stage = "failed" /\ applied' = applied /\ unsure' = unsure
           \/ Applies(p) /\ stage = "failed" /\ unsure' = unsure \cup {p}
  BY <1>1 DEF Execute
<1>4. process'[r].at = stage /\ process'[r].plugin = {p} /\ stage \in Installing \cup {"report"}
  BY <1>1, <1>3, StepFacts DEF Stages, Installing
<1>5. /\ StoreTypes' /\ \A q \in Plugins \ {p} : applied'[q] = applied[q]
      /\ Applies(p) => applied'[p] = applied[p] + 1
      /\ \A q \in Plugins \ {p} : q \in unsure' <=> q \in unsure
      /\ applied[p] \in Nat /\ applied'[p] \in Nat
  BY <1>2, <1>3 DEF StoreTypes, Applies
<1>6. ASSUME ~overlap PROVE HistoryTells' /\ MigrationTells(r)'
  <2>1. HistoryTells /\ history[p] = "running" /\ (applied[p] = 0 \/ p \in unsure)
    BY <1>1, <1>2, <1>6 DEF Orderly, StoresTell, WorkTells, MigrationTells
  <2>2. /\ p \notin unsure' => applied'[p] <= 1
        /\ stage = "executed" => applied'[p] > 0
        /\ stage = "failed" => applied'[p] = 0 \/ p \in unsure'
    BY <1>3, <1>5, <2>1
  <2>3. HistoryTells'
    BY <1>2, <1>5, <2>1, <2>2 DEF HistoryTells
  <2>4. MigrationTells(r)'
    BY <1>2, <1>3, <1>4, <2>1, <2>2 DEF MigrationTells
  <2> QED
    BY <2>3, <2>4
<1> QED
  BY <1>2, <1>3, <1>4, <1>5, <1>6, InstallStep

LEMMA RecordOutcomeStep ==
  ASSUME PluginInv, NEW r \in Processes, RecordOutcome(r) PROVE PluginInv'
<1> USE DEF PluginInv
<1>1. PICK p \in Plugins : process[r].plugin = {p} /\ Plugin(r) = p
  BY PluginIs DEF RecordOutcome, IsAt, StagesFit, OnPlugin, Installing
<1>2. /\ process[r].at \in {"executed", "failed"} /\ process[r].at \in Installing
      /\ UNCHANGED <<lifecycleLock, record, applied, unsure, blindly>> /\ EnvironmentUntouched
  BY DEF RecordOutcome, Installing
<1>3. ASSUME Step(r, "report"), Trouble, UNCHANGED history PROVE PluginInv'
  <2>1. process'[r].at = "report"
    BY <1>3, StepFacts DEF Stages
  <2>2. StoreTypes'
    BY <1>2, <1>3 DEF StoreTypes
  <2>3. ASSUME ~overlap PROVE HistoryTells' /\ MigrationTells(r)'
    BY <1>2, <1>3, <2>1, <2>3 DEF Orderly, StoresTell, HistoryTells, MigrationTells
  <2> QED
    BY <1>2, <1>3, <2>2, <2>3, InstallStep
<1>4. ASSUME NEW outcome \in {"success", "failed"}, NEW stage \in {"finish", "report"},
             history' = [history EXCEPT ![p] = outcome], Step(r, stage), Quiet,
             outcome = "success" => process[r].at = "executed",
             outcome = "failed" => process[r].at = "failed",
             stage = "finish" => outcome = "success"
      PROVE  PluginInv'
  <2>1. process'[r].at = stage /\ process'[r].plugin = {p} /\ stage \in Installing \cup {"report"}
    BY <1>1, <1>4, StepFacts DEF Stages, Installing
  <2>2. StoreTypes' /\ history'[p] = outcome /\ \A q \in Plugins \ {p} : history'[q] = history[q]
    BY <1>2, <1>4 DEF StoreTypes
  <2>3. ASSUME ~overlap PROVE HistoryTells' /\ MigrationTells(r)'
    <3>1. HistoryTells /\ history[p] = "running"
      BY <1>1, <1>2, <2>3 DEF Orderly, StoresTell, WorkTells, MigrationTells
    <3>2. /\ outcome = "success" => applied[p] > 0
          /\ outcome = "failed" => applied[p] = 0 \/ p \in unsure
      BY <1>1, <1>2, <1>4, <2>3 DEF Orderly, WorkTells, MigrationTells
    <3>3. HistoryTells'
      BY <1>2, <1>4, <2>2, <3>1, <3>2 DEF HistoryTells
    <3>4. MigrationTells(r)'
      BY <1>4, <2>1, <2>2 DEF MigrationTells
    <3> QED
      BY <3>3, <3>4
  <2> QED
    BY <1>2, <1>4, <2>1, <2>2, <2>3, InstallStep
<1>5. CASE process[r].at = "executed"
  BY <1>1, <1>3, <1>4, <1>5 DEF RecordOutcome, IsAt, AfterOutcome
<1>6. CASE process[r].at = "failed"
  BY <1>1, <1>3, <1>4, <1>6 DEF RecordOutcome, IsAt, AfterOutcome
<1> QED
  BY <1>2, <1>5, <1>6

\* The operation ends; a start goes on with the next default plugin.
LEMMA Continues ==
  ASSUME ProcessTypes, StagesFit, NEW r \in Processes, process[r].at \in OnPlugin,
         Continue(r), ready' = ready
  PROVE  /\ ProcessTypes' /\ StagesFit'
         /\ Orderly /\ StoresTell' => Orderly'
<1>1. Working(r)
  BY DEF Working, OnPlugin, Installing
<1>2. CASE process[r].kind = "start"
  <2>1. /\ process' \in [Processes -> ProcessRecord] /\ Others(r)
        /\ process'[r].at = "defaults" /\ process'[r].kind = process[r].kind
        /\ process'[r].plugin = {} /\ process'[r].todo = process[r].todo
        /\ process'[r].lost = process[r].lost
        /\ lifecycleLock' = lifecycleLock
    BY <1>2 DEF Continue, ProcessTypes, ProcessRecord, Stages, Others
  <2>2. Working(r)'
    BY <2>1 DEF Working
  <2>3. StageFits(r)'
    BY <1>1, <1>2, <2>1, <2>2 DEF StagesFit, StageFits, OnPlugin, Installing, OfStart
  <2>4. ProcessTypes' /\ StagesFit'
    BY <2>1, <2>2, <2>3, ProcessStep
  <2>5. ASSUME Orderly, StoresTell' PROVE Orderly'
    <3>1. ready' = "missing"
      BY <1>1, <1>2, <2>5 DEF Orderly, WorkTells, StartTells
    <3>2. WorkTells(r)'
      BY <2>1, <3>1 DEF WorkTells, MigrationTells, CheckHolds, Relies, TakesAway, StartTells, Installing
    <3> QED
      BY <1>1, <2>1, <2>5, <3>2, GoesOn
  <2> QED
    BY <2>4, <2>5
<1>3. CASE process[r].kind # "start"
  <2>1. ProcessTypes' /\ StagesFit' /\ Others(r) /\ ~Working(r)'
    BY <1>3, EndFacts DEF Continue
  <2> QED
    BY <1>1, <2>1, Ends
<1> QED
  BY <1>2, <1>3

\* The row of a plugin is written with everything else left alone.
RowWritten(p, entry) ==
  /\ entry \in PluginRecord
  /\ record'[p] = entry /\ \A q \in Plugins \ {p} : record'[q] = record[q]
  /\ record' \in [Plugins -> PluginRecord]

LEMMA RowIsWritten ==
  ASSUME StoreTypes, NEW p \in Plugins, NEW entry \in PluginRecord,
         record' = [record EXCEPT ![p] = entry]
  PROVE  RowWritten(p, entry)
BY DEF StoreTypes, RowWritten

\* An installed plugin is put into use and into service; what it needs is there.
LEMMA InUseTells ==
  ASSUME StoreTypes, StoresTell, NEW p \in Plugins, NEW entry, RowWritten(p, entry),
         entry.known, entry.installed, entry.status = "installed", entry.served = entry.on,
         Present(p) => entry.on,
         \A d \in Requires[p] : Present(d),
         p \in Migrating => history[p] = "success",
         HistoryStays, ready' = ready, blindly' = blindly \ {p}
  PROVE  StoresTell'
<1> USE DEF RowWritten
<1>1. \A d \in Plugins : Present(d) => Present(d)'
  BY DEF Present
<1>2. RecordsTell'
  BY DEF StoresTell, RecordsTell
<1>3. HistoryTells'
  BY DEF StoresTell, HistoryTells, HistoryStays
<1>4. DependenciesInUse'
  <2> SUFFICES ASSUME NEW q \in Plugins, q \notin blindly', InUse(q)'
               PROVE  \A d \in Requires[q] : Present(d)'
    BY DEF DependenciesInUse
  <2>1. CASE q = p
    BY <1>1, <2>1, PluginAssumption
  <2>2. CASE q # p
    <3>1. InUse(q) /\ q \notin blindly
      BY <2>2 DEF InUse, IsError
    <3> QED
      BY <1>1, <3>1, PluginAssumption DEF StoresTell, DependenciesInUse
  <2> QED
    BY <2>1, <2>2
<1>5. ServedIsServable'
  BY DEF StoresTell, ServedIsServable, Servable
<1>6. InUseIsServed'
  BY DEF StoresTell, InUseIsServed, InUse, IsError
<1> QED
  BY <1>2, <1>3, <1>4, <1>5, <1>6 DEF StoresTell

LEMMA FinishInstallStep ==
  ASSUME PluginInv, NEW r \in Processes, Finish(r) PROVE PluginInv'
<1> USE DEF PluginInv
<1>1. PICK p \in Plugins : process[r].plugin = {p} /\ Plugin(r) = p
  BY PluginIs DEF Finish, IsAt, StagesFit, OnPlugin, Installing
<1>2. /\ process[r].at = "finish" /\ process[r].at \in Installing
      /\ HistoryStays /\ EnvironmentUntouched
  BY DEF Finish, IsAt, Installing, HistoryStays
<1>3. ASSUME Step(r, "report"), Trouble, UNCHANGED <<lifecycleLock, record, blindly>>
      PROVE  PluginInv'
  <2>1. process'[r].at = "report"
    BY <1>3, StepFacts DEF Stages
  <2>2. StoreTypes'
    BY <1>2, <1>3 DEF StoreTypes, HistoryStays
  <2>3. ASSUME ~overlap PROVE HistoryTells' /\ MigrationTells(r)'
    BY <1>2, <1>3, <2>1, <2>3 DEF Orderly, StoresTell, HistoryTells, MigrationTells, HistoryStays
  <2> QED
    BY <1>2, <1>3, <2>2, <2>3, InstallStep
<1>4. ASSUME record' = [record EXCEPT ![p] = Installed(p)], blindly' = blindly \ {p},
             Continue(r), Quiet
      PROVE  PluginInv'
  <2>1. EnvironmentTypes' /\ ready' = ready /\ (~overlap' => ~overlap)
    BY <1>2, <1>4, EnvironmentStays
  <2>2. /\ Written(p) \in PluginRecord /\ Written(p).known
        /\ record[p].known => Written(p) = record[p]
    BY DEF Written, NoRecord, PluginRecord, StoreTypes
  <2>3. /\ Installed(p) \in PluginRecord /\ Installed(p).known /\ Installed(p).installed
        /\ Installed(p).status = "installed" /\ Installed(p).on = Written(p).on
        /\ Installed(p).served = Written(p).on
    BY <2>2 DEF Installed, PluginRecord
  <2>4. RowWritten(p, Installed(p))
    BY <1>4, <2>3, RowIsWritten
  <2>5. StoreTypes'
    BY <1>2, <1>4, <2>4 DEF StoreTypes, RowWritten, HistoryStays
  <2>6. ASSUME ~overlap PROVE StoresTell'
    <3>1. StoresTell /\ RecordsTell /\ WorkTells(r)
      BY <2>6 DEF Orderly, StoresTell
    <3>2. Present(p) => Installed(p).on
      BY <2>2, <2>3, <3>1 DEF Present, RecordsTell
    <3>3. \A d \in Requires[p] : Present(d)
      BY <1>1, <1>2, <3>1 DEF WorkTells, CheckHolds, Relies
    <3>4. p \in Migrating => history[p] = "success"
      BY <1>1, <1>2, <3>1 DEF WorkTells, MigrationTells
    <3>5. Installed(p).served = Installed(p).on
      BY <2>3
    <3> QED
      BY <1>2, <1>4, <2>1, <2>3, <2>4, <3>1, <3>2, <3>3, <3>4, <3>5, InUseTells
  <2>7. process[r].at \in OnPlugin
    BY <1>2 DEF OnPlugin
  <2>8. ProcessTypes' /\ StagesFit' /\ (Orderly /\ StoresTell' => Orderly')
    BY <1>4, <2>1, <2>7, Continues
  <2> QED
    BY <2>1, <2>5, <2>6, <2>8
<1> QED
  BY <1>1, <1>3, <1>4 DEF Finish

LEMMA ReportFailureStep ==
  ASSUME PluginInv, NEW r \in Processes, Report(r) PROVE PluginInv'
<1> USE DEF PluginInv
<1>1. PICK p \in Plugins : process[r].plugin = {p} /\ Plugin(r) = p
  BY PluginIs DEF Report, IsAt, StagesFit, OnPlugin
<1>2. /\ process[r].at \in OnPlugin /\ Continue(r) /\ HistoryStays /\ UNCHANGED blindly
      /\ EnvironmentUntouched /\ (Quiet \/ Trouble)
      /\ UNCHANGED record \/ record' = InError(p, "error")
  BY <1>1 DEF Report, IsAt, OnPlugin, HistoryStays
<1>3. EnvironmentTypes' /\ ready' = ready /\ (~overlap' => ~overlap)
  BY <1>2, EnvironmentStays
<1>4. StoreTypes' /\ (StoresTell => StoresTell')
  <2>1. CASE UNCHANGED record
    BY <1>2, <1>3, <2>1, StoresStay DEF StoresUntouched, HistoryStays
  <2>2. CASE record' = InError(p, "error")
    BY <1>2, <1>3, <2>2, ErrorTells
  <2> QED
    BY <1>2, <2>1, <2>2
<1>5. ProcessTypes' /\ StagesFit' /\ (Orderly /\ StoresTell' => Orderly')
  BY <1>2, <1>3, Continues
<1> QED
  BY <1>3, <1>4, <1>5 DEF Orderly

-----------------------------------------------------------------------------
(* The writes of an administrator.                                         *)

\* An operation writes and ends.
LEMMA WriteEnds ==
  ASSUME PluginInv, NEW r \in Processes, process[r].at = "write", End(r),
         StoreTypes', EnvironmentUntouched, Quiet, ~overlap => StoresTell'
  PROVE  PluginInv'
<1> USE DEF PluginInv
<1>1. EnvironmentTypes' /\ ready' = ready /\ (~overlap' => ~overlap)
  BY EnvironmentStays
<1>2. ProcessTypes' /\ StagesFit' /\ Others(r) /\ ~Working(r)'
  BY EndFacts
<1>3. ~overlap => Orderly'
  BY <1>2, Ends DEF Working
<1> QED
  BY <1>1, <1>2, <1>3

LEMMA EnableStep ==
  ASSUME PluginInv, NEW r \in Processes, Enable(r) PROVE PluginInv'
<1> USE DEF PluginInv
<1>1. PICK p \in Plugins : process[r].plugin = {p} /\ Plugin(r) = p
  BY PluginIs DEF Enable, IsAt, StagesFit, OnPlugin
<1>2. /\ process[r].at = "write" /\ process[r].kind = "enable"
      /\ HistoryStays /\ EnvironmentUntouched /\ Quiet
  BY DEF Enable, IsAt, HistoryStays
<1>3. EnvironmentTypes' /\ ready' = ready /\ (~overlap' => ~overlap)
  BY <1>2, EnvironmentStays
<1>4. ASSUME record[p].installed, record[p].status = "installed", record' = Enabled(p),
             blindly' = blindly \ {p}, End(r)
      PROVE  PluginInv'
  <2> DEFINE entry == [record[p] EXCEPT !.on = TRUE, !.served = TRUE]
  <2>1. /\ entry \in PluginRecord /\ entry.known = record[p].known /\ entry.installed
        /\ entry.status = "installed" /\ entry.served = entry.on /\ entry.on
    BY <1>4 DEF StoreTypes, PluginRecord
  <2>2. record' = [record EXCEPT ![p] = entry]
    BY <1>4 DEF Enabled, StoreTypes, PluginRecord
  <2> HIDE DEF entry
  <2>3. RowWritten(p, entry)
    BY <2>1, <2>2, RowIsWritten
  <2>4. StoreTypes'
    BY <1>2, <1>4, <2>3 DEF StoreTypes, RowWritten, HistoryStays
  <2>5. ASSUME ~overlap PROVE StoresTell'
    <3>1. StoresTell /\ RecordsTell /\ HistoryTells /\ WorkTells(r)
      BY <2>5 DEF Orderly, StoresTell
    <3>2. entry.known
      BY <1>4, <2>1, <3>1 DEF RecordsTell
    <3>3. \A d \in Requires[p] : Present(d)
      BY <1>1, <1>2, <3>1 DEF WorkTells, CheckHolds, Relies
    <3>4. p \in Migrating => history[p] = "success"
      BY <1>4, <3>1 DEF HistoryTells
    <3> QED
      BY <1>2, <1>3, <1>4, <2>1, <2>3, <3>1, <3>2, <3>3, <3>4, InUseTells
  <2> QED
    BY <1>2, <1>4, <2>4, <2>5, WriteEnds
<1>5. ASSUME Step(r, "report"), UNCHANGED <<lifecycleLock, record, blindly>> PROVE PluginInv'
  <2>1. /\ process' \in [Processes -> ProcessRecord] /\ Others(r)
        /\ process'[r].at = "report" /\ process'[r].kind = process[r].kind
        /\ process'[r].plugin = {p} /\ process'[r].todo = process[r].todo
        /\ process'[r].lost = process[r].lost
    BY <1>1, <1>5, StepFacts DEF Stages
  <2>2. Working(r) /\ Working(r)'
    BY <1>2, <2>1 DEF Working
  <2>3. StageFits(r)'
    BY <1>2, <1>5, <2>1, <2>2 DEF StagesFit, StageFits, OnPlugin, Installing, OfStart
  <2>4. ProcessTypes' /\ StagesFit'
    BY <1>5, <2>1, <2>2, <2>3, ProcessStep
  <2>5. StoreTypes' /\ (StoresTell => StoresTell')
    BY <1>2, <1>3, <1>5, StoresStay DEF StoresUntouched, HistoryStays
  <2>6. WorkTells(r)'
    BY <1>2, <2>1 DEF WorkTells, MigrationTells, CheckHolds, Relies, TakesAway, StartTells, Installing
  <2>7. ~overlap => Orderly'
    BY <1>5, <2>1, <2>2, <2>5, <2>6, GoesOn DEF Orderly
  <2> QED
    BY <1>3, <2>4, <2>5, <2>7
<1> QED
  BY <1>1, <1>4, <1>5 DEF Enable

\* A plugin that nobody in use needs is taken out of use.
LEMMA TakenTells ==
  ASSUME StoreTypes, StoresTell, NEW p \in Plugins, NEW entry, RowWritten(p, entry), ~Needed(p),
         ~entry.served, ~entry.on \/ ~entry.installed,
         ~entry.known => ~entry.installed /\ entry.status = "discovered",
         ready' = ready, blindly' = blindly, HistoryTells'
  PROVE  StoresTell'
<1> USE DEF RowWritten
<1>1. ~InUse(p)'
  BY DEF InUse
<1>2. \A q \in Plugins : InUse(q)' => q # p /\ InUse(q)
  BY <1>1 DEF InUse, IsError
<1>3. RecordsTell'
  BY DEF StoresTell, RecordsTell
<1>4. DependenciesInUse'
  <2> SUFFICES ASSUME NEW q \in Plugins, q \notin blindly, InUse(q)', NEW d \in Requires[q]
               PROVE  Present(d)'
    BY DEF DependenciesInUse
  <2>1. d \in Plugins /\ d # p /\ Present(d)
    BY <1>2, PluginAssumption DEF Needed, StoresTell, DependenciesInUse
  <2> QED
    BY <2>1 DEF Present
<1>5. ServedIsServable'
  BY DEF StoresTell, ServedIsServable, Servable
<1>6. InUseIsServed'
  BY <1>2 DEF StoresTell, InUseIsServed
<1> QED
  BY <1>3, <1>4, <1>5, <1>6 DEF StoresTell

LEMMA DisableStep ==
  ASSUME PluginInv, NEW r \in Processes, Disable(r) PROVE PluginInv'
<1> USE DEF PluginInv
<1>1. PICK p \in Plugins : process[r].plugin = {p} /\ Plugin(r) = p
  BY PluginIs DEF Disable, IsAt, StagesFit, OnPlugin
<1>2. /\ process[r].at = "write" /\ process[r].kind \in {"disable", "uninstall"}
      /\ HistoryStays /\ UNCHANGED blindly /\ EnvironmentUntouched /\ Quiet /\ End(r)
      /\ record' = IF ~record[p].known THEN record
                   ELSE IF process[r].kind = "disable" THEN Disabled(p) ELSE Uninstalled(p)
  BY <1>1 DEF Disable, IsAt, HistoryStays
<1>3. EnvironmentTypes' /\ ready' = ready /\ (~overlap' => ~overlap)
  BY <1>2, EnvironmentStays
<1>4. CASE ~record[p].known
  <2>1. StoresUntouched
    BY <1>2, <1>4 DEF StoresUntouched, HistoryStays
  <2>2. StoreTypes' /\ (StoresTell => StoresTell')
    BY <1>3, <2>1, StoresStay
  <2> QED
    BY <1>2, <2>2, WriteEnds DEF Orderly
<1>5. ASSUME NEW entry \in PluginRecord, record' = [record EXCEPT ![p] = entry], entry.known,
             ~entry.served, ~entry.on \/ ~entry.installed, entry.installed => record[p].installed
      PROVE  PluginInv'
  <2>1. RowWritten(p, entry)
    BY <1>5, RowIsWritten
  <2>2. StoreTypes'
    BY <1>2, <2>1 DEF StoreTypes, RowWritten, HistoryStays
  <2>3. ASSUME ~overlap PROVE StoresTell'
    <3>1. StoresTell /\ HistoryTells /\ ~Needed(p)
      BY <1>1, <1>2, <2>3 DEF Orderly, StoresTell, WorkTells, CheckHolds, TakesAway
    <3>2. HistoryTells'
      BY <1>2, <1>5, <2>1, <3>1 DEF HistoryTells, RowWritten, HistoryStays
    <3> QED
      BY <1>2, <1>3, <1>5, <2>1, <3>1, <3>2, TakenTells
  <2> QED
    BY <1>2, <2>2, <2>3, WriteEnds
<1>6. CASE record[p].known /\ process[r].kind = "disable"
  <2> DEFINE entry == [record[p] EXCEPT !.on = FALSE, !.served = FALSE]
  <2>1. /\ entry \in PluginRecord /\ entry.known /\ ~entry.served /\ ~entry.on
        /\ entry.installed => record[p].installed
    BY <1>6 DEF StoreTypes, PluginRecord
  <2>2. record' = [record EXCEPT ![p] = entry]
    BY <1>2, <1>6 DEF Disabled, StoreTypes, PluginRecord
  <2> HIDE DEF entry
  <2> QED
    BY <1>5, <2>1, <2>2
<1>7. CASE record[p].known /\ process[r].kind # "disable"
  <2> DEFINE entry == [NoRecord EXCEPT !.known = TRUE]
  <2>1. entry \in PluginRecord /\ entry.known /\ ~entry.served /\ ~entry.on /\ ~entry.installed
    BY DEF NoRecord, PluginRecord
  <2>2. record' = [record EXCEPT ![p] = entry]
    BY <1>2, <1>7 DEF Uninstalled
  <2> HIDE DEF entry
  <2> QED
    BY <1>5, <2>1, <2>2
<1> QED
  BY <1>4, <1>6, <1>7

LEMMA PurgeStep ==
  ASSUME PluginInv, NEW r \in Processes, Purge(r) PROVE PluginInv'
<1> USE DEF PluginInv
<1>1. PICK p \in Plugins : process[r].plugin = {p} /\ Plugin(r) = p
  BY PluginIs DEF Purge, IsAt, StagesFit, OnPlugin
<1>2. /\ process[r].at = "write" /\ process[r].kind = "purge"
      /\ record' = [record EXCEPT ![p] = NoRecord]
      /\ history' = [history EXCEPT ![p] = "none"]
      /\ applied' = [applied EXCEPT ![p] = 0]
      /\ unsure' = unsure \ {p}
      /\ UNCHANGED blindly /\ EnvironmentUntouched /\ Quiet /\ End(r)
  BY <1>1 DEF Purge, IsAt
<1>3. EnvironmentTypes' /\ ready' = ready /\ (~overlap' => ~overlap)
  BY <1>2, EnvironmentStays
<1>4. /\ NoRecord \in PluginRecord /\ ~NoRecord.known /\ ~NoRecord.installed
      /\ ~NoRecord.on /\ ~NoRecord.served /\ NoRecord.status = "discovered"
  BY DEF NoRecord, PluginRecord
<1>5. RowWritten(p, NoRecord)
  BY <1>2, <1>4, RowIsWritten
<1>6. /\ history' \in [Plugins -> {"none", "running", "success", "failed"}]
      /\ applied' \in [Plugins -> Nat]
      /\ history'[p] = "none" /\ applied'[p] = 0
      /\ \A q \in Plugins \ {p} : history'[q] = history[q] /\ applied'[q] = applied[q]
  BY <1>2 DEF StoreTypes
<1>7. StoreTypes'
  BY <1>2, <1>5, <1>6 DEF StoreTypes, RowWritten
<1>8. ASSUME ~overlap PROVE StoresTell'
  <2>1. StoresTell /\ HistoryTells /\ ~Needed(p)
    BY <1>1, <1>2, <1>8 DEF Orderly, StoresTell, WorkTells, CheckHolds, TakesAway
  <2>2. HistoryTells'
    BY <1>2, <1>4, <1>5, <1>6, <2>1 DEF HistoryTells, RowWritten
  <2> QED
    BY <1>2, <1>3, <1>4, <1>5, <2>1, <2>2, TakenTells
<1> QED
  BY <1>2, <1>7, <1>8, WriteEnds

LEMMA MarkStep ==
  ASSUME PluginInv, NEW r \in Processes, Mark(r) PROVE PluginInv'
<1> USE DEF PluginInv
<1>1. PICK p \in Plugins : process[r].plugin = {p} /\ Plugin(r) = p
  BY PluginIs DEF Mark, IsAt, StagesFit, OnPlugin
<1>2. /\ process[r].at = "write" /\ history' = [history EXCEPT ![p] = Marked(p)] /\ End(r)
      /\ UNCHANGED <<record, applied, unsure, blindly>> /\ EnvironmentUntouched /\ Quiet
  BY <1>1 DEF Mark, IsAt
<1>3. ready' = ready
  BY <1>2, EnvironmentStays
<1>4. /\ Marked(p) = "success" => applied[p] > 0 \/ history[p] = "success"
      /\ Marked(p) = "failed" => applied[p] = 0 \/ history[p] = "failed"
      /\ Marked(p) = "none" => history[p] = "none"
      /\ history[p] = "success" => Marked(p) = "success"
      /\ Marked(p) \in {"none", "running", "success", "failed"}
  BY DEF Marked, StoreTypes
<1>5. /\ history' \in [Plugins -> {"none", "running", "success", "failed"}]
      /\ history'[p] = Marked(p) /\ \A q \in Plugins \ {p} : history'[q] = history[q]
  BY <1>2, <1>4 DEF StoreTypes
<1>6. StoreTypes'
  BY <1>2, <1>5 DEF StoreTypes
<1>7. ASSUME ~overlap PROVE StoresTell'
  <2>1. StoresTell
    BY <1>7 DEF Orderly
  <2>2. HistoryTells'
    BY <1>2, <1>4, <1>5, <2>1 DEF StoresTell, HistoryTells
  <2> QED
    BY <1>2, <1>3, <2>1, <2>2 DEF StoresTell, RecordsTell, DependenciesInUse,
      ServedIsServable, InUseIsServed, Servable, InUse, IsError, Present
<1> QED
  BY <1>2, <1>6, <1>7, WriteEnds

-----------------------------------------------------------------------------
(* The start of an application.                                            *)

\* A start goes from one stage to another.
LEMMA StartGoesOn ==
  ASSUME PluginInv, NEW r \in Processes, process[r].at \in OfStart,
         process' \in [Processes -> ProcessRecord], Others(r),
         process'[r].at \in OfStart, process'[r].kind = process[r].kind,
         process'[r].lost = process[r].lost,
         process'[r].at = "defaults" => process'[r].todo \subseteq process[r].todo
                                        /\ process[r].at = "defaults",
         lifecycleLock' = lifecycleLock, StoreTypes',
         EnvironmentUntouched, Quiet \/ Trouble,
         ~overlap /\ Orderly /\ ready = "missing" => StoresTell' /\ StartTells(r)'
  PROVE  PluginInv'
<1> USE DEF PluginInv
<1>1. EnvironmentTypes' /\ ready' = ready /\ (~overlap' => ~overlap)
  BY EnvironmentStays
<1>2. Working(r) /\ Working(r)'
  BY DEF Working, OfStart
<1>3. StageFits(r)'
  BY <1>2 DEF StagesFit, StageFits, OnPlugin, Installing, OfStart
<1>4. ProcessTypes' /\ StagesFit'
  BY <1>2, <1>3, ProcessStep
<1>5. ASSUME ~overlap PROVE Orderly'
  <2>1. process[r].kind = "start"
    BY DEF StagesFit, StageFits
  <2>2. ready = "missing"
    BY <1>2, <1>5, <2>1 DEF Orderly, WorkTells, StartTells
  <2>3. WorkTells(r)'
    BY <1>5, <2>2 DEF WorkTells, MigrationTells, CheckHolds, Relies, TakesAway, Installing, OfStart
  <2> QED
    BY <1>2, <1>5, <2>2, <2>3, GoesOn
<1> QED
  BY <1>1, <1>4, <1>5

\* What is written by Reload: the plugin is crossed off, the registry is new.
LEMMA ReloadFacts ==
  ASSUME ProcessTypes, NEW r \in Processes, NEW p \in Plugins, Reload(r, p),
         record' \in [Plugins -> PluginRecord]
  PROVE  /\ process' \in [Processes -> ProcessRecord] /\ Others(r)
         /\ process'[r].at = process[r].at /\ process'[r].kind = process[r].kind
         /\ process'[r].lost = process[r].lost
         /\ process'[r].todo = process[r].todo \ {p}
         /\ \A q \in Plugins : q \in process'[r].registry <=> InUse(q)'
         /\ \A q \in process'[r].registry : q \in Plugins /\ Servable(q)'
<1>1. InUseIn(record') \subseteq Plugins
  BY DEF InUseIn
<1>2. /\ process' \in [Processes -> ProcessRecord] /\ Others(r)
      /\ process'[r].at = process[r].at /\ process'[r].kind = process[r].kind
      /\ process'[r].lost = process[r].lost
      /\ process'[r].todo = process[r].todo \ {p}
      /\ process'[r].registry = InUseIn(record')
  BY <1>1 DEF Reload, ProcessTypes, ProcessRecord, Others
<1> QED
  BY <1>1, <1>2 DEF InUseIn, InUse, IsError, Servable

LEMMA CrossOffFacts ==
  ASSUME ProcessTypes, NEW r \in Processes, NEW p \in Plugins,
         process' = [process EXCEPT ![r].todo = @ \ {p}]
  PROVE  /\ process' \in [Processes -> ProcessRecord] /\ Others(r)
         /\ process'[r].at = process[r].at /\ process'[r].kind = process[r].kind
         /\ process'[r].plugin = process[r].plugin
         /\ process'[r].lost = process[r].lost
         /\ process'[r].todo = process[r].todo \ {p}
         /\ process'[r].registry = process[r].registry
BY DEF ProcessTypes, ProcessRecord, Others

LEMMA StartDefaultStep ==
  ASSUME PluginInv, NEW r \in Processes, NEW p \in Plugins, StartDefault(r, p)
  PROVE  PluginInv'
<1> USE DEF PluginInv
<1>1. /\ process[r].at = "defaults" /\ process[r].kind = "start" /\ p \in process[r].todo
      /\ p \in DefaultEnabled /\ process[r].todo \subseteq DefaultEnabled
      /\ HistoryStays /\ UNCHANGED <<lifecycleLock, blindly>> /\ EnvironmentUntouched /\ Quiet
  BY DEF StartDefault, IsAt, StagesFit, StageFits, HistoryStays, OfStart, OnPlugin
<1>2. EnvironmentTypes' /\ ready' = ready /\ (~overlap' => ~overlap)
  BY <1>1, EnvironmentStays
<1>3. CASE /\ process' = [process EXCEPT ![r].at = "upsert", ![r].plugin = {p}, ![r].todo = @ \ {p}]
           /\ UNCHANGED record
  <2>1. /\ process' \in [Processes -> ProcessRecord] /\ Others(r)
        /\ process'[r].at = "upsert" /\ process'[r].kind = "start"
        /\ process'[r].plugin = {p} /\ process'[r].todo = process[r].todo \ {p}
        /\ process'[r].lost = process[r].lost
    BY <1>1, <1>3 DEF ProcessTypes, ProcessRecord, Stages, Others
  <2>2. Working(r) /\ Working(r)'
    BY <1>1, <2>1 DEF Working
  <2>3. StageFits(r)'
    BY <1>1, <2>1, <2>2 DEF StagesFit, StageFits, OnPlugin, Installing, OfStart
  <2>4. ProcessTypes' /\ StagesFit'
    BY <1>1, <2>1, <2>2, <2>3, ProcessStep
  <2>5. StoreTypes' /\ (StoresTell => StoresTell')
    BY <1>1, <1>2, <1>3, StoresStay DEF StoresUntouched, HistoryStays
  <2>6. ASSUME ~overlap PROVE Orderly'
    <3>1. ready' = "missing"
      BY <1>1, <1>2, <2>2, <2>6 DEF Orderly, WorkTells, StartTells
    <3>2. Requires[p] = {}
      BY <1>1, PluginAssumption
    <3>3. WorkTells(r)'
      BY <2>1, <3>1, <3>2 DEF WorkTells, MigrationTells, CheckHolds, TakesAway, StartTells
    <3> QED
      BY <1>1, <2>1, <2>2, <2>5, <2>6, <3>3, GoesOn DEF Orderly
  <2> QED
    BY <1>2, <2>4, <2>5, <2>6
<1>4. CASE /\ record' = InError(p, "dependency_error")
           /\ process' = [process EXCEPT ![r].todo = @ \ {p}]
  <2>1. /\ process' \in [Processes -> ProcessRecord] /\ Others(r)
        /\ process'[r].at = process[r].at /\ process'[r].kind = process[r].kind
        /\ process'[r].lost = process[r].lost /\ process'[r].todo = process[r].todo \ {p}
    BY <1>4, CrossOffFacts
  <2>2. StoreTypes' /\ (StoresTell => StoresTell')
    BY <1>1, <1>2, <1>4, ErrorTells
  <2>3. ready = "missing" => StartTells(r)'
    BY <1>1, <1>2, <2>1 DEF StartTells
  <2>4. process[r].at \in OfStart
    BY <1>1 DEF OfStart
  <2> QED
    BY <1>1, <2>1, <2>2, <2>3, <2>4, StartGoesOn DEF Orderly
<1> QED
  BY <1>3, <1>4 DEF StartDefault

LEMMA LoadRegistryStep ==
  ASSUME PluginInv, NEW r \in Processes, LoadRegistry(r) PROVE PluginInv'
<1> USE DEF PluginInv
<1>1. /\ process[r].at = "defaults" /\ StoresUntouched /\ lifecycleLock' = lifecycleLock
      /\ EnvironmentUntouched /\ Quiet
  BY DEF LoadRegistry, IsAt
<1>2. EnvironmentTypes' /\ ready' = ready /\ (~overlap' => ~overlap)
  BY <1>1, EnvironmentStays
<1>3. /\ process' \in [Processes -> ProcessRecord] /\ Others(r)
      /\ process'[r].at = "imports" /\ process'[r].kind = process[r].kind
      /\ process'[r].lost = process[r].lost
      /\ process'[r].registry = InUseIn(record) /\ InUseIn(record) \subseteq Plugins
  <2> DEFINE T == {p \in Plugins : InUse(p) \/ record[p].status = "dependency_error"}
             N == InUseIn(record)
  <2>1. N \subseteq Plugins /\ T \subseteq Plugins /\ "imports" \in Stages
        /\ process[r] \in ProcessRecord
    BY DEF InUseIn, Stages, ProcessTypes
  <2>2. process' = [process EXCEPT ![r].at = "imports", ![r].registry = N, ![r].todo = T]
    BY DEF LoadRegistry
  <2> HIDE DEF T, N
  <2>3. /\ process' \in [Processes -> ProcessRecord] /\ Others(r)
        /\ process'[r].at = "imports" /\ process'[r].kind = process[r].kind
        /\ process'[r].lost = process[r].lost /\ process'[r].registry = N
    BY <2>1, <2>2 DEF ProcessTypes, ProcessRecord, Others
  <2> QED
    BY <2>1, <2>3 DEF N
<1>4. StoreTypes' /\ (StoresTell => StoresTell')
  BY <1>1, <1>2, StoresStay
<1>5. ready = "missing" => StartTells(r)'
  <2>1. \A p \in process'[r].registry : Servable(p)'
    BY <1>1, <1>3 DEF InUseIn, Servable, StoresUntouched
  <2>2. \A p \in Plugins : InUse(p)' => p \in process'[r].registry
    BY <1>1, <1>3 DEF InUseIn, InUse, IsError, StoresUntouched
  <2> QED
    BY <1>2, <1>3, <2>1, <2>2 DEF StartTells
<1>6. process[r].at \in OfStart /\ process'[r].at \in OfStart
  BY <1>1, <1>3 DEF OfStart
<1> QED
  BY <1>1, <1>3, <1>4, <1>5, <1>6, StartGoesOn DEF Orderly

LEMMA CheckImportsStep ==
  ASSUME PluginInv, NEW r \in Processes, NEW p \in Plugins, CheckImports(r, p)
  PROVE  PluginInv'
<1> USE DEF PluginInv
<1>1. /\ process[r].at = "imports" /\ process[r].at \in OfStart
      /\ HistoryStays /\ lifecycleLock' = lifecycleLock
      /\ EnvironmentUntouched /\ Quiet
  BY DEF CheckImports, IsAt, HistoryStays, OfStart
<1>2. EnvironmentTypes' /\ ready' = ready /\ (~overlap' => ~overlap)
  BY <1>1, EnvironmentStays
<1>3. CASE record' = InError(p, "dependency_error") /\ Reload(r, p) /\ UNCHANGED blindly
  <2>1. StoreTypes' /\ (StoresTell => StoresTell')
    BY <1>1, <1>2, <1>3, ErrorTells
  <2>2. /\ process' \in [Processes -> ProcessRecord] /\ Others(r)
        /\ process'[r].at = process[r].at /\ process'[r].kind = process[r].kind
        /\ process'[r].lost = process[r].lost
        /\ \A q \in Plugins : q \in process'[r].registry <=> InUse(q)'
        /\ \A q \in process'[r].registry : q \in Plugins /\ Servable(q)'
    BY <1>3, <2>1, ReloadFacts DEF StoreTypes
  <2>3. ready = "missing" => StartTells(r)'
    BY <1>1, <1>2, <2>2 DEF StartTells
  <2> QED
    BY <1>1, <2>1, <2>2, <2>3, StartGoesOn DEF Orderly
<1>4. CASE /\ record[p].status = "dependency_error" /\ record' = Recovered(p) /\ Reload(r, p)
           /\ blindly' = IF DependenciesMet(p) THEN blindly ELSE blindly \cup {p}
  <2> DEFINE status == IF record[p].installed THEN "installed" ELSE "discovered"
             entry == [record[p] EXCEPT !.status = status]
  <2>1. /\ entry \in PluginRecord /\ entry.known = record[p].known
        /\ entry.installed = record[p].installed /\ entry.on = record[p].on
        /\ entry.served = record[p].served /\ entry.status = status
    BY DEF StoreTypes, PluginRecord
  <2>2. record' = [record EXCEPT ![p] = entry]
    BY <1>4 DEF Recovered
  <2>3. status # "dependency_error" /\ (record[p].installed \/ status = "discovered")
    OBVIOUS
  <2> HIDE DEF entry, status
  <2>4. RowWritten(p, entry)
    BY <2>1, <2>2, RowIsWritten
  <2>5. StoreTypes'
    BY <1>1, <1>4, <2>4 DEF StoreTypes, RowWritten, HistoryStays
  <2>6. /\ process' \in [Processes -> ProcessRecord] /\ Others(r)
        /\ process'[r].at = process[r].at /\ process'[r].kind = process[r].kind
        /\ process'[r].lost = process[r].lost
        /\ \A q \in Plugins : q \in process'[r].registry <=> InUse(q)'
        /\ \A q \in process'[r].registry : q \in Plugins /\ Servable(q)'
    BY <1>4, <2>5, ReloadFacts DEF StoreTypes
  <2>7. ready = "missing" => StartTells(r)'
    BY <1>1, <1>2, <2>6 DEF StartTells
  <2>8. ASSUME StoresTell, ready = "missing" PROVE StoresTell'
    <3> USE DEF RowWritten
    <3>1. \A d \in Plugins : Present(d)' = Present(d)
      BY <2>1, <2>4 DEF Present
    <3>2. RecordsTell'
      BY <1>4, <2>1, <2>3, <2>4, <2>8 DEF StoresTell, RecordsTell
    <3>3. HistoryTells'
      BY <1>1, <2>1, <2>4, <2>8 DEF StoresTell, HistoryTells, HistoryStays
    <3>4. DependenciesInUse'
      <4> SUFFICES ASSUME NEW q \in Plugins, q \notin blindly', InUse(q)', NEW d \in Requires[q]
                   PROVE  Present(d)'
        BY DEF DependenciesInUse
      <4>1. d \in Plugins /\ q \notin blindly
        BY <1>4, PluginAssumption
      <4>2. CASE q = p
        <5>1. DependenciesMet(p)
          BY <1>4, <4>2
        <5> QED
          BY <3>1, <4>1, <4>2, <5>1 DEF DependenciesMet, InUse, Present
      <4>3. CASE q # p
        BY <2>4, <2>8, <3>1, <4>1, <4>3 DEF StoresTell, DependenciesInUse, InUse, IsError
      <4> QED
        BY <4>2, <4>3
    <3>5. ServedIsServable'
      BY <1>4, <2>1, <2>4, <2>8 DEF StoresTell, ServedIsServable, Servable
    <3>6. InUseIsServed'
      BY <1>2, <2>8 DEF InUseIsServed
    <3> QED
      BY <3>2, <3>3, <3>4, <3>5, <3>6 DEF StoresTell
  <2> QED
    BY <1>1, <2>5, <2>6, <2>7, <2>8, StartGoesOn DEF Orderly
<1>5. CASE process' = [process EXCEPT ![r].todo = @ \ {p}] /\ UNCHANGED <<record, blindly>>
  <2>1. /\ process' \in [Processes -> ProcessRecord] /\ Others(r)
        /\ process'[r].at = process[r].at /\ process'[r].kind = process[r].kind
        /\ process'[r].lost = process[r].lost /\ process'[r].registry = process[r].registry
    BY <1>5, CrossOffFacts
  <2>2. StoreTypes' /\ (StoresTell => StoresTell') /\ StoresUntouched
    BY <1>1, <1>2, <1>5, StoresStay DEF StoresUntouched, HistoryStays
  <2>3. Orderly => StartTells(r)'
    BY <1>1, <1>2, <2>1, <2>2 DEF Orderly, WorkTells, StartTells, Working, Servable, InUse,
      IsError, StoresUntouched
  <2> QED
    BY <1>1, <2>1, <2>2, <2>3, StartGoesOn DEF Orderly
<1> QED
  BY <1>3, <1>4, <1>5 DEF CheckImports

LEMMA NextStageStep ==
  ASSUME PluginInv, NEW r \in Processes, StartResources(r) \/ StartHooks(r)
  PROVE  PluginInv'
<1> USE DEF PluginInv
<1>1. PICK from, to \in OfStart :
        /\ NextStage(r, from, to)
        /\ \/ from = "imports" /\ to = "resources"
           \/ from = "resources" /\ to = "hooks"
  BY DEF StartResources, StartHooks, OfStart
<1>2. /\ process[r].at = from /\ process[r].at \in OfStart /\ process[r].todo = {}
      /\ StoresUntouched /\ lifecycleLock' = lifecycleLock
      /\ EnvironmentUntouched /\ Quiet
  BY <1>1 DEF NextStage, IsAt
<1>3. EnvironmentTypes' /\ ready' = ready /\ (~overlap' => ~overlap)
  BY <1>2, EnvironmentStays
<1>4. /\ process' \in [Processes -> ProcessRecord] /\ Others(r)
      /\ process'[r].at = to /\ process'[r].kind = process[r].kind
      /\ process'[r].lost = process[r].lost
      /\ process'[r].todo = process[r].registry /\ process'[r].registry = process[r].registry
  <2> DEFINE N == process[r].registry
  <2>1. to \in Stages /\ process[r] \in ProcessRecord /\ N \subseteq Plugins
    BY DEF OfStart, Stages, ProcessTypes, ProcessRecord
  <2>2. process' = [process EXCEPT ![r].at = to, ![r].todo = N]
    BY <1>1 DEF NextStage
  <2> HIDE DEF N
  <2>3. /\ process' \in [Processes -> ProcessRecord] /\ Others(r)
        /\ process'[r].at = to /\ process'[r].kind = process[r].kind
        /\ process'[r].lost = process[r].lost
        /\ process'[r].todo = N /\ process'[r].registry = process[r].registry
    BY <2>1, <2>2 DEF ProcessTypes, ProcessRecord, Others
  <2> QED
    BY <2>3 DEF N
<1>5. StoreTypes' /\ (StoresTell => StoresTell')
  BY <1>2, <1>3, StoresStay
<1>6. \A p \in Plugins : InUse(p)' = InUse(p) /\ record'[p] = record[p]
  BY <1>2 DEF InUse, IsError, StoresUntouched
<1>7. \A p : Servable(p)' = Servable(p)
  BY <1>2 DEF Servable, StoresUntouched
<1>8. Orderly => StartTells(r)'
  <2> SUFFICES ASSUME Orderly PROVE StartTells(r)'
    OBVIOUS
  <2>1. StartTells(r) /\ process[r].kind = "start"
    BY <1>2 DEF Orderly, WorkTells, StagesFit, StageFits
  <2>2. \A p \in process[r].registry : Servable(p)
    BY <1>1, <1>2, <2>1 DEF StartTells
  <2>3. ready' = "missing"
    BY <1>2, <1>3, <2>1 DEF StartTells, Working, OfStart
  <2>4. to = "resources" => \A p \in Plugins : InUse(p)' => p \in process'[r].todo
    BY <1>1, <1>2, <1>4, <1>6, <2>1 DEF StartTells
  <2>5. to = "hooks" => \A p \in Plugins : InUse(p)' => record'[p].served
    BY <1>1, <1>2, <1>6, <2>1 DEF StartTells
  <2> QED
    BY <1>1, <1>4, <1>7, <2>2, <2>3, <2>4, <2>5 DEF StartTells
<1>9. process'[r].at \in OfStart /\ process'[r].at # "defaults"
  BY <1>1, <1>4
<1> QED
  BY <1>2, <1>4, <1>5, <1>8, <1>9, StartGoesOn DEF Orderly

LEMMA SyncResourcesStep ==
  ASSUME PluginInv, NEW r \in Processes, NEW p \in Plugins, SyncResources(r, p)
  PROVE  PluginInv'
<1> USE DEF PluginInv
<1>1. /\ process[r].at = "resources" /\ process[r].at \in OfStart /\ p \in process[r].todo
      /\ HistoryStays /\ UNCHANGED <<lifecycleLock, blindly>>
      /\ EnvironmentUntouched /\ (Quiet \/ Trouble)
  BY DEF SyncResources, IsAt, HistoryStays, OfStart
<1>2. EnvironmentTypes' /\ ready' = ready /\ (~overlap' => ~overlap)
  BY <1>1, EnvironmentStays
<1>3. CASE /\ record' = [record EXCEPT ![p].served = TRUE]
           /\ process' = [process EXCEPT ![r].todo = @ \ {p}]
  <2> DEFINE entry == [record[p] EXCEPT !.served = TRUE]
  <2>1. /\ entry \in PluginRecord /\ entry.known = record[p].known
        /\ entry.installed = record[p].installed /\ entry.on = record[p].on
        /\ entry.served /\ entry.status = record[p].status
    BY DEF StoreTypes, PluginRecord
  <2>2. record' = [record EXCEPT ![p] = entry]
    BY <1>3
  <2> HIDE DEF entry
  <2>3. RowWritten(p, entry)
    BY <2>1, <2>2, RowIsWritten
  <2>4. StoreTypes'
    BY <1>1, <2>3 DEF StoreTypes, RowWritten, HistoryStays
  <2>5. /\ process' \in [Processes -> ProcessRecord] /\ Others(r)
        /\ process'[r].at = process[r].at /\ process'[r].kind = process[r].kind
        /\ process'[r].lost = process[r].lost /\ process'[r].registry = process[r].registry
        /\ process'[r].todo = process[r].todo \ {p}
    BY <1>3, CrossOffFacts
  <2>6. /\ \A q \in Plugins : InUse(q)' = InUse(q)
        /\ \A q \in Plugins : Servable(q)' = Servable(q)
        /\ \A q \in Plugins : Present(q)' = Present(q)
    BY <2>1, <2>3 DEF InUse, IsError, Servable, Present, RowWritten
  <2>7. ASSUME Orderly, ready = "missing" PROVE StoresTell' /\ StartTells(r)'
    <3>1. StoresTell /\ StartTells(r) /\ Servable(p)
      BY <1>1, <2>7 DEF Orderly, WorkTells, StartTells
    <3>2. RecordsTell'
      BY <2>1, <2>3, <3>1 DEF StoresTell, RecordsTell, RowWritten, Servable
    <3>3. HistoryTells'
      BY <1>1, <2>1, <2>3, <3>1 DEF StoresTell, HistoryTells, RowWritten, HistoryStays
    <3>4. DependenciesInUse'
      BY <1>1, <2>6, <3>1, PluginAssumption DEF StoresTell, DependenciesInUse
    <3>5. ServedIsServable'
      BY <2>3, <2>6, <3>1 DEF StoresTell, ServedIsServable, RowWritten
    <3>6. InUseIsServed'
      BY <1>2, <2>7 DEF InUseIsServed
    <3>7. process[r].todo \subseteq Plugins /\ process[r].registry \subseteq Plugins
      BY DEF ProcessTypes, ProcessRecord
    <3>8. StartTells(r)'
      BY <1>1, <1>2, <2>1, <2>3, <2>5, <2>6, <2>7, <3>1, <3>7 DEF StartTells, RowWritten
    <3> QED
      BY <3>2, <3>3, <3>4, <3>5, <3>6, <3>8 DEF StoresTell
  <2> QED
    BY <1>1, <2>4, <2>5, <2>7, StartGoesOn
<1>4. CASE record' = InError(p, "error") /\ Reload(r, p)
  <2>1. StoreTypes' /\ (StoresTell => StoresTell')
    BY <1>1, <1>2, <1>4, ErrorTells
  <2>2. /\ process' \in [Processes -> ProcessRecord] /\ Others(r)
        /\ process'[r].at = process[r].at /\ process'[r].kind = process[r].kind
        /\ process'[r].lost = process[r].lost
        /\ process'[r].todo = process[r].todo \ {p}
        /\ \A q \in process'[r].registry : q \in Plugins /\ Servable(q)'
    BY <1>4, <2>1, ReloadFacts DEF StoreTypes
  <2>3. ASSUME Orderly, ready = "missing" PROVE StartTells(r)'
    <3>1. /\ \A x \in Plugins : InUse(x)' => InUse(x) /\ x # p /\ record'[x] = record[x]
          /\ \A x \in Plugins : Servable(x) => Servable(x)'
      BY <1>1, <1>2, <1>4, <2>3, ErrorTells DEF Orderly
    <3>2. StartTells(r) /\ process[r].todo \subseteq Plugins
      BY <2>3 DEF Orderly, WorkTells, ProcessTypes, ProcessRecord
    <3>3. \A q \in process'[r].todo : Servable(q)'
      BY <1>1, <2>2, <3>1, <3>2 DEF StartTells
    <3>4. \A q \in Plugins : InUse(q)' => q \in process'[r].todo \/ record'[q].served
      BY <1>1, <2>2, <3>1, <3>2 DEF StartTells
    <3> QED
      BY <1>1, <1>2, <2>2, <2>3, <3>3, <3>4 DEF StartTells
  <2> QED
    BY <1>1, <2>1, <2>2, <2>3, StartGoesOn DEF Orderly
<1> QED
  BY <1>3, <1>4 DEF SyncResources

LEMMA RunHookStep ==
  ASSUME PluginInv, NEW r \in Processes, NEW p \in Plugins, RunHook(r, p)
  PROVE  PluginInv'
<1> USE DEF PluginInv
<1>1. /\ process[r].at \in {"hooks", "shutdown"} /\ p \in process[r].todo
      /\ HistoryStays /\ UNCHANGED <<lifecycleLock, blindly>>
      /\ EnvironmentUntouched /\ (Quiet \/ Trouble)
      /\ \/ process' = [process EXCEPT ![r].todo = @ \ {p}] /\ UNCHANGED record
         \/ record' = InError(p, "error") /\ Reload(r, p)
  BY DEF RunHook, HistoryStays
<1>2. EnvironmentTypes' /\ ready' = ready /\ (~overlap' => ~overlap)
  BY <1>1, EnvironmentStays
<1>3. StoreTypes' /\ (StoresTell => StoresTell')
  <2>1. CASE UNCHANGED record
    BY <1>1, <1>2, <2>1, StoresStay DEF StoresUntouched, HistoryStays
  <2>2. CASE record' = InError(p, "error")
    BY <1>1, <1>2, <2>2, ErrorTells
  <2> QED
    BY <1>1, <2>1, <2>2
<1>4. /\ process' \in [Processes -> ProcessRecord] /\ Others(r)
      /\ process'[r].at = process[r].at /\ process'[r].kind = process[r].kind
      /\ process'[r].lost = process[r].lost /\ process'[r].todo = process[r].todo \ {p}
      /\ \/ process'[r].registry = process[r].registry /\ UNCHANGED record
         \/ /\ record' = InError(p, "error")
            /\ \A q \in process'[r].registry : q \in Plugins /\ Servable(q)'
  BY <1>1, <1>3, CrossOffFacts, ReloadFacts DEF StoreTypes
<1>5. CASE process[r].at = "hooks"
  <2>1. ASSUME Orderly, ready = "missing" PROVE StartTells(r)'
    <3>1. StartTells(r) /\ process[r].registry \subseteq Plugins
      BY <2>1 DEF Orderly, WorkTells, ProcessTypes, ProcessRecord
    <3>2. CASE process'[r].registry = process[r].registry /\ UNCHANGED record
      BY <1>2, <1>4, <1>5, <2>1, <3>1, <3>2 DEF StartTells, Servable, InUse, IsError
    <3>3. CASE /\ record' = InError(p, "error")
               /\ \A q \in process'[r].registry : q \in Plugins /\ Servable(q)'
      <4>1. \A x \in Plugins : InUse(x)' => InUse(x) /\ x # p /\ record'[x] = record[x]
        BY <1>1, <1>2, <2>1, <3>3, ErrorTells DEF Orderly
      <4> QED
        BY <1>2, <1>4, <1>5, <2>1, <3>1, <3>3, <4>1 DEF StartTells
    <3> QED
      BY <1>4, <3>2, <3>3
  <2>2. process[r].at \in OfStart
    BY <1>5 DEF OfStart
  <2> QED
    BY <1>1, <1>3, <1>4, <1>5, <2>1, <2>2, StartGoesOn DEF Orderly
<1>6. CASE process[r].at = "shutdown"
  <2>1. ~Working(r) /\ ~Working(r)'
    BY <1>4, <1>6 DEF Working
  <2>2. StageFits(r)'
    BY <1>1, <1>4, <1>6, <2>1 DEF StagesFit, StageFits, OnPlugin, Installing, OfStart
  <2>3. lifecycleLock' # r
    BY <1>1, <2>1 DEF ProcessTypes, Working
  <2>4. ProcessTypes' /\ StagesFit'
    BY <1>1, <1>4, <2>1, <2>2, <2>3, ProcessStep
  <2>5. ASSUME ~overlap PROVE Orderly'
    <3>1. ASSUME NEW q \in Processes \ {r} PROVE WorkTells(q)'
      <4>1. process'[q] = process[q] /\ WorkTells(q)
        BY <1>4, <2>5 DEF Others, Orderly
      <4>2. CASE UNCHANGED record
        BY <1>1, <1>2, <4>1, <4>2, WorkStays DEF StoresUntouched, HistoryStays
      <4>3. CASE record' = InError(p, "error")
        BY <1>1, <1>2, <2>5, <4>1, <4>3, ErrorSpares DEF Orderly
      <4> QED
        BY <1>4, <4>2, <4>3
    <3> QED
      BY <1>1, <1>3, <1>4, <2>1, <2>5, <3>1, SideStep DEF Orderly
  <2> QED
    BY <1>2, <1>3, <2>4, <2>5
<1> QED
  BY <1>1, <1>5, <1>6

LEMMA StartedStep ==
  ASSUME PluginInv, NEW r \in Processes, Started(r) PROVE PluginInv'
<1> USE DEF PluginInv
<1>1. /\ process[r].at = "hooks" /\ ready' = "success" /\ StoresUntouched
      /\ UNCHANGED <<troubles, unimportable, overlap>>
      /\ lifecycleLock' \in {lifecycleLock, Free} /\ lifecycleLock' # r
  BY PluginAssumption DEF Started, IsAt, Quiet, Release
<1>2. /\ process' \in [Processes -> ProcessRecord] /\ Others(r)
      /\ process'[r].at = "serving" /\ process'[r].lost = FALSE
  <2>1. "serving" \in Stages
    BY DEF Stages
  <2> QED
    BY <2>1 DEF Started, ProcessTypes, ProcessRecord, Others
<1>3. Working(r) /\ ~Working(r)' /\ StageFits(r)'
  BY <1>1, <1>2 DEF Working, StageFits, OnPlugin, Installing, OfStart
<1>4. ProcessTypes' /\ StagesFit'
  BY <1>1, <1>2, <1>3, ProcessStep
<1>5. StoreTypes' /\ EnvironmentTypes'
  BY <1>1, StoresStay DEF EnvironmentTypes
<1>6. ASSUME ~overlap' PROVE Orderly'
  <2>1. Orderly /\ StoresTell /\ WorkTells(r)
    BY <1>1, <1>6 DEF Orderly
  <2>2. InUseIsServed'
    BY <1>1, <2>1 DEF InUseIsServed, WorkTells, StartTells, InUse, IsError, StoresUntouched
  <2>3. StoresTell'
    BY <1>1, <2>1, <2>2 DEF StoresUntouched, StoresTell, RecordsTell, HistoryTells,
      DependenciesInUse, ServedIsServable, Servable, InUse, IsError, Present
  <2> QED
    BY <1>2, <1>3, <2>1, <2>3, Ends
<1> QED
  BY <1>4, <1>5, <1>6

LEMMA StoppedStep ==
  ASSUME PluginInv, NEW r \in Processes, Shutdown(r) \/ Stopped(r) PROVE PluginInv'
<1> USE DEF PluginInv
<1>1. /\ ~Working(r) /\ StoresUntouched /\ EnvironmentUntouched /\ Quiet
      /\ lifecycleLock' = lifecycleLock
  BY DEF Shutdown, Stopped, IsAt, Working
<1>2. EnvironmentTypes' /\ ready' = ready /\ (~overlap' => ~overlap)
  BY <1>1, EnvironmentStays
<1>3. process' \in [Processes -> ProcessRecord] /\ Others(r) /\ ~Working(r)' /\ StageFits(r)'
  <2>1. CASE Shutdown(r)
    <3> DEFINE N == process[r].registry
    <3>1. "shutdown" \in Stages /\ process[r] \in ProcessRecord /\ N \subseteq Plugins
      BY DEF Stages, ProcessTypes, ProcessRecord
    <3>2. process' = [process EXCEPT ![r].at = "shutdown", ![r].todo = N]
      BY <2>1 DEF Shutdown
    <3> HIDE DEF N
    <3>3. /\ process' \in [Processes -> ProcessRecord] /\ Others(r)
          /\ process'[r].at = "shutdown" /\ process'[r].lost = process[r].lost
      BY <3>1, <3>2 DEF ProcessTypes, ProcessRecord, Others
    <3> QED
      BY <1>1, <3>3 DEF StagesFit, StageFits, Working, OnPlugin, Installing, OfStart
  <2>2. CASE Stopped(r)
    BY <2>2, RestFacts DEF Stopped
  <2> QED
    BY <2>1, <2>2
<1>4. lifecycleLock' # r
  BY <1>1 DEF ProcessTypes, Working
<1>5. ProcessTypes' /\ StagesFit'
  BY <1>1, <1>3, <1>4, ProcessStep
<1>6. StoreTypes' /\ (StoresTell => StoresTell')
  BY <1>1, <1>2, StoresStay
<1>7. ASSUME ~overlap PROVE Orderly'
  <2>1. \A q \in Processes \ {r} : WorkTells(q)'
    BY <1>1, <1>2, <1>3, <1>7, WorkStays DEF Others, Orderly
  <2> QED
    BY <1>1, <1>3, <1>6, <1>7, <2>1, SideStep DEF Orderly
<1> QED
  BY <1>2, <1>5, <1>6, <1>7

\* An operation is broken off: nothing is written, and it holds no lock.
LEMMA BrokenOff ==
  ASSUME PluginInv, NEW r \in Processes, process' = [process EXCEPT ![r] = Resting],
         lifecycleLock' \in {lifecycleLock, Free, Dead}, lifecycleLock' # r,
         ~Working(r) => lifecycleLock' = lifecycleLock,
         StoresUntouched, EnvironmentTypes', overlap' = overlap,
         ready' = ready \/ (Working(r) /\ ready' = "failed")
  PROVE  PluginInv'
<1> USE DEF PluginInv
<1>1. /\ process' \in [Processes -> ProcessRecord] /\ Others(r)
      /\ process'[r] = Resting /\ ~Working(r)' /\ StageFits(r)'
  BY RestFacts
<1>2. ProcessTypes' /\ StagesFit'
  BY <1>1, ProcessStep
<1>3. StoreTypes' /\ (StoresTell => StoresTell')
  BY StoresStay
<1>4. ASSUME ~overlap PROVE Orderly'
  <2>1. CASE Working(r)
    BY <1>1, <1>3, <1>4, <2>1, Ends DEF Orderly
  <2>2. CASE ~Working(r)
    <3>1. \A q \in Processes \ {r} : WorkTells(q)'
      BY <1>1, <1>4, <2>2, WorkStays DEF Others, Orderly
    <3> QED
      BY <1>1, <1>3, <1>4, <2>2, <3>1, SideStep DEF Orderly
  <2> QED
    BY <2>1, <2>2
<1> QED
  BY <1>2, <1>3, <1>4

LEMMA BreakStep ==
  ASSUME PluginInv, NEW r \in Processes,
         StartFails(r) \/ LossNoticed(r) \/ RenewalFails(r) \/ Killed(r)
  PROVE  PluginInv'
<1> USE DEF PluginInv
<1>1. /\ process' = [process EXCEPT ![r] = Resting] /\ StoresUntouched /\ overlap' = overlap
      /\ lifecycleLock' \in {lifecycleLock, Free, Dead}
      /\ lifecycleLock # r => lifecycleLock' = lifecycleLock
  BY DEF StartFails, LossNoticed, RenewalFails, Killed, End, Release, EnvironmentUntouched
<1>2. lifecycleLock' # r
  BY PluginAssumption DEF StartFails, LossNoticed, RenewalFails, Killed, End, Release,
    StagesFit, StageFits
<1>3. EnvironmentTypes' /\ (ready' = ready \/ (Working(r) /\ ready' = "failed"))
  <2>1. CASE StartFails(r)
    <3>1. troubles' \in 0..MaxTroubles
      BY <2>1, PluginAssumption DEF StartFails, EnvironmentTypes, Trouble
    <3> QED
      BY <2>1, <3>1 DEF StartFails, EnvironmentTypes, Working
  <2>2. CASE LossNoticed(r) \/ RenewalFails(r) \/ Killed(r)
    BY <2>2, EnvironmentStays DEF LossNoticed, RenewalFails, Killed
  <2> QED
    BY <2>1, <2>2
<1>4. ~Working(r) => lifecycleLock' = lifecycleLock
  BY <1>1 DEF ProcessTypes, Working
<1> QED
  BY <1>1, <1>2, <1>3, <1>4, BrokenOff

LEMMA LoseLockStep ==
  ASSUME PluginInv, NEW r \in Processes, LoseLock(r) PROVE PluginInv'
<1> USE DEF PluginInv
<1>1. /\ lifecycleLock = r /\ lifecycleLock' = Free /\ StoresUntouched
      /\ EnvironmentUntouched /\ Trouble
      /\ Working(r) /\ r # Free
  BY PluginAssumption DEF LoseLock, ProcessTypes, Working
<1>2. EnvironmentTypes' /\ ready' = ready /\ (~overlap' => ~overlap)
  BY <1>1, EnvironmentStays
<1>3. /\ process' \in [Processes -> ProcessRecord] /\ Others(r)
      /\ process'[r].at = process[r].at /\ process'[r].kind = process[r].kind
      /\ process'[r].plugin = process[r].plugin /\ process'[r].todo = process[r].todo
      /\ process'[r].registry = process[r].registry /\ process'[r].lost
  BY DEF LoseLock, ProcessTypes, ProcessRecord, Others
<1>4. Working(r)' /\ StageFits(r)'
  BY <1>1, <1>3 DEF StagesFit, StageFits, Working
<1>5. ProcessTypes' /\ StagesFit'
  BY <1>1, <1>3, <1>4, ProcessStep
<1>6. StoreTypes' /\ (StoresTell => StoresTell')
  BY <1>1, <1>2, StoresStay
<1>7. ASSUME ~overlap PROVE Orderly'
  <2>1. WorkTells(r)
    BY <1>7 DEF Orderly
  <2>2. MigrationTells(r)'
    BY <1>1, <1>3, <2>1 DEF WorkTells, MigrationTells, StoresUntouched
  <2>3. CheckHolds(r)'
    BY <1>1, <1>3, <2>1 DEF WorkTells, CheckHolds, Relies, TakesAway, Present, Needed,
      InUse, IsError, StoresUntouched
  <2>4. StartTells(r)'
    BY <1>1, <1>2, <1>3, <2>1 DEF WorkTells, StartTells, Working, Servable, InUse, IsError,
      StoresUntouched
  <2>5. \A q \in Processes \ {r} : ~Working(q)' /\ WorkTells(q)'
    BY <1>1, <1>3, <1>7, OneWorks
  <2>6. OneAtWork'
    BY <1>1, <1>3, <2>5 DEF OneAtWork
  <2> QED
    BY <1>6, <1>7, <2>2, <2>3, <2>4, <2>5, <2>6 DEF Orderly, WorkTells
<1> QED
  BY <1>2, <1>5, <1>6, <1>7

\* What happens around the processes.
LEMMA AroundStep ==
  ASSUME PluginInv, MarkerGone \/ KeyExpires \/ (\E p \in Plugins : PackagesChange(p))
  PROVE  PluginInv'
<1> USE DEF PluginInv
<1>1. /\ StoresUntouched /\ UNCHANGED <<process, overlap>> /\ ready' \in {ready, "missing"}
      /\ lifecycleLock' = lifecycleLock \/ (lifecycleLock = Dead /\ lifecycleLock' = Free)
  BY DEF MarkerGone, KeyExpires, PackagesChange, EnvironmentUntouched
<1>2. EnvironmentTypes'
  <2>1. CASE MarkerGone
    BY <2>1 DEF MarkerGone, EnvironmentTypes, Quiet
  <2>2. CASE KeyExpires
    BY <2>2, EnvironmentStays DEF KeyExpires
  <2>3. ASSUME NEW p \in Plugins, PackagesChange(p) PROVE EnvironmentTypes'
    <3>1. troubles' \in 0..MaxTroubles
      BY <2>3, PluginAssumption DEF PackagesChange, EnvironmentTypes, Trouble, Quiet
    <3>2. unimportable' \subseteq Plugins
      BY <2>3 DEF PackagesChange, EnvironmentTypes
    <3> QED
      BY <2>3, <3>1, <3>2 DEF PackagesChange, EnvironmentTypes
  <2> QED
    BY <2>1, <2>2, <2>3
<1>3. ProcessTypes' /\ StagesFit'
  BY <1>1, PluginAssumption DEF ProcessTypes, StagesFit, StageFits, Working
<1>4. StoreTypes' /\ (StoresTell => StoresTell')
  BY <1>1, StoresStay
<1>5. ASSUME ~overlap PROVE Orderly'
  <2>1. OneAtWork'
    BY <1>1, <1>5, PluginAssumption DEF Orderly, OneAtWork, Working
  <2>2. \A q \in Processes : WorkTells(q)'
    BY <1>1, <1>5, WorkStays DEF Orderly
  <2> QED
    BY <1>4, <1>5, <2>1, <2>2 DEF Orderly
<1> QED
  BY <1>1, <1>2, <1>3, <1>4, <1>5

-----------------------------------------------------------------------------
LEMMA PluginInitInv == PluginInit => PluginInv
<1> SUFFICES ASSUME PluginInit PROVE PluginInv
  OBVIOUS
<1>1. ProcessTypes /\ EnvironmentTypes
  <2>1. 0 \in 0..MaxTroubles
    BY PluginAssumption
  <2>2. ProcessTypes
    BY RestingFacts, PluginAssumption DEF PluginInit, ProcessTypes
  <2> QED
    BY <2>1, <2>2 DEF PluginInit, EnvironmentTypes
<1>2. /\ NoRecord \in PluginRecord /\ ~NoRecord.known /\ ~NoRecord.installed
      /\ ~NoRecord.on /\ ~NoRecord.served /\ NoRecord.status = "discovered"
  BY DEF NoRecord, PluginRecord
<1>3. StoreTypes
  BY <1>2 DEF PluginInit, StoreTypes
<1>4. \A r \in Processes : process[r].at = "rest" /\ ~process[r].lost /\ process[r].kind = "none"
  BY RestingFacts DEF PluginInit
<1>5. StagesFit
  BY <1>4 DEF StagesFit, StageFits, OnPlugin, Installing, OfStart
<1>6. OneAtWork /\ \A r \in Processes : WorkTells(r)
  BY <1>4, IdleTells DEF OneAtWork, Working
<1>7. StoresTell
  BY <1>2 DEF PluginInit, StoresTell, RecordsTell, HistoryTells, DependenciesInUse,
    ServedIsServable, InUseIsServed, InUse
<1> QED
  BY <1>1, <1>3, <1>5, <1>6, <1>7 DEF PluginInv, Orderly

LEMMA PluginNextInv == PluginInv /\ [PluginNext]_pluginVars => PluginInv'
<1> SUFFICES ASSUME PluginInv, [PluginNext]_pluginVars PROVE PluginInv'
  OBVIOUS
<1>1. ASSUME NEW r \in Operators, NEW k \in Operations, NEW p \in Plugins, Begin(r, k, p)
      PROVE  PluginInv'
  BY <1>1, BeginStep
<1>2. ASSUME NEW r \in Servers, BeginStart(r) \/ StartFails(r) \/ Shutdown(r)
      PROVE  PluginInv'
  BY <1>2, BeginStartStep, BreakStep, StoppedStep DEF Processes
<1>3. ASSUME NEW r \in Processes, Works(r) PROVE PluginInv'
  BY <1>3, CheckStep, UpsertStep, MigrateStep, ExecuteStep, RecordOutcomeStep, FinishInstallStep,
    ReportFailureStep, EnableStep, DisableStep, PurgeStep, MarkStep, LoadRegistryStep, NextStageStep,
    StartedStep, StoppedStep, StartDefaultStep, CheckImportsStep, SyncResourcesStep, RunHookStep
  DEF Works
<1>4. ASSUME NEW r \in Processes,
             LoseLock(r) \/ LossNoticed(r) \/ RenewalFails(r) \/ Killed(r)
      PROVE  PluginInv'
  BY <1>4, LoseLockStep, BreakStep
<1>5. CASE MarkerGone \/ KeyExpires \/ (\E p \in Plugins : PackagesChange(p))
  BY <1>5, AroundStep
<1>6. CASE UNCHANGED pluginVars
  <2>1. /\ StoresUntouched /\ UNCHANGED <<process, overlap, ready, lifecycleLock>>
        /\ UNCHANGED <<unimportable, troubles>>
    BY <1>6 DEF pluginVars, StoresUntouched
  <2>2. ProcessTypes' /\ EnvironmentTypes' /\ StagesFit'
    BY <2>1 DEF PluginInv, ProcessTypes, EnvironmentTypes, StagesFit, StageFits, Working
  <2>3. StoreTypes' /\ (StoresTell => StoresTell')
    BY <2>1, StoresStay DEF PluginInv
  <2>4. \A q \in Processes : WorkTells(q) => WorkTells(q)'
    BY <2>1, WorkStays
  <2>5. OneAtWork => OneAtWork'
    BY <2>1 DEF OneAtWork, Working
  <2> QED
    BY <2>1, <2>2, <2>3, <2>4, <2>5 DEF PluginInv, Orderly
<1> QED
  BY <1>1, <1>2, <1>3, <1>4, <1>5, <1>6 DEF PluginNext

\* Whatever fails, loses its lock or is killed between the commit of a migration
\* and the record of it: the migration is in the database once, and an
\* installed plugin has had it, unless two operations overlapped or the answer
\* of a commit was lost.
THEOREM PluginsMigrateOnce == PluginSpec => []MigratedExactlyOnce
<1>1. PluginInit => PluginInv
  BY PluginInitInv
<1>2. PluginInv /\ [PluginNext]_pluginVars => PluginInv'
  BY PluginNextInv
<1>3. PluginInv => MigratedExactlyOnce
  BY InvMeansMigrated
<1> QED
  BY <1>1, <1>2, <1>3, PTL DEF PluginSpec

\* However operations, starts and shutdowns interleave: what a plugin in use
\* depends on is installed and enabled, a started application serves all that
\* is in use, and nothing that is not.
THEOREM PluginsServeAsRecorded == PluginSpec => []ServedAsRecorded
<1>1. PluginInit => PluginInv
  BY PluginInitInv
<1>2. PluginInv /\ [PluginNext]_pluginVars => PluginInv'
  BY PluginNextInv
<1>3. PluginInv => ServedAsRecorded
  BY InvMeansServed
<1> QED
  BY <1>1, <1>2, <1>3, PTL DEF PluginSpec
=============================================================================
