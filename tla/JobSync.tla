------------------------------- MODULE JobSync -------------------------------
(***************************************************************************)
(* The scheduled jobs of the platform.  Their rows (sys_job) are edited by *)
(* requests on every server process, but only the process that leads the   *)
(* application runs a scheduler.  A request on the leader changes the      *)
(* scheduler before its transaction commits; any other request only asks   *)
(* the leader to look.  The leader compares its scheduler with the table   *)
(* now and then (_sync_jobs_from_database) and skips a job whose update    *)
(* time it has seen.  An await lies between the read of the table and its  *)
(* application, and between the two halves of a request.                   *)
(***************************************************************************)
EXTENDS Naturals, FiniteSets

CONSTANTS
  Servers,     \* server processes
  Jobs,        \* job ids; the database never gives one twice
  MaxEdits,    \* bound: requests; the number of one is its update time
  MaxSetbacks, \* bound: losses of the leadership and failed commits
  Nowhere      \* no leader, no row, no entry

Edits == 1..MaxEdits
Stores == {"memory", "stored"}   \* a job group is a job store; lookups try memory first
Times == 0..MaxEdits             \* update times; 0 is before the first request
RowsOfJobs == [edit : Times, enabled : BOOLEAN, store : Stores]
Entries == [edit : Times, once : {"no", "also", "only"}]

ASSUME JobAssumption ==
  /\ MaxEdits \in Nat /\ MaxSetbacks \in Nat /\ Servers # {}
  /\ Nowhere \notin Servers \cup Jobs \cup Nat \cup RowsOfJobs \cup Entries

VARIABLES
  row,       \* sys_job as committed
  request,   \* the requests of the administrators
  chief,     \* the process with _is_leader
  loading,   \* the start of its scheduler, with the rows it has read
  memory,    \* the jobs in each process's memory job store
  stored,    \* the jobs in the persistent job store, which all processes share
  known,     \* _job_update_time_cache of each process
  syncing,   \* _run_sync_loop, with the rows it has read
  again,     \* _sync_pending
  astray,    \* jobs of which a request added a second entry, or one of a disabled row
  setbacks

jobVars == <<row, request, chief, loading, memory, stored, known, syncing, again, astray, setbacks>>

NotReading(at) == [at |-> at, list |-> [j \in Jobs |-> Nowhere]]
Read == [at |-> "read", list |-> row]
Fresh == [at |-> "none", kind |-> "none", server |-> Nowhere, job |-> Nowhere,
          was |-> Nowhere, new |-> Nowhere]

Live(list) == {j \in Jobs : list[j] # Nowhere /\ list[j].enabled}
Loaded(k, j) == IF j \in Live(row) /\ row[j].store = k THEN [edit |-> 0, once |-> "no"] ELSE Nowhere

-----------------------------------------------------------------------------
(* At the beginning one process leads and has loaded the table.            *)

JobInit ==
  /\ row \in [Jobs -> [edit : {0}, enabled : BOOLEAN, store : Stores] \cup {Nowhere}]
  /\ request = [e \in Edits |-> Fresh]
  /\ chief = CHOOSE p \in Servers : TRUE
  /\ loading = NotReading("no")
  /\ memory = [p \in Servers |-> [j \in Jobs |-> IF p = chief THEN Loaded("memory", j) ELSE Nowhere]]
  /\ stored = [j \in Jobs |-> Loaded("stored", j)]
  /\ known = [p \in Servers |-> [j \in Jobs |-> IF p = chief /\ j \in Live(row) THEN 0 ELSE Nowhere]]
  /\ syncing = NotReading("idle") /\ again = FALSE
  /\ astray = {} /\ setbacks = 0

-----------------------------------------------------------------------------
(* The scheduler of the leader, as a pair of job stores.                   *)

Scheduler == [memory |-> memory[chief], stored |-> stored]
InStores(s, j) == {k \in Stores : s[k][j] # Nowhere}
Shown(s, j) == IF "stored" \in InStores(s, j) THEN "stored" ELSE "memory"   \* get_jobs as a map
With(s, k, j, x) == IF k = "memory" THEN [s EXCEPT !.memory[j] = x] ELSE [s EXCEPT !.stored[j] = x]
Removed(s, j) == With(s, IF s.memory[j] # Nowhere THEN "memory" ELSE "stored", j, Nowhere)
Put(s, j, r, once) == With(s, r.store, j, [edit |-> r.edit, once |-> once])

\* _add_job_to_scheduler: an id that is still in that store is an error, which
\* is only logged.
Renewed(s, j, r) ==
  LET rest == Removed(s, j) IN
  IF r.store \in InStores(rest, j) THEN rest ELSE Put(rest, j, r, "no")

\* _is_job_config_in_sync; a trigger that also fired once is another trigger.
InSync(s, j, r) ==
  Shown(s, j) = r.store /\ s[r.store][j] = [edit |-> r.edit, once |-> "no"]

SchedulerBecomes(s) ==
  /\ memory' = [memory EXCEPT ![chief] = s.memory]
  /\ stored' = s.stored

-----------------------------------------------------------------------------
(* Requests.  New rows and changed rows become visible with the commit; a  *)
(* changed row is locked until then.                                       *)

Unseen(j) == row[j] = Nowhere /\ \A e \in Edits : request[e].job # j
Locks(e, j) ==
  /\ request[e].job = j /\ request[e].at \in {"adding", "committing"}
  /\ request[e].kind = "delete" \/ request[e].new # Nowhere
Step(e, to) == request' = [request EXCEPT ![e].at = to]
Ended(e) == request' = [request EXCEPT ![e] = [Fresh EXCEPT !.at = "done", !.job = request[e].job]]
AsksAs(e, p, kind, j, new) ==
  /\ request[e] = Fresh /\ \A d \in Edits : d < e => request[d] # Fresh
  /\ request' = [request EXCEPT ![e] =
       [at |-> "writing", kind |-> kind, server |-> p, job |-> j, was |-> row[j], new |-> new]]
  /\ UNCHANGED <<row, chief, loading, memory, stored, known, syncing, again, astray, setbacks>>

Open(e) ==
  \E p \in Servers, j \in Jobs, on \in BOOLEAN, k \in Stores :
    LET new == [edit |-> e, enabled |-> on, store |-> k] IN
    \/ Unseen(j) /\ AsksAs(e, p, "add", j, new)
    \/ row[j] # Nowhere /\ AsksAs(e, p, "edit", j, new)
    \/ row[j] # Nowhere /\ AsksAs(e, p, "delete", j, Nowhere)
    \/ row[j] # Nowhere /\ AsksAs(e, p, "once", j, Nowhere)

UnscheduledKnown(p, j) ==
  IF p = chief
  THEN SchedulerBecomes(Removed(Scheduler, j)) /\ UNCHANGED known
  ELSE UNCHANGED <<memory, stored, known>>

\* remove_scheduler_job, which leaves a process that does not lead alone.
Unscheduled(p, j) ==
  IF p = chief
  THEN /\ SchedulerBecomes(Removed(Scheduler, j))
       /\ known' = [known EXCEPT ![p][j] = Nowhere]
  ELSE UNCHANGED <<memory, stored, known>>

\* The INSERT, UPDATE or DELETE, up to the next await.  The UPDATE names the
\* group that was read and may find nothing any more.
Write(e) ==
  LET r == request[e] IN
  /\ r.at = "writing" /\ r.kind # "once"
  /\ ~\E d \in Edits \ {e} : Locks(d, r.job)
  /\ IF r.kind = "edit" /\ (row[r.job] = Nowhere \/ row[r.job].store # r.was.store)
     THEN request' = [request EXCEPT ![e].at = IF r.new.enabled THEN "adding" ELSE "committing",
                                     ![e].new = Nowhere, ![e].was = Nowhere]
     ELSE request' = [request EXCEPT ![e].at = IF r.kind # "delete" /\ r.new.enabled
                                               THEN "adding" ELSE "committing",
                                     ![e].was = Nowhere]
  /\ IF r.kind = "add" THEN UNCHANGED <<memory, stored, known>> ELSE Unscheduled(r.server, r.job)
  /\ UNCHANGED <<row, chief, loading, syncing, again, astray, setbacks>>

\* What the transaction reads back.
Mine(e) == IF request[e].new = Nowhere THEN row[request[e].job] ELSE request[e].new

\* add_scheduler_job: an id that is in the store by now ends the request.
Add(e) ==
  LET r == request[e] j == r.job p == r.server IN
  /\ r.at = "adding"
  /\ IF p = chief /\ Mine(e) # Nowhere /\ Mine(e).store \notin InStores(Scheduler, j)
     THEN /\ SchedulerBecomes(Put(Scheduler, j, Mine(e), "no"))
          /\ known' = [known EXCEPT ![p][j] = Mine(e).edit]
          /\ astray' = IF InStores(Scheduler, j) # {} \/ ~Mine(e).enabled THEN astray \cup {j} ELSE astray
          /\ Step(e, "committing")
     ELSE /\ IF p = chief THEN Ended(e) ELSE Step(e, "committing")
          /\ UNCHANGED <<memory, stored, known, astray>>
  /\ UNCHANGED <<row, chief, loading, syncing, again, setbacks>>

\* execute_job_once_services: out of the scheduler, an await, and back with a
\* trigger that fires at once.  Elsewhere the job is run without a scheduler.
OnceRemove(e) ==
  /\ request[e].at = "writing" /\ request[e].kind = "once"
  /\ Unscheduled(request[e].server, request[e].job)
  /\ Step(e, "running")
  /\ UNCHANGED <<row, chief, loading, syncing, again, astray, setbacks>>

OnceAdd(e) ==
  LET j == request[e].job r == row[j] IN
  /\ request[e].at = "running"
  /\ IF request[e].server = chief /\ r # Nowhere /\ r.store \notin InStores(Scheduler, j)
     THEN /\ SchedulerBecomes(Put(Scheduler, j, r, IF r.enabled THEN "also" ELSE "only"))
          /\ astray' = IF InStores(Scheduler, j) # {} THEN astray \cup {j} ELSE astray
     ELSE UNCHANGED <<memory, stored, astray>>
  /\ Ended(e)
  /\ UNCHANGED <<row, chief, loading, known, syncing, again, setbacks>>

Commit(e) ==
  /\ request[e].at = "committing"
  /\ row' = IF request[e].kind = "delete" THEN [row EXCEPT ![request[e].job] = Nowhere]
            ELSE IF request[e].new # Nowhere THEN [row EXCEPT ![request[e].job] = request[e].new]
            ELSE row
  /\ request' = [request EXCEPT ![e] = [Fresh EXCEPT !.at = "asking", !.server = request[e].server,
                                                      !.job = request[e].job]]
  /\ UNCHANGED <<chief, loading, memory, stored, known, syncing, again, astray, setbacks>>

\* A commit that fails takes the row back, not what was done to the scheduler.
CommitFails(e) ==
  /\ request[e].at = "committing" /\ setbacks < MaxSetbacks
  /\ setbacks' = setbacks + 1
  /\ Ended(e)
  /\ UNCHANGED <<row, chief, loading, memory, stored, known, syncing, again, astray>>

\* request_scheduler_sync on the leader.
Requested ==
  IF syncing.at = "idle" THEN syncing' = NotReading("due") /\ UNCHANGED again
                         ELSE again' = TRUE /\ UNCHANGED syncing

\* Another process publishes, and nobody may be listening.
Ask(e) ==
  /\ request[e].at = "asking"
  /\ \/ chief # Nowhere /\ (request[e].server = chief \/ loading.at = "no") /\ Requested
     \/ request[e].server # chief /\ UNCHANGED <<syncing, again>>
  /\ Ended(e)
  /\ UNCHANGED <<row, chief, loading, memory, stored, known, astray, setbacks>>

-----------------------------------------------------------------------------
(* The leader.                                                             *)

Gain(p) ==
  /\ chief = Nowhere
  /\ chief' = p /\ loading' = NotReading("start")
  /\ UNCHANGED <<row, request, memory, stored, known, syncing, again, astray, setbacks>>

LoadRead ==
  /\ loading.at = "start" /\ loading' = Read
  /\ UNCHANGED <<row, request, chief, memory, stored, known, syncing, again, astray, setbacks>>

\* The scheduler as a whole, job by job.
Scheduled(s) ==
  /\ memory' = [memory EXCEPT ![chief] = [j \in Jobs |-> s[j].memory[j]]]
  /\ stored' = [j \in Jobs |-> s[j].stored[j]]
Learned(list, js) ==
  known' = [known EXCEPT ![chief] = [j \in Jobs |-> IF j \in js THEN list[j].edit ELSE known[chief][j]]]

LoadApply ==
  /\ loading.at = "read"
  /\ Scheduled([j \in Jobs |-> IF j \in Live(loading.list) THEN Renewed(Scheduler, j, loading.list[j])
                                                           ELSE Scheduler])
  /\ Learned(loading.list, Live(loading.list))
  /\ loading' = NotReading("no")
  /\ UNCHANGED <<row, request, chief, syncing, again, astray, setbacks>>

\* Every 30 seconds the leader's own job asks for it.
Tick ==
  /\ chief # Nowhere /\ loading.at = "no" /\ syncing.at = "idle"
  /\ Requested
  /\ UNCHANGED <<row, request, chief, loading, memory, stored, known, astray, setbacks>>

SyncRead ==
  /\ syncing.at = "due" /\ syncing' = Read
  /\ UNCHANGED <<row, request, chief, loading, memory, stored, known, again, astray, setbacks>>

SyncedJob(j, list) ==
  LET s == Scheduler IN
  IF j \notin Live(list) THEN (IF InStores(s, j) = {} THEN s ELSE Removed(s, j))
  ELSE IF InStores(s, j) = {} THEN Put(s, j, list[j], "no")
  ELSE IF known[chief][j] = list[j].edit \/ InSync(s, j, list[j]) THEN s
  ELSE Renewed(Removed(s, j), j, list[j])

SyncApply ==
  /\ syncing.at = "read"
  /\ Scheduled([j \in Jobs |-> SyncedJob(j, syncing.list)])
  /\ known' = [known EXCEPT ![chief] = [j \in Jobs |->
       IF j \in Live(syncing.list) THEN syncing.list[j].edit
       ELSE IF InStores(Scheduler, j) # {} THEN Nowhere ELSE known[chief][j]]]
  /\ syncing' = NotReading(IF again THEN "due" ELSE "idle")
  /\ again' = FALSE
  /\ UNCHANGED <<row, request, chief, loading, astray, setbacks>>

\* A one-off entry fires and is gone.
Fire(j) ==
  /\ chief # Nowhere
  /\ \E k \in InStores(Scheduler, j) :
       /\ Scheduler[k][j].once = "only"
       /\ SchedulerBecomes(With(Scheduler, k, j, Nowhere))
  /\ UNCHANGED <<row, request, chief, loading, known, syncing, again, astray, setbacks>>

\* on_lock_lost: the memory of the scheduler is gone, what was known stays.
Lose ==
  /\ chief # Nowhere /\ loading.at = "no" /\ setbacks < MaxSetbacks
  /\ setbacks' = setbacks + 1
  /\ chief' = Nowhere
  /\ memory' = [memory EXCEPT ![chief] = [j \in Jobs |-> Nowhere]]
  /\ syncing' = NotReading("idle") /\ again' = FALSE
  /\ UNCHANGED <<row, request, loading, stored, known, astray>>

RequestStep(e) ==
  Write(e) \/ Add(e) \/ OnceRemove(e) \/ OnceAdd(e) \/ Commit(e) \/ Ask(e)
Lead == (\E p \in Servers : Gain(p)) \/ LoadRead \/ LoadApply

JobNext ==
  \/ \E e \in Edits : Open(e) \/ RequestStep(e) \/ CommitFails(e)
  \/ Lead \/ Tick \/ SyncRead \/ SyncApply \/ Lose
  \/ \E j \in Jobs : Fire(j)

JobSpec == JobInit /\ [][JobNext]_jobVars

-----------------------------------------------------------------------------
(* Properties.                                                             *)

Lists == [Jobs -> RowsOfJobs \cup {Nowhere}]
RequestRows ==
  [at : {"none", "writing", "adding", "running", "committing", "asking", "done"},
   kind : {"none", "add", "edit", "delete", "once"}, server : Servers \cup {Nowhere},
   job : Jobs \cup {Nowhere}, was : RowsOfJobs \cup {Nowhere}, new : RowsOfJobs \cup {Nowhere}]
JobTypeOK ==
  /\ row \in Lists /\ request \in [Edits -> RequestRows]
  /\ chief \in Servers \cup {Nowhere}
  /\ loading \in [at : {"no", "start", "read"}, list : Lists]
  /\ memory \in [Servers -> [Jobs -> Entries \cup {Nowhere}]]
  /\ stored \in [Jobs -> Entries \cup {Nowhere}]
  /\ known \in [Servers -> [Jobs -> Times \cup {Nowhere}]]
  /\ syncing \in [at : {"idle", "due", "read"}, list : Lists] /\ again \in BOOLEAN
  /\ astray \subseteq Jobs
  /\ setbacks \in 0..MaxSetbacks

Leading == chief # Nowhere /\ loading.at = "no"

\* Wherever a comparison with the table begins, it leaves the scheduler with
\* the enabled jobs of the table, as they are there, and no others: what it
\* skips because its update time is known was right, whatever requests, failed
\* commits and terms of the leadership came before.  (Only an entry that fires
\* at once and is gone may hide a job until then.)  Two races of requests are
\* left out: one adds a second entry of a job, the other, of which the UPDATE
\* found nothing, an entry of a row that is switched off by now.
NextComparisonHeals ==
  Leading =>
    \A j \in Jobs \ astray :
      LET s == SyncedJob(j, row) IN
      IF j \notin Live(row) THEN InStores(s, j) = {}
      ELSE \/ InStores(s, j) = {row[j].store} /\ s[row[j].store][j].edit = row[j].edit
           \/ \E k \in InStores(s, j) : s[k][j].once = "only"

\* But for these races no job is in two stores.
OneEntry ==
  chief # Nowhere => \A j \in Jobs \ astray : Cardinality(InStores(Scheduler, j)) <= 1

SchedulerSafe == JobTypeOK /\ NextComparisonHeals /\ OneEntry

=============================================================================
