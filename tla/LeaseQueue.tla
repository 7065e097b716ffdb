----------------------------- MODULE LeaseQueue -----------------------------
(***************************************************************************)
(* What every background queue of Shot Grid promises its users: a job is   *)
(* taken by one worker at a time, each take opens a new epoch (the attempt *)
(* count), and only the worker of the current epoch can report how the job *)
(* ended.  Takeover says whether an abandoned job can be taken again: the  *)
(* project purge queue does it, the directory outbox forbids it.           *)
(***************************************************************************)
EXTENDS Naturals

CONSTANTS
  Jobs,
  Workers,
  Takeover   \* BOOLEAN: can an abandoned job be taken again?

VARIABLES
  state,    \* of each job
  epoch,    \* how often each job has been taken
  running   \* the job and the epoch each worker is at; <<>> for none

queueVars == <<state, epoch, running>>

Submit(j) ==
  /\ state[j] = "absent"
  /\ state' = [state EXCEPT ![j] = "queued"]
  /\ UNCHANGED <<epoch, running>>

Take(w, j) ==
  /\ running[w] = <<>>
  /\ state[j] = "queued" \/ (Takeover /\ state[j] = "claimed")
  /\ state' = [state EXCEPT ![j] = "claimed"]
  /\ epoch' = [epoch EXCEPT ![j] = @ + 1]
  /\ running' = [running EXCEPT ![w] = <<j, epoch[j] + 1>>]

\* The result counts only while the worker's epoch is the job's current one.
Report(w, j, outcome) ==
  /\ running[w] = <<j, epoch[j]>>
  /\ state[j] = "claimed"
  /\ state' = [state EXCEPT ![j] = outcome]
  /\ running' = [running EXCEPT ![w] = <<>>]
  /\ UNCHANGED epoch

\* A crash, a lost lease or a late result: the worker leaves the job as it is.
Drop(w) ==
  /\ running[w] # <<>>
  /\ running' = [running EXCEPT ![w] = <<>>]
  /\ UNCHANGED <<state, epoch>>

QueueInit ==
  /\ state \in [Jobs -> {"absent", "queued", "done"}]
  /\ epoch = [j \in Jobs |-> 0]
  /\ running = [w \in Workers |-> <<>>]

QueueNext ==
  \/ \E j \in Jobs : Submit(j)
  \/ \E w \in Workers : Drop(w)
  \/ \E w \in Workers, j \in Jobs :
       \/ Take(w, j)
       \/ \E outcome \in {"queued", "done", "dead"} : Report(w, j, outcome)

QueueSpec == QueueInit /\ [][QueueNext]_queueVars
=============================================================================
