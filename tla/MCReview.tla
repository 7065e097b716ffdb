------------------------------- MODULE MCReview -------------------------------
(* Three small instances checked in one run, side by side: the review of a  *)
(* task, the members of two projects with the roles granted for them, and   *)
(* the schedule of a task.  They share no state here; a behaviour of the    *)
(* run is a behaviour of one of them while the others rest.                 *)
EXTENDS ReviewCycle, MemberAccess, TaskSchedule, TLC

CONSTANTS d1, d2, p1, p2, t1, t2, k1, a1, may, june

Interchangeable == Permutations(Txns)

VARIABLE part

Init ==
  /\ part \in {"review", "members", "schedule"}
  /\ ReviewInit /\ MemberInit /\ ScheduleInit
  /\ part # "members" => \A p \in Projects : Cardinality({u \in Users : member[p][u] # {}}) = 1
Next ==
  \/ part = "review" /\ UNCHANGED <<memberVars, scheduleVars, part>> /\ ReviewNext
  \/ part = "members" /\ UNCHANGED <<reviewVars, scheduleVars, part>> /\ MemberNext
  \/ part = "schedule" /\ UNCHANGED <<reviewVars, memberVars, part>> /\ ScheduleNext
Spec == Init /\ [][Next]_<<reviewVars, memberVars, scheduleVars, part>>
=============================================================================
