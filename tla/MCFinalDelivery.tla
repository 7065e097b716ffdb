-------------------------- MODULE MCFinalDelivery --------------------------
(* Two small instances checked in one run, side by side: the deliveries of  *)
(* one task, and the application leader, whose scheduler runs the delivery  *)
(* workers.  They share no state here; a behaviour of the run is a          *)
(* behaviour of one of them while the other rests.                          *)
EXTENDS FinalDelivery, ApplicationLeader, TLC

CONSTANTS w1, w2, p1, p2

VARIABLE part

\* Of the leader at rest both processes have come to their end.
LeaderAtRest ==
  /\ lock = Free
  /\ isLeader = [p \in Procs |-> FALSE] /\ scheduler = [p \in Procs |-> FALSE]
  /\ renewal = [p \in Procs |-> FALSE] /\ job = [p \in Procs |-> FALSE]
  /\ main = [p \in Procs |-> "closed"]
  /\ race = [p \in Procs |-> "none"] /\ lossTask = [p \in Procs |-> "none"]
  /\ mishaps = MaxMishaps

MCInit ==
  \/ part = "delivery" /\ Init /\ LeaderAtRest
  \/ part = "leader" /\ Init /\ LeaderInit
MCNext ==
  \/ part = "delivery" /\ UNCHANGED <<leaderVars, part>> /\ Next
  \/ part = "leader" /\ UNCHANGED <<vars, part>> /\ LeaderNext
MCSpec ==
  /\ MCInit /\ [][MCNext]_<<vars, leaderVars, part>>
  /\ DeliveryFairness /\ LeaderFairness
=============================================================================
