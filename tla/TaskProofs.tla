------------------------------ MODULE TaskProofs ------------------------------
(***************************************************************************)
(* What is told of a task is true for any number of actors and bounds: its *)
(* schedule (ScheduleTold, with one strengthening about the rows of the    *)
(* history), and the delivery of its version (DeliverySafe and the         *)
(* manifest, from DeliveryInv).                                            *)
(***************************************************************************)
EXTENDS TaskSchedule, FinalDelivery, JobSync, FiniteSetTheorems, SequenceTheorems, TLAPS

\* No row is younger than the task, and a schedule dialog's row carries the
\* plan that was asked for.
RowsFollowRequests ==
  \A i \in DOMAIN changes :
    /\ changes[i].after <= version
    /\ changes[i].request.from \in Dialogs => changes[i].to = changes[i].request.plan

ScheduleInv == ScheduleTold /\ RowsFollowRequests

USE ScheduleAssumption

LEMMA InitSchedule == ScheduleInit => ScheduleInv
<1> SUFFICES ASSUME ScheduleInit PROVE ScheduleInv OBVIOUS
<1>1. ScheduleTypeOK
  <2>1. version \in Versions /\ changes \in Seq(Rows)
    BY DEF ScheduleInit, Versions
  <2>2. /\ DOMAIN dialog = Dialogs \cup Adjustments
        /\ \A d \in Dialogs \cup Adjustments : dialog[d] = NotOpen
    BY DEF ScheduleInit
  <2>3. answer \in [Dialogs -> [what : {"none", "done", "conflict", "stale", "refused", "closed"},
                                plan : PlansOrNone]]
    BY DEF ScheduleInit, PlansOrNone
  <2> QED BY <2>1, <2>2, <2>3 DEF ScheduleInit, ScheduleTypeOK, SCHEDULE_MUTABLE_STATUSES, PlansOrNone
<1>2. HistoryExplainsSchedule /\ KeysApplyOnce /\ RowsFollowRequests
  BY DEF ScheduleInit, HistoryExplainsSchedule, KeysApplyOnce, RowsFollowRequests
<1>3. AnswersTellTheTruth /\ StartedIsPlanned
  BY DEF ScheduleInit, AnswersTellTheTruth, StartedIsPlanned
<1> QED BY <1>1, <1>2, <1>3 DEF ScheduleInv, ScheduleTold

-----------------------------------------------------------------------------
(* A row is appended.                                                      *)

\* The history with one more row, at the present lock version, keeps every
\* part of the invariant that speaks of the history alone.
Appends(m, to) ==
  /\ changes' = Append(changes, Row(m, to))
  /\ plan' = to /\ baseline' = Firsts(to)
  /\ version < MaxVersion /\ version' = version + 1

LEMMA AppendedRows ==
  ASSUME ScheduleInv, NEW m \in Requests, NEW to \in Plans, to # plan, Appends(m, to)
  PROVE  /\ Row(m, to) \in Rows /\ changes' \in Seq(Rows)
         /\ DOMAIN changes' = 1..(Len(changes) + 1) /\ DOMAIN changes = 1..Len(changes)
         /\ Len(changes) \in Nat
         /\ \A i \in DOMAIN changes : changes'[i] = changes[i]
         /\ changes'[Len(changes) + 1] = Row(m, to)
<1>1. Row(m, to) \in Rows
  BY DEF ScheduleInv, ScheduleTold, ScheduleTypeOK, Row, Rows, Versions, PlansOrNone, Appends
<1>2. changes \in Seq(Rows)
  BY DEF ScheduleInv, ScheduleTold, ScheduleTypeOK
<1> QED BY <1>1, <1>2 DEF Appends

LEMMA AppendedHistory ==
  ASSUME ScheduleInv, NEW m \in Requests, NEW to \in Plans, to # plan, Appends(m, to),
         m.from \in Dialogs => to = m.plan /\ Previous(m.from) = {}
  PROVE  /\ HistoryExplainsSchedule' /\ KeysApplyOnce' /\ RowsFollowRequests'
         /\ \A d \in Dialogs : /\ Previous(d) \subseteq Previous(d)'
                               /\ d # m.from => Previous(d)' = Previous(d)
         /\ m.from \in Dialogs => Len(changes) + 1 \in Previous(m.from)'
<1> DEFINE n == Len(changes)
<1>1. /\ Row(m, to) \in Rows /\ DOMAIN changes' = 1..(n + 1) /\ DOMAIN changes = 1..n
      /\ n \in Nat /\ changes'[n + 1] = Row(m, to) /\ changes' \in Seq(Rows)
      /\ \A i \in DOMAIN changes : changes'[i] = changes[i]
  BY AppendedRows
<1>2. version \in Nat /\ version' = version + 1 /\ plan' = to /\ baseline' = Firsts(to)
  BY DEF ScheduleInv, ScheduleTold, ScheduleTypeOK, Versions, Appends
<1>3. /\ Row(m, to).request = m /\ Row(m, to).from = plan /\ Row(m, to).to = to
      /\ Row(m, to).before = version /\ Row(m, to).after = version + 1
  BY DEF Row
<1>4. /\ HistoryExplainsSchedule /\ KeysApplyOnce /\ RowsFollowRequests
      /\ changes \in Seq(Rows)
  BY DEF ScheduleInv, ScheduleTold, ScheduleTypeOK
<1>5. ASSUME NEW i \in DOMAIN changes'
      PROVE  i \in DOMAIN changes \/ i = n + 1
  BY <1>1, <1>5
<1> HIDE DEF n
<1>6. (changes = <<>>) <=> (n = 0)
  BY <1>4 DEF n
<1>6a. changes' # <<>> /\ Len(changes') = n + 1
  BY <1>1
<1>7. HistoryExplainsSchedule'
  <2>1. ASSUME NEW i \in DOMAIN changes'
        PROVE  /\ changes'[i].from = IF i = 1 THEN Unplanned ELSE changes'[i - 1].to
               /\ changes'[i].from # changes'[i].to
               /\ i > 1 => changes'[i - 1].after <= changes'[i].before
    <3>1. CASE i \in DOMAIN changes
      <4>1. i \in Nat /\ i >= 1 /\ (i > 1 => i - 1 \in DOMAIN changes)
        BY <3>1, <1>1
      <4>2. changes'[i] = changes[i] /\ (i > 1 => changes'[i - 1] = changes[i - 1])
        BY <3>1, <4>1, <1>1
      <4> QED BY <3>1, <4>1, <4>2, <1>4 DEF HistoryExplainsSchedule
    <3>2. CASE i = n + 1
      <4>1. CASE n = 0
        BY <3>2, <4>1, <1>1, <1>3, <1>4, <1>6 DEF HistoryExplainsSchedule
      <4>2. CASE n # 0
        <5>1. i > 1 /\ i # 1 /\ i - 1 = n /\ n \in DOMAIN changes
          BY <3>2, <4>2, <1>1
        <5>2. changes'[i - 1] = changes[n] /\ changes'[i] = Row(m, to)
          BY <5>1, <3>2, <1>1
        <5>3. plan = changes[n].to
          BY <4>2, <1>4, <1>6 DEF HistoryExplainsSchedule, n
        <5>4. changes[n].after <= version
          BY <5>1, <1>4 DEF RowsFollowRequests
        <5> QED BY <5>1, <5>2, <5>3, <5>4, <1>3
      <4> QED BY <4>1, <4>2
    <3> QED BY <3>1, <3>2, <1>5
  <2>2. changes'[1].to = Firsts(to)
    <3>1. CASE n = 0
      BY <3>1, <1>1, <1>3, <1>4, <1>6 DEF HistoryExplainsSchedule, Firsts
    <3>2. CASE n # 0
      <4>1. 1 \in DOMAIN changes /\ changes[1] \in Rows
        BY <3>2, <1>1, <1>4
      <4>2. baseline = changes[1].to /\ baseline # Unplanned
        BY <4>1, <3>2, <1>4, <1>6 DEF HistoryExplainsSchedule, Rows
      <4> QED BY <4>1, <4>2, <1>1 DEF Firsts
    <3> QED BY <3>1, <3>2
  <2>3. changes'[Len(changes')].to = to
    BY <1>1, <1>3, <1>6a
  <2> QED BY <2>1, <2>2, <2>3, <1>2, <1>6a DEF HistoryExplainsSchedule
<1>8. RowsFollowRequests'
  <2>1. ASSUME NEW i \in DOMAIN changes'
        PROVE  /\ changes'[i].after <= version'
               /\ changes'[i].request.from \in Dialogs => changes'[i].to = changes'[i].request.plan
    <3>1. CASE i \in DOMAIN changes
      <4>1. changes[i] \in Rows /\ changes'[i] = changes[i]
        BY <3>1, <1>1, <1>4
      <4>2. changes[i].after \in Nat
        BY <4>1 DEF Rows, Versions
      <4> QED BY <3>1, <4>1, <4>2, <1>2, <1>4 DEF RowsFollowRequests
    <3>2. CASE i = n + 1
      BY <3>2, <1>1, <1>2, <1>3
    <3> QED BY <3>1, <3>2, <1>5
  <2> QED BY <2>1 DEF RowsFollowRequests
<1>9. ASSUME NEW d \in Dialogs
      PROVE  /\ Previous(d) \subseteq Previous(d)'
             /\ d # m.from => Previous(d)' = Previous(d)
  <2>1. Previous(d) \subseteq Previous(d)'
    BY <1>1 DEF Previous
  <2>2. ASSUME d # m.from, NEW i \in Previous(d)'
        PROVE  i \in Previous(d)
    <3>1. i \in DOMAIN changes' /\ changes'[i].request.from = d
      BY DEF Previous
    <3>2. i # n + 1
      BY <3>1, <2>2, <1>1, <1>3
    <3> QED BY <3>1, <3>2, <1>1, <1>5 DEF Previous
  <2> QED BY <2>1, <2>2
<1>10. KeysApplyOnce'
  <2>1. ASSUME NEW i \in DOMAIN changes', NEW j \in DOMAIN changes',
               changes'[i].request.from = changes'[j].request.from,
               changes'[i].request.from \in Dialogs
        PROVE  i = j
    <3>1. CASE i \in DOMAIN changes /\ j \in DOMAIN changes
      BY <3>1, <2>1, <1>1, <1>4 DEF KeysApplyOnce
    <3>2. ASSUME NEW k \in DOMAIN changes, changes[k].request.from = m.from, m.from \in Dialogs
          PROVE  FALSE
      BY <3>2 DEF Previous
    <3>3. CASE i = n + 1 /\ j \in DOMAIN changes
      BY <3>3, <3>2, <2>1, <1>1, <1>3
    <3>4. CASE i \in DOMAIN changes /\ j = n + 1
      BY <3>4, <3>2, <2>1, <1>1, <1>3
    <3> QED BY <3>1, <3>3, <3>4, <1>5
  <2> QED BY <2>1 DEF KeysApplyOnce
<1>11. m.from \in Dialogs => n + 1 \in Previous(m.from)'
  BY <1>1, <1>3 DEF Previous
<1> QED BY <1>7, <1>8, <1>9, <1>10, <1>11 DEF n

-----------------------------------------------------------------------------
(* Steps that add no row.                                                  *)

\* A step that leaves plan, baseline and history alone keeps what is said
\* of them; the lock version may grow.
LEMMA KeptHistory ==
  ASSUME ScheduleInv, UNCHANGED <<plan, baseline, changes>>,
         version' \in Versions, version <= version'
  PROVE  /\ HistoryExplainsSchedule' /\ KeysApplyOnce' /\ RowsFollowRequests'
         /\ changes' \in Seq(Rows)
         /\ \A d \in Dialogs \cup Adjustments : Previous(d)' = Previous(d)
<1>1. HistoryExplainsSchedule /\ KeysApplyOnce /\ RowsFollowRequests /\ changes \in Seq(Rows)
  BY DEF ScheduleInv, ScheduleTold, ScheduleTypeOK
<1>2. HistoryExplainsSchedule'
  BY <1>1 DEF HistoryExplainsSchedule
<1>3. KeysApplyOnce'
  BY <1>1 DEF KeysApplyOnce
<1>4. RowsFollowRequests'
  <2>1. ASSUME NEW i \in DOMAIN changes
        PROVE  changes[i].after <= version'
    <3>1. changes[i] \in Rows
      BY <1>1
    <3>2. changes[i].after \in Nat
      BY <3>1 DEF Rows, Versions
    <3>3. version \in Nat /\ version' \in Nat
      BY DEF Versions, ScheduleInv, ScheduleTold, ScheduleTypeOK
    <3> QED BY <3>2, <3>3, <1>1 DEF RowsFollowRequests
  <2> QED BY <2>1, <1>1 DEF RowsFollowRequests
<1> QED BY <1>1, <1>2, <1>3, <1>4 DEF Previous

\* A dialog is given another plan or lock version.
LEMMA DialogTypes ==
  ASSUME ScheduleTypeOK, NEW d \in Dialogs \cup Adjustments,
         NEW next \in [plan : PlansOrNone, version : Versions],
         d \in Dialogs => next \in [plan : Plans, version : Versions],
         dialog' = [dialog EXCEPT ![d] = next],
         UNCHANGED <<phase, version, plan, baseline, archived, sending, changes, wire, answer>>
  PROVE  ScheduleTypeOK'
<1>1. /\ DOMAIN dialog' = Dialogs \cup Adjustments /\ dialog'[d] = next
      /\ \A e \in Dialogs \cup Adjustments : e # d => dialog'[e] = dialog[e]
  BY DEF ScheduleTypeOK
<1>2. ASSUME NEW e \in Dialogs
      PROVE  dialog'[e] \in {NotOpen} \cup [plan : Plans, version : Versions]
  <2>1. CASE e = d
    BY <2>1, <1>1
  <2>2. CASE e # d
    BY <2>2, <1>1 DEF ScheduleTypeOK
  <2> QED BY <2>1, <2>2
<1>3. ASSUME NEW e \in Adjustments
      PROVE  dialog'[e] \in {NotOpen} \cup [plan : PlansOrNone, version : Versions]
  <2>1. CASE e = d
    BY <2>1, <1>1
  <2>2. CASE e # d
    BY <2>2, <1>1 DEF ScheduleTypeOK
  <2> QED BY <2>1, <2>2
<1>4. NotOpen' = NotOpen
  BY DEF NotOpen
<1> QED BY <1>1, <1>2, <1>3, <1>4 DEF ScheduleTypeOK

\* What people do to their dialogs and requests.
LEMMA PeopleKeep ==
  ASSUME ScheduleInv, People
  PROVE  ScheduleInv'
<1>1. UNCHANGED <<phase, version, plan, baseline, archived, sending, changes, answer>>
  BY DEF People, OpenDialog, RefreshDialog, ChangeDialog, Send
<1>2. version' \in Versions /\ version <= version'
  BY <1>1 DEF ScheduleInv, ScheduleTold, ScheduleTypeOK, Versions
<1>3. /\ HistoryExplainsSchedule' /\ KeysApplyOnce' /\ RowsFollowRequests'
      /\ \A d \in Dialogs \cup Adjustments : Previous(d)' = Previous(d)
  BY <1>1, <1>2, KeptHistory
<1>4. AnswersTellTheTruth' /\ StartedIsPlanned'
  BY <1>1, <1>3 DEF ScheduleInv, ScheduleTold, AnswersTellTheTruth, StartedIsPlanned
<1>5. ScheduleTypeOK /\ version \in Versions
  BY DEF ScheduleInv, ScheduleTold, ScheduleTypeOK
<1>7. ASSUME \E d \in Dialogs \cup Adjustments, p \in Plans \cup {Unplanned} : OpenDialog(d, p)
      PROVE  ScheduleTypeOK'
  <2> PICK d \in Dialogs \cup Adjustments, p \in Plans \cup {Unplanned} : OpenDialog(d, p)
    BY <1>7
  <2> DEFINE opened == [plan |-> p, version |-> version]
  <2>1. /\ opened \in [plan : PlansOrNone, version : Versions]
        /\ d \in Dialogs => opened \in [plan : Plans, version : Versions]
    BY <1>5 DEF OpenDialog, PlansOrNone
  <2>2. dialog' = [dialog EXCEPT ![d] = opened] /\ UNCHANGED wire
    BY DEF OpenDialog
  <2> HIDE DEF opened
  <2> QED BY <2>1, <2>2, <1>1, <1>5, DialogTypes
<1>8. ASSUME \E d \in Dialogs : RefreshDialog(d)
      PROVE  ScheduleTypeOK'
  <2> PICK d \in Dialogs : RefreshDialog(d)
    BY <1>8
  <2>1. dialog[d] \in [plan : Plans, version : Versions]
    BY <1>5 DEF RefreshDialog, ScheduleTypeOK, NotOpen, Versions
  <2> DEFINE next == [dialog[d] EXCEPT !.version = version]
  <2>2. next \in [plan : Plans, version : Versions] /\ next \in [plan : PlansOrNone, version : Versions]
    BY <2>1, <1>5 DEF PlansOrNone
  <2>3. dialog' = [dialog EXCEPT ![d] = next] /\ UNCHANGED wire
    BY DEF RefreshDialog
  <2> HIDE DEF next
  <2> QED BY <2>2, <2>3, <1>1, <1>5, DialogTypes
<1>9. ASSUME \E d \in Dialogs, p \in Plans : ChangeDialog(d, p)
      PROVE  ScheduleTypeOK'
  <2> PICK d \in Dialogs, p \in Plans : ChangeDialog(d, p)
    BY <1>9
  <2>1. dialog[d] \in [plan : Plans, version : Versions]
    BY <1>5 DEF ChangeDialog, ScheduleTypeOK
  <2> DEFINE next == [dialog[d] EXCEPT !.plan = p]
  <2>2. next \in [plan : Plans, version : Versions] /\ next \in [plan : PlansOrNone, version : Versions]
    BY <2>1 DEF PlansOrNone
  <2>3. dialog' = [dialog EXCEPT ![d] = next] /\ UNCHANGED wire
    BY DEF ChangeDialog
  <2> HIDE DEF next
  <2> QED BY <2>2, <2>3, <1>1, <1>5, DialogTypes
<1>10. ASSUME \E d \in Dialogs : Send(d)
       PROVE  ScheduleTypeOK'
  <2> PICK d \in Dialogs : Send(d)
    BY <1>10
  <2>1. Command(d) \in [from : Dialogs, plan : Plans, version : Versions]
    BY <1>5 DEF Send, ScheduleTypeOK, Command
  <2>2. wire' \subseteq [from : Dialogs, plan : Plans, version : Versions] /\ UNCHANGED dialog
    BY <2>1, <1>5 DEF Send, ScheduleTypeOK
  <2>3. NotOpen' = NotOpen
    BY DEF NotOpen
  <2> QED BY <2>2, <2>3, <1>1, <1>5 DEF ScheduleTypeOK
<1>11. ScheduleTypeOK'
  <2>1. \/ \E d \in Dialogs \cup Adjustments, p \in Plans \cup {Unplanned} : OpenDialog(d, p)
        \/ \E d \in Dialogs : RefreshDialog(d)
        \/ \E d \in Dialogs, p \in Plans : ChangeDialog(d, p)
        \/ \E d \in Dialogs : Send(d)
    BY DEF People
  <2> QED BY <2>1, <1>7, <1>8, <1>9, <1>10
<1> QED BY <1>3, <1>4, <1>11 DEF ScheduleInv, ScheduleTold

\* An answer goes to the dialog that asked.
LEMMA AnswerTypes ==
  ASSUME ScheduleInv, NEW m \in wire,
         NEW what \in {"none", "done", "conflict", "stale", "refused", "closed"},
         Answered(m, what)
  PROVE  /\ m \in Requests /\ m.from \in Dialogs /\ m.plan \in Plans
         /\ wire' \subseteq [from : Dialogs, plan : Plans, version : Versions]
         /\ answer' \in [Dialogs -> [what : {"none", "done", "conflict", "stale", "refused", "closed"},
                                     plan : PlansOrNone]]
         /\ answer'[m.from] = [what |-> what, plan |-> m.plan]
         /\ \A d \in Dialogs : d # m.from => answer'[d] = answer[d]
  BY DEF ScheduleInv, ScheduleTold, ScheduleTypeOK, Answered, Requests, PlansOrNone

\* An answer that is true when the history stays as it is.
LEMMA AnswerKeeps ==
  ASSUME ScheduleInv, NEW m \in wire,
         NEW what \in {"none", "done", "conflict", "stale", "refused", "closed"},
         Answered(m, what),
         UNCHANGED <<phase, version, plan, baseline, archived, sending, changes, dialog>>,
         what = "done" => \E i \in Previous(m.from) : changes[i].to = m.plan,
         what \in {"stale", "refused"} => Previous(m.from) = {}
  PROVE  ScheduleInv'
<1>1. version' \in Versions /\ version <= version'
  BY DEF ScheduleInv, ScheduleTold, ScheduleTypeOK, Versions
<1>2. /\ HistoryExplainsSchedule' /\ KeysApplyOnce' /\ RowsFollowRequests'
      /\ \A d \in Dialogs \cup Adjustments : Previous(d)' = Previous(d)
  BY <1>1, KeptHistory
<1>3. /\ m.from \in Dialogs
      /\ wire' \subseteq [from : Dialogs, plan : Plans, version : Versions]
      /\ answer' \in [Dialogs -> [what : {"none", "done", "conflict", "stale", "refused", "closed"},
                                  plan : PlansOrNone]]
      /\ answer'[m.from] = [what |-> what, plan |-> m.plan]
      /\ \A d \in Dialogs : d # m.from => answer'[d] = answer[d]
  BY AnswerTypes
<1>4. ScheduleTypeOK'
  BY <1>3 DEF ScheduleInv, ScheduleTold, ScheduleTypeOK
<1>5. AnswersTellTheTruth'
  <2>1. ASSUME NEW d \in Dialogs
        PROVE  /\ answer'[d].what = "done" => \E i \in Previous(d)' : changes'[i].to = answer'[d].plan
               /\ answer'[d].what \in {"stale", "refused"} => Previous(d)' = {}
    <3>1. CASE d = m.from
      BY <3>1, <1>2, <1>3
    <3>2. CASE d # m.from
      BY <3>2, <1>2, <1>3 DEF ScheduleInv, ScheduleTold, AnswersTellTheTruth
    <3> QED BY <3>1, <3>2
  <2> QED BY <2>1 DEF AnswersTellTheTruth
<1>6. StartedIsPlanned'
  BY DEF ScheduleInv, ScheduleTold, StartedIsPlanned
<1> QED BY <1>2, <1>4, <1>5, <1>6 DEF ScheduleInv, ScheduleTold

LEMMA ReplayKeeps ==
  ASSUME ScheduleInv, NEW m \in wire, Replay(m)
  PROVE  ScheduleInv'
<1> PICK i \in Previous(m.from) : Answered(m, IF changes[i].request = m THEN "done" ELSE "conflict")
  BY DEF Replay
<1>1. UNCHANGED <<phase, version, plan, baseline, archived, sending, changes, dialog>>
  BY DEF Replay
<1>2. CASE changes[i].request = m
  <2>1. i \in DOMAIN changes /\ m.from \in Dialogs /\ Answered(m, "done")
    BY <1>2 DEF Previous, ScheduleInv, ScheduleTold, ScheduleTypeOK
  <2>2. changes[i].to = m.plan
    BY <2>1, <1>2 DEF ScheduleInv, RowsFollowRequests
  <2> QED BY <2>1, <2>2, <1>1, AnswerKeeps
<1>3. CASE changes[i].request # m
  <2>1. Answered(m, "conflict")
    BY <1>3
  <2> QED BY <2>1, <1>1, AnswerKeeps
<1> QED BY <1>2, <1>3

LEMMA RefuseKeeps ==
  ASSUME ScheduleInv, NEW m \in wire, Refuse(m) \/ ReadOnly(m)
  PROVE  ScheduleInv'
<1>1. UNCHANGED <<phase, version, plan, baseline, archived, sending, changes, dialog>>
  BY DEF Refuse, ReadOnly
<1>2. CASE ReadOnly(m)
  BY <1>2, <1>1, AnswerKeeps DEF ReadOnly
<1>3. CASE Refuse(m)
  <2>1. Previous(m.from) = {}
    BY <1>3 DEF Refuse, Known
  <2>2. Answered(m, "stale") \/ Answered(m, "refused")
    BY <1>3 DEF Refuse
  <2> QED BY <2>1, <2>2, <1>1, AnswerKeeps
<1> QED BY <1>2, <1>3

-----------------------------------------------------------------------------
(* The two ways to change the plan.                                        *)

LEMMA RescheduleKeeps ==
  ASSUME ScheduleInv, NEW m \in wire, Reschedule(m)
  PROVE  ScheduleInv'
<1>1. /\ m \in Requests /\ m.from \in Dialogs /\ m.plan \in Plans
      /\ wire' \subseteq [from : Dialogs, plan : Plans, version : Versions]
      /\ answer' \in [Dialogs -> [what : {"none", "done", "conflict", "stale", "refused", "closed"},
                                  plan : PlansOrNone]]
      /\ answer'[m.from] = [what |-> "done", plan |-> m.plan]
      /\ \A d \in Dialogs : d # m.from => answer'[d] = answer[d]
  BY AnswerTypes DEF Reschedule
<1>2. Appends(m, m.plan) /\ m.plan # plan /\ Previous(m.from) = {}
  BY DEF Reschedule, Appends, Known
<1>3. changes' \in Seq(Rows)
      /\ changes'[Len(changes) + 1] = Row(m, m.plan)
      /\ \A i \in DOMAIN changes : changes'[i] = changes[i]
  BY <1>1, <1>2, AppendedRows
<1>4. /\ HistoryExplainsSchedule' /\ KeysApplyOnce' /\ RowsFollowRequests'
      /\ \A d \in Dialogs : /\ Previous(d) \subseteq Previous(d)'
                            /\ d # m.from => Previous(d)' = Previous(d)
      /\ Len(changes) + 1 \in Previous(m.from)'
  BY <1>1, <1>2, AppendedHistory
<1>5. baseline' \in PlansOrNone /\ baseline' # Unplanned /\ plan' \in Plans
  BY <1>1, <1>2 DEF Appends, Firsts, PlansOrNone, ScheduleInv, ScheduleTold, ScheduleTypeOK
<1>6. version' \in Versions
  BY <1>2 DEF Appends, Versions, ScheduleInv, ScheduleTold, ScheduleTypeOK
<1>7. ScheduleTypeOK'
  BY <1>1, <1>3, <1>5, <1>6 DEF ScheduleInv, ScheduleTold, ScheduleTypeOK, Reschedule, PlansOrNone
<1>8. AnswersTellTheTruth'
  <2>1. ASSUME NEW d \in Dialogs
        PROVE  /\ answer'[d].what = "done" => \E i \in Previous(d)' : changes'[i].to = answer'[d].plan
               /\ answer'[d].what \in {"stale", "refused"} => Previous(d)' = {}
    <3>1. CASE d = m.from
      BY <3>1, <1>1, <1>3, <1>4 DEF Row
    <3>2. CASE d # m.from
      <4>1. Previous(d)' = Previous(d) /\ Previous(d) \subseteq DOMAIN changes /\ answer'[d] = answer[d]
        BY <3>2, <1>1, <1>4 DEF Previous
      <4> QED BY <4>1, <1>3 DEF ScheduleInv, ScheduleTold, AnswersTellTheTruth
    <3> QED BY <3>1, <3>2
  <2> QED BY <2>1 DEF AnswersTellTheTruth
<1>9. StartedIsPlanned'
  BY <1>5 DEF StartedIsPlanned
<1> QED BY <1>4, <1>7, <1>8, <1>9 DEF ScheduleInv, ScheduleTold

LEMMA AdjustKeeps ==
  ASSUME ScheduleInv, NEW d \in Adjustments, Adjust(d)
  PROVE  ScheduleInv'
<1> DEFINE m == Command(d)
           to == IF m.plan = Unplanned THEN plan ELSE m.plan
<1>1. /\ version < MaxVersion /\ version' = version + 1 /\ plan' = to
      /\ baseline' = IF m.plan = Unplanned THEN baseline ELSE Firsts(to)
      /\ changes' = IF to = plan THEN changes ELSE Append(changes, Row(m, to))
      /\ UNCHANGED <<phase, archived, sending, dialog, wire, answer>>
      /\ m.version = version
  BY DEF Adjust
<1>2. /\ ScheduleTypeOK /\ version \in Versions /\ plan \in PlansOrNone /\ baseline \in PlansOrNone
      /\ HistoryExplainsSchedule /\ AnswersTellTheTruth /\ StartedIsPlanned /\ changes \in Seq(Rows)
  BY DEF ScheduleInv, ScheduleTold, ScheduleTypeOK
<1>3. version' \in Versions /\ version <= version'
  BY <1>1, <1>2 DEF Versions
<1>4. m \in Requests /\ m.from = d
  <2>1. dialog[d] \in {NotOpen} \cup [plan : PlansOrNone, version : Versions]
    BY <1>2 DEF ScheduleTypeOK
  <2>2. m = [from |-> d, plan |-> dialog[d].plan, version |-> dialog[d].version]
    BY DEF Command
  <2>3. dialog[d] # NotOpen
    <3>1. NotOpen.version = MaxVersion + 1
      BY DEF NotOpen
    <3>2. dialog[d].version \in 0..MaxVersion
      BY <1>1, <1>2, <2>2 DEF Versions
    <3> QED BY <3>1, <3>2
  <2> QED BY <2>1, <2>2, <2>3 DEF Requests
<1>5. d \notin Dialogs
  OBVIOUS
<1> HIDE DEF m, to
<1>6. CASE to = plan
  <2>1. UNCHANGED <<changes, plan>>
    BY <1>1, <1>6
  <2>2. baseline' = baseline
    <3>1. CASE m.plan = Unplanned
      BY <3>1, <1>1
    <3>2. CASE m.plan # Unplanned
      <4>1. plan # Unplanned
        BY <3>2, <1>6 DEF to
      <4>2. changes # <<>>
        BY <4>1, <1>2 DEF HistoryExplainsSchedule
      <4>3. 1 \in DOMAIN changes /\ changes[1] \in Rows
        BY <4>2, <1>2
      <4>4. baseline # Unplanned
        BY <4>2, <4>3, <1>2 DEF HistoryExplainsSchedule, Rows
      <4> QED BY <3>2, <4>4, <1>1 DEF Firsts
    <3> QED BY <3>1, <3>2
  <2>3. /\ HistoryExplainsSchedule' /\ KeysApplyOnce' /\ RowsFollowRequests' /\ changes' \in Seq(Rows)
        /\ \A e \in Dialogs \cup Adjustments : Previous(e)' = Previous(e)
    BY <2>1, <2>2, <1>3, KeptHistory
  <2>4. ScheduleTypeOK'
    BY <2>1, <2>2, <1>1, <1>2, <1>3 DEF ScheduleTypeOK, NotOpen
  <2>5. AnswersTellTheTruth' /\ StartedIsPlanned'
    BY <2>1, <2>2, <2>3, <1>1, <1>2 DEF AnswersTellTheTruth, StartedIsPlanned
  <2> QED BY <2>3, <2>4, <2>5 DEF ScheduleInv, ScheduleTold
<1>7. CASE to # plan
  <2>1. m.plan # Unplanned /\ to = m.plan /\ to \in Plans
    BY <1>4, <1>7 DEF to, Requests, PlansOrNone
  <2>2. Appends(m, to)
    BY <2>1, <1>1, <1>7 DEF Appends
  <2>3. /\ HistoryExplainsSchedule' /\ KeysApplyOnce' /\ RowsFollowRequests'
        /\ \A e \in Dialogs : e # m.from => Previous(e)' = Previous(e)
    BY <2>1, <2>2, <1>4, <1>5, <1>7, AppendedHistory
  <2>4. /\ changes' \in Seq(Rows)
        /\ \A i \in DOMAIN changes : changes'[i] = changes[i]
    BY <2>1, <2>2, <1>4, <1>7, AppendedRows
  <2>5. baseline' \in PlansOrNone /\ baseline' # Unplanned /\ plan' \in Plans /\ plan' # Unplanned
    BY <2>1, <1>1, <1>2 DEF Firsts, PlansOrNone
  <2>6. ScheduleTypeOK'
    BY <2>4, <2>5, <1>1, <1>2, <1>3 DEF ScheduleTypeOK, NotOpen, PlansOrNone
  <2>7. AnswersTellTheTruth'
    <3>1. ASSUME NEW e \in Dialogs
          PROVE  Previous(e)' = Previous(e) /\ Previous(e) \subseteq DOMAIN changes
      BY <2>3, <1>4, <1>5 DEF Previous
    <3> QED BY <3>1, <2>4, <1>1, <1>2 DEF AnswersTellTheTruth
  <2>8. StartedIsPlanned'
    BY <2>5 DEF StartedIsPlanned
  <2> QED BY <2>3, <2>6, <2>7, <2>8 DEF ScheduleInv, ScheduleTold
<1> QED BY <1>6, <1>7

-----------------------------------------------------------------------------
(* The rest of the task's life.                                            *)

\* The phase moves on; work begins only with a plan.
LEMMA LifeKeeps ==
  ASSUME ScheduleInv,
         UNCHANGED <<plan, baseline, changes, dialog, wire, answer>>,
         version' \in Versions, version <= version',
         phase' \in SCHEDULE_MUTABLE_STATUSES \cup {"completed"},
         sending' \in BOOLEAN, archived' \in BOOLEAN,
         phase = "not_started" /\ phase' # "not_started" => plan # Unplanned /\ baseline # Unplanned
  PROVE  ScheduleInv'
<1>1. /\ HistoryExplainsSchedule' /\ KeysApplyOnce' /\ RowsFollowRequests' /\ changes' \in Seq(Rows)
      /\ \A d \in Dialogs \cup Adjustments : Previous(d)' = Previous(d)
  BY KeptHistory
<1>2. ScheduleTypeOK'
  BY DEF ScheduleInv, ScheduleTold, ScheduleTypeOK, NotOpen
<1>3. AnswersTellTheTruth'
  BY <1>1 DEF ScheduleInv, ScheduleTold, AnswersTellTheTruth
<1>4. StartedIsPlanned'
  BY DEF ScheduleInv, ScheduleTold, StartedIsPlanned
<1> QED BY <1>1, <1>2, <1>3, <1>4 DEF ScheduleInv, ScheduleTold

LEMMA MoveKeeps ==
  ASSUME ScheduleInv,
         \/ EditTask \/ TransferRevision \/ RenameAsset \/ StartTask \/ Submit
         \/ CommitVersion \/ ReviewEnds \/ OpenAgain \/ Archive \/ DirectoryReady
  PROVE  ScheduleInv'
<1>1. /\ version \in Versions /\ phase \in SCHEDULE_MUTABLE_STATUSES \cup {"completed"}
      /\ sending \in BOOLEAN /\ archived \in BOOLEAN
  BY DEF ScheduleInv, ScheduleTold, ScheduleTypeOK
<1>2. UNCHANGED <<plan, baseline, changes, dialog, wire, answer>>
  BY DEF EditTask, TransferRevision, RenameAsset, StartTask, Submit, CommitVersion,
         ReviewEnds, OpenAgain, Archive, DirectoryReady, MoveOn
<1>3. version' \in Versions /\ version <= version'
  <2>1. version' = version \/ (version < MaxVersion /\ version' = version + 1)
    BY DEF EditTask, TransferRevision, RenameAsset, StartTask, Submit, CommitVersion,
           ReviewEnds, OpenAgain, Archive, DirectoryReady, MoveOn
  <2> QED BY <2>1, <1>1 DEF Versions
<1>4. phase' \in SCHEDULE_MUTABLE_STATUSES \cup {"completed"}
  BY <1>1 DEF EditTask, TransferRevision, RenameAsset, StartTask, Submit, CommitVersion,
     ReviewEnds, OpenAgain, Archive, DirectoryReady, MoveOn, SCHEDULE_MUTABLE_STATUSES
<1>5. sending' \in BOOLEAN /\ archived' \in BOOLEAN
  BY <1>1 DEF EditTask, TransferRevision, RenameAsset, StartTask, Submit, CommitVersion,
     ReviewEnds, OpenAgain, Archive, DirectoryReady, MoveOn
<1>6. phase = "not_started" /\ phase' # "not_started" => plan # Unplanned /\ baseline # Unplanned
  BY DEF EditTask, TransferRevision, RenameAsset, StartTask, Submit, CommitVersion,
     ReviewEnds, OpenAgain, Archive, DirectoryReady, MoveOn
<1> QED BY <1>2, <1>3, <1>4, <1>5, <1>6, LifeKeeps

-----------------------------------------------------------------------------
(* For every number of dialogs, plans and lock versions: the history of a  *)
(* task explains its baseline and plan, a key changes the schedule at most *)
(* once, a dialog told of success finds its plan, and work has a plan      *)
(* (TaskScheduleService.update_schedule, adjust).                          *)
THEOREM ScheduleIsTold == ScheduleSpec => []ScheduleTold
<1>1. ScheduleInv /\ [ScheduleNext]_scheduleVars => ScheduleInv'
  <2> SUFFICES ASSUME ScheduleInv, [ScheduleNext]_scheduleVars PROVE ScheduleInv'
    OBVIOUS
  <2>1. CASE People
    BY <2>1, PeopleKeep
  <2>2. ASSUME NEW m \in wire, Server(m)
        PROVE  ScheduleInv'
    BY <2>2, ReplayKeeps, RescheduleKeeps, RefuseKeeps DEF Server
  <2>3. ASSUME NEW d \in Adjustments, Adjust(d)
        PROVE  ScheduleInv'
    BY <2>3, AdjustKeeps
  <2>4. CASE \/ EditTask \/ TransferRevision \/ RenameAsset \/ StartTask \/ Submit
             \/ CommitVersion \/ ReviewEnds \/ OpenAgain \/ Archive \/ DirectoryReady
    BY <2>4, MoveKeeps
  <2>5. CASE UNCHANGED scheduleVars
    <3>1. /\ UNCHANGED <<plan, baseline, changes, dialog, wire, answer>>
          /\ UNCHANGED <<phase, version, archived, sending>>
      BY <2>5 DEF scheduleVars
    <3>2. /\ version' \in Versions /\ version <= version'
          /\ phase' \in SCHEDULE_MUTABLE_STATUSES \cup {"completed"}
          /\ sending' \in BOOLEAN /\ archived' \in BOOLEAN
      BY <3>1 DEF ScheduleInv, ScheduleTold, ScheduleTypeOK, Versions
    <3> QED BY <3>1, <3>2, LifeKeeps
  <2> QED BY <2>1, <2>2, <2>3, <2>4, <2>5 DEF ScheduleNext
<1>2. ScheduleInv => ScheduleTold
  BY DEF ScheduleInv
<1> QED BY InitSchedule, <1>1, <1>2, PTL DEF ScheduleSpec

-----------------------------------------------------------------------------
(* The delivery.                                                           *)

VersionRecord ==
  [status : {"none", "pending_review", "final", "rejected"}, cycle : 0..MaxCycles,
   candidates : SUBSET CandidateNos, selected : 0..MaxCandidates, lock : Nat]
DeliveryRow ==
  [op : {"publish", "revoke"}, version : VersionNos, cycle : 1..MaxCycles,
   candidate : CandidateNos, validity : {"current", "revoked"},
   status : {"pending", "publishing", "published", "failed", "cancelled"},
   attempt : 0..MaxAttempts, owner : Workers \cup {NoWorker}]
DeliveryWorker == [pc : {"idle", "waiting"}, row : 0..MaxRows, attempt : 0..MaxAttempts]
FileThread ==
  [row : 0..MaxRows, at : {"none", "files", "read", "replace", "done", "error", "refused"}]

\* The rows of the ledger; a task that is completed takes no submission.
LedgerRows ==
  /\ versions \in [VersionNos -> VersionRecord]
  /\ \A v \in VersionNos : Exists(v) => versions[v].cycle >= 1
  /\ open.mode \in {"none", "new_round", "append"} /\ open.candidates \subseteq CandidateNos
  /\ open # NothingOpen => open.version \in VersionNos /\ task # "completed"

\* A row that waits has an attempt left, one that is executed is effective, one
\* that was cancelled is not.
RowsTell ==
  \A i \in DOMAIN rows :
    /\ rows[i].status = "pending" => rows[i].attempt < MaxAttempts
    /\ rows[i].status = "publishing" => Effective(i)
    /\ rows[i].status = "cancelled" => ~Effective(i)

\* Whatever has begun, with whatever result, has begun when all that is effective
\* before it was published.
BegunInOrder ==
  \A i \in DOMAIN rows : rows[i].status \in {"publishing", "published", "failed"} =>
    \A j \in 1..(i - 1) : Effective(j) => rows[j].status = "published"

\* get_for_update finds a row, if the version has one.
NewestIsThere ==
  \A v \in VersionNos : (\E i \in DOMAIN rows : rows[i].version = v) =>
    \E i \in DOMAIN rows :
      rows[i].version = v /\ \A j \in DOMAIN rows : rows[j].version = v => j <= i

\* A worker holds its row until it has written the result back, and its thread
\* works on that row.
WorkersHold ==
  \A w \in Workers :
    /\ worker[w].pc = "idle" => io[w] = NoThread
    /\ worker[w].pc = "waiting" =>
         worker[w].row \in DOMAIN rows /\ Holds(w) /\ io[w].row = worker[w].row
           /\ io[w].at # "none"

\* Without an abandoned thread, what a thread is going to write is newer than
\* the manifest, and what is done or published is in it.
ThreadsTell ==
  /\ \A t \in Threads : io[t].row <= Len(rows)
  /\ raises = 0 =>
       /\ \A t \in Threads \ Workers : io[t] = NoThread
       /\ \A w \in Workers : /\ io[w].at = "replace" => manifest <= io[w].row
                             /\ io[w].at = "done" => io[w].row <= manifest
       /\ \A i \in DOMAIN rows : rows[i].status = "published" => i <= manifest

DeliveryInv ==
  /\ TypeOK /\ LedgerRows /\ CompletedHasOneDelivery
  /\ RowsTell /\ BegunInOrder /\ NewestIsThere /\ WorkersHold /\ ThreadsTell

-----------------------------------------------------------------------------
LEMMA InvMeansSafe == DeliveryInv => DeliverySafe
  BY DEF DeliveryInv, BegunInOrder, DeliveriesRunInOrder, DeliverySafe

LEMMA InvMeansTruth == DeliveryInv => ManifestTellsTheTruth
<1> SUFFICES ASSUME DeliveryInv, raises = 0,
                    \A i \in {j \in DOMAIN rows : Effective(j)} : rows[i].status = "published",
                    NEW i \in {j \in DOMAIN rows : Effective(j)}
             PROVE  i <= manifest
  BY DEF ManifestTellsTheTruth
<1> QED
  BY DEF DeliveryInv, ThreadsTell

LEMMA BoundsStart ==
  /\ 0 \in 0..MaxRows /\ 0 \in 0..MaxAttempts /\ 0 \in 0..MaxRaises /\ 0 \in 0..MaxCrashes
  /\ 0 \in 0..MaxCycles /\ 0 \in 0..MaxCandidates /\ 1 \in 0..MaxCandidates
  /\ 1 \in 1..MaxCycles /\ 1 \in 0..MaxCycles /\ 0 < MaxAttempts
  BY DeliveryAssumption, LedgerAssumption

LEMMA DeliveryTypes ==
  /\ TypeOK <=> /\ rows \in Seq(DeliveryRow) /\ Len(rows) <= MaxRows
                /\ worker \in [Workers -> DeliveryWorker] /\ io \in [Threads -> FileThread]
                /\ manifest \in 0..Len(rows)
                /\ raises \in 0..MaxRaises /\ crashes \in 0..MaxCrashes
  BY DEF TypeOK, DeliveryRow, DeliveryWorker, FileThread

\* A row is replaced by another one, nothing else of the outbox changes.
LEMMA RowBecomes ==
  ASSUME rows \in Seq(DeliveryRow), NEW i \in DOMAIN rows, NEW r \in DeliveryRow,
         rows' = [rows EXCEPT ![i] = r]
  PROVE  /\ rows' \in Seq(DeliveryRow) /\ Len(rows') = Len(rows) /\ DOMAIN rows' = DOMAIN rows
         /\ DOMAIN rows = 1..Len(rows) /\ Len(rows) \in Nat
         /\ rows'[i] = r /\ \A j \in DOMAIN rows : j # i => rows'[j] = rows[j]
<1>1. DOMAIN rows = 1..Len(rows) /\ Len(rows) \in Nat
  BY LenProperties
<1>2. /\ rows' \in Seq(DeliveryRow) /\ Len(rows') = Len(rows)
      /\ \A j \in 1..Len(rows) : rows'[j] = IF j = i THEN r ELSE rows[j]
  BY <1>1, ExceptSeq
<1>3. DOMAIN rows' = 1..Len(rows')
  BY <1>2, LenProperties
<1> QED
  BY <1>1, <1>2, <1>3

\* A row is put behind the others.
LEMMA RowAppended ==
  ASSUME NEW s \in Seq(DeliveryRow), NEW r \in DeliveryRow, rows' = Append(s, r)
  PROVE  /\ rows' \in Seq(DeliveryRow) /\ Len(rows') = Len(s) + 1
         /\ DOMAIN s = 1..Len(s) /\ DOMAIN rows' = 1..(Len(s) + 1) /\ Len(s) \in Nat
         /\ rows'[Len(s) + 1] = r /\ \A j \in DOMAIN s : rows'[j] = s[j]
<1>1. DOMAIN s = 1..Len(s) /\ Len(s) \in Nat
  BY LenProperties
<1>2. /\ rows' \in Seq(DeliveryRow) /\ Len(rows') = Len(s) + 1
      /\ \A j \in 1..Len(s) : rows'[j] = s[j]
      /\ rows'[Len(s) + 1] = r
  BY AppendProperties
<1>3. DOMAIN rows' = 1..Len(rows')
  BY <1>2, LenProperties
<1> QED
  BY <1>1, <1>2, <1>3

LEMMA DeliveryInitInv == Init => DeliveryInv
<1> SUFFICES ASSUME Init PROVE DeliveryInv
  OBVIOUS
<1>1. /\ task = "in_progress" /\ versions = [v \in VersionNos |-> NoVersion]
      /\ open = NothingOpen /\ rows = <<>>
      /\ worker = [w \in Workers |-> Idle] /\ io = [t \in Threads |-> NoThread]
      /\ manifest = 0 /\ raises = 0 /\ crashes = 0
  BY DEF Init, LedgerInit
<1>2. NoVersion \in VersionRecord /\ NoVersion.status = "none"
  BY BoundsStart DEF NoVersion, VersionRecord
<1>3. Idle \in DeliveryWorker /\ NoThread \in FileThread
      /\ Idle.pc = "idle" /\ NoThread.row = 0 /\ NoThread.at = "none"
  BY BoundsStart DEF Idle, NoThread, DeliveryWorker, FileThread
<1>4. rows \in Seq(DeliveryRow) /\ Len(rows) = 0 /\ DOMAIN rows = {}
  BY <1>1, EmptySeq, LenProperties
<1>5. Len(rows) <= MaxRows /\ manifest \in 0..Len(rows)
  BY <1>1, <1>4, DeliveryAssumption
<1>6. TypeOK
  BY <1>1, <1>3, <1>4, <1>5, BoundsStart, DeliveryTypes
<1>7. LedgerRows
  BY <1>1, <1>2 DEF LedgerRows, Exists, NothingOpen
<1>8. CompletedHasOneDelivery /\ RowsTell /\ BegunInOrder /\ NewestIsThere
  BY <1>1, <1>4 DEF CompletedHasOneDelivery, RowsTell, BegunInOrder, NewestIsThere
<1>9. WorkersHold
  BY <1>1, <1>3 DEF WorkersHold, Threads
<1>10. ThreadsTell
  BY <1>1, <1>3, <1>4 DEF ThreadsTell, Threads
<1> QED
  BY <1>6, <1>7, <1>8, <1>9, <1>10 DEF DeliveryInv

-----------------------------------------------------------------------------
(* The API.                                                                *)

LEMMA DeliveryStays ==
  ASSUME DeliveryInv, UNCHANGED delivery
  PROVE  /\ TypeOK' /\ RowsTell' /\ BegunInOrder' /\ NewestIsThere'
         /\ WorkersHold' /\ ThreadsTell'
<1> USE DEF DeliveryInv
<1>1. UNCHANGED <<rows, worker, io, manifest, raises, crashes>>
  BY DEF delivery
<1>2. \A i \in DOMAIN rows : Effective(i)' <=> Effective(i)
  BY <1>1 DEF Effective
<1>3. \A w \in Workers : Holds(w)' <=> Holds(w)
  BY <1>1 DEF Holds
<1>4. TypeOK'
  BY <1>1 DEF TypeOK
<1>5. RowsTell'
  BY <1>1, <1>2 DEF RowsTell
<1>6. BegunInOrder' /\ NewestIsThere'
  BY <1>1 DEF BegunInOrder, Effective, NewestIsThere
<1>7. WorkersHold'
  BY <1>1, <1>3 DEF WorkersHold
<1>8. ThreadsTell'
  BY <1>1 DEF ThreadsTell
<1> QED
  BY <1>4, <1>5, <1>6, <1>7, <1>8

\* The ledger, when one version changes and the open submission does not.
LEMMA VersionBecomes ==
  ASSUME DeliveryInv, NEW v \in VersionNos, NEW x \in VersionRecord,
         versions' = [versions EXCEPT ![v] = x], x.status # "none" => x.cycle >= 1,
         open' = NothingOpen
  PROVE  /\ LedgerRows'
         /\ versions'[v] = x /\ \A u \in VersionNos : u # v => versions'[u] = versions[u]
<1>1. /\ versions \in [VersionNos -> VersionRecord]
      /\ \A u \in VersionNos : Exists(u) => versions[u].cycle >= 1
  BY DEF DeliveryInv, LedgerRows
<1>2. /\ versions' \in [VersionNos -> VersionRecord]
      /\ versions'[v] = x /\ \A u \in VersionNos : u # v => versions'[u] = versions[u]
  BY <1>1
<1>3. \A u \in VersionNos : Exists(u)' => versions'[u].cycle >= 1
  BY <1>1, <1>2 DEF Exists
<1> QED
  BY <1>2, <1>3 DEF LedgerRows, NothingOpen

\* What a settlement and a decision make of a version.
LEMMA VersionsStayTyped ==
  ASSUME NEW x \in VersionRecord, NEW c \in SUBSET CandidateNos, NEW n \in 0..MaxCycles,
         NEW d \in {"final", "rejected", "pending_review"}, NEW k \in 0..MaxCandidates
  PROVE  /\ [x EXCEPT !.candidates = x.candidates \cup c, !.lock = x.lock + 1] \in VersionRecord
         /\ [x EXCEPT !.status = d, !.lock = x.lock + 1] \in VersionRecord
         /\ [x EXCEPT !.status = d, !.selected = k, !.lock = x.lock + 1] \in VersionRecord
         /\ [x EXCEPT !.status = d, !.cycle = n, !.lock = x.lock + 1] \in VersionRecord
<1>1. x.lock + 1 \in Nat /\ x.candidates \cup c \in SUBSET CandidateNos
  BY DEF VersionRecord
<1> QED
  BY <1>1 DEF VersionRecord

LEMMA AcceptStep ==
  ASSUME DeliveryInv, NEW mode \in {"new_round", "append"}, NEW v \in VersionNos,
         NEW n \in CandidateNos, Accept(mode, v, n), UNCHANGED delivery
  PROVE  DeliveryInv'
<1>1. task # "completed"
  BY DEF Accept, TargetOpen, AppendOpen, NewRoundOpen
<1>2. /\ UNCHANGED <<task, versions>> /\ NextCandidates(v, n) \subseteq CandidateNos
      /\ open' = [mode |-> mode, version |-> v, candidates |-> NextCandidates(v, n)]
  BY DEF Accept
<1>3. LedgerRows'
  BY <1>1, <1>2 DEF DeliveryInv, LedgerRows, Exists
<1>4. CompletedHasOneDelivery'
  BY <1>2 DEF DeliveryInv, CompletedHasOneDelivery, delivery
<1> QED
  BY <1>3, <1>4, DeliveryStays DEF DeliveryInv

LEMMA SettleStep == ASSUME DeliveryInv, Settle, UNCHANGED delivery PROVE DeliveryInv'
<1> DEFINE v == open.version
           x == IF open.mode = "append" THEN Appended(versions[v], open.candidates)
                ELSE NewVersion(open.candidates)
<1>1. /\ open # NothingOpen /\ v \in VersionNos /\ task # "completed"
      /\ versions[v] \in VersionRecord /\ (Exists(v) => versions[v].cycle >= 1)
      /\ open.candidates \subseteq CandidateNos
  BY DEF Settle, DeliveryInv, LedgerRows
<1>2. versions' = [versions EXCEPT ![v] = x]
  BY DEF Settle, WithCandidates
<1>3. /\ Appended(versions[v], open.candidates) \in VersionRecord
      /\ Appended(versions[v], open.candidates).status = versions[v].status
      /\ Appended(versions[v], open.candidates).cycle = versions[v].cycle
  BY <1>1, VersionsStayTyped, BoundsStart DEF Appended, VersionRecord
<1>4. /\ NewVersion(open.candidates) \in VersionRecord
      /\ NewVersion(open.candidates).cycle = 1
  BY <1>1, BoundsStart DEF NewVersion, VersionRecord
<1>5. x \in VersionRecord /\ (x.status # "none" => x.cycle >= 1)
  BY <1>1, <1>3, <1>4 DEF Exists
<1> HIDE DEF x
<1>6. LedgerRows'
  BY <1>1, <1>2, <1>5, VersionBecomes DEF Settle
<1>7. CompletedHasOneDelivery'
  <2>1. {i \in DOMAIN rows : rows[i].validity = "current"} = {} /\ rows' = rows
    BY <1>1 DEF DeliveryInv, CompletedHasOneDelivery, delivery
  <2>2. task' # "completed"
    BY DEF Settle
  <2> QED
    BY <2>1, <2>2 DEF CompletedHasOneDelivery
<1> QED
  BY <1>6, <1>7, DeliveryStays DEF DeliveryInv

LEMMA PageStep ==
  ASSUME DeliveryInv, UNCHANGED <<task, versions, open>>, UNCHANGED delivery
  PROVE  DeliveryInv'
<1>1. LedgerRows'
  BY DEF DeliveryInv, LedgerRows, Exists
<1>2. CompletedHasOneDelivery'
  BY DEF DeliveryInv, CompletedHasOneDelivery, delivery
<1> QED
  BY <1>1, <1>2, DeliveryStays DEF DeliveryInv

LEMMA RejectStep ==
  ASSUME DeliveryInv, NEW v \in VersionNos, Reject(v), UNCHANGED delivery PROVE DeliveryInv'
<1> DEFINE x == [versions[v] EXCEPT !.status = "rejected", !.lock = @ + 1]
<1>1. /\ versions[v] \in VersionRecord /\ versions[v].status = "pending_review"
      /\ versions[v].cycle >= 1 /\ open = NothingOpen /\ open' = open
      /\ task = "pending_review" /\ task' = "revision"
  BY DEF Reject, Reviewable, DeliveryInv, LedgerRows, Exists
<1>2. x \in VersionRecord /\ x.cycle >= 1
  BY <1>1, VersionsStayTyped, BoundsStart DEF VersionRecord
<1>3. versions' = [versions EXCEPT ![v] = x]
  BY DEF Reject
<1> HIDE DEF x
<1>4. LedgerRows'
  BY <1>1, <1>2, <1>3, VersionBecomes
<1>5. CompletedHasOneDelivery'
  <2>1. {i \in DOMAIN rows : rows[i].validity = "current"} = {} /\ rows' = rows
    BY <1>1 DEF DeliveryInv, CompletedHasOneDelivery, delivery
  <2> QED
    BY <1>1, <2>1 DEF CompletedHasOneDelivery
<1> QED
  BY <1>4, <1>5, DeliveryStays DEF DeliveryInv

LEMMA ProductionStep == ASSUME DeliveryInv, Production PROVE DeliveryInv'
<1>1. UNCHANGED delivery
  BY DEF Production
<1>2. ASSUME NEW mode \in {"new_round", "append"}, NEW v \in VersionNos,
             NEW n \in CandidateNos, Accept(mode, v, n)
      PROVE  DeliveryInv'
  BY <1>1, <1>2, AcceptStep
<1>3. CASE Settle
  BY <1>1, <1>3, SettleStep
<1>4. CASE LoadCandidates
  BY <1>1, <1>4, PageStep DEF LoadCandidates
<1>5. ASSUME NEW v \in VersionNos, OpenPage(v) PROVE DeliveryInv'
  BY <1>1, <1>5, PageStep DEF OpenPage
<1>6. ASSUME NEW v \in VersionNos, Reject(v) PROVE DeliveryInv'
  BY <1>1, <1>6, RejectStep
<1> QED
  BY <1>2, <1>3, <1>4, <1>5, <1>6 DEF Production

\* A row that is queued behind the others disturbs none of them, nor the workers.
LEMMA QueueStep ==
  ASSUME DeliveryInv, NEW s \in Seq(DeliveryRow), NEW r \in DeliveryRow,
         Len(s) = Len(rows), Len(rows) < MaxRows, rows' = Append(s, r),
         r.status = "pending", r.attempt = 0,
         \A j \in DOMAIN rows :
           /\ s[j].status = rows[j].status \/ s[j].status = "cancelled"
           /\ s[j].status = "cancelled" =>
                (s[j].op = "publish" /\ s[j].validity # "current") \/ s[j] = rows[j]
           /\ s[j].attempt = rows[j].attempt /\ s[j].owner = rows[j].owner
           /\ s[j].op = rows[j].op /\ s[j].version = rows[j].version
           /\ s[j].validity = "current" => rows[j].validity = "current"
           /\ rows[j].status = "publishing" => s[j] = rows[j],
         UNCHANGED <<worker, io, manifest, raises, crashes>>
  PROVE  /\ TypeOK' /\ RowsTell' /\ BegunInOrder' /\ NewestIsThere'
         /\ WorkersHold' /\ ThreadsTell'
         /\ DOMAIN rows' = DOMAIN rows \cup {Len(rows) + 1} /\ Len(rows) + 1 \notin DOMAIN rows
         /\ rows'[Len(rows) + 1] = r /\ \A j \in DOMAIN rows : rows'[j] = s[j]
<1> USE DEF DeliveryInv
<1> DEFINE n == Len(rows)
<1>1. /\ rows' \in Seq(DeliveryRow) /\ Len(rows') = n + 1 /\ n \in Nat
      /\ DOMAIN rows = 1..n /\ DOMAIN rows' = 1..(n + 1)
      /\ rows'[n + 1] = r /\ \A j \in DOMAIN rows : rows'[j] = s[j]
  <2>1. rows \in Seq(DeliveryRow)
    BY DeliveryTypes
  <2>2. DOMAIN rows = 1..n /\ n \in Nat
    BY <2>1, LenProperties
  <2> QED
    BY <2>2, RowAppended
<1>2. /\ DOMAIN rows' = DOMAIN rows \cup {n + 1} /\ n + 1 \notin DOMAIN rows
      /\ MaxRows \in Nat
  BY <1>1, DeliveryAssumption
<1>3. TypeOK'
  <2>1. n + 1 <= MaxRows
    BY <1>1, <1>2
  <2>2. manifest \in 0..(n + 1)
    BY <1>1, DeliveryTypes
  <2> QED
    BY <1>1, <2>1, <2>2, DeliveryTypes DEF TypeOK, DeliveryRow
<1>4. \A j \in DOMAIN rows : Effective(j)' => Effective(j)
  BY <1>1 DEF Effective
<1>5. RowsTell'
  <2>1. \A j \in DOMAIN rows : rows'[j].status = "cancelled" => ~Effective(j)'
    <3> SUFFICES ASSUME NEW j \in DOMAIN rows, rows'[j].status = "cancelled"
                 PROVE  ~Effective(j)'
      OBVIOUS
    <3>1. s[j].status = "cancelled" /\ rows'[j] = s[j]
      BY <1>1
    <3>2. CASE s[j].op = "publish" /\ s[j].validity # "current"
      BY <3>1, <3>2 DEF Effective
    <3>3. CASE s[j] = rows[j]
      BY <3>1, <3>3 DEF Effective, RowsTell
    <3> QED
      BY <3>1, <3>2, <3>3
  <2>2. \A j \in DOMAIN rows :
          /\ rows'[j].status = "pending" => rows'[j].attempt < MaxAttempts
          /\ rows'[j].status = "publishing" => Effective(j)'
    <3> SUFFICES ASSUME NEW j \in DOMAIN rows
                 PROVE  /\ rows'[j].status = "pending" => rows'[j].attempt < MaxAttempts
                        /\ rows'[j].status = "publishing" => Effective(j)'
      OBVIOUS
    <3>1. rows'[j] = s[j] /\ s[j].attempt = rows[j].attempt
      BY <1>1
    <3>2. s[j].status # "cancelled" => s[j].status = rows[j].status
      OBVIOUS
    <3>3. s[j].status = "publishing" => rows'[j] = rows[j] /\ Effective(j)
      BY <3>1, <3>2 DEF RowsTell
    <3> QED
      BY <3>1, <3>2, <3>3 DEF RowsTell, Effective
  <2> QED
    BY <1>1, <1>2, <2>1, <2>2, BoundsStart DEF RowsTell
<1>6. BegunInOrder'
  <2> SUFFICES ASSUME NEW i \in DOMAIN rows',
                      rows'[i].status \in {"publishing", "published", "failed"},
                      NEW j \in 1..(i - 1), Effective(j)'
               PROVE  rows'[j].status = "published"
    BY DEF BegunInOrder
  <2>1. i \in DOMAIN rows /\ j \in DOMAIN rows
    BY <1>1, <1>2
  <2>2. rows[i].status \in {"publishing", "published", "failed"}
    BY <1>1, <2>1
  <2>3. rows[j].status = "published"
    BY <1>4, <2>1, <2>2 DEF BegunInOrder
  <2>4. rows'[j].status # "cancelled"
    BY <1>5, <1>1, <1>2, <2>1 DEF RowsTell
  <2> QED
    BY <1>1, <2>1, <2>3, <2>4
<1>9. NewestIsThere'
  <2> SUFFICES ASSUME NEW v \in VersionNos, \E i \in DOMAIN rows' : rows'[i].version = v
               PROVE  \E i \in DOMAIN rows' : /\ rows'[i].version = v
                        /\ \A j \in DOMAIN rows' : rows'[j].version = v => j <= i
    BY DEF NewestIsThere
  <2>1. \A j \in DOMAIN rows : rows'[j].version = rows[j].version
    BY <1>1
  <2>2. CASE r.version = v
    <3>1. \A j \in DOMAIN rows' : j <= n + 1
      BY <1>1
    <3> QED
      BY <1>1, <1>2, <2>2, <3>1
  <2>3. CASE r.version # v
    <3>1. \A j \in DOMAIN rows' : rows'[j].version = v => j \in DOMAIN rows
      BY <1>1, <1>2, <2>3
    <3>2. PICK i \in DOMAIN rows :
            rows[i].version = v /\ \A j \in DOMAIN rows : rows[j].version = v => j <= i
      BY <2>1, <3>1 DEF NewestIsThere
    <3> QED
      BY <1>2, <2>1, <3>1, <3>2
  <2> QED
    BY <2>2, <2>3
<1>7. WorkersHold'
  <2> SUFFICES ASSUME NEW w \in Workers, worker[w].pc = "waiting"
               PROVE  worker[w].row \in DOMAIN rows' /\ Holds(w)'
    BY DEF WorkersHold
  <2>1. worker[w].row \in DOMAIN rows /\ Holds(w)
    BY DEF WorkersHold
  <2>2. rows'[worker[w].row] = rows[worker[w].row]
    BY <1>1, <2>1 DEF Holds
  <2> QED
    BY <1>2, <2>1, <2>2 DEF Holds
<1>8. ThreadsTell'
  <2>1. \A t \in Threads : io'[t].row <= Len(rows')
    <3>1. \A t \in Threads : io[t].row \in 0..MaxRows /\ io[t].row <= n
      BY DeliveryTypes DEF ThreadsTell, FileThread
    <3> QED
      BY <1>1, <3>1
  <2>2. ASSUME raises = 0, NEW i \in DOMAIN rows', rows'[i].status = "published"
        PROVE  i <= manifest
    <3>1. i \in DOMAIN rows /\ rows[i].status = "published"
      BY <1>1, <1>2, <2>2
    <3> QED
      BY <2>2, <3>1 DEF ThreadsTell
  <2> QED
    BY <2>1, <2>2 DEF ThreadsTell
<1> QED
  BY <1>1, <1>2, <1>3, <1>5, <1>6, <1>7, <1>8, <1>9

LEMMA ApproveStep ==
  ASSUME DeliveryInv, NEW v \in VersionNos, NEW c \in CandidateNos, ApproveAndEnqueue(v, c)
  PROVE  DeliveryInv'
<1> DEFINE x == [versions[v] EXCEPT !.status = "final", !.selected = c, !.lock = @ + 1]
           r == NewRow("publish", v, versions[v].cycle, c, "current")
           n == Len(rows) + 1
<1>1. /\ versions[v] \in VersionRecord /\ versions[v].status = "pending_review"
      /\ versions[v].cycle >= 1 /\ open = NothingOpen /\ open' = open
      /\ task = "pending_review" /\ task' = "completed"
  BY DEF ApproveAndEnqueue, Approve, Reviewable, DeliveryInv, LedgerRows, Exists
<1>2. c \in 0..MaxCandidates /\ versions[v].cycle \in 1..MaxCycles
  BY <1>1, LedgerAssumption DEF CandidateNos, VersionRecord
<1>3. /\ x \in VersionRecord /\ x.cycle = versions[v].cycle /\ x.status = "final"
      /\ x.selected = c
  BY <1>1, <1>2, VersionsStayTyped, BoundsStart DEF VersionRecord
<1>4. versions' = [versions EXCEPT ![v] = x]
  BY DEF ApproveAndEnqueue, Approve
<1>5. /\ r \in DeliveryRow /\ r.op = "publish" /\ r.version = v /\ r.candidate = c
      /\ r.cycle = versions[v].cycle /\ r.validity = "current"
      /\ r.status = "pending" /\ r.attempt = 0
  BY <1>2, BoundsStart DEF NewRow, DeliveryRow
<1>6. /\ rows \in Seq(DeliveryRow) /\ Len(rows) < MaxRows /\ rows' = Append(rows, r)
      /\ UNCHANGED <<worker, io, manifest, raises, crashes>>
  BY DeliveryTypes DEF ApproveAndEnqueue, DeliveryInv
<1> HIDE DEF x
<1> HIDE DEF r
<1>7. LedgerRows' /\ versions'[v] = x
  BY <1>1, <1>3, <1>4, VersionBecomes
<1>8. /\ TypeOK' /\ RowsTell' /\ BegunInOrder' /\ NewestIsThere' /\ WorkersHold' /\ ThreadsTell'
      /\ DOMAIN rows' = DOMAIN rows \cup {n} /\ n \notin DOMAIN rows
      /\ rows'[n] = r /\ \A j \in DOMAIN rows : rows'[j] = rows[j]
  BY <1>5, <1>6, QueueStep
<1>9. CompletedHasOneDelivery'
  <2>1. \A j \in DOMAIN rows : rows[j].validity # "current"
    BY <1>1 DEF DeliveryInv, CompletedHasOneDelivery
  <2>2. {i \in DOMAIN rows' : rows'[i].validity = "current"} = {n}
    BY <1>5, <1>8, <2>1
  <2>3. /\ rows'[n].op = "publish" /\ versions'[rows'[n].version].status = "final"
        /\ versions'[rows'[n].version].cycle = rows'[n].cycle
        /\ versions'[rows'[n].version].selected = rows'[n].candidate
    BY <1>3, <1>5, <1>7, <1>8
  <2> QED
    BY <1>1, <2>2, <2>3 DEF CompletedHasOneDelivery
<1> QED
  BY <1>7, <1>8, <1>9 DEF DeliveryInv

LEMMA NewestRow ==
  ASSUME DeliveryInv, NEW v \in VersionNos, Newest(v) # 0
  PROVE  Newest(v) \in DOMAIN rows /\ rows[Newest(v)].version = v
<1> DEFINE own == {i \in DOMAIN rows : rows[i].version = v}
<1>1. own # {} /\ Newest(v) = CHOOSE i \in own : \A j \in own : j <= i
  BY DEF Newest
<1>2. \E i \in own : \A j \in own : j <= i
  BY <1>1 DEF DeliveryInv, NewestIsThere
<1> QED
  BY <1>1, <1>2

LEMMA ReopenStep ==
  ASSUME DeliveryInv, NEW v \in VersionNos, ReopenAndRevoke(v) PROVE DeliveryInv'
<1> DEFINE x == [versions[v] EXCEPT !.status = "pending_review", !.cycle = @ + 1, !.lock = @ + 1]
           i == Newest(v)
           a == Revoked(i)
           s == [rows EXCEPT ![i] = a]
           r == NewRow("revoke", v, versions[v].cycle + 1, rows[i].candidate, "revoked")
           n == Len(rows) + 1
<1>1. /\ versions[v] \in VersionRecord /\ versions[v].status = "final"
      /\ versions[v].cycle >= 1 /\ versions[v].cycle < MaxCycles
      /\ open = NothingOpen /\ open' = open
      /\ task = "completed" /\ task' = "pending_review"
  BY DEF ReopenAndRevoke, Reopen, DeliveryInv, LedgerRows, Exists
<1>2. versions[v].cycle + 1 \in 1..MaxCycles /\ versions[v].cycle + 1 \in 0..MaxCycles
  BY <1>1, LedgerAssumption DEF VersionRecord
<1>3. x \in VersionRecord /\ x.cycle = versions[v].cycle + 1 /\ x.cycle >= 1
  <2>1. x \in VersionRecord
    BY <1>1, <1>2, VersionsStayTyped, BoundsStart
  <2>2. x.cycle = versions[v].cycle + 1
    BY <1>1 DEF VersionRecord
  <2>3. versions[v].cycle + 1 >= 1
    BY <1>2, LedgerAssumption
  <2> QED
    BY <2>1, <2>2, <2>3
<1>4. versions' = [versions EXCEPT ![v] = x]
  BY DEF ReopenAndRevoke, Reopen
<1>5. LedgerRows'
  <2> HIDE DEF x
  <2> QED
    BY <1>1, <1>3, <1>4, VersionBecomes
<1>6. /\ NotBusy /\ i # 0 /\ rows[i].op = "publish" /\ rows[i].validity = "current"
      /\ Len(rows) < MaxRows /\ rows' = Append(s, r)
      /\ UNCHANGED <<worker, io, manifest, raises, crashes>>
  BY DEF ReopenAndRevoke
<1>7. rows \in Seq(DeliveryRow) /\ DOMAIN rows = 1..Len(rows) /\ Len(rows) \in Nat
  BY DeliveryTypes, LenProperties DEF DeliveryInv
<1>8. i \in DOMAIN rows
  BY <1>6, NewestRow
<1>9. rows[i] \in DeliveryRow
  BY <1>7, <1>8, ElementOfSeq
<1>10. /\ a \in DeliveryRow /\ a.validity = "revoked" /\ a.op = "publish"
       /\ a.version = rows[i].version /\ a.attempt = rows[i].attempt
       /\ a.owner = rows[i].owner
       /\ a.status = rows[i].status \/ a.status = "cancelled"
  BY <1>6, <1>9 DEF Revoked, DeliveryRow
<1>11. /\ r \in DeliveryRow /\ r.validity = "revoked" /\ r.status = "pending" /\ r.attempt = 0
  BY <1>2, <1>9, BoundsStart DEF NewRow, DeliveryRow
<1> HIDE DEF r
<1> HIDE DEF a
<1>12. /\ s \in Seq(DeliveryRow) /\ Len(s) = Len(rows)
       /\ \A j \in DOMAIN rows : s[j] = IF j = i THEN a ELSE rows[j]
  BY <1>7, <1>8, <1>10, ExceptSeq
<1> HIDE DEF s
<1> HIDE DEF i
<1>13. \A j \in DOMAIN rows :
         /\ s[j].status = rows[j].status \/ s[j].status = "cancelled"
         /\ s[j].status = "cancelled" =>
              (s[j].op = "publish" /\ s[j].validity # "current") \/ s[j] = rows[j]
         /\ s[j].attempt = rows[j].attempt /\ s[j].owner = rows[j].owner
         /\ s[j].op = rows[j].op /\ s[j].version = rows[j].version
         /\ s[j].validity = "current" => rows[j].validity = "current"
         /\ rows[j].status = "publishing" => s[j] = rows[j]
  BY <1>6, <1>10, <1>12 DEF NotBusy
<1>14. /\ TypeOK' /\ RowsTell' /\ BegunInOrder' /\ NewestIsThere' /\ WorkersHold' /\ ThreadsTell'
       /\ DOMAIN rows' = DOMAIN rows \cup {n} /\ n \notin DOMAIN rows
       /\ rows'[n] = r /\ \A j \in DOMAIN rows : rows'[j] = s[j]
  BY <1>6, <1>11, <1>12, <1>13, QueueStep
<1>15. CompletedHasOneDelivery'
  <2>1. \A j \in DOMAIN rows : rows[j].validity = "current" => j = i
    BY <1>1, <1>6, <1>8 DEF DeliveryInv, CompletedHasOneDelivery
  <2>2. \A j \in DOMAIN rows' : rows'[j].validity # "current"
    BY <1>10, <1>11, <1>12, <1>14, <2>1
  <2> QED
    BY <1>1, <2>2 DEF CompletedHasOneDelivery
<1> QED
  BY <1>5, <1>14, <1>15 DEF DeliveryInv

\* A row whose identity stays: what is said about the task is not disturbed.
LEMMA StatusStep ==
  ASSUME DeliveryInv, NEW i \in DOMAIN rows, NEW r \in DeliveryRow,
         rows' = [rows EXCEPT ![i] = r],
         r.op = rows[i].op, r.version = rows[i].version, r.cycle = rows[i].cycle,
         r.candidate = rows[i].candidate, r.validity = rows[i].validity,
         UNCHANGED ledgerVars
  PROVE  /\ LedgerRows' /\ CompletedHasOneDelivery' /\ NewestIsThere'
         /\ rows' \in Seq(DeliveryRow) /\ Len(rows') = Len(rows) /\ DOMAIN rows' = DOMAIN rows
         /\ DOMAIN rows = 1..Len(rows) /\ Len(rows) \in Nat
         /\ rows'[i] = r /\ \A j \in DOMAIN rows : j # i => rows'[j] = rows[j]
         /\ \A j \in DOMAIN rows : Effective(j)' <=> Effective(j)
<1> USE DEF DeliveryInv
<1>1. /\ rows' \in Seq(DeliveryRow) /\ Len(rows') = Len(rows) /\ DOMAIN rows' = DOMAIN rows
      /\ DOMAIN rows = 1..Len(rows) /\ Len(rows) \in Nat
      /\ rows'[i] = r /\ \A j \in DOMAIN rows : j # i => rows'[j] = rows[j]
  BY DeliveryTypes, RowBecomes
<1>2. UNCHANGED <<task, versions, open>>
  BY DEF ledgerVars
<1>3. \A j \in DOMAIN rows :
        /\ rows'[j].op = rows[j].op /\ rows'[j].version = rows[j].version
        /\ rows'[j].cycle = rows[j].cycle /\ rows'[j].candidate = rows[j].candidate
        /\ rows'[j].validity = rows[j].validity
  BY <1>1
<1>4. LedgerRows'
  BY <1>2 DEF LedgerRows, Exists
<1>5. CompletedHasOneDelivery'
  <2>1. {j \in DOMAIN rows' : rows'[j].validity = "current"}
          = {j \in DOMAIN rows : rows[j].validity = "current"}
    BY <1>1, <1>3
  <2> QED
    BY <1>2, <1>3, <2>1 DEF CompletedHasOneDelivery
<1>6. NewestIsThere'
  <2> SUFFICES ASSUME NEW v \in VersionNos, NEW k \in DOMAIN rows, rows'[k].version = v
               PROVE  \E j \in DOMAIN rows : /\ rows'[j].version = v
                        /\ \A m \in DOMAIN rows : rows'[m].version = v => m <= j
    BY <1>1 DEF NewestIsThere
  <2>1. rows[k].version = v
    BY <1>3
  <2>2. PICK j \in DOMAIN rows :
          rows[j].version = v /\ \A m \in DOMAIN rows : rows[m].version = v => m <= j
    BY <2>1 DEF NewestIsThere
  <2> QED
    BY <1>3, <2>2
<1>7. \A j \in DOMAIN rows : Effective(j)' <=> Effective(j)
  BY <1>3 DEF Effective
<1> QED
  BY <1>1, <1>4, <1>5, <1>6, <1>7

\* What waits or runs has nothing behind it that has begun.
LEMMA NothingBehind ==
  ASSUME DeliveryInv, NEW i \in DOMAIN rows, Effective(i), rows[i].status # "published",
         NEW k \in DOMAIN rows, rows[k].status \in {"publishing", "published", "failed"}
  PROVE  k <= i
<1>1. i \in Nat /\ k \in Nat /\ i >= 1
  BY DeliveryTypes, LenProperties DEF DeliveryInv
<1> SUFFICES ASSUME k > i PROVE FALSE
  BY <1>1
<1>2. i \in 1..(k - 1)
  BY <1>1
<1> QED
  BY <1>2 DEF DeliveryInv, BegunInOrder

\* The rows stay in order when a row that nothing has passed gets another status.
LEMMA OrderStays ==
  ASSUME DeliveryInv, NEW i \in DOMAIN rows, NEW r \in DeliveryRow,
         DOMAIN rows' = DOMAIN rows, rows'[i] = r,
         \A j \in DOMAIN rows : j # i => rows'[j] = rows[j],
         \A j \in DOMAIN rows : Effective(j)' <=> Effective(j),
         \/ ~Effective(i) \/ rows[i].status # "published" \/ r.status = "published",
         r.status \in {"publishing", "published", "failed"} =>
           \A j \in 1..(i - 1) : Effective(j) => rows[j].status = "published"
  PROVE  BegunInOrder'
<1> USE DEF DeliveryInv
<1> SUFFICES ASSUME NEW k \in DOMAIN rows, NEW j \in 1..(k - 1), Effective(j),
                    rows'[k].status \in {"publishing", "published", "failed"}
             PROVE  rows'[j].status = "published"
  <2>1. DOMAIN rows = 1..Len(rows) /\ Len(rows) \in Nat
    BY DeliveryTypes, LenProperties
  <2>2. \A k \in DOMAIN rows : \A j \in 1..(k - 1) : j \in DOMAIN rows
    BY <2>1
  <2> QED
    BY <2>2 DEF BegunInOrder
<1>1. DOMAIN rows = 1..Len(rows) /\ Len(rows) \in Nat
  BY DeliveryTypes, LenProperties
<1>2. j \in DOMAIN rows /\ j # k /\ j < k
  BY <1>1
<1>3. CASE k = i
  BY <1>2, <1>3
<1>4. CASE k # i
  <2>1. rows[k].status \in {"publishing", "published", "failed"}
    BY <1>4
  <2>2. rows[j].status = "published"
    BY <2>1 DEF BegunInOrder
  <2>3. CASE j = i
    BY <2>2, <2>3
  <2>4. CASE j # i
    BY <1>2, <2>2, <2>4
  <2> QED
    BY <2>3, <2>4
<1> QED
  BY <1>3, <1>4

LEMMA RetryStep ==
  ASSUME DeliveryInv, NEW v \in VersionNos, RetryDelivery(v) PROVE DeliveryInv'
<1> USE DEF DeliveryInv
<1> DEFINE i == IF FailedRevokes = {} THEN Newest(v)
                ELSE CHOOSE j \in FailedRevokes : \A k \in FailedRevokes : j <= k
           r == [rows[i] EXCEPT !.status = "pending", !.attempt = 0]
<1>1. /\ i # 0 /\ rows[i].status = "failed"
      /\ rows' = [rows EXCEPT ![i].status = "pending", ![i].attempt = 0]
      /\ UNCHANGED <<ledgerVars, worker, io, manifest, raises, crashes>>
  BY DEF RetryDelivery
<1>2. i \in DOMAIN rows
  <2>1. CASE FailedRevokes = {}
    BY <1>1, <2>1, NewestRow
  <2>2. CASE FailedRevokes # {}
    <3>1. \A j, k \in FailedRevokes : j <= k
      BY NothingBehind DEF FailedRevokes, Effective
    <3> QED
      BY <2>2, <3>1 DEF FailedRevokes
  <2> QED
    BY <2>1, <2>2
<1> HIDE DEF i
<1>3. rows[i] \in DeliveryRow
  BY <1>2, DeliveryTypes, ElementOfSeq, LenProperties
<1>4. /\ r \in DeliveryRow /\ r.status = "pending" /\ r.attempt = 0
      /\ r.op = rows[i].op /\ r.version = rows[i].version /\ r.cycle = rows[i].cycle
      /\ r.candidate = rows[i].candidate /\ r.validity = rows[i].validity
  BY <1>3, BoundsStart DEF DeliveryRow
<1>5. rows' = [rows EXCEPT ![i] = r]
  BY <1>1
<1> HIDE DEF r
<1>6. /\ LedgerRows' /\ CompletedHasOneDelivery' /\ NewestIsThere'
      /\ rows' \in Seq(DeliveryRow) /\ Len(rows') = Len(rows) /\ DOMAIN rows' = DOMAIN rows
      /\ rows'[i] = r /\ \A j \in DOMAIN rows : j # i => rows'[j] = rows[j]
      /\ \A j \in DOMAIN rows : Effective(j)' <=> Effective(j)
  BY <1>1, <1>2, <1>4, <1>5, StatusStep
<1>7. TypeOK'
  BY <1>1, <1>6, DeliveryTypes DEF TypeOK, DeliveryRow
<1>8. RowsTell'
  BY <1>2, <1>4, <1>6, BoundsStart DEF RowsTell
<1>9. BegunInOrder'
  BY <1>1, <1>2, <1>4, <1>6, OrderStays
<1>10. WorkersHold'
  <2> SUFFICES ASSUME NEW w \in Workers, worker[w].pc = "waiting"
               PROVE  worker[w].row \in DOMAIN rows' /\ Holds(w)'
    BY <1>1 DEF WorkersHold
  <2>1. worker[w].row \in DOMAIN rows /\ Holds(w)
    BY DEF WorkersHold
  <2>2. worker[w].row # i
    BY <1>1, <2>1 DEF Holds
  <2> QED
    BY <1>1, <1>6, <2>1, <2>2 DEF Holds
<1>11. ThreadsTell'
  <2>1. \A j \in DOMAIN rows : rows'[j].status = "published" => rows[j].status = "published"
    BY <1>4, <1>6
  <2> QED
    BY <1>1, <1>6, <2>1 DEF ThreadsTell
<1> QED
  BY <1>6, <1>7, <1>8, <1>9, <1>10, <1>11

-----------------------------------------------------------------------------
(* The worker and its threads.                                             *)

\* Only one row is executed at a time, so that only one worker waits for one.
LEMMA OneWorkerWaits ==
  ASSUME DeliveryInv, NEW u \in Workers, NEW w \in Workers,
         worker[u].pc = "waiting", worker[w].pc = "waiting"
  PROVE  u = w
<1> DEFINE i == worker[u].row
           j == worker[w].row
<1>1. /\ i \in DOMAIN rows /\ rows[i].status = "publishing" /\ rows[i].owner = u
      /\ j \in DOMAIN rows /\ rows[j].status = "publishing" /\ rows[j].owner = w
  BY DEF DeliveryInv, WorkersHold, Holds
<1>2. Effective(i) /\ Effective(j)
  BY <1>1 DEF DeliveryInv, RowsTell
<1>3. i <= j /\ j <= i
  BY <1>1, <1>2, NothingBehind
<1>4. i \in Nat /\ j \in Nat
  BY <1>1, DeliveryTypes, LenProperties DEF DeliveryInv
<1> QED
  BY <1>1, <1>3, <1>4

LEMMA ClaimStep ==
  ASSUME DeliveryInv, NEW w \in Workers, NEW i \in DOMAIN rows, ClaimNext(w, i)
  PROVE  DeliveryInv'
<1> USE DEF DeliveryInv
<1> DEFINE n == rows[i].attempt + 1
           r == [rows[i] EXCEPT !.status = "publishing", !.attempt = n, !.owner = w]
           x == [pc |-> "waiting", row |-> i, attempt |-> n]
           start == CASE ~StillApproved(i) \/ n > MaxAttempts -> "refused"
                      [] rows[i].op = "publish" -> "files"
                      [] OTHER -> "read"
           y == [row |-> i, at |-> start]
<1>1. /\ worker[w].pc = "idle" /\ Due(i)
      /\ rows' = [rows EXCEPT ![i].status = "publishing", ![i].attempt = n, ![i].owner = w]
      /\ worker' = [worker EXCEPT ![w] = x] /\ io' = [io EXCEPT ![w] = y]
      /\ UNCHANGED <<ledgerVars, manifest, raises, crashes>>
  BY DEF ClaimNext
<1>2. /\ rows[i] \in DeliveryRow /\ DOMAIN rows = 1..Len(rows) /\ Len(rows) \in Nat
      /\ Len(rows) <= MaxRows
  BY DeliveryTypes, ElementOfSeq, LenProperties
<1>3. /\ rows[i].status = "pending" /\ Effective(i)
      /\ \A j \in 1..(i - 1) : Effective(j) => rows[j].status = "published"
  <2>1. /\ rows[i].status = "pending" /\ Effective(i)
        /\ \A j \in 1..(i - 1) :
             Effective(j) => rows[j].status \notin {"pending", "publishing", "failed"}
    BY <1>1 DEF Due
  <2>2. \A j \in 1..(i - 1) : j \in DOMAIN rows
    BY <1>2
  <2>3. \A j \in DOMAIN rows : rows[j].status
          \in {"pending", "publishing", "published", "failed", "cancelled"}
    <3>1. \A j \in DOMAIN rows : rows[j] \in DeliveryRow
      BY <1>2, DeliveryTypes, ElementOfSeq
    <3> QED
      BY <3>1 DEF DeliveryRow
  <2> QED
    BY <2>1, <2>2, <2>3 DEF RowsTell
<1>4. n \in 0..MaxAttempts
  <2>1. rows[i].attempt \in 0..MaxAttempts /\ rows[i].attempt < MaxAttempts
    BY <1>2, <1>3 DEF DeliveryRow, RowsTell
  <2> QED
    BY <2>1, DeliveryAssumption
<1>5. /\ r \in DeliveryRow /\ r.status = "publishing" /\ r.attempt = n /\ r.owner = w
      /\ r.op = rows[i].op /\ r.version = rows[i].version /\ r.cycle = rows[i].cycle
      /\ r.candidate = rows[i].candidate /\ r.validity = rows[i].validity
  BY <1>2, <1>4 DEF DeliveryRow
<1>6. rows' = [rows EXCEPT ![i] = r]
  BY <1>1
<1>7. start \in {"refused", "files", "read"}
  OBVIOUS
<1>8. i \in 0..MaxRows
  BY <1>2, DeliveryAssumption
<1>9. /\ x \in DeliveryWorker /\ x.pc = "waiting" /\ x.row = i /\ x.attempt = n
  BY <1>4, <1>8 DEF DeliveryWorker
<1>10. /\ y \in FileThread /\ y.row = i /\ y.at \in {"refused", "files", "read"}
  <2> HIDE DEF start
  <2> QED
    BY <1>7, <1>8 DEF FileThread
<1> HIDE DEF r
<1> HIDE DEF x
<1> HIDE DEF y
<1> HIDE DEF n
<1>11. /\ worker' \in [Workers -> DeliveryWorker] /\ worker'[w] = x
       /\ io' \in [Threads -> FileThread] /\ io'[w] = y
       /\ \A u \in Workers : u # w => worker'[u] = worker[u]
       /\ \A t \in Threads : t # w => io'[t] = io[t]
       /\ w \in Threads
  BY <1>1, <1>9, <1>10, DeliveryTypes DEF Threads
<1>12. /\ LedgerRows' /\ CompletedHasOneDelivery' /\ NewestIsThere'
       /\ rows' \in Seq(DeliveryRow) /\ Len(rows') = Len(rows) /\ DOMAIN rows' = DOMAIN rows
       /\ rows'[i] = r /\ \A j \in DOMAIN rows : j # i => rows'[j] = rows[j]
       /\ \A j \in DOMAIN rows : Effective(j)' <=> Effective(j)
  BY <1>1, <1>5, <1>6, StatusStep
<1>13. TypeOK'
  BY <1>1, <1>11, <1>12, DeliveryTypes
    DEF TypeOK, DeliveryRow, DeliveryWorker, FileThread
<1>14. RowsTell'
  BY <1>3, <1>5, <1>12 DEF RowsTell
<1>15. BegunInOrder'
  BY <1>3, <1>5, <1>12, OrderStays
<1>16. WorkersHold'
  <2>1. /\ worker'[w].row \in DOMAIN rows' /\ Holds(w)' /\ io'[w].row = worker'[w].row
        /\ io'[w].at # "none" /\ worker'[w].pc = "waiting"
    BY <1>5, <1>9, <1>10, <1>11, <1>12 DEF Holds
  <2>2. ASSUME NEW u \in Workers, u # w, worker[u].pc = "waiting"
        PROVE  worker'[u].row \in DOMAIN rows' /\ Holds(u)'
    <3>1. worker[u].row \in DOMAIN rows /\ Holds(u) /\ worker[u].row # i
      BY <1>3, <2>2 DEF WorkersHold, Holds
    <3> QED
      BY <1>11, <1>12, <2>2, <3>1 DEF Holds
  <2>3. \A u \in Workers : u # w => worker'[u] = worker[u] /\ io'[u] = io[u]
    BY <1>11 DEF Threads
  <2> QED
    BY <2>1, <2>2, <2>3 DEF WorkersHold
<1>17. ThreadsTell'
  <2>1. \A t \in Threads : io'[t].row <= Len(rows')
    BY <1>2, <1>10, <1>11, <1>12 DEF ThreadsTell
  <2>2. \A t \in Threads \ Workers : io'[t] = io[t]
    BY <1>11
  <2>3. \A u \in Workers : io'[u].at \in {"replace", "done"} => io'[u] = io[u]
    BY <1>10, <1>11 DEF Threads
  <2>4. \A j \in DOMAIN rows : rows'[j].status = "published" => rows[j].status = "published"
    BY <1>5, <1>12
  <2> QED
    BY <1>1, <1>12, <2>1, <2>2, <2>3, <2>4 DEF ThreadsTell
<1> QED
  BY <1>12, <1>13, <1>14, <1>15, <1>16, <1>17

\* A thread goes on: nothing but the manifest and its own place changes.
LEMMA ThreadMoves ==
  ASSUME DeliveryInv, NEW t \in Threads, NEW y \in FileThread,
         io[t].at \in {"files", "read", "replace"}, io' = [io EXCEPT ![t] = y],
         t \in Workers => y.row = io[t].row /\ y.at # "none",
         y.row \in {0, io[t].row},
         manifest' \in {manifest, io[t].row}, manifest' # manifest => io[t].at = "replace",
         y.at = "replace" => manifest <= y.row, y.at = "done" => y.row <= manifest',
         UNCHANGED <<ledgerVars, rows, worker, raises, crashes>>
  PROVE  DeliveryInv' /\ (raises = 0 => manifest' >= manifest)
<1> USE DEF DeliveryInv
<1>1. /\ io' \in [Threads -> FileThread] /\ io'[t] = y
      /\ \A u \in Threads : u # t => io'[u] = io[u]
      /\ Workers \subseteq Threads
  BY DeliveryTypes DEF Threads
<1>2. Len(rows) \in Nat /\ io[t].row \in Nat /\ io[t].row <= Len(rows) /\ manifest \in Nat
  BY DeliveryTypes, LenProperties DEF FileThread, ThreadsTell
<1>3. manifest' \in 0..Len(rows)
  BY <1>2, DeliveryTypes
<1>4. TypeOK'
  BY <1>1, <1>3, DeliveryTypes DEF TypeOK, FileThread
<1>5. LedgerRows' /\ CompletedHasOneDelivery'
  BY DEF ledgerVars, LedgerRows, Exists, CompletedHasOneDelivery
<1>6. RowsTell' /\ BegunInOrder' /\ NewestIsThere'
  BY DEF RowsTell, BegunInOrder, NewestIsThere, Effective
<1>7. \A w \in Workers : Holds(w)' <=> Holds(w)
  BY DEF Holds
<1>8. WorkersHold'
  <2> SUFFICES ASSUME NEW w \in Workers
               PROVE  /\ worker[w].pc = "idle" => io'[w] = NoThread
                      /\ worker[w].pc = "waiting" =>
                           io'[w].row = worker[w].row /\ io'[w].at # "none"
    BY <1>7 DEF WorkersHold
  <2>1. CASE w = t
    BY <1>1, <2>1 DEF WorkersHold, NoThread
  <2>2. CASE w # t
    BY <1>1, <2>2 DEF WorkersHold
  <2> QED
    BY <2>1, <2>2
<1>9. \A u \in Threads : io'[u].row <= Len(rows)
  BY <1>1, <1>2 DEF ThreadsTell
<1>10. ASSUME raises = 0
       PROVE  /\ t \in Workers /\ manifest' >= manifest
              /\ \A u \in Threads \ Workers : io'[u] = NoThread
              /\ \A w \in Workers : w # t => io'[w] = NoThread
  <2>1. t \in Workers
    BY <1>10 DEF ThreadsTell, NoThread
  <2>2. worker[t].pc = "waiting"
    BY <2>1, DeliveryTypes DEF WorkersHold, NoThread, DeliveryWorker
  <2>3. manifest' >= manifest
    BY <1>2, <1>10, <2>1 DEF ThreadsTell
  <2>4. \A u \in Threads \ Workers : io'[u] = NoThread
    BY <1>1, <1>10, <2>1 DEF ThreadsTell
  <2>5. ASSUME NEW w \in Workers, w # t PROVE io'[w] = NoThread
    <3>1. worker[w].pc # "waiting"
      BY <2>1, <2>2, <2>5, OneWorkerWaits
    <3>2. worker[w].pc = "idle"
      BY <3>1, DeliveryTypes DEF DeliveryWorker
    <3> QED
      BY <1>1, <2>5, <3>2 DEF WorkersHold
  <2> QED
    BY <2>1, <2>3, <2>4, <2>5
<1>11. ThreadsTell'
  <2> SUFFICES ASSUME raises = 0
               PROVE  /\ \A u \in Threads \ Workers : io'[u] = NoThread
                      /\ \A w \in Workers : /\ io'[w].at = "replace" => manifest' <= io'[w].row
                                            /\ io'[w].at = "done" => io'[w].row <= manifest'
                      /\ \A i \in DOMAIN rows : rows[i].status = "published" => i <= manifest'
    BY <1>9 DEF ThreadsTell
  <2>1. /\ y.at = "replace" => manifest' <= y.row
        /\ y.at = "done" => y.row <= manifest'
    <3>1. t \in Workers /\ y.row = io[t].row
      BY <1>10
    <3> QED
      BY <1>2, <3>1
  <2>2. \A i \in DOMAIN rows : i \in Nat
    BY DeliveryTypes, LenProperties
  <2>3. \A i \in DOMAIN rows : rows[i].status = "published" => i <= manifest'
    <3>1. \A i \in DOMAIN rows : rows[i].status = "published" => i <= manifest
      BY DEF ThreadsTell
    <3>2. manifest' >= manifest /\ manifest' \in Nat
      BY <1>2, <1>10
    <3> QED
      BY <1>2, <2>2, <3>1, <3>2
  <2> QED
    BY <1>1, <1>10, <2>1, <2>3 DEF NoThread
<1> QED
  BY <1>4, <1>5, <1>6, <1>8, <1>10, <1>11

\* What Advance makes of a thread.
LEMMA AdvanceMoves ==
  ASSUME DeliveryInv, NEW t \in Threads,
         NEW place \in {"read", "replace", "done", "error", "refused"},
         io[t].at \in {"files", "read", "replace"}, Advance(t, place),
         manifest' \in {manifest, io[t].row}, manifest' # manifest => io[t].at = "replace",
         place = "replace" => manifest <= io[t].row, place = "done" => io[t].row <= manifest',
         UNCHANGED <<ledgerVars, rows, worker, raises, crashes>>
  PROVE  DeliveryInv' /\ (raises = 0 => manifest' >= manifest)
<1>1. io[t] \in FileThread
  BY DeliveryTypes DEF DeliveryInv
<1>2. CASE t \notin Workers /\ place \in {"done", "error", "refused"}
  <2>1. io' = [io EXCEPT ![t] = NoThread]
    BY <1>2 DEF Advance
  <2>2. NoThread \in FileThread /\ NoThread.row = 0 /\ NoThread.at = "none"
    BY BoundsStart DEF NoThread, FileThread
  <2> QED
    BY <1>2, <2>1, <2>2, ThreadMoves
<1>3. CASE ~(t \notin Workers /\ place \in {"done", "error", "refused"})
  <2> DEFINE y == [io[t] EXCEPT !.at = place]
  <2>1. io' = [io EXCEPT ![t] = y]
    BY <1>3 DEF Advance
  <2>2. y \in FileThread /\ y.row = io[t].row /\ y.at = place
    BY <1>1 DEF FileThread
  <2> HIDE DEF y
  <2> QED
    BY <2>1, <2>2, ThreadMoves
<1> QED
  BY <1>2, <1>3

LEMMA ThreadStepKeeps ==
  ASSUME DeliveryInv, NEW t \in Threads, ThreadStep(t)
  PROVE  DeliveryInv' /\ (raises = 0 => manifest' >= manifest)
<1>1. CASE PublishFiles(t)
  BY <1>1, AdvanceMoves DEF PublishFiles
<1>2. CASE ReadManifest(t)
  <2> DEFINE place == NextIfOlder(t)
  <2>1. io[t].row \in Nat /\ manifest \in Nat
    BY DeliveryTypes, LenProperties DEF DeliveryInv, FileThread
  <2>2. manifest > io[t].row => place = "refused"
    BY <2>1 DEF NextIfOlder
  <2>3. manifest = io[t].row => place = "done"
    BY <2>1 DEF NextIfOlder
  <2>4. ~(manifest > io[t].row) /\ manifest # io[t].row => place = "replace"
    BY DEF NextIfOlder
  <2>5. /\ place \in {"read", "replace", "done", "error", "refused"}
        /\ place = "replace" => manifest <= io[t].row
        /\ place = "done" => io[t].row <= manifest
    BY <2>1, <2>2, <2>3, <2>4
  <2> HIDE DEF place
  <2>6. Advance(t, place)
    BY <1>2 DEF ReadManifest, place
  <2> QED
    BY <1>2, <2>5, <2>6, AdvanceMoves DEF ReadManifest
<1>3. ASSUME NEW raised \in BOOLEAN, ReplaceManifest(t, raised)
      PROVE  DeliveryInv' /\ (raises = 0 => manifest' >= manifest)
  <2> DEFINE place == IF raised THEN "error" ELSE "done"
  <2>1. io[t].row \in Nat /\ io[t].row <= io[t].row
    BY DeliveryTypes DEF DeliveryInv, FileThread
  <2>2. Advance(t, place) /\ manifest' = io[t].row /\ io[t].at = "replace"
    BY <1>3 DEF ReplaceManifest
  <2>3. place \in {"error", "done"}
    OBVIOUS
  <2> HIDE DEF place
  <2> QED
    BY <1>3, <2>1, <2>2, <2>3, AdvanceMoves DEF ReplaceManifest
<1>4. ASSUME NEW retryable \in BOOLEAN, IoFails(t, retryable)
      PROVE  DeliveryInv' /\ (raises = 0 => manifest' >= manifest)
  <2> DEFINE place == IF retryable THEN "error" ELSE "refused"
  <2>1. Advance(t, place) /\ place \in {"error", "refused"}
    BY <1>4 DEF IoFails
  <2> HIDE DEF place
  <2> QED
    BY <1>4, <2>1, AdvanceMoves DEF IoFails
<1> QED
  BY <1>1, <1>2, <1>3, <1>4 DEF ThreadStep

LEMMA RenewStep ==
  ASSUME DeliveryInv, NEW w \in Workers, RenewRaises(w) PROVE DeliveryInv'
<1> USE DEF DeliveryInv
<1> DEFINE n == raises + 1
           y == [io[w] EXCEPT !.at = "error"]
<1>1. /\ io[w].at \in {"files", "read", "replace"} /\ raises < MaxRaises /\ raises' = n
      /\ io' = [[io EXCEPT ![n] = io[w]] EXCEPT ![w].at = "error"]
      /\ UNCHANGED <<ledgerVars, rows, worker, manifest, crashes>>
  BY DEF RenewRaises
<1>2. n \in 1..MaxRaises /\ n \in 0..MaxRaises /\ n # 0
  BY <1>1, DeliveryTypes, DeliveryAssumption
<1>3. w \in Threads /\ n \in Threads /\ n # w /\ n \notin Workers
  BY <1>2, DeliveryAssumption DEF Threads
<1>4. io \in [Threads -> FileThread] /\ io[w] \in FileThread
  BY <1>3, DeliveryTypes
<1>5. y \in FileThread /\ y.row = io[w].row /\ y.at = "error"
  BY <1>4 DEF FileThread
<1>6. io' = [[io EXCEPT ![n] = io[w]] EXCEPT ![w] = y]
  BY <1>1, <1>3, <1>4
<1> HIDE DEF y
<1> HIDE DEF n
<1>7. /\ io' \in [Threads -> FileThread] /\ io'[w] = y /\ io'[n] = io[w]
      /\ \A t \in Threads : t # w /\ t # n => io'[t] = io[t]
  BY <1>3, <1>4, <1>5, <1>6
<1>8. TypeOK'
  BY <1>1, <1>2, <1>7, DeliveryTypes DEF TypeOK, FileThread
<1>9. LedgerRows' /\ CompletedHasOneDelivery'
  BY <1>1 DEF ledgerVars, LedgerRows, Exists, CompletedHasOneDelivery
<1>10. RowsTell' /\ BegunInOrder' /\ NewestIsThere'
  BY <1>1 DEF RowsTell, BegunInOrder, NewestIsThere, Effective
<1>11. \A u \in Workers : Holds(u)' <=> Holds(u)
  BY <1>1 DEF Holds
<1>12. worker[w].pc = "waiting"
  BY <1>1, DeliveryTypes DEF WorkersHold, NoThread, DeliveryWorker
<1>13. WorkersHold'
  <2> SUFFICES ASSUME NEW u \in Workers
               PROVE  /\ worker[u].pc = "idle" => io'[u] = NoThread
                      /\ worker[u].pc = "waiting" =>
                           io'[u].row = worker[u].row /\ io'[u].at # "none"
    BY <1>1, <1>11 DEF WorkersHold
  <2>1. CASE u = w
    BY <1>5, <1>7, <1>12, <2>1 DEF WorkersHold
  <2>2. CASE u # w
    <3>1. io'[u] = io[u]
      BY <1>3, <1>7, <2>2 DEF Threads
    <3> QED
      BY <3>1 DEF WorkersHold
  <2> QED
    BY <2>1, <2>2
<1>14. ThreadsTell'
  <2>1. \A t \in Threads : io'[t].row <= Len(rows)
    BY <1>3, <1>5, <1>7 DEF ThreadsTell
  <2> QED
    BY <1>1, <1>2, <2>1 DEF ThreadsTell
<1> QED
  BY <1>8, <1>9, <1>10, <1>13, <1>14

\* What the rest of a worker means for the others.
LEMMA RestLeavesOthers ==
  ASSUME DeliveryInv, NEW w \in Workers, Rest(w)
  PROVE  /\ worker' \in [Workers -> DeliveryWorker] /\ io' \in [Threads -> FileThread]
         /\ worker'[w].pc = "idle" /\ io'[w] = NoThread
         /\ \A u \in Workers : u # w => worker'[u] = worker[u]
         /\ \A t \in Threads : t # w => io'[t] = io[t]
         /\ Workers \subseteq Threads
<1>1. /\ Idle \in DeliveryWorker /\ NoThread \in FileThread /\ Idle.pc = "idle"
      /\ Workers \subseteq Threads
  BY BoundsStart DEF Idle, NoThread, DeliveryWorker, FileThread, Threads
<1>2. worker \in [Workers -> DeliveryWorker] /\ io \in [Threads -> FileThread]
  BY DeliveryTypes DEF DeliveryInv
<1> QED
  BY <1>1, <1>2 DEF Rest

\* A write-back, of a row that is published, tried again or failed for good.
LEMMA WriteBack ==
  ASSUME DeliveryInv, NEW w \in Workers, worker[w].pc = "waiting",
         NEW status \in {"pending", "published", "failed"},
         rows' = Released(worker[w].row, status), Rest(w),
         status = "pending" => worker[w].attempt < MaxAttempts,
         status = "published" => io[w].at = "done",
         UNCHANGED <<ledgerVars, manifest, raises, crashes>>
  PROVE  DeliveryInv'
<1> USE DEF DeliveryInv
<1> DEFINE i == worker[w].row
           r == [rows[i] EXCEPT !.status = status, !.owner = NoWorker]
<1>1. /\ i \in DOMAIN rows /\ rows[i].status = "publishing" /\ rows[i].owner = w
      /\ rows[i].attempt = worker[w].attempt /\ io[w].row = i
  BY DEF WorkersHold, Holds
<1>2. rows[i] \in DeliveryRow /\ DOMAIN rows = 1..Len(rows) /\ Len(rows) \in Nat
  BY <1>1, DeliveryTypes, ElementOfSeq, LenProperties
<1>3. /\ r \in DeliveryRow /\ r.status = status /\ r.attempt = rows[i].attempt
      /\ r.op = rows[i].op /\ r.version = rows[i].version /\ r.cycle = rows[i].cycle
      /\ r.candidate = rows[i].candidate /\ r.validity = rows[i].validity
  BY <1>2 DEF DeliveryRow
<1>4. rows' = [rows EXCEPT ![i] = r]
  BY DEF Released
<1>5. Effective(i) /\ \A j \in 1..(i - 1) : Effective(j) => rows[j].status = "published"
  BY <1>1 DEF RowsTell, BegunInOrder
<1> HIDE DEF r
<1> HIDE DEF i
<1>6. /\ LedgerRows' /\ CompletedHasOneDelivery' /\ NewestIsThere'
      /\ rows' \in Seq(DeliveryRow) /\ Len(rows') = Len(rows) /\ DOMAIN rows' = DOMAIN rows
      /\ rows'[i] = r /\ \A j \in DOMAIN rows : j # i => rows'[j] = rows[j]
      /\ \A j \in DOMAIN rows : Effective(j)' <=> Effective(j)
  BY <1>1, <1>3, <1>4, StatusStep
<1>7. /\ worker' \in [Workers -> DeliveryWorker] /\ io' \in [Threads -> FileThread]
      /\ worker'[w].pc = "idle" /\ io'[w] = NoThread
      /\ \A u \in Workers : u # w => worker'[u] = worker[u]
      /\ \A t \in Threads : t # w => io'[t] = io[t]
      /\ Workers \subseteq Threads
  BY RestLeavesOthers
<1>8. TypeOK'
  BY <1>6, <1>7, DeliveryTypes DEF TypeOK, DeliveryRow, DeliveryWorker, FileThread
<1>9. RowsTell'
  BY <1>1, <1>3, <1>6 DEF RowsTell
<1>10. BegunInOrder'
  BY <1>1, <1>3, <1>5, <1>6, OrderStays
<1>11. WorkersHold'
  <2>1. ASSUME NEW u \in Workers, u # w, worker[u].pc = "waiting"
        PROVE  worker'[u].row \in DOMAIN rows' /\ Holds(u)'
    <3>1. worker[u].row \in DOMAIN rows /\ Holds(u)
      BY <2>1 DEF WorkersHold
    <3>2. worker[u].row # i
      BY <1>1, <2>1, <3>1 DEF Holds
    <3> QED
      BY <1>6, <1>7, <2>1, <3>1, <3>2 DEF Holds
  <2>2. \A u \in Workers : u # w => worker'[u] = worker[u] /\ io'[u] = io[u]
    BY <1>7
  <2> QED
    BY <1>7, <2>1, <2>2 DEF WorkersHold
<1>12. ThreadsTell'
  <2>1. \A t \in Threads : io'[t].row <= Len(rows')
    BY <1>2, <1>6, <1>7 DEF ThreadsTell, NoThread
  <2>2. ASSUME raises = 0
        PROVE  /\ \A t \in Threads \ Workers : io'[t] = NoThread
               /\ \A u \in Workers : /\ io'[u].at = "replace" => manifest <= io'[u].row
                                     /\ io'[u].at = "done" => io'[u].row <= manifest
    BY <1>7, <2>2 DEF ThreadsTell, NoThread
  <2>3. ASSUME raises = 0, NEW j \in DOMAIN rows, rows'[j].status = "published"
        PROVE  j <= manifest
    <3>1. CASE j = i
      BY <1>1, <1>3, <1>6, <2>3, <3>1 DEF ThreadsTell
    <3>2. CASE j # i
      BY <1>6, <2>3, <3>2 DEF ThreadsTell
    <3> QED
      BY <3>1, <3>2
  <2> QED
    BY <1>6, <2>1, <2>2, <2>3 DEF ThreadsTell
<1> QED
  BY <1>6, <1>8, <1>9, <1>10, <1>11, <1>12

LEMMA MarkPublishedStep ==
  ASSUME DeliveryInv, NEW w \in Workers, MarkPublished(w) PROVE DeliveryInv'
<1>1. worker[w].pc = "waiting"
  BY DeliveryTypes DEF MarkPublished, DeliveryInv, WorkersHold, NoThread, DeliveryWorker
<1> QED
  BY <1>1, WriteBack DEF MarkPublished

LEMMA RecordFailureStep ==
  ASSUME DeliveryInv, NEW w \in Workers, RecordFailure(w) PROVE DeliveryInv'
<1> DEFINE status == IF Terminal(io[w].at # "refused", worker[w].attempt)
                     THEN "failed" ELSE "pending"
<1>1. worker[w].pc = "waiting" /\ worker[w].attempt \in 0..MaxAttempts
  BY DeliveryTypes DEF RecordFailure, DeliveryInv, WorkersHold, NoThread, DeliveryWorker
<1>2. status \in {"failed", "pending"}
  OBVIOUS
<1>3. status = "pending" => ~(worker[w].attempt >= MaxAttempts)
  BY DEF Terminal
<1>4. status = "pending" => worker[w].attempt < MaxAttempts
  BY <1>1, <1>3, DeliveryAssumption
<1>5. rows' = Released(worker[w].row, status) /\ Rest(w)
      /\ UNCHANGED <<ledgerVars, manifest, raises, crashes>>
  BY DEF RecordFailure
<1> HIDE DEF status
<1> QED
  BY <1>1, <1>2, <1>4, <1>5, WriteBack

LEMMA CrashStep == ASSUME DeliveryInv, NEW w \in Workers, Crash(w) PROVE DeliveryInv'
<1> USE DEF DeliveryInv
<1>1. UNCHANGED <<ledgerVars, rows, manifest, raises>>
  BY DEF Crash
<1>2. crashes' \in 0..MaxCrashes
  BY DeliveryTypes, DeliveryAssumption DEF Crash
<1>3. /\ worker' \in [Workers -> DeliveryWorker] /\ io' \in [Threads -> FileThread]
      /\ worker'[w].pc = "idle" /\ io'[w] = NoThread
      /\ \A u \in Workers : u # w => worker'[u] = worker[u]
      /\ \A t \in Threads : t # w => io'[t] = io[t]
      /\ Workers \subseteq Threads
  BY RestLeavesOthers DEF Crash
<1>4. TypeOK'
  BY <1>1, <1>2, <1>3, DeliveryTypes DEF TypeOK, DeliveryWorker, FileThread
<1>5. LedgerRows' /\ CompletedHasOneDelivery'
  BY <1>1 DEF ledgerVars, LedgerRows, Exists, CompletedHasOneDelivery
<1>6. RowsTell' /\ BegunInOrder' /\ NewestIsThere'
  BY <1>1 DEF RowsTell, BegunInOrder, NewestIsThere, Effective
<1>7. WorkersHold'
  <2>1. \A u \in Workers : u # w =>
          worker'[u] = worker[u] /\ io'[u] = io[u] /\ (Holds(u)' <=> Holds(u))
    BY <1>1, <1>3 DEF Holds
  <2> QED
    BY <1>1, <1>3, <2>1 DEF WorkersHold
<1>8. ThreadsTell'
  <2>1. \A t \in Threads : io'[t].row <= Len(rows)
    BY <1>3, DeliveryTypes, LenProperties DEF ThreadsTell, NoThread
  <2> QED
    BY <1>1, <1>3, <2>1 DEF ThreadsTell, NoThread
<1> QED
  BY <1>4, <1>5, <1>6, <1>7, <1>8

-----------------------------------------------------------------------------
LEMMA DeliveryStutters == DeliveryInv /\ UNCHANGED vars => DeliveryInv'
<1> SUFFICES ASSUME DeliveryInv, UNCHANGED vars PROVE DeliveryInv'
  OBVIOUS
<1>1. UNCHANGED delivery /\ UNCHANGED <<task, versions, open>>
  BY DEF vars, ledgerVars
<1> QED
  BY <1>1, PageStep

LEMMA DeliveryStepInv == DeliveryInv /\ [Next]_vars => DeliveryInv'
<1> SUFFICES ASSUME DeliveryInv, [Next]_vars PROVE DeliveryInv'
  OBVIOUS
<1>1. CASE Production
  BY <1>1, ProductionStep
<1>2. ASSUME NEW v \in VersionNos, NEW c \in CandidateNos, ApproveAndEnqueue(v, c)
      PROVE  DeliveryInv'
  BY <1>2, ApproveStep
<1>3. ASSUME NEW v \in VersionNos, ReopenAndRevoke(v) PROVE DeliveryInv'
  BY <1>3, ReopenStep
<1>4. ASSUME NEW v \in VersionNos, RetryDelivery(v) PROVE DeliveryInv'
  BY <1>4, RetryStep
<1>5. ASSUME NEW w \in Workers, NEW i \in DOMAIN rows, ClaimNext(w, i) PROVE DeliveryInv'
  BY <1>5, ClaimStep
<1>6. ASSUME NEW w \in Workers, RenewRaises(w) PROVE DeliveryInv'
  BY <1>6, RenewStep
<1>7. ASSUME NEW w \in Workers, MarkPublished(w) PROVE DeliveryInv'
  BY <1>7, MarkPublishedStep
<1>8. ASSUME NEW w \in Workers, RecordFailure(w) PROVE DeliveryInv'
  BY <1>8, RecordFailureStep
<1>9. ASSUME NEW w \in Workers, Crash(w) PROVE DeliveryInv'
  BY <1>9, CrashStep
<1>10. ASSUME NEW t \in Threads, ThreadStep(t) PROVE DeliveryInv'
  BY <1>10, ThreadStepKeeps
<1>11. CASE UNCHANGED vars
  BY <1>11, DeliveryStutters
<1> QED
  BY <1>1, <1>2, <1>3, <1>4, <1>5, <1>6, <1>7, <1>8, <1>9, <1>10, <1>11 DEF Next

\* Only a thread replaces the manifest.
LEMMA ManifestStep ==
  DeliveryInv /\ [Next]_vars => [raises = 0 => manifest' >= manifest]_manifest
<1> SUFFICES ASSUME DeliveryInv, [Next]_vars, manifest' # manifest, raises = 0
             PROVE  manifest' >= manifest
  OBVIOUS
<1>1. ASSUME NEW t \in Threads, ThreadStep(t) PROVE manifest' >= manifest
  BY <1>1, ThreadStepKeeps
<1>2. CASE Production
  BY <1>2 DEF Production, delivery
<1>3. CASE UNCHANGED vars
  BY <1>3 DEF vars, delivery
<1>4. ASSUME NEW v \in VersionNos, NEW c \in CandidateNos, ApproveAndEnqueue(v, c)
      PROVE  manifest' >= manifest
  BY <1>4 DEF ApproveAndEnqueue
<1>5. ASSUME NEW v \in VersionNos, ReopenAndRevoke(v) \/ RetryDelivery(v)
      PROVE  manifest' >= manifest
  BY <1>5 DEF ReopenAndRevoke, RetryDelivery
<1>6. ASSUME NEW w \in Workers, NEW i \in DOMAIN rows, ClaimNext(w, i)
      PROVE  manifest' >= manifest
  BY <1>6 DEF ClaimNext
<1>7. ASSUME NEW w \in Workers,
             RenewRaises(w) \/ MarkPublished(w) \/ RecordFailure(w) \/ Crash(w)
      PROVE  manifest' >= manifest
  BY <1>7 DEF RenewRaises, MarkPublished, RecordFailure, Crash
<1> QED
  BY <1>1, <1>2, <1>3, <1>4, <1>5, <1>6, <1>7 DEF Next

LEMMA DeliveryInvariant == Spec => []DeliveryInv
  BY DeliveryInitInv, DeliveryStepInv, PTL DEF Spec

\* Whatever approvals, reopenings, retries, failures and deaths there are, with any
\* number of workers and rows: a completed task has exactly one valid delivery, of
\* the candidate approved in the last cycle of its final version, any other task has
\* none, and deliveries run one at a time in the order of their rows (claim_next).
THEOREM DeliveriesAreSafe == Spec => []DeliverySafe
<1>1. DeliveryInv => DeliverySafe
  BY InvMeansSafe
<1> QED
  BY <1>1, DeliveryInvariant, PTL

\* When all work is done and no heartbeat has raised, CURRENT-<task>.json is that of
\* the newest row, whatever attempts were made in between (_write_current_manifest).
THEOREM ManifestIsTrue == Spec => []ManifestTellsTheTruth
<1>1. DeliveryInv => ManifestTellsTheTruth
  BY InvMeansTruth
<1> QED
  BY <1>1, DeliveryInvariant, PTL

\* As long as no heartbeat has raised, an older delivery never replaces the manifest
\* of a newer one, although its generation is read in a call of its own.
THEOREM ManifestNeverGoesBack == Spec => ManifestMovesForward
  BY ManifestStep, DeliveryInvariant, PTL DEF Spec, ManifestMovesForward

-----------------------------------------------------------------------------
(***************************************************************************)
(* The scheduler of the leader (JobSync).  JobInv says where every update  *)
(* time a process knows, every entry of a job store and every row a reader *)
(* holds came from: a time that is known to the leader belongs to the      *)
(* entry it has, or the start of its scheduler will still add the job; a   *)
(* time a former leader knows of an edit that is not yet committed must    *)
(* not meet another entry when it leads again.                             *)
(***************************************************************************)

\* A version of a row that is committed, or that a request may still commit.
Settled(e) == e = 0 \/ request[e].at \in {"asking", "done"}
Told(e) == e = 0 \/ request[e].at \in {"committing", "asking", "done"}
Pending(e, j) ==
  request[e].job = j /\ request[e].at \in {"adding", "committing"} /\ request[e].new # Nowhere
IsVersion(j, v) ==
  \/ v = row[j] /\ row[j] # Nowhere
  \/ \E e \in Edits : Pending(e, j) /\ v = request[e].new

\* What a request is at, and that a changed row has one of them at a time.
RequestTells(e) ==
  LET r == request[e] IN
  /\ r.at = "none" <=> r = Fresh
  /\ r.at \in {"writing", "adding", "running", "committing"} =>
       r.server \in Servers /\ r.job \in Jobs /\ r.kind # "none"
  /\ r.at \in {"adding", "committing"} => r.kind \in {"add", "edit", "delete"}
  /\ r.at = "running" => r.kind = "once"
  /\ r.new # Nowhere =>
       /\ r.new.edit = e /\ r.kind \in {"add", "edit"} /\ r.at \in {"writing", "adding", "committing"}
  /\ r.at = "adding" => r.kind # "delete" /\ (r.new # Nowhere => r.new.enabled)
  /\ r.at = "writing" /\ r.kind \in {"add", "edit"} => r.new # Nowhere
  /\ r.kind = "add" =>
       row[r.job] = Nowhere /\ r.new # Nowhere /\ \A d \in Edits \ {e} : request[d].job # r.job
RequestsTell == \A e \in Edits : RequestTells(e)
OneWriter ==
  \A e, d \in Edits, j \in Jobs : Locks(e, j) /\ Locks(d, j) => e = d

\* Versions are those of settled requests; whoever has an old one has it as it
\* was, and what a scheduler has was told to it.
RowTells(j, v) ==
  v # Nowhere =>
    /\ Settled(v.edit)
    /\ \A w \in RowsOfJobs : IsVersion(j, w) /\ w.edit = v.edit => w = v
ListsTell(j) == RowTells(j, row[j]) /\ RowTells(j, loading.list[j]) /\ RowTells(j, syncing.list[j])
EntryTells(j, k, x) ==
  x # Nowhere =>
    /\ Told(x.edit) /\ (x.once # "no" => Settled(x.edit))
    /\ \A v \in RowsOfJobs : IsVersion(j, v) /\ v.edit = x.edit => k = v.store
EntriesTell(j) ==
  EntryTells(j, "stored", stored[j]) /\ \A p \in Servers : EntryTells(j, "memory", memory[p][j])
KnownIsTold(j) == \A p \in Servers : known[p][j] # Nowhere => Told(known[p][j])

OthersAreEmpty(j) == \A p \in Servers \ {chief} : memory[p][j] = Nowhere
AtMostOne(j) == chief # Nowhere => memory[chief][j] = Nowhere \/ stored[j] = Nowhere

\* The start of the scheduler will still add the job again.
Expected(j) ==
  \/ loading.at = "start" /\ j \in Live(row)
  \/ loading.at = "read" /\ j \in Live(loading.list)
Fits(x, e) == x # Nowhere => x.edit = e \/ x.once = "only"

\* An update time the leader knows belongs to the entry it has.
KnownFits(j) ==
  chief # Nowhere =>
    \A v \in RowsOfJobs :
      IsVersion(j, v) /\ v.enabled /\ known[chief][j] = v.edit =>
        Expected(j) \/ (Fits(memory[chief][j], v.edit) /\ Fits(stored[j], v.edit))
\* Unless the entry was lost with the leadership, when the row is switched off.
KnownPending(j) ==
  chief # Nowhere =>
    \A e \in Edits :
      Pending(e, j) /\ known[chief][j] = e =>
        \/ Expected(j) \/ j \notin Live(row)
        \/ (memory[chief][j] # Nowhere /\ memory[chief][j].edit = e)
        \/ (stored[j] # Nowhere /\ stored[j].edit = e)
\* The same for a process that led before, and the lists its successor reads.
KnownElsewhere(j) ==
  \A p \in Servers \ {chief}, e \in Edits :
    Pending(e, j) /\ request[e].new.enabled /\ known[p][j] = e =>
      /\ Fits(stored[j], e) \/ j \in Live(row)
      /\ j \in Live(loading.list) \cup Live(syncing.list) => j \in Live(row)

Reconciled(j) ==
  /\ ListsTell(j) /\ EntriesTell(j) /\ KnownIsTold(j) /\ OthersAreEmpty(j)
  /\ j \notin astray => AtMostOne(j) /\ KnownFits(j) /\ KnownPending(j) /\ KnownElsewhere(j)

ListsRead ==
  /\ loading.at # "read" => Live(loading.list) = {}
  /\ syncing.at # "read" => Live(syncing.list) = {}
  /\ chief = Nowhere => loading.at = "no" /\ syncing.at = "idle"

JobInv ==
  /\ JobTypeOK /\ (\A e \in Edits : RequestTells(e)) /\ OneWriter /\ ListsRead
  /\ \A j \in Jobs : Reconciled(j)

-----------------------------------------------------------------------------
(* The scheduler as two stores.                                            *)

Slots == [Jobs -> Entries \cup {Nowhere}]
Schedulers == [memory : Slots, stored : Slots]

LEMMA NowhereElse ==
  Nowhere \notin Servers /\ Nowhere \notin Jobs /\ Nowhere \notin Nat
  /\ Nowhere \notin RowsOfJobs /\ Nowhere \notin Entries
BY JobAssumption

LEMMA SchedulerIs ==
  ASSUME JobTypeOK, chief # Nowhere
  PROVE  /\ chief \in Servers /\ Scheduler \in Schedulers
         /\ Scheduler.memory = memory[chief] /\ Scheduler.stored = stored
BY DEF JobTypeOK, Scheduler, Schedulers, Slots

LEMMA StoresAre ==
  ASSUME NEW s \in Schedulers, NEW j \in Jobs
  PROVE  /\ "memory" \in InStores(s, j) <=> s.memory[j] # Nowhere
         /\ "stored" \in InStores(s, j) <=> s.stored[j] # Nowhere
         /\ InStores(s, j) \subseteq Stores
BY DEF Schedulers, InStores, Stores

LEMMA WithIs ==
  ASSUME NEW s \in Schedulers, NEW k \in Stores, NEW j \in Jobs, NEW x \in Entries \cup {Nowhere}
  PROVE  /\ With(s, k, j, x) \in Schedulers
         /\ \A i \in Jobs \ {j} : /\ With(s, k, j, x).memory[i] = s.memory[i]
                                  /\ With(s, k, j, x).stored[i] = s.stored[i]
         /\ With(s, k, j, x).memory[j] = IF k = "memory" THEN x ELSE s.memory[j]
         /\ With(s, k, j, x).stored[j] = IF k = "stored" THEN x ELSE s.stored[j]
<1>1. CASE k = "memory"
  <2>1. With(s, k, j, x) = [memory |-> [s.memory EXCEPT ![j] = x], stored |-> s.stored]
    BY <1>1 DEF With, Schedulers, Slots
  <2> QED
    BY <1>1, <2>1 DEF Schedulers, Slots
<1>2. CASE k = "stored"
  <2>1. With(s, k, j, x) = [memory |-> s.memory, stored |-> [s.stored EXCEPT ![j] = x]]
    BY <1>2 DEF With, Schedulers, Slots
  <2> QED
    BY <1>2, <2>1 DEF Schedulers, Slots
<1> QED
  BY <1>1, <1>2 DEF Stores

LEMMA RemovedIs ==
  ASSUME NEW s \in Schedulers, NEW j \in Jobs
  PROVE  /\ Removed(s, j) \in Schedulers
         /\ \A i \in Jobs \ {j} : /\ Removed(s, j).memory[i] = s.memory[i]
                                  /\ Removed(s, j).stored[i] = s.stored[i]
         /\ Removed(s, j).memory[j] = Nowhere
         /\ Removed(s, j).stored[j] = IF s.memory[j] # Nowhere THEN s.stored[j] ELSE Nowhere
<1>1. PICK k \in Stores : k = IF s.memory[j] # Nowhere THEN "memory" ELSE "stored"
  BY DEF Stores
<1>2. Removed(s, j) = With(s, k, j, Nowhere)
  BY <1>1 DEF Removed
<1> QED
  BY <1>1, <1>2, WithIs

LEMMA PutIs ==
  ASSUME NEW s \in Schedulers, NEW j \in Jobs, NEW r \in RowsOfJobs,
         NEW once, NEW x \in Entries, x = [edit |-> r.edit, once |-> once],
         NEW t, t = Put(s, j, r, once)
  PROVE  /\ t \in Schedulers
         /\ \A i \in Jobs \ {j} : t.memory[i] = s.memory[i] /\ t.stored[i] = s.stored[i]
         /\ t.memory[j] = IF r.store = "memory" THEN x ELSE s.memory[j]
         /\ t.stored[j] = IF r.store = "stored" THEN x ELSE s.stored[j]
<1>1. r.store \in Stores
  BY DEF RowsOfJobs
<1>2. t = With(s, r.store, j, x)
  BY DEF Put
<1> QED
  BY <1>1, <1>2, WithIs

\* A job with one entry at most is renewed; one with two loses one of them.
LEMMA RenewedIs ==
  ASSUME NEW s \in Schedulers, NEW j \in Jobs, NEW r \in RowsOfJobs
  PROVE  /\ Renewed(s, j, r) \in Schedulers
         /\ \/ s.memory[j] # Nowhere /\ s.stored[j] # Nowhere
            \/ LET x == [edit |-> r.edit, once |-> "no"] IN
               /\ Renewed(s, j, r).memory[j] = IF r.store = "memory" THEN x ELSE Nowhere
               /\ Renewed(s, j, r).stored[j] = IF r.store = "stored" THEN x ELSE Nowhere
         /\ LET x == [edit |-> r.edit, once |-> "no"] IN
            /\ Renewed(s, j, r).memory[j] \in {s.memory[j], Nowhere}
                 \/ (Renewed(s, j, r).memory[j] = x /\ r.store = "memory")
            /\ Renewed(s, j, r).stored[j] \in {s.stored[j], Nowhere}
                 \/ (Renewed(s, j, r).stored[j] = x /\ r.store = "stored")
<1>1. PICK x \in Entries : x = [edit |-> r.edit, once |-> "no"]
  BY DEF RowsOfJobs, Entries
<1>2. PICK rest \in Schedulers : rest = Removed(s, j)
  BY RemovedIs
<1>3. /\ rest.memory[j] = Nowhere
      /\ rest.stored[j] = IF s.memory[j] # Nowhere THEN s.stored[j] ELSE Nowhere
  BY <1>2, RemovedIs
<1>4. PICK put : put = Put(rest, j, r, "no")
  OBVIOUS
<1>5. /\ put \in Schedulers
      /\ put.memory[j] = IF r.store = "memory" THEN x ELSE rest.memory[j]
      /\ put.stored[j] = IF r.store = "stored" THEN x ELSE rest.stored[j]
  BY <1>1, <1>4, PutIs
<1>6. PICK t \in Schedulers : t = Renewed(s, j, r) /\ t = IF r.store \in InStores(rest, j) THEN rest ELSE put
  BY <1>2, <1>4, <1>5 DEF Renewed
<1>7. /\ r.store \in {"memory", "stored"}
      /\ "memory" \in InStores(rest, j) <=> rest.memory[j] # Nowhere
      /\ "stored" \in InStores(rest, j) <=> rest.stored[j] # Nowhere
  BY StoresAre DEF RowsOfJobs, Stores
<1>8. \/ s.memory[j] # Nowhere /\ s.stored[j] # Nowhere
      \/ /\ t.memory[j] = IF r.store = "memory" THEN x ELSE Nowhere
         /\ t.stored[j] = IF r.store = "stored" THEN x ELSE Nowhere
  BY <1>3, <1>5, <1>6, <1>7
<1>9. /\ t.memory[j] \in {s.memory[j], Nowhere} \/ (t.memory[j] = x /\ r.store = "memory")
      /\ t.stored[j] \in {s.stored[j], Nowhere} \/ (t.stored[j] = x /\ r.store = "stored")
  BY <1>3, <1>5, <1>6, <1>7
<1> QED
  BY <1>1, <1>6, <1>8, <1>9

\* What a comparison leaves of a job: its entry is as it was, gone, or the one
\* of the list; and of a job with one entry at most it leaves what the list says,
\* unless the time is known.
LEMMA SyncedIs ==
  ASSUME JobTypeOK, chief # Nowhere, NEW j \in Jobs, NEW list \in Lists, NEW t,
         t = SyncedJob(j, list)
  PROVE  LET x == [edit |-> list[j].edit, once |-> "no"] IN
         /\ t \in Schedulers
         /\ \/ t.memory[j] \in {memory[chief][j], Nowhere}
            \/ j \in Live(list) /\ list[j].store = "memory" /\ t.memory[j] = x
         /\ \/ t.stored[j] \in {stored[j], Nowhere}
            \/ j \in Live(list) /\ list[j].store = "stored" /\ t.stored[j] = x
         /\ memory[chief][j] = Nowhere \/ stored[j] = Nowhere =>
              /\ j \notin Live(list) => t.memory[j] = Nowhere /\ t.stored[j] = Nowhere
              /\ j \in Live(list) =>
                   \/ /\ known[chief][j] = list[j].edit
                      /\ memory[chief][j] # Nowhere \/ stored[j] # Nowhere
                      /\ t.memory[j] = memory[chief][j] /\ t.stored[j] = stored[j]
                   \/ /\ t.memory[j] = IF list[j].store = "memory" THEN x ELSE Nowhere
                      /\ t.stored[j] = IF list[j].store = "stored" THEN x ELSE Nowhere
<1> DEFINE x == [edit |-> list[j].edit, once |-> "no"]
<1>0. PICK s \in Schedulers : s = Scheduler
  BY SchedulerIs
<1>1. s.memory = memory[chief] /\ s.stored = stored
  BY <1>0, SchedulerIs
<1>2. /\ "memory" \in InStores(s, j) <=> s.memory[j] # Nowhere
      /\ "stored" \in InStores(s, j) <=> s.stored[j] # Nowhere
      /\ InStores(s, j) \subseteq Stores
  BY <1>1, StoresAre
<1>3. InStores(s, j) = {} <=> s.memory[j] = Nowhere /\ s.stored[j] = Nowhere
  BY <1>2 DEF Stores
<1>4. j \in Live(list) => list[j] \in RowsOfJobs /\ list[j].store \in {"memory", "stored"}
  BY DEF Lists, Live, RowsOfJobs, Stores
<1>5. t = IF j \notin Live(list) THEN (IF InStores(s, j) = {} THEN s ELSE Removed(s, j))
          ELSE IF InStores(s, j) = {} THEN Put(s, j, list[j], "no")
          ELSE IF known[chief][j] = list[j].edit \/ InSync(s, j, list[j]) THEN s
          ELSE Renewed(Removed(s, j), j, list[j])
  BY <1>0 DEF SyncedJob
<1>6. /\ Removed(s, j) \in Schedulers /\ Removed(s, j).memory[j] = Nowhere
      /\ Removed(s, j).stored[j] = IF s.memory[j] # Nowhere THEN s.stored[j] ELSE Nowhere
  BY <1>1, RemovedIs
<1>7. CASE j \notin Live(list)
  BY <1>1, <1>3, <1>5, <1>6, <1>7
<1>8. CASE j \in Live(list) /\ InStores(s, j) = {}
  <2>1. PICK r \in RowsOfJobs : r = list[j]
    BY <1>4, <1>8
  <2>2. t = Put(s, j, r, "no")
    BY <1>5, <1>8, <2>1
  <2>3. PICK y \in Entries : y = [edit |-> r.edit, once |-> "no"]
    BY DEF RowsOfJobs, Entries
  <2>4. /\ t \in Schedulers
        /\ t.memory[j] = IF r.store = "memory" THEN y ELSE s.memory[j]
        /\ t.stored[j] = IF r.store = "stored" THEN y ELSE s.stored[j]
    BY <2>2, <2>3, PutIs
  <2> QED
    BY <1>1, <1>3, <1>4, <1>8, <2>1, <2>3, <2>4
<1>9. CASE /\ j \in Live(list) /\ InStores(s, j) # {}
           /\ known[chief][j] = list[j].edit \/ InSync(s, j, list[j])
  <2>1. t = s
    BY <1>5, <1>9
  <2>2. InSync(s, j, list[j]) =>
          \/ list[j].store = "memory" /\ s.memory[j] = x
          \/ list[j].store = "stored" /\ s.stored[j] = x
    <3>1. InSync(s, j, list[j]) => s[list[j].store][j] = x
      BY DEF InSync
    <3>2. s["memory"] = s.memory /\ s["stored"] = s.stored
      BY <1>1 DEF Schedulers
    <3> QED
      BY <1>4, <1>9, <3>1, <3>2
  <2>3. x # Nowhere
    <3>1. x \in Entries
      BY <1>4, <1>9 DEF RowsOfJobs, Entries
    <3> QED
      BY <3>1, NowhereElse
  <2> HIDE DEF x
  <2>4. (memory[chief][j] = Nowhere \/ stored[j] = Nowhere) /\
          InSync(s, j, list[j]) =>
             /\ t.memory[j] = IF list[j].store = "memory" THEN x ELSE Nowhere
             /\ t.stored[j] = IF list[j].store = "stored" THEN x ELSE Nowhere
    BY <1>1, <2>1, <2>2, <2>3
  <2> QED
    BY <1>1, <1>3, <1>9, <2>1, <2>4 DEF x
<1>10. CASE /\ j \in Live(list) /\ InStores(s, j) # {}
            /\ ~(known[chief][j] = list[j].edit \/ InSync(s, j, list[j]))
  <2>1. PICK r \in RowsOfJobs : r = list[j]
    BY <1>4, <1>10
  <2>2. PICK q \in Schedulers : q = Removed(s, j)
    BY <1>6
  <2>3. t = Renewed(q, j, r)
    BY <1>5, <1>10, <2>1, <2>2
  <2>4. /\ t \in Schedulers
        /\ t.memory[j] = IF r.store = "memory" THEN [edit |-> r.edit, once |-> "no"] ELSE Nowhere
        /\ t.stored[j] = IF r.store = "stored" THEN [edit |-> r.edit, once |-> "no"] ELSE Nowhere
    BY <1>6, <2>2, <2>3, RenewedIs
  <2> QED
    BY <1>4, <1>10, <2>1, <2>4
<1> QED
  BY <1>7, <1>8, <1>9, <1>10

LEMMA InvMeansSchedulerSafe == JobInv => SchedulerSafe
<1> SUFFICES ASSUME JobInv PROVE NextComparisonHeals /\ OneEntry
  BY DEF JobInv, SchedulerSafe
<1>0. JobTypeOK /\ row \in Lists /\ \A j \in Jobs : Reconciled(j)
  BY DEF JobInv, JobTypeOK
<1>1. ASSUME Leading, NEW j \in Jobs \ astray
      PROVE  LET s == SyncedJob(j, row) IN
             IF j \notin Live(row) THEN InStores(s, j) = {}
             ELSE \/ InStores(s, j) = {row[j].store} /\ s[row[j].store][j].edit = row[j].edit
                  \/ \E k \in InStores(s, j) : s[k][j].once = "only"
  <2>1. PICK t : t = SyncedJob(j, row)
    OBVIOUS
  <2>2. chief # Nowhere /\ (memory[chief][j] = Nowhere \/ stored[j] = Nowhere)
    BY <1>0, <1>1 DEF Leading, Reconciled, AtMostOne
  <2> DEFINE x == [edit |-> row[j].edit, once |-> "no"]
  <2>3. /\ t \in Schedulers
        /\ j \notin Live(row) => t.memory[j] = Nowhere /\ t.stored[j] = Nowhere
        /\ j \in Live(row) =>
             \/ /\ known[chief][j] = row[j].edit
                /\ memory[chief][j] # Nowhere \/ stored[j] # Nowhere
                /\ t.memory[j] = memory[chief][j] /\ t.stored[j] = stored[j]
             \/ /\ t.memory[j] = IF row[j].store = "memory" THEN x ELSE Nowhere
                /\ t.stored[j] = IF row[j].store = "stored" THEN x ELSE Nowhere
    BY <1>0, <2>1, <2>2, SyncedIs
  <2>4. /\ "memory" \in InStores(t, j) <=> t.memory[j] # Nowhere
        /\ "stored" \in InStores(t, j) <=> t.stored[j] # Nowhere
        /\ InStores(t, j) \subseteq {"memory", "stored"}
    BY <2>3, StoresAre DEF Stores
  <2>5. CASE j \notin Live(row)
    BY <2>1, <2>3, <2>4, <2>5
  <2>6. CASE j \in Live(row)
    <3>1. row[j] \in RowsOfJobs /\ row[j] # Nowhere /\ row[j].enabled
          /\ row[j].store \in {"memory", "stored"}
      BY <1>0, <2>6 DEF Live, Lists, RowsOfJobs, Stores
    <3>2. x \in Entries /\ x # Nowhere /\ x.edit = row[j].edit
      BY <3>1, NowhereElse DEF RowsOfJobs, Entries
    <3> HIDE DEF x
    <3>3. CASE /\ t.memory[j] = IF row[j].store = "memory" THEN x ELSE Nowhere
               /\ t.stored[j] = IF row[j].store = "stored" THEN x ELSE Nowhere
      <4>1. InStores(t, j) = {row[j].store} /\ t[row[j].store][j] = x
        BY <2>4, <3>1, <3>2, <3>3
      <4> QED
        BY <2>1, <2>6, <3>2, <4>1
    <3>4. CASE /\ known[chief][j] = row[j].edit
               /\ memory[chief][j] # Nowhere \/ stored[j] # Nowhere
               /\ t.memory[j] = memory[chief][j] /\ t.stored[j] = stored[j]
      <4>1. IsVersion(j, row[j])
        BY <3>1 DEF IsVersion
      <4>2. ~Expected(j)
        BY <1>1 DEF Leading, Expected
      <4>3. Fits(memory[chief][j], row[j].edit) /\ Fits(stored[j], row[j].edit)
        BY <1>0, <1>1, <2>2, <3>1, <3>4, <4>1, <4>2 DEF Reconciled, KnownFits
      <4>4. chief \in Servers
        BY <1>0, <2>2 DEF JobTypeOK
      <4>5. CASE memory[chief][j] # Nowhere
        <5>1. stored[j] = Nowhere /\ InStores(t, j) = {"memory"} /\ t["memory"][j] = memory[chief][j]
          BY <2>2, <2>4, <3>4, <4>5
        <5>2. memory[chief][j].edit = row[j].edit => row[j].store = "memory"
          BY <1>0, <3>1, <4>1, <4>4, <4>5 DEF Reconciled, EntriesTell, EntryTells
        <5> QED
          BY <2>1, <2>6, <4>3, <4>5, <5>1, <5>2 DEF Fits
      <4>6. CASE stored[j] # Nowhere
        <5>1. memory[chief][j] = Nowhere /\ InStores(t, j) = {"stored"} /\ t["stored"][j] = stored[j]
          BY <2>2, <2>4, <3>4, <4>6
        <5>2. stored[j].edit = row[j].edit => row[j].store = "stored"
          BY <1>0, <3>1, <4>1, <4>6 DEF Reconciled, EntriesTell, EntryTells
        <5> QED
          BY <2>1, <2>6, <4>3, <4>6, <5>1, <5>2 DEF Fits
      <4> QED
        BY <3>4, <4>5, <4>6
    <3> QED
      BY <2>3, <2>6, <3>3, <3>4
  <2> QED
    BY <2>5, <2>6
<1>2. NextComparisonHeals
  BY <1>1 DEF NextComparisonHeals
<1>3. ASSUME chief # Nowhere, NEW j \in Jobs \ astray PROVE Cardinality(InStores(Scheduler, j)) <= 1
  <2>1. PICK k \in Stores : InStores(Scheduler, j) \subseteq {k}
    BY <1>0, <1>3, SchedulerIs, StoresAre DEF Reconciled, AtMostOne, Stores
  <2>2. InStores(Scheduler, j) = {} \/ InStores(Scheduler, j) = {k}
    BY <2>1
  <2>3. Cardinality({}) = 0 /\ Cardinality({k}) = 1
    BY FS_EmptySet, FS_Singleton
  <2>4. Cardinality(InStores(Scheduler, j)) = 0 \/ Cardinality(InStores(Scheduler, j)) = 1
    BY <2>2, <2>3
  <2> QED
    BY <2>4
<1>4. OneEntry
  BY <1>3 DEF OneEntry
<1> QED
  BY <1>2, <1>4

\* Requests only go on: what was told or settled stays so, and a new version is
\* one that was not told to any scheduler.
RequestsGoOn ==
  /\ \A e \in Times : (Settled(e) => Settled(e)') /\ (Told(e) => Told(e)')
  /\ \A e \in Edits, j \in Jobs : Pending(e, j)' =>
       ~Told(e) \/ (Pending(e, j) /\ request'[e].new = request[e].new)

LEMMA PendingIs ==
  ASSUME JobTypeOK, NEW e \in Edits, NEW j \in Jobs, RequestTells(e), Pending(e, j)
  PROVE  /\ request[e].new \in RowsOfJobs /\ request[e].new.edit = e
         /\ e \in Times /\ e # 0 /\ ~Settled(e)
BY DEF JobTypeOK, RequestRows, RequestTells, Pending, Settled, Edits, Times

\* A version after such a step was one before, or is of an edit not told yet.
LEMMA VersionsGoOn ==
  ASSUME JobTypeOK, JobTypeOK', \A e \in Edits : RequestTells(e), (\A e \in Edits : RequestTells(e))',
         RequestsGoOn, NEW j \in Jobs, NEW v \in RowsOfJobs, IsVersion(j, v)',
         row'[j] # Nowhere => IsVersion(j, row'[j])
  PROVE  IsVersion(j, v) \/ ~Told(v.edit)
<1>1. CASE v = row'[j] /\ row'[j] # Nowhere
  BY <1>1
<1>2. ASSUME NEW e \in Edits, Pending(e, j)', v = request'[e].new
      PROVE  IsVersion(j, v) \/ ~Told(v.edit)
  <2>1. v.edit = e
    BY <1>2 DEF Pending, RequestTells
  <2>2. ~Told(e) \/ (Pending(e, j) /\ request'[e].new = request[e].new)
    BY <1>2 DEF RequestsGoOn
  <2> QED
    BY <1>2, <2>1, <2>2 DEF IsVersion
<1> QED
  BY <1>1, <1>2 DEF IsVersion

\* What is known of a row, an entry and an update time stays known.
LEMMA TellingsGoOn ==
  ASSUME JobTypeOK, JobTypeOK', \A e \in Edits : RequestTells(e), (\A e \in Edits : RequestTells(e))',
         RequestsGoOn, NEW j \in Jobs, row'[j] # Nowhere => IsVersion(j, row'[j])
  PROVE  /\ \A v \in RowsOfJobs \cup {Nowhere} : RowTells(j, v) => RowTells(j, v)'
         /\ \A k \in Stores, x \in Entries \cup {Nowhere} : EntryTells(j, k, x) => EntryTells(j, k, x)'
         /\ \A e \in Times : Told(e) => Told(e)'
<1>1. \A w \in RowsOfJobs : IsVersion(j, w)' => IsVersion(j, w) \/ ~Told(w.edit)
  BY VersionsGoOn
<1>2. \A e \in Times : (Settled(e) => Settled(e)') /\ (Told(e) => Told(e)') /\ (Settled(e) => Told(e))
  BY DEF RequestsGoOn, Settled, Told
<1>3. ASSUME NEW v \in RowsOfJobs, v # Nowhere, RowTells(j, v) PROVE RowTells(j, v)'
  BY <1>1, <1>2, <1>3 DEF RowTells, RowsOfJobs
<1>4. ASSUME NEW k \in Stores, NEW x \in Entries, EntryTells(j, k, x) PROVE EntryTells(j, k, x)'
  BY <1>1, <1>2, <1>4 DEF EntryTells, Entries
<1>5. RowTells(j, Nowhere)' /\ \A k \in Stores : EntryTells(j, k, Nowhere)'
  BY DEF RowTells, EntryTells
<1> QED
  BY <1>2, <1>3, <1>4, <1>5
-----------------------------------------------------------------------------
(* A step that leaves the scheduler's side of a job alone.                 *)

LEMMA ListsGoOn ==
  ASSUME JobTypeOK, JobTypeOK', \A e \in Edits : RequestTells(e), (\A e \in Edits : RequestTells(e))',
         RequestsGoOn, NEW j \in Jobs, ListsTell(j), row'[j] = row[j],
         loading'.list[j] \in {loading.list[j], row[j], Nowhere},
         syncing'.list[j] \in {syncing.list[j], row[j], Nowhere}
  PROVE  ListsTell(j)'
<1>1. row[j] \in RowsOfJobs \cup {Nowhere} /\ loading.list[j] \in RowsOfJobs \cup {Nowhere}
      /\ syncing.list[j] \in RowsOfJobs \cup {Nowhere}
  BY DEF JobTypeOK, Lists
<1>2. \A v \in RowsOfJobs \cup {Nowhere} : RowTells(j, v) => RowTells(j, v)'
  <2>1. row'[j] # Nowhere => IsVersion(j, row'[j])
    BY <1>1 DEF IsVersion
  <2> QED
    BY <2>1, TellingsGoOn
<1>3. PICK a \in RowsOfJobs \cup {Nowhere}, b \in RowsOfJobs \cup {Nowhere},
           c \in RowsOfJobs \cup {Nowhere} :
        a = row[j] /\ b = loading.list[j] /\ c = syncing.list[j]
  BY <1>1
<1>4. RowTells(j, a)' /\ RowTells(j, b)' /\ RowTells(j, c)'
  BY <1>2, <1>3 DEF ListsTell
<1>5. RowTells(j, Nowhere)'
  BY DEF RowTells
<1>6. row'[j] = a /\ loading'.list[j] \in {a, b, Nowhere} /\ syncing'.list[j] \in {a, c, Nowhere}
  BY <1>3
<1> QED
  BY <1>4, <1>5, <1>6 DEF ListsTell, RowTells

LEMMA EntriesGoOn ==
  ASSUME JobTypeOK, JobTypeOK', \A e \in Edits : RequestTells(e), (\A e \in Edits : RequestTells(e))',
         RequestsGoOn, NEW j \in Jobs, row'[j] # Nowhere => IsVersion(j, row'[j]),
         EntriesTell(j), KnownIsTold(j),
         stored'[j] \in {stored[j], Nowhere},
         \A p \in Servers : /\ memory'[p][j] \in {memory[p][j], Nowhere}
                            /\ known'[p][j] \in {known[p][j], Nowhere}
  PROVE  EntriesTell(j)' /\ KnownIsTold(j)'
<1>1. \A k \in Stores, x \in Entries \cup {Nowhere} : EntryTells(j, k, x) => EntryTells(j, k, x)'
  BY TellingsGoOn
<1>2. \A k \in Stores : EntryTells(j, k, Nowhere)'
  BY DEF EntryTells
<1>3. ASSUME NEW p \in Servers PROVE EntryTells(j, "memory", memory[p][j])'
  <2>1. PICK x \in Entries \cup {Nowhere} : x = memory'[p][j]
    BY DEF JobTypeOK
  <2>2. EntryTells(j, "memory", x)'
    BY <1>1, <1>2, <1>3, <2>1 DEF EntriesTell, Stores
  <2> QED
    BY <2>1, <2>2 DEF EntryTells
<1>4. EntryTells(j, "stored", stored[j])'
  <2>1. PICK x \in Entries \cup {Nowhere} : x = stored'[j]
    BY DEF JobTypeOK
  <2>2. EntryTells(j, "stored", x)'
    BY <1>1, <1>2, <2>1 DEF EntriesTell, Stores
  <2> QED
    BY <2>1, <2>2 DEF EntryTells
<1>5. ASSUME NEW p \in Servers, known'[p][j] # Nowhere PROVE Told(known[p][j])'
  <2>1. PICK e \in Times : e = known'[p][j]
    BY <1>5 DEF JobTypeOK
  <2>2. Told(e)'
    BY <1>5, <2>1 DEF KnownIsTold, RequestsGoOn
  <2> QED
    BY <2>1, <2>2 DEF Told
<1> QED
  BY <1>3, <1>4, <1>5 DEF EntriesTell, KnownIsTold

\* A version that may still be committed and whose time is known was one before.
LEMMA PendingGoesOn ==
  ASSUME RequestsGoOn, NEW j \in Jobs, KnownIsTold(j), NEW e \in Edits, Pending(e, j)',
         NEW p \in Servers, known[p][j] = e, JobAssumption
  PROVE  Pending(e, j) /\ request'[e].new = request[e].new
<1>1. e # Nowhere
  BY DEF JobAssumption, Edits
<1>2. Told(e)
  BY <1>1 DEF KnownIsTold
<1> QED
  BY <1>2 DEF RequestsGoOn

LEMMA VersionGoesOn ==
  ASSUME JobTypeOK, JobTypeOK', \A e \in Edits : RequestTells(e), (\A e \in Edits : RequestTells(e))',
         RequestsGoOn, NEW j \in Jobs, KnownIsTold(j), NEW v \in RowsOfJobs, IsVersion(j, v)',
         row'[j] # Nowhere => IsVersion(j, row'[j]),
         NEW p \in Servers, known[p][j] = v.edit
  PROVE  IsVersion(j, v)
<1>1. v.edit # Nowhere
  BY NowhereElse DEF RowsOfJobs, Times
<1>2. Told(v.edit)
  BY <1>1 DEF KnownIsTold
<1> QED
  BY <1>2, VersionsGoOn

LEMMA JobKept ==
  ASSUME JobTypeOK, JobTypeOK', \A e \in Edits : RequestTells(e), (\A e \in Edits : RequestTells(e))',
         RequestsGoOn, NEW j \in Jobs, Reconciled(j),
         row'[j] = row[j], stored'[j] = stored[j],
         \A p \in Servers : memory'[p][j] = memory[p][j] /\ known'[p][j] = known[p][j],
         chief' = chief, j \notin astray' => j \notin astray,
         loading'.list[j] \in {loading.list[j], row[j], Nowhere},
         syncing'.list[j] \in {syncing.list[j], row[j], Nowhere},
         Expected(j) => Expected(j)'
  PROVE  Reconciled(j)'
<1>0. row'[j] # Nowhere => IsVersion(j, row'[j])
  BY DEF IsVersion
<1>1. KnownIsTold(j) /\ EntriesTell(j) /\ ListsTell(j) /\ OthersAreEmpty(j)
  BY DEF Reconciled
<1>2. ListsTell(j)' /\ EntriesTell(j)' /\ KnownIsTold(j)'
  BY <1>0, <1>1, ListsGoOn, EntriesGoOn
<1>3. OthersAreEmpty(j)'
  BY <1>1 DEF OthersAreEmpty
<1>4. ASSUME j \notin astray' PROVE AtMostOne(j)' /\ KnownFits(j)' /\ KnownPending(j)' /\ KnownElsewhere(j)'
  <2>0. AtMostOne(j) /\ KnownFits(j) /\ KnownPending(j) /\ KnownElsewhere(j)
    BY <1>4 DEF Reconciled
  <2>c. chief # Nowhere => chief \in Servers
    BY DEF JobTypeOK
  <2>1. AtMostOne(j)'
    BY <2>0, <2>c DEF AtMostOne
  <2>2. KnownFits(j)'
    <3>1. ASSUME chief # Nowhere, NEW v \in RowsOfJobs, IsVersion(j, v)', v.enabled, known[chief][j] = v.edit,
                 ~Expected(j)'
          PROVE  Fits(memory[chief][j], v.edit) /\ Fits(stored[j], v.edit)
      <4>1. IsVersion(j, v)
        BY <1>0, <1>1, <2>c, <3>1, VersionGoesOn
      <4> QED
        BY <2>0, <3>1, <4>1 DEF KnownFits
    <3> QED
      BY <2>c, <3>1 DEF KnownFits, Fits
  <2>3. KnownPending(j)'
    <3>1. ASSUME chief # Nowhere, NEW e \in Edits, Pending(e, j)', known[chief][j] = e, ~Expected(j)',
                 j \in Live(row)
          PROVE  \/ memory[chief][j] # Nowhere /\ memory[chief][j].edit = e
                 \/ stored[j] # Nowhere /\ stored[j].edit = e
      <4>1. Pending(e, j)
        BY <1>1, <2>c, <3>1, PendingGoesOn, JobAssumption
      <4> QED
        BY <2>0, <3>1, <4>1 DEF KnownPending
    <3>2. (j \in Live(row))' <=> j \in Live(row)
      BY DEF Live
    <3> QED
      BY <2>c, <3>1, <3>2 DEF KnownPending
  <2>4. KnownElsewhere(j)'
    <3>1. ASSUME NEW p \in Servers \ {chief}, NEW e \in Edits, Pending(e, j)', request'[e].new.enabled,
                 known[p][j] = e
          PROVE  /\ Fits(stored[j], e) \/ j \in Live(row)
                 /\ j \in Live(loading.list) \cup Live(syncing.list) => j \in Live(row)
      <4>1. Pending(e, j) /\ request'[e].new = request[e].new
        BY <1>1, <3>1, PendingGoesOn, JobAssumption
      <4> QED
        BY <2>0, <3>1, <4>1 DEF KnownElsewhere
    <3>2. /\ (j \in Live(row))' <=> j \in Live(row)
          /\ (j \in Live(loading.list))' => j \in Live(loading.list) \cup Live(row)
          /\ (j \in Live(syncing.list))' => j \in Live(syncing.list) \cup Live(row)
      BY DEF Live
    <3> QED
      BY <3>1, <3>2 DEF KnownElsewhere, Fits
  <2> QED
    BY <2>1, <2>2, <2>3, <2>4
<1> QED
  BY <1>2, <1>3, <1>4 DEF Reconciled

-----------------------------------------------------------------------------
(* The steps of requests.                                                  *)

LEMMA RequestMoves ==
  ASSUME JobTypeOK, RequestsTell, OneWriter, NEW e \in Edits, NEW q \in RequestRows,
         request' = [request EXCEPT ![e] = q], RequestTells(e)',
         \A d \in Edits \ {e} : request[d].kind = "add" =>
            q.job # request[d].job /\ row'[request[d].job] = Nowhere,
         \A j \in Jobs : Locks(e, j)' => Locks(e, j) \/ \A d \in Edits \ {e} : ~Locks(d, j),
         Settled(e) => Settled(e)', Told(e) => Told(e)',
         \A j \in Jobs : Pending(e, j)' => ~Told(e) \/ (Pending(e, j) /\ q.new = request[e].new)
  PROVE  request' \in [Edits -> RequestRows] /\ RequestsTell' /\ OneWriter' /\ RequestsGoOn
<1>1. /\ request \in [Edits -> RequestRows] /\ request' \in [Edits -> RequestRows]
      /\ request'[e] = q /\ \A d \in Edits \ {e} : request'[d] = request[d]
  BY DEF JobTypeOK
<1>2. ASSUME NEW d \in Edits PROVE RequestTells(d)'
  <2>1. CASE d = e
    BY <2>1
  <2>2. CASE d # e
    <3>1. RequestTells(d) /\ request'[d] = request[d] /\ Fresh' = Fresh
      BY <1>1, <2>2 DEF RequestsTell, Fresh
    <3>2. request[d].kind = "add" =>
            row'[request[d].job] = Nowhere /\ \A c \in Edits \ {d} : request'[c].job # request[d].job
      BY <1>1, <2>2, <3>1 DEF RequestTells
    <3> QED
      BY <3>1, <3>2 DEF RequestTells
  <2> QED
    BY <2>1, <2>2
<1>3. OneWriter'
  <2>1. ASSUME NEW d \in Edits \ {e}, NEW j \in Jobs PROVE Locks(d, j)' <=> Locks(d, j)
    BY <1>1, <2>1 DEF Locks
  <2> QED
    BY <2>1 DEF OneWriter
<1>4. RequestsGoOn
  <2>1. ASSUME NEW d \in Times PROVE (Settled(d) => Settled(d)') /\ (Told(d) => Told(d)')
    <3>1. CASE d = e
      BY <3>1
    <3>2. CASE d # e
      <4>1. d = 0 \/ d \in Edits \ {e}
        BY <3>2, JobAssumption DEF Times, Edits
      <4> QED
        BY <1>1, <4>1 DEF Settled, Told
    <3> QED
      BY <3>1, <3>2
  <2>2. ASSUME NEW d \in Edits, NEW j \in Jobs, Pending(d, j)'
        PROVE  ~Told(d) \/ (Pending(d, j) /\ request'[d].new = request[d].new)
    BY <1>1, <2>2 DEF Pending
  <2> QED
    BY <2>1, <2>2 DEF RequestsGoOn
<1> QED
  BY <1>1, <1>2, <1>3, <1>4 DEF RequestsTell

\* A step that leaves the scheduler's side of every job alone.
LEMMA AllKept ==
  ASSUME JobInv, JobTypeOK', RequestsTell', OneWriter', RequestsGoOn, ListsRead',
         UNCHANGED <<row, chief, memory, stored, known, astray>>,
         \A j \in Jobs : /\ loading'.list[j] \in {loading.list[j], row[j], Nowhere}
                         /\ syncing'.list[j] \in {syncing.list[j], row[j], Nowhere}
                         /\ Expected(j) => Expected(j)'
  PROVE  JobInv'
<1>1. JobTypeOK /\ RequestsTell
  BY DEF JobInv, RequestsTell
<1>2. ASSUME NEW j \in Jobs PROVE Reconciled(j)'
  <2>1. Reconciled(j)
    BY DEF JobInv
  <2>2. /\ loading'.list[j] \in {loading.list[j], row[j], Nowhere}
        /\ syncing'.list[j] \in {syncing.list[j], row[j], Nowhere}
        /\ Expected(j) => Expected(j)'
    OBVIOUS
  <2> QED
    BY <1>1, <2>1, <2>2, JobKept DEF RequestsTell
<1> QED
  BY <1>2 DEF JobInv, RequestsTell

\* Everything but the request is left.
LEMMA RequestsAlone ==
  ASSUME JobInv, request' \in [Edits -> RequestRows], RequestsTell', OneWriter', RequestsGoOn,
         UNCHANGED <<row, chief, loading, memory, stored, known, syncing, again, astray>>,
         setbacks' \in 0..MaxSetbacks
  PROVE  JobInv'
<1>1. JobTypeOK /\ ListsRead
  BY DEF JobInv
<1>2. JobTypeOK' /\ ListsRead'
  BY <1>1 DEF JobTypeOK, ListsRead, Live
<1>3. ASSUME NEW j \in Jobs PROVE Expected(j) => Expected(j)'
  BY DEF Expected, Live
<1> QED
  BY <1>2, <1>3, AllKept

LEMMA OpenKeeps ==
  ASSUME JobInv, NEW e \in Edits, Open(e) PROVE JobInv'
<1>1. JobTypeOK /\ RequestsTell /\ OneWriter
  BY DEF JobInv, RequestsTell
<1>2. PICK p \in Servers, j \in Jobs, kind \in {"add", "edit", "delete", "once"},
           new \in RowsOfJobs \cup {Nowhere} :
        /\ AsksAs(e, p, kind, j, new)
        /\ IF kind = "add" THEN Unseen(j) ELSE row[j] # Nowhere
        /\ kind \in {"add", "edit"} => new # Nowhere
        /\ new # Nowhere => new.edit = e /\ kind \in {"add", "edit"}
  <2>1. PICK p \in Servers, j \in Jobs, on \in BOOLEAN, k \in Stores :
          LET new == [edit |-> e, enabled |-> on, store |-> k] IN
            \/ Unseen(j) /\ AsksAs(e, p, "add", j, new)
            \/ row[j] # Nowhere /\ AsksAs(e, p, "edit", j, new)
            \/ row[j] # Nowhere /\ AsksAs(e, p, "delete", j, Nowhere)
            \/ row[j] # Nowhere /\ AsksAs(e, p, "once", j, Nowhere)
    BY DEF Open
  <2>2. PICK new \in RowsOfJobs : new = [edit |-> e, enabled |-> on, store |-> k]
    <3>1. e \in Times
      BY JobAssumption DEF Times, Edits
    <3>2. [edit |-> e, enabled |-> on, store |-> k] \in RowsOfJobs
      BY <3>1 DEF RowsOfJobs
    <3> QED
      BY <3>2
  <2>3. new # Nowhere /\ new.edit = e
    BY <2>2, NowhereElse
  <2>4. CASE Unseen(j) /\ AsksAs(e, p, "add", j, new)
    BY <2>3, <2>4
  <2>5. CASE row[j] # Nowhere /\ AsksAs(e, p, "edit", j, new)
    BY <2>3, <2>5
  <2>6. CASE row[j] # Nowhere /\ AsksAs(e, p, "delete", j, Nowhere)
    BY <2>6
  <2>7. CASE row[j] # Nowhere /\ AsksAs(e, p, "once", j, Nowhere)
    BY <2>7
  <2> QED
    BY <2>1, <2>2, <2>4, <2>5, <2>6, <2>7
<1>3. PICK q \in RequestRows :
        q = [at |-> "writing", kind |-> kind, server |-> p, job |-> j, was |-> row[j], new |-> new]
  BY <1>1 DEF RequestRows, JobTypeOK, Lists
<1>4. /\ request[e] = Fresh /\ request' = [request EXCEPT ![e] = q]
      /\ UNCHANGED <<row, chief, loading, memory, stored, known, syncing, again, astray, setbacks>>
  BY <1>2, <1>3 DEF AsksAs
<1>5. request'[e] = q
  BY <1>1, <1>4 DEF JobTypeOK
<1>6. /\ q.at = "writing" /\ q.server = p /\ q.job = j /\ q.new = new /\ q.kind = kind
  BY <1>3
<1>7. Fresh.at = "none" /\ Fresh.job = Nowhere
  BY DEF Fresh
<1>8. RequestTells(e)'
  <2>1. q # Fresh
    BY <1>6, <1>7
  <2>2. kind = "add" => row[j] = Nowhere /\ \A d \in Edits \ {e} : request'[d].job # j
    BY <1>1, <1>2, <1>4 DEF Unseen, JobTypeOK
  <2>3. Fresh' = Fresh
    BY DEF Fresh
  <2> QED
    BY <1>2, <1>4, <1>5, <1>6, <2>1, <2>2, <2>3 DEF RequestTells
<1>9. ASSUME NEW d \in Edits \ {e}, request[d].kind = "add"
      PROVE  q.job # request[d].job /\ row'[request[d].job] = Nowhere
  BY <1>1, <1>2, <1>4, <1>6, <1>9 DEF RequestsTell, RequestTells, Unseen
<1>10. /\ \A i \in Jobs : ~Locks(e, i)' /\ ~Pending(e, i)'
       /\ (Settled(e) => Settled(e)') /\ (Told(e) => Told(e)')
  BY <1>4, <1>5, <1>6, <1>7 DEF Locks, Pending, Settled, Told
<1>11. request' \in [Edits -> RequestRows] /\ RequestsTell' /\ OneWriter' /\ RequestsGoOn
  BY <1>1, <1>4, <1>8, <1>9, <1>10, RequestMoves
<1> QED
  BY <1>1, <1>4, <1>11, RequestsAlone DEF JobTypeOK

\* A request that goes on with its job, its row and its lock.
LEMMA SameJobMoves ==
  ASSUME JobTypeOK, RequestsTell, OneWriter, NEW e \in Edits, NEW q \in RequestRows,
         request' = [request EXCEPT ![e] = q], RequestTells(e)', q.job = request[e].job, row' = row,
         \A j \in Jobs : Locks(e, j)' => Locks(e, j) \/ \A d \in Edits \ {e} : ~Locks(d, j),
         Settled(e) => Settled(e)', Told(e) => Told(e)',
         \A j \in Jobs : Pending(e, j)' => ~Told(e) \/ (Pending(e, j) /\ q.new = request[e].new)
  PROVE  request' \in [Edits -> RequestRows] /\ RequestsTell' /\ OneWriter' /\ RequestsGoOn
<1>1. \A d \in Edits \ {e} : request[d].kind = "add" =>
        q.job # request[d].job /\ row'[request[d].job] = Nowhere
  BY DEF RequestsTell, RequestTells
<1> QED
  BY <1>1, RequestMoves

LEMMA EndedMoves ==
  ASSUME JobTypeOK, RequestsTell, OneWriter, NEW e \in Edits, Ended(e), row' = row
  PROVE  request' \in [Edits -> RequestRows] /\ RequestsTell' /\ OneWriter' /\ RequestsGoOn
<1>1. request[e] \in RequestRows
  BY DEF JobTypeOK
<1>2. PICK q \in RequestRows :
        q = [at |-> "done", kind |-> "none", server |-> Nowhere, job |-> request[e].job,
             was |-> Nowhere, new |-> Nowhere]
  BY <1>1 DEF RequestRows
<1>3. request' = [request EXCEPT ![e] = q] /\ request'[e] = q
  <2>1. [Fresh EXCEPT !.at = "done", !.job = request[e].job] = q
    <3> DEFINE d == [Fresh EXCEPT !.at = "done"]
    <3>1. d = [at |-> "done", kind |-> "none", server |-> Nowhere, job |-> Nowhere,
               was |-> Nowhere, new |-> Nowhere]
      BY DEF Fresh
    <3>2. [d EXCEPT !.job = request[e].job] = q
      <4> HIDE DEF d
      <4> QED
        BY <1>2, <3>1
    <3> QED
      BY <3>1, <3>2 DEF Fresh
  <2>2. request' = [request EXCEPT ![e] = q]
    BY <2>1 DEF Ended
  <2> QED
    BY <2>2 DEF JobTypeOK
<1>4. q.at = "done" /\ q.kind = "none" /\ q.job = request[e].job /\ q.new = Nowhere
  BY <1>2
<1>5. RequestTells(e)'
  <2>1. Fresh'.at = "none"
    BY DEF Fresh
  <2> QED
    BY <1>3, <1>4, <2>1 DEF RequestTells
<1>6. /\ \A i \in Jobs : ~Locks(e, i)' /\ ~Pending(e, i)'
      /\ (Settled(e) => Settled(e)') /\ (Told(e) => Told(e)')
  BY <1>3, <1>4 DEF Locks, Pending, Settled, Told
<1> QED
  BY <1>3, <1>4, <1>5, <1>6, SameJobMoves

LEMMA CommitFailsKeeps ==
  ASSUME JobInv, NEW e \in Edits, CommitFails(e) PROVE JobInv'
<1>1. JobTypeOK /\ RequestsTell /\ OneWriter
  BY DEF JobInv, RequestsTell
<1>2. request' \in [Edits -> RequestRows] /\ RequestsTell' /\ OneWriter' /\ RequestsGoOn
  BY <1>1, EndedMoves DEF CommitFails
<1>3. setbacks' \in 0..MaxSetbacks
  BY <1>1, JobAssumption DEF CommitFails, JobTypeOK
<1> QED
  BY <1>2, <1>3, RequestsAlone DEF CommitFails

LEMMA NotReadingIs ==
  ASSUME NEW at
  PROVE  /\ NotReading(at).at = at /\ NotReading(at).list \in Lists
         /\ NotReading(at) = [at |-> at, list |-> NotReading(at).list]
         /\ \A j \in Jobs : NotReading(at).list[j] = Nowhere
         /\ Live(NotReading(at).list) = {}
BY DEF NotReading, Lists, Live

\* A request for a comparison.
LEMMA RequestedIs ==
  ASSUME JobTypeOK, ListsRead, chief # Nowhere, chief' = chief, loading' = loading, Requested
  PROVE  /\ syncing' \in [at : {"idle", "due", "read"}, list : Lists] /\ again' \in BOOLEAN
         /\ ListsRead' /\ \A j \in Jobs : syncing'.list[j] \in {syncing.list[j], Nowhere}
<1>1. CASE syncing.at = "idle"
  <2>1. PICK l \in Lists : l = NotReading("due").list
    BY NotReadingIs
  <2>2. syncing' = [at |-> "due", list |-> l] /\ Live(l) = {} /\ \A j \in Jobs : l[j] = Nowhere
    BY <1>1, <2>1, NotReadingIs DEF Requested
  <2> QED
    BY <1>1, <2>2 DEF Requested, JobTypeOK, ListsRead, Live
<1>2. CASE syncing.at # "idle"
  BY <1>2 DEF Requested, JobTypeOK, ListsRead, Live
<1> QED
  BY <1>1, <1>2

LEMMA AskKeeps ==
  ASSUME JobInv, NEW e \in Edits, Ask(e) PROVE JobInv'
<1>1. JobTypeOK /\ RequestsTell /\ OneWriter /\ ListsRead
  BY DEF JobInv, RequestsTell
<1>2. request' \in [Edits -> RequestRows] /\ RequestsTell' /\ OneWriter' /\ RequestsGoOn
  BY <1>1, EndedMoves DEF Ask
<1>3. /\ syncing' \in [at : {"idle", "due", "read"}, list : Lists] /\ again' \in BOOLEAN
      /\ ListsRead' /\ \A j \in Jobs : syncing'.list[j] \in {syncing.list[j], Nowhere}
  <2>1. CASE chief # Nowhere /\ Requested
    BY <1>1, <2>1, RequestedIs DEF Ask
  <2>2. CASE UNCHANGED <<syncing, again>>
    BY <1>1, <2>2 DEF Ask, JobTypeOK, ListsRead, Live
  <2> QED
    BY <2>1, <2>2 DEF Ask
<1>4. JobTypeOK'
  BY <1>1, <1>2, <1>3 DEF Ask, JobTypeOK
<1>5. ASSUME NEW j \in Jobs PROVE Expected(j) => Expected(j)'
  BY DEF Ask, Expected, Live
<1> QED
  BY <1>2, <1>3, <1>4, <1>5, AllKept DEF Ask

\* Steps of the leader's that leave the requests alone.
LEMMA RequestsStay ==
  ASSUME JobTypeOK, RequestsTell, OneWriter, UNCHANGED <<row, request>>
  PROVE  request' \in [Edits -> RequestRows] /\ RequestsTell' /\ OneWriter' /\ RequestsGoOn
<1>1. \A e \in Edits : RequestTells(e)'
  BY DEF RequestsTell, RequestTells, Fresh
<1>2. OneWriter'
  BY DEF OneWriter, Locks
<1>3. RequestsGoOn
  BY DEF RequestsGoOn, Settled, Told, Pending
<1> QED
  BY <1>1, <1>2, <1>3 DEF RequestsTell, JobTypeOK

LEMMA TickKeeps ==
  ASSUME JobInv, Tick PROVE JobInv'
<1>1. JobTypeOK /\ RequestsTell /\ OneWriter /\ ListsRead
  BY DEF JobInv, RequestsTell
<1>2. request' \in [Edits -> RequestRows] /\ RequestsTell' /\ OneWriter' /\ RequestsGoOn
  BY <1>1, RequestsStay DEF Tick
<1>3. /\ syncing' \in [at : {"idle", "due", "read"}, list : Lists] /\ again' \in BOOLEAN
      /\ ListsRead' /\ \A j \in Jobs : syncing'.list[j] \in {syncing.list[j], Nowhere}
  BY <1>1, RequestedIs DEF Tick
<1>4. JobTypeOK'
  BY <1>1, <1>2, <1>3 DEF Tick, JobTypeOK
<1>5. ASSUME NEW j \in Jobs PROVE Expected(j) => Expected(j)'
  BY DEF Tick, Expected, Live
<1> QED
  BY <1>2, <1>3, <1>4, <1>5, AllKept DEF Tick

LEMMA SyncReadKeeps ==
  ASSUME JobInv, SyncRead PROVE JobInv'
<1>1. JobTypeOK /\ RequestsTell /\ OneWriter /\ ListsRead
  BY DEF JobInv, RequestsTell
<1>2. request' \in [Edits -> RequestRows] /\ RequestsTell' /\ OneWriter' /\ RequestsGoOn
  BY <1>1, RequestsStay DEF SyncRead
<1>3. syncing' = [at |-> "read", list |-> row] /\ syncing'.list = row /\ syncing'.at = "read"
  BY DEF SyncRead, Read
<1>4. JobTypeOK'
  BY <1>1, <1>2, <1>3 DEF SyncRead, JobTypeOK
<1>5. ListsRead'
  BY <1>1, <1>3 DEF SyncRead, ListsRead, Live
<1>6. ASSUME NEW j \in Jobs PROVE Expected(j) => Expected(j)'
  BY DEF SyncRead, Expected, Live
<1> QED
  BY <1>2, <1>3, <1>4, <1>5, <1>6, AllKept DEF SyncRead

LEMMA LoadReadKeeps ==
  ASSUME JobInv, LoadRead PROVE JobInv'
<1>1. JobTypeOK /\ RequestsTell /\ OneWriter /\ ListsRead
  BY DEF JobInv, RequestsTell
<1>2. request' \in [Edits -> RequestRows] /\ RequestsTell' /\ OneWriter' /\ RequestsGoOn
  BY <1>1, RequestsStay DEF LoadRead
<1>3. loading' = [at |-> "read", list |-> row] /\ loading'.list = row /\ loading'.at = "read"
  BY DEF LoadRead, Read
<1>4. JobTypeOK'
  BY <1>1, <1>2, <1>3 DEF LoadRead, JobTypeOK
<1>5. ListsRead'
  BY <1>1, <1>3 DEF LoadRead, ListsRead, Live
<1>6. ASSUME NEW j \in Jobs PROVE Expected(j) => Expected(j)'
  BY <1>3 DEF LoadRead, Expected, Live
<1> QED
  BY <1>2, <1>3, <1>4, <1>5, <1>6, AllKept DEF LoadRead

-----------------------------------------------------------------------------
(* The steps that change the entries of one job at the leader.             *)

LEMMA BecomesIs ==
  ASSUME JobTypeOK, chief # Nowhere, NEW s \in Schedulers, SchedulerBecomes(s)
  PROVE  /\ memory' \in [Servers -> Slots] /\ stored' \in Slots
         /\ memory'[chief] = s.memory /\ stored' = s.stored
         /\ \A p \in Servers \ {chief} : memory'[p] = memory[p]
BY DEF JobTypeOK, Schedulers, Slots, SchedulerBecomes

Touches(j) ==
  /\ UNCHANGED <<row, chief, loading, syncing, again, setbacks>>
  /\ \A i \in Jobs \ {j} : /\ stored'[i] = stored[i]
                           /\ \A p \in Servers : memory'[p][i] = memory[p][i] /\ known'[p][i] = known[p][i]
  /\ \A p \in Servers \ {chief} : memory'[p][j] = memory[p][j] /\ known'[p][j] = known[p][j]
  /\ astray \subseteq astray' /\ astray' \subseteq astray \cup {j}

LEMMA TouchedIs ==
  ASSUME JobTypeOK, NEW j \in Jobs, Touches(j),
         request' \in [Edits -> RequestRows],
         memory' \in [Servers -> Slots], stored' \in Slots,
         known' \in [Servers -> [Jobs -> Times \cup {Nowhere}]]
  PROVE  JobTypeOK'
BY DEF JobTypeOK, Touches, Slots

LEMMA TouchedKeeps ==
  ASSUME JobInv, JobTypeOK', RequestsTell', OneWriter', RequestsGoOn, NEW j \in Jobs, Touches(j),
         EntriesTell(j)', KnownIsTold(j)',
         j \notin astray' => AtMostOne(j)' /\ KnownFits(j)' /\ KnownPending(j)' /\ KnownElsewhere(j)'
  PROVE  JobInv'
<1>1. JobTypeOK /\ RequestsTell /\ ListsRead /\ Reconciled(j)
  BY DEF JobInv, RequestsTell
<1>2. ListsRead'
  BY <1>1 DEF Touches, ListsRead, Live
<1>3. ASSUME NEW i \in Jobs \ {j} PROVE Reconciled(i)'
  <2>1. Reconciled(i)
    BY DEF JobInv
  <2>2. /\ row'[i] = row[i] /\ stored'[i] = stored[i]
        /\ \A p \in Servers : memory'[p][i] = memory[p][i] /\ known'[p][i] = known[p][i]
        /\ chief' = chief /\ (i \notin astray' => i \notin astray)
        /\ loading'.list[i] = loading.list[i] /\ syncing'.list[i] = syncing.list[i]
    BY DEF Touches
  <2>3. Expected(i) => Expected(i)'
    BY DEF Touches, Expected, Live
  <2> QED
    BY <1>1, <2>1, <2>2, <2>3, JobKept DEF RequestsTell
<1>4. Reconciled(j)'
  <2>1. ListsTell(j)'
    <3>1. row'[j] = row[j] /\ loading'.list[j] = loading.list[j] /\ syncing'.list[j] = syncing.list[j]
      BY DEF Touches
    <3> QED
      BY <1>1, <3>1, ListsGoOn DEF RequestsTell, Reconciled
  <2>2. OthersAreEmpty(j)'
    BY <1>1 DEF Reconciled, OthersAreEmpty, Touches
  <2> QED
    BY <2>1, <2>2 DEF Reconciled
<1> QED
  BY <1>2, <1>3, <1>4 DEF JobInv, RequestsTell

\* What a former leader knows of a job that another one touches.
LEMMA TouchedElsewhere ==
  ASSUME JobTypeOK, JobTypeOK', RequestsGoOn, NEW j \in Jobs, Touches(j), KnownIsTold(j), KnownElsewhere(j),
         \A e \in Edits : Pending(e, j) =>
           Fits(stored'[j], e) \/ j \in Live(row) \/ stored'[j] = stored[j]
  PROVE  KnownElsewhere(j)'
<1>1. ASSUME NEW p \in Servers \ {chief}, NEW e \in Edits, Pending(e, j)', request'[e].new.enabled,
             known'[p][j] = e
      PROVE  /\ Fits(stored'[j], e) \/ j \in Live(row)
             /\ j \in Live(loading.list) \cup Live(syncing.list) => j \in Live(row)
  <2>1. known[p][j] = e
    BY <1>1 DEF Touches
  <2>2. Pending(e, j) /\ request'[e].new = request[e].new
    BY <1>1, <2>1, PendingGoesOn, JobAssumption
  <2> QED
    BY <1>1, <2>1, <2>2 DEF KnownElsewhere
<1>2. /\ (j \in Live(row))' <=> j \in Live(row)
      /\ (j \in Live(loading.list))' <=> j \in Live(loading.list)
      /\ (j \in Live(syncing.list))' <=> j \in Live(syncing.list)
      /\ chief' = chief
  BY DEF Live, Touches
<1> QED
  BY <1>1, <1>2 DEF KnownElsewhere, Fits

\* What remove_scheduler_job leaves, whatever the request does besides.
LEMMA UnscheduledKeeps ==
  ASSUME JobInv, request' \in [Edits -> RequestRows], RequestsTell', OneWriter', RequestsGoOn,
         NEW p \in Servers, NEW j \in Jobs, Unscheduled(p, j),
         UNCHANGED <<row, chief, loading, syncing, again, astray, setbacks>>
  PROVE  JobInv'
<1>0. JobTypeOK /\ RequestsTell /\ Reconciled(j)
  BY DEF JobInv, RequestsTell
<1>1. CASE p # chief
  BY <1>0, <1>1, RequestsAlone DEF Unscheduled, JobTypeOK
<1>2. CASE p = chief
  <2>1. chief # Nowhere
    BY <1>2, NowhereElse
  <2>2. PICK s \in Schedulers : s = Removed(Scheduler, j)
    BY <1>0, <2>1, SchedulerIs, RemovedIs
  <2>3. /\ \A i \in Jobs \ {j} : s.memory[i] = memory[chief][i] /\ s.stored[i] = stored[i]
        /\ s.memory[j] = Nowhere
        /\ s.stored[j] = IF memory[chief][j] # Nowhere THEN stored[j] ELSE Nowhere
    BY <1>0, <2>1, <2>2, SchedulerIs, RemovedIs
  <2>4. SchedulerBecomes(s) /\ known' = [known EXCEPT ![chief][j] = Nowhere]
    BY <1>2, <2>2 DEF Unscheduled
  <2>5. /\ memory' \in [Servers -> Slots] /\ stored' \in Slots
        /\ memory'[chief] = s.memory /\ stored' = s.stored
        /\ \A q \in Servers \ {chief} : memory'[q] = memory[q]
    BY <1>0, <2>1, <2>4, BecomesIs
  <2>6. /\ known' \in [Servers -> [Jobs -> Times \cup {Nowhere}]] /\ known'[chief][j] = Nowhere
        /\ \A q \in Servers, i \in Jobs : q # chief \/ i # j => known'[q][i] = known[q][i]
    BY <1>0, <1>2, <2>4 DEF JobTypeOK
  <2>7. Touches(j)
    BY <1>2, <2>3, <2>5, <2>6 DEF Touches
  <2>8. JobTypeOK'
    BY <1>0, <2>5, <2>6, <2>7, TouchedIs
  <2>9. row'[j] # Nowhere => IsVersion(j, row'[j])
    BY DEF IsVersion
  <2>10. stored'[j] \in {stored[j], Nowhere} /\ memory'[chief][j] = Nowhere
    BY <2>3, <2>5
  <2>11. EntriesTell(j)' /\ KnownIsTold(j)'
    <3>1. \A q \in Servers : /\ memory'[q][j] \in {memory[q][j], Nowhere}
                             /\ known'[q][j] \in {known[q][j], Nowhere}
      BY <2>5, <2>6, <2>10
    <3> QED
      BY <1>0, <2>8, <2>9, <2>10, <3>1, EntriesGoOn DEF RequestsTell, Reconciled
  <2>12. ASSUME j \notin astray'
         PROVE  AtMostOne(j)' /\ KnownFits(j)' /\ KnownPending(j)' /\ KnownElsewhere(j)'
    <3>1. KnownIsTold(j) /\ KnownElsewhere(j)
      BY <1>0, <2>12 DEF Reconciled
    <3>2. AtMostOne(j)'
      BY <2>10 DEF AtMostOne
    <3>3. KnownFits(j)' /\ KnownPending(j)'
      <4>1. \A e \in Times : e # Nowhere
        BY NowhereElse DEF Times
      <4> QED
        BY <2>6, <4>1 DEF KnownFits, KnownPending, RowsOfJobs, Edits, Times
    <3>4. KnownElsewhere(j)'
      <4>1. \A e \in Edits : Fits(stored'[j], e) \/ stored'[j] = stored[j]
        BY <2>10 DEF Fits
      <4> QED
        BY <1>0, <2>7, <2>8, <3>1, <4>1, TouchedElsewhere
    <3> QED
      BY <3>2, <3>3, <3>4
  <2> QED
    BY <2>7, <2>8, <2>11, <2>12, TouchedKeeps
<1> QED
  BY <1>1, <1>2

\* The request after its statement was sent.
LEMMA WriteMoves ==
  ASSUME JobTypeOK, RequestsTell, NEW e \in Edits, Write(e)
  PROVE  \E q \in RequestRows :
           /\ request' = [request EXCEPT ![e] = q]
           /\ q.kind = request[e].kind /\ q.server = request[e].server /\ q.job = request[e].job
           /\ q.at \in {"adding", "committing"} /\ q.new \in {request[e].new, Nowhere}
           /\ q.at = "adding" => q.kind # "delete" /\ (q.new # Nowhere => q.new.enabled)
           /\ q.kind = "add" => q.new = request[e].new
<1> DEFINE r == request[e]
           q(at, new) == [at |-> at, kind |-> r.kind, server |-> r.server, job |-> r.job,
                          was |-> Nowhere, new |-> new]
<1>1. r \in RequestRows /\ r.at = "writing"
  BY DEF Write, JobTypeOK
<1>2. \A at \in {"adding", "committing"}, new \in {r.new, Nowhere} : q(at, new) \in RequestRows
  BY <1>1 DEF RequestRows
<1>3. CASE r.kind = "edit" /\ (row[r.job] = Nowhere \/ row[r.job].store # r.was.store)
  <2>1. PICK at \in {"adding", "committing"} : at = IF r.new.enabled THEN "adding" ELSE "committing"
    OBVIOUS
  <2>2. request' = [request EXCEPT ![e].at = at, ![e].new = Nowhere, ![e].was = Nowhere]
    BY <1>3, <2>1 DEF Write
  <2>3. PICK x \in RequestRows : x = q(at, Nowhere)
    BY <1>2, <2>1
  <2>4. request'[e] = x /\ request' = [request EXCEPT ![e] = request'[e]]
    BY <1>1, <2>2, <2>3 DEF JobTypeOK, RequestRows
  <2>5. request' = [request EXCEPT ![e] = x]
    BY <2>4
  <2> QED
    BY <1>3, <2>1, <2>3, <2>5
<1>4. CASE ~(r.kind = "edit" /\ (row[r.job] = Nowhere \/ row[r.job].store # r.was.store))
  <2>1. PICK at \in {"adding", "committing"} :
          at = IF r.kind # "delete" /\ r.new.enabled THEN "adding" ELSE "committing"
    OBVIOUS
  <2>2. request' = [request EXCEPT ![e].at = at, ![e].was = Nowhere]
    BY <1>4, <2>1 DEF Write
  <2>3. PICK x \in RequestRows : x = q(at, r.new)
    BY <1>2, <2>1
  <2>4. request'[e] = x /\ request' = [request EXCEPT ![e] = request'[e]]
    BY <1>1, <2>2, <2>3 DEF JobTypeOK, RequestRows
  <2>5. request' = [request EXCEPT ![e] = x]
    BY <2>4
  <2> QED
    BY <1>4, <2>1, <2>3, <2>5
<1> QED
  BY <1>3, <1>4

LEMMA WriteKeeps ==
  ASSUME JobInv, NEW e \in Edits, Write(e) PROVE JobInv'
<1>1. JobTypeOK /\ RequestsTell /\ OneWriter /\ RequestTells(e)
  BY DEF JobInv, RequestsTell
<1>2. PICK q \in RequestRows :
        /\ request' = [request EXCEPT ![e] = q]
        /\ q.kind = request[e].kind /\ q.server = request[e].server /\ q.job = request[e].job
        /\ q.at \in {"adding", "committing"} /\ q.new \in {request[e].new, Nowhere}
        /\ q.at = "adding" => q.kind # "delete" /\ (q.new # Nowhere => q.new.enabled)
        /\ q.kind = "add" => q.new = request[e].new
  BY <1>1, WriteMoves
<1>3. request'[e] = q /\ \A d \in Edits \ {e} : request'[d] = request[d]
  BY <1>1, <1>2 DEF JobTypeOK
<1>4. PICK p \in Servers, j \in Jobs : p = request[e].server /\ j = request[e].job
  BY <1>1 DEF Write, RequestTells
<1>5. request[e].at = "writing" /\ request[e].kind # "once" /\ request[e] # Fresh /\ row' = row
  BY DEF Write, Fresh
<1>6. RequestTells(e)'
  <2>1. q # Fresh /\ Fresh' = Fresh
    BY <1>2 DEF Fresh
  <2>2. request[e].kind \in {"add", "edit", "delete"}
    BY <1>1, <1>5 DEF JobTypeOK, RequestRows, RequestTells, Fresh, Write
  <2> QED
    BY <1>1, <1>2, <1>3, <1>5, <2>1, <2>2 DEF RequestTells
<1>7. \A i \in Jobs : Locks(e, i)' => \A d \in Edits \ {e} : ~Locks(d, i)
  BY <1>2, <1>3 DEF Write, Locks
<1>8. ~Told(e) /\ ~Settled(e)
  BY <1>5, JobAssumption DEF Told, Settled, Edits
<1>9. request' \in [Edits -> RequestRows] /\ RequestsTell' /\ OneWriter' /\ RequestsGoOn
  BY <1>1, <1>2, <1>5, <1>6, <1>7, <1>8, SameJobMoves
<1>10. CASE request[e].kind = "add"
  <2>1. UNCHANGED <<row, chief, loading, memory, stored, known, syncing, again, astray, setbacks>>
    BY <1>10 DEF Write
  <2> QED
    BY <1>1, <1>9, <2>1, RequestsAlone DEF JobTypeOK
<1>11. CASE request[e].kind # "add"
  <2>1. Unscheduled(p, j) /\ UNCHANGED <<row, chief, loading, syncing, again, astray, setbacks>>
    BY <1>4, <1>11 DEF Write
  <2> QED
    BY <1>9, <2>1, UnscheduledKeeps
<1> QED
  BY <1>10, <1>11

LEMMA StepMoves ==
  ASSUME JobTypeOK, RequestsTell, OneWriter, NEW e \in Edits,
         NEW to \in {"running", "committing"}, Step(e, to),
         row' = row,
         \/ to = "running" /\ request[e].at = "writing" /\ request[e].kind = "once"
         \/ to = "committing" /\ request[e].at = "adding"
  PROVE  request' \in [Edits -> RequestRows] /\ RequestsTell' /\ OneWriter' /\ RequestsGoOn
<1> DEFINE r == request[e]
<1>1. r \in RequestRows /\ RequestTells(e)
  BY DEF JobTypeOK, RequestsTell
<1>2. PICK q \in RequestRows :
        q = [at |-> to, kind |-> r.kind, server |-> r.server, job |-> r.job, was |-> r.was, new |-> r.new]
  BY <1>1 DEF RequestRows
<1>3. request'[e] = q /\ request' = [request EXCEPT ![e] = request'[e]]
  BY <1>1, <1>2 DEF Step, JobTypeOK, RequestRows
<1>4. request' = [request EXCEPT ![e] = q]
  BY <1>3
<1>5. q.at = to /\ q.kind = r.kind /\ q.server = r.server /\ q.job = r.job /\ q.new = r.new
  BY <1>2
<1>6. \A d \in Edits \ {e} : request'[d] = request[d]
  BY <1>4 DEF JobTypeOK
<1>7. RequestTells(e)'
  <2>1. q # Fresh /\ Fresh' = Fresh
    BY <1>5 DEF Fresh
  <2> QED
    BY <1>1, <1>3, <1>5, <1>6, <2>1 DEF RequestTells
<1>8. /\ \A i \in Jobs : (Locks(e, i)' => Locks(e, i)) /\ (Pending(e, i)' => Pending(e, i) /\ q.new = r.new)
      /\ (Settled(e) => Settled(e)') /\ (Told(e) => Told(e)')
  BY <1>1, <1>3, <1>5 DEF Locks, Pending, Settled, Told, RequestTells
<1> QED
  BY <1>1, <1>4, <1>5, <1>7, <1>8, SameJobMoves

LEMMA OnceRemoveKeeps ==
  ASSUME JobInv, NEW e \in Edits, OnceRemove(e) PROVE JobInv'
<1>1. JobTypeOK /\ RequestsTell /\ OneWriter /\ RequestTells(e)
  BY DEF JobInv, RequestsTell
<1>2. request' \in [Edits -> RequestRows] /\ RequestsTell' /\ OneWriter' /\ RequestsGoOn
  BY <1>1, StepMoves DEF OnceRemove
<1>3. PICK p \in Servers, j \in Jobs : p = request[e].server /\ j = request[e].job
  BY <1>1 DEF OnceRemove, RequestTells
<1>4. Unscheduled(p, j) /\ UNCHANGED <<row, chief, loading, syncing, again, astray, setbacks>>
  BY <1>3 DEF OnceRemove
<1> QED
  BY <1>2, <1>4, UnscheduledKeeps

\* An entry that is put into a store of the leader.
LEMMA PlacedIs ==
  ASSUME JobTypeOK, chief # Nowhere, NEW j \in Jobs, NEW r \in RowsOfJobs,
         NEW once \in {"no", "also", "only"}, SchedulerBecomes(Put(Scheduler, j, r, once)),
         NEW x, x = [edit |-> r.edit, once |-> once]
  PROVE  /\ memory' \in [Servers -> Slots] /\ stored' \in Slots /\ x \in Entries
         /\ \A p \in Servers \ {chief} : memory'[p] = memory[p]
         /\ \A i \in Jobs \ {j} : stored'[i] = stored[i] /\ memory'[chief][i] = memory[chief][i]
         /\ memory'[chief][j] = IF r.store = "memory" THEN x ELSE memory[chief][j]
         /\ stored'[j] = IF r.store = "stored" THEN x ELSE stored[j]
<1>1. PICK s \in Schedulers : s = Scheduler /\ s.memory = memory[chief] /\ s.stored = stored
  BY SchedulerIs
<1>2. x \in Entries
  BY DEF RowsOfJobs, Entries
<1>3. PICK t : t = Put(s, j, r, once)
  OBVIOUS
<1>4. /\ t \in Schedulers
      /\ \A i \in Jobs \ {j} : t.memory[i] = s.memory[i] /\ t.stored[i] = s.stored[i]
      /\ t.memory[j] = IF r.store = "memory" THEN x ELSE s.memory[j]
      /\ t.stored[j] = IF r.store = "stored" THEN x ELSE s.stored[j]
  BY <1>2, <1>3, PutIs
<1>5. SchedulerBecomes(t)
  BY <1>1, <1>3
<1>6. /\ memory' \in [Servers -> Slots] /\ stored' \in Slots
      /\ memory'[chief] = t.memory /\ stored' = t.stored
      /\ \A p \in Servers \ {chief} : memory'[p] = memory[p]
  BY <1>4, <1>5, BecomesIs
<1> QED
  BY <1>1, <1>2, <1>4, <1>6

LEMMA PlacedTells ==
  ASSUME JobInv, JobTypeOK', RequestsTell', RequestsGoOn, NEW j \in Jobs, Touches(j),
         chief # Nowhere, NEW r \in RowsOfJobs, NEW x \in Entries, x.edit = r.edit,
         memory'[chief][j] = IF r.store = "memory" THEN x ELSE memory[chief][j],
         stored'[j] = IF r.store = "stored" THEN x ELSE stored[j],
         Told(r.edit)', x.once # "no" => Settled(r.edit)',
         \A v \in RowsOfJobs : IsVersion(j, v)' /\ v.edit = r.edit => v = r,
         known'[chief][j] \in {known[chief][j], r.edit}
  PROVE  EntriesTell(j)' /\ KnownIsTold(j)'
<1>1. JobTypeOK /\ RequestsTell /\ EntriesTell(j) /\ KnownIsTold(j)
  BY DEF JobInv, RequestsTell, Reconciled
<1>2. row'[j] # Nowhere => IsVersion(j, row'[j])
  BY DEF Touches, IsVersion
<1>3. \A k \in Stores, y \in Entries \cup {Nowhere} : EntryTells(j, k, y) => EntryTells(j, k, y)'
  BY <1>1, <1>2, TellingsGoOn DEF RequestsTell
<1>4. EntryTells(j, r.store, x)'
  BY DEF EntryTells
<1>5. r.store \in {"memory", "stored"} /\ Stores = {"memory", "stored"}
  BY DEF RowsOfJobs, Stores
<1>6. ASSUME NEW p \in Servers PROVE EntryTells(j, "memory", memory[p][j])'
  <2>1. PICK y \in Entries \cup {Nowhere} : y = memory'[p][j]
    BY DEF JobTypeOK
  <2>2. EntryTells(j, "memory", y)'
    <3>1. CASE p = chief /\ r.store = "memory"
      BY <1>4, <2>1, <3>1
    <3>2. CASE ~(p = chief /\ r.store = "memory")
      <4>1. y = memory[p][j]
        BY <2>1, <3>2 DEF Touches
      <4> QED
        BY <1>1, <1>3, <1>5, <4>1 DEF EntriesTell
    <3> QED
      BY <3>1, <3>2
  <2> QED
    BY <2>1, <2>2 DEF EntryTells
<1>7. EntryTells(j, "stored", stored[j])'
  <2>1. PICK y \in Entries \cup {Nowhere} : y = stored'[j]
    BY DEF JobTypeOK
  <2>2. EntryTells(j, "stored", y)'
    BY <1>1, <1>3, <1>4, <1>5, <2>1 DEF EntriesTell
  <2> QED
    BY <2>1, <2>2 DEF EntryTells
<1>8. ASSUME NEW p \in Servers, known'[p][j] # Nowhere PROVE Told(known[p][j])'
  <2>1. PICK e \in Times : e = known'[p][j]
    BY <1>8 DEF JobTypeOK
  <2>2. Told(e)'
    <3>1. CASE e = r.edit
      BY <3>1 DEF Told
    <3>2. CASE e # r.edit
      <4>1. known[p][j] = e
        BY <2>1, <3>2 DEF Touches
      <4> QED
        BY <1>1, <1>8, <2>1, <4>1 DEF KnownIsTold, RequestsGoOn
    <3> QED
      BY <3>1, <3>2
  <2> QED
    BY <2>1, <2>2 DEF Told
<1> QED
  BY <1>6, <1>7, <1>8 DEF EntriesTell, KnownIsTold

\* The row a request adds: told with its commit, and no other version has its time.
LEMMA MineIs ==
  ASSUME JobInv, RequestsTell', RequestsGoOn, NEW e \in Edits, NEW j \in Jobs, j = request[e].job,
         request[e].at = "adding", request'[e].at = "committing", request'[e].new = request[e].new,
         NEW m, m = Mine(e), m # Nowhere, row' = row
  PROVE  /\ m \in RowsOfJobs /\ Told(m.edit)'
         /\ \A v \in RowsOfJobs : IsVersion(j, v)' /\ v.edit = m.edit => v = m
<1>1. JobTypeOK /\ RequestsTell /\ RequestTells(e) /\ Reconciled(j) /\ RowTells(j, row[j])
  BY DEF JobInv, RequestsTell, Reconciled, ListsTell
<1>2. \A d \in Edits : Pending(d, j)' =>
        /\ d \in Times /\ ~Settled(d) /\ request'[d].new.edit = d
        /\ Told(d) => request'[d].new = request[d].new /\ Pending(d, j)
  <2>1. ASSUME NEW d \in Edits, Pending(d, j)'
        PROVE  d \in Times /\ d # 0 /\ ~Settled(d)' /\ request'[d].new.edit = d
    BY <2>1 DEF Pending, RequestsTell, RequestTells, Settled, Edits, Times
  <2> QED
    BY <2>1 DEF RequestsGoOn
<1>3. CASE request[e].new = Nowhere
  <2>1. m = row[j] /\ row[j] \in RowsOfJobs /\ row[j] # Nowhere
    BY <1>1, <1>3 DEF Mine, JobTypeOK, Lists
  <2>2. Settled(m.edit)
    BY <1>1, <2>1 DEF RowTells
  <2>3. m.edit \in Times
    BY <2>1 DEF RowsOfJobs
  <2>4. Told(m.edit)'
    BY <2>2, <2>3 DEF RequestsGoOn, Settled, Told
  <2>5. ASSUME NEW v \in RowsOfJobs, IsVersion(j, v)', v.edit = m.edit PROVE v = m
    <3>1. ASSUME NEW d \in Edits, Pending(d, j)', v = request'[d].new PROVE FALSE
      <4>1. ~Settled(d) /\ v.edit = d
        BY <1>2, <3>1
      <4> QED
        BY <2>2, <2>5, <4>1
    <3> QED
      BY <2>1, <2>5, <3>1 DEF IsVersion
  <2> QED
    BY <2>1, <2>4, <2>5
<1>4. CASE request[e].new # Nowhere
  <2>1. Pending(e, j)
    BY <1>4 DEF Pending
  <2>2. /\ m = request[e].new /\ m \in RowsOfJobs /\ m.edit = e
        /\ ~Settled(e) /\ e \in Times
    BY <1>1, <1>4, <2>1, PendingIs DEF Mine
  <2>3. Told(e)'
    BY DEF Told
  <2>4. ASSUME NEW v \in RowsOfJobs, IsVersion(j, v)', v.edit = e PROVE v = request[e].new
    <3>1. CASE v = row[j] /\ row[j] # Nowhere
      BY <1>1, <2>2, <2>4, <3>1 DEF RowTells
    <3>2. ASSUME NEW d \in Edits, Pending(d, j)', v = request'[d].new PROVE v = request[e].new
      <4>1. d = e
        BY <1>2, <2>4, <3>2
      <4> QED
        BY <3>2, <4>1
    <3> QED
      BY <2>4, <3>1, <3>2 DEF IsVersion
  <2> QED
    BY <2>2, <2>3, <2>4 DEF Told
<1> QED
  BY <1>3, <1>4

LEMMA StepIs ==
  ASSUME JobTypeOK, NEW e \in Edits, NEW to, Step(e, to)
  PROVE  /\ request'[e].at = to /\ request'[e].new = request[e].new /\ request'[e].job = request[e].job
         /\ \A d \in Edits \ {e} : request'[d] = request[d]
BY DEF JobTypeOK, RequestRows, Step

LEMMA AddKeeps ==
  ASSUME JobInv, NEW e \in Edits, Add(e) PROVE JobInv'
<1>1. JobTypeOK /\ RequestsTell /\ OneWriter /\ RequestTells(e)
  BY DEF JobInv, RequestsTell
<1>2. PICK p \in Servers, j \in Jobs : p = request[e].server /\ j = request[e].job
  BY <1>1 DEF Add, RequestTells
<1>3. PICK m : m = Mine(e)
  OBVIOUS
<1>4. /\ request[e].at = "adding" /\ row' = row
      /\ UNCHANGED <<row, chief, loading, syncing, again, setbacks>>
  BY DEF Add
<1>5. CASE ~(p = chief /\ m # Nowhere /\ m.store \notin InStores(Scheduler, j))
  <2>1. /\ IF p = chief THEN Ended(e) ELSE Step(e, "committing")
        /\ UNCHANGED <<memory, stored, known, astray>>
    BY <1>2, <1>3, <1>5 DEF Add
  <2>2. request' \in [Edits -> RequestRows] /\ RequestsTell' /\ OneWriter' /\ RequestsGoOn
    BY <1>1, <1>4, <2>1, EndedMoves, StepMoves
  <2> QED
    BY <1>1, <1>4, <2>1, <2>2, RequestsAlone DEF JobTypeOK
<1>6. CASE p = chief /\ m # Nowhere /\ m.store \notin InStores(Scheduler, j)
  <2>1. /\ SchedulerBecomes(Put(Scheduler, j, m, "no"))
        /\ known' = [known EXCEPT ![chief][j] = m.edit]
        /\ astray' = IF InStores(Scheduler, j) # {} \/ ~m.enabled THEN astray \cup {j} ELSE astray
        /\ Step(e, "committing")
    BY <1>2, <1>3, <1>6 DEF Add
  <2>2. request' \in [Edits -> RequestRows] /\ RequestsTell' /\ OneWriter' /\ RequestsGoOn
    BY <1>1, <1>4, <2>1, StepMoves
  <2>3. request'[e].at = "committing" /\ request'[e].new = request[e].new
    BY <1>1, <2>1, StepIs
  <2>4. /\ m \in RowsOfJobs /\ Told(m.edit)'
        /\ \A v \in RowsOfJobs : IsVersion(j, v)' /\ v.edit = m.edit => v = m
    BY <1>2, <1>3, <1>4, <1>6, <2>2, <2>3, MineIs
  <2>5. chief # Nowhere /\ chief \in Servers
    BY <1>6, NowhereElse
  <2>6. PICK x : x = [edit |-> m.edit, once |-> "no"]
    OBVIOUS
  <2>7. /\ memory' \in [Servers -> Slots] /\ stored' \in Slots /\ x \in Entries
        /\ \A q \in Servers \ {chief} : memory'[q] = memory[q]
        /\ \A i \in Jobs \ {j} : stored'[i] = stored[i] /\ memory'[chief][i] = memory[chief][i]
        /\ memory'[chief][j] = IF m.store = "memory" THEN x ELSE memory[chief][j]
        /\ stored'[j] = IF m.store = "stored" THEN x ELSE stored[j]
    BY <1>1, <2>1, <2>4, <2>5, <2>6, PlacedIs
  <2>8. /\ known' \in [Servers -> [Jobs -> Times \cup {Nowhere}]] /\ known'[chief][j] = m.edit
        /\ \A q \in Servers, i \in Jobs : q # chief \/ i # j => known'[q][i] = known[q][i]
    BY <1>1, <2>1, <2>4, <2>5 DEF JobTypeOK, RowsOfJobs
  <2>9. Touches(j)
    <3>1. astray \subseteq astray' /\ astray' \subseteq astray \cup {j}
      BY <2>1
    <3> QED
      BY <1>4, <2>7, <2>8, <3>1 DEF Touches
  <2>10. JobTypeOK'
    BY <1>1, <2>2, <2>7, <2>8, <2>9, TouchedIs
  <2>11. x.edit = m.edit /\ x.once = "no" /\ x # Nowhere /\ m.store \in {"memory", "stored"}
    BY <2>4, <2>6, <2>7, NowhereElse DEF RowsOfJobs, Stores
  <2>12. EntriesTell(j)' /\ KnownIsTold(j)'
    BY <2>2, <2>4, <2>5, <2>7, <2>8, <2>9, <2>10, <2>11, PlacedTells
  <2>13. ASSUME j \notin astray'
         PROVE  AtMostOne(j)' /\ KnownFits(j)' /\ KnownPending(j)' /\ KnownElsewhere(j)'
    <3>1. j \notin astray /\ InStores(Scheduler, j) = {} /\ m.enabled
      BY <2>1, <2>13
    <3>2. KnownIsTold(j) /\ KnownElsewhere(j)
      BY <3>1 DEF JobInv, Reconciled
    <3>3. memory[chief][j] = Nowhere /\ stored[j] = Nowhere
      BY <1>1, <2>5, <3>1, SchedulerIs, StoresAre
    <3>4. AtMostOne(j)'
      BY <1>4, <2>7, <3>3, <2>11 DEF AtMostOne
    <3>5. KnownFits(j)'
      BY <1>4, <2>7, <2>8, <2>11, <3>3 DEF KnownFits, Fits
    <3>6. KnownPending(j)'
      BY <1>4, <2>7, <2>8, <2>11, <3>3 DEF KnownPending
    <3>7. ASSUME NEW d \in Edits, Pending(d, j)
          PROVE  Fits(stored'[j], d) \/ j \in Live(row) \/ stored'[j] = stored[j]
      <4>1. CASE request[e].new = Nowhere
        <5>1. m = row[j]
          BY <1>2, <1>3, <4>1 DEF Mine
        <5> QED
          BY <1>6, <3>1, <5>1 DEF Live
      <4>2. CASE request[e].new # Nowhere
        <5>1. Locks(e, j) /\ Locks(d, j)
          BY <1>2, <1>4, <3>7, <4>2 DEF Locks, Pending
        <5>2. d = e /\ m = request[e].new
          BY <1>1, <1>3, <4>2, <5>1 DEF OneWriter, Mine
        <5>3. m.edit = d
          BY <1>1, <4>2, <5>2 DEF RequestTells
        <5> QED
          BY <2>7, <2>11, <5>3 DEF Fits
      <4> QED
        BY <4>1, <4>2
    <3>8. KnownElsewhere(j)'
      BY <1>1, <2>2, <2>9, <2>10, <3>2, <3>7, TouchedElsewhere
    <3> QED
      BY <3>4, <3>5, <3>6, <3>8
  <2> QED
    BY <2>2, <2>9, <2>10, <2>12, <2>13, TouchedKeeps
<1> QED
  BY <1>5, <1>6

LEMMA OnceAddKeeps ==
  ASSUME JobInv, NEW e \in Edits, OnceAdd(e) PROVE JobInv'
<1>1. JobTypeOK /\ RequestsTell /\ OneWriter /\ RequestTells(e)
  BY DEF JobInv, RequestsTell
<1>2. PICK p \in Servers, j \in Jobs : p = request[e].server /\ j = request[e].job
  BY <1>1 DEF OnceAdd, RequestTells
<1>3. PICK r : r = row[j]
  OBVIOUS
<1>4. /\ row' = row /\ UNCHANGED <<row, chief, loading, known, syncing, again, setbacks>>
      /\ request' \in [Edits -> RequestRows] /\ RequestsTell' /\ OneWriter' /\ RequestsGoOn
  BY <1>1, EndedMoves DEF OnceAdd
<1>5. CASE ~(p = chief /\ r # Nowhere /\ r.store \notin InStores(Scheduler, j))
  <2>1. UNCHANGED <<memory, stored, astray>>
    BY <1>2, <1>3, <1>5 DEF OnceAdd
  <2> QED
    BY <1>1, <1>4, <2>1, RequestsAlone DEF JobTypeOK
<1>6. CASE p = chief /\ r # Nowhere /\ r.store \notin InStores(Scheduler, j)
  <2>1. PICK once \in {"no", "also", "only"} : once = IF r.enabled THEN "also" ELSE "only"
    OBVIOUS
  <2>2. /\ SchedulerBecomes(Put(Scheduler, j, r, once))
        /\ astray' = IF InStores(Scheduler, j) # {} THEN astray \cup {j} ELSE astray
    BY <1>2, <1>3, <1>6, <2>1 DEF OnceAdd
  <2>3. chief # Nowhere /\ chief \in Servers /\ r \in RowsOfJobs
    BY <1>1, <1>3, <1>6, NowhereElse DEF JobTypeOK, Lists
  <2>4. PICK x : x = [edit |-> r.edit, once |-> once]
    OBVIOUS
  <2>5. /\ memory' \in [Servers -> Slots] /\ stored' \in Slots /\ x \in Entries
        /\ \A q \in Servers \ {chief} : memory'[q] = memory[q]
        /\ \A i \in Jobs \ {j} : stored'[i] = stored[i] /\ memory'[chief][i] = memory[chief][i]
        /\ memory'[chief][j] = IF r.store = "memory" THEN x ELSE memory[chief][j]
        /\ stored'[j] = IF r.store = "stored" THEN x ELSE stored[j]
    BY <1>1, <2>2, <2>3, <2>4, PlacedIs
  <2>6. Touches(j)
    <3>1. astray \subseteq astray' /\ astray' \subseteq astray \cup {j}
      BY <2>2
    <3> QED
      BY <1>4, <2>5, <3>1 DEF Touches
  <2>7. JobTypeOK'
    BY <1>1, <1>4, <2>5, <2>6, TouchedIs DEF JobTypeOK
  <2>8. x.edit = r.edit /\ x.once = once /\ x # Nowhere /\ r.store \in {"memory", "stored"}
    BY <2>3, <2>4, <2>5, NowhereElse DEF RowsOfJobs, Stores
  <2>9. /\ Told(r.edit)' /\ Settled(r.edit)' /\ Settled(r.edit)
        /\ \A v \in RowsOfJobs : IsVersion(j, v)' /\ v.edit = r.edit => v = r
    <3>1. RowTells(j, r)
      BY <1>3 DEF JobInv, Reconciled, ListsTell
    <3>2. RowTells(j, r)'
      <4>1. row'[j] # Nowhere => IsVersion(j, row'[j])
        BY <1>4 DEF IsVersion
      <4> QED
        BY <1>1, <1>4, <2>3, <2>7, <3>1, <4>1, TellingsGoOn DEF RequestsTell
    <3> QED
      BY <1>6, <3>1, <3>2 DEF RowTells, Settled, Told
  <2>10. EntriesTell(j)' /\ KnownIsTold(j)'
    <3>1. known'[chief][j] = known[chief][j]
      BY <1>4
    <3> QED
      BY <1>4, <2>3, <2>5, <2>6, <2>7, <2>8, <2>9, <3>1, PlacedTells
  <2>11. ASSUME j \notin astray'
         PROVE  AtMostOne(j)' /\ KnownFits(j)' /\ KnownPending(j)' /\ KnownElsewhere(j)'
    <3>1. j \notin astray /\ InStores(Scheduler, j) = {}
      BY <2>2, <2>11
    <3>2. KnownIsTold(j) /\ KnownFits(j) /\ KnownPending(j) /\ KnownElsewhere(j)
      BY <3>1 DEF JobInv, Reconciled
    <3>3. memory[chief][j] = Nowhere /\ stored[j] = Nowhere
      BY <1>1, <2>3, <3>1, SchedulerIs, StoresAre
    <3>4. AtMostOne(j)'
      BY <1>4, <2>5, <2>8, <3>3 DEF AtMostOne
    <3>5. Expected(j)' <=> Expected(j)
      BY <1>4 DEF Expected, Live
    <3>6. /\ x.once = "only" \/ j \in Live(row)
          /\ r.enabled => j \in Live(row)
      BY <1>3, <1>6, <2>1, <2>8 DEF Live
    <3>7. \A d \in Edits : Pending(d, j)' /\ known[chief][j] = d =>
            Expected(j) \/ j \notin Live(row)
      <4>1. ASSUME NEW d \in Edits, Pending(d, j)', known[chief][j] = d
            PROVE  Expected(j) \/ j \notin Live(row)
        <5>1. Pending(d, j)
          BY <1>4, <2>3, <3>2, <4>1, PendingGoesOn, JobAssumption
        <5> QED
          BY <2>3, <3>2, <3>3, <4>1, <5>1 DEF KnownPending
      <4> QED
        BY <4>1
    <3>8. KnownFits(j)'
      <4>1. ASSUME NEW v \in RowsOfJobs, IsVersion(j, v)', v.enabled, known[chief][j] = v.edit, ~Expected(j)
            PROVE  v.edit = r.edit \/ x.once = "only"
        <5>1. CASE v = row'[j]
          BY <1>3, <1>4, <5>1
        <5>2. ASSUME NEW d \in Edits, Pending(d, j)', v = request'[d].new
              PROVE  x.once = "only"
          <6>1. v.edit = d
            BY <1>4, <5>2 DEF Pending, RequestsTell, RequestTells
          <6> QED
            BY <3>6, <3>7, <4>1, <5>2, <6>1
        <5> QED
          BY <4>1, <5>1, <5>2 DEF IsVersion
      <4> QED
        BY <1>4, <2>5, <2>8, <3>3, <3>5, <4>1 DEF KnownFits, Fits
    <3>9. KnownPending(j)'
      <4>1. (j \in Live(row))' <=> j \in Live(row)
        BY <1>4 DEF Live
      <4> QED
        BY <1>4, <3>5, <3>7, <4>1 DEF KnownPending
    <3>10. \A d \in Edits : Pending(d, j) =>
             Fits(stored'[j], d) \/ j \in Live(row) \/ stored'[j] = stored[j]
      BY <2>5, <3>6 DEF Fits
    <3>11. KnownElsewhere(j)'
      BY <1>1, <1>4, <2>6, <2>7, <3>2, <3>10, TouchedElsewhere
    <3> QED
      BY <3>4, <3>8, <3>9, <3>11
  <2> QED
    BY <1>4, <2>6, <2>7, <2>10, <2>11, TouchedKeeps
<1> QED
  BY <1>5, <1>6

LEMMA CommitMoves ==
  ASSUME JobTypeOK, RequestsTell, OneWriter, NEW e \in Edits, Commit(e)
  PROVE  /\ request' \in [Edits -> RequestRows] /\ RequestsTell' /\ OneWriter' /\ RequestsGoOn
         /\ request'[e].at = "asking" /\ \A d \in Edits \ {e} : request'[d] = request[d]
<1> DEFINE r == request[e]
<1>1. r \in RequestRows /\ RequestTells(e) /\ r.at = "committing"
  BY DEF JobTypeOK, RequestsTell, Commit
<1>2. PICK q \in RequestRows :
        q = [at |-> "asking", kind |-> "none", server |-> r.server, job |-> r.job,
             was |-> Nowhere, new |-> Nowhere]
  BY <1>1 DEF RequestRows
<1>3. request' = [request EXCEPT ![e] = q]
  <2> DEFINE d == [Fresh EXCEPT !.at = "asking", !.server = r.server]
  <2>1. d = [at |-> "asking", kind |-> "none", server |-> r.server, job |-> Nowhere,
             was |-> Nowhere, new |-> Nowhere]
    <3> DEFINE c == [Fresh EXCEPT !.at = "asking"]
    <3>1. c = [at |-> "asking", kind |-> "none", server |-> Nowhere, job |-> Nowhere,
               was |-> Nowhere, new |-> Nowhere]
      BY DEF Fresh
    <3>2. d = [c EXCEPT !.server = r.server]
      BY <3>1 DEF Fresh
    <3> HIDE DEF c, d
    <3> QED
      BY <3>1, <3>2
  <2>2. [d EXCEPT !.job = r.job] = q
    <3> HIDE DEF d
    <3> QED
      BY <1>2, <2>1
  <2>3. [Fresh EXCEPT !.at = "asking", !.server = r.server, !.job = r.job] = q
    BY <2>1, <2>2 DEF Fresh
  <2> QED
    BY <2>3 DEF Commit
<1>4. request'[e] = q /\ \A d \in Edits \ {e} : request'[d] = request[d]
  BY <1>3 DEF JobTypeOK
<1>5. q.at = "asking" /\ q.kind = "none" /\ q.job = r.job /\ q.new = Nowhere
  BY <1>2
<1>6. RequestTells(e)'
  <2>1. Fresh'.at = "none"
    BY DEF Fresh
  <2> QED
    BY <1>4, <1>5, <2>1 DEF RequestTells
<1>7. ASSUME NEW d \in Edits \ {e}, request[d].kind = "add"
      PROVE  q.job # request[d].job /\ row'[request[d].job] = Nowhere
  <2>1. q.job # request[d].job /\ row[request[d].job] = Nowhere
    BY <1>5, <1>7 DEF RequestsTell, RequestTells
  <2> QED
    BY <1>5, <2>1 DEF Commit, JobTypeOK, Lists
<1>8. /\ \A i \in Jobs : ~Locks(e, i)' /\ ~Pending(e, i)'
      /\ (Settled(e) => Settled(e)') /\ (Told(e) => Told(e)')
  BY <1>1, <1>4, <1>5 DEF Locks, Pending, Settled, Told
<1>9. request' \in [Edits -> RequestRows] /\ RequestsTell' /\ OneWriter' /\ RequestsGoOn
  BY <1>3, <1>6, <1>7, <1>8, RequestMoves
<1> QED
  BY <1>4, <1>5, <1>9

LEMMA CommitKeeps ==
  ASSUME JobInv, NEW e \in Edits, Commit(e) PROVE JobInv'
<1>1. JobTypeOK /\ RequestsTell /\ OneWriter /\ RequestTells(e) /\ ListsRead
  BY DEF JobInv, RequestsTell
<1>2. /\ request' \in [Edits -> RequestRows] /\ RequestsTell' /\ OneWriter' /\ RequestsGoOn
      /\ request'[e].at = "asking" /\ \A d \in Edits \ {e} : request'[d] = request[d]
  BY <1>1, CommitMoves
<1>3. PICK j \in Jobs : j = request[e].job
  BY <1>1 DEF Commit, RequestTells
<1>4. PICK v : v = IF request[e].kind = "delete" THEN Nowhere ELSE request[e].new
  OBVIOUS
<1>5. UNCHANGED <<chief, loading, memory, stored, known, syncing, again, astray, setbacks>>
  BY DEF Commit
<1>6. CASE request[e].kind # "delete" /\ request[e].new = Nowhere
  <2>1. row' = row
    BY <1>6 DEF Commit
  <2> QED
    BY <1>1, <1>2, <1>5, <2>1, RequestsAlone DEF JobTypeOK
<1>7. CASE request[e].kind = "delete" \/ request[e].new # Nowhere
  <2>1. row' = [row EXCEPT ![j] = v] /\ v \in RowsOfJobs \cup {Nowhere}
    BY <1>1, <1>3, <1>4, <1>7 DEF Commit, JobTypeOK, RequestRows
  <2>2. row' \in Lists /\ row'[j] = v /\ \A i \in Jobs \ {j} : row'[i] = row[i]
    BY <1>1, <2>1 DEF JobTypeOK, Lists
  <2>3. JobTypeOK'
    BY <1>1, <1>2, <1>5, <2>2 DEF JobTypeOK
  <2>4. ListsRead'
    BY <1>1, <1>5 DEF ListsRead, Live
  <2>5. v # Nowhere => Pending(e, j) /\ v = request[e].new /\ v.edit = e
    BY <1>1, <1>3, <1>4 DEF Pending, Commit, RequestTells
  <2>6. v # Nowhere => IsVersion(j, v)
    BY <2>5 DEF IsVersion
  <2>7. Locks(e, j)
    BY <1>3, <1>7 DEF Locks, Commit
  <2>8. \A d \in Edits : ~Pending(d, j)'
    <3>1. ASSUME NEW d \in Edits \ {e} PROVE ~Pending(d, j)'
      <4>1. Pending(d, j)' => Locks(d, j)
        BY <1>2, <3>1 DEF Pending, Locks
      <4> QED
        BY <1>1, <2>7, <3>1, <4>1 DEF OneWriter
    <3>2. ~Pending(e, j)'
      BY <1>2 DEF Pending
    <3> QED
      BY <3>1, <3>2
  <2>9. ASSUME NEW i \in Jobs \ {j} PROVE Reconciled(i)'
    <3>1. Reconciled(i)
      BY DEF JobInv
    <3>2. Expected(i) => Expected(i)'
      BY <1>5, <2>2 DEF Expected, Live
    <3>3. /\ row'[i] = row[i] /\ stored'[i] = stored[i] /\ chief' = chief
          /\ \A p \in Servers : memory'[p][i] = memory[p][i] /\ known'[p][i] = known[p][i]
          /\ astray' = astray /\ loading' = loading /\ syncing' = syncing
      BY <1>5, <2>2
    <3> QED
      BY <1>1, <1>2, <2>3, <3>1, <3>2, <3>3, JobKept DEF RequestsTell
  <2>10. Reconciled(j)'
    <3>1. ListsTell(j) /\ EntriesTell(j) /\ KnownIsTold(j) /\ OthersAreEmpty(j)
      BY DEF JobInv, Reconciled
    <3>2. row'[j] # Nowhere => IsVersion(j, row'[j])
      BY <2>2, <2>6
    <3>3. EntriesTell(j)' /\ KnownIsTold(j)'
      BY <1>1, <1>2, <1>5, <2>3, <3>1, <3>2, EntriesGoOn DEF RequestsTell
    <3>4. ListsTell(j)'
      <4>1. PICK b \in RowsOfJobs \cup {Nowhere}, c \in RowsOfJobs \cup {Nowhere} :
              b = loading.list[j] /\ c = syncing.list[j]
        BY <1>1 DEF JobTypeOK, Lists
      <4>2. RowTells(j, b)' /\ RowTells(j, c)'
        BY <1>1, <1>2, <2>3, <3>1, <3>2, <4>1, TellingsGoOn DEF RequestsTell, ListsTell
      <4>3. RowTells(j, v)'
        <5>1. v # Nowhere => Settled(v.edit)'
          BY <1>2, <2>5 DEF Settled
        <5>2. \A w \in RowsOfJobs : IsVersion(j, w)' => w = v
          BY <2>2, <2>8 DEF IsVersion
        <5> QED
          BY <5>1, <5>2 DEF RowTells
      <4> QED
        BY <1>5, <2>2, <4>1, <4>2, <4>3 DEF ListsTell, RowTells
    <3>5. OthersAreEmpty(j)'
      BY <1>5, <3>1 DEF OthersAreEmpty
    <3>6. ASSUME j \notin astray'
          PROVE  AtMostOne(j)' /\ KnownFits(j)' /\ KnownPending(j)' /\ KnownElsewhere(j)'
      <4>1. AtMostOne(j) /\ KnownFits(j)
        BY <1>5, <3>6 DEF JobInv, Reconciled
      <4>2. ASSUME chief # Nowhere, NEW w \in RowsOfJobs, IsVersion(j, w)', w.enabled, known[chief][j] = w.edit
            PROVE  Expected(j)' \/ (Fits(memory[chief][j], w.edit) /\ Fits(stored[j], w.edit))
        <5>1. w = row'[j] /\ row'[j] # Nowhere
          BY <2>8, <4>2 DEF IsVersion
        <5>2. Expected(j) => Expected(j)'
          BY <1>5, <4>2, <5>1 DEF Expected, Live
        <5> QED
          BY <3>2, <4>1, <4>2, <5>1, <5>2 DEF KnownFits
      <4>3. KnownFits(j)'
        BY <1>5, <4>2 DEF KnownFits, Fits
      <4>4. AtMostOne(j)' /\ KnownPending(j)' /\ KnownElsewhere(j)'
        BY <1>5, <2>8, <4>1 DEF AtMostOne, KnownPending, KnownElsewhere
      <4> QED
        BY <4>3, <4>4
    <3> QED
      BY <3>3, <3>4, <3>5, <3>6 DEF Reconciled
  <2> QED
    BY <1>2, <2>3, <2>4, <2>9, <2>10 DEF JobInv, RequestsTell
<1> QED
  BY <1>6, <1>7

LEMMA FireKeeps ==
  ASSUME JobInv, NEW j \in Jobs, Fire(j) PROVE JobInv'
<1>1. JobTypeOK /\ RequestsTell /\ OneWriter /\ Reconciled(j)
  BY DEF JobInv, RequestsTell
<1>2. request' \in [Edits -> RequestRows] /\ RequestsTell' /\ OneWriter' /\ RequestsGoOn
  BY <1>1, RequestsStay DEF Fire
<1>3. chief # Nowhere /\ chief \in Servers
  BY <1>1 DEF Fire, JobTypeOK
<1>4. PICK s \in Schedulers : s = Scheduler /\ s.memory = memory[chief] /\ s.stored = stored
  BY <1>1, <1>3, SchedulerIs
<1>5. PICK k \in InStores(s, j) : s[k][j].once = "only" /\ SchedulerBecomes(With(s, k, j, Nowhere))
  BY <1>4 DEF Fire
<1>6. k \in Stores /\ s[k][j] # Nowhere
  BY DEF InStores
<1>7. /\ With(s, k, j, Nowhere) \in Schedulers
      /\ \A i \in Jobs \ {j} : /\ With(s, k, j, Nowhere).memory[i] = s.memory[i]
                               /\ With(s, k, j, Nowhere).stored[i] = s.stored[i]
      /\ With(s, k, j, Nowhere).memory[j] = IF k = "memory" THEN Nowhere ELSE s.memory[j]
      /\ With(s, k, j, Nowhere).stored[j] = IF k = "stored" THEN Nowhere ELSE s.stored[j]
  BY <1>6, WithIs
<1>8. PICK t \in Schedulers : t = With(s, k, j, Nowhere)
  BY <1>7
<1>9. /\ memory' \in [Servers -> Slots] /\ stored' \in Slots
      /\ memory'[chief] = t.memory /\ stored' = t.stored
      /\ \A p \in Servers \ {chief} : memory'[p] = memory[p]
  BY <1>1, <1>3, <1>5, <1>8, BecomesIs
<1>10. /\ \A i \in Jobs \ {j} : stored'[i] = stored[i] /\ memory'[chief][i] = memory[chief][i]
       /\ memory'[chief][j] = IF k = "memory" THEN Nowhere ELSE memory[chief][j]
       /\ stored'[j] = IF k = "stored" THEN Nowhere ELSE stored[j]
  BY <1>4, <1>7, <1>8, <1>9
<1>11. UNCHANGED <<row, request, chief, loading, known, syncing, again, astray, setbacks>>
  BY DEF Fire
<1>12. Touches(j)
  BY <1>9, <1>10, <1>11 DEF Touches
<1>13. JobTypeOK'
  BY <1>1, <1>2, <1>9, <1>11, <1>12, TouchedIs DEF JobTypeOK
<1>14. EntriesTell(j)' /\ KnownIsTold(j)'
  <2>1. /\ stored'[j] \in {stored[j], Nowhere}
        /\ \A p \in Servers : /\ memory'[p][j] \in {memory[p][j], Nowhere}
                              /\ known'[p][j] \in {known[p][j], Nowhere}
        /\ row'[j] # Nowhere => IsVersion(j, row'[j])
    BY <1>9, <1>10, <1>11 DEF IsVersion
  <2> QED
    BY <1>1, <1>2, <1>13, <2>1, EntriesGoOn DEF RequestsTell, Reconciled
<1>15. ASSUME j \notin astray'
       PROVE  AtMostOne(j)' /\ KnownFits(j)' /\ KnownPending(j)' /\ KnownElsewhere(j)'
  <2>1. /\ AtMostOne(j) /\ KnownFits(j) /\ KnownPending(j) /\ KnownElsewhere(j) /\ KnownIsTold(j)
        /\ EntriesTell(j)
    BY <1>1, <1>11, <1>15 DEF Reconciled
  <2>2. AtMostOne(j)'
    BY <1>10, <1>11, <2>1 DEF AtMostOne
  <2>3. Expected(j)' <=> Expected(j)
    BY <1>11 DEF Expected, Live
  <2>4. \A v \in RowsOfJobs : IsVersion(j, v)' <=> IsVersion(j, v)
    BY <1>11 DEF IsVersion, Pending
  <2>5. \A d \in Edits : (Pending(d, j)' <=> Pending(d, j)) /\ (Pending(d, j) => ~Settled(d))
    BY <1>1, <1>11, PendingIs DEF Pending, RequestsTell
  <2>6. KnownFits(j)'
    BY <1>10, <1>11, <2>1, <2>3, <2>4 DEF KnownFits, Fits
  <2>7. KnownPending(j)'
    <3>1. (k = "memory" => memory[chief][j].once = "only" /\ memory[chief][j] # Nowhere)
          /\ (k = "stored" => stored[j].once = "only" /\ stored[j] # Nowhere)
      BY <1>4, <1>5, <1>6
    <3>2. (k = "memory" => Settled(memory[chief][j].edit)) /\ (k = "stored" => Settled(stored[j].edit))
      BY <1>3, <2>1, <3>1 DEF EntriesTell, EntryTells
    <3>3. (j \in Live(row))' <=> j \in Live(row)
      BY <1>11 DEF Live
    <3>4. ASSUME NEW d \in Edits, Pending(d, j), known[chief][j] = d, ~Expected(j), j \in Live(row)
          PROVE  \/ memory'[chief][j] # Nowhere /\ memory'[chief][j].edit = d
                 \/ stored'[j] # Nowhere /\ stored'[j].edit = d
      <4>1. \/ memory[chief][j] # Nowhere /\ memory[chief][j].edit = d
            \/ stored[j] # Nowhere /\ stored[j].edit = d
        BY <1>3, <2>1, <3>4 DEF KnownPending
      <4> QED
        BY <1>10, <2>5, <3>2, <3>4, <4>1
    <3> QED
      BY <1>11, <2>3, <2>5, <3>3, <3>4 DEF KnownPending
  <2>8. KnownElsewhere(j)'
    <3>1. \A d \in Edits : Fits(stored'[j], d) \/ stored'[j] = stored[j]
      BY <1>10 DEF Fits
    <3> QED
      BY <1>1, <1>2, <1>12, <1>13, <2>1, <3>1, TouchedElsewhere
  <2> QED
    BY <2>2, <2>6, <2>7, <2>8
<1> QED
  BY <1>2, <1>12, <1>13, <1>14, <1>15, TouchedKeeps

-----------------------------------------------------------------------------
(* The steps of the leader.                                                *)

LEMMA GainKeeps ==
  ASSUME JobInv, NEW p \in Servers, Gain(p) PROVE JobInv'
<1>1. JobTypeOK /\ RequestsTell /\ OneWriter /\ ListsRead
  BY DEF JobInv, RequestsTell
<1>2. request' \in [Edits -> RequestRows] /\ RequestsTell' /\ OneWriter' /\ RequestsGoOn
  BY <1>1, RequestsStay DEF Gain
<1>3. PICK l \in Lists : l = NotReading("start").list
  BY NotReadingIs
<1>4. /\ chief = Nowhere /\ chief' = p /\ loading' = [at |-> "start", list |-> l]
      /\ Live(l) = {} /\ \A j \in Jobs : l[j] = Nowhere
      /\ UNCHANGED <<row, request, memory, stored, known, syncing, again, astray, setbacks>>
  BY <1>3, NotReadingIs DEF Gain
<1>5. JobTypeOK'
  BY <1>1, <1>2, <1>4 DEF JobTypeOK
<1>6. ListsRead'
  BY <1>1, <1>4, NowhereElse DEF ListsRead, Live
<1>7. ASSUME NEW j \in Jobs PROVE Reconciled(j)'
  <2>1. ListsTell(j) /\ EntriesTell(j) /\ KnownIsTold(j) /\ OthersAreEmpty(j)
    BY DEF JobInv, Reconciled
  <2>2. ListsTell(j)'
    BY <1>1, <1>2, <1>4, <1>5, <2>1, ListsGoOn DEF RequestsTell
  <2>3. EntriesTell(j)' /\ KnownIsTold(j)'
    <3>1. row'[j] # Nowhere => IsVersion(j, row'[j])
      BY <1>4 DEF IsVersion
    <3> QED
      BY <1>1, <1>2, <1>4, <1>5, <2>1, <3>1, EntriesGoOn DEF RequestsTell
  <2>4. memory[p][j] = Nowhere /\ OthersAreEmpty(j)'
    BY <1>4, <2>1, NowhereElse DEF OthersAreEmpty
  <2>5. ASSUME j \notin astray'
        PROVE  AtMostOne(j)' /\ KnownFits(j)' /\ KnownPending(j)' /\ KnownElsewhere(j)'
    <3>1. KnownElsewhere(j)
      BY <1>4, <2>5 DEF JobInv, Reconciled
    <3>2. AtMostOne(j)'
      BY <1>4, <2>4 DEF AtMostOne
    <3>3. /\ (j \in Live(row))' <=> j \in Live(row)
          /\ (j \in Live(loading.list))' <=> FALSE
          /\ (j \in Live(syncing.list))' <=> j \in Live(syncing.list)
          /\ Expected(j)' <=> j \in Live(row)
      BY <1>4 DEF Live, Expected
    <3>4. ASSUME NEW v \in RowsOfJobs, IsVersion(j, v)', v.enabled, known[p][j] = v.edit, j \notin Live(row)
          PROVE  Fits(stored[j], v.edit)
      <4>1. PICK d \in Edits : Pending(d, j) /\ v = request[d].new
        BY <1>4, <3>4 DEF IsVersion, Pending, Live
      <4>2. v.edit = d
        BY <1>1, <4>1, PendingIs DEF RequestsTell
      <4> QED
        BY <1>4, <3>1, <3>4, <4>1, <4>2, NowhereElse DEF KnownElsewhere
    <3>5. KnownFits(j)'
      BY <1>4, <2>4, <3>3, <3>4 DEF KnownFits, Fits
    <3>6. KnownPending(j)'
      BY <3>3 DEF KnownPending
    <3>7. KnownElsewhere(j)'
      BY <1>4, <3>1, <3>3, NowhereElse DEF KnownElsewhere, Fits, Pending
    <3> QED
      BY <3>2, <3>5, <3>6, <3>7
  <2> QED
    BY <2>2, <2>3, <2>4, <2>5 DEF Reconciled
<1> QED
  BY <1>2, <1>5, <1>6, <1>7 DEF JobInv, RequestsTell

LEMMA LoseKeeps ==
  ASSUME JobInv, Lose PROVE JobInv'
<1>1. JobTypeOK /\ RequestsTell /\ OneWriter /\ ListsRead
  BY DEF JobInv, RequestsTell
<1>2. request' \in [Edits -> RequestRows] /\ RequestsTell' /\ OneWriter' /\ RequestsGoOn
  BY <1>1, RequestsStay DEF Lose
<1>3. PICK l \in Lists : l = NotReading("idle").list
  BY NotReadingIs
<1>4. /\ chief # Nowhere /\ loading.at = "no" /\ chief' = Nowhere
      /\ syncing' = [at |-> "idle", list |-> l] /\ again' = FALSE
      /\ Live(l) = {} /\ \A j \in Jobs : l[j] = Nowhere
      /\ UNCHANGED <<row, request, loading, stored, known, astray>>
  BY <1>3, NotReadingIs DEF Lose
<1>5. chief \in Servers
  BY <1>1, <1>4 DEF JobTypeOK
<1>6. /\ memory' \in [Servers -> Slots]
      /\ \A j \in Jobs : /\ memory'[chief][j] = Nowhere
                         /\ \A p \in Servers \ {chief} : memory'[p][j] = memory[p][j]
  <2>1. memory' = [memory EXCEPT ![chief] = [j \in Jobs |-> Nowhere]]
    BY DEF Lose
  <2>2. [j \in Jobs |-> Nowhere] \in Slots /\ memory \in [Servers -> Slots]
    BY <1>1 DEF Slots, JobTypeOK
  <2> QED
    BY <1>5, <2>1, <2>2
<1>7. setbacks' \in 0..MaxSetbacks
  BY <1>1, JobAssumption DEF Lose, JobTypeOK
<1>8. JobTypeOK'
  BY <1>1, <1>2, <1>4, <1>6, <1>7 DEF JobTypeOK, Slots
<1>9. ListsRead'
  BY <1>1, <1>4 DEF ListsRead, Live
<1>10. ASSUME NEW j \in Jobs PROVE Reconciled(j)'
  <2>1. ListsTell(j) /\ EntriesTell(j) /\ KnownIsTold(j) /\ OthersAreEmpty(j)
    BY DEF JobInv, Reconciled
  <2>2. ListsTell(j)'
    BY <1>1, <1>2, <1>4, <1>8, <2>1, ListsGoOn DEF RequestsTell
  <2>3. EntriesTell(j)' /\ KnownIsTold(j)'
    <3>1. row'[j] # Nowhere => IsVersion(j, row'[j])
      BY <1>4 DEF IsVersion
    <3> QED
      BY <1>1, <1>2, <1>4, <1>6, <1>8, <2>1, <3>1, EntriesGoOn DEF RequestsTell
  <2>4. OthersAreEmpty(j)'
    BY <1>6, <2>1 DEF OthersAreEmpty
  <2>5. ASSUME j \notin astray'
        PROVE  AtMostOne(j)' /\ KnownFits(j)' /\ KnownPending(j)' /\ KnownElsewhere(j)'
    <3>1. KnownElsewhere(j) /\ KnownFits(j)
      BY <1>4, <2>5 DEF JobInv, Reconciled
    <3>2. AtMostOne(j)' /\ KnownFits(j)' /\ KnownPending(j)'
      BY <1>4 DEF AtMostOne, KnownFits, KnownPending
    <3>3. /\ (j \in Live(row))' <=> j \in Live(row)
          /\ (j \in Live(loading.list))' <=> FALSE
          /\ (j \in Live(syncing.list))' <=> FALSE
      BY <1>1, <1>4 DEF Live, ListsRead
    <3>4. ASSUME NEW p \in Servers, NEW e \in Edits, Pending(e, j), request[e].new.enabled, known[p][j] = e
          PROVE  Fits(stored[j], e) \/ j \in Live(row)
      <4>1. CASE p # chief
        BY <3>1, <3>4, <4>1 DEF KnownElsewhere
      <4>2. CASE p = chief
        <5>1. request[e].new \in RowsOfJobs /\ request[e].new.edit = e /\ IsVersion(j, request[e].new)
          BY <1>1, <3>4, PendingIs DEF IsVersion, RequestsTell
        <5>2. ~Expected(j)
          BY <1>4 DEF Expected
        <5> QED
          BY <1>4, <3>1, <3>4, <4>2, <5>1, <5>2 DEF KnownFits
      <4> QED
        BY <4>1, <4>2
    <3>5. KnownElsewhere(j)'
      BY <1>4, <3>3, <3>4 DEF KnownElsewhere, Fits, Pending
    <3> QED
      BY <3>2, <3>5
  <2> QED
    BY <2>2, <2>3, <2>4, <2>5 DEF Reconciled
<1> QED
  BY <1>2, <1>8, <1>9, <1>10 DEF JobInv, RequestsTell

-----------------------------------------------------------------------------
(* The whole scheduler by a list.                                          *)

LEMMA ScheduledIs ==
  ASSUME JobTypeOK, chief # Nowhere, NEW f \in [Jobs -> Schedulers], Scheduled(f)
  PROVE  /\ memory' \in [Servers -> Slots] /\ stored' \in Slots
         /\ \A p \in Servers \ {chief} : memory'[p] = memory[p]
         /\ \A j \in Jobs : memory'[chief][j] = f[j].memory[j] /\ stored'[j] = f[j].stored[j]
<1> DEFINE m == [j \in Jobs |-> f[j].memory[j]]
           s == [j \in Jobs |-> f[j].stored[j]]
<1>1. m \in Slots /\ s \in Slots /\ \A j \in Jobs : m[j] = f[j].memory[j] /\ s[j] = f[j].stored[j]
  BY DEF Schedulers, Slots
<1>2. memory' = [memory EXCEPT ![chief] = m] /\ stored' = s
  BY DEF Scheduled
<1>3. memory \in [Servers -> Slots] /\ chief \in Servers
  BY DEF JobTypeOK, Slots
<1> HIDE DEF m, s
<1> QED
  BY <1>1, <1>2, <1>3

\* A job of the list keeps its entries, loses them or gets the one of the list.
LEMMA ListedTells ==
  ASSUME JobInv, JobTypeOK', RequestsTell', RequestsGoOn, NEW j \in Jobs, UNCHANGED <<row, request, chief>>,
         chief # Nowhere, NEW r \in RowsOfJobs, RowTells(j, r),
         NEW x \in Entries, x.edit = r.edit, x.once = "no",
         \A p \in Servers \ {chief} : memory'[p][j] = memory[p][j] /\ known'[p][j] = known[p][j],
         memory'[chief][j] \in {memory[chief][j], Nowhere} \/ (memory'[chief][j] = x /\ r.store = "memory"),
         stored'[j] \in {stored[j], Nowhere} \/ (stored'[j] = x /\ r.store = "stored"),
         known'[chief][j] = r.edit
  PROVE  EntriesTell(j)' /\ KnownIsTold(j)'
<1>1. JobTypeOK /\ RequestsTell /\ EntriesTell(j) /\ KnownIsTold(j)
  BY DEF JobInv, RequestsTell, Reconciled
<1>2. row'[j] # Nowhere => IsVersion(j, row'[j])
  BY DEF IsVersion
<1>3. /\ \A k \in Stores, y \in Entries \cup {Nowhere} : EntryTells(j, k, y) => EntryTells(j, k, y)'
      /\ RowTells(j, r)'
  BY <1>1, <1>2, TellingsGoOn DEF RequestsTell
<1>4. Told(r.edit)'
  BY <1>3, NowhereElse DEF RowTells, Settled, Told
<1>5. EntryTells(j, r.store, x)'
  BY <1>3, <1>4, NowhereElse DEF EntryTells, RowTells
<1>6. /\ \A k \in Stores : EntryTells(j, k, Nowhere)'
      /\ Stores = {"memory", "stored"}
  BY DEF EntryTells, Stores
<1>7. ASSUME NEW p \in Servers PROVE EntryTells(j, "memory", memory[p][j])'
  <2>1. PICK y \in Entries \cup {Nowhere} : y = memory'[p][j]
    BY DEF JobTypeOK
  <2>2. y = memory[p][j] \/ y = Nowhere \/ (y = x /\ r.store = "memory")
    BY <2>1
  <2>3. EntryTells(j, "memory", y)'
    BY <1>1, <1>3, <1>5, <1>6, <2>2 DEF EntriesTell
  <2> QED
    BY <2>1, <2>3 DEF EntryTells
<1>8. EntryTells(j, "stored", stored[j])'
  <2>1. PICK y \in Entries \cup {Nowhere} : y = stored'[j]
    BY DEF JobTypeOK
  <2>2. EntryTells(j, "stored", y)'
    BY <1>1, <1>3, <1>5, <1>6, <2>1 DEF EntriesTell
  <2> QED
    BY <2>1, <2>2 DEF EntryTells
<1>9. ASSUME NEW p \in Servers, known'[p][j] # Nowhere PROVE Told(known[p][j])'
  <2>1. PICK e \in Times : e = known'[p][j]
    BY <1>9 DEF JobTypeOK
  <2>2. Told(e)'
    <3>1. CASE p = chief
      BY <1>4, <2>1, <3>1
    <3>2. CASE p # chief
      BY <1>1, <1>9, <2>1, <3>2 DEF KnownIsTold, RequestsGoOn
    <3> QED
      BY <3>1, <3>2
  <2> QED
    BY <2>1, <2>2 DEF Told
<1> QED
  BY <1>7, <1>8, <1>9 DEF EntriesTell, KnownIsTold

\* A job with the entry of the list, and no other.
LEMMA ListedFits ==
  ASSUME JobInv, JobTypeOK', NEW j \in Jobs, j \notin astray,
         UNCHANGED <<row, request, chief>>, chief # Nowhere,
         NEW r \in RowsOfJobs, RowTells(j, r), NEW x \in Entries, x.edit = r.edit,
         \A p \in Servers \ {chief} : known'[p][j] = known[p][j],
         memory'[chief][j] = IF r.store = "memory" THEN x ELSE Nowhere,
         stored'[j] = IF r.store = "stored" THEN x ELSE Nowhere,
         known'[chief][j] = r.edit,
         j \in Live(loading.list) \cup Live(syncing.list)
  PROVE  AtMostOne(j)' /\ KnownFits(j)' /\ KnownPending(j)' /\ KnownElsewhere(j)'
<1>1. JobTypeOK /\ RequestsTell /\ KnownElsewhere(j)
  BY DEF JobInv, RequestsTell, Reconciled
<1>2. x # Nowhere /\ r # Nowhere
  BY NowhereElse
<1>3. AtMostOne(j)' /\ KnownFits(j)'
  BY <1>2 DEF AtMostOne, KnownFits, Fits
<1>4. ASSUME NEW e \in Edits, Pending(e, j)' PROVE Pending(e, j) /\ e # r.edit
  <2>1. Pending(e, j)
    BY <1>4 DEF Pending
  <2> QED
    BY <1>1, <1>2, <2>1, PendingIs DEF RowTells, RequestsTell
<1>5. KnownPending(j)'
  BY <1>4 DEF KnownPending
<1>6. KnownElsewhere(j)'
  <2>1. (j \in Live(row))' <=> j \in Live(row)
    BY DEF Live
  <2> QED
    BY <1>1, <1>4, <2>1 DEF KnownElsewhere
<1> QED
  BY <1>3, <1>5, <1>6

LEMMA LoadApplyKeeps ==
  ASSUME JobInv, LoadApply PROVE JobInv'
<1>1. JobTypeOK /\ RequestsTell /\ OneWriter /\ ListsRead
  BY DEF JobInv, RequestsTell
<1>2. request' \in [Edits -> RequestRows] /\ RequestsTell' /\ OneWriter' /\ RequestsGoOn
  BY <1>1, RequestsStay DEF LoadApply
<1>3. PICK l \in Lists : l = NotReading("no").list
  BY NotReadingIs
<1>4. PICK list \in Lists : list = loading.list
  BY <1>1 DEF JobTypeOK
<1>5. /\ loading.at = "read" /\ loading' = [at |-> "no", list |-> l]
      /\ Live(l) = {} /\ \A j \in Jobs : l[j] = Nowhere
      /\ Learned(list, Live(list))
      /\ UNCHANGED <<row, request, chief, syncing, again, astray, setbacks>>
  BY <1>3, <1>4, NotReadingIs DEF LoadApply
<1>6. chief # Nowhere /\ chief \in Servers
  BY <1>1, <1>5 DEF ListsRead, JobTypeOK
<1>7. PICK s \in Schedulers : s = Scheduler /\ s.memory = memory[chief] /\ s.stored = stored
  BY <1>1, <1>6, SchedulerIs
<1>8. \A j \in Live(list) : j \in Jobs /\ list[j] \in RowsOfJobs /\ list[j] # Nowhere
  BY DEF Live, Lists
<1> DEFINE g == [j \in Jobs |-> IF j \in Live(list) THEN Renewed(s, j, list[j]) ELSE s]
<1>9. PICK f \in [Jobs -> Schedulers] : f = g
  BY <1>8, RenewedIs
<1>10. \A j \in Jobs : f[j] = IF j \in Live(list) THEN Renewed(s, j, list[j]) ELSE s
  BY <1>9
<1>11. Scheduled(f)
  BY <1>4, <1>7, <1>9 DEF LoadApply
<1> HIDE DEF g
<1>12. /\ memory' \in [Servers -> Slots] /\ stored' \in Slots
       /\ \A p \in Servers \ {chief} : memory'[p] = memory[p]
       /\ \A j \in Jobs : memory'[chief][j] = f[j].memory[j] /\ stored'[j] = f[j].stored[j]
  BY <1>1, <1>6, <1>11, ScheduledIs
<1>13. /\ known' \in [Servers -> [Jobs -> Times \cup {Nowhere}]]
       /\ \A p \in Servers \ {chief} : known'[p] = known[p]
       /\ \A j \in Jobs : known'[chief][j] = IF j \in Live(list) THEN list[j].edit ELSE known[chief][j]
  <2> DEFINE k == [j \in Jobs |-> IF j \in Live(list) THEN list[j].edit ELSE known[chief][j]]
  <2>1. known' = [known EXCEPT ![chief] = k]
    BY <1>5 DEF Learned
  <2>2. known \in [Servers -> [Jobs -> Times \cup {Nowhere}]] /\ k \in [Jobs -> Times \cup {Nowhere}]
    BY <1>1, <1>6, <1>8 DEF JobTypeOK, RowsOfJobs
  <2>3. \A j \in Jobs : k[j] = IF j \in Live(list) THEN list[j].edit ELSE known[chief][j]
    OBVIOUS
  <2> HIDE DEF k
  <2> QED
    BY <1>6, <2>1, <2>2, <2>3
<1>14. JobTypeOK'
  BY <1>1, <1>2, <1>5, <1>12, <1>13 DEF JobTypeOK, Slots
<1>15. ListsRead'
  BY <1>1, <1>5 DEF ListsRead, Live
<1>16. ASSUME NEW j \in Jobs PROVE Reconciled(j)'
  <2>1. Reconciled(j)
    BY DEF JobInv
  <2>2. CASE j \notin Live(list)
    <3>1. memory'[chief][j] = memory[chief][j] /\ stored'[j] = stored[j] /\ known'[chief][j] = known[chief][j]
      BY <1>7, <1>10, <1>12, <1>13, <2>2
    <3>2. ~Expected(j)
      BY <1>4, <1>5, <2>2 DEF Expected
    <3>3. /\ row'[j] = row[j] /\ chief' = chief /\ astray' = astray /\ syncing' = syncing
          /\ \A p \in Servers : memory'[p][j] = memory[p][j] /\ known'[p][j] = known[p][j]
          /\ loading'.list[j] = Nowhere
      BY <1>5, <1>12, <1>13, <3>1
    <3> QED
      BY <1>1, <1>2, <1>14, <2>1, <3>1, <3>2, <3>3, JobKept DEF RequestsTell
  <2>3. CASE j \in Live(list)
    <3>1. PICK r \in RowsOfJobs : r = list[j]
      BY <1>8, <2>3
    <3>2. RowTells(j, r)
      BY <1>4, <2>1, <3>1 DEF Reconciled, ListsTell
    <3>3. PICK x \in Entries : x = [edit |-> r.edit, once |-> "no"]
      BY DEF RowsOfJobs, Entries
    <3>4. f[j] = Renewed(s, j, r)
      BY <1>10, <2>3, <3>1
    <3>5. /\ \/ s.memory[j] # Nowhere /\ s.stored[j] # Nowhere
             \/ /\ f[j].memory[j] = IF r.store = "memory" THEN x ELSE Nowhere
                /\ f[j].stored[j] = IF r.store = "stored" THEN x ELSE Nowhere
          /\ f[j].memory[j] \in {s.memory[j], Nowhere} \/ (f[j].memory[j] = x /\ r.store = "memory")
          /\ f[j].stored[j] \in {s.stored[j], Nowhere} \/ (f[j].stored[j] = x /\ r.store = "stored")
      BY <3>3, <3>4, RenewedIs
    <3>6. known'[chief][j] = r.edit /\ x.edit = r.edit /\ x.once = "no"
      BY <1>13, <2>3, <3>1, <3>3
    <3>7. \A p \in Servers \ {chief} : memory'[p][j] = memory[p][j] /\ known'[p][j] = known[p][j]
      BY <1>12, <1>13
    <3>8. /\ memory'[chief][j] = f[j].memory[j] /\ stored'[j] = f[j].stored[j]
          /\ s.memory[j] = memory[chief][j] /\ s.stored[j] = stored[j]
      BY <1>7, <1>12
    <3>9. EntriesTell(j)' /\ KnownIsTold(j)'
      BY <1>2, <1>5, <1>6, <1>14, <3>2, <3>5, <3>6, <3>7, <3>8, ListedTells
    <3>10. ListsTell(j)'
      BY <1>1, <1>2, <1>5, <1>14, <2>1, ListsGoOn DEF RequestsTell, Reconciled
    <3>11. OthersAreEmpty(j)'
      BY <1>5, <2>1, <3>7 DEF Reconciled, OthersAreEmpty
    <3>12. ASSUME j \notin astray'
           PROVE  AtMostOne(j)' /\ KnownFits(j)' /\ KnownPending(j)' /\ KnownElsewhere(j)'
      <4>1. j \notin astray /\ (memory[chief][j] = Nowhere \/ stored[j] = Nowhere)
        BY <1>5, <1>6, <2>1, <3>12 DEF Reconciled, AtMostOne
      <4>2. /\ memory'[chief][j] = IF r.store = "memory" THEN x ELSE Nowhere
            /\ stored'[j] = IF r.store = "stored" THEN x ELSE Nowhere
        BY <3>5, <3>8, <4>1
      <4> QED
        BY <1>4, <1>5, <1>6, <1>14, <2>3, <3>2, <3>6, <3>7, <4>1, <4>2, ListedFits
    <3> QED
      BY <3>9, <3>10, <3>11, <3>12 DEF Reconciled
  <2> QED
    BY <2>2, <2>3
<1> QED
  BY <1>2, <1>14, <1>15, <1>16 DEF JobInv, RequestsTell

LEMMA SyncApplyKeeps ==
  ASSUME JobInv, SyncApply PROVE JobInv'
<1>1. JobTypeOK /\ RequestsTell /\ OneWriter /\ ListsRead
  BY DEF JobInv, RequestsTell
<1>2. request' \in [Edits -> RequestRows] /\ RequestsTell' /\ OneWriter' /\ RequestsGoOn
  BY <1>1, RequestsStay DEF SyncApply
<1>3. PICK at \in {"due", "idle"}, l \in Lists :
        /\ syncing' = [at |-> at, list |-> l] /\ Live(l) = {} /\ \A j \in Jobs : l[j] = Nowhere
  <2>1. PICK at \in {"due", "idle"} : at = IF again THEN "due" ELSE "idle"
    OBVIOUS
  <2>2. syncing' = NotReading(at)
    BY <2>1 DEF SyncApply
  <2> QED
    BY <2>2, NotReadingIs
<1>4. PICK list \in Lists : list = syncing.list
  BY <1>1 DEF JobTypeOK
<1>5. syncing.at = "read" /\ again' = FALSE /\ UNCHANGED <<row, request, chief, loading, astray, setbacks>>
  BY DEF SyncApply
<1>6. chief # Nowhere /\ chief \in Servers
  BY <1>1, <1>5 DEF ListsRead, JobTypeOK
<1>7. \A j \in Live(list) : j \in Jobs /\ list[j] \in RowsOfJobs /\ list[j] # Nowhere
  BY DEF Live, Lists
<1> DEFINE g == [j \in Jobs |-> SyncedJob(j, list)]
<1>8. \A j \in Jobs : SyncedJob(j, list) \in Schedulers
  <2>1. ASSUME NEW j \in Jobs PROVE SyncedJob(j, list) \in Schedulers
    <3>1. PICK t : t = SyncedJob(j, list)
      OBVIOUS
    <3>2. t \in Schedulers
      BY <1>1, <1>6, <3>1, SyncedIs
    <3> QED
      BY <3>1, <3>2
  <2> QED
    BY <2>1
<1>9. PICK f \in [Jobs -> Schedulers] : f = g
  BY <1>8
<1>10. \A j \in Jobs : f[j] = SyncedJob(j, list)
  BY <1>9
<1>11. Scheduled(f)
  BY <1>4, <1>9 DEF SyncApply
<1> HIDE DEF g
<1>12. /\ memory' \in [Servers -> Slots] /\ stored' \in Slots
       /\ \A p \in Servers \ {chief} : memory'[p] = memory[p]
       /\ \A j \in Jobs : memory'[chief][j] = f[j].memory[j] /\ stored'[j] = f[j].stored[j]
  BY <1>1, <1>6, <1>11, ScheduledIs
<1>13. /\ known' \in [Servers -> [Jobs -> Times \cup {Nowhere}]]
       /\ \A p \in Servers \ {chief} : known'[p] = known[p]
       /\ \A j \in Jobs : known'[chief][j] =
            IF j \in Live(list) THEN list[j].edit
            ELSE IF InStores(Scheduler, j) # {} THEN Nowhere ELSE known[chief][j]
  <2> DEFINE k == [j \in Jobs |-> IF j \in Live(list) THEN list[j].edit
                                  ELSE IF InStores(Scheduler, j) # {} THEN Nowhere ELSE known[chief][j]]
  <2>1. known' = [known EXCEPT ![chief] = k]
    BY <1>4 DEF SyncApply
  <2>2. known \in [Servers -> [Jobs -> Times \cup {Nowhere}]] /\ k \in [Jobs -> Times \cup {Nowhere}]
    BY <1>1, <1>6, <1>7 DEF JobTypeOK, RowsOfJobs
  <2>3. \A j \in Jobs : k[j] = IF j \in Live(list) THEN list[j].edit
                               ELSE IF InStores(Scheduler, j) # {} THEN Nowhere ELSE known[chief][j]
    OBVIOUS
  <2> HIDE DEF k
  <2> QED
    BY <1>6, <2>1, <2>2, <2>3
<1>14. JobTypeOK'
  BY <1>1, <1>2, <1>3, <1>5, <1>12, <1>13 DEF JobTypeOK, Slots
<1>15. ListsRead'
  BY <1>1, <1>3, <1>5, <1>6 DEF ListsRead, Live
<1>16. ASSUME NEW j \in Jobs PROVE Reconciled(j)'
  <2>1. Reconciled(j)
    BY DEF JobInv
  <2>2. PICK t \in Schedulers : t = SyncedJob(j, list)
    BY <1>8
  <2>3. /\ memory'[chief][j] = t.memory[j] /\ stored'[j] = t.stored[j] /\ row'[j] = row[j]
        /\ \A p \in Servers \ {chief} : memory'[p][j] = memory[p][j] /\ known'[p][j] = known[p][j]
    BY <1>5, <1>10, <1>12, <1>13, <2>2
  <2>4. ListsTell(j)'
    BY <1>1, <1>2, <1>3, <1>5, <1>14, <2>1, <2>3, ListsGoOn DEF RequestsTell, Reconciled
  <2>5. OthersAreEmpty(j)'
    BY <1>5, <2>1, <2>3 DEF Reconciled, OthersAreEmpty
  <2>6. row'[j] # Nowhere => IsVersion(j, row'[j])
    BY <2>3 DEF IsVersion
  <2>7. CASE j \notin Live(list)
    <3>1. /\ t.memory[j] \in {memory[chief][j], Nowhere} /\ t.stored[j] \in {stored[j], Nowhere}
          /\ (memory[chief][j] = Nowhere \/ stored[j] = Nowhere) => t.memory[j] = Nowhere /\ t.stored[j] = Nowhere
      BY <1>1, <1>6, <2>2, <2>7, SyncedIs
    <3>2. \/ known'[chief][j] = Nowhere
          \/ /\ known'[chief][j] = known[chief][j]
             /\ memory[chief][j] = Nowhere /\ stored[j] = Nowhere
      BY <1>1, <1>6, <1>13, <2>7, SchedulerIs, StoresAre
    <3>3. EntriesTell(j)' /\ KnownIsTold(j)'
      <4>1. \A p \in Servers : /\ memory'[p][j] \in {memory[p][j], Nowhere}
                               /\ known'[p][j] \in {known[p][j], Nowhere}
        BY <2>3, <3>1, <3>2
      <4> QED
        BY <1>1, <1>2, <1>14, <2>1, <2>3, <2>6, <3>1, <4>1, EntriesGoOn DEF RequestsTell, Reconciled
    <3>4. ASSUME j \notin astray'
          PROVE  AtMostOne(j)' /\ KnownFits(j)' /\ KnownPending(j)' /\ KnownElsewhere(j)'
      <4>1. AtMostOne(j) /\ KnownFits(j) /\ KnownPending(j) /\ KnownElsewhere(j)
        BY <1>5, <2>1, <3>4 DEF Reconciled
      <4>2. memory'[chief][j] = Nowhere /\ stored'[j] = Nowhere
        BY <1>6, <2>3, <3>1, <4>1 DEF AtMostOne
      <4>3. AtMostOne(j)' /\ KnownFits(j)'
        BY <1>5, <4>2 DEF AtMostOne, KnownFits, Fits
      <4>4. /\ (j \in Live(row))' <=> j \in Live(row)
            /\ (j \in Live(loading.list))' <=> j \in Live(loading.list)
            /\ (j \in Live(syncing.list))' <=> FALSE
            /\ Expected(j)' <=> Expected(j)
        BY <1>3, <1>5 DEF Live, Expected
      <4>5. KnownPending(j)'
        <5>1. \A e \in Edits : e # Nowhere /\ (Pending(e, j)' <=> Pending(e, j))
          BY <1>5, NowhereElse DEF Edits, Pending
        <5> QED
          BY <1>5, <1>6, <3>2, <4>1, <4>4, <5>1 DEF KnownPending
      <4>6. KnownElsewhere(j)'
        BY <1>5, <2>3, <4>1, <4>2, <4>4 DEF KnownElsewhere, Fits, Pending
      <4> QED
        BY <4>3, <4>5, <4>6
    <3> QED
      BY <2>4, <2>5, <3>3, <3>4 DEF Reconciled
  <2>8. CASE j \in Live(list)
    <3>1. PICK r \in RowsOfJobs : r = list[j]
      BY <1>7, <2>8
    <3>2. RowTells(j, r)
      BY <1>4, <2>1, <3>1 DEF Reconciled, ListsTell
    <3>3. PICK x \in Entries : x = [edit |-> r.edit, once |-> "no"]
      BY DEF RowsOfJobs, Entries
    <3>4. known'[chief][j] = r.edit /\ x.edit = r.edit /\ x.once = "no"
      BY <1>13, <2>8, <3>1, <3>3
    <3>5. /\ t.memory[j] \in {memory[chief][j], Nowhere} \/ (t.memory[j] = x /\ r.store = "memory")
          /\ t.stored[j] \in {stored[j], Nowhere} \/ (t.stored[j] = x /\ r.store = "stored")
          /\ (memory[chief][j] = Nowhere \/ stored[j] = Nowhere) =>
               \/ /\ known[chief][j] = r.edit
                  /\ t.memory[j] = memory[chief][j] /\ t.stored[j] = stored[j]
               \/ /\ t.memory[j] = IF r.store = "memory" THEN x ELSE Nowhere
                  /\ t.stored[j] = IF r.store = "stored" THEN x ELSE Nowhere
      BY <1>1, <1>6, <2>2, <2>8, <3>1, <3>3, SyncedIs
    <3>6. EntriesTell(j)' /\ KnownIsTold(j)'
      BY <1>2, <1>5, <1>6, <1>14, <2>3, <3>2, <3>4, <3>5, ListedTells
    <3>7. CASE j \in astray
      BY <1>5, <2>4, <2>5, <3>6, <3>7 DEF Reconciled
    <3>8. CASE j \notin astray
      <4>1. memory[chief][j] = Nowhere \/ stored[j] = Nowhere
        BY <1>6, <2>1, <3>8 DEF Reconciled, AtMostOne
      <4>2. CASE /\ known[chief][j] = r.edit
                 /\ t.memory[j] = memory[chief][j] /\ t.stored[j] = stored[j]
        <5>1. /\ stored'[j] = stored[j] /\ chief' = chief /\ astray' = astray
              /\ loading' = loading /\ syncing'.list[j] = Nowhere
              /\ \A p \in Servers : memory'[p][j] = memory[p][j] /\ known'[p][j] = known[p][j]
          BY <1>3, <1>5, <2>3, <3>4, <4>2
        <5>2. Expected(j) => Expected(j)'
          BY <1>5 DEF Expected, Live
        <5> QED
          BY <1>1, <1>2, <1>14, <2>1, <2>3, <5>1, <5>2, JobKept DEF RequestsTell
      <4>3. CASE /\ t.memory[j] = IF r.store = "memory" THEN x ELSE Nowhere
                 /\ t.stored[j] = IF r.store = "stored" THEN x ELSE Nowhere
        <5>1. AtMostOne(j)' /\ KnownFits(j)' /\ KnownPending(j)' /\ KnownElsewhere(j)'
          BY <1>4, <1>5, <1>6, <1>14, <2>3, <2>8, <3>2, <3>4, <3>8, <4>3, ListedFits
        <5> QED
          BY <2>4, <2>5, <3>6, <5>1 DEF Reconciled
      <4> QED
        BY <3>5, <4>1, <4>2, <4>3
    <3> QED
      BY <3>7, <3>8
  <2> QED
    BY <2>7, <2>8
<1> QED
  BY <1>2, <1>14, <1>15, <1>16 DEF JobInv, RequestsTell

LEMMA JobInitMeansJobInv == JobInit => JobInv
<1> SUFFICES ASSUME JobInit PROVE JobInv
  OBVIOUS
<1>1. chief \in Servers /\ chief # Nowhere
  BY JobAssumption DEF JobInit
<1>2. /\ 0 \in Times /\ \A e \in Edits : e # 0
      /\ Nowhere \notin RowsOfJobs /\ Nowhere \notin Entries /\ Nowhere \notin Times
  BY JobAssumption, NowhereElse DEF Times, Edits
<1>3. /\ row \in Lists /\ \A j \in Jobs : row[j] # Nowhere => row[j] \in RowsOfJobs /\ row[j].edit = 0
  BY <1>2 DEF JobInit, Lists, RowsOfJobs
<1>4. \A e \in Edits : request[e] = Fresh
  BY DEF JobInit
<1>5. Fresh \in RequestRows /\ Fresh.at = "none" /\ Fresh.new = Nowhere /\ Fresh.kind = "none"
  BY DEF Fresh, RequestRows
<1>6. PICK l \in Lists : l = NotReading("no").list /\ l = NotReading("idle").list
  BY DEF NotReading, Lists
<1>7. /\ loading = [at |-> "no", list |-> l] /\ syncing = [at |-> "idle", list |-> l]
      /\ Live(l) = {} /\ \A j \in Jobs : l[j] = Nowhere
  <2>1. /\ NotReading("no") = [at |-> "no", list |-> l] /\ Live(NotReading("no").list) = {}
        /\ \A j \in Jobs : NotReading("no").list[j] = Nowhere
    BY <1>6, NotReadingIs
  <2>2. NotReading("idle") = [at |-> "idle", list |-> l]
    BY <1>6, NotReadingIs
  <2> QED
    BY <1>6, <2>1, <2>2 DEF JobInit
<1>8. PICK x \in Entries : x = [edit |-> 0, once |-> "no"]
  BY <1>2 DEF Entries
<1>9. \A k \in Stores, j \in Jobs :
        Loaded(k, j) = IF j \in Live(row) /\ row[j].store = k THEN x ELSE Nowhere
  BY <1>8 DEF Loaded
<1>10. /\ memory = [p \in Servers |-> [j \in Jobs |-> IF p = chief THEN Loaded("memory", j) ELSE Nowhere]]
       /\ stored = [j \in Jobs |-> Loaded("stored", j)]
       /\ known = [p \in Servers |-> [j \in Jobs |-> IF p = chief /\ j \in Live(row) THEN 0 ELSE Nowhere]]
       /\ request = [e \in Edits |-> Fresh] /\ again = FALSE /\ astray = {} /\ setbacks = 0
  BY DEF JobInit
<1>11. \A j \in Jobs : /\ Loaded("memory", j) \in Entries \cup {Nowhere}
                       /\ Loaded("stored", j) \in Entries \cup {Nowhere}
  BY <1>9 DEF Stores
<1>12. JobTypeOK
  <2>1. memory \in [Servers -> [Jobs -> Entries \cup {Nowhere}]]
    BY <1>10, <1>11
  <2>2. stored \in [Jobs -> Entries \cup {Nowhere}]
    BY <1>10, <1>11
  <2>3. known \in [Servers -> [Jobs -> Times \cup {Nowhere}]]
    BY <1>2, <1>10
  <2>4. request \in [Edits -> RequestRows]
    BY <1>5, <1>10
  <2>5. setbacks \in 0..MaxSetbacks
    BY <1>10, JobAssumption
  <2> QED
    BY <1>1, <1>3, <1>7, <1>10, <2>1, <2>2, <2>3, <2>4, <2>5 DEF JobTypeOK
<1>13. \A e \in Edits : RequestTells(e)
  BY <1>4, <1>5 DEF RequestTells
<1>14. OneWriter /\ \A e \in Edits, j \in Jobs : ~Pending(e, j)
  BY <1>4, <1>5 DEF OneWriter, Locks, Pending
<1>15. ListsRead
  BY <1>1, <1>7 DEF ListsRead
<1>16. ASSUME NEW j \in Jobs PROVE Reconciled(j)
  <2>1. memory[chief][j] = Loaded("memory", j) /\ stored[j] = Loaded("stored", j)
        /\ \A p \in Servers \ {chief} : memory[p][j] = Nowhere
    BY <1>1, <1>10
  <2>2. /\ memory[chief][j] = IF j \in Live(row) /\ row[j].store = "memory" THEN x ELSE Nowhere
        /\ stored[j] = IF j \in Live(row) /\ row[j].store = "stored" THEN x ELSE Nowhere
    BY <1>9, <2>1 DEF Stores
  <2>3. \A p \in Servers : known[p][j] \in {0, Nowhere}
    BY <1>10
  <2>4. \A v \in RowsOfJobs : IsVersion(j, v) => v = row[j]
    BY <1>14 DEF IsVersion
  <2>5. x.edit = 0 /\ x.once = "no" /\ Told(0) /\ Settled(0)
    BY <1>8 DEF Told, Settled
  <2>6. ListsTell(j)
    BY <1>3, <1>7, <2>4, <2>5 DEF ListsTell, RowTells
  <2>7. EntriesTell(j)
    <3>1. EntryTells(j, "memory", memory[chief][j]) /\ EntryTells(j, "stored", stored[j])
      BY <2>2, <2>4, <2>5 DEF EntryTells
    <3>2. \A p \in Servers \ {chief} : EntryTells(j, "memory", memory[p][j])
      BY <2>1 DEF EntryTells
    <3> QED
      BY <3>1, <3>2 DEF EntriesTell
  <2>8. KnownIsTold(j) /\ OthersAreEmpty(j)
    BY <2>1, <2>3, <2>5 DEF KnownIsTold, OthersAreEmpty
  <2>9. AtMostOne(j)
    BY <2>2 DEF AtMostOne
  <2>10. KnownFits(j)
    BY <1>1, <1>2, <1>3, <2>2, <2>4, <2>5 DEF KnownFits, Fits, IsVersion
  <2>11. KnownPending(j) /\ KnownElsewhere(j)
    BY <1>14 DEF KnownPending, KnownElsewhere
  <2> QED
    BY <2>6, <2>7, <2>8, <2>9, <2>10, <2>11 DEF Reconciled
<1> QED
  BY <1>12, <1>13, <1>14, <1>15, <1>16 DEF JobInv

LEMMA StutterKeeps ==
  ASSUME JobInv, UNCHANGED jobVars PROVE JobInv'
<1>1. JobTypeOK /\ RequestsTell /\ OneWriter
  BY DEF JobInv, RequestsTell
<1>2. UNCHANGED <<row, request, chief, loading, memory, stored, known, syncing, again, astray, setbacks>>
  BY DEF jobVars
<1>3. request' \in [Edits -> RequestRows] /\ RequestsTell' /\ OneWriter' /\ RequestsGoOn
  BY <1>1, <1>2, RequestsStay
<1> QED
  BY <1>1, <1>2, <1>3, RequestsAlone DEF JobTypeOK

LEMMA JobNextKeepsJobInv == JobInv /\ [JobNext]_jobVars => JobInv'
<1> SUFFICES ASSUME JobInv, [JobNext]_jobVars PROVE JobInv'
  OBVIOUS
<1>1. ASSUME NEW e \in Edits, Open(e) PROVE JobInv'
  BY <1>1, OpenKeeps
<1>2. ASSUME NEW e \in Edits, RequestStep(e) PROVE JobInv'
  BY <1>2, WriteKeeps, AddKeeps, OnceRemoveKeeps, OnceAddKeeps, CommitKeeps, AskKeeps DEF RequestStep
<1>3. ASSUME NEW e \in Edits, CommitFails(e) PROVE JobInv'
  BY <1>3, CommitFailsKeeps
<1>4. CASE Lead
  BY <1>4, GainKeeps, LoadReadKeeps, LoadApplyKeeps DEF Lead
<1>5. CASE Tick
  BY <1>5, TickKeeps
<1>6. CASE SyncRead
  BY <1>6, SyncReadKeeps
<1>7. CASE SyncApply
  BY <1>7, SyncApplyKeeps
<1>8. CASE Lose
  BY <1>8, LoseKeeps
<1>9. ASSUME NEW j \in Jobs, Fire(j) PROVE JobInv'
  BY <1>9, FireKeeps
<1>10. CASE UNCHANGED jobVars
  BY <1>10, StutterKeeps
<1> QED
  BY <1>1, <1>2, <1>3, <1>4, <1>5, <1>6, <1>7, <1>8, <1>9, <1>10 DEF JobNext

\* Whatever requests, failed commits and terms of the leadership came before, the
\* next comparison of the leader's scheduler with sys_job leaves the enabled jobs
\* of the table and no others, and no job is in two job stores.
THEOREM SchedulerIsSafe == JobSpec => []SchedulerSafe
<1>1. JobInit => JobInv
  BY JobInitMeansJobInv
<1>2. JobInv /\ [JobNext]_jobVars => JobInv'
  BY JobNextKeepsJobInv
<1>3. JobInv => SchedulerSafe
  BY InvMeansSchedulerSafe
<1> QED
  BY <1>1, <1>2, <1>3, PTL DEF JobSpec

=============================================================================
