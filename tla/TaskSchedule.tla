---------------------------- MODULE TaskSchedule ----------------------------
(***************************************************************************)
(* The schedule of one task: its baseline and present plan, the append-only*)
(* history sg_task_schedule_change, and the requests of people who work    *)
(* from a page, lose answers and send again.  Every operation locks the    *)
(* project and the task for one transaction and is one step.               *)
(***************************************************************************)
EXTENDS Naturals, Sequences, FiniteSets

CONSTANTS
  Plans,        \* planned periods, [start, end]
  Unplanned,    \* no plan; also "leaves the plan alone" in an adjustment
  Dialogs,      \* schedule dialogs, each with its idempotency key
  Adjustments,  \* adjustment dialogs; their requests have no key
  MaxVersion,   \* bound: lock version of the task
  MaxWire       \* bound: requests under way

ASSUME ScheduleAssumption ==
  Unplanned \notin Plans /\ Dialogs \cap Adjustments = {} /\ MaxVersion \in Nat

VARIABLES
  phase,     \* sg_task.task_status
  version,   \* sg_task.lock_version
  plan,      \* expected_start_time, expected_end_time
  baseline,  \* baseline_start_time, baseline_end_time
  archived,  \* sg_project.project_status = 'archived', which is final
  sending,   \* the task has a version submission that is not committed
  changes,   \* sg_task_schedule_change of the task
  dialog,    \* what each dialog's page shows and will send
  wire,      \* requests that a server has not handled yet
  answer     \* the server's last answer to each dialog

scheduleVars == <<phase, version, plan, baseline, archived, sending, changes, dialog, wire, answer>>

SCHEDULE_MUTABLE_STATUSES == {"not_started", "preparing", "in_progress", "pending_review", "revision"}
NotOpen == [plan |-> Unplanned, version |-> MaxVersion + 1]
Command(d) == [from |-> d, plan |-> dialog[d].plan, version |-> dialog[d].version]

ScheduleInit ==
  /\ phase = "not_started" /\ version = 0
  /\ plan = Unplanned /\ baseline = Unplanned
  /\ archived = FALSE /\ sending = FALSE /\ changes = <<>>
  /\ dialog = [d \in Dialogs \cup Adjustments |-> NotOpen]
  /\ wire = {} /\ answer = [d \in Dialogs |-> [what |-> "none", plan |-> Unplanned]]

-----------------------------------------------------------------------------
(* People.  A schedule dialog keeps its key while it is open: a save that  *)
(* got no answer is sent again, also with another plan or after a refresh. *)

OpenDialog(d, p) ==
  /\ d \in Dialogs => p # Unplanned
  /\ dialog[d] = NotOpen
  /\ dialog' = [dialog EXCEPT ![d] = [plan |-> p, version |-> version]]
  /\ UNCHANGED <<phase, version, plan, baseline, archived, sending, changes, wire, answer>>

ChangeDialog(d, p) ==
  /\ dialog[d] # NotOpen /\ dialog[d].plan # p
  /\ dialog' = [dialog EXCEPT ![d].plan = p]
  /\ UNCHANGED <<phase, version, plan, baseline, archived, sending, changes, wire, answer>>

\* useScheduleMutation: only a refusal for the lock version takes the new one.
RefreshDialog(d) ==
  /\ answer[d].what = "stale"
  /\ dialog[d].version < version
  /\ dialog' = [dialog EXCEPT ![d].version = version]
  /\ UNCHANGED <<phase, version, plan, baseline, archived, sending, changes, wire, answer>>

Send(d) ==
  /\ dialog[d] # NotOpen
  /\ Command(d) \notin wire /\ Cardinality(wire) < MaxWire
  /\ wire' = wire \cup {Command(d)}
  /\ UNCHANGED <<phase, version, plan, baseline, archived, sending, changes, dialog, answer>>

-----------------------------------------------------------------------------
(* The server.                                                             *)

Firsts(p) == IF baseline = Unplanned THEN p ELSE baseline
Row(m, to) == [request |-> m, from |-> plan, to |-> to, before |-> version, after |-> version + 1]
Previous(d) == {i \in DOMAIN changes : changes[i].request.from = d}
Answered(m, what) ==
  /\ answer' = [answer EXCEPT ![m.from] = [what |-> what, plan |-> m.plan]]
  /\ wire' = wire \ {m}

Acceptable(m) == phase \in SCHEDULE_MUTABLE_STATUSES /\ m.version = version

KnownAfterTheLock(m) == Acceptable(m) /\ Previous(m.from) # {}
Known(m) == Previous(m.from) # {}

\* update_schedule: a known key is answered from its row before the status
\* and the lock version are looked at.
Replay(m) ==
  /\ Known(m)
  /\ \E i \in Previous(m.from) :
       Answered(m, IF changes[i].request = m THEN "done" ELSE "conflict")
  /\ UNCHANGED <<phase, version, plan, baseline, archived, sending, changes, dialog>>


Reschedule(m) ==
  /\ ~Known(m)
  /\ Acceptable(m) /\ m.plan # plan /\ version < MaxVersion
  /\ baseline' = Firsts(m.plan) /\ plan' = m.plan
  /\ version' = version + 1
  /\ changes' = Append(changes, Row(m, m.plan))
  /\ Answered(m, "done")
  /\ UNCHANGED <<phase, archived, sending, dialog>>

Refuse(m) ==
  /\ ~Known(m)
  /\ ~Acceptable(m) \/ m.plan = plan
  /\ Answered(m, IF phase \in SCHEDULE_MUTABLE_STATUSES /\ m.version # version
                 THEN "stale" ELSE "refused")
  /\ UNCHANGED <<phase, version, plan, baseline, archived, sending, changes, dialog>>

\* An archived project is read-only, also for the repetition of a request.
ReadOnly(m) ==
  /\ Answered(m, "closed")
  /\ UNCHANGED <<phase, version, plan, baseline, archived, sending, changes, dialog>>

\* adjust, for a shot (in_progress only) or an asset item.  There is no key: a
\* delay or a second request differs in nothing from a page that is old.
Adjustable == {"not_started", "in_progress", "revision"}
Adjust(d) ==
  LET m == Command(d)
      to == IF m.plan = Unplanned THEN plan ELSE m.plan IN
  /\ phase \in Adjustable /\ m.version = version /\ ~sending
  /\ version < MaxVersion
  /\ version' = version + 1 /\ plan' = to
  /\ baseline' = IF m.plan = Unplanned THEN baseline ELSE Firsts(to)
  /\ changes' = IF to = plan THEN changes ELSE Append(changes, Row(m, to))
  /\ UNCHANGED <<phase, archived, sending, dialog, wire, answer>>

-----------------------------------------------------------------------------
(* The rest of the task's life, as far as the schedule depends on it.      *)

MoveOn(from, to) ==
  /\ phase \in from /\ phase' = to
  /\ version < MaxVersion /\ version' = version + 1
  /\ UNCHANGED <<plan, baseline, archived, changes, dialog, wire, answer>>

\* update_task, assign, a renamed item: what may change before work begins.
EditTask == MoveOn({"not_started"}, phase) /\ UNCHANGED sending

TransferRevision == ~sending /\ MoveOn({"revision"}, phase) /\ UNCHANGED sending

\* update_asset: a new name renames the tasks of the asset in whatever phase.
RenameAsset == MoveOn(SCHEDULE_MUTABLE_STATUSES \cup {"completed"}, phase) /\ UNCHANGED sending

StartTask ==
  /\ plan # Unplanned /\ baseline # Unplanned
  /\ \E to \in {"preparing", "in_progress"} : MoveOn({"not_started"}, to)
  /\ UNCHANGED sending

DirectoryReady == MoveOn({"preparing"}, "in_progress") /\ UNCHANGED sending

\* A submission that fails stays unresolved until its retry is committed.
Submit ==
  /\ phase \in {"in_progress", "revision"} /\ ~sending
  /\ sending' = TRUE
  /\ UNCHANGED <<phase, version, plan, baseline, archived, changes, dialog, wire, answer>>

CommitVersion ==
  /\ sending /\ sending' = FALSE
  /\ MoveOn({"in_progress", "revision"}, "pending_review")

ReviewEnds == \E to \in {"revision", "completed"} : MoveOn({"pending_review"}, to) /\ UNCHANGED sending
OpenAgain == MoveOn({"completed"}, "pending_review") /\ UNCHANGED sending

Archive ==
  /\ archived' = TRUE
  /\ UNCHANGED <<phase, version, plan, baseline, sending, changes, dialog, wire, answer>>

Server(m) ==
  \/ archived /\ ReadOnly(m)
  \/ ~archived /\ (Replay(m) \/ Reschedule(m) \/ Refuse(m))

\* In an archived project what was sent can only be sent again.
People ==
  \/ ~archived /\ \E d \in Dialogs \cup Adjustments, p \in Plans \cup {Unplanned} : OpenDialog(d, p)
  \/ ~archived /\ \E d \in Dialogs : RefreshDialog(d) \/ \E p \in Plans : ChangeDialog(d, p)
  \/ \E d \in Dialogs : Send(d)

ScheduleNext ==
  \/ People
  \/ \E m \in wire : Server(m)
  \/ ~archived /\ \E d \in Adjustments : Adjust(d)
  \/ ~archived /\ (\/ EditTask \/ TransferRevision \/ RenameAsset
                   \/ StartTask \/ Submit \/ CommitVersion
                   \/ ReviewEnds \/ OpenAgain \/ Archive)
  \/ DirectoryReady

ScheduleSpec == ScheduleInit /\ [][ScheduleNext]_scheduleVars

-----------------------------------------------------------------------------
(* Properties.                                                             *)

PlansOrNone == Plans \cup {Unplanned}
Versions == 0..MaxVersion
Requests == [from : Dialogs \cup Adjustments, plan : PlansOrNone, version : Versions]
Rows == [request : Requests, from : PlansOrNone, to : Plans, before : Versions, after : Versions]

\* The values of each variable; only an adjustment may leave the plan alone,
\* and what is under way came from a schedule dialog.
ScheduleTypeOK ==
  /\ phase \in SCHEDULE_MUTABLE_STATUSES \cup {"completed"}
  /\ version \in Versions
  /\ plan \in PlansOrNone /\ baseline \in PlansOrNone
  /\ archived \in BOOLEAN /\ sending \in BOOLEAN
  /\ changes \in Seq(Rows)
  /\ DOMAIN dialog = Dialogs \cup Adjustments
  /\ \A d \in Dialogs : dialog[d] \in {NotOpen} \cup [plan : Plans, version : Versions]
  /\ \A d \in Adjustments : dialog[d] \in {NotOpen} \cup [plan : PlansOrNone, version : Versions]
  /\ wire \subseteq [from : Dialogs, plan : Plans, version : Versions]
  /\ answer \in [Dialogs -> [what : {"none", "done", "conflict", "stale", "refused", "closed"},
                             plan : PlansOrNone]]

\* The history is a complete account: its rows join, the first is the
\* baseline, which later changes leave alone, and the last is the present
\* plan; the lock versions of the rows never overlap.
HistoryExplainsSchedule ==
  /\ \A i \in DOMAIN changes :
       /\ changes[i].from = IF i = 1 THEN Unplanned ELSE changes[i - 1].to
       /\ changes[i].from # changes[i].to
       /\ i > 1 => changes[i - 1].after <= changes[i].before
  /\ baseline = IF changes = <<>> THEN Unplanned ELSE changes[1].to
  /\ plan = IF changes = <<>> THEN Unplanned ELSE changes[Len(changes)].to

\* However often a schedule dialog is sent, answers get lost and others work
\* in between: one key changes the schedule at most once.
KeysApplyOnce ==
  \A i, j \in DOMAIN changes :
    changes[i].request.from = changes[j].request.from /\ changes[i].request.from \in Dialogs => i = j

\* A dialog that was told of success finds its plan in the history, one that
\* was told to refresh or was refused has changed nothing, whatever requests
\* of it the server handled before.
AnswersTellTheTruth ==
  \A d \in Dialogs :
    /\ answer[d].what = "done" => \E i \in Previous(d) : changes[i].to = answer[d].plan
    /\ answer[d].what \in {"stale", "refused"} => Previous(d) = {}

\* Work never begins without a plan, and a started task keeps one.
StartedIsPlanned == phase # "not_started" => plan # Unplanned /\ baseline # Unplanned

\* The schedule is told: the history explains it, keys apply once, answers
\* are true, and what is started is planned.
ScheduleTold ==
  /\ ScheduleTypeOK
  /\ HistoryExplainsSchedule
  /\ KeysApplyOnce
  /\ AnswersTellTheTruth
  /\ StartedIsPlanned
=============================================================================
