----------------------------- MODULE ReviewCycle -----------------------------
(***************************************************************************)
(* The review of one task over its versions (rounds): drafts of issues,    *)
(* the decision that publishes or refuses them, issues carried from round  *)
(* to round with the producer's answers, and reopening.  Every operation   *)
(* of the service holds the project, task and version rows for one         *)
(* transaction and is one step; what goes stale is what a person saw       *)
(* before it: a director's page and the producer's preflight.              *)
(***************************************************************************)
EXTENDS Naturals, Sequences, FiniteSets, SequencesExt

CONSTANTS
  Directors,   \* the directors of the project, each with one open page
  MaxRounds,   \* bound: versions of the task
  MaxFiles,    \* bound: candidates of all versions together
  MaxIssues,   \* bound: issues and drafts
  MaxReviews   \* bound: review cycles of one version

ASSUME ReviewAssumption == {MaxRounds, MaxFiles, MaxIssues, MaxReviews} \subseteq Nat \ {0}

VARIABLES
  stage,    \* sg_task.task_status, from the first day of production on
  rounds,   \* sg_version of the task, with its review list and its review cycles
  notes,    \* sg_note: the published issues
  drafts,   \* sg_review_issue_draft
  upload,   \* the unresolved version submission with its answers to issues
  form,     \* what the producer's last preflight returned
  page      \* what each director's page shows

reviewVars == <<stage, rounds, notes, drafts, upload, form, page>>

IssueIds == 1..MaxIssues
NoUpload == [mode |-> "none", round |-> 0, files |-> 0, answers |-> {}]
NoForm == [mode |-> "none", round |-> 0, issues |-> {}, answers |-> {}]
NoPage == [round |-> 0, cycle |-> 0, fresh |-> FALSE, drafts |-> {}, carried |-> {}]

Latest == Len(rounds)
InReview(v) == stage = "pending_review" /\ rounds[v].status = "pending_review"
OpenIssues == {n \in DOMAIN notes : notes[n].status = "open"}
OwnIssues(v) == {n \in OpenIssues : notes[n].round = v}
DraftsOf(v) == {x \in drafts : x.round = v}
DraftIds(v) == {x.id : x \in DraftsOf(v)}

\* get_carried_issues_for_update: issues of other rounds that this one answers.
Carried(v) == {n \in OpenIssues : notes[n].round # v /\ n \in rounds[v].answers}

ReviewInit ==
  /\ stage = "in_progress"
  /\ rounds = <<>> /\ notes = <<>> /\ drafts = {}
  /\ upload = NoUpload /\ form = NoForm
  /\ page = [d \in Directors |-> NoPage]

-----------------------------------------------------------------------------
(* Pages.  A page is fresh while the version still has the lock version it *)
(* shows; a draft that was changed or is gone is 0 on the pages showing it.*)

OpenPage(d, v) ==
  /\ page' = [page EXCEPT ![d] = [round |-> v, cycle |-> rounds[v].cycle, fresh |-> TRUE,
                                  drafts |-> DraftIds(v), carried |-> Carried(v)]]
  /\ UNCHANGED <<stage, rounds, notes, drafts, upload, form>>

LockRaised(v) == [d \in Directors |-> [page[d] EXCEPT !.fresh = @ /\ page[d].round # v]]
Outdated(pages, ids) ==
  [d \in Directors |-> [pages[d] EXCEPT !.drafts = {IF i \in ids THEN 0 ELSE i : i \in @}]]

SelectionAlwaysFree(v) == TRUE
\* Drafts are notes on the candidate that is selected.
SelectionFree(v) == rounds[v].selected # 0 => DraftsOf(v) = {}

\* select_version_candidate; choosing the same candidate again changes nothing.
SelectCandidate(d, c) ==
  LET v == page[d].round IN
  /\ v # 0 /\ InReview(v) /\ page[d].fresh
  /\ rounds[v].list = "active"
  /\ c \in 1..rounds[v].files /\ c # rounds[v].selected
  /\ SelectionFree(v)
  /\ rounds' = [rounds EXCEPT ![v].selected = c]
  /\ page' = LockRaised(v)
  /\ UNCHANGED <<stage, notes, drafts, upload, form>>

-----------------------------------------------------------------------------
(* Drafts.                                                                 *)

RoomForIssue == Len(notes) + Cardinality(drafts) < MaxIssues
NewDraft(d, v) ==
  [id |-> CHOOSE i \in IssueIds : \A x \in drafts : x.id # i,
   round |-> v, cycle |-> rounds[v].cycle, by |-> d]

SameCycle(d, v) == page[d].cycle = rounds[v].cycle

AddDraft(d) ==
  LET v == page[d].round IN
  /\ v # 0 /\ SameCycle(d, v)
  /\ InReview(v) /\ rounds[v].list = "active"
  /\ RoomForIssue
  /\ drafts' = drafts \cup {NewDraft(d, v)}
  /\ UNCHANGED <<stage, rounds, notes, upload, form, page>>

\* Any director changes any draft, under the lock of the draft alone.
UpdateDraft(d, x) ==
  LET v == page[d].round IN
  /\ x \in DraftsOf(v) /\ x.id \in page[d].drafts
  /\ InReview(v) /\ rounds[v].list = "active"
  /\ page' = Outdated(page, {x.id})
  /\ UNCHANGED <<stage, rounds, notes, drafts, upload, form>>

DeleteDraft(d, x) ==
  LET v == page[d].round IN
  /\ x \in DraftsOf(v) /\ x.id \in page[d].drafts
  /\ InReview(v) /\ rounds[v].list = "active"
  /\ drafts' = drafts \ {x}
  /\ page' = Outdated(page, {x.id})
  /\ UNCHANGED <<stage, rounds, notes, upload, form>>

-----------------------------------------------------------------------------
(* Decisions.                                                              *)

Solved(ids, v) ==
  [n \in DOMAIN notes |-> IF n \in ids THEN [notes[n] EXCEPT !.status = "resolved", !.solvedIn = v]
                          ELSE notes[n]]
Published(set) ==
  LET ordered == SetToSeq(set) IN
  [i \in DOMAIN ordered |-> [round |-> ordered[i].round, cycle |-> ordered[i].cycle,
                             by |-> ordered[i].by, status |-> "open", solvedIn |-> 0]]

\* _close_review_cycle: the row of the cycle is written now if it is missing.
Closed(v, outcome) ==
  LET old == rounds[v].outcomes IN
  IF Len(old) < rounds[v].cycle THEN Append(old, outcome)
  ELSE [old EXCEPT ![rounds[v].cycle] = outcome]

\* The head of _validate_review_action_state, after the lock version.
Reviewable(v) ==
  /\ InReview(v)
  /\ upload = NoUpload
  /\ v = Latest
  /\ rounds[v].list = "active"

VerifiedAll(d) == page[d].carried = Carried(page[d].round)

NoIssueLeftUnchecked(v, after) == TRUE
\* What approval asks of drafts and issues, the last after the verifications.
NoIssueLeft(v, after) ==
  /\ DraftsOf(v) = {}
  /\ OwnIssues(v) = {}
  /\ \A n \in DOMAIN after : after[n].status # "open"

Approve(d, c) ==
  LET v == page[d].round IN
  /\ v # 0 /\ page[d].fresh /\ Reviewable(v)
  /\ c \in 1..rounds[v].files
  /\ VerifiedAll(d)
  /\ \A u \in DOMAIN rounds : u # v => rounds[u].status # "final"
  /\ NoIssueLeft(v, Solved(Carried(v), v))
  /\ notes' = Solved(Carried(v), v)
  /\ rounds' = [rounds EXCEPT ![v].status = "final", ![v].selected = c, ![v].list = "completed",
                              ![v].outcomes = Closed(v, "approve")]
  /\ stage' = "completed"
  /\ page' = LockRaised(v)
  /\ UNCHANGED <<drafts, upload, form>>

ReasonToReject(v, solved, publishing) ==
  \/ Carried(v) \ solved # {}
  \/ OwnIssues(v) # {}
  \/ publishing # {}

\* create_review_action of a reject: verifications, publication of all drafts
\* of the version and of those the same transaction adds, transition.
RejectRound(v, solved, added) ==
  LET publishing == DraftsOf(v) \cup added IN
  /\ Reviewable(v)
  /\ ReasonToReject(v, solved, publishing)
  /\ notes' = Solved(solved, v) \o Published(publishing)
  /\ drafts' = drafts \ DraftsOf(v)
  /\ rounds' = [rounds EXCEPT ![v].status = "rejected", ![v].list = "completed",
                              ![v].outcomes = Closed(v, "reject")]
  /\ stage' = "revision"
  /\ page' = Outdated(LockRaised(v), DraftIds(v))
  /\ UNCHANGED <<upload, form>>

Reject(d, solved) ==
  LET v == page[d].round IN
  /\ v # 0 /\ page[d].fresh /\ VerifiedAll(d)
  /\ solved \subseteq page[d].carried
  /\ RejectRound(v, solved, {})

\* defer: nothing but the lock version of the version changes.
Defer(d) ==
  LET v == page[d].round IN
  /\ v # 0 /\ page[d].fresh /\ Reviewable(v)
  /\ page' = LockRaised(v)
  /\ UNCHANGED <<stage, rounds, notes, drafts, upload, form>>

\* reject_batch_with_overall_feedback: from a list, with no lock version of a page.
RejectOverall(d) ==
  /\ Latest > 0 /\ RoomForIssue
  /\ DraftsOf(Latest) = {} /\ Carried(Latest) = {}
  /\ RejectRound(Latest, {}, {NewDraft(d, Latest)})

SnapshotMatches(d) == page[d].drafts = DraftIds(page[d].round)

\* submit_batch_feedback checks the drafts the page showed, then adds a comment.
BatchComment(d, comment) ==
  LET v == page[d].round IN
  /\ v # 0 /\ page[d].fresh /\ Reviewable(v) /\ SnapshotMatches(d)
  /\ comment => RoomForIssue

SaveBatch(d, comment) ==
  LET v == page[d].round IN
  /\ BatchComment(d, comment)
  /\ drafts' = drafts \cup (IF comment THEN {NewDraft(d, v)} ELSE {})
  /\ page' = LockRaised(v)
  /\ UNCHANGED <<stage, rounds, notes, upload, form>>

RejectBatch(d, comment, solved) ==
  LET v == page[d].round IN
  /\ BatchComment(d, comment)
  /\ VerifiedAll(d) /\ solved \subseteq page[d].carried
  /\ RejectRound(v, solved, IF comment THEN {NewDraft(d, v)} ELSE {})

-----------------------------------------------------------------------------
(* After a rejection, until the next submission is accepted.               *)

NextNotAccepted == upload = NoUpload

RejectedWindow(d) ==
  LET v == page[d].round IN
  /\ v # 0 /\ rounds[v].status = "rejected" /\ stage = "revision"
  /\ page[d].fresh
  /\ v = Latest
  /\ NextNotAccepted
  /\ rounds[v].list = "completed"

AppendIssue(d) ==
  LET v == page[d].round IN
  /\ RejectedWindow(d) /\ RoomForIssue
  /\ notes' = Append(notes, [round |-> v, cycle |-> rounds[v].cycle, by |-> d,
                             status |-> "open", solvedIn |-> 0])
  /\ page' = LockRaised(v)
  /\ UNCHANGED <<stage, rounds, drafts, upload, form>>

\* Only the author edits an issue; its text is not modelled.
EditIssue(d, n) ==
  LET v == page[d].round IN
  /\ RejectedWindow(d)
  /\ n \in OwnIssues(v) /\ notes[n].by = d
  /\ page' = LockRaised(v)
  /\ UNCHANGED <<stage, rounds, notes, drafts, upload, form>>

\* ShotGridReviewReopenService.reopen; what it does to the delivery of the
\* approved candidate is in FinalDelivery.
Reopen(d) ==
  LET v == page[d].round IN
  /\ v # 0 /\ rounds[v].status = "final" /\ stage = "completed"
  /\ v = Latest /\ upload = NoUpload
  /\ page[d].fresh /\ SameCycle(d, v)
  /\ rounds[v].list = "completed"
  /\ rounds[v].cycle < MaxReviews
  /\ rounds' = [rounds EXCEPT ![v].status = "pending_review", ![v].cycle = @ + 1,
                              ![v].list = "active", ![v].outcomes = Append(@, "open")]
  /\ stage' = "pending_review"
  /\ page' = LockRaised(v)
  /\ UNCHANGED <<notes, drafts, upload, form>>

-----------------------------------------------------------------------------
(* The producer's submissions.                                             *)

\* _validate_issue_responses.
AnswersFit(answers) ==
  CASE stage = "in_progress" -> OpenIssues = {} /\ answers = {}
    [] stage = "pending_review" -> answers = {}
    [] stage = "revision" -> OpenIssues # {} /\ answers = OpenIssues
    [] OTHER -> TRUE

\* _submission_target: a reopened version is frozen.
TargetFits(mode, v) ==
  IF mode = "append"
  THEN /\ InReview(v) /\ v = Latest
       /\ rounds[v].cycle <= 1
  ELSE stage \in {"in_progress", "revision"}

Candidates == UNION {{v} \X (1..rounds[v].files) : v \in DOMAIN rounds}
FilesSoFar == Cardinality(Candidates)

Preflight(mode) ==
  LET answers == IF stage = "revision" THEN OpenIssues ELSE {} IN
  /\ AnswersFit(answers)
  /\ upload = NoUpload
  /\ mode = "append" => Latest > 0
  /\ TargetFits(mode, Latest)
  /\ form' = [mode |-> mode, round |-> IF mode = "append" THEN Latest ELSE 0,
              issues |-> OpenIssues, answers |-> answers]
  /\ UNCHANGED <<stage, rounds, notes, drafts, upload, page>>

SameIssuesUnchecked == TRUE
\* The hash of the issues the preflight showed is that of the issues open now.
SameIssues == form.issues = OpenIssues /\ AnswersFit(form.answers)

\* A page may send an old form again: it is checked against the present.
CreateSubmission(files) ==
  /\ form # NoForm
  /\ stage # "completed"
  /\ upload = NoUpload
  /\ SameIssues
  /\ TargetFits(form.mode, form.round)
  /\ form.mode = "new_round" => Latest < MaxRounds
  /\ FilesSoFar + files <= MaxFiles
  /\ upload' = [mode |-> form.mode, round |-> form.round, files |-> files, answers |-> form.answers]
  /\ UNCHANGED <<stage, rounds, notes, drafts, form, page>>

\* The formal commit of the published files (how they get there, and what fails
\* on the way, is in VersionSubmission).
CommitRound ==
  /\ upload.mode = "new_round" /\ TargetFits("new_round", 0)
  /\ rounds' = Append(rounds,
       [status |-> "pending_review", cycle |-> 1, files |-> upload.files,
        selected |-> IF upload.files = 1 THEN 1 ELSE 0,
        list |-> "active", answers |-> upload.answers, outcomes |-> <<>>])
  /\ stage' = "pending_review"
  /\ upload' = NoUpload
  /\ UNCHANGED <<notes, drafts, form, page>>

CommitAppend ==
  LET v == upload.round IN
  /\ upload.mode = "append" /\ TargetFits("append", v)
  /\ rounds[v].list = "active"
  /\ rounds' = [rounds EXCEPT ![v].files = @ + upload.files]
  /\ stage' = "pending_review"
  /\ upload' = NoUpload
  /\ page' = LockRaised(v)
  /\ UNCHANGED <<notes, drafts, form>>

-----------------------------------------------------------------------------
ReviewNext ==
  \/ \E d \in Directors :
       \/ \E v \in DOMAIN rounds : OpenPage(d, v)
       \/ \E c \in 1..MaxFiles : SelectCandidate(d, c) \/ Approve(d, c)
       \/ AddDraft(d) \/ Defer(d) \/ RejectOverall(d) \/ AppendIssue(d) \/ Reopen(d)
       \/ \E x \in drafts : UpdateDraft(d, x) \/ DeleteDraft(d, x)
       \/ \E solved \in SUBSET page[d].carried :
            \/ Reject(d, solved)
            \/ \E comment \in BOOLEAN : RejectBatch(d, comment, solved)
       \/ \E comment \in BOOLEAN : SaveBatch(d, comment)
       \/ \E n \in DOMAIN notes : EditIssue(d, n)
  \/ \E mode \in {"append", "new_round"} : Preflight(mode)
  \/ \E files \in 1..MaxFiles : CreateSubmission(files)
  \/ CommitRound
  \/ CommitAppend

ReviewSpec == ReviewInit /\ [][ReviewNext]_reviewVars

-----------------------------------------------------------------------------
RoundType ==
  [status : {"pending_review", "rejected", "final"}, cycle : 1..MaxReviews,
   files : 1..MaxFiles, selected : 0..MaxFiles, list : {"active", "completed"},
   answers : SUBSET IssueIds, outcomes : Seq({"open", "approve", "reject"})]
ReviewTypeOK ==
  /\ stage \in {"in_progress", "pending_review", "revision", "completed"}
  /\ rounds \in Seq(RoundType) /\ Latest <= MaxRounds
  /\ notes \in Seq([round : 1..MaxRounds, cycle : 1..MaxReviews, by : Directors,
                    status : {"open", "resolved"}, solvedIn : 0..MaxRounds])
  /\ drafts \subseteq [id : IssueIds, round : 1..MaxRounds, cycle : 1..MaxReviews, by : Directors]
  /\ Len(notes) + Cardinality(drafts) <= MaxIssues
  /\ page \in [Directors -> [round : 0..MaxRounds, cycle : 0..MaxReviews, fresh : BOOLEAN,
                             drafts : SUBSET (0..MaxIssues), carried : SUBSET IssueIds]]

\* An approved task has left nothing behind: no open issue in any version, no
\* draft, and its last version is its only final one.
NothingForgotten ==
  stage = "completed" =>
    /\ OpenIssues = {} /\ drafts = {}
    /\ \A v \in DOMAIN rounds : rounds[v].status = "final" <=> v = Latest

\* A task in revision has something to revise: an open issue the producer can
\* answer, without which the next submission is refused.
RevisionHasIssues ==
  stage = "revision" => rounds[Latest].status = "rejected" /\ OpenIssues # {}

\* Drafts live in the open cycle of the last version only: no decision leaves a
\* draft that would appear in a later cycle or stay invisible in a closed round.
DraftsBelongToOpenCycle ==
  \A x \in drafts : x.round = Latest /\ InReview(Latest) /\ x.cycle = rounds[Latest].cycle

\* The rows of the cycles tell what happened: every earlier cycle ended in the
\* approval that was reopened, the last one as the status of the version says.
CyclesTellTheHistory ==
  \A v \in DOMAIN rounds :
    LET r == rounds[v] IN
    /\ \A i \in 1..(r.cycle - 1) : r.outcomes[i] = "approve"
    /\ CASE r.status = "final"    -> r.outcomes[r.cycle] = "approve" /\ Len(r.outcomes) = r.cycle
         [] r.status = "rejected" -> r.outcomes[r.cycle] = "reject" /\ Len(r.outcomes) = r.cycle
         [] OTHER -> IF r.cycle = 1 THEN r.outcomes = <<>> ELSE r.outcomes[r.cycle] = "open"

\* An issue is closed by a later version whose submission answered it.
SolvedByAnAnswer ==
  \A n \in DOMAIN notes : notes[n].status = "resolved" =>
    /\ notes[n].solvedIn > notes[n].round
    /\ n \in rounds[notes[n].solvedIn].answers

\* What the review of a task must keep true, whatever the pages showed.
ReviewSafe ==
  /\ ReviewTypeOK /\ NothingForgotten /\ RevisionHasIssues
  /\ DraftsBelongToOpenCycle /\ CyclesTellTheHistory /\ SolvedByAnAnswer

\* No issue is passed over: the answers of an accepted next round are those to
\* all issues open since, and the version under review carries every open issue
\* of the versions before it, although issues may be appended between the
\* producer's preflight and the submission.
HistoryIsAnswered ==
  /\ upload.mode = "new_round" => upload.answers = OpenIssues
  /\ \A n \in OpenIssues :
       stage = "pending_review" /\ notes[n].round # Latest => n \in rounds[Latest].answers

NotesStand ==
  \A n \in DOMAIN notes :
    /\ n \in DOMAIN notes'
    /\ notes[n].status = "resolved" => notes'[n] = notes[n]
OutcomesStand(v) ==
  \A i \in DOMAIN rounds[v].outcomes :
    rounds[v].outcomes[i] # "open" => rounds'[v].outcomes[i] = rounds[v].outcomes[i]
SelectionStands(v) ==
  DraftsOf(v) # {} /\ rounds[v].selected # 0 => rounds'[v].selected = rounds[v].selected
HistoryKept ==
  NotesStand /\ \A v \in DOMAIN rounds : OutcomesStand(v) /\ SelectionStands(v)

\* History stands: a published issue is never withdrawn or opened again, a
\* closed cycle keeps its outcome, and while drafts refer to a candidate the
\* selection does not move to another one.
HistoryStands == [][HistoryKept]_reviewVars
=============================================================================
