---------------------------- MODULE ProjectProofs ----------------------------
(***************************************************************************)
(* What holds of the records of a project for every value of the           *)
(* constants: an import writes its rows once and tells the truth about it, *)
(* the review of a version keeps its conclusions and its issues straight,  *)
(* the shots of a scene keep their numbers and directories apart, and      *)
(* members, platform roles and assignments agree.                          *)
(***************************************************************************)
EXTENDS ImportBatch, ReviewCycle, SceneShots, MemberAccess, FiniteSetTheorems, SequenceTheorems, TLAPS

(***************************************************************************)
(* The commit of an import, for any number of previews, keys, requests and *)
(* faults: the rows are written once (RowsImportedOnce), the batch tells   *)
(* the truth about it (CommittedMeansImported), and so does whatever a     *)
(* client is told (AnsweredImported).                                      *)
(***************************************************************************)

Stages == {"new", "lock", "token", "row", "write", "failing", "cleanup", "done"}
Answers == {"nothing", "error", "imported", "failed before", "conflict"}
RequestRecords ==
  [pc : Stages, batch : Batches \cup {None}, key : Keys \cup {None}, told : Answers]

\* A request that was sent names a batch and a key.
RequestsAreOfBatches ==
  /\ request \in [Requests -> RequestRecords]
  /\ \A r \in Requests :
       request[r].pc # "new" \/ request[r].told = "imported" =>
         request[r].batch \in Batches /\ request[r].key \in Keys

\* A request that cleans up has written the rows of its batch.
CleanersHaveWritten ==
  \A r \in Requests : request[r].pc = "cleanup" => imported[request[r].batch] = 1

ImportInv ==
  /\ ImportTypeOK /\ RequestsAreOfBatches
  /\ RowsImportedOnce /\ CommittedMeansImported
  /\ AnsweredImported /\ CleanersHaveWritten

-----------------------------------------------------------------------------
LEMMA ImportInitInv == ImportInit => ImportInv
  BY ImportAssumption
     DEF ImportInit, ImportInv, ImportTypeOK, RequestsAreOfBatches, RowsImportedOnce,
         CommittedMeansImported, AnsweredImported, CleanersHaveWritten, NewRequest,
         RequestRecords, Stages, Answers,
         Batches, Keys, Requests, None, BatchOf

\* Ending a transaction leaves the locks typed.
LEMMA EndKeepsLocks ==
  ASSUME ImportTypeOK, NEW r \in Requests, EndTransaction(r)
  PROVE  /\ keyLock' \in [Keys -> Requests \cup {None}]
         /\ rowLock' \in [Batches -> Requests \cup {None}]
  BY DEF ImportTypeOK, EndTransaction

\* A step that writes no rows, and neither commits a batch nor takes the
\* commit back, keeps what is known of the batches.
LEMMA NothingWritten ==
  ASSUME ImportInv, imported' = imported,
         batch' \in [Batches -> [status : {"none", "previewed", "committed", "failed", "expired"},
                                 key : Keys \cup {None}]],
         \A b \in Batches : (batch'[b].status = "committed") = (batch[b].status = "committed")
  PROVE  RowsImportedOnce' /\ CommittedMeansImported'
  BY DEF ImportInv, RowsImportedOnce, CommittedMeansImported

\* Nor does a step of a request change what is known of the requests, if it is
\* told the truth and goes to clean up only after the rows were written.
LEMMA RequestGoesOn ==
  ASSUME ImportInv, NEW r \in Requests, imported' \in [Batches -> Nat],
         \A b \in Batches : imported[b] = 1 => imported'[b] = 1,
         request[r].pc # "new",
         NEW pc \in Stages, NEW told \in Answers,
         request' = [request EXCEPT ![r].pc = pc, ![r].told = told],
         pc = "cleanup" \/ told = "imported" => imported'[request[r].batch] = 1
  PROVE  RequestsAreOfBatches' /\ AnsweredImported' /\ CleanersHaveWritten'
<1>1. /\ request \in [Requests -> RequestRecords] /\ request[r] \in RequestRecords
      /\ request[r].batch \in Batches /\ request[r].key \in Keys
  BY DEF ImportInv, RequestsAreOfBatches
<1> DEFINE next == [request[r] EXCEPT !.pc = pc, !.told = told]
<1>2. /\ next.pc = pc /\ next.told = told
      /\ next.batch = request[r].batch /\ next.key = request[r].key
      /\ next \in RequestRecords
  BY <1>1 DEF RequestRecords
<1>3. /\ request'[r] = next
      /\ \A q \in Requests \ {r} : request'[q] = request[q]
      /\ request' \in [Requests -> RequestRecords]
  <2>1. request' = [request EXCEPT ![r] = next]
    BY <1>1 DEF RequestRecords
  <2> HIDE DEF next
  <2> QED
    BY <2>1, <1>1, <1>2
<1> HIDE DEF next
<1>4. RequestsAreOfBatches'
  BY <1>1, <1>2, <1>3 DEF ImportInv, RequestsAreOfBatches
<1>5. ASSUME NEW q \in Requests, request'[q].told = "imported" \/ request'[q].pc = "cleanup"
      PROVE  imported'[request'[q].batch] = 1
  <2>1. CASE q = r
    BY <2>1, <1>2, <1>3, <1>5
  <2>2. CASE q # r
    BY <2>2, <1>3, <1>5
       DEF ImportInv, RequestsAreOfBatches, AnsweredImported, CleanersHaveWritten, BatchOf
  <2> QED
    BY <2>1, <2>2
<1> QED
  BY <1>4, <1>5 DEF AnsweredImported, CleanersHaveWritten, BatchOf

LEMMA RequestGoes ==
  ASSUME ImportInv, NEW r \in Requests, imported' \in [Batches -> Nat],
         \A b \in Batches : imported[b] = 1 => imported'[b] = 1,
         request[r].pc # "new", NEW pc \in Stages, Go(r, pc),
         pc = "cleanup" => imported'[request[r].batch] = 1
  PROVE  RequestsAreOfBatches' /\ AnsweredImported' /\ CleanersHaveWritten'
<1>1. request \in [Requests -> RequestRecords] /\ request[r].told \in Answers
  BY DEF ImportInv, RequestsAreOfBatches, RequestRecords
<1>2. PICK told \in Answers : told = request[r].told
  BY <1>1
<1>3. request' = [request EXCEPT ![r].pc = pc, ![r].told = told]
  BY <1>1, <1>2 DEF Go, RequestRecords
<1>4. told = "imported" => imported'[request[r].batch] = 1
  BY <1>2 DEF ImportInv, AnsweredImported, BatchOf, RequestsAreOfBatches
<1> QED
  BY <1>3, <1>4, RequestGoesOn

LEMMA RequestIsAnswered ==
  ASSUME ImportInv, NEW r \in Requests, imported' \in [Batches -> Nat],
         \A b \in Batches : imported[b] = 1 => imported'[b] = 1,
         request[r].pc # "new", NEW told \in Answers, Answer(r, told),
         told = "imported" => imported'[request[r].batch] = 1
  PROVE  RequestsAreOfBatches' /\ AnsweredImported' /\ CleanersHaveWritten'
<1>1. "done" \in Stages /\ "done" # "cleanup"
  BY DEF Stages
<1> QED
  BY <1>1, RequestGoesOn DEF Answer

-----------------------------------------------------------------------------
\* The steps of a request before it writes: the batch may only expire.
LEMMA EarlyStepsKeepInv ==
  ASSUME ImportInv, NEW r \in Requests,
         LockKey(r) \/ Replay(r) \/ ReadToken(r) \/ TokenMissing(r)
           \/ LockBatch(r) \/ BatchRefused(r)
  PROVE  ImportInv'
<1>1. CASE LockKey(r)
  <2>1. ImportTypeOK' /\ imported' = imported /\ batch' = batch
    BY <1>1 DEF LockKey, ImportInv, ImportTypeOK, BatchUntouched
  <2>2. RequestsAreOfBatches' /\ AnsweredImported' /\ CleanersHaveWritten'
    BY <1>1, <2>1, RequestGoes DEF LockKey, Stages, ImportInv, ImportTypeOK
  <2> QED
    BY <2>1, <2>2, NothingWritten DEF ImportInv, ImportTypeOK
<1>2. CASE Replay(r)
  <2>1. ImportTypeOK' /\ imported' = imported /\ batch' = batch
    BY <1>2 DEF Replay, ImportInv, ImportTypeOK, BatchUntouched, KeepLocks
  <2>2. PICK b \in Recorded(KeyOf(r)) :
          Answer(r, IF b = BatchOf(r) THEN Outcome(b) ELSE "conflict")
    BY <1>2 DEF Replay
  <2>3. /\ b \in Batches
        /\ (IF b = BatchOf(r) THEN Outcome(b) ELSE "conflict") \in Answers
    BY DEF Recorded, Outcome, Answers
  <2>4. Outcome(b) = "imported" => imported[b] = 1
    BY <2>3 DEF Outcome, ImportInv, CommittedMeansImported
  <2>5. RequestsAreOfBatches' /\ AnsweredImported' /\ CleanersHaveWritten'
    BY <1>2, <2>1, <2>2, <2>3, <2>4, RequestIsAnswered
       DEF Replay, ImportInv, ImportTypeOK, BatchOf
  <2> QED
    BY <2>1, <2>5, NothingWritten DEF ImportInv, ImportTypeOK
<1>3. CASE ReadToken(r)
  <2>1. ImportTypeOK' /\ imported' = imported /\ batch' = batch
    BY <1>3 DEF ReadToken, ImportInv, ImportTypeOK, BatchUntouched, KeepLocks
  <2>2. RequestsAreOfBatches' /\ AnsweredImported' /\ CleanersHaveWritten'
    BY <1>3, <2>1, RequestGoes DEF ReadToken, Stages, ImportInv, ImportTypeOK
  <2> QED
    BY <2>1, <2>2, NothingWritten DEF ImportInv, ImportTypeOK
<1>4. CASE TokenMissing(r)
  <2>1. BatchOf(r) \in Batches
    BY <1>4 DEF TokenMissing, ImportInv, RequestsAreOfBatches, BatchOf
  <2>2. /\ batch' \in [Batches -> [status : {"none", "previewed", "committed", "failed", "expired"},
                                   key : Keys \cup {None}]]
        /\ \A b \in Batches : (batch'[b].status = "committed") = (batch[b].status = "committed")
    BY <1>4, <2>1 DEF TokenMissing, ImportInv, ImportTypeOK, StillPreview
  <2>3. ImportTypeOK' /\ imported' = imported
    BY <1>4, <2>2, EndKeepsLocks DEF TokenMissing, ImportInv, ImportTypeOK
  <2>4. RequestsAreOfBatches' /\ AnsweredImported' /\ CleanersHaveWritten'
    BY <1>4, <2>3, RequestIsAnswered DEF TokenMissing, Answers, ImportInv, ImportTypeOK
  <2> QED
    BY <2>2, <2>3, <2>4, NothingWritten DEF ImportInv
<1>5. CASE LockBatch(r)
  <2>1. ImportTypeOK' /\ imported' = imported /\ batch' = batch
    BY <1>5 DEF LockBatch, ImportInv, ImportTypeOK, BatchUntouched
  <2>2. RequestsAreOfBatches' /\ AnsweredImported' /\ CleanersHaveWritten'
    BY <1>5, <2>1, RequestGoes DEF LockBatch, Stages, ImportInv, ImportTypeOK
  <2> QED
    BY <2>1, <2>2, NothingWritten DEF ImportInv, ImportTypeOK
<1>6. CASE BatchRefused(r)
  <2>1. ImportTypeOK' /\ imported' = imported /\ batch' = batch
    BY <1>6, EndKeepsLocks DEF BatchRefused, ImportInv, ImportTypeOK, BatchUntouched
  <2>2. RequestsAreOfBatches' /\ AnsweredImported' /\ CleanersHaveWritten'
    BY <1>6, <2>1, RequestIsAnswered DEF BatchRefused, Answers, ImportInv, ImportTypeOK
  <2> QED
    BY <2>1, <2>2, NothingWritten DEF ImportInv, ImportTypeOK
<1> QED
  BY <1>1, <1>2, <1>3, <1>4, <1>5, <1>6

\* The rows are written only when no batch has written them.
LEMMA WriteRowsKeepsInv ==
  ASSUME ImportInv, NEW r \in Requests, MayWrite(r), WriteRows(r),
         kind' = kind, NEW pc \in {"cleanup", "failing"}, Go(r, pc)
  PROVE  ImportInv'
<1>1. BatchOf(r) \in Batches /\ KeyOf(r) \in Keys
  BY DEF MayWrite, ImportInv, RequestsAreOfBatches, BatchOf, KeyOf
<1>2. \A b \in Batches : imported[b] = 0
  BY DEF MayWrite, RowsExistAlready, ImportInv, ImportTypeOK
<1>3. /\ imported' = [imported EXCEPT ![BatchOf(r)] = 1]
      /\ imported' \in [Batches -> Nat]
  <2>1. imported[BatchOf(r)] + 1 = 1
    BY <1>1, <1>2
  <2>2. imported' = [imported EXCEPT ![BatchOf(r)] = imported[BatchOf(r)] + 1]
    BY DEF WriteRows
  <2>3. imported' = [imported EXCEPT ![BatchOf(r)] = 1]
    BY <2>1, <2>2, Zenon
  <2> QED
    BY <1>1, <2>3 DEF ImportInv, ImportTypeOK
<1>4. batch' = [batch EXCEPT ![BatchOf(r)] = [status |-> "committed", key |-> KeyOf(r)]]
  BY DEF WriteRows
<1>5. ImportTypeOK'
  BY <1>1, <1>3, <1>4, EndKeepsLocks DEF WriteRows, ImportInv, ImportTypeOK
<1>6. RowsImportedOnce'
  BY <1>1, <1>2, <1>3 DEF RowsImportedOnce, ImportInv, ImportTypeOK
<1>7. CommittedMeansImported'
  BY <1>1, <1>2, <1>3, <1>4 DEF CommittedMeansImported, ImportInv, ImportTypeOK
<1>8. RequestsAreOfBatches' /\ AnsweredImported' /\ CleanersHaveWritten'
  BY <1>1, <1>2, <1>3, RequestGoes DEF MayWrite, Stages, BatchOf, ImportInv, ImportTypeOK
<1> QED
  BY <1>5, <1>6, <1>7, <1>8 DEF ImportInv

LEMMA LateStepsKeepInv ==
  ASSUME ImportInv, NEW r \in Requests,
         CommitImport(r) \/ CommitAnswerLost(r) \/ WriteRefused(r) \/ WriteRaises(r)
           \/ RecordFailure(r) \/ DeleteToken(r) \/ RequestIsKilled(r)
  PROVE  ImportInv'
<1>1. CASE CommitImport(r) \/ CommitAnswerLost(r)
  BY <1>1, WriteRowsKeepsInv DEF CommitImport, CommitAnswerLost
<1>2. CASE WriteRefused(r) \/ WriteRaises(r)
  <2>1. ImportTypeOK' /\ imported' = imported /\ batch' = batch
    BY <1>2, EndKeepsLocks
       DEF WriteRefused, WriteRaises, ImportInv, ImportTypeOK, BatchUntouched
  <2>2. RequestsAreOfBatches' /\ AnsweredImported' /\ CleanersHaveWritten'
    BY <1>2, <2>1, RequestGoes DEF WriteRefused, WriteRaises, Stages, ImportInv, ImportTypeOK
  <2> QED
    BY <2>1, <2>2, NothingWritten DEF ImportInv, ImportTypeOK
<1>3. CASE RecordFailure(r)
  <2>1. BatchOf(r) \in Batches /\ KeyOf(r) \in Keys
    BY <1>3 DEF RecordFailure, ImportInv, RequestsAreOfBatches, BatchOf, KeyOf
  <2>2. /\ batch' \in [Batches -> [status : {"none", "previewed", "committed", "failed", "expired"},
                                   key : Keys \cup {None}]]
        /\ \A b \in Batches : (batch'[b].status = "committed") = (batch[b].status = "committed")
    BY <1>3, <2>1 DEF RecordFailure, ImportInv, ImportTypeOK, StillPreview
  <2>3. ImportTypeOK' /\ imported' = imported
    BY <1>3, <2>2 DEF RecordFailure, ImportInv, ImportTypeOK
  <2>4. RequestsAreOfBatches' /\ AnsweredImported' /\ CleanersHaveWritten'
    BY <1>3, <2>3, RequestIsAnswered DEF RecordFailure, Answers, ImportInv, ImportTypeOK
  <2> QED
    BY <2>2, <2>3, <2>4, NothingWritten DEF ImportInv
<1>4. CASE DeleteToken(r)
  <2>1. ImportTypeOK' /\ imported' = imported /\ batch' = batch
    BY <1>4 DEF DeleteToken, ImportInv, ImportTypeOK
  <2>2. imported[request[r].batch] = 1
    BY <1>4 DEF DeleteToken, ImportInv, CleanersHaveWritten
  <2>3. RequestsAreOfBatches' /\ AnsweredImported' /\ CleanersHaveWritten'
    BY <1>4, <2>1, <2>2, RequestIsAnswered DEF DeleteToken, Answers, ImportInv, ImportTypeOK
  <2> QED
    BY <2>1, <2>3, NothingWritten DEF ImportInv, ImportTypeOK
<1>5. CASE RequestIsKilled(r)
  <2>1. ImportTypeOK' /\ imported' = imported /\ batch' = batch
    BY <1>5, EndKeepsLocks DEF RequestIsKilled, ImportInv, ImportTypeOK
  <2>2. RequestsAreOfBatches' /\ AnsweredImported' /\ CleanersHaveWritten'
    BY <1>5, <2>1, RequestIsAnswered DEF RequestIsKilled, Answers, ImportInv, ImportTypeOK
  <2> QED
    BY <2>1, <2>2, NothingWritten DEF ImportInv, ImportTypeOK
<1> QED
  BY <1>1, <1>2, <1>3, <1>4, <1>5

\* Previews, new requests, and time.
LEMMA ClientStepsKeepInv ==
  ASSUME ImportInv, NEW b \in Batches,
         \/ Preview(b) \/ PreviewIsKilled(b) \/ PreviewExpires(b) \/ TokenExpires(b)
         \/ \E r \in Requests, k \in Keys : Submit(r, b, k)
  PROVE  ImportInv'
<1>1. CASE Preview(b)
  <2>1. /\ ImportTypeOK' /\ imported' = imported /\ request' = request
        /\ \A a \in Batches : (batch'[a].status = "committed") = (batch[a].status = "committed")
    BY <1>1 DEF Preview, NextPreview, Begun, ImportInv, ImportTypeOK
  <2> QED
    BY <2>1, NothingWritten
       DEF ImportInv, ImportTypeOK, RequestsAreOfBatches, AnsweredImported, CleanersHaveWritten,
           BatchOf
<1>2. CASE PreviewIsKilled(b) \/ PreviewExpires(b) \/ TokenExpires(b)
  BY <1>2
     DEF PreviewIsKilled, PreviewExpires, TokenExpires, ImportInv, ImportTypeOK,
         RequestsAreOfBatches, RowsImportedOnce, CommittedMeansImported, AnsweredImported,
         CleanersHaveWritten, BatchOf
<1>3. ASSUME NEW r \in Requests, NEW k \in Keys, Submit(r, b, k)
      PROVE  ImportInv'
  <2>1. ImportTypeOK' /\ imported' = imported /\ batch' = batch
    BY <1>3 DEF Submit, ImportInv, ImportTypeOK, BatchUntouched, KeepLocks
  <2>2. RequestsAreOfBatches' /\ AnsweredImported' /\ CleanersHaveWritten'
    BY <1>3, <2>1
       DEF Submit, ImportInv, RequestsAreOfBatches, RequestRecords, Stages, Answers,
           AnsweredImported, CleanersHaveWritten, BatchOf
  <2> QED
    BY <2>1, <2>2, NothingWritten DEF ImportInv, ImportTypeOK
<1> QED
  BY <1>1, <1>2, <1>3

LEMMA ImportStepInv == ImportInv /\ [ImportNext]_importVars => ImportInv'
<1> SUFFICES ASSUME ImportInv, [ImportNext]_importVars
             PROVE  ImportInv'
  OBVIOUS
<1>1. ASSUME NEW b \in Batches,
             \/ Preview(b) \/ PreviewIsKilled(b) \/ PreviewExpires(b) \/ TokenExpires(b)
             \/ \E r \in Requests, k \in Keys : Submit(r, b, k)
      PROVE  ImportInv'
  BY <1>1, ClientStepsKeepInv
<1>2. ASSUME NEW r \in Requests,
             RequestStep(r) \/ CommitAnswerLost(r) \/ WriteRaises(r) \/ RequestIsKilled(r)
      PROVE  ImportInv'
  BY <1>2, EarlyStepsKeepInv, LateStepsKeepInv DEF RequestStep
<1>3. CASE UNCHANGED importVars
  BY <1>3
     DEF importVars, ImportInv, ImportTypeOK, RequestsAreOfBatches, RowsImportedOnce,
         CommittedMeansImported, AnsweredImported, CleanersHaveWritten, BatchOf
<1> QED
  BY <1>1, <1>2, <1>3 DEF ImportNext

-----------------------------------------------------------------------------
\* The inductive invariant holds of every behaviour.
LEMMA ImportInvariant == ImportSpec => []ImportInv
  BY ImportInitInv, ImportStepInv, PTL DEF ImportSpec

-----------------------------------------------------------------------------
(* What clients are told of failures.  Only a batch that is over has a key, *)
(* and one that somebody was told to have failed stays failed: a request    *)
(* that is about to write has locked a preview, which nobody else changes.  *)

KeyedAreOver ==
  \A b \in Batches : batch[b].key # None => batch[b].status \in {"committed", "failed"}
WritersHoldPreviews ==
  \A r \in Requests : request[r].pc = "write" =>
    rowLock[request[r].batch] = r /\ batch[request[r].batch].status = "previewed"
RefusedHaveFailed ==
  \A r \in Requests : request[r].told = "failed before" =>
    request[r].batch \in Batches /\ batch[request[r].batch].status = "failed"
RefusalInv == ImportInv /\ KeyedAreOver /\ WritersHoldPreviews /\ RefusedHaveFailed

LEMMA RefusalInitInv == ImportInit => RefusalInv
<1>1. ASSUME ImportInit PROVE KeyedAreOver /\ WritersHoldPreviews /\ RefusedHaveFailed
  BY <1>1
     DEF ImportInit, KeyedAreOver, WritersHoldPreviews, RefusedHaveFailed, NewRequest, None
<1> QED
  BY <1>1, ImportInitInv DEF RefusalInv

\* What a step of a request does to its own record.
StepOf(r, pc, told) ==
  request' = [request EXCEPT ![r].pc = pc, ![r].told = told]

LEMMA RefusalGoesOn ==
  ASSUME RefusalInv, NEW r \in Requests, NEW pc \in Stages, NEW told \in Answers, StepOf(r, pc, told),
         request[r].batch \in Batches,
         \A b \in Batches : batch[b].status = "failed" => batch'[b].status = "failed",
         \A b \in Batches, q \in Requests \ {r} :
            rowLock[b] = q => rowLock'[b] = q /\ batch'[b].status = batch[b].status,
         pc = "write" => /\ rowLock'[request[r].batch] = r
                         /\ batch'[request[r].batch].status = "previewed",
         told = "failed before" => batch'[request[r].batch].status = "failed"
  PROVE  WritersHoldPreviews' /\ RefusedHaveFailed'
<1>1. /\ request \in [Requests -> RequestRecords]
      /\ \A q \in Requests : request[q].pc = "write" => request[q].batch \in Batches
  BY DEF RefusalInv, ImportInv, RequestsAreOfBatches
<1>2. /\ request'[r].pc = pc /\ request'[r].told = told
      /\ request'[r].batch = request[r].batch
      /\ \A q \in Requests \ {r} : request'[q] = request[q]
  <2>1. request[r] \in RequestRecords
    BY <1>1
  <2> DEFINE next == [request[r] EXCEPT !.pc = pc, !.told = told]
  <2>2. next.pc = pc /\ next.told = told /\ next.batch = request[r].batch
    BY <2>1 DEF RequestRecords
  <2>3. request' = [request EXCEPT ![r] = next]
    BY <1>1, <2>1 DEF StepOf, RequestRecords
  <2> HIDE DEF next
  <2> QED
    BY <1>1, <2>2, <2>3
<1>3. ASSUME NEW q \in Requests, request'[q].pc = "write"
      PROVE  /\ rowLock'[request'[q].batch] = q
             /\ batch'[request'[q].batch].status = "previewed"
  <2>1. CASE q = r
    BY <2>1, <1>2, <1>3
  <2>2. CASE q # r
    <3>1. /\ q \in Requests \ {r} /\ request'[q] = request[q]
          /\ request[q].pc = "write" /\ request[q].batch \in Batches
      BY <2>2, <1>1, <1>2, <1>3
    <3>2. /\ rowLock[request[q].batch] = q
          /\ batch[request[q].batch].status = "previewed"
      BY <3>1 DEF RefusalInv, WritersHoldPreviews
    <3>3. /\ rowLock'[request[q].batch] = q
          /\ batch'[request[q].batch].status = batch[request[q].batch].status
      BY <3>1, <3>2
    <3> QED
      BY <3>1, <3>2, <3>3
  <2> QED
    BY <2>1, <2>2
<1>4. ASSUME NEW q \in Requests, request'[q].told = "failed before"
      PROVE  /\ request'[q].batch \in Batches
             /\ batch'[request'[q].batch].status = "failed"
  <2>1. CASE q = r
    BY <2>1, <1>2, <1>4
  <2>2. CASE q # r
    BY <2>2, <1>2, <1>4 DEF RefusalInv, RefusedHaveFailed
  <2> QED
    BY <2>1, <2>2
<1> QED
  BY <1>3, <1>4 DEF WritersHoldPreviews, RefusedHaveFailed

\* The same for a step that keeps what the request was told, and for one that
\* answers it.
LEMMA RefusalGoes ==
  ASSUME RefusalInv, NEW r \in Requests, NEW pc \in Stages, Go(r, pc),
         request[r].batch \in Batches,
         \A b \in Batches : batch[b].status = "failed" => batch'[b].status = "failed",
         \A b \in Batches, q \in Requests \ {r} :
            rowLock[b] = q => rowLock'[b] = q /\ batch'[b].status = batch[b].status,
         pc = "write" => /\ rowLock'[request[r].batch] = r
                         /\ batch'[request[r].batch].status = "previewed"
  PROVE  WritersHoldPreviews' /\ RefusedHaveFailed'
<1>1. request \in [Requests -> RequestRecords] /\ request[r].told \in Answers
  BY DEF RefusalInv, ImportInv, RequestsAreOfBatches, RequestRecords
<1>2. PICK told \in Answers : told = request[r].told
  BY <1>1
<1>3. StepOf(r, pc, told)
  BY <1>1, <1>2 DEF Go, StepOf, RequestRecords
<1>4. told = "failed before" => batch'[request[r].batch].status = "failed"
  BY <1>2 DEF RefusalInv, RefusedHaveFailed
<1> QED
  BY <1>3, <1>4, RefusalGoesOn

LEMMA RefusalIsAnswered ==
  ASSUME RefusalInv, NEW r \in Requests, NEW told \in Answers, Answer(r, told),
         request[r].batch \in Batches,
         \A b \in Batches : batch[b].status = "failed" => batch'[b].status = "failed",
         \A b \in Batches, q \in Requests \ {r} :
            rowLock[b] = q => rowLock'[b] = q /\ batch'[b].status = batch[b].status,
         told = "failed before" => batch'[request[r].batch].status = "failed"
  PROVE  WritersHoldPreviews' /\ RefusedHaveFailed'
<1>1. "done" \in Stages /\ "done" # "write"
  BY DEF Stages
<1>2. StepOf(r, "done", told)
  BY DEF Answer, StepOf
<1> QED
  BY <1>1, <1>2, RefusalGoesOn

\* Ending a transaction frees its own locks only.
LEMMA EndKeepsOthers ==
  ASSUME RefusalInv, NEW r \in Requests, EndTransaction(r)
  PROVE  \A b \in Batches, q \in Requests \ {r} : rowLock[b] = q => rowLock'[b] = q
  BY DEF EndTransaction

LEMMA RefusalStepInv == RefusalInv /\ [ImportNext]_importVars => RefusalInv'
<1> SUFFICES ASSUME RefusalInv, [ImportNext]_importVars
             PROVE  KeyedAreOver' /\ WritersHoldPreviews' /\ RefusedHaveFailed'
  BY ImportStepInv DEF RefusalInv
<1> USE DEF BatchOf, KeyOf
<1>0. \A r \in Requests : request[r].pc # "new" =>
        request[r].batch \in Batches /\ request[r].key \in Keys
  BY DEF RefusalInv, ImportInv, RequestsAreOfBatches
<1>1. ASSUME NEW r \in Requests, LockKey(r) \/ ReadToken(r) \/ LockBatch(r)
      PROVE  KeyedAreOver' /\ WritersHoldPreviews' /\ RefusedHaveFailed'
  <2>1. batch' = batch /\ request[r].batch \in Batches
    BY <1>0, <1>1 DEF LockKey, ReadToken, LockBatch, BatchUntouched
  <2>2. \A b \in Batches, q \in Requests \ {r} : rowLock[b] = q => rowLock'[b] = q
    BY <1>1, <2>1
       DEF LockKey, ReadToken, LockBatch, KeepLocks, Requests, None, RefusalInv, ImportInv,
           ImportTypeOK
  <2>3. CASE LockKey(r)
    BY <2>1, <2>2, <2>3, RefusalGoes DEF LockKey, Stages, RefusalInv, KeyedAreOver
  <2>4. CASE ReadToken(r)
    BY <2>1, <2>2, <2>4, RefusalGoes DEF ReadToken, Stages, RefusalInv, KeyedAreOver
  <2>5. CASE LockBatch(r)
    <3>1. rowLock'[request[r].batch] = r /\ batch'[request[r].batch].status = "previewed"
      BY <2>1, <2>5 DEF LockBatch, Committable, RefusalInv, ImportInv, ImportTypeOK
    <3> QED
      BY <2>1, <2>2, <2>5, <3>1, RefusalGoes DEF LockBatch, Stages, RefusalInv, KeyedAreOver
  <2> QED
    BY <1>1, <2>3, <2>4, <2>5
<1>2. ASSUME NEW r \in Requests, Replay(r)
      PROVE  KeyedAreOver' /\ WritersHoldPreviews' /\ RefusedHaveFailed'
  <2>1. PICK b \in Recorded(request[r].key) :
          Answer(r, IF b = request[r].batch THEN Outcome(b) ELSE "conflict")
    BY <1>2 DEF Replay
  <2>2. /\ b \in Batches /\ request[r].batch \in Batches
        /\ batch' = batch /\ rowLock' = rowLock
        /\ batch[b].status \in {"committed", "failed"}
    BY <1>0, <1>2 DEF Replay, Recorded, KeepLocks, BatchUntouched, RefusalInv, KeyedAreOver, Keys, None
  <2>3. /\ (IF b = request[r].batch THEN Outcome(b) ELSE "conflict") \in Answers
        /\ (IF b = request[r].batch THEN Outcome(b) ELSE "conflict") = "failed before"
             => batch'[request[r].batch].status = "failed"
    BY <2>2 DEF Outcome, Answers
  <2> QED
    BY <2>1, <2>2, <2>3, RefusalIsAnswered DEF RefusalInv, KeyedAreOver
<1>3. ASSUME NEW r \in Requests, TokenMissing(r)
      PROVE  KeyedAreOver' /\ WritersHoldPreviews' /\ RefusedHaveFailed'
  <2>1. request[r].batch \in Batches
    BY <1>0, <1>3 DEF TokenMissing
  <2>2. /\ \A b \in Batches : batch[b].status = "failed" => batch'[b].status = "failed"
        /\ \A b \in Batches, q \in Requests \ {r} :
              rowLock[b] = q => batch'[b].status = batch[b].status
        /\ KeyedAreOver'
    BY <1>3, <2>1
       DEF TokenMissing, StillPreview, RefusalInv, KeyedAreOver, ImportInv, ImportTypeOK,
           Requests, None
  <2>3. \A b \in Batches, q \in Requests \ {r} : rowLock[b] = q => rowLock'[b] = q
    BY <1>3, EndKeepsOthers DEF TokenMissing
  <2> QED
    BY <1>3, <2>1, <2>2, <2>3, RefusalIsAnswered DEF TokenMissing, Answers
<1>4. ASSUME NEW r \in Requests, BatchRefused(r) \/ RequestIsKilled(r)
      PROVE  KeyedAreOver' /\ WritersHoldPreviews' /\ RefusedHaveFailed'
  <2>1. request[r].batch \in Batches /\ batch' = batch
    BY <1>0, <1>4 DEF BatchRefused, RequestIsKilled, BatchUntouched
  <2>2. \A b \in Batches, q \in Requests \ {r} : rowLock[b] = q => rowLock'[b] = q
    BY <1>4, EndKeepsOthers DEF BatchRefused, RequestIsKilled
  <2>3. "error" \in Answers /\ "nothing" \in Answers
    BY DEF Answers
  <2> QED
    BY <1>4, <2>1, <2>2, <2>3, RefusalIsAnswered
       DEF BatchRefused, RequestIsKilled, RefusalInv, KeyedAreOver
<1>5. ASSUME NEW r \in Requests, CommitImport(r) \/ CommitAnswerLost(r)
      PROVE  KeyedAreOver' /\ WritersHoldPreviews' /\ RefusedHaveFailed'
  <2>1. /\ request[r].batch \in Batches /\ request[r].pc = "write"
        /\ WriteRows(r) /\ (Go(r, "cleanup") \/ Go(r, "failing"))
    BY <1>0, <1>5 DEF CommitImport, CommitAnswerLost, MayWrite
  <2>2. /\ rowLock[request[r].batch] = r
        /\ batch[request[r].batch].status = "previewed"
    BY <2>1 DEF RefusalInv, WritersHoldPreviews
  <2>3. /\ batch' = [batch EXCEPT ![request[r].batch] =
                       [status |-> "committed", key |-> request[r].key]]
        /\ EndTransaction(r)
    BY <2>1 DEF WriteRows
  <2>4. /\ \A b \in Batches : batch[b].status = "failed" => batch'[b].status = "failed"
        /\ KeyedAreOver'
    BY <2>1, <2>2, <2>3 DEF RefusalInv, KeyedAreOver, ImportInv, ImportTypeOK
  <2>5. \A b \in Batches, q \in Requests \ {r} :
          rowLock[b] = q => rowLock'[b] = q /\ batch'[b].status = batch[b].status
    BY <2>1, <2>2, <2>3, EndKeepsOthers DEF RefusalInv, ImportInv, ImportTypeOK
  <2> QED
    BY <2>1, <2>4, <2>5, RefusalGoes DEF Stages
<1>6. ASSUME NEW r \in Requests, WriteRefused(r) \/ WriteRaises(r)
      PROVE  KeyedAreOver' /\ WritersHoldPreviews' /\ RefusedHaveFailed'
  <2>1. request[r].batch \in Batches /\ batch' = batch
    BY <1>0, <1>6 DEF WriteRefused, WriteRaises, BatchUntouched
  <2>2. \A b \in Batches, q \in Requests \ {r} : rowLock[b] = q => rowLock'[b] = q
    BY <1>6, EndKeepsOthers DEF WriteRefused, WriteRaises
  <2> QED
    BY <1>6, <2>1, <2>2, RefusalGoes
       DEF WriteRefused, WriteRaises, Stages, RefusalInv, KeyedAreOver
<1>7. ASSUME NEW r \in Requests, RecordFailure(r)
      PROVE  KeyedAreOver' /\ WritersHoldPreviews' /\ RefusedHaveFailed'
  <2>1. request[r].batch \in Batches /\ rowLock' = rowLock /\ rowLock[request[r].batch] = None
    BY <1>0, <1>7 DEF RecordFailure
  <2>2. /\ \A b \in Batches : batch[b].status = "failed" => batch'[b].status = "failed"
        /\ \A b \in Batches, q \in Requests \ {r} :
              rowLock[b] = q => batch'[b].status = batch[b].status
        /\ KeyedAreOver'
    BY <1>7, <2>1
       DEF RecordFailure, StillPreview, RefusalInv, KeyedAreOver, ImportInv, ImportTypeOK,
           Requests, None
  <2>3. Answer(r, "error") /\ "error" \in Answers
    BY <1>7 DEF RecordFailure, Answers
  <2> QED
    BY <2>1, <2>2, <2>3, RefusalIsAnswered
<1>8. ASSUME NEW r \in Requests, DeleteToken(r)
      PROVE  KeyedAreOver' /\ WritersHoldPreviews' /\ RefusedHaveFailed'
  <2>1. request[r].batch \in Batches /\ batch' = batch /\ rowLock' = rowLock
    BY <1>0, <1>8 DEF DeleteToken
  <2>2. Answer(r, "imported") /\ "imported" \in Answers
    BY <1>8 DEF DeleteToken, Answers
  <2> QED
    BY <2>1, <2>2, RefusalIsAnswered DEF RefusalInv, KeyedAreOver
<1>9. ASSUME NEW b \in Batches,
             \/ Preview(b) \/ PreviewIsKilled(b) \/ PreviewExpires(b) \/ TokenExpires(b)
      PROVE  KeyedAreOver' /\ WritersHoldPreviews' /\ RefusedHaveFailed'
  <2>1. CASE Preview(b)
    <3>1. /\ batch[b].status = "none" /\ request' = request /\ rowLock' = rowLock
          /\ batch' = [batch EXCEPT ![b].status = "previewed"]
      BY <2>1 DEF Preview, NextPreview, Begun
    <3>2. /\ \A a \in Batches \ {b} : batch'[a] = batch[a]
          /\ batch'[b].status = "previewed" /\ batch'[b].key = batch[b].key
      BY <3>1 DEF RefusalInv, ImportInv, ImportTypeOK
    <3>3. KeyedAreOver'
      BY <3>1, <3>2 DEF RefusalInv, KeyedAreOver
    <3>4. WritersHoldPreviews'
      BY <1>0, <3>1, <3>2 DEF RefusalInv, WritersHoldPreviews
    <3>5. RefusedHaveFailed'
      BY <3>1, <3>2 DEF RefusalInv, RefusedHaveFailed
    <3> QED
      BY <3>3, <3>4, <3>5
  <2>2. CASE PreviewIsKilled(b) \/ PreviewExpires(b) \/ TokenExpires(b)
    <3>1. batch' = batch /\ request' = request /\ rowLock' = rowLock
      BY <2>2 DEF PreviewIsKilled, PreviewExpires, TokenExpires
    <3> QED
      BY <3>1 DEF RefusalInv, KeyedAreOver, WritersHoldPreviews, RefusedHaveFailed
  <2> QED
    BY <1>9, <2>1, <2>2
<1>10. ASSUME NEW r \in Requests, NEW b \in Batches, NEW k \in Keys, Submit(r, b, k)
       PROVE  KeyedAreOver' /\ WritersHoldPreviews' /\ RefusedHaveFailed'
  <2>1. /\ batch' = batch /\ rowLock' = rowLock
        /\ request' = [request EXCEPT ![r] = [pc |-> "lock", batch |-> b, key |-> k,
                                              told |-> "nothing"]]
    BY <1>10 DEF Submit, KeepLocks, BatchUntouched
  <2>2. /\ request'[r].pc = "lock" /\ request'[r].told = "nothing"
        /\ \A q \in Requests \ {r} : request'[q] = request[q]
    BY <2>1 DEF RefusalInv, ImportInv, RequestsAreOfBatches
  <2>3. KeyedAreOver'
    BY <2>1 DEF RefusalInv, KeyedAreOver
  <2>4. WritersHoldPreviews'
    BY <2>1, <2>2 DEF RefusalInv, WritersHoldPreviews
  <2>5. RefusedHaveFailed'
    BY <2>1, <2>2 DEF RefusalInv, RefusedHaveFailed
  <2> QED
    BY <2>3, <2>4, <2>5
<1>11. CASE UNCHANGED importVars
  BY <1>11
     DEF importVars, RefusalInv, KeyedAreOver, WritersHoldPreviews, RefusedHaveFailed
<1> QED
  BY <1>1, <1>2, <1>3, <1>4, <1>5, <1>6, <1>7, <1>8, <1>9, <1>10, <1>11
     DEF ImportNext, RequestStep

\* A batch is typed, and a lock is free or held by one request.
THEOREM ImportTypes == ImportSpec => []ImportTypeOK
<1>1. ImportInv => ImportTypeOK
  BY DEF ImportInv
<1> QED
  BY <1>1, ImportInvariant, PTL

\* However often the commit is sent, under whatever keys and from whatever
\* previews of the workbook, at most one batch writes its rows, once.
THEOREM ImportedOnce == ImportSpec => []RowsImportedOnce
<1>1. ImportInv => RowsImportedOnce
  BY DEF ImportInv
<1> QED
  BY <1>1, ImportInvariant, PTL

\* The status of a batch is true of its rows, whatever answers were lost.
THEOREM CommittedImported == ImportSpec => []CommittedMeansImported
<1>1. ImportInv => CommittedMeansImported
  BY DEF ImportInv
<1> QED
  BY <1>1, ImportInvariant, PTL

\* A client that is told that the import was done can rely on it.
THEOREM AnswersAreTrue == ImportSpec => []AnsweredImported
<1>1. ImportInv => AnsweredImported
  BY DEF ImportInv
<1> QED
  BY <1>1, ImportInvariant, PTL

\* For any number of previews, keys, requests and faults an import is exact: the
\* rows are written once, the batch is called committed exactly when they were,
\* and whoever is told of a success or of a failure can rely on it.
THEOREM ImportedExactly == ImportSpec => []ImportsAreExact
<1>1. RefusalInv => FailureIsFinal
  <2>1. ASSUME RefusalInv, NEW r \in Requests, NEW q \in Requests, BatchOf(r) = BatchOf(q),
               request[r].told = "failed before", request[q].told = "imported"
        PROVE  FALSE
    <3>1. BatchOf(q) \in Batches /\ batch[BatchOf(q)].status = "failed"
      BY <2>1 DEF RefusalInv, RefusedHaveFailed, BatchOf
    <3>2. imported[BatchOf(q)] = 1
      BY <2>1 DEF RefusalInv, ImportInv, AnsweredImported
    <3> DEFINE b == BatchOf(q)
    <3>3. b \in Batches /\ batch[b].status # "committed"
      BY <3>1
    <3> HIDE DEF b
    <3>4. imported[b] = 0
      BY <2>1, <3>3 DEF RefusalInv, ImportInv, CommittedMeansImported
    <3> QED
      BY <3>2, <3>4 DEF b
  <2> QED
    BY <2>1 DEF FailureIsFinal
<1>2. RefusalInv => ImportsAreExact
  BY <1>1 DEF RefusalInv, ImportInv, ImportsAreExact
<1> QED
  BY <1>2, RefusalInitInv, RefusalStepInv, PTL DEF ImportSpec

-----------------------------------------------------------------------------
(***************************************************************************)
(* The review of the versions of a task.  What ReviewSafe says is seldom   *)
(* inductive: an issue is answered because the submission that brought the *)
(* version in had to answer all that were open, and a version is judged    *)
(* only under the page that shows its last candidate.                      *)
(***************************************************************************)

NoteRecord ==
  [round : 1..MaxRounds, cycle : 1..MaxReviews, by : Directors,
   status : {"open", "resolved"}, solvedIn : 0..MaxRounds]
DraftRecord == [id : IssueIds, round : 1..MaxRounds, cycle : 1..MaxReviews, by : Directors]
PageRecord ==
  [round : 0..MaxRounds, cycle : 0..MaxReviews, fresh : BOOLEAN,
   drafts : SUBSET (0..MaxIssues), carried : SUBSET IssueIds]

\* The status of the last version is that of the task; the others are refused.
StatusOf(s) ==
  CASE s = "pending_review" -> "pending_review"
    [] s = "revision" -> "rejected"
    [] s = "completed" -> "final"
    [] OTHER -> "none"
RoundsTell ==
  /\ stage \in {"in_progress", "pending_review", "revision", "completed"}
  /\ rounds \in Seq(RoundType) /\ Latest <= MaxRounds
  /\ stage = "in_progress" <=> Latest = 0
  /\ Latest > 0 => rounds[Latest].status = StatusOf(stage)
  /\ \A v \in 1..Latest : v # Latest => rounds[v].status = "rejected"

\* Where the rows of the cycles of a version stand.
OutcomeOf(status) ==
  CASE status = "final" -> "approve" [] status = "rejected" -> "reject" [] OTHER -> "open"
CycleTells(r) ==
  /\ \A i \in 1..(r.cycle - 1) : r.outcomes[i] = "approve"
  /\ IF r.status = "pending_review" /\ r.cycle = 1 THEN r.outcomes = <<>>
     ELSE Len(r.outcomes) = r.cycle /\ r.outcomes[r.cycle] = OutcomeOf(r.status)
CyclesTell == \A v \in 1..Latest : CycleTells(rounds[v])

\* An issue belongs to a version there is; it is closed by one that came later
\* and answered it, and the version under review answers those still open.
NotesTell ==
  /\ notes \in Seq(NoteRecord)
  /\ \A n \in 1..Len(notes) :
       /\ notes[n].round <= Latest
       /\ notes[n].status = "resolved" =>
            /\ notes[n].solvedIn \in 1..Latest /\ notes[n].solvedIn > notes[n].round
            /\ n \in rounds[notes[n].solvedIn].answers
       /\ notes[n].status = "open" =>
            /\ stage # "completed"
            /\ stage = "pending_review" /\ notes[n].round # Latest => n \in rounds[Latest].answers
  /\ stage = "revision" => \E n \in 1..Len(notes) : notes[n].status = "open"

DraftsTell ==
  /\ drafts \subseteq DraftRecord /\ IsFiniteSet(drafts)
  /\ Len(notes) + Cardinality(drafts) <= MaxIssues
  /\ \A x \in drafts :
       /\ stage = "pending_review" /\ x.round = Latest /\ Latest > 0
       /\ x.cycle = rounds[Latest].cycle

\* While a submission is under way nothing is decided and no issue is added.
UploadTells ==
  /\ \/ upload = NoUpload
     \/ upload.mode \in {"append", "new_round"} /\ upload.files \in 1..MaxFiles
  /\ FilesSoFar + upload.files <= MaxFiles
  /\ upload.mode = "new_round" => Latest < MaxRounds /\ upload.answers = OpenIssues

PagesTell ==
  /\ page \in [Directors -> PageRecord]
  /\ \A d \in Directors : page[d].round <= Latest
FormTells == form.mode \in {"none", "append", "new_round"} /\ (form.mode = "none" => form = NoForm)

ReviewInv ==
  /\ RoundsTell /\ CyclesTell /\ NotesTell /\ DraftsTell
  /\ UploadTells /\ PagesTell /\ FormTells

-----------------------------------------------------------------------------
(* The state in the terms of the proofs.                                   *)

LEMMA Bounds ==
  /\ MaxRounds \in Nat /\ MaxRounds >= 1 /\ MaxFiles \in Nat /\ MaxFiles >= 1
  /\ MaxIssues \in Nat /\ MaxIssues >= 1 /\ MaxReviews \in Nat /\ MaxReviews >= 1
BY ReviewAssumption

LEMMA RoundsAre ==
  ASSUME RoundsTell
  PROVE  /\ Latest \in Nat /\ DOMAIN rounds = 1..Latest
         /\ \A v \in 1..Latest : rounds[v] \in RoundType
BY DEF RoundsTell, Latest

LEMMA NotesAre ==
  ASSUME NotesTell
  PROVE  /\ Len(notes) \in Nat /\ DOMAIN notes = 1..Len(notes)
         /\ \A n \in 1..Len(notes) : notes[n] \in NoteRecord
BY DEF NotesTell

\* The fields of a version.
LEMMA RoundFields ==
  ASSUME NEW r \in RoundType
  PROVE  /\ r.status \in {"pending_review", "rejected", "final"}
         /\ r.cycle \in 1..MaxReviews /\ r.cycle \in Nat /\ r.cycle >= 1
         /\ r.files \in 1..MaxFiles /\ r.files \in Nat
         /\ r.selected \in 0..MaxFiles
         /\ r.list \in {"active", "completed"} /\ r.answers \subseteq IssueIds
         /\ r.outcomes \in Seq({"open", "approve", "reject"})
BY Bounds DEF RoundType

\* Only the last version is under review, and only while the task is.
LEMMA ReviewedIsLatest ==
  ASSUME RoundsTell, NEW v \in 1..Latest, InReview(v)
  PROVE  v = Latest /\ Latest > 0 /\ stage = "pending_review"
BY RoundsAre DEF RoundsTell, InReview

LEMMA OpenIssuesAre ==
  ASSUME ReviewInv
  PROVE  OpenIssues = {n \in 1..Len(notes) : notes[n].status = "open"} /\ OpenIssues \subseteq IssueIds
<1>1. DOMAIN notes = 1..Len(notes) /\ Len(notes) \in Nat
  BY NotesAre DEF ReviewInv
<1>2. Cardinality(drafts) \in Nat
  BY FS_CardinalityType DEF ReviewInv, DraftsTell
<1>3. Len(notes) <= MaxIssues
  BY <1>1, <1>2, Bounds DEF ReviewInv, DraftsTell
<1> QED
  BY <1>1, <1>3, Bounds DEF OpenIssues, IssueIds

\* What the runs check follows.
LEMMA InvMeansReviewSafe == ReviewInv => ReviewSafe
<1> SUFFICES ASSUME ReviewInv PROVE ReviewSafe
  OBVIOUS
<1>1. /\ Latest \in Nat /\ DOMAIN rounds = 1..Latest
      /\ \A v \in 1..Latest : rounds[v] \in RoundType
  BY RoundsAre DEF ReviewInv
<1>2. /\ Len(notes) \in Nat /\ DOMAIN notes = 1..Len(notes)
      /\ \A n \in 1..Len(notes) : notes[n] \in NoteRecord
  BY NotesAre DEF ReviewInv
<1>3. ReviewTypeOK
  BY DEF ReviewInv, ReviewTypeOK, RoundsTell, NotesTell, DraftsTell, PagesTell, NoteRecord,
         DraftRecord, PageRecord
<1>4. NothingForgotten
  <2> SUFFICES ASSUME stage = "completed"
               PROVE  /\ OpenIssues = {} /\ drafts = {}
                      /\ \A v \in DOMAIN rounds : rounds[v].status = "final" <=> v = Latest
    BY DEF NothingForgotten
  <2>1. OpenIssues = {}
    BY <1>2 DEF ReviewInv, NotesTell, OpenIssues
  <2>2. drafts = {}
    BY DEF ReviewInv, DraftsTell
  <2>3. rounds[Latest].status = "final"
    BY <1>1 DEF ReviewInv, RoundsTell, StatusOf
  <2> QED
    BY <1>1, <2>1, <2>2, <2>3 DEF ReviewInv, RoundsTell
<1>5. RevisionHasIssues
  BY <1>1, <1>2 DEF ReviewInv, RevisionHasIssues, RoundsTell, NotesTell, StatusOf, OpenIssues
<1>6. DraftsBelongToOpenCycle
  BY <1>1 DEF ReviewInv, DraftsBelongToOpenCycle, DraftsTell, InReview, RoundsTell, StatusOf
<1>7. CyclesTellTheHistory
  BY <1>1, RoundFields DEF ReviewInv, CyclesTell, CyclesTellTheHistory, CycleTells, OutcomeOf
<1>8. SolvedByAnAnswer
  BY <1>2 DEF ReviewInv, NotesTell, SolvedByAnAnswer
<1> QED
  BY <1>3, <1>4, <1>5, <1>6, <1>7, <1>8 DEF ReviewSafe

LEMMA InvMeansHistoryIsAnswered == ReviewInv => HistoryIsAnswered
BY NotesAre DEF ReviewInv, HistoryIsAnswered, UploadTells, NotesTell, OpenIssues

LEMMA ReviewInitInv == ReviewInit => ReviewInv
<1> SUFFICES ASSUME ReviewInit PROVE ReviewInv
  OBVIOUS
<1>1. Latest = 0 /\ Len(notes) = 0 /\ 1..0 = {}
  BY DEF ReviewInit, Latest
<1>2. IsFiniteSet(drafts) /\ Cardinality(drafts) = 0
  BY FS_EmptySet DEF ReviewInit
<1>3. RoundsTell
  BY <1>1, Bounds DEF ReviewInit, RoundsTell
<1>4. NotesTell
  BY <1>1 DEF ReviewInit, NotesTell
<1>5. FilesSoFar = 0
  <2>1. Candidates = {}
    BY <1>1 DEF ReviewInit, Candidates
  <2> QED
    BY <2>1, FS_EmptySet DEF FilesSoFar
<1>6. UploadTells
  BY <1>5, Bounds DEF ReviewInit, UploadTells, NoUpload
<1>7. PagesTell
  BY <1>1, Bounds DEF ReviewInit, PagesTell, PageRecord, NoPage
<1> QED
  BY <1>1, <1>2, <1>3, <1>4, <1>6, <1>7, Bounds
     DEF ReviewInit, ReviewInv, CyclesTell, DraftsTell, FormTells, NoForm

-----------------------------------------------------------------------------
(* Steps that leave the versions and issues alone.                         *)

LEMMA LockRaisedPages ==
  ASSUME PagesTell, NEW v
  PROVE  LockRaised(v) \in [Directors -> PageRecord] /\ \A d \in Directors : LockRaised(v)[d].round = page[d].round
BY DEF LockRaised, PagesTell, PageRecord

LEMMA OutdatedPages ==
  ASSUME NEW p \in [Directors -> PageRecord], NEW ids
  PROVE  /\ Outdated(p, ids) \in [Directors -> PageRecord]
         /\ \A d \in Directors : Outdated(p, ids)[d].round = p[d].round
<1>1. ASSUME NEW d \in Directors
      PROVE  {IF i \in ids THEN 0 ELSE i : i \in p[d].drafts} \in SUBSET (0..MaxIssues)
  BY Bounds DEF PageRecord
<1> QED
  BY <1>1 DEF Outdated, PageRecord

\* Drafts and pages may change; what the drafts say must be shown.
LEMMA QuietStep ==
  ASSUME ReviewInv, UNCHANGED <<stage, rounds, notes, upload>>, DraftsTell',
         page' \in [Directors -> PageRecord], \A d \in Directors : page'[d].round <= Latest,
         FormTells'
  PROVE  ReviewInv'
<1>1. RoundsTell' /\ CyclesTell'
  BY DEF ReviewInv, RoundsTell, CyclesTell, Latest
<1>2. NotesTell'
  BY DEF ReviewInv, NotesTell, Latest
<1>3. UploadTells'
  BY DEF ReviewInv, UploadTells, FilesSoFar, Candidates, OpenIssues, Latest
<1>4. PagesTell'
  BY DEF PagesTell, Latest
<1> QED
  BY <1>1, <1>2, <1>3, <1>4 DEF ReviewInv

LEMMA DraftsRest ==
  ASSUME ReviewInv, UNCHANGED <<stage, rounds, notes, drafts>>
  PROVE  DraftsTell'
BY DEF ReviewInv, DraftsTell, Latest

LEMMA OpenPageStep ==
  ASSUME ReviewInv, NEW d \in Directors, NEW v \in DOMAIN rounds, OpenPage(d, v)
  PROVE  ReviewInv'
<1>1. v \in 1..Latest /\ rounds[v] \in RoundType /\ Latest \in Nat
  BY RoundsAre DEF ReviewInv
<1>2. DraftIds(v) \subseteq 0..MaxIssues
  BY Bounds DEF ReviewInv, DraftsTell, DraftIds, DraftsOf, DraftRecord, IssueIds
<1>3. Carried(v) \subseteq IssueIds
  BY OpenIssuesAre DEF Carried
<1> DEFINE new == [round |-> v, cycle |-> rounds[v].cycle, fresh |-> TRUE,
                   drafts |-> DraftIds(v), carried |-> Carried(v)]
<1>4. new \in PageRecord /\ new.round = v
  BY <1>1, <1>2, <1>3, RoundFields, Bounds DEF ReviewInv, RoundsTell, PageRecord
<1>5. page' = [page EXCEPT ![d] = new]
  BY DEF OpenPage
<1> HIDE DEF new
<1>6. page' \in [Directors -> PageRecord] /\ \A e \in Directors : page'[e].round <= Latest
  BY <1>1, <1>4, <1>5 DEF ReviewInv, PagesTell
<1> QED
  BY <1>6, QuietStep, DraftsRest DEF OpenPage, ReviewInv, FormTells

\* Locks raised and drafts outdated on the pages, and nothing else.
LEMMA PagesOnly ==
  ASSUME ReviewInv, UNCHANGED <<stage, rounds, notes, upload, form>>, DraftsTell',
         NEW v, NEW ids, page' \in {LockRaised(v), Outdated(page, ids), Outdated(LockRaised(v), ids)}
  PROVE  ReviewInv'
<1>1. page' \in [Directors -> PageRecord] /\ \A e \in Directors : page'[e].round <= Latest
  BY LockRaisedPages, OutdatedPages DEF ReviewInv, PagesTell
<1> QED
  BY <1>1, QuietStep DEF ReviewInv, FormTells

LEMMA UpdateDraftStep ==
  ASSUME ReviewInv, NEW d \in Directors, NEW x \in drafts, UpdateDraft(d, x)
  PROVE  ReviewInv'
BY DraftsRest, PagesOnly DEF UpdateDraft

LEMMA DeferStep == ASSUME ReviewInv, NEW d \in Directors, Defer(d) PROVE ReviewInv'
BY DraftsRest, PagesOnly DEF Defer

LEMMA EditIssueStep ==
  ASSUME ReviewInv, NEW d \in Directors, NEW n, EditIssue(d, n)
  PROVE  ReviewInv'
BY DraftsRest, PagesOnly DEF EditIssue

LEMMA PreflightStep ==
  ASSUME ReviewInv, NEW mode \in {"append", "new_round"}, Preflight(mode)
  PROVE  ReviewInv'
<1>1. FormTells'
  BY DEF Preflight, FormTells, NoForm
<1>2. page' \in [Directors -> PageRecord] /\ \A e \in Directors : page'[e].round <= Latest
  BY DEF Preflight, ReviewInv, PagesTell
<1> QED
  BY <1>1, <1>2, DraftsRest, QuietStep DEF Preflight

LEMMA DeleteDraftStep ==
  ASSUME ReviewInv, NEW d \in Directors, NEW x \in drafts, DeleteDraft(d, x)
  PROVE  ReviewInv'
<1>1. IsFiniteSet(drafts') /\ Cardinality(drafts') <= Cardinality(drafts)
      /\ Cardinality(drafts) \in Nat /\ Cardinality(drafts') \in Nat
  <2>1. IsFiniteSet(drafts) /\ drafts' = drafts \ {x}
    BY DEF ReviewInv, DraftsTell, DeleteDraft
  <2>2. IsFiniteSet(drafts \ {x}) /\ Cardinality(drafts \ {x}) <= Cardinality(drafts)
    BY <2>1, FS_Subset
  <2> QED
    BY <2>1, <2>2, FS_CardinalityType
<1>2. Len(notes) \in Nat
  BY NotesAre DEF ReviewInv
<1>3. DraftsTell'
  BY <1>1, <1>2, Bounds DEF ReviewInv, DraftsTell, DeleteDraft, Latest
<1> QED
  BY <1>3, PagesOnly DEF DeleteDraft

-----------------------------------------------------------------------------
(* A new draft of the version under review.                                *)

LEMMA NewDraftIs ==
  ASSUME ReviewInv, RoomForIssue, Latest > 0, NEW d \in Directors
  PROVE  /\ NewDraft(d, Latest) \in DraftRecord
         /\ NewDraft(d, Latest).round = Latest
         /\ NewDraft(d, Latest).cycle = rounds[Latest].cycle
<1>1. Cardinality(drafts) \in Nat /\ Len(notes) \in Nat /\ Cardinality(drafts) < MaxIssues
  BY FS_CardinalityType, NotesAre, Bounds DEF ReviewInv, DraftsTell, RoomForIssue
<1>2. Cardinality(IssueIds) = MaxIssues
  BY FS_Interval, Bounds DEF IssueIds
<1>3. \E i \in IssueIds : \A x \in drafts : x.id # i
  <2> SUFFICES ASSUME \A i \in IssueIds : \E x \in drafts : x.id = i PROVE FALSE
    OBVIOUS
  <2> DEFINE f == [x \in drafts |-> x.id]
  <2>1. f \in [drafts -> IssueIds]
    BY DEF ReviewInv, DraftsTell, DraftRecord
  <2>2. f \in Surjection(drafts, IssueIds)
    BY <2>1 DEF Surjection
  <2>3. Cardinality(IssueIds) <= Cardinality(drafts)
    BY <2>2, FS_Surjection DEF ReviewInv, DraftsTell
  <2> QED
    BY <1>1, <1>2, <2>3, Bounds
<1> DEFINE i == CHOOSE j \in IssueIds : \A x \in drafts : x.id # j
<1>4. i \in IssueIds
  BY <1>3
<1>5. NewDraft(d, Latest) = [id |-> i, round |-> Latest, cycle |-> rounds[Latest].cycle, by |-> d]
  BY DEF NewDraft
<1>6. Latest \in 1..MaxRounds /\ rounds[Latest].cycle \in 1..MaxReviews
  BY RoundsAre, RoundFields, Bounds DEF ReviewInv, RoundsTell
<1> HIDE DEF i
<1> QED
  BY <1>4, <1>5, <1>6 DEF DraftRecord

LEMMA DraftAdded ==
  ASSUME ReviewInv, UNCHANGED <<stage, rounds, notes>>, RoomForIssue, NEW d \in Directors,
         InReview(Latest), Latest > 0, drafts' = drafts \cup {NewDraft(d, Latest)}
  PROVE  DraftsTell'
<1>1. /\ IsFiniteSet(drafts') /\ Cardinality(drafts') <= Cardinality(drafts) + 1
      /\ Cardinality(drafts) \in Nat /\ Cardinality(drafts') \in Nat
  <2> DEFINE x == NewDraft(d, Latest)
  <2>1. IsFiniteSet(drafts) /\ drafts' = drafts \cup {x}
    BY DEF ReviewInv, DraftsTell
  <2> HIDE DEF x
  <2>2. Cardinality(drafts) \in Nat
    BY <2>1, FS_CardinalityType
  <2>3. /\ IsFiniteSet(drafts \cup {x})
        /\ Cardinality(drafts \cup {x}) \in {Cardinality(drafts), Cardinality(drafts) + 1}
    BY <2>1, FS_AddElement
  <2> QED
    BY <2>1, <2>2, <2>3
<1>2. Len(notes) \in Nat
  BY NotesAre DEF ReviewInv
<1>3. Len(notes') + Cardinality(drafts') <= MaxIssues
  BY <1>1, <1>2, Bounds DEF RoomForIssue
<1> QED
  BY <1>1, <1>3, NewDraftIs DEF ReviewInv, DraftsTell, InReview, Latest

LEMMA PageOnLatest ==
  ASSUME ReviewInv, NEW d \in Directors, page[d].round # 0
  PROVE  /\ page[d].round \in 1..Latest /\ page[d].round \in Nat
         /\ InReview(page[d].round) => page[d].round = Latest
<1>1. page[d].round \in 1..Latest
  BY RoundsAre, Bounds DEF ReviewInv, PagesTell, PageRecord
<1> QED
  BY <1>1, ReviewedIsLatest DEF ReviewInv

LEMMA AddDraftStep == ASSUME ReviewInv, NEW d \in Directors, AddDraft(d) PROVE ReviewInv'
<1>1. page[d].round = Latest /\ Latest > 0
  BY PageOnLatest, RoundsAre DEF AddDraft, ReviewInv
<1>2. DraftsTell'
  BY <1>1, DraftAdded DEF AddDraft
<1>3. page' \in [Directors -> PageRecord] /\ \A e \in Directors : page'[e].round <= Latest
  BY DEF AddDraft, ReviewInv, PagesTell
<1> QED
  BY <1>2, <1>3, QuietStep DEF AddDraft, ReviewInv, FormTells

LEMMA SaveBatchStep ==
  ASSUME ReviewInv, NEW d \in Directors, NEW comment \in BOOLEAN, SaveBatch(d, comment)
  PROVE  ReviewInv'
<1>1. page[d].round = Latest /\ Latest > 0 /\ InReview(Latest)
  BY RoundsAre DEF SaveBatch, BatchComment, Reviewable, ReviewInv, PagesTell, PageRecord
<1>2. DraftsTell'
  <2>1. CASE comment
    BY <1>1, <2>1, DraftAdded DEF SaveBatch, BatchComment
  <2>2. CASE ~comment
    <3>1. drafts' = drafts
      BY <2>2 DEF SaveBatch
    <3> QED
      BY <3>1, DraftsRest DEF SaveBatch
  <2> QED
    BY <2>1, <2>2
<1> QED
  BY <1>2, PagesOnly DEF SaveBatch

-----------------------------------------------------------------------------
(* How many candidates there are.                                          *)

Row(v, a, b) == {v} \X ((a + 1)..b)

LEMMA RowIs ==
  ASSUME NEW v, NEW a \in Nat, NEW b \in Nat, a <= b
  PROVE  IsFiniteSet(Row(v, a, b)) /\ Cardinality(Row(v, a, b)) = b - a
<1> DEFINE S == (a + 1)..b
           T == {v} \X ((a + 1)..b)
           f == [i \in S |-> <<v, i>>]
<1>1. IsFiniteSet(S) /\ Cardinality(S) = b - a
  <2>1. a + 1 \in Int /\ b \in Int
    OBVIOUS
  <2>2. IsFiniteSet(S) /\ Cardinality(S) = IF a + 1 > b THEN 0 ELSE b - (a + 1) + 1
    BY <2>1, FS_Interval
  <2> QED
    BY <2>2
<1>2. f \in Bijection(S, T)
  <2>1. f \in [S -> T] /\ \A i \in S : f[i] = <<v, i>>
    OBVIOUS
  <2>2. \A t \in T : \E i \in S : t = <<v, i>>
    OBVIOUS
  <2> HIDE DEF f, S, T
  <2>3. \A i, j \in S : f[i] = f[j] => i = j
    BY <2>1
  <2> QED
    BY <2>1, <2>2, <2>3 DEF Bijection, Injection, Surjection, IsInjective
<1>3. ExistsBijection(S, T)
  BY <1>2 DEF ExistsBijection
<1> HIDE DEF S, T, f
<1>4. IsFiniteSet(T) /\ Cardinality(T) = b - a
  BY <1>1, <1>3, FS_Bijection
<1> QED
  BY <1>4 DEF T, Row

LEMMA CandidatesAreFinite == ASSUME RoundsTell PROVE IsFiniteSet(Candidates)
<1>1. Latest \in Nat /\ DOMAIN rounds = 1..Latest /\ \A v \in 1..Latest : rounds[v].files \in 1..MaxFiles
  BY RoundsAre, RoundFields
<1>2. IsFiniteSet(1..Latest) /\ IsFiniteSet(1..MaxFiles)
  BY <1>1, Bounds, FS_Interval
<1>3. IsFiniteSet((1..Latest) \X (1..MaxFiles))
  BY <1>2, FS_Product
<1>4. Candidates \subseteq (1..Latest) \X (1..MaxFiles)
  BY <1>1, Bounds DEF Candidates
<1> QED
  BY <1>3, <1>4, FS_Subset

\* The candidates of a version are among those of all.
LEMMA FilesOfOne ==
  ASSUME NEW v \in DOMAIN rounds, rounds[v].files \in Nat, IsFiniteSet(Candidates)
  PROVE  rounds[v].files <= FilesSoFar
<1> DEFINE k == rounds[v].files
           S == Row(v, 0, k)
<1>1. 0 \in Nat /\ k \in Nat /\ 0 <= k
  OBVIOUS
<1>2. S \subseteq Candidates
  BY DEF Candidates, Row
<1> HIDE DEF k
<1>3. IsFiniteSet(S) /\ Cardinality(S) = k
  BY <1>1, RowIs
<1> HIDE DEF S
<1>4. Cardinality(S) <= Cardinality(Candidates)
  BY <1>2, FS_Subset
<1> QED
  BY <1>3, <1>4 DEF FilesSoFar, k

\* A version gets candidates number a + 1 to b.
LEMMA FilesAdded ==
  ASSUME NEW v, NEW a \in Nat, NEW b \in Nat, a <= b, IsFiniteSet(Candidates),
         Candidates' = Candidates \cup Row(v, a, b)
  PROVE  /\ IsFiniteSet(Candidates') /\ FilesSoFar' \in Nat /\ FilesSoFar \in Nat
         /\ FilesSoFar' <= FilesSoFar + (b - a)
<1> DEFINE New == Row(v, a, b)
           Old == Candidates
<1>1. IsFiniteSet(New) /\ Cardinality(New) = b - a
  BY RowIs
<1>2. Candidates' = Old \cup New /\ IsFiniteSet(Old) /\ Cardinality(Candidates') = FilesSoFar'
      /\ Cardinality(Old) = FilesSoFar
  BY DEF FilesSoFar
<1> HIDE DEF New, Old
<1>3. IsFiniteSet(Old \cup New) /\ IsFiniteSet(Old \cap New)
      /\ Cardinality(Old \cup New) = Cardinality(Old) + Cardinality(New) - Cardinality(Old \cap New)
  BY <1>1, <1>2, FS_Union, FS_Subset
<1>4. Cardinality(Old) \in Nat /\ Cardinality(Old \cap New) \in Nat /\ Cardinality(Old \cup New) \in Nat
  BY <1>2, <1>3, FS_CardinalityType
<1>5. FilesSoFar' = Cardinality(Old \cup New) /\ IsFiniteSet(Candidates')
  BY <1>2, <1>3
<1>6. b - a \in Int
  OBVIOUS
<1> QED
  BY <1>1, <1>2, <1>3, <1>4, <1>5, <1>6

-----------------------------------------------------------------------------
(* The last version is rewritten.                                          *)

RoundWritten(r) == rounds' = [rounds EXCEPT ![Latest] = r]

LEMMA RoundIsWritten ==
  ASSUME ReviewInv, Latest > 0, NEW r \in RoundType, RoundWritten(r)
  PROVE  /\ rounds' \in Seq(RoundType) /\ Latest' = Latest /\ DOMAIN rounds' = 1..Latest
         /\ Latest \in Nat /\ Latest \in 1..Latest /\ rounds'[Latest] = r
         /\ \A u \in 1..Latest : u # Latest => rounds'[u] = rounds[u]
<1>1. Latest \in Nat /\ rounds \in Seq(RoundType) /\ DOMAIN rounds = 1..Latest
  BY RoundsAre DEF ReviewInv, RoundsTell
<1> DEFINE k == Latest
           new == [rounds EXCEPT ![k] = r]
<1>2. rounds' = new /\ k \in 1..Len(rounds) /\ Len(rounds) = k /\ Latest' = Len(rounds')
  BY <1>1 DEF RoundWritten, Latest
<1> HIDE DEF k
<1>3. new \in Seq(RoundType) /\ Len(new) = Len(rounds)
      /\ \A j \in 1..Len(rounds) : new[j] = IF j = k THEN r ELSE rounds[j]
  BY <1>1, <1>2, ExceptSeq
<1> HIDE DEF new
<1>4. DOMAIN rounds' = 1..k
  BY <1>2, <1>3, LenProperties
<1> QED
  BY <1>1, <1>2, <1>3, <1>4 DEF k

LEMMA WrittenTells ==
  ASSUME ReviewInv, Latest > 0, NEW r \in RoundType, RoundWritten(r),
         stage' \in {"pending_review", "revision", "completed"},
         r.status = StatusOf(stage'), CycleTells(r)
  PROVE  RoundsTell' /\ CyclesTell'
<1>1. RoundsTell'
  BY RoundIsWritten DEF ReviewInv, RoundsTell
<1>2. CyclesTell'
  <2> SUFFICES ASSUME NEW u \in 1..Latest PROVE CycleTells(rounds'[u])
    BY RoundIsWritten DEF CyclesTell, CycleTells
  <2>1. CASE u = Latest
    BY <2>1, RoundIsWritten
  <2>2. CASE u # Latest
    BY <2>2, RoundIsWritten DEF ReviewInv, CyclesTell
  <2> QED
    BY <2>1, <2>2
<1> QED
  BY <1>1, <1>2

\* Issues may be closed by the last version, when it answered them, and added to it.
LEMMA WrittenNotes ==
  ASSUME ReviewInv, Latest > 0, NEW r \in RoundType, RoundWritten(r),
         r.answers = rounds[Latest].answers, UNCHANGED notes,
         stage' = "completed" => OpenIssues = {},
         stage' = "revision" => OpenIssues # {},
         stage' = "pending_review" => stage = "pending_review" \/ OpenIssues = {}
  PROVE  NotesTell'
<1>1. \A u \in 1..Latest : rounds'[u].answers = rounds[u].answers
  BY RoundIsWritten
<1>2. Latest \in 1..Latest /\ Latest' = Latest
  BY RoundIsWritten
<1>3. OpenIssues = {n \in 1..Len(notes) : notes[n].status = "open"}
  BY OpenIssuesAre
<1> QED
  BY <1>1, <1>2, <1>3 DEF ReviewInv, NotesTell

LEMMA WrittenFiles ==
  ASSUME ReviewInv, Latest > 0, NEW r \in RoundType, RoundWritten(r),
         r.files = rounds[Latest].files
  PROVE  Candidates' = Candidates /\ FilesSoFar' = FilesSoFar
<1>1. \A u \in 1..Latest : rounds'[u].files = rounds[u].files
  BY RoundIsWritten
<1>2. DOMAIN rounds = 1..Latest /\ DOMAIN rounds' = 1..Latest
  BY RoundIsWritten, RoundsAre DEF ReviewInv
<1> QED
  BY <1>1, <1>2 DEF Candidates, FilesSoFar

LEMMA WrittenUpload ==
  ASSUME ReviewInv, Latest > 0, NEW r \in RoundType, RoundWritten(r),
         r.files = rounds[Latest].files, UNCHANGED upload,
         notes' = notes \/ upload = NoUpload
  PROVE  UploadTells'
<1>1. FilesSoFar' = FilesSoFar /\ Latest' = Latest
  BY WrittenFiles, RoundIsWritten
<1> QED
  BY <1>1 DEF ReviewInv, UploadTells, OpenIssues, NoUpload

LEMMA WrittenPages ==
  ASSUME ReviewInv, Latest' = Latest, UNCHANGED form,
         NEW v, NEW ids, page' \in {page, LockRaised(v), Outdated(LockRaised(v), ids)}
  PROVE  PagesTell' /\ FormTells'
<1>1. page' \in [Directors -> PageRecord] /\ \A e \in Directors : page'[e].round <= Latest
  BY LockRaisedPages, OutdatedPages DEF ReviewInv, PagesTell
<1> QED
  BY <1>1 DEF ReviewInv, PagesTell, FormTells

LEMMA WrittenDrafts ==
  ASSUME ReviewInv, Latest > 0, NEW r \in RoundType, RoundWritten(r),
         UNCHANGED <<stage, notes, drafts>>, r.cycle = rounds[Latest].cycle
  PROVE  DraftsTell'
<1>1. rounds'[Latest].cycle = rounds[Latest].cycle /\ Latest' = Latest
  BY RoundIsWritten
<1> QED
  BY <1>1 DEF ReviewInv, DraftsTell

LEMMA NoDraftsTell ==
  ASSUME ReviewInv, drafts' = {}, notes' \in Seq(NoteRecord), Len(notes') <= MaxIssues
  PROVE  DraftsTell'
<1>1. IsFiniteSet(drafts') /\ Cardinality(drafts') = 0
  BY FS_EmptySet
<1>2. Len(notes') \in Nat
  OBVIOUS
<1> QED
  BY <1>1, <1>2, Bounds DEF DraftsTell

LEMMA SelectCandidateStep ==
  ASSUME ReviewInv, NEW d \in Directors, NEW c \in 1..MaxFiles, SelectCandidate(d, c)
  PROVE  ReviewInv'
<1>1. page[d].round = Latest /\ Latest > 0 /\ rounds[Latest] \in RoundType
      /\ rounds[Latest].status = "pending_review" /\ stage = "pending_review"
  BY PageOnLatest, RoundsAre DEF SelectCandidate, ReviewInv, InReview
<1> DEFINE old == rounds[Latest]
           r == [rounds[Latest] EXCEPT !.selected = c]
<1>2. r \in RoundType /\ r.answers = old.answers /\ r.files = old.files /\ r.cycle = old.cycle
      /\ r.status = old.status /\ r.outcomes = old.outcomes
  BY <1>1, Bounds DEF RoundType
<1>3. CycleTells(r)
  <2>1. CycleTells(old)
    BY <1>1, RoundsAre DEF ReviewInv, CyclesTell
  <2> HIDE DEF r, old
  <2> QED
    BY <1>2, <2>1 DEF CycleTells
<1>4. RoundWritten(r)
  BY <1>1 DEF SelectCandidate, RoundWritten
<1> HIDE DEF r, old
<1>5. /\ page' = LockRaised(Latest)
      /\ UNCHANGED <<stage, notes, drafts, upload, form>>
  BY <1>1 DEF SelectCandidate
<1>6. RoundsTell' /\ CyclesTell'
  BY <1>1, <1>2, <1>3, <1>4, <1>5, WrittenTells DEF StatusOf, old
<1>7. NotesTell'
  BY <1>1, <1>2, <1>4, <1>5, WrittenNotes DEF old
<1>8. DraftsTell'
  BY <1>1, <1>2, <1>4, <1>5, WrittenDrafts DEF old
<1>9. UploadTells'
  BY <1>1, <1>2, <1>4, <1>5, WrittenUpload DEF old
<1>10. PagesTell' /\ FormTells'
  BY <1>1, <1>2, <1>4, <1>5, WrittenPages, RoundIsWritten
<1> QED
  BY <1>6, <1>7, <1>8, <1>9, <1>10 DEF ReviewInv

LEMMA ReopenStep == ASSUME ReviewInv, NEW d \in Directors, Reopen(d) PROVE ReviewInv'
<1>1. page[d].round = Latest /\ Latest > 0 /\ rounds[Latest] \in RoundType
      /\ rounds[Latest].status = "final" /\ stage = "completed"
      /\ rounds[Latest].cycle < MaxReviews /\ upload = NoUpload
  BY PageOnLatest, RoundsAre DEF Reopen, ReviewInv
<1> DEFINE old == rounds[Latest]
           r == [old EXCEPT !.status = "pending_review", !.cycle = @ + 1, !.list = "active",
                            !.outcomes = Append(old.outcomes, "open")]
<1>2. old.outcomes \in Seq({"open", "approve", "reject"}) /\ old.cycle \in 1..MaxReviews
      /\ old.cycle + 1 \in 1..MaxReviews
  BY <1>1, RoundFields, Bounds
<1>3. Append(old.outcomes, "open") \in Seq({"open", "approve", "reject"})
  BY <1>2
<1>4. r \in RoundType /\ r.answers = old.answers /\ r.files = old.files
      /\ r.cycle = old.cycle + 1 /\ r.status = "pending_review"
      /\ r.outcomes = Append(old.outcomes, "open")
  BY <1>1, <1>2, <1>3 DEF RoundType
<1>5. CycleTells(r)
  <2>1. CycleTells(old)
    BY <1>1, RoundsAre DEF ReviewInv, CyclesTell
  <2>2. old.status = "final"
    BY <1>1
  <2> HIDE DEF r, old
  <2>3. Len(old.outcomes) = old.cycle /\ old.outcomes[old.cycle] = "approve"
        /\ \A i \in 1..(old.cycle - 1) : old.outcomes[i] = "approve"
    BY <2>1, <2>2 DEF CycleTells, OutcomeOf
  <2>4. Len(r.outcomes) = old.cycle + 1 /\ r.outcomes[old.cycle + 1] = "open"
        /\ \A i \in 1..old.cycle : r.outcomes[i] = old.outcomes[i]
    BY <1>2, <1>4, <2>3
  <2>5. \A i \in 1..(r.cycle - 1) : i \in 1..(old.cycle - 1) \/ i = old.cycle
    BY <1>2, <1>4
  <2> QED
    BY <1>2, <1>4, <2>3, <2>4, <2>5 DEF CycleTells, OutcomeOf
<1>6. RoundWritten(r)
  BY <1>1 DEF Reopen, RoundWritten
<1> HIDE DEF r, old
<1>7. /\ page' = LockRaised(Latest) /\ stage' = "pending_review"
      /\ UNCHANGED <<notes, drafts, upload, form>>
  BY <1>1 DEF Reopen
<1>8. RoundsTell' /\ CyclesTell'
  BY <1>1, <1>4, <1>5, <1>6, <1>7, WrittenTells DEF StatusOf
<1>9. OpenIssues = {} /\ drafts = {}
  BY <1>1, OpenIssuesAre DEF ReviewInv, NotesTell, DraftsTell
<1>10. NotesTell'
  BY <1>1, <1>4, <1>6, <1>7, <1>9, WrittenNotes DEF old
<1>11. DraftsTell'
  BY <1>7, <1>9 DEF ReviewInv, DraftsTell
<1>12. UploadTells'
  BY <1>1, <1>4, <1>6, <1>7, WrittenUpload DEF old
<1>13. PagesTell' /\ FormTells'
  BY <1>1, <1>4, <1>6, <1>7, WrittenPages, RoundIsWritten
<1> QED
  BY <1>8, <1>10, <1>11, <1>12, <1>13 DEF ReviewInv

-----------------------------------------------------------------------------
(* Submissions.                                                            *)

LEMMA CreateSubmissionStep ==
  ASSUME ReviewInv, NEW files \in 1..MaxFiles, CreateSubmission(files)
  PROVE  ReviewInv'
<1>1. form.mode \in {"append", "new_round"} /\ upload = NoUpload
      /\ UNCHANGED <<stage, rounds, notes, drafts, form, page>>
  BY DEF CreateSubmission, ReviewInv, FormTells
<1> DEFINE up == [mode |-> form.mode, round |-> form.round, files |-> files,
                  answers |-> form.answers]
<1>2. upload' = up /\ up.mode = form.mode /\ up.files = files /\ up.answers = form.answers
  BY DEF CreateSubmission
<1> HIDE DEF up
<1>3. FilesSoFar' = FilesSoFar /\ OpenIssues' = OpenIssues /\ Latest' = Latest
  BY <1>1 DEF FilesSoFar, Candidates, OpenIssues, Latest
<1>4. form.mode = "new_round" => Latest < MaxRounds /\ form.answers = OpenIssues
  BY <1>1 DEF CreateSubmission, TargetFits, SameIssues, AnswersFit
<1>5. UploadTells'
  BY <1>1, <1>2, <1>3, <1>4 DEF UploadTells, CreateSubmission
<1>6. RoundsTell' /\ CyclesTell' /\ NotesTell' /\ DraftsTell'
  BY <1>1, <1>3, DraftsRest DEF ReviewInv, RoundsTell, CyclesTell, NotesTell
<1>7. PagesTell' /\ FormTells'
  BY <1>1, <1>3 DEF ReviewInv, PagesTell, FormTells
<1> QED
  BY <1>5, <1>6, <1>7 DEF ReviewInv

LEMMA NoUploadTells ==
  ASSUME upload' = NoUpload, FilesSoFar' \in Nat, FilesSoFar' <= MaxFiles
  PROVE  UploadTells'
<1>1. upload' = NoUpload /\ upload'.files = 0 /\ upload'.mode = "none"
  BY DEF NoUpload
<1>2. FilesSoFar' + upload'.files <= MaxFiles
  BY <1>1
<1> QED
  BY <1>1, <1>2 DEF UploadTells

LEMMA CommitAppendStep == ASSUME ReviewInv, CommitAppend PROVE ReviewInv'
<1>1. /\ upload.round = Latest /\ stage = "pending_review" /\ Latest > 0
      /\ rounds[Latest] \in RoundType /\ rounds[Latest].status = "pending_review"
      /\ upload.files \in 1..MaxFiles /\ FilesSoFar + upload.files <= MaxFiles
  BY RoundsAre DEF CommitAppend, TargetFits, InReview, ReviewInv, RoundsTell, UploadTells, NoUpload
<1> DEFINE old == rounds[Latest]
           k == upload.files
           r == [old EXCEPT !.files = @ + k]
<1>2. IsFiniteSet(Candidates) /\ FilesSoFar \in Nat
  BY CandidatesAreFinite, FS_CardinalityType DEF ReviewInv, FilesSoFar
<1>3. old.files \in Nat /\ old.files >= 1 /\ old.files <= FilesSoFar
  BY <1>1, <1>2, FilesOfOne, RoundsAre, RoundFields, Bounds DEF ReviewInv
<1>4. k \in Nat /\ old.files + k \in 1..MaxFiles
  BY <1>1, <1>2, <1>3, Bounds
<1>5. r \in RoundType /\ r.answers = old.answers /\ r.files = old.files + k
      /\ r.cycle = old.cycle /\ r.status = old.status /\ r.outcomes = old.outcomes
  BY <1>1, <1>4 DEF RoundType
<1>6. CycleTells(r)
  <2>1. CycleTells(old)
    BY <1>1, RoundsAre DEF ReviewInv, CyclesTell
  <2> HIDE DEF r, old
  <2> QED
    BY <1>5, <2>1 DEF CycleTells
<1>7. RoundWritten(r)
  BY <1>1 DEF CommitAppend, RoundWritten
<1> HIDE DEF r, old, k
<1>8. /\ page' = LockRaised(Latest) /\ stage' = stage /\ upload' = NoUpload
      /\ UNCHANGED <<notes, drafts, form>>
  BY <1>1 DEF CommitAppend
<1>9. Candidates' = Candidates \cup Row(Latest, old.files, old.files + k)
  <2>1. DOMAIN rounds = 1..Latest /\ DOMAIN rounds' = 1..Latest /\ Latest \in 1..Latest
        /\ rounds'[Latest].files = old.files + k
        /\ \A u \in 1..Latest : u # Latest => rounds'[u].files = rounds[u].files
    BY <1>1, <1>5, <1>7, RoundIsWritten, RoundsAre DEF ReviewInv
  <2>2. 1..(old.files + k) = (1..old.files) \cup ((old.files + 1)..(old.files + k))
    BY <1>3, <1>4
  <2> QED
    BY <2>1, <2>2 DEF Candidates, Row, old
<1>10. FilesSoFar' <= FilesSoFar + k /\ FilesSoFar' \in Nat
  <2>1. old.files + k \in Nat /\ old.files <= old.files + k /\ (old.files + k) - old.files = k
    BY <1>3, <1>4
  <2> QED
    BY <1>2, <1>3, <1>9, <2>1, FilesAdded
<1>11. UploadTells'
  <2>1. FilesSoFar' <= MaxFiles
    BY <1>1, <1>2, <1>4, <1>10, Bounds DEF k
  <2> QED
    BY <2>1, <1>8, <1>10, NoUploadTells
<1>12. RoundsTell' /\ CyclesTell'
  BY <1>1, <1>5, <1>6, <1>7, <1>8, WrittenTells DEF StatusOf, old
<1>13. NotesTell'
  BY <1>1, <1>5, <1>7, <1>8, WrittenNotes DEF old
<1>14. DraftsTell'
  BY <1>1, <1>5, <1>7, <1>8, WrittenDrafts DEF old
<1>15. PagesTell' /\ FormTells'
  BY <1>1, <1>5, <1>7, <1>8, WrittenPages, RoundIsWritten
<1> QED
  BY <1>11, <1>12, <1>13, <1>14, <1>15 DEF ReviewInv

LEMMA CommitRoundStep == ASSUME ReviewInv, CommitRound PROVE ReviewInv'
<1>1. /\ upload.mode = "new_round" /\ upload.files \in 1..MaxFiles
      /\ FilesSoFar + upload.files <= MaxFiles
      /\ Latest < MaxRounds /\ upload.answers = OpenIssues
      /\ stage \in {"in_progress", "revision"}
      /\ upload # NoUpload
  BY DEF CommitRound, TargetFits, ReviewInv, UploadTells, NoUpload
<1> DEFINE k == upload.files
           r == [status |-> "pending_review", cycle |-> 1, files |-> k,
                 selected |-> IF k = 1 THEN 1 ELSE 0,
                 list |-> "active", answers |-> upload.answers, outcomes |-> <<>>]
           n == Latest
<1>2. n \in Nat /\ rounds \in Seq(RoundType) /\ DOMAIN rounds = 1..n /\ Len(rounds) = n
      /\ \A v \in 1..n : rounds[v] \in RoundType
  BY RoundsAre DEF ReviewInv, RoundsTell, Latest
<1>3. r \in RoundType /\ r.status = "pending_review" /\ r.cycle = 1 /\ r.files = k
      /\ r.answers = OpenIssues /\ r.outcomes = <<>>
  <2>1. OpenIssues \subseteq IssueIds
    BY OpenIssuesAre
  <2>2. (IF k = 1 THEN 1 ELSE 0) \in 0..MaxFiles /\ 1 \in 1..MaxReviews
    BY Bounds
  <2> QED
    BY <1>1, <2>1, <2>2 DEF RoundType
<1>4. rounds' = Append(rounds, r) /\ stage' = "pending_review" /\ upload' = NoUpload
      /\ UNCHANGED <<notes, drafts, form, page>>
  BY DEF CommitRound
<1> HIDE DEF r
<1>5. rounds' \in Seq(RoundType) /\ Len(rounds') = n + 1 /\ rounds'[n + 1] = r
      /\ DOMAIN rounds' = 1..(n + 1)
      /\ \A v \in 1..n : rounds'[v] = rounds[v]
  BY <1>2, <1>3, <1>4
<1>6. Latest' = n + 1
  BY <1>5 DEF Latest
<1> HIDE DEF n
<1>7. \A v \in 1..(n + 1) : v \in 1..n \/ v = n + 1
  BY <1>2
<1>8. \A v \in 1..n : rounds[v].status = "rejected"
  BY <1>1, <1>2 DEF ReviewInv, RoundsTell, StatusOf, n
<1>9. RoundsTell'
  BY <1>1, <1>2, <1>3, <1>4, <1>5, <1>6, <1>7, <1>8, Bounds DEF RoundsTell, StatusOf, n
<1>10. CyclesTell'
  <2> SUFFICES ASSUME NEW v \in 1..(n + 1) PROVE CycleTells(rounds'[v])
    BY <1>6 DEF CyclesTell, CycleTells
  <2>1. CASE v \in 1..n
    BY <2>1, <1>5 DEF ReviewInv, CyclesTell, n
  <2>2. CASE v = n + 1
    <3>1. CycleTells(r)
      BY <1>3 DEF CycleTells
    <3> QED
      BY <2>2, <3>1, <1>5
  <2> QED
    BY <2>1, <2>2, <1>7
<1>11. NotesTell'
  <2>1. OpenIssues = {i \in 1..Len(notes) : notes[i].status = "open"}
    BY OpenIssuesAre
  <2>2. ASSUME NEW i \in 1..Len(notes)
        PROVE  /\ notes[i].round <= n + 1
               /\ notes[i].status = "resolved" =>
                    /\ notes[i].solvedIn \in 1..(n + 1) /\ notes[i].solvedIn > notes[i].round
                    /\ i \in rounds'[notes[i].solvedIn].answers
               /\ notes[i].status = "open" => i \in rounds'[n + 1].answers
    <3>1. notes[i].round \in Nat
      BY NotesAre, Bounds DEF ReviewInv, NoteRecord
    <3>2. notes[i].round <= n + 1
      BY <3>1, <1>2 DEF ReviewInv, NotesTell, n
    <3>3. ASSUME notes[i].status = "resolved"
          PROVE  /\ notes[i].solvedIn \in 1..(n + 1) /\ notes[i].solvedIn > notes[i].round
                 /\ i \in rounds'[notes[i].solvedIn].answers
      <4>1. notes[i].solvedIn \in 1..n /\ notes[i].solvedIn > notes[i].round
            /\ i \in rounds[notes[i].solvedIn].answers
        BY <3>3 DEF ReviewInv, NotesTell, n
      <4> QED
        BY <4>1, <1>2, <1>5
    <3>4. ASSUME notes[i].status = "open" PROVE i \in rounds'[n + 1].answers
      BY <3>4, <2>1, <1>3, <1>5
    <3> QED
      BY <3>2, <3>3, <3>4
  <2>3. notes' = notes /\ notes \in Seq(NoteRecord)
    BY <1>4 DEF ReviewInv, NotesTell
  <2> QED
    BY <1>4, <1>6, <2>2, <2>3 DEF NotesTell
<1>12. DraftsTell'
  BY <1>1, <1>4 DEF ReviewInv, DraftsTell
<1>13. FilesSoFar' <= FilesSoFar + k /\ FilesSoFar' \in Nat /\ FilesSoFar \in Nat /\ k \in Nat
  <2>1. Candidates' = Candidates \cup Row(n + 1, 0, k)
    BY <1>2, <1>3, <1>5, <1>7 DEF Candidates, Row
  <2>2. 0 \in Nat /\ k \in Nat /\ 0 <= k /\ k - 0 = k
    BY <1>1, Bounds
  <2>3. IsFiniteSet(Candidates)
    BY CandidatesAreFinite DEF ReviewInv
  <2> QED
    BY <2>1, <2>2, <2>3, FilesAdded
<1>14. UploadTells'
  <2>1. FilesSoFar' <= MaxFiles
    BY <1>1, <1>13, Bounds
  <2> QED
    BY <2>1, <1>4, <1>13, NoUploadTells
<1>15. PagesTell' /\ FormTells'
  BY <1>2, <1>4, <1>6, Bounds DEF ReviewInv, PagesTell, PageRecord, FormTells, n
<1> QED
  BY <1>9, <1>10, <1>11, <1>12, <1>14, <1>15 DEF ReviewInv

LEMMA AppendIssueStep == ASSUME ReviewInv, NEW d \in Directors, AppendIssue(d) PROVE ReviewInv'
<1> DEFINE v == page[d].round
           issue == [round |-> v, cycle |-> rounds[v].cycle, by |-> d, status |-> "open",
                     solvedIn |-> 0]
<1>1. v = Latest /\ stage = "revision" /\ upload = NoUpload /\ v \in 1..MaxRounds
      /\ rounds[v] \in RoundType /\ Latest > 0
  BY PageOnLatest, RoundsAre, Bounds DEF AppendIssue, RejectedWindow, NextNotAccepted, ReviewInv,
     RoundsTell
<1>2. issue \in NoteRecord /\ issue.status = "open" /\ issue.round = Latest
  BY <1>1, RoundFields, Bounds DEF NoteRecord
<1>3. /\ notes' = Append(notes, issue) /\ page' = LockRaised(v)
      /\ UNCHANGED <<stage, rounds, drafts, upload, form>>
  BY DEF AppendIssue
<1> HIDE DEF issue, v
<1>4. Len(notes) \in Nat /\ notes \in Seq(NoteRecord)
  BY NotesAre DEF ReviewInv, NotesTell
<1>5. notes' \in Seq(NoteRecord) /\ Len(notes') = Len(notes) + 1 /\ notes'[Len(notes) + 1] = issue
      /\ \A n \in 1..Len(notes) : notes'[n] = notes[n]
  BY <1>2, <1>3, <1>4
<1>6. Latest' = Latest /\ Latest \in Nat
  BY <1>3, RoundsAre DEF Latest, ReviewInv
<1>7. NotesTell'
  <2>1. \A n \in 1..Len(notes') : n \in 1..Len(notes) \/ n = Len(notes) + 1
    BY <1>4, <1>5
  <2>2. Len(notes) + 1 \in 1..Len(notes')
    BY <1>4, <1>5
  <2> QED
    BY <1>1, <1>2, <1>3, <1>5, <1>6, <2>1, <2>2 DEF ReviewInv, NotesTell
<1>8. drafts = {} /\ Len(notes') <= MaxIssues
  <2>1. drafts = {}
    BY <1>1 DEF ReviewInv, DraftsTell
  <2>2. Cardinality(drafts) = 0
    BY <2>1, FS_EmptySet
  <2> QED
    BY <2>1, <2>2, <1>4, <1>5, Bounds DEF AppendIssue, RoomForIssue
<1>9. DraftsTell'
  BY <1>3, <1>5, <1>8, NoDraftsTell
<1>10. UploadTells'
  <2>1. FilesSoFar' = FilesSoFar
    BY <1>3 DEF FilesSoFar, Candidates
  <2> QED
    BY <2>1, <1>1, <1>3 DEF ReviewInv, UploadTells, NoUpload
<1>11. RoundsTell' /\ CyclesTell'
  BY <1>3, <1>6 DEF ReviewInv, RoundsTell, CyclesTell
<1>12. PagesTell' /\ FormTells'
  BY <1>3, <1>6, WrittenPages
<1> QED
  BY <1>7, <1>9, <1>10, <1>11, <1>12 DEF ReviewInv

-----------------------------------------------------------------------------
(* Decisions.                                                              *)

\* The row of the cycle is there or is written now; the others stay.
LEMMA ClosedIs ==
  ASSUME ReviewInv, Latest > 0, InReview(Latest), NEW outcome \in {"approve", "reject"}
  PROVE  LET c == Closed(Latest, outcome)
             old == rounds[Latest] IN
         /\ c \in Seq({"open", "approve", "reject"}) /\ Len(c) = old.cycle
         /\ c[old.cycle] = outcome /\ \A i \in 1..(old.cycle - 1) : c[i] = "approve"
         /\ \A i \in DOMAIN old.outcomes : old.outcomes[i] # "open" => i \in DOMAIN c /\ c[i] = old.outcomes[i]
<1> DEFINE old == rounds[Latest]
           T == {"open", "approve", "reject"}
           c == Closed(Latest, outcome)
<1>1. old \in RoundType /\ CycleTells(old) /\ old.status = "pending_review"
  BY RoundsAre DEF ReviewInv, CyclesTell, InReview
<1>2. old.outcomes \in Seq(T) /\ old.cycle \in Nat /\ old.cycle >= 1
  BY <1>1, RoundFields
<1>3. c = IF Len(old.outcomes) < old.cycle THEN Append(old.outcomes, outcome)
          ELSE [old.outcomes EXCEPT ![old.cycle] = outcome]
  BY DEF Closed
<1> HIDE DEF old, c
<1>4. CASE old.cycle = 1
  <2>1. old.outcomes = <<>> /\ Len(old.outcomes) = 0 /\ DOMAIN old.outcomes = {}
    BY <1>1, <1>4 DEF CycleTells
  <2>2. c = <<outcome>>
    BY <1>3, <1>4, <2>1
  <2>3. 1..(old.cycle - 1) = {}
    BY <1>4
  <2> QED
    BY <1>4, <2>1, <2>2, <2>3 DEF c, old
<1>5. CASE old.cycle # 1
  <2>1. Len(old.outcomes) = old.cycle /\ old.outcomes[old.cycle] = "open"
        /\ \A i \in 1..(old.cycle - 1) : old.outcomes[i] = "approve"
    BY <1>1, <1>5 DEF CycleTells, OutcomeOf
  <2>2. c = [old.outcomes EXCEPT ![old.cycle] = outcome]
    BY <1>2, <1>3, <2>1
  <2>3. c \in Seq(T) /\ Len(c) = old.cycle
        /\ \A i \in 1..old.cycle : c[i] = IF i = old.cycle THEN outcome ELSE old.outcomes[i]
    BY <1>2, <2>1, <2>2, ExceptSeq
  <2>4. DOMAIN old.outcomes = 1..old.cycle /\ DOMAIN c = 1..old.cycle
    BY <1>2, <2>1, <2>3, LenProperties
  <2> QED
    BY <1>2, <2>1, <2>3, <2>4 DEF c, old
<1> QED
  BY <1>4, <1>5

\* Issues that the last version carries are closed in it.
LEMMA SolvedIs ==
  ASSUME ReviewInv, Latest > 0, NEW ids, ids \subseteq Carried(Latest)
  PROVE  LET after == Solved(ids, Latest) IN
         /\ after \in Seq(NoteRecord) /\ Len(after) = Len(notes) /\ Len(notes) \in Nat
         /\ DOMAIN after = 1..Len(notes)
         /\ \A n \in 1..Len(notes) :
              /\ n \notin ids => after[n] = notes[n]
              /\ n \in ids =>
                   /\ notes[n].status = "open" /\ notes[n].round # Latest
                   /\ n \in rounds[Latest].answers
                   /\ after[n].status = "resolved" /\ after[n].solvedIn = Latest
                   /\ after[n].round = notes[n].round
<1> DEFINE after == Solved(ids, Latest)
           new(n) == [notes[n] EXCEPT !.status = "resolved", !.solvedIn = Latest]
<1>1. Len(notes) \in Nat /\ DOMAIN notes = 1..Len(notes)
      /\ \A n \in 1..Len(notes) : notes[n] \in NoteRecord
  BY NotesAre DEF ReviewInv
<1>2. Latest \in 0..MaxRounds
  BY RoundsAre, Bounds DEF ReviewInv, RoundsTell
<1>3. \A n \in 1..Len(notes) : /\ new(n) \in NoteRecord /\ new(n).status = "resolved"
                               /\ new(n).solvedIn = Latest /\ new(n).round = notes[n].round
  BY <1>1, <1>2 DEF NoteRecord
<1>4. after = [n \in 1..Len(notes) |-> IF n \in ids THEN new(n) ELSE notes[n]]
  BY <1>1 DEF Solved
<1> HIDE DEF new, after
<1>5. /\ after \in [1..Len(notes) -> NoteRecord]
      /\ \A n \in 1..Len(notes) : after[n] = IF n \in ids THEN new(n) ELSE notes[n]
  BY <1>1, <1>3, <1>4
<1>6. after \in Seq(NoteRecord) /\ Len(after) = Len(notes) /\ DOMAIN after = 1..Len(notes)
  BY <1>1, <1>5
<1>7. \A n \in ids : notes[n].status = "open" /\ notes[n].round # Latest /\ n \in rounds[Latest].answers
  BY DEF Carried, OpenIssues
<1> QED
  BY <1>1, <1>3, <1>5, <1>6, <1>7 DEF after

\* The issues after a decision: those there were, as SolvedIs says, and new
\* ones of the last version.
LEMMA DecidedNotes ==
  ASSUME ReviewInv, Latest > 0, NEW ids, ids \subseteq Carried(Latest),
         NEW more \in Seq(NoteRecord), notes' = Solved(ids, Latest) \o more,
         \A i \in 1..Len(more) : more[i].round = Latest /\ more[i].status = "open",
         NEW r \in RoundType, RoundWritten(r), r.answers = rounds[Latest].answers,
         stage' \in {"revision", "completed"},
         stage' = "completed" => Len(more) = 0 /\ OpenIssues \subseteq ids,
         stage' = "revision" => Len(more) > 0 \/ \E n \in OpenIssues : n \notin ids
  PROVE  NotesTell'
<1> DEFINE after == Solved(ids, Latest)
<1>1. /\ after \in Seq(NoteRecord) /\ Len(after) = Len(notes) /\ Len(notes) \in Nat
      /\ \A n \in 1..Len(notes) :
           /\ n \notin ids => after[n] = notes[n]
           /\ n \in ids =>
                /\ notes[n].status = "open" /\ notes[n].round # Latest
                /\ n \in rounds[Latest].answers
                /\ after[n].status = "resolved" /\ after[n].solvedIn = Latest
                /\ after[n].round = notes[n].round
  BY SolvedIs
<1>2. notes' = after \o more
  OBVIOUS
<1>3. Len(more) \in Nat
  BY LenProperties
<1> HIDE DEF after
<1>4. /\ notes' \in Seq(NoteRecord) /\ Len(notes') = Len(notes) + Len(more)
      /\ \A n \in 1..(Len(notes) + Len(more)) : notes'[n] = IF n <= Len(notes) THEN after[n] ELSE more[n - Len(notes)]
  <2>1. /\ after \o more \in Seq(NoteRecord) /\ Len(after \o more) = Len(after) + Len(more)
        /\ \A n \in 1..(Len(after) + Len(more)) :
             (after \o more)[n] = IF n <= Len(after) THEN after[n] ELSE more[n - Len(after)]
    <3>1. after \in Seq(NoteRecord) /\ more \in Seq(NoteRecord)
      BY <1>1
    <3> QED
      BY ONLY <3>1, ConcatProperties
  <2> QED
    BY <1>1, <1>2, <2>1
<1>5. \A u \in 1..Latest : rounds'[u].answers = rounds[u].answers
  BY RoundIsWritten
<1>6. Latest' = Latest /\ Latest \in 1..Latest /\ Latest \in Nat
  BY RoundIsWritten
<1>7. OpenIssues = {n \in 1..Len(notes) : notes[n].status = "open"}
  BY OpenIssuesAre
<1>8. \A n \in 1..Len(notes) :
        /\ notes[n].round \in Nat /\ notes[n].round <= Latest
        /\ notes[n].status = "resolved" =>
             /\ notes[n].solvedIn \in 1..Latest /\ notes[n].solvedIn > notes[n].round
             /\ n \in rounds[notes[n].solvedIn].answers
  <2>1. \A n \in 1..Len(notes) : notes[n].round \in Nat
    BY NotesAre, Bounds DEF ReviewInv, NoteRecord
  <2>2. NotesTell
    BY DEF ReviewInv
  <2> QED
    BY ONLY <2>1, <2>2 DEF NotesTell
<1>9. ASSUME NEW n \in 1..(Len(notes) + Len(more))
      PROVE  /\ notes'[n].round <= Latest
             /\ notes'[n].status = "resolved" =>
                  /\ notes'[n].solvedIn \in 1..Latest /\ notes'[n].solvedIn > notes'[n].round
                  /\ n \in rounds'[notes'[n].solvedIn].answers
             /\ notes'[n].status = "open" => stage' # "completed"
  <2>1. CASE n > Len(notes)
    <3>1. n - Len(notes) \in 1..Len(more) /\ notes'[n] = more[n - Len(notes)]
      BY <1>1, <1>3, <1>4, <2>1
    <3>2. notes'[n].round = Latest /\ notes'[n].status = "open"
      BY <3>1
    <3>3. stage' # "completed"
      BY <3>1, <1>3
    <3> QED
      BY ONLY <3>2, <3>3, <1>6
  <2>2. CASE n <= Len(notes) /\ n \in ids
    <3>1. n \in 1..Len(notes) /\ notes'[n] = after[n]
      BY <1>1, <1>3, <1>4, <2>2
    <3>2. /\ n \in rounds[Latest].answers /\ notes[n].round # Latest
          /\ notes'[n].status = "resolved" /\ notes'[n].solvedIn = Latest
          /\ notes'[n].round = notes[n].round
      BY <3>1, <2>2, <1>1
    <3>3. notes[n].round \in Nat /\ notes[n].round <= Latest
      BY ONLY <3>1, <1>8
    <3>4. n \in rounds'[Latest].answers
      BY <3>2, <1>5, <1>6
    <3> QED
      BY ONLY <3>2, <3>3, <3>4, <1>6
  <2>3. CASE n <= Len(notes) /\ n \notin ids
    <3>1. n \in 1..Len(notes) /\ notes'[n] = notes[n]
      BY <1>1, <1>3, <1>4, <2>3
    <3>2. notes[n].status = "open" => stage' # "completed"
      BY <3>1, <2>3, <1>7
    <3>3. notes[n].round <= Latest
      BY ONLY <3>1, <1>8
    <3>4. ASSUME notes[n].status = "resolved"
          PROVE  /\ notes[n].solvedIn \in 1..Latest /\ notes[n].solvedIn > notes[n].round
                 /\ n \in rounds'[notes[n].solvedIn].answers
      <4>1. /\ notes[n].solvedIn \in 1..Latest /\ notes[n].solvedIn > notes[n].round
            /\ n \in rounds[notes[n].solvedIn].answers
        BY ONLY <3>1, <3>4, <1>8
      <4> QED
        BY <4>1, <1>5
    <3> QED
      BY ONLY <3>1, <3>2, <3>3, <3>4
  <2>4. n > Len(notes) \/ n <= Len(notes)
    BY <1>1, <1>3
  <2> QED
    BY ONLY <2>1, <2>2, <2>3, <2>4
<1>10. stage' = "revision" => \E n \in 1..(Len(notes) + Len(more)) : notes'[n].status = "open"
  <2>1. ASSUME Len(more) > 0 PROVE \E n \in 1..(Len(notes) + Len(more)) : notes'[n].status = "open"
    <3>1. Len(notes) + 1 \in 1..(Len(notes) + Len(more)) /\ notes'[Len(notes) + 1] = more[1] /\ 1 \in 1..Len(more)
      <4>1. Len(notes) + 1 \in 1..(Len(notes) + Len(more)) /\ 1 \in 1..Len(more)
            /\ ~(Len(notes) + 1 <= Len(notes)) /\ (Len(notes) + 1) - Len(notes) = 1
        BY <1>1, <1>3, <2>1
      <4> QED
        BY <4>1, <1>4
    <3> QED
      BY <3>1
  <2>2. ASSUME NEW n \in OpenIssues, n \notin ids
        PROVE  \E i \in 1..(Len(notes) + Len(more)) : notes'[i].status = "open"
    <3>1. n \in 1..Len(notes) /\ notes[n].status = "open"
      BY <1>7
    <3>2. n \in 1..(Len(notes) + Len(more)) /\ n <= Len(notes)
      BY <3>1, <1>1, <1>3
    <3> QED
      BY <3>1, <3>2, <2>2, <1>1, <1>4
  <2> QED
    BY <2>1, <2>2
<1> QED
  BY <1>4, <1>6, <1>9, <1>10 DEF NotesTell

LEMMA ApproveStep ==
  ASSUME ReviewInv, NEW d \in Directors, NEW c \in 1..MaxFiles, Approve(d, c)
  PROVE  ReviewInv'
<1>1. page[d].round = Latest /\ Latest > 0 /\ rounds[Latest] \in RoundType
      /\ InReview(Latest) /\ upload = NoUpload
  BY PageOnLatest, RoundsAre DEF Approve, Reviewable, ReviewInv
<1> DEFINE old == rounds[Latest]
           r == [old EXCEPT !.status = "final", !.selected = c, !.list = "completed",
                            !.outcomes = Closed(Latest, "approve")]
<1>2. /\ Closed(Latest, "approve") \in Seq({"open", "approve", "reject"})
      /\ Len(Closed(Latest, "approve")) = old.cycle
      /\ Closed(Latest, "approve")[old.cycle] = "approve"
      /\ \A i \in 1..(old.cycle - 1) : Closed(Latest, "approve")[i] = "approve"
  BY <1>1, ClosedIs
<1>3. r \in RoundType /\ r.answers = old.answers /\ r.files = old.files
      /\ r.cycle = old.cycle /\ r.status = "final" /\ r.outcomes = Closed(Latest, "approve")
  <2>1. c \in 0..MaxFiles
    BY Bounds
  <2> DEFINE out == Closed(Latest, "approve")
  <2>2. old \in RoundType /\ out \in Seq({"open", "approve", "reject"})
    BY <1>1, <1>2
  <2>3. r = [old EXCEPT !.status = "final", !.selected = c, !.list = "completed", !.outcomes = out]
    BY <1>1
  <2> HIDE DEF old, out, r
  <2>4. r \in RoundType /\ r.answers = old.answers /\ r.files = old.files
        /\ r.cycle = old.cycle /\ r.status = "final" /\ r.outcomes = out
    BY ONLY <2>1, <2>2, <2>3 DEF RoundType
  <2> QED
    BY <2>4 DEF out
<1>4. RoundWritten(r)
  BY <1>1 DEF Approve, RoundWritten
<1> HIDE DEF r
<1>5. CycleTells(r)
  BY <1>2, <1>3 DEF CycleTells, OutcomeOf
<1> HIDE DEF old
<1>6. /\ page' = LockRaised(Latest) /\ stage' = "completed"
      /\ notes' = Solved(Carried(Latest), Latest)
      /\ UNCHANGED <<drafts, upload, form>>
      /\ NoIssueLeft(Latest, Solved(Carried(Latest), Latest))
  BY <1>1 DEF Approve
<1>7. RoundsTell' /\ CyclesTell'
  BY <1>1, <1>3, <1>4, <1>5, <1>6, WrittenTells DEF StatusOf
<1>8. /\ notes' \in Seq(NoteRecord) /\ Len(notes') = Len(notes) /\ Len(notes) \in Nat
  BY <1>1, <1>6, SolvedIs
<1>9. NotesTell'
  <2>1. OpenIssues \subseteq Carried(Latest)
    <3> SUFFICES ASSUME NEW n \in OpenIssues, n \notin Carried(Latest) PROVE FALSE
      OBVIOUS
    <3>1. n \in 1..Len(notes) /\ notes[n].status = "open"
      BY OpenIssuesAre
    <3>2. /\ DOMAIN Solved(Carried(Latest), Latest) = 1..Len(notes)
          /\ Solved(Carried(Latest), Latest)[n] = notes[n]
      BY <3>1, <1>1, SolvedIs
    <3> QED
      BY <3>1, <3>2, <1>6 DEF NoIssueLeft
  <2> DEFINE none == <<>>
  <2>2. none \in Seq(NoteRecord) /\ Len(none) = 0 /\ 1..0 = {}
    OBVIOUS
  <2>3. notes' = Solved(Carried(Latest), Latest) \o none
    BY <1>1, <1>6, SolvedIs, ConcatEmptySeq
  <2> HIDE DEF none
  <2> QED
    BY <1>1, <1>3, <1>4, <1>6, <2>1, <2>2, <2>3, DecidedNotes DEF old
<1>10. DraftsTell'
  <2>1. drafts = {}
    BY <1>6 DEF NoIssueLeft, ReviewInv, DraftsTell, DraftsOf
  <2>2. Cardinality(drafts) = 0
    BY <2>1, FS_EmptySet
  <2>3. Len(notes') <= MaxIssues
    BY <2>2, <1>8, Bounds DEF ReviewInv, DraftsTell
  <2> QED
    BY <2>1, <2>3, <1>6, <1>8, NoDraftsTell
<1>11. UploadTells'
  BY <1>1, <1>3, <1>4, <1>6, WrittenUpload DEF old
<1>12. PagesTell' /\ FormTells'
  BY <1>1, <1>3, <1>4, <1>6, WrittenPages, RoundIsWritten
<1> QED
  BY <1>7, <1>9, <1>10, <1>11, <1>12 DEF ReviewInv

\* Every draft becomes one issue.
LEMMA PublishedIs ==
  ASSUME NEW set, set \subseteq DraftRecord, IsFiniteSet(set), \A x \in set : x.round = Latest
  PROVE  /\ Published(set) \in Seq(NoteRecord) /\ Len(Published(set)) = Cardinality(set)
         /\ Cardinality(set) \in Nat
         /\ \A i \in 1..Len(Published(set)) :
              Published(set)[i].round = Latest /\ Published(set)[i].status = "open"
<1> DEFINE n == Cardinality(set)
           s == SetToSeq(set)
           new(x) == [round |-> x.round, cycle |-> x.cycle, by |-> x.by, status |-> "open",
                      solvedIn |-> 0]
<1>1. n \in Nat /\ ExistsBijection(1..n, set)
  BY FS_CardinalityType
<1>2. \E b \in [1..n -> set] : IsInjective(b)
  BY <1>1 DEF ExistsBijection, Bijection, Injection
<1>3. s \in [1..n -> set]
  BY <1>2 DEF SetToSeq
<1>4. \A x \in set : new(x) \in NoteRecord /\ new(x).round = Latest /\ new(x).status = "open"
  BY Bounds DEF DraftRecord, NoteRecord
<1>5. Published(set) = [i \in 1..n |-> new(s[i])]
  BY <1>3 DEF Published
<1> HIDE DEF new, s, n
<1>6. \A i \in 1..n : s[i] \in set
  BY <1>3
<1>7. Published(set) \in [1..n -> NoteRecord] /\ \A i \in 1..n : Published(set)[i] = new(s[i])
  BY <1>4, <1>5, <1>6
<1>8. Published(set) \in Seq(NoteRecord) /\ Len(Published(set)) = n
  BY <1>1, <1>7
<1> QED
  BY <1>1, <1>4, <1>6, <1>7, <1>8 DEF n

LEMMA RejectRoundStep ==
  ASSUME ReviewInv, Latest > 0, NEW solved, solved \subseteq Carried(Latest), NEW added,
         added \subseteq DraftRecord, IsFiniteSet(added), \A x \in added : x.round = Latest,
         Len(notes) + Cardinality(drafts) + Cardinality(added) <= MaxIssues,
         RejectRound(Latest, solved, added)
  PROVE  ReviewInv'
<1>1. rounds[Latest] \in RoundType /\ InReview(Latest) /\ upload = NoUpload
  BY RoundsAre DEF RejectRound, Reviewable, ReviewInv
<1> DEFINE old == rounds[Latest]
           r == [old EXCEPT !.status = "rejected", !.list = "completed",
                            !.outcomes = Closed(Latest, "reject")]
           publishing == DraftsOf(Latest) \cup added
<1>2. /\ Closed(Latest, "reject") \in Seq({"open", "approve", "reject"})
      /\ Len(Closed(Latest, "reject")) = old.cycle
      /\ Closed(Latest, "reject")[old.cycle] = "reject"
      /\ \A i \in 1..(old.cycle - 1) : Closed(Latest, "reject")[i] = "approve"
  BY <1>1, ClosedIs
<1>3. r \in RoundType /\ r.answers = old.answers /\ r.files = old.files
      /\ r.cycle = old.cycle /\ r.status = "rejected" /\ r.outcomes = Closed(Latest, "reject")
  <2> DEFINE out == Closed(Latest, "reject")
  <2>1. old \in RoundType /\ out \in Seq({"open", "approve", "reject"})
    BY <1>1, <1>2
  <2>2. r = [old EXCEPT !.status = "rejected", !.list = "completed", !.outcomes = out]
    BY <1>1
  <2> HIDE DEF old, out, r
  <2>3. r \in RoundType /\ r.answers = old.answers /\ r.files = old.files
        /\ r.cycle = old.cycle /\ r.status = "rejected" /\ r.outcomes = out
    BY ONLY <2>1, <2>2 DEF RoundType
  <2> QED
    BY <2>3 DEF out
<1>4. RoundWritten(r)
  BY <1>1 DEF RejectRound, RoundWritten
<1> HIDE DEF r
<1>5. CycleTells(r)
  BY <1>2, <1>3 DEF CycleTells, OutcomeOf
<1> HIDE DEF old
<1>6. /\ page' = Outdated(LockRaised(Latest), DraftIds(Latest)) /\ stage' = "revision"
      /\ notes' = Solved(solved, Latest) \o Published(publishing)
      /\ drafts' = drafts \ DraftsOf(Latest) /\ UNCHANGED <<upload, form>>
      /\ ReasonToReject(Latest, solved, publishing)
  BY DEF RejectRound
<1>7. RoundsTell' /\ CyclesTell'
  BY <1>3, <1>4, <1>5, <1>6, WrittenTells DEF StatusOf
<1>8. drafts = DraftsOf(Latest)
  BY DEF ReviewInv, DraftsTell, DraftsOf
<1>9. /\ publishing \subseteq DraftRecord /\ IsFiniteSet(publishing)
      /\ \A x \in publishing : x.round = Latest
      /\ Cardinality(publishing) \in Nat
      /\ Cardinality(publishing) <= Cardinality(drafts) + Cardinality(added)
  <2>1. publishing = drafts \cup added /\ drafts \subseteq DraftRecord /\ IsFiniteSet(drafts)
        /\ \A x \in drafts : x.round = Latest
    BY <1>8 DEF ReviewInv, DraftsTell
  <2>2. IsFiniteSet(drafts \cup added) /\ IsFiniteSet(drafts \cap added)
        /\ Cardinality(drafts \cup added)
             = Cardinality(drafts) + Cardinality(added) - Cardinality(drafts \cap added)
    BY <2>1, FS_Union, FS_Subset
  <2>3. Cardinality(drafts) \in Nat /\ Cardinality(added) \in Nat
        /\ Cardinality(drafts \cap added) \in Nat /\ Cardinality(drafts \cup added) \in Nat
    BY <2>1, <2>2, FS_CardinalityType
  <2> HIDE DEF publishing
  <2>4. Cardinality(publishing) \in Nat
        /\ Cardinality(publishing) <= Cardinality(drafts) + Cardinality(added)
    BY <2>1, <2>2, <2>3
  <2> QED
    BY <2>1, <2>2, <2>4
<1> DEFINE more == Published(publishing)
<1>10. /\ more \in Seq(NoteRecord) /\ Len(more) = Cardinality(publishing)
       /\ \A i \in 1..Len(more) : more[i].round = Latest /\ more[i].status = "open"
  <2> HIDE DEF publishing
  <2> QED
    BY <1>9, PublishedIs
<1>11. publishing # {} => Len(more) > 0
  <2> HIDE DEF publishing
  <2> QED
    BY <1>9, <1>10, FS_EmptySet
<1> HIDE DEF publishing
<1>12. \/ Len(more) > 0
       \/ \E n \in OpenIssues : n \notin solved
  <2>1. CASE Carried(Latest) \ solved # {}
    BY <2>1 DEF Carried
  <2>2. CASE OwnIssues(Latest) # {}
    BY <2>2 DEF Carried, OwnIssues
  <2>3. CASE publishing # {}
    BY <2>3, <1>11
  <2> QED
    BY <2>1, <2>2, <2>3, <1>6 DEF ReasonToReject
<1>13. notes' = Solved(solved, Latest) \o more
  BY <1>6
<1> HIDE DEF more
<1>14. NotesTell'
  <2>1. r.answers = rounds[Latest].answers
    BY <1>3 DEF old
  <2>2. stage' = "revision" /\ stage' # "completed" /\ stage' \in {"revision", "completed"}
    BY <1>6
  <2> QED
    BY <1>3, <1>4, <1>10, <1>12, <1>13, <2>1, <2>2, DecidedNotes
<1>15. DraftsTell'
  <2>1. drafts' = {}
    BY <1>6, <1>8
  <2>2. /\ Solved(solved, Latest) \in Seq(NoteRecord) /\ Len(notes) \in Nat
        /\ Len(Solved(solved, Latest)) = Len(notes)
    BY SolvedIs
  <2>3. notes' \in Seq(NoteRecord) /\ Len(notes') = Len(notes) + Len(more)
    BY <1>10, <1>13, <2>2, ConcatProperties
  <2>4. Cardinality(drafts) \in Nat /\ Cardinality(added) \in Nat
    BY FS_CardinalityType DEF ReviewInv, DraftsTell
  <2>5. Len(notes') <= MaxIssues
    BY <1>9, <1>10, <2>2, <2>3, <2>4, Bounds
  <2> QED
    BY <2>1, <2>3, <2>5, NoDraftsTell
<1>16. UploadTells'
  BY <1>1, <1>3, <1>4, <1>6, WrittenUpload DEF old
<1>17. PagesTell' /\ FormTells'
  BY <1>3, <1>4, <1>6, WrittenPages, RoundIsWritten
<1> QED
  BY <1>7, <1>14, <1>15, <1>16, <1>17 DEF ReviewInv

\* What a decision adds: nothing or the draft of its comment.
LEMMA RejectionStep ==
  ASSUME ReviewInv, Latest > 0, NEW solved, solved \subseteq Carried(Latest),
         NEW d \in Directors, NEW added, added = {} \/ added = {NewDraft(d, Latest)},
         added # {} => RoomForIssue, RejectRound(Latest, solved, added)
  PROVE  ReviewInv'
<1>1. Cardinality(drafts) \in Nat /\ Len(notes) \in Nat
      /\ Len(notes) + Cardinality(drafts) <= MaxIssues
  BY FS_CardinalityType, NotesAre DEF ReviewInv, DraftsTell
<1>2. CASE added = {}
  <2>1. IsFiniteSet(added) /\ Cardinality(added) = 0
    BY <1>2, FS_EmptySet
  <2>2. Len(notes) + Cardinality(drafts) + Cardinality(added) <= MaxIssues
    BY <2>1, <1>1, Bounds
  <2> QED
    BY <1>2, <2>1, <2>2, RejectRoundStep
<1>3. CASE added = {NewDraft(d, Latest)}
  <2> DEFINE x == NewDraft(d, Latest)
  <2>1. RoomForIssue /\ x \in DraftRecord /\ x.round = Latest
    BY <1>3, NewDraftIs
  <2> HIDE DEF x
  <2>2. added = {x} /\ IsFiniteSet(added) /\ Cardinality(added) = 1
    BY <1>3, FS_Singleton DEF x
  <2>3. Len(notes) + Cardinality(drafts) + Cardinality(added) <= MaxIssues
    BY <1>1, <2>1, <2>2, Bounds DEF RoomForIssue
  <2> QED
    BY <2>1, <2>2, <2>3, RejectRoundStep
<1> QED
  BY <1>2, <1>3

LEMMA RejectStep ==
  ASSUME ReviewInv, NEW d \in Directors, NEW solved, Reject(d, solved)
  PROVE  ReviewInv'
<1>1. page[d].round = Latest /\ Latest > 0
  BY PageOnLatest, RoundsAre DEF Reject, RejectRound, Reviewable, ReviewInv
<1> DEFINE none == {}
<1>2. solved \subseteq Carried(Latest) /\ RejectRound(Latest, solved, none)
  BY <1>1 DEF Reject, VerifiedAll
<1> QED
  BY <1>1, <1>2, RejectionStep

LEMMA RejectOverallStep ==
  ASSUME ReviewInv, NEW d \in Directors, RejectOverall(d)
  PROVE  ReviewInv'
<1> DEFINE added == {NewDraft(d, Latest)}
           none == {}
<1>1. Latest > 0 /\ RoomForIssue /\ RejectRound(Latest, none, added) /\ none \subseteq Carried(Latest)
  BY DEF RejectOverall
<1> QED
  BY <1>1, RejectionStep

LEMMA RejectBatchStep ==
  ASSUME ReviewInv, NEW d \in Directors, NEW comment \in BOOLEAN, NEW solved,
         RejectBatch(d, comment, solved)
  PROVE  ReviewInv'
<1>1. page[d].round = Latest /\ Latest > 0
  BY PageOnLatest, RoundsAre DEF RejectBatch, BatchComment, Reviewable, ReviewInv
<1> DEFINE added == IF comment THEN {NewDraft(d, Latest)} ELSE {}
<1>2. /\ solved \subseteq Carried(Latest) /\ RejectRound(Latest, solved, added)
      /\ comment => RoomForIssue
  BY <1>1 DEF RejectBatch, VerifiedAll, BatchComment
<1>3. (added = {} \/ added = {NewDraft(d, Latest)}) /\ (added # {} => RoomForIssue)
  BY <1>2
<1> HIDE DEF added
<1> QED
  BY <1>1, <1>2, <1>3, RejectionStep

-----------------------------------------------------------------------------
(* Every step, and what follows.                                           *)

LEMMA ReviewNextInv == ReviewInv /\ [ReviewNext]_reviewVars => ReviewInv'
<1> SUFFICES ASSUME ReviewInv, [ReviewNext]_reviewVars PROVE ReviewInv'
  OBVIOUS
<1>1. ASSUME NEW d \in Directors, NEW v \in DOMAIN rounds, OpenPage(d, v) PROVE ReviewInv'
  BY <1>1, OpenPageStep
<1>2. ASSUME NEW d \in Directors, NEW c \in 1..MaxFiles, SelectCandidate(d, c) \/ Approve(d, c)
      PROVE  ReviewInv'
  BY <1>2, SelectCandidateStep, ApproveStep
<1>3. ASSUME NEW d \in Directors,
             \/ AddDraft(d) \/ Defer(d) \/ RejectOverall(d) \/ AppendIssue(d) \/ Reopen(d)
      PROVE  ReviewInv'
  BY <1>3, AddDraftStep, DeferStep, RejectOverallStep, AppendIssueStep, ReopenStep
<1>4. ASSUME NEW d \in Directors, NEW x \in drafts, UpdateDraft(d, x) \/ DeleteDraft(d, x)
      PROVE  ReviewInv'
  BY <1>4, UpdateDraftStep, DeleteDraftStep
<1>5. ASSUME NEW d \in Directors, NEW solved \in SUBSET page[d].carried,
             \/ Reject(d, solved)
             \/ \E comment \in BOOLEAN : RejectBatch(d, comment, solved)
      PROVE  ReviewInv'
  BY <1>5, RejectStep, RejectBatchStep
<1>6. ASSUME NEW d \in Directors, NEW comment \in BOOLEAN, SaveBatch(d, comment) PROVE ReviewInv'
  BY <1>6, SaveBatchStep
<1>7. ASSUME NEW d \in Directors, NEW n \in DOMAIN notes, EditIssue(d, n) PROVE ReviewInv'
  BY <1>7, EditIssueStep
<1>8. ASSUME NEW mode \in {"append", "new_round"}, Preflight(mode) PROVE ReviewInv'
  BY <1>8, PreflightStep
<1>9. ASSUME NEW files \in 1..MaxFiles, CreateSubmission(files) PROVE ReviewInv'
  BY <1>9, CreateSubmissionStep
<1>10. CASE CommitRound \/ CommitAppend
  BY <1>10, CommitRoundStep, CommitAppendStep
<1>11. CASE UNCHANGED reviewVars
  BY <1>11 DEF reviewVars, ReviewInv, RoundsTell, CyclesTell, NotesTell, DraftsTell, UploadTells,
     PagesTell, FormTells, FilesSoFar, Candidates, OpenIssues, Latest
<1> QED
  BY <1>1, <1>2, <1>3, <1>4, <1>5, <1>6, <1>7, <1>8, <1>9, <1>10, <1>11 DEF ReviewNext

\* For any directors, versions, candidates and issues, and whatever the pages
\* showed: an approved task has left nothing behind, a task in revision has an
\* open issue, drafts live in the open cycle only, the rows of the cycles tell
\* the history, and issues are closed by later versions that answered them
\* (review_service.py, review_reopen_service.py, review_dao.py).
THEOREM ReviewsAreSafe == ReviewSpec => []ReviewSafe
<1>1. ReviewInit => ReviewInv
  BY ReviewInitInv
<1>2. ReviewInv /\ [ReviewNext]_reviewVars => ReviewInv'
  BY ReviewNextInv
<1>3. ReviewInv => ReviewSafe
  BY InvMeansReviewSafe
<1> QED
  BY <1>1, <1>2, <1>3, PTL DEF ReviewSpec

\* For any directors, versions and issues: the next round answers all issues
\* open when it is accepted, and the version under review carries every open
\* issue of those before it, although issues may be appended between the
\* producer's preflight and the submission (review_service.py, submission_service.py).
THEOREM HistoryIsAlwaysAnswered == ReviewSpec => []HistoryIsAnswered
<1>1. ReviewInit => ReviewInv
  BY ReviewInitInv
<1>2. ReviewInv /\ [ReviewNext]_reviewVars => ReviewInv'
  BY ReviewNextInv
<1>3. ReviewInv => HistoryIsAnswered
  BY InvMeansHistoryIsAnswered
<1> QED
  BY <1>1, <1>2, <1>3, PTL DEF ReviewSpec

-----------------------------------------------------------------------------
(* History.                                                                *)

LEMMA RestIsKept == ASSUME UNCHANGED <<rounds, notes>> PROVE HistoryKept
BY DEF HistoryKept, NotesStand, OutcomesStand, SelectionStands

\* Only what happens to the last version has to be looked at.
LEMMA WrittenIsKept ==
  ASSUME ReviewInv, Latest > 0, NEW r \in RoundType, RoundWritten(r), NotesStand,
         OutcomesStand(Latest), SelectionStands(Latest)
  PROVE  HistoryKept
<1> SUFFICES ASSUME NEW v \in DOMAIN rounds, v # Latest
             PROVE  OutcomesStand(v) /\ SelectionStands(v)
  BY DEF HistoryKept
<1>1. rounds'[v] = rounds[v]
  BY RoundIsWritten, RoundsAre DEF ReviewInv
<1> QED
  BY <1>1 DEF OutcomesStand, SelectionStands

\* A version that is rewritten without its outcomes.
LEMMA SameOutcomes ==
  ASSUME ReviewInv, NEW v \in 1..Latest, NEW r, rounds' = [rounds EXCEPT ![v] = r],
         \A i \in DOMAIN rounds[v].outcomes :
           rounds[v].outcomes[i] # "open" => r.outcomes[i] = rounds[v].outcomes[i],
         DraftsOf(v) # {} /\ rounds[v].selected # 0 => r.selected = rounds[v].selected,
         NotesStand
  PROVE  HistoryKept
<1>1. DOMAIN rounds = 1..Latest
  BY RoundsAre DEF ReviewInv
<1> SUFFICES ASSUME NEW u \in DOMAIN rounds PROVE OutcomesStand(u) /\ SelectionStands(u)
  BY DEF HistoryKept
<1>2. rounds'[u] = IF u = v THEN r ELSE rounds[u]
  BY <1>1
<1> QED
  BY <1>2 DEF OutcomesStand, SelectionStands

LEMMA SelectionKeeps ==
  ASSUME ReviewInv, NEW d \in Directors, NEW c, SelectCandidate(d, c)
  PROVE  HistoryKept
<1> DEFINE v == page[d].round
           r == [rounds[v] EXCEPT !.selected = c]
<1>1. v \in 1..Latest /\ rounds[v] \in RoundType
  BY PageOnLatest, RoundsAre DEF SelectCandidate, ReviewInv
<1>2. rounds' = [rounds EXCEPT ![v] = r] /\ r.outcomes = rounds[v].outcomes
      /\ (rounds[v].selected # 0 => DraftsOf(v) = {}) /\ notes' = notes
  BY <1>1 DEF SelectCandidate, SelectionFree, RoundType
<1> HIDE DEF v, r
<1>3. NotesStand
  BY <1>2 DEF NotesStand
<1> QED
  BY <1>1, <1>2, <1>3, SameOutcomes

LEMMA ReopenKeeps == ASSUME ReviewInv, NEW d \in Directors, Reopen(d) PROVE HistoryKept
<1> DEFINE v == page[d].round
           r == [rounds[v] EXCEPT !.status = "pending_review", !.cycle = @ + 1,
                                  !.list = "active", !.outcomes = Append(@, "open")]
<1>1. v \in 1..Latest /\ rounds[v] \in RoundType
  BY PageOnLatest, RoundsAre DEF Reopen, ReviewInv
<1>2. rounds' = [rounds EXCEPT ![v] = r] /\ r.outcomes = Append(rounds[v].outcomes, "open")
      /\ r.selected = rounds[v].selected /\ notes' = notes
  BY <1>1 DEF Reopen, RoundType
<1>3. rounds[v].outcomes \in Seq({"open", "approve", "reject"})
  BY <1>1, RoundFields
<1> HIDE DEF v, r
<1>4. \A i \in DOMAIN rounds[v].outcomes : r.outcomes[i] = rounds[v].outcomes[i]
  BY <1>2, <1>3
<1>5. NotesStand
  BY <1>2 DEF NotesStand
<1> QED
  BY <1>1, <1>2, <1>4, <1>5, SameOutcomes

LEMMA CommitsKeep == ASSUME ReviewInv, CommitRound \/ CommitAppend PROVE HistoryKept
<1>1. ASSUME CommitRound PROVE HistoryKept
  <2>1. \E r : rounds' = Append(rounds, r) /\ notes' = notes
    BY <1>1 DEF CommitRound
  <2>2. DOMAIN rounds = 1..Latest /\ rounds \in Seq(RoundType) /\ Latest = Len(rounds)
    BY RoundsAre DEF ReviewInv, RoundsTell, Latest
  <2>3. \A v \in DOMAIN rounds : rounds'[v] = rounds[v]
    BY <2>1, <2>2
  <2>4. notes' = notes
    BY <2>1
  <2> QED
    BY <2>3, <2>4 DEF HistoryKept, NotesStand, OutcomesStand, SelectionStands
<1>2. ASSUME CommitAppend PROVE HistoryKept
  <2> DEFINE v == upload.round
             r == [rounds[v] EXCEPT !.files = @ + upload.files]
  <2>1. v \in 1..Latest /\ rounds[v] \in RoundType
    BY <1>2, RoundsAre DEF CommitAppend, TargetFits, InReview, ReviewInv, RoundsTell
  <2>2. rounds' = [rounds EXCEPT ![v] = r] /\ r.outcomes = rounds[v].outcomes
        /\ r.selected = rounds[v].selected /\ notes' = notes
    BY <1>2, <2>1 DEF CommitAppend, RoundType
  <2> HIDE DEF v, r
  <2>3. NotesStand
    BY <2>2 DEF NotesStand
  <2> QED
    BY <2>1, <2>2, <2>3, SameOutcomes
<1> QED
  BY <1>1, <1>2

LEMMA AppendIssueKeeps == ASSUME ReviewInv, NEW d \in Directors, AppendIssue(d) PROVE HistoryKept
<1>1. DOMAIN notes = 1..Len(notes) /\ notes \in Seq(NoteRecord) /\ Len(notes) \in Nat
  BY NotesAre DEF ReviewInv, NotesTell
<1>2. \E n : notes' = Append(notes, n) /\ rounds' = rounds
  BY DEF AppendIssue
<1>3. NotesStand
  BY <1>1, <1>2 DEF NotesStand
<1>4. rounds' = rounds
  BY <1>2
<1> QED
  BY <1>3, <1>4 DEF HistoryKept, OutcomesStand, SelectionStands

LEMMA SolvedKeeps ==
  ASSUME ReviewInv, Latest > 0, NEW ids, ids \subseteq Carried(Latest), NEW more \in Seq(NoteRecord),
         notes' = Solved(ids, Latest) \o more
  PROVE  NotesStand
<1> DEFINE after == Solved(ids, Latest)
<1>1. /\ after \in Seq(NoteRecord) /\ Len(after) = Len(notes) /\ Len(notes) \in Nat
      /\ \A n \in 1..Len(notes) : notes[n].status = "resolved" => after[n] = notes[n]
  BY SolvedIs
<1>2. notes' = after \o more
  OBVIOUS
<1> HIDE DEF after
<1>3. Len(more) \in Nat
  BY LenProperties
<1>4. Len(notes') = Len(notes) + Len(more) /\ notes' \in Seq(NoteRecord)
      /\ \A n \in 1..Len(notes) : notes'[n] = after[n]
  BY <1>1, <1>2, <1>3
<1>5. DOMAIN notes = 1..Len(notes) /\ DOMAIN notes' = 1..(Len(notes) + Len(more))
  BY <1>4, NotesAre, LenProperties DEF ReviewInv
<1> QED
  BY <1>1, <1>3, <1>4, <1>5 DEF NotesStand

LEMMA ApproveKeeps ==
  ASSUME ReviewInv, NEW d \in Directors, NEW c, Approve(d, c)
  PROVE  HistoryKept
<1>1. page[d].round = Latest /\ Latest > 0 /\ Latest \in 1..Latest
      /\ rounds[Latest] \in RoundType /\ InReview(Latest)
  BY PageOnLatest, RoundsAre DEF Approve, Reviewable, ReviewInv
<1> DEFINE out == Closed(Latest, "approve")
           r == [rounds[Latest] EXCEPT !.status = "final", !.selected = c, !.list = "completed",
                                       !.outcomes = out]
<1>2. \A i \in DOMAIN rounds[Latest].outcomes :
        rounds[Latest].outcomes[i] # "open" => out[i] = rounds[Latest].outcomes[i]
  BY <1>1, ClosedIs
<1> HIDE DEF out
<1>3. rounds' = [rounds EXCEPT ![Latest] = r] /\ r.outcomes = out /\ DraftsOf(Latest) = {}
      /\ notes' = Solved(Carried(Latest), Latest)
  BY <1>1 DEF Approve, NoIssueLeft, RoundType, out
<1> HIDE DEF r
<1>4. NotesStand
  <2> DEFINE none == <<>>
  <2>1. none \in Seq(NoteRecord) /\ notes' = Solved(Carried(Latest), Latest) \o none
    BY <1>1, <1>3, SolvedIs, ConcatEmptySeq
  <2> HIDE DEF none
  <2> QED
    BY <1>1, <2>1, SolvedKeeps
<1> QED
  BY <1>1, <1>2, <1>3, <1>4, SameOutcomes

LEMMA RejectRoundKeeps ==
  ASSUME ReviewInv, Latest > 0, NEW solved, solved \subseteq Carried(Latest), NEW added,
         added \subseteq DraftRecord, IsFiniteSet(added), \A x \in added : x.round = Latest,
         RejectRound(Latest, solved, added)
  PROVE  HistoryKept
<1>1. Latest \in 1..Latest /\ rounds[Latest] \in RoundType /\ InReview(Latest)
  BY RoundsAre DEF RejectRound, Reviewable, ReviewInv
<1> DEFINE out == Closed(Latest, "reject")
           r == [rounds[Latest] EXCEPT !.status = "rejected", !.list = "completed", !.outcomes = out]
           publishing == DraftsOf(Latest) \cup added
<1>2. \A i \in DOMAIN rounds[Latest].outcomes :
        rounds[Latest].outcomes[i] # "open" => out[i] = rounds[Latest].outcomes[i]
  BY <1>1, ClosedIs
<1> HIDE DEF out
<1>3. rounds' = [rounds EXCEPT ![Latest] = r] /\ r.outcomes = out
      /\ r.selected = rounds[Latest].selected
      /\ notes' = Solved(solved, Latest) \o Published(publishing)
  BY <1>1 DEF RejectRound, RoundType, out
<1> HIDE DEF r
<1>4. Published(publishing) \in Seq(NoteRecord)
  <2>1. DraftsOf(Latest) \subseteq DraftRecord /\ IsFiniteSet(DraftsOf(Latest))
        /\ \A x \in DraftsOf(Latest) : x.round = Latest
    BY FS_Subset DEF ReviewInv, DraftsTell, DraftsOf
  <2>2. publishing \subseteq DraftRecord /\ IsFiniteSet(publishing)
        /\ \A x \in publishing : x.round = Latest
    BY <2>1, FS_Union
  <2> HIDE DEF publishing
  <2> QED
    BY <2>2, PublishedIs
<1> HIDE DEF publishing
<1>5. NotesStand
  BY <1>3, <1>4, SolvedKeeps
<1> QED
  BY <1>1, <1>2, <1>3, <1>5, SameOutcomes

LEMMA RejectionKeeps ==
  ASSUME ReviewInv, NEW d \in Directors, NEW solved,
         \/ Reject(d, solved)
         \/ \E comment \in BOOLEAN : RejectBatch(d, comment, solved)
         \/ RejectOverall(d) /\ solved = {}
  PROVE  HistoryKept
<1>1. Latest > 0 /\ solved \subseteq Carried(Latest)
      /\ \E added : /\ RejectRound(Latest, solved, added)
                    /\ added = {} \/ (RoomForIssue /\ added = {NewDraft(d, Latest)})
  <2>1. ASSUME Reject(d, solved) \/ \E comment \in BOOLEAN : RejectBatch(d, comment, solved)
        PROVE  page[d].round = Latest /\ Latest > 0
    <3>1. page[d].round # 0 /\ page[d].round = Latest
      BY <2>1 DEF Reject, RejectBatch, RejectRound, BatchComment, Reviewable
    <3> QED
      BY <3>1, RoundsAre DEF ReviewInv
  <2>2. CASE Reject(d, solved)
    BY <2>1, <2>2 DEF Reject, VerifiedAll
  <2>3. CASE \E comment \in BOOLEAN : RejectBatch(d, comment, solved)
    <3>1. PICK comment \in BOOLEAN : RejectBatch(d, comment, solved)
      BY <2>3
    <3> DEFINE added == IF comment THEN {NewDraft(d, Latest)} ELSE {}
    <3>2. page[d].round = Latest /\ Latest > 0
      BY <2>1, <2>3
    <3>3. /\ solved \subseteq Carried(Latest) /\ RejectRound(Latest, solved, added)
          /\ comment => RoomForIssue
      BY <3>1, <3>2 DEF RejectBatch, VerifiedAll, BatchComment
    <3>4. added = {} \/ (RoomForIssue /\ added = {NewDraft(d, Latest)})
      BY <3>3
    <3> HIDE DEF added
    <3> QED
      BY <3>2, <3>3, <3>4
  <2>4. CASE RejectOverall(d) /\ solved = {}
    BY <2>4 DEF RejectOverall
  <2> QED
    BY <2>2, <2>3, <2>4
<1>2. PICK added : /\ RejectRound(Latest, solved, added)
                   /\ added = {} \/ (RoomForIssue /\ added = {NewDraft(d, Latest)})
  BY <1>1
<1>3. added \subseteq DraftRecord /\ IsFiniteSet(added) /\ \A x \in added : x.round = Latest
  BY <1>1, <1>2, NewDraftIs, FS_EmptySet, FS_Singleton
<1> QED
  BY <1>1, <1>2, <1>3, RejectRoundKeeps

\* For any directors, versions and issues: no step withdraws or reopens a
\* published issue that was closed, changes the outcome of a closed cycle or
\* moves the selection to another candidate while drafts refer to the present
\* one (review_service.py, review_reopen_service.py).
THEOREM HistoryAlwaysStands == ReviewSpec => HistoryStands
<1>1. ReviewInit => ReviewInv
  BY ReviewInitInv
<1>2. ReviewInv /\ [ReviewNext]_reviewVars => ReviewInv'
  BY ReviewNextInv
<1>3. ReviewInv /\ [ReviewNext]_reviewVars => [HistoryKept]_reviewVars
  <2> SUFFICES ASSUME ReviewInv, ReviewNext PROVE HistoryKept
    OBVIOUS
  <2>1. ASSUME NEW d \in Directors,
               \/ \E v \in DOMAIN rounds : OpenPage(d, v)
               \/ AddDraft(d) \/ Defer(d)
               \/ \E x \in drafts : UpdateDraft(d, x) \/ DeleteDraft(d, x)
               \/ \E comment \in BOOLEAN : SaveBatch(d, comment)
               \/ \E n \in DOMAIN notes : EditIssue(d, n)
        PROVE  HistoryKept
    BY <2>1, RestIsKept DEF OpenPage, AddDraft, Defer, UpdateDraft, DeleteDraft, SaveBatch, EditIssue
  <2>2. ASSUME NEW d \in Directors, NEW c \in 1..MaxFiles, SelectCandidate(d, c) \/ Approve(d, c)
        PROVE  HistoryKept
    BY <2>2, SelectionKeeps, ApproveKeeps
  <2>3. ASSUME NEW d \in Directors, AppendIssue(d) \/ Reopen(d) PROVE HistoryKept
    BY <2>3, AppendIssueKeeps, ReopenKeeps
  <2>4. ASSUME NEW d \in Directors, RejectOverall(d) PROVE HistoryKept
    BY <2>4, RejectionKeeps
  <2>5. ASSUME NEW d \in Directors, NEW solved,
               \/ Reject(d, solved)
               \/ \E comment \in BOOLEAN : RejectBatch(d, comment, solved)
        PROVE  HistoryKept
    BY <2>5, RejectionKeeps
  <2>6. CASE CommitRound \/ CommitAppend
    BY <2>6, CommitsKeep
  <2>7. CASE \/ \E mode \in {"append", "new_round"} : Preflight(mode)
             \/ \E files \in 1..MaxFiles : CreateSubmission(files)
    BY <2>7, RestIsKept DEF Preflight, CreateSubmission
  <2> QED
    BY <2>1, <2>2, <2>3, <2>4, <2>5, <2>6, <2>7 DEF ReviewNext
<1>4. ReviewSpec => [][HistoryKept]_reviewVars
  BY <1>1, <1>2, <1>3, PTL DEF ReviewSpec
<1> QED
  BY <1>4, PTL DEF HistoryStands

-----------------------------------------------------------------------------
(***************************************************************************)
(* The numbers and directories of the shots of a scene.  That a write-back *)
(* never gives two shots one number needs what a frozen mapping still says *)
(* of the shots whose lock version has not risen since.                    *)
(***************************************************************************)

MoveRecord ==
  [items : SUBSET Slots, source : [Slots -> 0..MaxShotNo],
   target : [Slots -> 0..MaxShotNo], changed : SUBSET Slots, renamed : BOOLEAN]

SceneTypes ==
  /\ lifecycle \in [Slots -> {"absent", "active", "archived"}]
  /\ shotNo \in [Slots -> 0..MaxShotNo] /\ shotDir \in [Slots -> 0..MaxShotNo]
  /\ dirOp \in [Slots -> {"none", "queued", "succeeded"}]
  /\ tree \in [Slots -> 0..MaxShotNo] /\ began \in [Slots -> 0..MaxShotNo]
  /\ shotTask \in [Slots -> {"none", "assigned", "started"}]
  /\ migrations \in Seq(MoveRecord) /\ Len(migrations) <= MaxMoves
  /\ storageStatus \in {"ready", "migrating"} /\ waiting \in BOOLEAN /\ late \in BOOLEAN

\* A shot has its number while it is active, and a directory of that name or none.
SlotTells(s) ==
  /\ s \in ActiveShots => shotNo[s] >= 1 /\ shotDir[s] \in {0, shotNo[s]}
  /\ s \notin ActiveShots => shotDir[s] = 0 /\ ~ProductionStarted(s)
  /\ ProductionStarted(s) => shotNo[s] = began[s] /\ shotDir[s] = began[s]
  /\ dirOp[s] = "none" <=> shotDir[s] = 0
  /\ tree[s] # 0 => shotDir[s] # 0
NumbersDiffer == \A s, x \in ActiveShots : shotNo[s] = shotNo[x] => s = x

\* A migration gives its shots different numbers; those that had a directory
\* when it was frozen still have one, and those whose lock version has not
\* risen are as they were.
MoveTells(m) ==
  /\ \A s \in m.items : m.target[s] \in 1..Cardinality(Slots)
  /\ \A s \in Slots : m.target[s] \in 0..Cardinality(Slots)
  /\ \A s, x \in m.items : m.target[s] = m.target[x] => s = x
  /\ \A s \in m.items : m.source[s] # 0 => shotDir[s] # 0 /\ dirOp[s] = "succeeded"
  /\ \A s \in m.items \ m.changed :
       s \in ActiveShots /\ ~ProductionStarted(s) /\ shotDir[s] = m.source[s]
MovesTell == \A i \in 1..Len(migrations) : MoveTells(migrations[i])

\* Unless a request was served late, a migration is alone, it still applies and
\* will leave the scene in order, and the tree is as far as it is.
FitsNow(m) ==
  /\ m.changed = {}
  /\ \A x \in ActiveShots \ m.items, s \in m.items : shotNo[x] # m.target[s]
  /\ {IF s \in m.items THEN m.target[s] ELSE shotNo[s] : s \in ActiveShots}
       = 1..Cardinality(ActiveShots)
  /\ m.renamed => \A s \in WithDirectory(m) : tree[s] = m.target[s]
OneMoveAtMost ==
  \/ storageStatus = "ready" /\ migrations = <<>>
  \/ storageStatus = "migrating" /\ Len(migrations) = 1 /\ FitsNow(migrations[1])
TreeTells ==
  \A s \in ActiveShots : dirOp[s] = "succeeded" =>
    \/ tree[s] = shotDir[s]
    \/ Len(migrations) = 1 /\ s \in migrations[1].items /\ tree[s] = migrations[1].target[s]

SceneInv ==
  /\ SceneTypes /\ NumbersDiffer /\ MovesTell
  /\ \A s \in Slots : SlotTells(s)
  /\ ~late => OneMoveAtMost /\ TreeTells

LEMMA SceneBounds ==
  /\ IsFiniteSet(Slots) /\ Cardinality(Slots) \in Nat
  /\ MaxShotNo \in Nat /\ MaxShotNo >= 1 /\ MaxMoves \in Nat /\ MaxMoves >= 1
BY SceneAssumption, FS_CardinalityType

LEMMA ActiveAre ==
  /\ ActiveShots \subseteq Slots /\ IsFiniteSet(ActiveShots)
  /\ Cardinality(ActiveShots) \in Nat /\ Cardinality(ActiveShots) <= Cardinality(Slots)
<1>1. ActiveShots \subseteq Slots
  BY DEF ActiveShots
<1> QED
  BY <1>1, SceneBounds, FS_Subset, FS_CardinalityType

LEMMA MovesAre ==
  ASSUME SceneTypes
  PROVE  /\ Len(migrations) \in Nat /\ DOMAIN migrations = 1..Len(migrations)
         /\ \A i \in 1..Len(migrations) : migrations[i] \in MoveRecord
BY DEF SceneTypes

\* What the run checks follows.
LEMMA InvMeansScenesSafe == SceneInv => ScenesSafe
<1> SUFFICES ASSUME SceneInv PROVE ScenesSafe
  OBVIOUS
<1>1. /\ Len(migrations) \in Nat /\ DOMAIN migrations = 1..Len(migrations)
      /\ \A i \in 1..Len(migrations) : migrations[i] \in MoveRecord
  BY MovesAre DEF SceneInv
<1>2. ActiveShots \subseteq Slots
  BY ActiveAre
<1>3. SceneTypeOK
  <2>1. ASSUME NEW i \in 1..Len(migrations) PROVE migrations[i] \in Migration
    <3>1. migrations[i] \in MoveRecord /\ \A s \in Slots : migrations[i].target[s] \in 0..Cardinality(Slots)
      BY <1>1 DEF SceneInv, MovesTell, MoveTells
    <3>2. migrations[i].target \in [Slots -> 0..Cardinality(Slots)]
      BY <3>1 DEF MoveRecord
    <3> QED
      BY <3>1, <3>2 DEF MoveRecord, Migration
  <2> QED
    BY <1>1, <2>1 DEF SceneInv, SceneTypes, SceneTypeOK
<1>4. NumbersNameDirectories
  BY <1>2 DEF SceneInv, NumbersDiffer, SlotTells, NumbersNameDirectories
<1>5. StartedShotsStandStill
  BY DEF SceneInv, SlotTells, StartedShotsStandStill
<1>6. TreeFollowsTable
  <2>1. ASSUME NEW s \in Slots, lifecycle[s] = "archived" PROVE tree[s] = 0
    BY <2>1 DEF SceneInv, SlotTells, ActiveShots
  <2>2. ASSUME ~late, NEW s \in ActiveShots, dirOp[s] = "succeeded"
        PROVE  \/ tree[s] = shotDir[s]
               \/ \E i \in DOMAIN migrations :
                    s \in migrations[i].items /\ tree[s] = migrations[i].target[s]
    BY <1>1, <2>2 DEF SceneInv, TreeTells
  <2> QED
    BY <2>1, <2>2 DEF TreeFollowsTable
<1>7. MigrationsCanFinish
  <2> SUFFICES ASSUME ~late
               PROVE  /\ Len(migrations) = (IF storageStatus = "migrating" THEN 1 ELSE 0)
                      /\ \A i \in DOMAIN migrations :
                           LET m == migrations[i] IN
                           /\ StillApplies(m) /\ m.items \subseteq ActiveShots
                           /\ \A s \in m.items : ~ProductionStarted(s)
                           /\ {IF s \in m.items THEN m.target[s] ELSE shotNo[s] : s \in ActiveShots}
                                = 1..Cardinality(ActiveShots)
    BY DEF MigrationsCanFinish
  <2>1. CASE storageStatus = "ready" /\ migrations = <<>>
    BY <2>1, <1>1
  <2>2. CASE storageStatus = "migrating" /\ Len(migrations) = 1 /\ FitsNow(migrations[1])
    <3>1. DOMAIN migrations = {1} /\ MoveTells(migrations[1])
      BY <1>1, <2>2 DEF SceneInv, MovesTell
    <3> QED
      BY <2>2, <3>1 DEF FitsNow, MoveTells, StillApplies, NumbersFree
  <2> QED
    BY <2>1, <2>2 DEF SceneInv, OneMoveAtMost
<1> QED
  BY <1>3, <1>4, <1>5, <1>6, <1>7 DEF ScenesSafe

LEMMA SceneInitInv == SceneInit => SceneInv
<1> SUFFICES ASSUME SceneInit PROVE SceneInv
  OBVIOUS
<1>1. PICK legacy \in SUBSET ActiveShots :
        /\ shotDir = [s \in Slots |-> IF s \in legacy THEN shotNo[s] ELSE 0]
        /\ dirOp \in [Slots -> {"none", "queued", "succeeded"}]
        /\ \A s \in Slots : dirOp[s] = "none" <=> s \notin legacy
  BY DEF SceneInit
<1>2. legacy \subseteq Slots /\ ActiveShots \subseteq Slots
  BY ActiveAre
<1>3. SceneTypes
  <2>1. shotNo \in [Slots -> 0..MaxShotNo] /\ 0 \in 0..MaxShotNo
    BY SceneBounds DEF SceneInit
  <2>2. shotDir \in [Slots -> 0..MaxShotNo]
    BY <1>1, <2>1
  <2>3. tree \in [Slots -> 0..MaxShotNo] /\ began \in [Slots -> 0..MaxShotNo]
    BY <2>1, <2>2 DEF SceneInit
  <2>4. lifecycle \in [Slots -> {"absent", "active", "archived"}]
    BY DEF SceneInit
  <2>5. shotTask \in [Slots -> {"none", "assigned", "started"}]
    BY DEF SceneInit
  <2>6. migrations \in Seq(MoveRecord) /\ Len(migrations) = 0 /\ 0 <= MaxMoves
    BY SceneBounds DEF SceneInit
  <2> QED
    BY <1>1, <2>1, <2>2, <2>3, <2>4, <2>5, <2>6 DEF SceneInit, SceneTypes
<1>4. \A s \in Slots : SlotTells(s)
  <2> SUFFICES ASSUME NEW s \in Slots PROVE SlotTells(s)
    OBVIOUS
  <2>1. shotNo[s] \in 0..MaxShotNo /\ (shotNo[s] = 0 <=> s \notin ActiveShots)
    BY DEF SceneInit, ActiveShots
  <2>2. /\ shotDir[s] = (IF s \in legacy THEN shotNo[s] ELSE 0)
        /\ tree[s] = (IF dirOp[s] = "succeeded" THEN shotDir[s] ELSE 0)
        /\ shotTask[s] = "none" /\ (dirOp[s] = "none" <=> s \notin legacy)
    BY <1>1 DEF SceneInit
  <2>3. s \in legacy => s \in ActiveShots
    OBVIOUS
  <2> QED
    BY <2>1, <2>2, <2>3, SceneBounds DEF SlotTells, ProductionStarted
<1>5. NumbersDiffer
  BY DEF SceneInit, NumbersDiffer
<1>6. MovesTell /\ OneMoveAtMost
  BY DEF SceneInit, MovesTell, OneMoveAtMost
<1>7. TreeTells
  BY <1>2 DEF SceneInit, TreeTells
<1> QED
  BY <1>3, <1>4, <1>5, <1>6, <1>7 DEF SceneInv

-----------------------------------------------------------------------------
(* Numbers and positions.                                                  *)

\* The shots of A stand at 1, 2, 3...
Arranges(position, A) ==
  /\ position \in [A -> 1..Cardinality(A)]
  /\ \A s, x \in A : position[s] = position[x] => s = x
  /\ {position[s] : s \in A} = 1..Cardinality(A)

LEMMA DifferentPositionsArrange ==
  ASSUME NEW A, IsFiniteSet(A), NEW f \in [A -> 1..Cardinality(A)],
         \A s, x \in A : f[s] = f[x] => s = x
  PROVE  Arranges(f, A)
<1> DEFINE n == Cardinality(A)
<1>1. n \in Nat
  BY FS_CardinalityType
<1>2. IsFiniteSet(1..n) /\ Cardinality(1..n) = n
  BY <1>1, FS_Interval
<1>3. f \in Injection(A, 1..n)
  BY DEF Injection, IsInjective
<1>4. f \in Surjection(A, 1..n)
  BY <1>2, <1>3, FS_Injection
<1>5. {f[s] : s \in A} = 1..n
  BY <1>4 DEF Surjection
<1> QED
  BY <1>5 DEF Arranges

LEMMA PositionsArrange ==
  ASSUME SceneTypes, NumbersDiffer, NEW A, A \subseteq ActiveShots
  PROVE  /\ Arranges(Positions(A), A) /\ IsFiniteSet(A) /\ Cardinality(A) \in Nat
         /\ \A s \in A : Positions(A)[s] \in 1..Cardinality(A)
<1> DEFINE upTo(s) == {x \in A : shotNo[x] <= shotNo[s]}
<1>1. IsFiniteSet(A) /\ Cardinality(A) \in Nat /\ A \subseteq Slots
  BY ActiveAre, FS_Subset, FS_CardinalityType
<1>2. \A s \in A : shotNo[s] \in Nat
  BY <1>1, SceneBounds DEF SceneTypes
<1>3. ASSUME NEW s \in A
      PROVE  /\ IsFiniteSet(upTo(s)) /\ Cardinality(upTo(s)) \in 1..Cardinality(A)
             /\ Cardinality(upTo(s)) \in Nat
  <2>1. upTo(s) \subseteq A /\ s \in upTo(s)
    BY <1>2
  <2> DEFINE B == upTo(s)
  <2>2. B \subseteq A /\ s \in B
    BY <2>1
  <2> HIDE DEF B
  <2>3. IsFiniteSet(B) /\ Cardinality(B) <= Cardinality(A)
    BY <1>1, <2>2, FS_Subset
  <2>4. Cardinality(B) \in Nat /\ Cardinality(B) # 0
    BY <2>2, <2>3, FS_CardinalityType, FS_EmptySet
  <2> QED
    BY <1>1, <2>3, <2>4 DEF B
<1>4. ASSUME NEW s \in A, NEW x \in A, shotNo[s] < shotNo[x]
      PROVE  Cardinality(upTo(s)) # Cardinality(upTo(x))
  <2>1. upTo(s) \subseteq upTo(x) /\ x \in upTo(x) /\ x \notin upTo(s)
    BY <1>2, <1>4
  <2> DEFINE B == upTo(s)
             C == upTo(x)
  <2>2. B \in SUBSET C /\ B # C /\ IsFiniteSet(C)
    BY <2>1, <1>3
  <2> HIDE DEF B, C
  <2>3. Cardinality(C) # Cardinality(B)
    BY <2>2, FS_Subset
  <2> QED
    BY <2>3 DEF B, C
<1> DEFINE f == Positions(A)
<1>5. f = [s \in A |-> Cardinality(upTo(s))]
  BY DEF Positions
<1>6. f \in [A -> 1..Cardinality(A)] /\ \A s \in A : f[s] = Cardinality(upTo(s))
  BY <1>3, <1>5
<1> HIDE DEF f, upTo
<1>7. ASSUME NEW s \in A, NEW x \in A, f[s] = f[x] PROVE s = x
  <2>1. ~(shotNo[s] < shotNo[x]) /\ ~(shotNo[x] < shotNo[s])
    BY <1>4, <1>6, <1>7
  <2>2. shotNo[s] = shotNo[x]
    BY <1>2, <2>1
  <2> QED
    BY <2>2 DEF NumbersDiffer
<1>8. Arranges(f, A)
  BY <1>1, <1>6, <1>7, DifferentPositionsArrange
<1> QED
  BY <1>1, <1>6, <1>8 DEF f

LEMMA MovedArranges ==
  ASSUME SceneTypes, NumbersDiffer, NEW s \in ActiveShots, NEW p \in 1..Cardinality(ActiveShots)
  PROVE  Arranges(Moved(s, p), ActiveShots)
<1> DEFINE A == ActiveShots
           B == ActiveShots \ {s}
           o == Positions(B)
           n == Cardinality(A)
           f == Moved(s, p)
<1>1. IsFiniteSet(A) /\ n \in Nat
  BY ActiveAre
<1>2. Cardinality(B) = n - 1
  BY <1>1, FS_RemoveElement
<1>3. \A x \in B : o[x] \in 1..(n - 1)
  <2>1. B \subseteq ActiveShots
    OBVIOUS
  <2> HIDE DEF B
  <2> QED
    BY <2>1, <1>2, PositionsArrange
<1>4. \A x, y \in B : o[x] = o[y] => x = y
  <2>1. B \subseteq ActiveShots
    OBVIOUS
  <2> HIDE DEF B
  <2> QED
    BY <2>1, PositionsArrange DEF Arranges
<1>5. f = [x \in A |-> IF x = s THEN p ELSE o[x] + IF o[x] >= p THEN 1 ELSE 0]
  BY DEF Moved
<1>6. \A x \in A : x = s \/ x \in B
  OBVIOUS
<1>7. p \in 1..n /\ p \in Nat
  BY <1>1
<1> HIDE DEF A, B, o, n, f
<1>8. \A x \in A : f[x] = IF x = s THEN p ELSE o[x] + IF o[x] >= p THEN 1 ELSE 0
  BY <1>5
<1>9. ASSUME NEW x \in A PROVE f[x] \in 1..n
  BY <1>1, <1>3, <1>6, <1>7, <1>8
<1>10. ASSUME NEW x \in A, NEW y \in A, f[x] = f[y] PROVE x = y
  BY <1>1, <1>3, <1>4, <1>6, <1>7, <1>8, <1>10
<1>11. f \in [A -> 1..n]
  BY <1>5, <1>9
<1>12. Arranges(f, A)
  BY <1>1, <1>10, <1>11, DifferentPositionsArrange DEF n
<1> QED
  BY <1>12 DEF f, A
LEMMA NumbersSuffice ==
  ASSUME SceneInv PROVE Cardinality(ActiveShots) <= MaxShotNo
<1> DEFINE f == [s \in ActiveShots |-> shotNo[s]]
           T == 1..MaxShotNo
<1>1. \A s \in ActiveShots : shotNo[s] \in 0..MaxShotNo /\ shotNo[s] >= 1
  BY ActiveAre DEF SceneInv, SceneTypes, SlotTells
<1>2. f \in [ActiveShots -> T]
  BY <1>1, SceneBounds
<1>3. f \in Injection(ActiveShots, T)
  BY <1>2 DEF Injection, IsInjective, SceneInv, NumbersDiffer
<1>4. IsFiniteSet(T) /\ Cardinality(T) = MaxShotNo
  BY SceneBounds, FS_Interval
<1> HIDE DEF f, T
<1>5. Cardinality(ActiveShots) <= Cardinality(T)
  BY <1>3, <1>4, FS_Injection
<1> QED
  BY <1>4, <1>5

-----------------------------------------------------------------------------
(* Requests and migrations under way.                                      *)

LEMMA RequestIs ==
  ASSUME SceneInv, NEW seen \in {"ready", "migrating"}, LockProject(seen)
  PROVE  /\ seen = "ready" /\ waiting' \in BOOLEAN /\ late' \in BOOLEAN
         /\ ~late' => ~late /\ storageStatus = "ready" /\ migrations = <<>> /\ TreeTells
<1>1. seen = "ready"
  BY DEF LockProject
<1>2. waiting \in BOOLEAN /\ late \in BOOLEAN /\ storageStatus \in {"ready", "migrating"}
  BY DEF SceneInv, SceneTypes
<1>3. waiting' \in BOOLEAN /\ late' \in BOOLEAN /\ (~late' => ~late /\ storageStatus = "ready")
  BY <1>1, <1>2 DEF LockProject
<1>4. ~late /\ storageStatus = "ready" => migrations = <<>> /\ TreeTells
  BY DEF SceneInv, OneMoveAtMost
<1> QED
  BY <1>1, <1>3, <1>4

LEMMA RaisedIs ==
  ASSUME SceneInv, NEW shots
  PROVE  /\ Raised(shots) \in Seq(MoveRecord) /\ Len(Raised(shots)) = Len(migrations)
         /\ \A i \in 1..Len(migrations) :
              Raised(shots)[i] =
                [migrations[i] EXCEPT !.changed = @ \cup (shots \cap migrations[i].items)]
         /\ \A i \in 1..Len(migrations) : Raised(shots)[i] \in MoveRecord
         /\ migrations = <<>> => Raised(shots) = <<>>
<1> DEFINE item(i) ==
             [migrations[i] EXCEPT !.changed = @ \cup (shots \cap migrations[i].items)]
           n == Len(migrations)
<1>1. n \in Nat /\ DOMAIN migrations = 1..n /\ \A i \in 1..n : migrations[i] \in MoveRecord
  BY MovesAre DEF SceneInv
<1>2. ASSUME NEW i \in 1..n PROVE item(i) \in MoveRecord
  BY <1>1 DEF MoveRecord
<1>3. Raised(shots) = [i \in 1..n |-> item(i)]
  BY <1>1 DEF Raised
<1> HIDE DEF item
<1>4. Raised(shots) \in Seq(MoveRecord) /\ Len(Raised(shots)) = n
  BY <1>1, <1>2, <1>3
<1>5. n = 0 => Raised(shots) = <<>>
  BY <1>4, EmptySeq
<1>6. \A i \in 1..n : Raised(shots)[i] = item(i) /\ Raised(shots)[i] \in MoveRecord
  BY <1>2, <1>3
<1> QED
  BY <1>4, <1>5, <1>6 DEF item

\* What a step may do to the shots of a migration it does not raise.
Touches(T) ==
  /\ \A s \in Slots : shotDir[s] # 0 => shotDir'[s] # 0
  /\ \A s \in Slots : dirOp[s] = "succeeded" => dirOp'[s] = "succeeded"
  /\ \A s \in Slots \ T :
       /\ lifecycle[s] = "active" => lifecycle'[s] = "active"
       /\ shotTask'[s] = "started" => shotTask[s] = "started"
       /\ shotDir'[s] = shotDir[s]

LEMMA MoveKeeps ==
  ASSUME NEW T, Touches(T), NEW m \in MoveRecord, NEW n \in MoveRecord, MoveTells(m),
         n.items = m.items, n.source = m.source, n.target = m.target,
         m.changed \cup (T \cap m.items) \subseteq n.changed
  PROVE  MoveTells(n)'
<1>1. m.items \subseteq Slots
  BY DEF MoveRecord
<1>2. \A s \in n.items : n.source[s] # 0 => shotDir'[s] # 0 /\ dirOp'[s] = "succeeded"
  BY <1>1 DEF MoveTells, Touches
<1>3. ASSUME NEW s \in n.items \ n.changed
      PROVE  s \in ActiveShots' /\ ~ProductionStarted(s)' /\ shotDir'[s] = n.source[s]
  <2>1. s \in Slots \ T /\ s \in m.items \ m.changed
    BY <1>1
  <2> QED
    BY <2>1 DEF MoveTells, Touches, ActiveShots, ProductionStarted
<1>4. /\ \A s \in n.items : n.target[s] \in 1..Cardinality(Slots)
      /\ \A s \in Slots : n.target[s] \in 0..Cardinality(Slots)
      /\ \A s, x \in n.items : n.target[s] = n.target[x] => s = x
  BY DEF MoveTells
<1> QED
  BY <1>2, <1>3, <1>4 DEF MoveTells

LEMMA RaisedKeeps ==
  ASSUME SceneInv, NEW T, NEW shots, T \subseteq shots, Touches(T),
         NEW i \in 1..Len(migrations), NEW n, n = Raised(shots)[i]
  PROVE  /\ n \in MoveRecord /\ n.items = migrations[i].items
         /\ n.source = migrations[i].source /\ n.target = migrations[i].target
         /\ MoveTells(n)'
<1>1. Len(migrations) \in Nat /\ migrations[i] \in MoveRecord /\ MoveTells(migrations[i])
  BY MovesAre DEF SceneInv, MovesTell
<1>2. /\ Raised(shots) \in Seq(MoveRecord) /\ Len(Raised(shots)) = Len(migrations)
      /\ n = [migrations[i] EXCEPT !.changed = @ \cup (shots \cap migrations[i].items)]
  BY RaisedIs
<1>3. n.items = migrations[i].items /\ n.source = migrations[i].source
      /\ n.target = migrations[i].target
      /\ n.changed = migrations[i].changed \cup (shots \cap migrations[i].items)
  BY <1>1, <1>2 DEF MoveRecord
<1>4. n \in MoveRecord
  BY RaisedIs
<1>5. PICK m \in MoveRecord :
        /\ MoveTells(m) /\ n.items = m.items /\ n.source = m.source
        /\ n.target = m.target /\ m.changed \cup (T \cap m.items) \subseteq n.changed
  BY <1>1, <1>3
<1>6. MoveTells(n)'
  BY <1>4, <1>5, MoveKeeps
<1> QED
  BY <1>3, <1>4, <1>6

\* The migrations after a step that raises the lock versions of some shots.
LEMMA MovesRaised ==
  ASSUME SceneInv, NEW T, NEW shots, T \subseteq shots, Touches(T), migrations' = Raised(shots)
  PROVE  /\ migrations' \in Seq(MoveRecord) /\ Len(migrations') <= MaxMoves /\ MovesTell'
         /\ migrations = <<>> => migrations' = <<>>
<1>1. /\ migrations' \in Seq(MoveRecord) /\ Len(migrations') = Len(migrations)
      /\ Len(migrations) <= MaxMoves /\ (migrations = <<>> => migrations' = <<>>)
  BY RaisedIs DEF SceneInv, SceneTypes
<1>2. ASSUME NEW i \in 1..Len(migrations) PROVE MoveTells(migrations[i])'
  BY <1>2, RaisedKeeps
<1> QED
  BY <1>1, <1>2 DEF MovesTell

LEMMA MovesUntouched ==
  ASSUME SceneInv, Touches({}), UNCHANGED migrations PROVE MovesTell'
<1>1. ASSUME NEW i \in 1..Len(migrations) PROVE MoveTells(migrations[i])'
  <2>1. Len(migrations) \in Nat /\ migrations[i] \in MoveRecord /\ MoveTells(migrations[i])
    BY MovesAre DEF SceneInv, MovesTell
  <2>2. PICK m \in MoveRecord : MoveTells(m) /\ m = migrations[i]
    BY <2>1
  <2>3. MoveTells(m)'
    BY <2>2, MoveKeeps
  <2> QED
    BY <2>2, <2>3
<1> QED
  BY <1>1 DEF MovesTell

-----------------------------------------------------------------------------
(* The requests that leave the numbers alone.                              *)

LEMMA WaitStep == ASSUME SceneInv, WaitForProject \/ RollBack PROVE SceneInv'
<1>1. UNCHANGED <<lifecycle, shotNo, shotDir, dirOp, tree, shotTask, began, migrations,
                  storageStatus, late>> /\ waiting' \in BOOLEAN
  BY DEF WaitForProject, RollBack
<1>2. ActiveShots' = ActiveShots /\ (SceneTypes => SceneTypes')
  BY <1>1 DEF ActiveShots, SceneTypes
<1>3. NumbersDiffer' /\ MovesTell' /\ (\A s \in Slots : SlotTells(s)')
  BY <1>1, <1>2 DEF SceneInv, NumbersDiffer, MovesTell, MoveTells, SlotTells, ProductionStarted
<1>4. ~late' => OneMoveAtMost' /\ TreeTells'
  BY <1>1, <1>2 DEF SceneInv, OneMoveAtMost, TreeTells, FitsNow
<1> QED
  BY <1>2, <1>3, <1>4 DEF SceneInv

LEMMA CreateShotStep ==
  ASSUME SceneInv, NEW s \in Slots, NEW n \in 1..MaxShotNo, NEW seen \in {"ready", "migrating"},
         CreateShot(s, n, seen)
  PROVE  SceneInv'
<1>1. /\ waiting' \in BOOLEAN /\ late' \in BOOLEAN
      /\ ~late' => ~late /\ storageStatus = "ready" /\ migrations = <<>> /\ TreeTells
  BY RequestIs DEF CreateShot
<1>2. /\ lifecycle[s] = "absent" /\ lifecycle' = [lifecycle EXCEPT ![s] = "active"]
      /\ shotNo' = [shotNo EXCEPT ![s] = n] /\ \A x \in ActiveShots : shotNo[x] # n
      /\ UNCHANGED <<shotDir, dirOp, tree, shotTask, began, migrations, storageStatus>>
  BY DEF CreateShot
<1>3. SceneTypes /\ n \in 0..MaxShotNo /\ n >= 1 /\ s \notin ActiveShots
  BY <1>2, SceneBounds DEF SceneInv, ActiveShots
<1>4. SceneTypes'
  BY <1>1, <1>2, <1>3 DEF SceneTypes
<1>5. ActiveShots' = ActiveShots \cup {s}
  BY <1>2, <1>3 DEF ActiveShots, SceneTypes
<1>6. \A x \in Slots : shotNo'[x] = IF x = s THEN n ELSE shotNo[x]
  BY <1>2, <1>3 DEF SceneTypes
<1>7. ASSUME NEW x \in Slots PROVE SlotTells(x)'
  <2>1. SlotTells(x)
    BY DEF SceneInv
  <2> QED
    BY <1>2, <1>3, <1>5, <1>6, <2>1 DEF SlotTells, ProductionStarted
<1>8. NumbersDiffer'
  BY <1>2, <1>5, <1>6, ActiveAre DEF SceneInv, NumbersDiffer
<1>9. Touches({})
  BY <1>2, <1>3 DEF Touches, SceneTypes
<1>10. MovesTell'
  BY <1>2, <1>9, MovesUntouched
<1>11. ~late' => OneMoveAtMost' /\ TreeTells'
  <2> SUFFICES ASSUME ~late' PROVE OneMoveAtMost' /\ TreeTells'
    OBVIOUS
  <2>1. migrations = <<>> /\ Len(migrations) = 0 /\ storageStatus = "ready" /\ TreeTells
    BY <1>1
  <2>2. OneMoveAtMost'
    BY <1>2, <2>1 DEF OneMoveAtMost
  <2>3. shotDir[s] = 0 /\ dirOp[s] = "none"
    BY <1>3 DEF SceneInv, SlotTells
  <2> QED
    BY <1>2, <1>5, <2>1, <2>2, <2>3 DEF TreeTells
<1> QED
  BY <1>4, <1>7, <1>8, <1>10, <1>11 DEF SceneInv
LEMMA UpdateShotStep ==
  ASSUME SceneInv, NEW s \in Slots, NEW seen \in {"ready", "migrating"}, UpdateShot(s, seen)
  PROVE  SceneInv'
<1>1. /\ waiting' \in BOOLEAN /\ late' \in BOOLEAN
      /\ ~late' => ~late /\ storageStatus = "ready" /\ migrations = <<>> /\ TreeTells
  BY RequestIs DEF UpdateShot
<1>2. /\ migrations' = Raised({s})
      /\ UNCHANGED <<lifecycle, shotNo, shotDir, dirOp, tree, shotTask, began, storageStatus>>
  BY DEF UpdateShot
<1>3. Touches({})
  BY <1>2 DEF Touches
<1>4. /\ migrations' \in Seq(MoveRecord) /\ Len(migrations') <= MaxMoves /\ MovesTell'
      /\ migrations = <<>> => migrations' = <<>>
  BY <1>2, <1>3, MovesRaised
<1>5. SceneTypes' /\ ActiveShots' = ActiveShots
  BY <1>1, <1>2, <1>4 DEF SceneInv, SceneTypes, ActiveShots
<1>6. NumbersDiffer' /\ (\A x \in Slots : SlotTells(x)')
  BY <1>2, <1>5 DEF SceneInv, NumbersDiffer, SlotTells, ProductionStarted
<1>7. ~late' => OneMoveAtMost' /\ TreeTells'
  <2> SUFFICES ASSUME ~late' PROVE OneMoveAtMost' /\ TreeTells'
    OBVIOUS
  <2>1. /\ migrations = <<>> /\ Len(migrations) = 0 /\ migrations' = <<>> /\ storageStatus' = "ready"
        /\ TreeTells
    BY <1>1, <1>2, <1>4
  <2> QED
    BY <1>2, <1>5, <2>1 DEF TreeTells, OneMoveAtMost
<1> QED
  BY <1>4, <1>5, <1>6, <1>7 DEF SceneInv

LEMMA AssignShotStep ==
  ASSUME SceneInv, NEW s \in Slots, NEW seen \in {"ready", "migrating"}, AssignShot(s, seen)
  PROVE  SceneInv'
<1>1. /\ waiting' \in BOOLEAN /\ late' \in BOOLEAN
      /\ ~late' => ~late /\ storageStatus = "ready" /\ migrations = <<>> /\ TreeTells
  BY RequestIs DEF AssignShot
<1>2. /\ shotTask[s] = "none" /\ shotTask' = [shotTask EXCEPT ![s] = "assigned"]
      /\ UNCHANGED <<lifecycle, shotNo, shotDir, dirOp, tree, began, migrations, storageStatus>>
  BY DEF AssignShot
<1>3. SceneTypes' /\ ActiveShots' = ActiveShots
  BY <1>1, <1>2 DEF SceneInv, SceneTypes, ActiveShots
<1>4. \A x \in Slots : ProductionStarted(x)' => ProductionStarted(x)
  BY <1>2 DEF SceneInv, SceneTypes, ProductionStarted
<1>5. NumbersDiffer' /\ (\A x \in Slots : SlotTells(x)')
  BY <1>2, <1>3, <1>4 DEF SceneInv, NumbersDiffer, SlotTells
<1>6. Touches({})
  BY <1>2, <1>4 DEF Touches, ProductionStarted
<1>7. MovesTell'
  BY <1>2, <1>6, MovesUntouched
<1>8. ~late' => OneMoveAtMost' /\ TreeTells'
  BY <1>1, <1>2, <1>3 DEF TreeTells, OneMoveAtMost
<1> QED
  BY <1>3, <1>5, <1>7, <1>8 DEF SceneInv

LEMMA StartShotStep ==
  ASSUME SceneInv, NEW s \in Slots, NEW seen \in {"ready", "migrating"}, StartShot(s, seen)
  PROVE  SceneInv'
<1>1. /\ waiting' \in BOOLEAN /\ late' \in BOOLEAN
      /\ ~late' => ~late /\ storageStatus = "ready" /\ migrations = <<>> /\ TreeTells
  BY RequestIs DEF StartShot
<1>2. /\ s \in ActiveShots /\ shotTask' = [shotTask EXCEPT ![s] = "started"]
      /\ began' = [began EXCEPT ![s] = shotNo[s]]
      /\ shotDir' = [shotDir EXCEPT ![s] = IF HasDirectory(s) THEN @ ELSE shotNo[s]]
      /\ dirOp' = [dirOp EXCEPT ![s] = IF @ = "none" THEN "queued" ELSE @]
      /\ migrations' = Raised({s})
      /\ UNCHANGED <<lifecycle, shotNo, tree, storageStatus>>
  BY DEF StartShot
<1>3. SceneTypes /\ SlotTells(s)
  BY DEF SceneInv
<1>4. /\ shotNo[s] \in 0..MaxShotNo /\ shotNo[s] >= 1 /\ shotDir[s] \in {0, shotNo[s]}
      /\ dirOp[s] = "none" <=> shotDir[s] = 0
  BY <1>2, <1>3 DEF SceneTypes, SlotTells
<1>5. \A x \in Slots : /\ shotDir'[x] = IF x = s THEN shotNo[s] ELSE shotDir[x]
                       /\ dirOp'[x] = IF x = s /\ dirOp[s] = "none" THEN "queued" ELSE dirOp[x]
                       /\ shotTask'[x] = IF x = s THEN "started" ELSE shotTask[x]
                       /\ began'[x] = IF x = s THEN shotNo[s] ELSE began[x]
  BY <1>2, <1>3, <1>4 DEF SceneTypes, HasDirectory
<1>6. Touches({s})
  BY <1>2, <1>4, <1>5, SceneBounds DEF Touches
<1>7. /\ migrations' \in Seq(MoveRecord) /\ Len(migrations') <= MaxMoves /\ MovesTell'
      /\ migrations = <<>> => migrations' = <<>>
  BY <1>2, <1>6, MovesRaised
<1>8. shotDir' = [shotDir EXCEPT ![s] = shotNo[s]]
  BY <1>2, <1>4 DEF HasDirectory
<1>9. SceneTypes'
  BY <1>1, <1>2, <1>3, <1>4, <1>7, <1>8 DEF SceneTypes
<1>10. ActiveShots' = ActiveShots
  BY <1>2 DEF ActiveShots
<1>11. ASSUME NEW x \in Slots PROVE SlotTells(x)'
  <2>1. SlotTells(x)
    BY DEF SceneInv
  <2> QED
    BY <1>2, <1>4, <1>5, <1>10, <2>1, SceneBounds DEF SlotTells, ProductionStarted
<1>12. NumbersDiffer'
  BY <1>2, <1>10 DEF SceneInv, NumbersDiffer
<1>13. ~late' => OneMoveAtMost' /\ TreeTells'
  <2> SUFFICES ASSUME ~late' PROVE OneMoveAtMost' /\ TreeTells'
    OBVIOUS
  <2>1. /\ migrations = <<>> /\ Len(migrations) = 0 /\ migrations' = <<>> /\ storageStatus' = "ready"
        /\ TreeTells
    BY <1>1, <1>2, <1>7
  <2>2. OneMoveAtMost'
    BY <2>1 DEF OneMoveAtMost
  <2>3. ASSUME NEW x \in ActiveShots, dirOp'[x] = "succeeded" PROVE tree'[x] = shotDir'[x]
    <3>1. dirOp[x] = "succeeded" /\ (x = s => shotDir[s] = shotNo[s])
      BY <1>4, <1>5, <2>3, ActiveAre
    <3> QED
      BY <1>2, <1>5, <2>1, <3>1, ActiveAre DEF TreeTells
  <2> QED
    BY <1>10, <2>2, <2>3 DEF TreeTells
<1> QED
  BY <1>7, <1>9, <1>11, <1>12, <1>13 DEF SceneInv
-----------------------------------------------------------------------------
(* The worker.                                                             *)

LEMMA OnlyMove ==
  ASSUME SceneInv, ~late, NEW i \in DOMAIN migrations
  PROVE  /\ i = 1 /\ Len(migrations) = 1 /\ DOMAIN migrations = {1}
         /\ storageStatus = "migrating" /\ FitsNow(migrations[1])
<1>1. Len(migrations) \in Nat /\ DOMAIN migrations = 1..Len(migrations)
  BY MovesAre DEF SceneInv
<1>2. migrations # <<>>
  BY <1>1
<1> QED
  BY <1>1, <1>2 DEF SceneInv, OneMoveAtMost

LEMMA MakeDirectoryStep ==
  ASSUME SceneInv, NEW s \in Slots, MakeDirectory(s) PROVE SceneInv'
<1>1. /\ dirOp[s] = "queued" /\ dirOp' = [dirOp EXCEPT ![s] = "succeeded"]
      /\ tree' = [tree EXCEPT ![s] = shotDir[s]]
      /\ UNCHANGED <<lifecycle, shotNo, shotDir, shotTask, began, migrations, storageStatus,
                     waiting, late>>
  BY DEF MakeDirectory
<1>2. SceneTypes /\ SlotTells(s)
  BY DEF SceneInv
<1>3. shotDir[s] # 0 /\ shotDir[s] \in 0..MaxShotNo
  BY <1>1, <1>2 DEF SlotTells, SceneTypes
<1>4. SceneTypes'
  BY <1>1, <1>2, <1>3 DEF SceneTypes
<1>5. \A x \in Slots : /\ dirOp'[x] = IF x = s THEN "succeeded" ELSE dirOp[x]
                       /\ tree'[x] = IF x = s THEN shotDir[s] ELSE tree[x]
  BY <1>1, <1>2 DEF SceneTypes
<1>6. ActiveShots' = ActiveShots
  BY <1>1 DEF ActiveShots
<1>7. ASSUME NEW x \in Slots PROVE SlotTells(x)'
  <2>1. SlotTells(x)
    BY DEF SceneInv
  <2> QED
    BY <1>1, <1>3, <1>5, <1>6, <2>1 DEF SlotTells, ProductionStarted
<1>8. NumbersDiffer'
  BY <1>1, <1>6 DEF SceneInv, NumbersDiffer
<1>9. Touches({})
  BY <1>1, <1>5 DEF Touches
<1>10. MovesTell'
  BY <1>1, <1>9, MovesUntouched
<1>11. ~late => OneMoveAtMost'
  <2> SUFFICES ASSUME ~late, migrations # <<>> PROVE OneMoveAtMost'
    BY <1>1 DEF SceneInv, OneMoveAtMost
  <2>1. /\ Len(migrations) = 1 /\ storageStatus = "migrating" /\ FitsNow(migrations[1])
        /\ MoveTells(migrations[1])
    BY DEF SceneInv, OneMoveAtMost, MovesTell
  <2>2. s \notin WithDirectory(migrations[1])
    BY <1>1, <2>1 DEF MoveTells, WithDirectory
  <2>3. migrations[1].items \subseteq Slots
    BY <2>1, MovesAre DEF SceneInv, MoveRecord
  <2>4. FitsNow(migrations[1])'
    BY <1>1, <1>5, <1>6, <2>1, <2>2, <2>3 DEF FitsNow, WithDirectory
  <2> QED
    BY <1>1, <2>1, <2>4 DEF OneMoveAtMost
<1>12. ~late => TreeTells'
  BY <1>1, <1>5, <1>6, ActiveAre DEF SceneInv, TreeTells
<1> QED
  BY <1>1, <1>4, <1>7, <1>8, <1>10, <1>11, <1>12 DEF SceneInv

LEMMA RenameStep ==
  ASSUME SceneInv, NEW i \in DOMAIN migrations, RenameShotDirectories(i) PROVE SceneInv'
<1> DEFINE m == migrations[i]
           r == WithDirectory(m)
<1>1. /\ ~m.renamed /\ tree' = [s \in Slots |-> IF s \in r THEN m.target[s] ELSE tree[s]]
      /\ migrations' = [migrations EXCEPT ![i].renamed = TRUE]
      /\ UNCHANGED <<lifecycle, shotNo, shotDir, dirOp, shotTask, began, storageStatus,
                     waiting, late>>
  BY DEF RenameShotDirectories
<1>2. /\ Len(migrations) \in Nat /\ DOMAIN migrations = 1..Len(migrations)
      /\ m \in MoveRecord /\ MoveTells(m) /\ SceneTypes
  BY MovesAre DEF SceneInv, MovesTell
<1>3. PICK n \in MoveRecord :
        /\ n = [m EXCEPT !.renamed = TRUE] /\ n.items = m.items /\ n.source = m.source
        /\ n.target = m.target /\ n.changed = m.changed /\ n.renamed = TRUE
  <2> DEFINE k == [m EXCEPT !.renamed = TRUE]
  <2>1. k \in MoveRecord /\ k.items = m.items /\ k.source = m.source
        /\ k.target = m.target /\ k.changed = m.changed /\ k.renamed = TRUE
    BY <1>2 DEF MoveRecord
  <2> QED
    BY <2>1
<1>4. /\ migrations' = [migrations EXCEPT ![i] = n]
      /\ migrations' \in Seq(MoveRecord) /\ Len(migrations') = Len(migrations)
      /\ \A j \in 1..Len(migrations) : migrations'[j] = IF j = i THEN n ELSE migrations[j]
  <2>1. migrations' = [migrations EXCEPT ![i] = n]
    BY <1>1, <1>3
  <2> QED
    BY <1>2, <2>1, ExceptSeq DEF SceneTypes
<1>5. \A s \in Slots : m.target[s] \in 0..MaxShotNo
  BY <1>2 DEF MoveRecord
<1>6. \A s \in Slots : tree'[s] = IF s \in r THEN m.target[s] ELSE tree[s]
  BY <1>1
<1>7. \A s \in r : s \in Slots /\ shotDir[s] # 0 /\ s \in m.items
  BY <1>2 DEF WithDirectory, MoveRecord, MoveTells
<1>8. SceneTypes'
  BY <1>1, <1>2, <1>4, <1>5 DEF SceneTypes
<1>9. ActiveShots' = ActiveShots
  BY <1>1 DEF ActiveShots
<1> HIDE DEF m, r
<1>10. ASSUME NEW x \in Slots PROVE SlotTells(x)'
  <2>1. SlotTells(x)
    BY DEF SceneInv
  <2> QED
    BY <1>1, <1>6, <1>7, <1>9, <2>1 DEF SlotTells, ProductionStarted
<1>11. NumbersDiffer'
  BY <1>1, <1>9 DEF SceneInv, NumbersDiffer
<1>12. Touches({})
  BY <1>1 DEF Touches
<1>13. MovesTell'
  <2>1. ASSUME NEW j \in 1..Len(migrations) PROVE MoveTells(migrations[j])'
    <3>1. PICK o \in MoveRecord : MoveTells(o) /\ o = migrations[j]
      BY <1>2, MovesAre DEF SceneInv, MovesTell
    <3>2. MoveTells(o)'
      BY <1>12, <3>1, MoveKeeps
    <3>3. PICK k \in MoveRecord : MoveTells(k) /\ k = m
      BY <1>2
    <3>4. n.items = k.items /\ n.source = k.source /\ n.target = k.target
          /\ k.changed \cup ({} \cap k.items) \subseteq n.changed
      BY <1>3, <3>3
    <3>5. MoveTells(n)'
      BY <1>12, <3>3, <3>4, MoveKeeps
    <3> QED
      BY <1>4, <3>1, <3>2, <3>5
  <2> QED
    BY <1>4, <2>1 DEF MovesTell
<1>14. ~late => OneMoveAtMost' /\ TreeTells'
  <2> SUFFICES ASSUME ~late PROVE OneMoveAtMost' /\ TreeTells'
    OBVIOUS
  <2>1. i = 1 /\ Len(migrations) = 1 /\ storageStatus = "migrating" /\ FitsNow(m)
    BY OnlyMove DEF m
  <2>2. migrations'[1] = n /\ Len(migrations') = 1
    BY <1>4, <2>1
  <2>3. WithDirectory(n) = r
    BY <1>3 DEF WithDirectory, r
  <2>4. FitsNow(n)'
    <3>1. \A s \in WithDirectory(n) : tree'[s] = n.target[s]
      BY <1>3, <1>6, <1>7, <2>3
    <3> QED
      BY <1>1, <1>3, <1>9, <2>1, <3>1 DEF FitsNow, WithDirectory
  <2>5. OneMoveAtMost'
    BY <1>1, <2>1, <2>2, <2>4 DEF OneMoveAtMost
  <2>6. ASSUME NEW s \in ActiveShots, dirOp[s] = "succeeded"
        PROVE  tree'[s] = shotDir[s] \/ (s \in n.items /\ tree'[s] = n.target[s])
    <3>1. tree[s] = shotDir[s] \/ (s \in m.items /\ tree[s] = m.target[s])
      BY <2>1, <2>6 DEF SceneInv, TreeTells, m
    <3>2. s \in Slots /\ n.items = m.items /\ n.target = m.target
      BY <1>3, ActiveAre
    <3>3. tree'[s] = IF s \in r THEN m.target[s] ELSE tree[s]
      BY <1>6, <3>2
    <3> QED
      BY <1>7, <3>1, <3>2, <3>3
  <2>7. TreeTells'
    BY <1>1, <1>9, <2>2, <2>6 DEF TreeTells
  <2> QED
    BY <2>5, <2>7
<1> QED
  BY <1>1, <1>8, <1>10, <1>11, <1>13, <1>14 DEF SceneInv
LEMMA RemovedAre ==
  ASSUME NEW q \in Seq(MoveRecord), NEW i \in 1..Len(q)
  PROVE  /\ RemoveAt(q, i) \in Seq(MoveRecord) /\ Len(RemoveAt(q, i)) = Len(q) - 1
         /\ \A j \in 1..(Len(q) - 1) : \E k \in 1..Len(q) : RemoveAt(q, i)[j] = q[k]
<1> DEFINE a == SubSeq(q, 1, i - 1)
           b == SubSeq(q, i + 1, Len(q))
<1>1. Len(q) \in Nat /\ i \in 1..Len(q)
  OBVIOUS
<1>2. /\ a \in Seq(MoveRecord) /\ Len(a) = i - 1
      /\ \A j \in 1..(i - 1) : a[j] = q[j]
  BY <1>1
<1>3. /\ b \in Seq(MoveRecord) /\ Len(b) = Len(q) - i
      /\ \A j \in 1..(Len(q) - i) : b[j] = q[i + j]
  BY <1>1
<1>4. RemoveAt(q, i) = a \o b
  BY DEF RemoveAt
<1> HIDE DEF a, b
<1>5. a \o b \in Seq(MoveRecord) /\ Len(a \o b) = Len(q) - 1
  <2>1. a \o b \in Seq(MoveRecord) /\ Len(a \o b) = Len(a) + Len(b)
    BY <1>2, <1>3, ConcatProperties
  <2> QED
    BY <1>1, <1>2, <1>3, <2>1
<1>6. ASSUME NEW j \in 1..(Len(q) - 1) PROVE \E k \in 1..Len(q) : (a \o b)[j] = q[k]
  <2>1. CASE j < i
    <3>1. j \in 1..Len(a) /\ j \in 1..Len(q) /\ j \in 1..(i - 1)
      BY <1>1, <1>2, <2>1
    <3>2. (a \o b)[j] = a[j]
      BY <1>2, <1>3, <3>1
    <3> QED
      BY <1>2, <3>1, <3>2
  <2>2. CASE ~(j < i)
    <3>1. /\ j - Len(a) \in 1..Len(b) /\ j - Len(a) = j - i + 1 /\ j + 1 \in 1..Len(q)
          /\ j - i + 1 \in 1..(Len(q) - i) /\ i + (j - i + 1) = j + 1
      BY <1>1, <1>2, <1>3, <2>2
    <3>2. (a \o b)[j] = b[j - Len(a)]
      BY <1>2, <1>3, <2>2, <3>1
    <3> QED
      BY <1>3, <3>1, <3>2
  <2> QED
    BY <2>1, <2>2
<1> QED
  BY <1>4, <1>5, <1>6

\* The write-back: the shots of the migration get their frozen numbers.
LEMMA ApplyStep ==
  ASSUME SceneInv, NEW i \in DOMAIN migrations, ApplyShotRenumber(i) PROVE SceneInv'
<1> DEFINE m == migrations[i]
           r == WithDirectory(m)
           R == Raised(m.items)
<1>1. /\ m.renamed /\ m.changed = {}
      /\ \A x \in ActiveShots \ m.items, s \in m.items : shotNo[x] # m.target[s]
      /\ shotNo' = [s \in Slots |-> IF s \in m.items THEN m.target[s] ELSE shotNo[s]]
      /\ shotDir' = [s \in Slots |-> IF s \in r THEN m.target[s] ELSE shotDir[s]]
      /\ storageStatus' = "ready" /\ migrations' = RemoveAt(R, i)
      /\ UNCHANGED <<lifecycle, dirOp, tree, shotTask, began, waiting, late>>
  BY DEF ApplyShotRenumber, StillApplies, NumbersFree
<1>2. /\ Len(migrations) \in Nat /\ DOMAIN migrations = 1..Len(migrations)
      /\ m \in MoveRecord /\ MoveTells(m) /\ SceneTypes
  BY MovesAre DEF SceneInv, MovesTell
<1>3. /\ m.items \subseteq Slots
      /\ \A s \in Slots : m.target[s] \in 0..MaxShotNo /\ m.target[s] \in Nat
      /\ \A s \in m.items : m.target[s] >= 1 /\ m.target[s] # 0
  <2>1. m.items \subseteq Slots /\ \A s \in Slots : m.target[s] \in 0..MaxShotNo
    BY <1>2 DEF MoveRecord
  <2>2. \A s \in m.items : m.target[s] \in 1..Cardinality(Slots)
    BY <1>2 DEF MoveTells
  <2> QED
    BY <2>1, <2>2, SceneBounds
<1>4. \A s \in m.items : /\ s \in ActiveShots /\ ~ProductionStarted(s)
                         /\ shotDir[s] = m.source[s] /\ (s \in r <=> shotDir[s] # 0)
  BY <1>1, <1>2 DEF MoveTells, WithDirectory
<1>5. /\ \A s \in r : s \in m.items
      /\ \A s, x \in m.items : m.target[s] = m.target[x] => s = x
  BY <1>2 DEF MoveTells, WithDirectory
<1>6. \A s \in Slots : /\ shotNo'[s] = IF s \in m.items THEN m.target[s] ELSE shotNo[s]
                       /\ shotDir'[s] = IF s \in r THEN m.target[s] ELSE shotDir[s]
  BY <1>1
<1>7. ActiveShots' = ActiveShots
  BY <1>1 DEF ActiveShots
<1>8. Touches(m.items)
  <2>1. \A s \in Slots : shotDir[s] # 0 => shotDir'[s] # 0
    BY <1>3, <1>5, <1>6
  <2>2. \A s \in Slots \ m.items : shotDir'[s] = shotDir[s]
    BY <1>5, <1>6
  <2> QED
    BY <1>1, <2>1, <2>2 DEF Touches
<1>9. /\ R \in Seq(MoveRecord) /\ Len(R) = Len(migrations)
      /\ \A j \in 1..Len(migrations) : R[j] \in MoveRecord
  BY RaisedIs
<1>10. ASSUME NEW n, NEW j \in 1..Len(migrations), n = R[j] PROVE MoveTells(n)'
  <2>1. PICK T : T = m.items
    OBVIOUS
  <2>2. Touches(T) /\ n = Raised(T)[j]
    BY <1>8, <1>10, <2>1
  <2> QED
    BY <2>2, RaisedKeeps
<1> HIDE DEF R
<1>11. /\ migrations' \in Seq(MoveRecord) /\ Len(migrations') = Len(migrations) - 1
       /\ \A j \in 1..(Len(migrations) - 1) : \E k \in 1..Len(migrations) : migrations'[j] = R[k]
  <2>1. PICK q \in Seq(MoveRecord) : q = R /\ Len(q) = Len(migrations) /\ i \in 1..Len(q)
    BY <1>2, <1>9
  <2>2. /\ RemoveAt(q, i) \in Seq(MoveRecord) /\ Len(RemoveAt(q, i)) = Len(q) - 1
        /\ \A j \in 1..(Len(q) - 1) : \E k \in 1..Len(q) : RemoveAt(q, i)[j] = q[k]
    BY <2>1, RemovedAre
  <2> QED
    BY <1>1, <2>1, <2>2
<1>12. MovesTell'
  <2>1. ASSUME NEW j \in 1..(Len(migrations) - 1) PROVE MoveTells(migrations[j])'
    BY <1>10, <1>11
  <2> QED
    BY <1>11, <2>1 DEF MovesTell
<1> HIDE DEF m, r
<1>13. SceneTypes'
  <2>1. shotNo' \in [Slots -> 0..MaxShotNo] /\ shotDir' \in [Slots -> 0..MaxShotNo]
    BY <1>1, <1>2, <1>3 DEF SceneTypes
  <2>2. Len(migrations') <= MaxMoves
    BY <1>2, <1>11, SceneBounds DEF SceneTypes
  <2> QED
    BY <1>1, <1>2, <1>11, <2>1, <2>2 DEF SceneTypes
<1>14. ASSUME NEW x \in Slots PROVE SlotTells(x)'
  <2>1. SlotTells(x)
    BY DEF SceneInv
  <2>2. CASE x \in m.items
    BY <1>1, <1>3, <1>4, <1>6, <1>7, <2>1, <2>2 DEF SlotTells, ProductionStarted
  <2>3. CASE x \notin m.items
    BY <1>1, <1>5, <1>6, <1>7, <2>1, <2>3 DEF SlotTells, ProductionStarted
  <2> QED
    BY <2>2, <2>3
<1>15. NumbersDiffer'
  BY <1>1, <1>5, <1>6, <1>7, ActiveAre DEF SceneInv, NumbersDiffer
<1>16. ~late => OneMoveAtMost' /\ TreeTells'
  <2> SUFFICES ASSUME ~late PROVE OneMoveAtMost' /\ TreeTells'
    OBVIOUS
  <2>1. i = 1 /\ Len(migrations) = 1 /\ FitsNow(m)
    BY OnlyMove DEF m
  <2>2. migrations' = <<>> /\ Len(migrations') = 0
    BY <1>11, <2>1, EmptySeq
  <2>3. ASSUME NEW s \in ActiveShots, dirOp[s] = "succeeded" PROVE tree[s] = shotDir'[s]
    <3>1. tree[s] = shotDir[s] \/ (s \in m.items /\ tree[s] = m.target[s])
      BY <2>1, <2>3 DEF SceneInv, TreeTells, m
    <3>2. s \in Slots /\ SlotTells(s)
      BY ActiveAre DEF SceneInv
    <3>3. s \in r => tree[s] = m.target[s]
      BY <1>1, <2>1 DEF FitsNow, m, r
    <3>4. s \in m.items => (s \in r <=> shotDir[s] # 0)
      BY <1>4
    <3> QED
      BY <1>3, <1>5, <1>6, <3>1, <3>2, <3>3, <3>4 DEF SlotTells
  <2> QED
    BY <1>1, <1>7, <2>2, <2>3 DEF OneMoveAtMost, TreeTells
<1> QED
  BY <1>1, <1>12, <1>13, <1>14, <1>15, <1>16 DEF SceneInv
-----------------------------------------------------------------------------
(* Renumbering a scene, at once or through a migration.                    *)

LEMMA SynchronizeStep ==
  ASSUME SceneInv, NEW A, A \subseteq ActiveShots, NEW gone, gone = ActiveShots \ A,
         NEW position, Arranges(position, A), Synchronize(position, gone, "ready"),
         waiting' \in BOOLEAN, late' \in BOOLEAN,
         ~late' => ~late /\ storageStatus = "ready" /\ migrations = <<>> /\ TreeTells,
         \A s \in gone : shotDir[s] = 0 /\ ~ProductionStarted(s),
         lifecycle' = [s \in Slots |-> IF s \in gone THEN "archived" ELSE lifecycle[s]],
         shotTask' = [s \in Slots |-> IF s \in gone THEN "none" ELSE shotTask[s]],
         UNCHANGED <<shotDir, dirOp, tree, began>>
  PROVE  SceneInv'
<1> DEFINE items == NotInPlace(position)
           migration ==
             [items |-> items, source |-> shotDir, changed |-> {}, renamed |-> FALSE,
              target |-> [s \in Slots |-> IF s \in items THEN position[s] ELSE 0]]
<1>1. /\ SceneTypes /\ ActiveShots \subseteq Slots /\ A \subseteq Slots /\ gone \subseteq Slots
      /\ IsFiniteSet(A) /\ Cardinality(A) \in Nat
      /\ Cardinality(A) <= MaxShotNo /\ Cardinality(A) <= Cardinality(Slots)
  <2>1. IsFiniteSet(A) /\ Cardinality(A) \in Nat /\ Cardinality(A) <= Cardinality(ActiveShots)
    BY ActiveAre, FS_Subset, FS_CardinalityType
  <2> QED
    BY <2>1, ActiveAre, NumbersSuffice, SceneBounds DEF SceneInv
<1>2. /\ items \subseteq A /\ DOMAIN position = A
      /\ \A s \in A : s \notin items => shotNo[s] = position[s] /\ shotDir[s] \in {0, position[s]}
      /\ \A s \in A : position[s] \in 1..Cardinality(A) /\ position[s] >= 1
                      /\ position[s] \in 1..MaxShotNo /\ position[s] \in 0..MaxShotNo
                      /\ position[s] \in 1..Cardinality(Slots)
      /\ \A s, x \in A : position[s] = position[x] => s = x
  BY <1>1, SceneBounds DEF NotInPlace, Arranges
<1>3. /\ \A s \in items : ~ProductionStarted(s)
      /\ \A s \in items : shotDir[s] # 0 => dirOp[s] = "succeeded"
  BY DEF Synchronize, OrderMutable, DirectoriesReady, HasDirectory
<1>4. ActiveShots' = A
  BY <1>1 DEF ActiveShots
<1>5. \A s \in Slots : /\ ProductionStarted(s)' => ProductionStarted(s) /\ s \notin gone
                       /\ s \notin gone => lifecycle'[s] = lifecycle[s]
  BY DEF ProductionStarted
<1>6. Touches(gone)
  BY <1>5 DEF Touches, ProductionStarted
<1>7. /\ lifecycle' \in [Slots -> {"absent", "active", "archived"}]
      /\ shotTask' \in [Slots -> {"none", "assigned", "started"}]
  BY <1>1 DEF SceneTypes
<1>8. CASE /\ \A s \in items : ~HasDirectory(s)
           /\ shotNo' = [s \in Slots |-> IF s \in items THEN position[s] ELSE shotNo[s]]
           /\ migrations' = Raised(items \cup gone)
           /\ UNCHANGED storageStatus
  <2>1. /\ migrations' \in Seq(MoveRecord) /\ Len(migrations') <= MaxMoves /\ MovesTell'
        /\ migrations = <<>> => migrations' = <<>>
    <3>1. PICK T : T = items \cup gone
      OBVIOUS
    <3> QED
      BY <1>6, <1>8, <3>1, MovesRaised
  <2> HIDE DEF items
  <2>2. shotNo' \in [Slots -> 0..MaxShotNo]
    BY <1>1, <1>2, <1>8 DEF SceneTypes
  <2>3. SceneTypes'
    BY <1>1, <1>7, <1>8, <2>1, <2>2 DEF SceneTypes
  <2>4. \A s \in A : shotNo'[s] = position[s]
    BY <1>1, <1>2, <1>8
  <2>5. ASSUME NEW s \in Slots PROVE SlotTells(s)'
    <3>1. SlotTells(s) /\ shotNo'[s] = IF s \in items THEN position[s] ELSE shotNo[s]
      BY <1>8 DEF SceneInv
    <3>2. s \in items => shotDir[s] = 0 /\ s \in A
      BY <1>2, <1>8 DEF HasDirectory
    <3>3. s \in A => s \in ActiveShots /\ shotNo'[s] >= 1
      BY <1>2, <2>4
    <3>4. s \notin A => s \in gone \/ s \notin ActiveShots
      OBVIOUS
    <3>5. ProductionStarted(s)' => ProductionStarted(s) /\ s \notin gone /\ s \notin items
      BY <1>3, <1>5
    <3> QED
      BY <1>4, <3>1, <3>2, <3>3, <3>4, <3>5 DEF SlotTells
  <2>6. NumbersDiffer'
    BY <1>2, <1>4, <2>4 DEF NumbersDiffer
  <2>7. ~late' => OneMoveAtMost' /\ TreeTells'
    <3> SUFFICES ASSUME ~late' PROVE OneMoveAtMost' /\ TreeTells'
      OBVIOUS
    <3>1. Len(migrations) = 0 /\ migrations' = <<>> /\ storageStatus' = "ready" /\ TreeTells
      BY <1>8, <2>1
    <3> QED
      BY <1>4, <3>1 DEF OneMoveAtMost, TreeTells
  <2> QED
    BY <2>1, <2>3, <2>5, <2>6, <2>7 DEF SceneInv
<1>9. CASE /\ Len(migrations) < MaxMoves
           /\ migrations' = Append(Raised(gone), migration)
           /\ storageStatus' = "migrating"
           /\ UNCHANGED shotNo
  <2> HIDE DEF items
  <2>1. PICK m : /\ m = migration /\ m.items = items /\ m.source = shotDir /\ m.changed = {}
                 /\ m.renamed = FALSE
                 /\ m.target = [s \in Slots |-> IF s \in items THEN position[s] ELSE 0]
    <3>1. /\ migration.items = items /\ migration.source = shotDir /\ migration.changed = {}
          /\ migration.renamed = FALSE
          /\ migration.target = [s \in Slots |-> IF s \in items THEN position[s] ELSE 0]
      OBVIOUS
    <3> HIDE DEF migration
    <3> QED
      BY <3>1
  <2>2. \A s \in items : m.target[s] = position[s] /\ s \in A /\ s \in Slots
    BY <1>1, <1>2, <2>1
  <2>3. m \in MoveRecord
    <3>1. [s \in Slots |-> IF s \in items THEN position[s] ELSE 0] \in [Slots -> 0..MaxShotNo]
      BY <1>2, SceneBounds
    <3>2. items \subseteq Slots /\ shotDir \in [Slots -> 0..MaxShotNo]
      BY <1>1, <1>2 DEF SceneTypes
    <3> QED
      BY <2>1, <3>1, <3>2 DEF MoveRecord
  <2>4. MoveTells(m)'
    <3>1. \A s \in m.items : m.target[s] \in 1..Cardinality(Slots)
      BY <1>2, <2>1, <2>2
    <3>2. \A s \in Slots : m.target[s] \in 0..Cardinality(Slots)
      BY <1>2, <2>1, SceneBounds
    <3>3. \A s, x \in m.items : m.target[s] = m.target[x] => s = x
      BY <1>2, <2>1, <2>2
    <3>4. \A s \in m.items : m.source[s] # 0 => shotDir'[s] # 0 /\ dirOp'[s] = "succeeded"
      BY <1>3, <2>1
    <3>5. \A s \in m.items \ m.changed :
            s \in ActiveShots' /\ ~ProductionStarted(s)' /\ shotDir'[s] = m.source[s]
      BY <1>3, <1>4, <1>5, <2>1, <2>2
    <3> QED
      BY <3>1, <3>2, <3>3, <3>4, <3>5 DEF MoveTells
  <2>5. /\ migrations' \in Seq(MoveRecord) /\ Len(migrations') = Len(migrations) + 1
        /\ \A j \in 1..Len(migrations) : migrations'[j] = Raised(gone)[j]
        /\ migrations'[Len(migrations) + 1] = m
    <3>1. PICK R \in Seq(MoveRecord) : R = Raised(gone) /\ Len(R) = Len(migrations)
      BY RaisedIs
    <3>2. migrations' = Append(R, m)
      BY <1>9, <2>1, <3>1
    <3>3. /\ Append(R, m) \in Seq(MoveRecord) /\ Len(Append(R, m)) = Len(R) + 1
          /\ \A j \in 1..Len(R) : Append(R, m)[j] = R[j]
          /\ Append(R, m)[Len(R) + 1] = m
      BY <2>3, AppendProperties
    <3> QED
      BY <3>1, <3>2, <3>3
  <2>6. MovesTell'
    <3>1. Len(migrations) \in Nat
      BY MovesAre, <1>1
    <3>2. ASSUME NEW j \in 1..Len(migrations) PROVE MoveTells(migrations[j])'
      <4>1. PICK n : n = Raised(gone)[j]
        OBVIOUS
      <4>2. MoveTells(n)'
        BY <1>6, <4>1, RaisedKeeps
      <4> QED
        BY <2>5, <4>1, <4>2
    <3>3. ASSUME NEW j, j = Len(migrations) + 1 PROVE MoveTells(migrations[j])'
      BY <2>4, <2>5, <3>3
    <3> QED
      BY <2>5, <3>1, <3>2, <3>3 DEF MovesTell
  <2>7. SceneTypes'
    <3>1. Len(migrations') <= MaxMoves
      BY <1>1, <1>9, <2>5, MovesAre, SceneBounds
    <3> QED
      BY <1>1, <1>7, <1>9, <2>5, <3>1 DEF SceneTypes
  <2>8. ASSUME NEW s \in Slots PROVE SlotTells(s)'
    <3>1. SlotTells(s)
      BY DEF SceneInv
    <3>2. s \notin A => s \in gone \/ s \notin ActiveShots
      OBVIOUS
    <3> QED
      BY <1>4, <1>5, <1>9, <3>1, <3>2 DEF SlotTells
  <2>9. NumbersDiffer'
    BY <1>4, <1>9 DEF SceneInv, NumbersDiffer
  <2>10. ~late' => OneMoveAtMost' /\ TreeTells'
    <3> SUFFICES ASSUME ~late' PROVE OneMoveAtMost' /\ TreeTells'
      OBVIOUS
    <3>1. Len(migrations) = 0 /\ Len(migrations') = 1 /\ migrations'[1] = m /\ TreeTells
      BY <2>5
    <3>2. \A s \in A : (IF s \in items THEN m.target[s] ELSE shotNo[s]) = position[s]
      BY <1>2, <2>2
    <3>3. {IF s \in items THEN m.target[s] ELSE shotNo[s] : s \in A} = {position[s] : s \in A}
      BY <3>2
    <3>4. {position[s] : s \in A} = 1..Cardinality(A)
      BY DEF Arranges
    <3>5. \A x \in A \ items, s \in items : shotNo[x] # m.target[s]
      BY <1>2, <2>2
    <3>6. FitsNow(m)'
      <4>1. {IF s \in m.items THEN m.target[s] ELSE shotNo'[s] : s \in A} = 1..Cardinality(A)
        BY <1>9, <2>1, <3>3, <3>4
      <4>2. \A x \in A \ m.items, s \in m.items : shotNo'[x] # m.target[s]
        BY <1>9, <2>1, <3>5
      <4>3. m.changed = {} /\ ~m.renamed
        BY <2>1
      <4> QED
        BY <1>4, <4>1, <4>2, <4>3 DEF FitsNow
    <3>7. OneMoveAtMost'
      BY <1>9, <3>1, <3>6 DEF OneMoveAtMost
    <3>8. TreeTells'
      BY <1>4, <3>1 DEF TreeTells
    <3> QED
      BY <3>7, <3>8
  <2> QED
    BY <2>6, <2>7, <2>8, <2>9, <2>10 DEF SceneInv
<1> QED
  BY <1>8, <1>9 DEF Synchronize

LEMMA ReorderShotStep ==
  ASSUME SceneInv, NEW s \in Slots, NEW p \in 1..Cardinality(Slots),
         NEW seen \in {"ready", "migrating"}, ReorderShot(s, p, seen)
  PROVE  SceneInv'
<1>1. /\ seen = "ready" /\ waiting' \in BOOLEAN /\ late' \in BOOLEAN
      /\ ~late' => ~late /\ storageStatus = "ready" /\ migrations = <<>> /\ TreeTells
  BY RequestIs DEF ReorderShot
<1>2. /\ s \in ActiveShots /\ p \in 1..Cardinality(ActiveShots)
      /\ Synchronize(Moved(s, p), {}, "ready")
      /\ UNCHANGED <<lifecycle, shotDir, dirOp, tree, shotTask, began>>
  BY <1>1 DEF ReorderShot
<1>3. PICK position : position = Moved(s, p)
  OBVIOUS
<1>4. Arranges(position, ActiveShots) /\ Synchronize(position, {}, "ready")
  BY <1>2, <1>3, MovedArranges DEF SceneInv
<1>5. PICK A, gone : A = ActiveShots /\ gone = {}
  OBVIOUS
<1>6. /\ A \subseteq ActiveShots /\ gone = ActiveShots \ A /\ Arranges(position, A)
      /\ Synchronize(position, gone, "ready")
  BY <1>4, <1>5
<1>7. /\ lifecycle' = [x \in Slots |-> IF x \in gone THEN "archived" ELSE lifecycle[x]]
      /\ shotTask' = [x \in Slots |-> IF x \in gone THEN "none" ELSE shotTask[x]]
  BY <1>2, <1>5 DEF SceneInv, SceneTypes
<1>8. \A x \in gone : shotDir[x] = 0 /\ ~ProductionStarted(x)
  BY <1>5
<1> QED
  BY <1>1, <1>2, <1>6, <1>7, <1>8, SynchronizeStep

LEMMA RenumberShotsStep ==
  ASSUME SceneInv, NEW seen \in {"ready", "migrating"}, RenumberShots(seen) PROVE SceneInv'
<1>1. /\ seen = "ready" /\ waiting' \in BOOLEAN /\ late' \in BOOLEAN
      /\ ~late' => ~late /\ storageStatus = "ready" /\ migrations = <<>> /\ TreeTells
  BY RequestIs DEF RenumberShots
<1>2. /\ Synchronize(Positions(ActiveShots), {}, "ready")
      /\ UNCHANGED <<lifecycle, shotDir, dirOp, tree, shotTask, began>>
  BY <1>1 DEF RenumberShots
<1>3. PICK A, gone : A = ActiveShots /\ gone = {}
  OBVIOUS
<1>4. A \subseteq ActiveShots /\ gone = ActiveShots \ A /\ Arranges(Positions(A), A)
  BY <1>3, PositionsArrange DEF SceneInv
<1>5. PICK position : position = Positions(A)
  OBVIOUS
<1>6. Arranges(position, A) /\ Synchronize(position, gone, "ready")
  BY <1>2, <1>3, <1>4, <1>5
<1>7. /\ lifecycle' = [x \in Slots |-> IF x \in gone THEN "archived" ELSE lifecycle[x]]
      /\ shotTask' = [x \in Slots |-> IF x \in gone THEN "none" ELSE shotTask[x]]
  BY <1>2, <1>3 DEF SceneInv, SceneTypes
<1>8. \A x \in gone : shotDir[x] = 0 /\ ~ProductionStarted(x)
  BY <1>3
<1> QED
  BY <1>1, <1>2, <1>4, <1>6, <1>7, <1>8, SynchronizeStep

LEMMA DeleteShotsStep ==
  ASSUME SceneInv, NEW shots \in SUBSET Slots, NEW seen \in {"ready", "migrating"},
         DeleteShots(shots, seen)
  PROVE  SceneInv'
<1>1. /\ seen = "ready" /\ waiting' \in BOOLEAN /\ late' \in BOOLEAN
      /\ ~late' => ~late /\ storageStatus = "ready" /\ migrations = <<>> /\ TreeTells
  BY RequestIs DEF DeleteShots
<1>2. /\ shots \subseteq ActiveShots
      /\ OrderMutable(FromFirst(shots)) /\ \A s \in FromFirst(shots) : ~HasDirectory(s)
      /\ lifecycle' = [s \in Slots |-> IF s \in shots THEN "archived" ELSE lifecycle[s]]
      /\ shotTask' = [s \in Slots |-> IF s \in shots THEN "none" ELSE shotTask[s]]
      /\ Synchronize(Positions(ActiveShots \ shots), shots, "ready")
      /\ UNCHANGED <<shotDir, dirOp, tree, began>>
  BY <1>1 DEF DeleteShots
<1>3. PICK A : A = ActiveShots \ shots
  OBVIOUS
<1>4. A \subseteq ActiveShots /\ shots = ActiveShots \ A
  BY <1>2, <1>3
<1>5. Arranges(Positions(A), A)
  BY <1>4, PositionsArrange DEF SceneInv
<1>6. PICK position : position = Positions(A)
  OBVIOUS
<1>7. Arranges(position, A) /\ Synchronize(position, shots, "ready")
  BY <1>2, <1>3, <1>5, <1>6
<1>8. \A s \in shots : s \in FromFirst(shots)
  <2>1. \A s \in ActiveShots : Positions(ActiveShots)[s] \in Nat
    <3>1. Cardinality(ActiveShots) \in Nat
      BY ActiveAre
    <3>2. \A s \in ActiveShots : Positions(ActiveShots)[s] \in 1..Cardinality(ActiveShots)
      BY PositionsArrange DEF SceneInv
    <3> QED
      BY <3>1, <3>2
  <2> QED
    BY <1>2, <2>1 DEF FromFirst
<1>9. \A s \in shots : shotDir[s] = 0 /\ ~ProductionStarted(s)
  BY <1>2, <1>8 DEF HasDirectory, OrderMutable
<1> QED
  BY <1>1, <1>2, <1>4, <1>7, <1>9, SynchronizeStep

-----------------------------------------------------------------------------
LEMMA SceneNextInv == SceneInv /\ [SceneNext]_sceneVars => SceneInv'
<1> SUFFICES ASSUME SceneInv, [SceneNext]_sceneVars PROVE SceneInv'
  OBVIOUS
<1>1. CASE WaitForProject \/ RollBack
  BY <1>1, WaitStep
<1>2. CASE \E seen \in {"ready", "migrating"}, s \in Slots, n \in 1..MaxShotNo : CreateShot(s, n, seen)
  BY <1>2, CreateShotStep
<1>3. CASE \E seen \in {"ready", "migrating"}, s \in Slots :
             UpdateShot(s, seen) \/ AssignShot(s, seen) \/ StartShot(s, seen)
  BY <1>3, UpdateShotStep, AssignShotStep, StartShotStep
<1>4. CASE \E seen \in {"ready", "migrating"}, s \in Slots, p \in 1..Cardinality(Slots) :
             ReorderShot(s, p, seen)
  BY <1>4, ReorderShotStep
<1>5. CASE \E seen \in {"ready", "migrating"} : RenumberShots(seen)
  BY <1>5, RenumberShotsStep
<1>6. CASE \E seen \in {"ready", "migrating"}, shots \in SUBSET Slots : DeleteShots(shots, seen)
  BY <1>6, DeleteShotsStep
<1>7. CASE \E s \in Slots : MakeDirectory(s)
  BY <1>7, MakeDirectoryStep
<1>8. CASE \E i \in DOMAIN migrations : RenameShotDirectories(i) \/ ApplyShotRenumber(i)
  BY <1>8, RenameStep, ApplyStep
<1>9. CASE UNCHANGED sceneVars
  <2>1. UNCHANGED <<lifecycle, shotNo, shotDir, dirOp, tree, shotTask, began, migrations,
                    storageStatus, waiting, late>>
    BY <1>9 DEF sceneVars
  <2>2. ActiveShots' = ActiveShots /\ (SceneTypes => SceneTypes')
    BY <2>1 DEF ActiveShots, SceneTypes
  <2>3. NumbersDiffer' /\ MovesTell' /\ (\A s \in Slots : SlotTells(s)')
    BY <2>1, <2>2 DEF SceneInv, NumbersDiffer, MovesTell, MoveTells, SlotTells, ProductionStarted
  <2>4. ~late' => OneMoveAtMost' /\ TreeTells'
    BY <2>1, <2>2 DEF SceneInv, OneMoveAtMost, TreeTells, FitsNow
  <2> QED
    BY <2>2, <2>3, <2>4 DEF SceneInv
<1> QED
  BY <1>1, <1>2, <1>3, <1>4, <1>5, <1>6, <1>7, <1>8, <1>9 DEF SceneNext

\* However a scene is numbered, by creations, reorderings, deletions and frozen
\* migrations, two active shots never share a number, a directory has the
\* number of its shot, a started shot keeps both, and unless a request was
\* served late the one migration under way can finish: _synchronize_scene_numbers
\* and _apply_shot_renumber, for any number of shots and migrations.
THEOREM ScenesAreSafe == SceneSpec => []ScenesSafe
<1>1. SceneInit => SceneInv
  BY SceneInitInv
<1>2. SceneInv /\ [SceneNext]_sceneVars => SceneInv'
  BY SceneNextInv
<1>3. SceneInv => ScenesSafe
  BY InvMeansScenesSafe
<1> QED
  BY <1>1, <1>2, <1>3, PTL DEF SceneSpec

-----------------------------------------------------------------------------
(***************************************************************************)
(* Members of projects, for any users, projects and transactions.  Beyond  *)
(* MembersSafe the invariant says what a transaction may rely on while it  *)
(* holds rows (RequestTells): what it decided under its locks, the plan of *)
(* grants and revocations included, is still what it would decide when it  *)
(* commits.  Respects(t) is the rely condition every step of somebody else *)
(* meets, because a row has one holder and changes only under its lock.    *)
(***************************************************************************)

MemberTypes ==
  /\ MemberTypeOK /\ deleted \subseteq Users
  /\ txn \in [Txns -> MemberRequests \cup {Idle}] /\ begun \in 0..MaxTxns
  /\ held \in [LockRows -> Txns \cup {Idle}]

\* A request that creates a project is the only one about it; a deletion has
\* found all members of its project; and what a request decided under its locks
\* is still right when it commits.
RequestTells(t) ==
  LET x == txn[t] IN
  /\ x.op \in {"set", "remove", "create"} => x.roles \in [x.users -> SUBSET Roles]
  /\ x.op = "remove" => \A u \in x.users : x.roles[u] = {}
  /\ x.op = "create" =>
       /\ \E u \in x.users : x.roles[u] = {"director"}
       /\ x.project \notin live
       /\ \A o \in Txns \ {t} : txn[o] # Idle /\ txn[o].project = x.project =>
            txn[o].op = "reconcile"
  /\ x.op = "purge" /\ held[ProjectRow(x.project)] = t =>
       \A u \in Users : RolesIn(x.project, u) # {} => u \in x.users
  /\ x.pc = "commit" => AllLocked(t) /\ Permitted(x) /\ x.plan = SyncPlan(x)
RequestsTell == \A t \in Txns : txn[t] # Idle => RequestTells(t)

HoldersWork == \A r \in LockRows, t \in Txns : held[r] = t => txn[t] # Idle
GoneAreEmpty ==
  \A p \in Projects \ live : assigned[p].state = "none" /\ \A u \in Users : member[p][u] = {}

\* The same as GrantsFollowMembership and ExternalGrantsSurvive, pair by pair.
GrantsTell ==
  \A u \in Users, r \in Roles :
    /\ r \in Needed(u) => <<u, r>> \in relation
    /\ <<u, r>> \in managed => r \in Needed(u)
    /\ <<u, r>> \in given => <<u, r>> \in relation /\ <<u, r>> \notin managed

MemberInv ==
  /\ MemberTypes /\ RequestsTell /\ HoldersWork /\ GoneAreEmpty
  /\ GrantsTell /\ AssigneeIsCreator /\ DirectorRemains /\ DeletedHoldNothing
LEMMA RowsAre ==
  /\ \A u \in Users : UserRow(u) \in LockRows
  /\ \A p \in Projects : ProjectRow(p) \in LockRows
  /\ \A u, v : UserRow(u) = UserRow(v) => u = v
  /\ \A p, q : ProjectRow(p) = ProjectRow(q) => p = q
  /\ \A u, p : UserRow(u) # ProjectRow(p)
BY DEF UserRow, ProjectRow, LockRows

LEMMA RequestsAre ==
  ASSUME MemberTypes, NEW t \in Txns, txn[t] # Idle
  PROVE  /\ txn[t] \in MemberRequests /\ txn[t].project \in Projects
         /\ txn[t].users \subseteq Users /\ txn[t].pc \in {"lock", "commit"}
         /\ txn[t].op \in {"set", "remove", "create", "purge", "reconcile"}
BY DEF MemberTypes, MemberRequests

LEMMA RolesAre ==
  ASSUME MemberTypes, NEW p \in Projects, NEW u \in Users
  PROVE  /\ RolesIn(p, u) \subseteq Roles /\ member[p][u] \subseteq Roles
         /\ Needed(u) \subseteq Roles /\ RolesIn(p, u) \subseteq Needed(u)
<1>1. \A q \in Projects : member[q][u] \subseteq Roles
  BY DEF MemberTypes, MemberTypeOK
<1> QED
  BY <1>1 DEF RolesIn, Needed

LEMMA InvMeansMembersSafe == MemberInv => MembersSafe
<1> SUFFICES ASSUME MemberInv PROVE MembersSafe
  OBVIOUS
<1>1. MemberTypes /\ managed \subseteq Users \X Roles /\ given \subseteq Users \X Roles
  BY DEF MemberInv, MemberTypes, MemberTypeOK
<1>2. \A u \in Users : Needed(u) \subseteq Roles
  BY <1>1 DEF MemberTypes, MemberTypeOK, Needed, RolesIn
<1>3. \A y \in managed \cup given : \E u \in Users, r \in Roles : y = <<u, r>>
  BY <1>1
<1>4. GrantsFollowMembership
  <2> SUFFICES ASSUME NEW u \in Users
               PROVE  /\ ({u} \X Needed(u)) \subseteq relation
                      /\ {y \in managed : y[1] = u} \subseteq {u} \X Needed(u)
    BY DEF GrantsFollowMembership
  <2>1. ASSUME NEW y \in {u} \X Needed(u) PROVE y \in relation
    <3>1. y = <<u, y[2]>> /\ y[2] \in Roles /\ y[2] \in Needed(u)
      BY <1>2
    <3> QED
      BY <3>1 DEF MemberInv, GrantsTell
  <2>2. ASSUME NEW y \in managed, y[1] = u PROVE y \in {u} \X Needed(u)
    <3>1. PICK r \in Roles : y = <<u, r>>
      BY <1>3, <2>2
    <3> QED
      BY <3>1 DEF MemberInv, GrantsTell
  <2> QED
    BY <2>1, <2>2
<1>5. ExternalGrantsSurvive
  BY <1>3 DEF MemberInv, GrantsTell, ExternalGrantsSurvive
<1> QED
  BY <1>1, <1>4, <1>5 DEF MemberInv, MemberTypes, MembersSafe

LEMMA MemberInitInv == MemberInit => MemberInv
<1> SUFFICES ASSUME MemberInit PROVE MemberInv
  OBVIOUS
<1> DEFINE first == CHOOSE u \in Users : \A v \in Users : u <= v
<1>1. first \in Users
  BY MemberAssumption
<1>2. PICK roles \in [Projects -> [Users -> SUBSET Roles]] :
        /\ live = Projects /\ owner = [p \in Projects |-> first]
        /\ \A p \in Projects : roles[p][first] = {"director"}
        /\ member = roles
        /\ relation = {y \in Users \X Roles : \E p \in Projects : y[2] \in roles[p][y[1]]}
        /\ managed = relation /\ given = {} /\ deleted = {}
        /\ assigned = [p \in Projects |-> NoTask]
        /\ txn = [t \in Txns |-> Idle] /\ held = [r \in LockRows |-> Idle]
        /\ begun = 0
  BY DEF MemberInit
<1> HIDE DEF first
<1>3. MemberTypes
  <2>1. relation \subseteq Users \X Roles
    BY <1>2
  <2>3. begun \in 0..MaxTxns
    BY <1>2, MemberAssumption
  <2> QED
    BY <1>1, <1>2, <2>1, <2>3 DEF MemberTypes, MemberTypeOK
<1>4. RequestsTell /\ HoldersWork /\ GoneAreEmpty
  BY <1>2, MemberAssumption DEF RequestsTell, HoldersWork, GoneAreEmpty
<1>5. GrantsTell
  BY <1>2 DEF GrantsTell, Needed, RolesIn
<1>6. AssigneeIsCreator /\ DirectorRemains /\ DeletedHoldNothing
  BY <1>1, <1>2 DEF AssigneeIsCreator, DirectorRemains, DirectorsOf, DeletedHoldNothing, ActiveTask, NoTask
<1> QED
  BY <1>3, <1>4, <1>5, <1>6 DEF MemberInv

-----------------------------------------------------------------------------
(* What a request decides depends on the rows it holds.                    *)

LEMMA AfterAt ==
  ASSUME NEW x \in MemberRequests, NEW p \in Projects, NEW u \in Users
  PROVE  After(x, p)[u] =
           IF p # x.project \/ x.op = "reconcile" THEN RolesIn(p, u)
           ELSE IF x.op = "purge" THEN {}
           ELSE IF u \in x.users THEN x.roles[u] ELSE RolesIn(p, u)
BY DEF After

LEMMA NeededIs ==
  ASSUME NEW x \in MemberRequests, NEW u \in Users
  PROVE  \A r : r \in NeededAfter(x, u) <=> \E p \in Projects : r \in After(x, p)[u]
BY DEF NeededAfter

LEMMA PlanIs ==
  ASSUME NEW x \in MemberRequests, NEW u \in Users, NEW r \in Roles
  PROVE  /\ <<u, r>> \in SyncPlan(x).grants <=>
              u \in x.users /\ r \in NeededAfter(x, u) /\ <<u, r>> \notin relation
         /\ <<u, r>> \in SyncPlan(x).revokes <=>
              u \in x.users /\ r \notin NeededAfter(x, u) /\ <<u, r>> \in managed
         /\ SyncPlan(x).grants \subseteq x.users \X Roles
         /\ SyncPlan(x).revokes \subseteq x.users \X Roles
<1> DEFINE pairs == x.users \X Roles
           grants == {y \in pairs : y[2] \in NeededAfter(x, y[1]) /\ y \notin relation}
           revokes == {y \in (managed \cup grants) \cap pairs : y[2] \notin NeededAfter(x, y[1])}
<1>1. SyncPlan(x).grants = grants /\ SyncPlan(x).revokes = revokes
  BY DEF SyncPlan
<1>2. <<u, r>> \in grants <=> u \in x.users /\ r \in NeededAfter(x, u) /\ <<u, r>> \notin relation
  OBVIOUS
<1>3. <<u, r>> \in revokes <=> u \in x.users /\ r \notin NeededAfter(x, u) /\ <<u, r>> \in managed
  BY <1>2
<1> QED
  BY <1>1, <1>2, <1>3

\* A step leaves alone what a transaction holds.
Respects(t) ==
  LET x == txn[t] IN
  /\ txn'[t] = x
  /\ \A r \in LockRows : held'[r] = t <=> held[r] = t
  /\ \A u \in Users : held[UserRow(u)] = t =>
       /\ \A p \in Projects : RolesIn(p, u)' = RolesIn(p, u)
       /\ \A r \in Roles : /\ <<u, r>> \in relation' <=> <<u, r>> \in relation
                           /\ <<u, r>> \in managed' <=> <<u, r>> \in managed
       /\ u \in deleted' <=> u \in deleted
  /\ NeedsProject(x) /\ held[ProjectRow(x.project)] = t =>
       /\ x.project \in live' <=> x.project \in live
       /\ member'[x.project] = member[x.project] /\ owner'[x.project] = owner[x.project]
       /\ assigned'[x.project] = assigned[x.project]
  /\ x.op = "create" =>
       /\ x.project \notin live'
       /\ \A o \in Txns \ {t} : txn'[o] # Idle /\ txn'[o].project = x.project =>
            txn'[o].op = "reconcile"

LEMMA SamePlan ==
  ASSUME NEW x \in MemberRequests, x.users \subseteq Users,
         \A u \in x.users : /\ \A p \in Projects : RolesIn(p, u)' = RolesIn(p, u)
                            /\ \A r \in Roles : /\ <<u, r>> \in relation' <=> <<u, r>> \in relation
                                                /\ <<u, r>> \in managed' <=> <<u, r>> \in managed
  PROVE  SyncPlan(x)' = SyncPlan(x)
<1>1. ASSUME NEW u \in x.users PROVE NeededAfter(x, u)' = NeededAfter(x, u)
  <2>1. ASSUME NEW p \in Projects PROVE After(x, p)[u]' = After(x, p)[u]
    BY <1>1, <2>1 DEF After
  <2> QED
    BY <2>1 DEF NeededAfter
<1>2. \A y \in x.users \X Roles :
        /\ y[1] \in x.users /\ y[2] \in Roles /\ y = <<y[1], y[2]>>
        /\ NeededAfter(x, y[1])' = NeededAfter(x, y[1])
        /\ y \in relation' <=> y \in relation
        /\ y \in managed' <=> y \in managed
  <2> SUFFICES ASSUME NEW y \in x.users \X Roles
               PROVE  /\ y[1] \in x.users /\ y[2] \in Roles /\ y = <<y[1], y[2]>>
                      /\ NeededAfter(x, y[1])' = NeededAfter(x, y[1])
                      /\ y \in relation' <=> y \in relation
                      /\ y \in managed' <=> y \in managed
    OBVIOUS
  <2>1. y[1] \in x.users /\ y[2] \in Roles /\ y = <<y[1], y[2]>>
    OBVIOUS
  <2>2. PICK u \in x.users, r \in Roles : y = <<u, r>> /\ y[1] = u
    BY <2>1
  <2> QED
    BY <1>1, <2>1, <2>2
<1> DEFINE pairs == x.users \X Roles
           grants == {y \in pairs : y[2] \in NeededAfter(x, y[1]) /\ y \notin relation}
           revokes == {y \in (managed \cup grants) \cap pairs : y[2] \notin NeededAfter(x, y[1])}
<1>3. grants' = grants
  BY <1>2
<1>4. revokes' = revokes
  BY <1>2, <1>3
<1>5. SyncPlan(x) = [grants |-> grants, revokes |-> revokes]
  BY DEF SyncPlan
<1>6. SyncPlan(x)' = [grants |-> grants', revokes |-> revokes']
  BY DEF SyncPlan
<1> HIDE DEF grants, revokes
<1> QED
  BY <1>3, <1>4, <1>5, <1>6

LEMMA HoldingsAre ==
  ASSUME MemberTypes, NEW t \in Txns, txn[t] # Idle
  PROVE  AllLocked(t) <=>
           /\ \A u \in txn[t].users : held[UserRow(u)] = t
           /\ NeedsProject(txn[t]) => held[ProjectRow(txn[t].project)] = t
BY DEF AllLocked, UsersLeft, ProjectLeft

\* So what an open request relies on stays as it is.
LEMMA RespectedTells ==
  ASSUME MemberInv, NEW t \in Txns, txn[t] # Idle, Respects(t)
  PROVE  RequestTells(t)'
<1>0. PICK x : x = txn[t]
  OBVIOUS
<1>1. /\ x \in MemberRequests /\ x.project \in Projects /\ x.users \subseteq Users
      /\ x.pc \in {"lock", "commit"} /\ x.op \in {"set", "remove", "create", "purge", "reconcile"}
      /\ txn'[t] = x
  BY <1>0, RequestsAre DEF MemberInv, Respects
<1>2. RequestTells(t)
  BY DEF MemberInv, RequestsTell
<1>3. /\ x.op \in {"set", "remove", "create"} => x.roles \in [x.users -> SUBSET Roles]
      /\ x.op = "remove" => \A u \in x.users : x.roles[u] = {}
  BY <1>0, <1>2 DEF RequestTells
<1>4. x.op = "create" =>
        /\ \E u \in x.users : x.roles[u] = {"director"}
        /\ x.project \notin live'
        /\ \A o \in Txns \ {t} : txn'[o] # Idle /\ txn'[o].project = x.project =>
             txn'[o].op = "reconcile"
  BY <1>0, <1>2 DEF RequestTells, Respects
<1>5. x.op = "purge" /\ held'[ProjectRow(x.project)] = t =>
        \A u \in Users : RolesIn(x.project, u)' # {} => u \in x.users
  <2> SUFFICES ASSUME x.op = "purge", held'[ProjectRow(x.project)] = t, NEW u \in Users,
                      RolesIn(x.project, u)' # {}
               PROVE  u \in x.users
    OBVIOUS
  <2>1. NeedsProject(x) /\ held[ProjectRow(x.project)] = t
    BY <1>1, RowsAre DEF NeedsProject, Respects
  <2>2. RolesIn(x.project, u)' = RolesIn(x.project, u)
    BY <1>0, <2>1 DEF Respects, RolesIn
  <2> QED
    BY <1>0, <1>2, <2>1, <2>2 DEF RequestTells
<1>6. ASSUME x.pc = "commit" PROVE AllLocked(t)' /\ Permitted(x)' /\ x.plan = SyncPlan(x)'
  <2>1. AllLocked(t) /\ Permitted(x) /\ x.plan = SyncPlan(x)
    BY <1>0, <1>2, <1>6 DEF RequestTells
  <2>2. /\ \A u \in x.users : held[UserRow(u)] = t
        /\ NeedsProject(x) => held[ProjectRow(x.project)] = t
    BY <1>0, <2>1 DEF AllLocked, UsersLeft, ProjectLeft
  <2>3. /\ \A u \in x.users : held'[UserRow(u)] = t
        /\ NeedsProject(x) => held'[ProjectRow(x.project)] = t
    BY <1>1, <2>2, RowsAre DEF Respects
  <2>4. AllLocked(t)'
    BY <1>1, <2>3 DEF AllLocked, UsersLeft, ProjectLeft
  <2>5. \A u \in x.users : u \in deleted' <=> u \in deleted
    BY <1>1, <2>2 DEF Respects
  <2>6. NeedsProject(x) =>
          /\ x.project \in live' <=> x.project \in live
          /\ member'[x.project] = member[x.project] /\ owner'[x.project] = owner[x.project]
          /\ assigned'[x.project] = assigned[x.project]
    BY <1>0, <2>2 DEF Respects
  <2>7. x.op = "create" => x.project \notin live'
    BY <1>0 DEF Respects
  <2>8. Permitted(x)'
    <3>1. CASE x.op = "set"
      BY <1>1, <2>1, <2>5, <2>6, <3>1 DEF Permitted, NeedsProject, KeepsDirector, KeepsCreator,
        LastDirector, DirectorsOf, ActiveTask
    <3>2. CASE x.op = "remove"
      BY <1>1, <2>1, <2>6, <3>2 DEF Permitted, NeedsProject, KeepsDirector, LastDirector,
        DirectorsOf, ActiveTask
    <3>3. CASE x.op \in {"create", "purge", "reconcile"}
      BY <1>1, <2>1, <2>5, <2>6, <2>7, <3>3 DEF Permitted, NeedsProject
    <3> QED
      BY <1>1, <3>1, <3>2, <3>3
  <2>9. SyncPlan(x)' = SyncPlan(x)
    <3>1. \A u \in x.users : /\ \A p \in Projects : RolesIn(p, u)' = RolesIn(p, u)
                             /\ \A r \in Roles : /\ <<u, r>> \in relation' <=> <<u, r>> \in relation
                                                 /\ <<u, r>> \in managed' <=> <<u, r>> \in managed
      BY <1>1, <2>2 DEF Respects
    <3> QED
      BY <1>1, <3>1, SamePlan
  <2> QED
    BY <2>1, <2>4, <2>8, <2>9
<1>7. /\ (x.op = "create" =>
            /\ \E u \in x.users : x.roles[u] = {"director"}
            /\ x.project \notin live
            /\ \A o \in Txns \ {t} : txn[o] # Idle /\ txn[o].project = x.project =>
                 txn[o].op = "reconcile")'
      /\ (x.op = "purge" /\ held[ProjectRow(x.project)] = t =>
            \A u \in Users : RolesIn(x.project, u) # {} => u \in x.users)'
      /\ (x.pc = "commit" => AllLocked(t) /\ Permitted(x) /\ x.plan = SyncPlan(x))'
  BY <1>4, <1>5, <1>6
<1> QED
  BY <1>1, <1>3, <1>7 DEF RequestTells

\* Steps that change no data.
SameData == UNCHANGED <<live, owner, member, relation, managed, given, deleted, assigned>>

LEMMA SameDataKeeps ==
  ASSUME MemberInv, SameData
  PROVE  /\ MemberTypeOK' /\ deleted' \subseteq Users /\ GoneAreEmpty' /\ GrantsTell'
         /\ AssigneeIsCreator' /\ DirectorRemains' /\ DeletedHoldNothing'
         /\ \A p \in Projects, u \in Users : RolesIn(p, u)' = RolesIn(p, u)
<1>1. MemberTypeOK' /\ deleted' \subseteq Users
  BY DEF MemberInv, MemberTypes, SameData, MemberTypeOK
<1>2. GoneAreEmpty' /\ DirectorRemains' /\ DeletedHoldNothing'
  BY DEF MemberInv, SameData, GoneAreEmpty, DirectorRemains, DirectorsOf, DeletedHoldNothing
<1>3. GrantsTell'
  BY DEF MemberInv, SameData, GrantsTell, Needed, RolesIn
<1>4. AssigneeIsCreator'
  BY DEF MemberInv, SameData, AssigneeIsCreator, ActiveTask, Assignable
<1>5. \A p \in Projects, u \in Users : RolesIn(p, u)' = RolesIn(p, u)
  BY DEF SameData, RolesIn
<1> QED
  BY <1>1, <1>2, <1>3, <1>4, <1>5

LEMMA OthersTell ==
  ASSUME MemberInv, SameData, NEW t \in Txns, NEW o \in Txns \ {t}, txn[o] # Idle,
         \A q \in Txns \ {t} : txn'[q] = txn[q],
         \A r \in LockRows : held'[r] = o <=> held[r] = o,
         txn[o].op = "create" /\ txn'[t] # Idle /\ txn'[t].project = txn[o].project =>
           txn'[t].op = "reconcile"
  PROVE  RequestTells(o)'
<1>0. PICK x : x = txn[o]
  OBVIOUS
<1>1. txn'[o] = x
  BY <1>0
<1>2. \A u \in Users, p \in Projects : RolesIn(p, u)' = RolesIn(p, u)
  BY SameDataKeeps
<1>3. RequestTells(o)
  BY DEF MemberInv, RequestsTell
<1>4. x.op = "create" =>
        /\ x.project \notin live'
        /\ \A q \in Txns \ {o} : txn'[q] # Idle /\ txn'[q].project = x.project =>
             txn'[q].op = "reconcile"
  BY <1>0, <1>3 DEF RequestTells, SameData
<1>5. Respects(o)
  BY <1>0, <1>1, <1>2, <1>4 DEF Respects, SameData
<1> QED
  BY <1>5, RespectedTells

\* What a step of one transaction owes the others, once for all of them.
LEMMA TxnStepKeeps ==
  ASSUME MemberInv, SameData, NEW t \in Txns,
         txn' \in [Txns -> MemberRequests \cup {Idle}], held' \in [LockRows -> Txns \cup {Idle}],
         begun' \in 0..MaxTxns,
         \A q \in Txns \ {t} : txn'[q] = txn[q],
         \A o \in Txns \ {t}, r \in LockRows : held'[r] = o <=> held[r] = o,
         \A o \in Txns \ {t} : txn[o] # Idle /\ txn[o].op = "create" /\ txn'[t] # Idle
             /\ txn'[t].project = txn[o].project => txn'[t].op = "reconcile",
         txn'[t] = Idle => \A r \in LockRows : held'[r] # t,
         txn'[t] # Idle => RequestTells(t)'
  PROVE  MemberInv'
<1>1. MemberTypes'
  BY SameDataKeeps DEF MemberTypes
<1>2. RequestsTell'
  <2> SUFFICES ASSUME NEW o \in Txns, txn'[o] # Idle PROVE RequestTells(o)'
    BY DEF RequestsTell
  <2>1. CASE o = t
    BY <2>1
  <2>2. CASE o # t
    BY <2>2, OthersTell
  <2> QED
    BY <2>1, <2>2
<1>3. HoldersWork'
  BY DEF MemberInv, HoldersWork
<1> QED
  BY <1>1, <1>2, <1>3, SameDataKeeps DEF MemberInv

LEMMA BeginKeeps ==
  ASSUME MemberInv, NEW t \in Txns, NEW x \in MemberRequests, Begin(t, x), x.pc = "lock",
         x.op \in {"set", "remove", "create"} => x.roles \in [x.users -> SUBSET Roles],
         x.op = "remove" => \A u \in x.users : x.roles[u] = {},
         x.op = "create" =>
           /\ \E u \in x.users : x.roles[u] = {"director"}
           /\ x.project \notin live
           /\ \A o \in Txns : txn[o] # Idle /\ txn[o].project = x.project => txn[o].op = "reconcile",
         x.op \in {"set", "remove", "purge"} => x.project \in live
  PROVE  MemberInv'
<1>1. /\ SameData /\ held' = held /\ txn' = [txn EXCEPT ![t] = x] /\ txn[t] = Idle
      /\ begun < MaxTxns /\ begun' = begun + 1
  BY DEF Begin, SameData
<1>2. /\ txn \in [Txns -> MemberRequests \cup {Idle}] /\ held \in [LockRows -> Txns \cup {Idle}]
      /\ begun \in 0..MaxTxns
  BY DEF MemberInv, MemberTypes
<1>3. begun' \in 0..MaxTxns
  BY <1>1, <1>2, MemberAssumption
<1>4. txn'[t] = x /\ \A q \in Txns \ {t} : txn'[q] = txn[q]
  BY <1>1, <1>2
<1>5. \A r \in LockRows : held[r] # t
  BY <1>1 DEF MemberInv, HoldersWork
<1>6. RequestTells(t)'
  <2>1. /\ x.op = "create" => x.project \notin live'
        /\ x.op = "create" => \A o \in Txns \ {t} : txn'[o] # Idle /\ txn'[o].project = x.project =>
             txn'[o].op = "reconcile"
    BY <1>1, <1>4 DEF SameData
  <2>2. x.op = "purge" => held'[ProjectRow(x.project)] # t
    BY <1>1, <1>5, RowsAre DEF MemberRequests
  <2> QED
    BY <1>4, <2>1, <2>2 DEF RequestTells
<1>7. ASSUME NEW o \in Txns \ {t}, txn[o] # Idle, txn[o].op = "create", x.project = txn[o].project
      PROVE  x.op = "reconcile"
  <2>1. RequestTells(o)
    BY <1>7 DEF MemberInv, RequestsTell
  <2>2. x.project \notin live
    BY <1>7, <2>1 DEF RequestTells
  <2>3. x.op # "create"
    BY <1>7
  <2> QED
    BY <2>2, <2>3 DEF MemberRequests
<1>8. x # Idle
  BY MemberAssumption
<1> QED
  BY <1>1, <1>2, <1>3, <1>4, <1>5, <1>6, <1>7, <1>8, TxnStepKeeps

LEMMA RequestsMade ==
  ASSUME NEW op \in {"set", "remove", "create", "purge", "reconcile"}, NEW p \in Projects,
         NEW users \in SUBSET Users,
         NEW roles \in UNION {[set -> SUBSET Roles] : set \in SUBSET Users}
  PROVE  /\ Request(op, p, users, roles) \in MemberRequests
         /\ Request(op, p, users, roles) =
              [op |-> op, project |-> p, users |-> users, roles |-> roles,
               pc |-> "lock", plan |-> NoPlan]
<1>1. NoPlan \in [grants : SUBSET (Users \X Roles), revokes : SUBSET (Users \X Roles)]
  BY DEF NoPlan
<1> QED
  BY <1>1 DEF Request, MemberRequests

LEMMA RoleMaps ==
  ASSUME NEW users \in SUBSET Users, NEW roles \in [users -> SUBSET Roles]
  PROVE  roles \in UNION {[set -> SUBSET Roles] : set \in SUBSET Users}
OBVIOUS

LEMMA BeginMemberKeeps ==
  ASSUME MemberInv, NEW t \in Txns, NEW p \in Projects, NEW u \in Users, BeginMember(t, p, u)
  PROVE  MemberInv'
<1>1. CASE \E roles \in SUBSET Roles \ {{}} :
             Begin(t, Request("set", p, {u}, [v \in {u} |-> roles]))
  <2>1. PICK roles \in SUBSET Roles : Begin(t, Request("set", p, {u}, [v \in {u} |-> roles]))
    BY <1>1
  <2>2. PICK f \in [{u} -> SUBSET Roles] : f = [v \in {u} |-> roles]
    OBVIOUS
  <2>3. PICK x : x = Request("set", p, {u}, f)
    OBVIOUS
  <2>4. /\ x \in MemberRequests /\ x.op = "set" /\ x.project = p /\ x.users = {u} /\ x.roles = f
        /\ x.pc = "lock" /\ Begin(t, x)
    BY <2>1, <2>2, <2>3, RequestsMade, RoleMaps
  <2>5. p \in live /\ x.roles \in [x.users -> SUBSET Roles]
    BY <2>2, <2>4 DEF BeginMember
  <2> QED
    BY ONLY MemberInv, t \in Txns, <2>4, <2>5, BeginKeeps
<1>2. CASE Begin(t, Request("remove", p, {u}, [v \in {u} |-> {}]))
  <2>2. PICK f \in [{u} -> SUBSET Roles] : f = [v \in {u} |-> {}]
    OBVIOUS
  <2>3. PICK x : x = Request("remove", p, {u}, f)
    OBVIOUS
  <2>4. /\ x \in MemberRequests /\ x.op = "remove" /\ x.project = p /\ x.users = {u} /\ x.roles = f
        /\ x.pc = "lock" /\ Begin(t, x) /\ \A v \in x.users : x.roles[v] = {}
    BY <1>2, <2>2, <2>3, RequestsMade, RoleMaps
  <2>5. p \in live /\ x.roles \in [x.users -> SUBSET Roles]
    BY <2>2, <2>4 DEF BeginMember
  <2> QED
    BY ONLY MemberInv, t \in Txns, <2>4, <2>5, BeginKeeps
<1> QED
  BY <1>1, <1>2 DEF BeginMember

LEMMA BeginCreateKeeps ==
  ASSUME MemberInv, NEW t \in Txns, NEW p \in Projects, NEW u \in Users, NEW v \in Users,
         NEW roles \in SUBSET Roles, BeginCreate(t, p, u, v, roles)
  PROVE  MemberInv'
<1>1. PICK f \in [{u, v} -> SUBSET Roles] :
        f = [w \in {u, v} |-> IF w = u THEN {"director"} ELSE roles]
  BY DEF Roles
<1>2. PICK x : x = Request("create", p, {u, v}, f)
  OBVIOUS
<1>3. /\ x \in MemberRequests /\ x.op = "create" /\ x.project = p /\ x.users = {u, v}
      /\ x.roles = f /\ x.pc = "lock" /\ Begin(t, x)
  BY <1>1, <1>2, RequestsMade, RoleMaps DEF BeginCreate
<1>4. x.roles \in [x.users -> SUBSET Roles] /\ \E w \in x.users : x.roles[w] = {"director"}
  BY <1>1, <1>3
<1>5. p \notin live /\ \A o \in Txns : txn[o] # Idle => txn[o].project # p \/ txn[o].op = "reconcile"
  BY DEF BeginCreate
<1> QED
  BY ONLY MemberInv, t \in Txns, <1>3, <1>4, <1>5, BeginKeeps

LEMMA OtherBeginsKeep ==
  ASSUME MemberInv, NEW t \in Txns,
         BeginReconcile(t) \/ \E p \in Projects : BeginPurge(t, p)
  PROVE  MemberInv'
<1>0. NoRoles \in UNION {[set -> SUBSET Roles] : set \in SUBSET Users}
  <2>1. NoRoles \in [{} -> SUBSET Roles]
    BY DEF NoRoles
  <2> QED
    BY <2>1
<1>1. CASE BeginReconcile(t)
  <2>1. PICK p \in Projects : p = CHOOSE q \in Projects : TRUE
    BY MemberAssumption
  <2>2. PICK users \in SUBSET Users :
          users = {u \in Users : Needed(u) # {} \/ \E r \in Roles : <<u, r>> \in managed}
    OBVIOUS
  <2>3. PICK x : x = Request("reconcile", p, users, NoRoles)
    OBVIOUS
  <2>4. Begin(t, x)
    BY <1>1, <2>1, <2>2, <2>3 DEF BeginReconcile
  <2>5. x \in MemberRequests /\ x.op = "reconcile" /\ x.pc = "lock"
    BY <1>0, <2>3, RequestsMade
  <2> QED
    BY ONLY MemberInv, t \in Txns, <2>4, <2>5, BeginKeeps
<1>2. ASSUME NEW p \in Projects, BeginPurge(t, p) PROVE MemberInv'
  <2>1. PICK x : x = Request("purge", p, {}, NoRoles)
    OBVIOUS
  <2>2. x \in MemberRequests /\ x.op = "purge" /\ x.project = p /\ x.pc = "lock"
    BY <1>0, <2>1, RequestsMade
  <2>3. Begin(t, x) /\ p \in live
    BY <1>2, <2>1 DEF BeginPurge
  <2> QED
    BY ONLY MemberInv, t \in Txns, <2>2, <2>3, BeginKeeps
<1> QED
  BY <1>1, <1>2

\* A transaction that ends lets go of its rows.
LEMMA OverKeeps ==
  ASSUME MemberInv, SameData, UNCHANGED begun, NEW t \in Txns, Over(t)
  PROVE  MemberInv'
<1>1. /\ txn \in [Txns -> MemberRequests \cup {Idle}] /\ held \in [LockRows -> Txns \cup {Idle}]
      /\ begun' \in 0..MaxTxns /\ Idle \notin Txns
  BY MemberAssumption DEF MemberInv, MemberTypes
<1>2. /\ txn' \in [Txns -> MemberRequests \cup {Idle}] /\ txn'[t] = Idle
      /\ \A q \in Txns \ {t} : txn'[q] = txn[q]
  BY <1>1 DEF Over
<1>3. held' \in [LockRows -> Txns \cup {Idle}] /\ \A r \in LockRows : held'[r] # t
  BY <1>1 DEF Over
<1>4. \A o \in Txns \ {t}, r \in LockRows : held'[r] = o <=> held[r] = o
  BY <1>1 DEF Over
<1> QED
  BY <1>1, <1>2, <1>3, <1>4, TxnStepKeeps

LEMMA LockKeeps ==
  ASSUME MemberInv, NEW t \in Txns, NEW r \in LockRows, Lock(t, r)
  PROVE  MemberInv'
<1>0. PICK x : x = txn[t]
  OBVIOUS
<1>1. PICK users : users = IF x.op = "purge" /\ r = ProjectRow(x.project)
                           THEN {u \in Users : RolesIn(x.project, u) # {}} ELSE x.users
  OBVIOUS
<1>2. /\ txn \in [Txns -> MemberRequests \cup {Idle}] /\ held \in [LockRows -> Txns \cup {Idle}]
      /\ begun \in 0..MaxTxns /\ Idle \notin Txns
  BY MemberAssumption DEF MemberInv, MemberTypes
<1>3. /\ SameData /\ begun' = begun /\ x # Idle /\ x.pc = "lock" /\ held[r] = Idle
      /\ held' = [held EXCEPT ![r] = t]
  BY <1>0 DEF Lock, SameData
<1>4. /\ x \in MemberRequests /\ x.project \in Projects /\ x.users \subseteq Users
      /\ x.op \in {"set", "remove", "create", "purge", "reconcile"}
  BY <1>0, <1>3, RequestsAre DEF MemberInv
<1>5. PICK y : y = [x EXCEPT !.users = users]
  OBVIOUS
<1>6. txn' = [txn EXCEPT ![t] = y]
  BY <1>0, <1>1, <1>5 DEF Lock
<1>7. /\ y \in MemberRequests /\ y.op = x.op /\ y.project = x.project /\ y.pc = "lock"
      /\ y.roles = x.roles /\ y.users = users
      /\ x.op # "purge" => y.users = x.users
  <2>1. users \subseteq Users
    BY <1>1, <1>4
  <2> QED
    BY <1>1, <1>3, <1>4, <1>5, <2>1 DEF MemberRequests
<1>8. /\ txn' \in [Txns -> MemberRequests \cup {Idle}] /\ txn'[t] = y /\ y # Idle
      /\ \A q \in Txns \ {t} : txn'[q] = txn[q]
  BY <1>2, <1>6, <1>7, MemberAssumption
<1>9. /\ held' \in [LockRows -> Txns \cup {Idle}]
      /\ \A o \in Txns \ {t}, s \in LockRows : held'[s] = o <=> held[s] = o
  BY <1>2, <1>3
<1>10. RequestTells(t)
  BY <1>0, <1>3 DEF MemberInv, RequestsTell
<1>11. RequestTells(t)'
  <2>1. /\ y.op \in {"set", "remove", "create"} => y.roles \in [y.users -> SUBSET Roles]
        /\ y.op = "remove" => \A u \in y.users : y.roles[u] = {}
    BY <1>0, <1>7, <1>10 DEF RequestTells
  <2>2. y.op = "create" =>
          /\ \E u \in y.users : y.roles[u] = {"director"}
          /\ y.project \notin live'
          /\ \A o \in Txns \ {t} : txn'[o] # Idle /\ txn'[o].project = y.project =>
               txn'[o].op = "reconcile"
    BY <1>0, <1>3, <1>7, <1>8, <1>10 DEF RequestTells, SameData
  <2>3. y.op = "purge" /\ held'[ProjectRow(y.project)] = t =>
          \A u \in Users : RolesIn(y.project, u)' # {} => u \in y.users
    <3> SUFFICES ASSUME y.op = "purge", held'[ProjectRow(y.project)] = t, NEW u \in Users,
                        RolesIn(y.project, u)' # {}
                 PROVE  u \in y.users
      OBVIOUS
    <3>1. RolesIn(y.project, u)' = RolesIn(y.project, u)
      BY <1>3, <1>4, <1>7, SameDataKeeps
    <3>2. CASE r = ProjectRow(x.project)
      BY <1>1, <1>7, <3>1, <3>2
    <3>3. CASE r # ProjectRow(x.project)
      <4>1. held[ProjectRow(x.project)] = t /\ y.users = x.users
        BY <1>1, <1>2, <1>3, <1>4, <1>7, <3>3, RowsAre
      <4> QED
        BY <1>0, <1>7, <1>10, <3>1, <4>1 DEF RequestTells
    <3> QED
      BY <3>2, <3>3
  <2>4. /\ (y.op = "create" =>
              /\ \E u \in y.users : y.roles[u] = {"director"}
              /\ y.project \notin live
              /\ \A o \in Txns \ {t} : txn[o] # Idle /\ txn[o].project = y.project =>
                   txn[o].op = "reconcile")'
        /\ (y.op = "purge" /\ held[ProjectRow(y.project)] = t =>
              \A u \in Users : RolesIn(y.project, u) # {} => u \in y.users)'
        /\ (y.pc = "commit" => AllLocked(t) /\ Permitted(y) /\ y.plan = SyncPlan(y))'
    BY <1>7, <2>2, <2>3
  <2> QED
    BY <1>8, <2>1, <2>4 DEF RequestTells
<1>12. \A o \in Txns \ {t} : txn[o] # Idle /\ txn[o].op = "create"
         /\ y.project = txn[o].project => y.op = "reconcile"
  <2> SUFFICES ASSUME NEW o \in Txns \ {t}, txn[o] # Idle, txn[o].op = "create",
                      x.project = txn[o].project
               PROVE  x.op = "reconcile"
    BY <1>7
  <2>1. RequestTells(o)
    BY DEF MemberInv, RequestsTell
  <2> QED
    BY <1>0, <1>3, <2>1 DEF RequestTells
<1>13. begun' \in 0..MaxTxns
  BY <1>2, <1>3
<1> QED
  BY <1>3, <1>8, <1>9, <1>11, <1>12, <1>13, TxnStepKeeps

LEMMA PlansAreTyped ==
  ASSUME NEW x \in MemberRequests
  PROVE  SyncPlan(x) \in [grants : SUBSET (Users \X Roles), revokes : SUBSET (Users \X Roles)]
<1>1. x.users \subseteq Users
  BY DEF MemberRequests
<1> QED
  BY <1>1 DEF SyncPlan

\* What is decided reads no more of a request than what it asks for.
LEMMA PlansAgree ==
  ASSUME NEW x \in MemberRequests, NEW y \in MemberRequests,
         x.op = y.op, x.project = y.project, x.users = y.users, x.roles = y.roles
  PROVE  SyncPlan(x) = SyncPlan(y) /\ (Permitted(x) <=> Permitted(y))
<1>1. \A u : NeededAfter(x, u) = NeededAfter(y, u)
  BY DEF NeededAfter, After
<1>2. SyncPlan(x) = SyncPlan(y)
  BY <1>1 DEF SyncPlan
<1>3. Permitted(x) <=> Permitted(y)
  BY DEF Permitted
<1> QED
  BY <1>2, <1>3

LEMMA DecideKeeps ==
  ASSUME MemberInv, NEW t \in Txns, Decide(t)
  PROVE  MemberInv'
<1>0. PICK x : x = txn[t]
  OBVIOUS
<1>1. /\ SameData /\ begun' = begun /\ x # Idle /\ x.pc = "lock" /\ AllLocked(t)
  BY <1>0 DEF Decide, SameData
<1>2. CASE ~Permitted(x) /\ Over(t)
  BY <1>1, <1>2, OverKeeps
<1>3. CASE /\ Permitted(x) /\ held' = held
           /\ txn' = [txn EXCEPT ![t].pc = "commit", ![t].plan = SyncPlan(x)]
  <2>1. /\ txn \in [Txns -> MemberRequests \cup {Idle}] /\ held \in [LockRows -> Txns \cup {Idle}]
        /\ begun \in 0..MaxTxns /\ x \in MemberRequests /\ x.project \in Projects
        /\ x.users \subseteq Users
    BY <1>0, <1>1, RequestsAre DEF MemberInv, MemberTypes
  <2>2. PICK plan \in [grants : SUBSET (Users \X Roles), revokes : SUBSET (Users \X Roles)] :
          plan = SyncPlan(x)
    BY <2>1, PlansAreTyped
  <2>3. PICK y : y = [x EXCEPT !.pc = "commit", !.plan = plan]
    OBVIOUS
  <2>4. txn' = [txn EXCEPT ![t] = y]
    BY <1>0, <1>3, <2>1, <2>2, <2>3
  <2>5. /\ y \in MemberRequests /\ y.op = x.op /\ y.project = x.project /\ y.pc = "commit"
        /\ y.roles = x.roles /\ y.users = x.users /\ y.plan = plan
    BY <2>1, <2>2, <2>3 DEF MemberRequests
  <2>6. /\ txn' \in [Txns -> MemberRequests \cup {Idle}] /\ txn'[t] = y /\ y # Idle
        /\ \A q \in Txns \ {t} : txn'[q] = txn[q]
    BY <2>1, <2>4, <2>5, MemberAssumption
  <2>7. RequestTells(t)
    BY <1>0, <1>1 DEF MemberInv, RequestsTell
  <2>8. y.plan = SyncPlan(y)'
    <3>1. SyncPlan(y)' = SyncPlan(y)
      <4>1. \A u \in Users, r \in Roles : /\ <<u, r>> \in relation' <=> <<u, r>> \in relation
                                          /\ <<u, r>> \in managed' <=> <<u, r>> \in managed
        BY <1>1 DEF SameData
      <4> QED
        BY <1>1, <2>1, <2>5, <4>1, SameDataKeeps, SamePlan
    <3> QED
      BY <2>1, <2>2, <2>5, <3>1, PlansAgree
  <2>9. Permitted(y)'
    <3>1. Permitted(y)
      BY <1>3, <2>1, <2>5, PlansAgree
    <3> QED
      BY <1>1, <3>1 DEF SameData, Permitted, KeepsDirector, KeepsCreator, LastDirector,
        DirectorsOf, ActiveTask
  <2>10. AllLocked(t)'
    BY <1>0, <1>1, <1>3, <2>5, <2>6 DEF AllLocked, UsersLeft, ProjectLeft, NeedsProject
  <2>11. /\ y.op \in {"set", "remove", "create"} => y.roles \in [y.users -> SUBSET Roles]
         /\ y.op = "remove" => \A u \in y.users : y.roles[u] = {}
    BY <1>0, <2>5, <2>7 DEF RequestTells
  <2>12. y.op = "create" =>
           /\ \E u \in y.users : y.roles[u] = {"director"}
           /\ y.project \notin live'
           /\ \A o \in Txns \ {t} : txn'[o] # Idle /\ txn'[o].project = y.project =>
                txn'[o].op = "reconcile"
    BY <1>0, <1>1, <2>5, <2>6, <2>7 DEF RequestTells, SameData
  <2>13. y.op = "purge" /\ held'[ProjectRow(y.project)] = t =>
           \A u \in Users : RolesIn(y.project, u)' # {} => u \in y.users
    BY <1>0, <1>1, <1>3, <2>1, <2>5, <2>7, SameDataKeeps DEF RequestTells
  <2>14. /\ (y.op = "create" =>
               /\ \E u \in y.users : y.roles[u] = {"director"}
               /\ y.project \notin live
               /\ \A o \in Txns \ {t} : txn[o] # Idle /\ txn[o].project = y.project =>
                    txn[o].op = "reconcile")'
         /\ (y.op = "purge" /\ held[ProjectRow(y.project)] = t =>
               \A u \in Users : RolesIn(y.project, u) # {} => u \in y.users)'
         /\ (y.pc = "commit" => AllLocked(t) /\ Permitted(y) /\ y.plan = SyncPlan(y))'
    BY <2>8, <2>9, <2>10, <2>12, <2>13
  <2>15. RequestTells(t)'
    BY <2>6, <2>11, <2>14 DEF RequestTells
  <2>16. \A o \in Txns \ {t} : txn[o] # Idle /\ txn[o].op = "create"
           /\ y.project = txn[o].project => y.op = "reconcile"
    <3> SUFFICES ASSUME NEW o \in Txns \ {t}, txn[o] # Idle, txn[o].op = "create",
                        x.project = txn[o].project
                 PROVE  x.op = "reconcile"
      BY <2>5
    <3>1. RequestTells(o)
      BY DEF MemberInv, RequestsTell
    <3> QED
      BY <1>0, <1>1, <3>1 DEF RequestTells
  <2>17. /\ begun' \in 0..MaxTxns /\ held' \in [LockRows -> Txns \cup {Idle}]
         /\ \A o \in Txns \ {t}, r \in LockRows : held'[r] = o <=> held[r] = o
    BY <1>1, <1>3, <2>1
  <2> QED
    BY ONLY MemberInv, t \in Txns, <1>1, <2>6, <2>15, <2>16, <2>17, TxnStepKeeps
<1> QED
  BY <1>0, <1>2, <1>3 DEF Decide

LEMMA DeadlockVictimKeeps ==
  ASSUME MemberInv, NEW t \in Txns, DeadlockVictim(t)
  PROVE  MemberInv'
BY OverKeeps DEF DeadlockVictim, SameData

-----------------------------------------------------------------------------
(* Requests that hold one row.                                             *)

LEMMA UserStepKeeps ==
  ASSUME MemberInv, NEW u \in Users, held[UserRow(u)] = Idle,
         UNCHANGED <<live, owner, member, managed, assigned, txn, held, begun>>,
         \A v \in Users \ {u} : /\ \A r \in Roles : <<v, r>> \in relation' <=> <<v, r>> \in relation
                                /\ v \in deleted' <=> v \in deleted,
         relation' \subseteq Users \X Roles, given' \subseteq Users \X Roles, deleted' \subseteq Users,
         GrantsTell', AssigneeIsCreator', DeletedHoldNothing'
  PROVE  MemberInv'
<1>1. MemberTypes'
  BY DEF MemberInv, MemberTypes, MemberTypeOK
<1>2. HoldersWork' /\ GoneAreEmpty' /\ DirectorRemains'
  BY DEF MemberInv, HoldersWork, GoneAreEmpty, DirectorRemains, DirectorsOf
<1>3. ASSUME NEW t \in Txns, txn'[t] # Idle PROVE RequestTells(t)'
  <2>0. PICK x : x = txn[t]
    OBVIOUS
  <2>1. RequestTells(t) /\ txn'[t] = x /\ x # Idle
    BY <1>3, <2>0 DEF MemberInv, RequestsTell
  <2>2. \A v \in Users : held[UserRow(v)] = t => v # u
    BY MemberAssumption
  <2>3. \A v \in Users, p \in Projects : RolesIn(p, v)' = RolesIn(p, v)
    BY DEF RolesIn
  <2>4. \A v \in Users : held[UserRow(v)] = t =>
          /\ \A p \in Projects : RolesIn(p, v)' = RolesIn(p, v)
          /\ \A r \in Roles : /\ <<v, r>> \in relation' <=> <<v, r>> \in relation
                              /\ <<v, r>> \in managed' <=> <<v, r>> \in managed
          /\ v \in deleted' <=> v \in deleted
    BY <2>2, <2>3
  <2>5. x.op = "create" =>
          /\ x.project \notin live'
          /\ \A o \in Txns \ {t} : txn'[o] # Idle /\ txn'[o].project = x.project =>
               txn'[o].op = "reconcile"
    BY <2>0, <2>1 DEF RequestTells
  <2>6. Respects(t)
    BY <2>0, <2>1, <2>4, <2>5 DEF Respects
  <2> QED
    BY <2>0, <2>1, <2>6, RespectedTells
<1> QED
  BY <1>1, <1>2, <1>3 DEF MemberInv, RequestsTell

\* The pairs a user has, and those of the others.
LEMMA PairsAre ==
  ASSUME MemberInv, NEW u \in Users, NEW r \in Roles
  PROVE  /\ <<u, r>> \in Protected(u) <=> <<u, r>> \in managed \/ r \in Needed(u)
         /\ <<u, r>> \in managed => r \in Needed(u) /\ <<u, r>> \in relation
BY DEF MemberInv, GrantsTell, Protected

LEMMA GrantRoleKeeps ==
  ASSUME MemberInv, NEW u \in Users, NEW r \in Roles, GrantRole(u, r)
  PROVE  MemberInv'
<1>1. /\ held[UserRow(u)] = Idle /\ u \notin deleted /\ <<u, r>> \notin relation
      /\ relation' = relation \cup {<<u, r>>} /\ given' = given \cup {<<u, r>>}
      /\ UNCHANGED <<live, owner, member, managed, deleted, assigned, txn, held, begun>>
  BY DEF GrantRole
<1>2. GrantsTell /\ AssigneeIsCreator /\ DeletedHoldNothing
      /\ relation \subseteq Users \X Roles /\ given \subseteq Users \X Roles /\ deleted \subseteq Users
  BY DEF MemberInv, MemberTypes, MemberTypeOK
<1>3. \A v : Needed(v)' = Needed(v)
  BY <1>1 DEF Needed, RolesIn
<1>4. GrantsTell'
  <2> SUFFICES ASSUME NEW v \in Users, NEW s \in Roles
               PROVE  /\ s \in Needed(v)' => <<v, s>> \in relation'
                      /\ <<v, s>> \in managed' => s \in Needed(v)'
                      /\ <<v, s>> \in given' => <<v, s>> \in relation' /\ <<v, s>> \notin managed'
    BY DEF GrantsTell
  <2> QED
    BY <1>1, <1>2, <1>3, PairsAre DEF GrantsTell
<1>5. AssigneeIsCreator'
  BY <1>1, <1>2 DEF AssigneeIsCreator, ActiveTask, Assignable
<1>6. DeletedHoldNothing'
  BY <1>1, <1>2 DEF DeletedHoldNothing
<1> QED
  BY <1>1, <1>2, <1>4, <1>5, <1>6, UserStepKeeps

LEMMA RevokeRoleKeeps ==
  ASSUME MemberInv, NEW u \in Users, NEW r \in Roles, RevokeRole(u, r)
  PROVE  MemberInv'
<1>1. /\ held[UserRow(u)] = Idle /\ <<u, r>> \in relation \ Protected(u)
      /\ relation' = relation \ {<<u, r>>} /\ given' = given \ {<<u, r>>}
      /\ UNCHANGED <<live, owner, member, managed, deleted, assigned, txn, held, begun>>
  BY DEF RevokeRole
<1>2. GrantsTell /\ AssigneeIsCreator /\ DeletedHoldNothing
      /\ relation \subseteq Users \X Roles /\ given \subseteq Users \X Roles /\ deleted \subseteq Users
  BY DEF MemberInv, MemberTypes, MemberTypeOK
<1>3. \A v : Needed(v)' = Needed(v)
  BY <1>1 DEF Needed, RolesIn
<1>4. GrantsTell'
  <2> SUFFICES ASSUME NEW v \in Users, NEW s \in Roles
               PROVE  /\ s \in Needed(v)' => <<v, s>> \in relation'
                      /\ <<v, s>> \in managed' => s \in Needed(v)'
                      /\ <<v, s>> \in given' => <<v, s>> \in relation' /\ <<v, s>> \notin managed'
    BY DEF GrantsTell
  <2> QED
    BY <1>1, <1>2, <1>3, PairsAre DEF GrantsTell
<1>5. AssigneeIsCreator'
  BY <1>1, <1>2 DEF AssigneeIsCreator, ActiveTask, Assignable
<1>6. DeletedHoldNothing'
  BY <1>1, <1>2 DEF DeletedHoldNothing
<1> QED
  BY <1>1, <1>2, <1>4, <1>5, <1>6, UserStepKeeps

LEMMA ReplaceRolesKeeps ==
  ASSUME MemberInv, NEW u \in Users, NEW roles \in SUBSET Roles, ReplaceRoles(u, roles)
  PROVE  MemberInv'
<1>1. /\ held[UserRow(u)] = Idle /\ u \notin deleted
      /\ Protected(u) \subseteq {u} \X roles
      /\ relation' = {y \in relation : y[1] # u} \cup (Protected(u) \cap relation) \cup ({u} \X roles)
      /\ given' = {y \in given : y[1] # u \/ y \in Protected(u) \cap relation}
                    \cup (({u} \X roles) \ (Protected(u) \cap relation))
      /\ UNCHANGED <<live, owner, member, managed, deleted, assigned, txn, held, begun>>
  BY DEF ReplaceRoles
<1>2. GrantsTell /\ AssigneeIsCreator /\ DeletedHoldNothing
      /\ relation \subseteq Users \X Roles /\ given \subseteq Users \X Roles /\ deleted \subseteq Users
  BY DEF MemberInv, MemberTypes, MemberTypeOK
<1>3. \A v : Needed(v)' = Needed(v)
  BY <1>1 DEF Needed, RolesIn
<1>4. \A v \in Users \ {u}, s \in Roles :
        /\ <<v, s>> \in relation' <=> <<v, s>> \in relation
        /\ <<v, s>> \in given' <=> <<v, s>> \in given
  <2> SUFFICES ASSUME NEW v \in Users \ {u}, NEW s \in Roles
               PROVE  /\ <<v, s>> \in relation' <=> <<v, s>> \in relation
                      /\ <<v, s>> \in given' <=> <<v, s>> \in given
    OBVIOUS
  <2>1. <<v, s>> \notin {u} \X roles /\ <<v, s>> \notin Protected(u)
    BY <1>1
  <2> QED
    BY <1>1, <2>1
<1>5. \A s \in Roles :
        /\ <<u, s>> \in relation' <=> <<u, s>> \in Protected(u) \cap relation \/ s \in roles
        /\ <<u, s>> \in given' <=> \/ <<u, s>> \in given /\ <<u, s>> \in Protected(u) \cap relation
                                   \/ s \in roles /\ <<u, s>> \notin Protected(u) \cap relation
        /\ <<u, s>> \in Protected(u) => s \in roles
  BY <1>1
<1>6. GrantsTell'
  <2> SUFFICES ASSUME NEW v \in Users, NEW s \in Roles
               PROVE  /\ s \in Needed(v) => <<v, s>> \in relation'
                      /\ <<v, s>> \in managed => s \in Needed(v)
                      /\ <<v, s>> \in given' => <<v, s>> \in relation' /\ <<v, s>> \notin managed
    BY <1>1, <1>3 DEF GrantsTell
  <2>1. CASE v = u
    BY <1>2, <1>5, <2>1, PairsAre DEF GrantsTell
  <2>2. CASE v # u
    BY <1>2, <1>4, <2>2 DEF GrantsTell
  <2> QED
    BY <2>1, <2>2
<1>7. relation' \subseteq Users \X Roles /\ given' \subseteq Users \X Roles
  BY <1>1, <1>2
<1>8. AssigneeIsCreator'
  BY <1>1, <1>2 DEF AssigneeIsCreator, ActiveTask, Assignable
<1>9. DeletedHoldNothing'
  BY <1>1, <1>2, <1>4 DEF DeletedHoldNothing
<1> QED
  BY <1>1, <1>2, <1>4, <1>6, <1>7, <1>8, <1>9, UserStepKeeps

LEMMA DeleteUserKeeps ==
  ASSUME MemberInv, NEW u \in Users, DeleteUser(u)
  PROVE  MemberInv'
<1>1. /\ held[UserRow(u)] = Idle /\ u \notin deleted
      /\ Needed(u) = {} /\ \A y \in managed : y[1] # u
      /\ deleted' = deleted \cup {u}
      /\ relation' = {y \in relation : y[1] # u} /\ given' = {y \in given : y[1] # u}
      /\ UNCHANGED <<live, owner, member, managed, assigned, txn, held, begun>>
  BY DEF DeleteUser
<1>2. GrantsTell /\ AssigneeIsCreator /\ DeletedHoldNothing /\ GoneAreEmpty
      /\ relation \subseteq Users \X Roles /\ given \subseteq Users \X Roles /\ deleted \subseteq Users
  BY DEF MemberInv, MemberTypes, MemberTypeOK
<1>3. \A v : Needed(v)' = Needed(v)
  BY <1>1 DEF Needed, RolesIn
<1>4. \A p \in Projects : member[p][u] = {}
  BY <1>1, <1>2 DEF Needed, RolesIn, GoneAreEmpty
<1>5. GrantsTell'
  <2> SUFFICES ASSUME NEW v \in Users, NEW s \in Roles
               PROVE  /\ s \in Needed(v) => <<v, s>> \in relation'
                      /\ <<v, s>> \in managed => s \in Needed(v)
                      /\ <<v, s>> \in given' => <<v, s>> \in relation' /\ <<v, s>> \notin managed
    BY <1>1, <1>3 DEF GrantsTell
  <2> QED
    BY <1>1, <1>2 DEF GrantsTell
<1>6. AssigneeIsCreator'
  BY <1>1, <1>2, <1>4 DEF AssigneeIsCreator, ActiveTask, Assignable
<1>7. DeletedHoldNothing'
  BY <1>1, <1>2, <1>4 DEF DeletedHoldNothing
<1> QED
  BY <1>1, <1>2, <1>5, <1>6, <1>7, UserStepKeeps

LEMMA TaskKeeps ==
  ASSUME MemberInv, NEW p \in Projects, NEW who \in Users,
         NEW state \in {"unfinished", "completed"}, Task(p, who, state),
         state = "unfinished" => Assignable(p, who)
  PROVE  MemberInv'
<1>1. /\ held[ProjectRow(p)] = Idle /\ p \in live
      /\ assigned' = [assigned EXCEPT ![p] = [who |-> who, state |-> state]]
      /\ UNCHANGED <<live, owner, member, relation, managed, given, deleted, txn, held, begun>>
  BY DEF Task
<1>2. assigned \in [Projects -> {NoTask} \cup [who : Users, state : {"unfinished", "completed"}]]
  BY DEF MemberInv, MemberTypes, MemberTypeOK
<1>3. /\ assigned' \in [Projects -> {NoTask} \cup [who : Users, state : {"unfinished", "completed"}]]
      /\ assigned'[p].who = who /\ assigned'[p].state = state
      /\ \A q \in Projects \ {p} : assigned'[q] = assigned[q]
  BY <1>1, <1>2
<1>4. MemberTypes'
  BY <1>1, <1>3 DEF MemberInv, MemberTypes, MemberTypeOK
<1>5. HoldersWork' /\ GrantsTell' /\ DirectorRemains' /\ DeletedHoldNothing'
  BY <1>1 DEF MemberInv, HoldersWork, GrantsTell, Needed, RolesIn, DirectorRemains, DirectorsOf,
    DeletedHoldNothing
<1>6. GoneAreEmpty'
  BY <1>1, <1>3 DEF MemberInv, GoneAreEmpty
<1>7. AssigneeIsCreator'
  <2> SUFFICES ASSUME NEW q \in Projects, assigned'[q].state = "unfinished"
               PROVE  "creator" \in member'[q][assigned'[q].who] /\ assigned'[q].who \notin deleted'
    BY DEF AssigneeIsCreator, ActiveTask, Assignable
  <2>1. CASE q = p
    BY <1>1, <1>3, <2>1 DEF Assignable
  <2>2. CASE q # p
    BY <1>1, <1>3, <2>2 DEF MemberInv, AssigneeIsCreator, ActiveTask, Assignable
  <2> QED
    BY <2>1, <2>2
<1>8. ASSUME NEW t \in Txns, txn'[t] # Idle PROVE RequestTells(t)'
  <2>0. PICK x : x = txn[t]
    OBVIOUS
  <2>1. RequestTells(t) /\ txn'[t] = x /\ x # Idle /\ x.project \in Projects
    BY <1>1, <1>8, <2>0, RequestsAre DEF MemberInv, RequestsTell
  <2>2. held[ProjectRow(x.project)] = t => x.project # p
    BY <1>1, MemberAssumption
  <2>3. \A v \in Users, q \in Projects : RolesIn(q, v)' = RolesIn(q, v)
    BY <1>1 DEF RolesIn
  <2>4. x.op = "create" =>
          /\ x.project \notin live'
          /\ \A o \in Txns \ {t} : txn'[o] # Idle /\ txn'[o].project = x.project =>
               txn'[o].op = "reconcile"
    BY <1>1, <2>0, <2>1 DEF RequestTells
  <2>5. Respects(t)
    BY <1>1, <1>3, <2>0, <2>1, <2>2, <2>3, <2>4 DEF Respects
  <2> QED
    BY <2>0, <2>1, <2>5, RespectedTells
<1> QED
  BY <1>4, <1>5, <1>6, <1>7, <1>8 DEF MemberInv, RequestsTell

LEMMA TasksKeep ==
  ASSUME MemberInv, NEW p \in Projects,
         (\E u \in Users : Assign(p, u)) \/ Complete(p) \/ ReopenTask(p)
  PROVE  MemberInv'
<1>1. assigned[p].state \in {"unfinished", "completed"} => assigned[p].who \in Users
  BY DEF MemberInv, MemberTypes, MemberTypeOK, NoTask
<1> QED
  BY <1>1, TaskKeeps DEF Assign, Complete, ReopenTask, ActiveTask

-----------------------------------------------------------------------------
(* A request that commits: what it decided is what it leaves.              *)

LEMMA CommitChanges ==
  ASSUME MemberInv, NEW t \in Txns, Commit(t), NEW x \in MemberRequests, x = txn[t]
  PROVE  /\ x # Idle /\ x.pc = "commit" /\ x.project \in Projects /\ x.users \subseteq Users
         /\ x.op \in {"set", "remove", "create", "purge", "reconcile"}
         /\ \A u \in x.users : held[UserRow(u)] = t
         /\ NeedsProject(x) => held[ProjectRow(x.project)] = t
         /\ Permitted(x) /\ x.plan = SyncPlan(x)
         /\ \A p \in Projects \ {x.project} :
              /\ p \in live' <=> p \in live
              /\ member'[p] = member[p] /\ owner'[p] = owner[p] /\ assigned'[p] = assigned[p]
         /\ UNCHANGED <<given, deleted, begun>>
<1>1. x # Idle /\ x.pc = "commit"
  BY DEF Commit
<1>2. RequestTells(t) /\ x.project \in Projects /\ x.users \subseteq Users
      /\ x.op \in {"set", "remove", "create", "purge", "reconcile"}
  BY <1>1, RequestsAre DEF MemberInv, RequestsTell
<1>3. AllLocked(t) /\ Permitted(x) /\ x.plan = SyncPlan(x)
  BY <1>1, <1>2 DEF RequestTells
<1>4. /\ \A u \in x.users : held[UserRow(u)] = t
      /\ NeedsProject(x) => held[ProjectRow(x.project)] = t
  BY <1>1, <1>3, HoldingsAre DEF MemberInv
<1>5. \A p \in Projects \ {x.project} :
        /\ p \in live' <=> p \in live
        /\ member'[p] = member[p] /\ owner'[p] = owner[p] /\ assigned'[p] = assigned[p]
  BY DEF Commit, MemberInv, MemberTypes, MemberTypeOK
<1>6. UNCHANGED <<given, deleted, begun>>
  BY DEF Commit
<1> QED
  BY <1>1, <1>2, <1>3, <1>4, <1>5, <1>6

\* The project the request is about.
LEMMA CommitProject ==
  ASSUME MemberInv, NEW t \in Txns, Commit(t), NEW x \in MemberRequests, x = txn[t]
  PROVE  /\ x.op \in {"set", "remove"} =>
              /\ x.project \in live /\ x.project \in live' /\ owner'[x.project] = owner[x.project]
              /\ assigned'[x.project] = assigned[x.project]
         /\ x.op = "create" =>
              /\ x.project \notin live /\ x.project \in live'
              /\ owner'[x.project] \in x.users /\ x.roles[owner'[x.project]] = {"director"}
              /\ assigned'[x.project] = assigned[x.project]
         /\ x.op = "purge" =>
              /\ x.project \in live /\ x.project \notin live' /\ assigned'[x.project] = NoTask
              /\ owner'[x.project] = Nobody
         /\ x.op = "reconcile" =>
              /\ live' = live /\ owner' = owner /\ member' = member /\ assigned' = assigned
         /\ x.op # "reconcile" => member'[x.project] = After(x, x.project)
         /\ x.op \in {"set", "remove", "create"} => x.roles \in [x.users -> SUBSET Roles]
         /\ x.op = "remove" => \A u \in x.users : x.roles[u] = {}
         /\ x.op = "purge" => \A u \in Users : RolesIn(x.project, u) # {} => u \in x.users
<1>1. /\ x # Idle /\ x.project \in Projects /\ Permitted(x)
      /\ NeedsProject(x) => held[ProjectRow(x.project)] = t
  BY CommitChanges
<1>2. RequestTells(t)
  BY <1>1 DEF MemberInv, RequestsTell
<1>3. /\ x.op \in {"set", "remove", "create"} => x.roles \in [x.users -> SUBSET Roles]
      /\ x.op = "remove" => \A u \in x.users : x.roles[u] = {}
      /\ x.op = "create" => \E u \in x.users : x.roles[u] = {"director"}
  BY <1>2 DEF RequestTells
<1>4. x.op = "purge" => \A u \in Users : RolesIn(x.project, u) # {} => u \in x.users
  BY <1>1, <1>2 DEF RequestTells, NeedsProject
<1>5. /\ owner \in [Projects -> Users \cup {Nobody}]
      /\ member \in [Projects -> [Users -> SUBSET Roles]]
      /\ DOMAIN assigned = Projects
  BY DEF MemberInv, MemberTypes, MemberTypeOK
<1>6. /\ x.op \in {"set", "remove"} =>
           /\ x.project \in live /\ x.project \in live' /\ owner'[x.project] = owner[x.project]
           /\ assigned'[x.project] = assigned[x.project]
  BY <1>1 DEF Commit, Permitted
<1>7. x.op = "create" =>
        /\ x.project \notin live /\ x.project \in live'
        /\ owner'[x.project] \in x.users /\ x.roles[owner'[x.project]] = {"director"}
        /\ assigned'[x.project] = assigned[x.project]
  <2> SUFFICES ASSUME x.op = "create"
               PROVE  /\ x.project \notin live /\ x.project \in live'
                      /\ owner'[x.project] \in x.users /\ x.roles[owner'[x.project]] = {"director"}
                      /\ assigned'[x.project] = assigned[x.project]
    OBVIOUS
  <2>1. owner' = [owner EXCEPT ![x.project] = CHOOSE u \in x.users : x.roles[u] = {"director"}]
    BY DEF Commit
  <2>2. owner'[x.project] = CHOOSE u \in x.users : x.roles[u] = {"director"}
    BY <1>1, <1>5, <2>1
  <2>3. owner'[x.project] \in x.users /\ x.roles[owner'[x.project]] = {"director"}
    BY <1>3, <2>2
  <2> QED
    BY <1>1, <2>3 DEF Commit, Permitted
<1>8. x.op = "purge" =>
        /\ x.project \in live /\ x.project \notin live' /\ assigned'[x.project] = NoTask
        /\ owner'[x.project] = Nobody
  BY <1>1, <1>5 DEF Commit, Permitted
<1>9. x.op = "reconcile" =>
        /\ live' = live /\ owner' = owner /\ member' = member /\ assigned' = assigned
  BY DEF Commit
<1>10. x.op # "reconcile" => member'[x.project] = After(x, x.project)
  BY <1>1, <1>5 DEF Commit
<1> QED
  BY <1>3, <1>4, <1>6, <1>7, <1>8, <1>9, <1>10

\* Memberships after the step are those the plan was made for, and only the
\* request's own users have others than before.
LEMMA CommitRoles ==
  ASSUME MemberInv, NEW t \in Txns, Commit(t), NEW x \in MemberRequests, x = txn[t],
         NEW p \in Projects, NEW u \in Users
  PROVE  /\ RolesIn(p, u)' = After(x, p)[u]
         /\ u \notin x.users => RolesIn(p, u)' = RolesIn(p, u)
<1>1. /\ x.project \in Projects
      /\ x.op \in {"set", "remove", "create", "purge", "reconcile"}
      /\ p # x.project => (p \in live' <=> p \in live) /\ member'[p] = member[p]
  BY CommitChanges
<1>2. RolesIn(p, u)' = After(x, p)[u]
  <2>1. CASE p # x.project \/ x.op = "reconcile"
    BY <1>1, <2>1, AfterAt, CommitProject DEF RolesIn
  <2>2. CASE p = x.project /\ x.op = "purge"
    BY <2>2, AfterAt, CommitProject DEF RolesIn
  <2>3. CASE p = x.project /\ x.op \in {"set", "remove", "create"}
    BY <2>3, CommitProject DEF RolesIn
  <2> QED
    BY <1>1, <2>1, <2>2, <2>3
<1>3. ASSUME u \notin x.users PROVE After(x, p)[u] = RolesIn(p, u)
  <2>1. CASE p # x.project \/ x.op # "purge"
    BY <1>3, <2>1, AfterAt
  <2>2. CASE p = x.project /\ x.op = "purge"
    <3>1. After(x, p)[u] = {}
      BY <2>2, AfterAt
    <3>2. RolesIn(x.project, u) = {}
      BY <1>3, <2>2, CommitProject
    <3> QED
      BY <2>2, <3>1, <3>2
  <2> QED
    BY <2>1, <2>2
<1> QED
  BY <1>2, <1>3

LEMMA CommitNeeds ==
  ASSUME MemberInv, NEW t \in Txns, Commit(t), NEW x \in MemberRequests, x = txn[t],
         NEW u \in Users
  PROVE  /\ Needed(u)' = NeededAfter(x, u)
         /\ u \notin x.users => Needed(u)' = Needed(u)
<1>1. \A p \in Projects : /\ RolesIn(p, u)' = After(x, p)[u]
                          /\ u \notin x.users => RolesIn(p, u)' = RolesIn(p, u)
  BY CommitRoles
<1> QED
  BY <1>1 DEF Needed, NeededAfter

LEMMA CommitPairs ==
  ASSUME MemberInv, NEW t \in Txns, Commit(t), NEW x \in MemberRequests, x = txn[t],
         NEW u \in Users, NEW r \in Roles
  PROVE  /\ <<u, r>> \in relation' <=>
              \/ <<u, r>> \in relation /\ ~(u \in x.users /\ <<u, r>> \in managed /\ r \notin Needed(u)')
              \/ u \in x.users /\ r \in Needed(u)'
         /\ <<u, r>> \in managed' <=>
              \/ <<u, r>> \in managed /\ ~(u \in x.users /\ r \notin Needed(u)')
              \/ u \in x.users /\ r \in Needed(u)' /\ <<u, r>> \notin relation
<1>1. relation' = (relation \cup x.plan.grants) \ x.plan.revokes
      /\ managed' = (managed \cup x.plan.grants) \ x.plan.revokes
  BY DEF Commit
<1>2. x.plan = SyncPlan(x)
  BY CommitChanges
<1>3. Needed(u)' = NeededAfter(x, u)
  BY CommitNeeds
<1>4. /\ <<u, r>> \in x.plan.grants <=>
           u \in x.users /\ r \in Needed(u)' /\ <<u, r>> \notin relation
      /\ <<u, r>> \in x.plan.revokes <=>
           u \in x.users /\ r \notin Needed(u)' /\ <<u, r>> \in managed
  BY <1>2, <1>3, PlanIs
<1> QED
  BY <1>1, <1>4

LEMMA CommitGrants ==
  ASSUME MemberInv, NEW t \in Txns, Commit(t), NEW x \in MemberRequests, x = txn[t]
  PROVE  GrantsTell'
<1> SUFFICES ASSUME NEW u \in Users, NEW r \in Roles
             PROVE  /\ r \in Needed(u)' => <<u, r>> \in relation'
                    /\ <<u, r>> \in managed' => r \in Needed(u)'
                    /\ <<u, r>> \in given' => <<u, r>> \in relation' /\ <<u, r>> \notin managed'
  BY DEF GrantsTell
<1>1. /\ r \in Needed(u) => <<u, r>> \in relation
      /\ <<u, r>> \in managed => r \in Needed(u)
      /\ <<u, r>> \in given => <<u, r>> \in relation /\ <<u, r>> \notin managed
  BY DEF MemberInv, GrantsTell
<1>2. given' = given
  BY CommitChanges
<1>3. u \notin x.users => Needed(u)' = Needed(u)
  BY CommitNeeds
<1>4. /\ <<u, r>> \in relation' <=>
           \/ <<u, r>> \in relation /\ ~(u \in x.users /\ <<u, r>> \in managed /\ r \notin Needed(u)')
           \/ u \in x.users /\ r \in Needed(u)'
      /\ <<u, r>> \in managed' <=>
           \/ <<u, r>> \in managed /\ ~(u \in x.users /\ r \notin Needed(u)')
           \/ u \in x.users /\ r \in Needed(u)' /\ <<u, r>> \notin relation
  BY CommitPairs
<1> QED
  BY <1>1, <1>2, <1>3, <1>4

LEMMA CommitTypes ==
  ASSUME MemberInv, NEW t \in Txns, Commit(t), NEW x \in MemberRequests, x = txn[t]
  PROVE  MemberTypes' /\ HoldersWork' /\ Idle \notin Txns
<1>1. /\ live \subseteq Projects /\ owner \in [Projects -> Users \cup {Nobody}]
      /\ member \in [Projects -> [Users -> SUBSET Roles]]
      /\ relation \subseteq Users \X Roles /\ managed \subseteq Users \X Roles
      /\ given \subseteq Users \X Roles /\ deleted \subseteq Users
      /\ assigned \in [Projects -> {NoTask} \cup [who : Users, state : {"unfinished", "completed"}]]
      /\ txn \in [Txns -> MemberRequests \cup {Idle}] /\ begun \in 0..MaxTxns
      /\ held \in [LockRows -> Txns \cup {Idle}] /\ Idle \notin Txns
  BY MemberAssumption DEF MemberInv, MemberTypes, MemberTypeOK
<1>2. x.project \in Projects /\ x.users \subseteq Users /\ x.plan = SyncPlan(x)
      /\ UNCHANGED <<given, deleted, begun>>
      /\ x.op \in {"set", "remove", "create", "purge", "reconcile"}
  BY CommitChanges
<1>3. live' \subseteq Projects
  BY <1>1, <1>2 DEF Commit
<1>4. owner' \in [Projects -> Users \cup {Nobody}]
  <2>1. CASE x.op = "create"
    <3>1. PICK v : v = CHOOSE u \in x.users : x.roles[u] = {"director"}
      OBVIOUS
    <3>2. owner' = [owner EXCEPT ![x.project] = v]
      BY <2>1, <3>1 DEF Commit
    <3>3. owner'[x.project] = v
      BY <1>1, <1>2, <3>2
    <3>4. v \in Users
      BY <1>2, <2>1, <3>3, CommitProject
    <3> QED
      BY <1>1, <3>2, <3>4
  <2>2. CASE x.op # "create"
    BY <1>1, <2>2 DEF Commit
  <2> QED
    BY <2>1, <2>2
<1>5. member' \in [Projects -> [Users -> SUBSET Roles]]
  <2>1. CASE x.op = "reconcile"
    BY <1>1, <2>1, CommitProject
  <2>2. CASE x.op # "reconcile"
    <3>1. After(x, x.project) = [u \in Users |-> After(x, x.project)[u]]
      BY <1>2 DEF After
    <3>2. ASSUME NEW u \in Users PROVE After(x, x.project)[u] \subseteq Roles
      <4>1. RolesIn(x.project, u) \subseteq Roles
        BY <1>2, RolesAre DEF MemberInv
      <4>2. x.op \in {"set", "remove", "create"} /\ u \in x.users => x.roles[u] \subseteq Roles
        BY CommitProject
      <4> QED
        BY <1>2, <2>2, <4>1, <4>2, AfterAt
    <3>3. PICK f \in [Users -> SUBSET Roles] : f = After(x, x.project)
      BY <3>1, <3>2
    <3>4. member' = [member EXCEPT ![x.project] = f]
      BY <2>2, <3>3 DEF Commit
    <3> QED
      BY <1>1, <3>3, <3>4
  <2> QED
    BY <2>1, <2>2
<1>6. relation' \subseteq Users \X Roles /\ managed' \subseteq Users \X Roles
  <2>1. SyncPlan(x).grants \subseteq Users \X Roles
    BY PlansAreTyped
  <2> QED
    BY <1>1, <1>2, <2>1 DEF Commit
<1>7. assigned' \in [Projects -> {NoTask} \cup [who : Users, state : {"unfinished", "completed"}]]
  BY <1>1 DEF Commit
<1>8. /\ txn' \in [Txns -> MemberRequests \cup {Idle}] /\ held' \in [LockRows -> Txns \cup {Idle}]
  BY <1>1 DEF Commit, Over
<1>9. HoldersWork'
  BY <1>1 DEF MemberInv, HoldersWork, Commit, Over
<1> QED
  BY <1>1, <1>2, <1>3, <1>4, <1>5, <1>6, <1>7, <1>8, <1>9 DEF MemberTypes, MemberTypeOK

\* Whoever waits or works meanwhile finds what it holds as it left it.
LEMMA CommitRespects ==
  ASSUME MemberInv, NEW t \in Txns, Commit(t), NEW x \in MemberRequests, x = txn[t],
         NEW o \in Txns, txn'[o] # Idle
  PROVE  RequestTells(o)'
<1>0. PICK y : y = txn[o]
  OBVIOUS
<1>1. /\ x # Idle /\ x.project \in Projects /\ x.users \subseteq Users
      /\ \A u \in x.users : held[UserRow(u)] = t
      /\ NeedsProject(x) => held[ProjectRow(x.project)] = t
      /\ \A p \in Projects \ {x.project} :
           /\ p \in live' <=> p \in live
           /\ member'[p] = member[p] /\ owner'[p] = owner[p] /\ assigned'[p] = assigned[p]
      /\ UNCHANGED <<given, deleted, begun>>
      /\ x.op \in {"set", "remove", "create", "purge", "reconcile"}
  BY CommitChanges
<1>2. /\ o # t /\ txn'[o] = txn[o] /\ y # Idle
      /\ \A q \in Txns : txn'[q] # Idle => txn'[q] = txn[q] /\ txn[q] # Idle
      /\ \A r \in LockRows : held'[r] = o <=> held[r] = o
  <2>1. /\ txn \in [Txns -> MemberRequests \cup {Idle}] /\ held \in [LockRows -> Txns \cup {Idle}]
        /\ Idle \notin Txns
    BY CommitTypes DEF MemberInv, MemberTypes
  <2>2. Over(t)
    BY DEF Commit
  <2> QED
    BY <1>0, <2>1, <2>2 DEF Over
<1>3. RequestTells(o) /\ RequestTells(t)
  BY <1>0, <1>1, <1>2 DEF MemberInv, RequestsTell
<1>4. y.project \in Projects /\ y \in MemberRequests
  BY <1>0, <1>2, RequestsAre DEF MemberInv
<1>5. \A u \in Users : held[UserRow(u)] = o =>
        /\ \A p \in Projects : RolesIn(p, u)' = RolesIn(p, u)
        /\ \A r \in Roles : /\ <<u, r>> \in relation' <=> <<u, r>> \in relation
                            /\ <<u, r>> \in managed' <=> <<u, r>> \in managed
        /\ u \in deleted' <=> u \in deleted
  <2> SUFFICES ASSUME NEW u \in Users, held[UserRow(u)] = o
               PROVE  /\ \A p \in Projects : RolesIn(p, u)' = RolesIn(p, u)
                      /\ \A r \in Roles : /\ <<u, r>> \in relation' <=> <<u, r>> \in relation
                                          /\ <<u, r>> \in managed' <=> <<u, r>> \in managed
                      /\ u \in deleted' <=> u \in deleted
    OBVIOUS
  <2>1. u \notin x.users
    BY <1>1, <1>2
  <2> QED
    BY <1>1, <2>1, CommitRoles, CommitPairs
<1>6. x.op = "create" /\ y.project = x.project => y.op = "reconcile"
  BY <1>0, <1>2, <1>3 DEF RequestTells
<1>7. NeedsProject(y) /\ held[ProjectRow(y.project)] = o =>
        /\ y.project \in live' <=> y.project \in live
        /\ member'[y.project] = member[y.project] /\ owner'[y.project] = owner[y.project]
        /\ assigned'[y.project] = assigned[y.project]
  <2> SUFFICES ASSUME NeedsProject(y), held[ProjectRow(y.project)] = o
               PROVE  /\ y.project \in live' <=> y.project \in live
                      /\ member'[y.project] = member[y.project] /\ owner'[y.project] = owner[y.project]
                      /\ assigned'[y.project] = assigned[y.project]
    OBVIOUS
  <2>1. CASE y.project # x.project
    BY <1>1, <1>4, <2>1
  <2>2. CASE y.project = x.project
    <3>1. ~NeedsProject(x)
      BY <1>1, <1>2, <2>2
    <3>2. x.op # "create"
      BY <1>6, <2>2 DEF NeedsProject
    <3>3. x.op = "reconcile"
      BY <1>1, <3>1, <3>2 DEF NeedsProject
    <3> QED
      BY <3>3, CommitProject
  <2> QED
    BY <2>1, <2>2
<1>8. y.op = "create" =>
        /\ y.project \notin live'
        /\ \A q \in Txns \ {o} : txn'[q] # Idle /\ txn'[q].project = y.project =>
             txn'[q].op = "reconcile"
  <2> SUFFICES ASSUME y.op = "create"
               PROVE  /\ y.project \notin live'
                      /\ \A q \in Txns \ {o} : txn'[q] # Idle /\ txn'[q].project = y.project =>
                           txn'[q].op = "reconcile"
    OBVIOUS
  <2>1. y.project \notin live
        /\ \A q \in Txns \ {o} : txn[q] # Idle /\ txn[q].project = y.project =>
             txn[q].op = "reconcile"
    BY <1>0, <1>3 DEF RequestTells
  <2>2. y.project \notin live'
    <3>1. CASE x.project = y.project
      <4>1. x.op = "reconcile"
        BY <1>1, <1>2, <2>1, <3>1
      <4> QED
        BY <2>1, <4>1, CommitProject
    <3>2. CASE x.project # y.project
      BY <1>1, <1>4, <2>1, <3>2
    <3> QED
      BY <3>1, <3>2
  <2> QED
    BY <1>2, <2>1, <2>2
<1>9. Respects(o)
  BY <1>0, <1>2, <1>5, <1>7, <1>8 DEF Respects
<1> QED
  BY <1>0, <1>2, <1>9, RespectedTells

LEMMA CommitStates ==
  ASSUME MemberInv, NEW t \in Txns, Commit(t), NEW x \in MemberRequests, x = txn[t]
  PROVE  GoneAreEmpty' /\ AssigneeIsCreator' /\ DirectorRemains' /\ DeletedHoldNothing'
<1>1. /\ x.project \in Projects /\ x.users \subseteq Users /\ Permitted(x)
      /\ \A p \in Projects \ {x.project} :
           /\ p \in live' <=> p \in live
           /\ member'[p] = member[p] /\ owner'[p] = owner[p] /\ assigned'[p] = assigned[p]
      /\ given' = given /\ deleted' = deleted
      /\ x.op \in {"set", "remove", "create", "purge", "reconcile"}
  BY CommitChanges
<1>2. /\ x.op \in {"set", "remove"} =>
           /\ x.project \in live /\ x.project \in live' /\ owner'[x.project] = owner[x.project]
           /\ assigned'[x.project] = assigned[x.project]
      /\ x.op = "create" =>
           /\ x.project \notin live /\ x.project \in live'
           /\ owner'[x.project] \in x.users /\ x.roles[owner'[x.project]] = {"director"}
           /\ assigned'[x.project] = assigned[x.project]
      /\ x.op = "purge" =>
           /\ x.project \in live /\ x.project \notin live' /\ assigned'[x.project] = NoTask
      /\ x.op = "reconcile" =>
           /\ live' = live /\ owner' = owner /\ member' = member /\ assigned' = assigned
      /\ x.op = "remove" => \A u \in x.users : x.roles[u] = {}
  BY CommitProject
<1>3. x.op # "reconcile" => member'[x.project] = After(x, x.project)
  BY CommitProject
<1>4. /\ live \subseteq Projects /\ live' \subseteq Projects
      /\ assigned \in [Projects -> {NoTask} \cup [who : Users, state : {"unfinished", "completed"}]]
  BY CommitTypes DEF MemberInv, MemberTypes, MemberTypeOK
<1>5. GoneAreEmpty /\ AssigneeIsCreator /\ DirectorRemains /\ DeletedHoldNothing
  BY DEF MemberInv
<1>6. \A u \in Users : x.op # "reconcile" =>
        member'[x.project][u] = IF x.op = "purge" THEN {}
                                ELSE IF u \in x.users THEN x.roles[u] ELSE RolesIn(x.project, u)
  BY <1>1, <1>3, AfterAt
<1>7. x.op \in {"set", "remove"} => \A u \in Users \ x.users :
        member'[x.project][u] = member[x.project][u]
  BY <1>2, <1>6 DEF RolesIn
<1>8. GoneAreEmpty'
  <2> SUFFICES ASSUME NEW p \in Projects, p \notin live'
               PROVE  assigned'[p].state = "none" /\ \A u \in Users : member'[p][u] = {}
    BY DEF GoneAreEmpty
  <2>1. CASE p # x.project \/ x.op = "reconcile"
    BY <1>1, <1>2, <1>5, <2>1 DEF GoneAreEmpty
  <2>2. CASE p = x.project /\ x.op # "reconcile"
    <3>1. x.op = "purge"
      BY <1>1, <1>2, <2>2
    <3> QED
      BY <1>2, <1>6, <2>2, <3>1 DEF NoTask
  <2> QED
    BY <2>1, <2>2
<1>9. AssigneeIsCreator'
  <2> SUFFICES ASSUME NEW p \in Projects, assigned'[p].state = "unfinished"
               PROVE  "creator" \in member'[p][assigned'[p].who] /\ assigned'[p].who \notin deleted'
    BY DEF AssigneeIsCreator, ActiveTask, Assignable
  <2>1. CASE p # x.project \/ x.op = "reconcile"
    BY <1>1, <1>2, <1>5, <2>1 DEF AssigneeIsCreator, ActiveTask, Assignable
  <2>2. CASE p = x.project /\ x.op # "reconcile"
    <3>1. x.op \in {"set", "remove"}
      <4>1. x.op # "purge"
        BY <1>2, <2>2 DEF NoTask
      <4>2. x.op # "create"
        BY <1>2, <1>5, <2>2 DEF GoneAreEmpty
      <4> QED
        BY <1>1, <2>2, <4>1, <4>2
    <3>2. PICK u : u = assigned[p].who
      OBVIOUS
    <3>3. /\ u \in Users /\ assigned'[p].who = u /\ assigned[p].state = "unfinished"
          /\ "creator" \in member[p][u] /\ u \notin deleted
      BY <1>2, <1>4, <1>5, <2>2, <3>1, <3>2 DEF AssigneeIsCreator, ActiveTask, Assignable, NoTask
    <3>4. CASE u \notin x.users
      BY <1>1, <1>7, <2>2, <3>1, <3>3, <3>4
    <3>5. CASE u \in x.users
      <4>1. x.op = "set" /\ KeepsCreator(x.project, u, x.roles[u])
        BY <1>1, <2>2, <3>1, <3>2, <3>3, <3>5 DEF Permitted, ActiveTask
      <4>2. "creator" \in x.roles[u]
        BY <2>2, <3>2, <3>3, <4>1 DEF KeepsCreator, ActiveTask
      <4> QED
        BY <1>1, <1>6, <2>2, <3>3, <3>5, <4>1, <4>2
    <3> QED
      BY <3>4, <3>5
  <2> QED
    BY <2>1, <2>2
<1>10. DirectorRemains'
  <2> SUFFICES ASSUME NEW p \in live'
               PROVE  owner'[p] \in Users /\ "director" \in member'[p][owner'[p]]
    BY DEF DirectorRemains, DirectorsOf
  <2>1. CASE p # x.project \/ x.op = "reconcile"
    BY <1>1, <1>2, <1>4, <1>5, <2>1 DEF DirectorRemains, DirectorsOf
  <2>2. CASE p = x.project /\ x.op = "create"
    BY <1>1, <1>2, <1>6, <2>2
  <2>3. CASE p = x.project /\ x.op \in {"set", "remove"}
    <3>1. PICK u : u = owner[p]
      OBVIOUS
    <3>2. owner'[p] = u /\ u \in Users /\ "director" \in member[p][u]
      BY <1>2, <1>5, <2>3, <3>1 DEF DirectorRemains, DirectorsOf
    <3>3. CASE u \notin x.users
      BY <1>7, <2>3, <3>2, <3>3
    <3>4. CASE u \in x.users
      <4>1. x.op = "set" /\ "director" \in x.roles[u]
        BY <1>1, <2>3, <3>1, <3>4 DEF Permitted, KeepsDirector
      <4> QED
        BY <1>6, <2>3, <3>2, <3>4, <4>1
    <3> QED
      BY <3>3, <3>4
  <2> QED
    BY <1>1, <1>2, <2>1, <2>2, <2>3
<1>11. DeletedHoldNothing'
  <2> SUFFICES ASSUME NEW u \in deleted
               PROVE  /\ \A p \in Projects : member'[p][u] = {}
                      /\ \A r \in Roles : <<u, r>> \notin relation'
    BY <1>1 DEF DeletedHoldNothing
  <2>1. /\ u \in Users /\ \A p \in Projects : member[p][u] = {} /\ RolesIn(p, u) = {}
        /\ \A r \in Roles : <<u, r>> \notin relation
    BY <1>5 DEF MemberInv, MemberTypes, DeletedHoldNothing, RolesIn
  <2>2. x.op \in {"set", "remove", "create"} => u \notin x.users
    BY <1>1, <2>1 DEF Permitted
  <2>3. \A p \in Projects : member'[p][u] = {}
    BY <1>1, <1>2, <1>6, <2>1, <2>2
  <2>4. Needed(u)' = {}
    BY <2>3 DEF Needed, RolesIn
  <2> QED
    BY <2>1, <2>3, <2>4, CommitPairs
<1> QED
  BY <1>8, <1>9, <1>10, <1>11

LEMMA CommitKeeps ==
  ASSUME MemberInv, NEW t \in Txns, Commit(t)
  PROVE  MemberInv'
<1>1. PICK x \in MemberRequests : x = txn[t]
  BY RequestsAre DEF Commit, MemberInv
<1> QED
  BY <1>1, CommitTypes, CommitStates, CommitGrants, CommitRespects DEF MemberInv, RequestsTell

\* The inductive step, request by request.
LEMMA MemberStepInv == MemberInv /\ [MemberNext]_memberVars => MemberInv'
<1> SUFFICES ASSUME MemberInv, [MemberNext]_memberVars PROVE MemberInv'
  OBVIOUS
<1>1. ASSUME NEW t \in Txns,
             (\E r \in LockRows : Lock(t, r)) \/ Decide(t) \/ Commit(t) \/ DeadlockVictim(t)
      PROVE  MemberInv'
  BY <1>1, LockKeeps, DecideKeeps, CommitKeeps, DeadlockVictimKeeps
<1>2. ASSUME NEW t \in Txns, BeginReconcile(t) \/ \E p \in Projects : BeginPurge(t, p)
      PROVE  MemberInv'
  BY <1>2, OtherBeginsKeep
<1>3. ASSUME NEW t \in Txns, NEW p \in Projects, NEW u \in Users, BeginMember(t, p, u)
      PROVE  MemberInv'
  BY <1>3, BeginMemberKeeps
<1>4. ASSUME NEW t \in Txns, NEW p \in Projects, NEW u \in Users, NEW v \in Users,
             NEW roles \in SUBSET Roles, BeginCreate(t, p, u, v, roles)
      PROVE  MemberInv'
  BY <1>4, BeginCreateKeeps
<1>5. ASSUME NEW u \in Users,
             \/ DeleteUser(u)
             \/ \E r \in Roles : GrantRole(u, r) \/ RevokeRole(u, r)
             \/ \E roles \in SUBSET Roles : ReplaceRoles(u, roles)
      PROVE  MemberInv'
  BY <1>5, DeleteUserKeeps, GrantRoleKeeps, RevokeRoleKeeps, ReplaceRolesKeeps
<1>6. ASSUME NEW p \in Projects, (\E u \in Users : Assign(p, u)) \/ Complete(p) \/ ReopenTask(p)
      PROVE  MemberInv'
  BY <1>6, TasksKeep
<1>7. CASE UNCHANGED memberVars
  <2>1. SameData /\ UNCHANGED <<txn, held, begun>>
    BY <1>7 DEF memberVars, SameData
  <2>2. MemberTypes' /\ HoldersWork'
    BY <2>1, SameDataKeeps DEF MemberInv, MemberTypes, HoldersWork
  <2>3. ASSUME NEW t \in Txns, txn'[t] # Idle PROVE RequestTells(t)'
    <3>1. RequestTells(t)
      BY <2>1, <2>3 DEF MemberInv, RequestsTell
    <3>2. txn[t] # Idle /\ \A p \in Projects, u \in Users : RolesIn(p, u)' = RolesIn(p, u)
      BY <2>1, <2>3, SameDataKeeps
    <3>3. Respects(t)
      BY <2>1, <3>1, <3>2 DEF Respects, RequestTells, SameData
    <3> QED
      BY <3>2, <3>3, RespectedTells
  <2> QED
    BY <2>1, <2>2, <2>3, SameDataKeeps DEF MemberInv, RequestsTell
<1> QED
  BY <1>1, <1>2, <1>3, <1>4, <1>5, <1>6, <1>7 DEF MemberNext

\* However the member requests of all projects, the administration of users and
\* the task operations interleave, over any users, projects and transactions:
\* platform roles follow memberships, relations an administrator granted stay,
\* assignees may produce, projects keep a director, deleted users hold nothing.
THEOREM MembersAreSafe == MemberSpec => []MembersSafe
<1>1. MemberInit => MemberInv
  BY MemberInitInv
<1>2. MemberInv /\ [MemberNext]_memberVars => MemberInv'
  BY MemberStepInv
<1>3. MemberInv => MembersSafe
  BY InvMeansMembersSafe
<1> QED
  BY <1>1, <1>2, <1>3, PTL DEF MemberSpec
=============================================================================
