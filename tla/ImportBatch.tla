------------------------------ MODULE ImportBatch ------------------------------
(***************************************************************************)
(* The commit of an Excel import.  A preview leaves a batch in the         *)
(* database and a token in Redis; the client commits it under an           *)
(* idempotency key and may send the request again, with the same key or    *)
(* another one, after an error or an answer it never received.             *)
(*                                                                         *)
(* A request is one database transaction under an advisory lock of its key *)
(* and the row lock of its batch; when it fails, a second transaction,     *)
(* which holds neither of them yet, records the failure.                   *)
(***************************************************************************)
EXTENDS Naturals

CONSTANTS
  MaxBatches,      \* bound: previews, all of them of the same rows
  MaxKeys,         \* bound: idempotency keys of the user
  MaxRequests,     \* bound: commit requests
  MaxImportFaults  \* bound: errors, lost answers and killed requests

ASSUME ImportAssumption ==
  {MaxBatches, MaxKeys, MaxRequests, MaxImportFaults} \subseteq Nat

\* Each is numbered in the order of its first use.
Batches == 1..MaxBatches
Keys == 1..MaxKeys
Requests == 1..MaxRequests
None == 0

VARIABLES
  kind,       \* "shot" or "asset": the two services differ in the failure path
  batch,      \* sg_import_batch: status, key
  token,      \* the preview payload is in Redis
  expired,    \* preview_expires_time has passed
  imported,   \* how often the rows of the batch were written
  keyLock,    \* pg_advisory_xact_lock of each key
  rowLock,    \* FOR UPDATE of each batch
  request,    \* what each request is doing, and what it was told
  importFaults

importVars ==
  <<kind, batch, token, expired, imported, keyLock, rowLock, request, importFaults>>

NewRequest == [pc |-> "new", batch |-> None, key |-> None, told |-> "nothing"]
Go(r, pc) == request' = [request EXCEPT ![r].pc = pc]
Answer(r, text) == request' = [request EXCEPT ![r].pc = "done", ![r].told = text]

BatchOf(r) == request[r].batch
KeyOf(r) == request[r].key
KeepLocks(r) == UNCHANGED <<keyLock, rowLock>>
EndWithoutKey(r) ==
  /\ rowLock' = [b \in Batches |-> IF rowLock[b] = r THEN None ELSE rowLock[b]]
  /\ UNCHANGED keyLock
\* Commit and rollback release the locks of the transaction.
EndTransaction(r) ==
  /\ keyLock' = [k \in Keys |-> IF keyLock[k] = r THEN None ELSE keyLock[k]]
  /\ rowLock' = [b \in Batches |-> IF rowLock[b] = r THEN None ELSE rowLock[b]]
BatchUntouched == UNCHANGED <<kind, batch, token, expired, imported, importFaults>>

\* A batch under this key, as another transaction sees it.
Recorded(k) == {b \in Batches : batch[b].key = k}
\* Shots or import rows of the batch exist already: another batch brought them.
RowsExistAlready == \E b \in Batches : imported[b] > 0

-----------------------------------------------------------------------------
\* Of an earlier batch at least the token was saved.
Begun(b) == batch[b].status # "none" \/ token[b] \/ expired[b]
NextPreview(b) == ~Begun(b) /\ \A a \in 1..(b - 1) : Begun(a)
Preview(b) ==
  /\ NextPreview(b)
  /\ batch' = [batch EXCEPT ![b].status = "previewed"]
  /\ token' = [token EXCEPT ![b] = TRUE]
  /\ UNCHANGED <<kind, expired, imported, keyLock, rowLock, request, importFaults>>

\* The token is saved before the batch is committed, and stays behind.
PreviewIsKilled(b) ==
  /\ NextPreview(b) /\ importFaults < MaxImportFaults
  /\ token' = [token EXCEPT ![b] = TRUE]
  /\ importFaults' = importFaults + 1
  /\ UNCHANGED <<kind, batch, expired, imported, keyLock, rowLock, request>>

Submit(r, b, k) ==
  /\ request[r].pc = "new" /\ \A q \in 1..(r - 1) : request[q].pc # "new"
  /\ \A j \in 1..(k - 1) : \E q \in 1..(r - 1) : KeyOf(q) = j
  /\ request' = [request EXCEPT ![r] = [pc |-> "lock", batch |-> b, key |-> k,
                                        told |-> "nothing"]]
  /\ KeepLocks(r) /\ BatchUntouched

\* lock_idempotency and find_by_idempotency: the key is new ...
LockKey(r) ==
  /\ request[r].pc = "lock" /\ keyLock[KeyOf(r)] = None /\ Recorded(KeyOf(r)) = {}
  /\ keyLock' = [keyLock EXCEPT ![KeyOf(r)] = r]
  /\ Go(r, "token")
  /\ UNCHANGED rowLock /\ BatchUntouched

\* ... or has the outcome of an earlier request, which is the answer.
Outcome(b) == IF batch[b].status = "committed" THEN "imported" ELSE "failed before"
Replay(r) ==
  /\ request[r].pc = "lock" /\ keyLock[KeyOf(r)] = None
  /\ \E b \in Recorded(KeyOf(r)) :
       Answer(r, IF b = BatchOf(r) THEN Outcome(b) ELSE "conflict")
  /\ KeepLocks(r) /\ BatchUntouched

ReadToken(r) ==
  /\ request[r].pc = "token" /\ token[BatchOf(r)]
  /\ Go(r, "row")
  /\ KeepLocks(r) /\ BatchUntouched

\* _raise_missing_token; expire_preview changes a preview only.
StillPreview(b) == batch[b].status = "previewed"
TokenMissing(r) ==
  LET b == BatchOf(r) IN
  /\ request[r].pc = "token" /\ ~token[b]
  /\ IF batch[b].status # "none" /\ expired[b]
     THEN /\ rowLock[b] = None
          /\ batch' = IF StillPreview(b) THEN [batch EXCEPT ![b].status = "expired"] ELSE batch
     ELSE UNCHANGED batch
  /\ Answer(r, "error")
  /\ EndTransaction(r)
  /\ UNCHANGED <<kind, token, expired, imported, importFaults>>

NotExpired(b) == ~expired[b]
\* get_for_update and the validation of the locked batch.
Committable(b) == batch[b].status = "previewed" /\ ~expired[b]
LockBatch(r) ==
  /\ request[r].pc = "row" /\ rowLock[BatchOf(r)] = None
  /\ Committable(BatchOf(r))
  /\ rowLock' = [rowLock EXCEPT ![BatchOf(r)] = r]
  /\ Go(r, "write")
  /\ UNCHANGED keyLock /\ BatchUntouched
BatchRefused(r) ==
  /\ request[r].pc = "row" /\ rowLock[BatchOf(r)] = None
  /\ ~Committable(BatchOf(r))
  /\ Answer(r, "error")
  /\ EndTransaction(r) /\ BatchUntouched

-----------------------------------------------------------------------------
(* The rows, under the project lock, and the outcome of the batch.         *)

\* uk_sg_import_batch_idempotency
KeyTaken(r) == Recorded(KeyOf(r)) \ {BatchOf(r)} # {}
MayWrite(r) == request[r].pc = "write" /\ ~RowsExistAlready /\ ~KeyTaken(r)

WriteRows(r) ==
  /\ batch' = [batch EXCEPT ![BatchOf(r)] = [status |-> "committed", key |-> KeyOf(r)]]
  /\ imported' = [imported EXCEPT ![BatchOf(r)] = @ + 1]
  /\ EndTransaction(r)

CommitImport(r) ==
  /\ MayWrite(r)
  /\ WriteRows(r)
  /\ Go(r, "cleanup")
  /\ UNCHANGED <<kind, token, expired, importFaults>>

\* The connection breaks while the database commits: an error to the service.
CommitAnswerLost(r) ==
  /\ MayWrite(r) /\ importFaults < MaxImportFaults
  /\ WriteRows(r)
  /\ Go(r, "failing")
  /\ importFaults' = importFaults + 1
  /\ UNCHANGED <<kind, token, expired>>

WriteRefused(r) ==
  /\ request[r].pc = "write" /\ (RowsExistAlready \/ KeyTaken(r))
  /\ Go(r, "failing")
  /\ EndTransaction(r) /\ BatchUntouched
WriteRaises(r) ==
  /\ request[r].pc = "write" /\ importFaults < MaxImportFaults
  /\ Go(r, "failing")
  /\ EndTransaction(r)
  /\ importFaults' = importFaults + 1
  /\ UNCHANGED <<kind, batch, token, expired, imported>>

\* A transaction that has flushed this key and not ended makes an insert wait.
KeyInUse(r) ==
  \E q \in Requests \ {r} : request[q].pc = "write" /\ KeyOf(q) = KeyOf(r)

\* mark_failed, WHERE batch_status = 'previewed'.  The asset service takes the
\* lock of the key again and looks for another batch under it; the shot service
\* runs into the unique index instead and swallows the error.
RecordFailure(r) ==
  LET b == BatchOf(r) IN
  /\ request[r].pc = "failing"
  /\ rowLock[b] = None /\ ~KeyInUse(r)
  /\ kind = "asset" => keyLock[KeyOf(r)] = None
  /\ batch' = IF StillPreview(b) /\ ~KeyTaken(r)
              THEN [batch EXCEPT ![b] = [status |-> "failed", key |-> KeyOf(r)]]
              ELSE batch
  /\ Answer(r, "error")
  /\ UNCHANGED <<kind, token, expired, imported, keyLock, rowLock, importFaults>>

\* _delete_preview_token_best_effort: an error is logged only.
DeleteToken(r) ==
  /\ request[r].pc = "cleanup"
  /\ \/ token' = [token EXCEPT ![BatchOf(r)] = FALSE] /\ UNCHANGED importFaults
     \/ /\ importFaults < MaxImportFaults /\ importFaults' = importFaults + 1
        /\ UNCHANGED token
  /\ Answer(r, "imported")
  /\ UNCHANGED <<kind, batch, expired, imported, keyLock, rowLock>>

-----------------------------------------------------------------------------
PreviewExpires(b) ==
  /\ Begun(b) /\ ~expired[b]
  /\ expired' = [expired EXCEPT ![b] = TRUE]
  /\ UNCHANGED <<kind, batch, token, imported, keyLock, rowLock, request, importFaults>>
TokenExpires(b) ==
  /\ expired[b] /\ token[b]
  /\ token' = [token EXCEPT ![b] = FALSE]
  /\ UNCHANGED <<kind, batch, expired, imported, keyLock, rowLock, request, importFaults>>

RequestIsKilled(r) ==
  /\ request[r].pc \notin {"new", "done"} /\ importFaults < MaxImportFaults
  /\ Answer(r, "nothing")
  /\ EndTransaction(r)
  /\ importFaults' = importFaults + 1
  /\ UNCHANGED <<kind, batch, token, expired, imported>>

ImportInit ==
  /\ kind \in {"shot", "asset"}
  /\ batch = [b \in Batches |-> [status |-> "none", key |-> None]]
  /\ token = [b \in Batches |-> FALSE] /\ expired = [b \in Batches |-> FALSE]
  /\ imported = [b \in Batches |-> 0]
  /\ keyLock = [k \in Keys |-> None] /\ rowLock = [b \in Batches |-> None]
  /\ request = [r \in Requests |-> NewRequest]
  /\ importFaults = 0

RequestStep(r) ==
  \/ LockKey(r) \/ Replay(r) \/ ReadToken(r) \/ TokenMissing(r)
  \/ LockBatch(r) \/ BatchRefused(r) \/ CommitImport(r) \/ WriteRefused(r)
  \/ RecordFailure(r) \/ DeleteToken(r)
ImportNext ==
  \/ \E b \in Batches : \/ Preview(b) \/ PreviewIsKilled(b)
                        \/ PreviewExpires(b) \/ TokenExpires(b)
  \/ \E r \in Requests : \/ \E b \in Batches, k \in Keys : Submit(r, b, k)
                         \/ RequestStep(r)
                         \/ CommitAnswerLost(r) \/ WriteRaises(r) \/ RequestIsKilled(r)

\* PostgreSQL grants a free lock and the event loop runs every request.
ImportFairness == \A r \in Requests : WF_importVars(RequestStep(r))
ImportSpec == ImportInit /\ [][ImportNext]_importVars /\ ImportFairness

-----------------------------------------------------------------------------
(* Properties.                                                             *)

ImportTypeOK ==
  /\ kind \in {"shot", "asset"}
  /\ batch \in [Batches -> [status : {"none", "previewed", "committed", "failed", "expired"},
                            key : Keys \cup {None}]]
  /\ imported \in [Batches -> Nat]
  /\ keyLock \in [Keys -> Requests \cup {None}]
  /\ rowLock \in [Batches -> Requests \cup {None}]

\* The rows of a workbook are written once, however often its commit is sent,
\* under whatever keys, from whatever previews of it.
RowsImportedOnce ==
  \A a, b \in Batches : imported[a] > 0 /\ imported[b] > 0 => a = b /\ imported[a] = 1

\* A batch is called committed exactly when its rows are there: no late record
\* of a failure, and no expiry, may overrule a commit whose answer was lost.
CommittedMeansImported ==
  \A b \in Batches : imported[b] = IF batch[b].status = "committed" THEN 1 ELSE 0

\* A client that was told that the import had failed before, and so previews
\* the workbook again, never learns by any key that it was done after all.
FailureIsFinal ==
  \A r, q \in Requests : BatchOf(r) = BatchOf(q) =>
    ~(request[r].told = "failed before" /\ request[q].told = "imported")

\* Whoever is told that the import was done can rely on it.
AnsweredImported ==
  \A r \in Requests : request[r].told = "imported" => imported[BatchOf(r)] = 1

\* Every request is answered: the lock of the key, of the batch and of the
\* failure record are never waited for in a circle, and none is left behind.
RequestsAreAnswered ==
  (\E r \in Requests : request[r].pc \notin {"new", "done"}) ~>
  (\A r \in Requests : request[r].pc \in {"new", "done"})

\* An import is exact: written once, called committed exactly when it was, and
\* no client is told something else, at any time.
ImportsAreExact ==
  RowsImportedOnce /\ CommittedMeansImported /\ AnsweredImported /\ FailureIsFinal
=============================================================================
