------------------------------- MODULE LogStream -------------------------------
(***************************************************************************)
(* The audit logs on their way from the requests to the database: a Redis  *)
(* stream with one consumer group.  A consumer reads a batch, remembers    *)
(* each event under a key that keeps others from storing it again, inserts *)
(* the rows in one transaction, commits and acknowledges.  On an error it  *)
(* rolls back and removes the keys; what is not acknowledged is claimed    *)
(* again, by any consumer, when it has been idle long enough.              *)
(***************************************************************************)
EXTENDS Naturals, FiniteSets

CONSTANTS
  Consumers,     \* consumer tasks, one in each application process
  Events, MaxMessages,
  EventOf,       \* EventOf[m]: the event_id of message m; a request may repeat it
  BatchSize,     \* log_stream_batch_size, log_stream_claim_batch_size
  MaxLogFaults,  \* bound: errors, lost answers, stalls, outages and deaths
  Nobody         \* model value

Messages == 1..MaxMessages  \* in the order of XADD
ASSUME LogAssumption ==
  /\ {MaxMessages, BatchSize, MaxLogFaults} \subseteq Nat /\ BatchSize > 0
  /\ EventOf \in [Messages -> Events] /\ Nobody \notin Consumers

VARIABLES
  message,    \* in the stream and the group: status, consumer, idle
  dedup,      \* events with a log:dedup key
  rows,       \* how often each event is stored
  consumer,   \* what each consumer is doing
  refused,    \* events whose row the database refuses
  logFaults,
  forsaken,   \* history: events whose key was left without a row
  uncertain   \* history: events whose key went although they may be stored

logVars == <<message, dedup, rows, consumer, refused, logFaults, forsaken, uncertain>>
logHistory == <<forsaken, uncertain>>

Reading == [pc |-> "wait", todo |-> {}, held |-> {}, done |-> {}]
Fault == logFaults < MaxLogFaults /\ logFaults' = logFaults + 1
Doing(c, pc) == consumer[c].pc = pc
Unstored(events) == {e \in events : rows[e] = 0}

\* The first BatchSize of some messages.
Batch(messages) ==
  {m \in messages : Cardinality({n \in messages : n < m}) < BatchSize}
New == {m \in Messages : message[m].status = "new"}
NothingClaimable == {}
Claimable == {m \in Messages : message[m].status = "pending" /\ message[m].idle}

Deliver(c, batch) ==
  message' = [m \in Messages |->
    IF m \in batch THEN [status |-> "pending", consumer |-> c, idle |-> FALSE]
                   ELSE message[m]]
StartBatch(c, batch) ==
  consumer' = [consumer EXCEPT ![c] = [Reading EXCEPT !.pc = "work", !.todo = batch]]
\* A message belongs to a batch that is still being worked on.
BeingWorkedOn(m) ==
  \E c \in Consumers : message[m].consumer = c /\ m \in consumer[c].todo \cup consumer[c].done

-----------------------------------------------------------------------------
\* _xadd_event
SendEvent(m) ==
  /\ message[m].status = "unsent"
  /\ \A n \in 1..(m - 1) : message[n].status # "unsent"
  /\ message' = [message EXCEPT ![m].status = "new"]
  /\ UNCHANGED <<dedup, rows, consumer, refused, logFaults, logHistory>>

\* xreadgroup; when its answer is lost the messages are pending all the same.
Read(c) ==
  /\ Doing(c, "wait") /\ New # {}
  /\ Deliver(c, Batch(New))
  /\ \/ StartBatch(c, Batch(New)) /\ UNCHANGED logFaults
     \/ Fault /\ UNCHANGED consumer
  /\ UNCHANGED <<dedup, rows, refused, logHistory>>

\* xautoclaim; a message may be taken from a consumer that is slow, not dead.
ClaimIdle(c) ==
  /\ Doing(c, "wait") /\ Claimable # {}
  /\ Deliver(c, Batch(Claimable))
  /\ StartBatch(c, Batch(Claimable))
  /\ forsaken' = forsaken \cup
       Unstored({EventOf[m] : m \in {n \in Batch(Claimable) : BeingWorkedOn(n)}})
  /\ UNCHANGED <<dedup, rows, refused, logFaults, uncertain>>

AnyEvent(e) == TRUE
\* _acquire_dedup: SET NX
Acquired(e) == e \notin dedup

First(c) == CHOOSE m \in consumer[c].todo : \A n \in consumer[c].todo : m <= n
\* One message of _process_messages: a known event is only acknowledged.
Take(c) ==
  LET m == First(c)
      e == EventOf[m]
  IN
  /\ Doing(c, "work") /\ consumer[c].todo # {}
  /\ IF Acquired(e)
     THEN /\ dedup' = dedup \cup {e}
          /\ consumer' = [consumer EXCEPT
               ![c].pc = IF e \in refused THEN "release" ELSE "work",
               ![c].todo = @ \ {m}, ![c].done = @ \cup {m}, ![c].held = @ \cup {e}]
     ELSE /\ consumer' = [consumer EXCEPT ![c].todo = @ \ {m}, ![c].done = @ \cup {m}]
          /\ UNCHANGED dedup
  /\ UNCHANGED <<message, rows, refused, logFaults, logHistory>>

\* Redis fails; the key may be there, and nobody knows that it is this one's.
TakeFails(c) ==
  /\ Doing(c, "work") /\ consumer[c].todo # {} /\ Fault
  /\ \/ UNCHANGED <<dedup, forsaken>>
     \/ LET e == EventOf[First(c)] IN
        Acquired(e) /\ dedup' = dedup \cup {e} /\ forsaken' = forsaken \cup Unstored({e})
  /\ consumer' = [consumer EXCEPT ![c].pc = "release"]
  /\ UNCHANGED <<message, rows, refused, uncertain>>

Stored(c) == [e \in Events |-> IF e \in consumer[c].held THEN rows[e] + 1 ELSE rows[e]]
Ready(c) == Doing(c, "work") /\ consumer[c].todo = {}
Commit(c) ==
  /\ Ready(c)
  /\ rows' = Stored(c)
  /\ consumer' = [consumer EXCEPT ![c].pc = "ack"]
  /\ UNCHANGED <<message, dedup, refused, logFaults, logHistory>>

CommitFails(c) ==
  /\ Ready(c) /\ Fault
  /\ \/ UNCHANGED <<rows, uncertain>>
     \/ rows' = Stored(c) /\ uncertain' = uncertain \cup consumer[c].held
  /\ consumer' = [consumer EXCEPT ![c].pc = "release"]
  /\ UNCHANGED <<message, dedup, refused, forsaken>>

Acknowledged(c) ==
  [m \in Messages |-> IF m \in consumer[c].done
                      THEN [status |-> "acked", consumer |-> Nobody, idle |-> FALSE]
                      ELSE message[m]]
Ack(c) ==
  /\ Doing(c, "ack")
  /\ message' = Acknowledged(c)
  /\ consumer' = [consumer EXCEPT ![c] = Reading]
  /\ UNCHANGED <<dedup, rows, refused, logFaults, logHistory>>

\* The handler of the exception does not know that the rows are committed.
AckFails(c) ==
  /\ Doing(c, "ack") /\ Fault
  /\ message' \in {message, Acknowledged(c)}
  /\ consumer' = [consumer EXCEPT ![c].pc = "release"]
  /\ uncertain' = uncertain \cup consumer[c].held
  /\ UNCHANGED <<dedup, rows, refused, forsaken>>

KeysWithout(c) == dedup \ consumer[c].held
Release(c) ==
  /\ Doing(c, "release")
  /\ dedup' = KeysWithout(c)
  /\ consumer' = [consumer EXCEPT ![c] = Reading]
  /\ UNCHANGED <<message, rows, refused, logFaults, logHistory>>

\* Redis fails in the loop over the keys: some of them stay.
ReleaseFails(c) ==
  /\ Doing(c, "release") /\ Fault
  /\ \E left \in SUBSET consumer[c].held :
       /\ left # {}
       /\ dedup' = dedup \ (consumer[c].held \ left)
       /\ forsaken' = forsaken \cup Unstored(left)
  /\ consumer' = [consumer EXCEPT ![c] = Reading]
  /\ UNCHANGED <<message, rows, refused, uncertain>>

\* The process dies, and comes back as another consumer of the group.
ConsumerDies(c) ==
  /\ ~Doing(c, "wait") /\ Fault
  /\ consumer' = [consumer EXCEPT ![c] = Reading]
  /\ forsaken' = forsaken \cup Unstored(consumer[c].held)
  /\ UNCHANGED <<message, dedup, rows, refused, uncertain>>

\* log_stream_claim_idle_ms; a consumer that works exceeds it when it stalls.
GoesIdle(m) ==
  /\ message[m].status = "pending" /\ ~message[m].idle
  /\ IF BeingWorkedOn(m) THEN Fault ELSE UNCHANGED logFaults
  /\ message' = [message EXCEPT ![m].idle = TRUE]
  /\ UNCHANGED <<dedup, rows, consumer, refused, logHistory>>

\* log_stream_dedup_ttl, an hour: nobody worked, or the event came again.
KeyExpires(e) ==
  /\ e \in dedup /\ Fault
  /\ \A c \in Consumers : e \notin consumer[c].held
  /\ dedup' = dedup \ {e}
  /\ uncertain' = uncertain \cup {e}
  /\ UNCHANGED <<message, rows, consumer, refused, forsaken>>

-----------------------------------------------------------------------------
LogInit ==
  /\ message = [m \in Messages |-> [status |-> "unsent", consumer |-> Nobody, idle |-> FALSE]]
  /\ dedup = {} /\ rows = [e \in Events |-> 0]
  /\ consumer = [c \in Consumers |-> Reading]
  /\ refused = {} \/ \E e \in Events : refused = {e}
  /\ logFaults = 0 /\ forsaken = {} /\ uncertain = {}

ConsumerStep(c) == Read(c) \/ ClaimIdle(c) \/ Take(c) \/ Commit(c) \/ Ack(c) \/ Release(c)
ConsumerFault(c) ==
  TakeFails(c) \/ CommitFails(c) \/ AckFails(c) \/ ReleaseFails(c) \/ ConsumerDies(c)
LogNext ==
  \/ \E m \in Messages : SendEvent(m) \/ GoesIdle(m)
  \/ \E c \in Consumers : ConsumerStep(c) \/ ConsumerFault(c)
  \/ \E e \in Events : KeyExpires(e)

\* A consumer goes on, and nothing that lies about stays young.
LogFairness ==
  /\ \A c \in Consumers : WF_logVars(ConsumerStep(c))
  /\ \A m \in Messages : WF_logVars(GoesIdle(m) /\ ~BeingWorkedOn(m))
LogSpec == LogInit /\ [][LogNext]_logVars /\ LogFairness

-----------------------------------------------------------------------------
(* Properties.                                                             *)

\* The values, and: an event whose row a consumer is about to insert has its key.
LogTypeOK ==
  /\ message \in [Messages -> [status : {"unsent", "new", "pending", "acked"},
                               consumer : Consumers \cup {Nobody}, idle : BOOLEAN]]
  /\ consumer \in [Consumers -> [pc : {"wait", "work", "ack", "release"},
                                 todo : SUBSET Messages, held : SUBSET Events,
                                 done : SUBSET Messages]]
  /\ rows \in [Events -> Nat] /\ refused \subseteq Events
  /\ dedup \subseteq Events /\ \A c \in Consumers : consumer[c].held \subseteq dedup

\* However often an event is sent, read and claimed, it is stored at most once,
\* unless its key was removed after a commit that may have happened.
StoredAtMostOnce == \A e \in Events : rows[e] <= 1 \/ e \in uncertain

\* A log is not lost by errors and retries: when the group is done with all the
\* messages of an event, it is stored, unless its key was left behind.
DoneMeansStored ==
  \A e \in Events :
    LET sent == {m \in Messages : EventOf[m] = e} IN
    sent # {} /\ (\A m \in sent : message[m].status = "acked")
      => rows[e] > 0 \/ e \in forsaken

\* Every message is done with in the end, whoever dies, as long as the database
\* takes all rows (a row it refuses takes its whole batch back, every time).
MessagesAreHandled ==
  refused = {} => <>[](\A m \in Messages : message[m].status \in {"unsent", "acked"})

\* Every event the group is done with has been stored, and once.
StoredExactlyOnce == LogTypeOK /\ StoredAtMostOnce /\ DoneMeansStored
=============================================================================
