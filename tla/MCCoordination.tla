---------------------------- MODULE MCCoordination ----------------------------
(* Three small instances checked in one run, side by side: the directory    *)
(* outbox of a project from its initialization on, with one worker, the     *)
(* journal of one scene's renumbering and the stream of audit logs.  They   *)
(* share no state here; a behaviour of the run is a behaviour of one of     *)
(* them while the others rest.                                              *)
EXTENDS StorageOutbox, RenumberJournal, LogStream, TLC

CONSTANTS r1, r2, s1, s2, s3, asset1, tItem1, tItem2

\* Two shots exchange their names, a third moves on.
Dir(name) == <<"DIR", name>>
OldNames == s1 :> Dir("A") @@ s2 :> Dir("B") @@ s3 :> Dir("C")
NewNames == s1 :> Dir("B") @@ s2 :> Dir("A") @@ s3 :> Dir("D")
ItemOrder == <<s1, s2, s3>>

\* The second and the third message are two deliveries of one event.
EventOfMessage == <<1, 2, 2>>

\* Two items of one asset share its directory.
ItemTarget == (tItem1 :> asset1) @@ (tItem2 :> asset1)

\* The project is initialized and nobody has asked for anything.
OutboxAtRest ==
  /\ ops = [i \in OpIds |-> IF i = 1 THEN Finished(DirectoryOp("initialize_project", Project))
                                     ELSE DirectoryOp("ensure_directory", Nothing)]
  /\ nextOp = 2 /\ storage = "ready"
  /\ task = [t \in Tasks |-> "not_started"]
  /\ named = [s \in Shots |-> FALSE]
  /\ shotName = [s \in Shots |-> 0] /\ shotLock = [s \in Shots |-> 0]
  /\ worker = [w \in Workers |-> Idle] /\ tx = [c \in Clients |-> NoRequest]
  /\ made = [a \in Aggregates |-> a = Project] /\ diskName = [s \in Shots |-> 0]
  /\ faults = MaxFaults
JournalAtRest ==
  /\ place = NewNames /\ foreign = {} /\ staging = FALSE /\ marker = FALSE
  /\ io = [r \in Runs |-> Resting] /\ lease = NoIo /\ renumber = "succeeded"
  /\ tries = 0 /\ runFaults = MaxRunFaults
LogAtRest ==
  /\ message = [m \in Messages |-> [status |-> "acked", consumer |-> Nobody, idle |-> FALSE]]
  /\ dedup = {} /\ rows = [e \in Events |-> 1]
  /\ consumer = [c \in Consumers |-> Reading]
  /\ refused = {} /\ forsaken = {} /\ uncertain = {}
  /\ logFaults = MaxLogFaults

VARIABLE part

SideInit ==
  \/ part = "directories" /\ Init /\ JournalAtRest /\ LogAtRest
  \/ part = "journal" /\ OutboxAtRest /\ JournalInit /\ LogAtRest
  \/ part = "logs" /\ OutboxAtRest /\ JournalAtRest /\ LogInit
SideNext ==
  \/ part = "directories" /\ UNCHANGED <<journalVars, logVars, part>> /\ Next
  \/ part = "journal" /\ UNCHANGED <<vars, logVars, part>> /\ JournalNext
  \/ part = "logs" /\ UNCHANGED <<vars, journalVars, part>> /\ LogNext

SideSpec ==
  /\ SideInit /\ [][SideNext]_<<vars, journalVars, logVars, part>>
  /\ Fairness /\ JournalFairness /\ LogFairness
=============================================================================
