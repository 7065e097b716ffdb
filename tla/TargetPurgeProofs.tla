------------------------- MODULE TargetPurgeProofs -------------------------
(***************************************************************************)
(* The forced deletion of shots for any shots, numbers, coroutines,        *)
(* retries and faults (TargetSafe): one coroutine at a time works at a     *)
(* directory, and unless a deletion went by a storage status that was out  *)
(* of date, what a deleted shot leaves behind is reserved, and every live  *)
(* shot has the directory it was given, under its own number.              *)
(***************************************************************************)
EXTENDS TargetPurge, FiniteSetTheorems, TLAPS

ShotRecord ==
  [state : {"absent", "live", "deleted"}, no : Names \cup {0}, dir : Names \cup {0},
   started : BOOLEAN, op : {"none", "pending", "processing", "succeeded"}]
RowRecord ==
  [status : PurgeStatus, dir : Names \cup {0}, names : SUBSET Names,
   attempt : 0..MaxTries, owner : Cleaners \cup {Nobody}, lease : BOOLEAN, due : BOOLEAN]
CleanerRecord ==
  [pc : InIo \cup {"idle", "done", "failed"}, shot : Shots \cup {Nobody},
   attempt : 0..MaxTries, retryable : BOOLEAN]

ShotTypes == shot \in [Shots -> ShotRecord]
MoveTypes ==
  /\ move = [status |-> move.status, items |-> move.items]
  /\ move.status \in {"none", "pending", "moved", "succeeded", "stuck"}
  /\ DOMAIN move.items \subseteq Shots
  /\ \A s \in DOMAIN move.items : move.items[s] \in MoveItem
RequestTypes ==
  /\ asked \in [shot : Shots \cup {Nobody}, migrating : BOOLEAN]
  /\ overtaken \in BOOLEAN
PurgeTypes == purgeRow \in [Shots -> RowRecord]
WorkerTypes == cleaner \in [Cleaners -> CleanerRecord]
TreeTypes == tree \in [Names -> Shots \cup {Nobody}]
CountTypes == retries \in 0..MaxRetries /\ mishaps \in 0..MaxMishaps

LEMMA TypesAreThese ==
  ShotTypes /\ MoveTypes /\ RequestTypes /\ PurgeTypes /\ WorkerTypes /\ TreeTypes /\ CountTypes
  => TypeOK
BY DEF TypeOK, ShotTypes, MoveTypes, RequestTypes, PurgeTypes, WorkerTypes, TreeTypes,
  CountTypes, ShotRecord, RowRecord, CleanerRecord

\* A shot that is absent or deleted has nothing but what its purge has; a live
\* one has a number, which is also the name of its directory, if it has been
\* given one: when its first task was started, or before this code.
ShotTells(s) ==
  /\ shot[s].state # "live" =>
       shot[s].no = 0 /\ shot[s].dir = 0 /\ ~shot[s].started /\ shot[s].op = "none"
  /\ shot[s].state = "live" => shot[s].no # 0 /\ shot[s].dir \in {0, shot[s].no}
  /\ shot[s].dir = 0 <=> shot[s].op = "none"
  /\ shot[s].dir # 0 /\ ~shot[s].started => shot[s].op = "succeeded"
ShotsTell == \A s \in Shots : ShotTells(s)

\* Only a deleted shot has a purge; one that waits has an attempt left, and
\* an unfinished one reserves the name of its directory.
RowTells(s) ==
  /\ purgeRow[s].status # "none" => shot[s].state = "deleted"
  /\ purgeRow[s].status \in {"pending", "retry_wait"} => purgeRow[s].attempt < MaxTries
  /\ purgeRow[s].status \in {"none", "succeeded"} => purgeRow[s].names = {}
  /\ s \in Unfinished => purgeRow[s].dir \in purgeRow[s].names
RowsTell == \A s \in Shots : RowTells(s)

Holding(c) == cleaner[c].pc # "idle" => cleaner[c].shot \in Shots /\ Holds(c)

\* The number and the directory of a shot, with a renumbering under way: the
\* number it is going to have, and where its directory is by now.
InMove(s) == move.status \in {"pending", "moved"} /\ s \in DOMAIN move.items
NumberToBe(s) == IF InMove(s) THEN move.items[s].to ELSE shot[s].no
LiesAt(s) ==
  IF InMove(s) /\ move.status = "moved" /\ shot[s].dir # 0
  THEN move.items[s].to ELSE shot[s].dir

NumbersDiffer ==
  \A s, t \in Live : s # t => shot[s].no # shot[t].no /\ NumberToBe(s) # NumberToBe(t)

\* A renumbering moves shots that live and are not started, from where they
\* are, while no purge is unfinished; it never gets stuck.
MoveTells ==
  /\ move.status # "stuck"
  /\ move.status \in {"pending", "moved"} =>
       /\ Unfinished = {}
       /\ \A s \in DOMAIN move.items :
            s \in Live /\ ~shot[s].started /\ move.items[s].from = shot[s].dir

DirectoriesUnreserved == \A s \in Live : shot[s].dir # 0 => shot[s].dir \notin Reserved

\* Whose directory lies where, and that it is there once it has been made.
TreeTells ==
  \A n \in Names : tree[n] \in Shots =>
    /\ shot[tree[n]].state # "absent"
    /\ tree[n] \in Live => LiesAt(tree[n]) = n
    /\ shot[tree[n]].state = "deleted" =>
         n \in purgeRow[tree[n]].names /\ purgeRow[tree[n]].dir = n
DirectoriesLie ==
  \A s \in Live : shot[s].op = "succeeded" => LiesAt(s) \in Names /\ tree[LiesAt(s)] = s

\* Once it has cleaned, nothing of the shot is left.
CleanedIsGone ==
  \A c \in Cleaners : cleaner[c].pc = "done" => \A n \in Names : tree[n] # cleaner[c].shot

Sound ==
  /\ NumbersDiffer /\ MoveTells /\ DirectoriesUnreserved
  /\ TreeTells /\ DirectoriesLie /\ CleanedIsGone
TargetInv ==
  /\ ShotTypes /\ MoveTypes /\ RequestTypes /\ PurgeTypes /\ WorkerTypes
  /\ TreeTypes /\ CountTypes
  /\ ShotsTell /\ RowsTell
  /\ \A c \in Cleaners : Holding(c)
  /\ ~overtaken => Sound

LEMMA InvMeansTargetSafe == TargetInv => TargetSafe
<1> SUFFICES ASSUME TargetInv PROVE TargetSafe
  OBVIOUS
<1>1. TypeOK
  BY TypesAreThese DEF TargetInv
<1>2. CleanerHoldsRow
  BY DEF TargetInv, CleanerHoldsRow, Holding
<1>3. LeftoversAreReserved
  BY DEF TargetInv, Sound, TreeTells, LeftoversAreReserved
<1>4. ShotsKeepTheirDirectories
  <2> SUFFICES ASSUME ~overtaken, ~Migrating, NEW s \in Live, shot[s].op = "succeeded"
               PROVE  tree[shot[s].dir] = s
    BY DEF ShotsKeepTheirDirectories
  <2>1. tree[LiesAt(s)] = s /\ move.status \notin {"pending", "moved"}
    BY DEF TargetInv, Sound, DirectoriesLie, Migrating
  <2> QED
    BY <2>1 DEF LiesAt, InMove
<1> QED
  BY <1>1, <1>2, <1>3, <1>4 DEF TargetSafe

LEMMA ReservedIs ==
  \A n : n \in Reserved <=> \E s \in Shots : s \in Unfinished /\ n \in purgeRow[s].names
BY DEF Reserved, Unfinished
LEMMA ReservedIsNext ==
  \A n : n \in Reserved' <=> \E s \in Shots : s \in Unfinished' /\ n \in purgeRow'[s].names
BY DEF Reserved, Unfinished

LEMMA LiveIs == \A s \in Shots : s \in Live <=> shot[s].state = "live"
BY DEF Live

LEMMA NamesArePositive == 0 \notin Names /\ Names \subseteq Nat
BY TargetAssumption

\* A request that leaves the queue of the purges and its workers alone.
LEMMA QueueStays ==
  ASSUME PurgeTypes, WorkerTypes, \A c \in Cleaners : Holding(c), UNCHANGED <<purgeRow, cleaner>>
  PROVE  /\ PurgeTypes' /\ WorkerTypes' /\ \A c \in Cleaners : Holding(c)'
         /\ Unfinished' = Unfinished /\ Reserved' = Reserved
BY DEF PurgeTypes, WorkerTypes, Holding, Holds, Unfinished, Reserved

LEMMA RowsStay ==
  ASSUME RowsTell, UNCHANGED purgeRow,
         \A s \in Shots : shot[s].state = "deleted" => shot'[s].state = "deleted"
  PROVE  RowsTell'
BY DEF RowsTell, RowTells, Unfinished

\* What is written about one shot.
ShotWritten(s, x) ==
  /\ shot' \in [Shots -> ShotRecord] /\ shot'[s] = x
  /\ \A t \in Shots \ {s} : shot'[t] = shot[t]
LEMMA ShotIsWritten ==
  ASSUME ShotTypes, NEW s \in Shots, NEW x \in ShotRecord, shot' = [shot EXCEPT ![s] = x]
  PROVE  ShotWritten(s, x) /\ ShotTypes'
BY DEF ShotTypes, ShotWritten

LEMMA OneShotTells ==
  ASSUME ShotsTell, NEW s \in Shots, NEW x, ShotWritten(s, x), ShotTells(s)'
  PROVE  ShotsTell'
BY DEF ShotsTell, ShotTells, ShotWritten

-----------------------------------------------------------------------------
(* The requests and the directory worker.                                  *)

LEMMA CreateStep ==
  ASSUME TargetInv, NEW s \in Shots, NEW n \in Names, CreateShot(s, n) PROVE TargetInv'
<1> USE DEF TargetInv
<1> DEFINE x == [shot[s] EXCEPT !.state = "live", !.no = n]
<1>1. /\ x \in ShotRecord /\ x.state = "live" /\ x.no = n /\ x.dir = shot[s].dir
      /\ x.started = shot[s].started /\ x.op = shot[s].op
      /\ shot[s].state = "absent"
  BY DEF ShotTypes, ShotRecord, CreateShot
<1>2. shot' = [shot EXCEPT ![s] = x]
  BY DEF CreateShot, ShotTypes, ShotRecord
<1> HIDE DEF x
<1>3. ShotWritten(s, x) /\ ShotTypes'
  BY <1>1, <1>2, ShotIsWritten
<1>4. shot[s].dir = 0 /\ shot[s].op = "none" /\ ~shot[s].started /\ n # 0
  BY <1>1, NamesArePositive DEF ShotsTell, ShotTells
<1>5. ShotsTell'
  BY <1>1, <1>3, <1>4, OneShotTells DEF ShotTells, ShotWritten
<1>6. /\ UNCHANGED <<move, asked, purgeRow, cleaner, tree, retries, mishaps, overtaken>>
      /\ ~Migrating /\ \A t \in Live : shot[t].no # n
  BY DEF CreateShot
<1>7. MoveTypes' /\ RequestTypes' /\ TreeTypes' /\ CountTypes'
  BY <1>6 DEF MoveTypes, RequestTypes, TreeTypes, CountTypes
<1>8. /\ PurgeTypes' /\ WorkerTypes' /\ \A c \in Cleaners : Holding(c)'
      /\ Unfinished' = Unfinished /\ Reserved' = Reserved
  BY <1>6, QueueStays
<1>9. RowsTell'
  BY <1>1, <1>3, <1>6, RowsStay DEF ShotWritten
<1>10. Live' = Live \cup {s} /\ s \notin Live
  BY <1>1, <1>3 DEF Live, ShotWritten
<1>11. ASSUME ~overtaken PROVE Sound'
  <2>1. Sound /\ move.status \in {"none", "succeeded"}
    BY <1>6, <1>11 DEF Sound, MoveTells, Migrating, MoveTypes
  <2>2. \A t : ~InMove(t)' /\ ~InMove(t)
    BY <1>6, <2>1 DEF InMove
  <2>3. NumbersDiffer'
    BY <1>1, <1>3, <1>6, <1>10, <2>1, <2>2 DEF Sound, NumbersDiffer, NumberToBe, ShotWritten, Live
  <2>4. MoveTells'
    BY <1>6, <2>1 DEF MoveTells
  <2>5. DirectoriesUnreserved'
    BY <1>1, <1>3, <1>4, <1>8, <1>10, <2>1 DEF Sound, DirectoriesUnreserved, ShotWritten, Live
  <2>6. \A t \in Live : t # s /\ t \in Shots /\ shot'[t] = shot[t] /\ LiesAt(t)' = LiesAt(t)
    BY <1>3, <1>10, <2>2 DEF Live, LiesAt, ShotWritten
  <2>7. TreeTells'
    BY <1>1, <1>3, <1>6, <1>10, <2>1, <2>6 DEF Sound, TreeTells, ShotWritten, TreeTypes
  <2>8. DirectoriesLie'
    BY <1>1, <1>3, <1>4, <1>6, <1>10, <2>1, <2>6 DEF Sound, DirectoriesLie, ShotWritten
  <2>9. CleanedIsGone'
    BY <1>6, <2>1 DEF Sound, CleanedIsGone
  <2> QED
    BY <2>3, <2>4, <2>5, <2>7, <2>8, <2>9 DEF Sound
<1> QED
  BY <1>3, <1>5, <1>6, <1>7, <1>8, <1>9, <1>11

LEMMA StartStep ==
  ASSUME TargetInv, NEW s \in Shots, StartShot(s) PROVE TargetInv'
<1> USE DEF TargetInv
<1> DEFINE d == DirectoryOf(s)
           o == IF shot[s].op = "none" THEN "pending" ELSE shot[s].op
           x == [shot[s] EXCEPT !.started = TRUE, !.dir = d, !.op = o]
<1>1. /\ s \in Live /\ ~shot[s].started /\ ~Migrating
      /\ d \notin Reserved
      /\ UNCHANGED <<move, asked, purgeRow, cleaner, tree, retries, mishaps, overtaken>>
  BY DEF StartShot
<1>2. /\ shot[s].state = "live" /\ shot[s].no \in Names /\ shot[s].dir \in {0, shot[s].no}
      /\ d = shot[s].no /\ shot[s] \in ShotRecord
      /\ shot[s].dir = 0 => shot[s].op = "none"
      /\ shot[s].dir # 0 => shot[s].op = "succeeded"
  BY <1>1 DEF Live, ShotTypes, ShotRecord, ShotsTell, ShotTells, DirectoryOf
<1>3. o = IF shot[s].dir = 0 THEN "pending" ELSE "succeeded"
  BY <1>2
<1>4. shot' = [shot EXCEPT ![s] = x]
  BY DEF StartShot, ShotTypes, ShotRecord
<1> HIDE DEF d, o
<1>5. /\ x \in ShotRecord /\ x.state = "live" /\ x.no = d /\ x.dir = d /\ x.started
      /\ x.op = o
  BY <1>2, <1>3 DEF ShotRecord
<1> HIDE DEF x
<1>6. ShotWritten(s, x) /\ ShotTypes'
  BY <1>4, <1>5, ShotIsWritten
<1>7. ShotsTell'
  BY <1>2, <1>3, <1>5, <1>6, OneShotTells, NamesArePositive DEF ShotTells, ShotWritten
<1>8. MoveTypes' /\ RequestTypes' /\ TreeTypes' /\ CountTypes'
  BY <1>1 DEF MoveTypes, RequestTypes, TreeTypes, CountTypes
<1>9. /\ PurgeTypes' /\ WorkerTypes' /\ \A c \in Cleaners : Holding(c)'
      /\ Unfinished' = Unfinished /\ Reserved' = Reserved
  BY <1>1, QueueStays
<1>10. RowsTell'
  BY <1>1, <1>2, <1>6, RowsStay DEF ShotWritten
<1>11. Live' = Live
  BY <1>1, <1>5, <1>6 DEF Live, ShotWritten
<1>12. ASSUME ~overtaken PROVE Sound'
  <2>1. Sound /\ move.status \in {"none", "succeeded"}
    BY <1>1, <1>12 DEF Sound, MoveTells, Migrating, MoveTypes
  <2>2. \A t : ~InMove(t)' /\ ~InMove(t)
    BY <1>1, <2>1 DEF InMove
  <2>3. NumbersDiffer'
    BY <1>2, <1>5, <1>6, <1>11, <2>1, <2>2 DEF Sound, NumbersDiffer, NumberToBe, ShotWritten, Live
  <2>4. MoveTells'
    BY <1>1, <2>1 DEF MoveTells
  <2>5. DirectoriesUnreserved'
    BY <1>1, <1>2, <1>5, <1>6, <1>9, <1>11, <2>1 DEF Sound, DirectoriesUnreserved, ShotWritten, Live, d
  <2>6. \A t \in Live : t # s => shot'[t] = shot[t] /\ LiesAt(t)' = LiesAt(t)
    BY <1>6, <2>2 DEF Live, LiesAt, ShotWritten
  <2>7. LiesAt(s)' = d /\ LiesAt(s) = shot[s].dir
    BY <1>5, <1>6, <2>2 DEF LiesAt, ShotWritten
  <2>8. TreeTells'
    BY <1>1, <1>2, <1>5, <1>6, <1>11, <2>1, <2>6, <2>7, NamesArePositive
    DEF Sound, TreeTells, ShotWritten, TreeTypes
  <2>9. DirectoriesLie'
    BY <1>1, <1>2, <1>3, <1>5, <1>6, <1>11, <2>1, <2>6, <2>7, NamesArePositive
    DEF Sound, DirectoriesLie, ShotWritten
  <2>10. CleanedIsGone'
    BY <1>1, <2>1 DEF Sound, CleanedIsGone
  <2> QED
    BY <2>3, <2>4, <2>5, <2>8, <2>9, <2>10 DEF Sound
<1> QED
  BY <1>1, <1>6, <1>7, <1>8, <1>9, <1>10, <1>12

LEMMA LocationsDiffer ==
  ASSUME Sound, ShotsTell, ShotTypes, MoveTypes, NEW s \in Live, NEW t \in Live, s # t,
         LiesAt(s) # 0
  PROVE  LiesAt(s) # LiesAt(t)
<1>1. /\ s \in Shots /\ t \in Shots /\ ShotTells(s) /\ ShotTells(t)
      /\ shot[s].no # shot[t].no /\ NumberToBe(s) # NumberToBe(t)
  BY DEF Live, ShotsTell, Sound, NumbersDiffer
<1>2. /\ shot[s].no # 0 /\ shot[s].dir \in {0, shot[s].no}
      /\ shot[t].no # 0 /\ shot[t].dir \in {0, shot[t].no}
  BY <1>1 DEF ShotTells, Live
<1>3. CASE move.status = "moved"
  <2>1. LiesAt(s) = NumberToBe(s)
    BY <1>2, <1>3 DEF LiesAt, NumberToBe, InMove
  <2>2. LiesAt(t) \in {0, NumberToBe(t)}
    BY <1>2, <1>3 DEF LiesAt, NumberToBe, InMove
  <2> QED
    BY <1>1, <2>1, <2>2
<1>4. CASE move.status # "moved"
  BY <1>1, <1>2, <1>4 DEF LiesAt
<1> QED
  BY <1>3, <1>4

LEMMA DirectoryStep ==
  ASSUME TargetInv, NEW s \in Shots, ClaimDirectory(s) \/ FinishDirectory(s)
  PROVE  TargetInv'
<1> USE DEF TargetInv
<1> DEFINE o == IF shot[s].op = "pending" THEN "processing" ELSE "succeeded"
           x == [shot[s] EXCEPT !.op = o]
<1>1. /\ s \in Live /\ shot[s].op \in {"pending", "processing"}
      /\ UNCHANGED <<move, asked, purgeRow, cleaner, retries, mishaps, overtaken>>
      /\ \/ shot[s].op = "pending" /\ UNCHANGED tree
         \/ /\ shot[s].op = "processing"
            /\ tree' = [tree EXCEPT ![shot[s].dir] = IF @ = Nobody THEN s ELSE @]
  BY DEF ClaimDirectory, FinishDirectory
<1>2. /\ shot[s].state = "live" /\ shot[s] \in ShotRecord /\ shot[s].started
      /\ shot[s].dir \in Names /\ shot[s].no = shot[s].dir
  BY <1>1 DEF Live, ShotTypes, ShotRecord, ShotsTell, ShotTells
<1>3. shot' = [shot EXCEPT ![s] = x]
  BY DEF ClaimDirectory, FinishDirectory, ShotTypes, ShotRecord
<1>4. o \in {"processing", "succeeded"} /\ (o = "succeeded" <=> shot[s].op = "processing")
  BY <1>1
<1> HIDE DEF o
<1>5. /\ x \in ShotRecord /\ x.state = "live" /\ x.no = shot[s].no /\ x.dir = shot[s].dir
      /\ x.started = shot[s].started /\ x.op = o
  BY <1>2, <1>4 DEF ShotRecord
<1> HIDE DEF x
<1>6. ShotWritten(s, x) /\ ShotTypes'
  BY <1>3, <1>5, ShotIsWritten
<1>7. ShotsTell'
  BY <1>1, <1>2, <1>4, <1>5, <1>6, OneShotTells, NamesArePositive DEF ShotTells, ShotWritten
<1>8. MoveTypes' /\ RequestTypes' /\ TreeTypes' /\ CountTypes'
  BY <1>1 DEF MoveTypes, RequestTypes, TreeTypes, CountTypes
<1>9. /\ PurgeTypes' /\ WorkerTypes' /\ \A c \in Cleaners : Holding(c)'
      /\ Unfinished' = Unfinished /\ Reserved' = Reserved
  BY <1>1, QueueStays
<1>10. RowsTell'
  BY <1>1, <1>2, <1>6, RowsStay DEF ShotWritten
<1>11. Live' = Live
  BY <1>1, <1>5, <1>6 DEF Live, ShotWritten
<1>12. ASSUME ~overtaken PROVE Sound'
  <2>1. Sound
    BY <1>12
  <2>2. \A t : InMove(t)' = InMove(t)
    BY <1>1 DEF InMove
  <2>3. \A t \in Live : /\ t \in Shots /\ shot'[t].no = shot[t].no /\ shot'[t].dir = shot[t].dir
                        /\ shot'[t].started = shot[t].started
                        /\ t # s => shot'[t].op = shot[t].op
    BY <1>5, <1>6 DEF Live, ShotWritten
  <2>4. \A t \in Live : LiesAt(t)' = LiesAt(t) /\ NumberToBe(t)' = NumberToBe(t)
    BY <1>1, <2>2, <2>3 DEF LiesAt, NumberToBe
  <2>5. NumbersDiffer'
    BY <1>11, <2>1, <2>3, <2>4 DEF Sound, NumbersDiffer
  <2>6. MoveTells'
    BY <1>1, <1>9, <1>11, <2>1, <2>3 DEF Sound, MoveTells
  <2>7. DirectoriesUnreserved'
    BY <1>9, <1>11, <2>1, <2>3 DEF Sound, DirectoriesUnreserved
  <2>8. LiesAt(s) = shot[s].dir
    BY <1>2, <2>1 DEF Sound, MoveTells, LiesAt, InMove
  <2>9. tree[shot[s].dir] \in {Nobody, s}
    <3> SUFFICES ASSUME tree[shot[s].dir] \in Shots, tree[shot[s].dir] # s PROVE FALSE
      BY <1>2 DEF TreeTypes
    <3> DEFINE t == tree[shot[s].dir]
    <3>1. CASE t \in Live
      <4>1. LiesAt(t) = shot[s].dir
        BY <1>2, <2>1, <3>1 DEF Sound, TreeTells
      <4>2. LiesAt(s) # LiesAt(t)
        BY <1>1, <1>2, <2>1, <2>8, <3>1, LocationsDiffer, NamesArePositive
      <4> QED
        BY <2>8, <4>1, <4>2
    <3>2. CASE t \notin Live
      <4>1. shot[t].state = "deleted"
        BY <1>2, <2>1, <3>2 DEF Sound, TreeTells, Live, ShotTypes, ShotRecord
      <4>2. shot[s].dir \in purgeRow[t].names /\ t \in Unfinished
        BY <1>2, <2>1, <4>1 DEF Sound, TreeTells, RowsTell, RowTells, Unfinished
      <4>3. shot[s].dir \in Reserved
        BY <4>2, ReservedIs
      <4> QED
        BY <1>1, <1>2, <2>1, <4>3, NamesArePositive DEF Sound, DirectoriesUnreserved
    <3> QED
      BY <3>1, <3>2
  <2>10. /\ \A n \in Names : tree'[n] # tree[n] => n = shot[s].dir /\ tree'[n] = s
         /\ shot[s].op = "processing" => tree'[shot[s].dir] = s
    BY <1>1, <1>2, <2>9 DEF TreeTypes
  <2>11. TreeTells'
    BY <1>1, <1>2, <1>5, <1>6, <1>11, <2>1, <2>4, <2>8, <2>10
    DEF Sound, TreeTells, ShotWritten, TreeTypes
  <2>12. DirectoriesLie'
    <3> SUFFICES ASSUME NEW t \in Live, shot'[t].op = "succeeded"
                 PROVE  LiesAt(t) \in Names /\ tree'[LiesAt(t)] = t
      BY <1>11, <2>4 DEF DirectoriesLie
    <3>1. CASE t = s
      BY <1>2, <1>4, <1>5, <1>6, <2>8, <2>10, <3>1 DEF ShotWritten
    <3>2. CASE t # s
      <4>1. LiesAt(t) \in Names /\ tree[LiesAt(t)] = t
        BY <2>1, <2>3, <3>2 DEF Sound, DirectoriesLie
      <4>2. t # Nobody
        BY TargetAssumption DEF Live
      <4>3. LiesAt(t) # shot[s].dir
        BY <2>9, <3>2, <4>1, <4>2
      <4> QED
        BY <2>10, <4>1, <4>3
    <3> QED
      BY <3>1, <3>2
  <2>13. CleanedIsGone'
    <3>1. ASSUME NEW c \in Cleaners, cleaner[c].pc = "done" PROVE cleaner[c].shot # s
      BY <1>2, <3>1 DEF Holding, Holds, RowsTell, RowTells
    <3> QED
      BY <1>1, <2>1, <2>10, <3>1 DEF Sound, CleanedIsGone
  <2> QED
    BY <2>5, <2>6, <2>7, <2>11, <2>12, <2>13 DEF Sound
<1> QED
  BY <1>1, <1>6, <1>7, <1>8, <1>9, <1>10, <1>12

\* The numbers of a whole scene are 1..k without gaps, so no two shots share one.
LEMMA OrdersAreInjective ==
  ASSUME NEW to \in Orders PROVE \A s, t \in Live : s # t => to[s] # to[t]
<1> DEFINE k == Cardinality(Live)
<1>1. IsFiniteSet(Live)
  <2>1. IsFiniteSet(Shots) /\ Live \in SUBSET Shots
    BY TargetAssumption DEF Live
  <2> QED
    BY <2>1, FS_Subset
<1>2. k \in Nat
  BY <1>1, FS_CardinalityType
<1>3. Cardinality(1..k) = k
  <2>1. 1 \in Int /\ k \in Int
    BY <1>2
  <2> HIDE DEF k
  <2>2. Cardinality(1..k) = IF 1 > k THEN 0 ELSE k - 1 + 1
    BY <2>1, FS_Interval
  <2>3. k - 1 + 1 = k /\ (1 > k => k = 0)
    BY <1>2
  <2> QED
    BY <2>2, <2>3
<1>4. to \in Surjection(Live, 1..k)
  <2>1. to \in [Live -> Names] /\ {to[s] : s \in Live} = 1..k
    BY DEF Orders
  <2> QED
    BY <2>1 DEF Surjection
<1> HIDE DEF k
<1>5. to \in Injection(Live, 1..k)
  <2>1. Cardinality(1..k) = Cardinality(Live)
    BY <1>3 DEF k
  <2> QED
    BY <1>1, <1>4, <2>1, FS_Surjection
<1> QED
  BY <1>4, <1>5 DEF Injection, IsInjective, Surjection

LEMMA RenumberLaterStep ==
  ASSUME TargetInv, NEW to \in Orders, RenumberLater(to) PROVE TargetInv'
<1> USE DEF TargetInv
<1>1. /\ ~Migrating /\ Unfinished = {}
      /\ \A s \in Moved(to) : ~shot[s].started
      /\ UNCHANGED <<shot, asked, purgeRow, cleaner, tree, retries, mishaps, overtaken>>
  BY DEF RenumberLater, ProjectClear
<1>2. /\ to \in [Live -> Names] /\ Live \subseteq Shots
      /\ Moved(to) \subseteq Live /\ \A s \in Live : s \notin Moved(to) => to[s] = shot[s].no
  BY DEF Orders, Live, Moved
<1>3. /\ move' = [status |-> move'.status, items |-> move'.items]
      /\ move'.status = "pending" /\ DOMAIN move'.items = Moved(to)
      /\ \A s \in Moved(to) :
           /\ move'.items[s] = [from |-> shot[s].dir, to |-> to[s]]
           /\ move'.items[s].from = shot[s].dir /\ move'.items[s].to = to[s]
  BY DEF RenumberLater
<1>4. MoveTypes'
  <2>1. \A s \in Moved(to) : shot[s].dir \in Names \cup {0} /\ to[s] \in Names
    BY <1>2 DEF ShotTypes, ShotRecord
  <2>2. ASSUME NEW s \in Moved(to) PROVE move'.items[s] \in MoveItem
    <3>1. \A f \in Names \cup {0} : \A n \in Names : [from |-> f, to |-> n] \in MoveItem
      BY DEF MoveItem
    <3> QED
      BY <1>3, <2>1, <3>1
  <2> QED
    BY <1>2, <1>3, <2>2 DEF MoveTypes
<1>5. ShotTypes' /\ RequestTypes' /\ TreeTypes' /\ CountTypes' /\ Live' = Live
  BY <1>1 DEF ShotTypes, RequestTypes, TreeTypes, CountTypes, Live
<1>6. /\ PurgeTypes' /\ WorkerTypes' /\ \A c \in Cleaners : Holding(c)'
      /\ Unfinished' = Unfinished /\ Reserved' = Reserved
  BY <1>1, QueueStays
<1>7. ShotsTell' /\ RowsTell'
  BY <1>1, RowsStay DEF ShotsTell, ShotTells
<1>8. ASSUME ~overtaken PROVE Sound'
  <2>1. Sound /\ move.status \in {"none", "succeeded"}
    BY <1>1, <1>8 DEF Sound, MoveTells, Migrating, MoveTypes
  <2>2. \A s \in Live : LiesAt(s)' = LiesAt(s)
    BY <1>1, <1>3, <2>1 DEF LiesAt, InMove
  <2>3. \A s \in Live : NumberToBe(s)' = to[s]
    BY <1>1, <1>2, <1>3 DEF NumberToBe, InMove
  <2>4. NumbersDiffer'
    BY <1>1, <1>5, <2>1, <2>3, OrdersAreInjective DEF Sound, NumbersDiffer
  <2>5. MoveTells'
    BY <1>1, <1>2, <1>3, <1>5, <1>6 DEF MoveTells
  <2>6. DirectoriesUnreserved'
    BY <1>1, <1>5, <1>6, <2>1 DEF Sound, DirectoriesUnreserved
  <2>7. TreeTells'
    BY <1>1, <1>5, <2>1, <2>2 DEF Sound, TreeTells
  <2>8. DirectoriesLie' /\ CleanedIsGone'
    BY <1>1, <1>5, <2>1, <2>2 DEF Sound, DirectoriesLie, CleanedIsGone
  <2> QED
    BY <2>4, <2>5, <2>6, <2>7, <2>8 DEF Sound
<1> QED
  BY <1>1, <1>4, <1>5, <1>6, <1>7, <1>8

LEMMA RenumberNowStep ==
  ASSUME TargetInv, NEW to \in Orders, RenumberNow(to) PROVE TargetInv'
<1> USE DEF TargetInv
<1>1. /\ ~Migrating /\ \A s \in Moved(to) : ~shot[s].started /\ shot[s].dir = 0
      /\ UNCHANGED <<move, asked, purgeRow, cleaner, tree, retries, mishaps, overtaken>>
  BY DEF RenumberNow
<1>2. /\ to \in [Live -> Names] /\ Live \subseteq Shots
      /\ Moved(to) \subseteq Live /\ \A s \in Live : s \notin Moved(to) => to[s] = shot[s].no
  BY DEF Orders, Live, Moved
<1>3. shot' = [s \in Shots |-> IF s \in Moved(to) THEN [shot[s] EXCEPT !.no = to[s]] ELSE shot[s]]
  BY DEF RenumberNow
<1>4. \A s \in Shots :
        /\ s \notin Moved(to) => shot'[s] = shot[s]
        /\ s \in Moved(to) => shot'[s] = [shot[s] EXCEPT !.no = to[s]]
  BY <1>3
<1>5. \A s \in Moved(to) :
        /\ shot'[s] \in ShotRecord /\ shot'[s].no = to[s] /\ shot'[s].no # 0
        /\ shot'[s].state = shot[s].state /\ shot'[s].dir = shot[s].dir
        /\ shot'[s].started = shot[s].started /\ shot'[s].op = shot[s].op
  <2> SUFFICES ASSUME NEW s \in Moved(to)
               PROVE  /\ shot'[s] \in ShotRecord /\ shot'[s].no = to[s] /\ shot'[s].no # 0
                      /\ shot'[s].state = shot[s].state /\ shot'[s].dir = shot[s].dir
                      /\ shot'[s].started = shot[s].started /\ shot'[s].op = shot[s].op
    OBVIOUS
  <2>1. to[s] \in Names /\ to[s] # 0 /\ s \in Shots
    BY <1>2, NamesArePositive
  <2>2. shot[s] \in ShotRecord /\ shot'[s] = [shot[s] EXCEPT !.no = to[s]]
    BY <1>4, <2>1 DEF ShotTypes
  <2> QED
    BY <2>1, <2>2 DEF ShotRecord
<1>6. ShotTypes'
  BY <1>3, <1>4, <1>5 DEF ShotTypes
<1>7. /\ \A s \in Shots : /\ shot'[s].state = shot[s].state /\ shot'[s].dir = shot[s].dir
                          /\ shot'[s].started = shot[s].started /\ shot'[s].op = shot[s].op
      /\ \A s \in Live : shot'[s].no = to[s]
  BY <1>2, <1>4, <1>5
<1>8. ShotsTell'
  <2> SUFFICES ASSUME NEW s \in Shots PROVE ShotTells(s)'
    BY DEF ShotsTell
  <2>1. CASE s \in Moved(to)
    BY <1>1, <1>2, <1>5, <2>1 DEF ShotsTell, ShotTells, Live
  <2>2. CASE s \notin Moved(to)
    BY <1>4, <2>2 DEF ShotsTell, ShotTells
  <2> QED
    BY <2>1, <2>2
<1>9. MoveTypes' /\ RequestTypes' /\ TreeTypes' /\ CountTypes'
  BY <1>1 DEF MoveTypes, RequestTypes, TreeTypes, CountTypes
<1>10. /\ PurgeTypes' /\ WorkerTypes' /\ \A c \in Cleaners : Holding(c)'
       /\ Unfinished' = Unfinished /\ Reserved' = Reserved
  BY <1>1, QueueStays
<1>11. RowsTell' /\ Live' = Live
  BY <1>1, <1>7, RowsStay DEF Live
<1>12. ASSUME ~overtaken PROVE Sound'
  <2>1. Sound /\ move.status \in {"none", "succeeded"}
    BY <1>1, <1>12 DEF Sound, MoveTells, Migrating, MoveTypes
  <2>2. \A s : ~InMove(s)' /\ ~InMove(s)
    BY <1>1, <2>1 DEF InMove
  <2>3. \A s \in Live : LiesAt(s)' = LiesAt(s) /\ NumberToBe(s)' = shot'[s].no
    BY <1>2, <1>7, <2>2 DEF LiesAt, NumberToBe
  <2>4. NumbersDiffer'
    BY <1>7, <1>11, <2>3, OrdersAreInjective DEF NumbersDiffer
  <2>5. MoveTells'
    BY <1>1, <2>1 DEF MoveTells
  <2>6. DirectoriesUnreserved'
    BY <1>2, <1>7, <1>10, <1>11, <2>1 DEF Sound, DirectoriesUnreserved
  <2>7. TreeTells'
    BY <1>1, <1>7, <1>11, <2>1, <2>3 DEF Sound, TreeTells
  <2>8. DirectoriesLie' /\ CleanedIsGone'
    BY <1>1, <1>2, <1>7, <1>11, <2>1, <2>3 DEF Sound, DirectoriesLie, CleanedIsGone
  <2> QED
    BY <2>4, <2>5, <2>6, <2>7, <2>8 DEF Sound
<1> QED
  BY <1>1, <1>6, <1>8, <1>9, <1>10, <1>11, <1>12

LEMMA MoveStep == ASSUME TargetInv, MoveDirectories PROVE TargetInv'
<1> USE DEF TargetInv
<1> DEFINE item == move.items
           named == {s \in DOMAIN item : item[s].from # 0}
           sources == {item[s].from : s \in named}
           targets == {item[s].to : s \in named}
           mover(n) == CHOOSE s \in named : item[s].to = n
<1>1. /\ move.status = "pending"
      /\ \A n \in sources : tree[n] # Nobody
      /\ \A n \in targets \ sources : tree[n] = Nobody
      /\ tree' = [n \in Names |-> IF n \in targets THEN tree[item[mover(n)].from]
                                  ELSE IF n \in sources THEN Nobody ELSE tree[n]]
      /\ move' = [move EXCEPT !.status = "moved"]
      /\ UNCHANGED <<shot, asked, purgeRow, cleaner, retries, mishaps, overtaken>>
  BY DEF MoveDirectories
<1>2. /\ move' = [status |-> "moved", items |-> item]
      /\ move'.status = "moved" /\ move'.items = item
  BY <1>1 DEF MoveTypes
<1>3. /\ named \subseteq DOMAIN item /\ DOMAIN item \subseteq Shots
      /\ \A s \in DOMAIN item : item[s].from \in Names \cup {0} /\ item[s].to \in Names
      /\ \A s \in named : item[s].from \in Names
  BY DEF MoveTypes, MoveItem
<1>4. \A n \in targets : mover(n) \in named /\ item[mover(n)].to = n
  OBVIOUS
<1>5. \A n \in sources : \E s \in named : n = item[s].from
  OBVIOUS
<1>6. \A n \in Names :
        /\ n \in targets => tree'[n] = tree[item[mover(n)].from]
        /\ n \notin targets /\ n \in sources => tree'[n] = Nobody
        /\ n \notin targets /\ n \notin sources => tree'[n] = tree[n]
  BY <1>1
<1>7. \A s \in named : item[s].from \in sources /\ item[s].to \in targets
  OBVIOUS
<1>8. \A s : s \in named <=> s \in DOMAIN item /\ item[s].from # 0
  OBVIOUS
<1> HIDE DEF mover, sources, targets, named
<1>9. TreeTypes'
  <2>1. tree' = [n \in Names |-> tree'[n]]
    BY <1>1
  <2>2. \A n \in Names : tree'[n] \in Shots \cup {Nobody}
    BY <1>3, <1>4, <1>6 DEF TreeTypes
  <2> QED
    BY <2>1, <2>2 DEF TreeTypes
<1>10. MoveTypes' /\ ShotTypes' /\ RequestTypes' /\ CountTypes' /\ Live' = Live
  BY <1>1, <1>2 DEF MoveTypes, ShotTypes, RequestTypes, CountTypes, Live
<1>11. /\ PurgeTypes' /\ WorkerTypes' /\ \A c \in Cleaners : Holding(c)'
       /\ Unfinished' = Unfinished /\ Reserved' = Reserved
  BY <1>1, QueueStays
<1>12. ShotsTell' /\ RowsTell'
  BY <1>1, RowsStay DEF ShotsTell, ShotTells
<1>13. ASSUME ~overtaken PROVE Sound'
  <2>1. Sound /\ Unfinished = {}
    BY <1>1, <1>13 DEF Sound, MoveTells
  <2>2. \A s \in DOMAIN item : s \in Live /\ ~shot[s].started /\ item[s].from = shot[s].dir
    BY <1>1, <2>1 DEF Sound, MoveTells
  <2>3. \A s : InMove(s) <=> s \in DOMAIN item
    BY <1>1 DEF InMove
  <2>4. \A s : InMove(s)' <=> s \in DOMAIN item
    BY <1>2 DEF InMove
  <2>5. \A s \in Live : LiesAt(s) = shot[s].dir /\ NumberToBe(s)' = NumberToBe(s)
    BY <1>1, <1>2, <2>3, <2>4 DEF LiesAt, NumberToBe
  <2>6. \A s \in Live : /\ s \in named => LiesAt(s)' = item[s].to
                        /\ s \notin named => LiesAt(s)' = shot[s].dir
    BY <1>1, <1>2, <1>8, <2>2, <2>4 DEF LiesAt
  \* A directory that is to move is there, and goes where its shot is to go.
  <2>7. \A s \in named : s \in Live /\ tree[item[s].from] = s
    <3> TAKE s \in named
    <3>1. s \in Live /\ shot[s].dir = item[s].from /\ shot[s].dir # 0 /\ ~shot[s].started
      BY <1>8, <2>2
    <3>2. shot[s].op = "succeeded"
      BY <3>1 DEF Live, ShotsTell, ShotTells
    <3> QED
      BY <2>1, <2>5, <3>1, <3>2 DEF Sound, DirectoriesLie
  <2>8. \A s \in named : mover(item[s].to) = s
    <3> TAKE s \in named
    <3>1. mover(item[s].to) \in named /\ item[mover(item[s].to)].to = item[s].to
      BY <1>4, <1>7
    <3>2. \A t \in named : NumberToBe(t) = item[t].to /\ t \in Live
      BY <1>8, <2>2, <2>3 DEF NumberToBe
    <3> QED
      BY <2>1, <3>1, <3>2 DEF Sound, NumbersDiffer
  <2>9. \A s \in named : tree'[item[s].to] = s
    BY <1>3, <1>6, <1>7, <2>7, <2>8
  <2>10. \A n \in Names : tree'[n] \in Shots =>
           \/ tree'[n] \in named /\ item[tree'[n]].to = n
           \/ tree'[n] = tree[n] /\ tree[n] \notin named
    <3> SUFFICES ASSUME NEW n \in Names, tree'[n] \in Shots
                 PROVE  \/ tree'[n] \in named /\ item[tree'[n]].to = n
                        \/ tree'[n] = tree[n] /\ tree[n] \notin named
      OBVIOUS
    <3>1. CASE n \in targets
      BY <1>4, <2>9, <3>1
    <3>2. CASE n \notin targets
      <4>1. tree'[n] = tree[n] /\ n \notin sources
        BY <1>6, <3>2, TargetAssumption
      <4>2. ASSUME tree[n] \in named PROVE FALSE
        <5>1. tree[n] \in Live /\ LiesAt(tree[n]) = n
          BY <2>1, <2>7, <4>1, <4>2 DEF Sound, TreeTells
        <5>2. LiesAt(tree[n]) = item[tree[n]].from
          BY <1>8, <2>2, <2>5, <4>2
        <5> QED
          BY <1>7, <4>1, <4>2, <5>1, <5>2
      <4> QED
        BY <4>1, <4>2
    <3> QED
      BY <3>1, <3>2
  <2>11. NumbersDiffer'
    BY <1>1, <1>10, <2>1, <2>5 DEF Sound, NumbersDiffer
  <2>12. MoveTells'
    BY <1>1, <1>2, <1>10, <1>11, <2>1, <2>2 DEF MoveTells
  <2>13. DirectoriesUnreserved'
    BY <1>1, <1>10, <1>11, <2>1 DEF Sound, DirectoriesUnreserved
  <2>14. TreeTells'
    <3> SUFFICES ASSUME NEW n \in Names, NEW w \in Shots, tree'[n] = w
                 PROVE  /\ shot[w].state # "absent"
                        /\ w \in Live => LiesAt(w)' = n
                        /\ shot[w].state = "deleted" =>
                             n \in purgeRow[w].names /\ purgeRow[w].dir = n
      BY <1>1, <1>10 DEF TreeTells
    <3>1. CASE w \in named /\ item[w].to = n
      BY <2>6, <2>7, <3>1 DEF Live
    <3>2. CASE w = tree[n] /\ w \notin named
      BY <2>1, <2>5, <2>6, <3>2 DEF Sound, TreeTells
    <3> QED
      BY <2>10, <3>1, <3>2
  <2>15. DirectoriesLie'
    <3> SUFFICES ASSUME NEW s \in Live, shot[s].op = "succeeded"
                 PROVE  LiesAt(s)' \in Names /\ tree'[LiesAt(s)'] = s
      BY <1>1, <1>10 DEF DirectoriesLie
    <3>1. CASE s \in named
      BY <1>3, <2>6, <2>9, <3>1
    <3>2. CASE s \notin named
      <4>1. LiesAt(s)' = shot[s].dir /\ shot[s].dir \in Names /\ tree[shot[s].dir] = s
        BY <2>1, <2>5, <2>6, <3>2 DEF Sound, DirectoriesLie
      <4>2. shot[s].dir \notin sources
        BY <1>5, <2>7, <3>2, <4>1
      <4>3. s # Nobody
        BY TargetAssumption DEF Live
      <4> QED
        BY <1>1, <1>6, <4>1, <4>2, <4>3
    <3> QED
      BY <3>1, <3>2
  <2>16. CleanedIsGone'
    <3>1. ASSUME NEW c \in Cleaners, cleaner[c].pc = "done" PROVE FALSE
      BY <2>1, <3>1 DEF Holding, Holds, Unfinished
    <3> QED
      BY <1>1, <3>1 DEF CleanedIsGone
  <2> QED
    BY <2>11, <2>12, <2>13, <2>14, <2>15, <2>16 DEF Sound
<1> QED
  BY <1>1, <1>9, <1>10, <1>11, <1>12, <1>13

LEMMA FinishMoveStep == ASSUME TargetInv, FinishMove PROVE TargetInv'
<1> USE DEF TargetInv
<1> DEFINE item == move.items
           fits == \A s \in DOMAIN item :
                     s \in Live /\ ~shot[s].started /\ item[s].to \notin Reserved
<1>1. /\ move.status = "moved"
      /\ UNCHANGED <<asked, purgeRow, cleaner, tree, retries, mishaps, overtaken>>
      /\ fits => /\ move' = [move EXCEPT !.status = "succeeded"]
                 /\ shot' = [s \in Shots |->
                      IF s \in DOMAIN item
                      THEN [shot[s] EXCEPT !.no = item[s].to, !.dir = IF @ = 0 THEN 0 ELSE item[s].to]
                      ELSE shot[s]]
      /\ ~fits => move' = [move EXCEPT !.status = "stuck"] /\ shot' = shot
  BY DEF FinishMove
<1>2. /\ DOMAIN item \subseteq Shots /\ \A s \in DOMAIN item : item[s].to \in Names
      /\ \A s \in DOMAIN item : item[s].to # 0
  BY NamesArePositive DEF MoveTypes, MoveItem
<1>3. fits => \A s \in DOMAIN item : s \in Live /\ ~shot[s].started
  OBVIOUS
<1>4. Unfinished = {} => Reserved = {}
  BY DEF Reserved
<1>5. (\A s \in DOMAIN item : s \in Live /\ ~shot[s].started) /\ Reserved = {} => fits
  OBVIOUS
<1> HIDE DEF fits
<1>6. /\ move' = [status |-> move'.status, items |-> item] /\ move'.items = item
      /\ fits => move'.status = "succeeded"
      /\ ~fits => move'.status = "stuck"
  BY <1>1 DEF MoveTypes
<1>7. ASSUME fits, NEW s \in Shots
      PROVE  IF s \in DOMAIN item
             THEN /\ shot'[s] \in ShotRecord /\ shot'[s].no = item[s].to
                  /\ shot'[s].dir = IF shot[s].dir = 0 THEN 0 ELSE item[s].to
                  /\ shot'[s].state = shot[s].state /\ shot'[s].started = shot[s].started
                  /\ shot'[s].op = shot[s].op
             ELSE shot'[s] = shot[s]
  <2>1. CASE s \in DOMAIN item
    <3>1. shot[s] \in ShotRecord /\ item[s].to \in Names
      BY <1>2, <2>1 DEF ShotTypes
    <3>2. shot'[s] = [shot[s] EXCEPT !.no = item[s].to, !.dir = IF @ = 0 THEN 0 ELSE item[s].to]
      BY <1>1, <1>7, <2>1
    <3> QED
      BY <2>1, <3>1, <3>2 DEF ShotRecord
  <2>2. CASE s \notin DOMAIN item
    BY <1>1, <1>7, <2>2
  <2> QED
    BY <2>1, <2>2
<1>8. \A s \in Shots : /\ shot'[s].state = shot[s].state /\ shot'[s].started = shot[s].started
                       /\ shot'[s].op = shot[s].op
  <2>1. CASE fits
    BY <1>7, <2>1
  <2>2. CASE ~fits
    BY <1>1, <2>2
  <2> QED
    BY <2>1, <2>2
<1>9. ShotTypes'
  <2>1. CASE fits
    <3>1. shot' = [s \in Shots |-> shot'[s]]
      BY <1>1, <2>1
    <3>2. \A s \in Shots : shot'[s] \in ShotRecord
      BY <1>7, <2>1 DEF ShotTypes
    <3> QED
      BY <3>1, <3>2 DEF ShotTypes
  <2>2. CASE ~fits
    BY <1>1, <2>2 DEF ShotTypes
  <2> QED
    BY <2>1, <2>2
<1>10. ShotsTell'
  <2>1. CASE fits
    <3> SUFFICES ASSUME NEW s \in Shots PROVE ShotTells(s)'
      BY DEF ShotsTell
    <3>1. ShotTells(s)
      BY DEF ShotsTell
    <3>2. CASE s \in DOMAIN item
      <4>1. shot[s].state = "live" /\ ~shot[s].started /\ item[s].to # 0
        BY <1>2, <1>3, <2>1, <3>2 DEF Live
      <4> QED
        BY <1>7, <2>1, <3>1, <3>2, <4>1 DEF ShotTells
    <3>3. CASE s \notin DOMAIN item
      BY <1>7, <2>1, <3>1, <3>3 DEF ShotTells
    <3> QED
      BY <3>2, <3>3
  <2>2. CASE ~fits
    BY <1>1, <2>2 DEF ShotsTell, ShotTells
  <2> QED
    BY <2>1, <2>2
<1>11. MoveTypes' /\ RequestTypes' /\ TreeTypes' /\ CountTypes'
  BY <1>1, <1>6 DEF MoveTypes, RequestTypes, TreeTypes, CountTypes
<1>12. /\ PurgeTypes' /\ WorkerTypes' /\ \A c \in Cleaners : Holding(c)'
       /\ Unfinished' = Unfinished /\ Reserved' = Reserved
  BY <1>1, QueueStays
<1>13. RowsTell' /\ Live' = Live
  BY <1>1, <1>8, RowsStay DEF Live
<1>14. ASSUME ~overtaken PROVE Sound'
  <2>1. Sound /\ Unfinished = {} /\ Reserved = {}
    BY <1>1, <1>4, <1>14 DEF Sound, MoveTells
  <2>2. fits
    BY <1>1, <1>5, <2>1 DEF Sound, MoveTells
  <2>3. \A s : (InMove(s) <=> s \in DOMAIN item) /\ ~InMove(s)'
    BY <1>1, <1>6, <2>2 DEF InMove
  <2>4. \A s \in Live : LiesAt(s) = IF s \in DOMAIN item /\ shot[s].dir # 0 THEN item[s].to ELSE shot[s].dir
    BY <1>1, <2>3 DEF LiesAt
  <2>5. \A s \in Live : LiesAt(s)' = LiesAt(s) /\ LiesAt(s)' = shot'[s].dir
    <3> TAKE s \in Live
    <3>1. LiesAt(s)' = shot'[s].dir /\ s \in Shots
      BY <2>3 DEF LiesAt, Live
    <3> QED
      BY <1>7, <2>2, <2>4, <3>1
  <2>6. \A s \in Live : NumberToBe(s)' = NumberToBe(s) /\ shot'[s].no = NumberToBe(s)
    <3> TAKE s \in Live
    <3>1. NumberToBe(s)' = shot'[s].no /\ s \in Shots
      BY <2>3 DEF NumberToBe, Live
    <3> QED
      BY <1>7, <2>2, <2>3, <3>1 DEF NumberToBe
  <2>7. NumbersDiffer'
    BY <1>13, <2>1, <2>6 DEF Sound, NumbersDiffer
  <2>8. MoveTells'
    BY <1>6, <2>2 DEF MoveTells
  <2>9. DirectoriesUnreserved'
    BY <1>12, <2>1 DEF DirectoriesUnreserved
  <2>10. TreeTells'
    BY <1>1, <1>8, <1>13, <2>1, <2>5 DEF Sound, TreeTells
  <2>11. DirectoriesLie' /\ CleanedIsGone'
    BY <1>1, <1>8, <1>13, <2>1, <2>5 DEF Sound, DirectoriesLie, CleanedIsGone, Live
  <2> QED
    BY <2>7, <2>8, <2>9, <2>10, <2>11 DEF Sound
<1> QED
  BY <1>1, <1>9, <1>10, <1>11, <1>12, <1>13, <1>14

\* What is written about one purge, and about one coroutine.
RowWritten(s, x) ==
  /\ purgeRow' \in [Shots -> RowRecord] /\ purgeRow'[s] = x
  /\ \A t \in Shots \ {s} : purgeRow'[t] = purgeRow[t]
LEMMA RowIsWritten ==
  ASSUME PurgeTypes, NEW s \in Shots, NEW x \in RowRecord, purgeRow' = [purgeRow EXCEPT ![s] = x]
  PROVE  RowWritten(s, x) /\ PurgeTypes'
BY DEF PurgeTypes, RowWritten

CleanerWritten(c, x) ==
  /\ cleaner' \in [Cleaners -> CleanerRecord] /\ cleaner'[c] = x
  /\ \A d \in Cleaners \ {c} : cleaner'[d] = cleaner[d]
LEMMA CleanerIsWritten ==
  ASSUME WorkerTypes, NEW c \in Cleaners, NEW x \in CleanerRecord,
         cleaner' = [cleaner EXCEPT ![c] = x]
  PROVE  CleanerWritten(c, x) /\ WorkerTypes'
BY DEF WorkerTypes, CleanerWritten

LEMMA AskStep ==
  ASSUME TargetInv, (\E s \in Shots : AskDelete(s)) \/ RefuseDelete PROVE TargetInv'
<1> USE DEF TargetInv
<1>1. UNCHANGED <<shot, move, purgeRow, cleaner, tree, retries, mishaps, overtaken>>
  BY DEF AskDelete, RefuseDelete
<1>2. asked' \in [shot : Shots \cup {Nobody}, migrating : BOOLEAN]
  <2>1. CASE RefuseDelete
    BY <2>1 DEF RefuseDelete, NotAsked
  <2>2. ASSUME NEW s \in Shots, AskDelete(s)
        PROVE  asked' \in [shot : Shots \cup {Nobody}, migrating : BOOLEAN]
    <3>1. asked' = [shot |-> s, migrating |-> Migrating] /\ Migrating \in BOOLEAN
      BY <2>2 DEF AskDelete, Migrating
    <3>2. \A m \in BOOLEAN : [shot |-> s, migrating |-> m] \in [shot : Shots \cup {Nobody}, migrating : BOOLEAN]
      OBVIOUS
    <3> QED
      BY <3>1, <3>2, Zenon
  <2> QED
    BY <2>1, <2>2
<1>3. ShotTypes' /\ MoveTypes' /\ RequestTypes' /\ TreeTypes' /\ CountTypes'
  BY <1>1, <1>2 DEF ShotTypes, MoveTypes, RequestTypes, TreeTypes, CountTypes
<1>4. /\ PurgeTypes' /\ WorkerTypes' /\ \A c \in Cleaners : Holding(c)'
      /\ Unfinished' = Unfinished /\ Reserved' = Reserved
  BY <1>1, QueueStays
<1>5. ShotsTell' /\ RowsTell' /\ Live' = Live
  BY <1>1, RowsStay DEF ShotsTell, ShotTells, Live
<1>6. \A s : /\ LiesAt(s)' = LiesAt(s) /\ NumberToBe(s)' = NumberToBe(s)
  BY <1>1 DEF LiesAt, NumberToBe, InMove
<1>7. ASSUME Sound PROVE Sound'
  BY <1>1, <1>4, <1>5, <1>6, <1>7
  DEF Sound, NumbersDiffer, MoveTells, DirectoriesUnreserved, TreeTells, DirectoriesLie,
      CleanedIsGone
<1> QED
  BY <1>1, <1>3, <1>4, <1>5, <1>7

LEMMA ForceDeleteStep == ASSUME TargetInv, ForceDelete PROVE TargetInv'
<1> USE DEF TargetInv
<1> DEFINE s == asked.shot
           x == [NoPurge EXCEPT !.status = "pending", !.dir = DirectoryOf(s),
                                !.names = ReservedNames(s)]
<1>1. /\ s \in Live /\ s \in Shots
      /\ purgeRow' = [purgeRow EXCEPT ![s] = x] /\ shot' = [shot EXCEPT ![s] = Deleted]
      /\ asked' = NotAsked /\ overtaken' = (overtaken \/ Migrating)
      /\ UNCHANGED <<move, cleaner, tree, retries, mishaps>>
  BY DEF ForceDelete, Live
<1>2. /\ shot[s].state = "live" /\ shot[s].no \in Names /\ shot[s].dir \in {0, shot[s].no}
      /\ DirectoryOf(s) = shot[s].no /\ ReservedNames(s) = {shot[s].no}
  BY <1>1 DEF Live, ShotTypes, ShotRecord, ShotsTell, ShotTells, DirectoryOf, ReservedNames
<1>3. 0 \in 0..MaxTries /\ 0 < MaxTries
  BY TargetAssumption
<1>4. /\ x \in RowRecord /\ x.status = "pending" /\ x.attempt = 0
      /\ x.names = {shot[s].no} /\ x.dir = shot[s].no
  BY <1>2, <1>3 DEF NoPurge, RowRecord, PurgeStatus
<1> HIDE DEF x
<1>5. RowWritten(s, x) /\ PurgeTypes'
  BY <1>1, <1>4, RowIsWritten
<1>6. /\ Deleted \in ShotRecord /\ Deleted.state = "deleted" /\ Deleted.no = 0
      /\ Deleted.dir = 0 /\ ~Deleted.started /\ Deleted.op = "none"
  BY DEF Deleted, ShotRecord
<1>7. ShotWritten(s, Deleted) /\ ShotTypes'
  BY <1>1, <1>6, ShotIsWritten
<1>8. ShotsTell'
  BY <1>1, <1>6, <1>7, OneShotTells DEF ShotTells, ShotWritten
<1>9. MoveTypes' /\ RequestTypes' /\ WorkerTypes' /\ TreeTypes' /\ CountTypes'
  BY <1>1 DEF MoveTypes, RequestTypes, WorkerTypes, TreeTypes, CountTypes, NotAsked, Migrating
<1>10. purgeRow[s].status = "none" /\ purgeRow[s].names = {}
  BY <1>1, <1>2 DEF RowsTell, RowTells
<1>11. /\ Live' = Live \ {s}
       /\ Unfinished' = Unfinished \cup {s} /\ s \notin Unfinished
  BY <1>1, <1>4, <1>5, <1>6, <1>7, <1>10 DEF Live, Unfinished, ShotWritten, RowWritten
<1>12. RowsTell'
  <2> SUFFICES ASSUME NEW t \in Shots PROVE RowTells(t)'
    BY DEF RowsTell
  <2>1. CASE t = s
    BY <1>1, <1>3, <1>4, <1>5, <1>6, <1>7, <2>1 DEF RowTells, RowWritten, ShotWritten
  <2>2. CASE t # s
    BY <1>1, <1>5, <1>7, <1>11, <2>2 DEF RowsTell, RowTells, RowWritten, ShotWritten
  <2> QED
    BY <2>1, <2>2
<1>13. \A c \in Cleaners : cleaner[c].pc # "idle" => cleaner[c].shot \in Shots \ {s}
  BY <1>10 DEF Holding, Holds
<1>14. \A c \in Cleaners : Holding(c)'
  BY <1>1, <1>5, <1>13 DEF Holding, Holds, RowWritten
<1>15. ASSUME ~overtaken' PROVE Sound'
  <2>1. Sound /\ ~Migrating /\ move.status \in {"none", "succeeded"}
    BY <1>1, <1>15 DEF Sound, MoveTells, Migrating, MoveTypes
  <2>2. \A t : ~InMove(t)' /\ ~InMove(t)
    BY <1>1, <2>1 DEF InMove
  <2>3. \A t \in Live \ {s} : /\ t \in Shots /\ shot'[t] = shot[t]
                              /\ LiesAt(t)' = LiesAt(t) /\ LiesAt(t) = shot[t].dir
                              /\ NumberToBe(t)' = NumberToBe(t)
    BY <1>7, <2>2 DEF Live, LiesAt, NumberToBe, ShotWritten
  <2>4. NumbersDiffer'
    BY <1>11, <2>1, <2>3 DEF Sound, NumbersDiffer
  <2>5. MoveTells'
    BY <1>1, <2>1 DEF MoveTells
  <2>6. \A n \in Reserved' : n \in Reserved \/ n = shot[s].no
    <3> TAKE n \in Reserved'
    <3>1. PICK t \in Shots : t \in Unfinished' /\ n \in purgeRow'[t].names
      BY ReservedIsNext
    <3>2. CASE t = s
      BY <1>4, <1>5, <3>1, <3>2 DEF RowWritten
    <3>3. CASE t # s
      <4>1. t \in Unfinished /\ n \in purgeRow[t].names
        BY <1>5, <1>11, <3>1, <3>3 DEF RowWritten
      <4> QED
        BY <3>1, <4>1, ReservedIs
    <3> QED
      BY <3>2, <3>3
  <2>7. DirectoriesUnreserved'
    <3> SUFFICES ASSUME NEW t \in Live \ {s}, shot[t].dir # 0 PROVE shot[t].dir \notin Reserved'
      BY <1>11, <2>3 DEF DirectoriesUnreserved
    <3>1. shot[t].dir = shot[t].no /\ shot[t].no # shot[s].no
      BY <1>1, <2>1, <2>3 DEF ShotsTell, ShotTells, Sound, NumbersDiffer, Live
    <3> QED
      BY <2>1, <2>6, <3>1 DEF Sound, DirectoriesUnreserved
  <2>8. TreeTells'
    <3> SUFFICES ASSUME NEW n \in Names, NEW w \in Shots, tree[n] = w
                 PROVE  /\ shot'[w].state # "absent"
                        /\ w \in Live' => LiesAt(w)' = n
                        /\ shot'[w].state = "deleted" =>
                             n \in purgeRow'[w].names /\ purgeRow'[w].dir = n
      BY <1>1 DEF TreeTells
    <3>1. CASE w = s
      <4>1. LiesAt(s) = n /\ LiesAt(s) = shot[s].dir
        BY <1>1, <2>1, <2>2, <3>1 DEF Sound, TreeTells, LiesAt
      <4>2. n = shot[s].no
        BY <1>2, <4>1, NamesArePositive
      <4> QED
        BY <1>4, <1>5, <1>6, <1>7, <1>11, <3>1, <4>2 DEF ShotWritten, RowWritten
    <3>2. CASE w # s
      BY <1>5, <1>7, <1>11, <2>1, <2>3, <3>2 DEF Sound, TreeTells, ShotWritten, RowWritten
    <3> QED
      BY <3>1, <3>2
  <2>9. DirectoriesLie' /\ CleanedIsGone'
    BY <1>1, <1>11, <2>1, <2>3 DEF Sound, DirectoriesLie, CleanedIsGone
  <2> QED
    BY <2>4, <2>5, <2>7, <2>8, <2>9 DEF Sound
<1> QED
  BY <1>5, <1>7, <1>8, <1>9, <1>12, <1>14, <1>15

-----------------------------------------------------------------------------
(* The queue.                                                              *)

\* What a step of the queue leaves alone when it removes no directory.
LEMMA QueueKeeps ==
  ASSUME TargetInv, UNCHANGED <<requestVars, tree>>,
         \A s \in Shots : purgeRow'[s].names = purgeRow[s].names /\ purgeRow'[s].dir = purgeRow[s].dir,
         Unfinished' = Unfinished,
         \A c \in Cleaners : cleaner'[c].pc = "done" =>
           cleaner[c].pc = "done" /\ cleaner'[c].shot = cleaner[c].shot
  PROVE  /\ ShotTypes' /\ MoveTypes' /\ RequestTypes' /\ TreeTypes' /\ ShotsTell'
         /\ Live' = Live /\ (~overtaken' => Sound')
<1> USE DEF TargetInv
<1>1. UNCHANGED <<shot, move, asked, overtaken, tree>>
  BY DEF requestVars
<1>2. ShotTypes' /\ MoveTypes' /\ RequestTypes' /\ TreeTypes' /\ ShotsTell' /\ Live' = Live
  BY <1>1 DEF ShotTypes, MoveTypes, RequestTypes, TreeTypes, ShotsTell, ShotTells, Live
<1>3. Reserved' = Reserved
  BY DEF Reserved, Unfinished
<1>4. \A s : LiesAt(s)' = LiesAt(s) /\ NumberToBe(s)' = NumberToBe(s)
  BY <1>1 DEF LiesAt, NumberToBe, InMove
<1>5. ASSUME ~overtaken PROVE Sound'
  <2>1. NumbersDiffer' /\ MoveTells' /\ DirectoriesUnreserved'
    BY <1>1, <1>2, <1>3, <1>4, <1>5 DEF Sound, NumbersDiffer, MoveTells, DirectoriesUnreserved
  <2>2. TreeTells' /\ DirectoriesLie'
    BY <1>1, <1>2, <1>4, <1>5 DEF Sound, TreeTells, DirectoriesLie
  <2>3. CleanedIsGone'
    BY <1>1, <1>5 DEF Sound, CleanedIsGone
  <2> QED
    BY <2>1, <2>2, <2>3 DEF Sound
<1> QED
  BY <1>1, <1>2, <1>5

\* A row that is not being processed is held by nobody.
LEMMA OthersHold ==
  ASSUME TargetInv, NEW s \in Shots, NEW x, RowWritten(s, x), NEW c \in Cleaners,
         UNCHANGED cleaner[c],
         purgeRow[s].status # "processing" \/ purgeRow[s].owner # c
  PROVE  Holding(c)'
BY DEF TargetInv, Holding, Holds, RowWritten

LEMMA RetryStep == ASSUME TargetInv, NEW s \in Shots, RetryPurge(s) PROVE TargetInv'
<1> USE DEF TargetInv
<1> DEFINE x == [purgeRow[s] EXCEPT !.status = "pending", !.attempt = 0, !.due = FALSE]
<1>1. /\ purgeRow[s].status \in {"failed", "retry_wait"} /\ purgeRow[s] \in RowRecord
      /\ purgeRow' = [purgeRow EXCEPT ![s] = x]
      /\ UNCHANGED <<shot, move, asked, cleaner, tree, mishaps, overtaken>>
      /\ retries < MaxRetries /\ retries' = retries + 1
  BY DEF RetryPurge, Retryable, PurgeTypes, RowRecord
<1>2. 0 \in 0..MaxTries /\ 0 < MaxTries /\ retries' \in 0..MaxRetries
  BY <1>1, TargetAssumption DEF CountTypes
<1>3. /\ x \in RowRecord /\ x.status = "pending" /\ x.attempt = 0
      /\ x.names = purgeRow[s].names /\ x.dir = purgeRow[s].dir
  BY <1>1, <1>2 DEF RowRecord, PurgeStatus
<1> HIDE DEF x
<1>4. RowWritten(s, x) /\ PurgeTypes'
  BY <1>1, <1>3, RowIsWritten
<1>5. Unfinished' = Unfinished
  BY <1>1, <1>3, <1>4 DEF Unfinished, RowWritten
<1>6. \A t \in Shots : purgeRow'[t].names = purgeRow[t].names /\ purgeRow'[t].dir = purgeRow[t].dir
  BY <1>3, <1>4 DEF RowWritten
<1>7. /\ ShotTypes' /\ MoveTypes' /\ RequestTypes' /\ TreeTypes' /\ ShotsTell'
      /\ Live' = Live /\ (~overtaken' => Sound')
  BY <1>1, <1>5, <1>6, QueueKeeps DEF requestVars
<1>8. WorkerTypes' /\ CountTypes'
  BY <1>1, <1>2 DEF WorkerTypes, CountTypes
<1>9. \A c \in Cleaners : Holding(c)'
  BY <1>1, <1>4, OthersHold
<1>10. RowsTell'
  BY <1>1, <1>2, <1>3, <1>4, <1>5 DEF RowsTell, RowTells, RowWritten
<1> QED
  BY <1>4, <1>7, <1>8, <1>9, <1>10

LEMMA ClaimStep ==
  ASSUME TargetInv, NEW c \in Cleaners, NEW s \in Shots, ClaimPurge(c, s) PROVE TargetInv'
<1> USE DEF TargetInv
<1> DEFINE x == [purgeRow[s] EXCEPT !.status = "processing", !.attempt = @ + 1, !.owner = c,
                                    !.lease = TRUE, !.due = FALSE]
           n == purgeRow[s].attempt + 1
           y == [pc |-> "io", shot |-> s, attempt |-> n, retryable |-> TRUE]
<1>1. /\ cleaner[c].pc = "idle" /\ purgeRow[s].status \in {"pending", "retry_wait"}
      /\ purgeRow[s] \in RowRecord
      /\ purgeRow' = [purgeRow EXCEPT ![s] = x]
      /\ cleaner' = [cleaner EXCEPT ![c] =
           IF n <= MaxTries THEN y
           ELSE [pc |-> "failed", shot |-> s, attempt |-> n, retryable |-> FALSE]]
      /\ UNCHANGED <<requestVars, tree, retries, mishaps>>
  BY DEF ClaimPurge, Due, PurgeTypes, RowRecord
<1>2. purgeRow[s].attempt \in 0..MaxTries /\ purgeRow[s].attempt < MaxTries
  BY <1>1 DEF RowsTell, RowTells, RowRecord
<1>3. n \in 0..MaxTries /\ n <= MaxTries
  BY <1>2, TargetAssumption
<1>4. /\ x \in RowRecord /\ x.status = "processing" /\ x.attempt = n /\ x.owner = c
      /\ x.names = purgeRow[s].names /\ x.dir = purgeRow[s].dir
  BY <1>1, <1>3 DEF RowRecord, PurgeStatus
<1> HIDE DEF n
<1>5. cleaner' = [cleaner EXCEPT ![c] = y]
  BY <1>1, <1>3
<1>6. /\ y \in CleanerRecord /\ y.pc = "io" /\ y.shot = s /\ y.attempt = n
  BY <1>3 DEF CleanerRecord, InIo
<1> HIDE DEF x, y
<1>7. RowWritten(s, x) /\ PurgeTypes' /\ CleanerWritten(c, y) /\ WorkerTypes'
  BY <1>1, <1>4, <1>5, <1>6, RowIsWritten, CleanerIsWritten
<1>8. Unfinished' = Unfinished
  BY <1>1, <1>4, <1>7 DEF Unfinished, RowWritten
<1>9. \A t \in Shots : purgeRow'[t].names = purgeRow[t].names /\ purgeRow'[t].dir = purgeRow[t].dir
  BY <1>4, <1>7 DEF RowWritten
<1>10. \A d \in Cleaners : cleaner'[d].pc = "done" =>
         cleaner[d].pc = "done" /\ cleaner'[d].shot = cleaner[d].shot
  BY <1>6, <1>7 DEF CleanerWritten
<1>11. /\ ShotTypes' /\ MoveTypes' /\ RequestTypes' /\ TreeTypes' /\ ShotsTell'
       /\ Live' = Live /\ (~overtaken' => Sound')
  BY <1>1, <1>8, <1>9, <1>10, QueueKeeps
<1>12. CountTypes'
  BY <1>1 DEF CountTypes
<1>13. \A d \in Cleaners : Holding(d)'
  <2> SUFFICES ASSUME NEW d \in Cleaners PROVE Holding(d)'
    OBVIOUS
  <2>1. CASE d = c
    BY <1>4, <1>6, <1>7, <2>1 DEF Holding, Holds, RowWritten, CleanerWritten
  <2>2. CASE d # c
    BY <1>1, <1>7, <2>2, OthersHold DEF CleanerWritten
  <2> QED
    BY <2>1, <2>2
<1>14. RowsTell'
  BY <1>1, <1>4, <1>7, <1>8 DEF RowsTell, RowTells, RowWritten, requestVars
<1> QED
  BY <1>7, <1>11, <1>12, <1>13, <1>14

\* A coroutine that goes on with the row it has, or lets go of it.
LEMMA CleanerOnlyStep ==
  ASSUME TargetInv, NEW c \in Cleaners,
         \/ RenewRefused(c) \/ RenewRaises(c) \/ LateResult(c) \/ Crash(c)
         \/ \E retryable \in BOOLEAN : CleanFails(c, retryable)
  PROVE  TargetInv'
<1> USE DEF TargetInv
<1>1. UNCHANGED <<requestVars, purgeRow, tree, retries>>
  BY DEF RenewRefused, RenewRaises, CleanFails, LateResult, Crash
<1>2. mishaps' \in 0..MaxMishaps
  BY TargetAssumption DEF CountTypes, RenewRefused, RenewRaises, CleanFails, LateResult, Crash
<1>3. cleaner[c] \in CleanerRecord /\ 0 \in 0..MaxTries
  BY TargetAssumption DEF WorkerTypes
<1>4. PICK y \in CleanerRecord :
        /\ cleaner' = [cleaner EXCEPT ![c] = y]
        /\ y.pc # "done"
        /\ y.pc # "idle" => /\ cleaner[c].pc # "idle" /\ y.shot = cleaner[c].shot
                            /\ y.attempt = cleaner[c].attempt
  <2>1. CASE RenewRefused(c)
    <3>1. [cleaner[c] EXCEPT !.pc = "lost"] \in CleanerRecord
      BY <1>3 DEF CleanerRecord, InIo
    <3> QED
      BY <1>3, <2>1, <3>1 DEF RenewRefused, CleanerRecord
  <2>2. CASE RenewRaises(c)
    <3>1. [cleaner[c] EXCEPT !.pc = "broken"] \in CleanerRecord
      BY <1>3 DEF CleanerRecord, InIo
    <3> QED
      BY <1>3, <2>2, <3>1 DEF RenewRaises, CleanerRecord
  <2>3. CASE LateResult(c) \/ Crash(c)
    <3>1. Resting \in CleanerRecord /\ Resting.pc = "idle"
      BY <1>3 DEF CleanerRecord, Resting
    <3> QED
      BY <2>3, <3>1 DEF LateResult, Crash, Rest
  <2>4. ASSUME NEW retryable \in BOOLEAN, CleanFails(c, retryable)
        PROVE  \E y \in CleanerRecord :
                 /\ cleaner' = [cleaner EXCEPT ![c] = y]
                 /\ y.pc # "done"
                 /\ y.pc # "idle" => /\ cleaner[c].pc # "idle" /\ y.shot = cleaner[c].shot
                                     /\ y.attempt = cleaner[c].attempt
    <3> DEFINE y == [cleaner[c] EXCEPT !.pc = "failed", !.retryable = retryable]
    <3>1. y \in CleanerRecord /\ y.pc = "failed" /\ y.shot = cleaner[c].shot /\ y.attempt = cleaner[c].attempt
      BY <1>3 DEF CleanerRecord
    <3>2. cleaner' = [cleaner EXCEPT ![c] = y] /\ cleaner[c].pc # "idle"
      BY <1>3, <2>4 DEF CleanFails, InIo, CleanerRecord
    <3> HIDE DEF y
    <3> QED
      BY <3>1, <3>2
  <2> QED
    BY <2>1, <2>2, <2>3, <2>4
<1>5. CleanerWritten(c, y) /\ WorkerTypes'
  BY <1>4, CleanerIsWritten
<1>6. \A d \in Cleaners : cleaner'[d].pc = "done" =>
        cleaner[d].pc = "done" /\ cleaner'[d].shot = cleaner[d].shot
  BY <1>4, <1>5 DEF CleanerWritten
<1>7. Unfinished' = Unfinished
  BY <1>1 DEF Unfinished
<1>8. /\ ShotTypes' /\ MoveTypes' /\ RequestTypes' /\ TreeTypes' /\ ShotsTell'
      /\ Live' = Live /\ (~overtaken' => Sound')
  BY <1>1, <1>6, <1>7, QueueKeeps
<1>9. PurgeTypes' /\ CountTypes' /\ RowsTell'
  BY <1>1, <1>2, <1>7 DEF PurgeTypes, CountTypes, RowsTell, RowTells, requestVars
<1>10. \A d \in Cleaners : Holding(d)'
  BY <1>1, <1>4, <1>5 DEF Holding, Holds, CleanerWritten
<1> QED
  BY <1>5, <1>8, <1>9, <1>10

\* The frozen path is a reserved name, so it is the directory of no live shot.
LEMMA CleanStep == ASSUME TargetInv, NEW c \in Cleaners, CleanSucceeds(c) PROVE TargetInv'
<1> USE DEF TargetInv
<1> DEFINE u == cleaner[c].shot
           d == purgeRow[u].dir
           y == CASE cleaner[c].pc = "io" -> [cleaner[c] EXCEPT !.pc = "done"]
                  [] cleaner[c].pc = "broken" -> [cleaner[c] EXCEPT !.pc = "failed"]
                  [] cleaner[c].pc = "lost" -> Resting
<1>1. /\ cleaner[c].pc \in {"io", "lost", "broken"}
      /\ tree' = [tree EXCEPT ![d] = Nobody]
      /\ cleaner' = [cleaner EXCEPT ![c] = y]
      /\ UNCHANGED <<requestVars, purgeRow, retries, mishaps>>
  BY DEF CleanSucceeds, InIo
<1>2. /\ u \in Shots /\ purgeRow[u].status = "processing"
      /\ u \in Unfinished /\ d \in purgeRow[u].names /\ shot[u].state = "deleted"
  BY <1>1 DEF Holding, Holds, RowsTell, RowTells, Unfinished
<1>3. d \in Names /\ d \in Reserved
  BY <1>2, ReservedIs DEF PurgeTypes, RowRecord
<1>4. cleaner[c] \in CleanerRecord /\ 0 \in 0..MaxTries
  BY TargetAssumption DEF WorkerTypes
<1>5. /\ y \in CleanerRecord
      /\ y.pc # "idle" => y.shot = cleaner[c].shot /\ y.attempt = cleaner[c].attempt
  <2>1. CASE cleaner[c].pc = "io"
    BY <1>4, <2>1 DEF CleanerRecord
  <2>2. CASE cleaner[c].pc = "broken"
    BY <1>4, <2>2 DEF CleanerRecord
  <2>3. CASE cleaner[c].pc = "lost"
    BY <1>4, <2>3 DEF CleanerRecord, Resting
  <2> QED
    BY <1>1, <2>1, <2>2, <2>3
<1> HIDE DEF y
<1>6. CleanerWritten(c, y) /\ WorkerTypes'
  BY <1>1, <1>5, CleanerIsWritten
<1>7. /\ TreeTypes' /\ tree'[d] = Nobody /\ \A n \in Names \ {d} : tree'[n] = tree[n]
  BY <1>1, <1>3 DEF TreeTypes
<1>8. UNCHANGED <<shot, move, asked, overtaken>>
  BY <1>1 DEF requestVars
<1>9. /\ ShotTypes' /\ MoveTypes' /\ RequestTypes' /\ ShotsTell' /\ PurgeTypes' /\ CountTypes'
      /\ Live' = Live /\ Unfinished' = Unfinished /\ Reserved' = Reserved
  BY <1>1, <1>8 DEF ShotTypes, MoveTypes, RequestTypes, ShotsTell, ShotTells, PurgeTypes,
    CountTypes, Live, Unfinished, Reserved
<1>10. RowsTell'
  BY <1>1, <1>8, <1>9 DEF RowsTell, RowTells
<1>11. \A e \in Cleaners : Holding(e)'
  BY <1>1, <1>5, <1>6 DEF Holding, Holds, CleanerWritten
<1>12. ASSUME ~overtaken PROVE Sound'
  <2>1. Sound /\ move.status \notin {"pending", "moved"}
    BY <1>2, <1>12 DEF Sound, MoveTells
  <2>2. \A s : LiesAt(s)' = LiesAt(s) /\ NumberToBe(s)' = NumberToBe(s) /\ LiesAt(s) = shot[s].dir
    BY <1>8, <2>1 DEF LiesAt, NumberToBe, InMove
  <2>3. NumbersDiffer' /\ MoveTells' /\ DirectoriesUnreserved'
    BY <1>8, <1>9, <2>1, <2>2 DEF Sound, NumbersDiffer, MoveTells, DirectoriesUnreserved
  <2>4. \A n \in Names : tree'[n] \in Shots => n # d /\ tree'[n] = tree[n]
    BY <1>7, TargetAssumption
  <2>5. TreeTells'
    <3> SUFFICES ASSUME NEW n \in Names, NEW w \in Shots, tree'[n] = w
                 PROVE  /\ shot[w].state # "absent"
                        /\ w \in Live => LiesAt(w) = n
                        /\ shot[w].state = "deleted" =>
                             n \in purgeRow[w].names /\ purgeRow[w].dir = n
      BY <1>1, <1>8, <1>9, <2>2 DEF TreeTells
    <3> QED
      BY <2>1, <2>4 DEF Sound, TreeTells
  <2>6. DirectoriesLie'
    <3> SUFFICES ASSUME NEW s \in Live, shot[s].op = "succeeded"
                 PROVE  LiesAt(s) \in Names /\ tree'[LiesAt(s)] = s
      BY <1>8, <1>9, <2>2 DEF DirectoriesLie
    <3>1. LiesAt(s) \in Names /\ tree[LiesAt(s)] = s /\ LiesAt(s) = shot[s].dir
      BY <2>1, <2>2 DEF Sound, DirectoriesLie
    <3>2. shot[s].dir # d
      BY <1>3, <2>1, <3>1, NamesArePositive DEF Sound, DirectoriesUnreserved
    <3> QED
      BY <1>7, <3>1, <3>2
  <2>7. CleanedIsGone'
    <3> SUFFICES ASSUME NEW e \in Cleaners, cleaner'[e].pc = "done", NEW n \in Names
                 PROVE  tree'[n] # cleaner'[e].shot
      BY DEF CleanedIsGone
    <3>1. CASE e = c
      <4>1. cleaner'[e].shot = u
        BY <1>5, <1>6, <3>1 DEF CleanerWritten
      <4>2. ASSUME tree'[n] = u PROVE FALSE
        BY <1>2, <2>1, <2>4, <4>2 DEF Sound, TreeTells
      <4> QED
        BY <4>1, <4>2
    <3>2. CASE e # c
      <4>1. cleaner'[e] = cleaner[e] /\ cleaner[e].pc = "done"
        BY <1>6, <3>2 DEF CleanerWritten
      <4>2. cleaner[e].shot \in Shots
        BY <4>1 DEF Holding
      <4> QED
        BY <2>1, <2>4, <4>1, <4>2 DEF Sound, CleanedIsGone
    <3> QED
      BY <3>1, <3>2
  <2> QED
    BY <2>3, <2>5, <2>6, <2>7 DEF Sound
<1> QED
  BY <1>6, <1>7, <1>8, <1>9, <1>10, <1>11, <1>12

LEMMA RestIs ==
  ASSUME WorkerTypes, NEW c \in Cleaners, Rest(c)
  PROVE  CleanerWritten(c, Resting) /\ WorkerTypes' /\ Resting.pc = "idle"
<1>1. 0 \in 0..MaxTries
  BY TargetAssumption
<1>2. Resting \in CleanerRecord /\ Resting.pc = "idle"
  BY <1>1 DEF Resting, CleanerRecord
<1> QED
  BY <1>2, CleanerIsWritten DEF Rest

\* mark_succeeded gives the names back when nothing of the shot is left.
LEMMA MarkStep == ASSUME TargetInv, NEW c \in Cleaners, MarkPurged(c) PROVE TargetInv'
<1> USE DEF TargetInv
<1> DEFINE u == cleaner[c].shot
           x == [purgeRow[u] EXCEPT !.status = "succeeded", !.owner = Nobody, !.lease = FALSE,
                                    !.names = {}]
<1>1. /\ cleaner[c].pc = "done" /\ Rest(c) /\ Holds(c)
      /\ UNCHANGED <<requestVars, tree, retries, mishaps>>
  BY DEF MarkPurged, Owned
<1>2. /\ u \in Shots /\ purgeRow[u].status = "processing" /\ purgeRow[u].owner = c
      /\ u \in Unfinished /\ purgeRow[u] \in RowRecord
  BY <1>1 DEF Holding, Holds, Unfinished, PurgeTypes
<1>3. purgeRow' = [purgeRow EXCEPT ![u] = x]
  BY <1>2 DEF MarkPurged, Written, PurgeTypes
<1>4. x \in RowRecord /\ x.status = "succeeded" /\ x.names = {}
  BY <1>2 DEF RowRecord, PurgeStatus
<1> HIDE DEF x
<1>5. RowWritten(u, x) /\ PurgeTypes'
  BY <1>2, <1>3, <1>4, RowIsWritten
<1>6. CleanerWritten(c, Resting) /\ WorkerTypes' /\ Resting.pc = "idle"
  BY <1>1, RestIs
<1>7. Unfinished' = Unfinished \ {u}
  BY <1>2, <1>4, <1>5 DEF Unfinished, RowWritten
<1>8. UNCHANGED <<shot, move, asked, overtaken>>
  BY <1>1 DEF requestVars
<1>9. /\ ShotTypes' /\ MoveTypes' /\ RequestTypes' /\ ShotsTell' /\ TreeTypes' /\ CountTypes'
      /\ Live' = Live
  BY <1>1, <1>8 DEF ShotTypes, MoveTypes, RequestTypes, ShotsTell, ShotTells, TreeTypes,
    CountTypes, Live
<1>10. RowsTell'
  BY <1>2, <1>4, <1>5, <1>7, <1>8 DEF RowsTell, RowTells, RowWritten
<1>11. \A e \in Cleaners : Holding(e)'
  <2> SUFFICES ASSUME NEW e \in Cleaners PROVE Holding(e)'
    OBVIOUS
  <2>1. CASE e = c
    BY <1>6, <2>1 DEF Holding, CleanerWritten
  <2>2. CASE e # c
    BY <1>2, <1>5, <1>6, <2>2, OthersHold DEF CleanerWritten
  <2> QED
    BY <2>1, <2>2
<1>12. ASSUME ~overtaken PROVE Sound'
  <2>1. Sound /\ move.status \notin {"pending", "moved"}
    BY <1>2, <1>12 DEF Sound, MoveTells
  <2>2. \A s : LiesAt(s)' = LiesAt(s) /\ NumberToBe(s)' = NumberToBe(s)
    BY <1>8 DEF LiesAt, NumberToBe, InMove
  <2>3. NumbersDiffer' /\ MoveTells'
    BY <1>8, <1>9, <2>1, <2>2 DEF Sound, NumbersDiffer, MoveTells
  <2>4. \A n \in Reserved' : n \in Reserved
    BY <1>5, <1>7, ReservedIs, ReservedIsNext DEF RowWritten
  <2>5. DirectoriesUnreserved'
    BY <1>8, <1>9, <2>1, <2>4 DEF Sound, DirectoriesUnreserved
  <2>6. \A n \in Names : tree[n] # u
    BY <1>1, <2>1 DEF Sound, CleanedIsGone
  <2>7. TreeTells'
    BY <1>1, <1>5, <1>8, <1>9, <2>1, <2>2, <2>6 DEF Sound, TreeTells, RowWritten
  <2>8. DirectoriesLie'
    BY <1>1, <1>8, <1>9, <2>1, <2>2 DEF Sound, DirectoriesLie
  <2>9. CleanedIsGone'
    BY <1>1, <1>6, <2>1 DEF Sound, CleanedIsGone, CleanerWritten
  <2> QED
    BY <2>3, <2>5, <2>7, <2>8, <2>9 DEF Sound
<1> QED
  BY <1>5, <1>6, <1>8, <1>9, <1>10, <1>11, <1>12

LEMMA FailureStep == ASSUME TargetInv, NEW c \in Cleaners, RecordFailure(c) PROVE TargetInv'
<1> USE DEF TargetInv
<1> DEFINE u == cleaner[c].shot
           o == IF Terminal(cleaner[c].retryable, cleaner[c].attempt) THEN "failed" ELSE "retry_wait"
           x == [purgeRow[u] EXCEPT !.status = o, !.owner = Nobody, !.lease = FALSE]
<1>1. /\ cleaner[c].pc = "failed" /\ Rest(c) /\ Holds(c)
      /\ UNCHANGED <<requestVars, tree, retries, mishaps>>
  BY DEF RecordFailure, Owned
<1>2. /\ u \in Shots /\ purgeRow[u].status = "processing" /\ purgeRow[u].owner = c
      /\ purgeRow[u].attempt = cleaner[c].attempt
      /\ u \in Unfinished /\ purgeRow[u] \in RowRecord
  BY <1>1 DEF Holding, Holds, Unfinished, PurgeTypes
<1>3. purgeRow' = [purgeRow EXCEPT ![u] = x]
  BY <1>2 DEF RecordFailure, Written, NamesAfterFailure, PurgeTypes, RowRecord
<1>4. o = "retry_wait" => purgeRow[u].attempt < MaxTries
  <2>1. purgeRow[u].attempt \in Nat /\ MaxTries \in Nat
    BY <1>2, TargetAssumption DEF RowRecord
  <2> QED
    BY <1>2, <2>1 DEF Terminal
<1>5. o \in {"failed", "retry_wait"}
  OBVIOUS
<1> HIDE DEF o
<1>6. /\ x \in RowRecord /\ x.status = o /\ x.names = purgeRow[u].names
      /\ x.dir = purgeRow[u].dir /\ x.attempt = purgeRow[u].attempt
  BY <1>2, <1>5 DEF RowRecord, PurgeStatus
<1> HIDE DEF x
<1>7. RowWritten(u, x) /\ PurgeTypes'
  BY <1>2, <1>3, <1>6, RowIsWritten
<1>8. CleanerWritten(c, Resting) /\ WorkerTypes' /\ Resting.pc = "idle"
  BY <1>1, RestIs
<1>9. Unfinished' = Unfinished
  BY <1>2, <1>5, <1>6, <1>7 DEF Unfinished, RowWritten
<1>10. \A t \in Shots : purgeRow'[t].names = purgeRow[t].names /\ purgeRow'[t].dir = purgeRow[t].dir
  BY <1>6, <1>7 DEF RowWritten
<1>11. \A e \in Cleaners : cleaner'[e].pc = "done" =>
         cleaner[e].pc = "done" /\ cleaner'[e].shot = cleaner[e].shot
  BY <1>8 DEF CleanerWritten
<1>12. /\ ShotTypes' /\ MoveTypes' /\ RequestTypes' /\ TreeTypes' /\ ShotsTell'
       /\ Live' = Live /\ (~overtaken' => Sound')
  BY <1>1, <1>9, <1>10, <1>11, QueueKeeps
<1>13. CountTypes'
  BY <1>1 DEF CountTypes
<1>14. RowsTell'
  BY <1>1, <1>2, <1>4, <1>5, <1>6, <1>7, <1>9 DEF RowsTell, RowTells, RowWritten, requestVars
<1>15. \A e \in Cleaners : Holding(e)'
  <2> SUFFICES ASSUME NEW e \in Cleaners PROVE Holding(e)'
    OBVIOUS
  <2>1. CASE e = c
    BY <1>8, <2>1 DEF Holding, CleanerWritten
  <2>2. CASE e # c
    BY <1>2, <1>7, <1>8, <2>2, OthersHold DEF CleanerWritten
  <2> QED
    BY <2>1, <2>2
<1> QED
  BY <1>7, <1>8, <1>12, <1>13, <1>14, <1>15

LEMMA ClockStep ==
  ASSUME TargetInv, NEW s \in Shots, LeaseExpires(s) \/ RetryTimeComes(s) PROVE TargetInv'
<1> USE DEF TargetInv
<1>1. UNCHANGED <<requestVars, cleaner, tree, retries>>
  BY DEF LeaseExpires, RetryTimeComes
<1>2. mishaps' \in 0..MaxMishaps
  BY TargetAssumption DEF CountTypes, LeaseExpires, RetryTimeComes
<1>3. PICK x \in RowRecord :
        /\ purgeRow' = [purgeRow EXCEPT ![s] = x]
        /\ x.status = purgeRow[s].status /\ x.attempt = purgeRow[s].attempt
        /\ x.names = purgeRow[s].names /\ x.dir = purgeRow[s].dir
        /\ x.owner = purgeRow[s].owner
  <2>1. purgeRow[s] \in RowRecord
    BY DEF PurgeTypes
  <2>2. CASE LeaseExpires(s)
    <3>1. [purgeRow[s] EXCEPT !.lease = FALSE] \in RowRecord
      BY <2>1 DEF RowRecord
    <3> QED
      BY <2>1, <2>2, <3>1 DEF LeaseExpires, RowRecord
  <2>3. CASE RetryTimeComes(s)
    <3>1. [purgeRow[s] EXCEPT !.due = TRUE] \in RowRecord
      BY <2>1 DEF RowRecord
    <3> QED
      BY <2>1, <2>3, <3>1 DEF RetryTimeComes, RowRecord
  <2> QED
    BY <2>2, <2>3
<1>4. RowWritten(s, x) /\ PurgeTypes'
  BY <1>3, RowIsWritten
<1>5. Unfinished' = Unfinished
  BY <1>3, <1>4 DEF Unfinished, RowWritten
<1>6. \A t \in Shots : purgeRow'[t].names = purgeRow[t].names /\ purgeRow'[t].dir = purgeRow[t].dir
  BY <1>3, <1>4 DEF RowWritten
<1>7. /\ ShotTypes' /\ MoveTypes' /\ RequestTypes' /\ TreeTypes' /\ ShotsTell'
      /\ Live' = Live /\ (~overtaken' => Sound')
  BY <1>1, <1>5, <1>6, QueueKeeps
<1>8. WorkerTypes' /\ CountTypes'
  BY <1>1, <1>2 DEF WorkerTypes, CountTypes
<1>9. RowsTell'
  BY <1>1, <1>3, <1>4, <1>5 DEF RowsTell, RowTells, RowWritten, requestVars
<1>10. \A c \in Cleaners : Holding(c)'
  BY <1>1, <1>3, <1>4 DEF Holding, Holds, RowWritten
<1> QED
  BY <1>4, <1>7, <1>8, <1>9, <1>10

-----------------------------------------------------------------------------
LEMMA InitIsSound == Init => TargetInv
<1> SUFFICES ASSUME Init PROVE TargetInv
  OBVIOUS
<1>1. 0 \in 0..MaxTries /\ 0 \in 0..MaxRetries /\ 0 \in 0..MaxMishaps
  BY TargetAssumption
<1>2. /\ shot = [s \in Shots |->
           IF Old[s] = 0 THEN [Deleted EXCEPT !.state = "absent"]
           ELSE [state |-> "live", no |-> Old[s], dir |-> Old[s], started |-> FALSE, op |-> "succeeded"]]
      /\ move = [status |-> "none", items |-> <<>>] /\ asked = NotAsked
      /\ purgeRow = [s \in Shots |-> NoPurge] /\ cleaner = [c \in Cleaners |-> Resting]
      /\ tree = [n \in Names |->
           IF \E s \in Shots : Old[s] = n THEN CHOOSE s \in Shots : Old[s] = n ELSE Nobody]
      /\ retries = 0 /\ mishaps = 0 /\ overtaken = FALSE
  BY DEF Init
<1>3. \A s \in Shots :
        /\ Old[s] \in Names \cup {0} /\ shot[s] \in ShotRecord
        /\ Old[s] = 0 => /\ shot[s].state = "absent" /\ shot[s].no = 0 /\ shot[s].dir = 0
                         /\ ~shot[s].started /\ shot[s].op = "none"
        /\ Old[s] # 0 => /\ shot[s].state = "live" /\ shot[s].no = Old[s] /\ shot[s].dir = Old[s]
                         /\ ~shot[s].started /\ shot[s].op = "succeeded"
  <2> TAKE s \in Shots
  <2>1. Old[s] \in Names \cup {0}
    BY TargetAssumption
  <2>2. CASE Old[s] = 0
    BY <1>2, <2>1, <2>2 DEF ShotRecord, Deleted
  <2>3. CASE Old[s] # 0
    BY <1>2, <2>1, <2>3 DEF ShotRecord
  <2> QED
    BY <2>1, <2>2, <2>3
<1>4. ShotTypes /\ ShotsTell
  <2>1. ShotTypes
    BY <1>2, <1>3 DEF ShotTypes
  <2> QED
    BY <1>3, <2>1 DEF ShotsTell, ShotTells
<1>5. /\ move.status = "none" /\ move.items = <<>> /\ DOMAIN move.items = {}
      /\ MoveTypes /\ RequestTypes /\ CountTypes
  <2>1. move.status = "none" /\ move.items = <<>> /\ move = [status |-> move.status, items |-> move.items]
    BY <1>2
  <2>2. DOMAIN move.items = {}
    BY <2>1
  <2>3. RequestTypes /\ CountTypes
    BY <1>1, <1>2 DEF RequestTypes, CountTypes, NotAsked
  <2> QED
    BY <2>1, <2>2, <2>3 DEF MoveTypes
<1>6. PurgeTypes /\ \A s \in Shots : purgeRow[s].status = "none" /\ purgeRow[s].names = {}
  <2>1. NoPurge \in RowRecord /\ NoPurge.status = "none" /\ NoPurge.names = {}
    BY <1>1 DEF NoPurge, RowRecord, PurgeStatus
  <2> QED
    BY <1>2, <2>1 DEF PurgeTypes
<1>7. WorkerTypes /\ \A c \in Cleaners : cleaner[c].pc = "idle"
  <2>1. Resting \in CleanerRecord /\ Resting.pc = "idle"
    BY <1>1 DEF Resting, CleanerRecord
  <2> QED
    BY <1>2, <2>1 DEF WorkerTypes
<1>8. Unfinished = {} /\ Reserved = {}
  BY <1>6 DEF Unfinished, Reserved
<1>9. RowsTell /\ \A c \in Cleaners : Holding(c)
  BY <1>6, <1>7, <1>8 DEF RowsTell, RowTells, Holding
\* The directories of the old shots: no two of them have the same number.
<1>10. \A n \in Names : \A s \in Shots : Old[s] = n => tree[n] = s
  <2> SUFFICES ASSUME NEW n \in Names, NEW s \in Shots, Old[s] = n PROVE tree[n] = s
    OBVIOUS
  <2> DEFINE t == CHOOSE r \in Shots : Old[r] = n
  <2>1. t \in Shots /\ Old[t] = n
    OBVIOUS
  <2>2. tree[n] = t
    BY <1>2
  <2> HIDE DEF t
  <2>3. n # 0
    BY NamesArePositive
  <2> QED
    BY <2>1, <2>2, <2>3, TargetAssumption
<1>11. \A n \in Names : tree[n] \in Shots => Old[tree[n]] = n
  <2> SUFFICES ASSUME NEW n \in Names, tree[n] \in Shots PROVE Old[tree[n]] = n
    OBVIOUS
  <2>1. CASE \E s \in Shots : Old[s] = n
    BY <1>10, <2>1
  <2>2. CASE ~\E s \in Shots : Old[s] = n
    BY <1>2, <2>2, TargetAssumption
  <2> QED
    BY <2>1, <2>2
<1>12. TreeTypes
  <2>1. \A n \in Names : tree[n] \in Shots \cup {Nobody}
    <3> TAKE n \in Names
    <3>1. CASE \E s \in Shots : Old[s] = n
      BY <1>10, <3>1
    <3>2. CASE ~\E s \in Shots : Old[s] = n
      BY <1>2, <3>2
    <3> QED
      BY <3>1, <3>2
  <2>2. tree = [n \in Names |-> tree[n]]
    BY <1>2
  <2> QED
    BY <2>1, <2>2 DEF TreeTypes
<1>13. \A s : LiesAt(s) = shot[s].dir /\ NumberToBe(s) = shot[s].no
  BY <1>5 DEF LiesAt, NumberToBe, InMove
<1>14. NumbersDiffer
  BY <1>3, <1>13, TargetAssumption DEF NumbersDiffer, Live
<1>15. MoveTells /\ DirectoriesUnreserved /\ CleanedIsGone
  BY <1>5, <1>7, <1>8 DEF MoveTells, DirectoriesUnreserved, CleanedIsGone
<1>16. TreeTells
  BY <1>3, <1>11, <1>13, NamesArePositive DEF TreeTells
<1>17. DirectoriesLie
  BY <1>3, <1>10, <1>13 DEF DirectoriesLie, Live
<1> QED
  BY <1>4, <1>5, <1>6, <1>7, <1>9, <1>12, <1>14, <1>15, <1>16, <1>17 DEF TargetInv, Sound

LEMMA NextKeepsTargetInv == TargetInv /\ [Next]_targetVars => TargetInv'
<1> SUFFICES ASSUME TargetInv, [Next]_targetVars PROVE TargetInv'
  OBVIOUS
<1>1. CASE ShotStep
  <2>1. CASE \E s \in Shots : \/ \E n \in Names : CreateShot(s, n)
                              \/ StartShot(s) \/ ClaimDirectory(s) \/ FinishDirectory(s)
                              \/ AskDelete(s) \/ RetryPurge(s)
    BY <2>1, CreateStep, StartStep, DirectoryStep, AskStep, RetryStep
  <2>2. CASE \E to \in Orders : RenumberLater(to) \/ RenumberNow(to)
    BY <2>2, RenumberLaterStep, RenumberNowStep
  <2>3. CASE MoveDirectories \/ FinishMove \/ RefuseDelete \/ ForceDelete
    BY <2>3, MoveStep, FinishMoveStep, AskStep, ForceDeleteStep
  <2> QED
    BY <1>1, <2>1, <2>2, <2>3 DEF ShotStep
<1>2. ASSUME NEW c \in Cleaners, CleanerStep(c) PROVE TargetInv'
  BY <1>2, ClaimStep, CleanerOnlyStep, CleanStep, MarkStep, FailureStep
  DEF CleanerStep, CleanIo, WriteBack
<1>3. CASE \E s \in Shots : LeaseExpires(s) \/ RetryTimeComes(s)
  BY <1>3, ClockStep
<1>4. CASE UNCHANGED targetVars
  <2>1. /\ UNCHANGED <<shot, move, asked, purgeRow, cleaner, tree, retries, mishaps, overtaken>>
    BY <1>4 DEF targetVars
  <2>2. UNCHANGED <<requestVars, tree>> /\ Unfinished' = Unfinished
    BY <2>1 DEF requestVars, Unfinished
  <2>3. /\ ShotTypes' /\ MoveTypes' /\ RequestTypes' /\ TreeTypes' /\ ShotsTell'
        /\ Live' = Live /\ (~overtaken' => Sound')
    BY <2>1, <2>2, QueueKeeps
  <2>4. PurgeTypes' /\ WorkerTypes' /\ \A c \in Cleaners : Holding(c)'
    BY <2>1, QueueStays DEF TargetInv
  <2>5. CountTypes' /\ RowsTell'
    BY <2>1, <2>2 DEF TargetInv, CountTypes, RowsTell, RowTells
  <2> QED
    BY <2>3, <2>4, <2>5 DEF TargetInv
<1> QED
  BY <1>1, <1>2, <1>3, <1>4 DEF Next

\* Force deleting shots is safe, for any shots, coroutines and bounds: one
\* coroutine at a time works at a directory; unless a deletion went by a storage
\* status that was out of date, what it leaves behind is reserved; and no shot
\* loses the directory it works in or works in that of another.
THEOREM ForcedDeletionIsSafe == Spec => []TargetSafe
<1>1. Init => TargetInv
  BY InitIsSound
<1>2. TargetInv /\ [Next]_targetVars => TargetInv'
  BY NextKeepsTargetInv
<1>3. TargetInv => TargetSafe
  BY InvMeansTargetSafe
<1> QED
  BY <1>1, <1>2, <1>3, PTL DEF Spec
=============================================================================
