------------------------- MODULE StreamIngestProofs -------------------------
(***************************************************************************)
(* Proofs about StreamIngest and the table it stores into, for any days,    *)
(* rows, writers and creators, any feeds and batch size, and any number of  *)
(* faults.                                                                  *)
(***************************************************************************)
EXTENDS StreamIngest, Integers, SequenceTheorems, WellFoundedInduction, TLAPS

-----------------------------------------------------------------------------
(* The table: types, and what each creator's transaction has seen.          *)

CreatorRecords ==
    [at : Places, days : Seq(Days), temp : SUBSET Rows, aim : SUBSET Rows, gone : SUBSET Rows]

TableTyped ==
    /\ partitions \subseteq Days
    /\ inDefault \in [Rows -> Nat]
    /\ inPartition \in [Rows -> Nat]
    /\ open \in [Writers -> SUBSET Rows]
    /\ creator \in [Creators -> CreatorRecords]
    /\ raced \subseteq Rows
    /\ dropped \subseteq Rows

(* The committed rows of a day in the default partition.                    *)
InDefaultOf(day) == {r \in Rows : DayOf[r] = day /\ inDefault[r] > 0}

(* A creator's place and its three sets: what it copied is still in the     *)
(* default partition, which has nothing of a day that has a partition; what *)
(* it has deleted and not copied came in the race; and with the default     *)
(* partition locked it has deleted all there is of the day.                 *)
RecordOK(k) ==
    /\ k.at \notin {"returned", "failed"} => k.days # << >>
    /\ k.at \in Outside \cup {"copied", "deleting"} => k.gone = {}
    /\ k.at = "skipped" => Head(k.days) \in partitions
    /\ k.at \notin Outside =>
          /\ k.temp \subseteq InDefaultOf(Head(k.days))
          /\ Head(k.days) \in partitions => k.temp = {} /\ k.gone = {}
    /\ k.at = "copied" => InDefaultOf(Head(k.days)) \subseteq k.temp \cup raced
    /\ k.at = "deleting" => k.aim \subseteq k.temp \cup raced
    /\ k.at = "created" => InDefaultOf(Head(k.days)) \subseteq k.gone
    /\ k.gone \subseteq k.temp \cup raced

CreatorsOK == \A c \in Creators : RecordOK(creator[c])

(* A locked default partition is locked by one, and a locked parent keeps   *)
(* writers away.                                                            *)
LocksOK ==
    /\ \A c, d \in Creators : c # d /\ OwnsDefault(c) => ~HoldsDefault(d)
    /\ \A c \in Creators : OwnsParent(c) => Storing = {}

PartitionedLeaveDefault ==
    \A r \in Rows : DayOf[r] \in partitions => inDefault[r] = 0

TableInv == TableTyped /\ CreatorsOK /\ LocksOK /\ PartitionedLeaveDefault /\ NoRowTwice

LEMMA IdleIsOK ==
  ASSUME NEW days \in Seq(Days)
  PROVE  /\ Idle(days) \in CreatorRecords /\ RecordOK(Idle(days))
         /\ Idle(days).at \in Outside
         /\ [Idle(<< >>) EXCEPT !.at = "failed"] \in CreatorRecords
         /\ RecordOK([Idle(<< >>) EXCEPT !.at = "failed"])
         /\ [Idle(<< >>) EXCEPT !.at = "failed"].at = "failed"
<1>1. << >> \in Seq(Days)
  BY EmptySeq
<1>2. QED
  BY <1>1 DEF Idle, CreatorRecords, RecordOK, Places, Outside

(* A step of one creator that changes no row keeps the table in order if    *)
(* its new record is, and it respects the others' locks.                    *)
LEMMA LocalStep ==
  ASSUME TableInv, NEW c \in Creators, NEW k \in CreatorRecords, RecordOK(k),
         creator' = [creator EXCEPT ![c] = k],
         UNCHANGED <<partitions, inDefault, inPartition, open, raced, dropped>>,
         k.at \notin Outside => \A d \in OthersThan(c) : ~OwnsDefault(d),
         k.at = "created" => \A d \in OthersThan(c) : ~HoldsDefault(d),
         k.at \in {"locked", "created"} => Storing = {}
  PROVE  TableInv'
<1>1. creator \in [Creators -> CreatorRecords]
  BY DEF TableInv, TableTyped
<1>2. /\ creator' \in [Creators -> CreatorRecords] /\ creator'[c] = k
      /\ \A d \in Creators : d # c => creator'[d] = creator[d]
  BY <1>1
<1>3. TableTyped'
  BY <1>2 DEF TableInv, TableTyped, CreatorRecords
<1>4. CreatorsOK'
  <2>1. ASSUME NEW d \in Creators PROVE RecordOK(creator'[d])
    BY <1>2 DEF TableInv, CreatorsOK
  <2>2. \A x : RecordOK(x) => RecordOK(x)'
    BY DEF RecordOK, InDefaultOf
  <2>3. QED
    BY <2>1, <2>2 DEF CreatorsOK, RecordOK, InDefaultOf
<1>5. LocksOK'
  <2>1. ASSUME NEW a \in Creators, NEW b \in Creators, a # b, creator'[a].at = "created"
        PROVE  creator'[b].at \notin Places \ Outside
    <3>1. CASE a = c
      BY <3>1, <2>1, <1>2 DEF OthersThan, HoldsDefault
    <3>2. CASE b = c
      BY <3>2, <2>1, <1>2 DEF OthersThan, OwnsDefault
    <3>3. CASE a # c /\ b # c
      BY <3>3, <2>1, <1>2 DEF TableInv, LocksOK, OwnsDefault, HoldsDefault
    <3>4. QED
      BY <3>1, <3>2, <3>3
  <2>2. ASSUME NEW a \in Creators, creator'[a].at \in {"locked", "created"}
        PROVE  Storing = {}
    BY <2>2, <1>2 DEF TableInv, LocksOK, OwnsParent
  <2>3. Storing' = Storing
    BY DEF Storing
  <2>4. QED
    BY <2>1, <2>2, <2>3 DEF LocksOK, OwnsDefault, HoldsDefault, OwnsParent
<1>6. PartitionedLeaveDefault' /\ NoRowTwice'
  BY DEF TableInv, PartitionedLeaveDefault, NoRowTwice
<1>7. QED
  BY <1>3, <1>4, <1>5, <1>6 DEF TableInv

(* What a creator's record says of it.                                      *)
LEMMA RecordFacts ==
  ASSUME TableInv, NEW c \in Creators
  PROVE  /\ creator[c] \in CreatorRecords /\ RecordOK(creator[c])
         /\ creator[c].at \notin {"returned", "failed"} =>
               /\ creator[c].days \in Seq(Days) /\ Day(c) \in Days
               /\ Tail(creator[c].days) \in Seq(Days)
         /\ VisibleTo(c) = InDefaultOf(Day(c)) \ creator[c].gone
         /\ VisibleTo(c) \subseteq Rows
<1>1. creator[c] \in CreatorRecords /\ RecordOK(creator[c])
  BY DEF TableInv, TableTyped, CreatorsOK
<1>2. creator[c].days \in Seq(Days)
  BY <1>1 DEF CreatorRecords
<1>3. ASSUME creator[c].at \notin {"returned", "failed"}
      PROVE  Day(c) \in Days /\ Tail(creator[c].days) \in Seq(Days)
  <2>1. creator[c].days # << >>
    BY <1>1, <1>3 DEF RecordOK
  <2>2. QED
    BY <1>2, <2>1, HeadTailProperties DEF Day
<1>4. QED
  BY <1>1, <1>2, <1>3 DEF VisibleTo, InDefaultOf

(* The steps of a creator up to its DELETE, and those that give up.         *)
LEMMA CreatorChecks ==
  ASSUME TableInv, NEW c \in Creators, UNCHANGED <<open, raced>>,
         Exists(c) \/ ExistsNot(c) \/ AbortDeadlocked(c) \/ LoseConnection(c)
  PROVE  TableInv'
<1> DEFINE k == creator[c]
<1>1. k \in CreatorRecords /\ RecordOK(k)
  BY RecordFacts
<1>2. CASE Exists(c)
  <2>1. k.at = "checking" /\ Tail(k.days) \in Seq(Days)
    BY <1>2, RecordFacts DEF Exists
  <2>2. /\ NextDay(c) \in CreatorRecords /\ RecordOK(NextDay(c))
        /\ NextDay(c).at \in Outside
    BY <2>1, IdleIsOK DEF NextDay
  <2>3. QED
    BY <1>2, <2>2, LocalStep DEF Exists, Outside
<1>3. CASE ExistsNot(c)
  <2> DEFINE n == [k EXCEPT !.at = "absent"]
  <2>1. k.at = "checking" /\ creator' = [creator EXCEPT ![c] = n]
    BY <1>3 DEF ExistsNot, MoveTo
  <2>2. n \in CreatorRecords /\ n.at = "absent" /\ RecordOK(n)
    BY <1>1, <2>1 DEF CreatorRecords, RecordOK, Places, Outside
  <2> HIDE DEF n
  <2>3. QED
    BY <1>3, <2>1, <2>2, LocalStep DEF ExistsNot, Outside
<1>4. CASE AbortDeadlocked(c) \/ LoseConnection(c)
  <2> DEFINE n == [Idle(<< >>) EXCEPT !.at = "failed"]
  <2>1. n \in CreatorRecords /\ RecordOK(n) /\ n.at = "failed"
    BY IdleIsOK, EmptySeq
  <2>2. creator' = [creator EXCEPT ![c] = n]
    BY <1>4 DEF AbortDeadlocked, LoseConnection, Failed
  <2> HIDE DEF n
  <2>3. UNCHANGED <<partitions, inDefault, inPartition, dropped>>
    BY <1>4 DEF AbortDeadlocked, LoseConnection
  <2>4. QED
    BY <2>1, <2>2, <2>3, LocalStep DEF Outside
<1>5. QED
  BY <1>2, <1>3, <1>4

LEMMA CreatorCopies ==
  ASSUME TableInv, NEW c \in Creators, UNCHANGED <<open, raced>>,
         CopyToTemp(c) \/ StartDelete(c) \/ FinishDelete(c)
  PROVE  TableInv'
<1> DEFINE k == creator[c]
           d == Head(k.days)
<1>1. /\ k \in CreatorRecords /\ RecordOK(k)
      /\ VisibleTo(c) = InDefaultOf(d) \ k.gone /\ VisibleTo(c) \subseteq Rows
      /\ k.days # << >> \/ k.at \in {"returned", "failed"}
  BY RecordFacts DEF Day, RecordOK
<1>2. d \in partitions => InDefaultOf(d) = {}
  BY DEF TableInv, TableTyped, PartitionedLeaveDefault, InDefaultOf
<1>3. k.at \notin Outside => \A e \in OthersThan(c) : ~OwnsDefault(e)
  BY DEF TableInv, LocksOK, OthersThan, HoldsDefault, OwnsDefault, CreatorRecords, TableTyped
<1>4. UNCHANGED <<partitions, inDefault, inPartition, open, raced, dropped>>
  BY DEF CopyToTemp, StartDelete, FinishDelete
<1>5. CASE CopyToTemp(c)
  <2> DEFINE n == [k EXCEPT !.at = "copied", !.temp = VisibleTo(c)]
  <2>1. /\ k.at = "absent" /\ WaitsFor(c) = {}
        /\ creator' = [creator EXCEPT ![c] = n]
    BY <1>5 DEF CopyToTemp
  <2>2. \A e \in OthersThan(c) : ~OwnsDefault(e)
    BY <2>1 DEF WaitsFor
  <2>3. k.gone = {} /\ VisibleTo(c) = InDefaultOf(d)
    BY <1>1, <2>1 DEF RecordOK, Outside
  <2>4. /\ n \in CreatorRecords /\ n.at = "copied" /\ n.temp = InDefaultOf(d)
        /\ n.days = k.days /\ n.gone = {}
    BY <1>1, <2>3 DEF CreatorRecords, Places
  <2>5. RecordOK(n)
    BY <1>1, <1>2, <2>1, <2>4 DEF RecordOK, Outside
  <2> HIDE DEF n
  <2>6. QED
    BY <1>4, <2>1, <2>2, <2>4, <2>5, LocalStep
<1>6. CASE StartDelete(c)
  <2> DEFINE n == [k EXCEPT !.at = "deleting", !.aim = VisibleTo(c)]
  <2>1. k.at = "copied" /\ creator' = [creator EXCEPT ![c] = n]
    BY <1>6 DEF StartDelete
  <2>2. /\ n \in CreatorRecords /\ n.at = "deleting" /\ n.aim = VisibleTo(c)
        /\ n.days = k.days /\ n.gone = k.gone /\ n.temp = k.temp
    BY <1>1 DEF CreatorRecords, Places
  <2>3. RecordOK(n)
    BY <1>1, <2>1, <2>2 DEF RecordOK, Outside
  <2> HIDE DEF n
  <2>4. k.at \notin Outside
    BY <2>1 DEF Outside
  <2>5. QED
    BY <1>3, <1>4, <2>1, <2>2, <2>3, <2>4, LocalStep
<1>7. CASE FinishDelete(c)
  <2> DEFINE n == [k EXCEPT !.at = "deleted", !.gone = k.aim \cap VisibleTo(c)]
  <2>1. k.at = "deleting" /\ creator' = [creator EXCEPT ![c] = n]
    BY <1>7 DEF FinishDelete
  <2>2. /\ n \in CreatorRecords /\ n.at = "deleted" /\ n.gone = k.aim \cap VisibleTo(c)
        /\ n.days = k.days /\ n.temp = k.temp
    BY <1>1 DEF CreatorRecords, Places
  <2>3. RecordOK(n)
    BY <1>1, <1>2, <2>1, <2>2 DEF RecordOK, Outside
  <2> HIDE DEF n
  <2>4. k.at \notin Outside
    BY <2>1 DEF Outside
  <2>5. QED
    BY <1>3, <1>4, <2>1, <2>2, <2>3, <2>4, LocalStep
<1>8. QED
  BY <1>5, <1>6, <1>7

(* CREATE TABLE, with its two locks.                                        *)
LEMMA CreatorCreates ==
  ASSUME TableInv, NEW c \in Creators, UNCHANGED <<open, raced>>,
         SkipCreate(c) \/ StartCreate(c) \/ LockParent(c) \/ CreatePartition(c)
  PROVE  TableInv'
<1> DEFINE k == creator[c]
           d == Head(k.days)
<1>1. /\ k \in CreatorRecords /\ RecordOK(k)
      /\ VisibleTo(c) = InDefaultOf(d) \ k.gone
  BY RecordFacts DEF Day
<1>2. k.at \notin Outside => \A e \in OthersThan(c) : ~OwnsDefault(e)
  BY DEF TableInv, LocksOK, OthersThan, HoldsDefault, OwnsDefault, CreatorRecords, TableTyped
<1>3. UNCHANGED <<partitions, inDefault, inPartition, open, raced, dropped>>
  BY DEF SkipCreate, StartCreate, LockParent, CreatePartition
<1>4. CASE SkipCreate(c) \/ StartCreate(c) \/ (LockParent(c) /\ d \notin partitions)
  <2>1. PICK place \in {"skipped", "creating", "locked"} :
           /\ creator' = [creator EXCEPT ![c].at = place]
           /\ place = "skipped" => d \in partitions
           /\ place = "locked" => Storing = {}
    BY <1>4 DEF SkipCreate, StartCreate, LockParent, MoveTo, Day
  <2> DEFINE n == [k EXCEPT !.at = place]
  <2>2. k.at \in {"deleted", "creating"} /\ creator' = [creator EXCEPT ![c] = n]
    BY <1>4, <2>1 DEF SkipCreate, StartCreate, LockParent
  <2>3. /\ n \in CreatorRecords /\ n.at = place /\ n.gone = k.gone
        /\ n.days = k.days /\ n.temp = k.temp
    BY <1>1 DEF CreatorRecords, Places
  <2>4. RecordOK(n)
    BY <1>1, <2>1, <2>2, <2>3 DEF RecordOK, Outside
  <2> HIDE DEF n
  <2>5. k.at \notin Outside
    BY <2>2 DEF Outside
  <2>6. QED
    BY <1>2, <1>3, <2>1, <2>2, <2>3, <2>4, <2>5, LocalStep
<1>5. CASE \/ CreatePartition(c) /\ VisibleTo(c) # {}
           \/ LockParent(c) /\ d \in partitions
  <2> DEFINE n == [Idle(<< >>) EXCEPT !.at = "failed"]
  <2>1. n \in CreatorRecords /\ RecordOK(n) /\ n.at = "failed"
    BY IdleIsOK, EmptySeq
  <2>2. creator' = [creator EXCEPT ![c] = n]
    BY <1>5 DEF CreatePartition, LockParent, Failed, Day
  <2> HIDE DEF n
  <2>3. QED
    BY <1>3, <2>1, <2>2, LocalStep DEF Outside
<1>6. CASE CreatePartition(c) /\ VisibleTo(c) = {}
  <2> DEFINE n == [k EXCEPT !.at = "created"]
  <2>1. k.at = "locked" /\ WaitsFor(c) = {} /\ creator' = [creator EXCEPT ![c] = n]
    BY <1>6 DEF CreatePartition, MoveTo
  <2>2. \A e \in OthersThan(c) : ~HoldsDefault(e)
    BY <2>1 DEF WaitsFor
  <2>3. Storing = {}
    BY <2>1 DEF TableInv, LocksOK, OwnsParent
  <2>4. /\ n \in CreatorRecords /\ n.at = "created" /\ n.gone = k.gone
        /\ n.days = k.days /\ n.temp = k.temp
    BY <1>1 DEF CreatorRecords, Places
  <2>5. InDefaultOf(d) \subseteq k.gone
    BY <1>1, <1>6
  <2>6. RecordOK(n)
    BY <1>1, <2>1, <2>4, <2>5 DEF RecordOK, Outside
  <2> HIDE DEF n
  <2>7. k.at \notin Outside
    BY <2>1 DEF Outside
  <2>8. QED
    BY <1>2, <1>3, <2>1, <2>2, <2>3, <2>4, <2>6, <2>7, LocalStep
<1>7. QED
  BY <1>4, <1>5, <1>6

(* A creator that holds no lock has nothing to keep to but its days.        *)
LEMMA OutsideStaysOK ==
  ASSUME NEW k, RecordOK(k), k.at \in Outside
  PROVE  RecordOK(k)'
BY DEF RecordOK, Outside

(* What the commit of a created partition does to the rows.                 *)
LEMMA ReinsertFacts ==
  ASSUME TableInv, NEW c \in Creators, ReinsertAndCommit(c)
  PROVE  /\ inDefault' \in [Rows -> Nat] /\ inPartition' \in [Rows -> Nat]
         /\ \A r \in Rows :
               /\ inDefault'[r] = IF r \in creator[c].gone THEN 0 ELSE inDefault[r]
               /\ inPartition'[r] = inPartition[r] + IF r \in creator[c].temp THEN 1 ELSE 0
         /\ creator[c].temp \subseteq creator[c].gone
         /\ creator[c].gone \subseteq creator[c].temp \cup raced
         /\ \A r \in creator[c].temp : inDefault[r] = 1 /\ inPartition[r] = 0
<1>1. /\ creator[c] \in CreatorRecords /\ RecordOK(creator[c])
      /\ creator[c].at \in {"created", "skipped"}
      /\ inDefault \in [Rows -> Nat] /\ inPartition \in [Rows -> Nat]
  BY RecordFacts DEF ReinsertAndCommit, TableInv, TableTyped
<1>2. /\ inDefault' = [r \in Rows |-> IF r \in creator[c].gone THEN 0 ELSE inDefault[r]]
      /\ inPartition' = [r \in Rows |-> inPartition[r] + IF r \in creator[c].temp THEN 1 ELSE 0]
  BY DEF ReinsertAndCommit, Reinserted
<1>3. \A r \in Rows : inPartition[r] + (IF r \in creator[c].temp THEN 1 ELSE 0) \in Nat
  BY <1>1
<1>4. inDefault' \in [Rows -> Nat] /\ inPartition' \in [Rows -> Nat]
  BY <1>1, <1>2, <1>3
<1>5. /\ creator[c].temp \subseteq InDefaultOf(Head(creator[c].days))
      /\ creator[c].gone \subseteq creator[c].temp \cup raced
      /\ creator[c].temp \subseteq creator[c].gone
  BY <1>1 DEF RecordOK, Outside
<1>6. ASSUME NEW r \in creator[c].temp PROVE inDefault[r] = 1 /\ inPartition[r] = 0
  <2>1. r \in Rows /\ inDefault[r] > 0
    BY <1>5 DEF InDefaultOf
  <2>2. inDefault[r] \in Nat /\ inPartition[r] \in Nat /\ inDefault[r] + inPartition[r] <= 1
    BY <1>1, <2>1 DEF TableInv, NoRowTwice
  <2>3. QED
    BY <2>1, <2>2
<1>7. QED
  BY <1>2, <1>4, <1>5, <1>6

LEMMA CreatorReinserts ==
  ASSUME TableInv, NEW c \in Creators, UNCHANGED <<open, raced>>, ReinsertAndCommit(c)
  PROVE  TableInv'
<1> DEFINE k == creator[c]
           d == Head(k.days)
<1>1. /\ k \in CreatorRecords /\ RecordOK(k)
      /\ k.at \in {"created", "skipped"} /\ d \in Days
      /\ Tail(k.days) \in Seq(Days)
  BY RecordFacts DEF ReinsertAndCommit, Day
<1>2. /\ NextDay(c) \in CreatorRecords /\ RecordOK(NextDay(c)) /\ NextDay(c).at \in Outside
      /\ creator' = [creator EXCEPT ![c] = NextDay(c)]
      /\ UNCHANGED <<faults, dropped, open, raced>>
      /\ partitions' = partitions \cup {d}
  BY <1>1, IdleIsOK DEF NextDay, ReinsertAndCommit, Day
<1>3. /\ inDefault' \in [Rows -> Nat] /\ inPartition' \in [Rows -> Nat]
      /\ \A r \in Rows :
            /\ inDefault'[r] = IF r \in k.gone THEN 0 ELSE inDefault[r]
            /\ inPartition'[r] = inPartition[r] + IF r \in k.temp THEN 1 ELSE 0
      /\ k.temp \subseteq k.gone
      /\ \A r \in k.temp : inDefault[r] = 1 /\ inPartition[r] = 0
  BY ReinsertFacts
<1>4. inDefault \in [Rows -> Nat] /\ inPartition \in [Rows -> Nat]
  BY DEF TableInv, TableTyped
<1>5. CASE k.at = "skipped"
  <2>1. d \in partitions /\ k.temp = {} /\ k.gone = {}
    BY <1>1, <1>5 DEF RecordOK, Outside
  <2>2. inDefault' = inDefault /\ inPartition' = inPartition
    BY <1>3, <1>4, <2>1
  <2>3. partitions' = partitions
    BY <1>2, <2>1
  <2>4. QED
    BY <1>2, <2>2, <2>3, LocalStep DEF Outside
<1>6. CASE k.at = "created"
  <2>1. \A e \in Creators : e # c => creator[e].at \in Outside
    BY <1>6 DEF TableInv, LocksOK, OwnsDefault, HoldsDefault, TableTyped, CreatorRecords
  <2>2. /\ creator' \in [Creators -> CreatorRecords]
        /\ \A e \in Creators : creator'[e] = IF e = c THEN NextDay(c) ELSE creator[e]
    BY <1>2 DEF TableInv, TableTyped
  <2> HIDE DEF k, d
  <2>3. TableTyped'
    BY <1>1, <1>2, <1>3, <2>2 DEF TableInv, TableTyped, CreatorRecords
  <2>4. CreatorsOK'
    <3>1. ASSUME NEW e \in Creators
          PROVE  RecordOK(creator'[e]) /\ creator'[e].at \in Outside
      BY <1>2, <2>1, <2>2 DEF TableInv, CreatorsOK
    <3>2. \A x : RecordOK(x) /\ x.at \in Outside => RecordOK(x)'
      BY OutsideStaysOK
    <3>3. QED
      BY <3>1, <3>2 DEF CreatorsOK, RecordOK, InDefaultOf
  <2>5. LocksOK'
    BY <1>2, <2>1, <2>2 DEF LocksOK, OwnsDefault, HoldsDefault, OwnsParent, Outside
  <2>6. PartitionedLeaveDefault'
    <3>1. ASSUME NEW r \in Rows, DayOf[r] \in partitions \cup {d} PROVE inDefault'[r] = 0
      <4>1. CASE DayOf[r] \in partitions
        BY <1>3, <4>1 DEF TableInv, PartitionedLeaveDefault
      <4>2. CASE DayOf[r] = d
        <5>1. inDefault[r] > 0 => r \in k.gone
          BY <1>1, <1>6, <4>2 DEF RecordOK, InDefaultOf, d, k
        <5>2. inDefault[r] \in Nat
          BY <1>4
        <5>3. QED
          BY <1>3, <5>1, <5>2
      <4>3. QED
        BY <3>1, <4>1, <4>2
    <3>2. QED
      BY <1>2, <3>1 DEF PartitionedLeaveDefault
  <2>7. NoRowTwice'
    <3>1. ASSUME NEW r \in Rows PROVE inDefault'[r] + inPartition'[r] <= 1
      <4>1. inDefault[r] \in Nat /\ inPartition[r] \in Nat /\ inDefault[r] + inPartition[r] <= 1
        BY <1>4 DEF TableInv, NoRowTwice
      <4>2. CASE r \in k.temp
        BY <4>1, <4>2, <1>3
      <4>3. CASE r \notin k.temp
        <5>1. inPartition'[r] = inPartition[r] /\ inDefault'[r] \in {0, inDefault[r]}
          BY <4>1, <4>3, <1>3
        <5>2. QED
          BY <4>1, <5>1
      <4>4. QED
        BY <4>2, <4>3
    <3>2. QED
      BY <3>1 DEF NoRowTwice
  <2>8. QED
    BY <2>3, <2>4, <2>5, <2>6, <2>7 DEF TableInv
<1>7. QED
  BY <1>1, <1>5, <1>6

LEMMA PartitionDrops ==
  ASSUME TableInv, NEW d \in Days, UNCHANGED <<open, raced>>, DropPartition(d)
  PROVE  TableInv'
<1>1. /\ partitions' = partitions \ {d}
      /\ inPartition' = [r \in Rows |-> IF DayOf[r] = d THEN 0 ELSE inPartition[r]]
      /\ dropped' = dropped \cup {r \in Rows : DayOf[r] = d /\ inPartition[r] > 0}
      /\ UNCHANGED <<inDefault, creator>>
      /\ \A c \in Creators : ~OwnsParent(c) /\ ~HoldsDefault(c)
  BY DEF DropPartition
<1>2. \A c \in Creators : creator[c].at \in Outside
  BY <1>1 DEF HoldsDefault, TableInv, TableTyped, CreatorRecords
<1>3. TableTyped'
  BY <1>1 DEF TableInv, TableTyped, CreatorRecords
<1>4. CreatorsOK'
  <2>1. \A x : RecordOK(x) /\ x.at \in Outside => RecordOK(x)'
    BY OutsideStaysOK
  <2>2. \A c \in Creators : RecordOK(creator[c])
    BY DEF TableInv, CreatorsOK
  <2>3. creator' = creator
    BY <1>1
  <2>4. QED
    BY <1>2, <2>1, <2>2, <2>3 DEF CreatorsOK, RecordOK, InDefaultOf
<1>5. LocksOK'
  BY <1>1, <1>2 DEF LocksOK, OwnsDefault, HoldsDefault, OwnsParent, Outside
<1>6. PartitionedLeaveDefault'
  BY <1>1 DEF TableInv, PartitionedLeaveDefault
<1>7. NoRowTwice'
  <2>1. ASSUME NEW r \in Rows PROVE inDefault'[r] + inPartition'[r] <= 1
    <3>1. /\ inDefault[r] \in Nat /\ inPartition[r] \in Nat
          /\ inDefault[r] + inPartition[r] <= 1
      BY DEF TableInv, TableTyped, NoRowTwice
    <3>2. inDefault'[r] = inDefault[r] /\ inPartition'[r] \in {0, inPartition[r]}
      BY <1>1
    <3>3. QED
      BY <3>1, <3>2
  <2>2. QED
    BY <2>1 DEF NoRowTwice
<1>8. QED
  BY <1>3, <1>4, <1>5, <1>6, <1>7 DEF TableInv

LEMMA PartitionStepKeeps == TableInv /\ PartitionStep => TableInv'
<1> SUFFICES ASSUME TableInv, PartitionStep PROVE TableInv'
  OBVIOUS
<1>1. UNCHANGED <<open, raced>>
  BY DEF PartitionStep
<1>2. ASSUME NEW c \in Creators, CreatorStep(c) \/ LoseConnection(c) PROVE TableInv'
  BY <1>1, <1>2, CreatorChecks, CreatorCopies, CreatorCreates, CreatorReinserts
     DEF CreatorStep
<1>3. ASSUME NEW d \in Days, DropPartition(d) PROVE TableInv'
  BY <1>1, <1>3, PartitionDrops
<1>4. QED
  BY <1>2, <1>3 DEF PartitionStep

-----------------------------------------------------------------------------
(* Rows under partition management, and under a writer's transaction.       *)

Absent(r) == inDefault[r] = 0 /\ inPartition[r] = 0

(* In the table, or lost in a way that is on record.                        *)
Accounted(r) == Stored(r) \/ r \in raced \/ r \in dropped

(* Partition management brings no row into the table, and takes none out of *)
(* it that did not race with it or is dropped.                              *)
LEMMA PartitionStepRows ==
  ASSUME TableInv, PartitionStep, NEW r \in Rows
  PROVE  (Absent(r) => Absent(r)') /\ (Accounted(r) => Accounted(r)')
<1>1. /\ inDefault[r] \in Nat /\ inPartition[r] \in Nat
      /\ inDefault[r] + inPartition[r] <= 1
  BY DEF TableInv, TableTyped, NoRowTwice
<1>2. raced' = raced
  BY DEF PartitionStep
<1>3. CASE UNCHANGED <<inDefault, inPartition, dropped>>
  BY <1>2, <1>3 DEF Absent, Accounted, Stored
<1>4. CASE \E c \in Creators : ReinsertAndCommit(c)
  <2>1. PICK c \in Creators : ReinsertAndCommit(c)
    BY <1>4
  <2>2. /\ inDefault'[r] = IF r \in creator[c].gone THEN 0 ELSE inDefault[r]
        /\ inPartition'[r] = inPartition[r] + IF r \in creator[c].temp THEN 1 ELSE 0
        /\ creator[c].gone \subseteq creator[c].temp \cup raced
        /\ \A x \in creator[c].temp : inDefault[x] = 1 /\ inPartition[x] = 0
    BY <2>1, ReinsertFacts
  <2>3. dropped' = dropped
    BY <2>1 DEF ReinsertAndCommit
  <2>4. CASE r \in creator[c].temp
    BY <1>1, <2>2, <2>4 DEF Absent, Accounted, Stored
  <2>5. CASE r \notin creator[c].temp /\ r \in creator[c].gone
    BY <1>1, <1>2, <2>2, <2>5 DEF Absent, Accounted, Stored
  <2>6. CASE r \notin creator[c].temp /\ r \notin creator[c].gone
    <3>1. inDefault'[r] = inDefault[r] /\ inPartition'[r] = inPartition[r]
      BY <1>1, <2>2, <2>6
    <3>2. QED
      BY <1>2, <2>3, <3>1 DEF Absent, Accounted, Stored
  <2>7. QED
    BY <2>4, <2>5, <2>6
<1>5. CASE \E d \in Days : DropPartition(d)
  <2>1. PICK d \in Days : DropPartition(d)
    BY <1>5
  <2>2. /\ inDefault' = inDefault
        /\ inPartition'[r] = IF DayOf[r] = d THEN 0 ELSE inPartition[r]
        /\ dropped' = dropped \cup {x \in Rows : DayOf[x] = d /\ inPartition[x] > 0}
    BY <2>1 DEF DropPartition
  <2>3. CASE DayOf[r] = d /\ inPartition[r] > 0
    BY <1>1, <2>2, <2>3 DEF Absent, Accounted, Stored
  <2>4. CASE ~ (DayOf[r] = d /\ inPartition[r] > 0)
    <3>1. inPartition'[r] = inPartition[r] /\ inDefault'[r] = inDefault[r]
      BY <1>1, <2>2, <2>4
    <3>2. QED
      BY <1>2, <2>2, <3>1 DEF Absent, Accounted, Stored
  <2>5. QED
    BY <2>3, <2>4
<1>6. \A c \in Creators : CreatorStep(c) \/ LoseConnection(c) =>
         ReinsertAndCommit(c) \/ UNCHANGED <<inDefault, inPartition, dropped>>
  BY DEF CreatorStep, LoseConnection, Exists, ExistsNot, CopyToTemp, StartDelete,
         FinishDelete, SkipCreate, StartCreate, LockParent, CreatePartition, AbortDeadlocked
<1>7. QED
  BY <1>3, <1>4, <1>5, <1>6 DEF PartitionStep

LEMMA InsertKeeps ==
  ASSUME TableInv, NEW w \in Writers, NEW r \in Rows, InsertRow(w, r)
  PROVE  TableInv'
<1>1. /\ open' = [open EXCEPT ![w] = @ \cup {r}]
      /\ UNCHANGED <<partitions, inDefault, inPartition, creator, faults, dropped, raced>>
      /\ \A c \in Creators : ~OwnsParent(c)
  BY DEF InsertRow, creatorVars
<1>2. TableTyped'
  BY <1>1 DEF TableInv, TableTyped, CreatorRecords
<1>3. CreatorsOK'
  BY <1>1 DEF TableInv, CreatorsOK, RecordOK, InDefaultOf
<1>4. LocksOK'
  BY <1>1 DEF TableInv, LocksOK, OwnsDefault, HoldsDefault, OwnsParent
<1>5. PartitionedLeaveDefault' /\ NoRowTwice'
  BY <1>1 DEF TableInv, PartitionedLeaveDefault, NoRowTwice
<1>6. QED
  BY <1>2, <1>3, <1>4, <1>5 DEF TableInv

LEMMA RollBackKeeps ==
  ASSUME TableInv, NEW w \in Writers, RollBack(w)
  PROVE  TableInv'
<1>1. /\ open' = [open EXCEPT ![w] = {}]
      /\ UNCHANGED <<partitions, inDefault, inPartition, creator, faults, dropped, raced>>
  BY DEF RollBack, creatorVars
<1>2. TableTyped'
  BY <1>1 DEF TableInv, TableTyped, CreatorRecords
<1>3. CreatorsOK'
  BY <1>1 DEF TableInv, CreatorsOK, RecordOK, InDefaultOf
<1>4. LocksOK'
  <2>1. Storing' \subseteq Storing
    BY <1>1 DEF Storing, TableInv, TableTyped
  <2>2. QED
    BY <1>1, <2>1 DEF TableInv, LocksOK, OwnsDefault, HoldsDefault, OwnsParent
<1>5. PartitionedLeaveDefault' /\ NoRowTwice'
  BY <1>1 DEF TableInv, PartitionedLeaveDefault, NoRowTwice
<1>6. QED
  BY <1>2, <1>3, <1>4, <1>5 DEF TableInv

(* Where the rows of a transaction go.                                      *)
LEMMA CommitFacts ==
  ASSUME TableInv, NEW w \in Writers, CommitRows(w),
         \A r \in open[w] : Absent(r)
  PROVE  /\ inDefault' \in [Rows -> Nat] /\ inPartition' \in [Rows -> Nat]
         /\ \A r \in Rows : r \notin open[w] =>
               inDefault'[r] = inDefault[r] /\ inPartition'[r] = inPartition[r]
         /\ \A r \in open[w] :
               IF DayOf[r] \in partitions
               THEN inDefault'[r] = 0 /\ inPartition'[r] = 1
               ELSE inDefault'[r] = 1 /\ inPartition'[r] = 0
<1> DEFINE routed == {r \in open[w] : DayOf[r] \in partitions}
<1>1. /\ inDefault \in [Rows -> Nat] /\ inPartition \in [Rows -> Nat]
      /\ open[w] \subseteq Rows
  BY DEF TableInv, TableTyped
<1>2. /\ inPartition' = [r \in Rows |-> inPartition[r] + IF r \in routed THEN 1 ELSE 0]
      /\ inDefault' = [r \in Rows |-> inDefault[r] + IF r \in open[w] \ routed THEN 1 ELSE 0]
  BY DEF CommitRows
<1> HIDE DEF routed
<1>3. \A r \in Rows : /\ inPartition[r] + (IF r \in routed THEN 1 ELSE 0) \in Nat
                      /\ inDefault[r] + (IF r \in open[w] \ routed THEN 1 ELSE 0) \in Nat
  BY <1>1
<1>4. inDefault' \in [Rows -> Nat] /\ inPartition' \in [Rows -> Nat]
  BY <1>2, <1>3
<1>5. ASSUME NEW r \in Rows, r \notin open[w]
      PROVE  inDefault'[r] = inDefault[r] /\ inPartition'[r] = inPartition[r]
  <2>1. r \notin routed
    BY <1>5 DEF routed
  <2>2. QED
    BY <1>1, <1>2, <1>5, <2>1
<1>6. ASSUME NEW r \in open[w]
      PROVE  IF DayOf[r] \in partitions
             THEN inDefault'[r] = 0 /\ inPartition'[r] = 1
             ELSE inDefault'[r] = 1 /\ inPartition'[r] = 0
  <2>1. r \in Rows /\ inDefault[r] = 0 /\ inPartition[r] = 0
    BY <1>1 DEF Absent
  <2>2. r \in routed <=> DayOf[r] \in partitions
    BY DEF routed
  <2>3. QED
    BY <1>2, <2>1, <2>2
<1>7. QED
  BY <1>4, <1>5, <1>6

LEMMA CommitKeeps ==
  ASSUME TableInv, NEW w \in Writers, CommitRows(w),
         \A r \in open[w] : Absent(r)
  PROVE  TableInv'
<1>1. /\ raced' = raced \cup {r \in open[w] \ {x \in open[w] : DayOf[x] \in partitions} :
                        \E c \in Creators : creator[c].at = "copied" /\ Day(c) = DayOf[r]}
      /\ open' = [open EXCEPT ![w] = {}]
      /\ UNCHANGED <<partitions, creator, faults, dropped>>
  BY DEF CommitRows
<1>2. /\ inDefault' \in [Rows -> Nat] /\ inPartition' \in [Rows -> Nat]
      /\ \A r \in Rows : r \notin open[w] =>
            inDefault'[r] = inDefault[r] /\ inPartition'[r] = inPartition[r]
      /\ \A r \in open[w] :
            IF DayOf[r] \in partitions
            THEN inDefault'[r] = 0 /\ inPartition'[r] = 1
            ELSE inDefault'[r] = 1 /\ inPartition'[r] = 0
  BY CommitFacts
<1>3. open[w] \subseteq Rows
  BY DEF TableInv, TableTyped
<1>4. TableTyped'
  BY <1>1, <1>2, <1>3 DEF TableInv, TableTyped, CreatorRecords
<1>5. \A r \in Rows : inDefault[r] > 0 => r \notin open[w] /\ inDefault'[r] > 0
  BY <1>2, <1>3 DEF Absent
<1>6. CreatorsOK'
  <2>1. ASSUME NEW c \in Creators PROVE RecordOK(creator[c])'
    <3> DEFINE k == creator[c]
               d == Head(k.days)
    <3>1. RecordOK(k)
      BY DEF TableInv, CreatorsOK
    <3>2. creator'[c] = k /\ partitions' = partitions /\ raced \subseteq raced'
      BY <1>1
    <3>3. InDefaultOf(d) \subseteq {r \in Rows : DayOf[r] = d /\ inDefault'[r] > 0}
      BY <1>5 DEF InDefaultOf
    <3>4. ASSUME k.at = "copied", NEW r \in Rows, DayOf[r] = d, inDefault'[r] > 0
          PROVE  r \in k.temp \cup raced'
      <4>1. CASE r \in open[w]
        <5>1. DayOf[r] \notin partitions
          BY <4>1, <3>4, <1>2
        <5>2. r \in raced'
          BY <5>1, <4>1, <3>4, <1>1 DEF Day
        <5>3. QED
          BY <5>2
      <4>2. CASE r \notin open[w]
        <5>1. r \in InDefaultOf(d)
          BY <4>2, <3>4, <1>2 DEF InDefaultOf
        <5>2. QED
          BY <5>1, <3>1, <3>2, <3>4 DEF RecordOK
      <4>3. QED
        BY <4>1, <4>2
    <3>5. ASSUME k.at = "created", NEW r \in Rows, DayOf[r] = d, inDefault'[r] > 0
          PROVE  r \in k.gone
      <4>1. open[w] = {}
        BY <3>5 DEF TableInv, LocksOK, OwnsParent, Storing
      <4>2. r \in InDefaultOf(d)
        BY <4>1, <3>5, <1>2 DEF InDefaultOf
      <4>3. QED
        BY <4>2, <3>1, <3>5 DEF RecordOK
    <3>6. (InDefaultOf(d))' = {r \in Rows : DayOf[r] = d' /\ inDefault'[r] > 0} /\ d' = d
      BY <3>2 DEF InDefaultOf
    <3> HIDE DEF k
    <3>7. RecordOK(k)'
      <4>1. k' = k
        BY <3>2 DEF k
      <4>2. QED
        BY <3>1, <3>2, <3>3, <3>4, <3>5, <4>1 DEF RecordOK, InDefaultOf
    <3>8. QED
      BY <3>7 DEF k
  <2>2. QED
    BY <2>1 DEF CreatorsOK
<1>7. LocksOK'
  <2>1. Storing' \subseteq Storing
    BY <1>1 DEF Storing, TableInv, TableTyped
  <2>2. QED
    BY <1>1, <2>1 DEF TableInv, LocksOK, OwnsDefault, HoldsDefault, OwnsParent
<1>8. PartitionedLeaveDefault'
  <2>1. ASSUME NEW r \in Rows, DayOf[r] \in partitions PROVE inDefault'[r] = 0
    <3>1. inDefault[r] = 0
      BY <2>1 DEF TableInv, PartitionedLeaveDefault
    <3>2. CASE r \in open[w]
      BY <2>1, <3>2, <1>2
    <3>3. CASE r \notin open[w]
      BY <3>1, <3>3, <1>2
    <3>4. QED
      BY <3>2, <3>3
  <2>2. QED
    BY <1>1, <2>1 DEF PartitionedLeaveDefault
<1>9. NoRowTwice'
  <2>1. ASSUME NEW r \in Rows PROVE inDefault'[r] + inPartition'[r] <= 1
    <3>1. CASE r \in open[w]
      <4>1. CASE DayOf[r] \in partitions
        BY <3>1, <4>1, <1>2
      <4>2. CASE DayOf[r] \notin partitions
        BY <3>1, <4>2, <1>2
      <4>3. QED
        BY <4>1, <4>2
    <3>2. CASE r \notin open[w]
      BY <3>2, <1>2 DEF TableInv, NoRowTwice
    <3>3. QED
      BY <3>1, <3>2
  <2>2. QED
    BY <2>1 DEF NoRowTwice
<1>10. QED
  BY <1>4, <1>6, <1>7, <1>8, <1>9 DEF TableInv

-----------------------------------------------------------------------------
(* The stream: its buffer and what is to come are the rest of the feed, of  *)
(* which nothing is in the table yet.                                       *)

StreamRecords ==
    [at : {"listening", "storing", "flushing", "done"}, buffer : Seq(Rows), coming : Seq(Rows)]

(* How many events of the feed are through: stored, or given up.            *)
Through(w) == Len(Feed[w]) - Len(stream[w].coming) - Len(stream[w].buffer)

WriterInOrder(w) ==
    /\ Through(w) \in Nat
    /\ \A k \in 1 .. Len(stream[w].buffer) :
          stream[w].buffer[k] = Feed[w][Through(w) + k]
    /\ \A k \in 1 .. Len(stream[w].coming) :
          stream[w].coming[k] = Feed[w][Through(w) + Len(stream[w].buffer) + k]
    /\ open[w] \subseteq Buffered(w)
    /\ stream[w].at = "done" => stream[w].buffer = << >>

FeedInOrder == \A w \in Writers : WriterInOrder(w)

NotStoredYet ==
    \A w \in Writers : \A i \in 1 .. Len(Feed[w]) : Through(w) < i => Absent(Feed[w][i])

StreamInv == stream \in [Writers -> StreamRecords] /\ FeedInOrder /\ NotStoredYet

LEMMA FeedFacts ==
  ASSUME NEW w \in Writers
  PROVE  /\ Len(Feed[w]) \in Nat /\ DOMAIN Feed[w] = 1 .. Len(Feed[w])
         /\ \A i \in 1 .. Len(Feed[w]) : Feed[w][i] \in Rows /\ Feed[w][i] \notin OldRows
<1>1. Feed[w] \in Seq(Rows \ OldRows)
  BY FeedAssumption
<1>2. QED
  BY <1>1, LenProperties, ElementOfSeq

LEMMA StreamFacts ==
  ASSUME StreamInv, NEW w \in Writers
  PROVE  /\ stream[w] \in StreamRecords
         /\ stream[w].buffer \in Seq(Rows) /\ stream[w].coming \in Seq(Rows)
         /\ Len(stream[w].buffer) \in Nat /\ Len(stream[w].coming) \in Nat
         /\ Through(w) \in Nat
         /\ Through(w) + Len(stream[w].buffer) + Len(stream[w].coming) = Len(Feed[w])
<1>1. stream[w] \in StreamRecords /\ Through(w) \in Nat
  BY DEF StreamInv, FeedInOrder, WriterInOrder
<1>2. stream[w].buffer \in Seq(Rows) /\ stream[w].coming \in Seq(Rows)
  BY <1>1 DEF StreamRecords
<1>3. Len(stream[w].buffer) \in Nat /\ Len(stream[w].coming) \in Nat
  BY <1>2, LenProperties
<1>4. Through(w) + Len(stream[w].buffer) + Len(stream[w].coming) = Len(Feed[w])
  <2>1. Through(w) = Len(Feed[w]) - Len(stream[w].coming) - Len(stream[w].buffer)
    BY DEF Through
  <2>2. Len(Feed[w]) \in Nat
    BY FeedFacts
  <2>3. QED
    BY <2>1, <2>2, <1>3
<1>5. QED
  BY <1>1, <1>2, <1>3, <1>4

(* What a writer has and is to get changes with its own steps only.         *)
LEMMA WriterUntouched ==
  ASSUME FeedInOrder, NEW v \in Writers,
         stream'[v] = stream[v], open'[v] = open[v]
  PROVE  WriterInOrder(v)'
<1>1. Through(v)' = Through(v) /\ Buffered(v)' = Buffered(v)
  BY DEF Through, Buffered
<1>2. WriterInOrder(v)
  BY DEF FeedInOrder
<1>3. QED
  BY <1>1, <1>2, Zenon DEF WriterInOrder

(* The buffered rows, by their places in the feed.                          *)
LEMMA BufferedPlaces ==
  ASSUME StreamInv, NEW w \in Writers, NEW r \in Buffered(w)
  PROVE  \E i \in 1 .. Len(Feed[w]) :
            /\ r = Feed[w][i]
            /\ Through(w) < i /\ i <= Through(w) + Len(stream[w].buffer)
<1>1. PICK k \in 1 .. Len(stream[w].buffer) : r = stream[w].buffer[k]
  BY DEF Buffered
<1>2. r = Feed[w][Through(w) + k]
  BY <1>1 DEF StreamInv, FeedInOrder, WriterInOrder
<1>3. /\ Through(w) + k \in 1 .. Len(Feed[w]) /\ Through(w) < Through(w) + k
      /\ Through(w) + k <= Through(w) + Len(stream[w].buffer)
  <2> DEFINE t == Through(w)
             b == Len(stream[w].buffer)
             c == Len(stream[w].coming)
             n == Len(Feed[w])
  <2>1. b \in Nat /\ c \in Nat /\ t \in Nat /\ t + b + c = n
    BY StreamFacts
  <2>2. k \in 1 .. b
    OBVIOUS
  <2> HIDE DEF t, b, c, n
  <2>3. t + k \in 1 .. n /\ t < t + k /\ t + k <= t + b
    BY <2>1, <2>2
  <2>4. QED
    BY <2>3 DEF t, b, n
<1>4. QED
  BY <1>2, <1>3

LEMMA OpenIsAbsent ==
  ASSUME StreamInv, NEW w \in Writers
  PROVE  \A r \in open[w] : Absent(r)
<1>1. ASSUME NEW r \in open[w] PROVE Absent(r)
  <2>1. r \in Buffered(w)
    BY DEF StreamInv, FeedInOrder, WriterInOrder
  <2>2. QED
    BY <2>1, BufferedPlaces DEF StreamInv, NotStoredYet
<1>2. QED
  BY <1>1

(* A step that does not touch the streams and brings no row into the table. *)
LEMMA StreamsKept ==
  ASSUME StreamInv, stream' = stream, open' = open,
         \A r \in Rows : Absent(r) => Absent(r)'
  PROVE  StreamInv'
<1>1. \A w \in Writers : Through(w)' = Through(w) /\ Buffered(w)' = Buffered(w)
  BY DEF Through, Buffered
<1>2. FeedInOrder'
  <2>1. ASSUME NEW w \in Writers PROVE WriterInOrder(w)'
    BY WriterUntouched DEF StreamInv
  <2>2. QED
    BY <2>1 DEF FeedInOrder
<1>3. NotStoredYet'
  BY <1>1, FeedFacts DEF StreamInv, NotStoredYet, Absent
<1>4. QED
  BY <1>2, <1>3 DEF StreamInv

(* A step of one stream: its record is replaced, nothing comes in.          *)
LEMMA OneStreamStep ==
  ASSUME StreamInv, NEW w \in Writers, NEW k \in StreamRecords,
         stream' = [stream EXCEPT ![w] = k],
         NEW n \in Nat, n = Len(Feed[w]) - Len(k.coming) - Len(k.buffer), Through(w) <= n,
         \A j \in 1 .. Len(k.buffer) :
            k.buffer[j] = Feed[w][n + j],
         \A j \in 1 .. Len(k.coming) :
            k.coming[j] = Feed[w][n + Len(k.buffer) + j],
         k.at = "done" => k.buffer = << >>,
         open' \in [Writers -> SUBSET Rows],
         open'[w] \subseteq {k.buffer[j] : j \in 1 .. Len(k.buffer)},
         \A v \in Writers : v # w => open'[v] = open[v],
         \A v \in Writers : \A i \in 1 .. Len(Feed[v]) :
            /\ Absent(Feed[v][i])
            /\ v = w => n < i
            => Absent(Feed[v][i])'
  PROVE  StreamInv' /\ Through(w)' = n /\ \A v \in Writers : v # w => Through(v)' = Through(v)
<1>1. /\ stream' \in [Writers -> StreamRecords] /\ stream'[w] = k
      /\ \A v \in Writers : v # w => stream'[v] = stream[v]
  BY DEF StreamInv
<1>2. /\ Through(w)' = n
      /\ \A v \in Writers : v # w => Through(v)' = Through(v)
  BY <1>1 DEF Through
<1>3. /\ Buffered(w)' = {k.buffer[j] : j \in 1 .. Len(k.buffer)}
      /\ \A v \in Writers : v # w => Buffered(v)' = Buffered(v)
  BY <1>1 DEF Buffered
<1>4. FeedInOrder'
  <2>1. ASSUME NEW v \in Writers
        PROVE  WriterInOrder(v)'
    <3>1. CASE v = w
      <4>1. /\ Through(v)' \in Nat /\ Through(v)' = n /\ stream'[v] = k
            /\ open'[v] \subseteq Buffered(v)'
        BY <3>1, <1>1, <1>2, <1>3
      <4>2. /\ \A j \in 1 .. Len(stream'[v].buffer) :
                   stream'[v].buffer[j] = Feed[v][Through(v)' + j]
            /\ \A j \in 1 .. Len(stream'[v].coming) :
                   stream'[v].coming[j] = Feed[v][Through(v)' + Len(stream'[v].buffer) + j]
            /\ stream'[v].at = "done" => stream'[v].buffer = << >>
        BY <3>1, <4>1
      <4>3. QED
        BY <4>1, <4>2, Zenon DEF WriterInOrder
    <3>2. CASE v # w
      <4>1. stream'[v] = stream[v] /\ open'[v] = open[v] /\ FeedInOrder
        BY <3>2, <1>1 DEF StreamInv
      <4>2. QED
        BY <4>1, WriterUntouched
    <3>3. QED
      BY <3>1, <3>2
  <2>2. QED
    BY <2>1 DEF FeedInOrder
<1>5. NotStoredYet'
  <2>1. ASSUME NEW v \in Writers, NEW i \in 1 .. Len(Feed[v]), Through(v)' < i
        PROVE  Absent(Feed[v][i])'
    <3>1. i \in Nat /\ Through(v) \in Nat
      BY FeedFacts, StreamFacts
    <3>2. Through(v) < i
      <4>1. CASE v = w
        <5>1. n < i
          BY <4>1, <2>1, <1>2
        <5>2. Through(w) \in Nat /\ i \in Nat
          BY <4>1, <3>1
        <5>3. Through(w) <= n /\ n \in Nat
          OBVIOUS
        <5>4. Through(w) < i
          BY ONLY <5>1, <5>2, <5>3
        <5>5. QED
          BY <4>1, <5>4
      <4>2. CASE v # w
        BY <4>2, <2>1, <1>2
      <4>3. QED
        BY <4>1, <4>2
    <3>3. Absent(Feed[v][i])
      BY <3>2 DEF StreamInv, NotStoredYet
    <3>4. v = w => n < i
      BY <2>1, <1>2
    <3>5. QED
      BY <3>3, <3>4
  <2>2. QED
    BY <2>1 DEF NotStoredYet
<1>6. QED
  BY <1>1, <1>2, <1>4, <1>5 DEF StreamInv

(* Event, Quiet and StreamEnds leave the table alone.                       *)
LEMMA LoopKeeps ==
  ASSUME TableInv, StreamInv, NEW w \in Writers, Event(w) \/ Quiet(w) \/ StreamEnds(w)
  PROVE  TableInv' /\ StreamInv' /\ \A v \in Writers : Through(v)' = Through(v)
<1> DEFINE k == stream[w]
           n == Through(w)
<1>1. /\ UNCHANGED <<partitions, inDefault, inPartition, creator, faults, dropped, open, raced>>
      /\ open \in [Writers -> SUBSET Rows]
  BY DEF Event, Quiet, StreamEnds, tableVars, creatorVars, TableInv, TableTyped
<1>2. TableInv'
  BY <1>1 DEF TableInv, TableTyped, CreatorsOK, RecordOK, InDefaultOf, LocksOK, OwnsDefault,
              HoldsDefault, OwnsParent, Storing, PartitionedLeaveDefault, NoRowTwice,
              CreatorRecords
<1>3. \A r : Absent(r)' <=> Absent(r)
  BY <1>1 DEF Absent
<1>4. /\ k \in StreamRecords /\ k.buffer \in Seq(Rows) /\ k.coming \in Seq(Rows)
      /\ Len(k.buffer) \in Nat /\ Len(k.coming) \in Nat /\ n \in Nat
      /\ n + Len(k.buffer) + Len(k.coming) = Len(Feed[w])
  BY StreamFacts
<1>5. /\ \A j \in 1 .. Len(k.buffer) : k.buffer[j] = Feed[w][n + j]
      /\ \A j \in 1 .. Len(k.coming) : k.coming[j] = Feed[w][n + Len(k.buffer) + j]
      /\ open[w] \subseteq {k.buffer[j] : j \in 1 .. Len(k.buffer)}
  BY DEF StreamInv, FeedInOrder, WriterInOrder, Buffered
<1>6. n = Len(Feed[w]) - Len(k.coming) - Len(k.buffer)
  BY DEF Through
<1>7. stream \in [Writers -> StreamRecords]
  BY DEF StreamInv
<1> HIDE DEF n
<1>8. CASE Event(w)
  <2> DEFINE x == Head(k.coming)
             b == Append(k.buffer, x)
             t == Tail(k.coming)
             at == IF BatchIsFull(b) THEN "storing" ELSE "listening"
             e == [at |-> at, buffer |-> b, coming |-> t]
  <2>1. /\ k.coming # << >>
        /\ stream' = [stream EXCEPT ![w] = e]
    BY <1>8 DEF Event
  <2>2. /\ x \in Rows /\ t \in Seq(Rows) /\ Len(t) = Len(k.coming) - 1
        /\ \A j \in 1 .. Len(t) : t[j] = k.coming[j + 1]
        /\ Len(k.coming) >= 1 /\ x = k.coming[1]
    BY <2>1, <1>4, HeadTailProperties, EmptySeq
  <2>3. /\ b \in Seq(Rows) /\ Len(b) = Len(k.buffer) + 1
        /\ \A j \in 1 .. Len(k.buffer) : b[j] = k.buffer[j]
        /\ b[Len(k.buffer) + 1] = x
    BY <2>2, <1>4, AppendProperties
  <2>4. e \in StreamRecords /\ e.at # "done" /\ e.buffer = b /\ e.coming = t
    BY <2>2, <2>3 DEF StreamRecords
  <2> HIDE DEF e, at, b, t, x
  <2>5. n = Len(Feed[w]) - Len(e.coming) - Len(e.buffer)
    <3>1. Len(Feed[w]) \in Nat
      BY FeedFacts
    <3>2. Len(e.coming) = Len(k.coming) - 1 /\ Len(e.buffer) = Len(k.buffer) + 1
      BY <2>2, <2>3, <2>4
    <3>3. QED
      BY <3>1, <3>2, <1>4, <1>6
  <2>6. \A j \in 1 .. Len(e.buffer) : e.buffer[j] = Feed[w][n + j]
    <3>1. ASSUME NEW j \in 1 .. Len(b) PROVE b[j] = Feed[w][n + j]
      <4>1. CASE j \in 1 .. Len(k.buffer)
        BY <4>1, <2>3, <1>5
      <4>2. CASE j = Len(k.buffer) + 1
        <5>1. 1 \in 1 .. Len(k.coming)
          BY <2>2, <1>4
        <5>2. x = Feed[w][n + Len(k.buffer) + 1]
          BY <5>1, <2>2, <1>5
        <5>3. n + Len(k.buffer) + 1 = n + j
          BY <4>2, <1>4
        <5>4. QED
          BY <4>2, <5>2, <5>3, <2>3
      <4>3. j \in 1 .. Len(k.buffer) \/ j = Len(k.buffer) + 1
        BY <2>3, <1>4
      <4>4. QED
        BY <4>1, <4>2, <4>3
    <3>2. QED
      BY <3>1, <2>4
  <2>7. \A j \in 1 .. Len(e.coming) : e.coming[j] = Feed[w][n + Len(e.buffer) + j]
    <3>1. ASSUME NEW j \in 1 .. Len(t) PROVE t[j] = Feed[w][n + Len(b) + j]
      <4>1. j + 1 \in 1 .. Len(k.coming)
        BY <2>2, <1>4
      <4>2. t[j] = Feed[w][n + Len(k.buffer) + (j + 1)]
        BY <4>1, <2>2, <1>5
      <4>3. n + Len(k.buffer) + (j + 1) = n + Len(b) + j
        <5>1. \A p, q, i \in Int : p + q + (i + 1) = p + (q + 1) + i
          OBVIOUS
        <5>2. n \in Int /\ Len(k.buffer) \in Int /\ j \in Int
          BY <1>4
        <5>3. n + Len(k.buffer) + (j + 1) = n + (Len(k.buffer) + 1) + j
          BY <5>1, <5>2
        <5>4. QED
          BY <5>3, <2>3
      <4>4. QED
        BY <4>2, <4>3
    <3>2. QED
      BY <3>1, <2>4
  <2>8. open[w] \subseteq {e.buffer[j] : j \in 1 .. Len(e.buffer)}
    <3>1. ASSUME NEW j \in 1 .. Len(k.buffer)
          PROVE  k.buffer[j] = e.buffer[j] /\ j \in 1 .. Len(e.buffer)
      BY <2>3, <2>4, <1>4
    <3>2. QED
      BY <3>1, <1>5
  <2>9. StreamInv' /\ Through(w)' = n /\ \A v \in Writers : v # w => Through(v)' = Through(v)
    <3>1. n \in Nat /\ Through(w) <= n
      BY <1>4 DEF n
    <3>2. QED
      BY <3>1, <1>1, <1>3, <2>1, <2>4, <2>5, <2>6, <2>7, <2>8, OneStreamStep
  <2>10. QED
    BY <1>2, <2>9 DEF n
<1>9. CASE Quiet(w) \/ StreamEnds(w)
  <2> DEFINE e == [k EXCEPT !.at = AfterLoop(w)]
  <2>1. stream' = [stream EXCEPT ![w] = e]
    BY <1>9 DEF Quiet, StreamEnds
  <2>2. /\ e \in StreamRecords /\ e.buffer = k.buffer /\ e.coming = k.coming
        /\ e.at = "done" => e.buffer = << >>
    BY <1>4 DEF StreamRecords, AfterLoop
  <2> HIDE DEF e
  <2>3. n \in Nat /\ Through(w) <= n
    BY <1>4 DEF n
  <2>4. /\ n = Len(Feed[w]) - Len(e.coming) - Len(e.buffer)
        /\ \A j \in 1 .. Len(e.buffer) : e.buffer[j] = Feed[w][n + j]
        /\ \A j \in 1 .. Len(e.coming) : e.coming[j] = Feed[w][n + Len(e.buffer) + j]
        /\ open[w] \subseteq {e.buffer[j] : j \in 1 .. Len(e.buffer)}
    <3>1. n = Len(Feed[w]) - Len(e.coming) - Len(e.buffer)
      BY <1>6, <2>2
    <3>2. \A j \in 1 .. Len(e.buffer) : e.buffer[j] = Feed[w][n + j]
      BY <1>5, <2>2
    <3>3. \A j \in 1 .. Len(e.coming) : e.coming[j] = Feed[w][n + Len(e.buffer) + j]
      BY <1>5, <2>2
    <3>4. open[w] \subseteq {e.buffer[j] : j \in 1 .. Len(e.buffer)}
      BY <1>5, <2>2
    <3>5. QED
      BY <3>1, <3>2, <3>3, <3>4
  <2>5. StreamInv' /\ Through(w)' = n /\ \A v \in Writers : v # w => Through(v)' = Through(v)
    BY <1>1, <1>3, <2>1, <2>2, <2>3, <2>4, OneStreamStep
  <2>6. QED
    BY <1>2, <2>5 DEF n
<1>10. QED
  BY <1>8, <1>9

(* A nonempty set of naturals has a least element.                          *)
LEMMA LeastOf ==
  ASSUME NEW T, T \subseteq Nat, T # {}
  PROVE  \E m \in T : \A n \in T : m <= n
<1> DEFINE R == OpToRel(<, Nat)
<1>1. IsWellFoundedOn(R, Nat)
  BY NatLessThanWellFounded
<1>2. \A m, n \in Nat : n < m => <<n, m>> \in R
  BY DEF OpToRel
<1> HIDE DEF R
<1>3. PICK m \in T : \A y \in T : ~ (<<y, m>> \in R)
  BY <1>1, WFMin
<1>4. ASSUME NEW n \in T PROVE m <= n
  <2>1. m \in Nat /\ n \in Nat /\ ~ (n < m)
    BY <1>2, <1>3
  <2>2. QED
    BY <2>1
<1>5. QED
  BY <1>4

LEMMA InsertStep ==
  ASSUME TableInv, StreamInv, NEW w \in Writers, Insert(w)
  PROVE  TableInv' /\ StreamInv'
<1> DEFINE i == CHOOSE i \in ToInsert(w) : \A j \in ToInsert(w) : i <= j
           r == stream[w].buffer[i]
<1>1. /\ ToInsert(w) # {} /\ InsertRow(w, r) /\ stream' = stream
  BY DEF Insert
<1>2. ToInsert(w) \subseteq 1 .. Len(stream[w].buffer) /\ ToInsert(w) \subseteq Nat
  BY StreamFacts DEF ToInsert
<1>3. i \in ToInsert(w)
  <2>1. \E m \in ToInsert(w) : \A j \in ToInsert(w) : m <= j
    BY <1>1, <1>2, LeastOf
  <2>2. QED
    BY <2>1
<1> HIDE DEF i
<1>4. i \in 1 .. Len(stream[w].buffer)
  BY <1>2, <1>3
<1>5. r \in Rows /\ r \in Buffered(w)
  <2>1. r \in Rows
    BY <1>4, StreamFacts, ElementOfSeq
  <2>2. QED
    BY <2>1, <1>4 DEF Buffered
<1> HIDE DEF r
<1>6. TableInv'
  BY <1>1, <1>5, InsertKeeps
<1>7. /\ open' = [open EXCEPT ![w] = @ \cup {r}]
      /\ UNCHANGED <<inDefault, inPartition>>
      /\ open \in [Writers -> SUBSET Rows]
  BY <1>1 DEF InsertRow, creatorVars, TableInv, TableTyped
<1>8. \A v \in Writers : Through(v)' = Through(v) /\ Buffered(v)' = Buffered(v)
  BY <1>1 DEF Through, Buffered
<1>9. \A v \in Writers : open'[v] \subseteq Buffered(v)
  <2>1. \A v \in Writers : open[v] \subseteq Buffered(v)
    BY DEF StreamInv, FeedInOrder, WriterInOrder
  <2>2. \A v \in Writers : open'[v] = IF v = w THEN open[v] \cup {r} ELSE open[v]
    BY <1>7
  <2>3. QED
    BY <2>1, <2>2, <1>5
<1>10. FeedInOrder'
  BY <1>1, <1>8, <1>9 DEF StreamInv, FeedInOrder, WriterInOrder
<1>11. NotStoredYet'
  BY <1>7, <1>8 DEF StreamInv, NotStoredYet, Absent
<1>12. QED
  BY <1>1, <1>6, <1>10, <1>11 DEF StreamInv

(* A batch that is cleared is through, whether it was stored or not.        *)
LEMMA BatchThrough ==
  ASSUME TableInv, StreamInv, NEW w \in Writers, NEW b, stream' = Cleared(w, b),
         open' = [open EXCEPT ![w] = {}],
         stream[w].at \in {"storing", "flushing"},
         \A r \in Rows : r \notin open[w] /\ Absent(r) => Absent(r)'
  PROVE  /\ StreamInv'
         /\ Through(w)' = Through(w) + Len(stream[w].buffer)
         /\ \A v \in Writers : v # w => Through(v)' = Through(v)
<1> DEFINE k == stream[w]
           n == Through(w) + Len(k.buffer)
           e == [[k EXCEPT !.buffer = << >>] EXCEPT
                    !.at = IF k.at = "flushing" THEN "done" ELSE "listening"]
<1>1. /\ k \in StreamRecords /\ k.buffer \in Seq(Rows) /\ k.coming \in Seq(Rows)
      /\ Len(k.buffer) \in Nat /\ Len(k.coming) \in Nat /\ Through(w) \in Nat
      /\ Through(w) + Len(k.buffer) + Len(k.coming) = Len(Feed[w])
      /\ Len(Feed[w]) \in Nat
  BY StreamFacts, FeedFacts
<1>2. stream \in [Writers -> StreamRecords] /\ open \in [Writers -> SUBSET Rows]
  BY DEF StreamInv, TableInv, TableTyped
<1>3. stream' = [stream EXCEPT ![w] = e]
  BY <1>1, <1>2 DEF Cleared, StreamRecords
<1>4. << >> \in Seq(Rows) /\ Len(<< >>) = 0
  BY EmptySeq
<1>5. e \in StreamRecords /\ e.buffer = << >> /\ e.coming = k.coming
  BY <1>1, <1>4 DEF StreamRecords
<1> HIDE DEF e
<1>6. n \in Nat /\ n = Len(Feed[w]) - Len(e.coming) - Len(e.buffer) /\ Through(w) <= n
  <2>1. Len(e.coming) = Len(k.coming) /\ Len(e.buffer) = 0
    BY <1>4, <1>5
  <2>2. \A p, q, c, f \in Nat : p + q + c = f => p + q = f - c - 0 /\ p <= p + q /\ p + q \in Nat
    OBVIOUS
  <2>3. n = Len(Feed[w]) - Len(k.coming) - 0 /\ Through(w) <= n /\ n \in Nat
    BY <1>1, <2>2
  <2>4. QED
    BY <2>1, <2>3
<1>7. \A j \in 1 .. Len(e.coming) : e.coming[j] = Feed[w][n + Len(e.buffer) + j]
  <2>1. ASSUME NEW j \in 1 .. Len(k.coming) PROVE k.coming[j] = Feed[w][n + 0 + j]
    <3>1. k.coming[j] = Feed[w][Through(w) + Len(k.buffer) + j]
      BY DEF StreamInv, FeedInOrder, WriterInOrder
    <3>2. n + 0 + j = Through(w) + Len(k.buffer) + j
      BY <1>1
    <3>3. QED
      BY <3>1, <3>2
  <2>2. QED
    BY <2>1, <1>4, <1>5
<1>8. \A j \in 1 .. Len(e.buffer) : e.buffer[j] = Feed[w][n + j]
  BY <1>4, <1>5
<1>9. /\ open' \in [Writers -> SUBSET Rows]
      /\ open'[w] \subseteq {e.buffer[j] : j \in 1 .. Len(e.buffer)}
      /\ \A v \in Writers : v # w => open'[v] = open[v]
  BY <1>2
<1>10. ASSUME NEW v \in Writers, NEW i \in 1 .. Len(Feed[v]),
              Absent(Feed[v][i]), v = w => n < i
       PROVE  Absent(Feed[v][i])'
  <2>1. Feed[v][i] \in Rows
    BY FeedFacts
  <2>2. Feed[v][i] \notin open[w]
    <3>1. SUFFICES ASSUME Feed[v][i] \in Buffered(w) PROVE FALSE
      BY DEF StreamInv, FeedInOrder, WriterInOrder
    <3>2. PICK j \in 1 .. Len(Feed[w]) : Feed[v][i] = Feed[w][j] /\ j <= n
      BY <3>1, BufferedPlaces
    <3>3. i \in DOMAIN Feed[v] /\ j \in DOMAIN Feed[w]
      BY FeedFacts
    <3>4. v = w /\ i = j
      BY <3>2, <3>3, EachRowOnce
    <3>5. n < j /\ j <= n /\ j \in Nat
      BY <3>2, <3>4, <1>10, <1>1
    <3>6. QED
      BY <3>5, <1>6
  <2>3. QED
    BY <2>1, <2>2, <1>10
<1> HIDE DEF n
<1>11. e.at = "done" => e.buffer = << >>
  BY <1>5
<1>12. /\ stream' \in [Writers -> StreamRecords] /\ stream'[w] = e
       /\ \A v \in Writers : v # w => stream'[v] = stream[v]
  BY <1>2, <1>3, <1>5
<1>13. Through(w)' = n
  <2>1. Through(w)' = Len(Feed[w]) - Len(e.coming) - Len(e.buffer)
    BY <1>12 DEF Through
  <2>2. QED
    BY <2>1, <1>6
<1>14. \A v \in Writers : v # w => Through(v)' = Through(v) /\ Buffered(v)' = Buffered(v)
  BY <1>12 DEF Through, Buffered
<1>15. FeedInOrder'
  <2>1. ASSUME NEW v \in Writers
        PROVE  WriterInOrder(v)'
    <3>1. CASE v = w
      <4>1. Through(v)' = n /\ stream'[v] = e /\ open'[v] = {}
        BY <3>1, <1>2, <1>12, <1>13
      <4>2. Through(v)' \in Nat /\ open'[v] \subseteq Buffered(v)'
        BY <4>1, <1>6
      <4>3. stream'[v].buffer = << >> /\ Len(stream'[v].buffer) = 0
        BY <4>1, <1>4, <1>5
      <4>4. \A j \in 1 .. Len(stream'[v].buffer) :
               stream'[v].buffer[j] = Feed[v][Through(v)' + j]
        BY <4>3
      <4>5. \A j \in 1 .. Len(stream'[v].coming) :
               stream'[v].coming[j] = Feed[v][Through(v)' + Len(stream'[v].buffer) + j]
        <5>1. Feed[v] = Feed[w]
          BY <3>1
        <5>2. \A j \in 1 .. Len(e.coming) : e.coming[j] = Feed[v][n + Len(e.buffer) + j]
          BY ONLY <5>1, <1>7
        <5>3. QED
          BY ONLY <5>2, <4>1
      <4>6. QED
        BY <4>2, <4>3, <4>4, <4>5 DEF WriterInOrder
    <3>2. CASE v # w
      <4>1. stream'[v] = stream[v] /\ open'[v] = open[v] /\ FeedInOrder
        BY <3>2, <1>9, <1>12 DEF StreamInv
      <4>2. QED
        BY <4>1, WriterUntouched
    <3>3. QED
      BY <3>1, <3>2
  <2>2. QED
    BY <2>1 DEF FeedInOrder
<1>16. NotStoredYet'
  <2>1. ASSUME NEW v \in Writers, NEW i \in 1 .. Len(Feed[v]), Through(v)' < i
        PROVE  Absent(Feed[v][i])'
    <3>1. v = w => n < i
      BY <2>1, <1>13
    <3>2. Through(v) < i
      <4>1. CASE v = w
        <5>1. i \in Nat /\ n < i
          BY <4>1, <3>1, FeedFacts
        <5>2. Through(w) \in Nat /\ Through(w) <= n /\ n \in Nat
          BY <1>1, <1>6
        <5>3. Through(w) < i
          BY ONLY <5>1, <5>2
        <5>4. QED
          BY <4>1, <5>3
      <4>2. CASE v # w
        BY <4>2, <2>1, <1>14
      <4>3. QED
        BY <4>1, <4>2
    <3>3. Absent(Feed[v][i])
      BY <3>2 DEF StreamInv, NotStoredYet
    <3>4. QED
      BY <3>1, <3>3, <1>10
  <2>2. QED
    BY <2>1 DEF NotStoredYet
<1>17. Through(w)' = Through(w) + Len(stream[w].buffer)
  BY <1>13 DEF n
<1>18. QED
  BY <1>12, <1>14, <1>15, <1>16, <1>17 DEF StreamInv

LEMMA CommitStep ==
  ASSUME TableInv, StreamInv, NEW w \in Writers, Commit(w)
  PROVE  TableInv' /\ StreamInv'
<1>1. \A r \in open[w] : Absent(r)
  BY OpenIsAbsent
<1>2. CommitRows(w) /\ stream' = Cleared(w, TRUE) /\ stream[w].at \in {"storing", "flushing"}
  BY DEF Commit
<1>3. open' = [open EXCEPT ![w] = {}]
  BY <1>2 DEF CommitRows
<1>4. \A r \in Rows : r \notin open[w] /\ Absent(r) => Absent(r)'
  BY <1>1, <1>2, CommitFacts DEF Absent
<1>5. QED
  BY <1>1, <1>2, <1>3, <1>4, CommitKeeps, BatchThrough

LEMMA StoreFailsStep ==
  ASSUME TableInv, StreamInv, NEW w \in Writers, StoreFails(w)
  PROVE  TableInv' /\ StreamInv'
<1>1. RollBack(w) /\ stream' = Cleared(w, FALSE) /\ stream[w].at \in {"storing", "flushing"}
  BY DEF StoreFails
<1>2. open' = [open EXCEPT ![w] = {}] /\ UNCHANGED <<inDefault, inPartition>>
  BY <1>1 DEF RollBack, creatorVars
<1>3. \A r \in Rows : r \notin open[w] /\ Absent(r) => Absent(r)'
  BY <1>2 DEF Absent
<1>4. QED
  BY <1>1, <1>2, <1>3, RollBackKeeps, BatchThrough

-----------------------------------------------------------------------------
(* Every row there was to begin with, and every row that is through, is in  *)
(* the table or lost in a way that is on record.                            *)

Settled ==
    /\ \A r \in OldRows : Accounted(r)
    /\ \A w \in Writers : \A i \in 1 .. Len(Feed[w]) :
          i <= Through(w) => Feed[w][i] \in given \/ Accounted(Feed[w][i])

(* A step that loses no row, and after which no more events are through.    *)
LEMMA NothingLost ==
  ASSUME Settled, given' = given,
         \A w \in Writers : Through(w)' = Through(w),
         \A r \in Rows : Accounted(r) => Accounted(r)'
  PROVE  Settled'
<1>1. \A r \in OldRows : Accounted(r)'
  BY OldRowsAssumption DEF Settled
<1>2. \A w \in Writers : \A i \in 1 .. Len(Feed[w]) :
         i <= Through(w)' => Feed[w][i] \in given' \/ Accounted(Feed[w][i])'
  BY FeedFacts DEF Settled
<1>3. QED
  BY <1>1, <1>2 DEF Settled

(* After a batch has been cleared.                                          *)
LEMMA BatchSettled ==
  ASSUME TableInv, StreamInv, Settled, NEW w \in Writers,
         Through(w)' = Through(w) + Len(stream[w].buffer),
         \A v \in Writers : v # w => Through(v)' = Through(v),
         given \subseteq given',
         \A r \in Rows : Accounted(r) => Accounted(r)',
         \A r \in Buffered(w) : r \in given' \/ Accounted(r)'
  PROVE  Settled'
<1>1. \A r \in OldRows : Accounted(r)'
  BY OldRowsAssumption DEF Settled
<1>2. ASSUME NEW v \in Writers, NEW i \in 1 .. Len(Feed[v]), i <= Through(v)'
      PROVE  Feed[v][i] \in given' \/ Accounted(Feed[v][i])'
  <2>1. Feed[v][i] \in Rows /\ i \in Nat
    BY FeedFacts
  <2>2. CASE i <= Through(v)
    BY <2>1, <2>2 DEF Settled
  <2>3. CASE ~ (i <= Through(v))
    <3>1. v = w
      BY <2>3, <1>2
    <3>2. /\ Through(w) \in Nat /\ Len(stream[w].buffer) \in Nat
          /\ i <= Through(w) + Len(stream[w].buffer) /\ ~ (i <= Through(w))
      BY <2>3, <3>1, <1>2, StreamFacts
    <3> DEFINE j == i - Through(w)
    <3>3. j \in 1 .. Len(stream[w].buffer) /\ Through(w) + j = i
      BY <2>1, <3>2
    <3> HIDE DEF j
    <3>4. stream[w].buffer[j] = Feed[w][i]
      BY <3>3 DEF StreamInv, FeedInOrder, WriterInOrder
    <3>5. Feed[w][i] \in Buffered(w)
      BY <3>3, <3>4 DEF Buffered
    <3>6. QED
      BY <3>1, <3>5
  <2>4. QED
    BY <2>2, <2>3
<1>3. QED
  BY <1>1, <1>2 DEF Settled

LEMMA CommitSettles ==
  ASSUME TableInv, StreamInv, Settled, NEW w \in Writers, Commit(w)
  PROVE  Settled'
<1>1. \A r \in open[w] : Absent(r)
  BY OpenIsAbsent
<1>2. /\ CommitRows(w) /\ stream' = Cleared(w, TRUE) /\ given' = given
      /\ stream[w].at \in {"storing", "flushing"} /\ ToInsert(w) = {}
  BY DEF Commit
<1>3. open' = [open EXCEPT ![w] = {}] /\ raced \subseteq raced' /\ dropped' = dropped
  BY <1>2 DEF CommitRows
<1>4. \A r \in Rows : r \notin open[w] /\ Absent(r) => Absent(r)'
  BY <1>1, <1>2, CommitFacts DEF Absent
<1>5. /\ Through(w)' = Through(w) + Len(stream[w].buffer)
      /\ \A v \in Writers : v # w => Through(v)' = Through(v)
  BY <1>2, <1>3, <1>4, BatchThrough
<1>6. \A r \in open[w] : r \in Rows /\ Accounted(r)'
  <2>1. \A r \in open[w] : r \in Rows /\ inDefault'[r] + inPartition'[r] > 0
    BY <1>1, <1>2, CommitFacts DEF TableInv, TableTyped
  <2>2. QED
    BY <2>1 DEF Accounted, Stored
<1>7. \A r \in Rows : Accounted(r) => Accounted(r)'
  <2>1. ASSUME NEW r \in Rows, Accounted(r) PROVE Accounted(r)'
    <3>1. CASE r \in open[w]
      BY <3>1, <1>6
    <3>2. CASE r \notin open[w]
      <4>1. inDefault'[r] = inDefault[r] /\ inPartition'[r] = inPartition[r]
        BY <3>2, <1>1, <1>2, CommitFacts
      <4>2. QED
        BY <4>1, <2>1, <1>3 DEF Accounted, Stored
    <3>3. QED
      BY <3>1, <3>2
  <2>2. QED
    BY <2>1
<1>8. \A r \in Buffered(w) : r \in open[w]
  BY <1>2 DEF Buffered, ToInsert
<1>9. QED
  BY <1>2, <1>5, <1>6, <1>7, <1>8, BatchSettled

LEMMA StoreFailsSettles ==
  ASSUME TableInv, StreamInv, Settled, NEW w \in Writers, StoreFails(w)
  PROVE  Settled'
<1>1. /\ RollBack(w) /\ stream' = Cleared(w, FALSE) /\ given' = given \cup Buffered(w)
      /\ stream[w].at \in {"storing", "flushing"}
  BY DEF StoreFails
<1>2. /\ open' = [open EXCEPT ![w] = {}]
      /\ UNCHANGED <<inDefault, inPartition, dropped, raced>>
  BY <1>1 DEF RollBack, creatorVars
<1>3. \A r \in Rows : r \notin open[w] /\ Absent(r) => Absent(r)'
  BY <1>2 DEF Absent
<1>4. /\ Through(w)' = Through(w) + Len(stream[w].buffer)
      /\ \A v \in Writers : v # w => Through(v)' = Through(v)
  BY <1>1, <1>2, <1>3, BatchThrough
<1>5. \A r \in Rows : Accounted(r) => Accounted(r)'
  BY <1>2 DEF Accounted, Stored
<1>6. QED
  BY <1>1, <1>4, <1>5, BatchSettled

-----------------------------------------------------------------------------
StreamIngestInv == TableInv /\ StreamInv /\ Settled

LEMMA StreamIngestInit == Init => StreamIngestInv
<1> SUFFICES ASSUME Init PROVE StreamIngestInv
  OBVIOUS
<1>1. /\ partitions = {} /\ raced = {} /\ dropped = {} /\ given = {}
      /\ inDefault = [r \in Rows |-> IF r \in OldRows THEN 1 ELSE 0]
      /\ inPartition = [r \in Rows |-> 0]
      /\ open = [w \in Writers |-> {}]
      /\ creator = [c \in Creators |-> Idle(DaysOf[c])]
      /\ stream = [w \in Writers |-> [at |-> "listening", buffer |-> << >>, coming |-> Feed[w]]]
  BY DEF Init, TableInit
<1>2. \A c \in Creators : /\ creator[c] \in CreatorRecords /\ RecordOK(creator[c])
                          /\ creator[c].at \in Outside
  BY <1>1, DaysOfAssumption, IdleIsOK
<1>3. TableTyped
  BY <1>1, <1>2 DEF TableTyped
<1>4. CreatorsOK
  BY <1>2 DEF CreatorsOK
<1>5. LocksOK
  BY <1>2 DEF LocksOK, OwnsDefault, OwnsParent, Outside
<1>6. PartitionedLeaveDefault /\ NoRowTwice
  BY <1>1 DEF PartitionedLeaveDefault, NoRowTwice
<1>7. << >> \in Seq(Rows) /\ Len(<< >>) = 0
  BY EmptySeq
<1>8. ASSUME NEW w \in Writers
      PROVE  /\ stream[w].buffer = << >> /\ stream[w].coming = Feed[w]
             /\ stream[w].at = "listening" /\ stream[w] \in StreamRecords
             /\ Through(w) = 0
  <2>1. Feed[w] \in Seq(Rows) /\ Len(Feed[w]) \in Nat
    BY FeedAssumption, FeedFacts
  <2>2. /\ stream[w].buffer = << >> /\ stream[w].coming = Feed[w]
        /\ stream[w].at = "listening" /\ stream[w] \in StreamRecords
    BY <1>1, <1>7, <2>1 DEF StreamRecords
  <2>3. Through(w) = Len(Feed[w]) - Len(Feed[w]) - 0
    BY <2>2, <1>7 DEF Through
  <2>4. QED
    BY <2>1, <2>2, <2>3
<1>9. stream \in [Writers -> StreamRecords]
  BY <1>1, <1>8
<1>10. FeedInOrder
  <2>1. ASSUME NEW w \in Writers
        PROVE  /\ Through(w) \in Nat
               /\ \A k \in 1 .. Len(stream[w].buffer) :
                     stream[w].buffer[k] = Feed[w][Through(w) + k]
               /\ \A k \in 1 .. Len(stream[w].coming) :
                     stream[w].coming[k] = Feed[w][Through(w) + Len(stream[w].buffer) + k]
               /\ open[w] \subseteq Buffered(w)
               /\ stream[w].at = "done" => stream[w].buffer = << >>
    <3>1. /\ stream[w].buffer = << >> /\ stream[w].coming = Feed[w] /\ Through(w) = 0
          /\ Len(stream[w].buffer) = 0 /\ open[w] = {}
      BY <1>1, <1>7, <1>8
    <3>2. \A k \in 1 .. Len(Feed[w]) : Feed[w][k] = Feed[w][0 + 0 + k]
      BY FeedFacts
    <3>3. QED
      BY <3>1, <3>2
  <2>2. QED
    BY <2>1 DEF FeedInOrder, WriterInOrder
<1>11. NotStoredYet
  BY <1>1, FeedFacts DEF NotStoredYet, Absent
<1>12. Settled
  <2>1. \A r \in OldRows : Accounted(r)
    BY <1>1, OldRowsAssumption DEF Accounted, Stored
  <2>2. \A w \in Writers : \A i \in 1 .. Len(Feed[w]) : ~ (i <= Through(w))
    BY <1>8, FeedFacts
  <2>3. QED
    BY <2>1, <2>2 DEF Settled
<1>13. QED
  BY <1>3, <1>4, <1>5, <1>6, <1>9, <1>10, <1>11, <1>12 DEF StreamIngestInv, TableInv, StreamInv

LEMMA StreamIngestNext == StreamIngestInv /\ [Next]_vars => StreamIngestInv'
<1> SUFFICES ASSUME TableInv, StreamInv, Settled, [Next]_vars PROVE StreamIngestInv'
  BY DEF StreamIngestInv
<1>1. CASE PartitionsManaged
  <2>1. PartitionStep /\ stream' = stream /\ given' = given /\ open' = open
    BY <1>1 DEF PartitionsManaged, PartitionStep
  <2>2. TableInv'
    BY <2>1, PartitionStepKeeps
  <2>3. \A r \in Rows : (Absent(r) => Absent(r)') /\ (Accounted(r) => Accounted(r)')
    BY <2>1, PartitionStepRows
  <2>4. StreamInv'
    BY <2>1, <2>3, StreamsKept
  <2>5. \A w \in Writers : Through(w)' = Through(w)
    BY <2>1 DEF Through
  <2>6. Settled'
    BY <2>1, <2>3, <2>5, NothingLost
  <2>7. QED
    BY <2>2, <2>4, <2>6 DEF StreamIngestInv
<1>2. ASSUME NEW w \in Writers, Event(w) \/ Quiet(w) \/ StreamEnds(w)
      PROVE  StreamIngestInv'
  <2>1. TableInv' /\ StreamInv' /\ \A v \in Writers : Through(v)' = Through(v)
    BY <1>2, LoopKeeps
  <2>2. UNCHANGED <<inDefault, inPartition, dropped, raced, given>>
    BY <1>2 DEF Event, Quiet, StreamEnds, tableVars, creatorVars
  <2>3. \A r \in Rows : Accounted(r) => Accounted(r)'
    BY <2>2 DEF Accounted, Stored
  <2>4. Settled'
    BY <2>1, <2>2, <2>3, NothingLost
  <2>5. QED
    BY <2>1, <2>4 DEF StreamIngestInv
<1>3. ASSUME NEW w \in Writers, Insert(w)
      PROVE  StreamIngestInv'
  <2>1. TableInv' /\ StreamInv'
    BY <1>3, InsertStep
  <2>2. UNCHANGED <<inDefault, inPartition, dropped, raced, given, stream>>
    BY <1>3 DEF Insert, InsertRow, creatorVars
  <2>3. \A r \in Rows : Accounted(r) => Accounted(r)'
    BY <2>2 DEF Accounted, Stored
  <2>4. \A v \in Writers : Through(v)' = Through(v)
    BY <2>2 DEF Through
  <2>5. Settled'
    BY <2>2, <2>3, <2>4, NothingLost
  <2>6. QED
    BY <2>1, <2>5 DEF StreamIngestInv
<1>4. ASSUME NEW w \in Writers, Commit(w)
      PROVE  StreamIngestInv'
  BY <1>4, CommitStep, CommitSettles DEF StreamIngestInv
<1>5. ASSUME NEW w \in Writers, StoreFails(w)
      PROVE  StreamIngestInv'
  BY <1>5, StoreFailsStep, StoreFailsSettles DEF StreamIngestInv
<1>6. CASE UNCHANGED <<tableVars, stream, given>>
  <2>1. /\ UNCHANGED <<partitions, inDefault, inPartition, creator, faults, dropped, open, raced>>
        /\ UNCHANGED <<stream, given>>
    BY <1>6 DEF tableVars, creatorVars
  <2>2. TableInv'
    BY <2>1 DEF TableInv, TableTyped, CreatorsOK, RecordOK, InDefaultOf, LocksOK, OwnsDefault,
                HoldsDefault, OwnsParent, Storing, PartitionedLeaveDefault, NoRowTwice,
                CreatorRecords
  <2>3. \A r \in Rows : (Absent(r) => Absent(r)') /\ (Accounted(r) => Accounted(r)')
    BY <2>1 DEF Absent, Accounted, Stored
  <2>4. StreamInv'
    BY <2>1, <2>3, StreamsKept
  <2>5. \A w \in Writers : Through(w)' = Through(w)
    BY <2>1 DEF Through
  <2>6. Settled'
    BY <2>1, <2>3, <2>5, NothingLost
  <2>7. QED
    BY <2>2, <2>4, <2>6 DEF StreamIngestInv
<1>7. (UNCHANGED vars \/ \E w \in Writers : RequestStop(w)) => UNCHANGED <<tableVars, stream, given>>
  BY DEF vars, RequestStop
<1>8. QED
  BY <1>1, <1>2, <1>3, <1>4, <1>5, <1>6, <1>7 DEF Next, StreamStep

(* The table, the locks of its writers and creators, and the buffers of the *)
(* stream commands are in the order described above, after every step.      *)
THEOREM StreamIngestInvariant == Spec => []StreamIngestInv
<1>1. QED
  BY StreamIngestInit, StreamIngestNext, PTL DEF Spec

(* A row that was committed once is in the table once, however partitions   *)
(* are created by several processes at a time, aborted, deadlocked and      *)
(* dropped while rows are stored (partitions.rs, stream.rs).                *)
THEOREM NoRowStoredTwice == Spec => []NoRowTwice
<1>1. StreamIngestInv => NoRowTwice
  BY DEF StreamIngestInv, TableInv
<1>2. QED
  BY <1>1, StreamIngestInvariant, PTL

(* Every row a stream command took over is in its buffer, in the table, or  *)
(* lost in one of the three ways that are on record; and a command that has *)
(* ended has nothing left in its buffer.                                    *)
THEOREM RowsAreAccounted == Spec => []RowsAccounted
<1>1. ASSUME StreamIngestInv PROVE RowsAccounted
  <2>1. TableInv /\ StreamInv /\ Settled
    BY <1>1 DEF StreamIngestInv
  <2>2. ASSUME NEW w \in Writers, NEW r \in Received(w) \ Buffered(w), r \notin given
        PROVE  Accounted(r)
    <3>1. /\ Through(w) \in Nat /\ Len(stream[w].buffer) \in Nat /\ Len(stream[w].coming) \in Nat
          /\ Through(w) + Len(stream[w].buffer) + Len(stream[w].coming) = Len(Feed[w])
      BY <2>1, StreamFacts
    <3>2. PICK i \in 1 .. (Len(Feed[w]) - Len(stream[w].coming)) : r = Feed[w][i]
      BY DEF Received
    <3>3. /\ i \in 1 .. Len(Feed[w]) /\ i \in Nat
          /\ i <= Through(w) + Len(stream[w].buffer)
      <4>1. \A t, b, c, f \in Nat : \A x \in 1 .. (f - c) :
               t + b + c = f => x \in 1 .. f /\ x \in Nat /\ x <= t + b
        OBVIOUS
      <4>2. Len(Feed[w]) \in Nat
        BY FeedFacts
      <4>3. QED
        BY <3>1, <4>1, <4>2
    <3>4. i <= Through(w)
      <4>1. SUFFICES ASSUME ~ (i <= Through(w)) PROVE FALSE
        OBVIOUS
      <4> DEFINE j == i - Through(w)
      <4>2. j \in 1 .. Len(stream[w].buffer) /\ Through(w) + j = i
        BY <4>1, <3>1, <3>3
      <4> HIDE DEF j
      <4>3. stream[w].buffer[j] = r
        BY <4>2, <3>2, <2>1 DEF StreamInv, FeedInOrder, WriterInOrder
      <4>4. QED
        BY <4>2, <4>3, <2>2 DEF Buffered
    <3>5. QED
      BY <3>2, <3>3, <3>4, <2>1, <2>2 DEF Settled
  <2>3. \A r \in OldRows : Accounted(r)
    BY <2>1 DEF Settled
  <2>4. \A r \in Committed : Accounted(r)
    BY <2>2, <2>3 DEF Committed
  <2>5. \A w \in Writers : stream[w].at = "done" => stream[w].buffer = << >>
    BY <2>1 DEF StreamInv, FeedInOrder, WriterInOrder
  <2>6. QED
    BY <2>4, <2>5 DEF RowsAccounted, Accounted
<1>2. QED
  BY <1>1, StreamIngestInvariant, PTL
=============================================================================
