-------------------------- MODULE PartitionedTable --------------------------
(***************************************************************************)
(* One table of the database (orderbooks, trades, ...), partitioned by day, *)
(* with a default partition for the days that have none.                    *)
(*                                                                         *)
(* partitions.rs runs against it: several processes may create partitions   *)
(* (the service at its start, an import) and one may drop old ones, while   *)
(* others store rows.  create_partition_for_date moves the day's rows out   *)
(* of the default partition in one transaction; every statement of it is a  *)
(* step, because PostgreSQL (READ COMMITTED) gives each its own snapshot.   *)
(* The locks are PostgreSQL's, all held to the end of the transaction:      *)
(*                                                                         *)
(*   SELECT ... FROM default    ACCESS SHARE on the default partition       *)
(*   DELETE FROM default        ROW EXCLUSIVE on it, and the deleted rows   *)
(*   CREATE ... PARTITION OF    ACCESS EXCLUSIVE on the parent, then on the *)
(*                              default partition                           *)
(*   INSERT INTO parent         ROW EXCLUSIVE on parent and target          *)
(*   DROP TABLE partition       ACCESS EXCLUSIVE on parent and default      *)
(*                                                                         *)
(* How the writers come to store rows is left to the module that uses this  *)
(* one.  A transaction touches one table only, so one table is enough.      *)
(***************************************************************************)
EXTENDS Naturals, Sequences, FiniteSets, Relation

CONSTANTS
    Days,           \* the days of the rows' timestamps
    Rows,           \* all rows there will ever be
    DayOf,          \* the day of a row
    OldRows,        \* rows the default partition holds to begin with
    Writers,        \* connections that store rows
    Creators,       \* processes that create partitions
    DaysOf,         \* the days a creator creates partitions for, in order
    MaxFaults       \* bound on creators that lose their connection
                    \* and on partitions dropped

ASSUME DayOfAssumption == DayOf \in [Rows -> Days]
ASSUME OldRowsAssumption == OldRows \subseteq Rows
ASSUME DaysOfAssumption == DaysOf \in [Creators -> Seq(Days)]
ASSUME MaxFaultsAssumption == MaxFaults \in Nat

VARIABLES
    partitions,     \* days with a committed partition
    inDefault,      \* copies of a row committed in the default partition
    inPartition,    \* copies of a row committed in its day's partition
    open,           \* rows a writer's transaction has inserted
    creator,        \* a creator's place in create_partitions
    faults,         \* connections lost and partitions dropped so far
    raced,          \* history: rows committed while a creator of their day was
                    \* between its SELECT and its DELETE
    dropped         \* history: rows dropped with their partition

creatorVars == <<partitions, inDefault, inPartition, creator, faults, dropped>>
tableVars == <<creatorVars, open, raced>>

(* A creator that holds none of the locks, and the steps of its transaction *)
(* (the name says what is done).                                            *)
Outside == {"checking", "absent", "returned", "failed"}
Places ==
    Outside \cup {"copied", "deleting", "deleted", "creating", "locked", "created", "skipped"}

Idle(days) == [at   |-> IF days = << >> THEN "returned" ELSE "checking",
               days |-> days, temp |-> {}, aim |-> {}, gone |-> {}]

TableInit ==
    /\ partitions = {}
    /\ inDefault = [r \in Rows |-> IF r \in OldRows THEN 1 ELSE 0]
    /\ inPartition = [r \in Rows |-> 0]
    /\ open = [w \in Writers |-> {}]
    /\ creator = [c \in Creators |-> Idle(DaysOf[c])]
    /\ faults = 0
    /\ raced = {}
    /\ dropped = {}

-----------------------------------------------------------------------------
(* PostgreSQL: what is visible, and who holds what                          *)

Day(c) == Head(creator[c].days)

(* The committed rows of a day in the default partition, for a statement    *)
(* that starts now; a creator does not see rows it has deleted itself.      *)
VisibleTo(c) == {r \in Rows : DayOf[r] = Day(c) /\ inDefault[r] > 0} \ creator[c].gone

OwnsParent(c) == creator[c].at \in {"locked", "created"}
OwnsDefault(c) == creator[c].at = "created"

SelectOutsideTransaction(c) == creator[c].at \in Places \ (Outside \cup {"copied"})

HoldsDefault(c) == creator[c].at \in Places \ Outside

OthersThan(c) == Creators \ {c}
Storing == {w \in Writers : open[w] # {}}

(* The creators whose transaction has to end before c's next step.          *)
WaitsFor(c) ==
    CASE creator[c].at = "absent"   -> {d \in OthersThan(c) : OwnsDefault(d)}
      [] creator[c].at = "deleting" -> {d \in OthersThan(c) : creator[d].gone \cap creator[c].aim # {}}
      [] creator[c].at = "creating" -> {d \in OthersThan(c) : OwnsParent(d)}
      [] creator[c].at = "locked"   -> {d \in OthersThan(c) : HoldsDefault(d)}
      [] creator[c].at = "skipped"  -> {d \in OthersThan(c) : OwnsParent(d)}
      [] OTHER                      -> {}

(* deadlock_timeout: one member of a cycle is aborted.                      *)
Deadlocked(c) ==
    TransitiveClosure([p \in Creators \X Creators |-> p[2] \in WaitsFor(p[1])], Creators)[c, c]

MoveTo(c, place) == creator' = [creator EXCEPT ![c].at = place]

-----------------------------------------------------------------------------
(* create_partitions, create_partitions_for_range: day after day            *)

NextDayForgotten(c) == Idle(creator[c].days)

NextDay(c) == Idle(Tail(creator[c].days))

(* The error is returned at once; PostgreSQL rolls the transaction back.    *)
Failed(c) == [creator EXCEPT ![c] = [Idle(<< >>) EXCEPT !.at = "failed"]]

Exists(c) ==
    /\ creator[c].at = "checking"
    /\ Day(c) \in partitions
    /\ creator' = [creator EXCEPT ![c] = NextDay(c)]
    /\ UNCHANGED <<partitions, inDefault, inPartition, faults, dropped>>

ExistsNot(c) ==
    /\ creator[c].at = "checking"
    /\ Day(c) \notin partitions
    /\ MoveTo(c, "absent")
    /\ UNCHANGED <<partitions, inDefault, inPartition, faults, dropped>>

CopyToTemp(c) ==
    /\ creator[c].at = "absent"
    /\ WaitsFor(c) = {}
    /\ creator' = [creator EXCEPT ![c].at = "copied", ![c].temp = VisibleTo(c)]
    /\ UNCHANGED <<partitions, inDefault, inPartition, faults, dropped>>

(* The DELETE takes its own snapshot ...                                    *)
StartDelete(c) ==
    /\ creator[c].at = "copied"
    /\ creator' = [creator EXCEPT ![c].at = "deleting", ![c].aim = VisibleTo(c)]
    /\ UNCHANGED <<partitions, inDefault, inPartition, faults, dropped>>

(* ... and waits for rows that another transaction is deleting: once that   *)
(* one has committed they are gone, once it is rolled back they are there.  *)
FinishDelete(c) ==
    /\ creator[c].at = "deleting"
    /\ WaitsFor(c) = {}
    /\ creator' = [creator EXCEPT ![c].at   = "deleted",
                                  ![c].gone = creator[c].aim \cap VisibleTo(c)]
    /\ UNCHANGED <<partitions, inDefault, inPartition, faults, dropped>>

(* CREATE TABLE IF NOT EXISTS looks for the partition first: it may have    *)
(* come into being since it was checked.                                    *)
SkipCreate(c) ==
    /\ creator[c].at = "deleted"
    /\ Day(c) \in partitions
    /\ MoveTo(c, "skipped")
    /\ UNCHANGED <<partitions, inDefault, inPartition, faults, dropped>>

StartCreate(c) ==
    /\ creator[c].at = "deleted"
    /\ Day(c) \notin partitions
    /\ MoveTo(c, "creating")
    /\ UNCHANGED <<partitions, inDefault, inPartition, faults, dropped>>

(* Then it waits to lock the parent against writers and other creators, and *)
(* a partition that was committed meanwhile is an error: "already exists".  *)
LockParent(c) ==
    /\ creator[c].at = "creating"
    /\ WaitsFor(c) = {} /\ Storing = {}
    /\ IF Day(c) \in partitions THEN creator' = Failed(c) ELSE MoveTo(c, "locked")
    /\ UNCHANGED <<partitions, inDefault, inPartition, faults, dropped>>

(* With the default partition locked too PostgreSQL looks for rows of the   *)
(* day in it and refuses to create the partition if there are any.          *)
CreatePartition(c) ==
    /\ creator[c].at = "locked"
    /\ WaitsFor(c) = {}
    /\ IF VisibleTo(c) = {} THEN MoveTo(c, "created") ELSE creator' = Failed(c)
    /\ UNCHANGED <<partitions, inDefault, inPartition, faults, dropped>>

ReinsertedNone(c) == {}

Reinserted(c) == creator[c].temp

(* The copied rows are inserted into the parent, which now routes them to   *)
(* the partition, and the transaction commits.                              *)
ReinsertAndCommit(c) ==
    /\ creator[c].at \in {"created", "skipped"}
    /\ WaitsFor(c) = {}
    /\ partitions' = partitions \cup {Day(c)}
    /\ inDefault' = [r \in Rows |-> IF r \in creator[c].gone THEN 0 ELSE inDefault[r]]
    /\ inPartition' = [r \in Rows |-> inPartition[r] + IF r \in Reinserted(c) THEN 1 ELSE 0]
    /\ creator' = [creator EXCEPT ![c] = NextDay(c)]
    /\ UNCHANGED <<faults, dropped>>

AbortDeadlocked(c) ==
    /\ Deadlocked(c)
    /\ creator' = Failed(c)
    /\ UNCHANGED <<partitions, inDefault, inPartition, faults, dropped>>

LoseConnection(c) ==
    /\ creator[c].at \notin {"returned", "failed"}
    /\ faults < MaxFaults
    /\ faults' = faults + 1
    /\ creator' = Failed(c)
    /\ UNCHANGED <<partitions, inDefault, inPartition, dropped>>

CreatorStep(c) ==
    \/ Exists(c) \/ ExistsNot(c) \/ CopyToTemp(c) \/ StartDelete(c) \/ FinishDelete(c)
    \/ SkipCreate(c) \/ StartCreate(c) \/ LockParent(c) \/ CreatePartition(c)
    \/ ReinsertAndCommit(c) \/ AbortDeadlocked(c)

(* drop_partitions_before_date, for one of the partitions it has listed.    *)
DropPartition(d) ==
    /\ d \in partitions
    /\ Storing = {} /\ \A c \in Creators : ~OwnsParent(c) /\ ~HoldsDefault(c)
    /\ faults < MaxFaults
    /\ faults' = faults + 1
    /\ partitions' = partitions \ {d}
    /\ inPartition' = [r \in Rows |-> IF DayOf[r] = d THEN 0 ELSE inPartition[r]]
    /\ dropped' = dropped \cup {r \in Rows : DayOf[r] = d /\ inPartition[r] > 0}
    /\ UNCHANGED <<inDefault, creator>>

PartitionStep ==
    /\ \/ \E c \in Creators : CreatorStep(c) \/ LoseConnection(c)
       \/ \E d \in Days : DropPartition(d)
    /\ UNCHANGED <<open, raced>>

-----------------------------------------------------------------------------
(* A writer's transaction: an INSERT for every row, then COMMIT             *)

InsertRow(w, r) ==
    /\ \A c \in Creators : ~OwnsParent(c)
    /\ open' = [open EXCEPT ![w] = @ \cup {r}]
    /\ UNCHANGED <<creatorVars, raced>>

(* The writer's lock on the parent has kept creators and DROP away since    *)
(* the first INSERT, so the rows went where they would go now.              *)
CommitRows(w) ==
    LET routed == {r \in open[w] : DayOf[r] \in partitions}
    IN  /\ inPartition' = [r \in Rows |-> inPartition[r] + IF r \in routed THEN 1 ELSE 0]
        /\ inDefault' = [r \in Rows |-> inDefault[r] + IF r \in open[w] \ routed THEN 1 ELSE 0]
        /\ raced' = raced \cup {r \in open[w] \ routed :
                        \E c \in Creators : creator[c].at = "copied" /\ Day(c) = DayOf[r]}
        /\ open' = [open EXCEPT ![w] = {}]
        /\ UNCHANGED <<partitions, creator, faults, dropped>>

RollBack(w) ==
    /\ open' = [open EXCEPT ![w] = {}]
    /\ UNCHANGED <<creatorVars, raced>>

-----------------------------------------------------------------------------
Stored(r) == inDefault[r] + inPartition[r] > 0

(* A row that was committed once is in the table once.  A partition created *)
(* twice, or two creators that copied the same rows, must not store them    *)
(* again: the temporary copies hold a lock until the rows are deleted.      *)
NoRowTwice == \A r \in Rows : inDefault[r] + inPartition[r] <= 1

(* Creating partitions ends, with success or an error, in spite of creators *)
(* that deadlock and writers that hold the parent.                          *)
EveryCreatorReturns == \A c \in Creators : <>(creator[c].at \in {"returned", "failed"})
=============================================================================
