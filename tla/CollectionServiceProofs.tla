---------------------- MODULE CollectionServiceProofs ----------------------
(***************************************************************************)
(* Proofs about CollectionService: the two reports, for any exchanges and   *)
(* symbols, any chunk and interval, any number of cycles and of failing     *)
(* requests and queries.                                                    *)
(***************************************************************************)
EXTENDS CollectionService, TLAPS

-----------------------------------------------------------------------------
(* Seconds that have a whole interval between them are different ones.      *)
LEMMA DivLater ==
  ASSUME NEW p \in Nat \ {0}, NEW a \in Nat, NEW d \in Nat \ {0}, d % p = 0
  PROVE  /\ a \div p \in Nat /\ (a + d) \div p \in Nat
         /\ a \div p < (a + d) \div p
  OBVIOUS

TableNames(r) == {Tables(r)[i] : i \in 1 .. Len(Tables(r))}

(* No table is named twice, by one report or by both.                       *)
LEMMA TablesFacts ==
  /\ \A r \in Reports :
        /\ Len(Tables(r)) \in Nat \ {0}
        /\ \A i, j \in 1 .. Len(Tables(r)) : Tables(r)[i] = Tables(r)[j] => i = j
  /\ \A r, q \in Reports : r # q => TableNames(r) \cap TableNames(q) = {}
<1>1. /\ Len(Tables("ticker")) = 1 /\ Tables("ticker")[1] = "tickers"
      /\ Len(Tables("liquidity")) = 3 /\ Tables("liquidity")[1] = "liquidity_depth"
      /\ Tables("liquidity")[2] = "slippage" /\ Tables("liquidity")[3] = "orderbooks"
  BY DEF Tables
<1>2. 1 .. 1 = {1} /\ 1 .. 3 = {1, 2, 3}
  OBVIOUS
<1>3. /\ TableNames("ticker") = {"tickers"}
      /\ TableNames("liquidity") = {"liquidity_depth", "slippage", "orderbooks"}
  BY <1>1, <1>2 DEF TableNames
<1>4. QED
  BY <1>1, <1>2, <1>3 DEF Reports

-----------------------------------------------------------------------------
(* A report's task.                                                         *)

CycleRecords ==
    [at : {"waiting", "fetching", "storing", "stopped"}, ts : Nat, due : Nat,
     pending : Seq(ToSet(Symbols)), asked : SUBSET Pairs, answers : SUBSET Pairs,
     stored : Nat, failed : SUBSET Nat]

RowsFrom(r, k, i) == [table : {Tables(r)[i]}, pair : k.answers, ts : {k.ts}] \ Gaps

(* Nothing is asked once the answers are being stored; the tables that had  *)
(* their turn have the answers, or their INSERT failed; and a cycle is over *)
(* when they all had theirs, or there was nothing to store.                 *)
CycleOK(r, k, db) ==
    /\ k.at # "fetching" => k.asked = {}
    /\ k.at = "fetching" => k.stored = 0
    /\ k.at = "storing" => k.stored < Len(Tables(r))
    /\ \A i \in 1 .. Len(Tables(r)) :
          i <= k.stored => i \in k.failed \/ RowsFrom(r, k, i) \subseteq db
    /\ k.at \in {"waiting", "stopped"} => k.answers = {} \/ k.stored = Len(Tables(r))

(* A report that was never late: its rows are of seconds before the next    *)
(* tick's, and before this cycle's unless this cycle stored them.           *)
PunctualOK(r, k, db) ==
    /\ k.at \in {"fetching", "storing"} => k.ts < k.due \div PerSecond
    /\ \A row \in db : row.table \in TableNames(r) =>
          /\ row.ts < k.due \div PerSecond
          /\ row.ts < k.ts \/ \E i \in 1 .. Len(Tables(r)) :
                                 i <= k.stored /\ row.table = Tables(r)[i]

CollectionTyped ==
    /\ now \in Nat
    /\ cycle \in [Reports -> CycleRecords]
    /\ \A row \in rows : row.ts \in Nat

CyclesInOrder == \A r \in Reports : CycleOK(r, cycle[r], rows)

PunctualInOrder == \A r \in Reports : r \notin late => PunctualOK(r, cycle[r], rows)

CollectionInv ==
    CollectionTyped /\ CyclesInOrder /\ PunctualInOrder /\ OneCyclePerTimestamp

(* A step of one report's task that stores nothing keeps the invariant if   *)
(* its new record is in order.                                              *)
LEMMA ReportLocal ==
  ASSUME CollectionInv, NEW r \in Reports, NEW k \in CycleRecords,
         cycle' = [cycle EXCEPT ![r] = k],
         UNCHANGED <<now, rows, collided>>, late \subseteq late',
         CycleOK(r, k, rows),
         r \notin late' => PunctualOK(r, k, rows)
  PROVE  CollectionInv'
<1>1. /\ cycle' \in [Reports -> CycleRecords] /\ cycle'[r] = k
      /\ \A q \in Reports : q # r => cycle'[q] = cycle[q]
  BY DEF CollectionInv, CollectionTyped
<1>2. CollectionTyped'
  BY <1>1 DEF CollectionInv, CollectionTyped
<1>3. CyclesInOrder'
  <2>1. \A q \in Reports : CycleOK(q, cycle'[q], rows)
    BY <1>1 DEF CollectionInv, CyclesInOrder
  <2>2. QED
    BY <2>1 DEF CyclesInOrder, CycleOK, RowsFrom, Tables
<1>4. PunctualInOrder'
  <2>1. \A q \in Reports : q \notin late' => PunctualOK(q, cycle'[q], rows)
    BY <1>1 DEF CollectionInv, PunctualInOrder
  <2>2. QED
    BY <2>1 DEF PunctualInOrder, PunctualOK, TableNames, Tables
<1>5. OneCyclePerTimestamp'
  BY DEF CollectionInv, OneCyclePerTimestamp, Tables
<1>6. QED
  BY <1>2, <1>3, <1>4, <1>5 DEF CollectionInv

LEMMA RecordFacts ==
  ASSUME CollectionInv, NEW r \in Reports
  PROVE  /\ cycle[r] \in CycleRecords /\ CycleOK(r, cycle[r], rows)
         /\ r \notin late => PunctualOK(r, cycle[r], rows)
         /\ cycle \in [Reports -> CycleRecords] /\ now \in Nat
         /\ \A row \in rows : row.ts \in Nat
  BY DEF CollectionInv, CollectionTyped, CyclesInOrder, PunctualInOrder

(* The next tick is a whole number of seconds after this one.               *)
LEMMA BeginKeeps ==
  ASSUME CollectionInv, NEW r \in Reports, Begin(r)
  PROVE  CollectionInv'
<1> DEFINE k == [at |-> "fetching", ts |-> BatchTs, due |-> cycle[r].due + Interval,
                 pending |-> Symbols, asked |-> {}, answers |-> {}, stored |-> 0, failed |-> {}]
           d == cycle[r].due
<1>1. /\ cycle[r] \in CycleRecords
      /\ r \notin late => PunctualOK(r, cycle[r], rows)
      /\ cycle \in [Reports -> CycleRecords] /\ now \in Nat
      /\ \A row \in rows : row.ts \in Nat
  BY RecordFacts
<1>2. /\ cycle' = [cycle EXCEPT ![r] = k] /\ d <= now
      /\ late' = IF d < now THEN late \cup {r} ELSE late
      /\ UNCHANGED <<now, rows, collided>>
  BY <1>1 DEF Begin, dbVars
<1>3. d \in Nat
  BY <1>1 DEF CycleRecords
<1>4. /\ d \div PerSecond \in Nat /\ (d + Interval) \div PerSecond \in Nat
      /\ d \div PerSecond < (d + Interval) \div PerSecond
  BY <1>3, DivLater, PerSecondAssumption, IntervalAssumption
<1>5. BatchTs \in Nat
  BY <1>1, DivLater, PerSecondAssumption, IntervalAssumption DEF BatchTs
<1>6. k \in CycleRecords
  BY <1>3, <1>5, IntervalAssumption, SymbolsAssumption DEF CycleRecords
<1>7. /\ k.at = "fetching" /\ k.asked = {} /\ k.stored = 0 /\ k.ts = BatchTs
      /\ k.due = d + Interval
  OBVIOUS
<1> HIDE DEF k, d
<1>8. CycleOK(r, k, rows)
  BY <1>7 DEF CycleOK, Tables
<1>9. ASSUME r \notin late' PROVE PunctualOK(r, k, rows)
  <2>1. r \notin late /\ now = d
    BY <1>1, <1>2, <1>3, <1>9
  <2>2. BatchTs = d \div PerSecond
    BY <2>1 DEF BatchTs
  <2>3. ASSUME NEW row \in rows, row.table \in TableNames(r)
        PROVE  row.ts < k.due \div PerSecond /\ row.ts < k.ts
    <3>1. row.ts < d \div PerSecond /\ row.ts \in Nat
      BY <2>1, <2>3, <1>1 DEF PunctualOK, d
    <3>2. QED
      BY <3>1, <2>2, <1>4, <1>7
  <2>4. QED
    BY <2>2, <2>3, <1>4, <1>7 DEF PunctualOK
<1>10. QED
  BY <1>2, <1>6, <1>8, <1>9, ReportLocal

(* Symbols get their permits and the exchanges answer or fail.              *)
LEMMA FetchKeeps ==
  ASSUME CollectionInv, NEW r \in Reports,
         Permit(r) \/ \E p \in Pairs : Answer(r, p) \/ NoAnswer(r, p)
  PROVE  CollectionInv'
<1>1. /\ cycle[r] \in CycleRecords /\ CycleOK(r, cycle[r], rows)
      /\ r \notin late => PunctualOK(r, cycle[r], rows)
      /\ cycle \in [Reports -> CycleRecords]
  BY RecordFacts
<1>2. UNCHANGED <<now, rows, collided, late>>
  BY DEF Permit, Answer, NoAnswer, dbVars
<1>3. cycle[r].at = "fetching"
  BY <1>1 DEF Permit, Answer, NoAnswer, CycleOK
<1>4. SUFFICES ASSUME NEW k \in CycleRecords, cycle' = [cycle EXCEPT ![r] = k],
                      k.at = "fetching", k.ts = cycle[r].ts, k.due = cycle[r].due,
                      k.stored = cycle[r].stored
               PROVE  CollectionInv'
  <2>1. CASE Permit(r)
    <3> DEFINE k == [[cycle[r] EXCEPT !.pending = Tail(@)] EXCEPT
                        !.asked = IF shutdown THEN @
                                  ELSE @ \cup Asked(Head(cycle[r].pending))]
    <3>1. cycle' = [cycle EXCEPT ![r] = k]
      BY <2>1, <1>1 DEF Permit, CycleRecords
    <3>2. Tail(cycle[r].pending) \in Seq(ToSet(Symbols))
      BY <2>1, <1>1 DEF Permit, CycleRecords
    <3>3. Asked(Head(cycle[r].pending)) \subseteq Pairs
      BY DEF Asked
    <3>4. k \in CycleRecords
      BY <3>2, <3>3, <1>1 DEF CycleRecords
    <3>5. k.at = cycle[r].at /\ k.ts = cycle[r].ts /\ k.due = cycle[r].due /\ k.stored = cycle[r].stored
      BY <1>1 DEF CycleRecords
    <3> HIDE DEF k
    <3>6. QED
      BY <3>1, <3>4, <3>5, <1>3, <1>4
  <2>2. ASSUME NEW p \in Pairs, Answer(r, p)
        PROVE  CollectionInv'
    <3> DEFINE k == [[cycle[r] EXCEPT !.asked = @ \ {p}] EXCEPT !.answers = @ \cup {p}]
    <3>1. cycle' = [cycle EXCEPT ![r] = k]
      BY <2>2, <1>1 DEF Answer, CycleRecords
    <3>2. k \in CycleRecords
      BY <1>1 DEF CycleRecords
    <3>3. k.at = cycle[r].at /\ k.ts = cycle[r].ts /\ k.due = cycle[r].due /\ k.stored = cycle[r].stored
      BY <1>1 DEF CycleRecords
    <3> HIDE DEF k
    <3>4. QED
      BY <3>1, <3>2, <3>3, <1>3, <1>4
  <2>3. ASSUME NEW p \in Pairs, NoAnswer(r, p)
        PROVE  CollectionInv'
    <3> DEFINE k == [cycle[r] EXCEPT !.asked = @ \ {p}]
    <3>1. cycle' = [cycle EXCEPT ![r] = k]
      BY <2>3, <1>1 DEF NoAnswer, CycleRecords
    <3>2. k \in CycleRecords
      BY <1>1 DEF CycleRecords
    <3>3. k.at = cycle[r].at /\ k.ts = cycle[r].ts /\ k.due = cycle[r].due /\ k.stored = cycle[r].stored
      BY <1>1 DEF CycleRecords
    <3> HIDE DEF k
    <3>4. QED
      BY <3>1, <3>2, <3>3, <1>3, <1>4
  <2>4. QED
    BY <2>1, <2>2, <2>3
<1>5. CycleOK(r, k, rows)
  <2>1. k.stored = 0
    BY <1>1, <1>3, <1>4 DEF CycleOK
  <2>2. QED
    BY <2>1, <1>4 DEF CycleOK, Tables
<1>6. r \notin late' => PunctualOK(r, k, rows)
  BY <1>1, <1>2, <1>3, <1>4 DEF PunctualOK
<1>7. QED
  BY <1>2, <1>4, <1>5, <1>6, ReportLocal

(* The end of a cycle's fetches, and of a task between two cycles.          *)
LEMMA MovesKeep ==
  ASSUME CollectionInv, NEW r \in Reports, Fetched(r) \/ NoticeShutdown(r)
  PROVE  CollectionInv'
<1>1. /\ cycle[r] \in CycleRecords /\ CycleOK(r, cycle[r], rows)
      /\ r \notin late => PunctualOK(r, cycle[r], rows)
      /\ cycle \in [Reports -> CycleRecords]
  BY RecordFacts
<1>2. UNCHANGED <<now, rows, collided, late>>
  BY DEF Fetched, NoticeShutdown, dbVars
<1>3. PICK place \in {"waiting", "storing", "stopped"} :
         /\ cycle' = [cycle EXCEPT ![r].at = place]
         /\ place = "storing" => cycle[r].at = "fetching"
         /\ cycle[r].asked = {}
         /\ cycle[r].at = "fetching" /\ place # "storing" => cycle[r].answers = {}
         /\ cycle[r].at # "fetching" => cycle[r].at \in {"waiting", "stopped"}
  <2>1. CASE Fetched(r) /\ r = "ticker" /\ cycle[r].answers = {}
    BY <2>1 DEF Fetched, AtEnd
  <2>2. CASE Fetched(r) /\ ~ (r = "ticker" /\ cycle[r].answers = {})
    BY <2>2 DEF Fetched
  <2>3. CASE NoticeShutdown(r)
    BY <2>3, <1>1 DEF NoticeShutdown, CycleOK
  <2>4. QED
    BY <2>1, <2>2, <2>3
<1> DEFINE k == [cycle[r] EXCEPT !.at = place]
<1>4. k \in CycleRecords /\ cycle' = [cycle EXCEPT ![r] = k]
  BY <1>1, <1>3 DEF CycleRecords
<1>5. /\ k.at = place /\ k.ts = cycle[r].ts /\ k.due = cycle[r].due
      /\ k.stored = cycle[r].stored /\ k.asked = cycle[r].asked
      /\ k.answers = cycle[r].answers /\ k.failed = cycle[r].failed
  BY <1>1 DEF CycleRecords
<1> HIDE DEF k
<1>6. CycleOK(r, k, rows)
  <2>1. \A i \in 1 .. Len(Tables(r)) :
           i <= k.stored => i \in k.failed \/ RowsFrom(r, k, i) \subseteq rows
    BY <1>1, <1>5 DEF CycleOK, RowsFrom
  <2>2. k.at = "storing" => k.stored < Len(Tables(r))
    BY <1>1, <1>3, <1>5, TablesFacts DEF CycleOK
  <2>3. k.at \in {"waiting", "stopped"} => k.answers = {} \/ k.stored = Len(Tables(r))
    BY <1>1, <1>3, <1>5 DEF CycleOK
  <2>4. QED
    BY <2>1, <2>2, <2>3, <1>3, <1>5 DEF CycleOK
<1>7. r \notin late' => PunctualOK(r, k, rows)
  BY <1>1, <1>2, <1>3, <1>5 DEF PunctualOK
<1>8. QED
  BY <1>2, <1>4, <1>6, <1>7, ReportLocal

(* What Insert and InsertFails make of the cycle.                           *)
LEMMA StoresFacts ==
  ASSUME CollectionInv, NEW r \in Reports, NEW b \in BOOLEAN,
         cycle[r].at = "storing", Stores(r, b)
  PROVE  \E k \in CycleRecords :
            /\ cycle' = [cycle EXCEPT ![r] = k]
            /\ k.ts = cycle[r].ts /\ k.due = cycle[r].due /\ k.asked = {}
            /\ k.answers = cycle[r].answers
            /\ k.stored = cycle[r].stored + 1
            /\ k.stored \in 1 .. Len(Tables(r))
            /\ k.failed = IF b THEN cycle[r].failed ELSE cycle[r].failed \cup {k.stored}
            /\ IF k.stored = Len(Tables(r)) THEN k.at \in {"waiting", "stopped"}
               ELSE k.at = "storing"
<1>1. /\ cycle[r] \in CycleRecords /\ CycleOK(r, cycle[r], rows)
      /\ cycle \in [Reports -> CycleRecords]
  BY RecordFacts
<1>2. /\ cycle[r].stored \in Nat /\ cycle[r].stored < Len(Tables(r)) /\ cycle[r].asked = {}
      /\ Len(Tables(r)) \in Nat
  BY <1>1, TablesFacts DEF CycleRecords, CycleOK
<1> DEFINE n == cycle[r].stored + 1
           failed == IF b THEN cycle[r].failed ELSE cycle[r].failed \cup {n}
           place == IF n = Len(Tables(r)) THEN AtEnd ELSE cycle[r].at
           k == [[[cycle[r] EXCEPT !.stored = n] EXCEPT !.failed = failed] EXCEPT !.at = place]
<1>3. n \in Nat /\ n \in 1 .. Len(Tables(r))
  BY <1>2
<1>4. failed \in SUBSET Nat /\ place \in {"waiting", "stopped", "storing"}
  BY <1>1, <1>3 DEF CycleRecords, AtEnd
<1>5. cycle' = [cycle EXCEPT ![r] = k]
  BY <1>1 DEF Stores, Onwards, CycleRecords
<1> HIDE DEF n, failed, place
<1>6. /\ k \in CycleRecords
      /\ k.ts = cycle[r].ts /\ k.due = cycle[r].due /\ k.asked = cycle[r].asked
      /\ k.answers = cycle[r].answers /\ k.stored = n /\ k.failed = failed /\ k.at = place
  BY <1>1, <1>3, <1>4 DEF CycleRecords
<1> HIDE DEF k
<1>7. IF n = Len(Tables(r)) THEN place \in {"waiting", "stopped"} ELSE place = "storing"
  BY DEF place, AtEnd
<1>8. /\ k.stored = cycle[r].stored + 1 /\ k.stored \in 1 .. Len(Tables(r)) /\ k.asked = {}
      /\ k.failed = IF b THEN cycle[r].failed ELSE cycle[r].failed \cup {k.stored}
      /\ IF k.stored = Len(Tables(r)) THEN k.at \in {"waiting", "stopped"}
         ELSE k.at = "storing"
  BY <1>2, <1>3, <1>6, <1>7 DEF n, failed
<1>9. QED
  BY <1>5, <1>6, <1>8

LEMMA InsertFailsKeeps ==
  ASSUME CollectionInv, NEW r \in Reports, InsertFails(r)
  PROVE  CollectionInv'
<1>1. /\ cycle[r] \in CycleRecords /\ CycleOK(r, cycle[r], rows)
      /\ r \notin late => PunctualOK(r, cycle[r], rows)
  BY RecordFacts
<1>2. /\ UNCHANGED <<now, rows, collided, late>>
      /\ cycle[r].at = "storing" /\ Stores(r, FALSE)
  BY DEF InsertFails
<1>3. PICK k \in CycleRecords :
         /\ cycle' = [cycle EXCEPT ![r] = k]
         /\ k.ts = cycle[r].ts /\ k.due = cycle[r].due /\ k.asked = {}
         /\ k.answers = cycle[r].answers
         /\ k.stored = cycle[r].stored + 1
         /\ k.stored \in 1 .. Len(Tables(r))
         /\ k.failed = cycle[r].failed \cup {k.stored}
         /\ IF k.stored = Len(Tables(r)) THEN k.at \in {"waiting", "stopped"}
            ELSE k.at = "storing"
  BY <1>2, StoresFacts
<1>4. cycle[r].stored \in Nat /\ Len(Tables(r)) \in Nat
  BY <1>1, TablesFacts DEF CycleRecords
<1>5. CycleOK(r, k, rows)
  <2>1. ASSUME NEW i \in 1 .. Len(Tables(r)), i <= k.stored
        PROVE  i \in k.failed \/ RowsFrom(r, k, i) \subseteq rows
    <3>1. CASE i = k.stored
      BY <3>1, <1>3
    <3>2. CASE i <= cycle[r].stored
      BY <3>2, <1>1, <1>3 DEF CycleOK, RowsFrom
    <3>3. QED
      BY <3>1, <3>2, <2>1, <1>3, <1>4
  <2>2. QED
    BY <2>1, <1>3, <1>4 DEF CycleOK
<1>6. ASSUME r \notin late' PROVE PunctualOK(r, k, rows)
  <2>1. PunctualOK(r, cycle[r], rows)
    BY <1>1, <1>2, <1>6
  <2>2. \A i \in 1 .. Len(Tables(r)) : i <= cycle[r].stored => i <= k.stored
    BY <1>3, <1>4
  <2>3. QED
    BY <2>1, <2>2, <1>2, <1>3 DEF PunctualOK
<1>7. QED
  BY <1>2, <1>3, <1>5, <1>6, ReportLocal

(* The rows of one table, under the cycle's timestamp.                      *)
LEMMA InsertStores ==
  ASSUME CollectionInv, NEW r \in Reports, Insert(r)
  PROVE  CollectionInv'
<1> DEFINE t == Tables(r)[cycle[r].stored + 1]
           new == RowsFrom(r, cycle[r], cycle[r].stored + 1)
<1>1. /\ cycle[r] \in CycleRecords /\ CycleOK(r, cycle[r], rows)
      /\ r \notin late => PunctualOK(r, cycle[r], rows)
      /\ cycle \in [Reports -> CycleRecords] /\ now \in Nat
      /\ \A row \in rows : row.ts \in Nat
  BY RecordFacts
<1>2. /\ rows' = rows \cup new
      /\ collided' = collided \cup {row.table : row \in rows \cap new}
      /\ UNCHANGED <<now, late>>
      /\ cycle[r].at = "storing" /\ Stores(r, TRUE)
  BY DEF Insert, RowsOf, RowsFrom
<1>3. PICK k \in CycleRecords :
         /\ cycle' = [cycle EXCEPT ![r] = k]
         /\ k.ts = cycle[r].ts /\ k.due = cycle[r].due /\ k.asked = {}
         /\ k.answers = cycle[r].answers
         /\ k.stored = cycle[r].stored + 1
         /\ k.stored \in 1 .. Len(Tables(r))
         /\ k.failed = cycle[r].failed
         /\ IF k.stored = Len(Tables(r)) THEN k.at \in {"waiting", "stopped"}
            ELSE k.at = "storing"
  BY <1>2, StoresFacts
<1>4. /\ cycle[r].stored \in Nat /\ Len(Tables(r)) \in Nat
      /\ cycle[r].ts \in Nat /\ cycle[r].due \in Nat
  BY <1>1, TablesFacts DEF CycleRecords
<1>5. /\ cycle' \in [Reports -> CycleRecords] /\ cycle'[r] = k
      /\ \A q \in Reports : q # r => cycle'[q] = cycle[q]
  BY <1>1, <1>3
<1>6. \A row \in new : row.table = t /\ row.ts = cycle[r].ts
  BY DEF RowsFrom
<1>7. t \in TableNames(r) /\ t = Tables(r)[k.stored] /\ new = RowsFrom(r, k, k.stored)
  BY <1>3 DEF TableNames, RowsFrom
<1> HIDE DEF t, new
<1>8. CollectionTyped'
  BY <1>1, <1>2, <1>4, <1>5, <1>6 DEF CollectionTyped
<1>9. CyclesInOrder'
  <2>1. CycleOK(r, k, rows')
    <3>1. ASSUME NEW i \in 1 .. Len(Tables(r)), i <= k.stored
          PROVE  i \in k.failed \/ RowsFrom(r, k, i) \subseteq rows'
      <4>1. CASE i = k.stored
        BY <4>1, <1>2, <1>7
      <4>2. CASE i <= cycle[r].stored
        BY <4>2, <1>1, <1>2, <1>3 DEF CycleOK, RowsFrom
      <4>3. QED
        BY <4>1, <4>2, <3>1, <1>3, <1>4
    <3>2. QED
      BY <3>1, <1>3, <1>4 DEF CycleOK
  <2>2. ASSUME NEW q \in Reports, q # r PROVE CycleOK(q, cycle[q], rows')
    <3>1. CycleOK(q, cycle[q], rows) /\ rows \subseteq rows'
      BY <1>2, RecordFacts
    <3>2. QED
      BY <3>1 DEF CycleOK
  <2>3. \A q \in Reports : CycleOK(q, cycle'[q], rows')
    BY <2>1, <2>2, <1>5
  <2>4. QED
    BY <2>3 DEF CyclesInOrder, CycleOK, RowsFrom, Tables
<1>10. PunctualInOrder'
  <2>1. ASSUME r \notin late PROVE PunctualOK(r, k, rows')
    <3>1. PunctualOK(r, cycle[r], rows) /\ cycle[r].ts < cycle[r].due \div PerSecond
      BY <2>1, <1>1, <1>2 DEF PunctualOK
    <3>2. ASSUME NEW row \in rows', row.table \in TableNames(r)
          PROVE  /\ row.ts < k.due \div PerSecond
                 /\ row.ts < k.ts \/ \E i \in 1 .. Len(Tables(r)) :
                                        i <= k.stored /\ row.table = Tables(r)[i]
      <4>1. CASE row \in new
        BY <4>1, <3>1, <1>3, <1>4, <1>6, <1>7
      <4>2. CASE row \in rows
        <5>1. /\ row.ts < cycle[r].due \div PerSecond
              /\ row.ts < cycle[r].ts \/ \E i \in 1 .. Len(Tables(r)) :
                          i <= cycle[r].stored /\ row.table = Tables(r)[i]
          BY <4>2, <3>1, <3>2 DEF PunctualOK
        <5>2. \A i \in 1 .. Len(Tables(r)) : i <= cycle[r].stored => i <= k.stored
          BY <1>3, <1>4
        <5>3. QED
          BY <5>1, <5>2, <1>3
      <4>3. QED
        BY <4>1, <4>2, <3>2, <1>2
    <3>3. QED
      BY <3>1, <3>2, <1>3 DEF PunctualOK
  <2>2. ASSUME NEW q \in Reports, q # r, q \notin late PROVE PunctualOK(q, cycle[q], rows')
    <3>1. PunctualOK(q, cycle[q], rows)
      BY <2>2, RecordFacts
    <3>2. \A row \in rows' : row.table \in TableNames(q) => row \in rows
      BY <2>2, <1>2, <1>6, <1>7, TablesFacts
    <3>3. QED
      BY <3>1, <3>2 DEF PunctualOK
  <2>3. \A q \in Reports : q \notin late' => PunctualOK(q, cycle'[q], rows')
    BY <2>1, <2>2, <1>2, <1>5
  <2>4. QED
    BY <2>3 DEF PunctualInOrder, PunctualOK, TableNames, Tables
<1>11. OneCyclePerTimestamp'
  <2>1. ASSUME NEW q \in Reports, q \notin late, NEW i \in 1 .. Len(Tables(q)),
               Tables(q)[i] \in collided'
        PROVE  FALSE
    <3>1. Tables(q)[i] \notin collided
      BY <2>1 DEF CollectionInv, OneCyclePerTimestamp
    <3>2. PICK row \in rows \cap new : row.table = Tables(q)[i]
      BY <2>1, <3>1, <1>2
    <3>3. row.table = t /\ row.ts = cycle[r].ts
      BY <3>2, <1>6
    <3>4. q = r
      <4>1. t \in TableNames(q)
        BY <3>2, <3>3 DEF TableNames
      <4>2. QED
        BY <4>1, <1>7, TablesFacts
    <3>5. PICK j \in 1 .. Len(Tables(r)) : j <= cycle[r].stored /\ row.table = Tables(r)[j]
      <4>1. ~ (row.ts < cycle[r].ts)
        BY <3>3, <1>4
      <4>2. QED
        BY <4>1, <3>2, <3>3, <3>4, <2>1, <1>1, <1>7 DEF PunctualOK
    <3>6. j = k.stored
      BY <3>3, <3>5, <1>3, <1>7, TablesFacts
    <3>7. QED
      BY <3>5, <3>6, <1>3, <1>4
  <2>2. QED
    BY <2>1, <1>2 DEF OneCyclePerTimestamp, Tables
<1>12. QED
  BY <1>8, <1>9, <1>10, <1>11 DEF CollectionInv

-----------------------------------------------------------------------------
LEMMA CollectionInit == Init => CollectionInv
<1> SUFFICES ASSUME Init PROVE CollectionInv
  OBVIOUS
<1>1. now = 0 /\ rows = {} /\ collided = {} /\ late = {}
  BY DEF Init
<1>2. PICK due \in [Reports -> 0 .. PerSecond - 1] :
         cycle = [r \in Reports |->
                     [at |-> "waiting", ts |-> 0, due |-> due[r],
                      pending |-> << >>, asked |-> {}, answers |-> {}, stored |-> 0, failed |-> {}]]
  BY DEF Init
<1>3. ASSUME NEW r \in Reports
      PROVE  /\ cycle[r] \in CycleRecords /\ cycle[r].at = "waiting" /\ cycle[r].asked = {}
             /\ cycle[r].answers = {} /\ cycle[r].stored = 0
  <2>1. due[r] \in Nat
    BY PerSecondAssumption
  <2>2. << >> \in Seq(ToSet(Symbols))
    OBVIOUS
  <2>3. QED
    BY <1>2, <2>1, <2>2 DEF CycleRecords
<1>4. CollectionTyped
  BY <1>1, <1>2, <1>3 DEF CollectionTyped
<1>5. CyclesInOrder
  BY <1>3, TablesFacts DEF CyclesInOrder, CycleOK
<1>6. PunctualInOrder
  BY <1>1, <1>3 DEF PunctualInOrder, PunctualOK
<1>7. OneCyclePerTimestamp
  BY <1>1 DEF OneCyclePerTimestamp
<1>8. QED
  BY <1>4, <1>5, <1>6, <1>7 DEF CollectionInv

LEMMA CollectionNext == CollectionInv /\ [Next]_vars => CollectionInv'
<1> SUFFICES ASSUME CollectionInv, [Next]_vars PROVE CollectionInv'
  OBVIOUS
<1>1. CASE UNCHANGED <<cycle, rows, collided, late>> /\ now' \in Nat
  BY <1>1 DEF CollectionInv, CollectionTyped, CyclesInOrder, PunctualInOrder,
              OneCyclePerTimestamp, CycleOK, PunctualOK, RowsFrom, TableNames, Tables
<1>2. ASSUME NEW r \in Reports, ReportStep(r) \/ Answered(r) PROVE CollectionInv'
  BY <1>2, BeginKeeps, FetchKeeps, MovesKeep, InsertStores, InsertFailsKeeps
     DEF ReportStep, Answered
<1>3. now \in Nat
  BY DEF CollectionInv, CollectionTyped
<1>4. Pass \/ RequestShutdown \/ UNCHANGED vars
         => UNCHANGED <<cycle, rows, collided, late>> /\ now' \in Nat
  BY <1>3 DEF Pass, RequestShutdown, vars, history
<1>5. \A k \in KlineTasks : KlineStep(k) \/ KlineBegin(k) \/ KlineNotices(k)
         => UNCHANGED <<cycle, rows, collided, late>> /\ now' \in Nat
  BY <1>3 DEF KlineStep, KlineBegin, KlineNotices, KlineInterrupted, KlineSymbol, KlineAsks,
              KlineAskFails, KlinesFetched, NoKlines, KlinesRefused, dbVars
<1>6. QED
  BY <1>1, <1>2, <1>4, <1>5 DEF Next

(* After every step of any task (start.rs): what a cycle counts as stored   *)
(* is, and a report that was never late has only rows of earlier seconds,   *)
(* but for the tables its current cycle has stored.                         *)
THEOREM CollectionInvariant == Spec => []CollectionInv
<1>1. QED
  BY CollectionInit, CollectionNext, PTL DEF Spec

(* What a cycle of a report has been answered is in every table of the      *)
(* report it gives a row, or that table's own INSERT failed (start.rs).     *)
THEOREM CyclesStoreTheirAnswers == Spec => []AnswersAreStored
<1>1. ASSUME CollectionInv PROVE AnswersAreStored
  <2>1. ASSUME NEW r \in Reports, cycle[r].at \in {"waiting", "stopped"},
               NEW i \in 1 .. Len(Tables(r)), i \notin cycle[r].failed
        PROVE  RowsOf(r, i) \subseteq rows
    <3>1. CycleOK(r, cycle[r], rows)
      BY <1>1, RecordFacts
    <3>2. CASE cycle[r].answers = {}
      BY <3>2 DEF RowsOf
    <3>3. CASE cycle[r].stored = Len(Tables(r))
      <4>1. i <= cycle[r].stored
        BY <3>3, TablesFacts
      <4>2. QED
        BY <4>1, <3>1, <2>1 DEF CycleOK, RowsFrom, RowsOf
    <3>4. QED
      BY <3>1, <3>2, <3>3, <2>1 DEF CycleOK
  <2>2. QED
    BY <2>1 DEF AnswersAreStored
<1>2. QED
  BY <1>1, CollectionInvariant, PTL

(* A report that began every cycle at its tick never inserts a row that is  *)
(* there already: each of its cycles has a timestamp of its own (start.rs). *)
THEOREM PunctualCyclesAreApart == Spec => []OneCyclePerTimestamp
<1>1. CollectionInv => OneCyclePerTimestamp
  BY DEF CollectionInv
<1>2. QED
  BY <1>1, CollectionInvariant, PTL
=============================================================================
