-------------------------- MODULE CollectionService --------------------------
(***************************************************************************)
(* `start` (src/src/commands/start.rs), the data collection service: the    *)
(* liquidity and the ticker report, each a task with an interval of its     *)
(* own, and one klines task per exchange and timeframe.  They share the     *)
(* clients, the repository behind one mutex, and the shutdown flag.         *)
(*                                                                         *)
(* A report cycle takes one timestamp, asks every client for every symbol   *)
(* (--chunk symbols at a time), waits for all the answers and stores them   *)
(* under that timestamp, one INSERT per table.  Time is counted in parts of *)
(* a second.  The ticks an interval missed come at once when the task is    *)
(* back at it (tokio's default).                                            *)
(*                                                                         *)
(* A definition right before another with the same parameters that is used  *)
(* nowhere else (PermitsKept, ...) is a slip that would break a property.   *)
(***************************************************************************)
EXTENDS Integers, FiniteSets, SequencesExt

CONSTANTS
    Exchanges,
    Symbols,        \* a sequence: the order in which a task takes them
    Pairs,          \* <<exchange, symbol>>: what is asked of the clients that could be built
    Gaps,           \* rows that the book answered at a time does not give
    KlineTasks,     \* exchanges with a klines task: none unless --enable-backfill
    Chunk,          \* --chunk
    Interval,       \* --report-interval
    PerSecond,      \* parts of a second
    MaxTime,        \* bound on the clock
    MaxFaults       \* bound on failing requests and queries

ASSUME SymbolsAssumption == Symbols \in Seq(ToSet(Symbols))
ASSUME PairsAssumption == Pairs \subseteq Exchanges \X ToSet(Symbols)
(* No size can be traded on the book, or its depth cannot be calculated;    *)
(* the book itself is stored all the same.                                  *)
ASSUME GapsAssumption ==
    Gaps \subseteq [table : {"liquidity_depth", "slippage"}, pair : Pairs, ts : Nat]
ASSUME KlineTasksAssumption == KlineTasks \subseteq Exchanges
ASSUME ChunkAssumption == Chunk \in Nat \ {0}
ASSUME PerSecondAssumption == PerSecond \in Nat \ {0}
ASSUME IntervalAssumption == Interval \in Nat \ {0} /\ Interval % PerSecond = 0
ASSUME BoundsAssumption == MaxTime \in Nat /\ MaxFaults \in Nat

Reports == {"liquidity", "ticker"}

VARIABLES
    now,
    shutdown,       \* the flag that Ctrl+C sets
    cycle,          \* report -> where its task is, and its cycle
    kline,          \* klines task -> where it is, and the symbols to come
    queue,          \* the repository's mutex: holder first
    rows,           \* rows in the tables: [table, pair, ts]
    faults,         \* requests and queries that failed so far
    collided,       \* history: tables in which an inserted row was there already
    late            \* history: reports that began a cycle after its tick

history == <<collided, late>>
dbVars == <<rows, faults, collided>>
vars == <<now, shutdown, cycle, kline, queue, rows, faults, history>>

SymbolsOf(e) == SelectSeq(Symbols, LAMBDA s : <<e, s>> \in Pairs)

Init ==
    /\ now = 0
    /\ shutdown = FALSE
    /\ faults = 0
    /\ \E due \in [Reports -> 0 .. PerSecond - 1] :
          cycle = [r \in Reports |->
                     [at |-> "waiting", ts |-> 0, due |-> due[r],
                      pending |-> << >>, asked |-> {}, answers |-> {}, stored |-> 0, failed |-> {}]]
    /\ kline = [k \in KlineTasks |-> [at |-> "next", first |-> TRUE, todo |-> SymbolsOf(k)]]
    /\ queue = << >>
    /\ rows = {}
    /\ collided = {} /\ late = {}

Pass ==
    /\ now < MaxTime
    /\ now' = now + 1
    /\ UNCHANGED <<shutdown, cycle, kline, queue, rows, faults, history>>

RequestShutdown ==
    /\ ~shutdown
    /\ shutdown' = TRUE
    /\ UNCHANGED <<now, cycle, kline, queue, rows, faults, history>>

-----------------------------------------------------------------------------
(* A report's cycle                                                         *)

Holds(t) == queue # << >> /\ Head(queue) = t
Release(t) == queue' = Tail(queue)

TsOfTwoSeconds == now \div (2 * PerSecond)

(* batch_ts: Utc::now() without its nanoseconds.                            *)
BatchTs == now \div PerSecond

Begin(r) ==
    /\ cycle[r].at = "waiting"
    /\ cycle[r].due <= now
    /\ cycle' = [cycle EXCEPT ![r] =
           [at |-> "fetching", ts |-> BatchTs, due |-> @.due + Interval,
            pending |-> Symbols, asked |-> {}, answers |-> {}, stored |-> 0, failed |-> {}]]
    /\ late' = IF cycle[r].due < now THEN late \cup {r} ELSE late
    /\ UNCHANGED <<now, shutdown, kline, queue, dbVars>>

(* The symbols in flight hold a permit each until their answers are in.     *)
PermitsKept(r) == ToSet(Symbols) \ ToSet(cycle[r].pending)
Permits(r) == {p[2] : p \in cycle[r].asked}

Asked(s) == {p \in Pairs : p[2] = s}

(* A symbol gets its permit: its exchanges are asked together, or nothing   *)
(* is asked any more when the service is to stop.                           *)
Permit(r) ==
    /\ cycle[r].at = "fetching"
    /\ cycle[r].pending # << >>
    /\ Cardinality(Permits(r)) < Chunk
    /\ cycle' = [cycle EXCEPT ![r].pending = Tail(@),
                              ![r].asked = IF shutdown THEN @
                                           ELSE @ \cup Asked(Head(cycle[r].pending))]
    /\ UNCHANGED <<now, shutdown, kline, queue, dbVars, late>>

Answer(r, p) ==
    /\ p \in cycle[r].asked
    /\ cycle' = [cycle EXCEPT ![r].asked = @ \ {p}, ![r].answers = @ \cup {p}]
    /\ UNCHANGED <<now, shutdown, kline, queue, dbVars, late>>

(* An error, an empty book or an empty ticker is left out.                  *)
NoAnswer(r, p) ==
    /\ p \in cycle[r].asked
    /\ faults < MaxFaults
    /\ faults' = faults + 1
    /\ cycle' = [cycle EXCEPT ![r].asked = @ \ {p}]
    /\ UNCHANGED <<now, shutdown, kline, queue, rows, collided, late>>

AtEnd == IF shutdown THEN "stopped" ELSE "waiting"

(* All answers are in: the repository is asked for.  The liquidity report   *)
(* takes the mutex even when it has nothing to store.                       *)
Fetched(r) ==
    /\ cycle[r].at = "fetching"
    /\ cycle[r].pending = << >> /\ cycle[r].asked = {}
    /\ IF r = "ticker" /\ cycle[r].answers = {}
       THEN /\ cycle' = [cycle EXCEPT ![r].at = AtEnd]
            /\ UNCHANGED queue
       ELSE /\ cycle' = [cycle EXCEPT ![r].at = "storing"]
            /\ queue' = Append(queue, r)
    /\ UNCHANGED <<now, shutdown, kline, dbVars, late>>

-----------------------------------------------------------------------------
(* The repository                                                           *)

Tables(r) ==
    IF r = "ticker" THEN <<"tickers">> ELSE <<"liquidity_depth", "slippage", "orderbooks">>

RowsOf(r, i) ==
    [table : {Tables(r)[i]}, pair : cycle[r].answers, ts : {cycle[r].ts}] \ Gaps

StopAtError(r, stored) == IF stored THEN cycle[r].stored + 1 ELSE Len(Tables(r))

(* A failed INSERT is logged and the next table's follows.                  *)
Onwards(r, stored) == cycle[r].stored + 1

Stores(r, stored) ==
    LET n == Onwards(r, stored)
        last == n = Len(Tables(r))
    IN  /\ cycle' = [cycle EXCEPT
               ![r].stored = n,
               ![r].failed = IF stored THEN @ ELSE @ \cup {cycle[r].stored + 1},
               ![r].at = IF last THEN AtEnd ELSE @]
        /\ IF last THEN Release(r) ELSE UNCHANGED queue

(* One INSERT for all exchanges.  A row that is there already is dropped by *)
(* the table's unique constraint; tickers have none and get it twice.       *)
Insert(r) ==
    /\ cycle[r].at = "storing" /\ Holds(r)
    /\ LET new == RowsOf(r, cycle[r].stored + 1)
       IN  /\ rows' = rows \cup new
           /\ collided' = collided \cup {row.table : row \in rows \cap new}
    /\ Stores(r, TRUE)
    /\ UNCHANGED <<now, shutdown, kline, faults, late>>

(* The database is away, or refuses one row and the others with it.  With   *)
(* no row to store it is not asked.                                         *)
InsertFails(r) ==
    /\ cycle[r].at = "storing" /\ Holds(r)
    /\ RowsOf(r, cycle[r].stored + 1) # {}
    /\ faults < MaxFaults
    /\ faults' = faults + 1
    /\ Stores(r, FALSE)
    /\ UNCHANGED <<now, shutdown, kline, rows, collided, late>>

(* 100 ms between two ticks.                                                *)
NoticeShutdown(r) ==
    /\ cycle[r].at = "waiting"
    /\ shutdown
    /\ cycle' = [cycle EXCEPT ![r].at = "stopped"]
    /\ UNCHANGED <<now, shutdown, kline, queue, dbVars, late>>

-----------------------------------------------------------------------------
(* A klines task: a first pass over its symbols, and one with every tick.   *)

MoveTo(k, from, to) ==
    /\ kline[k].at = from
    /\ kline' = [kline EXCEPT ![k].at = to]

KlineBegin(k) ==
    /\ kline[k].at = "waiting"
    /\ kline' = [kline EXCEPT ![k].at = "next", ![k].todo = SymbolsOf(k)]
    /\ UNCHANGED <<now, shutdown, cycle, queue, dbVars, late>>

(* The first pass returns when the service is to stop, a later one breaks   *)
(* off and goes back to the interval.                                       *)
KlineInterrupted(k) ==
    /\ shutdown
    /\ MoveTo(k, "next", IF kline[k].first THEN "stopped" ELSE "waiting")
    /\ UNCHANGED <<now, shutdown, cycle, queue, dbVars, late>>

KlineSymbol(k) ==
    /\ kline[k].at = "next"
    /\ ~shutdown
    /\ kline' = [kline EXCEPT ![k].at = "asking", ![k].todo = Tail(@)]
    /\ queue' = Append(queue, k)
    /\ UNCHANGED <<now, shutdown, cycle, dbVars, late>>

(* get_latest_kline                                                         *)
KlineAsks(k) ==
    /\ Holds(k)
    /\ MoveTo(k, "asking", "fetching")
    /\ Release(k)
    /\ UNCHANGED <<now, shutdown, cycle, dbVars, late>>

(* Its error is the task's end, which nobody looks at before the shutdown.  *)
KlineAskFails(k) ==
    /\ Holds(k)
    /\ faults < MaxFaults
    /\ faults' = faults + 1
    /\ MoveTo(k, "asking", "failed")
    /\ Release(k)
    /\ UNCHANGED <<now, shutdown, cycle, rows, collided, late>>

KlinesFetched(k) ==
    /\ MoveTo(k, "fetching", "storing")
    /\ queue' = Append(queue, k)
    /\ UNCHANGED <<now, shutdown, cycle, dbVars, late>>

(* On to the next symbol, or to the interval when it was the last.          *)
SymbolDone(k, from) ==
    /\ kline[k].at = from
    /\ kline' = [kline EXCEPT ![k] =
           IF @.todo = << >> THEN [at |-> "waiting", first |-> FALSE, todo |-> << >>]
                             ELSE [@ EXCEPT !.at = "next"]]

(* No klines, an error, or a shutdown between two chunks.                   *)
NoKlines(k) ==
    /\ SymbolDone(k, "fetching")
    /\ UNCHANGED <<now, shutdown, cycle, queue, dbVars, late>>

(* The INSERT names a conflict target that no constraint of klines has, so  *)
(* PostgreSQL refuses it; the error ends the symbol's chunks.               *)
KlinesRefused(k) ==
    /\ Holds(k)
    /\ SymbolDone(k, "storing")
    /\ Release(k)
    /\ UNCHANGED <<now, shutdown, cycle, dbVars, late>>

KlineNotices(k) ==
    /\ shutdown
    /\ MoveTo(k, "waiting", "stopped")
    /\ UNCHANGED <<now, shutdown, cycle, queue, dbVars, late>>

-----------------------------------------------------------------------------
ReportStep(r) ==
    \/ Begin(r) \/ Permit(r) \/ Fetched(r) \/ Insert(r) \/ InsertFails(r)
    \/ NoticeShutdown(r)

Answered(r) == \E p \in Pairs : Answer(r, p) \/ NoAnswer(r, p)

KlineStep(k) ==
    \/ KlineInterrupted(k) \/ KlineSymbol(k)
    \/ KlineAsks(k) \/ KlineAskFails(k) \/ KlinesFetched(k) \/ NoKlines(k) \/ KlinesRefused(k)

Next ==
    \/ Pass \/ RequestShutdown
    \/ \E r \in Reports : ReportStep(r) \/ Answered(r)
    \/ \E k \in KlineTasks : KlineStep(k) \/ KlineBegin(k) \/ KlineNotices(k)

Spec == Init /\ [][Next]_vars

(* Tasks that are ready run, and requests and queries return (reqwest's     *)
(* clients have no timeout of their own: this is trust in the exchanges).   *)
(* A klines task has more than 100 ms between ticks again and again.        *)
FairSpec ==
    /\ Spec
    /\ \A r \in Reports : WF_vars(ReportStep(r) \/ Answered(r))
    /\ \A k \in KlineTasks : WF_vars(KlineStep(k)) /\ SF_vars(KlineNotices(k))

-----------------------------------------------------------------------------
(* What a cycle has been answered is in every table of the report, under    *)
(* the cycle's timestamp, unless that table's own INSERT failed or the      *)
(* answer gave it no row: no other exchange's error, no other table's and   *)
(* no shutdown in between loses it.                                         *)
AnswersAreStored ==
    \A r \in Reports : cycle[r].at \in {"waiting", "stopped"} =>
        \A i \in 1 .. Len(Tables(r)) : i \in cycle[r].failed \/ RowsOf(r, i) \subseteq rows

(* "Capture a single batch timestamp (rounded to seconds) for all data in   *)
(* this cycle": two cycles of a report have one timestamp, and tickers      *)
(* stand twice in their table, only when a cycle began after its tick.      *)
OneCyclePerTimestamp ==
    \A r \in Reports : r \notin late =>
        \A i \in 1 .. Len(Tables(r)) : Tables(r)[i] \notin collided

(* After Ctrl+C every task comes to its end, whatever it was at: waiting    *)
(* for answers, for permits, or for the repository.                         *)
EveryTaskStops ==
    shutdown ~> /\ \A r \in Reports : cycle[r].at = "stopped"
                /\ \A k \in KlineTasks : kline[k].at \in {"stopped", "failed"}
=============================================================================
