------------------------------ MODULE Backfill ------------------------------
(***************************************************************************)
(* `backfill` (commands/backfill.rs): the task of one exchange, for one     *)
(* symbol, run again and again by hand or by a scheduler.                   *)
(*                                                                         *)
(* A run takes the data types one after the other.  Without --start-date it *)
(* first looks for the earliest kline, backwards in growing steps, and      *)
(* caches the answer for good.  Klines, funding rates and trades are then   *)
(* fetched chunk by chunk; a chunk whose request fails is skipped.  Runs    *)
(* are interrupted at any point, and the next one carries on after the      *)
(* latest rate or trade stored, or from the start if it cannot read that    *)
(* one (--force-refetch, which never looks, is not modelled).  For trades   *)
(* every chunk asks for the most recent ones, whatever its time.            *)
(* Only one interval of klines is modelled: the others get a copy of the    *)
(* longest one's discovery.                                                 *)
(*                                                                         *)
(* No kline is ever stored: store_klines_with_exchange says ON CONFLICT     *)
(* (exchange_id, symbol, interval, open_time), and the one unique           *)
(* constraint of the table (migrations/00_initial_schema.sql:172) has ts    *)
(* as well, so PostgreSQL refuses the statement.                            *)
(*                                                                         *)
(* A definition right before another with the same parameters that is used  *)
(* nowhere else (FirstFound, SameChunk, ...) is a slip that would break a   *)
(* property.                                                                *)
(***************************************************************************)
EXTENDS Integers, Sequences, FiniteSets

CONSTANTS
    FirstNow, LastNow,  \* the clock, bounded
    Windows,            \* search_windows: how far back discovery looks, growing
    Span,               \* what a probe of discovery covers (7 days)
    Placeholder,        \* start_date without --start-date: this long ago (2 years)
    StartDate,          \* --start-date
    KlineChunk,         \* klines per request
    ChunkOf,            \* the time a request for rates, trades covers (30 days, 1 hour)
    LimitOf,            \* rates, trades an exchange returns at most (500, 1000)
    ResumeOf,           \* what is added to the latest one stored (8 hours, 1 second)
    BatchSize,          \* --batch-size
    Requested,          \* the data types a run may be asked for
    MaxRuns,            \* bound on runs
    MaxFaults           \* bound on failed requests, queries and stores and on crashes

ASSUME WindowsAssumption ==
    /\ Windows \in Seq(Nat)
    /\ \A i, j \in DOMAIN Windows : i < j => Windows[i] + Span < Windows[j]
Series == {"funding_rates", "trades"}

ASSUME ClockAssumption ==
    /\ {FirstNow, LastNow, Span, Placeholder} \subseteq Nat /\ StartDate \in Int
    /\ FirstNow <= LastNow
ASSUME RequestedAssumption == Requested \subseteq Seq({"klines"} \cup Series)
ASSUME ChunksAssumption == {KlineChunk, BatchSize} \subseteq Nat \ {0}
ASSUME SeriesAssumption == {ChunkOf, LimitOf, ResumeOf} \subseteq [Series -> Nat \ {0}]

VARIABLES
    now,            \* Utc::now()
    listed,         \* the symbol's first kline
    period,         \* the time between the exchange's funding rates
    auto,           \* runs are started without --start-date
    run,            \* the current run, or the last one
    cache,          \* kline_discovery_cache, None before the first discovery
    stored,         \* rows of funding_rates and of trades at each time
    runs, faults,   \* counters for the bounds
    probed,         \* history: the end time of a cached discovery none of whose
                    \* requests failed, None otherwise
    withheld,       \* history: <<series, time>> in a chunk that failed or over the limit
    passedOver,     \* history: between the latest one stored and a resume
    restarts,       \* history: runs that could not read the latest one stored
    seams,          \* history: ends of chunks
    claimed         \* history: what a run that completed says it has covered

world == <<listed, period, auto>>
histories == <<withheld, passedOver, restarts, seams, claimed>>
vars == <<now, world, run, cache, stored, runs, faults, probed, histories>>

None == -1
Times == 0..LastNow

Candles(from, to) == {t \in Times : listed <= t /\ from <= t /\ t <= to /\ t <= now}
Rates(from, to) == {t \in Candles(from, to) : (t - listed) % period = 0}
(* The filter on trades leaves a chunk's end to the next chunk.             *)
Trades(from, to) == Candles(from, to - 1)
Between(k, from, to) == IF k = "trades" THEN Trades(from, to) ELSE Rates(from, to)

Smallest(S, n) == {t \in S : Cardinality({u \in S : u <= t}) <= n}
MaxOf(S) == CHOOSE t \in S : \A u \in S : u <= t
MinOf(S) == CHOOSE t \in S : \A u \in S : t <= u
Latest(S, n) == {t \in S : Cardinality({u \in S : u >= t}) <= n}
InOrder(S) == [i \in 1..Cardinality(S) |-> CHOOSE t \in S : Cardinality({u \in S : u <= t}) = i]
Lesser(a, b) == IF a <= b THEN a ELSE b

Ended == [at |-> "ended", types |-> << >>, end |-> 0, window |-> 0, found |-> None,
          clean |-> TRUE, time |-> 0, buffer |-> << >>]

Init ==
    /\ now = FirstNow
    /\ listed \in 0..FirstNow
    /\ period \in 1..ResumeOf["funding_rates"]
    /\ auto \in BOOLEAN
    /\ run = Ended
    /\ cache = None
    /\ stored = [k \in Series |-> [t \in Times |-> 0]]
    /\ runs = 0 /\ faults = 0
    /\ probed = None
    /\ restarts = [k \in Series |-> 0]
    /\ withheld = {} /\ passedOver = {} /\ seams = {} /\ claimed = {}

(* A run asks for nothing after its start, so time may stand still in it.   *)
Tick ==
    /\ run.at \in {"ended", "failed"}
    /\ now < LastNow
    /\ now' = now + 1
    /\ UNCHANGED <<world, run, cache, stored, runs, faults, probed, histories>>

-----------------------------------------------------------------------------
(* execute: one exchange's task                                             *)

StartRun ==
    /\ run.at \in {"ended", "failed"}
    /\ runs < MaxRuns
    /\ runs' = runs + 1
    /\ \E types \in Requested : run' = [Ended EXCEPT !.at = "next", !.types = types, !.end = now]
    /\ UNCHANGED <<now, world, cache, stored, faults, probed, histories>>

NextType == [run EXCEPT !.at = "next", !.types = Tail(@)]

(* The `?` behind backfill_klines leaves the whole task, not the data type. *)
TaskFailed == [run EXCEPT !.at = "failed", !.types = << >>, !.buffer = << >>]

BeginType ==
    /\ run.at = "next"
    /\ run' = IF run.types = << >> THEN Ended
              ELSE [run EXCEPT !.at = IF auto THEN "discovering" ELSE "starting",
                               !.found = None, !.clean = TRUE, !.buffer = << >>]
    /\ UNCHANGED <<now, world, cache, stored, runs, faults, probed, histories>>

Fault == faults < MaxFaults /\ faults' = faults + 1

-----------------------------------------------------------------------------
(* get_or_discover_earliest_timestamp, discover_earliest_kline              *)

CacheHit ==
    /\ run.at = "discovering"
    /\ cache # None
    /\ run' = [run EXCEPT !.at = "starting", !.found = cache]
    /\ UNCHANGED <<now, world, cache, stored, runs, faults, probed, histories>>

(* A cache that cannot be read is taken for one with nothing in it.         *)
CacheMiss ==
    /\ run.at = "discovering"
    /\ run' = [run EXCEPT !.at = "checking"]
    /\ \/ cache = None /\ UNCHANGED faults
       \/ cache # None /\ Fault
    /\ UNCHANGED <<now, world, cache, stored, runs, probed, histories>>

(* The last day has klines, or the symbol is skipped.                       *)
CheckRecent ==
    /\ run.at = "checking"
    /\ \/ /\ Candles(run.end - 1, run.end) # {}
          /\ run' = [run EXCEPT !.at = "probing", !.window = 1]
          /\ UNCHANGED faults
       \/ /\ Candles(run.end - 1, run.end) = {}
          /\ run' = NextType
          /\ UNCHANGED faults
       \/ Fault /\ run' = NextType
    /\ UNCHANGED <<now, world, cache, stored, runs, probed, histories>>

ProbeFrom(i) == run.end - Windows[i]
Probed == Candles(ProbeFrom(run.window), ProbeFrom(run.window) + Span)

FirstFound(batch) == IF run.found = None THEN MinOf(batch) ELSE run.found

OldestFound(batch) ==
    IF run.found = None THEN MinOf(batch) ELSE Lesser(run.found, MinOf(batch))

Searching == run.at = "probing" /\ run.window <= Len(Windows)

ProbeFinds ==
    /\ Searching
    /\ Probed # {}
    /\ run' = [run EXCEPT !.window = @ + 1, !.found = OldestFound(Probed)]
    /\ UNCHANGED <<now, world, cache, stored, runs, faults, probed, histories>>

(* Nothing there, or an error, is taken for the limit of the data if a      *)
(* window before had some.                                                  *)
ProbeFindsNothing ==
    /\ Searching
    /\ LET last == IF run.found # None THEN Len(Windows) ELSE run.window
       IN  \/ /\ Probed = {}
              /\ run' = [run EXCEPT !.window = last + 1]
              /\ UNCHANGED faults
           \/ /\ Fault
              /\ run' = [run EXCEPT !.window = last + 1, !.clean = FALSE]
    /\ UNCHANGED <<now, world, cache, stored, runs, probed, histories>>

Discovered == IF run.found = None THEN run.end - Placeholder ELSE run.found

(* A cache that cannot be written is only a warning.                        *)
FinishDiscovery ==
    /\ run.at = "probing" /\ ~Searching
    /\ run' = [run EXCEPT !.at = "starting", !.found = Discovered]
    /\ \/ /\ cache' = Discovered
          /\ probed' = IF run.clean THEN run.end ELSE None
          /\ UNCHANGED faults
       \/ Fault /\ UNCHANGED <<cache, probed>>
    /\ UNCHANGED <<now, world, stored, runs, histories>>

-----------------------------------------------------------------------------
(* backfill_klines.  The table stays empty, so what is missing is one range *)
(* from the start to the end.                                               *)

StartKlines ==
    /\ run.at = "starting" /\ Head(run.types) = "klines"
    /\ run' = [run EXCEPT !.at = "klines", !.time = IF auto THEN run.found ELSE StartDate]
    /\ UNCHANGED <<now, world, cache, stored, runs, faults, probed, histories>>

KlineChunkEnd == Lesser(run.time + KlineChunk, run.end)

SameChunk == run.time

PastEmptyChunk == KlineChunkEnd

FetchKlines ==
    /\ run.at = "klines" /\ run.time < run.end
    /\ LET klines == Smallest(Candles(run.time, KlineChunkEnd), KlineChunk)
       IN  \/ /\ klines = {}
              /\ run' = [run EXCEPT !.time = PastEmptyChunk]
              /\ UNCHANGED faults
           \/ /\ klines # {}
              /\ run' = IF Len(run.buffer) + Cardinality(klines) >= BatchSize
                        THEN TaskFailed
                        ELSE [run EXCEPT !.time = Lesser(MaxOf(klines) + 1, KlineChunkEnd),
                                         !.buffer = @ \o InOrder(klines)]
              /\ UNCHANGED faults
           \/ Fault /\ run' = [run EXCEPT !.time = KlineChunkEnd]
    /\ UNCHANGED <<now, world, cache, stored, runs, probed, histories>>

FinishKlines ==
    /\ run.at = "klines" /\ run.time >= run.end
    /\ run' = IF run.buffer = << >> THEN NextType ELSE TaskFailed
    /\ UNCHANGED <<now, world, cache, stored, runs, faults, probed, histories>>

-----------------------------------------------------------------------------
(* backfill_funding_rates, backfill_trades                                  *)

Kind == Head(run.types)
Of(k, times) == {k} \X times

(* What was discovered is not used: both branches of skip_existing go back  *)
(* to start_date.                                                           *)
SeriesStart == IF auto THEN run.end - Placeholder ELSE StartDate

Existing == {t \in Times : stored[Kind][t] > 0 /\ SeriesStart <= t /\ t <= run.end}

SeriesFrom(from) ==
    IF from >= run.end THEN NextType ELSE [run EXCEPT !.at = "series", !.time = from]

(* Nothing found and a query that fails are the same to it (`_ =>`).        *)
StartSeries ==
    /\ run.at = "starting" /\ Kind \in Series
    /\ \/ /\ Existing = {}
          /\ run' = SeriesFrom(SeriesStart)
          /\ UNCHANGED <<faults, passedOver, restarts>>
       \/ /\ Existing # {}
          /\ LET resume == MaxOf(Existing) + ResumeOf[Kind]
             IN  /\ run' = SeriesFrom(resume)
                 /\ passedOver' = passedOver \cup Of(Kind, MaxOf(Existing) + 1 .. resume - 1)
          /\ UNCHANGED <<faults, restarts>>
       \/ /\ Existing # {}
          /\ Fault
          /\ run' = SeriesFrom(SeriesStart)
          /\ restarts' = [restarts EXCEPT ![Kind] = @ + 1]
          /\ UNCHANGED passedOver
    /\ UNCHANGED <<now, world, cache, stored, runs, probed, withheld, seams, claimed>>

ChunkEnd == Lesser(run.time + ChunkOf[Kind], run.end)
Offered == Between(Kind, run.time, ChunkEnd)

(* Rates from the chunk's start on, or what of the most recent trades is in *)
(* the chunk.                                                               *)
Returned ==
    IF Kind = "trades" THEN Offered \cap Latest(Candles(0, now), LimitOf[Kind])
                       ELSE Smallest(Offered, LimitOf[Kind])

StoredWith(buffer) ==
    [stored EXCEPT ![Kind] =
        [t \in Times |-> @[t] + Cardinality({i \in DOMAIN buffer : buffer[i] = t})]]

BufferKept(buffer) == buffer

BufferCleared(buffer) == << >>

(* store_..._with_exchange is one transaction.  Its ON CONFLICT DO NOTHING  *)
(* has no unique constraint to go by.                                       *)
FetchChunk ==
    /\ run.at = "series" /\ run.time < run.end
    /\ LET buffer == run.buffer \o InOrder(Returned)
           next   == [run EXCEPT !.time = ChunkEnd, !.buffer = buffer]
       IN  \/ /\ Returned = {} \/ Len(buffer) < BatchSize
              /\ run' = next
              /\ UNCHANGED <<stored, faults>>
           \/ /\ Returned # {} /\ Len(buffer) >= BatchSize
              /\ run' = [next EXCEPT !.buffer = BufferCleared(buffer)]
              /\ stored' = StoredWith(buffer)
              /\ UNCHANGED faults
           \/ /\ Returned # {} /\ Len(buffer) >= BatchSize
              /\ Fault
              /\ run' = NextType
              /\ UNCHANGED stored
    /\ withheld' = withheld \cup Of(Kind, Offered \ Returned)
    /\ seams' = seams \cup Of(Kind, {ChunkEnd})
    /\ UNCHANGED <<now, world, cache, runs, probed, passedOver, restarts, claimed>>

ChunkFails ==
    /\ run.at = "series" /\ run.time < run.end
    /\ Fault
    /\ run' = [run EXCEPT !.time = ChunkEnd]
    /\ withheld' = withheld \cup Of(Kind, Offered)
    /\ seams' = seams \cup Of(Kind, {ChunkEnd})
    /\ UNCHANGED <<now, world, cache, stored, runs, probed, passedOver, restarts, claimed>>

NotFlushed == stored

Flushed == StoredWith(run.buffer)

FinishSeries ==
    /\ run.at = "series" /\ run.time >= run.end
    /\ run' = NextType
    /\ \/ /\ stored' = Flushed
          /\ claimed' = claimed \cup Of(Kind, Between(Kind, SeriesStart, run.end))
          /\ UNCHANGED faults
       \/ /\ run.buffer # << >>
          /\ Fault
          /\ UNCHANGED <<stored, claimed>>
    /\ UNCHANGED <<now, world, cache, runs, probed, withheld, passedOver, restarts, seams>>

-----------------------------------------------------------------------------
(* The process is killed.                                                   *)
Crash ==
    /\ run.at \notin {"ended", "failed"}
    /\ Fault
    /\ run' = Ended
    /\ UNCHANGED <<now, world, cache, stored, runs, probed, histories>>

Discover ==
    CacheHit \/ CacheMiss \/ CheckRecent \/ ProbeFinds \/ ProbeFindsNothing \/ FinishDiscovery
RunStep ==
    \/ BeginType \/ Discover
    \/ StartKlines \/ FetchKlines \/ FinishKlines
    \/ StartSeries \/ FetchChunk \/ ChunkFails \/ FinishSeries
Next == Tick \/ StartRun \/ RunStep \/ Crash

(* A run goes on until it ends: requests and stores return.                 *)
Spec == Init /\ [][Next]_vars /\ WF_vars(RunStep)

-----------------------------------------------------------------------------
(* A run that says it has backfilled the rates or trades of its range has   *)
(* left out only those that a failed chunk or the exchange's limit          *)
(* withheld, or that a resume passed over: interrupted runs, failed stores, *)
(* several runs that carry on from each other and the batching lose none.   *)
OnlyKnownHoles ==
    \A k \in Series, t \in Times : <<k, t>> \in claimed =>
        stored[k][t] > 0 \/ <<k, t>> \in withheld \/ <<k, t>> \in passedOver

(* Nothing in the database keeps a row from being stored again.  Runs that  *)
(* are interrupted, fail to store and carry on from each other still store  *)
(* each trade once, and each rate once but for the end of a chunk, which    *)
(* belongs to the next chunk as well; only a run that could not read where  *)
(* to resume, and so starts over, adds as many again.                       *)
CopiesOnlyByRestarts ==
    \A k \in Series, t \in Times :
        LET passes == restarts[k] + 1
        IN  stored[k][t] <= IF k = "funding_rates" /\ <<k, t>> \in seams
                            THEN 2 * passes ELSE passes

(* Discovery is not exact, and what it finds is kept for good: but with no  *)
(* request failed, klines older than the start it found are in none of the  *)
(* windows it looks at, so the start is late by less than the distance to   *)
(* the next window.                                                         *)
DiscoveryWithinAWindow ==
    cache # None /\ probed # None =>
        \A t \in listed .. cache - 1 : \A i \in DOMAIN Windows :
            ~(probed - Windows[i] <= t /\ t <= probed - Windows[i] + Span)

(* "This ensures we don't skip data or get stuck in an infinite loop": a    *)
(* run ends, whatever is answered and however the exchange limits answers.  *)
EveryRunEnds == run.at = "next" ~> run.at \in {"ended", "failed"}
=============================================================================
