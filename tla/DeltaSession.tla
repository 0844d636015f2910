---------------------------- MODULE DeltaSession ----------------------------
(***************************************************************************)
(* One symbol of crates/perps-core/src/ws_orderbook_manager.rs on an        *)
(* exchange that streams depth updates (with_delta): the shard's session    *)
(* (run_shard, run_session), the symbol's cached state, and the refill of   *)
(* get_orderbook that fetches a REST snapshot while updates keep arriving.  *)
(* It drives the LocalOrderbook of the reconstruction manager.              *)
(*                                                                         *)
(* A connection delivers the updates cut after it was subscribed in order   *)
(* and once; Lossy lets the exchange leave some out.  Pacifica sends the    *)
(* whole book in every frame (is_snapshot), most others the changes, and    *)
(* Extended now one and now the other: Frames says which may come.  REST    *)
(* snapshots are numbered like the stream (Extended's, which a clock        *)
(* numbers, are not modelled).  A refill holds the symbol's refill mutex    *)
(* from its second cache check to its return, so one refill at a time is    *)
(* all there is; OrderbookReaders has the readers that wait for it.         *)
(***************************************************************************)
EXTENDS LocalOrderbook, FiniteSets

CONSTANTS
    Frames,         \* what a frame may be: a subset of {"delta", "snapshot"}
    Lossy,          \* the exchange may leave out an update
    SnapshotLag,    \* how many ids the REST book may be behind the stream
    MaxFailures     \* bound on dropped connections and on failed attempts

ASSUME FramesAssumption == Frames \subseteq {"delta", "snapshot"}
ASSUME LossyAssumption == Lossy \in BOOLEAN
ASSUME SnapshotLagAssumption == SnapshotLag \in Nat
ASSUME MaxFailuresAssumption == MaxFailures \in Nat

VARIABLES
    now,            \* the exchange's latest id
    session,        \* where run_shard is
    sent,           \* the last cut this connection has delivered
    subscribedAt,   \* history: the exchange's latest id when it subscribed
    failures,       \* connections dropped so far
    state,          \* the symbol's SymbolState
    refill,         \* the get_orderbook call that holds the refill mutex
    overrun         \* history: the snapshot the book is from came so late that the
                    \* ring buffer had forgotten updates it did not have

sessionVars == <<session, sent, subscribedAt, failures>>
dsVars == <<vars, now, sessionVars, state, refill, overrun>>

Sessions == {"connecting", "subscribed", "streaming", "failed"}
Phases == {"idle", "buffering", "fetching", "settling"}
NoBook == [book |-> EmptyBook, id |-> -1]
Cached == [book : Books, id : Ids] \cup {NoBook}
NoRefill == [phase |-> "idle", generation |-> 0, connected |-> FALSE, snapshot |-> 0]

SessionInit ==
    /\ now = 0
    /\ session = "connecting"
    /\ sent = 0
    /\ subscribedAt = 0
    /\ failures = 0
    /\ state = [generation |-> 0, connected |-> FALSE, ready |-> FALSE, cached |-> NoBook]
    /\ refill = NoRefill
    /\ overrun = FALSE

DeltaInit == Init /\ SessionInit

-----------------------------------------------------------------------------
(* The exchange.                                                            *)

Tick ==
    /\ now < MaxId
    /\ now' = now + 1
    /\ UNCHANGED <<vars, sessionVars, state, refill, overrun>>

-----------------------------------------------------------------------------
(* run_shard and run_session                                                *)

(* connect_and_subscribe: the exchange sends the updates cut from here on.  *)
Subscribe ==
    /\ session = "connecting"
    /\ session' = "subscribed"
    /\ sent' = PreviousCut(now + 1)
    /\ subscribedAt' = now
    /\ UNCHANGED <<vars, now, failures, state, refill, overrun>>

MarkConnected ==
    /\ session = "subscribed"
    /\ session' = "streaming"
    /\ state' = [state EXCEPT !.connected = TRUE]
    /\ UNCHANGED <<vars, now, sent, subscribedAt, failures, refill, overrun>>

(* The connection attempt fails or times out, the stream ends, errs, or is  *)
(* silent for inactivity_timeout.                                           *)
ConnectionLost ==
    /\ session # "failed"
    /\ failures < MaxFailures
    /\ failures' = failures + 1
    /\ session' = "failed"
    /\ UNCHANGED <<vars, now, sent, subscribedAt, state, refill, overrun>>

ResetState ==
    [generation |-> state.generation + 1, connected |-> FALSE,
     ready |-> FALSE, cached |-> NoBook]

(* Shared::reset; a new attempt follows after reconnect_delay.              *)
ResetSymbol ==
    /\ session = "failed"
    /\ session' = "connecting"
    /\ state' = ResetState
    /\ Reset
    /\ overrun' = FALSE
    /\ UNCHANGED <<feedVars, now, sent, subscribedAt, failures, refill>>

(* The update the connection delivers next.                                 *)
Undelivered == {c \in cuts : sent < c /\ c <= now}
NextCut == CHOOSE c \in Undelivered : \A d \in Undelivered : c <= d

(* Nado's session zeroes previous_id on the first frame of a connection and *)
(* on no other.                                                             *)
FirstFrame == sent = PreviousCut(subscribedAt + 1)
Seeded(e) ==
    TolerateSnapshotSeam =>
        e = Update(e.final, IF FirstFrame THEN "zero" ELSE "chain")

NeverRefreshed == state

(* The cached book of a symbol that is ready follows the reconstruction.    *)
Refreshed ==
    IF state.ready
    THEN [state EXCEPT !.cached = [book |-> book', id |-> lastUpdateId']]
    ELSE state

(* A delta of the stream: Err ends the session; otherwise a ready symbol's  *)
(* cache follows the reconstruction when its timestamp changed.             *)
ReceiveDelta(e) ==
    /\ "delta" \in Frames
    /\ session = "streaming"
    /\ Undelivered # {}
    /\ e.final = NextCut /\ Seeded(e)
    /\ sent' = e.final
    /\ \/ /\ Rejected(e)
          /\ session' = "failed"
          /\ UNCHANGED state
       \/ /\ Buffered(e)
          /\ UNCHANGED <<session, state>>
       \/ /\ Applied(e)
          /\ state' = Refreshed
          /\ UNCHANGED session
    /\ UNCHANGED <<feedVars, now, subscribedAt, failures, refill, overrun>>

(* An is_snapshot frame: the reconstruction starts over from it.            *)
ReceiveSnapshot ==
    /\ "snapshot" \in Frames
    /\ session = "streaming"
    /\ Undelivered # {}
    /\ sent' = NextCut
    /\ ApplySnapshot(TruthAt(NextCut), NextCut)
    /\ state' = [state EXCEPT !.ready = TRUE,
                              !.cached = [book |-> book', id |-> lastUpdateId']]
    /\ overrun' = FALSE
    /\ UNCHANGED <<feedVars, now, session, subscribedAt, failures, refill>>

LoseDelta ==
    /\ Lossy
    /\ session \in {"subscribed", "streaming"}
    /\ Undelivered # {}
    /\ sent' = NextCut
    /\ UNCHANGED <<vars, now, session, subscribedAt, failures, state, refill, overrun>>

-----------------------------------------------------------------------------
(* get_multi and get_orderbook                                              *)

(* What get_multi can hand out.  Whether the cached book is also younger    *)
(* than staleness_threshold is a matter of time that is left open: a read   *)
(* may miss although the book is servable.                                  *)
Servable ==
    /\ state.connected /\ state.ready
    /\ state.cached # NoBook
    /\ ~crossed

(* A cache miss, twice, the second under the refill mutex.                  *)
StartRefill ==
    /\ refill.phase = "idle"
    /\ refill' = [refill EXCEPT !.phase = "buffering"]
    /\ UNCHANGED <<vars, now, sessionVars, state, overrun>>

(* After snapshot_buffer_delay a third check may hit, or the fetch starts   *)
(* with the generation and connected flag of this moment.                   *)
RefillHit ==
    /\ refill.phase = "buffering"
    /\ Servable
    /\ refill' = NoRefill
    /\ UNCHANGED <<vars, now, sessionVars, state, overrun>>

StartFetch ==
    /\ refill.phase = "buffering"
    /\ refill' = [refill EXCEPT !.phase = "fetching",
                                !.generation = state.generation,
                                !.connected = state.connected]
    /\ UNCHANGED <<vars, now, sessionVars, state, overrun>>

(* The exchange takes the snapshot; the answer, the second delay and the    *)
(* wait for the state lock are still to come.                               *)
FetchAnswered ==
    /\ refill.phase = "fetching"
    /\ \E s \in Ids :
          /\ now - SnapshotLag <= s /\ s <= now
          /\ refill' = [refill EXCEPT !.phase = "settling", !.snapshot = s]
    /\ UNCHANGED <<vars, now, sessionVars, state, overrun>>

FetchFailed ==
    /\ refill.phase = "fetching"
    /\ failures < MaxFailures
    /\ failures' = failures + 1
    /\ refill' = NoRefill
    /\ UNCHANGED <<vars, now, session, sent, subscribedAt, state, overrun>>

SameConnectionAnyStart == refill.generation = state.generation /\ state.connected

SameConnection ==
    /\ refill.connected
    /\ refill.generation = state.generation
    /\ state.connected

(* What the connection has delivered that a snapshot does not have.         *)
DeliveredAfter(s) == {c \in cuts : s < c /\ c <= sent}

(* The snapshot goes into the reconstruction when the connection it was     *)
(* fetched under is still there, and to the caller in any case.             *)
FinishRefill ==
    /\ refill.phase = "settling"
    /\ \/ /\ SameConnection
          /\ ApplySnapshot(TruthAt(refill.snapshot), refill.snapshot)
          /\ state' = [state EXCEPT !.ready = TRUE,
                                    !.cached = [book |-> book', id |-> lastUpdateId']]
          /\ overrun' = (Cardinality(DeliveredAfter(refill.snapshot)) > BufferSize)
       \/ /\ ~SameConnection
          /\ UNCHANGED <<bookVars, state, overrun>>
    /\ refill' = NoRefill
    /\ UNCHANGED <<feedVars, now, sessionVars>>

-----------------------------------------------------------------------------
Receive == (\E e \in Updates : ReceiveDelta(e)) \/ ReceiveSnapshot

SessionStep == Subscribe \/ MarkConnected \/ ResetSymbol \/ Receive
RefillStep == StartRefill \/ RefillHit \/ StartFetch \/ FetchAnswered \/ FinishRefill
Disturbance == ConnectionLost \/ LoseDelta \/ FetchFailed

DeltaNext == Tick \/ SessionStep \/ RefillStep \/ Disturbance

DeltaSpec == DeltaInit /\ [][DeltaNext]_dsVars

-----------------------------------------------------------------------------
DeltaTypeOK ==
    /\ TypeOK
    /\ now \in Ids /\ sent \in Ids /\ subscribedAt \in Ids
    /\ session \in Sessions
    /\ failures \in 0..MaxFailures
    /\ state \in [generation : Nat, connected : BOOLEAN, ready : BOOLEAN, cached : Cached]
    /\ refill \in [phase : Phases, generation : Nat, connected : BOOLEAN, snapshot : Ids]
    /\ overrun \in BOOLEAN

(* Whatever a read takes from the cache is the exchange's book at the id it *)
(* is cached under: nothing lost between the REST snapshot and the stream,  *)
(* across reconnects, resets and refills in flight.  The one exception is   *)
(* what the ring buffer has forgotten, and it forgets nothing a snapshot    *)
(* needs before more updates have come since than it has room for.          *)
ServedBookIsTrue == Servable /\ ~overrun => state.cached.book = TruthAt(state.cached.id)

(* The cached book is always the reconstruction's, and it is dropped with   *)
(* the connection it came from.                                             *)
CacheFollowsReconstruction ==
    /\ state.ready => /\ state.cached = [book |-> book, id |-> lastUpdateId]
                      /\ state.connected
    /\ state.connected => session \in {"streaming", "failed"}
    /\ session \in {"connecting", "subscribed"} /\ ~state.connected => ~HasSnapshot

(* The promise of OrderbookCache is kept: reads are never shown a book the  *)
(* exchange did not have, one from before the connection, or, pauses and    *)
(* refills in flight included, an earlier one than the connection has had.  *)
(* The exception is the same.                                               *)
Cache == INSTANCE OrderbookCache WITH
    shown      <- IF Servable /\ ~overrun THEN state.cached ELSE NoBook,
    connection <- state.generation,
    floor      <- IF state.cached # NoBook THEN state.cached.id ELSE subscribedAt

KeepsCachePromise == Cache!CacheSpec

(* Every Rule 4 error restarts the session, so on a connection that leaves  *)
(* nothing out there should be none.  There is one only at the seam, while  *)
(* the book is still a snapshot taken between two updates or ahead of the   *)
(* stream: once the book has come to where an update ended, every later one *)
(* fits, whatever was stale, buffered, replayed or fetched again between.   *)
RestartsOnlyAtSeam ==
    [][session = "streaming" /\ session' = "failed" /\ failures' = failures =>
          ~(lastUpdateId \in cuts /\ lastUpdateId <= sent)]_dsVars
=============================================================================
