---------------------------- MODULE VenueStreams ----------------------------
(***************************************************************************)
(* The venues whose adapter (crates/perps-exchanges/src/<venue>/            *)
(* ws_client.rs) keeps the book of a connection itself and hands whole      *)
(* books to the WebSocket orderbook manager, which runs without deltas:     *)
(*                                                                         *)
(*   lighter  first message is the whole book, then changes chained by      *)
(*            begin_nonce; a gap is an error                                *)
(*   risex    a snapshot, then changes, each with a checksum of the book    *)
(*            after it; a mismatch is an error                              *)
(*   edgex    a snapshot, then changes; a gap is logged and nothing more    *)
(*   o1       a REST snapshot taken before the connection is opened, then   *)
(*            changes; a gap is logged and nothing more                     *)
(*   gravity  the whole book in every frame (and arcus, bitget, standx,     *)
(*            hyperliquid likewise)                                         *)
(*                                                                         *)
(* One symbol, its adapter session and the manager's cached state; a frame  *)
(* that errs ends the session and run_shard starts a new one.  get_orderbook *)
(* leaves the cache of such a manager alone, so reads are not modelled      *)
(* here.  Lossy lets any frame be left out, the first whole book included   *)
(* (lighter skips one that it cannot parse).                                *)
(***************************************************************************)
EXTENDS ExchangeFeed

CONSTANTS
    Venues,         \* the venues to look at
    Lossy,          \* a frame may be left out
    MaxFailures     \* bound on dropped connections

ASSUME VenuesAssumption == Venues \subseteq {"lighter", "risex", "edgex", "o1", "gravity"}
ASSUME LossyAssumption == Lossy \in BOOLEAN
ASSUME MaxFailuresAssumption == MaxFailures \in Nat

VARIABLES
    venue,          \* the venue of this behaviour
    now,            \* the exchange's latest id
    session,        \* where the adapter's session is
    sent,           \* the last cut this connection has delivered
    local,          \* the adapter's book, with the id it last took over
    state,          \* the manager's SymbolState
    subscribedAt,   \* history: the exchange's latest id when it subscribed
    missed,         \* history: levels whose last change never reached this session
    headless,       \* history: the session never got the whole book it begins with
    failures        \* connections dropped so far

connVars == <<session, sent, local, subscribedAt, missed, headless>>
vars == <<history, cuts, venue, now, session, sent, local, state, subscribedAt, missed,
          headless, failures>>

NoBook == [book |-> EmptyBook, id |-> -1]
Sessions == {"connecting", "seeded", "streaming", "failed"}

Touched(c) == {l \in Levels : UpdateLevels(c)[l] # Untouched}

StreamInit ==
    /\ venue \in Venues
    /\ now = 0
    /\ session = "connecting"
    /\ sent = 0
    /\ local = NoBook
    /\ state = [generation |-> 0, connected |-> FALSE, cached |-> NoBook]
    /\ subscribedAt = 0
    /\ missed = {}
    /\ headless = FALSE
    /\ failures = 0

Init == FeedInit /\ StreamInit

Tick ==
    /\ now < MaxId
    /\ now' = now + 1
    /\ UNCHANGED <<feedVars, venue, connVars, state, failures>>

-----------------------------------------------------------------------------
(* connect_and_subscribe                                                    *)

(* The cuts an o1 connection will never deliver although the REST snapshot  *)
(* does not have them either.                                               *)
BeforeConnecting == {c \in cuts : local.id < c /\ c <= PreviousCut(now + 1)}

(* o1 asks for every symbol's REST book first; a session that cannot get    *)
(* one fails like a connection that cannot be opened.                       *)
SeedFromRest ==
    /\ venue = "o1"
    /\ session = "connecting"
    /\ session' = "seeded"
    /\ local' = [book |-> TruthAt(now), id |-> now]
    /\ UNCHANGED <<feedVars, venue, now, sent, state, subscribedAt, missed, headless, failures>>

Opens == session = IF venue = "o1" THEN "seeded" ELSE "connecting"

MarkConnected == [state EXCEPT !.connected = TRUE]

(* The exchange sends what it cuts from here on; the manager marks the      *)
(* symbol connected.                                                        *)
Connect ==
    /\ Opens
    /\ session' = "streaming"
    /\ sent' = PreviousCut(now + 1)
    /\ subscribedAt' = now
    /\ missed' = IF venue = "o1" THEN UNION {Touched(c) : c \in BeforeConnecting} ELSE {}
    /\ headless' = FALSE
    /\ state' = MarkConnected
    /\ UNCHANGED <<feedVars, venue, now, local, failures>>

-----------------------------------------------------------------------------
(* What the adapters make of a frame                                        *)

Undelivered == {c \in cuts : sent < c /\ c <= now}
NextCut == CHOOSE c \in Undelivered : \A d \in Undelivered : c <= d

(* Another frame comes, after the whole book if there was one to come.      *)
ChangesDue ==
    /\ session = "streaming"
    /\ local # NoBook \/ headless
    /\ Undelivered # {}

WithChangesNonceKept(copy, c) ==
    [book |-> [l \in Levels |-> IF l \in Touched(c) THEN UpdateLevels(c)[l] ELSE copy.book[l]],
     id   |-> copy.id]

(* apply_level for every level of the frame: a zero size removes it.        *)
WithChanges(copy, c) ==
    [book |-> [l \in Levels |-> IF l \in Touched(c) THEN UpdateLevels(c)[l] ELSE copy.book[l]],
     id   |-> c]

NonceAlwaysFits(c) == TRUE

(* lighter: begin_nonce is the nonce of the update before.  The first       *)
(* message of a connection is taken for the whole book, unchecked.          *)
NonceFits(c) == local = NoBook \/ PreviousCut(c) = local.id

(* risex: the CRC of the changed book, taken to tell all books apart.       *)
ChecksumFits(c) == WithChanges(local, c).book = TruthAt(c)

Accepts(c) ==
    CASE venue = "lighter" -> NonceFits(c)
      [] venue = "risex"   -> ChecksumFits(c)
      [] OTHER             -> TRUE

(* The manager's cache takes over every book the adapter yields.            *)
Yielded(copy) == [state EXCEPT !.cached = copy]

(* On subscription the venue sends the whole book; changes follow.         *)
FirstDue == session = "streaming" /\ venue # "o1" /\ local = NoBook /\ ~headless

ReceiveFirst ==
    /\ FirstDue
    /\ local' = [book |-> TruthAt(sent), id |-> sent]
    /\ state' = Yielded(local')
    /\ UNCHANGED <<feedVars, venue, now, session, sent, subscribedAt, missed, headless, failures>>

ReceiveWholeBook ==
    /\ ChangesDue
    /\ venue = "gravity"
    /\ sent' = NextCut
    /\ local' = [book |-> TruthAt(NextCut), id |-> NextCut]
    /\ missed' = {}
    /\ state' = Yielded(local')
    /\ UNCHANGED <<feedVars, venue, now, session, subscribedAt, headless, failures>>

(* risex has no book to change before a snapshot came, and returns None.    *)
Ignored == venue = "risex" /\ local = NoBook

(* A frame of changes that the adapter takes over.  Without the whole book  *)
(* lighter and edgex make these changes to an empty one.                    *)
ReceiveChanges ==
    /\ ChangesDue
    /\ venue # "gravity" /\ ~Ignored
    /\ Accepts(NextCut)
    /\ sent' = NextCut
    /\ local' = WithChanges(local, NextCut)
    /\ missed' = missed \ Touched(NextCut)
    /\ state' = Yielded(local')
    /\ UNCHANGED <<feedVars, venue, now, session, subscribedAt, headless, failures>>

(* One that it refuses: the stream yields an error, run_session returns it  *)
(* and drops the stream with the adapter's book.                            *)
ReceiveBroken ==
    /\ ChangesDue
    /\ venue # "gravity" /\ ~Ignored
    /\ ~Accepts(NextCut)
    /\ session' = "failed"
    /\ UNCHANGED <<feedVars, venue, now, sent, local, state, subscribedAt, missed, headless,
                   failures>>

(* The exchange leaves out a frame, or it comes to nothing.                 *)
LoseFirst ==
    /\ Lossy
    /\ FirstDue
    /\ missed' = Levels
    /\ headless' = TRUE
    /\ UNCHANGED <<feedVars, venue, now, session, sent, local, state, subscribedAt, failures>>

LoseFrame ==
    /\ ChangesDue
    /\ Lossy \/ Ignored
    /\ sent' = NextCut
    /\ missed' = missed \cup Touched(NextCut)
    /\ UNCHANGED <<feedVars, venue, now, session, local, state, subscribedAt, headless, failures>>

-----------------------------------------------------------------------------
(* The end of a session and Shared::reset                                   *)

ConnectionLost ==
    /\ session # "failed"
    /\ failures < MaxFailures
    /\ failures' = failures + 1
    /\ session' = "failed"
    /\ UNCHANGED <<feedVars, venue, now, sent, local, state, subscribedAt, missed, headless>>

BookKept == local

(* The stream, and the adapter's books in it, are gone with the session.    *)
BookDropped == NoBook

ResetSymbol ==
    /\ session = "failed"
    /\ session' = "connecting"
    /\ local' = BookDropped
    /\ state' = [generation |-> state.generation + 1, connected |-> FALSE, cached |-> NoBook]
    /\ UNCHANGED <<feedVars, venue, now, sent, subscribedAt, missed, headless, failures>>

-----------------------------------------------------------------------------
Receive == ReceiveFirst \/ ReceiveWholeBook \/ ReceiveChanges \/ ReceiveBroken
SessionStep == SeedFromRest \/ Connect \/ Receive \/ ResetSymbol
Next == Tick \/ SessionStep \/ LoseFirst \/ LoseFrame \/ ConnectionLost

Spec == Init /\ [][Next]_vars

-----------------------------------------------------------------------------
Served == state.connected /\ state.cached # NoBook

(* On every venue, o1 and edgex included, a served book differs from the    *)
(* exchange's only on levels whose last change was in a frame this session  *)
(* never got, and one change of the level repairs it: a gap that is only    *)
(* logged does no more harm than that.                                      *)
OnlyMissedLevelsDiffer ==
    Served => \A l \in Levels \ missed :
                  state.cached.book[l] = TruthAt(state.cached.id)[l]

(* The venues that detect gaps keep the promise of the delta venues: a      *)
(* reader is shown nothing or the exchange's book, never going back under   *)
(* one connection, whatever frames are lost: any but lighter's first.       *)
DetectsGaps ==
    \/ venue \in {"risex", "gravity"}
    \/ venue = "lighter" /\ ~headless

Cache == INSTANCE OrderbookCache WITH
    shown      <- IF Served /\ DetectsGaps THEN state.cached ELSE NoBook,
    connection <- state.generation,
    floor      <- IF state.cached # NoBook THEN state.cached.id
                  ELSE PreviousCut(subscribedAt + 1)

KeepsCachePromise == Cache!CacheSpec

(* Every frame an adapter refuses costs the session and its book.  A nonce  *)
(* or a checksum that does not fit is never a false alarm: the session ends *)
(* only while its book lacks a change that it never got.                    *)
OnlyLossesRestart ==
    [][session = "streaming" /\ session' = "failed" /\ failures' = failures
          => missed # {}]_vars
=============================================================================
