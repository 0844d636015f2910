-------------------------- MODULE OrderbookReaders --------------------------
(***************************************************************************)
(* The readers of one symbol in crates/perps-core/src/                      *)
(* ws_orderbook_manager.rs: concurrent calls of get_orderbook, which share  *)
(* one REST refill, and of wait_for_orderbook, which sleep on the changed   *)
(* notification.  DeltaSession has the contents of the book and the stream  *)
(* in detail; here the stream only makes the cached book appear, age,       *)
(* cross and vanish.                                                        *)
(***************************************************************************)
EXTENDS Naturals, Sequences

CONSTANTS
    Readers,        \* calls of get_orderbook in progress
    Waiters,        \* calls of wait_for_orderbook in progress
    MaxReads,       \* bound on the calls of get_orderbook that miss
    MaxEvents       \* bound on what goes wrong: resets, ageing, failed fetches

ASSUME MaxReadsAssumption == MaxReads \in Nat
ASSUME MaxEventsAssumption == MaxEvents \in Nat

VARIABLES
    withDelta,      \* config.with_delta, fixed when the manager is made
    generation,     \* SymbolState.generation
    connected,      \* SymbolState.connected
    entry,          \* what get_multi makes of SymbolState.ready and book
    queue,          \* the refill mutex: its holder, then those waiting for it
    reader,         \* where each get_orderbook is, and what it captured
    waiter,         \* where each wait_for_orderbook is
    notified,       \* the waiters whose Notified future has completed
    reads,          \* bound: calls that missed so far
    fetches,        \* history: REST fetches started
    excuses         \* history: events that make another fetch necessary

stateVars == <<withDelta, generation, connected, entry>>
orVars == <<stateVars, queue, reader, waiter, notified, reads, fetches, excuses>>

(* "hidden": there is a book, but it is older than staleness_threshold or   *)
(* the reconstruction is crossed; only another update brings it back.       *)
Entries == {"none", "visible", "hidden"}
ReaderPhases == {"idle", "queued", "locked", "delay", "capture", "fetching", "settling"}
WaiterPhases == {"idle", "checking", "missed", "sleeping", "done"}
AtRest == [phase |-> "idle", generation |-> 0, connected |-> FALSE]

ReadersInit ==
    /\ withDelta \in BOOLEAN
    /\ generation = 0
    /\ connected = FALSE
    /\ entry = "none"
    /\ queue = <<>>
    /\ reader = [r \in Readers |-> AtRest]
    /\ waiter = [w \in Waiters |-> "idle"]
    /\ notified = {}
    /\ reads = 0
    /\ fetches = 0
    /\ excuses = 0

(* get_multi finds a book.                                                  *)
Servable == connected /\ entry = "visible"

EnabledLate == {w \in Waiters : waiter[w] = "sleeping"}
Enabled == {w \in Waiters : waiter[w] \in {"checking", "missed", "sleeping"}}

(* notify_waiters completes every Notified that is enabled.                 *)
NotifyWaiters == notified' = notified \cup Enabled

Excuse ==
    /\ excuses < MaxEvents
    /\ excuses' = excuses + 1

-----------------------------------------------------------------------------
(* The shard's session.                                                     *)

SymbolConnected ==
    /\ ~connected
    /\ connected' = TRUE
    /\ UNCHANGED <<withDelta, generation, entry, queue, reader, waiter, notified, reads, fetches, excuses>>

(* An update: a full book, or a whole book on the delta stream, makes the   *)
(* symbol ready; a delta only renews the book of a symbol that is.  Either  *)
(* may leave it crossed.                                                    *)
Update(visible) ==
    /\ connected
    /\ ~visible => Excuse
    /\ visible => UNCHANGED excuses
    /\ \/ entry' = IF visible THEN "visible" ELSE "hidden"
       \/ withDelta /\ entry = "none" /\ UNCHANGED entry
    /\ NotifyWaiters
    /\ UNCHANGED <<withDelta, generation, connected, queue, reader, waiter, reads, fetches>>

(* No update for staleness_threshold.                                       *)
Age ==
    /\ entry = "visible"
    /\ entry' = "hidden"
    /\ Excuse
    /\ UNCHANGED <<withDelta, generation, connected, queue, reader, waiter, notified, reads, fetches>>

Reset ==
    /\ generation' = generation + 1
    /\ connected' = FALSE
    /\ entry' = "none"
    /\ Excuse
    /\ UNCHANGED <<withDelta, queue, reader, waiter, notified, reads, fetches>>

-----------------------------------------------------------------------------
(* get_orderbook by reader r.                                               *)

Goes(r, from, to) ==
    /\ reader[r].phase = from
    /\ reader' = [reader EXCEPT ![r].phase = to]

NotReleased(r) == queue

(* The guard is dropped with the call that holds the mutex.                 *)
Released(r) == Tail(queue)

Returns(r) == reader' = [reader EXCEPT ![r] = AtRest]

(* A miss; the refill mutex is asked for.  (A hit returns at once.)         *)
Miss(r) ==
    /\ ~Servable
    /\ Goes(r, "idle", "queued")
    /\ reads < MaxReads
    /\ reads' = reads + 1
    /\ queue' = Append(queue, r)
    /\ UNCHANGED <<stateVars, waiter, notified, fetches, excuses>>

TurnOf(r) == queue # <<>> /\ Head(queue) = r

Lock(r) ==
    /\ TurnOf(r)
    /\ Goes(r, "queued", "locked")
    /\ UNCHANGED <<stateVars, queue, waiter, notified, reads, fetches, excuses>>

NotCheckedAgain == FALSE
FilledMeanwhile == Servable

(* The second check: someone else's refill, or the stream, was faster.      *)
HitUnderLock(r) ==
    /\ reader[r].phase \in {"locked", "delay"}
    /\ FilledMeanwhile
    /\ Returns(r)
    /\ queue' = Released(r)
    /\ UNCHANGED <<stateVars, waiter, notified, reads, fetches, excuses>>

(* With deltas the third check comes after snapshot_buffer_delay.           *)
MissUnderLock(r) ==
    /\ ~FilledMeanwhile
    /\ \/ withDelta /\ Goes(r, "locked", "delay")
       \/ ~withDelta /\ Goes(r, "locked", "capture")
       \/ Goes(r, "delay", "capture")
    /\ UNCHANGED <<stateVars, queue, waiter, notified, reads, fetches, excuses>>

StartFetch(r) ==
    /\ reader[r].phase = "capture"
    /\ reader' = [reader EXCEPT ![r] = [phase |-> "fetching", generation |-> generation,
                                        connected |-> connected]]
    /\ fetches' = fetches + 1
    /\ excuses' = IF connected THEN excuses ELSE excuses + 1
    /\ UNCHANGED <<stateVars, queue, waiter, notified, reads>>

FetchFails(r) ==
    /\ reader[r].phase = "fetching"
    /\ Returns(r)
    /\ queue' = Released(r)
    /\ Excuse
    /\ UNCHANGED <<stateVars, waiter, notified, reads, fetches>>

FetchAnswered(r) ==
    /\ Goes(r, "fetching", "settling")
    /\ UNCHANGED <<stateVars, queue, waiter, notified, reads, fetches, excuses>>

SameConnection(r) ==
    /\ reader[r].connected
    /\ reader[r].generation = generation
    /\ connected

(* The snapshot replaces the book, and so ends a crossed one, unless the    *)
(* replay crosses it again.                                                 *)
Settle(r) ==
    /\ reader[r].phase = "settling"
    /\ \/ /\ withDelta /\ SameConnection(r)
          /\ \/ entry' = "visible" /\ UNCHANGED excuses
             \/ entry' = "hidden" /\ excuses' = excuses + 1
          /\ NotifyWaiters
       \/ /\ ~(withDelta /\ SameConnection(r))
          /\ UNCHANGED <<entry, notified, excuses>>
    /\ Returns(r)
    /\ queue' = Released(r)
    /\ UNCHANGED <<withDelta, generation, connected, waiter, reads, fetches>>

-----------------------------------------------------------------------------
(* wait_for_orderbook by waiter w.                                          *)

(* The Notified is enabled before the cache is looked at.                   *)
Register(w) ==
    /\ \/ waiter[w] = "idle"
       \/ waiter[w] = "sleeping" /\ w \in notified
    /\ waiter' = [waiter EXCEPT ![w] = "checking"]
    /\ notified' = notified \ {w}
    /\ UNCHANGED <<stateVars, queue, reader, reads, fetches, excuses>>

(* The look at the cache; a miss still has to give way before it sleeps.    *)
Check(w) ==
    /\ waiter[w] = "checking"
    /\ waiter' = [waiter EXCEPT ![w] = IF Servable THEN "done" ELSE "missed"]
    /\ UNCHANGED <<stateVars, queue, reader, notified, reads, fetches, excuses>>

(* notified.await: it returns at once if the Notified has completed.        *)
Sleep(w) ==
    /\ waiter[w] = "missed"
    /\ waiter' = [waiter EXCEPT ![w] = "sleeping"]
    /\ UNCHANGED <<stateVars, queue, reader, notified, reads, fetches, excuses>>

(* wait_timeout.                                                            *)
GiveUp(w) ==
    /\ waiter[w] \in {"missed", "sleeping"}
    /\ waiter' = [waiter EXCEPT ![w] = "done"]
    /\ UNCHANGED <<stateVars, queue, reader, notified, reads, fetches, excuses>>

-----------------------------------------------------------------------------
SessionStep == SymbolConnected \/ (\E visible \in BOOLEAN : Update(visible)) \/ Age \/ Reset

(* What a reader does without the exchange or the stream.                   *)
OwnStep(r) ==
    Lock(r) \/ HitUnderLock(r) \/ MissUnderLock(r) \/ StartFetch(r) \/ Settle(r)

ReaderStep(r) == Miss(r) \/ OwnStep(r) \/ FetchFails(r) \/ FetchAnswered(r)

WaiterStep(w) == Register(w) \/ Check(w) \/ Sleep(w) \/ GiveUp(w)

ReadersNext ==
    \/ SessionStep
    \/ \E r \in Readers : ReaderStep(r)
    \/ \E w \in Waiters : WaiterStep(w)

ReadersSpec == ReadersInit /\ [][ReadersNext]_orVars

(* Tasks run, the mutex is handed on in the order of asking, and a REST     *)
(* call ends (the clients set no timeout of their own: that the exchange    *)
(* answers or drops the connection is assumed).  Waiters need no timeout.   *)
ReadersFairSpec ==
    /\ ReadersSpec
    /\ \A r \in Readers : WF_orVars(OwnStep(r)) /\ WF_orVars(FetchAnswered(r))
    /\ \A w \in Waiters : WF_orVars(Register(w) \/ Check(w) \/ Sleep(w))

-----------------------------------------------------------------------------
ReadersTypeOK ==
    /\ withDelta \in BOOLEAN
    /\ generation \in Nat
    /\ connected \in BOOLEAN
    /\ entry \in Entries
    /\ queue \in Seq(Readers)
    /\ reader \in [Readers -> [phase : ReaderPhases, generation : Nat, connected : BOOLEAN]]
    /\ waiter \in [Waiters -> WaiterPhases]
    /\ notified \subseteq Waiters
    /\ reads \in 0..MaxReads
    /\ fetches \in Nat
    /\ excuses \in Nat

(* Readers that miss together share a refill: however many ask, a symbol is *)
(* fetched once, and once more for each event that spoils what was fetched  *)
(* or would have been (with deltas, where the snapshot is cached).          *)
FetchesAreShared == withDelta => fetches <= excuses + 1

(* A waiter never sleeps beside a book it could have: there is no moment    *)
(* between its look at the cache and its sleep in which an update is        *)
(* announced to nobody.                                                     *)
NoLostWakeup ==
    \A w \in Waiters : waiter[w] \in {"missed", "sleeping"} /\ Servable => w \in notified

(* Every get_orderbook returns, behind any number of others.                *)
EveryReadReturns == \A r \in Readers : reader[r].phase = "queued" ~> reader[r].phase = "idle"

(* A book that stays wakes every waiter, without help from wait_timeout.    *)
EveryWaiterIsServed ==
    <>[]Servable => \A w \in Waiters : waiter[w] = "sleeping" ~> waiter[w] = "done"
=============================================================================
