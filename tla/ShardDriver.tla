---------------------------- MODULE ShardDriver ----------------------------
(***************************************************************************)
(* crates/perps-core/src/ws_orderbook_manager.rs: the driver task that      *)
(* turns subscriptions into shards, the session task of each shard          *)
(* (run_shard, run_session), and the symbols' shared states.                *)
(*                                                                         *)
(* The driver and the sessions run concurrently.  Aborting a session takes  *)
(* effect at its next await, so an aborted session may still take steps     *)
(* until it is cancelled.  What a session publishes is kept as who          *)
(* published it; DeltaSession has what.                                     *)
(*                                                                         *)
(* As in LocalOrderbook, a definition right before another that is used     *)
(* nowhere else (WithRoomNoFirst, OldTaskAborted, ...) is a slip that would *)
(* break a property.                                                        *)
(***************************************************************************)
EXTENDS Integers, Sequences, FiniteSets, SequencesExt

CONSTANTS
    Symbols,
    Capacity,       \* max_symbols_per_connection
    Batches,        \* the lists of symbols prewarm is called with
    Starts,         \* the lists of initial_symbols a manager is made with
    MaxCalls,       \* bound on the calls of subscribe and prewarm
    MaxFailures     \* bound on the sessions that end

ASSUME CapacityAssumption == Capacity \in Nat \ {0}
ASSUME BatchesAssumption == Batches \subseteq Seq(Symbols)
ASSUME StartsAssumption == Starts \subseteq Seq(Symbols)
ASSUME MaxCallsAssumption == MaxCalls \in Nat
ASSUME MaxFailuresAssumption == MaxFailures \in Nat

VARIABLES
    channel,        \* commands sent and not yet received
    asked,          \* history: the symbols some call has asked for
    driver,         \* where the driver task is
    known,          \* known
    pending,        \* pending
    armed,          \* deadline.is_some()
    batch,          \* the symbols assign has still to place
    changed,        \* the shards assign has still to restart
    ack,            \* history: the list whose prewarm is in assign
    acked,          \* history: the prewarm lists that were acknowledged
    shards,         \* shards: the symbols of each and its task, 0 for None
    tasks,          \* every session task ever spawned
    states,         \* SymbolState by symbol: connected, and who published the book
    calls, failures \* bounds

driverVars == <<driver, known, pending, armed, batch, changed, ack, acked, shards>>
sdVars == <<channel, asked, driverVars, tasks, states, calls, failures>>

NoTask == 0
NoList == <<>>
Fresh == [connected |-> FALSE, publisher |-> NoTask]

Commands == [kind : {"subscribe"}, symbols : {<<s>> : s \in Symbols}]
            \cup [kind : {"prewarm"}, symbols : Batches]

(* A manager made with initial symbols starts its driver at once.           *)
Init ==
    /\ channel = <<>>
    /\ batch \in Starts
    /\ asked = ToSet(batch)
    /\ driver = IF batch = <<>> THEN "off" ELSE "placing"
    /\ known = {}
    /\ pending = <<>>
    /\ armed = FALSE
    /\ changed = {}
    /\ ack = NoList
    /\ acked = {}
    /\ shards = <<>>
    /\ tasks = <<>>
    /\ states = [s \in Symbols |-> Fresh]
    /\ calls = 0
    /\ failures = 0

-----------------------------------------------------------------------------
(* subscribe and prewarm: the first call starts the driver.                 *)
Call(c) ==
    /\ driver # "dropped"
    /\ calls < MaxCalls
    /\ calls' = calls + 1
    /\ channel' = Append(channel, c)
    /\ asked' = asked \cup ToSet(c.symbols)
    /\ driver' = IF driver = "off" THEN "select" ELSE driver
    /\ UNCHANGED <<known, pending, armed, batch, changed, ack, acked, shards,
                   tasks, states, failures>>

-----------------------------------------------------------------------------
(* driver                                                                   *)

Receive(kind) ==
    /\ driver = "select"
    /\ channel # <<>>
    /\ Head(channel).kind = kind
    /\ channel' = Tail(channel)

(* A new symbol is noted and pushes the debounce deadline back.             *)
ReceiveSubscribe ==
    /\ Receive("subscribe")
    /\ LET s == Head(channel).symbols[1]
           isNew == s \notin known /\ ~Contains(pending, s)
       IN  /\ pending' = IF isNew THEN Append(pending, s) ELSE pending
           /\ armed' = (armed \/ isNew)
    /\ UNCHANGED <<asked, driver, known, batch, changed, ack, acked, shards,
                   tasks, states, calls, failures>>

ListAlone(list) == list
Together(list) == pending \o list

(* What is pending is assigned together with the prewarmed symbols.         *)
ReceivePrewarm ==
    /\ Receive("prewarm")
    /\ batch' = Together(Head(channel).symbols)
    /\ ack' = Head(channel).symbols
    /\ pending' = <<>>
    /\ driver' = "placing"
    /\ UNCHANGED <<asked, known, armed, changed, acked, shards, tasks, states,
                   calls, failures>>

Debounced ==
    /\ driver = "select"
    /\ armed
    /\ batch' = pending
    /\ pending' = <<>>
    /\ driver' = "placing"
    /\ UNCHANGED <<channel, asked, known, armed, changed, ack, acked, shards,
                   tasks, states, calls, failures>>

-----------------------------------------------------------------------------
(* assign.  Placing the symbols touches only what is local to the driver    *)
(* and has no await, so it goes one symbol at a time here.                  *)

LastIsFullOffByOne == Len(shards[Len(shards)].symbols) > Capacity
LastIsFull == Len(shards[Len(shards)].symbols) = Capacity

WithRoomNoFirst ==
    IF shards # <<>> /\ LastIsFull
    THEN Append(shards, [symbols |-> <<>>, task |-> NoTask])
    ELSE shards

WithRoom ==
    IF shards = <<>> \/ LastIsFull
    THEN Append(shards, [symbols |-> <<>>, task |-> NoTask])
    ELSE shards

Place ==
    /\ driver = "placing"
    /\ batch # <<>>
    /\ batch' = Tail(batch)
    /\ IF Head(batch) \in known
       THEN UNCHANGED <<known, shards, changed>>
       ELSE LET open == WithRoom
                last == Len(open)
            IN  /\ known' = known \cup {Head(batch)}
                /\ shards' = [open EXCEPT ![last].symbols = Append(@, Head(batch))]
                /\ changed' = changed \cup {last}
    /\ UNCHANGED <<channel, asked, driver, pending, armed, ack, acked, tasks,
                   states, calls, failures>>

(* The shard that is restarted next.                                        *)
Restarted == CHOOSE i \in changed : \A j \in changed : i <= j

(* The session of a changed shard is aborted (its handle is taken out of    *)
(* the shard here and kept in task until the replacement is there) ...      *)
Abort ==
    /\ driver = "placing"
    /\ batch = <<>> /\ changed # {}
    /\ tasks' = IF shards[Restarted].task = NoTask
                THEN tasks
                ELSE [tasks EXCEPT ![shards[Restarted].task].aborted = TRUE]
    /\ driver' = "awaiting"
    /\ UNCHANGED <<channel, asked, known, pending, armed, batch, changed, ack,
                   acked, shards, states, calls, failures>>

OldTaskAborted == TRUE

(* ... and awaited, ...                                                     *)
OldTaskGone ==
    shards[Restarted].task # NoTask => tasks[shards[Restarted].task].phase = "cancelled"

(* ... the states of its symbols are reset, and a session takes over.       *)
Restart ==
    /\ driver = "awaiting"
    /\ OldTaskGone
    /\ LET mine == ToSet(shards[Restarted].symbols)
       IN  /\ states' = [s \in Symbols |-> IF s \in mine THEN Fresh ELSE states[s]]
           /\ tasks' = Append(tasks, [symbols |-> mine, phase |-> "connecting",
                                      aborted |-> FALSE])
    /\ shards' = [shards EXCEPT ![Restarted].task = Len(tasks')]
    /\ changed' = changed \ {Restarted}
    /\ driver' = "placing"
    /\ UNCHANGED <<channel, asked, known, pending, armed, batch, ack, acked,
                   calls, failures>>

NothingToPlace == batch = <<>>
NothingToAssign == batch = <<>> /\ changed = {}

(* assign returns: the deadline is cleared and a prewarm acknowledged.      *)
Assigned ==
    /\ driver = "placing"
    /\ NothingToAssign
    /\ driver' = "select"
    /\ armed' = FALSE
    /\ acked' = acked \cup ({ack} \ {NoList})
    /\ ack' = NoList
    /\ UNCHANGED <<channel, asked, known, pending, batch, changed, shards,
                   tasks, states, calls, failures>>

(* WsOrderbookManager::drop aborts the driver, and dropping the driver's    *)
(* shards aborts their sessions.                                            *)
NoneAborted == {}
AbortedByDrop ==
    {shards[i].task : i \in DOMAIN shards} \ {NoTask}

Drop ==
    /\ driver \in {"off", "select", "awaiting"}
    /\ driver' = "dropped"
    /\ tasks' = [t \in DOMAIN tasks |->
                    [tasks[t] EXCEPT !.aborted = @ \/ t \in AbortedByDrop]]
    /\ channel' = <<>>
    /\ UNCHANGED <<asked, known, pending, armed, batch, changed, ack, acked,
                   shards, states, calls, failures>>

-----------------------------------------------------------------------------
(* run_shard and run_session of task t.                                     *)

Moved(t, from, to) ==
    /\ tasks[t].phase = from
    /\ tasks' = [tasks EXCEPT ![t].phase = to]

Connect(t) ==
    /\ Moved(t, "connecting", "connected")
    /\ states' = [s \in Symbols |->
                    IF s \in tasks[t].symbols
                    THEN [states[s] EXCEPT !.connected = TRUE]
                    ELSE states[s]]
    /\ UNCHANGED <<channel, asked, driverVars, calls, failures>>

Publish(t, s) ==
    /\ tasks[t].phase = "connected"
    /\ s \in tasks[t].symbols
    /\ states' = [states EXCEPT ![s].publisher = t]
    /\ UNCHANGED <<channel, asked, driverVars, tasks, calls, failures>>

(* The connection fails or ends, is silent too long, or sends what it       *)
(* should not.                                                              *)
SessionEnds(t) ==
    /\ failures < MaxFailures
    /\ failures' = failures + 1
    /\ Moved(t, "connecting", "ended") \/ Moved(t, "connected", "ended")
    /\ UNCHANGED <<channel, asked, driverVars, states, calls>>

ResetByTask(t) ==
    /\ Moved(t, "ended", "connecting")
    /\ states' = [s \in Symbols |-> IF s \in tasks[t].symbols THEN Fresh ELSE states[s]]
    /\ UNCHANGED <<channel, asked, driverVars, calls, failures>>

Cancelled(t) ==
    /\ tasks[t].aborted
    /\ tasks[t].phase # "cancelled"
    /\ tasks' = [tasks EXCEPT ![t].phase = "cancelled"]
    /\ UNCHANGED <<channel, asked, driverVars, states, calls, failures>>

-----------------------------------------------------------------------------
DriverStep ==
    \/ ReceiveSubscribe \/ ReceivePrewarm \/ Debounced
    \/ Place \/ Abort \/ Restart \/ Assigned

TaskStep(t) ==
    \/ Connect(t)
    \/ \E s \in Symbols : Publish(t, s)
    \/ SessionEnds(t)
    \/ ResetByTask(t)
    \/ Cancelled(t)

Next ==
    \/ \E c \in Commands : Call(c)
    \/ DriverStep
    \/ \E t \in DOMAIN tasks : TaskStep(t)
    \/ Drop

Spec == Init /\ [][Next]_sdVars

TaskIds == 1..Cardinality(Symbols)

(* tokio runs every task that is ready, and a connection that keeps being   *)
(* attempted succeeds.  The manager need not be dropped.                    *)
FairSpec ==
    /\ Spec
    /\ WF_sdVars(DriverStep)
    /\ \A t \in TaskIds :
          /\ WF_sdVars(t \in DOMAIN tasks /\ Connect(t))
          /\ WF_sdVars(t \in DOMAIN tasks /\ ResetByTask(t))
          /\ WF_sdVars(t \in DOMAIN tasks /\ Cancelled(t))

-----------------------------------------------------------------------------
Phases == {"connecting", "connected", "ended", "cancelled"}
Live(t) == tasks[t].phase # "cancelled"

TypeOK ==
    /\ channel \in Seq(Commands)
    /\ asked \subseteq Symbols
    /\ driver \in {"off", "select", "placing", "awaiting", "dropped"}
    /\ known \subseteq Symbols
    /\ pending \in Seq(Symbols)
    /\ armed \in BOOLEAN
    /\ batch \in Seq(Symbols)
    /\ changed \subseteq DOMAIN shards
    /\ ack \in Seq(Symbols)
    /\ acked \subseteq Batches
    /\ shards \in Seq([symbols : Seq(Symbols), task : {NoTask} \cup DOMAIN tasks])
    /\ tasks \in Seq([symbols : SUBSET Symbols, phase : Phases, aborted : BOOLEAN])
    /\ states \in [Symbols -> [connected : BOOLEAN, publisher : {NoTask} \cup DOMAIN tasks]]
    /\ calls \in 0..MaxCalls
    /\ failures \in 0..MaxFailures

(* The shards partition the known symbols, none above the capacity of a     *)
(* connection, only the last one not full: however subscriptions and        *)
(* prewarms overlap, no symbol is streamed twice or forgotten.              *)
Homes == {h \in (1..Len(shards)) \X (1..Capacity) : h[2] <= Len(shards[h[1]].symbols)}
Partitioned ==
    /\ \A i \in DOMAIN shards :
          /\ Len(shards[i].symbols) \in 1..Capacity
          /\ i < Len(shards) => Len(shards[i].symbols) = Capacity
    /\ \A g, h \in Homes :
          shards[g[1]].symbols[g[2]] = shards[h[1]].symbols[h[2]] => g = h
    /\ known = {shards[h[1]].symbols[h[2]] : h \in Homes}

(* At any time at most one session streams a symbol: a replacement is       *)
(* spawned only after the session it replaces is gone.                      *)
OneSessionPerSymbol ==
    \A t, u \in DOMAIN tasks :
        t # u /\ Live(t) /\ Live(u) => tasks[t].symbols \cap tasks[u].symbols = {}

(* "the old session must never publish into the replacement generation":    *)
(* what is on show for a symbol was published by its shard's session, and   *)
(* it is marked connected only by that session.                             *)
NothingFromOldSessions ==
    \A i \in DOMAIN shards : \A s \in ToSet(shards[i].symbols) :
        /\ states[s].publisher \in {NoTask, shards[i].task}
        /\ states[s].connected =>
              /\ shards[i].task # NoTask
              /\ tasks[shards[i].task].phase # "connecting"

(* When prewarm returns, its symbols have a shard whose session covers      *)
(* them, or is being replaced by one that will.                             *)
PrewarmedIsAssigned ==
    \A list \in acked : \A s \in ToSet(list) :
        \E i \in DOMAIN shards :
            /\ s \in ToSet(shards[i].symbols)
            /\ shards[i].task # NoTask
            /\ s \in tasks[shards[i].task].symbols

(* Dropping the manager leaves no session running.                          *)
NoOrphans ==
    driver = "dropped" => \A t \in DOMAIN tasks : Live(t) => tasks[t].aborted

(* Every symbol that is asked for comes to be connected for good, unless    *)
(* the manager is dropped: no subscription is stuck behind the debounce, a  *)
(* prewarm, or a session that is being replaced.                            *)
EventuallyConnected ==
    \A s \in Symbols :
        s \in asked ~> (driver = "dropped" \/ [](states[s].connected \/ driver = "dropped"))
=============================================================================
