---------------------------- MODULE StreamIngest ----------------------------
(***************************************************************************)
(* `stream` (commands/stream.rs) storing the events of an exchange's        *)
(* WebSocket while other processes manage the table's partitions.           *)
(*                                                                         *)
(* Events are kept in a buffer until it has batch_size of them; then the    *)
(* loop itself stores the batch in one transaction and clears the buffer,   *)
(* stored or not.  Every data type has a buffer and a table of its own, so  *)
(* one is enough here.  Ctrl+C and --max-duration are looked at only when   *)
(* 100 ms have gone by without an event; the loop also ends with the stream *)
(* or with an error in it, and what is buffered is stored at the end.       *)
(*                                                                         *)
(* An import worker (commands/import.rs) over the rows of one exchange is   *)
(* the same: batches of a file, cleared stored or not, the rest at the end, *)
(* nothing that stops it.  A batch of several exchanges it stores exchange  *)
(* by exchange, so that an error loses the rows of one; what is said here   *)
(* of a batch and its transaction then holds of each exchange's share.      *)
(***************************************************************************)
EXTENDS PartitionedTable

CONSTANTS
    Feed,           \* the events of a stream: a sequence of rows
    BatchSize,      \* --batch-size
    MaxStoreErrors  \* bound on stores that fail

ASSUME FeedAssumption == Feed \in [Writers -> Seq(Rows \ OldRows)]
(* A row is an event: two events that say the same are two rows.            *)
ASSUME EachRowOnce ==
    \A v, w \in Writers : \A i \in DOMAIN Feed[v], j \in DOMAIN Feed[w] :
        Feed[v][i] = Feed[w][j] => v = w /\ i = j
ASSUME BatchSizeAssumption == BatchSize \in Nat \ {0}
ASSUME MaxStoreErrorsAssumption == MaxStoreErrors \in Nat

VARIABLES
    stream,         \* a stream command: place in its loop, buffer, events to come
    stopping,       \* Ctrl+C was pressed or the maximum duration is over
    storeErrors,    \* stores that failed so far
    given           \* history: rows whose batch was cleared without being stored

vars == <<tableVars, stream, stopping, storeErrors, given>>

Init ==
    /\ TableInit
    /\ stream = [w \in Writers |-> [at |-> "listening", buffer |-> << >>, coming |-> Feed[w]]]
    /\ stopping = [w \in Writers |-> FALSE]
    /\ storeErrors = 0
    /\ given = {}

Buffered(w) == {stream[w].buffer[i] : i \in 1..Len(stream[w].buffer)}
ToInsert(w) == {i \in 1..Len(stream[w].buffer) : stream[w].buffer[i] \notin open[w]}

-----------------------------------------------------------------------------
(* The loop                                                                 *)

BatchIsFull(buffer) == Len(buffer) >= BatchSize

Event(w) ==
    /\ stream[w].at = "listening"
    /\ stream[w].coming # << >>
    /\ LET buffer == Append(stream[w].buffer, Head(stream[w].coming))
       IN  stream' = [stream EXCEPT ![w] =
               [at     |-> IF BatchIsFull(buffer) THEN "storing" ELSE "listening",
                buffer |-> buffer,
                coming |-> Tail(stream[w].coming)]]
    /\ UNCHANGED <<tableVars, stopping, storeErrors, given>>

RequestStop(w) ==
    /\ ~stopping[w]
    /\ stopping' = [stopping EXCEPT ![w] = TRUE]
    /\ UNCHANGED <<tableVars, stream, storeErrors, given>>

AfterLoop(w) == IF stream[w].buffer = << >> THEN "done" ELSE "flushing"

NoticedOnceFlushed(w) == stopping[w] /\ stream[w].buffer = << >>

Noticed(w) == stopping[w]

(* 100 ms without an event.                                                 *)
Quiet(w) ==
    /\ stream[w].at = "listening"
    /\ Noticed(w)
    /\ stream' = [stream EXCEPT ![w].at = AfterLoop(w)]
    /\ UNCHANGED <<tableVars, stopping, storeErrors, given>>

(* stream.next() is None or an error.                                       *)
StreamEnds(w) ==
    /\ stream[w].at = "listening"
    /\ stream' = [stream EXCEPT ![w].at = AfterLoop(w)]
    /\ UNCHANGED <<tableVars, stopping, storeErrors, given>>

-----------------------------------------------------------------------------
(* store_..._with_exchange                                                  *)

Insert(w) ==
    /\ stream[w].at \in {"storing", "flushing"}
    /\ ToInsert(w) # {}
    /\ LET i == CHOOSE i \in ToInsert(w) : \A j \in ToInsert(w) : i <= j
       IN  InsertRow(w, stream[w].buffer[i])
    /\ UNCHANGED <<stream, stopping, storeErrors, given>>

Cleared(w, stored) ==
    [stream EXCEPT ![w].buffer = << >>,
                   ![w].at = IF @ = "flushing" THEN "done" ELSE "listening"]

Commit(w) ==
    /\ stream[w].at \in {"storing", "flushing"}
    /\ ToInsert(w) = {}
    /\ CommitRows(w)
    /\ stream' = Cleared(w, TRUE)
    /\ UNCHANGED <<stopping, storeErrors, given>>

(* The error is logged; the transaction is rolled back.                     *)
StoreFails(w) ==
    /\ stream[w].at \in {"storing", "flushing"}
    /\ storeErrors < MaxStoreErrors
    /\ storeErrors' = storeErrors + 1
    /\ RollBack(w)
    /\ stream' = Cleared(w, FALSE)
    /\ given' = given \cup Buffered(w)
    /\ UNCHANGED stopping

-----------------------------------------------------------------------------
StreamStep(w) == Event(w) \/ Quiet(w) \/ Insert(w) \/ Commit(w)
PartitionsManaged == PartitionStep /\ UNCHANGED <<stream, stopping, storeErrors, given>>
Next ==
    \/ PartitionsManaged
    \/ \E w \in Writers : StreamStep(w) \/ RequestStop(w) \/ StreamEnds(w) \/ StoreFails(w)

Spec == Init /\ [][Next]_vars

CreatorsRun(c) == CreatorStep(c) /\ UNCHANGED <<open, raced, stream, stopping, storeErrors, given>>

(* Statements that can be executed are executed, and the loop runs.         *)
FairSpec ==
    /\ Spec
    /\ \A c \in Creators : WF_vars(CreatorsRun(c))
    /\ \A w \in Writers : WF_vars(Event(w)) /\ WF_vars(Quiet(w)) /\ WF_vars(Insert(w)) /\ WF_vars(Commit(w))

-----------------------------------------------------------------------------
Received(w) == {Feed[w][i] : i \in 1..(Len(Feed[w]) - Len(stream[w].coming))}

Committed == OldRows \cup ((UNION {Received(w) \ Buffered(w) : w \in Writers}) \ given)

(* Where the rows go.  Every row the stream took over is in its buffer, in  *)
(* the table, or lost in one of three ways: its batch met a store error,    *)
(* its partition was dropped, or it was committed to the default partition  *)
(* between a creator's SELECT and its DELETE.  Moving rows out of the       *)
(* default partition, rolling back, deadlocks and the end of the stream     *)
(* lose no other.                                                           *)
RowsAccounted ==
    /\ \A r \in Committed : Stored(r) \/ r \in raced \/ r \in dropped
    /\ \A w \in Writers : stream[w].at = "done" => stream[w].buffer = << >>

(* A stream that was asked to stop and gets no more events ends, its last   *)
(* batch stored or failed, whatever locks partition management holds.       *)
StopsOnceQuiet == \A w \in Writers : stopping[w] ~> stream[w].at = "done"

(* What partitions.rs says of creating partitions: rows of the day are      *)
(* evacuated from the default partition first, and concurrent calls are     *)
(* safe.  So no row that was committed is missing, unless its partition was *)
(* dropped.                                                                 *)
EvacuationKeepsRows == \A r \in Committed : Stored(r) \/ r \in dropped
=============================================================================
