--------------------------- MODULE LocalOrderbook ---------------------------
(***************************************************************************)
(* crates/perps-core/src/orderbook_manager.rs: LocalOrderbook, the local    *)
(* copy of one symbol's book.  apply_delta and apply_snapshot each hold     *)
(* snapshot_lock and the write lock for their whole body, so each is one    *)
(* action.  Nothing is assumed of the network here: any depth update of the *)
(* feed may arrive at any time, again, late, or never, and a snapshot may   *)
(* be of any id.                                                            *)
(*                                                                         *)
(* A definition right before another, with the same parameters and a name  *)
(* that says what went wrong (NeverStale, SeamExemptAlways, ...), is a slip *)
(* the code could have made: putting it in the place of its neighbour       *)
(* breaks a property below.  It is used nowhere else.                       *)
(***************************************************************************)
EXTENDS ExchangeFeed, Sequences

CONSTANTS
    BufferSize,             \* OrderbookManagerConfig.buffer_size
    TolerateSnapshotSeam    \* OrderbookManagerConfig.tolerate_snapshot_seam

ASSUME BufferSizeAssumption == BufferSize \in Nat \ {0}
ASSUME SeamAssumption == TolerateSnapshotSeam \in BOOLEAN

VARIABLES
    book,               \* bids and asks; a price not in the BTreeMap has quantity 0
    lastUpdateId,       \* last_update_id; 0 until the first snapshot
    buffer,             \* update_buffer
    crossed,            \* crossed
    bootstrapPending,   \* bootstrap_pending
    tainted             \* history variable: a change was skipped without an error

bookVars == <<book, lastUpdateId, buffer, crossed, bootstrapPending, tainted>>
vars == <<history, cuts, book, lastUpdateId, buffer, crossed, bootstrapPending, tainted>>

-----------------------------------------------------------------------------
(* Best levels and the crossed flag.                                        *)

Quoted(b, side) == {p \in Prices : b[<<side, p>>] > 0}

BestBid(b) == Latest(Quoted(b, "bid"))
BestAsk(b) == CHOOSE p \in Quoted(b, "ask") : \A q \in Quoted(b, "ask") : p <= q

LooksCrossedSwapped(b) ==
    /\ Quoted(b, "bid") # {}
    /\ \/ Quoted(b, "ask") = {}
       \/ BestBid(b) < BestAsk(b)

(* new_best_ask < new_best_bid on Option<(price, quantity)>: None is less   *)
(* than every Some, and equal prices are decided by the quantities.         *)
LooksCrossed(b) ==
    /\ Quoted(b, "bid") # {}
    /\ \/ Quoted(b, "ask") = {}
       \/ BestAsk(b) < BestBid(b)
       \/ /\ BestAsk(b) = BestBid(b)
          /\ b[<<"ask", BestAsk(b)>>] < b[<<"bid", BestBid(b)>>]

(* What the comments on the flag call crossed: best_bid >= best_ask.        *)
Inverted(b) ==
    /\ Quoted(b, "bid") # {}
    /\ Quoted(b, "ask") # {}
    /\ BestBid(b) >= BestAsk(b)

-----------------------------------------------------------------------------
(* apply_delta                                                              *)

PushedWithoutLimit(e) == Append(buffer, e)

PushedOneShort(e) ==
    IF Len(buffer) >= BufferSize - 1
    THEN Append(Tail(buffer), e)
    ELSE Append(buffer, e)

(* Rule 1: the ring buffer forgets its oldest update when it is full.       *)
Pushed(e) ==
    IF Len(buffer) >= BufferSize
    THEN Append(Tail(buffer), e)
    ELSE Append(buffer, e)

HasSnapshot == lastUpdateId # 0

NeverStale(e) == FALSE

Stale(e) == e.final < lastUpdateId \/ e.first < lastUpdateId

ChainBrokenBackwards(e) == e.previousId # 0 /\ e.previousId < lastUpdateId

ChainBroken(e) == e.previousId # 0 /\ e.previousId # lastUpdateId

WithLevelsAdded(b, levels) ==
    [l \in Levels |-> IF levels[l] = Untouched THEN b[l] ELSE b[l] + levels[l]]

(* apply_delta_internal in full-price mode: a quantity of 0 removes.        *)
WithLevels(b, levels) ==
    [l \in Levels |-> IF levels[l] = Untouched THEN b[l] ELSE levels[l]]

(* History only: e leaves out a change between lastUpdateId and its own.    *)
Skips(e) == PreviousCut(e.final) > lastUpdateId

(* Rules 2 and 3: the update is kept for a later replay and nothing else.   *)
Buffered(e) ==
    /\ ~HasSnapshot \/ Stale(e)
    /\ buffer' = Pushed(e)
    /\ UNCHANGED <<book, lastUpdateId, crossed, bootstrapPending, tainted>>

(* Rule 4: Err, after the update was buffered and the exemption spent.      *)
Rejected(e) ==
    /\ HasSnapshot /\ ~Stale(e)
    /\ ChainBroken(e) /\ ~bootstrapPending
    /\ buffer' = Pushed(e)
    /\ bootstrapPending' = FALSE
    /\ UNCHANGED <<book, lastUpdateId, crossed, tainted>>

Applied(e) ==
    /\ HasSnapshot /\ ~Stale(e)
    /\ ~ChainBroken(e) \/ bootstrapPending
    /\ buffer' = Pushed(e)
    /\ bootstrapPending' = FALSE
    /\ book' = WithLevels(book, e.levels)
    /\ lastUpdateId' = e.final
    /\ crossed' = LooksCrossed(book')
    /\ tainted' = (tainted \/ Skips(e))

ApplyDelta(e) == Buffered(e) \/ Rejected(e) \/ Applied(e)

-----------------------------------------------------------------------------
(* apply_snapshot                                                           *)

(* The buffered updates that are replayed on a snapshot with id s.          *)
Replayed(s) == {k \in DOMAIN buffer : buffer[k].final >= s}

AfterReplayFirstWins(b, s) ==
    [l \in Levels |->
        LET mentions == {k \in Replayed(s) : buffer[k].levels[l] # Untouched}
        IN  IF mentions = {} THEN b[l]
            ELSE buffer[CHOOSE k \in mentions : \A j \in mentions : k <= j].levels[l]]

(* The replay loop in closed form: with absolute quantities a level ends at *)
(* what the last replayed update to mention it says.                        *)
AfterReplay(b, s) ==
    [l \in Levels |->
        LET mentions == {k \in Replayed(s) : buffer[k].levels[l] # Untouched}
        IN  IF mentions = {} THEN b[l] ELSE buffer[Latest(mentions)].levels[l]]

IdOfSnapshot(s) == s

IdAfterReplay(s) ==
    IF Replayed(s) = {} THEN s ELSE buffer[Latest(Replayed(s))].final

(* History only: the replayed updates go forward and cover every id between *)
(* the snapshot and the last of them (the straddling rule of Binance step 5 *)
(* plus no holes).                                                          *)
Bridged(s) ==
    /\ \A j, k \in Replayed(s) : j < k => buffer[j].final < buffer[k].final
    /\ \A i \in s + 1 .. IdAfterReplay(s) : \E k \in Replayed(s) :
           i \in PreviousCut(buffer[k].final) + 1 .. buffer[k].final

SeamExemptAlways(s) == TolerateSnapshotSeam

(* The next live update escapes Rule 4 when nothing was replayed.           *)
SeamExempt(s) == TolerateSnapshotSeam /\ Replayed(s) = {}

ApplySnapshot(b, s) ==
    /\ book' = AfterReplay(b, s)
    /\ lastUpdateId' = IdAfterReplay(s)
    /\ crossed' = (Replayed(s) # {} /\ LooksCrossed(book'))
    /\ bootstrapPending' = SeamExempt(s)
    /\ buffer' = <<>>
    /\ tainted' = ~Bridged(s)

-----------------------------------------------------------------------------
(* new_empty                                                                *)
EmptyInit ==
    /\ book = EmptyBook
    /\ lastUpdateId = 0
    /\ buffer = <<>>
    /\ crossed = FALSE
    /\ bootstrapPending = FALSE
    /\ tainted = FALSE

Init == FeedInit /\ EmptyInit

(* initialize_empty_orderbook: a fresh book, and a fresh buffer with it.    *)
Reset ==
    /\ book' = EmptyBook
    /\ lastUpdateId' = 0
    /\ buffer' = <<>>
    /\ crossed' = FALSE
    /\ bootstrapPending' = FALSE
    /\ tainted' = FALSE

DeltaStep == (\E e \in Updates : ApplyDelta(e)) /\ UNCHANGED feedVars
SnapshotStep == (\E s \in Ids : ApplySnapshot(TruthAt(s), s)) /\ UNCHANGED feedVars
ResetStep == Reset /\ UNCHANGED feedVars

Next == DeltaStep \/ SnapshotStep \/ ResetStep

Spec == Init /\ [][Next]_vars

-----------------------------------------------------------------------------
TypeOK ==
    /\ FeedTypeOK
    /\ book \in Books
    /\ lastUpdateId \in Ids
    /\ buffer \in Seq(Updates)
    /\ Len(buffer) <= BufferSize
    /\ crossed \in BOOLEAN
    /\ bootstrapPending \in BOOLEAN
    /\ tainted \in BOOLEAN

(* Once a snapshot has been applied, and as long as no change was skipped   *)
(* without an error, the local book is exactly the exchange's book at       *)
(* last_update_id: Rules 3 and 4, the ring buffer and the replay together   *)
(* lose nothing, apply nothing twice and apply nothing out of order,        *)
(* whatever the network does with the updates.                              *)
Synced == HasSnapshot /\ ~tainted => book = TruthAt(lastUpdateId)

(* On a feed that fills previous_id, and without the seam exemption, only   *)
(* apply_snapshot can skip a change in silence: Rule 4 turns every gap in   *)
(* the live updates into an error.                                          *)
LiveGapsAreErrors == [][tainted' /\ ~tainted => buffer' = <<>>]_vars

(* A depth update never moves the book back to an earlier id: only a        *)
(* snapshot (which empties the buffer) or a reset may.                      *)
DeltasNeverRewind == [][lastUpdateId' < lastUpdateId => buffer' = <<>>]_vars

(* The crossed flag raises no false alarm about a two-sided book: on an     *)
(* exchange whose own book is never crossed, a flagged book with both sides *)
(* quoted is one that has lost a change.                                    *)
ExchangeNeverInverted == \A s \in Ids : ~Inverted(TruthAt(s))
FlaggedBookLostAChange ==
    ExchangeNeverInverted /\ crossed /\ Quoted(book, "ask") # {} => tainted

(* The Rule 4 exemption is armed only while the book still is the snapshot: *)
(* nothing was replayed onto it and no later update was applied to it.      *)
ExemptionOnlyAtSeam ==
    bootstrapPending => TolerateSnapshotSeam /\ book = TruthAt(lastUpdateId)

-----------------------------------------------------------------------------
(* What a comment of the file says and the code does not do.                *)

(* Comment on Rule 4: the update exempted after a snapshot "is a false      *)
(* positive, not a real gap".                                               *)
ExemptionIsNeverAGap ==
    [][\A e \in Updates :
         Applied(e) /\ ChainBroken(e) /\ bootstrapPending => ~Skips(e)]_vars
=============================================================================
