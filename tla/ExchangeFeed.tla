---------------------------- MODULE ExchangeFeed ----------------------------
(***************************************************************************)
(* The exchange as crates/perps-core sees it: a symbol's order book that    *)
(* changes one price level at a time, the depth updates cut out of those    *)
(* changes (a DepthUpdate of streaming.rs) and the REST snapshots of the    *)
(* same book.  The exchange itself is not in this repository; what it sends *)
(* is modelled from how the code reads it.                                  *)
(*                                                                         *)
(* Ids 1..MaxId number the changes.  An id may be idle: on several venues   *)
(* the sequence is shared with other symbols or is a clock, so ids are      *)
(* skipped.  A cut is an id at which the exchange closes a depth update;    *)
(* the update for cut c carries every level that changed after the previous *)
(* cut, with its absolute quantity ("full price" mode, the mode of all six  *)
(* OrderbookStreamer implementations).                                      *)
(***************************************************************************)
EXTENDS Integers

CONSTANTS
    Prices,         \* the price grid
    MaxQty,         \* quantities are 0..MaxQty; 0 means "no such level"
    MaxId,          \* bound on the ids the exchange issues
    PreviousIds,    \* how previous_id is filled: a subset of {"chain", "zero"}
    Batched         \* FALSE: one update per change (first id = final id)

ASSUME PricesAssumption == Prices \subseteq Nat
ASSUME MaxQtyAssumption == MaxQty \in Nat \ {0}
ASSUME MaxIdAssumption == MaxId \in Nat \ {0}
ASSUME PreviousIdsAssumption == PreviousIds \subseteq {"chain", "zero"}
ASSUME BatchedAssumption == Batched \in BOOLEAN

Sides == {"bid", "ask"}
Levels == Sides \X Prices
Qty == 0..MaxQty
Books == [Levels -> Qty]
EmptyBook == [l \in Levels |-> 0]
Ids == 0..MaxId

(* A level an update does not mention keeps its quantity.                  *)
Untouched == -1
NoLevel == <<"none", 0>>
Idle == [level |-> NoLevel, qty |-> 0]
Changes == [level : Levels, qty : Qty] \cup {Idle}

VARIABLES
    history,        \* history[i] is the change with id i
    cuts            \* the ids at which a depth update ends

feedVars == <<history, cuts>>

(* The greatest element of a set of naturals.                              *)
Latest(S) == CHOOSE m \in S : \A n \in S : n <= m

Active(i) == history[i] # Idle
Touches(i, l) == history[i].level = l

(* The true book once every change up to id s has happened.                *)
TruthAt(s) ==
    [l \in Levels |->
        LET touching == {i \in 1..s : Touches(i, l)}
        IN  IF touching = {} THEN 0 ELSE history[Latest(touching)].qty]

(* The cut before c, 0 for the first update of the feed.                   *)
PreviousCut(c) ==
    LET earlier == {d \in cuts : d < c}
    IN  IF earlier = {} THEN 0 ELSE Latest(earlier)

FirstChange(c) ==
    CHOOSE i \in PreviousCut(c) + 1 .. c :
        Active(i) /\ \A j \in PreviousCut(c) + 1 .. i - 1 : ~Active(j)

UpdateLevels(c) ==
    [l \in Levels |->
        IF \E i \in PreviousCut(c) + 1 .. c : Touches(i, l)
        THEN TruthAt(c)[l]
        ELSE Untouched]

(* The depth update that ends at cut c, with previous_id filled as pid.     *)
Update(c, pid) ==
    [first      |-> FirstChange(c),
     final      |-> c,
     previousId |-> IF pid = "chain" THEN PreviousCut(c) ELSE 0,
     levels     |-> UpdateLevels(c)]

Updates == {Update(c, pid) : c \in cuts, pid \in PreviousIds}

(* Every history of the bounded size, cut in every way: a cut closes an     *)
(* update that has a change in it.                                          *)
FeedInit ==
    /\ history \in [1..MaxId -> Changes]
    /\ cuts \in SUBSET {i \in 1..MaxId : Active(i)}
    /\ Batched \/ cuts = {i \in 1..MaxId : Active(i)}

FeedTypeOK ==
    /\ history \in [1..MaxId -> Changes]
    /\ cuts \in SUBSET {i \in 1..MaxId : Active(i)}
=============================================================================
