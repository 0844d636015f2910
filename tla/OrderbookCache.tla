--------------------------- MODULE OrderbookCache ---------------------------
(***************************************************************************)
(* What get_multi of ws_orderbook_manager.rs promises the readers of one    *)
(* symbol, whatever the venue and however the book gets into the cache: a   *)
(* reader is shown nothing, or the exchange's own book as it was at one     *)
(* id.  While a connection lasts the ids do not go back, not even across a  *)
(* pause in which nothing is shown; a new connection starts from the id at  *)
(* which it was subscribed.                                                 *)
(***************************************************************************)
EXTENDS ExchangeFeed

VARIABLES
    shown,      \* what a reader is shown: Nothing or a book with its id
    connection, \* how many connections there have been
    floor       \* no earlier book may be shown under this connection

cacheVars == <<history, cuts, shown, connection, floor>>

Nothing == [book |-> EmptyBook, id |-> -1]
Entry(i) == [book |-> TruthAt(i), id |-> i]

CacheInit == shown = Nothing /\ connection = 0 /\ floor = 0

(* The first book, a later one, or the same one again after a pause.        *)
Show ==
    /\ \E i \in Ids : i >= floor /\ shown' = Entry(i) /\ floor' = i
    /\ UNCHANGED <<feedVars, connection>>

(* The symbol looks crossed, or has no book yet; what is hidden goes on.    *)
Hide ==
    /\ shown' = Nothing
    /\ floor' \in {i \in Ids : i >= floor}
    /\ UNCHANGED <<feedVars, connection>>

Disconnect ==
    /\ shown' = Nothing
    /\ floor' \in Ids
    /\ connection' = connection + 1
    /\ UNCHANGED feedVars

CacheSpec == CacheInit /\ [][Show \/ Hide \/ Disconnect]_cacheVars
=============================================================================
