------------------------ MODULE MCCollectionService ------------------------
(***************************************************************************)
(* CollectionService for TLC: two exchanges with a symbol each, symbols     *)
(* fetched one at a time, and a report every second.  The first answer of x *)
(* is a book too thin for any trade, its second one has no depth.           *)
(***************************************************************************)
EXTENDS CollectionService

CONSTANTS x, y, s, t

MCSymbols == <<s, t>>
MCPairs == {<<x, t>>, <<y, s>>}
MCGaps == {[table |-> "slippage", pair |-> <<x, t>>, ts |-> 0],
           [table |-> "liquidity_depth", pair |-> <<x, t>>, ts |-> 1]}
=============================================================================
