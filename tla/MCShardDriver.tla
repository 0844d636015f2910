--------------------------- MODULE MCShardDriver ---------------------------
(***************************************************************************)
(* ShardDriver for TLC: three symbols and connections of two, prewarm lists *)
(* that overlap each other and the subscriptions.                           *)
(***************************************************************************)
EXTENDS ShardDriver

CONSTANTS a, b, c

Lists == {<<a, b>>, <<c, a>>}
StartLists == {<<>>, <<b>>}
=============================================================================
