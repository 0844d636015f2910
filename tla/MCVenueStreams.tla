--------------------------- MODULE MCVenueStreams ---------------------------
(***************************************************************************)
(* VenueStreams for TLC.  A change sets one of two levels to a quantity     *)
(* that is its id, or removes an ask at an even id; every choice of levels, *)
(* idle ids and cuts is tried, on every venue.                              *)
(***************************************************************************)
EXTENDS VenueStreams

Choices == {<<"bid", 1>>, <<"ask", 2>>, NoLevel}

ChangeTo(l, i) ==
    CASE l = NoLevel      -> Idle
      [] l = <<"ask", 2>> -> [level |-> l, qty |-> IF i % 2 = 0 THEN 0 ELSE i]
      [] OTHER            -> [level |-> l, qty |-> i]

MCInit ==
    /\ history \in {[i \in 1..MaxId |-> ChangeTo(choice[i], i)] : choice \in [1..MaxId -> Choices]}
    /\ cuts \in SUBSET {i \in 1..MaxId : Active(i)}
    /\ Batched \/ cuts = {i \in 1..MaxId : Active(i)}
    /\ StreamInit

MCSpec == MCInit /\ [][Next]_vars
=============================================================================
