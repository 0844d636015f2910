--------------------------- MODULE MCDeltaSession ---------------------------
(***************************************************************************)
(* DeltaSession for TLC.  A change sets one of two levels, a bid below an   *)
(* ask, to a quantity that is its id, so two ids never look alike by        *)
(* chance; an ask changed at an even id is removed.  Every choice of        *)
(* levels, idle ids and cuts is tried, save that the last change always     *)
(* ends an event: a last event that is never cut is one not yet delivered.  *)
(***************************************************************************)
EXTENDS DeltaSession

Choices == {<<"bid", 1>>, <<"ask", 2>>, NoLevel}

ChangeTo(l, i) ==
    CASE l = NoLevel      -> Idle
      [] l = <<"ask", 2>> -> [level |-> l, qty |-> IF i % 2 = 0 THEN 0 ELSE i]
      [] OTHER            -> [level |-> l, qty |-> i]

MCInit ==
    /\ history \in {[i \in 1..MaxId |-> ChangeTo(choice[i], i)] : choice \in [1..MaxId -> Choices]}
    /\ cuts \in SUBSET {i \in 1..MaxId : Active(i)}
    /\ \A i \in 1..MaxId : (Active(i) /\ \A j \in (i + 1)..MaxId : ~ Active(j)) => i \in cuts
    /\ Batched \/ cuts = {i \in 1..MaxId : Active(i)}
    /\ EmptyInit
    /\ SessionInit

MCSpec == MCInit /\ [][DeltaNext]_dsVars
=============================================================================
