-------------------------- MODULE MCLocalOrderbook --------------------------
(***************************************************************************)
(* LocalOrderbook for TLC: every history of MaxId changes on a small price  *)
(* grid, cut into depth updates in every way.                               *)
(***************************************************************************)
EXTENDS LocalOrderbook

(* Histories in which the exchange's own book never crosses.                *)
UncrossedInit == Init /\ ExchangeNeverInverted
UncrossedSpec == UncrossedInit /\ [][Next]_vars
=============================================================================
