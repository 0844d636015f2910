---------------------------- MODULE MCRestClient ----------------------------
(***************************************************************************)
(* RestClient for TLC: a short window inside a longer one, as the presets   *)
(* have a limit per second and one per minute.                              *)
(***************************************************************************)
EXTENDS RestClient

TwoLimits == <<[max |-> 2, window |-> 2], [max |-> 3, window |-> 5]>>
=============================================================================
