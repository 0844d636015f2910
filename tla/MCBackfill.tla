----------------------------- MODULE MCBackfill -----------------------------
(***************************************************************************)
(* Backfill for TLC: three windows, the first listing day anywhere, rates   *)
(* more and less often than a resume assumes, an answer that hits its limit *)
(* and a batch that takes two chunks to fill.  Trades come once in a unit   *)
(* of time, and a request reaches three of them back.                       *)
(***************************************************************************)
EXTENDS Backfill

MCWindows == <<1, 3, 5>>
MCRequested == {<<"funding_rates", "klines">>, <<"trades">>}
MCChunkOf == [funding_rates |-> 2, trades |-> 2]
MCLimitOf == [funding_rates |-> 2, trades |-> 3]
MCResumeOf == [funding_rates |-> 2, trades |-> 1]
=============================================================================
