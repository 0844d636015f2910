--------------------------- MODULE MCStreamIngest ---------------------------
(***************************************************************************)
(* StreamIngest for TLC.  A stream has a full batch and a rest, and its     *)
(* events cross midnight.  The default partition has a row of each day to   *)
(* begin with, and two processes create the partitions of both days.        *)
(***************************************************************************)
EXTENDS StreamIngest, TLC

CONSTANTS old1, old2, new1, new2, new3, w1, c1, c2

MCRows == {old1, old2, new1, new2, new3}
MCDayOf == [r \in MCRows |-> IF r \in {old1, new1} THEN 1 ELSE 2]
MCFeed == w1 :> <<new1, new2, new3>>
MCDaysOf == c1 :> <<1, 2>> @@ c2 :> <<1, 2>>
=============================================================================
