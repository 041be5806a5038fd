---------------------------- MODULE MCIntervalSync ----------------------------
(***************************************************************************)
(* IntervalSync for TLC.                                                   *)
(***************************************************************************)
EXTENDS IntervalProperties

(* The first child is created twice, the second in a block between.           *)
TwoChildren == {<<"c1", 2>>, <<"c1", 5>>, <<"c2", 4>>}
EarlyChildren == {<<"c1", 2>>, <<"c1", 4>>, <<"c2", 3>>}
OneChild == {<<"c1", 3>>}

(* Over chunks of two blocks: each interval shares a chunk with the next.      *)
Uneven == <<[lo |-> 0, hi |-> 2], [lo |-> 3, hi |-> 4], [lo |-> 5, hi |-> 5]>>

(* Over chunks of three: the second lies in two of them.                      *)
Pairs == <<[lo |-> 0, hi |-> 1], [lo |-> 2, hi |-> 3], [lo |-> 4, hi |-> 5]>>
=============================================================================
