------------------------------ MODULE MCCutover ------------------------------
(***************************************************************************)
(* Two chains, with a block every two seconds and every three: block 3 of the    *)
(* one has the timestamp of block 2 of the other.  The apps: an early end under   *)
(* a later one; two ends that are soon reached; two streaming chains without an   *)
(* end; a pinned head; each chain in its own order.                          *)
(***************************************************************************)
EXTENDS CutoverProperties

TwoDepths == <<1, 1>>
Paces == <<2, 3>>
SomeEvents == {<<1, 1>>, <<1, 3>>, <<2, 2>>, <<2, 3>>}
NoPins == <<None, None>>

MCApps ==
  {[ordering |-> "omnichain", end |-> <<1, 2>>, stream |-> {}, pin |-> NoPins],
   [ordering |-> "omnichain", end |-> <<2, 1>>, stream |-> {1}, pin |-> NoPins],
   [ordering |-> "omnichain", end |-> <<NoEnd, NoEnd>>, stream |-> {1, 2}, pin |-> NoPins],
   [ordering |-> "omnichain", end |-> <<1, NoEnd>>, stream |-> {2}, pin |-> <<None, 2>>],
   [ordering |-> "multichain", end |-> <<1, NoEnd>>, stream |-> {2}, pin |-> NoPins]}
=============================================================================
