----------------------------- MODULE CutoverLoop -----------------------------
(***************************************************************************)
(* What the cutover of several chains promises: the loop of ponder that      *)
(* probes and adopts every chain in every round, and goes live when no chain  *)
(* has advanced by more than its finality depth.  The guarded loop may differ *)
(* from it in one way: it may go live earlier, if it has nothing parked.      *)
(***************************************************************************)
EXTENDS Integers

CONSTANTS
  Chain,
  Depth     \* Depth[c]: finalityBlockCount

VARIABLES
  stage,    \* "draining", "deciding", "live" or "down"
  shared,   \* the chains share one order of events (omnichain)
  final,    \* the boundary adopted for each chain
  parked,   \* events of drained blocks that await a later boundary
  least     \* the least boundary a probe may answer, since the round began

vars == <<stage, shared, final, parked, least>>

Init == stage = "down" /\ parked = {}

Drain ==
  /\ stage = "draining"
  /\ stage' = "deciding"
  /\ UNCHANGED <<shared, final>>

(* Every chain is adopted, not only those that had to be probed: a stale      *)
(* boundary left behind would hold back the events of the others.            *)
CatchUp ==
  /\ stage = "deciding"
  /\ stage' = "draining"
  /\ \E c \in Chain : final'[c] - final[c] > Depth[c]
  /\ \A c \in Chain : final'[c] >= final[c] /\ (shared => final'[c] >= least[c])
  /\ UNCHANGED <<shared, parked, least>>

GoLive ==
  /\ stage = "deciding"
  /\ stage' = "live"
  /\ parked = {} \/ \A c \in Chain : least[c] - final[c] <= Depth[c]
  /\ UNCHANGED <<shared, final, least>>

(* A live chain that is not ended is followed by realtime.                   *)
Advance ==
  /\ stage = "live"
  /\ \A c \in Chain : final'[c] >= final[c]
  /\ UNCHANGED <<stage, shared, parked, least>>

(* The process ends, and begins anew.                                      *)
Stop == stage' = "down" /\ UNCHANGED shared
Start == stage = "down" /\ stage' = "draining" /\ UNCHANGED shared

Next == Drain \/ CatchUp \/ GoLive \/ Advance \/ Stop \/ Start

Spec == Init /\ [][Next]_vars
=============================================================================
