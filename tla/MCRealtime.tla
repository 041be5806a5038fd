----------------------------- MODULE MCRealtime -----------------------------
(***************************************************************************)
(* A chain r - a1 - a2 - a3 with a fork b2 - b3 off a1.  The child c is      *)
(* created on both forks at different heights, logs in the block it is       *)
(* created in, and on the fork also before its creation there.  A second     *)
(* child d follows in a3 and pushes the filter over its budget.            *)
(***************************************************************************)
EXTENDS RealtimeProperties

MCBlock == {"r", "a1", "a2", "a3", "b2", "b3"}
MCParent ==
  [b \in MCBlock \ {"r"} |->
     CASE b = "a1" -> "r" [] b = "a2" -> "a1" [] b = "a3" -> "a2"
       [] b = "b2" -> "a1" [] b = "b3" -> "b2"]
MCHeight ==
  [b \in MCBlock |->
     CASE b = "r" -> 0 [] b = "a1" -> 1 [] b \in {"a2", "b2"} -> 2 [] OTHER -> 3]
MCAncestry[b \in MCBlock] ==
  IF b = "r" THEN {b} ELSE MCAncestry[MCParent[b]] \cup {b}
MCCreates ==
  [b \in MCBlock |->
     CASE b \in {"a2", "b3"} -> {"c"} [] b = "a3" -> {"d"} [] OTHER -> {}]
MCChildLogs ==
  [b \in MCBlock |->
     CASE b \in {"a2", "b2", "b3"} -> {"c"} [] b = "a3" -> {"c", "d"} [] OTHER -> {}]

(* For negotiations of more than one round: a fork b1 - b2 at the root, two  *)
(* blocks long, and a fork c3 high above it.                               *)
DeepBlock == {"r", "a1", "a2", "a3", "b1", "b2", "c3"}
DeepParent ==
  [b \in DeepBlock \ {"r"} |->
     CASE b \in {"a1", "b1"} -> "r" [] b = "a2" -> "a1"
       [] b \in {"a3", "c3"} -> "a2" [] b = "b2" -> "b1"]
DeepHeight ==
  [b \in DeepBlock |->
     CASE b = "r" -> 0 [] b \in {"a1", "b1"} -> 1 [] b \in {"a2", "b2"} -> 2 [] OTHER -> 3]
DeepAncestry[b \in DeepBlock] ==
  IF b = "r" THEN {b} ELSE DeepAncestry[DeepParent[b]] \cup {b}
DeepCreates == [b \in DeepBlock |-> {}]
=============================================================================
