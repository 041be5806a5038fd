---------------------------- MODULE PortalServer ----------------------------
(***************************************************************************)
(* The SQD Portal as the realtime client meets it: the canonical chain it   *)
(* serves, its finalized head, and what its /stream and /finalized-head     *)
(* endpoints may answer.  The Portal is not in this repository; it is       *)
(* modelled from what portal-realtime.ts sends and expects.                 *)
(***************************************************************************)
EXTENDS RealtimeBase

CONSTANTS
  MaxSwitches,    \* bound: times the canonical head may leave its chain
  HashProbes,     \* /finalized-head carries the hash
  SparseSamples,  \* a 409 may skip blocks of the canonical chain it names
  SpuriousConflicts  \* a 409 may come although the parent is canonical

ASSUME ServerAssumption ==
  /\ MaxSwitches \in Nat
  /\ HashProbes \in BOOLEAN
  /\ SparseSamples \in BOOLEAN
  /\ SpuriousConflicts \in BOOLEAN

VARIABLES
  head,      \* canonical tip
  final,     \* canonical finalized block
  mined,     \* every block that was ever canonical
  switches   \* head changes so far that were not plain extensions

serverVars == <<head, final, mined, switches>>

ServerTypeOK ==
  /\ head \in Block
  /\ final \in Ancestry[head]
  /\ Ancestry[head] \subseteq mined /\ mined \subseteq Block
  /\ switches \in 0..MaxSwitches

ServerInit == head = Root /\ final = Root /\ mined = {Root} /\ switches = 0

Canonical == Ancestry[head]

(* A block is produced on the canonical chain.                             *)
Produce ==
  /\ \E b \in Block : Extends(b, head) /\ head' = b
  /\ mined' = mined \cup {head'}
  /\ UNCHANGED <<final, switches>>

(* A fork above finality wins, or another replica (behind or on another     *)
(* fork) answers from now on.                                              *)
SwitchHead ==
  /\ switches < MaxSwitches
  /\ \E b \in Block \ {head} :
       /\ final \in Ancestry[b]
       /\ ~Extends(b, head)
       /\ head' = b
  /\ mined' = mined \cup Ancestry[head']
  /\ switches' = switches + 1
  /\ UNCHANGED final

Finalize ==
  /\ \E b \in Canonical : Extends(b, final) /\ final' = b
  /\ UNCHANGED <<head, mined, switches>>

ServerNext == Produce \/ SwitchHead \/ Finalize

-----------------------------------------------------------------------------
(* A request is answered with a 409 when its parent was orphaned.  A replica *)
(* that is only behind has nothing against the parent, and no data yet.     *)
Conflicts(parent) ==
  \/ SpuriousConflicts
  \/ parent \notin Canonical /\ head \notin Ancestry[parent]

(* previousBlocks of a 409 to a request for block n: nothing, or blocks of   *)
(* the canonical chain from n - 1 down, as far back as the Portal cares to.  *)
PreviousBlocks(n) ==
  LET below == {b \in Canonical : Height[b] < n}
  IN  IF SparseSamples
      THEN {{}} \cup {S \in SUBSET below : Highest(below) \in S}
      ELSE {{b \in below : Height[b] >= k} : k \in 0..n}

(* The block an open connection that last carried `last` serves next: its   *)
(* canonical child, the block above the fork point after a fork, or a child *)
(* that lost meanwhile (a line already in flight, a replica behind).        *)
NextServed(last) ==
  LET join == Highest(Canonical \cap Ancestry[last])
  IN  {b \in Block : \/ b \in Canonical /\ Extends(b, join)
                     \/ b \in mined /\ Extends(b, last)}

(* /finalized-head: nothing (a failed probe), or the finalized block as one *)
(* of the replicas knows it.                                               *)
FinalizedHeads ==
  {None} \cup {[number |-> Height[b], hash |-> IF HashProbes THEN b ELSE None]
                 : b \in Ancestry[final]}
=============================================================================
