------------------------------- MODULE Cutover -------------------------------
(***************************************************************************)
(* Where a chain's history ends and realtime begins: the finality boundary    *)
(* at startup (deriveFinalityFloor, clampFinalizedToPortalHead), and the       *)
(* cutover of several chains from backfill to realtime, with the guard that   *)
(* spares chains which have reached their end (portal-cutover-guard.ts, and    *)
(* the patch of ponder's runtime/historical.ts).                            *)
(*                                                                         *)
(* Ponder's own runtime and store are external, as the patch, its comments     *)
(* and the whole-loop test use them.  Blocks of a chain are numbered from 1;   *)
(* block n of chain c has the timestamp Stamp(c, n), which blocks of other      *)
(* chains may share, and the checkpoint Time(c, n), which none does: it orders   *)
(* by timestamp, then by chain.  stage is where the backfill's generator stands: *)
(*   "booting"   establishes each chain's boundary                           *)
(*   "draining"  fetches up to the boundaries                               *)
(*   "drained"   decides whether anything is to be probed                    *)
(*   "probing"   awaits phase 1              "reprobing"  awaits phase 2       *)
(*   "live"      over to realtime            "dead"       a throw             *)
(***************************************************************************)
EXTENDS Integers, FiniteSets, FiniteSetsExt

CONSTANTS
  Chain,       \* chains, as numbers from 1: their order breaks ties
  Depth,       \* finalityBlockCount of each chain
  Pace,        \* the time between two blocks of each chain
  LastBlock,   \* bound: the last block of every chain
  Events,      \* events there are to index: <<chain, block>>
  NoEnd, None,
  Apps,        \* configurations: ordering, end of each chain, streaming chains
  ReplicaLag,  \* bound: blocks by which a replica of the Portal may be behind
  MaxBoots     \* bound: restarts

ASSUME CutoverAssumption ==
  /\ IsFiniteSet(Chain) /\ Chain = 1..Cardinality(Chain) /\ Chain # {}
  /\ Depth \in [Chain -> Nat] /\ Pace \in [Chain -> Nat \ {0}] /\ LastBlock \in Nat \ {0}
  /\ ReplicaLag \in Nat /\ MaxBoots \in Nat
  /\ Events \subseteq Chain \X (1..LastBlock)
  /\ NoEnd > LastBlock /\ NoEnd \in Nat /\ None \notin Nat
  /\ \A a \in Apps : /\ a.ordering \in {"omnichain", "multichain"}
                     /\ a.end \in [Chain -> Nat] /\ a.stream \subseteq Chain
                     /\ a.pin \in [Chain -> Nat \cup {None}]

VARIABLES
  app,      \* the configuration
  rpcFinal, \* external: latest minus the finality depth, by the RPC
  served,   \* external: the Portal's finalized head
  stage,
  final,    \* syncProgress.finalized
  cursor,   \* drained up to here
  parked,   \* pendingEvents
  probed,   \* cutoverProbe: the chains of phase 1
  found,    \* finalizedBlocks of this round
  indexed,  \* indexed[e]: times e's rows have been written
  synced,   \* blocks with events in the sync store
  rows,     \* rows[c]: the safe checkpoint in c's row, or None
  least,    \* history: the least answer of a probe since the round began
  tied,     \* history: events of the very time that a start had another chain's
            \* checkpoint at
  boots

headVars == <<rpcFinal, served>>
roundVars == <<cursor, parked, probed, found, least>>
durableVars == <<indexed, synced, rows>>
startVars == <<tied, boots>>
vars == <<app, headVars, stage, final, roundVars, durableVars, startVars>>

Block == 0..LastBlock
Stages == {"booting", "draining", "drained", "probing", "reprobing", "live", "dead"}

(* Type correctness; what is parked has been stored but not indexed, and only   *)
(* where the chains share one order (pendingEvents).                         *)
TypeOK ==
  /\ app \in Apps /\ stage \in Stages /\ probed \subseteq Chain
  /\ rpcFinal \in [Chain -> Block] /\ served \in [Chain -> Block]
  /\ final \in [Chain -> Block] /\ cursor \in [Chain -> Block]
  /\ parked \subseteq synced /\ synced \subseteq Events
  /\ \A e \in parked : indexed[e] = 0 /\ app.ordering = "omnichain"
  /\ found \in [Chain -> Block \cup {None}] /\ least \in [Chain -> Block]
  /\ indexed \in [Events -> Nat]
  /\ rows \in [Chain -> (Chain \X Block) \cup {None}]
  /\ tied \subseteq Events

AtMost(a, b) == IF a <= b THEN a ELSE b
AtLeast(a, b) == IF a >= b THEN a ELSE b

Omnichain == app.ordering = "omnichain"
Stamp(c, n) == n * Pace[c]
Time(c, n) == Stamp(c, n) * Cardinality(Chain) + c
Moment(event) == Time(event[1], event[2])
To(c) == AtMost(final[c], app.end[c])
Ended(c) == cursor[c] >= app.end[c]

-----------------------------------------------------------------------------
(* The finality boundary.                                                  *)

(* The blocks getSafeCrashRecoveryBlock takes the highest of: stored, and of a  *)
(* timestamp strictly below.                                               *)
StoredBefore(c, timestamp) ==
  {n \in Block : <<c, n>> \in synced /\ Stamp(c, n) < timestamp}

(* Mutant: a foreign checkpoint gives no floor.                             *)
SameChainFloor(c) ==
  IF rows[c] # None /\ rows[c][1] = c THEN rows[c][2] ELSE 0

(* Mutant: the number in the checkpoint is taken for this chain's.           *)
VerbatimFloor(c) == IF rows[c] = None THEN 0 ELSE rows[c][2]

(* deriveFinalityFloor.  A checkpoint of another chain is mapped by its          *)
(* timestamp alone, while crash recovery compares whole checkpoints.          *)
StartFloor(c) ==
  IF rows[c] = None THEN 0
  ELSE IF rows[c][1] = c THEN rows[c][2]
  ELSE Max({0} \cup StoredBefore(c, Stamp(rows[c][1], rows[c][2])))

(* The head the clamp goes by: the pin, or what a replica of the Portal says.  *)
Heads(c) ==
  IF app.pin[c] # None THEN {app.pin[c]}
  ELSE {n \in Block : served[c] - ReplicaLag <= n /\ n <= served[c]}

(* clampFinalizedToPortalHead, for a chain that streams.                      *)
Clamped(finalized, head, floor) == AtMost(finalized, AtLeast(head, floor))

(* The boundaries that may come out for c.                                   *)
Boundaries(c, floor) ==
  IF c \in app.stream
    THEN {Clamped(rpcFinal[c], head, floor) : head \in Heads(c)}
    ELSE {rpcFinal[c]}

-----------------------------------------------------------------------------
(* Startup.                                                                *)
Resumed(c) ==
  IF rows[c] = None THEN 0
  ELSE Max({0} \cup {n \in Block : Time(c, n) <= Moment(rows[c])})

Init ==
  /\ app \in Apps
  /\ rpcFinal \in [Chain -> {1}] /\ served \in [Chain -> {1}]
  /\ stage = "booting" /\ boots = 0
  /\ final = [c \in Chain |-> 0] /\ cursor = [c \in Chain |-> 0]
  /\ parked = {} /\ probed = {}
  /\ found = [c \in Chain |-> None] /\ least = [c \in Chain |-> 0]
  /\ indexed = [e \in Events |-> 0] /\ synced = {}
  /\ rows = [c \in Chain |-> None] /\ tied = {}

(* External, ponder's migration: the RPC's finalized block is behind what is    *)
(* persisted.                                                              *)
MovesBackwards ==
  \E c \in Chain : rows[c] # None /\ Moment(rows[c]) > Time(c, rpcFinal[c])

RefuseBoot ==
  /\ stage = "booting" /\ MovesBackwards
  /\ stage' = "dead"
  /\ UNCHANGED <<app, headVars, final, roundVars, durableVars, startVars>>

(* Crash recovery keeps e under another chain's checkpoint at the same time.    *)
TiesWithRow(e) ==
  LET row == rows[e[1]]
  IN  row # None /\ row[1] > e[1] /\ Stamp(row[1], row[2]) = Stamp(e[1], e[2])

(* getLocalSyncProgress, for every chain; the backfill resumes after the       *)
(* checkpoint.                                                             *)
Boot ==
  /\ stage = "booting" /\ ~MovesBackwards
  /\ \E boundary \in [Chain -> Block] :
       /\ \A c \in Chain : boundary[c] \in Boundaries(c, StartFloor(c))
       /\ final' = boundary
  /\ cursor' = [c \in Chain |-> Resumed(c)]
  /\ stage' = "draining"
  /\ tied' = tied \cup {e \in Events : TiesWithRow(e)}
  /\ UNCHANGED <<app, headVars, parked, probed, found, least, durableVars, boots>>

-----------------------------------------------------------------------------
(* The backfill generators.                                                *)

(* omnichainTo: the least boundary, but not past the last end.                *)
OmnichainTo ==
  LET finals == {Time(c, final[c]) : c \in Chain}
      ends == {Time(c, app.end[c]) : c \in Chain}
  IN  IF \E c \in Chain : app.end[c] = NoEnd THEN Min(finals)
      ELSE AtMost(Min(finals), Max(ends))

(* Mutant: each chain goes by its own boundary, and what is above the common    *)
(* one is parked as well.                                                  *)
WithinOwnBoundary(events) == {e \in events : Moment(e) <= OmnichainTo}

WithinBoundary(events) ==
  IF Omnichain THEN {e \in events : Moment(e) <= OmnichainTo} ELSE events

Written(events) == [e \in Events |-> indexed[e] + IF e \in events THEN 1 ELSE 0]

(* Every chain is drained up to its boundary; what comes after the boundary     *)
(* of all is parked.                                                       *)
Drain ==
  LET fresh == {e \in Events : cursor[e[1]] < e[2] /\ e[2] <= To(e[1])}
      ready == WithinBoundary(parked \cup fresh)
  IN  /\ stage = "draining"
      /\ indexed' = Written(ready)
      /\ parked' = (parked \cup fresh) \ ready
      /\ synced' = synced \cup fresh
      /\ cursor' = [c \in Chain |-> AtLeast(cursor[c], To(c))]
      /\ least' = [c \in Chain |-> Min(Boundaries(c, final[c]))]
      /\ stage' = "drained"
      /\ UNCHANGED <<app, headVars, final, probed, found, rows, startVars>>

-----------------------------------------------------------------------------
(* The guard.                                                              *)
IsEndCappedAtCutover(c) == app.end[c] # NoEnd /\ app.end[c] <= final[c]

(* Mutant: the guard is off.                                               *)
EveryChain == Chain

CutoverProbe == {c \in Chain : ~IsEndCappedAtCutover(c)}

(* omnichainCutoverProbeIndices, or cutoverProbeIndices.                      *)
PhaseOne == IF Omnichain /\ parked # {} THEN Chain ELSE CutoverProbe

(* shouldSkipOmnichainCutoverRound, or shouldSkipCutoverRound.                 *)
SkipsRound == CutoverProbe = {} /\ (Omnichain => parked = {})

(* Realtime follows the chains that have not ended, and drops what is parked   *)
(* of the others.                                                          *)
GoesLive ==
  /\ stage' = "live"
  /\ indexed' = Written({e \in parked : ~Ended(e[1])})
  /\ parked' = {e \in parked : Ended(e[1])}
  /\ probed' = {} /\ found' = [c \in Chain |-> None]
  /\ UNCHANGED <<app, headVars, final, cursor, least, synced, rows, startVars>>

SkipRound == stage = "drained" /\ SkipsRound /\ GoesLive

(* Multichain, when the boundaries are younger than thirty seconds.           *)
FreshEnough == stage = "drained" /\ ~Omnichain /\ GoesLive

ProbeHeads ==
  /\ stage = "drained" /\ ~SkipsRound
  /\ probed' = PhaseOne
  /\ found' = [c \in Chain |-> IF c \in PhaseOne THEN None ELSE final[c]]
  /\ stage' = "probing"
  /\ UNCHANGED <<app, headVars, final, cursor, parked, least, durableVars, startVars>>

(* probeFinalizedBlock and clampProbedFinalized.                             *)
Answer(c) ==
  /\ stage \in {"probing", "reprobing"} /\ found[c] = None
  /\ \E boundary \in Boundaries(c, final[c]) : found' = [found EXCEPT ![c] = boundary]
  /\ UNCHANGED <<app, headVars, stage, final, cursor, parked, probed, least,
                 durableVars, startVars>>

(* The RPC fails for good, or the Portal's head stays unknown.                *)
ProbeThrows(c) ==
  /\ stage \in {"probing", "reprobing"} /\ found[c] = None
  /\ stage' = "dead"
  /\ UNCHANGED <<app, headVars, final, roundVars, durableVars, startVars>>

Answered == \A c \in Chain : found[c] # None
ShouldCatchup == \E c \in Chain : found[c] - final[c] > Depth[c]

NoCatchup == stage = "probing" /\ Answered /\ ~ShouldCatchup /\ GoesLive

(* Mutant: no second phase.                                                *)
NothingExcluded == {}

(* cutoverExcludedIndices: multichain has no second phase.                    *)
Excluded == IF Omnichain THEN Chain \ probed ELSE {}

PhaseTwo ==
  /\ stage = "probing" /\ Answered /\ ShouldCatchup
  /\ Excluded # {}
  /\ found' = [c \in Chain |-> IF c \in Excluded THEN None ELSE found[c]]
  /\ stage' = "reprobing"
  /\ UNCHANGED <<app, headVars, final, cursor, parked, probed, least, durableVars, startVars>>

Adopt ==
  /\ Answered
  /\ \/ stage = "probing" /\ ShouldCatchup /\ Excluded = {}
     \/ stage = "reprobing"
  /\ final' = found
  /\ stage' = "draining"
  /\ probed' = {} /\ found' = [c \in Chain |-> None]
  /\ UNCHANGED <<app, headVars, cursor, parked, least, durableVars, startVars>>

-----------------------------------------------------------------------------
(* External: realtime streams from the boundary, and final blocks are written  *)
(* and checkpointed.                                                       *)
Follow(c) ==
  LET through == AtMost(IF c \in app.stream THEN served[c] ELSE rpcFinal[c], app.end[c])
  IN  /\ stage = "live" /\ ~Ended(c)
      /\ \E n \in (final[c] + 1)..through :
           LET passed == {e \in Events : e[1] = c /\ final[c] < e[2] /\ e[2] <= n}
           IN  /\ final' = [final EXCEPT ![c] = n]
               /\ cursor' = [cursor EXCEPT ![c] = AtLeast(@, n)]
               /\ indexed' = Written(passed)
               /\ synced' = synced \cup passed
      /\ UNCHANGED <<app, headVars, stage, parked, probed, found, least, rows, startVars>>

(* finalizeOmnichain writes one checkpoint, some chain's, to every row;        *)
(* finalizeMultichain each chain's own.                                     *)
Live == {c \in Chain : ~Ended(c)}
Checkpoint(c) ==
  /\ stage = "live" /\ c \in Live
  /\ IF Omnichain
     THEN /\ \A d \in Live : Time(c, final[c]) <= Time(d, final[d])
          /\ rows' = [d \in Chain |-> <<c, final[c]>>]
     ELSE rows' = [rows EXCEPT ![c] = <<c, final[c]>>]
  /\ UNCHANGED <<app, headVars, stage, final, roundVars, indexed, synced, startVars>>

(* The process dies and is started again; ponder reverts what is above the     *)
(* checkpoint.                                                             *)
Crash ==
  /\ boots < MaxBoots
  /\ stage' = "booting" /\ boots' = boots + 1
  /\ indexed' = [e \in Events |->
                   IF rows[e[1]] # None /\ Moment(e) <= Moment(rows[e[1]]) THEN indexed[e]
                   ELSE 0]
  /\ final' = [c \in Chain |-> 0] /\ cursor' = [c \in Chain |-> 0]
  /\ parked' = {} /\ probed' = {}
  /\ found' = [c \in Chain |-> None] /\ least' = [c \in Chain |-> 0]
  /\ UNCHANGED <<app, headVars, synced, rows, tied>>

RpcAdvances(c) ==
  /\ rpcFinal[c] < LastBlock
  /\ rpcFinal' = [rpcFinal EXCEPT ![c] = @ + 1]
  /\ UNCHANGED <<app, served, stage, final, roundVars, durableVars, startVars>>

PortalAdvances(c) ==
  /\ c \in app.stream /\ served[c] < LastBlock
  /\ served' = [served EXCEPT ![c] = @ + 1]
  /\ UNCHANGED <<app, rpcFinal, stage, final, roundVars, durableVars, startVars>>

Finished == stage \in {"live", "dead"} /\ UNCHANGED vars

Next ==
  \/ Boot \/ RefuseBoot \/ Drain \/ SkipRound \/ FreshEnough \/ ProbeHeads \/ NoCatchup \/ PhaseTwo \/ Adopt
  \/ \E c \in Chain : \/ Answer(c) \/ ProbeThrows(c) \/ Follow(c) \/ Checkpoint(c)
                      \/ RpcAdvances(c) \/ PortalAdvances(c)
  \/ Crash \/ Finished

(* Promises other than those of the RPC and the Portal settle.                *)
Spec == Init /\ [][Next]_vars /\ WF_vars(Drain) /\ WF_vars(SkipRound)
=============================================================================
