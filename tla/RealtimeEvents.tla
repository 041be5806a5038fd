--------------------------- MODULE RealtimeEvents ---------------------------
(***************************************************************************)
(* portalRealtimeEvents: turns streamed items into block, reorg and         *)
(* finalize events.  It keeps the unfinalized window above the anchor, and  *)
(* on a cadence polls the finalized head, with three watchdogs on the way.  *)
(*                                                                         *)
(* stage is where the generator stands: "pull" (wants the next item),        *)
(* "append" (the reorg event is out; the block that caused it, pending, is   *)
(* still to be appended), "cadence" (the block is out or a tick came: the    *)
(* finalize cadence is next).  event is the event yielded and not yet taken. *)
(***************************************************************************)
EXTENDS Reconcile

CONSTANTS
  DeliveryThreshold   \* deliveryProgressThreshold

ASSUME ThresholdAssumption == DeliveryThreshold \in Nat \ {0}

VARIABLES
  window,     \* unfinalized
  anchor,     \* the last finalized block
  deferring,  \* deferStreakStart is armed
  baseline,   \* deliveryBaseline
  probed,     \* firstProbeAdopted
  stage,
  pending,    \* the batch a reorg was raised for
  event

eventsVars == <<window, anchor, deferring, baseline, probed, stage, pending, event>>

BlockEvent(batch) == [type |-> "block", block |-> batch.block, logs |-> batch.logs]
ReorgEvent(b, reorged) == [type |-> "reorg", block |-> b, reorged |-> reorged]
FinalizeEvent(b) == [type |-> "finalize", block |-> b]

BlockEvents == [type : {"block"}, block : Block, logs : SUBSET Child]
ReorgEvents == [type : {"reorg"}, block : Block, reorged : Seq(Block)]
FinalizeEvents == [type : {"finalize"}, block : Block]

ASSUME NoEventAssumption == None \notin BlockEvents \cup ReorgEvents \cup FinalizeEvents

EventsTypeOK ==
  /\ window \in Seq(Block)
  /\ anchor \in Block
  /\ deferring \in BOOLEAN
  /\ baseline \in Nat \cup {None}
  /\ probed \in BOOLEAN
  /\ stage \in {"pull", "append", "cadence"}
  /\ pending \in {None} \cup [kind : {"block"}, block : Block, logs : SUBSET Child]
  /\ stage = "append" <=> pending # None
  /\ event \in {None} \cup BlockEvents \cup ReorgEvents \cup FinalizeEvents

EventsInit(start) ==
  /\ window = <<>>
  /\ anchor = start
  /\ deferring = FALSE
  /\ baseline = None
  /\ probed = FALSE
  /\ stage = "pull"
  /\ pending = None
  /\ event = None

LargerOf(m, n) == IF m = None \/ m < n THEN n ELSE m

-----------------------------------------------------------------------------
TakeTick ==
  /\ stage' = "cadence"
  /\ UNCHANGED <<window, anchor, deferring, baseline, probed, pending, event, status>>

(* Append the block to `base`, unless it is an awaited redelivery (already  *)
(* the tip), under the INV-10 tripwire; then yield it.                     *)
AppendAndYield(base, batch, redelivered) ==
  LET b == batch.block
      linked == base = <<>> \/ /\ Extends(b, base[Len(base)])
                               /\ Height[b] > Height[base[Len(base)]]
  IN  IF redelivered \/ linked
      THEN /\ window' = IF redelivered THEN base ELSE Append(base, b)
           /\ baseline' = LargerOf(baseline, Height[b])
           /\ event' = BlockEvent(batch)
           /\ stage' = "cadence"
           /\ pending' = None
           /\ UNCHANGED <<anchor, deferring, probed, status>>
      ELSE Fatal("unlinked") /\ UNCHANGED eventsVars

(* A block already known is dropped unless the consumer awaits it.         *)
TakeDuplicate(batch, awaited) ==
  /\ IsDuplicate(window, batch.block, anchor)
  /\ IF awaited
     THEN AppendAndYield(window, batch, TRUE)
     ELSE UNCHANGED eventsVars /\ UNCHANGED status

TakeAppend(batch) ==
  /\ IsAppend(window, batch.block, anchor)
  /\ AppendAndYield(window, batch, FALSE)

TakeReorg(batch) ==
  /\ IsReorg(window, batch.block, anchor)
  /\ LET ancestor == CommonAncestor(window, batch.block, anchor)
     IN  /\ window' = TrimTo(window, ancestor)
         /\ event' = ReorgEvent(ancestor, ReorgedBlocks(window, batch.block, anchor))
  /\ pending' = batch
  /\ stage' = "append"
  /\ UNCHANGED <<anchor, deferring, baseline, probed, status>>

TakeGap(batch) ==
  /\ IsGap(window, batch.block, anchor)
  /\ Fatal("gap")
  /\ UNCHANGED eventsVars

TakeBlock(batch, awaited) ==
  \/ TakeDuplicate(batch, awaited)
  \/ TakeAppend(batch)
  \/ TakeReorg(batch)
  \/ TakeGap(batch)

(* The consumer took the reorg event: append the block behind it.          *)
AppendAfterReorg ==
  /\ stage = "append" /\ event = None
  /\ AppendAndYield(window, pending, FALSE)

-----------------------------------------------------------------------------
(* Not time to poll yet.                                                   *)
CadenceSkip ==
  /\ stage = "cadence" /\ event = None
  /\ stage' = "pull"
  /\ UNCHANGED <<window, anchor, deferring, baseline, probed, pending, event, status>>

(* The delivery watchdog may trip on this head: finality has climbed the    *)
(* threshold past everything delivered.  The other half of its condition,   *)
(* no delivery for the whole bound, is wall time: it may or may not hold.   *)
Starving(fh) == probed /\ fh.number - baseline >= DeliveryThreshold

PollFailed ==
  /\ stage' = "pull"
  /\ deferring' = FALSE
  /\ UNCHANGED <<window, anchor, baseline, probed, pending, event, status>>

PollStarved(fh) ==
  /\ Starving(fh)
  /\ Fatal("starved")
  /\ UNCHANGED eventsVars

(* Hash known, but the local tip at or below the head is not at its height: *)
(* nothing to compare with.                                                *)
Unverifiable(fh, tip) == fh.hash # None /\ Height[tip] < fh.number

(* Mutant: the finalized hash is not compared.                             *)
DivergedNever(fh, tip) == FALSE

Diverged(fh, tip) == fh.hash # None /\ Height[tip] = fh.number /\ tip # fh.hash

PollApply(fh) ==
  LET tip == FinalizedTip(window, fh.number)
  IN  /\ probed' = TRUE
      /\ baseline' = IF probed THEN baseline ELSE LargerOf(baseline, fh.number)
      /\ \/ /\ tip = None
            /\ deferring' = FALSE
            /\ stage' = "pull"
            /\ UNCHANGED <<window, anchor, event, status>>
         \/ /\ tip # None /\ Diverged(fh, tip)
            /\ Fatal("wrongFork")
            /\ UNCHANGED <<window, anchor, deferring, stage, event>>
         \/ /\ tip # None /\ Unverifiable(fh, tip)
            /\ deferring' = TRUE
            /\ \/ stage' = "pull" /\ UNCHANGED status
               \/ deferring /\ Fatal("lagging") /\ UNCHANGED stage
            /\ UNCHANGED <<window, anchor, event>>
         \/ /\ tip # None /\ ~Diverged(fh, tip) /\ ~Unverifiable(fh, tip)
            /\ deferring' = FALSE
            /\ anchor' = tip
            /\ window' = Remaining(window, fh.number)
            /\ event' = FinalizeEvent(tip)
            /\ stage' = "pull"
            /\ UNCHANGED status
      /\ UNCHANGED pending

(* One poll of the finalized head, answered by fh.                         *)
CadencePoll(fh) ==
  /\ stage = "cadence" /\ event = None
  /\ IF fh = None THEN PollFailed
     ELSE PollStarved(fh) \/ PollApply(fh)
=============================================================================
