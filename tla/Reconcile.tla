----------------------------- MODULE Reconcile ------------------------------
(***************************************************************************)
(* The pure reorg / finalize core of portal-realtime.ts: how a streamed     *)
(* block relates to the unfinalized window (oldest first) above the last    *)
(* finalized block, the anchor.                                            *)
(***************************************************************************)
EXTENDS RealtimeBase

Tip(window, anchor) == IF window = <<>> THEN anchor ELSE window[Len(window)]

(* A chain that starts on its anchor, each block on the one before it.     *)
Linked(window, anchor) ==
  \A i \in 1..Len(window) :
    Extends(window[i], IF i = 1 THEN anchor ELSE window[i - 1])

(* Positions of the window whose block is next's parent; 0 is the anchor.   *)
ParentAt(window, next, anchor) ==
  {i \in 0..Len(window) :
     Extends(next, IF i = 0 THEN anchor ELSE window[i])}

IsDuplicate(window, next, anchor) == next = Tip(window, anchor)

IsAppend(window, next, anchor) ==
  ~IsDuplicate(window, next, anchor) /\ Extends(next, Tip(window, anchor))

IsReorg(window, next, anchor) ==
  /\ ~IsDuplicate(window, next, anchor)
  /\ ~IsAppend(window, next, anchor)
  /\ ParentAt(window, next, anchor) # {}

IsGap(window, next, anchor) ==
  /\ ~IsDuplicate(window, next, anchor)
  /\ ~IsAppend(window, next, anchor)
  /\ ~IsReorg(window, next, anchor)

(* The common ancestor of a reorg and the suffix it removes.  findIndex     *)
(* looks through the window first and falls back to the anchor.            *)
ForkPosition(window, next, anchor) ==
  LET at == ParentAt(window, next, anchor)
      inside == at \ {0}
  IN  IF inside = {} THEN 0
      ELSE CHOOSE i \in inside : \A j \in inside : i <= j

(* Mutant: the ancestor is taken to be the anchor.                         *)
AncestorAtAnchor(window, next, anchor) == anchor

CommonAncestor(window, next, anchor) ==
  LET i == ForkPosition(window, next, anchor)
  IN  IF i = 0 THEN anchor ELSE window[i]

(* Mutant: the first removed block is not reported.                        *)
ReorgedTail(window, next, anchor) ==
  SubSeq(window, ForkPosition(window, next, anchor) + 2, Len(window))

ReorgedBlocks(window, next, anchor) ==
  SubSeq(window, ForkPosition(window, next, anchor) + 1, Len(window))

(* The pops that follow a reorg: everything numbered above the ancestor.    *)
TrimTo(window, ancestor) ==
  SubSeq(window, 1, LastAtOrBelow(window, Height[ancestor]))

(* takeFinalized: the window split at a finalized number.                  *)
FinalizedTip(window, number) ==
  LET n == LastAtOrBelow(window, number) IN IF n = 0 THEN None ELSE window[n]

(* Mutant: the finalized tip stays in the window.                          *)
RemainingWithTip(window, number) ==
  SubSeq(window, LastAtOrBelow(window, number), Len(window))

Remaining(window, number) ==
  SubSeq(window, LastAtOrBelow(window, number) + 1, Len(window))
=============================================================================
