------------------------- MODULE RealtimeProperties -------------------------
(***************************************************************************)
(* What the realtime path must never do, and what it must do in the end.    *)
(***************************************************************************)
EXTENDS PortalRealtime

(* Every variable has its type.                                            *)
TypeOK ==
  /\ ServerTypeOK /\ HotTypeOK /\ EventsTypeOK /\ WireTypeOK
  /\ status \in {"running", "done"} \cup Fatals
  /\ boots \in 0..MaxBoots

(* INV-10: the window is a hash-linked chain that starts on the anchor.     *)
WindowLinked == Linked(window, anchor)

(* Whenever the follower needs a resume parent, the delivered-hash ring has  *)
(* it: no prune, finalize, rewind or reopen leaves the cursor without one.  *)
RingCoversResume == Running /\ conn = None => ResumeParent # None

(* The code's own tripwires stay silent: an append always links (INV-10), and *)
(* while a redelivery is awaited no other block event reaches the wire.     *)
TripwiresSilent == status \notin {"unlinked", "skipped"}

(* Between two events, ponder holds exactly the chain the producer believes  *)
(* in: from the durable block to the local tip, but for a block suppressed   *)
(* for its redelivery.                                                     *)
FeedMatchesWindow ==
  Running /\ event = None /\ stage # "append" =>
    Ancestry[Tip(window, anchor)] \ Ancestry[durable]
      = FeedBlocks \cup ({awaiting} \ {None})

(* Finality is one and the same for the producer and for ponder, unless a    *)
(* finalize is held for a redelivery.                                      *)
FinalityAgrees ==
  Running /\ event = None /\ held = None => anchor = durable

(* With hash-carrying probes nothing is finalized that the Portal has not    *)
(* finalized: no fork is ever persisted as final.                          *)
FinalizedCanonical == durable \in Ancestry[final]

(* Each block ponder holds has exactly the matching logs of the children     *)
(* created at or below it on its own fork: none lost to the server filter    *)
(* the block was streamed under, and no phantom of a reorged creation.      *)
LogsExpected(b) ==
  {c \in ChildLogs[b] : \E a \in Ancestry[b] : c \in Creates[a]}

LogsComplete ==
  \A i \in 1..Len(feed) : feed[i].logs = LogsExpected(feed[i].block)

(* The hash-linked feed of RealtimeFeed is what ponder gets.               *)
Feed == INSTANCE RealtimeFeed WITH
          base <- durable, chain <- FeedChain
FeedSpec == Feed!FeedSpec

(* An unknown parent ends the process only for a block that is not canonical *)
(* or when finality has left the local chain: a reorg deeper than the        *)
(* window.                                                                 *)
GapMeansFork ==
  [][Running /\ status' = "gap" =>
       \/ item.block \notin Canonical
       \/ final \notin Ancestry[Tip(window, anchor)]]_vars

-----------------------------------------------------------------------------
(* Fairness.  The three generators and their timers keep running (WF); the   *)
(* Portal answers in the end: a request is opened, refused with a 409, or    *)
(* with the 4xx that names a missing field; the canonical chain is delivered, *)
(* and a poll gets the finalized head, each however often it was a tick      *)
(* instead (SF).  It need not ever refuse a request it could serve.          *)
DropField == Rejected /\ dropped' # dropped
DeliverCanonical == Deliver /\ item'.block \in Canonical
PollFinal ==
  Poll([number |-> Height[final], hash |-> IF HashProbes THEN final ELSE None])

Fairness ==
  /\ WF_vars(Evicted) /\ WF_vars(Resume)
  /\ WF_vars(OnItem) /\ WF_vars(AppendBlock) /\ WF_vars(OnEvent) /\ WF_vars(Drain)
  /\ WF_vars(Watchdog) /\ WF_vars(Heartbeat \/ NoData) /\ WF_vars(Skip \/ PollAny)
  /\ SF_vars(Open) /\ SF_vars(DropField) /\ SF_vars(Conflict) /\ SF_vars(Unserved)
  /\ SF_vars(DeliverCanonical) /\ SF_vars(PollFinal)

FairSpec == Spec /\ Fairness

(* The Portal comes to rest: from some time on it serves no block of a lost  *)
(* fork any more (the bounds already stop its head from changing).         *)
PortalSettles == <>[][Deliver => item'.block \in Canonical]_vars

(* Once the Portal has come to rest, the process has stopped for good or      *)
(* ponder holds the Portal's head: no negotiation, reopen or redelivery goes  *)
(* round in circles or stalls in silence.                                  *)
CatchesUp ==
  PortalSettles => <>[](Running => head \in FeedBlocks \cup Ancestry[durable])

(* And everything final is durable: no deferred or held finalize is lost.   *)
FinalityCatchesUp == PortalSettles => <>[](Running => durable = final)

(* A suppressed block is served again, reorged away, or fatal.             *)
RedeliveryEnds == awaiting # None ~> awaiting = None \/ ~Running
=============================================================================
