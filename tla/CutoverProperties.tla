-------------------------- MODULE CutoverProperties --------------------------
(***************************************************************************)
(* What the boundary and the cutover promise.                               *)
(***************************************************************************)
EXTENDS Cutover

(* No event is indexed twice, however far a replica lags at a restart: a        *)
(* boundary below what is persisted as final would make realtime stream it      *)
(* again, and crash recovery cannot revert it (deriveFinalityFloor, the floor   *)
(* of clampFinalizedToPortalHead).  Left out are the events that a start had    *)
(* another chain's checkpoint at the very time of: see NeverReindexed.        *)
IndexedOnce == \A e \in Events \ tied : indexed[e] <= 1

(* The claim at clampFinalizedToPortalHead in full: with the floor, adopting a   *)
(* stale head never indexes anything again.  The code's floor is strictly below *)
(* the timestamp of another chain's checkpoint, crash recovery keeps what is    *)
(* at it: an event there is streamed and indexed again.                      *)
NeverReindexed == \A e \in Events : indexed[e] <= 1

(* The backfill of a streaming chain never targets past the head that the      *)
(* historical sync goes by, nor does a floor taken from another chain's        *)
(* checkpoint lift it there: the boundary may be above that head only as far    *)
(* as the chain has already been indexed (INV-9, deriveFinalityFloor).        *)
BoundaryServed ==
  stage \notin {"booting", "live"} =>
    \A c \in app.stream :
      final[c] <= AtLeast(IF app.pin[c] = None THEN served[c] ELSE app.pin[c], Resumed(c))

(* The guarded loop is ponder's own, but for a chain it need not probe: it      *)
(* adopts on a round what ponder would, and leaves events parked only where     *)
(* ponder would (INV-18, the two phases of the omnichain cutover).            *)
StageOfLoop ==
  CASE stage \in {"booting", "dead"} -> "down"
    [] stage \in {"drained", "probing", "reprobing"} -> "deciding"
    [] OTHER -> stage

Loop == INSTANCE CutoverLoop
          WITH stage <- StageOfLoop, shared <- Omnichain
LoopSpec == Loop!Spec

(* An app whose chains have all reached their end goes live though no RPC ever  *)
(* answers again (INV-18: zero refetches).                                  *)
FullyBounded ==
  /\ \A c \in Chain : IsEndCappedAtCutover(c)
  /\ \A c, d \in Chain : Time(c, app.end[c]) <= Time(d, final[d])

ReadyWithoutRpc ==
  stage = "draining" /\ parked = {} /\ FullyBounded ~> stage \in {"live", "booting"}
=============================================================================
