--------------------------- MODULE PortalRealtime ---------------------------
(***************************************************************************)
(* The realtime path of portal-ponder, end to end: the Portal, the /stream  *)
(* follower, the event producer and the wire ponder consumes, three async    *)
(* generators that pull from one another, and the process around them,       *)
(* which restarts from ponder's durable state after a fatal.               *)
(***************************************************************************)
EXTENDS HotStream, RealtimeEvents, RealtimeWire

CONSTANT MaxBoots   \* bound: times the process is started again

ASSUME BootAssumption == MaxBoots \in Nat

VARIABLE boots      \* times the process was started again

clientVars == <<hotVars, eventsVars, wireVars>>
vars == <<serverVars, clientVars, ponderVars, status, boots>>

Init ==
  /\ ServerInit
  /\ HotInit(Root)
  /\ EventsInit(Root)
  /\ WireInit(Root)
  /\ status = "running"
  /\ boots = 0

-----------------------------------------------------------------------------
(* A generator runs when the one above it pulls: the follower stands still   *)
(* while an item, an event or a drained finalize is on its way up.          *)
Idle == stage = "pull" /\ event = None /\ draining = None

Floor == Height[anchor]
Server == ServerNext /\ UNCHANGED <<clientVars, ponderVars, status, boots>>
RestUnchanged == UNCHANGED <<serverVars, boots>>
EventsAndWireUnchanged == UNCHANGED <<eventsVars, wireVars, ponderVars>>

(* The loop top and the read loop return once the stream is aborted; only a *)
(* tick may still slip through, from a fetch the abort made throw.          *)
Open ==
  /\ Idle /\ ~aborted /\ RestUnchanged
  /\ HotOpen(StreamFilter)
  /\ RequestOpened
  /\ UNCHANGED eventsVars

Evicted   == Idle /\ ~aborted /\ HotEvicted     /\ EventsAndWireUnchanged /\ RestUnchanged
Rejected  == Idle /\ ~aborted /\ HotRejected    /\ EventsAndWireUnchanged /\ RestUnchanged
Conflict  == Idle /\ ~aborted /\ HotConflict(Floor) /\ EventsAndWireUnchanged /\ RestUnchanged
NoData    == Idle /\ HotNoData                  /\ EventsAndWireUnchanged /\ RestUnchanged
Deliver   == Idle /\ ~aborted /\ HotDeliver(Floor)  /\ EventsAndWireUnchanged /\ RestUnchanged
Heartbeat == Idle /\ ~aborted /\ HotHeartbeat   /\ EventsAndWireUnchanged /\ RestUnchanged
Cut       == Idle /\ ~aborted /\ HotCut         /\ EventsAndWireUnchanged /\ RestUnchanged
Resume    == Idle /\ ~aborted /\ HotResume(stale)   /\ EventsAndWireUnchanged /\ RestUnchanged

(* The aborted follower returns; the wire rethrows the watchdog's error.    *)
Unserved ==
  /\ Running /\ Idle /\ item = None /\ aborted
  /\ Fatal("unserved")
  /\ UNCHANGED <<clientVars, ponderVars>> /\ RestUnchanged

-----------------------------------------------------------------------------
(* The event producer takes the item the follower yielded.                 *)
ItemTaken == item' = None /\ UNCHANGED <<cursor, ring, strikes, dropped, conn>>

OnItem ==
  /\ Running /\ item # None
  /\ IF item.kind = "tick"
     THEN TakeTick
     ELSE TakeBlock(item, awaiting = item.block)
  /\ ItemTaken
  /\ UNCHANGED <<wireVars, ponderVars>> /\ RestUnchanged

AppendBlock ==
  /\ Running /\ draining = None
  /\ AppendAfterReorg
  /\ UNCHANGED <<hotVars, wireVars, ponderVars>> /\ RestUnchanged

(* The finalize cadence at the end of a turn.                              *)
Skip ==
  /\ Running /\ draining = None
  /\ CadenceSkip
  /\ UNCHANGED <<hotVars, wireVars, ponderVars>> /\ RestUnchanged

Poll(fh) ==
  /\ Running /\ draining = None
  /\ CadencePoll(fh)
  /\ UNCHANGED <<hotVars, wireVars, ponderVars>> /\ RestUnchanged

PollAny == \E fh \in FinalizedHeads : Poll(fh)

(* The wire takes the event the producer yielded.                          *)
EventTaken ==
  /\ event' = None
  /\ UNCHANGED <<window, anchor, deferring, baseline, probed, stage, pending>>

OnEvent ==
  /\ Running /\ event # None
  /\ CASE event.type = "block"    -> OnBlock(event.block, event.logs)
       [] event.type = "reorg"    -> OnReorg(event.block, event.reorged)
       [] event.type = "finalize" -> OnFinalize(event.block)
  /\ EventTaken
  /\ UNCHANGED hotVars /\ RestUnchanged

Drain ==
  /\ Running
  /\ DrainHeld
  /\ UNCHANGED <<hotVars, eventsVars>> /\ RestUnchanged

(* A timer, so at any moment of the wait.                                  *)
Watchdog ==
  /\ Running
  /\ WatchdogFires
  /\ UNCHANGED <<hotVars, eventsVars>> /\ RestUnchanged

-----------------------------------------------------------------------------
(* The process is killed at any point.                                     *)
Crash ==
  /\ Running /\ boots < MaxBoots
  /\ Fatal("crashed")
  /\ UNCHANGED <<clientVars, ponderVars>> /\ RestUnchanged

(* Startup: the boundary is the RPC's finalized block, or the probed Portal *)
(* head if lower, but never below what is durable.  Ponder refuses an RPC   *)
(* finalized block that moved backwards.  The unfinalized rows are reverted, *)
(* history is backfilled to the boundary, and the client starts afresh.     *)
Boundary(rpc, probe, floor) ==
  LET portal == IF probe < floor THEN floor ELSE probe
  IN  IF portal >= rpc THEN rpc ELSE portal

Restart ==
  /\ status \in Fatals /\ boots < MaxBoots
  /\ boots' = boots + 1
  /\ \E rpc, probe \in {Height[b] : b \in Ancestry[final]}, start \in Block :
       /\ rpc >= Height[durable]
       /\ start \in Canonical
       /\ Height[start] = Boundary(rpc, probe, Height[durable])
       /\ cursor' = Height[start] + 1
       /\ ring' = [h \in {Height[start]} |-> start]
       /\ anchor' = start
       /\ lastFinalized' = Height[start]
       /\ created' = Backfilled(start)
       /\ requested' = Live(created')
       /\ durable' = start
  /\ strikes' = 0 /\ dropped' = {} /\ conn' = None /\ item' = None
  /\ window' = <<>> /\ deferring' = FALSE /\ baseline' = None /\ probed' = FALSE
  /\ stage' = "pull" /\ pending' = None /\ event' = None
  /\ awaiting' = None /\ held' = None /\ draining' = None
  /\ wildcard' = FALSE /\ stale' = FALSE /\ aborted' = FALSE
  /\ feed' = <<>>
  /\ status' = "running"
  /\ UNCHANGED serverVars

(* The end block was reached, or the last start has failed.                *)
Stopped ==
  /\ status = "done" \/ (status \in Fatals /\ boots = MaxBoots)
  /\ UNCHANGED vars

Follower == Evicted \/ Rejected \/ Conflict \/ NoData \/ Open \/ Deliver
            \/ Heartbeat \/ Cut \/ Resume \/ Unserved
Producer == OnItem \/ AppendBlock \/ Skip \/ PollAny
Wire == OnEvent \/ Drain \/ Watchdog

Next == Server \/ Follower \/ Producer \/ Wire \/ Crash \/ Restart \/ Stopped

Spec == Init /\ [][Next]_vars
=============================================================================
