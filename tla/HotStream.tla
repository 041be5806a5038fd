----------------------------- MODULE HotStream ------------------------------
(***************************************************************************)
(* streamHotBlocks: the /stream follower.  It keeps a cursor and a ring of  *)
(* delivered hashes, opens the stream with the hash below its cursor,       *)
(* negotiates a 409, and yields one item at a time: a block or a tick.      *)
(*                                                                         *)
(* It is a generator: while an item is out (item # None) or `busy`, its     *)
(* consumer has not asked for the next one and it stands still.  The        *)
(* caller's callbacks are parameters: lo is getFinalizedFloor(), and the     *)
(* filter is what the request body asks for.                                *)
(***************************************************************************)
EXTENDS PortalServer

CONSTANTS
  RingCap,       \* RING_CAP
  MaxStrikes,    \* MAX_CONSECUTIVE_409
  Missing,       \* DROPPABLE_FIELDS of the projections this dataset lacks
  Refuses        \* the Portal may refuse the query for another reason

ASSUME HotStreamAssumption ==
  /\ RingCap \in Nat \ {0}
  /\ MaxStrikes \in Nat
  /\ Refuses \in BOOLEAN

VARIABLES
  cursor,    \* next block number to ask for
  ring,      \* height -> last delivered block, a partial function
  strikes,   \* consecutive 409 rounds that did not lower the cursor
  dropped,   \* fields removed from the projection
  conn,      \* None, or the open connection
  item       \* the item yielded and not yet taken

hotVars == <<cursor, ring, strikes, dropped, conn, item>>

Tick == [kind |-> "tick"]
Batch(b, logs) == [kind |-> "block", block |-> b, logs |-> logs]

Batches == {Batch(b, logs) : b \in Block, logs \in SUBSET Child}
Item == {None, Tick} \cup Batches

(* last: the block served last (at first, the resume parent).  stale: the   *)
(* logs filter was rebuilt since the connection opened.  reading: FALSE      *)
(* while the consumer is still holding the block just yielded.              *)
Connection == [last : Block, filter : SUBSET Child, reading : BOOLEAN]

ASSUME NoItemAssumption == None # Tick /\ None \notin Batches /\ None \notin Connection

HotTypeOK ==
  /\ cursor \in Nat
  /\ DOMAIN ring \subseteq {Height[b] : b \in Block}
  /\ \A h \in DOMAIN ring : ring[h] \in Block /\ Height[ring[h]] = h
  /\ strikes \in 0..MaxStrikes
  /\ dropped \subseteq Missing
  /\ conn \in {None} \cup Connection
  /\ item \in Item

HotInit(anchor) ==
  /\ cursor = Height[anchor] + 1
  /\ ring = [h \in {Height[anchor]} |-> anchor]
  /\ strikes = 0
  /\ dropped = {}
  /\ conn = None
  /\ item = None

-----------------------------------------------------------------------------
(* The n largest members of a set of heights.                              *)
Newest(S, n) == {h \in S : Cardinality({k \in S : k > h}) < n}

(* Mutant: the floor itself is pruned too.                                 *)
PrunedAbove(r, lo) ==
  LET kept == Newest({h \in DOMAIN r : h > lo}, RingCap)
  IN  [h \in kept |-> r[h]]

Pruned(r, lo) ==
  LET kept == Newest({h \in DOMAIN r : h >= lo}, RingCap)
  IN  [h \in kept |-> r[h]]

(* Mutant: the hash is filed under the cursor it moves to.                 *)
DeliveredAtCursor(r, b, lo) ==
  Pruned([h \in DOMAIN r \cup {Height[b] + 1} |->
            IF h = Height[b] + 1 THEN b ELSE r[h]], lo)

Delivered(r, b, lo) ==
  Pruned([h \in DOMAIN r \cup {Height[b]} |->
            IF h = Height[b] THEN b ELSE r[h]], lo)

ResumeParent == IF cursor - 1 \in DOMAIN ring THEN ring[cursor - 1] ELSE None

Requesting == Running /\ item = None /\ conn = None

(* Loop top: the ring has no entry for the resume parent.                  *)
HotEvicted ==
  /\ Requesting
  /\ ResumeParent = None
  /\ Fatal("evicted")
  /\ UNCHANGED hotVars

(* Fetch throw, 204, 429, 5xx, or a 200 without a body: a tick, then retry. *)
HotNoData ==
  /\ Requesting
  /\ ResumeParent # None
  /\ item' = Tick
  /\ strikes' \in {strikes, 0}    \* a bodyless 200 clears the streak
  /\ UNCHANGED <<cursor, ring, dropped, conn, status>>

(* Any other 4xx: drop the droppable field it names and retry at once, else *)
(* fatal.                                                                  *)
HotRejected ==
  /\ Requesting
  /\ ResumeParent # None
  /\ \/ /\ \E f \in Missing \ dropped : dropped' = dropped \cup {f}
        /\ UNCHANGED status
     \/ /\ Refuses
        /\ Fatal("rejected")
        /\ UNCHANGED dropped
  /\ UNCHANGED <<cursor, ring, strikes, conn, item>>

(* 409 with the canonical sample prev: rewind to the highest entry the ring *)
(* confirms, else step down one block, never past the floor lo.             *)
Negotiate(prev, lo) ==
  LET confirmed == {b \in prev : /\ Height[b] >= lo
                                 /\ Height[b] \in DOMAIN ring
                                 /\ ring[Height[b]] = b}
      target == IF confirmed = {} THEN cursor - 1
                ELSE Height[Highest(confirmed)] + 1
      missed == IF target < cursor THEN 0 ELSE strikes + 1
  IN  \/ /\ confirmed = {}
         /\ \/ \E b \in prev : Height[b] < lo
            \/ cursor - 1 <= lo
         /\ Fatal("belowFloor")
         /\ UNCHANGED hotVars
      \/ /\ \/ confirmed # {}
            \/ cursor - 1 > lo /\ \A b \in prev : Height[b] >= lo
         /\ cursor' = target
         /\ IF missed > MaxStrikes
            THEN Fatal("oscillation") /\ UNCHANGED strikes
            ELSE strikes' = missed /\ UNCHANGED status
         /\ UNCHANGED <<ring, dropped, conn, item>>

HotConflict(lo) ==
  /\ Requesting
  /\ ResumeParent # None
  /\ Conflicts(ResumeParent)
  /\ \E prev \in PreviousBlocks(cursor) : Negotiate(prev, lo)

(* 200 with a body.                                                        *)
HotOpen(filter) ==
  /\ Requesting
  /\ ResumeParent # None
  /\ ResumeParent \in Canonical
  /\ Missing \subseteq dropped
  /\ conn' = [last |-> ResumeParent, filter |-> filter, reading |-> TRUE]
  /\ strikes' = 0
  /\ UNCHANGED <<cursor, ring, dropped, item, status>>

-----------------------------------------------------------------------------
Reading == Running /\ item = None /\ conn # None /\ conn.reading

(* One NDJSON line: recorded in the ring, the cursor moved past it, and     *)
(* yielded with the logs the connection's filter lets through.             *)
HotDeliver(lo) ==
  /\ Reading
  /\ \E b \in NextServed(conn.last) :
       /\ ring' = Delivered(ring, b, lo)
       /\ cursor' = Height[b] + 1
       /\ item' = Batch(b, ChildLogs[b] \cap conn.filter)
       /\ conn' = [conn EXCEPT !.last = b, !.reading = FALSE]
  /\ UNCHANGED <<strikes, dropped, status>>

(* Silence on an open connection: a heartbeat tick, the read stays pending. *)
HotHeartbeat ==
  /\ Reading
  /\ item' = Tick
  /\ UNCHANGED <<cursor, ring, strikes, dropped, conn, status>>

(* The stream ends, is cut, or idles out: tick and reconnect from cursor.   *)
HotCut ==
  /\ Reading
  /\ conn' = None
  /\ item' = Tick
  /\ UNCHANGED <<cursor, ring, strikes, dropped, status>>

(* The consumer is back for more after a block.  If the filter was widened  *)
(* meanwhile (stale), reopen from that same block; else keep reading.       *)
HotResume(stale) ==
  /\ Running
  /\ item = None
  /\ conn # None
  /\ ~conn.reading
  /\ IF stale
     THEN conn' = None /\ cursor' = cursor - 1
     ELSE conn' = [conn EXCEPT !.reading = TRUE] /\ UNCHANGED cursor
  /\ UNCHANGED <<ring, strikes, dropped, item, status>>
=============================================================================
