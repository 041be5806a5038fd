---------------------------- MODULE RealtimeWire ----------------------------
(***************************************************************************)
(* getPortalRealtimeEventGenerator: the drop-in generator ponder consumes.  *)
(* It discovers factory children, holds back a block until it is redelivered *)
(* under the filter that includes its own new children, holds back a         *)
(* finalize that covers such a block, and prunes children on a reorg.        *)
(* feed and durable are what ponder has made of the events so far.          *)
(***************************************************************************)
EXTENDS RealtimeBase

CONSTANTS
  AddressBudget,  \* addresses a /stream body has room for
  EndBlock        \* the chain's configured end block, or None

ASSUME WireAssumption ==
  /\ AddressBudget \in Nat
  /\ EndBlock = None \/ EndBlock \in Nat

VARIABLES
  awaiting,       \* block suppressed for its redelivery
  held,           \* heldFinalize: a finalize waiting for that redelivery
  draining,       \* the block just forwarded, its held finalize to follow
  lastFinalized,  \* number of the last finalize emitted
  created,        \* childAddresses: [Child -> creation height or None]
  requested,      \* the child addresses in the `logs` request array
  wildcard,       \* wildcardLogKeys is not empty
  stale,          \* logsRevision moved since the connection was opened
  aborted         \* the redelivery watchdog aborted the stream

VARIABLES
  feed,           \* ponder's unfinalized blocks with the logs it indexed
  durable         \* ponder's finalized block, persisted

wireVars == <<awaiting, held, draining, lastFinalized, created, requested,
              wildcard, stale, aborted>>
ponderVars == <<feed, durable>>

FeedBlocks == {feed[i].block : i \in 1..Len(feed)}

Live(map) == {c \in Child : map[c] # None}
LiveAt(map, n) == {c \in Live(map) : map[c] <= n}

(* The children known after a backfill up to b, with their first height.    *)
Backfilled(b) ==
  [c \in Child |->
     LET births == {a \in Ancestry[b] : c \in Creates[a]}
     IN  IF births = {} THEN None
         ELSE Height[CHOOSE a \in births : \A x \in births : Height[a] <= Height[x]]]

WireTypeOK ==
  /\ awaiting \in Block \cup {None}
  /\ held \in Block \cup {None}
  /\ draining \in Block \cup {None}
  /\ draining # None => held # None
  /\ lastFinalized \in Nat
  /\ created \in [Child -> Nat \cup {None}]
  /\ requested \subseteq Child
  /\ wildcard \in BOOLEAN
  /\ stale \in BOOLEAN
  /\ aborted \in BOOLEAN
  /\ feed \in Seq([block : Block, logs : SUBSET Child])
  /\ durable \in Block

WireInit(start) ==
  /\ awaiting = None
  /\ held = None
  /\ draining = None
  /\ lastFinalized = Height[start]
  /\ created = Backfilled(start)
  /\ requested = Live(created)
  /\ wildcard = FALSE
  /\ stale = FALSE
  /\ aborted = FALSE
  /\ feed = <<>>
  /\ durable = start

-----------------------------------------------------------------------------
(* The request body: over budget, the address filter is replaced by a topic *)
(* wildcard for good, and the wire trims what it is sent.                  *)
OverBudget == Cardinality(requested) > AddressBudget
NowWildcard == wildcard \/ OverBudget

StreamFilter == IF NowWildcard THEN Child ELSE requested

(* Mutant: opening does not record the filter revision it was opened with.  *)
RequestOpenedStale ==
  /\ wildcard' = NowWildcard
  /\ UNCHANGED <<awaiting, held, draining, lastFinalized, created, requested, stale, aborted>>
  /\ UNCHANGED ponderVars

RequestOpened ==
  /\ wildcard' = NowWildcard
  /\ stale' = FALSE
  /\ UNCHANGED <<awaiting, held, draining, lastFinalized, created, requested, aborted>>
  /\ UNCHANGED ponderVars

(* The part of ponder's blocks numbered at most n, and the part above.      *)
FeedChain == [i \in 1..Len(feed) |-> feed[i].block]
KeptTo(n) == SubSeq(feed, 1, LastAtOrBelow(FeedChain, n))
KeptAbove(n) == SubSeq(feed, LastAtOrBelow(FeedChain, n) + 1, Len(feed))

(* Mutant: the first block above the last finalized one does not count.    *)
EmitFinalizeLate(b) ==
  IF Height[b] <= lastFinalized + 1
  THEN UNCHANGED <<lastFinalized, feed, durable>>
  ELSE /\ lastFinalized' = Height[b]
       /\ durable' = b
       /\ feed' = KeptAbove(Height[b])

(* emitFinalize, and ponder on a finalize: everything at or below it is     *)
(* durable and its interval cached.                                        *)
EmitFinalize(b) ==
  IF Height[b] <= lastFinalized
  THEN UNCHANGED <<lastFinalized, feed, durable>>
  ELSE /\ lastFinalized' = Height[b]
       /\ durable' = b
       /\ feed' = KeptAbove(Height[b])

(* Mutant: a finalize of the awaited block itself is let through.          *)
MustHoldAbove(b) == awaiting # None /\ Height[b] > Height[awaiting]

(* A finalize that covers the awaited block waits for it.                   *)
MustHold(b) == awaiting # None /\ Height[b] >= Height[awaiting]

OnFinalize(b) ==
  /\ IF MustHold(b)
     THEN /\ held' = IF held = None \/ Height[b] > Height[held] THEN b ELSE held
          /\ UNCHANGED <<lastFinalized, feed, durable>>
     ELSE EmitFinalize(b) /\ UNCHANGED held
  /\ UNCHANGED <<awaiting, draining, created, requested, wildcard, stale, aborted, status>>

(* Mutant: a child born right above the ancestor is kept.                  *)
BornHighAbove(n) == {c \in Live(created) : created[c] > n + 1}

BornAbove(n) == {c \in Live(created) : created[c] > n}

Lost(reorged) == \E i \in 1..Len(reorged) : reorged[i] = awaiting

(* A reorg: forget an awaited block that is gone, prune children born above *)
(* the ancestor, narrow the filter, and roll ponder back.                  *)
OnReorg(ancestor, reorged) ==
  LET gone == BornAbove(Height[ancestor])
      lost == Lost(reorged)
  IN  /\ awaiting' = IF lost THEN None ELSE awaiting
      /\ held' = IF lost THEN None ELSE held
      /\ created' = [c \in Child |-> IF c \in gone THEN None ELSE created[c]]
      /\ IF gone # {}
         THEN requested' = Live(created') /\ stale' = TRUE
         ELSE UNCHANGED <<requested, stale>>
      /\ feed' = KeptTo(Height[ancestor])
      /\ UNCHANGED <<draining, lastFinalized, wildcard, aborted, durable, status>>

ReachedEnd(b) == EndBlock # None /\ Height[b] >= EndBlock

(* Mutant: the held finalize is forgotten.                                 *)
DrainedNever(b) == None

Drained(b) == IF held # None THEN b ELSE None

(* A block is forwarded.  In wildcard mode its logs are trimmed to the live *)
(* children; either way ponder indexes the logs of the children it knows.   *)
Forward(b, logs) ==
  LET live == LiveAt(created', Height[b])
      sent == IF wildcard THEN logs \cap live ELSE logs
  IN  /\ feed' = Append(feed, [block |-> b, logs |-> sent \cap live])
      /\ awaiting' = None
      /\ draining' = Drained(b)
      /\ status' = IF held = None /\ ReachedEnd(b) THEN "done" ELSE status
      /\ UNCHANGED <<requested, stale>>

(* A block whose new children the request filters by address is suppressed  *)
(* until the stream, reopened from it, delivers it again.                  *)
Suppress(b) ==
  /\ awaiting' = b
  /\ requested' = Live(created')
  /\ stale' = TRUE
  /\ UNCHANGED <<feed, draining, status>>

OnBlock(b, logs) ==
  \/ /\ awaiting # None /\ awaiting # b
     /\ Fatal("skipped")
     /\ UNCHANGED wireVars /\ UNCHANGED ponderVars
  \/ /\ awaiting \in {None, b}
     /\ LET new == Creates[b] \ Live(created)
        IN  /\ created' = [c \in Child |-> IF c \in new THEN Height[b] ELSE created[c]]
            /\ IF new # {} /\ ~wildcard THEN Suppress(b) ELSE Forward(b, logs)
     /\ UNCHANGED <<held, lastFinalized, wildcard, aborted, durable>>

(* The finalize held back for the block just forwarded follows it.         *)
DrainHeld ==
  /\ draining # None
  /\ EmitFinalize(held)
  /\ held' = None
  /\ draining' = None
  /\ status' = IF ReachedEnd(draining) THEN "done" ELSE status
  /\ UNCHANGED <<awaiting, created, requested, wildcard, stale, aborted>>

(* Mutant: the timer is armed only once a finalize is held.                *)
WatchdogFiresOnHeld ==
  /\ awaiting # None /\ held # None
  /\ ~aborted
  /\ aborted' = TRUE
  /\ UNCHANGED <<awaiting, held, draining, lastFinalized, created, requested,
                 wildcard, stale, status>>
  /\ UNCHANGED ponderVars

(* The redelivery never came: the timer aborts the stream.                 *)
WatchdogFires ==
  /\ awaiting # None
  /\ ~aborted
  /\ aborted' = TRUE
  /\ UNCHANGED <<awaiting, held, draining, lastFinalized, created, requested,
                 wildcard, stale, status>>
  /\ UNCHANGED ponderVars
=============================================================================
