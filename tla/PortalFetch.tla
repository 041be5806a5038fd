----------------------------- MODULE PortalFetch -----------------------------
(***************************************************************************)
(* Historical chunk fetches over the shared gate: the retrying streams of    *)
(* portal-client.ts, and the row tokens by which portal.ts accounts for what *)
(* each cached chunk keeps in memory.                                      *)
(*                                                                         *)
(* A Fetch is one cache entry of dataCache with its token: the first stream  *)
(* of its chunk and the extensions chained behind it.  (The sources of a      *)
(* chunk, and their shards, are streamed one after another: here they are     *)
(* one stream over all their blocks.)  An entry evicted in                   *)
(* mid-flight streams on, while another may take its place in the cache.     *)
(* at is where its current stream stands:                                  *)
(*   "ready"     about to call fetchBatch                                   *)
(*   "waiting"   in gate.acquire          "fetching"  holding a slot          *)
(*   "backoff"   asleep before a retry    "received"  has a batch in hand, or  *)
(*                                                   nothing left to get     *)
(*   "settled"   its promise resolved     "failed"    its promise rejected    *)
(***************************************************************************)
EXTENDS Gate, FiniteSets

CONSTANTS
  Chunk,        \* chunk indices, of every chain
  None,         \* no entry
  MaxRetries,   \* MAX_TRANSIENT_RETRIES
  Columns,      \* fields a schema error can make a stream drop
  MaxSpan,      \* bound: blocks a fetch or an extension streams
  BatchRows,    \* rows a batch may carry
  MaxChained,   \* bound: extensions chained behind a running stream
  MaxHeld       \* bound: rows an entry may hold and still be extended

Fetch == Request

ASSUME FetchAssumption ==
  /\ None \notin Fetch
  /\ MaxRetries \in Nat /\ Columns \in Nat /\ MaxChained \in Nat /\ MaxHeld \in Nat
  /\ MaxSpan \in Nat \ {0}
  /\ BatchRows \subseteq Nat

VARIABLES
  cache,     \* dataCache: chunk -> its entry
  at,        \* where each fetch stands
  left,      \* blocks its current stream has yet to cover
  attempt,   \* transient failures of the current batch
  drops,     \* fields dropped by the current stream
  batch,     \* rows of the batch in hand
  chained,   \* extensions to come; once failed, the rejections to handle
  held,      \* token.rows
  freed      \* token.freed

streamVars == <<left, attempt, drops>>
tokenVars == <<held, freed>>
vars == <<gateVars, cache, at, streamVars, batch, chained, tokenVars>>

Places == {"unused", "ready", "waiting", "fetching", "backoff", "received",
           "settled", "failed"}

FetchTypeOK ==
  /\ cache \in [Chunk -> Fetch \cup {None}]
  /\ at \in [Fetch -> Places]
  /\ left \in [Fetch -> 0..MaxSpan]
  /\ attempt \in [Fetch -> 0..MaxRetries]
  /\ drops \in [Fetch -> 0..Columns]
  /\ batch \in [Fetch -> Nat]
  /\ chained \in [Fetch -> Nat]
  /\ held \in [Fetch -> Nat]
  /\ freed \in [Fetch -> BOOLEAN]

TypeOK == GateTypeOK /\ FetchTypeOK

Init ==
  /\ GateInit
  /\ cache = [i \in Chunk |-> None]
  /\ at = [f \in Fetch |-> "unused"]
  /\ left = [f \in Fetch |-> 0]
  /\ attempt = [f \in Fetch |-> 0]
  /\ drops = [f \in Fetch |-> 0]
  /\ batch = [f \in Fetch |-> 0]
  /\ chained = [f \in Fetch |-> 0]
  /\ held = [f \in Fetch |-> 0]
  /\ freed = [f \in Fetch |-> TRUE]

Cached(f) == \E i \in Chunk : cache[i] = f
Queued == {waiters[i] : i \in 1..Len(waiters)}
QueuedNext == {waiters'[i] : i \in 1..Len(waiters')}

Goes(f, place) == at' = [at EXCEPT ![f] = place]

(* f gives its slot back and goes on to place; whoever the gate admitted      *)
(* meanwhile fetches.                                                      *)
LeavesGate(f, place) ==
  at' = [g \in Fetch |->
           IF g = f THEN place
           ELSE IF g \in Queued \ QueuedNext THEN "fetching" ELSE at[g]]

StreamStarts(f) ==
  /\ \E n \in 1..MaxSpan : left' = [left EXCEPT ![f] = n]
  /\ attempt' = [attempt EXCEPT ![f] = 0]
  /\ drops' = [drops EXCEPT ![f] = 0]

StreamEnds(f) ==
  /\ left' = [left EXCEPT ![f] = 0]
  /\ attempt' = [attempt EXCEPT ![f] = 0]
  /\ drops' = [drops EXCEPT ![f] = 0]

-----------------------------------------------------------------------------
(* dataChunk on a chunk that is not cached.  (An entry nothing refers to any  *)
(* more is used again.)                                                    *)
Open(i, f) ==
  /\ cache[i] = None
  /\ ~Cached(f)
  /\ at[f] \in {"unused", "settled", "failed"} /\ chained[f] = 0 /\ freed[f]
  /\ cache' = [cache EXCEPT ![i] = f]
  /\ Goes(f, "ready")
  /\ StreamStarts(f)
  /\ held' = [held EXCEPT ![f] = 0]
  /\ freed' = [freed EXCEPT ![f] = FALSE]
  /\ UNCHANGED <<gateVars, batch, chained>>

(* dataChunk on a cached chunk that covers too little: its tail, or its       *)
(* missing prefix, is streamed once what it already has in flight is done.   *)
Extend(f) ==
  /\ Cached(f)
  /\ held[f] < MaxHeld
  /\ IF at[f] = "settled"
     THEN Goes(f, "ready") /\ StreamStarts(f) /\ UNCHANGED chained
     ELSE /\ chained[f] < MaxChained
          /\ chained' = [chained EXCEPT ![f] = @ + 1]
          /\ UNCHANGED <<at, streamVars>>
  /\ UNCHANGED <<gateVars, cache, batch, tokenVars>>

(* Mutant: rows are given back on every call.                              *)
FreeTokenAgain(f) == FreeRows(held[f]) /\ freed' = [freed EXCEPT ![f] = TRUE]

(* freeToken: the rows are given back, once.                               *)
FreeToken(f) ==
  IF freed[f]
  THEN UNCHANGED <<rows, freed>>
  ELSE FreeRows(held[f]) /\ freed' = [freed EXCEPT ![f] = TRUE]

(* evictBehind, or a reset of the chunk grid.                              *)
Evict(i) ==
  /\ cache[i] # None
  /\ cache' = [cache EXCEPT ![i] = None]
  /\ FreeToken(cache[i])
  /\ UNCHANGED <<limit, active, ok, waiters, at, streamVars, batch, chained, held>>

(* The catch of a rejected promise: of the first stream, or of an extension  *)
(* that waited for it.                                                     *)
Reject(f) ==
  /\ at[f] = "failed" /\ chained[f] > 0
  /\ chained' = [chained EXCEPT ![f] = @ - 1]
  /\ cache' = [i \in Chunk |-> IF cache[i] = f THEN None ELSE cache[i]]
  /\ FreeToken(f)
  /\ UNCHANGED <<limit, active, ok, waiters, at, streamVars, batch, held>>

-----------------------------------------------------------------------------
(* fetchBatch.                                                             *)
Ask(f) ==
  /\ at[f] = "ready"
  /\ Acquire(f)
  /\ Goes(f, IF f \in QueuedNext THEN "waiting" ELSE "fetching")
  /\ UNCHANGED <<cache, streamVars, batch, chained, tokenVars>>

(* A 200 with at least one block.                                          *)
Clean(f) ==
  /\ at[f] = "fetching"
  /\ OkAndRelease
  /\ LeavesGate(f, "received")
  /\ \E n \in BatchRows : batch' = [batch EXCEPT ![f] = n]
  /\ \E n \in 0..(left[f] - 1) : left' = [left EXCEPT ![f] = n]
  /\ attempt' = [attempt EXCEPT ![f] = 0]
  /\ UNCHANGED <<cache, drops, chained, tokenVars>>

(* A failed stream rejects its promise and those chained behind it.         *)
StreamFails(f) ==
  /\ StreamEnds(f)
  /\ chained' = [chained EXCEPT ![f] = @ + 1]

(* 204, 409, 429, 5xx, a network error, a timeout, a truncated body: back off *)
(* and retry from the same cursor, within the retry budget.                 *)
Congested(f) ==
  /\ at[f] = "fetching"
  /\ ThrottleAndRelease
  /\ IF attempt[f] < MaxRetries
     THEN /\ LeavesGate(f, "backoff")
          /\ attempt' = [attempt EXCEPT ![f] = @ + 1]
          /\ UNCHANGED <<left, drops, chained>>
     ELSE LeavesGate(f, "failed") /\ StreamFails(f)
  /\ UNCHANGED <<cache, batch, tokenVars>>

(* Any other 4xx: the dataset lacks a field (dropped) or begins later        *)
(* (skipped), and the batch is asked for again at once; it begins after the  *)
(* whole range, and the stream is over; or the answer is fatal.             *)
Refused(f) ==
  /\ at[f] = "fetching"
  /\ JustRelease
  /\ \/ /\ drops[f] < Columns
        /\ LeavesGate(f, "ready")
        /\ drops' = [drops EXCEPT ![f] = @ + 1]
        /\ UNCHANGED <<left, attempt, chained>>
     \/ /\ LeavesGate(f, "ready")
        /\ \E n \in 1..(left[f] - 1) : left' = [left EXCEPT ![f] = n]
        /\ UNCHANGED <<attempt, drops, chained>>
     \/ /\ LeavesGate(f, "received")
        /\ left' = [left EXCEPT ![f] = 0]
        /\ UNCHANGED <<attempt, drops, chained>>
     \/ /\ LeavesGate(f, "failed")
        /\ StreamFails(f)
  /\ UNCHANGED <<cache, batch, tokenVars>>

WakeUp(f) ==
  /\ at[f] = "backoff"
  /\ Goes(f, "ready")
  /\ UNCHANGED <<gateVars, cache, streamVars, batch, chained, tokenVars>>

(* onRows and the yield; then the next batch, the next chained extension, or  *)
(* the end: resolved, or failed on a needed field the dataset lacks.        *)
Consume(f) ==
  /\ at[f] = "received"
  /\ batch' = [batch EXCEPT ![f] = 0]
  /\ IF freed[f]
     THEN UNCHANGED <<rows, held>>
     ELSE AddRows(batch[f]) /\ held' = [held EXCEPT ![f] = @ + batch[f]]
  /\ \/ /\ left[f] > 0
        /\ Goes(f, "ready")
        /\ UNCHANGED <<streamVars, chained>>
     \/ /\ left[f] = 0 /\ chained[f] = 0
        /\ Goes(f, "settled")
        /\ StreamEnds(f)
        /\ UNCHANGED chained
     \/ /\ left[f] = 0 /\ chained[f] > 0
        /\ Goes(f, "ready")
        /\ StreamStarts(f)
        /\ chained' = [chained EXCEPT ![f] = @ - 1]
     \/ /\ left[f] = 0 /\ drops[f] > 0
        /\ Goes(f, "failed")
        /\ StreamFails(f)
  /\ UNCHANGED <<limit, active, ok, waiters, cache, freed>>

Dispatch == \/ \E i \in Chunk, f \in Fetch : Open(i, f)
            \/ \E f \in Fetch : Extend(f)
            \/ \E i \in Chunk : Evict(i)

Next == \/ Dispatch
        \/ \E f \in Fetch : \/ Reject(f) \/ Ask(f) \/ Clean(f) \/ Congested(f)
                            \/ Refused(f) \/ WakeUp(f) \/ Consume(f)

(* Requests end (connect and body-idle timeouts), sleepers wake, and the      *)
(* event loop runs what is ready.                                          *)
Fairness ==
  \A f \in Fetch : WF_vars(\/ Clean(f) \/ Congested(f) \/ Refused(f)
                           \/ Ask(f) \/ WakeUp(f) \/ Consume(f))

Spec == Init /\ [][Next]_vars /\ Fairness

-----------------------------------------------------------------------------
(* No slot is lost or counted twice on any way out of a request (INV-8).     *)
SlotsMatch == active = Cardinality({f \in Fetch : at[f] = "fetching"})

(* A request waits only while the limit is used up (INV-8).                 *)
WorkConserving == waiters # <<>> => active >= limit

(* A slot is granted only below the limit of that moment, and nobody is       *)
(* overtaken in the queue (INV-8).                                         *)
AdmitsInOrder ==
  [][\A f \in Queued \ QueuedNext :
       /\ active' <= limit'
       /\ \A i, j \in 1..Len(waiters) :
            waiters[j] = f /\ i < j => waiters[i] \notin QueuedNext]_vars

(* The budget counts exactly the rows of the chunks that are still cached,    *)
(* whatever was evicted, replaced, extended or rejected in whatever order,    *)
(* and gives a chunk's rows back once (INV-7).                             *)
HeldRows(S) == UNION {{f} \X (1..held[f]) : f \in S}
RowsMatch ==
  /\ rows = Cardinality(HeldRows({f \in Fetch : Cached(f)}))
  /\ \A f \in Fetch : ~freed[f] <=> Cached(f)

(* Every request gets its slot: errors, retries and the shrinking limit       *)
(* starve nobody (INV-8).                                                  *)
NoStarvation == \A f \in Fetch : at[f] = "waiting" ~> at[f] = "fetching"
=============================================================================
