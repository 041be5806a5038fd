------------------------------ MODULE ChunkCache ------------------------------
(***************************************************************************)
(* The cache of chunks of portal.ts: what each entry covers, the jobs chained *)
(* behind its promise, and the discovery each job awaits before it streams.   *)
(* (PortalFetch has the rows and the requests of the same streams.)           *)
(*                                                                         *)
(* An entry's jobs are the stream that opened it, then extensions and prefix  *)
(* repairs.  Its k-th promise resolves when done >= k.  at says where the      *)
(* first job stands:                                                       *)
(*   "settled"      no job, or one about to call discovery.ensure             *)
(*   "discovering"  awaiting it       "streaming"  runStreams is under way     *)
(*   "failed"       rejected, and every job behind it                        *)
(* Only addresses distinguish logs: each child emits one in each block, born   *)
(* or not, so that any gap in the coverage or in the filter shows.            *)
(***************************************************************************)
EXTENDS Discovery

CONSTANTS
  Interval,    \* whoever awaits promises: the intervals, 1..n
  MaxEntries   \* bound: entries cached, streaming or awaited at a time

ASSUME CacheAssumption == Interval \subseteq Nat /\ MaxEntries \in Nat \ {0}

VARIABLES
  cache,        \* dataCache: chunk -> entry, or NoId
  entry,        \* the entries
  fetchQuantum, \* fetchQuantum
  awaited,      \* interval -> the promises it awaits
  portalHead,   \* portalHead, -1 while unknown
  final         \* external: the Portal's finalized head

Entry == 1..MaxEntries
NoId == 0
NoEntry == [at |-> "free", idx |-> 0, from |-> 0, to |-> 0, jobs |-> <<>>, done |-> 0,
            wait |-> -1, filter |-> {}, data |-> {}]

CacheTypeOK ==
  /\ cache \in [Chunks -> Entry \cup {NoId}]
  /\ \A e \in Entry :
       /\ entry[e].at \in {"free", "settled", "discovering", "streaming", "failed"}
       /\ entry[e].from \in Nat /\ entry[e].to <= LastBlock
       /\ entry[e].filter \subseteq Child /\ entry[e].data \subseteq Blocks \X Child
       /\ entry[e].at \in {"discovering", "streaming"} => entry[e].jobs # <<>>
  /\ \A idx \in Chunks : cache[idx] # NoId => entry[cache[idx]].idx = idx
  /\ fetchQuantum \in 1..ChunkBlocks
  /\ \A i \in Interval : \A p \in awaited[i] : p.entry \in Entry /\ p.job \in Nat \ {0}
  /\ portalHead \in -1..final /\ final \in Blocks

NoChunks == [idx \in Chunks |-> NoId]
NoEntries == [e \in Entry |-> NoEntry]
FirstQuantum == IF Warmup = 0 THEN ChunkBlocks ELSE Smaller(Warmup, ChunkBlocks)

DataEnd == Smaller(LastBlock, portalHead)

(* discoveryEnsureTarget, discoveryReady.                                  *)
EnsureTarget(d, n) == IF n < Floor /\ d.through < Floor THEN Floor ELSE n
Ready(n) == n < Floor \/ disc.through >= n

(* Entries nobody can reach any more are forgotten, unless they still run.    *)
Swept(entries, cached, promises) ==
  [e \in Entry |->
     IF \/ \E idx \in Chunks : cached[idx] = e
        \/ \E i \in Interval : \E p \in promises[i] : p.entry = e
        \/ entries[e].at \in {"discovering", "streaming"}
        \/ entries[e].at = "settled" /\ entries[e].jobs # <<>>
       THEN entries[e] ELSE NoEntry]

-----------------------------------------------------------------------------
(* dataChunk.  A state of its own is handed on from one call to the next:      *)
(* [entry, cache, disc, promises, refused, full].                           *)

Asking == [entry |-> entry, cache |-> cache, disc |-> disc,
           promises |-> {}, refused |-> FALSE, full |-> FALSE]

Promised(s, e) ==
  [s EXCEPT !.promises = @ \cup {[entry |-> e,
                                  job |-> s.entry[e].done + Len(s.entry[e].jobs)]}]

Chained(s, e, from, to, hint) ==
  [s EXCEPT !.entry[e].jobs = Append(@, [from |-> from, to |-> to, hint |-> hint])]

(* full: the bound on entries is hit.                                      *)
Opened(s, idx, bounds, hint) ==
  LET free == {f \in Entry : s.entry[f] = NoEntry}
      e == CHOOSE f \in free : \A g \in free : f <= g
      d == Ensured(s.disc, EnsureTarget(s.disc, bounds.to), hint)
      opened == [NoEntry EXCEPT !.at = "discovering", !.idx = idx,
                   !.from = bounds.from, !.to = bounds.to, !.wait = d.through]
  IN  IF free = {}
      THEN [s EXCEPT !.full = TRUE]
      ELSE Promised(Chained([s EXCEPT !.disc = d, !.cache[idx] = e, !.entry[e] = opened],
                            e, bounds.from, bounds.to, hint), e)

(* The missing low end of what an entry covers, if the need overlaps it.      *)
Repaired(s, e, need) ==
  LET from == s.entry[e].from
  IN  IF need # NoNeed /\ need.from < from /\ need.to >= from
        THEN Chained([s EXCEPT !.entry[e].from = need.from],
                     e, need.from, from - 1, DataEnd)
        ELSE s

(* Mutant: the entry is served as if it covered its chunk.                   *)
ExtendedNever(s, e, needTo, desiredTo) == s

(* Mutant: the extension begins a block late.                               *)
ExtendedPastSeam(s, e, needTo, desiredTo) ==
  LET to == s.entry[e].to
      extendTo == Smaller(desiredTo, Larger(needTo, to + fetchQuantum))
  IN  IF needTo <= to
        THEN s
        ELSE Chained([s EXCEPT !.entry[e].to = extendTo], e, to + 2, extendTo, DataEnd)

(* Past what it covers: to what is needed, or a quantum further.            *)
Extended(s, e, needTo, desiredTo) ==
  LET to == s.entry[e].to
      extendTo == Smaller(desiredTo, Larger(needTo, to + fetchQuantum))
  IN  IF needTo <= to
        THEN s
        ELSE Chained([s EXCEPT !.entry[e].to = extendTo], e, to + 1, extendTo, DataEnd)

DataChunk(s, idx, need) ==
  LET activeNeed == IF Warmup = 0 THEN NoNeed ELSE need
      desiredTo == GridTo(idx, DataEnd)
      needTo == IF activeNeed = NoNeed THEN desiredTo ELSE activeNeed.to
      e == s.cache[idx]
      repaired == Repaired(s, e, activeNeed)
  IN  IF e = NoId
        THEN Opened(s, idx, FetchBounds(idx, DataEnd, activeNeed, fetchQuantum), DataEnd)
      ELSE IF activeNeed # NoNeed /\ activeNeed.from < repaired.entry[e].from
        THEN [s EXCEPT !.refused = TRUE]   \* INV-19
      ELSE Promised(Extended(repaired, e, needTo, desiredTo), e)

(* The chunks are asked for in order: needs maps each to what is needed of it. *)
(* (Binding t and the result to variables makes TLC evaluate each once.)      *)
Asked(t, needs, idx) ==
  CHOOSE u \in {IF s.refused \/ s.full \/ idx \notin DOMAIN needs
                  THEN s ELSE DataChunk(s, idx, needs[idx]) : s \in {t}} : TRUE
AskAll(s, needs) ==
  LET asked[k \in 0..(IdxOf(LastBlock) + 1)] ==
        IF k = 0 THEN s ELSE Asked(asked[k - 1], needs, k - 1)
  IN  asked[IdxOf(LastBlock) + 1]

ChunksOf(lo, hi) == IdxOf(lo)..IdxOf(hi)
NeedsOf(lo, hi) ==
  [idx \in ChunksOf(lo, hi) |->
     [from |-> Larger(lo, idx * ChunkBlocks),
      to   |-> Smaller(hi, idx * ChunkBlocks + ChunkBlocks - 1)]]

AskRange(s, lo, hi) == AskAll(s, NeedsOf(lo, hi))
ReadAhead(s, idxs) == AskAll(s, [idx \in idxs |-> NoNeed])

EvictedBehind(cached, n) ==
  LET gone == EvictionPlan({idx \in Chunks : cached[idx] # NoId}, n)
  IN  [idx \in Chunks |-> IF idx \in gone THEN NoId ELSE cached[idx]]

-----------------------------------------------------------------------------
(* The promise chains.                                                    *)

(* A chained job is reached: `await prev' is over.                          *)
Resumes(e) ==
  LET job == Head(entry[e].jobs)
      d == Ensured(disc, EnsureTarget(disc, job.to), job.hint)
  IN  /\ entry[e].at = "settled" /\ entry[e].jobs # <<>>
      /\ disc' = d
      /\ entry' = [entry EXCEPT ![e].at = "discovering", ![e].wait = d.through]
      /\ UNCHANGED <<known, queue, cache, fetchQuantum>>

(* Mutant: a rejected promise stays in the cache.                            *)
RejectedInPlace(broken) ==
  /\ entry' = [e \in Entry |-> IF e \in broken
                                 THEN [entry[e] EXCEPT !.at = "failed"] ELSE entry[e]]
  /\ UNCHANGED cache

(* Rejected entries leave the cache, if they are still the ones in it.       *)
Rejected(broken) ==
  LET cached == [idx \in Chunks |-> IF cache[idx] \in broken THEN NoId ELSE cache[idx]]
      entries == [e \in Entry |->
                    IF e \in broken
                      THEN [entry[e] EXCEPT !.at = "failed", !.jobs = <<>>] ELSE entry[e]]
  IN  /\ cache' = cached
      /\ entry' = Swept(entries, cached, awaited)

(* Discovery has got as far as was asked: the stream begins, with the         *)
(* children known by now.  Should the watermark not reach, INV-3 is thrown.   *)
Streams(e) ==
  /\ entry[e].at = "discovering" /\ disc.confirmed >= entry[e].wait
  /\ IF Ready(Head(entry[e].jobs).to)
       THEN /\ entry' = [entry EXCEPT ![e].at = "streaming", ![e].filter = Live]
            /\ UNCHANGED cache
       ELSE Rejected({e})
  /\ UNCHANGED <<disc, known, queue, fetchQuantum>>

(* Mutant: growFetchQuantum without its cap.                               *)
GrownFreely == 2 * fetchQuantum

(* growFetchQuantum.                                                      *)
Grown == IF Warmup = 0 THEN fetchQuantum ELSE Smaller(2 * fetchQuantum, ChunkBlocks)

StreamEnds(e) ==
  LET job == Head(entry[e].jobs)
      streamed == [entry EXCEPT ![e].at = "settled", ![e].jobs = Tail(@),
                     ![e].done = @ + 1, ![e].filter = {}, ![e].wait = -1,
                     ![e].data = @ \cup ((job.from..job.to) \X entry[e].filter)]
  IN  /\ entry[e].at = "streaming"
      /\ job.to <= final
      /\ entry' = Swept(streamed, cache, awaited)
      /\ fetchQuantum' = Grown
      /\ UNCHANGED <<disc, known, queue, cache>>

StreamFails(e) ==
  /\ entry[e].at = "streaming"
  /\ Rejected({e})
  /\ UNCHANGED <<disc, known, queue, fetchQuantum>>

Scan(n) == (ScanFinds(n) \/ StrayFinds(n)) /\ UNCHANGED <<cache, entry, fetchQuantum>>

(* The scan covers its windows; the Portal serves none past its head.        *)
ScanEnds ==
  /\ disc.scans # <<>>
  /\ Head(disc.scans).left = {} /\ Head(disc.scans).to <= final
  /\ disc' = Confirmed(disc)
  /\ UNCHANGED <<known, queue, cache, entry, fetchQuantum>>

(* A window fails, found children stay; all that await the scan, or one      *)
(* chained behind it, are rejected in the same run of the microtask queue.    *)
ScanFails ==
  /\ disc.scans # <<>>
  /\ \E window \in Windows(Head(disc.scans).from, Head(disc.scans).to) :
       disc' = RolledBack(disc, window)
  /\ Rejected({e \in Entry : entry[e].at = "discovering" /\ entry[e].wait > disc'.through})
  /\ UNCHANGED <<known, queue, fetchQuantum>>

(* What an interval awaits has come, or something of it has been rejected.     *)
Served(i) == \A p \in awaited[i] : entry[p.entry].done >= p.job
Refused(i) == \E p \in awaited[i] : /\ entry[p.entry].at = "failed"
                                    /\ entry[p.entry].done < p.job

(* assembleRange: the logs of the interval, of children by then created.      *)
Assembled(i, lo, hi) ==
  {log \in UNION {entry[p.entry].data : p \in awaited[i]} :
     log[1] \in lo..hi /\ known[log[2]] <= log[1]}
=============================================================================
