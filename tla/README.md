# Verification of portal-ponder

portal-ponder makes the indexer [ponder](https://ponder.sh) read its chain data
from an SQD Portal: historical data through chunked range requests
(`src/portal/portal.ts` and the modules it wires together), live data through a
fork-aware stream (`portal-realtime.ts`, `portal-realtime-wire.ts`), the whole
joined to ponder by `src/portal/wiring/0.17.8.patch`. This directory holds TLA+
models of it, the TLC runs that check them on small instances, and proofs,
checked by TLAPS, of what holds for every instance.

Paths below are relative to `src/portal/` unless they begin with `src/`.
`INV-n` is the numbering of `INVARIANTS.md`.

## 1. The system

### Components, their state and their operations

| Component | Source | State it keeps | Operations | Correct when |
|---|---|---|---|---|
| Hot stream | `portal-realtime.ts` 318-755 `streamHotBlocks` | cursor, ring of delivered hashes, 409 strikes, dropped fields, the open connection | open from the hash below the cursor, negotiate a 409, drop a field, yield a block or a tick, reopen under a wider filter, stop on abort | it always knows the parent it resumes from; it gives up only when there is nothing left to try |
| Reconcile core | `portal-realtime.ts` 55-140 | none (pure) | duplicate / append / reorg / gap; split at a finalized number | a reorg names the real common ancestor and exactly the blocks it removes |
| Event producer | `portal-realtime.ts` 923-1274 `portalRealtimeEvents` | unfinalized window, anchor, deferral, delivery baseline | turn items into block, reorg and finalize events; poll the finalized head on a cadence; three watchdogs | INV-10: one hash-linked chain; nothing that lost a fork becomes final; silence is fatal, not for ever |
| Wire into ponder | `portal-realtime-wire.ts` 701-1111 | child map, requested addresses, awaited block, held finalize, last finalized number | discover children, suppress and await a redelivery, hold a finalize, prune on a reorg, trim a wildcard | every block reaches ponder once per fork, complete with the logs of the children born in it, before its finalize |
| Startup boundary | `portal-realtime-wire.ts` 226-405, patch | the checkpoint in a chain's row, the stored blocks, a pinned head | derive the floor of what is durable, clamp ponder's finalized block to the Portal's | INV-9: what is indexed for good is never indexed again, and nothing past the Portal's head is fetched |
| Gate | `portal-gate.ts` | limit, in-flight count, clean streak, queue, buffered rows | acquire, release, onOk, onThrottle, addRows, freeRows | INV-7, INV-8: no slot lost or invented; nobody waits while a slot is free; rows counted once |
| Portal client | `portal-client.ts` | attempt and dropped fields of a running stream | fetchBatch, stream | every way out of a request returns the slot once |
| Chunk cache | `portal.ts` 333-736 | cache of chunk promises with row tokens, coverage bounds, rotation watermark | open, extend, repair a prefix, evict, reject | rows buffered = rows of the cached chunks; a chunk served covers what was asked |
| Interval sync | `portal.ts` 747-1065 | pending children per transaction, stash of intervals | serve a range, flush children, hand over rows | INV-3, INV-15: children and the interval that holds them are committed together, retries included |
| Factory discovery | `portal-discovery.ts` | children, two watermarks, chained scans, pending queue | ensure children up to a block, seed, take and restore pending children | INV-3: the watermark never covers a creation nobody has seen |
| Child insert dedupe | `portal-child-dedupe.ts` | none across calls | insert what the transaction does not yet see | INV-17 |
| Cutover guard | `portal-cutover-guard.ts`, patch (`getHistoricalEventsOmnichain`, `...Multichain`) | the round: chains probed, heads found, phase; parked events | spare the chains that have reached their end, probe in two phases, adopt or go live | INV-18: it adopts and parks as ponder's unguarded loop would, and a bounded app needs no RPC |
| Filters and sharding | `portal-filters.ts` | none (pure); the wildcard keys of a live stream | compile, merge, shard by body size, widen to a wildcard | the shards together ask for what the filters ask for, and each fits |
| Row streams | `portal.ts` 355-541, `portal-client.ts` | what each source was served, missing columns, sources that matched | stream source by source, drop a column, re-match, stop for a gap | no row without a column it needs; a stop only for a row that would be kept |
| Assembly, transforms | `portal-assemble.ts`, `portal-transform.ts` | none | rows to ponder's types; ranks, errors and gas of traces | the rows ponder's own RPC sync would store |
| Configuration, metrics, redaction, freshness | `portal-config.ts`, `portal-metrics.ts`, ... | counters | parse, log | - |
| portal-sync package | `src/packages/portal-sync` | cursor | a stand-alone client | - |

### How they interact

- The realtime path is three async generators that pull from one another:
  ponder pulls the wire, the wire pulls the producer, the producer pulls the hot
  stream. A generator that has yielded stands still until it is pulled again;
  only the Portal, timers and the death of the process run beside it. The wire
  reaches down by callbacks: `getFinalizedFloor()`, the revision of the logs
  filter (which makes the hot stream reopen its connection), `awaiting` (which
  makes the producer pass on a block it already has) and an abort signal.
- The historical path is many promises on one event loop. Chunk streams of all
  chains share the gate, so a slot freed by one admits another.
- The two meet at the finality boundary: what ponder has persisted as final is
  where the next start resumes. Between them stands the cutover: ponder's
  generator drains every chain to its boundary, asks each chain's head again,
  and either drains once more or goes live. The guard decides which chains it asks.

### What is hard

Forks while a connection is being negotiated; a finalized head polled from a
replica that is behind, ahead or on another fork; a child found in the very
block being consumed; a finalize that overtakes a suppressed block; a redelivery
that never comes; restarts between any two of these; a ring, a window and an
anchor that must stay consistent though three parties move them. On the
historical side: many ways out of a request, each of which must return its slot
once; a limit that shrinks under a full queue; cache entries evicted and replaced
while their streams still run; promises that reject in chains; an interval that is
assembled while an extension of its chunk writes to the same maps. Where the two
meet: several chains that end at different times and park events for one another, heads
asked of replicas that lag, a checkpoint that names another chain. PROJECT.json
lists these as hazards, each at its line.

## 2. The models

### Realtime path

`RealtimeBase` (headers as a tree, the process's status) is extended by

- `PortalServer` - external. The canonical chain and its finalized block, and
  what `/stream` and `/finalized-head` may answer, from what the client sends
  and expects: a 409 names canonical blocks below the request, perhaps with
  gaps; an open connection may still carry a block that has just lost; a poll
  may fail or come from a replica that knows an older finalized block.
- `Reconcile` - the pure core, as operators on chains. A block's identity is its
  hash, so comparing hashes is comparing blocks.
- `HotStream` - `streamHotBlocks`. One action per way through its loop:
  `HotEvicted`, `HotNoData` (204, 429, 5xx, network), `HotRejected` (4xx),
  `HotConflict` (409), `HotOpen` (200), `HotDeliver`, `HotHeartbeat`, `HotCut`,
  `HotResume` (the consumer is back after a block).
- `RealtimeEvents` - `portalRealtimeEvents`. `TakeTick`, `TakeBlock` (four
  classes), `AppendAfterReorg`, `CadenceSkip`, `CadencePoll`. `stage` is the
  generator's program counter at its yields.
- `RealtimeWire` - `getPortalRealtimeEventGenerator`: `OnBlock`, `OnReorg`,
  `OnFinalize`, `DrainHeld`, `WatchdogFires`. `feed` and `durable` are what
  ponder has made of the events.
- `PortalRealtime` composes them: `Idle` and the `Running` guards say who may
  run, `Crash` and `Restart` are the process around them. A throw sets `status`
  to the reason; the restart starts from the durable state.
- `RealtimeFeed` - the abstract specification: an unbroken chain on a finalized
  base; blocks are given, rolled back, finalized; a restart never goes back.
- `RealtimeProperties` - invariants, action and liveness properties, and the
  refinement mapping `base <- durable, chain <- FeedChain`.
- `MCRealtime` - the instances.

| Model | Code |
|---|---|
| `cursor`, `ring`, `strikes`, `dropped` | `cursor`, `delivered`, the consecutive 409 counter, `droppedFields` of `streamHotBlocks` |
| `conn` | the open response body; `reading = FALSE` while a block is out |
| `window`, `anchor` | `unfinalized`, `finalized` of `portalRealtimeEvents` |
| `deferring`, `baseline`, `probed` | `deferStreakStart`, `deliveryBaseline`, `firstProbeAdopted` |
| `awaiting`, `held`, `lastFinalized` | the redelivery wait, `heldFinalize`, the last emitted finalize |
| `created`, `requested`, `wildcard`, `stale` | `childAddresses`, the addresses of the logs request, `wildcardLogKeys`, the logs revision against the connection's |
| `status` | which throw, if any, ended the generator |

Abstracted: contents of headers and logs other than what a factory creates and
which child a log belongs to; wall time (a watchdog whose bound has passed may
or may not fire, in any state where its other condition holds); one factory with
one level of children.

### Historical fetches

- `Gate` - the AIMD reducer, the queue and the row counter. `release` follows
  `onOk` or `onThrottle` in the same turn of the event loop, so each pair is one
  action, `pump` included where the code calls it.
- `PortalFetch` - cache entries, their streams and their row tokens over that
  gate. `Open`, `Extend`, `Evict`, `Reject` are the cache; `Ask`, `Clean`,
  `Congested`, `Refused`, `WakeUp`, `Consume` are the stream. An entry that was
  evicted streams on in the background, as in the code. The sources of a chunk
  and their shards are streamed one after another, so they are one stream.
- `MCPortalFetch` - the instance.

### Historical intervals

- `ChunkGrid` - the pure plans of `portal-chunks.ts`: chunk of a block, bounds of
  a first fetch, read-ahead, eviction.
- `Discovery` - `portal-discovery.ts`: `Ensured` starts a scan behind those under
  way, `ScanFinds` is a creation log met by one of its windows, `Confirmed` and
  `RolledBack` are its two ends, `StrayFinds` a window that outlives its failed
  scan, `Seeded` the adoption of a durable frontier.
- `ChunkCache` - `dataChunk` and its promise chains. What `dataChunk` does
  synchronously (`Opened`, `Repaired`, `Extended`, and the discovery scan it
  starts) is one operator on a state that is handed from call to call, since
  `syncBlockRangeData` asks for all its chunks in one turn of the event loop.
  What follows each `await` is an action: `Resumes`, `Streams`, `StreamEnds`,
  `StreamFails`, `Scan`, `ScanEnds`, `ScanFails`. The rejections that follow one
  failure in the same run of the microtask queue are one step.
- `IntervalSync` - `syncBlockRangeData` and `syncBlockData` as ponder's core
  calls them: one action per stretch between awaits. Core (transactions,
  pipelining, retries), the sync store and the RPC sync are external, as the
  comments and calls in `portal.ts` describe them. `Die` and `Restart` are the
  process.
- `Backfill` - the abstract specification: the store grows by one interval at a time,
  in any order, and an interval comes with its children, each once, and its logs.
- `IntervalProperties`, `MCIntervalSync` - the properties with the refinement mapping
  (the identity on `store`), and the instances.

| Model | Code |
|---|---|
| `disc.through`, `disc.confirmed`, `disc.quantum`, `disc.scans` | `through`, `confirmed`, `discoveryQuantum`, the chain behind `inflight` |
| `known`, `queue` | `childAddresses` of the factory, `pendingChildren` |
| `cache`, `entry` | `dataCache` and the entries, with the jobs chained into `promise`; `from`, `to` are `coveredFrom`, `coveredTo` |
| `awaited` | the promises an interval's `Promise.all` holds: entry and position in its chain |
| `tx` | where core's callback stands, and the rows and logs its open transaction holds |
| `pendingFlushes`, `stash`, `delegated`, `portalHead`, `fetchQuantum` | the variables of those names |
| `store` | what is committed: child rows, logs, cached intervals |

Abstracted: a log is its block and its child, and every child emits one in
every block, before its creation too, so that a gap of coverage or a filter too
narrow anywhere shows. One factory with one level of children. Rows, tokens and
single requests are in `PortalFetch` and not repeated here: a stream ends or fails.

### Startup boundary and cutover

- `Cutover` - one process with several chains. `Boot` derives each chain's floor
  (`StartFloor`) and clamps its boundary (`Boundaries`); `Drain` fetches to the
  boundaries and parks what lies behind the earliest of them; `SkipRound`,
  `FreshEnough`, `ProbeHeads`, `Answer`, `ProbeThrows`, `PhaseTwo`, `NoCatchup` and
  `Adopt` are a round of the guarded loop; `Follow` and `Checkpoint` are realtime as
  far as the next start depends on it; `Crash` is the process. Ponder's part is
  external, taken from the patch around it and from `simulateOmnichainCutover` in
  `portal-cutover-guard.test.ts`.
- `CutoverLoop` - the abstract specification: ponder's loop without the guard. A
  catch-up round adopts every chain; going live with events parked needs every
  chain to be within its finality depth.
- `CutoverProperties`, `MCCutover`, `CutoverProofs` - properties with the refinement
  mapping, the instance, the proofs.

| Model | Code |
|---|---|
| `final`, `cursor` | `syncProgress.finalized` of each chain, where its backfill stands |
| `parked` | `pendingEvents` of the omnichain generator |
| `probed`, `found` | `cutoverProbe` (the chains of phase 1), `finalizedBlocks` of the round |
| `rows`, `synced`, `indexed` | checkpoints in ponder's metadata, blocks of the sync store, how often an event's rows have been written |
| `least` | history: the least answer any probe of this round could give |
| `tied` | history: events at the very time of another, higher-numbered chain's checkpoint that a start found in its row |

Blocks of several chains may have the same timestamp (`Stamp`). A checkpoint (`Time`) orders them
all, by timestamp and then by chain, as ponder encodes it, and no two blocks share one. Crash
recovery and the resumption compare checkpoints; `deriveFinalityFloor` maps another chain's
checkpoint by its timestamp alone, strictly below (`StoredBefore`). The two differ where
timestamps tie, which is the `tied` finding (section 6). `ordering = "multichain"` has no common order and no parked
events; `isolated` is one chain of it. The heads are assumed not to move backwards
between two answers of the RPC, and a replica of the Portal to lag by at most `ReplicaLag`.

### The data path

- `FetchSpec` - `portal-filters.ts` as operators: what an app needs, the range and
  the columns of each source, merging and sharding of the requests under a budget of the
  body, the realtime requests and the widening to wildcards.
- `Assembly` - `portal-assemble.ts` as operators: re-matching of rows against
  filters and births, ranks and inherited errors of traces, the rows of a range.
- `DataPath` - composes them: a chunk's range is streamed source by source and body
  by body (`StartFetch`, `Serve`, `DropField`, `SkipToStart`, `NextSource`, `Finish`),
  fails and is evicted (`StreamThrows`, `Evict`), is extended, and is assembled interval by
  interval, also while an extension runs (`Assemble`); then the realtime stream
  opens and reopens (`GoLive`, `DiscoverLive`). A chain is data: logs, transactions
  and frames of each block.
- `DataPathProperties`, `MCDataPath`, `MCCoincide`, `DataPathProofs` - the properties, the
  instances, the proofs.

| Model | Code |
|---|---|
| `data`, `covered` | the maps of `cd` by source, `coveredTo` of the resolved promise |
| `fetch` | the running call of `runStreams`: source, bodies still to stream, cursor, dropped and missing columns, the sources that matched |
| `children`, `scanned` | `childAddresses`, discovery's watermark |
| `store`, `done` | ponder's sync store, the next interval |
| `live` | the realtime requests and `wildcardLogKeys` |

One chunk stands for the cache (`ChunkCache` has the others), and discovery goes
block by block (`Discovery` has its windows). A transient failure with its retry leaves the
cursor where it is, so it is a stutter here (`PortalFetch` has the retries). The rows of a
store are identified as ponder's keys do; the shards of several filters are not
disjoint, and what they fetch twice is stored once by the insert's conflict clause.
A column stands for the class of columns that the code treats alike.

## 3. The runs

| Run | Instance | Question | Bounds and why they suffice |
|---|---|---|---|
| `realtime` | root, a chain of three, a fork of two; two children | is the feed one complete chain, is finality the same for all, and never wrong? | two switches of the head: to the fork and back, a reorg of a reorg; one restart at any moment; a budget of one address, so the second child turns the filter into a wildcard; polls carry hashes; a ring higher than the chain, since past its cap the fatal of a deep negotiation is deliberate (`live` has a ring that overflows) |
| `live` | the same tree, one switch, no restart | does the feed arrive at the limits too? | a ring of two, shorter than the window, so blocks are evicted by the cap; polls with hashes, so a finalized head the window cannot verify is deferred, until it can or the process stops for it; samples with gaps; a missing column and refusals; a budget of one address; an end block. Only arrival is asked here, safety in `realtime`. Liveness under `FairSpec`: the head moves at most once off its chain and the tree is finite, so the Portal comes to rest |
| `rewound` | a fork at the root and one high up; two switches, no restart | is a gap always a deep reorg? | *violated*, see section 6 |
| `gate` | three fetches, two chunks, at most two slots | is every slot returned, every waiter served, in order? | more requests than slots; a start value above the maximum; a ramp after two clean answers; one retry, so both a back-off and an exhausted budget occur |
| `rows` | the same with rows and a droppable column | does the row counter equal what is cached? | batches of one row, spans of two blocks, a chain of one extension; `MaxHeld` bounds an entry's rows; symmetric in requests and chunks |
| `backfill` | stream mode; chunks of two blocks under intervals of three, two and one; two children, one of them created twice; warm-up of one block | is what is cached complete, whatever fails? | three intervals share chunks pairwise, so that extension, read-ahead, eviction and pipelining meet; three failures of any kind (a scan and its retry and a rollback) and one restart at any moment |
| `delegating` | RPC fallback; the head starts at block 1; chunks of three, no warm-up | does the backfill end, and completely, if intervals change sides at a moving head? | the head moves at any time and each probe may lag; a delegated interval holds a child found by a scan before; two failures and one restart at any moment |
| `cutover` | two chains with a block every two seconds and every three, so that block 3 of the one and block 2 of the other share a timestamp; five apps: ends that come early, late or never, streaming chains, a pinned head, either ordering | does the guarded cutover do what ponder's loop would, and index everything once, but where timestamps tie? | four blocks, so a catch-up round can follow a round; depths of one, so a chain can be left within its depth or past it; two events of each chain, at the first boundaries and after, two of them at one timestamp; replicas two blocks behind; one restart at any moment |
| `tied` | the same | and where they tie? | *violated*, see section 6 |
| `datapath` | seven apps over a chain of five blocks (a factory with children born before, at and after their logs; failing frames at two depths); eight datasets with gaps | does the store hold just what the filters ask for, or does the process stop for a reason? | three addresses a request and a body of eleven, so merging, sharding, transactions over the budget and a body that never fits all happen; two failures, so a chunk that was extended is evicted and fetched again; a finalized head one below the last block, so the realtime finds a child |
| `fallback` | `delegating`'s instance with one rollback | does a delegated interval's retry keep its children? | *violated*, see section 6 |
| `coincide` | three factories with events of their own, two of them with the same children, then not, then again | does the open stream ask for every child's logs? | *violated*, see section 6 |

Bounds are constants, named where they are declared: `MaxSwitches`, `MaxBoots`
(realtime), `MaxSpan`, `MaxChained`, `MaxHeld`, `BatchRows` (fetches), `MaxEntries`
(chunk entries cached or running at a time; a new one waits for room),
`MaxFailures`, `MaxBoots` (intervals), `LastBlock`, `ReplicaLag`, `MaxBoots` (cutover),
`MaxFailures` (data path). The clean
streak `ok` is counted up to `RampEvery` only; above it the code does not tell
values apart.

What the properties say:

- `WindowLinked` (INV-10): the window is a chain on the anchor. `RingCoversResume`:
  between connections the ring has the block below the cursor.
  `TripwiresSilent`: the code's own assertions never fire.
- `FeedMatchesWindow`: ponder and the producer agree on the chain between any
  two events, but for a block being redelivered. `FinalityAgrees`: and on what
  is final. `FinalizedCanonical`: which the Portal has finalized too.
- `LogsComplete`: each block ponder holds has the logs of the children created
  on its own fork, all of them and no others.
- `FeedSpec`: the feed implements `RealtimeFeed`, restarts included.
- `CatchesUp`, `FinalityCatchesUp`, `RedeliveryEnds`: see fairness.
- `SlotsMatch`, `WorkConserving`, `AdmitsInOrder`, `NoStarvation` (INV-8);
  `RowsMatch` (INV-7).
- `ChildrenPersisted` (INV-15), `LogsStored` (INV-2, 3, 13): a cached interval is
  durable with its children, under their earliest block, and with all logs of
  children born by then and none before. `RowsOnce` (INV-17): no row twice.
- `NobodyStranded`: a child that was found is in the store, the queue or a flush
  record that its interval will get back. This is the argument behind
  `ChildrenPersisted`. `WatermarkHonest` (INV-3): below the confirmed watermark
  every creation is known. `CoverageHonest` (INV-13): an entry without jobs holds
  all it claims to cover. `StashConsumed` (INV-12): a thrown and repeated interval leaves nothing
  behind. It is asked in stream mode, where nothing is delegated: the branch of `syncBlockData`
  for delegated intervals (`portal.ts:1007-1015`) is not under it (section 6).
- `BackfillSpec`: the interval sync implements `Backfill`. The invariants before it each
  look at one part of the store; this one says that its parts change together, that
  nothing else ever enters it, and that an interval that was committed unseen adds nothing
  when its transaction is run again.
- `BackfillCompletes`, `ReadyWithoutRpc`: see fairness.
- `IndexedOnce`: no event is indexed twice. A boundary below what a checkpoint has made
  permanent would have realtime stream it again, and crash recovery does not revert it. Left out
  are the events in `tied`; `NeverReindexed`, which leaves none out, is what the comments
  claim and the code breaks.
- `BoundaryServed` (INV-9): the other side of the same floor. It lifts a boundary above the
  Portal's head only as far as the chain has been indexed; a floor taken for this
  chain from another chain's block number would lift it anywhere.
- `LoopSpec` (INV-18): the guarded loop implements `CutoverLoop`. A guard that forgets
  parked events when it skips a round, that excludes a chain from phase 1 while
  events are parked, or that adopts an excluded chain's stale boundary breaks it.
- `StoredExact`, `TracesAsStock`: the store against a definition that knows nothing of
  requests, shards, batches, extensions and evictions: the rows ponder's own sync would
  store.
- `NoSilentGap`, `FatalIsEarned`: the two sides of a dataset with a gap. No row without a
  column it needs; and no stop for rows that assembly would drop, which would stop the
  process again after every restart.
- `BodiesFit`: nothing is sent that the Portal would refuse for its size.
  `RealtimeCovers`: however the requests of the realtime are merged and widened, each log a
  filter wants is asked for and survives the trimming.

Every property has a mutant, an operator beside the one it replaces that changes
it the way a plausible bug would; the property fails under it.

Deadlock is checked in every run: `Stopped` is a step of the realtime path when
the process has ended for good, the fetches never stop, and `Finished` and
`Stopped` (no restart left) are the ends of the interval sync. A promise that
nobody settles is therefore a deadlock of `backfill`. Only `datapath` has the check off: an
app that the stream mode does not serve, or a dataset that stopped the process, ends there.

### Fairness

Realtime: the generators, their timers and the process that pulls them run on
one event loop, hence weak fairness of every step of the client that is ready.
The Portal may refuse, cut or stay silent again and again, but not for ever
(strong fairness of an opened request, a conflict, the delivery of a canonical
block, a poll that gets the current finalized head, and a refusal that names a missing
column: not of refusals in general, for a Portal need not ever refuse what it could serve). Liveness is stated
for a Portal that comes to rest (`PortalSettles`): a replica that serves a losing
fork for ever can be followed for ever. Nothing is assumed of crashes.
Fetches: weak fairness of each fetch's own step, from the connect and body-idle
timeouts, the timers of the back-off, and the event loop. No fairness is assumed
of opening, extending or evicting.
Intervals: weak fairness of each interval's next step, of each entry's job, of the
scan at the head of the chain and of the restart; none of failures, crashes, the
Portal's finality, or a read-ahead. Core retries a failed callback as long as the
process lives. That a requested stream ends is the client's retry budget: it ends
or throws (`PortalFetch`).
Cutover: weak fairness of `Drain` and `SkipRound` alone, which are code and a
backfill that ends. None of any probe: that is the point of `ReadyWithoutRpc`.
The data path has no fairness; only safety is asked of it.

## 4. Proofs

Checked by TLAPS for every value of the constants under their ASSUMEs:

- `RealtimeProofs` - lemmas on chains first: what trimming, appending and splitting
  do to a linked chain, and what a reorg's ancestor is; then `TypeCorrect` and `WindowStaysLinked`
  (`Spec => []WindowLinked`). `WindowLinked` is not inductive alone: after a
  reorg event the window has been trimmed and the block behind it, `pending`, is
  appended without being looked at again. The inductive invariant `IInv` adds
  that `pending` extends the tip while `stage = "append"`, the type invariant of
  every component, and that the generators take turns (an item, an event and an
  append never coexist with a running connection read). The
  assumptions used are that the headers form a tree with heights one apart and
  that `Ancestry` is its closure.
- `NatSets` - the least-element principle on sets of naturals, which the lemmas
  on chains and on births rest on.
- `FeedProofs` - what ponder gets from the realtime path, seven theorems on four
  inductive invariants, each checked with TLC on the realtime instances before it was proved.
  * `AgreeInv` (on top of `IInv`) carries `FinalityIsOne`, `FeedIsWindow` and
    `TripwiresStaySilent`. `FeedMatchesWindow` speaks of the moments between two events;
    the invariant says at every moment what ponder holds (`Given`) and how the event
    under way still changes it: a block fits on what was given, a reorg's ancestor is in it,
    a finalize names the anchor it was raised to (`BlockFits`, `ReorgFits`, `FinalizeFits`);
    a held finalize has a redelivery to wait for (`HeldAwaits`). The tripwires need the
    follower too: the block on its way is the one the connection served last (`Carried`),
    and while a redelivery is awaited the cursor has not passed it (`RedeliveryFirst`).
  * `FinalInv` carries `FinalIsCanonical`: anchor and durable block lie under the Portal's
    final block. It assumes hash-carrying probes, as the property does: without them a
    lost fork's block may become final, which the code accepts (`portal-realtime.ts`'s
    wrong-fork guard needs the hash).
  * `ImplementsFeed` maps each action to a step of `RealtimeFeed` or to a stutter.
    It assumes `HashProbes` or `MaxBoots = 0`: a restart abandons the durable block of a
    lost fork, which is no step of the feed.
  * `LogsInv` carries `LogsAreComplete`: the filter of the request under way covers the
    children registered when it was made, the registry is the births of the chain given so
    far, and what is read again after a registration comes under the newest filter
    (`FreshFilter`). No hypothesis.
  * `RingInv` carries `RingIsEnough`: the ring reaches from the anchor to the cursor and
    one block further down while a reopen is due. The hypothesis `[]RingHolds` (fewer than
    `RING_CAP` = 8192 blocks above the finalized one) is the code's own bound: past it the
    oldest entries are evicted and the fatal at the next negotiation is deliberate.
    The run that checks it has `RING_CAP` above the height of its chain; what the cap
    evicts is in `live`.
  Two assumptions are new, that `None` is no item of a stream and no event.
  What a reorg and a finalize do to a linked chain (`ReorgCut`, `FinalizeCut`, `CutAtBlock`)
  and what `Ancestry` is on a tree with heights (`AncestryOrdered`, `AncestryBelow`,
  `ChainIsHistory`) are lemmas: induction along the chain is by least counterexample on
  heights.
- `IntervalProofs` - `NeverStranded` (`StreamMode` gives
  `Spec => []NobodyStranded`): for any intervals, children and chunks, whatever
  fails, commits unseen or dies. `NobodyStranded` is not inductive alone. Putting
  a record back lowers the queue with it, which would lose the birth everyone
  waits for if something earlier than the known birth were queued
  (`NothingEarlier` excludes it). Taking children overwrites the interval's
  record, so an interval that may still take has an empty one
  (`NothingOverwritten`), because entering and asking for the chunks both restore
  first. A restart reloads `known` from the store with nothing else in memory
  (`NothingRuns`). The conjunction was
  also checked with TLC on the `backfill` instance before it was proved.
  What scans and the cache do enters the proof only as "`known` and `queue` are
  lowered together". The assumption `StreamMode` is needed: with the RPC
  fallback the property is false for the children the RPC sync inserts, which
  live in the open transaction alone (the `fallback` run's finding).
- `IntervalShapes` - `ShapesHold` (`Spec => []TypeOK`), in both modes. `TInv` is the shape
  that is inductive: the scans of the chain go from the confirmed watermark to
  `through` without a gap (`ScansChained`), a chain of a cache entry that runs has a job
  (`EntriesOK`), the cache points at entries of its own chunk that have not failed
  (`CacheOK`), and a process that is down has no memory (`Down`). The lemmas follow the
  code: `EnsuredOK` for a call of `ensure`, `OpenedOK`, `RepairedOK`, `ExtendedOK` and
  `DataChunkOK` for the three ways a chunk grows, `AskRangeOK` and `ReadAheadOK` for a range of
  them, `SweptOK` for what becomes unreachable. Each concludes `Follows`: no entry loses a
  job or a promise (`Grows`), and what the next module needs of reach is kept.
- `IntervalProofs` also has `CachedMeansPersisted` (`Spec => []ChildrenPersisted`) and
  `ConfirmedMeansFound` (`Spec => []WatermarkHonest`), in stream mode, from three layers
  on top of `TInv` and `IInv`.
  * `RInv`, reach. Whatever was created up to `confirmed` is known (`FoundTo`); what a scan
    has passed is known or was left in it (`ScansHonest`); a job that waits, waits for a
    scan that ends no lower than the job does, raised to the floor (`JobsWait`); what a
    chunk covers is vouched for by one of its jobs or by what is confirmed already
    (`ChunksReach`); and so a callback that has all its chunks has them after discovery
    reached the end of its interval (`AwaitsReach`). A scan that fails rejects exactly the
    entries that wait for more than what is confirmed, which is why nobody's reach is lost.
  * `WInv`, the writer. Nothing is known or stored as born too early (`Sound`); at a
    flush, reach and `NobodyStranded` put every child born in the interval in the queue, so
    that the flush, then the open transaction, then the store has it (`Flushed`); a flush
    holds children of its own interval only (`InPlace`), so no other interval's record can
    be the one `NobodyStranded` means.
  * `SeedSafe` closes the circle between the two: the watermark may be seeded at the
    interval's low end because all children born below it were read from the store,
    where `ChildrenPersisted` put them before the restart.
  Both assume `Disjoint` and `Tiled`: no two intervals overlap, and every block from
  the factory's first to an interval's low end is in an earlier interval. Core's
  intervals are cut in order out of one required range, and what earlier runs have cached is
  among them as intervals that are done; `seed` (`portal-discovery.ts`) is only
  right under this. The `backfill` instance satisfies both, and TLC checked the
  invariants on it first.
- Then `NothingStoredTwice` (`Disjoint` gives `Spec => []RowsOnce`), in
  both modes. The dedupe reads the store before it inserts, so the invariant says why what
  it read is still true at the commit: what an open transaction has inserted is of its own
  blocks (`InPlace`, `OwnRows`), which no other transaction touches as intervals do
  not overlap (`Disjoint`, core's doing). What the RPC sync inserts is new because it skips
  the children the process knows of, and a running process knows of every stored one
  (`StoreKnown`); a restart reloads them. An unseen commit is an ordinary one here:
  its rows are durable, so the retry's flush is found in the store. TLC checked the
  invariant on the `backfill` and `fallback` instances first.
- The logs, in `IntervalProofs`: `CoveredMeansHeld` (`Spec => []CoverageHonest`) and
  `CachedMeansComplete` (`Spec => []LogsStored`), in stream mode, on top of reach and
  writer. `CoverageHonest` speaks of entries without jobs, which a caller cannot wait for;
  the invariant speaks of promises. A promise is a position in an entry's chain of jobs, and it
  vouches for a block if the entry holds the block's logs already, or a job at or before that
  position will stream it (`Vouches`).
  * `EntriesCover`: each block within the bounds of an entry is held or is in one of its jobs, so
    a bound that was moved ahead of its stream is backed by the job that was chained with it.
  * `AwaitsCover`: the promises an interval took when it asked for its chunks vouch together for
    each of its blocks, though the entries behind them are extended, evicted or fetched anew
    afterwards; once it flushes, all of them are held (`Backed`).
  * `LogsHeld`: what a callback took from its chunks, and what the store has, are all logs of
    the interval and none from before a birth.
  A stream ends with the children born by its last block known, which is `ConfirmedMeansFound`:
  this is where a watermark that is ahead would lose logs. Besides `Disjoint` and `Tiled`,
  `CachedMeansComplete` assumes `Started`: no interval begins before `BackfillStart`. The code
  takes `backfillStart` as the least `fromBlock` of the sources, where core's first required
  interval begins; a first fetch of a chunk does not reach below it.
- `CommittedMeansConsumed` (`Spec => []StashConsumed`), in stream mode: nothing is ever
  delegated there, and an interval is done only through `syncBlockData`, which takes its
  stash entry.
- `ImplementsBackfill` (`Spec => BackfillSpec`), under the hypotheses of `CachedMeansComplete`.
  Every step of the sync but a first commit is shown to leave `store` alone. A first commit adds
  exactly an interval: `Flushed` and `LogsHeld` say that nothing is missing, and `XInv` that there
  is nothing more: what is queued is what is known (`QueueExact`), what is flushed is
  a child's first creation, already known as such (`FlushExact`), hence the rows of a
  transaction and of the store are first creations too (`RowsExact`), of intervals that are
  cached (`StoreExact`). So a flush that repeats an unseen commit finds each of its rows stored,
  the dedupe inserts none, and the second commit of an interval is a stutter. TLC checked the
  refinement on the `backfill` instance first.
- `GateProofs` - `TypeCorrect` and `NoSlotIdles` (`Spec => []WorkConserving`).
  `WorkConserving` is preserved because each action that lowers `active` or
  raises `limit` pumps; the throttle does not pump but only lowers the limit.
- `GateProofs` also has `NoSlotLost` (`Spec => []SlotsMatch`) and `FirstComeFirstServed`
  (`Spec => AdmitsInOrder`). Both rest on what one step of the gate does to the queue
  (`Grants`): its first g requests leave it, g slots are taken, and if g is not zero
  they fit the limit. Two pumps in a row (`onOk`, then the release) are one such step
  (`ShiftTwice`), and so is a release that finds the limit halved. Counting needs that nobody is
  queued twice (`QueuedOnce`) and that exactly those who wait are queued
  (`WaitersMatch`); that a request which gets a slot at once overtakes nobody follows
  from `NoSlotIdles`.
- `GateProofs` also has `RowsAreCounted` (`Spec => []RowsMatch`). The rows are counted as a set,
  each with its entry, so that a batch adds a disjoint part and a freed token takes one away.
  `RowInv` adds what the code relies on without saying so: no entry is cached under two
  chunks (else the first eviction would free what the second still holds), and a token is free
  just when its entry is not cached, which is what makes late batches and second
  rejections harmless.
- `CutoverProofs` - `CutoverImplementsLoop` (`Spec => LoopSpec`), `EventsIndexedOnce`
  (`Spec => []IndexedOnce`), `BoundaryIsServed` (`Spec => []BoundaryServed`) and
  `CutoverTyped`, for any chains, depths, paces, events and apps, any lag, and any number
  of restarts. The inductive invariant says, stage by stage, what a round knows:
  what has been found is between the boundary and the RPC's finalized block
  (`Answers`, `Grounded`); `least` stays a lower bound of what a probe may answer while
  heads advance (`LeastHolds`, from the lemma `BoundariesGrow`); a chain that was not
  probed keeps its boundary until phase two (`Phases`); what is indexed or parked lies
  behind cursor and boundary (`Counted`, `Held`), and at a start behind a checkpoint
  (`Reverted`); of an event that was tied only the cursor is promised. The step that carries
  `IndexedOnce` is `Boot`: what a checkpoint covers is at most the floor, whether the
  checkpoint is the chain's own (checkpoints of a chain grow with its blocks, `TimeReflects`) or
  another's (a block that is covered is stored, and has an earlier timestamp or ties,
  `EarlierOrTied`; what ties is entered in `tied` at that start). Assumed are that chains are
  numbered from one, in the order in which checkpoints compare, and that blocks are bounded.
- `DataPathProofs` - for any chain, apps, datasets, limits, budget and failures, on four
  inductive invariants, each checked with TLC on the `datapath` instance first.
  * `DataPathInv` carries `NoGapIsSilent` (`Spec => []NoSilentGap`) and
    `EveryFatalIsEarned` (`Spec => []FatalIsEarned`). A gap is decided at the end of a range
    from what was remembered on the way, so the invariant follows the range: a source that was
    passed left whole rows, or rows with a hole that are remembered as missing and, if
    assembly keeps one, as matched (`FetchedOK`). A range that ends without a gap leaves whole
    rows wherever they are kept (`ResolvedOK`). Matching is decided with the children known
    when a batch arrives and assembly with those known later: both agree, since discovery
    has passed the range before it is streamed (`ScanOK`, `KeptExact`).
  * `RowsInv` adds that nothing is lost, and carries `StoreIsExact` (`Spec => []StoredExact`)
    and `EveryBodyFits` (`Spec => []BodiesFit`). A wanted row of the range is in the chunk, or
    a body still to be sent asks for it (`PendingOK`); a range that ends has them all
    (`CompleteOK`); an interval cut from a chunk that has them puts just those rows into the
    store (`AssembledExact`), whatever an extension has added beyond. What merging, batching,
    sharding and splitting do is proved of the folds that compute them (`MergeFact`,
    `BatchesFact`, `PackFact`, `ChunkTxFact`): the fold is unrolled into its run, and the
    run's invariant holds by least counterexample on its index.
  * `CoversOK` carries `RealtimeMissesNothing` (`Spec => ([]RequestsApart => []RealtimeCovers)`).
    `RealtimeCovers` is false in general (`coincide`, section 6). `RequestsApart` names what it
    takes for granted: no batch of a factory's children has the addresses of a request of
    something else, no child is itself a factory, and no event of children of a factory is the
    creation event of a factory without an address. It speaks of the app and the registry
    alone, an app with one factory per kind of contract satisfies it, and it holds in every state
    of the `datapath` instance. The invariant says of the wildcards what the code relies on:
    each is the key of a request that would be built now (`KeysOf`), and is open without
    addresses. Keys outlive new children because a factory's requests are merged with those
    of its peers alone (`PeersOnly`, `KeysPersist`); so where `hasAddressFilteredFactoryRequests`
    leaves the stream open, a wildcard lets the new child's logs through (`UnfilteredCovers`).
  * `TreesOK`, that a raw block of traces is the whole block, carries `TracesMatchStock`
    (`Spec => []TracesAsStock`): `buildTraces` ranks before it filters. `cmpTraceAddr` is a
    strict total order of paths (`DfsTransitive`, `DfsTotal`: two paths are decided where they
    first differ), so in the sorted tree each frame is at the number of those before it
    (`RankFact`: the ranks are an injection into as many numbers; `TreeOrderFact`), and after its
    caller. `cascadeTraceErrors` is a fold over that order, unrolled into its run: the map is
    right for the frames done so far (`InheritStep`), since a frame without an error of its own
    has the failed ancestors of its caller (`FailingFact`). The sort itself is taken by what it
    yields (`TreeOrder`), the fold as it is written.

  Assumed (`DataPathAssumption`, `ChainAssumption`, `AppsAssumption`, `FetchSpecAssumption`): blocks
  are finite and hold the transactions of their rows; the frames of a transaction are a call
  tree (`IsCallTree`: one frame for a path, and a frame's caller is there, as
  `portal-assemble.ts:105-115` says of the Portal's trees; without it `cascadeTraceErrors`
  inherits nothing where the RPC sync may); the empty body is below the budget;
  filters have the fields their type has, with block numbers as bounds, and a filter of
  transactions names an address (one that does not is outside the model, section 5);
  and `Undefined` is no factory, no list of children, no set of topics and no reason to fail.

Only model-checked: all liveness (out of the prover's reach); of the interval sync with the
RPC fallback, everything but its types and `RowsOnce`, since `ChildrenPersisted` and `StashConsumed` do not hold there in general
(section 6), which leaves `delegating`'s instance.

## 5. Not modelled

Of the interval sync: the scaling and capping of the grid (`ensureChunkSize`,
`traceSafeChunkBlocks`; both settle before the first fetch, so the grid is a
constant), with them `discovery.reset` and its generation counter; the cap of 32
flush records (above the depth of core's pipeline); core dispatching the same next
interval twice after a retry, which the comment at `portal.ts:199-202` names as the
residual of INV-17; failures of the RPC sync itself; several factories and
nested ones. The dedupe reads and inserts in one step. A prefix repair
(`Repaired`) is modelled, but intervals of one process are disjoint and in order, so
no run needs one.

Of the client: the parsing of headers and bodies, and the timeouts that turn silence into
a failure, which is one of the ways a stream may fail in the models. Of the data path: the
conversion of a row field by field, transactions asked for without any condition, the
cap on trace-safe chunks. Of the cutover: an RPC whose finalized block moves backwards
between two answers, ponder's own reordering of events inside a range.

Configuration, metrics, redaction and freshness are conversions and output without control
worth a state machine. The `portal-sync` package is used by tools under `src/harness`
only. The harness, the benchmarks, the examples and the release scripts are most of the
repository's lines; they drive or compare runs of the library and are no part of it. The RPC
fallback for logs in the patch keeps no state. PROJECT.json gives the reason per component.

## 6. Findings

- `rewound`: a tick between a 409 and the next request may finalize past the
  lowered cursor. The canonical block then served is at or below the anchor; its
  parent is unknown and the process stops as for a reorg deeper than the window
  (`portal-realtime.ts:1180`), though there was none.

- `fallback`: a delegated interval whose transaction rolls back after the RPC sync
  has recorded a child in the shared map (`portal.ts:894`) is retried, by either
  path, without anyone persisting that child: it is known, and in no flush record.
  The interval is cached without it (INV-15), and the next start has lost it.
- `tied`: `deriveFinalityFloor` maps another chain's checkpoint to the highest stored block
  with a timestamp strictly below the checkpoint's (`portal-realtime-wire.ts:301-302`; the
  comment at 268-269 says at or below). Crash recovery compares whole checkpoints and so keeps
  the rows of a lower-numbered chain's block at that very timestamp. `finalizeOmnichain` writes
  one chain's checkpoint to every row; a restart behind such a row, on a replica that lags, puts the
  boundary below that block, and realtime streams and indexes it again, which the floor is there
  to prevent (317-321). It takes two chains with a block at the same second, an event in the
  one whose checkpoint was not written, and a replica behind it. A chain's own checkpoint
  is not affected.
- `coincide`: whether the open stream must be renewed for a new child is decided from the
  sticky wildcard keys and from the requests that would be built now
  (`portal-realtime-wire.ts:524`), not from those of the open connection. Requests with the
  same addresses are merged, so the key of a request changes when the children of two
  factories begin or cease to coincide. A key that was let go of while they were one comes
  true again when they are one again, though the connection has their requests apart and
  filters one by an old list. The new child's logs are not served, and nothing says so.

`rewound` stops the process loudly, and a restart resumes from the durable state; the
other three are silent.

Seen while modelling, without a run of its own. A 409 whose sample of canonical blocks skips the
window's blocks and holds one below the floor ends the process as a fork below finality
(`portal-realtime.ts:560`), although the comments there and `INVARIANTS.md:75` say the negotiation
runs until a match or the floor, and a block of the window is still canonical. `rewound`'s
instance has such a state once samples may have gaps (`SparseSamples`). With the factory's chunk above the
finalized head, the fetch of an interval below it scans to the floor, past the head
(`portal.ts:578`, INV-9); the Portal answers 204, so intervals that need no child fail until
the head gets there. A factory without an address, whose creation event is also an event of
another factory's children: their merged request counts as a discovery request
(`isDiscoveryLogRequestFor`, `portal-realtime-wire.ts:471-494`), so new children do not renew
the stream; `RequestsApart` excludes it. The key an interval left in
`delegated` by a transaction that was thrown stays there if the retry is served by
the Portal; `syncBlockData` then takes the delegated branch and the stash entry is
never consumed (`portal.ts:1007-1015`, INV-12). `StashConsumed` is therefore checked in
stream mode only, where nothing is delegated. And a needed column that one
source's dataset lacks is armed as a fatal gap by any kept row of any source
(`portal.ts:470-496`, 522-537), so a range may stop the process for a column that no row of
its own source would have used; `FatalIsEarned` is stated as the code has it, per range.

## 7. Plan

1. Realtime path (done): base, server, reconcile, hot stream, events, wire, the
   composition, the feed it implements; safety, limits, liveness.
2. Gate and fetches (done): slots, fairness of the queue, row tokens.
3. Interval sync (done): grid, discovery, chunk cache, the transactions core retries,
   the dedupe; safety under failures and restarts, completion with delegation.
4. Abstract specification of the backfill (done): an interval is cached with its
   children and logs in one step; `IntervalSync` is shown to implement it, by TLC and by proof.
5. Startup boundary and cutover guard (done): two chains, the clamp, the floor, the
   two phases, and the unguarded loop it implements; proved.
6. Filters, sharding and assembly (done): as operators, and composed with the
   streams in `DataPath`.
7. Proofs (done: the gate; the cutover and the realtime path with the refinement of
   their abstract specifications; in stream mode the interval sync with the refinement of
   `Backfill`; the row counter; the data path). Left: what survives of `ChildrenPersisted` under
   the RPC fallback when no delegated transaction rolls back.
