------------------------------- MODULE DataPath -------------------------------
(***************************************************************************)
(* The rows' way from the dataset to the sync store: a chunk's range streamed   *)
(* source by source (runStreams of portal.ts, stream of portal-client.ts),      *)
(* extended, evicted when a stream fails, and assembled interval by interval;   *)
(* then the requests of the realtime stream.                                *)
(*                                                                         *)
(* The cache of several chunks is ChunkCache, discovery is Discovery: here      *)
(* there is one chunk, and discovery finds the children block by block.        *)
(* The dataset is external: it starts at a block, and lacks some columns on      *)
(* some blocks.  A request that reaches a block without a requested column may   *)
(* be served up to there, or be refused at once.                             *)
(***************************************************************************)
EXTENDS Assembly

CONSTANTS
  PortalHead,  \* the Portal's finalized head
  Apps,        \* the apps: sequences of filters
  Datasets,    \* [start, lacks]: first block served, missing column -> blocks
  MaxFailures  \* bound: streams that fail

ASSUME DataPathAssumption ==
  /\ LastNumber \in Nat /\ Numbers = 0..LastNumber /\ PortalHead \in Numbers
  /\ \A d \in Datasets : d.start \in Numbers /\ d.lacks \in [Fields -> SUBSET Numbers]
  /\ MaxFailures \in Nat

(* The frames of a transaction are a call tree: a frame's caller is in it.         *)
IsCallTree(traces) ==
  /\ \A t \in traces : t.path \in Seq(Nat)
  /\ \A t, u \in traces : t.path = u.path => t = u
  /\ \A t \in traces : t.path # <<>> => \E u \in traces : u.path = Front(t.path)

(* Blocks are finite and hold the transactions of their rows, with the whole call  *)
(* trees.  Nothing is no list of children and no reason to fail.                *)
ASSUME ChainAssumption ==
  /\ \A n \in Numbers :
       /\ IsFiniteSet(Chain[n].logs)
       /\ \A l \in Chain[n].logs : \E tx \in Chain[n].txs : tx.hash = l.tx
       /\ \A t \in Chain[n].traces : IsReward(t) \/ \E tx \in Chain[n].txs : tx.hash = t.tx
       /\ IsFiniteSet(Chain[n].traces)
       /\ \A t \in Chain[n].traces :
            IsReward(t) \/ IsCallTree({u \in Chain[n].traces : u.tx = t.tx})
  /\ \A f \in Factory : Undefined \notin Seq(UNION {CreatedIn(f, Chain[n].logs) : n \in Numbers})
  /\ Undefined \notin {"oversized", "gap", "stream"}

(* An app has a filter.  The bounds of a filter are block numbers, a filter of    *)
(* logs has one reference to addresses and one of accounts has two, of which a    *)
(* filter of transactions gives one at least.                                *)
IsReference(ref) == ref \in Factory \cup {Undefined} \/ ref \in Seq(ToSet(ref))
IsFilter(f) ==
  /\ f.lo \in Nat \cup {Undefined} /\ f.hi \in Nat \cup {Undefined}
  /\ f.type = "log" => "address" \in DOMAIN f /\ IsReference(f.address)
  /\ f.type \in {"transaction", "trace", "transfer"} =>
       {"from", "to"} \subseteq DOMAIN f /\ IsReference(f.from) /\ IsReference(f.to)
  /\ f.type = "transaction" => f.from # Undefined \/ f.to # Undefined

(* Nothing is no set of topics either.                                      *)
TopicsOf(a) ==
  {Selector[f] : f \in Factory}
    \cup UNION ({a[i].topic0 : i \in {j \in DOMAIN a : a[j].type = "log"}} \ {Undefined})

ASSUME AppsAssumption ==
  \A a \in Apps :
    /\ a \in Seq(ToSet(a)) \ {<<>>} /\ \A i \in DOMAIN a : IsFilter(a[i])
    /\ \A topics \in SUBSET TopicsOf(a) : topics # Undefined

VARIABLES
  app,
  dataset,
  children, \* childAddresses: the children of each factory, as they were found
  scanned,  \* discovery's watermark
  data,     \* cd: what each source was served of each block so far
  covered,  \* first block not covered by the resolved chunk promise
  fetch,    \* the range being streamed, or NoFetch
  store,    \* the sync store
  done,     \* first block of the next interval
  live,     \* the realtime requests and the wildcard keys, or NotLive
  failures

chunkVars == <<data, covered, fetch>>
discoveryVars == <<children, scanned>>
fixedVars == <<app, dataset>>
vars == <<app, dataset, children, scanned, data, covered, fetch, store, done, live, failures>>

(* What ponder asks for: from the earliest block of any filter.              *)
FirstNeeded ==
  Min({IF app[i].lo = Undefined THEN FirstNumber ELSE app[i].lo : i \in DOMAIN app})
(* dataEnd.                                                                *)
DataEnd == Min({BackfillEnd(app, LastNumber), PortalHead})

NoData == [source \in ToSet(Sources) |-> [n \in Numbers |-> <<>>]]
NoFetch == [source |-> 0]
NotLive == [keys |-> {}]
NoRows == [logs |-> {}, traces |-> {}, blocks |-> <<>>, txs |-> <<>>, receipts |-> <<>>]

Init ==
  /\ app \in Apps /\ dataset \in Datasets
  /\ children = [f \in Factory |-> <<>>] /\ scanned = FirstNumber - 1
  /\ data = NoData /\ fetch = NoFetch
  /\ covered = FirstNeeded /\ done = FirstNeeded
  /\ store = NoRows /\ live = NotLive /\ failures = 0

-----------------------------------------------------------------------------
(* Discovery.                                                              *)
Found(logs) ==
  [f \in Factory |-> children[f] \o SetToSeq(CreatedIn(f, logs) \ ToSet(children[f]))]

Discover ==
  /\ FactoriesOf(app) # {} /\ scanned < DataEnd
  /\ scanned' = scanned + 1 /\ children' = Found(Chain[scanned + 1].logs)
  /\ UNCHANGED <<chunkVars, fixedVars, store, done, live, failures>>

DiscoveryReady(to) == FactoriesOf(app) # {} => scanned >= to

-----------------------------------------------------------------------------
(* One stream: a body from a cursor, less the columns it was refused for.      *)
Requested == FieldsOf(app, Sources[fetch.source]) \ fetch.dropped
Lacking(n) == {field \in Requested : n \in dataset.lacks[field]}

Asked(request, log) ==
  /\ request.address = Undefined \/ log.address \in ToSet(request.address)
  /\ Admits(request.topic0, log.topic0) /\ Admits(request.topic1, log.topic1)
AskedTx(request, tx) ==
  /\ request.from = Undefined \/ tx.from \in ToSet(request.from)
  /\ request.to = Undefined \/ tx.to \in ToSet(request.to)

(* External: the rows of block n for a body, with the transactions they      *)
(* belong to.                                                              *)
LogsFor(body, n) == {l \in Chain[n].logs : \E i \in DOMAIN body : Asked(body[i], l)}
Served(source, body, n) ==
  LET logs == IF source = "log" THEN LogsFor(body, n) ELSE {}
      traces == IF source = "trace" THEN Chain[n].traces ELSE {}
      Rides(tx) ==
        CASE source = "log" -> \E l \in logs : l.tx = tx.hash
          [] source = "trace" -> TRUE
          [] source = "block" -> FALSE
          [] source = "tx" -> \E i \in DOMAIN body : AskedTx(body[i], tx)
  IN  [number |-> n, has |-> Requested, logs |-> logs, traces |-> traces,
       txs |-> {tx \in Chain[n].txs : Rides(tx)}]

(* Of the blocks served, those buffered: with rows of the source, or for a     *)
(* block filter.                                                           *)
Buffered(source, raw) ==
  CASE source = "log" -> raw.logs # {}
    [] source = "trace" -> raw.traces # {}
    [] source = "block" -> BlockKept(app, raw.number)
    [] source = "tx" -> raw.txs # {}

(* Mutant: any row counts, also one that assembly drops.                     *)
MatchedRaw(source, raw) == TRUE

(* What assembly will keep of it: only that can arm the check for a gap.      *)
Matched(source, raw) ==
  CASE source = "log" -> \E l \in raw.logs : LogKept(app, children, l, raw.number)
    [] source = "trace" -> \E t \in raw.traces : TraceKept(app, children, t, raw.number)
    [] source = "block" -> TRUE
    [] source = "tx" -> \E t \in raw.txs : TxKept(app, children, t, raw.number)

Fresh(range) == [range EXCEPT !.cursor = range.from, !.dropped = {}]

(* The bodies of a source are planned when its turn comes, under the children   *)
(* known by then.                                                          *)
Turn(range, source) ==
  LET bodies == BodiesOf(app, children, Sources[source])
  IN  [Fresh(range) EXCEPT !.source = source, !.todo = bodies,
         !.failed = IF Oversized(bodies) THEN "oversized" ELSE @]

StartFetch(to) ==
  LET range == [from |-> Max({covered, BackfillStart(app)}), to |-> to, source |-> 1,
                todo |-> <<>>, cursor |-> 0, dropped |-> {}, missing |-> {},
                matched |-> {}, failed |-> Undefined]
  IN  /\ fetch = NoFetch /\ range.from <= to /\ DiscoveryReady(to)
      /\ fetch' = Turn(range, 1)
      /\ UNCHANGED <<discoveryVars, fixedVars, data, covered, store, done, live, failures>>

Streaming == fetch # NoFetch /\ fetch.failed = Undefined
AtStream == Streaming /\ fetch.todo # <<>>

OnlyFetch == UNCHANGED <<discoveryVars, fixedVars, data, covered, store, done, live, failures>>

(* This body is drained, the next one begins.                               *)
Drained == [Fresh(fetch) EXCEPT !.todo = Tail(@)]

(* A batch: the blocks from the cursor up to one of them.                    *)
Serve(last) ==
  /\ AtStream /\ fetch.cursor >= dataset.start
  /\ \A n \in fetch.cursor..last : Lacking(n) = {}
  /\ LET source == Sources[fetch.source]
         Raw(n) == Served(source, fetch.todo[1], n)
         kept == {n \in fetch.cursor..last : Buffered(source, Raw(n))}
         counted == IF \E n \in kept : Matched(source, Raw(n)) THEN {source} ELSE {}
     IN  /\ data' = [data EXCEPT ![source] =
                      [n \in Numbers |-> IF n \in kept THEN Append(@[n], Raw(n)) ELSE @[n]]]
         /\ fetch' = [(IF last = fetch.to THEN Drained ELSE [fetch EXCEPT !.cursor = last + 1])
                        EXCEPT !.matched = @ \cup counted]
  /\ UNCHANGED <<discoveryVars, fixedVars, covered, store, done, live, failures>>

(* A column the dataset lacks is dropped for the rest of this stream; one that   *)
(* is needed is remembered for the whole call.                              *)
DropField(field) ==
  /\ AtStream /\ fetch.cursor >= dataset.start
  /\ \E n \in fetch.cursor..fetch.to : field \in Lacking(n)
  /\ fetch' = [fetch EXCEPT !.dropped = @ \cup {field},
                            !.missing = IF field \in Droppable THEN @ ELSE @ \cup {field}]
  /\ OnlyFetch

(* The dataset begins above the cursor: the blocks before count as empty.      *)
SkipToStart ==
  /\ AtStream /\ fetch.cursor < dataset.start
  /\ fetch' = IF dataset.start > fetch.to THEN Drained
              ELSE [fetch EXCEPT !.cursor = dataset.start]
  /\ OnlyFetch

NextSource ==
  /\ Streaming /\ fetch.todo = <<>> /\ fetch.source < Len(Sources)
  /\ fetch' = Turn(fetch, fetch.source + 1)
  /\ OnlyFetch

(* Mutant: without a receipt filter on logs, logs never miss a receipt.        *)
IsGapByFilter(range) ==
  LET receipts == range.missing \cap ReceiptFields
  IN  \/ range.missing # receipts /\ range.matched # {}
      \/ receipts # {} /\ "tx" \in range.matched

(* A needed column was missing, and rows that were added will be kept.  The      *)
(* receipt columns only matter to rows that emit a receipt.                  *)
IsGap(range) ==
  LET receipts == range.missing \cap ReceiptFields
      emits == \/ NeedReceipts(app) /\ "log" \in range.matched
               \/ NeedTraceReceipts(app) /\ "trace" \in range.matched
               \/ "tx" \in range.matched
  IN  \/ range.missing # receipts /\ range.matched # {}
      \/ receipts # {} /\ emits

Finish ==
  /\ Streaming /\ fetch.todo = <<>> /\ fetch.source = Len(Sources)
  /\ IF IsGap(fetch)
     THEN fetch' = [fetch EXCEPT !.failed = "gap"] /\ covered' = covered
     ELSE fetch' = NoFetch /\ covered' = fetch.to + 1
  /\ UNCHANGED <<discoveryVars, fixedVars, data, store, done, live, failures>>

(* A stream throws: retries used up, a refusal, no such table.                *)
StreamThrows ==
  /\ AtStream /\ failures < MaxFailures
  /\ fetch' = [fetch EXCEPT !.failed = "stream"]
  /\ OnlyFetch

(* The rejected promise evicts the chunk, what was covered before included.    *)
Evict ==
  /\ fetch # NoFetch /\ fetch.failed # Undefined /\ failures < MaxFailures
  /\ failures' = failures + 1
  /\ fetch' = NoFetch /\ data' = NoData /\ covered' = done
  /\ UNCHANGED <<discoveryVars, fixedVars, store, done, live>>

-----------------------------------------------------------------------------
(* The inserts of syncBlockRangeData and syncBlockData: a row that is there     *)
(* already is kept (ON CONFLICT DO NOTHING, external).                       *)
Inserted(rows) ==
  [logs |-> store.logs \cup rows.logs, traces |-> store.traces \cup rows.traces,
   blocks |-> KeepFirst(store.blocks, rows.blocks), txs |-> KeepFirst(store.txs, rows.txs),
   receipts |-> KeepFirst(store.receipts, rows.receipts)]

(* An interval is assembled from the resolved chunk, whatever an extension that  *)
(* runs, or has failed, has put into the same maps.                          *)
Assemble(hi) ==
  /\ done <= hi /\ hi < covered
  /\ store' = Inserted(AssembleRange(app, children, data, done, hi))
  /\ done' = hi + 1
  /\ UNCHANGED <<chunkVars, discoveryVars, fixedVars, live, failures>>

-----------------------------------------------------------------------------
(* Realtime in stream mode, refused for sources that it does not serve.        *)
StreamModeSupported == ~Has(app, {"trace", "transfer", "transaction"}) /\ ~NeedReceipts(app)

Opened(known, wildcard) ==
  LET requests == BuildPortalLogRequests(app, known)
      keys == StripOverBudget(app, requests, wildcard)
  IN  IF keys = Undefined THEN [requests |-> <<>>, keys |-> wildcard, stopped |-> TRUE]
      ELSE [requests |-> WithoutAddresses(app, requests, keys), keys |-> keys, stopped |-> FALSE]

GoLive ==
  /\ live = NotLive /\ fetch = NoFetch /\ done > DataEnd /\ StreamModeSupported
  /\ FactoriesOf(app) # {} => scanned = DataEnd
  /\ live' = Opened(children, {})
  /\ UNCHANGED <<chunkVars, discoveryVars, fixedVars, store, done, failures>>

(* Mutant: once a request is a wildcard, none is taken to filter.              *)
FiltersUnlessWild(requests, keys, known) ==
  /\ keys = {}
  /\ \E i \in DOMAIN requests :
       /\ requests[i].address # Undefined /\ ~IsDiscoveryRequest(app, requests[i])
       /\ ToSet(requests[i].address) \cap UNION {ToSet(known[f]) : f \in Factory} # {}

(* hasAddressFilteredFactoryRequests: the connection filters by addresses that   *)
(* children are among.                                                     *)
FiltersByChildren(requests, keys, known) ==
  \E i \in DOMAIN requests :
    /\ requests[i].address # Undefined /\ ~IsDiscoveryRequest(app, requests[i])
    /\ WildcardKey(requests[i]) \notin keys
    /\ ToSet(requests[i].address) \cap UNION {ToSet(known[f]) : f \in Factory} # {}

(* A block of the stream creates children: the stream is reopened for them,      *)
(* unless a wildcard already lets their logs through.                        *)
DiscoverLive ==
  /\ live # NotLive /\ ~live.stopped /\ scanned < LastNumber
  /\ LET n == Max({scanned, DataEnd}) + 1
         known == Found(LogsFor(live.requests, n))
     IN  /\ n \in Numbers
         /\ scanned' = n /\ children' = known
         /\ live' = IF known # children
                       /\ FiltersByChildren(BuildPortalLogRequests(app, known), live.keys, known)
                    THEN Opened(known, live.keys) ELSE live
  /\ UNCHANGED <<chunkVars, fixedVars, store, done, failures>>

(* What the wire lets through of a wildcard's rows: logs of a filter, and        *)
(* creations.                                                              *)
Trimmed(n, logs) ==
  IF live.keys = {} THEN logs
  ELSE {l \in logs : LogKept(app, children, l, n) \/ \E f \in FactoriesOf(app) : IsCreation(f, l)}

Next ==
  \/ Discover \/ NextSource \/ Finish \/ SkipToStart \/ StreamThrows \/ Evict
  \/ \E n \in Numbers : (covered <= n /\ n <= DataEnd /\ StartFetch(n)) \/ Assemble(n)
  \/ \E n \in Numbers : AtStream /\ n \in fetch.cursor..fetch.to /\ Serve(n)
  \/ \E field \in Fields : DropField(field)
  \/ GoLive \/ DiscoverLive

Spec == Init /\ [][Next]_vars
=============================================================================
