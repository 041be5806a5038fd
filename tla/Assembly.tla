------------------------------- MODULE Assembly -------------------------------
(***************************************************************************)
(* portal-assemble.ts and portal-transform.ts: what a chunk's raw rows become   *)
(* in the sync store, for one interval.                                     *)
(*                                                                         *)
(* A chunk keeps, for each source and block, what it was served, in order: raw   *)
(* blocks with the columns they have and the rows of that source.  A block of    *)
(* the chain holds sets, for nothing depends on the order within a block:       *)
(*   logs    [address, topic0, topic1, tx]; a creation's child is its topic1    *)
(*   txs     [hash, from, to]                                               *)
(*   traces  [tx, path, from, to, value, error]; a reward has no tx           *)
(* Rows of the store carry the columns they came with; hashes, gas and the       *)
(* like are left out, but for the two a trace takes from elsewhere.           *)
(***************************************************************************)
EXTENDS FetchSpec

CONSTANT Chain  \* [block -> [logs, txs, traces]], each a finite set

Numbers == DOMAIN Chain
FirstNumber == Min(Numbers)
LastNumber == Max(Numbers)

(* The children that logs create, and the block that creates one first.        *)
IsCreation(f, log) ==
  /\ log.topic0 = Selector[f]
  /\ FactoryAddress[f] = Undefined \/ log.address \in ToSet(FactoryAddress[f])
CreatedIn(f, logs) == {log.topic1 : log \in {l \in logs : IsCreation(f, l)}}
Birth(f, address) == Min({n \in Numbers : address \in CreatedIn(f, Chain[n].logs)})

-----------------------------------------------------------------------------
(* The filters, on single rows.                                            *)
InBounds(f, n) ==
  (f.lo = Undefined \/ f.lo <= n) /\ (f.hi = Undefined \/ n <= f.hi)

(* A child is matched from the block that creates it.                        *)
AddressOk(ref, address, n, children) ==
  IF ref \in Factory
  THEN address \in ToSet(children[ref]) /\ Birth(ref, address) <= n
  ELSE ref = Undefined \/ address \in ToSet(ref)

LogMatches(f, log, n, children) ==
  /\ f.type = "log" /\ InBounds(f, n)
  /\ Admits(f.topic0, log.topic0) /\ Admits(f.topic1, log.topic1)
  /\ AddressOk(f.address, log.address, n, children)

TxMatches(f, tx, n, children) ==
  /\ f.type = "transaction" /\ InBounds(f, n)
  /\ AddressOk(f.from, tx.from, n, children) /\ AddressOk(f.to, tx.to, n, children)

TraceMatches(f, trace, n, children) ==
  /\ f.type \in {"trace", "transfer"} /\ InBounds(f, n)
  /\ f.type = "transfer" => trace.value > 0
  /\ AddressOk(f.from, trace.from, n, children) /\ AddressOk(f.to, trace.to, n, children)

BlockMatches(f, n) ==
  f.type = "block" /\ InBounds(f, n) /\ (n - f.offset) % f.interval = 0

IsReward(trace) == trace.tx = Undefined

LogKept(app, children, log, n) == \E i \in DOMAIN app : LogMatches(app[i], log, n, children)
TxKept(app, children, tx, n) == \E i \in DOMAIN app : TxMatches(app[i], tx, n, children)
TraceKept(app, children, trace, n) ==
  ~IsReward(trace) /\ \E i \in DOMAIN app : TraceMatches(app[i], trace, n, children)
BlockKept(app, n) == \E i \in DOMAIN app : BlockMatches(app[i], n)

-----------------------------------------------------------------------------
(* Traces are ranked in the whole tree of their transaction, parents first.     *)
DfsBefore(p, q) ==
  \/ IsStrictPrefix(p, q)
  \/ \E k \in DOMAIN p \cap DOMAIN q :
       p[k] < q[k] /\ SubSeq(p, 1, k - 1) = SubSeq(q, 1, k - 1)

(* What a map holds once an error is set at a path.                          *)
SetError(errors, path, error) ==
  [p \in DOMAIN errors \cup {path} |-> IF p = path THEN error ELSE errors[p]]

(* Mutant: only a frame's own error counts for its children.                 *)
InheritOnce(errors, trace) ==
  IF trace.error # Undefined THEN SetError(errors, trace.path, trace.error) ELSE errors

(* An error goes down to every descendant that has none of its own.          *)
Inherit(errors, trace) ==
  IF trace.error # Undefined THEN SetError(errors, trace.path, trace.error)
  ELSE IF trace.path # <<>> /\ Front(trace.path) \in DOMAIN errors
       THEN SetError(errors, trace.path, errors[Front(trace.path)])
       ELSE errors

(* Sorted: at each place the frame that as many others precede.               *)
Ahead(traces, t) == {u \in traces : DfsBefore(u.path, t.path)}
TreeOrder(traces) ==
  [i \in 1..Cardinality(traces) |->
     CHOOSE t \in traces : Cardinality(Ahead(traces, t)) = i - 1]
TreeErrors(traces) == FoldLeft(Inherit, <<>>, TreeOrder(traces))

(* The index of a trace is its place in the sorted tree.                      *)
RankTraces(traces) ==
  LET order == TreeOrder(traces)
      errors == TreeErrors(traces)
  IN  {[trace |-> t, index |-> (CHOOSE i \in DOMAIN order : order[i] = t) - 1,
        error |-> IF t.path \in DOMAIN errors THEN errors[t.path] ELSE Undefined] : t \in traces}

(* The root's gas is the limit of its transaction.                           *)
TraceRow(raw, r) ==
  [number |-> raw.number, tx |-> r.trace.tx, path |-> r.trace.path, index |-> r.index,
   error |-> r.error, gas |-> IF r.trace.path = <<>> THEN "limit" ELSE "frame", has |-> raw.has]

(* The ranked traces of a block that a filter wants.                          *)
BuildTraces(app, children, raw) ==
  LET Ranked(tx) == RankTraces({t \in raw.traces : t.tx = tx})
      ranked == UNION {Ranked(t.tx) : t \in {u \in raw.traces : ~IsReward(u)}}
  IN  {TraceRow(raw, r) : r \in {x \in ranked : TraceKept(app, children, x.trace, raw.number)}}

-----------------------------------------------------------------------------
(* A row that was put before another of the same key stays.                   *)
KeepFirst(rows, more) ==
  [key \in DOMAIN rows \cup DOMAIN more |-> IF key \in DOMAIN rows THEN rows[key] ELSE more[key]]

(* A transaction is named by its block and its hash.                         *)
Carries(raw, hash) == \E tx \in raw.txs : tx.hash = hash

(* Of the wanted transactions, those that came with a source, each as it came    *)
(* first.                                                                  *)
TxRows(buffer, wanted) ==
  [key \in {k \in wanted : \E i \in DOMAIN buffer[k[1]] : Carries(buffer[k[1]][i], k[2])} |->
     LET raws == buffer[key[1]]
     IN  raws[SelectInSeq(raws, LAMBDA raw : Carries(raw, key[2]))].has]

(* The header kept of block n: the last put by the log and block sources, the    *)
(* first by the others.                                                    *)
LastHeader(raws) == Last(raws).has
FirstHeader(raws) == Head(raws).has

AssembleRange(app, children, data, lo, hi) ==
  LET Raws(source) == UNION {ToSet(data[source][n]) : n \in lo..hi}
      KeptLogs(raw) == {l \in raw.logs : LogKept(app, children, l, raw.number)}
      KeptTxs(raw) == {t \in raw.txs : TxKept(app, children, t, raw.number)}
      logs == UNION {{[number |-> raw.number, log |-> l, has |-> raw.has] : l \in KeptLogs(raw)} :
                       raw \in Raws("log")}
      traces == UNION {BuildTraces(app, children, raw) : raw \in Raws("trace")}

      \* the transactions of kept logs only, of matched filters, of kept traces
      logTxs == TxRows(data["log"], {<<l.number, l.log.tx>> : l \in logs})
      filterTxs == TxRows(data["tx"], UNION {{<<raw.number, t.hash>> : t \in KeptTxs(raw)} :
                                               raw \in Raws("tx")})
      traceTxs == TxRows(data["trace"], {<<r.number, r.tx>> : r \in traces})
      unseen == DOMAIN filterTxs \ DOMAIN logTxs

      logBlocks == [n \in {l.number : l \in logs} |-> LastHeader(data["log"][n])]
      dueBlocks == [n \in {raw.number : raw \in Raws("block")} |-> LastHeader(data["block"][n])]
      txBlocks == [n \in {key[1] : key \in unseen} |-> FirstHeader(data["tx"][n])]
      traceBlocks == [n \in {r.number : r \in traces} |-> FirstHeader(data["trace"][n])]
      NoTxs == TxRows(data["log"], {})
  IN  [logs |-> logs, traces |-> traces,
       blocks |-> KeepFirst(traceBlocks, KeepFirst(txBlocks, KeepFirst(logBlocks, dueBlocks))),
       txs |-> KeepFirst(traceTxs, KeepFirst(logTxs, filterTxs)),
       receipts |-> KeepFirst(IF NeedReceipts(app) THEN logTxs ELSE NoTxs,
                              KeepFirst(filterTxs, IF NeedTraceReceipts(app) THEN traceTxs ELSE NoTxs))]
=============================================================================
