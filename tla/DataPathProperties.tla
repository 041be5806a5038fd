-------------------------- MODULE DataPathProperties --------------------------
(***************************************************************************)
(* What the data path promises: the store holds what ponder's own RPC sync     *)
(* would have put there, or the process stops.                              *)
(***************************************************************************)
EXTENDS DataPath

(* Every child there is, for what should be in the store.                    *)
Everyone ==
  [f \in Factory |-> SetToSeq(UNION {CreatedIn(f, Chain[n].logs) : n \in Numbers})]

WantedLogs(n) == {l \in Chain[n].logs : LogKept(app, Everyone, l, n)}
WantedTraces(n) == {t \in Chain[n].traces : TraceKept(app, Everyone, t, n)}
WantedTxs(n) == {t \in Chain[n].txs : TxKept(app, Everyone, t, n)}
Parents(n) ==
  {l.tx : l \in WantedLogs(n)} \cup {t.tx : t \in WantedTraces(n)} \cup {t.hash : t \in WantedTxs(n)}

(* Transactions whose receipt an event will ask for.                         *)
ReceiptsRead(n) ==
  {l.tx : l \in {x \in WantedLogs(n) :
     \E i \in DOMAIN app : app[i].receipt /\ LogMatches(app[i], x, n, Everyone)}}
  \cup {t.tx : t \in {x \in WantedTraces(n) :
     \E i \in DOMAIN app : app[i].receipt /\ TraceMatches(app[i], x, n, Everyone)}}
  \cup {t.hash : t \in WantedTxs(n)}

RowsAt(rows, n) == {key[2] : key \in {k \in DOMAIN rows : k[1] = n}}

(* A block of an interval that was synced is in the store with just the logs,  *)
(* transactions, traces and header that a filter asks for, whatever the         *)
(* merging of filters, the sharding of bodies, the batches of the streams and    *)
(* the extensions and evictions of the chunk were; and with the receipts that    *)
(* its events will read.                                                   *)
StoredExact ==
  \A n \in FirstNeeded..(done - 1) : n >= dataset.start =>
    /\ {l.log : l \in {x \in store.logs : x.number = n}} = WantedLogs(n)
    /\ {<<t.tx, t.path>> : t \in {x \in store.traces : x.number = n}}
         = {<<t.tx, t.path>> : t \in WantedTraces(n)}
    /\ RowsAt(store.txs, n) = Parents(n)
    /\ n \in DOMAIN store.blocks <=> Parents(n) # {} \/ BlockKept(app, n)
    /\ ReceiptsRead(n) \subseteq RowsAt(store.receipts, n)
    /\ RowsAt(store.receipts, n) \subseteq RowsAt(store.txs, n)

(* A trace that was kept has the index, error and gas of ponder's own RPC sync:  *)
(* its place among all the frames of its transaction, the error of its nearest  *)
(* ancestor that failed (its own first), and at the root the transaction's gas.  *)
TracesAsStock ==
  \A row \in store.traces :
    LET tree == {t \in Chain[row.number].traces : t.tx = row.tx}
        Failed == {t \in tree : t.error # Undefined /\ IsPrefix(t.path, row.path)}
    IN  /\ row.index = Cardinality({t \in tree : DfsBefore(t.path, row.path)})
        /\ row.error = (IF Failed = {} THEN Undefined
                        ELSE (CHOOSE t \in Failed : \A u \in Failed : Len(u.path) <= Len(t.path)).error)
        /\ row.gas = "limit" <=> \A t \in tree : IsPrefix(row.path, t.path)

(* No row of the store lacks a column that is not nullable: a dataset with a     *)
(* gap stops the process rather than leave a row without its bloom, its status   *)
(* or its input.                                                           *)
NoSilentGap ==
  /\ \A l \in store.logs : "log.data" \in l.has
  /\ \A t \in store.traces : "trace.frame" \in t.has
  /\ \A n \in DOMAIN store.blocks : "block.required" \in store.blocks[n]
  /\ \A h \in DOMAIN store.txs : "transaction.core" \in store.txs[h]
  /\ \A h \in DOMAIN store.receipts : "transaction.receipt" \in store.receipts[h]

(* The process stops for a gap only where a row of that very range would be     *)
(* kept, and for missing receipt columns only where a receipt would be: rows     *)
(* that the Portal returns and assembly drops (logs before their child's         *)
(* creation, traces no filter wants), or that the chunk already held, would      *)
(* otherwise stop it again after every restart.                             *)
FatalIsEarned ==
  fetch # NoFetch /\ fetch.failed = "gap" =>
    \E n \in fetch.from..fetch.to :
      /\ Parents(n) # {} \/ BlockKept(app, n)
      /\ fetch.missing \subseteq ReceiptFields =>
           \/ NeedReceipts(app) /\ WantedLogs(n) # {}
           \/ NeedTraceReceipts(app) /\ WantedTraces(n) # {}
           \/ WantedTxs(n) # {}

(* No body is ever sent that the Portal would refuse for its size: neither a     *)
(* shard of the backfill, nor a request of the realtime however many children    *)
(* there are.                                                              *)
BodiesFit ==
  /\ AtStream => \A i \in DOMAIN fetch.todo : Fits(fetch.todo[i])
  /\ live # NotLive /\ ~live.stopped => Fits(live.requests)

(* The realtime stream misses nothing, however often its filters were widened:   *)
(* each log a filter wants under the children known, and each creation, is        *)
(* asked for and gets past the trimming of wildcards.                        *)
RealtimeCovers ==
  live # NotLive /\ ~live.stopped =>
    \A n \in (DataEnd + 1)..LastNumber :
      {l \in Chain[n].logs : \/ LogKept(app, children, l, n)
                                    \/ \E f \in FactoriesOf(app) : IsCreation(f, l)}
        \subseteq Trimmed(n, LogsFor(live.requests, n))

(* What RealtimeCovers takes for granted of the app: the addresses of one request *)
(* of a factory's children are not those of a request of something else, no child *)
(* is a factory, and no event of a child is the creation of an address-less one.   *)
RequestsApart ==
  \A i \in DOMAIN app : app[i].type = "log" /\ app[i].address \in Factory =>
    /\ \A j \in DOMAIN app : app[j].type = "log" /\ app[j].address \notin {app[i].address, Undefined} =>
         \A b \in ToSet(Batches(children[app[i].address])),
            c \in ToSet(Batches(AddressesOf(app[j].address, children))) : ToSet(b) # ToSet(c)
    /\ \A f \in FactoriesOf(app) :
         IF FactoryAddress[f] = Undefined
         THEN app[i].topic0 = Undefined \/ Selector[f] \notin app[i].topic0
         ELSE ToSet(children[app[i].address]) \cap ToSet(FactoryAddress[f]) = {}
=============================================================================
