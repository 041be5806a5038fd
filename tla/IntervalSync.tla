----------------------------- MODULE IntervalSync -----------------------------
(***************************************************************************)
(* portal.ts as ponder's core drives it: each interval in a transaction that   *)
(* calls syncBlockRangeData, then syncBlockData, marks the interval cached and  *)
(* commits; on an error it rolls back and runs the callback again, or gives up. *)
(* The next interval starts as soon as the range data of this one is there,    *)
(* inside its still open transaction.                                       *)
(*                                                                         *)
(* Core, its store and the RPC sync are external, as portal.ts uses them.     *)
(* tx[i].at is where the transaction of interval i stands:                     *)
(*   "idle"      not dispatched yet      "ready"       to run the callback      *)
(*   "probing"   the head is to be probed                                     *)
(*   "fetching"  awaits its chunks       "flushing"    persists its children    *)
(*   "delegating"  the same, on the way to the RPC sync                       *)
(*   "ranged"    range data resolved     "thrown"      rolled back             *)
(*   "done"      committed                                                  *)
(***************************************************************************)
EXTENDS ChunkCache

CONSTANTS
  Bounds,       \* Bounds[i]: the blocks of interval i
  Readahead,    \* cfg.readahead
  StreamMode,   \* PORTAL_REALTIME=stream: no RPC fallback
  FirstFinal,   \* the Portal's finalized head at the start
  Faults,       \* what may fail: "scan", "stream", "insert", "logs",
                \* "rollback", "ack" (of a commit), "retries" (exhausted)
  MaxFailures,  \* bound: failures of any kind, until the end
  MaxBoots      \* bound: restarts of the process

ASSUME SyncAssumption ==
  /\ Interval = 1..Len(Bounds)
  /\ \A i \in Interval : Bounds[i].hi \in Blocks /\ Bounds[i].lo \in 0..Bounds[i].hi
  /\ Readahead \in Nat /\ StreamMode \in BOOLEAN /\ FirstFinal \in Blocks
  /\ MaxFailures \in Nat /\ MaxBoots \in Nat

VARIABLES
  tx,             \* the open transactions, and what they will commit
  pendingFlushes, \* pendingFlushes: interval -> last non-empty flush, or Nobody
  stash,          \* stash: intervals with block data to insert
  delegated,      \* delegated: intervals routed to RPC
  store,          \* [rows, logs, cached]: what is durable
  up,             \* the process runs
  failures, boots

discVars == <<disc, known, queue>>
streamVars == <<cache, entry, fetchQuantum>>
shellVars == <<tx, pendingFlushes, stash, delegated>>
boundVars == <<failures, boots>>
vars == <<discVars, streamVars, awaited, portalHead, final, shellVars, store, up, boundVars>>

Lo(i) == Bounds[i].lo
Hi(i) == Bounds[i].hi

NoTx == [at |-> "idle", rows |-> {}, logs |-> {}]
Places == {"idle", "ready", "probing", "fetching", "flushing", "delegating", "ranged",
           "thrown", "done"}

SyncTypeOK ==
  /\ \A i \in Interval :
       /\ tx[i].at \in Places /\ pendingFlushes[i] \in Births
       /\ tx[i].rows \subseteq Child \X Blocks /\ tx[i].logs \subseteq Blocks \X Child
       /\ tx[i].at # "ranged" => tx[i].rows = {} /\ tx[i].logs = {}
       /\ tx[i].at # "flushing" /\ tx[i].at # "fetching" => awaited[i] = {}
  /\ stash \subseteq Interval /\ delegated \subseteq Interval
  /\ store.rows \in [Child \X Blocks -> Nat] /\ store.logs \subseteq Blocks \X Child
  /\ store.cached \subseteq Interval
  /\ up \in BOOLEAN

(* Type correctness, with the shape the code relies on: the watermarks in order, *)
(* a cached entry under its own index, the quantum within a chunk, and nothing  *)
(* to commit or awaited but where a callback stands that has it (portal.ts     *)
(* 161-214).                                                               *)
TypeOK == DiscTypeOK /\ CacheTypeOK /\ SyncTypeOK

-----------------------------------------------------------------------------
(* The store.                                                             *)

(* getChildAddresses: the earliest block a child is persisted under.          *)
StoredBirths ==
  [c \in Child |-> Earliest({n \in Blocks : store.rows[<<c, n>>] > 0})]

(* Mutant: a plain INSERT of all that is flushed.                            *)
PlainInsert(flush) == {<<c, flush[c]>> : c \in {d \in Child : flush[d] # Unborn}}

(* dedupeChildAddressesAgainstStore: absent, or strictly earlier.            *)
Deduped(flush) == {<<c, flush[c]>> : c \in {d \in Child : flush[d] < StoredBirths[d]}}

(* What the commit of i makes durable.                                     *)
Durable(i) ==
  [rows   |-> [row \in Child \X Blocks |->
                 store.rows[row] + IF row \in tx[i].rows THEN 1 ELSE 0],
   logs   |-> store.logs \cup tx[i].logs,
   cached |-> store.cached \cup {i}]

-----------------------------------------------------------------------------
(* Core runs the intervals that are not cached, in order.                    *)
FirstOf(S) == CHOOSE i \in S : \A j \in S : i <= j
Dispatched(cached) ==
  [i \in Interval |->
     [NoTx EXCEPT !.at = IF i \in cached THEN "done"
                         ELSE IF i = FirstOf(Interval \ cached) THEN "ready" ELSE "idle"]]

Moved(i, at) == [tx EXCEPT ![i] = [NoTx EXCEPT !.at = at]]

(* i hands over its range data: the next interval is dispatched.             *)
Ranged(i, rows, logs) ==
  LET idle == {j \in Interval : j > i /\ tx[j].at = "idle"}
  IN  [j \in Interval |->
         IF j = i THEN [at |-> "ranged", rows |-> rows, logs |-> logs]
         ELSE IF idle # {} /\ j = FirstOf(idle) THEN [NoTx EXCEPT !.at = "ready"]
         ELSE tx[j]]

Fails(fault) ==
  /\ fault \in Faults /\ failures < MaxFailures
  /\ failures' = failures + 1 /\ UNCHANGED boots

Init ==
  /\ disc = NewDisc /\ known = Nobody /\ queue = Nobody
  /\ cache = NoChunks /\ entry = NoEntries /\ fetchQuantum = FirstQuantum
  /\ awaited = [i \in Interval |-> {}]
  /\ tx = Dispatched({})
  /\ pendingFlushes = [i \in Interval |-> Nobody]
  /\ stash = {} /\ delegated = {}
  /\ portalHead = -1 /\ final = FirstFinal
  /\ store = [rows |-> [row \in Child \X Blocks |-> 0], logs |-> {}, cached |-> {}]
  /\ up = TRUE /\ failures = 0 /\ boots = 0

-----------------------------------------------------------------------------
(* syncBlockRangeData.                                                     *)

(* Mutant: an interval that comes back does not get its flush back.          *)
RestoredNot(i) == queue

(* restorePending, on re-entry.                                            *)
Restored(i) == Lower(queue, pendingFlushes[i])

(* The interval ends past the head known: it is to be probed.                *)
Enter(i) ==
  /\ tx[i].at = "ready" /\ portalHead < Hi(i)
  /\ queue' = Restored(i)
  /\ pendingFlushes' = [pendingFlushes EXCEPT ![i] = Nobody]
  /\ tx' = Moved(i, "probing")
  /\ UNCHANGED <<disc, known, streamVars, awaited, portalHead, final, stash, delegated,
                 store, up, boundVars>>

(* refreshPortalHead: the probe fails, or is answered by any replica.         *)
Probe(i) ==
  /\ tx[i].at = "probing" /\ portalHead < Hi(i)
  /\ \E h \in -1..final : portalHead' = Larger(portalHead, h)

LearnHead(i) ==
  /\ Probe(i) /\ portalHead' >= Hi(i)
  /\ UNCHANGED <<discVars, streamVars, awaited, final, shellVars, store, up, boundVars>>

(* No RPC to fall back on: fatal.                                          *)
RefuseGap(i) ==
  /\ StreamMode
  /\ Probe(i) /\ portalHead' < Hi(i)
  /\ tx' = Moved(i, "thrown")
  /\ UNCHANGED <<discVars, streamVars, awaited, final, pendingFlushes, stash, delegated,
                 store, up, boundVars>>

(* Mutant: no record of the flush is kept.                                  *)
TakeUnrecorded(i) ==
  /\ queue' = OutOfRange(queue, Lo(i), Hi(i))
  /\ UNCHANGED pendingFlushes

(* takePendingInRange, and the record of the flush that outlives a rollback.  *)
Take(i) ==
  /\ queue' = OutOfRange(queue, Lo(i), Hi(i))
  /\ pendingFlushes' = [pendingFlushes EXCEPT ![i] = InRange(queue, Lo(i), Hi(i))]

(* Mutant: the pending children are left to the RPC sync.                    *)
TakeNothing(i) == UNCHANGED <<queue, pendingFlushes>>

TakeDelegated(i) == Take(i)

(* The finality gap: the whole interval goes to the RPC sync, but for the     *)
(* children already pending.                                               *)
Delegate(i) ==
  /\ ~StreamMode
  /\ Probe(i) /\ portalHead' < Hi(i)
  /\ delegated' = delegated \cup {i}
  /\ TakeDelegated(i)
  /\ tx' = Moved(i, "delegating")
  /\ UNCHANGED <<disc, known, streamVars, awaited, final, stash, store, up, boundVars>>

(* The Portal path: seed discovery, ask for every chunk of the interval.      *)
AskChunks(i) ==
  LET d == IF Warmup = 0 THEN disc ELSE Seeded(disc, Lo(i) - 1)
  IN  /\ tx[i].at \in {"ready", "probing"} /\ portalHead >= Hi(i)
      /\ queue' = Restored(i)
      /\ pendingFlushes' = [pendingFlushes EXCEPT ![i] = Nobody]
      /\ \E asked \in {AskRange([Asking EXCEPT !.disc = d], Lo(i), Hi(i))} :
           /\ ~asked.full
           /\ awaited' = [awaited EXCEPT ![i] = IF asked.refused THEN {} ELSE asked.promises]
           /\ disc' = asked.disc /\ cache' = asked.cache
           /\ entry' = Swept(asked.entry, asked.cache, awaited')
           /\ tx' = Moved(i, IF asked.refused THEN "thrown" ELSE "fetching")
      /\ UNCHANGED <<known, fetchQuantum, portalHead, final, stash, delegated,
                     store, up, boundVars>>

(* One of the chunks was rejected.                                         *)
FetchThrows(i) ==
  /\ tx[i].at = "fetching" /\ Refused(i)
  /\ awaited' = [awaited EXCEPT ![i] = {}]
  /\ entry' = Swept(entry, cache, awaited')
  /\ tx' = Moved(i, "thrown")
  /\ UNCHANGED <<discVars, cache, fetchQuantum, portalHead, final, pendingFlushes, stash,
                 delegated, store, up, boundVars>>

(* All are there: persistPendingChildren begins.                             *)
Flush(i) ==
  /\ tx[i].at = "fetching" /\ Served(i)
  /\ Take(i)
  /\ tx' = Moved(i, "flushing")
  /\ UNCHANGED <<disc, known, streamVars, awaited, portalHead, final, stash, delegated,
                 store, up, boundVars>>

(* Its insert fails: the queue is restored at once.                          *)
InsertFails(i) ==
  /\ tx[i].at \in {"flushing", "delegating"}
  /\ Fails("insert")
  /\ queue' = Restored(i)
  /\ pendingFlushes' = [pendingFlushes EXCEPT ![i] = Nobody]
  /\ awaited' = [awaited EXCEPT ![i] = {}]
  /\ entry' = Swept(entry, cache, awaited')
  /\ tx' = Moved(i, "thrown")
  /\ UNCHANGED <<disc, known, cache, fetchQuantum, portalHead, final, stash, delegated,
                 store, up>>

(* The children are inserted: read ahead, assemble, evict.                   *)
Assemble(i) ==
  \E saturated \in BOOLEAN :
    LET idxs == ReadAheadPlan(IdxOf(Hi(i)), DataEnd, Readahead, saturated)
    IN  /\ tx[i].at = "flushing"
        /\ awaited' = [awaited EXCEPT ![i] = {}]
        /\ \E ahead \in {ReadAhead(Asking, idxs)} :
             /\ ~ahead.full
             /\ disc' = ahead.disc
             /\ cache' = EvictedBehind(ahead.cache, Lo(i))
             /\ entry' = Swept(ahead.entry, cache', awaited')

(* insertLogs and the stash, and the range data is handed over.              *)
Serve(i) ==
  /\ Assemble(i)
  /\ tx' = Ranged(i, Deduped(pendingFlushes[i]), Assembled(i, Lo(i), Hi(i)))
  /\ stash' = stash \cup {i}
  /\ UNCHANGED <<known, queue, fetchQuantum, portalHead, final, pendingFlushes, delegated,
                 store, up, boundVars>>

InsertLogsFails(i) ==
  /\ Fails("logs")
  /\ Assemble(i)
  /\ tx' = Moved(i, "thrown")
  /\ UNCHANGED <<known, queue, fetchQuantum, portalHead, final, pendingFlushes, stash,
                 delegated, store, up>>

(* The RPC sync finds the children of the interval, but persists only those    *)
(* not in the child map it shares.                                          *)
FallBack(i) ==
  LET born == BornIn(Lo(i)..Hi(i))
      found == {c \in Child : born[c] < known[c]}
  IN  /\ tx[i].at = "delegating"
      /\ known' = Lower(known, born)
      /\ tx' = Ranged(i, Deduped(pendingFlushes[i]) \cup {<<c, born[c]>> : c \in found},
                      {log \in (Lo(i)..Hi(i)) \X Child : known'[log[2]] <= log[1]})
      /\ UNCHANGED <<disc, queue, streamVars, awaited, portalHead, final, pendingFlushes,
                     stash, delegated, store, up, boundVars>>

-----------------------------------------------------------------------------
(* Mutant: the stash entry is read but not deleted.                          *)
ConsumeKeeping(i) ==
  /\ delegated' = delegated \ {i}
  /\ UNCHANGED stash

(* syncBlockData takes the delegated entry, or else the stash.                *)
Consume(i) ==
  IF i \in delegated
    THEN delegated' = delegated \ {i} /\ UNCHANGED stash
    ELSE stash' = stash \ {i} /\ UNCHANGED delegated

Commit(i) ==
  /\ tx[i].at = "ranged"
  /\ Consume(i)
  /\ store' = Durable(i)
  /\ tx' = Moved(i, "done")
  /\ UNCHANGED <<discVars, streamVars, awaited, portalHead, final, pendingFlushes, up,
                 boundVars>>

(* The commit went through, but the connection broke before the answer.       *)
CommitUnseen(i) ==
  /\ tx[i].at = "ranged"
  /\ Fails("ack")
  /\ Consume(i)
  /\ store' = Durable(i)
  /\ tx' = Moved(i, "thrown")
  /\ UNCHANGED <<discVars, streamVars, awaited, portalHead, final, pendingFlushes, up>>

(* The transaction fails, before or after syncBlockData.                     *)
Rollback(i) ==
  /\ tx[i].at = "ranged"
  /\ Fails("rollback")
  /\ Consume(i) \/ UNCHANGED <<stash, delegated>>
  /\ tx' = Moved(i, "thrown")
  /\ UNCHANGED <<discVars, streamVars, awaited, portalHead, final, pendingFlushes, store, up>>

(* Core runs the callback of a failed transaction again.                     *)
Retry(i) ==
  /\ tx[i].at = "thrown"
  /\ tx' = Moved(i, "ready")
  /\ UNCHANGED <<discVars, streamVars, awaited, portalHead, final, pendingFlushes, stash,
                 delegated, store, up, boundVars>>

-----------------------------------------------------------------------------
(* The process dies, by a crash or when retries are exhausted, and is started   *)
(* again: its memory is gone, and the children are loaded from the store.      *)
Die ==
  /\ boots < MaxBoots \/ \E i \in Interval : tx[i].at = "thrown" /\ "retries" \in Faults
  /\ up' = FALSE
  /\ disc' = NewDisc /\ known' = Nobody /\ queue' = Nobody
  /\ cache' = NoChunks /\ entry' = NoEntries /\ fetchQuantum' = FirstQuantum
  /\ awaited' = [i \in Interval |-> {}]
  /\ tx' = [i \in Interval |-> NoTx]
  /\ pendingFlushes' = [i \in Interval |-> Nobody]
  /\ stash' = {} /\ delegated' = {}
  /\ portalHead' = -1
  /\ UNCHANGED <<final, store, boundVars>>

Restart ==
  /\ ~up /\ boots < MaxBoots
  /\ up' = TRUE /\ boots' = boots + 1
  /\ known' = StoredBirths
  /\ tx' = Dispatched(store.cached)
  /\ UNCHANGED <<disc, queue, streamVars, awaited, portalHead, final, pendingFlushes, stash,
                 delegated, store, failures>>

(* External: the Portal finalizes another block.                             *)
Finalize ==
  /\ final < LastBlock
  /\ final' = final + 1
  /\ UNCHANGED <<discVars, streamVars, awaited, portalHead, shellVars, store, up, boundVars>>

-----------------------------------------------------------------------------
ShellIdle == UNCHANGED <<awaited, portalHead, final, shellVars, store, up>>

ScanFind == ShellIdle /\ UNCHANGED boundVars /\ \E n \in Blocks : Scan(n)
ScanEnd == ShellIdle /\ UNCHANGED boundVars /\ ScanEnds
ScanFail == ShellIdle /\ Fails("scan") /\ ScanFails
Resume(e) == ShellIdle /\ UNCHANGED boundVars /\ Resumes(e)
Stream(e) == ShellIdle /\ UNCHANGED boundVars /\ Streams(e)
StreamEnd(e) == ShellIdle /\ UNCHANGED boundVars /\ StreamEnds(e)
StreamFail(e) == ShellIdle /\ Fails("stream") /\ StreamFails(e)

Finished == store.cached = Interval /\ UNCHANGED vars
Stopped == ~up /\ boots = MaxBoots /\ UNCHANGED vars

Proceeds(i) ==
  \/ Enter(i) \/ LearnHead(i) \/ Delegate(i) \/ AskChunks(i) \/ FetchThrows(i) \/ Flush(i)
  \/ Serve(i) \/ FallBack(i) \/ Commit(i) \/ Retry(i)

Next ==
  \/ \E i \in Interval :
       \/ Enter(i) \/ LearnHead(i) \/ RefuseGap(i) \/ Delegate(i) \/ AskChunks(i)
       \/ FetchThrows(i) \/ Flush(i) \/ InsertFails(i) \/ Serve(i) \/ InsertLogsFails(i)
       \/ FallBack(i) \/ Commit(i) \/ CommitUnseen(i) \/ Rollback(i) \/ Retry(i)
  \/ \E e \in Entry : Resume(e) \/ Stream(e) \/ StreamEnd(e) \/ StreamFail(e)
  \/ ScanFind \/ ScanEnd \/ ScanFail
  \/ Die \/ Restart \/ Finalize \/ Finished \/ Stopped

Spec == Init /\ [][Next]_vars
=============================================================================
