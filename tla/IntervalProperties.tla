-------------------------- MODULE IntervalProperties --------------------------
(***************************************************************************)
(* What the historical sync promises: about what is durable when an interval  *)
(* is marked cached, about what discovery claims, and that it finishes.       *)
(***************************************************************************)
EXTENDS IntervalSync

FirstBirth == BornIn(Blocks)
BlocksOf(i) == Lo(i)..Hi(i)

(* INV-15: an interval marked cached has its children in the store, at the     *)
(* block that first created them, whatever rolled back or crashed between     *)
(* (persistPendingChildren, pendingFlushes; portal.ts 747-805, 840-845).      *)
ChildrenPersisted ==
  \A i \in store.cached, c \in Child :
    FirstBirth[c] \in BlocksOf(i) => StoredBirths[c] = FirstBirth[c]

(* INV-2, INV-3, INV-13: an interval marked cached has every log of every       *)
(* child born by then, and no log of a child before its birth: no chunk was     *)
(* served beyond what it covers, or streamed under too narrow a filter        *)
(* (dataChunk, runStreams, assembleRange).                                  *)
LogsStored ==
  \A i \in store.cached : \A n \in BlocksOf(i) :
    {log \in store.logs : log[1] = n} = {n} \X {c \in Child : FirstBirth[c] <= n}

(* INV-17: no child is persisted twice under the same block, though flushes    *)
(* are restored after transactions that may have committed unseen             *)
(* (dedupeChildAddressesAgainstStore).                                      *)
RowsOnce == \A row \in Child \X Blocks : store.rows[row] <= 1

(* A child that has been found is never forgotten by the writer: it is in the   *)
(* store, queued, or in the flush of an interval that may still come back     *)
(* (takePendingInRange, restorePending, pendingFlushes).                    *)
NobodyStranded ==
  \A c \in Live :
    \/ StoredBirths[c] <= known[c]
    \/ queue[c] = known[c]
    \/ \E i \in Interval : pendingFlushes[i][c] = known[c]

(* INV-3: the confirmed watermark never covers a creation that no scan has     *)
(* seen and the store does not hold, failures and restarts at the durable     *)
(* frontier included (ensure, seed).                                        *)
WatermarkHonest ==
  up => \A creation \in Creations :
          creation[2] <= disc.confirmed => known[creation[1]] <= creation[2]

(* INV-3, INV-13: whatever a cached chunk claims to cover, once its jobs are    *)
(* done, it holds, for every child born by then: the coverage bounds that are  *)
(* moved ahead of the streams are true when the promise resolves              *)
(* (coveredFrom and coveredTo in dataChunk).                                *)
CoverageHonest ==
  \A idx \in Chunks :
    cache[idx] # NoId /\ entry[cache[idx]].jobs = <<>> =>
      LET e == entry[cache[idx]]
      IN  \A n \in e.from..e.to, c \in Child : FirstBirth[c] <= n => <<n, c>> \in e.data

(* INV-12: when an interval has been committed, its stash entry and its entry   *)
(* in delegated are consumed (syncBlockRangeData, syncBlockData).            *)
StashConsumed == \A i \in Interval : tx[i].at = "done" => i \notin stash \cup delegated

(* INV-2, INV-3, INV-15, INV-17 together: the store only ever gains a whole        *)
(* interval that it does not have, with exactly its children and logs; whatever   *)
(* fails, commits unseen, is retried or restarted shows nowhere in it            *)
(* (syncBlockRangeData, syncBlockData, persistPendingChildren).                *)
Whole == INSTANCE Backfill WITH
  Block <- Blocks,
  Own   <- [i \in Interval |-> BlocksOf(i)]
BackfillSpec == Whole!Spec

-----------------------------------------------------------------------------
(* Every promise settles and core keeps calling: each step of the process that *)
(* stays possible is taken.  Nothing is assumed of failures and crashes, of    *)
(* which there are finitely many, nor of the Portal's head.                 *)
Fairness ==
  /\ \A i \in Interval : WF_vars(Proceeds(i))
  /\ \A e \in Entry : WF_vars(Resume(e) \/ Stream(e) \/ StreamEnd(e))
  /\ WF_vars(ScanFind) /\ WF_vars(ScanEnd) /\ WF_vars(Restart)

FairSpec == Spec /\ Fairness

(* The backfill ends with every interval cached, or the process has stopped    *)
(* for good: no promise, scan or transaction is left waiting for ever         *)
(* (ensure, dataChunk, syncBlockRangeData).                                 *)
BackfillCompletes == <>(store.cached = Interval \/ (~up /\ boots = MaxBoots))
=============================================================================
