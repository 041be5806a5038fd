---------------------------- MODULE IntervalProofs ----------------------------
(***************************************************************************)
(* What the historical sync promises, for any intervals, children and chunks,  *)
(* any failures and any restarts.  First the shell: no child that was found is *)
(* ever forgotten, where what the chunk cache and the scans do appears only as *)
(* "known and queue are lowered together".  Then the reach of scans, jobs and  *)
(* promises, hence what the writer has found when it flushes an interval, and  *)
(* so what is durable when it is cached.  Then that nothing is stored twice.   *)
(* Then the logs: what a chunk covers, what a promise vouches for, and so what  *)
(* an interval hands over and has in the store when it is cached.  Last, that   *)
(* the store is the one of Backfill, whose only step is a whole interval.       *)
(***************************************************************************)
EXTENDS IntervalShapes

Kinds ==
  /\ known \in Births /\ queue \in Births
  /\ pendingFlushes \in [Interval -> Births]
  /\ store.rows \in [Child \X Blocks -> Nat]
  /\ tx = [i \in Interval |-> tx[i]]
  /\ up \in BOOLEAN

(* Whatever is queued or recorded was found, perhaps at a later block than     *)
(* the earliest known by now.                                              *)
NothingEarlier ==
  \A c \in Child : /\ known[c] <= queue[c]
                   /\ \A i \in Interval : known[c] <= pendingFlushes[i][c]

(* An interval that may come to take its children has no record left that the *)
(* new one would overwrite; nobody is on the way to the RPC sync.             *)
NothingOverwritten ==
  \A i \in Interval : /\ tx[i].at \in {"probing", "fetching"} => pendingFlushes[i] = Nobody
                      /\ tx[i].at # "delegating"

(* A process that is down has nothing in memory, and nothing under way.        *)
NothingRuns ==
  ~up => /\ queue = Nobody /\ \A i \in Interval : pendingFlushes[i] = Nobody
         /\ \A i \in Interval : tx[i].at = "idle"
         /\ disc.scans = <<>> /\ disc.stray = {}
         /\ \A e \in Entry : entry[e].at = "free"

IInv == Kinds /\ NothingEarlier /\ NothingOverwritten /\ NothingRuns /\ NobodyStranded

-----------------------------------------------------------------------------
(* The three ways in which the queue, the records and the child map change.    *)

(* The writer's memory, apart from where each callback stands.               *)
Ordered ==
  /\ known \in Births /\ queue \in Births
  /\ pendingFlushes \in [Interval -> Births]
  /\ NothingEarlier
Remembered == Ordered /\ NobodyStranded

LEMMA BoundsOfMemory ==
  ASSUME Kinds
  PROVE  \A c \in Child : /\ known[c] \in 0..Unborn /\ queue[c] \in 0..Unborn
                          /\ \A j \in Interval : pendingFlushes[j][c] \in 0..Unborn
PROOF
BY DEF Kinds, Births

LEMMA SameMemory ==
  ASSUME IInv, UNCHANGED <<known, queue, pendingFlushes, store>>
  PROVE  Remembered'
PROOF
<1>1. StoredBirths' = StoredBirths BY DEF StoredBirths
<1> QED BY <1>1 DEF IInv, Kinds, NothingEarlier, NobodyStranded, Ordered, Remembered, Live

(* A record goes back to the queue.                                        *)
LEMMA RestoringOrders ==
  ASSUME Kinds, NothingEarlier, NEW i \in Interval,
         queue' = Restored(i), pendingFlushes' = [pendingFlushes EXCEPT ![i] = Nobody],
         UNCHANGED known
  PROVE  /\ Ordered'
         /\ \A c \in Child : queue'[c] = Smaller(queue[c], pendingFlushes[i][c])
         /\ \A c \in Child, j \in Interval :
              pendingFlushes'[j][c] = IF j = i THEN Unborn ELSE pendingFlushes[j][c]
PROOF
<1> USE GridAssumption, BoundsOfMemory
<1>1. queue' = [c \in Child |-> Smaller(queue[c], pendingFlushes[i][c])]
  BY DEF Restored, Lower
<1>2. queue' \in Births BY <1>1 DEF Births, Smaller
<1>3. pendingFlushes' \in [Interval -> Births] BY NobodyOK DEF Kinds
<1>4. \A c \in Child, j \in Interval :
        pendingFlushes'[j][c] = IF j = i THEN Unborn ELSE pendingFlushes[j][c]
  BY NobodyOK DEF Kinds
<1>5. NothingEarlier' BY <1>1, <1>4 DEF NothingEarlier, Smaller, Unborn
<1> QED BY <1>1, <1>2, <1>3, <1>4, <1>5 DEF Ordered, Kinds

(* It is not lost there, because nothing queued is earlier than what is known. *)
LEMMA RestoringKeeps ==
  ASSUME IInv, NEW i \in Interval,
         queue' = Restored(i), pendingFlushes' = [pendingFlushes EXCEPT ![i] = Nobody],
         UNCHANGED <<known, store>>
  PROVE  Remembered'
PROOF
<1>1. StoredBirths' = StoredBirths BY DEF StoredBirths
<1>2. Kinds /\ NothingEarlier BY DEF IInv
<1>3. /\ Ordered'
      /\ \A c \in Child : queue'[c] = Smaller(queue[c], pendingFlushes[i][c])
      /\ \A c \in Child, j \in Interval :
           pendingFlushes'[j][c] = IF j = i THEN Unborn ELSE pendingFlushes[j][c]
  BY <1>2, RestoringOrders
<1>4. NobodyStranded'
  <2> SUFFICES ASSUME NEW c \in Child, known[c] # Unborn
               PROVE  \/ StoredBirths[c] <= known[c]
                      \/ queue'[c] = known[c]
                      \/ \E j \in Interval : pendingFlushes'[j][c] = known[c]
    BY <1>1 DEF NobodyStranded, Live
  <2>1. CASE StoredBirths[c] <= known[c] BY <2>1
  <2>2. CASE queue[c] = known[c] \/ pendingFlushes[i][c] = known[c]
    BY <2>2, <1>2, <1>3, BoundsOfMemory, GridAssumption DEF NothingEarlier, Smaller, Unborn
  <2>3. CASE \E j \in Interval : j # i /\ pendingFlushes[j][c] = known[c]
    BY <2>3, <1>3
  <2> QED BY <2>1, <2>2, <2>3 DEF IInv, NobodyStranded, Live
<1> QED BY <1>3, <1>4 DEF Remembered

(* What is taken goes from the queue to a record.                            *)
LEMMA TakingOrders ==
  ASSUME Kinds, NothingEarlier, NEW i \in Interval, Take(i), UNCHANGED known
  PROVE  /\ Ordered'
         /\ \A c \in Child :
              queue'[c] = IF queue[c] \in Lo(i)..Hi(i) THEN Unborn ELSE queue[c]
         /\ \A c \in Child, j \in Interval :
              pendingFlushes'[j][c] = IF j # i THEN pendingFlushes[j][c]
                                      ELSE IF queue[c] \in Lo(i)..Hi(i) THEN queue[c] ELSE Unborn
PROOF
<1> USE GridAssumption, BoundsOfMemory
<1> DEFINE Here(c) == queue[c] \in Lo(i)..Hi(i)
<1>1. queue' = [c \in Child |-> IF Here(c) THEN Unborn ELSE queue[c]]
  BY DEF Take, OutOfRange
<1>2. pendingFlushes' = [pendingFlushes EXCEPT
                           ![i] = [c \in Child |-> IF Here(c) THEN queue[c] ELSE Unborn]]
  BY DEF Take, InRange
<1> HIDE DEF Here
<1>3. queue' \in Births BY <1>1 DEF Births, Unborn
<1>4. [c \in Child |-> IF Here(c) THEN queue[c] ELSE Unborn] \in Births
  BY DEF Births, Unborn
<1>5. pendingFlushes' \in [Interval -> Births] BY <1>2, <1>4 DEF Kinds
<1>6. \A c \in Child, j \in Interval :
        pendingFlushes'[j][c] = IF j # i THEN pendingFlushes[j][c]
                                ELSE IF Here(c) THEN queue[c] ELSE Unborn
  BY <1>2 DEF Kinds
<1>7. NothingEarlier' BY <1>1, <1>6 DEF NothingEarlier, Unborn
<1>8. Ordered' BY <1>3, <1>5, <1>7 DEF Ordered, Kinds
<1> QED BY <1>1, <1>6, <1>8 DEF Here

(* It replaces no record of an earlier attempt.                              *)
LEMMA TakingKeeps ==
  ASSUME IInv, NEW i \in Interval, pendingFlushes[i] = Nobody,
         Take(i), UNCHANGED <<known, store>>
  PROVE  Remembered'
PROOF
<1>1. StoredBirths' = StoredBirths BY DEF StoredBirths
<1>2. Kinds /\ NothingEarlier BY DEF IInv
<1>3. /\ Ordered'
      /\ \A c \in Child :
           queue'[c] = IF queue[c] \in Lo(i)..Hi(i) THEN Unborn ELSE queue[c]
      /\ \A c \in Child, j \in Interval :
           pendingFlushes'[j][c] = IF j # i THEN pendingFlushes[j][c]
                                   ELSE IF queue[c] \in Lo(i)..Hi(i) THEN queue[c] ELSE Unborn
  BY <1>2, TakingOrders
<1>4. NobodyStranded'
  <2> SUFFICES ASSUME NEW c \in Child, known[c] # Unborn
               PROVE  \/ StoredBirths[c] <= known[c]
                      \/ queue'[c] = known[c]
                      \/ \E j \in Interval : pendingFlushes'[j][c] = known[c]
    BY <1>1 DEF NobodyStranded, Live
  <2>1. CASE StoredBirths[c] <= known[c] BY <2>1
  <2>2. CASE queue[c] = known[c] BY <2>2, <1>3
  <2>3. CASE \E j \in Interval : pendingFlushes[j][c] = known[c]
    <3>1. PICK j \in Interval : pendingFlushes[j][c] = known[c] BY <2>3
    <3>2. j # i BY <3>1, NobodyOK
    <3> QED BY <3>1, <3>2, <1>3
  <2> QED BY <2>1, <2>2, <2>3 DEF IInv, NobodyStranded, Live
<1> QED BY <1>3, <1>4 DEF Remembered

(* A creation is queued exactly when it lowers what is known.                 *)
LEMMA RecordingOrders ==
  ASSUME Kinds, NothingEarlier, NEW n \in Blocks, Records(n), UNCHANGED pendingFlushes
  PROVE  /\ Ordered'
         /\ \A c \in Child : \/ known'[c] = known[c] /\ queue'[c] = queue[c]
                             \/ known'[c] < known[c] /\ queue'[c] = known'[c]
PROOF
<1> USE GridAssumption, BoundsOfMemory
<1> DEFINE born == BornIn({n})
<1>1. \A c \in Child : born[c] \in 0..Unborn BY BornOK DEF Births
<1>2. known' = [c \in Child |-> Smaller(known[c], born[c])] BY DEF Records, Lower
<1>3. queue' = [c \in Child |-> IF born[c] < known[c] THEN born[c] ELSE queue[c]]
  BY DEF Records
<1> HIDE DEF born
<1>4. known' \in Births /\ queue' \in Births
  BY <1>1, <1>2, <1>3 DEF Births, Smaller
<1>5. \A c \in Child : \/ known'[c] = known[c] /\ queue'[c] = queue[c]
                       \/ known'[c] < known[c] /\ queue'[c] = known'[c]
  BY <1>1, <1>2, <1>3 DEF Smaller
<1>6. NothingEarlier'
  BY <1>1, <1>2, <1>3 DEF NothingEarlier, Smaller
<1> QED BY <1>4, <1>5, <1>6 DEF Ordered, Kinds

LEMMA RecordingKeeps ==
  ASSUME IInv, NEW n \in Blocks, Records(n), UNCHANGED <<pendingFlushes, store>>
  PROVE  Remembered'
PROOF
<1>1. StoredBirths' = StoredBirths BY DEF StoredBirths
<1>2. Kinds /\ NothingEarlier BY DEF IInv
<1>3. /\ Ordered'
      /\ \A c \in Child : \/ known'[c] = known[c] /\ queue'[c] = queue[c]
                          \/ known'[c] < known[c] /\ queue'[c] = known'[c]
  BY <1>2, RecordingOrders
<1>4. NobodyStranded' BY <1>1, <1>3 DEF IInv, NobodyStranded, Live
<1> QED BY <1>3, <1>4 DEF Remembered

-----------------------------------------------------------------------------
(* Where the callbacks stand.                                              *)

LEMMA MovedOK ==
  ASSUME Kinds, NEW i \in Interval, NEW at
  PROVE  /\ Moved(i, at) = [j \in Interval |-> Moved(i, at)[j]]
         /\ Moved(i, at)[i].at = at
         /\ \A j \in Interval : j # i => Moved(i, at)[j] = tx[j]
PROOF
BY DEF Kinds, Moved, NoTx

LEMMA RangedOK ==
  ASSUME Kinds, NEW i \in Interval, NEW rows, NEW logs
  PROVE  /\ Ranged(i, rows, logs) = [j \in Interval |-> Ranged(i, rows, logs)[j]]
         /\ \A j \in Interval :
              \/ Ranged(i, rows, logs)[j].at \in {"ranged", "ready"}
              \/ Ranged(i, rows, logs)[j] = tx[j]
PROOF
BY DEF Kinds, Ranged, NoTx

(* A step of an interval, whatever became of the memory: it runs only while     *)
(* the process does, and leaves the other callbacks where they stand.         *)
LEMMA IntervalMoves ==
  ASSUME IInv, Remembered', UNCHANGED up,
         NEW i \in Interval, tx[i].at # "idle",
         \A j \in Interval : j # i => pendingFlushes'[j] = pendingFlushes[j],
         \/ UNCHANGED <<tx, pendingFlushes>>
         \/ \E at : /\ tx' = Moved(i, at) /\ at # "delegating"
                    /\ at \in {"probing", "fetching"} => pendingFlushes'[i] = Nobody
         \/ /\ UNCHANGED pendingFlushes
            /\ \E rows, logs : tx' = Ranged(i, rows, logs),
         store'.rows \in [Child \X Blocks -> Nat]
  PROVE  IInv'
PROOF
<1>1. up BY DEF IInv, NothingRuns, Kinds
<1>2. NothingRuns' BY <1>1 DEF NothingRuns
<1>3. tx' = [j \in Interval |-> tx'[j]] /\ NothingOverwritten'
  <2>1. CASE UNCHANGED <<tx, pendingFlushes>>
    BY <2>1 DEF IInv, Kinds, NothingOverwritten
  <2>2. CASE \E at : /\ tx' = Moved(i, at) /\ at # "delegating"
                     /\ at \in {"probing", "fetching"} => pendingFlushes'[i] = Nobody
    <3>1. PICK at : /\ tx' = Moved(i, at) /\ at # "delegating"
                    /\ at \in {"probing", "fetching"} => pendingFlushes'[i] = Nobody
      BY <2>2
    <3>2. /\ tx' = [j \in Interval |-> tx'[j]]
          /\ tx'[i].at = at
          /\ \A j \in Interval : j # i => tx'[j] = tx[j]
      BY <3>1, MovedOK DEF IInv
    <3> QED BY <3>1, <3>2 DEF IInv, NothingOverwritten
  <2>3. CASE /\ UNCHANGED pendingFlushes
             /\ \E rows, logs : tx' = Ranged(i, rows, logs)
    <3>1. PICK rows, logs : tx' = Ranged(i, rows, logs) BY <2>3
    <3>2. /\ tx' = [j \in Interval |-> tx'[j]]
          /\ \A j \in Interval : tx'[j].at \in {"ranged", "ready"} \/ tx'[j] = tx[j]
      BY <3>1, RangedOK DEF IInv
    <3> QED BY <2>3, <3>2 DEF IInv, NothingOverwritten
  <2> QED BY <2>1, <2>2, <2>3
<1> QED BY <1>1, <1>2, <1>3 DEF IInv, Kinds, Ordered, Remembered

(* The same, for a step that takes the callback to a place it names.          *)
LEMMA IntervalMovesTo ==
  ASSUME IInv, Remembered', UNCHANGED <<store, up>>,
         NEW i \in Interval, tx[i].at # "idle",
         \A j \in Interval : j # i => pendingFlushes'[j] = pendingFlushes[j],
         NEW at, tx' = Moved(i, at), at # "delegating",
         at \in {"probing", "fetching"} => pendingFlushes'[i] = Nobody
  PROVE  IInv'
PROOF
<1>1. store'.rows \in [Child \X Blocks -> Nat] BY DEF IInv, Kinds
<1>2. \E a : /\ tx' = Moved(i, a) /\ a # "delegating"
              /\ a \in {"probing", "fetching"} => pendingFlushes'[i] = Nobody
  OBVIOUS
<1> QED BY <1>1, <1>2, IntervalMoves

(* A commit only adds rows.                                                *)
LEMMA CommitKeeps ==
  ASSUME IInv, NEW i \in Interval, store' = Durable(i),
         UNCHANGED <<known, queue, pendingFlushes>>
  PROVE  Remembered' /\ store'.rows \in [Child \X Blocks -> Nat]
PROOF
<1>1. store'.rows = [row \in Child \X Blocks |->
                       store.rows[row] + IF row \in tx[i].rows THEN 1 ELSE 0]
  BY DEF Durable
<1>2. store.rows \in [Child \X Blocks -> Nat] BY DEF IInv, Kinds
<1>3. \A row \in Child \X Blocks : store'.rows[row] \in Nat
                                   /\ store'.rows[row] >= store.rows[row]
  <2> SUFFICES ASSUME NEW row \in Child \X Blocks
               PROVE  store'.rows[row] \in Nat /\ store'.rows[row] >= store.rows[row]
    OBVIOUS
  <2>1. CASE row \in tx[i].rows BY <2>1, <1>1, <1>2
  <2>2. CASE row \notin tx[i].rows BY <2>2, <1>1, <1>2
  <2> QED BY <2>1, <2>2
<1>4. store'.rows \in [Child \X Blocks -> Nat] BY <1>1, <1>3
<1>5. \A c \in Child : StoredBirths'[c] <= StoredBirths[c]
  <2>1. \A row \in Child \X Blocks : store.rows[row] > 0 => store'.rows[row] > 0
    BY <1>2, <1>3
  <2> QED BY <2>1, StoredStays
<1>6. NobodyStranded'
  <2>1. \A c \in Child : /\ StoredBirths[c] \in Int /\ StoredBirths'[c] \in Int
                         /\ known[c] \in Int
    <3>1. BirthsOK!1' BY BirthsOK, PTL
    <3> QED BY <3>1, BirthsOK, GridAssumption DEF Births, Unborn, IInv, Kinds
  <2> QED BY <1>5, <2>1 DEF IInv, NobodyStranded, Live
<1> QED BY <1>4, <1>6 DEF IInv, Kinds, NothingEarlier, Ordered, Remembered

-----------------------------------------------------------------------------
(* The invariant.                                                          *)

LEMMA InitOK == Init => IInv
PROOF
<1> SUFFICES ASSUME Init PROVE IInv OBVIOUS
<1>1. tx = Dispatched({}) /\ up = TRUE BY DEF Init
<1>2. tx = [i \in Interval |-> tx[i]] /\ \A i \in Interval : tx[i].at \in {"done", "ready", "idle"}
  BY <1>1 DEF Dispatched, NoTx
<1>3. Kinds
  BY <1>1, <1>2, NobodyOK DEF Init, Kinds
<1>4. NothingEarlier /\ NobodyStranded
  BY NobodyOK, GridAssumption DEF Init, NothingEarlier, NobodyStranded, Live, Unborn
<1>5. NothingOverwritten BY <1>2 DEF Init, NothingOverwritten
<1>6. NothingRuns BY <1>1 DEF NothingRuns
<1> QED BY <1>3, <1>4, <1>5, <1>6 DEF IInv

LEMMA IntervalStep ==
  ASSUME IInv, StreamMode, NEW i \in Interval,
         \/ Enter(i) \/ LearnHead(i) \/ RefuseGap(i) \/ Delegate(i) \/ AskChunks(i)
         \/ FetchThrows(i) \/ Flush(i) \/ InsertFails(i) \/ Serve(i) \/ InsertLogsFails(i)
         \/ FallBack(i) \/ Commit(i) \/ CommitUnseen(i) \/ Rollback(i) \/ Retry(i)
  PROVE  IInv'
PROOF
<1>k. Kinds /\ store.rows \in [Child \X Blocks -> Nat] BY DEF IInv, Kinds
<1>1. CASE Enter(i)
  <2>1. Remembered' BY <1>1, RestoringKeeps DEF Enter
  <2>2. pendingFlushes'[i] = Nobody /\ \A j \in Interval : j # i => pendingFlushes'[j] = pendingFlushes[j]
    BY <1>1 DEF Enter, IInv, Kinds
  <2> QED BY <1>1, <1>k, <2>1, <2>2, IntervalMoves DEF Enter
<1>2. CASE LearnHead(i)
  BY <1>2, <1>k, SameMemory, IntervalMoves DEF LearnHead, Probe, discVars, shellVars
<1>3. CASE RefuseGap(i)
  <2>1. /\ tx[i].at # "idle" /\ tx' = Moved(i, "thrown")
        /\ UNCHANGED <<known, queue, pendingFlushes, store, up>>
    BY <1>3 DEF RefuseGap, Probe, discVars
  <2>2. Remembered' BY <2>1, SameMemory
  <2> QED BY <2>1, <2>2, IntervalMovesTo
<1>4. CASE Delegate(i)
  BY <1>4 DEF Delegate
<1>5. CASE AskChunks(i)
  <2>1. /\ tx[i].at # "idle" /\ queue' = Restored(i)
        /\ pendingFlushes' = [pendingFlushes EXCEPT ![i] = Nobody]
        /\ UNCHANGED <<known, store, up>>
        /\ tx' = Moved(i, "thrown") \/ tx' = Moved(i, "fetching")
    BY <1>5 DEF AskChunks
  <2>2. Remembered' BY <2>1, RestoringKeeps
  <2>3. pendingFlushes'[i] = Nobody /\ \A j \in Interval : j # i => pendingFlushes'[j] = pendingFlushes[j]
    BY <2>1 DEF IInv, Kinds
  <2>4. CASE tx' = Moved(i, "thrown") BY <2>1, <2>2, <2>3, <2>4, IntervalMovesTo
  <2>5. CASE tx' = Moved(i, "fetching") BY <2>1, <2>2, <2>3, <2>5, IntervalMovesTo
  <2> QED BY <2>1, <2>4, <2>5
<1>6. CASE FetchThrows(i)
  <2>1. /\ tx[i].at # "idle" /\ tx' = Moved(i, "thrown")
        /\ UNCHANGED <<known, queue, pendingFlushes, store, up>>
    BY <1>6 DEF FetchThrows, discVars
  <2>2. Remembered' BY <2>1, SameMemory
  <2> QED BY <2>1, <2>2, IntervalMovesTo
<1>7. CASE Flush(i)
  <2>1. pendingFlushes[i] = Nobody BY <1>7 DEF Flush, IInv, NothingOverwritten
  <2>2. Remembered' BY <1>7, <2>1, TakingKeeps DEF Flush
  <2>3. \A j \in Interval : j # i => pendingFlushes'[j] = pendingFlushes[j]
    BY <1>7 DEF Flush, Take, IInv, Kinds
  <2>4. tx[i].at # "idle" /\ tx' = Moved(i, "flushing") /\ UNCHANGED <<store, up>>
    BY <1>7 DEF Flush
  <2> QED BY <2>2, <2>3, <2>4, IntervalMovesTo
<1>8. CASE InsertFails(i)
  <2>1. Remembered' BY <1>8, RestoringKeeps DEF InsertFails
  <2>2. \A j \in Interval : j # i => pendingFlushes'[j] = pendingFlushes[j]
    BY <1>8 DEF InsertFails, IInv, Kinds
  <2>3. tx[i].at # "idle" /\ tx' = Moved(i, "thrown") /\ UNCHANGED <<store, up>>
    BY <1>8 DEF InsertFails
  <2> QED BY <2>1, <2>2, <2>3, IntervalMovesTo
<1>9. CASE Serve(i)
  <2>1. /\ tx[i].at # "idle"
        /\ UNCHANGED <<known, queue, pendingFlushes, store, up>>
    BY <1>9 DEF Serve, Assemble
  <2>2. \E rows, logs : tx' = Ranged(i, rows, logs)
    <3>1. tx' = Ranged(i, Deduped(pendingFlushes[i]), Assembled(i, Lo(i), Hi(i)))
      BY <1>9 DEF Serve
    <3> QED BY <3>1
  <2>3. Remembered' BY <2>1, SameMemory
  <2> QED BY <1>k, <2>1, <2>2, <2>3, IntervalMoves
<1>10. CASE InsertLogsFails(i)
  <2>1. /\ tx[i].at # "idle" /\ tx' = Moved(i, "thrown")
        /\ UNCHANGED <<known, queue, pendingFlushes, store, up>>
    BY <1>10 DEF InsertLogsFails, Assemble
  <2>2. Remembered' BY <2>1, SameMemory
  <2> QED BY <2>1, <2>2, IntervalMovesTo
<1>11. CASE FallBack(i)
  BY <1>11 DEF FallBack, IInv, NothingOverwritten
<1>12. CASE Commit(i)
  <2>1. Remembered' /\ store'.rows \in [Child \X Blocks -> Nat]
    BY <1>12, CommitKeeps DEF Commit, discVars
  <2> QED BY <1>12, <2>1, IntervalMoves DEF Commit
<1>13. CASE CommitUnseen(i)
  <2>1. Remembered' /\ store'.rows \in [Child \X Blocks -> Nat]
    BY <1>13, CommitKeeps DEF CommitUnseen, discVars
  <2> QED BY <1>13, <2>1, IntervalMoves DEF CommitUnseen
<1>14. CASE Rollback(i)
  <2>1. /\ tx[i].at # "idle" /\ tx' = Moved(i, "thrown")
        /\ UNCHANGED <<known, queue, pendingFlushes, store, up>>
    BY <1>14 DEF Rollback, discVars
  <2>2. Remembered' BY <2>1, SameMemory
  <2> QED BY <2>1, <2>2, IntervalMovesTo
<1>15. CASE Retry(i)
  <2>1. /\ tx[i].at # "idle" /\ tx' = Moved(i, "ready")
        /\ UNCHANGED <<known, queue, pendingFlushes, store, up>>
    BY <1>15 DEF Retry, discVars
  <2>2. Remembered' BY <2>1, SameMemory
  <2> QED BY <2>1, <2>2, IntervalMovesTo
<1> QED BY <1>1, <1>2, <1>3, <1>4, <1>5, <1>6, <1>7, <1>8, <1>9, <1>10, <1>11, <1>12, <1>13,
           <1>14, <1>15

(* A step of the chunk cache or of a scan that finds nothing.                  *)
LEMMA StreamStep ==
  ASSUME IInv,
         \/ \E e \in Entry : Resume(e) \/ Stream(e) \/ StreamEnd(e) \/ StreamFail(e)
         \/ ScanEnd \/ ScanFail
  PROVE  IInv'
PROOF
<1>1. ShellIdle /\ UNCHANGED <<known, queue>>
  BY DEF Resume, Stream, StreamEnd, StreamFail, ScanEnd, ScanFail,
         Resumes, Streams, StreamEnds, StreamFails, ScanEnds, ScanFails
<1>2. up
  BY DEF IInv, Kinds, NothingRuns, Resume, Stream, StreamEnd, StreamFail, ScanEnd, ScanFail,
         Resumes, Streams, StreamEnds, StreamFails, ScanEnds, ScanFails
<1>3. UNCHANGED <<known, queue, pendingFlushes, tx, store, up>>
  BY <1>1 DEF ShellIdle, shellVars
<1>4. Remembered' BY <1>3, SameMemory
<1> QED BY <1>2, <1>3, <1>4 DEF IInv, Kinds, NothingOverwritten, NothingRuns, Ordered,
     Remembered

LEMMA ScanStep ==
  ASSUME IInv, ScanFind
  PROVE  IInv'
PROOF
<1>1. PICK n \in Blocks : Scan(n) BY DEF ScanFind
<1>2. UNCHANGED <<pendingFlushes, tx, store, up>> BY DEF ScanFind, ShellIdle, shellVars
<1>3. Records(n) BY <1>1 DEF Scan, ScanFinds, StrayFinds
<1>4. Remembered' BY <1>2, <1>3, RecordingKeeps
<1>5. up BY <1>1 DEF IInv, Kinds, NothingRuns, Scan, ScanFinds, StrayFinds
<1> QED BY <1>2, <1>4, <1>5 DEF IInv, Kinds, NothingOverwritten, NothingRuns, Ordered,
     Remembered

LEMMA DieStep ==
  ASSUME IInv, Die
  PROVE  IInv'
PROOF
<1>1. /\ up' = FALSE /\ known' = Nobody /\ queue' = Nobody
      /\ tx' = [i \in Interval |-> NoTx]
      /\ pendingFlushes' = [i \in Interval |-> Nobody]
      /\ disc' = NewDisc /\ entry' = NoEntries /\ store' = store
  BY DEF Die
<1>2. Kinds' BY <1>1, NobodyOK DEF Kinds, IInv
<1>3. NothingEarlier' /\ NobodyStranded'
  BY <1>1, NobodyOK, GridAssumption DEF NothingEarlier, NobodyStranded, Live, Unborn
<1>4. NothingOverwritten' BY <1>1 DEF NothingOverwritten, NoTx
<1>5. NothingRuns' BY <1>1 DEF NothingRuns, NoTx, NewDisc, NoEntries, NoEntry
<1> QED BY <1>2, <1>3, <1>4, <1>5 DEF IInv

LEMMA RestartStep ==
  ASSUME IInv, Restart
  PROVE  IInv'
PROOF
<1> USE GridAssumption
<1>1. /\ ~up /\ up' = TRUE /\ known' = StoredBirths /\ tx' = Dispatched(store.cached)
      /\ UNCHANGED <<queue, pendingFlushes, store>>
  BY DEF Restart
<1>2. queue = Nobody /\ \A i \in Interval : pendingFlushes[i] = Nobody
  BY <1>1 DEF IInv, NothingRuns
<1>3. StoredBirths' = StoredBirths BY <1>1 DEF StoredBirths
<1>4. \A c \in Child : StoredBirths[c] \in 0..Unborn BY BirthsOK DEF Births
<1>5. /\ tx' = [i \in Interval |-> tx'[i]]
      /\ \A i \in Interval : tx'[i].at \in {"done", "ready", "idle"}
  BY <1>1 DEF Dispatched, NoTx
<1>6. Kinds' BY <1>1, <1>5, BirthsOK DEF Kinds, IInv
<1>7. NothingEarlier' BY <1>1, <1>2, <1>4, NobodyOK DEF NothingEarlier, Unborn
<1>8. NobodyStranded'
  BY <1>1, <1>3, <1>4 DEF NobodyStranded, Live, Unborn
<1>9. NothingOverwritten' BY <1>5 DEF NothingOverwritten
<1>10. NothingRuns' BY <1>1 DEF NothingRuns
<1> QED BY <1>6, <1>7, <1>8, <1>9, <1>10 DEF IInv

LEMMA StutterStep ==
  ASSUME IInv, UNCHANGED <<discVars, entry, shellVars, store, up>>
  PROVE  IInv'
PROOF
<1>1. UNCHANGED <<known, queue, pendingFlushes, tx, store, up, disc, entry>>
  BY DEF discVars, shellVars
<1>2. Remembered' BY <1>1, SameMemory
<1> QED BY <1>1, <1>2 DEF IInv, Kinds, NothingOverwritten, NothingRuns, Ordered,
     Remembered

LEMMA ShellKept ==
  ASSUME StreamMode
  PROVE  IInv /\ [Next]_vars => IInv'
PROOF
<1> SUFFICES ASSUME IInv, [Next]_vars PROVE IInv' OBVIOUS
<1>1. CASE \E i \in Interval :
             \/ Enter(i) \/ LearnHead(i) \/ RefuseGap(i) \/ Delegate(i) \/ AskChunks(i)
             \/ FetchThrows(i) \/ Flush(i) \/ InsertFails(i) \/ Serve(i) \/ InsertLogsFails(i)
             \/ FallBack(i) \/ Commit(i) \/ CommitUnseen(i) \/ Rollback(i) \/ Retry(i)
  BY <1>1, IntervalStep
<1>2. CASE \/ \E e \in Entry : Resume(e) \/ Stream(e) \/ StreamEnd(e) \/ StreamFail(e)
           \/ ScanEnd \/ ScanFail
  BY <1>2, StreamStep
<1>3. CASE ScanFind BY <1>3, ScanStep
<1>4. CASE Die BY <1>4, DieStep
<1>5. CASE Restart BY <1>5, RestartStep
<1>6. CASE Finalize \/ Finished \/ Stopped \/ UNCHANGED vars
  BY <1>6, StutterStep DEF Finalize, Finished, Stopped, vars, streamVars
<1> QED BY <1>1, <1>2, <1>3, <1>4, <1>5, <1>6 DEF Next

(* With PORTAL_REALTIME=stream, a child found by discovery is at every moment   *)
(* durable, queued for its interval, or in the flush record that a retry of the  *)
(* interval restores: whatever fails, in whatever order (pendingFlushes,       *)
(* takePendingInRange and restorePending; portal.ts 182-206, 747-845).         *)
THEOREM NeverStranded ==
  ASSUME StreamMode
  PROVE  Spec => []NobodyStranded
PROOF
<1>1. IInv => NobodyStranded BY DEF IInv
<1> QED BY InitOK, ShellKept, <1>1, PTL DEF Spec

-----------------------------------------------------------------------------
(* How far the scans, the jobs and the promises reach.                       *)

(* Discovery has found whatever was created up to n.                          *)
FoundTo(n) ==
  \A creation \in Creations : creation[2] <= n => known[creation[1]] <= creation[2]

(* Who fetches an interval awaits a job that reaches to its end, unless          *)
(* discovery is already there.                                              *)
AwaitsReach ==
  \A i \in Interval : tx[i].at = "fetching" =>
    \/ disc.confirmed >= Target(Hi(i))
    \/ \E p \in awaited[i] : Reaches(entry, p, Hi(i))

(* Until discovery is seeded, the first interval to run finds every child born     *)
(* before it in the child map: those were read from the store at the start.      *)
SeedSafe ==
  disc.confirmed = -1 => \A i \in Interval : tx[i].at \notin {"idle", "done"} =>
    \A c \in Child : FirstBirth[c] < Lo(i) => known[c] = FirstBirth[c]

(* What is confirmed was found, what is left to find is in the scans, and every  *)
(* job, chunk and promise waits for as much of it as it claims.               *)
RInv ==
  /\ FoundTo(disc.confirmed) /\ ScansHonest(disc) /\ JobsWait(entry, disc.confirmed)
  /\ ChunksReach(cache, entry, disc.confirmed) /\ AwaitsReach

(* What may become of an entry that was reached for.                         *)
Same(r, q) ==
  /\ q.jobs = r.jobs /\ q.to = r.to /\ q.done = r.done
  /\ r.at = "failed" => q.at = "failed"
Popped(r, q, n) ==
  /\ r.at = "streaming" /\ n >= Target(Head(r.jobs).to)
  /\ q.jobs = Tail(r.jobs) /\ q.to = r.to /\ q.done = r.done + 1
Broken(r, q) == q.at = "failed" /\ q.done = r.done

LEMMA TailFacts ==
  ASSUME NEW r \in EntryKind, r.jobs # <<>>
  PROVE  /\ Len(Tail(r.jobs)) = Len(r.jobs) - 1 /\ Head(r.jobs) = r.jobs[1]
         /\ 1 \in 1..Len(r.jobs)
         /\ \A m \in 1..(Len(r.jobs) - 1) : Tail(r.jobs)[m] = r.jobs[m + 1]
PROOF
<1>1. r.jobs \in Seq(JobKind) BY EntryParts
<1> HIDE DEF JobKind
<1> QED BY <1>1

LEMMA CarriedReach ==
  ASSUME NEW ent, EntriesOK(ent), NEW ent2, EntriesOK(ent2), NEW p \in Promise,
         NEW to \in Marks, NEW n \in Marks, Reaches(ent, p, to),
         \/ Same(ent[p.entry], ent2[p.entry])
         \/ Popped(ent[p.entry], ent2[p.entry], n)
         \/ Broken(ent[p.entry], ent2[p.entry])
  PROVE  n >= Target(to) \/ Reaches(ent2, p, to)
PROOF
<1> DEFINE r == ent[p.entry]
           q == ent2[p.entry]
<1>1. p.entry \in Entry /\ p.job \in Nat BY DEF Promise
<1>2. /\ r \in EntryKind /\ q \in EntryKind
      /\ r.at \in {"discovering", "streaming"} => r.jobs # <<>>
  BY <1>1 DEF EntriesOK
<1>3. /\ r.done \in Nat /\ Len(r.jobs) \in Nat
      /\ \A m \in 1..Len(r.jobs) : r.jobs[m].to \in Marks /\ r.jobs[m].to \in Int
  BY <1>2, EntryParts
<1> HIDE DEF r, q
<1>4. CASE Same(r, q)
  BY <1>4 DEF Same, Reaches, r, q
<1>5. CASE Popped(r, q, n)
  <2>1. r.at # "failed" /\ r.jobs # <<>> BY <1>2, <1>5 DEF Popped
  <2>2. PICK m \in 1..Len(r.jobs) : r.jobs[m].to >= to /\ r.done + m <= p.job
    BY <2>1 DEF Reaches, r
  <2>3. /\ Len(Tail(r.jobs)) = Len(r.jobs) - 1 /\ Head(r.jobs) = r.jobs[1]
        /\ \A k \in 1..(Len(r.jobs) - 1) : Tail(r.jobs)[k] = r.jobs[k + 1]
    BY <1>2, <2>1, TailFacts
  <2>4. CASE m = 1
    <3>1. n >= Target(r.jobs[1].to) /\ to <= r.jobs[1].to /\ r.jobs[1].to \in Marks
      BY <1>3, <1>5, <2>2, <2>3, <2>4, EntryParts DEF Popped
    <3>2. /\ Target(to) <= Target(r.jobs[1].to) /\ Target(to) \in Int
          /\ Target(r.jobs[1].to) \in Int
      BY <3>1, TargetOK, GridAssumption DEF Blocks
    <3>3. n \in Int BY EntryParts
    <3> QED BY <3>1, <3>2, <3>3
  <2>5. CASE m # 1
    <3>1. m - 1 \in 1..(Len(r.jobs) - 1) BY <1>3, <2>5
    <3>2. Tail(r.jobs)[m - 1] = r.jobs[m] BY <1>3, <2>2, <2>3, <3>1
    <3>3. q.jobs[m - 1].to >= to /\ q.done + (m - 1) <= p.job /\ m - 1 \in 1..Len(q.jobs)
      BY <1>1, <1>3, <1>5, <2>2, <2>3, <3>1, <3>2 DEF Popped
    <3> QED BY <3>3 DEF Reaches, q
  <2> QED BY <2>4, <2>5
<1>6. CASE Broken(r, q)
  <2>1. r.done < p.job
    <3>1. CASE r.at = "failed" /\ r.done < p.job BY <3>1
    <3>2. CASE \E m \in 1..Len(r.jobs) : r.done + m <= p.job
      BY <1>1, <1>3, <3>2
    <3> QED BY <3>1, <3>2 DEF Reaches, r
  <2> QED BY <1>6, <2>1 DEF Broken, Reaches, q
<1> QED BY <1>4, <1>5, <1>6 DEF r, q

LEMMA CarriedChunk ==
  ASSUME NEW r \in EntryKind, NEW q \in EntryKind, NEW n \in Marks,
         r.at \in {"discovering", "streaming"} => r.jobs # <<>>,
         Same(r, q) \/ Popped(r, q, n),
         \/ n >= Target(r.to)
         \/ \E m \in 1..Len(r.jobs) : r.jobs[m].to >= r.to
  PROVE  \/ n >= Target(q.to)
         \/ \E m \in 1..Len(q.jobs) : q.jobs[m].to >= q.to
PROOF
<1>1. /\ r.done \in Nat /\ Len(r.jobs) \in Nat /\ r.to \in Marks
      /\ \A m \in 1..Len(r.jobs) : r.jobs[m].to \in Marks /\ r.jobs[m].to \in Int
  BY EntryParts
<1>2. CASE Same(r, q) BY <1>2 DEF Same
<1>3. CASE Popped(r, q, n) /\ ~(n >= Target(r.to))
  <2>1. r.jobs # <<>> BY <1>3 DEF Popped
  <2>2. PICK m \in 1..Len(r.jobs) : r.jobs[m].to >= r.to BY <1>3
  <2>3. /\ Len(Tail(r.jobs)) = Len(r.jobs) - 1 /\ Head(r.jobs) = r.jobs[1]
        /\ \A k \in 1..(Len(r.jobs) - 1) : Tail(r.jobs)[k] = r.jobs[k + 1]
    BY <2>1, TailFacts
  <2>4. CASE m = 1
    <3>1. n >= Target(r.jobs[1].to) /\ r.to <= r.jobs[1].to /\ r.jobs[1].to \in Marks
      BY <1>1, <1>3, <2>2, <2>3, <2>4, EntryParts DEF Popped
    <3>2. /\ Target(r.to) <= Target(r.jobs[1].to) /\ Target(r.to) \in Int
          /\ Target(r.jobs[1].to) \in Int
      BY <1>1, <3>1, TargetOK, GridAssumption DEF Blocks
    <3>3. n \in Int BY EntryParts
    <3> QED BY <1>3, <3>1, <3>2, <3>3
  <2>5. CASE m # 1
    <3>1. m - 1 \in 1..(Len(r.jobs) - 1) BY <1>1, <2>5
    <3>2. Tail(r.jobs)[m - 1] = r.jobs[m] BY <1>1, <2>2, <2>3, <3>1
    <3>3. q.jobs[m - 1].to >= q.to /\ m - 1 \in 1..Len(q.jobs)
      BY <1>1, <1>3, <2>2, <2>3, <3>1, <3>2 DEF Popped
    <3> QED BY <3>3
  <2> QED BY <2>4, <2>5
<1>4. CASE Popped(r, q, n) /\ n >= Target(r.to) BY <1>4 DEF Popped
<1> QED BY <1>2, <1>3, <1>4

(* Nothing that was promised or covered is taken back, only rejected.          *)
LEMMA ReachCarried ==
  ASSUME TInv, TInv', RInv, disc'.confirmed >= disc.confirmed,
         \A i \in Interval : tx'[i].at = "fetching" =>
           /\ tx[i].at = "fetching" /\ awaited'[i] = awaited[i]
           /\ \A p \in awaited[i] :
                \/ Same(entry[p.entry], entry'[p.entry])
                \/ Popped(entry[p.entry], entry'[p.entry], disc.confirmed)
                \/ Broken(entry[p.entry], entry'[p.entry]),
         \A idx \in Chunks : cache'[idx] # NoId =>
           /\ cache'[idx] = cache[idx]
           /\ \/ Same(entry[cache[idx]], entry'[cache[idx]])
              \/ Popped(entry[cache[idx]], entry'[cache[idx]], disc.confirmed)
  PROVE  ChunksReach(cache', entry', disc'.confirmed) /\ AwaitsReach'
PROOF
<1>1. /\ DiscOK(disc) /\ EntriesOK(entry) /\ CacheOK(cache, entry)
      /\ awaited \in [Interval -> SUBSET Promise]
      /\ \A i \in Interval : Hi(i) \in Blocks
  BY StreamParts
<1>2. DiscOK(disc') /\ EntriesOK(entry') /\ CacheOK(cache', entry')
  BY DEF TInv, StreamKinds
<1>3. disc.confirmed \in Marks /\ disc'.confirmed \in Marks BY <1>1, <1>2, DiscParts
<1>4. \A to \in Marks : disc.confirmed >= Target(to) => disc'.confirmed >= Target(to)
  <2> SUFFICES ASSUME NEW to \in Marks, disc.confirmed >= Target(to)
               PROVE  disc'.confirmed >= Target(to)
    OBVIOUS
  <2>1. Target(to) \in Int BY TargetOK, GridAssumption DEF Blocks
  <2>2. disc.confirmed \in Int /\ disc'.confirmed \in Int BY <1>3, EntryParts
  <2> QED BY <2>1, <2>2
<1>5. ChunksReach(cache', entry', disc'.confirmed)
  <2> SUFFICES ASSUME NEW idx \in Chunks, cache'[idx] # NoId
               PROVE  \/ disc'.confirmed >= Target(entry'[cache'[idx]].to)
                      \/ \E m \in 1..Len(entry'[cache'[idx]].jobs) :
                           entry'[cache'[idx]].jobs[m].to >= entry'[cache'[idx]].to
    BY DEF ChunksReach
  <2> DEFINE r == entry[cache[idx]]
             q == entry'[cache[idx]]
  <2>1. cache'[idx] = cache[idx] /\ cache[idx] # NoId OBVIOUS
  <2>2. cache[idx] \in Entry BY <1>1, <2>1 DEF CacheOK
  <2>3. /\ r \in EntryKind /\ q \in EntryKind
        /\ r.at \in {"discovering", "streaming"} => r.jobs # <<>>
    BY <1>1, <1>2, <2>2 DEF EntriesOK
  <2>4. Same(r, q) \/ Popped(r, q, disc.confirmed) OBVIOUS
  <2>5. \/ disc.confirmed >= Target(r.to)
        \/ \E m \in 1..Len(r.jobs) : r.jobs[m].to >= r.to
    BY <2>1 DEF RInv, ChunksReach
  <2>6. q.to \in Marks BY <2>3, EntryParts
  <2> HIDE DEF r, q
  <2>7. \/ disc.confirmed >= Target(q.to)
        \/ \E m \in 1..Len(q.jobs) : q.jobs[m].to >= q.to
    BY <1>3, <2>3, <2>4, <2>5, CarriedChunk
  <2> QED BY <1>4, <2>1, <2>6, <2>7 DEF q
<1>6. AwaitsReach'
  <2> SUFFICES ASSUME NEW i \in Interval, tx'[i].at = "fetching"
               PROVE  \/ disc'.confirmed >= Target(Hi(i))
                      \/ \E p \in awaited'[i] : Reaches(entry', p, Hi(i))
    BY DEF AwaitsReach, Hi, Target, Reaches, Floor, IdxOf
  <2>1. Hi(i) \in Marks BY <1>1, GridAssumption DEF Blocks, Marks
  <2>2. CASE disc.confirmed >= Target(Hi(i)) BY <1>4, <2>1, <2>2
  <2>3. CASE \E p \in awaited[i] : Reaches(entry, p, Hi(i))
    <3>1. PICK p \in awaited[i] : Reaches(entry, p, Hi(i)) BY <2>3
    <3>2. p \in Promise BY <1>1
    <3>3. disc.confirmed >= Target(Hi(i)) \/ Reaches(entry', p, Hi(i))
      BY <1>1, <1>2, <1>3, <2>1, <3>1, <3>2, CarriedReach
    <3> QED BY <1>4, <2>1, <3>3
  <2> QED BY <2>2, <2>3 DEF RInv, AwaitsReach
<1> QED BY <1>5, <1>6

LEMMA WaitCarried ==
  ASSUME TInv, TInv', RInv, disc'.confirmed >= disc.confirmed,
         \A e \in Entry :
           \/ entry'[e] = entry[e]
           \/ entry'[e].at \notin {"discovering", "streaming"}
           \/ /\ entry'[e].at = "discovering" => entry'[e].wait >= Target(Head(entry'[e].jobs).to)
              /\ entry'[e].at = "streaming" => disc'.confirmed >= Target(Head(entry'[e].jobs).to)
  PROVE  JobsWait(entry', disc'.confirmed)
PROOF
<1> SUFFICES ASSUME NEW e \in Entry
             PROVE  /\ entry'[e].at = "discovering" =>
                         entry'[e].wait >= Target(Head(entry'[e].jobs).to)
                    /\ entry'[e].at = "streaming" =>
                         disc'.confirmed >= Target(Head(entry'[e].jobs).to)
  BY DEF JobsWait
<1>1. CASE entry'[e] = entry[e]
  <2>1. CASE entry[e].at = "streaming"
    <3>1. disc.confirmed >= Target(Head(entry[e].jobs).to) BY <2>1 DEF RInv, JobsWait
    <3>2. entry[e] \in EntryKind /\ entry[e].jobs # <<>>
      BY <2>1, StreamParts DEF EntriesOK
    <3>3. Head(entry[e].jobs).to \in Marks
      <4>1. /\ 1 \in 1..Len(entry[e].jobs) /\ Head(entry[e].jobs) = entry[e].jobs[1]
        BY <3>2, TailFacts
      <4> QED BY <3>2, <4>1, EntryParts
    <3>4. Target(Head(entry[e].jobs).to) \in Int BY <3>3, TargetOK, GridAssumption DEF Blocks
    <3>5. disc.confirmed \in Int /\ disc'.confirmed \in Int
      BY StreamParts, DiscParts DEF TInv, StreamKinds
    <3> QED BY <1>1, <2>1, <3>1, <3>4, <3>5
  <2>2. CASE entry[e].at # "streaming"
    BY <1>1, <2>2 DEF RInv, JobsWait
  <2> QED BY <2>1, <2>2
<1>2. CASE entry'[e].at \notin {"discovering", "streaming"} BY <1>2
<1> QED BY <1>1, <1>2

LEMMA SameOK ==
  \A r : Same(r, r)
PROOF BY DEF Same

(* The callback moves, the streams do not.                                   *)
LEMMA ReachStays ==
  ASSUME TInv, TInv', RInv, UNCHANGED <<disc, known, cache, entry>>,
         \A i \in Interval : tx'[i].at = "fetching" => tx[i].at = "fetching" /\ awaited'[i] = awaited[i]
  PROVE  RInv'
PROOF
<1>1. disc.confirmed \in Int BY StreamParts, DiscParts
<1>2. ChunksReach(cache', entry', disc'.confirmed) /\ AwaitsReach'
  BY <1>1, SameOK, ReachCarried
<1>3. FoundTo(disc.confirmed)' /\ ScansHonest(disc)' /\ JobsWait(entry, disc.confirmed)'
  BY DEF RInv, FoundTo, ScansHonest, JobsWait, Target, Floor, IdxOf
<1> QED BY <1>2, <1>3 DEF RInv, ChunksReach, Target, Floor, IdxOf

(* One that awaited is gone.                                                *)
LEMMA ReachDropped ==
  ASSUME TInv, TInv', RInv, UNCHANGED <<disc, known, cache>>,
         entry' = Swept(entry, cache, awaited'),
         \A i \in Interval : tx'[i].at = "fetching" => tx[i].at = "fetching" /\ awaited'[i] = awaited[i]
  PROVE  RInv'
PROOF
<1>1. disc.confirmed \in Int BY StreamParts, DiscParts
<1>2. EntriesOK(entry) /\ CacheOK(cache, entry) BY StreamParts
<1>3. awaited' \in [Interval -> SUBSET Promise] BY DEF TInv, StreamKinds
<1>4. LET x == entry'
      IN  /\ EntriesOK(x) /\ CacheOK(cache, x)
          /\ \A e \in Entry : x[e] = entry[e] \/ x[e] = NoEntry
          /\ \A i \in Interval : \A p \in awaited'[i] : x[p.entry] = entry[p.entry]
          /\ \A idx \in Chunks : cache[idx] # NoId => x[cache[idx]] = entry[cache[idx]]
          /\ \A e \in Entry : entry[e].at \in {"discovering", "streaming"} => x[e] = entry[e]
  BY <1>2, <1>3, SweptOK
<1>5. ChunksReach(cache', entry', disc'.confirmed) /\ AwaitsReach'
  <2>1. \A i \in Interval : tx'[i].at = "fetching" =>
          \A p \in awaited[i] : Same(entry[p.entry], entry'[p.entry])
    BY <1>4, SameOK
  <2>2. \A idx \in Chunks : cache'[idx] # NoId =>
          cache'[idx] = cache[idx] /\ Same(entry[cache[idx]], entry'[cache[idx]])
    BY <1>4, SameOK
  <2> QED BY <1>1, <2>1, <2>2, ReachCarried
<1>6. JobsWait(entry', disc'.confirmed)
  <2>1. NoEntry.at \notin {"discovering", "streaming"} BY DEF NoEntry
  <2> QED BY <1>1, <1>4, <2>1, WaitCarried
<1>7. FoundTo(disc.confirmed)' /\ ScansHonest(disc)'
  BY DEF RInv, FoundTo, ScansHonest
<1> QED BY <1>5, <1>6, <1>7 DEF RInv, ChunksReach, JobsWait, Target, Floor, IdxOf

(* Entries are rejected.                                                    *)
LEMMA ReachRejected ==
  ASSUME TInv, TInv', RInv, NEW broken \in SUBSET Entry, Rejected(broken),
         \A e \in broken : entry[e].at \in {"discovering", "streaming"},
         disc'.confirmed >= disc.confirmed, UNCHANGED <<awaited, tx>>
  PROVE  /\ ChunksReach(cache', entry', disc'.confirmed) /\ AwaitsReach'
         /\ JobsWait(entry', disc'.confirmed)
PROOF
<1>1. /\ \A idx \in Chunks : cache'[idx] # NoId =>
           cache'[idx] = cache[idx] /\ entry'[cache[idx]] = entry[cache[idx]]
      /\ \A e \in Entry \ broken : entry'[e] = entry[e] \/ entry'[e] = NoEntry
      /\ \A e \in broken : entry'[e] = NoEntry \/ entry'[e].at = "failed"
      /\ \A i \in Interval : \A p \in awaited[i] :
           IF p.entry \in broken
             THEN entry'[p.entry].at = "failed" /\ entry'[p.entry].done = entry[p.entry].done
             ELSE entry'[p.entry] = entry[p.entry]
  BY RejectedOK
<1>2. ChunksReach(cache', entry', disc'.confirmed) /\ AwaitsReach'
  <2>1. \A i \in Interval : \A p \in awaited[i] :
          \/ Same(entry[p.entry], entry'[p.entry])
          \/ Broken(entry[p.entry], entry'[p.entry])
    BY <1>1, SameOK DEF Broken
  <2>2. \A idx \in Chunks : cache'[idx] # NoId =>
          cache'[idx] = cache[idx] /\ Same(entry[cache[idx]], entry'[cache[idx]])
    BY <1>1, SameOK
  <2> QED BY <2>1, <2>2, ReachCarried
<1>3. JobsWait(entry', disc'.confirmed)
  <2>1. NoEntry.at \notin {"discovering", "streaming"} BY DEF NoEntry
  <2>2. \A e \in Entry : entry'[e] = entry[e] \/ entry'[e].at \notin {"discovering", "streaming"}
    BY <1>1, <2>1
  <2> QED BY <2>2, WaitCarried
<1> QED BY <1>2, <1>3

LEMMA ChainReach ==
  ASSUME TInv, TInv', RInv, NEW e \in Entry,
         Resume(e) \/ Stream(e) \/ StreamEnd(e) \/ StreamFail(e)
  PROVE  RInv'
PROOF
<1>1. disc.confirmed \in Int /\ \A f \in Entry : entry[f] \in EntryKind
  BY StreamParts, DiscParts
<1>2. ShellIdle /\ UNCHANGED <<known, awaited, tx>>
  BY DEF Resume, Resumes, Stream, Streams, StreamEnd, StreamEnds, StreamFail, StreamFails,
         ShellIdle, shellVars
<1>3. CASE Resume(e)
  <2>1. Resumes(e) /\ cache' = cache BY <1>3 DEF Resume, Resumes
  <2>2. /\ disc'.confirmed = disc.confirmed
        /\ Target(Head(entry[e].jobs).to) <= disc'.through
        /\ ScansHonest(disc) => ScansHonest(disc')
        /\ entry'[e].at = "discovering" /\ entry'[e].wait = disc'.through
        /\ entry'[e].jobs = entry[e].jobs /\ entry'[e].done = entry[e].done
        /\ entry'[e].to = entry[e].to
        /\ \A f \in Entry : f # e => entry'[f] = entry[f]
    BY <2>1, ResumesOK
  <2>3. entry[e].at = "settled" BY <2>1 DEF Resumes
  <2>4. \A f \in Entry : Same(entry[f], entry'[f]) BY <2>2, <2>3 DEF Same
  <2>5. ChunksReach(cache', entry', disc'.confirmed) /\ AwaitsReach'
    <3>1. \A i \in Interval : \A p \in awaited[i] : p.entry \in Entry
      BY StreamParts DEF Promise
    <3>2. \A idx \in Chunks : cache[idx] # NoId => cache[idx] \in Entry
      BY StreamParts
    <3> QED BY <1>1, <1>2, <2>1, <2>2, <2>4, <3>1, <3>2, ReachCarried
  <2>6. JobsWait(entry', disc'.confirmed)
    <3>1. disc'.through \in Int /\ Target(Head(entry[e].jobs).to) \in Int
      <4>1. disc'.through \in Int BY DiscParts DEF TInv, StreamKinds
      <4>2. entry[e].jobs # <<>> BY <2>1 DEF Resumes
      <4>3. /\ 1 \in 1..Len(entry[e].jobs) /\ Head(entry[e].jobs) = entry[e].jobs[1]
        BY <1>1, <4>2, TailFacts
      <4>4. Head(entry[e].jobs).to \in Marks BY <1>1, <4>3, EntryParts
      <4> QED BY <4>1, <4>4, TargetOK, GridAssumption DEF Blocks
    <3>2. entry'[e].at = "discovering" => entry'[e].wait >= Target(Head(entry'[e].jobs).to)
      BY <2>2, <3>1
    <3>3. entry'[e].at # "streaming" BY <2>2
    <3> QED BY <1>1, <2>2, <3>2, <3>3, WaitCarried
  <2>7. FoundTo(disc.confirmed)' /\ ScansHonest(disc)'
    BY <1>2, <2>2 DEF RInv, FoundTo, ScansHonest
  <2> QED BY <2>5, <2>6, <2>7 DEF RInv, ChunksReach, JobsWait, Target, Floor, IdxOf
<1>4. CASE Stream(e) /\ Ready(Head(entry[e].jobs).to)
  <2>1. Streams(e) /\ disc' = disc BY <1>4 DEF Stream, Streams
  <2>2. /\ entry[e].at = "discovering" /\ disc.confirmed >= entry[e].wait /\ cache' = cache
        /\ entry'[e].at = "streaming"
        /\ entry'[e].jobs = entry[e].jobs /\ entry'[e].done = entry[e].done
        /\ entry'[e].to = entry[e].to
        /\ \A f \in Entry : f # e => entry'[f] = entry[f]
    BY <1>4, <2>1, StreamsOK
  <2>3. \A f \in Entry : Same(entry[f], entry'[f]) BY <2>2 DEF Same
  <2>4. ChunksReach(cache', entry', disc'.confirmed) /\ AwaitsReach'
    <3>1. \A i \in Interval : \A p \in awaited[i] : p.entry \in Entry
      BY StreamParts DEF Promise
    <3>2. \A idx \in Chunks : cache[idx] # NoId => cache[idx] \in Entry
      BY StreamParts
    <3> QED BY <1>1, <1>2, <2>1, <2>2, <2>3, <3>1, <3>2, ReachCarried
  <2>5. JobsWait(entry', disc'.confirmed)
    <3>1. entry[e].wait >= Target(Head(entry[e].jobs).to) BY <2>2 DEF RInv, JobsWait
    <3>2. entry[e].wait \in Int /\ Target(Head(entry[e].jobs).to) \in Int
      <4>1. entry[e].wait \in Marks BY <1>1, EntryParts
      <4>2. entry[e].jobs # <<>> BY <2>2, StreamParts DEF EntriesOK
      <4>3. /\ 1 \in 1..Len(entry[e].jobs) /\ Head(entry[e].jobs) = entry[e].jobs[1]
        BY <1>1, <4>2, TailFacts
      <4>4. Head(entry[e].jobs).to \in Marks BY <1>1, <4>3, EntryParts
      <4> QED BY <4>1, <4>4, TargetOK, EntryParts, GridAssumption DEF Blocks
    <3>3. disc'.confirmed >= Target(Head(entry'[e].jobs).to)
      BY <1>1, <2>1, <2>2, <3>1, <3>2
    <3>4. entry'[e].at # "discovering" BY <2>2
    <3> QED BY <1>1, <2>1, <2>2, <3>3, <3>4, WaitCarried
  <2>6. FoundTo(disc.confirmed)' /\ ScansHonest(disc)'
    BY <1>2, <2>1 DEF RInv, FoundTo, ScansHonest
  <2> QED BY <2>4, <2>5, <2>6 DEF RInv, ChunksReach, JobsWait, Target, Floor, IdxOf
<1>5. CASE StreamEnd(e)
  <2>1. StreamEnds(e) /\ UNCHANGED <<disc, cache>> BY <1>5 DEF StreamEnd, StreamEnds
  <2> DEFINE q == [entry[e] EXCEPT !.at = "settled", !.jobs = Tail(@), !.done = @ + 1,
                     !.filter = {}, !.wait = -1,
                     !.data = @ \cup ((Head(entry[e].jobs).from..Head(entry[e].jobs).to)
                                        \X entry[e].filter)]
             streamed == [entry EXCEPT ![e] = q]
  <2>2. /\ entry[e].at = "streaming" /\ q.at = "settled"
        /\ q.jobs = Tail(entry[e].jobs) /\ q.done = entry[e].done + 1
        /\ q.to = entry[e].to
        /\ \A f \in Entry : entry'[f] = streamed[f] \/ entry'[f] = NoEntry
        /\ \A i \in Interval : \A p \in awaited[i] : entry'[p.entry] = streamed[p.entry]
        /\ \A idx \in Chunks : cache[idx] # NoId => entry'[cache[idx]] = streamed[cache[idx]]
        /\ \A f \in Entry : f # e => streamed[f] = entry[f]
        /\ streamed[e] = q
    BY <2>1, StreamEndsOK
  <2> HIDE DEF q, streamed
  <2>3. disc.confirmed >= Target(Head(entry[e].jobs).to)
    BY <2>2 DEF RInv, JobsWait
  <2>4. \A f \in Entry : \/ Same(entry[f], streamed[f])
                         \/ Popped(entry[f], streamed[f], disc.confirmed)
    BY <2>2, <2>3, SameOK DEF Popped
  <2>5. ChunksReach(cache', entry', disc'.confirmed) /\ AwaitsReach'
    <3>1. \A i \in Interval : \A p \in awaited[i] :
            p.entry \in Entry /\ entry'[p.entry] = streamed[p.entry]
      BY <2>2, StreamParts DEF Promise
    <3>2. \A idx \in Chunks : cache[idx] # NoId =>
            cache[idx] \in Entry /\ entry'[cache[idx]] = streamed[cache[idx]]
      BY <2>2, StreamParts
    <3> QED BY <1>1, <1>2, <2>1, <2>4, <3>1, <3>2, ReachCarried
  <2>6. JobsWait(entry', disc'.confirmed)
    <3>1. NoEntry.at \notin {"discovering", "streaming"} BY DEF NoEntry
    <3>2. \A f \in Entry : entry'[f] = entry[f] \/ entry'[f].at \notin {"discovering", "streaming"}
      BY <2>2, <3>1
    <3> QED BY <1>1, <2>1, <3>2, WaitCarried
  <2>7. FoundTo(disc.confirmed)' /\ ScansHonest(disc)'
    BY <1>2, <2>1 DEF RInv, FoundTo, ScansHonest
  <2> QED BY <2>5, <2>6, <2>7 DEF RInv, ChunksReach, JobsWait, Target, Floor, IdxOf
<1>6. CASE StreamFail(e) \/ (Stream(e) /\ ~Ready(Head(entry[e].jobs).to))
  <2>1. /\ Rejected({e}) /\ entry[e].at \in {"discovering", "streaming"} /\ disc' = disc
    BY <1>6 DEF Stream, Streams, StreamFail, StreamFails
  <2>2. /\ ChunksReach(cache', entry', disc'.confirmed) /\ AwaitsReach'
        /\ JobsWait(entry', disc'.confirmed)
    BY <1>1, <1>2, <2>1, ReachRejected
  <2>3. FoundTo(disc.confirmed)' /\ ScansHonest(disc)'
    BY <1>2, <2>1 DEF RInv, FoundTo, ScansHonest
  <2> QED BY <2>2, <2>3 DEF RInv, ChunksReach, JobsWait, Target, Floor, IdxOf
<1> QED BY <1>3, <1>4, <1>5, <1>6

-----------------------------------------------------------------------------
(* What a scan knows.                                                       *)

LEMMA BornInFacts ==
  ASSUME NEW S, S \subseteq Blocks, NEW c \in Child
  PROVE  /\ BornIn(S)[c] \in 0..Unborn
         /\ BornIn(S)[c] # Unborn => BornIn(S)[c] \in S /\ <<c, BornIn(S)[c]>> \in Creations
         /\ \A n \in S : <<c, n>> \in Creations => BornIn(S)[c] <= n
PROOF
<1> DEFINE at == {m \in S : <<c, m>> \in Creations}
<1>1. at \subseteq Blocks OBVIOUS
<1>2. BornIn(S)[c] = Earliest(at) BY DEF BornIn
<1>3. \A n \in at : n \in S /\ <<c, n>> \in Creations OBVIOUS
<1>4. \A n \in S : <<c, n>> \in Creations => n \in at OBVIOUS
<1> HIDE DEF at
<1> QED BY <1>1, <1>2, <1>3, <1>4, EarliestOK

LEMMA FirstBirthFacts ==
  /\ \A c \in Child : /\ FirstBirth[c] \in 0..Unborn
                      /\ FirstBirth[c] # Unborn =>
                           FirstBirth[c] \in Blocks /\ <<c, FirstBirth[c]>> \in Creations
  /\ \A creation \in Creations :
       /\ creation[1] \in Child /\ creation[2] \in Blocks /\ creation[2] >= FactoryFrom
       /\ creation = <<creation[1], creation[2]>> /\ FirstBirth[creation[1]] <= creation[2]
  /\ \A S : S \subseteq Blocks => \A c \in Child : FirstBirth[c] <= BornIn(S)[c]
PROOF
<1>1. ASSUME NEW c \in Child
      PROVE  /\ FirstBirth[c] \in 0..Unborn
             /\ FirstBirth[c] # Unborn =>
                  FirstBirth[c] \in Blocks /\ <<c, FirstBirth[c]>> \in Creations
             /\ \A n \in Blocks : <<c, n>> \in Creations => FirstBirth[c] <= n
  BY BornInFacts DEF FirstBirth
<1>2. ASSUME NEW creation \in Creations
      PROVE  /\ creation[1] \in Child /\ creation[2] \in Blocks /\ creation[2] >= FactoryFrom
             /\ creation = <<creation[1], creation[2]>> /\ FirstBirth[creation[1]] <= creation[2]
  <2>1. creation \in Child \X Blocks /\ creation[2] >= FactoryFrom BY DiscoveryAssumption
  <2>2. /\ creation[1] \in Child /\ creation[2] \in Blocks
        /\ creation = <<creation[1], creation[2]>>
    BY <2>1
  <2> QED BY <1>1, <2>1, <2>2
<1>3. ASSUME NEW S, S \subseteq Blocks, NEW c \in Child
      PROVE  FirstBirth[c] <= BornIn(S)[c]
  <2>0. FirstBirth[c] \in 0..Unborn BY <1>1
  <2>1. CASE BornIn(S)[c] = Unborn
    <3> DEFINE f == FirstBirth[c]
               b == BornIn(S)[c]
    <3> SUFFICES f <= b OBVIOUS
    <3>1. f \in 0..Unborn /\ b = Unborn BY <2>0, <2>1
    <3> HIDE DEF f, b
    <3> QED BY <3>1, GridAssumption DEF Unborn
  <2>2. CASE BornIn(S)[c] # Unborn
    <3>1. BornIn(S)[c] \in S /\ <<c, BornIn(S)[c]>> \in Creations
      BY <1>3, <2>2, BornInFacts
    <3> QED BY <1>1, <1>3, <3>1
  <2> QED BY <2>1, <2>2
<1> QED BY <1>1, <1>2, <1>3

LEMMA RecordsFacts ==
  ASSUME TInv, NEW n \in Blocks, Records(n)
  PROVE  /\ \A c \in Child : /\ known'[c] <= known[c]
                             /\ FirstBirth[c] <= known[c] => FirstBirth[c] <= known'[c]
         /\ \A creation \in Creations : creation[2] = n => known'[creation[1]] <= n
PROOF
<1>1. known \in Births /\ {n} \subseteq Blocks BY ShellParts
<1>2. \A c \in Child : /\ known[c] \in 0..Unborn /\ BornIn({n})[c] \in 0..Unborn
                       /\ FirstBirth[c] \in 0..Unborn /\ FirstBirth[c] <= BornIn({n})[c]
  BY <1>1, BornInFacts, FirstBirthFacts DEF Births
<1>3. \A c \in Child : known'[c] = Smaller(known[c], BornIn({n})[c])
  BY DEF Records, Lower
<1>4. \A c \in Child : /\ known'[c] <= known[c] /\ known'[c] <= BornIn({n})[c]
                       /\ FirstBirth[c] <= known[c] => FirstBirth[c] <= known'[c]
                       /\ known'[c] \in Int
  <2> SUFFICES ASSUME NEW c \in Child
               PROVE  /\ known'[c] <= known[c] /\ known'[c] <= BornIn({n})[c]
                      /\ FirstBirth[c] <= known[c] => FirstBirth[c] <= known'[c]
                      /\ known'[c] \in Int
    OBVIOUS
  <2> DEFINE k == known[c]
             b == BornIn({n})[c]
             f == FirstBirth[c]
  <2>1. k \in Int /\ b \in Int /\ f \in Int /\ f <= b
    BY <1>2, GridAssumption DEF Unborn
  <2>2. known'[c] = Smaller(k, b) BY <1>3
  <2> HIDE DEF k, b, f
  <2>3. LET x == Smaller(k, b)
        IN  x <= k /\ x <= b /\ (f <= k => f <= x) /\ x \in Int
    BY <2>1 DEF Smaller
  <2> QED BY <2>2, <2>3 DEF k, b, f
<1>5. ASSUME NEW creation \in Creations, creation[2] = n
      PROVE  known'[creation[1]] <= n
  <2>1. creation[1] \in Child /\ <<creation[1], n>> \in Creations
    BY <1>5, FirstBirthFacts
  <2>2. BornIn({n})[creation[1]] <= n
    <3>1. \A m \in {n} : <<creation[1], m>> \in Creations => BornIn({n})[creation[1]] <= m
      BY <1>1, <2>1, BornInFacts
    <3> QED BY <2>1, <3>1
  <2>3. BornIn({n})[creation[1]] \in Int /\ n \in Int /\ known'[creation[1]] \in Int
    BY <1>2, <1>4, <2>1, GridAssumption DEF Blocks, Unborn
  <2> QED BY <1>4, <2>1, <2>2, <2>3
<1> QED BY <1>4, <1>5

LEMMA ScanReach ==
  ASSUME TInv, TInv', RInv, ScanFind \/ ScanEnd \/ ScanFail
  PROVE  RInv'
PROOF
<1>1. /\ DiscOK(disc) /\ disc.confirmed \in Int /\ DiscOK(disc')
  BY StreamParts, DiscParts DEF TInv, StreamKinds
<1>2. ShellIdle /\ UNCHANGED <<awaited, tx>>
  BY DEF ScanFind, ScanEnd, ScanFail, ShellIdle, shellVars
<1>3. \A c \in Child : known[c] \in Int /\ known'[c] \in Int
  BY GridAssumption DEF TInv, ShellKinds, Births, Unborn
<1>4. CASE ScanFind
  <2>1. PICK n \in Blocks : Scan(n) BY <1>4 DEF ScanFind
  <2>2. UNCHANGED <<cache, entry>> BY <2>1 DEF Scan
  <2>3. Meets(n) /\ disc'.confirmed = disc.confirmed BY <2>1, ScanMeets
  <2>4. /\ \A c \in Child : known'[c] <= known[c]
        /\ \A creation \in Creations : creation[2] = n => known'[creation[1]] <= n
    BY <2>3, RecordsFacts DEF Meets
  <2>5. \A creation \in Creations :
          known[creation[1]] <= creation[2] => known'[creation[1]] <= creation[2]
    <3> SUFFICES ASSUME NEW creation \in Creations, known[creation[1]] <= creation[2]
                 PROVE  known'[creation[1]] <= creation[2]
      OBVIOUS
    <3>1. creation[1] \in Child /\ creation[2] \in Int
      BY FirstBirthFacts, GridAssumption DEF Blocks
    <3> QED BY <1>3, <2>4, <3>1
  <2>6. FoundTo(disc.confirmed)' BY <2>3, <2>5 DEF RInv, FoundTo
  <2>7. ScansHonest(disc)'
    <3> SUFFICES ASSUME NEW k \in 1..Len(disc'.scans), NEW creation \in Creations,
                        creation[2] \in disc'.scans[k].from..disc'.scans[k].to
                 PROVE  \/ creation[2] \in disc'.scans[k].left
                        \/ known'[creation[1]] <= creation[2]
      BY DEF ScansHonest
    <3>1. CASE disc.scans # <<>> /\ disc' = [disc EXCEPT !.scans[1].left = @ \ {n}]
      <4>1. /\ Len(disc'.scans) = Len(disc.scans)
            /\ \A j \in 1..Len(disc.scans) :
                 /\ disc'.scans[j].from = disc.scans[j].from
                 /\ disc'.scans[j].to = disc.scans[j].to
                 /\ disc'.scans[j].left = disc.scans[j].left \ (IF j = 1 THEN {n} ELSE {})
        BY <1>1, <3>1, MetOK
      <4>2. \/ creation[2] \in disc.scans[k].left
            \/ known[creation[1]] <= creation[2]
        BY <4>1 DEF RInv, ScansHonest
      <4>3. disc'.scans[k].left = disc.scans[k].left \ (IF k = 1 THEN {n} ELSE {}) BY <4>1
      <4>4. CASE creation[2] = n BY <2>4, <4>4
      <4>5. CASE creation[2] # n /\ creation[2] \in disc.scans[k].left BY <4>3, <4>5
      <4> QED BY <2>5, <4>2, <4>4, <4>5
    <3>2. CASE disc' = [disc EXCEPT !.stray = @ \ {n}]
      <4>1. disc'.scans = disc.scans BY <1>1, <3>2, StrayOK
      <4> QED BY <2>5, <4>1 DEF RInv, ScansHonest
    <3> QED BY <2>3, <3>1, <3>2 DEF Meets
  <2>8. ChunksReach(cache', entry', disc'.confirmed) /\ AwaitsReach'
    BY <1>1, <1>2, <2>2, <2>3, SameOK, ReachCarried
  <2>9. JobsWait(entry', disc'.confirmed) BY <1>1, <2>2, <2>3, WaitCarried
  <2> QED BY <2>6, <2>7, <2>8, <2>9 DEF RInv, ChunksReach, JobsWait, Target, Floor, IdxOf
<1>5. CASE ScanEnd
  <2>1. /\ disc.scans # <<>> /\ Head(disc.scans).left = {} /\ disc' = Confirmed(disc)
        /\ UNCHANGED <<known, cache, entry>>
    BY <1>5 DEF ScanEnd, ScanEnds
  <2>2. /\ disc'.confirmed = disc.scans[1].to /\ disc.confirmed < disc.scans[1].to
        /\ disc.scans[1].from <= Larger(disc.confirmed + 1, Floor)
        /\ Len(disc'.scans) = Len(disc.scans) - 1
        /\ \A k \in 1..Len(disc'.scans) : disc'.scans[k] = disc.scans[k + 1]
    BY <1>1, <2>1, ConfirmedOK
  <2>3. /\ disc.scans \in Seq(ScanKind) /\ Len(disc.scans) \in Nat
        /\ \A k \in 1..Len(disc.scans) : disc.scans[k].to \in Int /\ disc.scans[k].from \in Nat
    BY <1>1, DiscParts
  <2>4. 1 \in 1..Len(disc.scans) /\ disc.scans[1].left = {}
    <3> HIDE DEF ScanKind
    <3> QED BY <2>1, <2>3
  <2>5. disc'.confirmed >= disc.confirmed BY <1>1, <2>2, <2>3, <2>4
  <2>6. FoundTo(disc.confirmed)'
    <3> SUFFICES ASSUME NEW creation \in Creations, creation[2] <= disc.scans[1].to
                 PROVE  known[creation[1]] <= creation[2]
      BY <2>1, <2>2 DEF FoundTo
    <3>1. creation[2] \in Nat /\ creation[2] >= FactoryFrom
      BY FirstBirthFacts, GridAssumption DEF Blocks
    <3>2. CASE creation[2] <= disc.confirmed BY <3>2 DEF RInv, FoundTo
    <3>3. CASE ~(creation[2] <= disc.confirmed)
      <4>1. Floor \in Nat /\ Floor <= FactoryFrom /\ FactoryFrom \in Nat
        BY GridFacts, GridAssumption DEF Blocks
      <4>2. Larger(disc.confirmed + 1, Floor) <= creation[2]
        BY <1>1, <3>1, <3>3, <4>1 DEF Larger
      <4>3. Larger(disc.confirmed + 1, Floor) \in Int BY <1>1, <4>1 DEF Larger
      <4>4. creation[2] \in disc.scans[1].from..disc.scans[1].to
        BY <2>2, <2>3, <2>4, <3>1, <4>2, <4>3
      <4> QED BY <2>4, <4>4 DEF RInv, ScansHonest
    <3> QED BY <3>2, <3>3
  <2>7. ScansHonest(disc)'
    <3> SUFFICES ASSUME NEW k \in 1..Len(disc'.scans), NEW creation \in Creations,
                        creation[2] \in disc'.scans[k].from..disc'.scans[k].to
                 PROVE  \/ creation[2] \in disc'.scans[k].left
                        \/ known'[creation[1]] <= creation[2]
      BY DEF ScansHonest
    <3>1. k + 1 \in 1..Len(disc.scans) /\ disc'.scans[k] = disc.scans[k + 1]
      BY <2>2, <2>3
    <3> QED BY <2>1, <3>1 DEF RInv, ScansHonest
  <2>8. ChunksReach(cache', entry', disc'.confirmed) /\ AwaitsReach'
    BY <1>2, <2>1, <2>5, SameOK, ReachCarried
  <2>9. JobsWait(entry', disc'.confirmed) BY <2>1, <2>5, WaitCarried
  <2> QED BY <2>6, <2>7, <2>8, <2>9 DEF RInv, ChunksReach, JobsWait, Target, Floor, IdxOf
<1>6. CASE ScanFail
  <2> DEFINE broken == {e \in Entry : entry[e].at = "discovering" /\ entry[e].wait > disc'.through}
  <2>1. disc.scans # <<>> /\ Rejected(broken) /\ UNCHANGED known
    BY <1>6 DEF ScanFail, ScanFails
  <2>2. PICK window : disc' = RolledBack(disc, window) BY <1>6 DEF ScanFail, ScanFails
  <2>3. disc'.confirmed = disc.confirmed /\ disc'.scans = <<>>
    BY <1>1, <2>1, <2>2, RolledBackOK
  <2>4. broken \in SUBSET Entry /\ \A e \in broken : entry[e].at = "discovering" OBVIOUS
  <2> HIDE DEF broken
  <2>5. /\ ChunksReach(cache', entry', disc'.confirmed) /\ AwaitsReach'
        /\ JobsWait(entry', disc'.confirmed)
    BY <1>1, <1>2, <2>1, <2>3, <2>4, ReachRejected
  <2>6. FoundTo(disc.confirmed)' /\ ScansHonest(disc)'
    BY <2>1, <2>3 DEF RInv, FoundTo, ScansHonest
  <2> QED BY <2>5, <2>6 DEF RInv, ChunksReach, JobsWait, Target, Floor, IdxOf
<1> QED BY <1>4, <1>5, <1>6

-----------------------------------------------------------------------------
(* What is asked for is reached.                                             *)

LEMMA ReachAsked ==
  ASSUME TInv, TInv', NEW s, NEW t, AskOK(s), s.entry = entry, Follows(s, t), Reachable(s),
         UNCHANGED known, disc' = t.disc, entry' = Swept(t.entry, cache', awaited'),
         CacheOK(cache', t.entry),
         \A idx \in Chunks : cache'[idx] # NoId => cache'[idx] = t.cache[idx]
  PROVE  /\ ScansHonest(disc)' /\ JobsWait(entry, disc.confirmed)'
         /\ ChunksReach(cache, entry, disc.confirmed)'
         /\ \A i \in Interval, p \in Promise, to \in Marks :
              p \in awaited'[i] =>
                /\ Reaches(entry, p, to) => Reaches(entry', p, to)
                /\ Reaches(t.entry, p, to) => Reaches(entry', p, to)
PROOF
<1>1. Reachable(t) /\ AskOK(t) /\ Grows(entry, t.entry) BY DEF Follows
<1>2. EntriesOK(t.entry) /\ EntriesOK(entry) /\ t.entry \in [Entry -> EntryKind]
      /\ entry \in [Entry -> EntryKind]
  BY <1>1, StreamParts DEF AskOK, EntriesOK
<1>3. awaited' \in [Interval -> SUBSET Promise] BY DEF TInv, StreamKinds
<1>4. LET x == entry'
      IN  /\ \A e \in Entry : x[e] = t.entry[e] \/ x[e] = NoEntry
          /\ \A i \in Interval : \A p \in awaited'[i] : x[p.entry] = t.entry[p.entry]
          /\ \A idx \in Chunks : cache'[idx] # NoId => x[cache'[idx]] = t.entry[cache'[idx]]
  BY <1>2, <1>3, SweptOK
<1>5. ScansHonest(disc)' BY <1>1 DEF Reachable, ScansHonest
<1>6. JobsWait(entry', disc'.confirmed)
  <2>1. NoEntry.at \notin {"discovering", "streaming"} BY DEF NoEntry
  <2> QED BY <1>1, <1>4, <2>1 DEF Reachable, JobsWait
<1>7. ChunksReach(cache', entry', disc'.confirmed)
  <2> SUFFICES ASSUME NEW idx \in Chunks, cache'[idx] # NoId
               PROVE  \/ disc'.confirmed >= Target(entry'[cache'[idx]].to)
                      \/ \E m \in 1..Len(entry'[cache'[idx]].jobs) :
                           entry'[cache'[idx]].jobs[m].to >= entry'[cache'[idx]].to
    BY DEF ChunksReach
  <2>1. cache'[idx] = t.cache[idx] /\ entry'[cache'[idx]] = t.entry[t.cache[idx]]
    BY <1>4
  <2>2. ChunksReach(t.cache, t.entry, disc'.confirmed) BY <1>1 DEF Reachable
  <2> QED BY <2>1, <2>2 DEF ChunksReach
<1>8. ASSUME NEW i \in Interval, NEW p \in Promise, NEW to \in Marks, p \in awaited'[i]
      PROVE  /\ Reaches(entry, p, to) => Reaches(entry', p, to)
             /\ Reaches(t.entry, p, to) => Reaches(entry', p, to)
  <2>1. entry'[p.entry] = t.entry[p.entry] BY <1>4, <1>8
  <2>2. Reaches(t.entry, p, to) => Reaches(entry', p, to) BY <2>1 DEF Reaches
  <2>3. Reaches(entry, p, to) => Reaches(t.entry, p, to)
    BY <1>1, <1>2, GrowsReaches
  <2> QED BY <2>2, <2>3
<1> QED BY <1>5, <1>6, <1>7, <1>8 DEF JobsWait, ChunksReach, Target, Floor, IdxOf

LEMMA AssembleReach ==
  ASSUME TInv, TInv', RInv, NEW i \in Interval, NEW t, AssembledFrom(i, t), UNCHANGED known,
         \A j \in Interval : tx'[j].at = "fetching" => j # i /\ tx[j].at = "fetching"
  PROVE  RInv'
PROOF
<1>1. /\ AskOK(Asking) /\ Asking.entry = entry /\ Asking.cache = cache /\ Asking.disc = disc
      /\ Follows(Asking, t) /\ AskOK(t) /\ t.disc.confirmed = disc.confirmed
      /\ disc' = t.disc /\ entry' = Swept(t.entry, cache', awaited')
      /\ cache' = EvictedBehind(t.cache, Lo(i))
  BY DEF AssembledFrom, Follows
<1>2. Reachable(Asking) BY <1>1 DEF RInv, Reachable
<1>3. /\ CacheOK(cache', t.entry)
      /\ \A idx \in Chunks : cache'[idx] # NoId => cache'[idx] = t.cache[idx]
  BY <1>1, EvictedOK DEF AskOK
<1>4. /\ ScansHonest(disc)' /\ JobsWait(entry, disc.confirmed)'
      /\ ChunksReach(cache, entry, disc.confirmed)'
      /\ \A j \in Interval, p \in Promise, to \in Marks :
           p \in awaited'[j] /\ Reaches(entry, p, to) => Reaches(entry', p, to)
  BY <1>1, <1>2, <1>3, ReachAsked
<1>5. FoundTo(disc.confirmed)' BY <1>1 DEF RInv, FoundTo
<1>6. AwaitsReach'
  <2> SUFFICES ASSUME NEW j \in Interval, tx'[j].at = "fetching"
               PROVE  \/ disc'.confirmed >= Target(Hi(j))
                      \/ \E p \in awaited'[j] : Reaches(entry', p, Hi(j))
    BY DEF AwaitsReach, Hi, Target, Reaches, Floor, IdxOf
  <2>1. awaited'[j] = awaited[j] BY AwaitedKind DEF AssembledFrom
  <2>2. Hi(j) \in Marks BY StreamParts, GridAssumption DEF Blocks, Marks
  <2>3. awaited[j] \subseteq Promise BY StreamParts
  <2> QED BY <1>1, <1>4, <2>1, <2>2, <2>3 DEF RInv, AwaitsReach
<1> QED BY <1>4, <1>5, <1>6 DEF RInv

LEMMA AskReach ==
  ASSUME TInv, TInv', RInv, SeedSafe, NEW i \in Interval, AskChunks(i)
  PROVE  RInv'
PROOF
<1>1. PICK s, t : AskedFor(i, s, t) BY AskChunksMeans
<1>2. UNCHANGED <<known, fetchQuantum, portalHead, final>> /\ tx[i].at \in {"ready", "probing"}
  BY DEF AskChunks
<1>3. /\ AskOK(s) /\ s.entry = entry /\ s.cache = cache
      /\ Follows(s, t) /\ AskOK(t) /\ t.disc.confirmed = s.disc.confirmed
      /\ disc' = t.disc /\ entry' = Swept(t.entry, cache', awaited') /\ cache' = t.cache
      /\ ~t.full /\ (Reachable(s) => Promising(t, Hi(i)))
      /\ tx' = Moved(i, IF t.refused THEN "thrown" ELSE "fetching")
  BY <1>1 DEF AskedFor, Follows
<1>4. /\ awaited'[i] = IF t.refused THEN {} ELSE t.promises
      /\ \A j \in Interval : j # i => awaited'[j] = awaited[j]
  BY <1>1, <1>2, AskedForKinds
<1>5. /\ disc.confirmed \in Marks /\ s.disc.confirmed \in Marks /\ disc.confirmed \in Int
      /\ s.disc.confirmed \in Int /\ Lo(i) \in Nat /\ Floor \in Nat
      /\ DiscOK(disc) /\ EntriesOK(entry) /\ CacheOK(cache, entry)
  <2>1. DiscOK(disc) /\ EntriesOK(entry) /\ CacheOK(cache, entry) /\ Lo(i) \in Nat
    BY StreamParts
  <2>2. DiscOK(s.disc) BY <1>3 DEF AskOK
  <2>3. /\ disc.confirmed \in Marks /\ s.disc.confirmed \in Marks /\ disc.confirmed \in Int
        /\ s.disc.confirmed \in Int
    BY <2>1, <2>2, DiscParts
  <2>4. Floor \in Nat BY GridFacts, GridAssumption DEF Blocks
  <2> QED BY <2>1, <2>3, <2>4
<1>6. s.disc = disc \/ /\ disc.confirmed = -1 /\ s.disc.scans = <<>>
                       /\ s.disc.confirmed = Lo(i) - 1 /\ Lo(i) - 1 >= Floor
  BY <1>1 DEF AskedFor
<1>7. \A to \in Marks : disc.confirmed >= Target(to) => s.disc.confirmed >= Target(to)
  <2> SUFFICES ASSUME NEW to \in Marks, disc.confirmed >= Target(to), disc.confirmed = -1
               PROVE  FALSE
    BY <1>6
  <2>1. Target(to) \in Nat BY TargetOK, GridAssumption DEF Blocks
  <2> QED BY <2>1
<1>8. FoundTo(s.disc.confirmed)
  <2>1. CASE s.disc = disc BY <2>1 DEF RInv
  <2>2. CASE disc.confirmed = -1 /\ s.disc.confirmed = Lo(i) - 1
    <3> SUFFICES ASSUME NEW creation \in Creations, creation[2] <= Lo(i) - 1
                 PROVE  known[creation[1]] <= creation[2]
      BY <2>2 DEF FoundTo
    <3>1. /\ creation[1] \in Child /\ creation[2] \in Nat
          /\ FirstBirth[creation[1]] <= creation[2] /\ FirstBirth[creation[1]] \in 0..Unborn
      <4>1. creation[1] \in Child /\ creation[2] \in Blocks
            /\ FirstBirth[creation[1]] <= creation[2]
        BY FirstBirthFacts
      <4>2. FirstBirth[creation[1]] \in 0..Unborn BY <4>1, FirstBirthFacts
      <4>3. creation[2] \in Nat BY <4>1, GridAssumption DEF Blocks
      <4> QED BY <4>1, <4>2, <4>3
    <3>2. FirstBirth[creation[1]] \in Int BY <3>1, GridAssumption DEF Unborn
    <3>3. FirstBirth[creation[1]] < Lo(i) BY <1>5, <3>1, <3>2
    <3>4. known[creation[1]] = FirstBirth[creation[1]]
      BY <1>2, <2>2, <3>1, <3>3 DEF SeedSafe
    <3> QED BY <3>1, <3>4
  <2> QED BY <1>6, <2>1, <2>2
<1>9. Reachable(s)
  <2>1. ScansHonest(s.disc)
    <3>1. CASE s.disc = disc BY <3>1 DEF RInv
    <3>2. CASE s.disc.scans = <<>> BY <3>2 DEF ScansHonest
    <3> QED BY <1>6, <3>1, <3>2
  <2>2. JobsWait(entry, s.disc.confirmed)
    <3> SUFFICES ASSUME NEW e \in Entry, entry[e].at = "streaming"
                 PROVE  s.disc.confirmed >= Target(Head(entry[e].jobs).to)
      BY DEF RInv, JobsWait
    <3>1. entry[e] \in EntryKind /\ entry[e].jobs # <<>> BY <1>5 DEF EntriesOK
    <3>2. 1 \in 1..Len(entry[e].jobs) /\ Head(entry[e].jobs) = entry[e].jobs[1]
      BY <3>1, TailFacts
    <3>3. Head(entry[e].jobs).to \in Marks BY <3>1, <3>2, EntryParts
    <3> QED BY <1>7, <3>3 DEF RInv, JobsWait
  <2>3. ChunksReach(cache, entry, s.disc.confirmed)
    <3> SUFFICES ASSUME NEW idx \in Chunks, cache[idx] # NoId,
                        disc.confirmed >= Target(entry[cache[idx]].to)
                 PROVE  s.disc.confirmed >= Target(entry[cache[idx]].to)
      BY DEF RInv, ChunksReach
    <3>1. entry[cache[idx]] \in EntryKind BY <1>5 DEF EntriesOK, CacheOK
    <3>2. entry[cache[idx]].to \in Marks BY <3>1, EntryParts
    <3> QED BY <1>7, <3>2
  <2> QED BY <1>3, <2>1, <2>2, <2>3 DEF Reachable
<1>10. CacheOK(cache', t.entry) BY <1>3 DEF AskOK
<1>11. /\ ScansHonest(disc)' /\ JobsWait(entry, disc.confirmed)'
       /\ ChunksReach(cache, entry, disc.confirmed)'
       /\ \A j \in Interval, p \in Promise, to \in Marks :
            p \in awaited'[j] =>
              /\ Reaches(entry, p, to) => Reaches(entry', p, to)
              /\ Reaches(t.entry, p, to) => Reaches(entry', p, to)
  BY <1>2, <1>3, <1>9, <1>10, ReachAsked
<1>12. FoundTo(disc.confirmed)' BY <1>2, <1>3, <1>8 DEF FoundTo
<1>13. AwaitsReach'
  <2> SUFFICES ASSUME NEW j \in Interval, tx'[j].at = "fetching"
               PROVE  \/ disc'.confirmed >= Target(Hi(j))
                      \/ \E p \in awaited'[j] : Reaches(entry', p, Hi(j))
    BY DEF AwaitsReach, Hi, Target, Reaches, Floor, IdxOf
  <2>1. Hi(j) \in Marks BY StreamParts, GridAssumption DEF Blocks, Marks
  <2>2. awaited'[j] \subseteq Promise BY DEF TInv, StreamKinds
  <2>3. tx \in [Interval -> Transaction] BY ShellParts
  <2>4. CASE j = i
    <3>1. ~t.refused
      <4>1. tx'[i].at = IF t.refused THEN "thrown" ELSE "fetching"
        BY <1>3, <2>3 DEF Moved, NoTx
      <4> QED BY <2>4, <4>1
    <3>2. Promising(t, Hi(i)) BY <1>3, <1>9
    <3>3. t.disc.confirmed >= Target(Hi(i)) \/ \E p \in t.promises : Reaches(t.entry, p, Hi(i))
      BY <1>3, <3>1, <3>2 DEF Promising
    <3> QED BY <1>3, <1>4, <1>11, <2>1, <2>2, <2>4, <3>1, <3>3
  <2>5. CASE j # i
    <3>1. tx[j].at = "fetching" BY <1>3, <2>3, <2>5 DEF Moved
    <3>2. awaited'[j] = awaited[j] BY <1>4, <2>5
    <3>3. disc.confirmed >= Target(Hi(j)) \/ \E p \in awaited[j] : Reaches(entry, p, Hi(j))
      BY <3>1 DEF RInv, AwaitsReach
    <3> QED BY <1>3, <1>7, <1>11, <2>1, <2>2, <3>2, <3>3
  <2> QED BY <2>4, <2>5
<1> QED BY <1>11, <1>12, <1>13 DEF RInv

LEMMA MovedIs ==
  ASSUME TInv, NEW i \in Interval, NEW at, tx' = Moved(i, at)
  PROVE  /\ tx'[i].at = at /\ tx'[i].rows = {} /\ \A j \in Interval : j # i => tx'[j] = tx[j]
PROOF
<1>1. tx \in [Interval -> Transaction] BY ShellParts
<1> QED BY <1>1 DEF Moved, NoTx

LEMMA CallbackReach ==
  ASSUME TInv, TInv', RInv, SeedSafe, NothingOverwritten, StreamMode, NEW i \in Interval,
         \/ Enter(i) \/ LearnHead(i) \/ RefuseGap(i) \/ Delegate(i) \/ AskChunks(i)
         \/ FetchThrows(i) \/ Flush(i) \/ InsertFails(i) \/ Serve(i) \/ InsertLogsFails(i)
         \/ FallBack(i) \/ Commit(i) \/ CommitUnseen(i) \/ Rollback(i) \/ Retry(i)
  PROVE  RInv'
PROOF
<1>1. CASE LearnHead(i)
  BY <1>1, ReachStays DEF LearnHead, discVars, streamVars, shellVars
<1>2. CASE Enter(i) \/ RefuseGap(i) \/ Flush(i) \/ Commit(i) \/ CommitUnseen(i) \/ Rollback(i) \/ Retry(i)
  <2>1. /\ UNCHANGED <<disc, known, cache, entry, awaited>>
        /\ \E at \in {"probing", "thrown", "flushing", "done", "ready"} : tx' = Moved(i, at)
    BY <1>2 DEF Enter, RefuseGap, Flush, Commit, CommitUnseen, Rollback, Retry, discVars, streamVars
  <2>2. PICK at \in {"probing", "thrown", "flushing", "done", "ready"} : tx' = Moved(i, at)
    BY <2>1
  <2>3. \A j \in Interval : tx'[j].at = "fetching" => tx[j].at = "fetching"
    BY <2>2, MovedIs
  <2> QED BY <2>1, <2>3, ReachStays
<1>3. CASE AskChunks(i) BY <1>3, AskReach
<1>4. CASE FetchThrows(i) \/ InsertFails(i)
  <2>1. /\ awaited' = [awaited EXCEPT ![i] = {}] /\ entry' = Swept(entry, cache, awaited')
        /\ tx' = Moved(i, "thrown") /\ UNCHANGED <<disc, known, cache>>
    BY <1>4 DEF FetchThrows, InsertFails, discVars
  <2>2. \A j \in Interval : tx'[j].at = "fetching" => j # i /\ tx[j].at = "fetching"
    BY <2>1, MovedIs
  <2>3. \A j \in Interval : j # i => awaited'[j] = awaited[j]
    BY <2>1, AwaitedKind
  <2> QED BY <2>1, <2>2, <2>3, ReachDropped
<1>5. CASE Serve(i) \/ InsertLogsFails(i)
  <2>1. Assemble(i) /\ UNCHANGED known BY <1>5 DEF Serve, InsertLogsFails
  <2>2. PICK t : AssembledFrom(i, t) BY <2>1, AssembleMeans
  <2>3. \A j \in Interval : tx'[j].at = "fetching" => j # i /\ tx[j].at = "fetching"
    <3>1. CASE InsertLogsFails(i)
      <4>1. tx' = Moved(i, "thrown") BY <3>1 DEF InsertLogsFails
      <4> QED BY <4>1, MovedIs
    <3>2. CASE Serve(i)
      <4>1. tx' = Ranged(i, Deduped(pendingFlushes[i]), Assembled(i, Lo(i), Hi(i)))
        BY <3>2 DEF Serve
      <4>2. tx \in [Interval -> Transaction] /\ pendingFlushes[i] \in Births BY ShellParts
      <4>3. HandedOver(i, Deduped(pendingFlushes[i]), Assembled(i, Lo(i), Hi(i)), tx')
        BY <4>1, <4>2, DedupedOK, AssembledOK, RangedIs
      <4> QED BY <4>3 DEF HandedOver
    <3> QED BY <1>5, <3>1, <3>2
  <2> QED BY <2>1, <2>2, <2>3, AssembleReach
<1>6. ~Delegate(i) /\ ~FallBack(i)
  BY DEF Delegate, FallBack, NothingOverwritten
<1> QED BY <1>1, <1>2, <1>3, <1>4, <1>5, <1>6

(* A process that has just started reaches nowhere yet.                        *)
Rebooted == /\ disc.confirmed = -1 /\ disc.scans = <<>> /\ entry = NoEntries /\ cache = NoChunks
         /\ \A i \in Interval : tx[i].at # "fetching"

LEMMA FreshReach == Rebooted => RInv
PROOF
<1> SUFFICES ASSUME Rebooted PROVE RInv OBVIOUS
<1> USE DEF Rebooted
<1>1. FoundTo(-1)
  <2> SUFFICES ASSUME NEW creation \in Creations PROVE ~(creation[2] <= -1) BY DEF FoundTo
  <2>1. creation[2] \in Nat BY FirstBirthFacts, GridAssumption DEF Blocks
  <2> QED BY <2>1
<1>2. ScansHonest(disc) BY DEF ScansHonest
<1>3. \A e \in Entry : entry[e].at = "free" BY NoEntryOK DEF NoEntries
<1>4. JobsWait(entry, disc.confirmed) BY <1>3 DEF JobsWait
<1>5. ChunksReach(cache, entry, disc.confirmed) BY DEF ChunksReach, NoChunks
<1>6. AwaitsReach BY DEF AwaitsReach
<1> QED BY <1>1, <1>2, <1>4, <1>5, <1>6 DEF RInv

LEMMA ProcessReach ==
  ASSUME TInv, TInv', RInv, Die \/ Restart \/ Finalize \/ UNCHANGED vars
  PROVE  RInv'
PROOF
<1>1. CASE Die
  <2>1. /\ disc' = NewDisc /\ entry' = NoEntries /\ cache' = NoChunks
        /\ tx' = [i \in Interval |-> NoTx]
    BY <1>1 DEF Die
  <2>2. \A i \in Interval : tx'[i].at # "fetching" BY <2>1 DEF NoTx
  <2>3. disc'.confirmed = -1 /\ disc'.scans = <<>> BY <2>1 DEF NewDisc
  <2>4. entry' = NoEntries' /\ cache' = NoChunks'
    BY <2>1 DEF NoEntries, NoChunks, NoEntry, NoId, Entry, Chunks, IdxOf
  <2>5. (Rebooted => RInv)'
    BY FreshReach, PTL
  <2> QED BY <2>2, <2>3, <2>4, <2>5 DEF Rebooted
<1>2. CASE Restart
  <2>1. /\ ~up /\ tx' = Dispatched(store.cached) /\ UNCHANGED <<disc, cache, entry>>
    BY <1>2 DEF Restart, streamVars
  <2>2. disc = NewDisc /\ entry = NoEntries /\ cache = NoChunks BY <2>1 DEF TInv, Down
  <2>3. disc'.confirmed = -1 /\ disc'.scans = <<>> BY <2>1, <2>2 DEF NewDisc
  <2>4. \A i \in Interval : tx'[i].at # "fetching" BY <2>1 DEF Dispatched, NoTx
  <2>5. entry' = NoEntries' /\ cache' = NoChunks'
    BY <2>1, <2>2 DEF NoEntries, NoChunks, NoEntry, NoId, Entry, Chunks, IdxOf
  <2>6. (Rebooted => RInv)'
    BY FreshReach, PTL
  <2> QED BY <2>3, <2>4, <2>5, <2>6 DEF Rebooted
<1>3. CASE Finalize \/ UNCHANGED vars
  BY <1>3, ReachStays DEF Finalize, vars, discVars, streamVars, shellVars
<1> QED BY <1>1, <1>2, <1>3

-----------------------------------------------------------------------------
(* What the writer makes durable.                                           *)

(* Core's intervals do not overlap, and whatever a factory can create before an   *)
(* interval lies in earlier ones: they are cut in order from one required range.  *)
Disjoint == \A i, j \in Interval : i # j => BlocksOf(i) \cap BlocksOf(j) = {}
Tiled ==
  \A i \in Interval : \A n \in FactoryFrom..(Lo(i) - 1) :
    \E j \in Interval : j < i /\ n \in BlocksOf(j)

(* Nothing is known, inserted or stored as born before it was.                 *)
Sound ==
  /\ \A c \in Child : FirstBirth[c] <= known[c]
  /\ \A row \in Child \X Blocks : store.rows[row] > 0 => FirstBirth[row[1]] <= row[2]
  /\ \A i \in Interval : \A row \in tx[i].rows : FirstBirth[row[1]] <= row[2]

(* What an interval has taken to flush was created in its blocks.              *)
InPlace ==
  \A i \in Interval, c \in Child : pendingFlushes[i][c] \in BlocksOf(i) \cup {Unborn}

(* From its flush to its commit, an interval holds every child that is born in it  *)
(* and is not in the store; it flushes no earlier than discovery has its blocks.  *)
BornDuring(i) == {c \in Child : FirstBirth[c] \in BlocksOf(i)}
Flushed ==
  \A i \in Interval : \A c \in BornDuring(i) : StoredBirths[c] > FirstBirth[c] =>
    /\ tx[i].at = "flushing" => pendingFlushes[i][c] = FirstBirth[c]
    /\ tx[i].at = "ranged" => <<c, FirstBirth[c]>> \in tx[i].rows
FlushedKnown == \A i \in Interval : tx[i].at = "flushing" => disc.confirmed >= Floor

(* What is flushed is inserted, what is inserted is committed, and so what is     *)
(* cached is stored.                                                        *)
WInv == Sound /\ InPlace /\ Flushed /\ FlushedKnown /\ SeedSafe /\ ChildrenPersisted

LEMMA Numbers ==
  ASSUME TInv
  PROVE  /\ disc.confirmed \in Int /\ Floor \in Nat
         /\ \A c \in Child : known[c] \in Int /\ FirstBirth[c] \in Int /\ StoredBirths[c] \in Int
PROOF
<1>1. disc.confirmed \in Int BY StreamParts, DiscParts
<1>2. Floor \in Nat BY GridFacts, GridAssumption DEF Blocks
<1>3. \A c \in Child : known[c] \in Int
  BY GridAssumption DEF TInv, ShellKinds, Births, Unborn
<1>4. \A c \in Child : FirstBirth[c] \in Int
  <2>1. \A c \in Child : FirstBirth[c] \in 0..Unborn BY FirstBirthFacts
  <2> QED BY <2>1, GridAssumption DEF Unborn
<1>5. \A c \in Child : StoredBirths[c] \in Int BY BirthsOK, GridAssumption DEF Births, Unborn
<1> QED BY <1>1, <1>2, <1>3, <1>4, <1>5

(* Steps that store nothing and begin no flush.                              *)
LEMMA WriterMoves ==
  ASSUME TInv, TInv', WInv, UNCHANGED store, disc'.confirmed >= disc.confirmed,
         \A c \in Child : known'[c] <= known[c] /\ FirstBirth[c] <= known'[c],
         \A j \in Interval :
           \/ pendingFlushes'[j] = pendingFlushes[j]
           \/ pendingFlushes'[j] = Nobody /\ tx'[j].at # "flushing",
         \A j \in Interval :
           \/ tx'[j] = tx[j]
           \/ /\ tx[j].at \notin {"idle", "done"} /\ tx'[j].at \notin {"flushing", "ranged"}
              /\ tx'[j].rows = {}
  PROVE  WInv'
PROOF
<1>1. /\ disc.confirmed \in Int /\ disc'.confirmed \in Int /\ Floor \in Nat
      /\ \A c \in Child : /\ known[c] \in Int /\ known'[c] \in Int
                          /\ FirstBirth[c] \in Int /\ StoredBirths[c] \in Int
  <2>1. disc'.confirmed \in Int BY DiscParts DEF TInv, StreamKinds
  <2>2. \A c \in Child : known'[c] \in Int
    BY GridAssumption DEF TInv, ShellKinds, Births, Unborn
  <2> QED BY <2>1, <2>2, Numbers
<1>2. StoredBirths' = StoredBirths BY DEF StoredBirths
<1>3. Sound' BY DEF WInv, Sound
<1>4. InPlace'
  <2> SUFFICES ASSUME NEW i \in Interval, NEW c \in Child
               PROVE  pendingFlushes'[i][c] \in BlocksOf(i) \cup {Unborn}
    BY DEF InPlace
  <2>1. CASE pendingFlushes'[i] = pendingFlushes[i] BY <2>1 DEF WInv, InPlace
  <2>2. CASE pendingFlushes'[i] = Nobody BY <2>2, NobodyOK
  <2> QED BY <2>1, <2>2
<1>5. Flushed' BY <1>2 DEF WInv, Flushed
<1>6. FlushedKnown'
  <2> SUFFICES ASSUME NEW i \in Interval, tx'[i].at = "flushing"
               PROVE  disc'.confirmed >= Floor
    BY DEF FlushedKnown
  <2>1. tx[i].at = "flushing" OBVIOUS
  <2>2. disc.confirmed >= Floor BY <2>1 DEF WInv, FlushedKnown
  <2> QED BY <1>1, <2>2
<1>7. SeedSafe'
  <2> SUFFICES ASSUME disc'.confirmed = -1, NEW i \in Interval, tx'[i].at \notin {"idle", "done"},
                      NEW c \in Child, FirstBirth[c] < Lo(i)
               PROVE  known'[c] = FirstBirth[c]
    BY DEF SeedSafe
  <2>1. tx[i].at \notin {"idle", "done"} OBVIOUS
  <2>2. disc.confirmed = -1
    <3>1. disc.confirmed \in Marks BY StreamParts, DiscParts
    <3>2. disc.confirmed >= -1 BY <3>1, GridAssumption DEF Marks
    <3> QED BY <1>1, <3>2
  <2>3. known[c] = FirstBirth[c] BY <2>1, <2>2 DEF WInv, SeedSafe
  <2> QED BY <1>1, <2>3
<1>8. ChildrenPersisted' BY <1>2 DEF WInv, ChildrenPersisted
<1> QED BY <1>3, <1>4, <1>5, <1>6, <1>7, <1>8 DEF WInv

(* When all that is awaited has come, discovery has come to the end of the      *)
(* interval.                                                              *)
LEMMA FlushFound ==
  ASSUME TInv, RInv, NEW i \in Interval, tx[i].at = "fetching", Served(i)
  PROVE  disc.confirmed >= Hi(i) /\ disc.confirmed >= Floor
PROOF
<1>1. Hi(i) \in Marks /\ Hi(i) \in Nat /\ awaited[i] \subseteq Promise
      /\ \A e \in Entry : entry[e].done \in Nat
  <2>1. \A e \in Entry : entry[e] \in EntryKind BY StreamParts
  <2> QED BY <2>1, StreamParts, EntryParts, GridAssumption DEF Blocks, Marks
<1>2. disc.confirmed >= Target(Hi(i))
  <2>1. ASSUME NEW p \in awaited[i], Reaches(entry, p, Hi(i)) PROVE FALSE
    <3>1. p.entry \in Entry /\ p.job \in Nat BY <1>1 DEF Promise
    <3>2. entry[p.entry].done >= p.job /\ entry[p.entry].done \in Nat
      BY <1>1, <3>1 DEF Served
    <3>3. CASE entry[p.entry].done < p.job BY <3>1, <3>2, <3>3
    <3>4. CASE \E m \in 1..Len(entry[p.entry].jobs) : entry[p.entry].done + m <= p.job
      <4>1. PICK m \in 1..Len(entry[p.entry].jobs) : entry[p.entry].done + m <= p.job BY <3>4
      <4>2. m \in Int /\ m >= 1
        <5>1. entry[p.entry] \in EntryKind BY <3>1, StreamParts
        <5>2. Len(entry[p.entry].jobs) \in Nat BY <5>1, EntryParts
        <5> QED BY <4>1, <5>2
      <4> QED BY <3>1, <3>2, <4>1, <4>2
    <3> QED BY <2>1, <3>3, <3>4 DEF Reaches
  <2> QED BY <2>1 DEF RInv, AwaitsReach
<1>3. Target(Hi(i)) \in Int /\ Hi(i) <= Target(Hi(i)) /\ Floor <= Target(Hi(i))
  BY <1>1, TargetOK, GridAssumption DEF Blocks
<1> QED BY <1>1, <1>2, <1>3, Numbers

(* A flush takes every child of its interval that is not stored yet.          *)
LEMMA FlushTakes ==
  ASSUME Disjoint, TInv, TInv', IInv, RInv, WInv, NEW i \in Interval, Flush(i)
  PROVE  WInv'
PROOF
<1>1. /\ tx[i].at = "fetching" /\ Served(i) /\ Take(i) /\ tx' = Moved(i, "flushing")
      /\ UNCHANGED <<disc, known, store>>
  BY DEF Flush
<1>2. /\ disc.confirmed \in Int /\ Floor \in Nat
      /\ \A c \in Child : known[c] \in Int /\ FirstBirth[c] \in Int /\ StoredBirths[c] \in Int
  BY Numbers
<1>3. /\ tx'[i].at = "flushing" /\ tx'[i].rows = {}
      /\ \A j \in Interval : j # i => tx'[j] = tx[j]
  BY <1>1, MovedIs
<1>4. StoredBirths' = StoredBirths BY <1>1 DEF StoredBirths
<1>5. /\ \A c \in Child, j \in Interval :
           pendingFlushes'[j][c] = IF j # i THEN pendingFlushes[j][c]
                                   ELSE IF queue[c] \in Lo(i)..Hi(i) THEN queue[c] ELSE Unborn
  BY <1>1, TakingOrders DEF IInv
<1>6. Hi(i) \in Nat BY StreamParts, GridAssumption DEF Blocks
<1>7. disc.confirmed >= Hi(i) /\ disc.confirmed >= Floor BY <1>1, FlushFound
<1>8. ASSUME NEW c \in BornDuring(i), StoredBirths[c] > FirstBirth[c]
      PROVE  pendingFlushes'[i][c] = FirstBirth[c]
  <2>1. c \in Child /\ FirstBirth[c] \in Lo(i)..Hi(i) BY <1>8 DEF BornDuring, BlocksOf
  <2>2. FirstBirth[c] \in Blocks /\ FirstBirth[c] <= Hi(i) /\ FirstBirth[c] <= disc.confirmed
    <3>1. FirstBirth[c] \in Blocks BY <2>1, StreamParts DEF BlocksOf
    <3> QED BY <1>2, <1>6, <1>7, <2>1, <3>1
  <2>3. FirstBirth[c] # Unborn BY <2>2, GridAssumption DEF Blocks, Unborn
  <2>4. <<c, FirstBirth[c]>> \in Creations BY <2>1, <2>3, FirstBirthFacts
  <2>5. known[c] <= FirstBirth[c]
    <3> DEFINE creation == <<c, FirstBirth[c]>>
    <3>1. creation[1] = c /\ creation[2] = FirstBirth[c] OBVIOUS
    <3>2. creation \in Creations BY <2>4
    <3> HIDE DEF creation
    <3> QED BY <2>2, <3>1, <3>2 DEF RInv, FoundTo
  <2>6. known[c] = FirstBirth[c] BY <1>2, <2>1, <2>5 DEF WInv, Sound
  <2>7. c \in Live BY <2>1, <2>3, <2>6 DEF Live
  <2>8. ~\E j \in Interval : pendingFlushes[j][c] = known[c]
    <3> SUFFICES ASSUME NEW j \in Interval, pendingFlushes[j][c] = FirstBirth[c] PROVE FALSE
      BY <2>6
    <3>1. FirstBirth[c] \in BlocksOf(j) BY <2>1, <2>3 DEF WInv, InPlace
    <3>2. j = i BY <2>1, <3>1 DEF Disjoint, BlocksOf
    <3>3. pendingFlushes[i] = Nobody BY <1>1 DEF IInv, NothingOverwritten
    <3> QED BY <2>1, <2>3, <3>2, <3>3, NobodyOK
  <2>9. queue[c] = known[c]
    BY <1>2, <1>8, <2>1, <2>6, <2>7, <2>8 DEF IInv, NobodyStranded
  <2> QED BY <1>5, <2>1, <2>6, <2>9
<1>9. Sound' BY <1>1, <1>3 DEF WInv, Sound
<1>10. InPlace'
  <2> SUFFICES ASSUME NEW j \in Interval, NEW c \in Child
               PROVE  pendingFlushes'[j][c] \in BlocksOf(j) \cup {Unborn}
    BY DEF InPlace
  <2> QED BY <1>5 DEF WInv, InPlace, BlocksOf
<1>11. Flushed'
  <2> SUFFICES ASSUME NEW j \in Interval, NEW c \in BornDuring(j), StoredBirths[c] > FirstBirth[c]
               PROVE  /\ tx'[j].at = "flushing" => pendingFlushes'[j][c] = FirstBirth[c]
                      /\ tx'[j].at = "ranged" => <<c, FirstBirth[c]>> \in tx'[j].rows
    BY <1>4 DEF Flushed
  <2>1. CASE j = i BY <1>3, <1>8, <2>1
  <2>2. CASE j # i
    <3>1. c \in Child BY DEF BornDuring
    <3> QED BY <1>3, <1>5, <2>2, <3>1 DEF WInv, Flushed
  <2> QED BY <2>1, <2>2
<1>12. FlushedKnown' BY <1>1, <1>3, <1>7 DEF WInv, FlushedKnown
<1>13. SeedSafe'
  <2>1. disc'.confirmed # -1 BY <1>1, <1>2, <1>7
  <2> QED BY <2>1 DEF SeedSafe
<1>14. ChildrenPersisted' BY <1>1, <1>4 DEF WInv, ChildrenPersisted
<1> QED BY <1>9, <1>10, <1>11, <1>12, <1>13, <1>14 DEF WInv

(* What was taken is inserted, in the transaction that hands over.             *)
LEMMA ServeStores ==
  ASSUME TInv, TInv', IInv, WInv, NEW i \in Interval, Serve(i)
  PROVE  WInv'
PROOF
<1> DEFINE rows == Deduped(pendingFlushes[i])
           logs == Assembled(i, Lo(i), Hi(i))
<1>1. /\ tx[i].at = "flushing" /\ Assemble(i) /\ tx' = Ranged(i, rows, logs)
      /\ UNCHANGED <<known, pendingFlushes, store>>
  BY DEF Serve, Assemble
<1>2. /\ disc.confirmed \in Int /\ Floor \in Nat
      /\ \A c \in Child : known[c] \in Int /\ FirstBirth[c] \in Int /\ StoredBirths[c] \in Int
  BY Numbers
<1>3. disc'.confirmed = disc.confirmed
  <2>1. PICK t : AssembledFrom(i, t) BY <1>1, AssembleMeans
  <2> QED BY <2>1 DEF AssembledFrom, Follows
<1>4. disc.confirmed >= Floor BY <1>1 DEF WInv, FlushedKnown
<1>5. StoredBirths' = StoredBirths BY <1>1 DEF StoredBirths
<1>6. HandedOver(i, rows, logs, tx')
  <2>1. tx \in [Interval -> Transaction] /\ pendingFlushes[i] \in Births BY ShellParts
  <2> QED BY <1>1, <2>1, DedupedOK, AssembledOK, RangedIs
<1>7. /\ tx'[i].at = "ranged" /\ tx'[i].rows = rows
      /\ \A j \in Interval : j # i =>
           \/ tx'[j] = tx[j]
           \/ tx'[j].at = "ready" /\ tx'[j].rows = {}
  BY <1>6 DEF HandedOver
<1>8. \A row \in rows : \E c \in Child : row = <<c, pendingFlushes[i][c]>>
  BY DEF Deduped
<1>9. \A c \in Child : pendingFlushes[i][c] < StoredBirths[c] => <<c, pendingFlushes[i][c]>> \in rows
  BY DEF Deduped
<1> HIDE DEF rows
<1>10. Sound'
  <2> SUFFICES ASSUME NEW j \in Interval, NEW row \in tx'[j].rows
               PROVE  FirstBirth[row[1]] <= row[2]
    BY <1>1 DEF WInv, Sound
  <2>1. CASE j = i
    <3>1. PICK c \in Child : row = <<c, pendingFlushes[i][c]>> BY <1>7, <1>8, <2>1
    <3>2. known[c] <= pendingFlushes[i][c] BY DEF IInv, NothingEarlier
    <3>3. FirstBirth[c] <= known[c] BY DEF WInv, Sound
    <3>4. pendingFlushes[i][c] \in Int
      BY ShellParts, GridAssumption DEF Births, Unborn
    <3> QED BY <1>2, <3>1, <3>2, <3>3, <3>4
  <2>2. CASE j # i BY <1>7, <2>2 DEF WInv, Sound
  <2> QED BY <2>1, <2>2
<1>11. InPlace' BY <1>1 DEF WInv, InPlace
<1>12. Flushed'
  <2> SUFFICES ASSUME NEW j \in Interval, NEW c \in BornDuring(j), StoredBirths[c] > FirstBirth[c]
               PROVE  /\ tx'[j].at = "flushing" => pendingFlushes[j][c] = FirstBirth[c]
                      /\ tx'[j].at = "ranged" => <<c, FirstBirth[c]>> \in tx'[j].rows
    BY <1>1, <1>5 DEF Flushed
  <2>1. c \in Child BY DEF BornDuring
  <2>2. CASE j = i
    <3>1. pendingFlushes[i][c] = FirstBirth[c] BY <1>1, <2>2 DEF WInv, Flushed
    <3> QED BY <1>2, <1>7, <1>9, <2>1, <2>2, <3>1
  <2>3. CASE j # i BY <1>7, <2>3 DEF WInv, Flushed
  <2> QED BY <2>2, <2>3
<1>13. FlushedKnown' BY <1>3, <1>7 DEF WInv, FlushedKnown
<1>14. SeedSafe'
  <2>1. disc'.confirmed # -1 BY <1>2, <1>3, <1>4
  <2> QED BY <2>1 DEF SeedSafe
<1>15. ChildrenPersisted' BY <1>1, <1>5 DEF WInv, ChildrenPersisted
<1> QED BY <1>10, <1>11, <1>12, <1>13, <1>14, <1>15 DEF WInv

(* The commit makes it durable.                                             *)
LEMMA CommitStores ==
  ASSUME TInv, TInv', WInv, NEW i \in Interval, Commit(i) \/ CommitUnseen(i)
  PROVE  WInv'
PROOF
<1>1. /\ tx[i].at = "ranged" /\ store' = Durable(i)
      /\ tx' = Moved(i, "done") \/ tx' = Moved(i, "thrown")
      /\ UNCHANGED <<disc, known, pendingFlushes>>
  BY DEF Commit, CommitUnseen, discVars
<1>2. /\ disc.confirmed \in Int
      /\ \A c \in Child : known[c] \in Int /\ FirstBirth[c] \in Int /\ StoredBirths[c] \in Int
  BY Numbers
<1>3. /\ tx'[i].at \in {"done", "thrown"} /\ tx'[i].rows = {}
      /\ \A j \in Interval : j # i => tx'[j] = tx[j]
  BY <1>1, MovedIs
<1>4. /\ store'.rows = [row \in Child \X Blocks |->
                          store.rows[row] + IF row \in tx[i].rows THEN 1 ELSE 0]
      /\ store'.cached = store.cached \cup {i}
  BY <1>1 DEF Durable
<1>5. store.rows \in [Child \X Blocks -> Nat] BY ShellParts DEF Stores
<1>6. \A row \in Child \X Blocks :
        store'.rows[row] > 0 <=> store.rows[row] > 0 \/ row \in tx[i].rows
  <2> SUFFICES ASSUME NEW row \in Child \X Blocks
               PROVE  store'.rows[row] > 0 <=> store.rows[row] > 0 \/ row \in tx[i].rows
    OBVIOUS
  <2>1. store.rows[row] \in Nat BY <1>5
  <2>2. CASE row \in tx[i].rows BY <1>4, <2>1, <2>2
  <2>3. CASE row \notin tx[i].rows BY <1>4, <2>1, <2>3
  <2> QED BY <2>2, <2>3
<1>7. \A c \in Child : StoredBirths'[c] <= StoredBirths[c] BY <1>6, StoredStays
<1>8. /\ \A c \in Child : StoredBirths'[c] \in Int
      /\ \A c \in Child, n \in Blocks : store'.rows[<<c, n>>] > 0 => StoredBirths'[c] <= n
      /\ \A c \in Child : StoredBirths'[c] # Unborn =>
           StoredBirths'[c] \in Blocks /\ store'.rows[<<c, StoredBirths'[c]>>] > 0
  <2>1. BirthsOK!1' /\ BirthsOK!2' /\ BirthsOK!3' BY BirthsOK, PTL
  <2> QED BY <2>1, GridAssumption DEF Births, Unborn, Blocks
<1>9. Sound'
  <2>1. \A c \in Child : FirstBirth[c] <= known'[c] BY <1>1 DEF WInv, Sound
  <2>2. ASSUME NEW row \in Child \X Blocks, store'.rows[row] > 0
        PROVE  FirstBirth[row[1]] <= row[2]
    BY <1>6, <2>2 DEF WInv, Sound
  <2>3. \A j \in Interval : \A row \in tx'[j].rows : FirstBirth[row[1]] <= row[2]
    BY <1>3 DEF WInv, Sound
  <2> QED BY <2>1, <2>2, <2>3 DEF Sound
<1>10. \A c \in Child : FirstBirth[c] <= StoredBirths'[c]
  <2> SUFFICES ASSUME NEW c \in Child PROVE FirstBirth[c] <= StoredBirths'[c] OBVIOUS
  <2>1. CASE StoredBirths'[c] = Unborn
    <3>1. FirstBirth[c] \in 0..Unborn BY FirstBirthFacts
    <3> QED BY <2>1, <3>1, GridAssumption DEF Unborn
  <2>2. CASE StoredBirths'[c] # Unborn
    <3> DEFINE row == <<c, StoredBirths'[c]>>
    <3>1. row \in Child \X Blocks /\ store'.rows[row] > 0 BY <1>8, <2>2
    <3>2. row[1] = c /\ row[2] = StoredBirths'[c] OBVIOUS
    <3> HIDE DEF row
    <3> QED BY <1>9, <3>1, <3>2 DEF Sound
  <2> QED BY <2>1, <2>2
<1>11. InPlace' BY <1>1 DEF WInv, InPlace
<1>12. Flushed'
  <2> SUFFICES ASSUME NEW j \in Interval, NEW c \in BornDuring(j), StoredBirths'[c] > FirstBirth[c]
               PROVE  /\ tx'[j].at = "flushing" => pendingFlushes[j][c] = FirstBirth[c]
                      /\ tx'[j].at = "ranged" => <<c, FirstBirth[c]>> \in tx'[j].rows
    BY <1>1 DEF Flushed
  <2>1. c \in Child BY DEF BornDuring
  <2>2. StoredBirths[c] > FirstBirth[c] BY <1>2, <1>7, <1>8, <2>1
  <2>3. CASE j = i BY <1>3, <2>3
  <2>4. CASE j # i BY <1>3, <2>2, <2>4 DEF WInv, Flushed
  <2> QED BY <2>3, <2>4
<1>13. FlushedKnown' BY <1>1, <1>3 DEF WInv, FlushedKnown
<1>14. SeedSafe'
  <2> SUFFICES ASSUME disc.confirmed = -1, NEW j \in Interval, tx'[j].at \notin {"idle", "done"},
                      NEW c \in Child, FirstBirth[c] < Lo(j)
               PROVE  known[c] = FirstBirth[c]
    BY <1>1 DEF SeedSafe
  <2>1. tx[j].at \notin {"idle", "done"} BY <1>1, <1>3
  <2> QED BY <2>1 DEF WInv, SeedSafe
<1>15. ChildrenPersisted'
  <2> SUFFICES ASSUME NEW j \in store.cached \cup {i}, NEW c \in Child,
                      FirstBirth[c] \in BlocksOf(j)
               PROVE  StoredBirths'[c] = FirstBirth[c]
    BY <1>4 DEF ChildrenPersisted
  <2>1. StoredBirths'[c] <= FirstBirth[c]
    <3>1. CASE StoredBirths[c] <= FirstBirth[c] BY <1>2, <1>7, <1>8, <3>1
    <3>2. CASE j \in store.cached
      <4>1. StoredBirths[c] = FirstBirth[c] BY <3>2 DEF WInv, ChildrenPersisted
      <4> QED BY <1>2, <3>1, <4>1
    <3>3. CASE j = i /\ ~(StoredBirths[c] <= FirstBirth[c])
      <4>1. StoredBirths[c] > FirstBirth[c] BY <1>2, <3>3
      <4>2. c \in BornDuring(i) BY <3>3 DEF BornDuring
      <4>3. <<c, FirstBirth[c]>> \in tx[i].rows BY <1>1, <4>1, <4>2 DEF WInv, Flushed
      <4>4. FirstBirth[c] \in Blocks BY <3>3, StreamParts DEF BlocksOf
      <4>5. store'.rows[<<c, FirstBirth[c]>>] > 0 BY <1>6, <4>3, <4>4
      <4> QED BY <1>8, <4>4, <4>5
    <3> QED BY <3>1, <3>2, <3>3
  <2> QED BY <1>2, <1>8, <1>10, <2>1
<1> QED BY <1>9, <1>11, <1>12, <1>13, <1>14, <1>15 DEF WInv

(* A start finds every interval before the first one to run in the store.      *)
LEMMA FirstUncached ==
  ASSUME NEW S, NEW i \in Interval, Dispatched(S)[i].at \notin {"idle", "done"}
  PROVE  \A j \in Interval : j < i => j \in S
PROOF
<1>1. i \notin S /\ i = FirstOf(Interval \ S) BY DEF Dispatched, NoTx
<1> DEFINE rest == Interval \ S
<1>2. rest \subseteq Nat /\ rest # {} BY <1>1, CacheAssumption
<1>3. \E n \in rest : \A m \in rest : n <= m BY <1>2, LeastElement
<1>4. \A m \in rest : i <= m
  <2>1. i = CHOOSE n \in rest : \A m \in rest : n <= m BY <1>1 DEF FirstOf
  <2> HIDE DEF rest
  <2> QED BY <1>3, <2>1
<1> QED BY <1>2, <1>4, CacheAssumption

LEMMA BornBefore ==
  ASSUME Tiled, NEW i \in Interval, NEW c \in Child, FirstBirth[c] < Lo(i), Lo(i) \in Blocks
  PROVE  \E j \in Interval : j < i /\ FirstBirth[c] \in BlocksOf(j)
PROOF
<1>1. FirstBirth[c] \in 0..Unborn /\ FactoryFrom \in Nat /\ LastBlock \in Nat /\ Lo(i) \in 0..LastBlock
  BY FirstBirthFacts, GridFacts, GridAssumption DEF Blocks
<1>2. FirstBirth[c] # Unborn /\ FirstBirth[c] \in Int
  <2> DEFINE f == FirstBirth[c]
  <2>1. f \in 0..Unborn /\ f < Lo(i) BY <1>1
  <2> HIDE DEF f
  <2>2. f # Unborn /\ f \in Int BY <1>1, <2>1 DEF Unborn
  <2> QED BY <2>2 DEF f
<1>3. <<c, FirstBirth[c]>> \in Creations BY <1>2, FirstBirthFacts
<1>4. FirstBirth[c] >= FactoryFrom
  <2> DEFINE creation == <<c, FirstBirth[c]>>
  <2>1. creation \in Creations /\ creation[2] = FirstBirth[c] BY <1>3
  <2> HIDE DEF creation
  <2> QED BY <2>1, FirstBirthFacts
<1>5. FirstBirth[c] \in FactoryFrom..(Lo(i) - 1) BY <1>1, <1>2, <1>4
<1> QED BY <1>5 DEF Tiled

LEMMA LoOK == \A i \in Interval : Lo(i) \in Blocks
PROOF BY SyncAssumption, GridAssumption DEF Lo, Blocks

LEMMA ProcessWrites ==
  ASSUME Tiled, TInv, TInv', WInv, Die \/ Restart
  PROVE  WInv'
PROOF
<1>1. \A c \in Child : known[c] \in Int /\ FirstBirth[c] \in Int /\ StoredBirths[c] \in Int
  BY Numbers
<1>2. store' = store /\ StoredBirths' = StoredBirths BY DEF Die, Restart, StoredBirths
<1>3. CASE Die
  <2>1. /\ known' = Nobody /\ pendingFlushes' = [j \in Interval |-> Nobody]
        /\ tx' = [j \in Interval |-> NoTx]
    BY <1>3 DEF Die
  <2>2. \A j \in Interval : tx'[j].at = "idle" /\ tx'[j].rows = {} BY <2>1 DEF NoTx
  <2>3. \A c \in Child : FirstBirth[c] <= known'[c]
    <3> SUFFICES ASSUME NEW c \in Child PROVE FirstBirth[c] <= known'[c] OBVIOUS
    <3>1. FirstBirth[c] \in 0..Unborn /\ known'[c] = Unborn BY <2>1, FirstBirthFacts, NobodyOK
    <3> QED BY <3>1, GridAssumption DEF Unborn
  <2>4. Sound' BY <1>2, <2>2, <2>3 DEF WInv, Sound
  <2>5. InPlace' BY <2>1, NobodyOK DEF InPlace
  <2>6. Flushed' /\ FlushedKnown' /\ SeedSafe' BY <2>2 DEF Flushed, FlushedKnown, SeedSafe
  <2>7. ChildrenPersisted' BY <1>2 DEF WInv, ChildrenPersisted
  <2> QED BY <2>4, <2>5, <2>6, <2>7 DEF WInv
<1>4. CASE Restart
  <2>1. /\ known' = StoredBirths /\ UNCHANGED pendingFlushes /\ tx' = Dispatched(store.cached)
    BY <1>4 DEF Restart
  <2>2. \A j \in Interval : tx'[j].at \in {"idle", "done", "ready"} /\ tx'[j].rows = {}
    BY <2>1 DEF Dispatched, NoTx
  <2>3. \A c \in Child : FirstBirth[c] <= known'[c]
    <3> SUFFICES ASSUME NEW c \in Child PROVE FirstBirth[c] <= StoredBirths[c] BY <2>1
    <3>1. CASE StoredBirths[c] = Unborn
      <4>1. FirstBirth[c] \in 0..Unborn BY FirstBirthFacts
      <4> QED BY <3>1, <4>1, GridAssumption DEF Unborn
    <3>2. CASE StoredBirths[c] # Unborn
      <4> DEFINE row == <<c, StoredBirths[c]>>
      <4>1. row \in Child \X Blocks /\ store.rows[row] > 0 BY <3>2, BirthsOK
      <4>2. row[1] = c /\ row[2] = StoredBirths[c] OBVIOUS
      <4> HIDE DEF row
      <4> QED BY <4>1, <4>2 DEF WInv, Sound
    <3> QED BY <3>1, <3>2
  <2>4. Sound' BY <1>2, <2>2, <2>3 DEF WInv, Sound
  <2>5. InPlace' BY <2>1 DEF WInv, InPlace
  <2>6. Flushed' /\ FlushedKnown' BY <2>2 DEF Flushed, FlushedKnown
  <2>7. SeedSafe'
    <3> SUFFICES ASSUME NEW i \in Interval, tx'[i].at \notin {"idle", "done"},
                        NEW c \in Child, FirstBirth[c] < Lo(i)
                 PROVE  StoredBirths[c] = FirstBirth[c]
      BY <2>1 DEF SeedSafe
    <3>1. PICK j \in Interval : j < i /\ FirstBirth[c] \in BlocksOf(j) BY BornBefore, LoOK
    <3>2. j \in store.cached BY <2>1, <3>1, FirstUncached
    <3> QED BY <3>1, <3>2 DEF WInv, ChildrenPersisted
  <2>8. ChildrenPersisted' BY <1>2 DEF WInv, ChildrenPersisted
  <2> QED BY <2>4, <2>5, <2>6, <2>7, <2>8 DEF WInv
<1> QED BY <1>3, <1>4

(* The other steps of a callback store nothing.                              *)
LEMMA WriterMovesTo ==
  ASSUME TInv, TInv', WInv, UNCHANGED <<store, known>>, NEW i \in Interval,
         NEW at \in {"probing", "fetching", "thrown", "ready"}, tx' = Moved(i, at),
         tx[i].at \notin {"idle", "done"},
         \/ pendingFlushes' = pendingFlushes
         \/ pendingFlushes' = [pendingFlushes EXCEPT ![i] = Nobody],
         disc'.confirmed >= disc.confirmed
  PROVE  WInv'
PROOF
<1>1. /\ tx'[i].at = at /\ tx'[i].rows = {}
      /\ \A j \in Interval : j # i => tx'[j] = tx[j]
  BY MovedIs
<1>2. \A j \in Interval : \/ tx'[j] = tx[j]
                          \/ /\ tx[j].at \notin {"idle", "done"}
                             /\ tx'[j].at \notin {"flushing", "ranged"}
                             /\ tx'[j].rows = {}
  BY <1>1
<1>3. \A j \in Interval : \/ pendingFlushes'[j] = pendingFlushes[j]
                          \/ pendingFlushes'[j] = Nobody /\ tx'[j].at # "flushing"
  BY <1>1, ShellParts
<1>4. \A c \in Child : known'[c] <= known[c] /\ FirstBirth[c] <= known'[c]
  BY Numbers DEF WInv, Sound
<1> QED BY <1>2, <1>3, <1>4, WriterMoves

LEMMA CallbackWrites ==
  ASSUME Disjoint, StreamMode, TInv, TInv', IInv, RInv, WInv, NEW i \in Interval,
         \/ Enter(i) \/ LearnHead(i) \/ RefuseGap(i) \/ Delegate(i) \/ AskChunks(i)
         \/ FetchThrows(i) \/ Flush(i) \/ InsertFails(i) \/ Serve(i) \/ InsertLogsFails(i)
         \/ FallBack(i) \/ Commit(i) \/ CommitUnseen(i) \/ Rollback(i) \/ Retry(i)
  PROVE  WInv'
PROOF
<1>1. disc.confirmed \in Int BY Numbers
<1>2. CASE LearnHead(i)
  <2>1. UNCHANGED <<disc, known, store, tx, pendingFlushes>>
    BY <1>2 DEF LearnHead, discVars, shellVars
  <2>2. \A c \in Child : known'[c] <= known[c] /\ FirstBirth[c] <= known'[c]
    BY <2>1, Numbers DEF WInv, Sound
  <2> QED BY <1>1, <2>1, <2>2, WriterMoves
<1>3. CASE Enter(i) \/ RefuseGap(i) \/ FetchThrows(i) \/ InsertFails(i) \/ Rollback(i) \/ Retry(i)
  <2>1. /\ UNCHANGED <<disc, known, store>> /\ tx[i].at \notin {"idle", "done"}
        /\ \E at \in {"probing", "thrown", "ready"} : tx' = Moved(i, at)
        /\ \/ pendingFlushes' = pendingFlushes
           \/ pendingFlushes' = [pendingFlushes EXCEPT ![i] = Nobody]
    BY <1>3 DEF Enter, RefuseGap, Probe, FetchThrows, InsertFails, Rollback, Retry, discVars
  <2> QED BY <1>1, <2>1, WriterMovesTo
<1>4. CASE AskChunks(i)
  <2>1. PICK s, t : AskedFor(i, s, t) BY <1>4, AskChunksMeans
  <2>2. /\ UNCHANGED <<known, store>> /\ tx[i].at \notin {"idle", "done"}
        /\ pendingFlushes' = [pendingFlushes EXCEPT ![i] = Nobody]
    BY <1>4 DEF AskChunks
  <2>3. \E at \in {"fetching", "thrown"} : tx' = Moved(i, at) BY <2>1 DEF AskedFor
  <2>4. disc'.confirmed >= disc.confirmed
    <3>1. disc'.confirmed = s.disc.confirmed BY <2>1 DEF AskedFor, Follows
    <3>2. CASE s.disc = disc BY <1>1, <3>1, <3>2
    <3>3. CASE /\ disc.confirmed = -1 /\ s.disc.confirmed = Lo(i) - 1
               /\ Lo(i) - 1 >= Floor
      <4>1. Floor \in Nat /\ Lo(i) \in Nat BY Numbers, StreamParts
      <4> QED BY <3>1, <3>3, <4>1
    <3> QED BY <2>1, <3>2, <3>3 DEF AskedFor
  <2> QED BY <2>2, <2>3, <2>4, WriterMovesTo
<1>5. CASE Flush(i) BY <1>5, FlushTakes
<1>6. CASE Serve(i) BY <1>6, ServeStores
<1>7. CASE InsertLogsFails(i)
  <2>1. /\ UNCHANGED <<known, store, pendingFlushes>> /\ tx' = Moved(i, "thrown")
        /\ Assemble(i) /\ tx[i].at = "flushing"
    BY <1>7 DEF InsertLogsFails, Assemble
  <2>2. PICK t : AssembledFrom(i, t) BY <2>1, AssembleMeans
  <2>3. disc'.confirmed = disc.confirmed BY <2>2 DEF AssembledFrom, Follows
  <2> QED BY <1>1, <2>1, <2>3, WriterMovesTo
<1>8. CASE Commit(i) \/ CommitUnseen(i) BY <1>8, CommitStores
<1>9. ~Delegate(i) /\ ~FallBack(i)
  BY DEF Delegate, FallBack, IInv, NothingOverwritten
<1> QED BY <1>2, <1>3, <1>4, <1>5, <1>6, <1>7, <1>8, <1>9

(* A scan lowers births to no less than the first, and nothing else is written. *)
LEMMA StreamWrites ==
  ASSUME TInv, TInv', WInv,
         \/ \E e \in Entry : Resume(e) \/ Stream(e) \/ StreamEnd(e) \/ StreamFail(e)
         \/ ScanFind \/ ScanEnd \/ ScanFail \/ Finalize \/ UNCHANGED vars
  PROVE  WInv'
PROOF
<1>1. disc.confirmed \in Int /\ DiscOK(disc) BY Numbers, StreamParts
<1>2. UNCHANGED <<store, tx, pendingFlushes>>
  BY DEF Resume, Stream, StreamEnd, StreamFail, ScanFind, ScanEnd, ScanFail, ShellIdle,
         Finalize, vars, shellVars
<1>3. \A c \in Child : known[c] <= known[c] /\ FirstBirth[c] <= known[c]
  BY Numbers DEF WInv, Sound
<1>4. /\ disc'.confirmed >= disc.confirmed
      /\ \A c \in Child : known'[c] <= known[c] /\ FirstBirth[c] <= known'[c]
  <2>1. CASE \E e \in Entry : Resume(e)
    <3>1. PICK e \in Entry : Resumes(e) /\ known' = known BY <2>1 DEF Resume, Resumes
    <3>2. disc'.confirmed = disc.confirmed BY <3>1, ResumesOK
    <3> QED BY <1>1, <1>3, <3>1, <3>2
  <2>2. CASE \/ \E e \in Entry : Stream(e) \/ StreamEnd(e) \/ StreamFail(e)
             \/ Finalize \/ UNCHANGED vars
    <3>1. UNCHANGED <<disc, known>>
      BY <2>2 DEF Stream, Streams, StreamEnd, StreamEnds, StreamFail, StreamFails, Finalize,
                  vars, discVars
    <3> QED BY <1>1, <1>3, <3>1
  <2>3. CASE ScanFind
    <3>1. PICK n \in Blocks : Scan(n) BY <2>3 DEF ScanFind
    <3>2. Meets(n) /\ disc'.confirmed = disc.confirmed BY <3>1, ScanMeets
    <3>3. \A c \in Child : /\ known'[c] <= known[c]
                           /\ FirstBirth[c] <= known[c] => FirstBirth[c] <= known'[c]
      BY <3>2, RecordsFacts DEF Meets
    <3> QED BY <1>1, <1>3, <3>2, <3>3
  <2>4. CASE ScanEnd
    <3>1. disc.scans # <<>> /\ disc' = Confirmed(disc) /\ known' = known
      BY <2>4 DEF ScanEnd, ScanEnds
    <3>2. disc'.confirmed = disc.scans[1].to /\ disc.confirmed < disc.scans[1].to
      BY <1>1, <3>1, ConfirmedOK
    <3>3. disc'.confirmed \in Int BY DiscParts DEF TInv, StreamKinds
    <3> QED BY <1>1, <1>3, <3>1, <3>2, <3>3
  <2>5. CASE ScanFail
    <3>1. disc.scans # <<>> /\ known' = known BY <2>5 DEF ScanFail, ScanFails
    <3>2. PICK window : disc' = RolledBack(disc, window) BY <2>5 DEF ScanFail, ScanFails
    <3>3. disc'.confirmed = disc.confirmed BY <1>1, <3>1, <3>2, RolledBackOK
    <3> QED BY <1>1, <1>3, <3>1, <3>3
  <2> QED BY <2>1, <2>2, <2>3, <2>4, <2>5
<1> QED BY <1>2, <1>4, WriterMoves

-----------------------------------------------------------------------------
(* Nothing found is lost, what is confirmed was found, what is cached is stored. *)

LEMMA InitWrites ==
  ASSUME Tiled, Init
  PROVE  RInv /\ WInv
PROOF
<1>1. /\ disc = NewDisc /\ known = Nobody /\ entry = NoEntries /\ cache = NoChunks
      /\ tx = Dispatched({}) /\ pendingFlushes = [i \in Interval |-> Nobody]
      /\ store = [rows |-> [row \in Child \X Blocks |-> 0], logs |-> {}, cached |-> {}]
  BY DEF Init
<1>2. \A i \in Interval : tx[i].at \in {"idle", "done", "ready"} /\ tx[i].rows = {}
  BY <1>1 DEF Dispatched, NoTx
<1>3. RInv BY <1>1, <1>2, FreshReach DEF Rebooted, NewDisc
<1>4. Sound
  <2>1. \A c \in Child : FirstBirth[c] <= known[c]
    <3> SUFFICES ASSUME NEW c \in Child PROVE FirstBirth[c] <= known[c] OBVIOUS
    <3>1. FirstBirth[c] \in 0..Unborn /\ known[c] = Unborn BY <1>1, FirstBirthFacts, NobodyOK
    <3> QED BY <3>1, GridAssumption DEF Unborn
  <2>2. \A row \in Child \X Blocks : ~(store.rows[row] > 0) BY <1>1
  <2> QED BY <1>2, <2>1, <2>2 DEF Sound
<1>5. InPlace BY <1>1, NobodyOK DEF InPlace
<1>6. Flushed /\ FlushedKnown BY <1>2 DEF Flushed, FlushedKnown
<1>7. SeedSafe
  <2> SUFFICES ASSUME NEW i \in Interval, tx[i].at \notin {"idle", "done"},
                      NEW c \in Child, FirstBirth[c] < Lo(i)
               PROVE  FALSE
    BY DEF SeedSafe
  <2>1. PICK j \in Interval : j < i /\ FirstBirth[c] \in BlocksOf(j) BY BornBefore, LoOK
  <2> QED BY <1>1, <2>1, FirstUncached
<1>8. ChildrenPersisted BY <1>1 DEF ChildrenPersisted
<1> QED BY <1>3, <1>4, <1>5, <1>6, <1>7, <1>8 DEF WInv

LEMMA WrittenKept ==
  ASSUME StreamMode, Disjoint, Tiled
  PROVE  TInv /\ TInv' /\ IInv /\ RInv /\ WInv /\ [Next]_vars => RInv' /\ WInv'
PROOF
<1> SUFFICES ASSUME TInv, TInv', IInv, RInv, WInv, [Next]_vars PROVE RInv' /\ WInv' OBVIOUS
<1>1. SeedSafe /\ NothingOverwritten BY DEF WInv, IInv
<1>2. CASE \E i \in Interval :
             \/ Enter(i) \/ LearnHead(i) \/ RefuseGap(i) \/ Delegate(i) \/ AskChunks(i)
             \/ FetchThrows(i) \/ Flush(i) \/ InsertFails(i) \/ Serve(i) \/ InsertLogsFails(i)
             \/ FallBack(i) \/ Commit(i) \/ CommitUnseen(i) \/ Rollback(i) \/ Retry(i)
  BY <1>1, <1>2, CallbackReach, CallbackWrites
<1>3. CASE \E e \in Entry : Resume(e) \/ Stream(e) \/ StreamEnd(e) \/ StreamFail(e)
  BY <1>3, ChainReach, StreamWrites
<1>4. CASE ScanFind \/ ScanEnd \/ ScanFail BY <1>4, ScanReach, StreamWrites
<1>5. CASE Die \/ Restart BY <1>5, ProcessReach, ProcessWrites
<1>6. CASE Finalize \/ Finished \/ Stopped \/ UNCHANGED vars
  BY <1>6, ProcessReach, StreamWrites DEF Finished, Stopped
<1> QED BY <1>2, <1>3, <1>4, <1>5, <1>6 DEF Next

LEMMA SpecWrites ==
  ASSUME StreamMode, Disjoint, Tiled
  PROVE  Spec => [](RInv /\ WInv)
PROOF
<1>1. Init => RInv /\ WInv BY InitWrites
<1> QED BY <1>1, InitOK, ShellKept, WrittenKept, SpecKinds, PTL DEF Spec

(* INV-15, for contiguous required intervals in order: an interval marked cached *)
(* has its children in the store, at the block that first created them, for any  *)
(* chunk grid, any failures and restarts, and in every order of the steps        *)
(* (persistPendingChildren, pendingFlushes; portal.ts 747-805, 840-845).        *)
THEOREM CachedMeansPersisted ==
  ASSUME StreamMode, Disjoint, Tiled
  PROVE  Spec => []ChildrenPersisted
PROOF
<1>1. RInv /\ WInv => ChildrenPersisted BY DEF WInv
<1> QED BY <1>1, SpecWrites, PTL

(* INV-3: no creation up to the confirmed watermark is unknown to the child map, *)
(* after scans that failed and were repeated, and after restarts that seed the   *)
(* watermark at the durable frontier (ensure, seed; portal-discovery.ts).       *)
THEOREM ConfirmedMeansFound ==
  ASSUME StreamMode, Disjoint, Tiled
  PROVE  Spec => []WatermarkHonest
PROOF
<1>1. RInv /\ WInv => WatermarkHonest BY DEF RInv, FoundTo, WatermarkHonest
<1> QED BY <1>1, SpecWrites, PTL

-----------------------------------------------------------------------------
(* Nothing is stored twice.  Each open transaction reads the store before it      *)
(* inserts, so what has to be excluded is that something is inserted by two of   *)
(* them, or by one that has committed unseen.                                *)

(* What an open transaction has inserted: a creation in its own blocks, which   *)
(* is not durable yet.                                                     *)
NewRow(i, row) ==
  /\ row \in Child \X Blocks /\ row[2] \in BlocksOf(i)
  /\ store.rows[row] = 0 /\ known[row[1]] <= row[2]
OwnRows == \A i \in Interval : \A row \in tx[i].rows : NewRow(i, row)

(* A running process knows of every child in the store, at least as early.     *)
StoreKnown ==
  up => \A row \in Child \X Blocks : store.rows[row] > 0 => known[row[1]] <= row[2]

RowInv == /\ Kinds /\ NothingEarlier /\ NothingRuns
          /\ InPlace /\ OwnRows /\ StoreKnown /\ RowsOnce

-----------------------------------------------------------------------------
(* Where things are in the order of blocks.                                  *)

LEMMA BlocksBelowUnborn ==
  ASSUME NEW i \in Interval
  PROVE  /\ Hi(i) \in Blocks
         /\ \A n \in 0..Unborn : n \in BlocksOf(i) => n \in Blocks
         /\ Unborn \notin BlocksOf(i)
<1>1. Hi(i) \in Blocks /\ LastBlock \in Nat
  BY SyncAssumption, GridAssumption DEF Hi
<1>2. QED BY <1>1 DEF BlocksOf, Blocks, Unborn

LEMMA BornInPlace ==
  ASSUME NEW i \in Interval
  PROVE  /\ BornIn(BlocksOf(i)) \in Births
         /\ \A c \in Child : BornIn(BlocksOf(i))[c] \in BlocksOf(i) \cup {Unborn}
<1> DEFINE at(c) == {m \in BlocksOf(i) : <<c, m>> \in Creations}
<1>1. \A c \in Child : at(c) \subseteq Blocks BY DiscoveryAssumption
<1>2. BornIn(BlocksOf(i)) = [c \in Child |-> Earliest(at(c))] BY DEF BornIn
<1>3. \A c \in Child : at(c) \subseteq BlocksOf(i) OBVIOUS
<1> HIDE DEF at
<1>4. \A c \in Child : Earliest(at(c)) \in 0..Unborn
                       /\ (Earliest(at(c)) # Unborn => Earliest(at(c)) \in at(c))
  BY <1>1, EarliestOK
<1>5. QED BY <1>2, <1>3, <1>4 DEF Births

(* What survives the dedupe is new to the store.                              *)
LEMMA DedupedFresh ==
  ASSUME Kinds, NothingEarlier, InPlace, NEW i \in Interval,
         NEW row \in Deduped(pendingFlushes[i])
  PROVE  NewRow(i, row)
<1>1. PICK c \in Child : row = <<c, pendingFlushes[i][c]>>
                         /\ pendingFlushes[i][c] < StoredBirths[c]
  BY DEF Deduped
<1>2. /\ pendingFlushes[i][c] \in 0..Unborn /\ StoredBirths[c] \in 0..Unborn
      /\ known[c] <= pendingFlushes[i][c]
  BY <1>1, BirthsOK DEF Kinds, Births, NothingEarlier
<1>3. pendingFlushes[i][c] # Unborn BY <1>1, <1>2, GridAssumption DEF Unborn
<1>4. pendingFlushes[i][c] \in BlocksOf(i) /\ pendingFlushes[i][c] \in Blocks
  BY <1>1, <1>2, <1>3, BlocksBelowUnborn DEF InPlace
<1>5. row \in Child \X Blocks /\ row[1] = c /\ row[2] = pendingFlushes[i][c]
  BY <1>1, <1>4
<1>6. store.rows[row] \in Nat BY <1>5 DEF Kinds
<1>7. ~(store.rows[row] > 0)
  <2>1. store.rows[<<c, pendingFlushes[i][c]>>] > 0 => StoredBirths[c] <= pendingFlushes[i][c]
    BY <1>4, BirthsOK
  <2>2. QED BY <1>1, <1>2, <2>1
<1>8. store.rows[row] = 0 BY <1>6, <1>7
<1>9. QED BY <1>2, <1>4, <1>5, <1>8 DEF NewRow

-----------------------------------------------------------------------------
(* The steps of an interval that has not committed.                           *)

LEMMA FreshStays ==
  ASSUME RowInv, Ordered', UNCHANGED store, \A c \in Child : known'[c] <= known[c],
         NEW i \in Interval, NEW row, NewRow(i, row)
  PROVE  NewRow(i, row)'
<1>1. \A c \in Child : known[c] \in 0..Unborn /\ known'[c] \in 0..Unborn
  BY DEF RowInv, Kinds, Ordered, Births
<1>2. row[1] \in Child /\ row[2] \in Blocks BY DEF NewRow
<1>3. known'[row[1]] <= row[2]
  BY <1>1, <1>2, GridAssumption DEF NewRow, Blocks, Unborn
<1>4. QED BY <1>3 DEF NewRow, BlocksOf

(* The memory changes, the store does not, and the callback moves on, with     *)
(* nothing inserted or something fresh.                                      *)
LEMMA ShellStep ==
  ASSUME RowInv, Ordered', InPlace', UNCHANGED <<store, up>>,
         \A c \in Child : known'[c] <= known[c],
         NEW i \in Interval, tx[i].at # "idle",
         \/ UNCHANGED tx
         \/ \E at : tx' = Moved(i, at)
         \/ \E rows, logs : tx' = Ranged(i, rows, logs)
                            /\ \A row \in rows : NewRow(i, row)'
  PROVE  RowInv'
<1>1. up /\ NothingRuns' BY DEF RowInv, NothingRuns, Kinds
<1>2. \A c \in Child : known[c] \in 0..Unborn /\ known'[c] \in 0..Unborn
  BY DEF RowInv, Kinds, Ordered, Births
<1>3. \A j \in Interval : \A row : NewRow(j, row) => NewRow(j, row)' BY FreshStays
<1>4. tx' = [j \in Interval |-> tx'[j]] /\ OwnRows'
  <2>1. CASE UNCHANGED tx BY <1>3, <2>1 DEF RowInv, Kinds, OwnRows
  <2>2. CASE \E at : tx' = Moved(i, at)
    <3>1. PICK at : tx' = Moved(i, at) BY <2>2
    <3>2. \A j \in Interval : tx'[j].rows = {} \/ tx'[j] = tx[j]
      BY <3>1 DEF Moved, NoTx, RowInv, Kinds
    <3>3. tx' = [j \in Interval |-> tx'[j]] BY <3>1, MovedOK DEF RowInv
    <3>4. QED BY <1>3, <3>2, <3>3 DEF RowInv, OwnRows
  <2>3. CASE \E rows, logs : tx' = Ranged(i, rows, logs)
                             /\ \A row \in rows : NewRow(i, row)'
    <3>1. PICK rows, logs : tx' = Ranged(i, rows, logs)
                            /\ \A row \in rows : NewRow(i, row)'
      BY <2>3
    <3>2. /\ tx' = [j \in Interval |-> tx'[j]] BY <3>1, RangedOK DEF RowInv
    <3>3. \A j \in Interval : \/ j = i /\ tx'[j].rows = rows
                              \/ tx'[j].rows = {} \/ tx'[j] = tx[j]
      BY <3>1 DEF Ranged, NoTx
    <3>4. QED BY <1>3, <3>1, <3>2, <3>3 DEF RowInv, OwnRows
  <2>4. QED BY <2>1, <2>2, <2>3
<1>5. StoreKnown'
  <2> SUFFICES ASSUME NEW row \in Child \X Blocks, store.rows[row] > 0
               PROVE  known'[row[1]] <= row[2]
    BY DEF StoreKnown
  <2>1. row[1] \in Child /\ row[2] \in Blocks /\ known[row[1]] <= row[2]
    BY <1>1 DEF RowInv, StoreKnown
  <2>2. QED BY <1>2, <2>1, GridAssumption DEF Blocks, Unborn
<1>6. RowsOnce' BY DEF RowInv, RowsOnce
<1>7. Kinds' BY <1>1, <1>4 DEF RowInv, Kinds, Ordered
<1>8. QED BY <1>1, <1>4, <1>5, <1>6, <1>7 DEF RowInv, Ordered

(* The three ways the memory of an interval changes.                          *)
LEMMA MemoryKept ==
  ASSUME RowInv, UNCHANGED <<known, queue, pendingFlushes>>
  PROVE  Ordered' /\ InPlace' /\ \A c \in Child : known'[c] <= known[c]
<1>1. \A c \in Child : known[c] \in 0..Unborn BY DEF RowInv, Kinds, Births
<1>2. \A c \in Child : known[c] <= known[c] BY <1>1
<1>3. QED BY <1>2 DEF RowInv, Kinds, Ordered, NothingEarlier, InPlace, BlocksOf

LEMMA MemoryRestored ==
  ASSUME RowInv, NEW i \in Interval, UNCHANGED known,
         queue' = Restored(i), pendingFlushes' = [pendingFlushes EXCEPT ![i] = Nobody]
  PROVE  Ordered' /\ InPlace' /\ \A c \in Child : known'[c] <= known[c]
<1>1. \A c \in Child : known[c] \in 0..Unborn BY DEF RowInv, Kinds, Births
<1>2. \A c \in Child : known'[c] <= known[c] BY <1>1
<1>3. /\ Ordered'
      /\ \A c \in Child, j \in Interval :
           pendingFlushes'[j][c] = IF j = i THEN Unborn ELSE pendingFlushes[j][c]
  BY RestoringOrders DEF RowInv
<1>4. InPlace' BY <1>3 DEF RowInv, InPlace, BlocksOf
<1>5. QED BY <1>2, <1>3, <1>4

LEMMA MemoryTaken ==
  ASSUME RowInv, NEW i \in Interval, UNCHANGED known, Take(i)
  PROVE  Ordered' /\ InPlace' /\ \A c \in Child : known'[c] <= known[c]
<1>1. \A c \in Child : known[c] \in 0..Unborn BY DEF RowInv, Kinds, Births
<1>2. \A c \in Child : known'[c] <= known[c] BY <1>1
<1>3. /\ Ordered'
      /\ \A c \in Child, j \in Interval :
           pendingFlushes'[j][c] = IF j # i THEN pendingFlushes[j][c]
                                   ELSE IF queue[c] \in Lo(i)..Hi(i) THEN queue[c] ELSE Unborn
  BY TakingOrders DEF RowInv
<1>4. InPlace' BY <1>3 DEF RowInv, InPlace, BlocksOf
<1>5. QED BY <1>2, <1>3, <1>4

(* The RPC sync inserts, beyond the children taken, those it is the first to   *)
(* find: what is in the store is known, hence not among them.                 *)
LEMMA FallBackStep ==
  ASSUME RowInv, NEW i \in Interval, FallBack(i)
  PROVE  RowInv'
<1> DEFINE born == BornIn(Lo(i)..Hi(i))
           found == {c \in Child : born[c] < known[c]}
           rows == Deduped(pendingFlushes[i]) \cup {<<c, born[c]>> : c \in found}
<1>1. /\ tx[i].at = "delegating" /\ known' = Lower(known, born)
      /\ \E logs : tx' = Ranged(i, rows, logs)
      /\ UNCHANGED <<queue, pendingFlushes, store, up>>
  BY DEF FallBack
<1>2. up BY <1>1 DEF RowInv, NothingRuns, Kinds
<1>3. /\ born \in Births /\ \A c \in Child : born[c] \in BlocksOf(i) \cup {Unborn}
  BY BornInPlace DEF BlocksOf
<1> HIDE DEF born
<1>4. \A c \in Child : /\ born[c] \in 0..Unborn /\ known[c] \in 0..Unborn
                       /\ queue[c] \in 0..Unborn
                       /\ \A j \in Interval : pendingFlushes[j][c] \in 0..Unborn
                       /\ known[c] <= queue[c]
                       /\ \A j \in Interval : known[c] <= pendingFlushes[j][c]
  BY <1>3 DEF RowInv, Kinds, Births, NothingEarlier
<1>5. \A c \in Child : /\ known'[c] = Smaller(known[c], born[c])
                       /\ known'[c] \in 0..Unborn
                       /\ known'[c] <= known[c] /\ known'[c] <= born[c]
  BY <1>1, <1>4, GridAssumption DEF Lower, Smaller, Unborn
<1>6. Ordered'
  <2>1. known' \in Births BY <1>1, <1>5 DEF Births, Lower
  <2>2. NothingEarlier' BY <1>1, <1>4, <1>5, GridAssumption DEF NothingEarlier, Unborn
  <2>3. QED BY <1>1, <2>1, <2>2 DEF Ordered, RowInv, Kinds
<1>7. InPlace' BY <1>1 DEF RowInv, InPlace, BlocksOf
<1>8. \A row \in rows : NewRow(i, row)'
  <2>1. ASSUME NEW row \in Deduped(pendingFlushes[i]) PROVE NewRow(i, row)'
    <3>1. NewRow(i, row) BY DedupedFresh DEF RowInv
    <3>2. QED BY <1>1, <1>5, <1>6, <3>1, FreshStays
  <2>2. ASSUME NEW c \in found PROVE NewRow(i, <<c, born[c]>>)'
    <3>1. c \in Child /\ born[c] < known[c] OBVIOUS
    <3>2. born[c] # Unborn BY <1>4, <3>1, GridAssumption DEF Unborn
    <3>3. born[c] \in BlocksOf(i) /\ born[c] \in Blocks
      BY <1>3, <1>4, <3>1, <3>2, BlocksBelowUnborn
    <3> DEFINE row == <<c, born[c]>>
    <3>4. row \in Child \X Blocks /\ row[1] = c /\ row[2] = born[c] BY <3>1, <3>3
    <3>5. row = <<c, born[c]>> OBVIOUS
    <3> HIDE DEF row
    <3>6. store.rows[row] \in Nat BY <3>4 DEF RowInv, Kinds
    <3>7. store.rows[row] > 0 => known[c] <= born[c]
      BY <1>2, <3>4 DEF RowInv, StoreKnown
    <3>8. ~(store.rows[row] > 0) BY <1>4, <3>1, <3>7
    <3>9. store'.rows[row] = 0 BY <1>1, <3>6, <3>8
    <3>10. row[2] \in BlocksOf(i)' BY <3>3, <3>4 DEF BlocksOf
    <3>11. known'[row[1]] <= row[2] BY <1>5, <3>1, <3>4
    <3>12. NewRow(i, row)' BY <3>4, <3>9, <3>10, <3>11 DEF NewRow
    <3>13. QED BY <3>5, <3>12
  <2>3. QED BY <2>1, <2>2
<1>9. \E r, logs : tx' = Ranged(i, r, logs) /\ \A row \in r : NewRow(i, row)'
  BY <1>1, <1>8
<1>10. QED BY <1>1, <1>5, <1>6, <1>7, <1>9, ShellStep

-----------------------------------------------------------------------------
(* A commit, seen or not: what is inserted becomes durable, and what the other   *)
(* transactions hold is of other blocks.                                     *)
LEMMA CommitStep ==
  ASSUME RowInv, Disjoint, NEW i \in Interval, store' = Durable(i),
         tx[i].at # "idle", NEW at, tx' = Moved(i, at),
         UNCHANGED <<known, queue, pendingFlushes, up>>
  PROVE  RowInv'
<1>1. /\ store.rows \in [Child \X Blocks -> Nat]
      /\ store'.rows = [row \in Child \X Blocks |->
                          store.rows[row] + IF row \in tx[i].rows THEN 1 ELSE 0]
  BY DEF Durable, RowInv, Kinds
<1>2. \A row \in Child \X Blocks : /\ store'.rows[row] \in Nat
                                   /\ row \in tx[i].rows => store'.rows[row] = store.rows[row] + 1
                                   /\ row \notin tx[i].rows => store'.rows[row] = store.rows[row]
  <2> SUFFICES ASSUME NEW row \in Child \X Blocks
               PROVE  /\ store'.rows[row] \in Nat
                      /\ row \in tx[i].rows => store'.rows[row] = store.rows[row] + 1
                      /\ row \notin tx[i].rows => store'.rows[row] = store.rows[row]
    OBVIOUS
  <2>1. CASE row \in tx[i].rows BY <1>1, <2>1
  <2>2. CASE row \notin tx[i].rows BY <1>1, <2>2
  <2>3. QED BY <2>1, <2>2
<1>3. store'.rows \in [Child \X Blocks -> Nat] BY <1>1, <1>2
<1>4. \A row \in tx[i].rows : NewRow(i, row) BY DEF RowInv, OwnRows
<1>5. RowsOnce'
  <2> SUFFICES ASSUME NEW row \in Child \X Blocks PROVE store'.rows[row] <= 1
    BY DEF RowsOnce
  <2>1. CASE row \in tx[i].rows BY <1>2, <1>4, <2>1 DEF NewRow
  <2>2. CASE row \notin tx[i].rows BY <1>2, <2>2 DEF RowInv, RowsOnce
  <2>3. QED BY <2>1, <2>2
<1>6. StoreKnown'
  <2> SUFFICES ASSUME up, NEW row \in Child \X Blocks, store'.rows[row] > 0
               PROVE  known[row[1]] <= row[2]
    BY DEF StoreKnown
  <2>1. CASE row \in tx[i].rows BY <1>4, <2>1 DEF NewRow
  <2>2. CASE row \notin tx[i].rows BY <1>2, <2>2 DEF RowInv, StoreKnown
  <2>3. QED BY <2>1, <2>2
<1>7. /\ tx' = [j \in Interval |-> tx'[j]]
      /\ tx'[i].rows = {}
      /\ \A j \in Interval : j # i => tx'[j] = tx[j]
  <2>1. tx' = [j \in Interval |-> tx'[j]] BY MovedOK DEF RowInv
  <2>2. \A j \in Interval : j # i => tx'[j] = tx[j] BY MovedOK DEF RowInv
  <2>3. tx'[i].rows = {} BY DEF Moved, NoTx, RowInv, Kinds
  <2>4. QED BY <2>1, <2>2, <2>3
<1>8. OwnRows'
  <2> SUFFICES ASSUME NEW j \in Interval, j # i, NEW row \in tx[j].rows
               PROVE  NewRow(j, row)'
    BY <1>7 DEF OwnRows
  <2>1. NewRow(j, row) BY DEF RowInv, OwnRows
  <2>2. row \notin tx[i].rows BY <1>4, <2>1 DEF NewRow, Disjoint
  <2>3. store'.rows[row] = store.rows[row] BY <1>2, <2>1, <2>2 DEF NewRow
  <2>4. QED BY <2>1, <2>3 DEF NewRow, BlocksOf
<1>9. NothingRuns' BY DEF RowInv, NothingRuns, Kinds
<1>10. Kinds' /\ NothingEarlier' /\ InPlace'
  BY <1>3, <1>7 DEF RowInv, Kinds, NothingEarlier, InPlace, BlocksOf
<1>11. QED BY <1>5, <1>6, <1>8, <1>9, <1>10 DEF RowInv

LEMMA RowsIntervalStep ==
  ASSUME RowInv, Disjoint, NEW i \in Interval,
         \/ Enter(i) \/ LearnHead(i) \/ RefuseGap(i) \/ Delegate(i) \/ AskChunks(i)
         \/ FetchThrows(i) \/ Flush(i) \/ InsertFails(i) \/ Serve(i) \/ InsertLogsFails(i)
         \/ FallBack(i) \/ Commit(i) \/ CommitUnseen(i) \/ Rollback(i) \/ Retry(i)
  PROVE  RowInv'
<1>1. CASE \/ LearnHead(i) \/ RefuseGap(i) \/ FetchThrows(i) \/ InsertLogsFails(i)
           \/ Rollback(i) \/ Retry(i)
  <2>1. /\ tx[i].at # "idle" /\ UNCHANGED <<known, queue, pendingFlushes, store, up>>
        /\ UNCHANGED tx \/ \E at : tx' = Moved(i, at)
    <3>1. CASE LearnHead(i) BY <3>1 DEF LearnHead, Probe, discVars, shellVars
    <3>2. CASE RefuseGap(i) BY <3>2 DEF RefuseGap, Probe, discVars
    <3>3. CASE FetchThrows(i) BY <3>3 DEF FetchThrows, discVars
    <3>4. CASE InsertLogsFails(i) BY <3>4 DEF InsertLogsFails, Assemble
    <3>5. CASE Rollback(i) BY <3>5 DEF Rollback, discVars
    <3>6. CASE Retry(i) BY <3>6 DEF Retry, discVars
    <3>7. QED BY <1>1, <3>1, <3>2, <3>3, <3>4, <3>5, <3>6
  <2>2. Ordered' /\ InPlace' /\ \A c \in Child : known'[c] <= known[c]
    BY <2>1, MemoryKept
  <2>3. QED BY <2>1, <2>2, ShellStep
<1>2. CASE Enter(i) \/ AskChunks(i) \/ InsertFails(i)
  <2>1. /\ tx[i].at # "idle" /\ UNCHANGED <<known, store, up>>
        /\ queue' = Restored(i)
        /\ pendingFlushes' = [pendingFlushes EXCEPT ![i] = Nobody]
        /\ \E at : tx' = Moved(i, at)
    <3>1. CASE Enter(i) BY <3>1 DEF Enter
    <3>2. CASE AskChunks(i) BY <3>2 DEF AskChunks
    <3>3. CASE InsertFails(i) BY <3>3 DEF InsertFails
    <3>4. QED BY <1>2, <3>1, <3>2, <3>3
  <2>2. Ordered' /\ InPlace' /\ \A c \in Child : known'[c] <= known[c]
    BY <2>1, MemoryRestored
  <2>3. QED BY <2>1, <2>2, ShellStep
<1>3. CASE Delegate(i) \/ Flush(i)
  <2>1. /\ tx[i].at # "idle" /\ UNCHANGED <<known, store, up>>
        /\ Take(i) /\ \E at : tx' = Moved(i, at)
    <3>1. CASE Delegate(i) BY <3>1 DEF Delegate, Probe, TakeDelegated
    <3>2. CASE Flush(i) BY <3>2 DEF Flush
    <3>3. QED BY <1>3, <3>1, <3>2
  <2>2. Ordered' /\ InPlace' /\ \A c \in Child : known'[c] <= known[c]
    BY <2>1, MemoryTaken
  <2>3. QED BY <2>1, <2>2, ShellStep
<1>4. CASE Serve(i)
  <2>1. /\ tx[i].at # "idle" /\ UNCHANGED <<known, queue, pendingFlushes, store, up>>
        /\ \E logs : tx' = Ranged(i, Deduped(pendingFlushes[i]), logs)
    BY <1>4 DEF Serve, Assemble
  <2>2. Ordered' /\ InPlace' /\ \A c \in Child : known'[c] <= known[c]
    BY <2>1, MemoryKept
  <2>3. \A row \in Deduped(pendingFlushes[i]) : NewRow(i, row)'
    BY <2>1, <2>2, DedupedFresh, FreshStays DEF RowInv
  <2>4. \E rows, logs : tx' = Ranged(i, rows, logs) /\ \A row \in rows : NewRow(i, row)'
    BY <2>1, <2>3
  <2>5. QED BY <2>1, <2>2, <2>4, ShellStep
<1>5. CASE FallBack(i) BY <1>5, FallBackStep
<1>6. CASE Commit(i) \/ CommitUnseen(i)
  <2>1. /\ tx[i].at # "idle" /\ store' = Durable(i)
        /\ UNCHANGED <<known, queue, pendingFlushes, up>>
        /\ \E at : tx' = Moved(i, at)
    BY <1>6 DEF Commit, CommitUnseen, discVars
  <2>2. QED BY <2>1, CommitStep
<1>7. QED BY <1>1, <1>2, <1>3, <1>4, <1>5, <1>6

-----------------------------------------------------------------------------
(* The rest of the process, and its restarts.                                 *)

LEMMA RowsIdleStep ==
  ASSUME RowInv, Ordered', UNCHANGED <<pendingFlushes, tx, store, up>>,
         \A c \in Child : known'[c] <= known[c],
         NothingRuns'
  PROVE  RowInv'
<1>1. \A c \in Child : known[c] \in 0..Unborn /\ known'[c] \in 0..Unborn
  BY DEF RowInv, Kinds, Ordered, Births
<1>2. OwnRows' BY FreshStays DEF RowInv, OwnRows
<1>3. StoreKnown'
  <2> SUFFICES ASSUME up, NEW row \in Child \X Blocks, store.rows[row] > 0
               PROVE  known'[row[1]] <= row[2]
    BY DEF StoreKnown
  <2>1. row[1] \in Child /\ row[2] \in Blocks /\ known[row[1]] <= row[2]
    BY DEF RowInv, StoreKnown
  <2>2. QED BY <1>1, <2>1, GridAssumption DEF Blocks, Unborn
<1>4. InPlace' /\ RowsOnce' BY DEF RowInv, InPlace, RowsOnce, BlocksOf
<1>5. QED BY <1>2, <1>3, <1>4 DEF RowInv, Kinds, Ordered

LEMMA RowsStreamStep ==
  ASSUME RowInv,
         \/ \E e \in Entry : Resume(e) \/ Stream(e) \/ StreamEnd(e) \/ StreamFail(e)
         \/ ScanEnd \/ ScanFail
  PROVE  RowInv'
<1>1. ShellIdle /\ UNCHANGED <<known, queue>>
  BY DEF Resume, Stream, StreamEnd, StreamFail, ScanEnd, ScanFail,
         Resumes, Streams, StreamEnds, StreamFails, ScanEnds, ScanFails
<1>2. up
  BY DEF RowInv, Kinds, NothingRuns, Resume, Stream, StreamEnd, StreamFail, ScanEnd, ScanFail,
         Resumes, Streams, StreamEnds, StreamFails, ScanEnds, ScanFails
<1>3. UNCHANGED <<known, queue, pendingFlushes, tx, store, up>>
  BY <1>1 DEF ShellIdle, shellVars
<1>4. NothingRuns' BY <1>2, <1>3 DEF NothingRuns
<1>5. QED BY <1>3, <1>4, MemoryKept, RowsIdleStep

LEMMA RowsScanStep ==
  ASSUME RowInv, ScanFind
  PROVE  RowInv'
<1>1. PICK n \in Blocks : Scan(n) BY DEF ScanFind
<1>2. UNCHANGED <<pendingFlushes, tx, store, up>> BY DEF ScanFind, ShellIdle, shellVars
<1>3. Records(n) BY <1>1 DEF Scan, ScanFinds, StrayFinds
<1>4. up BY <1>1 DEF RowInv, Kinds, NothingRuns, Scan, ScanFinds, StrayFinds
<1>5. /\ Ordered'
      /\ \A c \in Child : known'[c] = known[c] \/ known'[c] < known[c]
  BY <1>2, <1>3, RecordingOrders DEF RowInv
<1>6. \A c \in Child : known'[c] <= known[c]
  <2>1. \A c \in Child : known[c] \in 0..Unborn /\ known'[c] \in 0..Unborn
    BY <1>5 DEF RowInv, Kinds, Ordered, Births
  <2>2. QED BY <1>5, <2>1
<1>7. NothingRuns' BY <1>2, <1>4 DEF NothingRuns
<1>8. QED BY <1>2, <1>5, <1>6, <1>7, RowsIdleStep

LEMMA RowsDieStep ==
  ASSUME RowInv, Die
  PROVE  RowInv'
<1>1. /\ up' = FALSE /\ known' = Nobody /\ queue' = Nobody
      /\ tx' = [i \in Interval |-> NoTx]
      /\ pendingFlushes' = [i \in Interval |-> Nobody]
      /\ disc' = NewDisc /\ entry' = NoEntries /\ store' = store
  BY DEF Die
<1>2. Kinds' BY <1>1, NobodyOK DEF Kinds, RowInv
<1>3. NothingEarlier' /\ InPlace'
  BY <1>1, NobodyOK, GridAssumption DEF NothingEarlier, InPlace, Unborn
<1>4. OwnRows' BY <1>1 DEF OwnRows, NoTx
<1>5. NothingRuns' BY <1>1 DEF NothingRuns, NoTx, NewDisc, NoEntries, NoEntry
<1>6. StoreKnown' /\ RowsOnce' BY <1>1 DEF RowInv, StoreKnown, RowsOnce
<1>7. QED BY <1>2, <1>3, <1>4, <1>5, <1>6 DEF RowInv

LEMMA RowsRestartStep ==
  ASSUME RowInv, Restart
  PROVE  RowInv'
<1> USE GridAssumption
<1>1. /\ ~up /\ up' = TRUE /\ known' = StoredBirths /\ tx' = Dispatched(store.cached)
      /\ UNCHANGED <<queue, pendingFlushes, store>>
  BY DEF Restart
<1>2. queue = Nobody /\ \A i \in Interval : pendingFlushes[i] = Nobody
  BY <1>1 DEF RowInv, NothingRuns
<1>3. \A c \in Child : StoredBirths[c] \in 0..Unborn BY BirthsOK DEF Births
<1>4. /\ tx' = [i \in Interval |-> tx'[i]]
      /\ \A i \in Interval : tx'[i].rows = {}
  BY <1>1 DEF Dispatched, NoTx
<1>5. Kinds' BY <1>1, <1>4, BirthsOK DEF Kinds, RowInv
<1>6. NothingEarlier' BY <1>1, <1>2, <1>3, NobodyOK DEF NothingEarlier, Unborn
<1>7. StoreKnown'
  <2> SUFFICES ASSUME NEW row \in Child \X Blocks, store.rows[row] > 0
               PROVE  StoredBirths[row[1]] <= row[2]
    BY <1>1 DEF StoreKnown
  <2>1. row[1] \in Child /\ row[2] \in Blocks /\ row = <<row[1], row[2]>> OBVIOUS
  <2>2. QED BY <2>1, BirthsOK
<1>8. OwnRows' BY <1>4 DEF OwnRows
<1>9. NothingRuns' BY <1>1 DEF NothingRuns
<1>10. InPlace' /\ RowsOnce' BY <1>1 DEF RowInv, InPlace, RowsOnce, BlocksOf
<1>11. QED BY <1>5, <1>6, <1>7, <1>8, <1>9, <1>10 DEF RowInv

LEMMA RowsStutterStep ==
  ASSUME RowInv, UNCHANGED <<discVars, entry, shellVars, store, up>>
  PROVE  RowInv'
<1>1. UNCHANGED <<known, queue, pendingFlushes, tx, store, up, disc, entry>>
  BY DEF discVars, shellVars
<1>2. NothingRuns' BY <1>1 DEF RowInv, NothingRuns
<1>3. QED BY <1>1, <1>2, MemoryKept, RowsIdleStep

LEMMA RowsInit == Init => RowInv
<1> SUFFICES ASSUME Init PROVE RowInv OBVIOUS
<1>1. tx = Dispatched({}) /\ up = TRUE BY DEF Init
<1>2. tx = [i \in Interval |-> tx[i]] /\ \A i \in Interval : tx[i].rows = {}
  BY <1>1 DEF Dispatched, NoTx
<1>3. Kinds BY <1>1, <1>2, NobodyOK DEF Init, Kinds
<1>4. NothingEarlier /\ InPlace
  BY NobodyOK, GridAssumption DEF Init, NothingEarlier, InPlace, Unborn
<1>5. StoreKnown /\ RowsOnce
  <2>1. \A row \in Child \X Blocks : store.rows[row] = 0 BY DEF Init
  <2>2. QED BY <2>1 DEF StoreKnown, RowsOnce
<1>6. OwnRows BY <1>2 DEF OwnRows
<1>7. NothingRuns BY <1>1 DEF NothingRuns
<1>8. QED BY <1>3, <1>4, <1>5, <1>6, <1>7 DEF RowInv

LEMMA RowsKept == ASSUME Disjoint PROVE RowInv /\ [Next]_vars => RowInv'
<1> SUFFICES ASSUME RowInv, [Next]_vars PROVE RowInv' OBVIOUS
<1>1. CASE \E i \in Interval :
             \/ Enter(i) \/ LearnHead(i) \/ RefuseGap(i) \/ Delegate(i) \/ AskChunks(i)
             \/ FetchThrows(i) \/ Flush(i) \/ InsertFails(i) \/ Serve(i) \/ InsertLogsFails(i)
             \/ FallBack(i) \/ Commit(i) \/ CommitUnseen(i) \/ Rollback(i) \/ Retry(i)
  BY <1>1, RowsIntervalStep
<1>2. CASE \/ \E e \in Entry : Resume(e) \/ Stream(e) \/ StreamEnd(e) \/ StreamFail(e)
           \/ ScanEnd \/ ScanFail
  BY <1>2, RowsStreamStep
<1>3. CASE ScanFind BY <1>3, RowsScanStep
<1>4. CASE Die BY <1>4, RowsDieStep
<1>5. CASE Restart BY <1>5, RowsRestartStep
<1>6. CASE Finalize \/ Finished \/ Stopped \/ UNCHANGED vars
  BY <1>6, RowsStutterStep DEF Finalize, Finished, Stopped, vars, streamVars
<1>7. QED BY <1>1, <1>2, <1>3, <1>4, <1>5, <1>6 DEF Next

(* No child is persisted twice under one block, though a flush is restored after  *)
(* a transaction that may have committed unseen, the RPC sync inserts children of  *)
(* its own, and a restart begins again from the store                          *)
(* (dedupeChildAddressesAgainstStore, persistPendingChildren).                 *)
THEOREM NothingStoredTwice ==
  ASSUME Disjoint
  PROVE  Spec => []RowsOnce
<1>1. RowInv => RowsOnce BY DEF RowInv
<1>2. QED BY RowsInit, RowsKept, <1>1, PTL DEF Spec

-----------------------------------------------------------------------------
(* The logs: what chunks cover, what promises vouch for, and what is stored.      *)

(* Core's intervals lie in the range that is required, as the grid of chunks.      *)
Started == \A i \in Interval : BackfillStart <= Lo(i)

(* Whatever an interval fetches is vouched for, whatever it flushes is held.       *)
Backed(at, promises, ent, top, i) ==
  /\ at = "fetching" => \A n \in BlocksOf(i) : \E p \in promises : Vouches(ent, p, n)
  /\ at = "flushing" =>
       /\ top >= Hi(i)
       /\ \A n \in BlocksOf(i) : \E p \in promises : Holds(ent[p.entry], n)
AwaitsCover ==
  \A i \in Interval : Backed(tx[i].at, awaited[i], entry, disc.confirmed, i)

(* A transaction that hands over has every log of its blocks, no log of a child   *)
(* before its birth and none of other blocks; neither has the store, of the       *)
(* intervals cached.                                                       *)
Complete(logs, i) == \A n \in BlocksOf(i) : \A c \in Born(n) : <<n, c>> \in logs
LogsHeld ==
  /\ \A i \in Interval : tx[i].at = "ranged" => Complete(tx[i].logs, i)
  /\ \A i \in Interval : \A log \in tx[i].logs : log[1] \in BlocksOf(i) /\ log[2] \in Born(log[1])
  /\ \A log \in store.logs : log[2] \in Born(log[1])
  /\ \A i \in store.cached : Complete(store.logs, i)

(* What may become of an entry that covers something: it stays, or its first job   *)
(* has read all that it was to read, or it is rejected.                       *)
Stays(r, q) ==
  /\ q.jobs = r.jobs /\ q.done = r.done /\ q.data = r.data /\ q.idx = r.idx
  /\ q.from = r.from /\ q.to = r.to
  /\ q.at \notin {"free", "failed"} => r.at \notin {"free", "failed"}
  /\ r.at = "failed" => q.at = "failed"
Read(r, q) ==
  /\ r.at = "streaming" /\ Born(Head(r.jobs).to) \subseteq r.filter /\ r.jobs # <<>>
  /\ q.jobs = Tail(r.jobs) /\ q.done = r.done + 1 /\ q.idx = r.idx
  /\ q.from = r.from /\ q.to = r.to
  /\ q.data = r.data \cup ((Head(r.jobs).from..Head(r.jobs).to) \X r.filter)
GivenUp(r, q) == q.at = "failed" /\ q.done = r.done /\ q.data = r.data
Onward(r, q) == Stays(r, q) \/ Read(r, q) \/ GivenUp(r, q)

LEMMA StaysOK == \A r : Stays(r, r)
PROOF BY DEF Stays

LEMMA HoldsOnward ==
  ASSUME NEW r, NEW q, Onward(r, q), NEW n, Holds(r, n)
  PROVE  Holds(q, n)
PROOF
BY DEF Holds, Onward, Stays, Read, GivenUp

(* Who is born by a block is born by every later one.                         *)
LEMMA BornGrows ==
  ASSUME NEW m \in Int, NEW n \in Int, m <= n
  PROVE  Born(m) \subseteq Born(n)
PROOF
<1>1. \A c \in Child : FirstBirth[c] \in Int
  <2>1. \A c \in Child : FirstBirth[c] \in 0..Unborn BY FirstBirthFacts
  <2> QED BY <2>1, GridAssumption DEF Unborn
<1> QED BY <1>1 DEF Born

LEMMA AccountsOnward ==
  ASSUME NEW r \in EntryKind, NEW q \in EntryKind, Stays(r, q) \/ Read(r, q),
         NEW n, NEW j \in Nat, Accounts(r, n, j)
  PROVE  Accounts(q, n, j)
PROOF
<1>1. CASE Holds(r, n) BY <1>1, HoldsOnward DEF Accounts, Onward
<1>2. CASE Stays(r, q) BY <1>2 DEF Stays, Accounts, Holds
<1>3. CASE Read(r, q) /\ ~Holds(r, n)
  <2>1. PICK m \in 1..Len(r.jobs) : n \in r.jobs[m].from..r.jobs[m].to /\ r.done + m <= j
    BY <1>3 DEF Accounts
  <2>2. /\ Len(r.jobs) \in Nat /\ r.done \in Nat /\ r.jobs[m].from \in Int /\ r.jobs[m].to \in Int
    BY <2>1, EntryParts
  <2>3. /\ Len(Tail(r.jobs)) = Len(r.jobs) - 1 /\ Head(r.jobs) = r.jobs[1]
        /\ \A k \in 1..(Len(r.jobs) - 1) : Tail(r.jobs)[k] = r.jobs[k + 1]
    BY <1>3, TailFacts DEF Read
  <2>4. CASE m = 1
    <3>1. n \in Head(r.jobs).from..Head(r.jobs).to BY <2>1, <2>3, <2>4
    <3>2. Born(n) \subseteq Born(Head(r.jobs).to) BY <2>2, <2>3, <2>4, <3>1, BornGrows
    <3>3. Holds(q, n) BY <1>3, <3>1, <3>2 DEF Read, Holds
    <3> QED BY <3>3 DEF Accounts
  <2>5. CASE m # 1
    <3>1. m - 1 \in 1..(Len(r.jobs) - 1) BY <2>2, <2>5
    <3>2. Tail(r.jobs)[m - 1] = r.jobs[m]
      <4>1. (m - 1) + 1 = m BY <2>1, <2>2
      <4> QED BY <2>3, <3>1, <4>1
    <3>3. /\ m - 1 \in 1..Len(q.jobs) /\ q.jobs[m - 1] = r.jobs[m]
          /\ q.done + (m - 1) <= j
      BY <1>3, <2>1, <2>2, <2>3, <3>1, <3>2 DEF Read
    <3> QED BY <2>1, <3>3 DEF Accounts
  <2> QED BY <2>4, <2>5
<1> QED BY <1>1, <1>2, <1>3

LEMMA VouchesOnward ==
  ASSUME NEW ent, EntriesOK(ent), NEW ent2, EntriesOK(ent2), NEW p \in Promise, NEW n,
         Vouches(ent, p, n), Onward(ent[p.entry], ent2[p.entry])
  PROVE  Vouches(ent2, p, n)
PROOF
<1> DEFINE r == ent[p.entry]
           q == ent2[p.entry]
<1>1. p.entry \in Entry /\ p.job \in Nat BY DEF Promise
<1>2. r \in EntryKind /\ q \in EntryKind BY <1>1 DEF EntriesOK
<1>3. r.done \in Nat /\ Len(r.jobs) \in Nat BY <1>2, EntryParts
<1>4. \/ r.at = "failed" /\ r.done < p.job
      \/ Accounts(r, n, p.job)
  BY DEF Vouches
<1>5. (q.at = "failed" /\ q.done < p.job) \/ Accounts(q, n, p.job) => Vouches(ent2, p, n)
  BY DEF Vouches
<1>6. Onward(r, q) OBVIOUS
<1> HIDE DEF r, q
<1>7. CASE r.at = "failed" /\ r.done < p.job
  BY <1>5, <1>6, <1>7 DEF Onward, Stays, Read, GivenUp
<1>8. CASE Accounts(r, n, p.job) /\ (Stays(r, q) \/ Read(r, q))
  BY <1>1, <1>2, <1>5, <1>8, AccountsOnward
<1>9. CASE Accounts(r, n, p.job) /\ GivenUp(r, q)
  <2>1. CASE Holds(r, n) BY <1>5, <1>9, <2>1 DEF GivenUp, Holds, Accounts
  <2>2. CASE \E m \in 1..Len(r.jobs) : r.done + m <= p.job
    <3>1. PICK m \in 1..Len(r.jobs) : r.done + m <= p.job BY <2>2
    <3>2. r.done < p.job BY <1>1, <1>3, <3>1
    <3> QED BY <1>5, <1>9, <3>2 DEF GivenUp
  <2> QED BY <1>9, <2>1, <2>2 DEF Accounts
<1> QED BY <1>4, <1>6, <1>7, <1>8, <1>9 DEF Onward

(* An entry still covers what it did, whatever it is that happened to it.         *)
LEMMA CoversOnward ==
  ASSUME NEW r \in EntryKind, NEW q \in EntryKind, Stays(r, q) \/ Read(r, q), Covers(r),
         q.at = "streaming" => Born(Head(q.jobs).to) \subseteq q.filter
  PROVE  Covers(q)
PROOF
<1>1. r.done \in Nat /\ Len(r.jobs) \in Nat BY EntryParts
<1>2. q.done + Len(q.jobs) = r.done + Len(r.jobs) /\ q.from = r.from /\ q.to = r.to /\ q.idx = r.idx
  <2>1. CASE Stays(r, q) BY <2>1 DEF Stays
  <2>2. CASE Read(r, q)
    <3>1. Len(q.jobs) = Len(r.jobs) - 1 /\ q.done = r.done + 1 BY <2>2, TailFacts DEF Read
    <3> QED BY <1>1, <2>2, <3>1 DEF Read
  <2> QED BY <2>1, <2>2
<1>3. ASSUME NEW n \in q.from..q.to PROVE Accounts(q, n, q.done + Len(q.jobs))
  <2>1. Accounts(r, n, r.done + Len(r.jobs)) BY <1>2 DEF Covers
  <2>2. r.done + Len(r.jobs) \in Nat BY <1>1
  <2>3. Accounts(q, n, r.done + Len(r.jobs)) BY <2>1, <2>2, AccountsOnward
  <2> QED BY <1>2, <2>3
<1> QED BY <1>2, <1>3 DEF Covers

LEMMA EntriesOnward ==
  ASSUME NEW ent, EntriesOK(ent), EntriesCover(ent), NEW ent2, EntriesOK(ent2),
         \A e \in Entry :
           \/ ent2[e].at \in {"free", "failed"}
           \/ ent2[e] = ent[e]
           \/ /\ ent[e].at \notin {"free", "failed"}
              /\ Stays(ent[e], ent2[e]) \/ Read(ent[e], ent2[e])
              /\ ent2[e].at = "streaming" => Born(Head(ent2[e].jobs).to) \subseteq ent2[e].filter
  PROVE  EntriesCover(ent2)
PROOF
<1> SUFFICES ASSUME NEW e \in Entry, ent2[e].at \notin {"free", "failed"} PROVE Covers(ent2[e])
  BY DEF EntriesCover
<1>1. ent[e] \in EntryKind /\ ent2[e] \in EntryKind BY DEF EntriesOK
<1>2. CASE ent2[e] = ent[e] BY <1>2 DEF EntriesCover
<1>3. CASE /\ ent[e].at \notin {"free", "failed"}
           /\ Stays(ent[e], ent2[e]) \/ Read(ent[e], ent2[e])
           /\ ent2[e].at = "streaming" => Born(Head(ent2[e].jobs).to) \subseteq ent2[e].filter
  <2>1. Covers(ent[e]) BY <1>3 DEF EntriesCover
  <2> QED BY <1>1, <1>3, <2>1, CoversOnward
<1> QED BY <1>2, <1>3

LEMMA BackedPrimed ==
  ASSUME \A i \in Interval : Backed(tx'[i].at, awaited'[i], entry', disc'.confirmed, i)
  PROVE  AwaitsCover'
PROOF
BY DEF AwaitsCover, Backed, Vouches, Accounts, Holds, Born, BlocksOf, Lo, Hi

LEMMA CoverPrimed ==
  ASSUME EntriesCover(entry') PROVE EntriesCover(entry)'
PROOF
BY DEF EntriesCover, Covers, Accounts, Holds, Born, GridFrom, Larger

(* What is swept covers what it did.                                         *)
LEMMA SweptCovers ==
  ASSUME NEW ent, EntriesOK(ent), EntriesCover(ent), NEW ent2, EntriesOK(ent2),
         \A e \in Entry : ent2[e] = ent[e] \/ ent2[e] = NoEntry
  PROVE  EntriesCover(ent2)
PROOF
<1>1. \A e \in Entry : ent2[e].at \in {"free", "failed"} \/ ent2[e] = ent[e] BY NoEntryOK
<1> QED BY <1>1, EntriesOnward

(* Who waits in its place is backed as before.                                *)
LEMMA BackedOnward ==
  ASSUME TInv, EntriesOK(entry'), NEW i \in Interval,
         disc.confirmed \in Int, disc'.confirmed \in Int, disc'.confirmed >= disc.confirmed,
         Backed(tx[i].at, awaited[i], entry, disc.confirmed, i),
         \A p \in awaited[i] : Onward(entry[p.entry], entry'[p.entry])
  PROVE  Backed(tx[i].at, awaited[i], entry', disc'.confirmed, i)
PROOF
<1>1. EntriesOK(entry) /\ awaited[i] \subseteq Promise /\ Hi(i) \in Nat BY StreamParts
<1>2. ASSUME tx[i].at = "fetching", NEW n \in BlocksOf(i)
      PROVE  \E p \in awaited[i] : Vouches(entry', p, n)
  <2>1. PICK p \in awaited[i] : Vouches(entry, p, n) BY <1>2 DEF Backed
  <2>2. p \in Promise /\ Onward(entry[p.entry], entry'[p.entry]) BY <1>1, <2>1
  <2>3. Vouches(entry', p, n) BY <1>1, <2>1, <2>2, VouchesOnward
  <2> QED BY <2>1, <2>3
<1>3. ASSUME tx[i].at = "flushing", NEW n \in BlocksOf(i)
      PROVE  \E p \in awaited[i] : Holds(entry'[p.entry], n)
  <2>1. PICK p \in awaited[i] : Holds(entry[p.entry], n) BY <1>3 DEF Backed
  <2>2. Holds(entry'[p.entry], n) BY <2>1, HoldsOnward
  <2> QED BY <2>1, <2>2
<1>4. ASSUME tx[i].at = "flushing" PROVE disc'.confirmed >= Hi(i)
  <2>1. disc.confirmed >= Hi(i) BY <1>4 DEF Backed
  <2> QED BY <1>1, <2>1
<1> QED BY <1>2, <1>3, <1>4 DEF Backed

LEMMA BackedGrows ==
  ASSUME TInv, NEW t, EntriesOK(t.entry), Grows(entry, t.entry), NEW i \in Interval,
         disc.confirmed \in Int, disc'.confirmed \in Int, disc'.confirmed >= disc.confirmed,
         Backed(tx[i].at, awaited[i], entry, disc.confirmed, i),
         \A p \in awaited[i] : entry'[p.entry] = t.entry[p.entry]
  PROVE  Backed(tx[i].at, awaited[i], entry', disc'.confirmed, i)
PROOF
<1>1. EntriesOK(entry) /\ awaited[i] \subseteq Promise /\ Hi(i) \in Nat BY StreamParts
<1>2. ASSUME tx[i].at = "fetching", NEW n \in BlocksOf(i)
      PROVE  \E p \in awaited[i] : Vouches(entry', p, n)
  <2>1. PICK p \in awaited[i] : Vouches(entry, p, n) BY <1>2 DEF Backed
  <2>2. p \in Promise /\ entry'[p.entry] = t.entry[p.entry] BY <1>1, <2>1
  <2>3. Vouches(t.entry, p, n) BY <1>1, <2>1, <2>2, GrowsVouches
  <2>4. Vouches(entry', p, n) BY <2>2, <2>3 DEF Vouches
  <2> QED BY <2>1, <2>4
<1>3. ASSUME tx[i].at = "flushing", NEW n \in BlocksOf(i)
      PROVE  \E p \in awaited[i] : Holds(entry'[p.entry], n)
  <2>1. PICK p \in awaited[i] : Holds(entry[p.entry], n) BY <1>3 DEF Backed
  <2>2. p.entry \in Entry /\ entry'[p.entry] = t.entry[p.entry] BY <1>1, <2>1 DEF Promise
  <2>3. Holds(entry'[p.entry], n)
    <3>1. CASE entry[p.entry].at = "free"
      <4>1. entry[p.entry].data = {} BY <2>2, <3>1 DEF EntriesOK, TInv, StreamKinds, NoEntry
      <4> QED BY <2>1, <4>1 DEF Holds
    <3>2. CASE entry[p.entry].at # "free"
      BY <2>1, <2>2, <3>2 DEF Grows, Widened, Holds
    <3> QED BY <3>1, <3>2
  <2> QED BY <2>1, <2>3
<1>4. ASSUME tx[i].at = "flushing" PROVE disc'.confirmed >= Hi(i)
  <2>1. disc.confirmed >= Hi(i) BY <1>4 DEF Backed
  <2> QED BY <1>1, <2>1
<1> QED BY <1>2, <1>3, <1>4 DEF Backed

(* The jobs: what a stream asks for is every child born by the end of its job.  *)
LEMMA LiveWide ==
  ASSUME TInv, RInv, NEW to \in Marks, disc.confirmed >= Target(to)
  PROVE  Born(to) \subseteq Live
PROOF
<1> SUFFICES ASSUME NEW c \in Child, FirstBirth[c] <= to PROVE known[c] # Unborn
  BY DEF Born, Live
<1>1. /\ to \in Int /\ to <= LastBlock /\ LastBlock \in Nat
      /\ disc.confirmed \in Int /\ Target(to) \in Int /\ to <= Target(to)
  BY TargetOK, Numbers, GridAssumption DEF Marks, Blocks
<1>2. known[c] \in Int /\ FirstBirth[c] \in Int BY Numbers
<1>3. FirstBirth[c] # Unborn BY <1>1, <1>2 DEF Unborn
<1>4. known[c] <= FirstBirth[c]
  <2> DEFINE creation == <<c, FirstBirth[c]>>
  <2>1. creation \in Creations /\ creation[1] = c /\ creation[2] = FirstBirth[c]
    BY <1>3, FirstBirthFacts
  <2> HIDE DEF creation
  <2>2. creation[2] <= disc.confirmed BY <1>1, <1>2, <2>1
  <2> QED BY <2>1, <2>2 DEF RInv, FoundTo
<1> QED BY <1>1, <1>2, <1>4 DEF Unborn

(* What the streams and scans leave covered, and what those who wait see of it.  *)
Carried ==
  /\ EntriesOK(entry') /\ EntriesCover(entry')
  /\ \A i \in Interval : \A p \in awaited[i] : Onward(entry[p.entry], entry'[p.entry])

LEMMA CarriedSame ==
  ASSUME TInv, EntriesCover(entry), UNCHANGED entry PROVE Carried
PROOF
BY StreamParts, StaysOK DEF Carried, Onward

LEMMA CarriedRejected ==
  ASSUME TInv, EntriesCover(entry), NEW broken \in SUBSET Entry, Rejected(broken),
         \A e \in broken : entry[e].at \in {"discovering", "streaming"}
  PROVE  Carried
PROOF
<1>1. /\ EntriesOK(entry')
      /\ \A e \in Entry \ broken : entry'[e] = entry[e] \/ entry'[e] = NoEntry
      /\ \A e \in broken : entry'[e] = NoEntry \/ entry'[e].at = "failed"
      /\ \A i \in Interval : \A p \in awaited[i] :
           IF p.entry \in broken
             THEN /\ entry'[p.entry].at = "failed"
                  /\ entry'[p.entry].done = entry[p.entry].done
                  /\ entry'[p.entry].data = entry[p.entry].data
             ELSE entry'[p.entry] = entry[p.entry]
  BY RejectedOK
<1>2. EntriesCover(entry')
  <2>1. \A e \in Entry : entry'[e].at \in {"free", "failed"} \/ entry'[e] = entry[e]
    BY <1>1, NoEntryOK
  <2> QED BY <1>1, <2>1, StreamParts, EntriesOnward
<1>3. \A i \in Interval : \A p \in awaited[i] : Onward(entry[p.entry], entry'[p.entry])
  BY <1>1, StaysOK DEF Onward, GivenUp
<1> QED BY <1>1, <1>2, <1>3 DEF Carried

LEMMA ChainCovers ==
  ASSUME TInv, RInv, EntriesCover(entry), NEW e \in Entry,
         Resume(e) \/ Stream(e) \/ StreamEnd(e) \/ StreamFail(e)
  PROVE  Carried
PROOF
<1>1. EntriesOK(entry) /\ \A i \in Interval : \A p \in awaited[i] : p.entry \in Entry
  BY StreamParts DEF Promise
<1>2. CASE Resume(e)
  <2>1. Resumes(e) /\ entry[e].at = "settled" BY <1>2 DEF Resume, Resumes
  <2>2. /\ EntriesOK(entry') /\ entry'[e].at = "discovering"
        /\ entry'[e].jobs = entry[e].jobs /\ entry'[e].done = entry[e].done
        /\ entry'[e].idx = entry[e].idx /\ entry'[e].to = entry[e].to
        /\ entry'[e].from = entry[e].from /\ entry'[e].data = entry[e].data
        /\ \A f \in Entry : f # e => entry'[f] = entry[f]
    BY <2>1, ResumesOK
  <2>3. Stays(entry[e], entry'[e]) BY <2>1, <2>2 DEF Stays
  <2>4. EntriesCover(entry') BY <1>1, <2>1, <2>2, <2>3, EntriesOnward
  <2> QED BY <1>1, <2>2, <2>3, <2>4, StaysOK DEF Carried, Onward
<1>3. CASE Stream(e) /\ Ready(Head(entry[e].jobs).to)
  <2>1. Streams(e) BY <1>3 DEF Stream
  <2>2. /\ entry[e].at = "discovering" /\ disc.confirmed >= entry[e].wait
        /\ EntriesOK(entry') /\ entry'[e].at = "streaming" /\ entry'[e].filter = Live
        /\ entry'[e].jobs = entry[e].jobs /\ entry'[e].done = entry[e].done
        /\ entry'[e].idx = entry[e].idx /\ entry'[e].to = entry[e].to
        /\ entry'[e].from = entry[e].from /\ entry'[e].data = entry[e].data
        /\ \A f \in Entry : f # e => entry'[f] = entry[f]
    BY <1>3, <2>1, StreamsOK
  <2>3. Stays(entry[e], entry'[e]) BY <2>2 DEF Stays
  <2>4. Head(entry[e].jobs).to \in Marks
    <3>1. entry[e] \in EntryKind /\ entry[e].jobs # <<>> BY <1>1, <2>2 DEF EntriesOK
    <3>2. 1 \in 1..Len(entry[e].jobs) /\ Head(entry[e].jobs) = entry[e].jobs[1]
      BY <3>1, TailFacts
    <3> QED BY <3>1, <3>2, EntryParts
  <2>5. disc.confirmed >= Target(Head(entry[e].jobs).to)
    <3>1. entry[e].wait >= Target(Head(entry[e].jobs).to) BY <2>2 DEF RInv, JobsWait
    <3>2. entry[e].wait \in Int
      <4>1. entry[e] \in EntryKind BY <1>1 DEF EntriesOK
      <4> QED BY <4>1, EntryParts
    <3>3. Target(Head(entry[e].jobs).to) \in Int BY <2>4, TargetOK, GridAssumption DEF Blocks
    <3> QED BY <2>2, <3>1, <3>2, <3>3, Numbers
  <2>6. Born(Head(entry'[e].jobs).to) \subseteq entry'[e].filter
    BY <2>2, <2>4, <2>5, LiveWide
  <2>7. EntriesCover(entry') BY <1>1, <2>2, <2>3, <2>6, EntriesOnward
  <2> QED BY <1>1, <2>2, <2>3, <2>7, StaysOK DEF Carried, Onward
<1>4. CASE StreamEnd(e)
  <2>1. StreamEnds(e) BY <1>4 DEF StreamEnd
  <2> DEFINE r == entry[e]
             q == [r EXCEPT !.at = "settled", !.jobs = Tail(@), !.done = @ + 1,
                     !.filter = {}, !.wait = -1,
                     !.data = @ \cup ((Head(r.jobs).from..Head(r.jobs).to) \X r.filter)]
             streamed == [entry EXCEPT ![e] = q]
  <2>2. /\ r.at = "streaming" /\ q.at = "settled"
        /\ q.jobs = Tail(r.jobs) /\ q.done = r.done + 1 /\ q.idx = r.idx
        /\ q.from = r.from /\ q.to = r.to
        /\ q.data = r.data \cup ((Head(r.jobs).from..Head(r.jobs).to) \X r.filter)
        /\ EntriesOK(entry')
        /\ \A f \in Entry : entry'[f] = streamed[f] \/ entry'[f] = NoEntry
        /\ \A i \in Interval : \A p \in awaited[i] : entry'[p.entry] = streamed[p.entry]
        /\ \A f \in Entry : f # e => streamed[f] = entry[f]
        /\ streamed[e] = q
    BY <2>1, StreamEndsOK
  <2>3. Born(Head(r.jobs).to) \subseteq r.filter /\ r.jobs # <<>>
    BY <1>1, <2>2 DEF EntriesCover, Covers, EntriesOK
  <2> HIDE DEF q, streamed
  <2>4. Read(entry[e], streamed[e]) BY <2>2, <2>3 DEF Read
  <2>5. EntriesCover(entry')
    <3> SUFFICES ASSUME NEW f \in Entry
                 PROVE  \/ entry'[f].at \in {"free", "failed"}
                        \/ entry'[f] = entry[f]
                        \/ /\ entry[f].at \notin {"free", "failed"}
                           /\ Stays(entry[f], entry'[f]) \/ Read(entry[f], entry'[f])
                           /\ entry'[f].at = "streaming" =>
                                Born(Head(entry'[f].jobs).to) \subseteq entry'[f].filter
      BY <1>1, <2>2, EntriesOnward
    <3>1. CASE entry'[f] = NoEntry BY <3>1, NoEntryOK
    <3>2. CASE entry'[f] = streamed[f] /\ f # e BY <2>2, <3>2
    <3>3. CASE entry'[f] = streamed[f] /\ f = e BY <2>2, <2>4, <3>3
    <3> QED BY <2>2, <3>1, <3>2, <3>3
  <2>6. \A i \in Interval : \A p \in awaited[i] : Onward(entry[p.entry], entry'[p.entry])
    BY <1>1, <2>2, <2>4, StaysOK DEF Onward
  <2> QED BY <2>2, <2>5, <2>6 DEF Carried
<1>5. CASE StreamFail(e) \/ (Stream(e) /\ ~Ready(Head(entry[e].jobs).to))
  <2>1. /\ Rejected({e}) /\ entry[e].at \in {"discovering", "streaming"}
    BY <1>5 DEF Stream, Streams, StreamFail, StreamFails
  <2> QED BY <2>1, CarriedRejected
<1> QED BY <1>2, <1>3, <1>4, <1>5

LEMMA ScanCovers ==
  ASSUME TInv, RInv, EntriesCover(entry), ScanFind \/ ScanEnd \/ ScanFail
  PROVE  Carried
PROOF
<1>1. CASE ScanFind \/ ScanEnd
  BY <1>1, CarriedSame DEF ScanFind, Scan, ScanEnd, ScanEnds
<1>2. CASE ScanFail
  <2> DEFINE broken == {e \in Entry : entry[e].at = "discovering" /\ entry[e].wait > disc'.through}
  <2>1. Rejected(broken) BY <1>2 DEF ScanFail, ScanFails
  <2>2. broken \in SUBSET Entry /\ \A e \in broken : entry[e].at = "discovering" OBVIOUS
  <2> HIDE DEF broken
  <2> QED BY <2>1, <2>2, CarriedRejected
<1> QED BY <1>1, <1>2
-----------------------------------------------------------------------------
(* The callbacks: what they ask for, leave and read ahead.                     *)

LEMMA AskCovers ==
  ASSUME TInv, TInv', EntriesCover(entry), NEW i \in Interval, AskChunks(i)
  PROVE  /\ EntriesCover(entry')
         /\ Started /\ AwaitsCover => AwaitsCover'
PROOF
<1>1. PICK s, t : AskedFor(i, s, t) BY AskChunksMeans
<1>2. UNCHANGED <<fetchQuantum, portalHead, final>> BY DEF AskChunks
<1>3. /\ EntriesOK(t.entry) /\ Grows(entry, t.entry) /\ CacheOK(t.cache, t.entry)
      /\ s.entry = entry /\ EntriesCover(t.entry) /\ ~t.full
      /\ disc' = t.disc /\ entry' = Swept(t.entry, t.cache, awaited')
      /\ t.disc.confirmed = s.disc.confirmed
      /\ tx' = Moved(i, IF t.refused THEN "thrown" ELSE "fetching")
      /\ BackfillStart <= Lo(i) => \A n \in BlocksOf(i) : Vouching(t, n)
  BY <1>1 DEF AskedFor, Follows, AskOK
<1>4. /\ awaited' \in [Interval -> SUBSET Promise]
      /\ awaited'[i] = IF t.refused THEN {} ELSE t.promises
      /\ \A j \in Interval : j # i => awaited'[j] = awaited[j]
  BY <1>1, <1>2, AskedForKinds DEF TInv, StreamKinds
<1>5. /\ EntriesOK(entry') /\ \A e \in Entry : entry'[e] = t.entry[e] \/ entry'[e] = NoEntry
      /\ \A j \in Interval : \A p \in awaited'[j] : entry'[p.entry] = t.entry[p.entry]
  BY <1>3, <1>4, SweptOK
<1>6. EntriesCover(entry') BY <1>3, <1>5, SweptCovers
<1>7. disc.confirmed \in Int /\ disc'.confirmed \in Int /\ disc'.confirmed >= disc.confirmed
  <2>1. disc.confirmed \in Int /\ disc'.confirmed \in Int /\ Floor \in Nat /\ Lo(i) \in Nat
    BY Numbers, StreamParts, DiscParts DEF TInv, StreamKinds
  <2>2. CASE s.disc = disc BY <1>3, <2>1, <2>2
  <2>3. CASE disc.confirmed = -1 /\ s.disc.confirmed = Lo(i) - 1 /\ Lo(i) - 1 >= Floor
    BY <1>3, <2>1, <2>3
  <2> QED BY <1>1, <2>1, <2>2, <2>3 DEF AskedFor
<1>8. ASSUME Started, AwaitsCover, NEW j \in Interval
      PROVE  Backed(tx'[j].at, awaited'[j], entry', disc'.confirmed, j)
  <2>1. CASE j # i
    <3>1. tx'[j] = tx[j] BY <1>3, <2>1, MovedIs
    <3>2. Backed(tx[j].at, awaited[j], entry, disc.confirmed, j) BY <1>8 DEF AwaitsCover
    <3>3. \A p \in awaited[j] : entry'[p.entry] = t.entry[p.entry] BY <1>4, <1>5, <2>1
    <3> QED BY <1>3, <1>4, <1>7, <2>1, <3>1, <3>2, <3>3, BackedGrows
  <2>2. CASE j = i /\ ~t.refused
    <3>1. tx'[i].at = "fetching" BY <1>3, <2>2, MovedIs
    <3>2. ASSUME NEW n \in BlocksOf(i) PROVE \E p \in awaited'[i] : Vouches(entry', p, n)
      <4>1. Vouching(t, n) BY <1>3, <1>8 DEF Started
      <4>2. PICK p \in t.promises : Vouches(t.entry, p, n) BY <1>3, <2>2, <4>1 DEF Vouching
      <4>3. p \in awaited'[i] BY <1>4, <2>2
      <4>4. entry'[p.entry] = t.entry[p.entry] BY <1>5, <4>3
      <4> QED BY <4>2, <4>3, <4>4 DEF Vouches
    <3> QED BY <2>2, <3>1, <3>2 DEF Backed
  <2>3. CASE j = i /\ t.refused
    <3>1. tx'[i].at = "thrown" BY <1>3, <2>3, MovedIs
    <3> QED BY <2>3, <3>1 DEF Backed
  <2> QED BY <2>1, <2>2, <2>3
<1> QED BY <1>6, <1>8, BackedPrimed

LEMMA AssembleCovers ==
  ASSUME TInv, TInv', EntriesCover(entry), NEW i \in Interval, Assemble(i),
         UNCHANGED <<fetchQuantum, portalHead, final>>,
         \A j \in Interval : tx'[j].at \in {"fetching", "flushing"} =>
                               j # i /\ tx'[j].at = tx[j].at
  PROVE  /\ EntriesCover(entry') /\ disc'.confirmed = disc.confirmed
         /\ AwaitsCover => AwaitsCover'
PROOF
<1>1. PICK t : AssembledFrom(i, t) BY AssembleMeans
<1>2. /\ EntriesOK(t.entry) /\ Grows(entry, t.entry) /\ CacheOK(t.cache, t.entry)
      /\ EntriesCover(t.entry) /\ disc' = t.disc /\ t.disc.confirmed = disc.confirmed
      /\ cache' = EvictedBehind(t.cache, Lo(i)) /\ entry' = Swept(t.entry, cache', awaited')
  BY <1>1 DEF AssembledFrom, Follows, AskOK
<1>3. /\ awaited' \in [Interval -> SUBSET Promise]
      /\ \A j \in Interval : j # i => awaited'[j] = awaited[j]
  BY <1>1, AssembledKinds DEF TInv, StreamKinds
<1>4. CacheOK(cache', t.entry) BY <1>2, EvictedOK
<1>5. /\ EntriesOK(entry') /\ \A e \in Entry : entry'[e] = t.entry[e] \/ entry'[e] = NoEntry
      /\ \A j \in Interval : \A p \in awaited'[j] : entry'[p.entry] = t.entry[p.entry]
  BY <1>2, <1>3, <1>4, SweptOK
<1>6. EntriesCover(entry') BY <1>2, <1>5, SweptCovers
<1>7. disc.confirmed \in Int /\ disc'.confirmed = disc.confirmed BY <1>2, Numbers
<1>8. ASSUME AwaitsCover, NEW j \in Interval
      PROVE  Backed(tx'[j].at, awaited'[j], entry', disc'.confirmed, j)
  <2>1. CASE tx'[j].at \in {"fetching", "flushing"}
    <3>1. j # i /\ tx'[j].at = tx[j].at BY <2>1
    <3>2. Backed(tx[j].at, awaited[j], entry, disc.confirmed, j) BY <1>8 DEF AwaitsCover
    <3>3. \A p \in awaited[j] : entry'[p.entry] = t.entry[p.entry] BY <1>3, <1>5, <3>1
    <3> QED BY <1>2, <1>3, <1>7, <3>1, <3>2, <3>3, BackedGrows
  <2>2. CASE tx'[j].at \notin {"fetching", "flushing"} BY <2>2 DEF Backed
  <2> QED BY <2>1, <2>2
<1> QED BY <1>6, <1>7, <1>8, BackedPrimed

(* A step that leaves the chunks alone, but for those who no longer wait.        *)
LEMMA DroppedCovers ==
  ASSUME TInv, TInv', EntriesCover(entry), UNCHANGED <<disc, cache>>,
         UNCHANGED entry \/ entry' = Swept(entry, cache, awaited')
  PROVE  /\ EntriesCover(entry')
         /\ (/\ AwaitsCover
             /\ \A j \in Interval : tx'[j].at \in {"fetching", "flushing"} =>
                                      tx'[j].at = tx[j].at /\ awaited'[j] = awaited[j])
              => AwaitsCover'
PROOF
<1>1. EntriesOK(entry) /\ CacheOK(cache, entry) /\ awaited' \in [Interval -> SUBSET Promise]
  BY StreamParts DEF TInv, StreamKinds
<1>2. /\ EntriesOK(entry') /\ \A e \in Entry : entry'[e] = entry[e] \/ entry'[e] = NoEntry
      /\ \A j \in Interval : \A p \in awaited'[j] : entry'[p.entry] = entry[p.entry]
  <2>1. CASE UNCHANGED entry BY <1>1, <2>1
  <2>2. CASE entry' = Swept(entry, cache, awaited') BY <1>1, <2>2, SweptOK
  <2> QED BY <2>1, <2>2
<1>3. EntriesCover(entry') BY <1>1, <1>2, SweptCovers
<1>4. ASSUME AwaitsCover, NEW j \in Interval,
             tx'[j].at \in {"fetching", "flushing"} =>
               tx'[j].at = tx[j].at /\ awaited'[j] = awaited[j]
      PROVE  Backed(tx'[j].at, awaited'[j], entry', disc'.confirmed, j)
  <2>1. CASE tx'[j].at \in {"fetching", "flushing"}
    <3>1. Backed(tx[j].at, awaited[j], entry, disc.confirmed, j) BY <1>4 DEF AwaitsCover
    <3>2. \A p \in awaited[j] : Onward(entry[p.entry], entry'[p.entry])
      BY <1>2, <1>4, <2>1, StaysOK DEF Onward
    <3>3. disc.confirmed \in Int /\ disc'.confirmed = disc.confirmed BY Numbers
    <3> QED BY <1>2, <1>4, <2>1, <3>1, <3>2, <3>3, BackedOnward
  <2>2. CASE tx'[j].at \notin {"fetching", "flushing"} BY <2>2 DEF Backed
  <2> QED BY <2>1, <2>2
<1> QED BY <1>3, <1>4, BackedPrimed

(* What all promises vouched for is held when they are kept.                    *)
LEMMA FlushCovers ==
  ASSUME TInv, RInv, AwaitsCover, NEW i \in Interval, Flush(i)
  PROVE  AwaitsCover'
PROOF
<1>1. /\ tx[i].at = "fetching" /\ Served(i) /\ tx' = Moved(i, "flushing")
      /\ UNCHANGED <<disc, entry, awaited>>
  BY DEF Flush, streamVars
<1>2. tx'[i].at = "flushing" /\ \A j \in Interval : j # i => tx'[j] = tx[j] BY <1>1, MovedIs
<1>3. awaited[i] \subseteq Promise /\ \A e \in Entry : entry[e] \in EntryKind BY StreamParts
<1>4. ASSUME NEW n \in BlocksOf(i) PROVE \E p \in awaited[i] : Holds(entry[p.entry], n)
  <2>1. PICK p \in awaited[i] : Vouches(entry, p, n) BY <1>1 DEF AwaitsCover, Backed
  <2> DEFINE r == entry[p.entry]
  <2>2. p.entry \in Entry /\ p.job \in Nat BY <1>3, <2>1 DEF Promise
  <2>3. r.done >= p.job /\ r.done \in Nat /\ Len(r.jobs) \in Nat
    BY <1>1, <1>3, <2>1, <2>2, EntryParts DEF Served
  <2>4. (r.at = "failed" /\ r.done < p.job) \/ Accounts(r, n, p.job) BY <2>1 DEF Vouches
  <2> HIDE DEF r
  <2>5. Holds(r, n) BY <2>2, <2>3, <2>4 DEF Accounts
  <2> QED BY <2>1, <2>5 DEF r
<1>5. disc.confirmed >= Hi(i) BY <1>1, FlushFound
<1>6. \A j \in Interval : Backed(tx'[j].at, awaited'[j], entry', disc'.confirmed, j)
  <2> SUFFICES ASSUME NEW j \in Interval
               PROVE  Backed(tx'[j].at, awaited[j], entry, disc.confirmed, j)
    BY <1>1
  <2>1. CASE j = i BY <1>2, <1>4, <1>5, <2>1 DEF Backed
  <2>2. CASE j # i BY <1>2, <2>2 DEF AwaitsCover
  <2> QED BY <2>1, <2>2
<1> QED BY <1>6, BackedPrimed

LEMMA CallbackCovers ==
  ASSUME TInv, TInv', RInv, EntriesCover(entry), NothingOverwritten, StreamMode,
         NEW i \in Interval,
         \/ Enter(i) \/ LearnHead(i) \/ RefuseGap(i) \/ Delegate(i) \/ AskChunks(i)
         \/ FetchThrows(i) \/ Flush(i) \/ InsertFails(i) \/ Serve(i) \/ InsertLogsFails(i)
         \/ FallBack(i) \/ Commit(i) \/ CommitUnseen(i) \/ Rollback(i) \/ Retry(i)
  PROVE  /\ EntriesCover(entry')
         /\ Started /\ AwaitsCover => AwaitsCover'
PROOF
<1>1. CASE \/ Enter(i) \/ LearnHead(i) \/ RefuseGap(i)
           \/ Commit(i) \/ CommitUnseen(i) \/ Rollback(i) \/ Retry(i)
  <2>1. /\ UNCHANGED <<disc, cache, entry, awaited>>
        /\ \/ UNCHANGED tx
           \/ \E at \in {"probing", "thrown", "done", "ready"} : tx' = Moved(i, at)
    BY <1>1 DEF Enter, LearnHead, RefuseGap, Commit, CommitUnseen, Rollback, Retry, discVars,
                streamVars, shellVars
  <2>2. \A j \in Interval : tx'[j].at \in {"fetching", "flushing"} =>
                              tx'[j].at = tx[j].at /\ awaited'[j] = awaited[j]
    BY <2>1, MovedIs
  <2> QED BY <2>1, <2>2, DroppedCovers
<1>2. CASE FetchThrows(i) \/ InsertFails(i)
  <2>1. /\ awaited' = [awaited EXCEPT ![i] = {}] /\ entry' = Swept(entry, cache, awaited')
        /\ tx' = Moved(i, "thrown") /\ UNCHANGED <<disc, cache>>
    BY <1>2 DEF FetchThrows, InsertFails, discVars
  <2>2. \A j \in Interval : j # i => awaited'[j] = awaited[j] BY <2>1, AwaitedKind
  <2>3. \A j \in Interval : tx'[j].at \in {"fetching", "flushing"} =>
                              tx'[j].at = tx[j].at /\ awaited'[j] = awaited[j]
    BY <2>1, <2>2, MovedIs
  <2> QED BY <2>1, <2>3, DroppedCovers
<1>3. CASE AskChunks(i) BY <1>3, AskCovers
<1>4. CASE Flush(i)
  <2>1. EntriesCover(entry') BY <1>4 DEF Flush, streamVars
  <2> QED BY <1>4, <2>1, FlushCovers
<1>5. CASE Serve(i) \/ InsertLogsFails(i)
  <2>1. Assemble(i) /\ UNCHANGED <<fetchQuantum, portalHead, final>>
    BY <1>5 DEF Serve, InsertLogsFails
  <2>2. \A j \in Interval : tx'[j].at \in {"fetching", "flushing"} =>
                              j # i /\ tx'[j].at = tx[j].at
    <3>1. CASE InsertLogsFails(i)
      <4>1. tx' = Moved(i, "thrown") BY <3>1 DEF InsertLogsFails
      <4> QED BY <4>1, MovedIs
    <3>2. CASE Serve(i)
      <4>1. tx' = Ranged(i, Deduped(pendingFlushes[i]), Assembled(i, Lo(i), Hi(i)))
        BY <3>2 DEF Serve
      <4>2. tx \in [Interval -> Transaction] /\ pendingFlushes[i] \in Births BY ShellParts
      <4>3. HandedOver(i, Deduped(pendingFlushes[i]), Assembled(i, Lo(i), Hi(i)), tx')
        BY <4>1, <4>2, DedupedOK, AssembledOK, RangedIs
      <4> QED BY <4>3 DEF HandedOver
    <3> QED BY <1>5, <3>1, <3>2
  <2> QED BY <2>1, <2>2, AssembleCovers
<1>6. ~Delegate(i) /\ ~FallBack(i)
  BY DEF Delegate, FallBack, NothingOverwritten
<1> QED BY <1>1, <1>2, <1>3, <1>4, <1>5, <1>6

LEMMA ConfirmedGrows ==
  ASSUME TInv, TInv',
         \/ \E e \in Entry : Resume(e) \/ Stream(e) \/ StreamEnd(e) \/ StreamFail(e)
         \/ ScanFind \/ ScanEnd \/ ScanFail
  PROVE  disc.confirmed \in Int /\ disc'.confirmed \in Int /\ disc'.confirmed >= disc.confirmed
PROOF
<1>1. disc.confirmed \in Int /\ DiscOK(disc) BY Numbers, StreamParts
<1>2. disc'.confirmed \in Int BY DiscParts DEF TInv, StreamKinds
<1>3. CASE \E e \in Entry : Resume(e)
  <2>1. PICK e \in Entry : Resumes(e) BY <1>3 DEF Resume
  <2>2. disc'.confirmed = disc.confirmed BY <2>1, ResumesOK
  <2> QED BY <1>1, <2>2
<1>4. CASE \E e \in Entry : Stream(e) \/ StreamEnd(e) \/ StreamFail(e)
  <2>1. UNCHANGED disc
    BY <1>4 DEF Stream, Streams, StreamEnd, StreamEnds, StreamFail, StreamFails, discVars
  <2> QED BY <1>1, <2>1
<1>5. CASE ScanFind
  <2>1. PICK n \in Blocks : Scan(n) BY <1>5 DEF ScanFind
  <2>2. disc'.confirmed = disc.confirmed BY <2>1, ScanMeets
  <2> QED BY <1>1, <2>2
<1>6. CASE ScanEnd
  <2>1. disc.scans # <<>> /\ disc' = Confirmed(disc) BY <1>6 DEF ScanEnd, ScanEnds
  <2>2. disc'.confirmed = disc.scans[1].to /\ disc.confirmed < disc.scans[1].to
    BY <1>1, <2>1, ConfirmedOK
  <2> QED BY <1>1, <1>2, <2>2
<1>7. CASE ScanFail
  <2>1. disc.scans # <<>> BY <1>7 DEF ScanFail, ScanFails
  <2>2. PICK window : disc' = RolledBack(disc, window) BY <1>7 DEF ScanFail, ScanFails
  <2>3. disc'.confirmed = disc.confirmed BY <1>1, <2>1, <2>2, RolledBackOK
  <2> QED BY <1>1, <2>3
<1> QED BY <1>2, <1>3, <1>4, <1>5, <1>6, <1>7

(* What a process has just after its start covers nothing and backs nobody.     *)
LEMMA FreshCovers ==
  ASSUME NEW ent, ent = NoEntries
  PROVE  EntriesCover(ent)
PROOF
BY NoEntryOK DEF NoEntries, EntriesCover

LEMMA CoversKept ==
  ASSUME StreamMode
  PROVE  /\ TInv /\ TInv' /\ IInv /\ RInv /\ EntriesCover(entry) /\ [Next]_vars
              => EntriesCover(entry)'
         /\ TInv /\ TInv' /\ IInv /\ RInv /\ EntriesCover(entry) /\ [Next]_vars
            /\ Started /\ AwaitsCover => AwaitsCover'
PROOF
<1> SUFFICES ASSUME TInv, TInv', IInv, RInv, EntriesCover(entry), [Next]_vars
             PROVE  EntriesCover(entry') /\ (Started /\ AwaitsCover => AwaitsCover')
  BY CoverPrimed
<1>1. CASE \E i \in Interval :
             \/ Enter(i) \/ LearnHead(i) \/ RefuseGap(i) \/ Delegate(i) \/ AskChunks(i)
             \/ FetchThrows(i) \/ Flush(i) \/ InsertFails(i) \/ Serve(i) \/ InsertLogsFails(i)
             \/ FallBack(i) \/ Commit(i) \/ CommitUnseen(i) \/ Rollback(i) \/ Retry(i)
  BY <1>1, CallbackCovers DEF IInv
<1>2. CASE \/ \E e \in Entry : Resume(e) \/ Stream(e) \/ StreamEnd(e) \/ StreamFail(e)
           \/ ScanFind \/ ScanEnd \/ ScanFail
  <2>1. Carried BY <1>2, ChainCovers, ScanCovers
  <2>2. UNCHANGED <<tx, awaited>>
    BY <1>2 DEF Resume, Stream, StreamEnd, StreamFail, ScanFind, ScanEnd, ScanFail, ShellIdle,
                shellVars
  <2>3. disc.confirmed \in Int /\ disc'.confirmed \in Int /\ disc'.confirmed >= disc.confirmed
    BY <1>2, ConfirmedGrows
  <2>4. ASSUME AwaitsCover, NEW i \in Interval
        PROVE  Backed(tx'[i].at, awaited'[i], entry', disc'.confirmed, i)
    <3>1. Backed(tx[i].at, awaited[i], entry, disc.confirmed, i) BY <2>4 DEF AwaitsCover
    <3>2. EntriesOK(entry') /\ \A p \in awaited[i] : Onward(entry[p.entry], entry'[p.entry])
      BY <2>1 DEF Carried
    <3>3. Backed(tx[i].at, awaited[i], entry', disc'.confirmed, i)
      BY <2>3, <3>1, <3>2, BackedOnward
    <3> QED BY <2>2, <3>3
  <2> QED BY <2>1, <2>4, BackedPrimed DEF Carried
<1>3. CASE Die \/ Restart
  <2>1. entry' = NoEntries
    <3>1. CASE Die BY <3>1 DEF Die
    <3>2. CASE Restart BY <3>2 DEF Restart, streamVars, TInv, Down
    <3> QED BY <1>3, <3>1, <3>2
  <2>2. \A i \in Interval : tx'[i].at \notin {"fetching", "flushing"}
    <3>1. CASE Die
      <4>1. tx' = [i \in Interval |-> NoTx] BY <3>1 DEF Die
      <4> QED BY <4>1 DEF NoTx
    <3>2. CASE Restart
      <4>1. tx' = Dispatched(store.cached) BY <3>2 DEF Restart
      <4> QED BY <4>1 DEF Dispatched, NoTx
    <3> QED BY <1>3, <3>1, <3>2
  <2>3. \A i \in Interval : Backed(tx'[i].at, awaited'[i], entry', disc'.confirmed, i)
    BY <2>2 DEF Backed
  <2> QED BY <2>1, <2>3, FreshCovers, BackedPrimed
<1>4. CASE Finalize \/ Finished \/ Stopped \/ UNCHANGED vars
  <2>1. UNCHANGED <<disc, cache, entry, tx, awaited>>
    BY <1>4 DEF Finalize, Finished, Stopped, vars, discVars, streamVars, shellVars
  <2> QED BY <2>1, DroppedCovers
<1> QED BY <1>1, <1>2, <1>3, <1>4 DEF Next

LEMMA InitCovers == Init => EntriesCover(entry) /\ AwaitsCover
PROOF
<1> SUFFICES ASSUME Init PROVE EntriesCover(entry) /\ AwaitsCover OBVIOUS
<1>1. entry = NoEntries /\ tx = Dispatched({}) BY DEF Init
<1>2. \A i \in Interval : tx[i].at \notin {"fetching", "flushing"} BY <1>1, DispatchedOK
<1>3. AwaitsCover BY <1>2 DEF AwaitsCover, Backed
<1> QED BY <1>1, <1>3, FreshCovers

(* INV-3, INV-13, in stream mode and for contiguous required intervals: what the  *)
(* bounds of a cached chunk claim, moved as they are when the chunk is asked to   *)
(* extend and before the stream has run, is held once no job is left, for every  *)
(* child born by the block and whatever scan or stream failed in between         *)
(* (coveredFrom, coveredTo and the failing generation in dataChunk).           *)
THEOREM CoveredMeansHeld ==
  ASSUME StreamMode, Disjoint, Tiled
  PROVE  Spec => []CoverageHonest
PROOF
<1>1. TInv /\ EntriesCover(entry) => CoverageHonest
  <2> SUFFICES ASSUME TInv, EntriesCover(entry), NEW idx \in Chunks, cache[idx] # NoId,
                      entry[cache[idx]].jobs = <<>>,
                      NEW n \in entry[cache[idx]].from..entry[cache[idx]].to,
                      NEW c \in Child, FirstBirth[c] <= n
               PROVE  <<n, c>> \in entry[cache[idx]].data
    BY DEF CoverageHonest
  <2> DEFINE r == entry[cache[idx]]
  <2>1. cache[idx] \in Entry /\ r.at \notin {"free", "failed"}
    BY StreamParts DEF CacheOK
  <2>2. Accounts(r, n, r.done + Len(r.jobs)) BY <2>1 DEF EntriesCover, Covers
  <2>3. Len(r.jobs) = 0 OBVIOUS
  <2>4. Holds(r, n) BY <2>2, <2>3 DEF Accounts
  <2> QED BY <2>4 DEF Holds, Born
<1> QED BY <1>1, InitCovers, InitOK, ShellKept, SpecKinds, SpecWrites, CoversKept, PTL DEF Spec

-----------------------------------------------------------------------------
(* What is handed over and made durable.                                     *)

(* A step that stores nothing, and after which no one else has anything to commit. *)
LEMMA LogsKept ==
  ASSUME TInv', LogsHeld, UNCHANGED store,
         \A j \in Interval : tx'[j] = tx[j] \/ tx'[j].at # "ranged"
  PROVE  LogsHeld'
PROOF
<1>1. \A j \in Interval : tx'[j].at # "ranged" => tx'[j].logs = {} BY DEF TInv, ShellKinds
<1>2. ASSUME NEW j \in Interval, tx'[j].at = "ranged" PROVE Complete(tx'[j].logs, j)
  BY <1>2 DEF LogsHeld
<1>3. \A j \in Interval : \A log \in tx'[j].logs : log[1] \in BlocksOf(j) /\ log[2] \in Born(log[1])
  BY <1>1 DEF LogsHeld
<1>4. \A log \in store'.logs : log[2] \in Born(log[1]) BY DEF LogsHeld
<1>5. \A j \in store'.cached : Complete(store'.logs, j) BY DEF LogsHeld
<1> QED BY <1>2, <1>3, <1>4, <1>5 DEF LogsHeld, Complete, Born, BlocksOf, Lo, Hi

LEMMA AssembledExact ==
  ASSUME TInv, RInv, WInv, AwaitsCover, NEW i \in Interval, tx[i].at = "flushing",
         NEW logs, logs = Assembled(i, Lo(i), Hi(i))
  PROVE  /\ Complete(logs, i)
         /\ \A log \in logs : log[1] \in BlocksOf(i) /\ log[2] \in Born(log[1])
PROOF
<1>1. /\ disc.confirmed \in Int /\ Hi(i) \in Nat /\ Hi(i) \in Blocks /\ Lo(i) \in Nat
      /\ awaited[i] \subseteq Promise /\ LastBlock \in Nat
      /\ \A c \in Child : known[c] \in Int /\ FirstBirth[c] \in Int
  BY Numbers, StreamParts, GridAssumption DEF Blocks
<1>2. disc.confirmed >= Hi(i) /\ \A n \in BlocksOf(i) : \E p \in awaited[i] : Holds(entry[p.entry], n)
  BY DEF AwaitsCover, Backed
<1>3. ASSUME NEW n \in BlocksOf(i), NEW c \in Born(n) PROVE <<n, c>> \in logs
  <2>1. PICK p \in awaited[i] : Holds(entry[p.entry], n) BY <1>2
  <2>2. <<n, c>> \in entry[p.entry].data BY <2>1 DEF Holds
  <2>3. c \in Child /\ FirstBirth[c] <= n /\ n \in Int /\ n <= Hi(i) /\ n \in Lo(i)..Hi(i)
    BY <1>1 DEF Born, BlocksOf
  <2>4. FirstBirth[c] # Unborn BY <1>1, <2>3 DEF Unborn, Blocks
  <2>5. known[c] <= FirstBirth[c]
    <3> DEFINE creation == <<c, FirstBirth[c]>>
    <3>1. creation \in Creations /\ creation[1] = c /\ creation[2] = FirstBirth[c]
      BY <2>3, <2>4, FirstBirthFacts
    <3> HIDE DEF creation
    <3>2. creation[2] <= disc.confirmed BY <1>1, <1>2, <2>3, <3>1
    <3> QED BY <3>1, <3>2 DEF RInv, FoundTo
  <2>6. known[c] <= n BY <1>1, <2>3, <2>5
  <2> QED BY <2>1, <2>2, <2>3, <2>6 DEF Assembled
<1>4. ASSUME NEW log \in logs PROVE log[1] \in BlocksOf(i) /\ log[2] \in Born(log[1])
  <2>1. log[1] \in BlocksOf(i) /\ known[log[2]] <= log[1] BY DEF Assembled, BlocksOf
  <2>2. log[1] \in Int /\ log[2] \in Child
    <3>1. log \in Blocks \X Child BY AssembledOK
    <3> QED BY <3>1 DEF Blocks
  <2>3. FirstBirth[log[2]] <= known[log[2]] BY <2>2 DEF WInv, Sound
  <2>4. FirstBirth[log[2]] <= log[1] BY <1>1, <2>1, <2>2, <2>3
  <2> QED BY <2>1, <2>2, <2>4 DEF Born
<1> QED BY <1>3, <1>4 DEF Complete

LEMMA ServeLogs ==
  ASSUME TInv, RInv, WInv, AwaitsCover, LogsHeld, NEW i \in Interval, Serve(i)
  PROVE  LogsHeld'
PROOF
<1> DEFINE logs == Assembled(i, Lo(i), Hi(i))
<1>1. /\ tx[i].at = "flushing" /\ tx' = Ranged(i, Deduped(pendingFlushes[i]), logs)
      /\ UNCHANGED store
  BY DEF Serve, Assemble
<1>2. tx \in [Interval -> Transaction] /\ pendingFlushes[i] \in Births BY ShellParts
<1>3. HandedOver(i, Deduped(pendingFlushes[i]), logs, tx')
  BY <1>1, <1>2, DedupedOK, AssembledOK, RangedIs
<1>4. /\ Complete(logs, i)
      /\ \A log \in logs : log[1] \in BlocksOf(i) /\ log[2] \in Born(log[1])
  BY <1>1, AssembledExact
<1> HIDE DEF logs
<1>5. /\ tx'[i].logs = logs
      /\ \A j \in Interval : j # i =>
           tx'[j] = tx[j] \/ (tx'[j].at = "ready" /\ tx'[j].logs = {})
  BY <1>3 DEF HandedOver
<1>6. \A j \in Interval : tx'[j].at = "ranged" => Complete(tx'[j].logs, j)
  BY <1>4, <1>5 DEF LogsHeld
<1>7. \A j \in Interval : \A log \in tx'[j].logs : log[1] \in BlocksOf(j) /\ log[2] \in Born(log[1])
  BY <1>4, <1>5 DEF LogsHeld
<1>8. \A log \in store'.logs : log[2] \in Born(log[1]) BY <1>1 DEF LogsHeld
<1>9. \A j \in store'.cached : Complete(store'.logs, j) BY <1>1 DEF LogsHeld
<1> QED BY <1>6, <1>7, <1>8, <1>9 DEF LogsHeld, Complete, Born, BlocksOf, Lo, Hi

LEMMA CommitLogs ==
  ASSUME TInv, TInv', LogsHeld, NEW i \in Interval, Commit(i) \/ CommitUnseen(i)
  PROVE  LogsHeld'
PROOF
<1>1. /\ tx[i].at = "ranged" /\ store' = Durable(i)
      /\ tx' = Moved(i, "done") \/ tx' = Moved(i, "thrown")
  BY DEF Commit, CommitUnseen
<1>2. tx'[i].at # "ranged" /\ \A j \in Interval : j # i => tx'[j] = tx[j] BY <1>1, MovedIs
<1>3. store'.logs = store.logs \cup tx[i].logs /\ store'.cached = store.cached \cup {i}
  BY <1>1 DEF Durable
<1>4. \A j \in Interval : tx'[j].at # "ranged" => tx'[j].logs = {} BY DEF TInv, ShellKinds
<1>5. \A j \in Interval : tx'[j].at = "ranged" => Complete(tx'[j].logs, j)
  BY <1>2 DEF LogsHeld
<1>6. \A j \in Interval : \A log \in tx'[j].logs : log[1] \in BlocksOf(j) /\ log[2] \in Born(log[1])
  BY <1>2, <1>4 DEF LogsHeld
<1>7. \A log \in store'.logs : log[2] \in Born(log[1]) BY <1>3 DEF LogsHeld
<1>8. ASSUME NEW j \in store'.cached PROVE Complete(store'.logs, j)
  <2>1. Complete(tx[i].logs, i) BY <1>1 DEF LogsHeld
  <2>2. j \in store.cached => Complete(store.logs, j) BY DEF LogsHeld
  <2> QED BY <1>3, <2>1, <2>2 DEF Complete
<1> QED BY <1>5, <1>6, <1>7, <1>8 DEF LogsHeld, Complete, Born, BlocksOf, Lo, Hi

LEMMA LogsOnward ==
  ASSUME StreamMode
  PROVE  TInv /\ TInv' /\ IInv /\ RInv /\ WInv /\ AwaitsCover /\ LogsHeld /\ [Next]_vars
           => LogsHeld'
PROOF
<1> SUFFICES ASSUME TInv, TInv', IInv, RInv, WInv, AwaitsCover, LogsHeld, [Next]_vars
             PROVE  LogsHeld'
  OBVIOUS
<1>1. ASSUME NEW i \in Interval,
             \/ Enter(i) \/ LearnHead(i) \/ RefuseGap(i) \/ AskChunks(i) \/ FetchThrows(i)
             \/ Flush(i) \/ InsertFails(i) \/ InsertLogsFails(i) \/ Rollback(i) \/ Retry(i)
      PROVE  LogsHeld'
  <2>1. /\ UNCHANGED store
        /\ \/ UNCHANGED tx
           \/ \E at \in {"probing", "fetching", "flushing", "thrown", "ready"} : tx' = Moved(i, at)
    BY <1>1 DEF Enter, LearnHead, RefuseGap, AskChunks, FetchThrows, Flush, InsertFails,
                InsertLogsFails, Rollback, Retry, shellVars
  <2>2. \A j \in Interval : tx'[j] = tx[j] \/ tx'[j].at # "ranged" BY <2>1, MovedIs
  <2> QED BY <2>1, <2>2, LogsKept
<1>2. ASSUME NEW i \in Interval, Serve(i) \/ Commit(i) \/ CommitUnseen(i) PROVE LogsHeld'
  BY <1>2, ServeLogs, CommitLogs
<1>3. \A i \in Interval : ~Delegate(i) /\ ~FallBack(i)
  BY DEF Delegate, FallBack, IInv, NothingOverwritten
<1>4. CASE \/ \E e \in Entry : Resume(e) \/ Stream(e) \/ StreamEnd(e) \/ StreamFail(e)
           \/ ScanFind \/ ScanEnd \/ ScanFail
           \/ Finalize \/ Finished \/ Stopped \/ UNCHANGED vars
  <2>1. UNCHANGED <<store, tx>>
    BY <1>4 DEF Resume, Stream, StreamEnd, StreamFail, ScanFind, ScanEnd, ScanFail, ShellIdle,
                Finalize, Finished, Stopped, vars, shellVars
  <2> QED BY <2>1, LogsKept
<1>5. CASE Die \/ Restart
  <2>1. UNCHANGED store BY <1>5 DEF Die, Restart
  <2>2. \A j \in Interval : tx'[j].at # "ranged"
    <3>1. CASE Die
      <4>1. tx' = [i \in Interval |-> NoTx] BY <3>1 DEF Die
      <4> QED BY <4>1 DEF NoTx
    <3>2. CASE Restart
      <4>1. tx' = Dispatched(store.cached) BY <3>2 DEF Restart
      <4> QED BY <4>1 DEF Dispatched, NoTx
    <3> QED BY <1>5, <3>1, <3>2
  <2> QED BY <2>1, <2>2, LogsKept
<1> QED BY <1>1, <1>2, <1>3, <1>4, <1>5 DEF Next

LEMMA InitLogs == Init => LogsHeld
PROOF
<1> SUFFICES ASSUME Init PROVE LogsHeld OBVIOUS
<1>1. tx = Dispatched({}) BY DEF Init
<1>2. store.logs = {} /\ store.cached = {} BY DEF Init
<1>3. \A i \in Interval : tx[i].at # "ranged" /\ tx[i].logs = {} BY <1>1, DispatchedOK
<1> QED BY <1>2, <1>3 DEF LogsHeld

(* INV-2, INV-3, INV-13, in stream mode and for contiguous required intervals:    *)
(* an interval marked cached has in the store every log of every child born by    *)
(* then, and no log of a child before its birth, whatever grid the chunks are on,  *)
(* however they were extended, read ahead, evicted or refetched, and whatever    *)
(* failed in between (dataChunk, runStreams, assembleRange, syncBlockRangeData).  *)
THEOREM CachedMeansComplete ==
  ASSUME StreamMode, Disjoint, Tiled, Started
  PROVE  Spec => []LogsStored
PROOF
<1>1. TInv /\ LogsHeld => LogsStored
  <2> SUFFICES ASSUME TInv, LogsHeld, NEW i \in store.cached, NEW n \in BlocksOf(i)
               PROVE  {log \in store.logs : log[1] = n} = {n} \X Born(n)
    BY DEF LogsStored, Born
  <2>1. store.logs \subseteq Blocks \X Child BY ShellParts DEF Stores
  <2>2. ASSUME NEW log \in store.logs, log[1] = n PROVE log \in {n} \X Born(n)
    <3>1. log \in Blocks \X Child /\ log[2] \in Born(n) BY <2>1, <2>2 DEF LogsHeld
    <3> QED BY <2>2, <3>1
  <2>3. ASSUME NEW log \in {n} \X Born(n) PROVE log \in store.logs /\ log[1] = n
    <3>1. Complete(store.logs, i) BY DEF LogsHeld
    <3>2. log = <<n, log[2]>> /\ log[2] \in Born(n) /\ log[1] = n OBVIOUS
    <3> QED BY <3>1, <3>2 DEF Complete
  <2> QED BY <2>2, <2>3
<1> QED BY <1>1, InitCovers, InitLogs, InitOK, ShellKept, SpecKinds, SpecWrites, CoversKept,
           LogsOnward, PTL DEF Spec

-----------------------------------------------------------------------------
(* What is stashed is taken.                                               *)

(* Nothing is routed to RPC, a process that is down has no stash, and what is     *)
(* committed has been taken out of it.                                      *)
StashInv ==
  /\ delegated = {} /\ (~up => stash = {})
  /\ \A i \in Interval : tx[i].at = "done" => i \notin stash

LEMMA StashKept ==
  ASSUME StreamMode
  PROVE  TInv /\ IInv /\ StashInv /\ [Next]_vars => StashInv'
PROOF
<1> SUFFICES ASSUME TInv, IInv, StashInv, [Next]_vars PROVE StashInv' OBVIOUS
<1>1. ASSUME NEW i \in Interval,
             \/ Enter(i) \/ LearnHead(i) \/ RefuseGap(i) \/ AskChunks(i) \/ FetchThrows(i)
             \/ Flush(i) \/ InsertFails(i) \/ InsertLogsFails(i) \/ CommitUnseen(i)
             \/ Rollback(i) \/ Retry(i)
      PROVE  StashInv'
  <2>1. /\ UNCHANGED up
        /\ UNCHANGED <<stash, delegated>> \/ Consume(i)
        /\ \/ UNCHANGED tx
           \/ \E at \in {"probing", "fetching", "flushing", "thrown", "ready"} : tx' = Moved(i, at)
    BY <1>1 DEF Enter, LearnHead, RefuseGap, AskChunks, FetchThrows, Flush, InsertFails,
                InsertLogsFails, CommitUnseen, Rollback, Retry, shellVars
  <2>2. delegated' = {} /\ stash' \subseteq stash BY <2>1 DEF Consume, StashInv
  <2>3. \A j \in Interval : tx'[j].at = "done" => tx[j].at = "done" BY <2>1, MovedIs
  <2> QED BY <2>1, <2>2, <2>3 DEF StashInv
<1>2. ASSUME NEW i \in Interval, Serve(i) PROVE StashInv'
  <2>1. /\ tx[i].at = "flushing" /\ stash' = stash \cup {i} /\ UNCHANGED <<delegated, up>>
        /\ tx' = Ranged(i, Deduped(pendingFlushes[i]), Assembled(i, Lo(i), Hi(i)))
    BY <1>2 DEF Serve, Assemble
  <2>2. tx \in [Interval -> Transaction] /\ pendingFlushes[i] \in Births /\ up
    BY <2>1, ShellParts
  <2>3. HandedOver(i, Deduped(pendingFlushes[i]), Assembled(i, Lo(i), Hi(i)), tx')
    BY <2>1, <2>2, DedupedOK, AssembledOK, RangedIs
  <2>4. \A j \in Interval : tx'[j].at = "done" => j # i /\ tx[j].at = "done"
    BY <2>3 DEF HandedOver
  <2> QED BY <2>1, <2>2, <2>4 DEF StashInv
<1>3. ASSUME NEW i \in Interval, Commit(i) PROVE StashInv'
  <2>1. tx' = Moved(i, "done") /\ Consume(i) /\ UNCHANGED up BY <1>3 DEF Commit
  <2>2. stash' = stash \ {i} /\ UNCHANGED delegated BY <2>1 DEF Consume, StashInv
  <2>3. \A j \in Interval : tx'[j].at = "done" => j = i \/ tx[j].at = "done" BY <2>1, MovedIs
  <2> QED BY <2>1, <2>2, <2>3 DEF StashInv
<1>4. \A i \in Interval : ~Delegate(i) /\ ~FallBack(i)
  BY DEF Delegate, FallBack, IInv, NothingOverwritten
<1>5. CASE \/ \E e \in Entry : Resume(e) \/ Stream(e) \/ StreamEnd(e) \/ StreamFail(e)
           \/ ScanFind \/ ScanEnd \/ ScanFail
           \/ Finalize \/ Finished \/ Stopped \/ UNCHANGED vars
  <2>1. UNCHANGED <<tx, stash, delegated, up>>
    BY <1>5 DEF Resume, Stream, StreamEnd, StreamFail, ScanFind, ScanEnd, ScanFail, ShellIdle,
                Finalize, Finished, Stopped, vars, shellVars
  <2> QED BY <2>1 DEF StashInv
<1>6. CASE Die \/ Restart
  <2>1. stash' = {} /\ delegated' = {} BY <1>6 DEF Die, Restart, StashInv
  <2> QED BY <2>1 DEF StashInv
<1> QED BY <1>1, <1>2, <1>3, <1>4, <1>5, <1>6 DEF Next

(* INV-12, in stream mode: once an interval is committed nothing of it is left in *)
(* the stash or routed to RPC, through the retries after a rollback or a commit    *)
(* that went unseen (syncBlockRangeData, syncBlockData).                      *)
THEOREM CommittedMeansConsumed ==
  ASSUME StreamMode
  PROVE  Spec => []StashConsumed
PROOF
<1>1. Init => StashInv BY DEF Init, StashInv
<1>2. StashInv => StashConsumed BY DEF StashInv, StashConsumed
<1> QED BY <1>1, <1>2, StashKept, InitOK, ShellKept, SpecKinds, PTL DEF Spec

-----------------------------------------------------------------------------
(* The store is that of Backfill: what a flush holds is what the interval needs,  *)
(* and a transaction that had been committed before has nothing new.           *)

(* What is queued is what is known, what is flushed is final, and so what is       *)
(* inserted and stored is a child's first creation, of an interval that is cached.  *)
QueueExact == \A c \in Child : queue[c] \in {known[c], Unborn}
FlushExact ==
  \A i \in Interval, c \in Child : pendingFlushes[i][c] # Unborn =>
    pendingFlushes[i][c] = FirstBirth[c] /\ known[c] = FirstBirth[c]
RowsExact == \A i \in Interval : \A row \in tx[i].rows : row[2] = FirstBirth[row[1]]
StoreExact ==
  \A row \in Child \X Blocks : store.rows[row] > 0 =>
    row[2] = FirstBirth[row[1]] /\ \E j \in store.cached : row[2] \in BlocksOf(j)
XInv == QueueExact /\ FlushExact /\ RowsExact /\ StoreExact

LEMMA MemoryUntouched ==
  ASSUME XInv, UNCHANGED <<known, queue, pendingFlushes>>
  PROVE  QueueExact' /\ FlushExact'
PROOF
BY DEF XInv, QueueExact, FlushExact

LEMMA MemoryRestoredExact ==
  ASSUME IInv, XInv, NEW i \in Interval, queue' = Restored(i),
         pendingFlushes' = [pendingFlushes EXCEPT ![i] = Nobody], UNCHANGED known
  PROVE  QueueExact' /\ FlushExact'
PROOF
<1>1. /\ \A c \in Child : queue'[c] = Smaller(queue[c], pendingFlushes[i][c])
      /\ \A c \in Child, j \in Interval :
           pendingFlushes'[j][c] = IF j = i THEN Unborn ELSE pendingFlushes[j][c]
  BY RestoringOrders DEF IInv
<1>2. QueueExact'
  <2> SUFFICES ASSUME NEW c \in Child PROVE queue'[c] \in {known[c], Unborn}
    BY DEF QueueExact
  <2>1. queue'[c] \in {queue[c], pendingFlushes[i][c]} BY <1>1 DEF Smaller
  <2> QED BY <2>1 DEF XInv, QueueExact, FlushExact
<1>3. FlushExact' BY <1>1 DEF XInv, FlushExact
<1> QED BY <1>2, <1>3

(* Discovery has come to the end of the interval, so what is known is final.      *)
LEMMA MemoryTakenExact ==
  ASSUME TInv, IInv, RInv, WInv, XInv, NEW i \in Interval, Flush(i)
  PROVE  QueueExact' /\ FlushExact'
PROOF
<1>1. Take(i) /\ tx[i].at = "fetching" /\ Served(i) /\ UNCHANGED known BY DEF Flush
<1>2. /\ \A c \in Child :
           queue'[c] = IF queue[c] \in Lo(i)..Hi(i) THEN Unborn ELSE queue[c]
      /\ \A c \in Child, j \in Interval :
           pendingFlushes'[j][c] = IF j # i THEN pendingFlushes[j][c]
                                   ELSE IF queue[c] \in Lo(i)..Hi(i) THEN queue[c] ELSE Unborn
  BY <1>1, TakingOrders DEF IInv
<1>3. QueueExact' BY <1>1, <1>2 DEF XInv, QueueExact
<1>4. ASSUME NEW c \in Child, queue[c] \in Lo(i)..Hi(i), queue[c] # Unborn
      PROVE  queue[c] = FirstBirth[c] /\ known[c] = FirstBirth[c]
  <2>1. known[c] = queue[c] BY <1>4 DEF XInv, QueueExact
  <2>2. /\ disc.confirmed \in Int /\ known[c] \in Int /\ FirstBirth[c] \in Int
        /\ Hi(i) \in Nat /\ Lo(i) \in Nat /\ Hi(i) <= LastBlock /\ LastBlock \in Nat
    BY Numbers, StreamParts, GridAssumption DEF Blocks
  <2>3. disc.confirmed >= Hi(i) BY <1>1, FlushFound
  <2>4. FirstBirth[c] <= known[c] BY DEF WInv, Sound
  <2>5. FirstBirth[c] <= disc.confirmed /\ FirstBirth[c] # Unborn
    BY <1>4, <2>1, <2>2, <2>3, <2>4 DEF Unborn
  <2>6. known[c] <= FirstBirth[c]
    <3> DEFINE creation == <<c, FirstBirth[c]>>
    <3>1. creation \in Creations /\ creation[1] = c /\ creation[2] = FirstBirth[c]
      BY <2>5, FirstBirthFacts
    <3> HIDE DEF creation
    <3> QED BY <2>5, <3>1 DEF RInv, FoundTo
  <2> QED BY <2>1, <2>2, <2>4, <2>6
<1>5. FlushExact' BY <1>1, <1>2, <1>4 DEF XInv, FlushExact
<1> QED BY <1>3, <1>5

LEMMA MemoryRecordedExact ==
  ASSUME TInv, TInv', IInv, WInv, WInv', XInv, ScanFind
  PROVE  QueueExact' /\ FlushExact'
PROOF
<1>1. PICK n \in Blocks : Scan(n) BY DEF ScanFind
<1>2. Records(n) /\ UNCHANGED pendingFlushes
  BY <1>1, ScanMeets DEF Meets, ScanFind, ShellIdle, shellVars
<1>3. \A c \in Child : \/ known'[c] = known[c] /\ queue'[c] = queue[c]
                       \/ known'[c] < known[c] /\ queue'[c] = known'[c]
  BY <1>2, RecordingOrders DEF IInv
<1>4. QueueExact' BY <1>3 DEF XInv, QueueExact
<1>5. \A c \in Child : FirstBirth[c] <= known'[c] BY DEF WInv, Sound
<1>6. \A c \in Child : FirstBirth[c] \in Int /\ known'[c] \in Int
  <2>1. known' \in Births BY DEF TInv, ShellKinds
  <2> QED BY <2>1, Numbers, GridAssumption DEF Births, Unborn
<1>7. FlushExact'
  <2> SUFFICES ASSUME NEW i \in Interval, NEW c \in Child, pendingFlushes[i][c] # Unborn
               PROVE  pendingFlushes[i][c] = FirstBirth[c] /\ known'[c] = FirstBirth[c]
    BY <1>2 DEF FlushExact
  <2>1. pendingFlushes[i][c] = FirstBirth[c] /\ known[c] = FirstBirth[c] BY DEF XInv, FlushExact
  <2> QED BY <1>3, <1>5, <1>6, <2>1
<1> QED BY <1>4, <1>7

LEMMA MemoryExact ==
  ASSUME StreamMode, TInv, TInv', IInv, RInv, WInv, WInv', XInv, [Next]_vars
  PROVE  QueueExact' /\ FlushExact'
PROOF
<1>1. ASSUME NEW i \in Interval, Enter(i) \/ AskChunks(i) \/ InsertFails(i)
      PROVE  QueueExact' /\ FlushExact'
  <2>1. /\ queue' = Restored(i) /\ UNCHANGED known
        /\ pendingFlushes' = [pendingFlushes EXCEPT ![i] = Nobody]
    BY <1>1 DEF Enter, AskChunks, InsertFails
  <2> QED BY <2>1, MemoryRestoredExact
<1>2. ASSUME NEW i \in Interval,
             \/ LearnHead(i) \/ RefuseGap(i) \/ FetchThrows(i) \/ Serve(i) \/ InsertLogsFails(i)
             \/ Commit(i) \/ CommitUnseen(i) \/ Rollback(i) \/ Retry(i)
      PROVE  QueueExact' /\ FlushExact'
  <2>1. UNCHANGED <<known, queue, pendingFlushes>>
    BY <1>2 DEF LearnHead, RefuseGap, FetchThrows, Serve, InsertLogsFails, Commit, CommitUnseen,
                Rollback, Retry, discVars, shellVars
  <2> QED BY <2>1, MemoryUntouched
<1>3. \A i \in Interval : ~Delegate(i) /\ ~FallBack(i)
  BY DEF Delegate, FallBack, IInv, NothingOverwritten
<1>4. CASE \/ \E e \in Entry : Resume(e) \/ Stream(e) \/ StreamEnd(e) \/ StreamFail(e)
           \/ ScanEnd \/ ScanFail
  <2>1. ShellIdle /\ UNCHANGED <<known, queue>>
    BY <1>4 DEF Resume, Stream, StreamEnd, StreamFail, ScanEnd, ScanFail,
                Resumes, Streams, StreamEnds, StreamFails, ScanEnds, ScanFails
  <2> QED BY <2>1, MemoryUntouched DEF ShellIdle, shellVars
<1>5. CASE Die \/ Restart
  <2>1. queue' = Nobody /\ \A i \in Interval : pendingFlushes'[i] = Nobody
    <3>1. CASE Die BY <3>1 DEF Die
    <3>2. CASE Restart BY <3>2 DEF Restart, IInv, NothingRuns
    <3> QED BY <1>5, <3>1, <3>2
  <2> QED BY <2>1, NobodyOK DEF QueueExact, FlushExact
<1>6. CASE Finalize \/ Finished \/ Stopped \/ UNCHANGED vars
  <2>1. UNCHANGED <<known, queue, pendingFlushes>>
    BY <1>6 DEF Finalize, Finished, Stopped, vars, discVars, shellVars
  <2> QED BY <2>1, MemoryUntouched
<1> QED BY <1>1, <1>2, <1>3, <1>4, <1>5, <1>6, MemoryTakenExact, MemoryRecordedExact DEF Next

(* A step that stores nothing, and after which no one else has anything to commit. *)
LEMMA StoreUntouched ==
  ASSUME TInv', XInv, UNCHANGED store, \A j \in Interval : tx'[j] = tx[j] \/ tx'[j].at # "ranged"
  PROVE  RowsExact' /\ StoreExact'
PROOF
<1>1. \A j \in Interval : tx'[j].at # "ranged" => tx'[j].rows = {} BY DEF TInv, ShellKinds
<1>2. RowsExact' BY <1>1 DEF XInv, RowsExact
<1>3. StoreExact' BY DEF XInv, StoreExact, BlocksOf, Lo, Hi
<1> QED BY <1>2, <1>3

LEMMA ServeExact ==
  ASSUME TInv, XInv, NEW i \in Interval, Serve(i)
  PROVE  RowsExact' /\ StoreExact'
PROOF
<1> DEFINE rows == Deduped(pendingFlushes[i])
           logs == Assembled(i, Lo(i), Hi(i))
<1>1. tx' = Ranged(i, rows, logs) /\ UNCHANGED store BY DEF Serve
<1>2. tx \in [Interval -> Transaction] /\ pendingFlushes[i] \in Births BY ShellParts
<1>3. HandedOver(i, rows, logs, tx') BY <1>1, <1>2, DedupedOK, AssembledOK, RangedIs
<1>4. \A row \in rows : row[2] = FirstBirth[row[1]]
  <2> SUFFICES ASSUME NEW c \in Child, pendingFlushes[i][c] < StoredBirths[c]
               PROVE  pendingFlushes[i][c] = FirstBirth[c]
    BY DEF Deduped
  <2>1. StoredBirths[c] \in 0..Unborn BY BirthsOK DEF Births
  <2>2. pendingFlushes[i][c] # Unborn BY <2>1, GridAssumption DEF Unborn
  <2> QED BY <2>2 DEF XInv, FlushExact
<1> HIDE DEF rows, logs
<1>5. /\ tx'[i].rows = rows
      /\ \A j \in Interval : j # i =>
           tx'[j] = tx[j] \/ (tx'[j].at = "ready" /\ tx'[j].rows = {})
  BY <1>3 DEF HandedOver
<1>6. RowsExact' BY <1>4, <1>5 DEF XInv, RowsExact
<1>7. StoreExact' BY <1>1 DEF XInv, StoreExact, BlocksOf, Lo, Hi
<1> QED BY <1>6, <1>7

(* The rows that a commit makes durable.                                     *)
LEMMA CommitAdds ==
  ASSUME TInv, NEW i \in Interval, store' = Durable(i)
  PROVE  /\ store'.cached = store.cached \cup {i}
         /\ \A row \in Child \X Blocks :
              store'.rows[row] > 0 <=> store.rows[row] > 0 \/ row \in tx[i].rows
PROOF
<1>1. /\ store'.rows = [row \in Child \X Blocks |->
                          store.rows[row] + IF row \in tx[i].rows THEN 1 ELSE 0]
      /\ store'.cached = store.cached \cup {i}
  BY DEF Durable
<1>2. store.rows \in [Child \X Blocks -> Nat] BY ShellParts DEF Stores
<1>3. ASSUME NEW row \in Child \X Blocks
      PROVE  store'.rows[row] > 0 <=> store.rows[row] > 0 \/ row \in tx[i].rows
  <2>1. store.rows[row] \in Nat BY <1>2
  <2>2. CASE row \in tx[i].rows BY <1>1, <2>1, <2>2
  <2>3. CASE row \notin tx[i].rows BY <1>1, <2>1, <2>3
  <2> QED BY <2>2, <2>3
<1> QED BY <1>1, <1>3

LEMMA CommitExact ==
  ASSUME TInv, TInv', RowInv, XInv, NEW i \in Interval, Commit(i) \/ CommitUnseen(i)
  PROVE  RowsExact' /\ StoreExact'
PROOF
<1>1. store' = Durable(i) /\ (tx' = Moved(i, "done") \/ tx' = Moved(i, "thrown"))
  BY DEF Commit, CommitUnseen
<1>2. tx'[i].rows = {} /\ \A j \in Interval : j # i => tx'[j] = tx[j] BY <1>1, MovedIs
<1>3. RowsExact' BY <1>2 DEF XInv, RowsExact
<1>4. /\ store'.cached = store.cached \cup {i}
      /\ \A row \in Child \X Blocks :
           store'.rows[row] > 0 <=> store.rows[row] > 0 \/ row \in tx[i].rows
  BY <1>1, CommitAdds
<1>5. ASSUME NEW row \in Child \X Blocks, store'.rows[row] > 0
      PROVE  row[2] = FirstBirth[row[1]] /\ \E j \in store'.cached : row[2] \in BlocksOf(j)
  <2>1. CASE store.rows[row] > 0 BY <1>4, <2>1 DEF XInv, StoreExact
  <2>2. CASE row \in tx[i].rows
    <3>1. row[2] \in BlocksOf(i) BY <2>2 DEF RowInv, OwnRows, NewRow
    <3> QED BY <1>4, <2>2, <3>1 DEF XInv, RowsExact
  <2> QED BY <1>4, <1>5, <2>1, <2>2
<1>6. StoreExact' BY <1>5 DEF StoreExact, BlocksOf, Lo, Hi
<1> QED BY <1>3, <1>6

LEMMA StoreExactKept ==
  ASSUME StreamMode, TInv, TInv', IInv, RowInv, XInv, [Next]_vars
  PROVE  RowsExact' /\ StoreExact'
PROOF
<1>1. ASSUME NEW i \in Interval,
             \/ Enter(i) \/ LearnHead(i) \/ RefuseGap(i) \/ AskChunks(i) \/ FetchThrows(i)
             \/ Flush(i) \/ InsertFails(i) \/ InsertLogsFails(i) \/ Rollback(i) \/ Retry(i)
      PROVE  RowsExact' /\ StoreExact'
  <2>1. /\ UNCHANGED store
        /\ \/ UNCHANGED tx
           \/ \E at \in {"probing", "fetching", "flushing", "thrown", "ready"} : tx' = Moved(i, at)
    BY <1>1 DEF Enter, LearnHead, RefuseGap, AskChunks, FetchThrows, Flush, InsertFails,
                InsertLogsFails, Rollback, Retry, shellVars
  <2>2. \A j \in Interval : tx'[j] = tx[j] \/ tx'[j].at # "ranged" BY <2>1, MovedIs
  <2> QED BY <2>1, <2>2, StoreUntouched
<1>2. ASSUME NEW i \in Interval, Serve(i) \/ Commit(i) \/ CommitUnseen(i)
      PROVE  RowsExact' /\ StoreExact'
  BY <1>2, ServeExact, CommitExact
<1>3. \A i \in Interval : ~Delegate(i) /\ ~FallBack(i)
  BY DEF Delegate, FallBack, IInv, NothingOverwritten
<1>4. CASE \/ \E e \in Entry : Resume(e) \/ Stream(e) \/ StreamEnd(e) \/ StreamFail(e)
           \/ ScanFind \/ ScanEnd \/ ScanFail
           \/ Finalize \/ Finished \/ Stopped \/ UNCHANGED vars
  <2>1. UNCHANGED <<store, tx>>
    BY <1>4 DEF Resume, Stream, StreamEnd, StreamFail, ScanFind, ScanEnd, ScanFail, ShellIdle,
                Finalize, Finished, Stopped, vars, shellVars
  <2> QED BY <2>1, StoreUntouched
<1>5. CASE Die \/ Restart
  <2>1. UNCHANGED store BY <1>5 DEF Die, Restart
  <2>2. \A j \in Interval : tx'[j].at # "ranged"
    <3>1. CASE Die
      <4>1. tx' = [i \in Interval |-> NoTx] BY <3>1 DEF Die
      <4> QED BY <4>1 DEF NoTx
    <3>2. CASE Restart
      <4>1. tx' = Dispatched(store.cached) BY <3>2 DEF Restart
      <4> QED BY <4>1 DEF Dispatched, NoTx
    <3> QED BY <1>5, <3>1, <3>2
  <2> QED BY <2>1, <2>2, StoreUntouched
<1> QED BY <1>1, <1>2, <1>3, <1>4, <1>5 DEF Next

LEMMA ExactKept ==
  ASSUME StreamMode
  PROVE  TInv /\ TInv' /\ IInv /\ RInv /\ WInv /\ WInv' /\ RowInv /\ XInv /\ [Next]_vars => XInv'
PROOF
BY MemoryExact, StoreExactKept DEF XInv

LEMMA InitExact == Init => XInv
PROOF
<1> SUFFICES ASSUME Init PROVE XInv OBVIOUS
<1>1. /\ queue = Nobody /\ pendingFlushes = [i \in Interval |-> Nobody] /\ tx = Dispatched({})
      /\ store.rows = [row \in Child \X Blocks |-> 0]
  BY DEF Init
<1>2. QueueExact /\ FlushExact BY <1>1, NobodyOK DEF QueueExact, FlushExact
<1>3. RowsExact BY <1>1, DispatchedOK DEF RowsExact
<1>4. StoreExact BY <1>1 DEF StoreExact
<1> QED BY <1>2, <1>3, <1>4 DEF XInv

-----------------------------------------------------------------------------
(* What a commit adds is what Backfill says it adds, or nothing.                 *)
NewRows(i) == {<<c, FirstBirth[c]>> : c \in {d \in Child : FirstBirth[d] \in BlocksOf(i)}}
NewLogs(i) == {log \in BlocksOf(i) \X Child : FirstBirth[log[2]] <= log[1]}

LEMMA CommitsWhole ==
  ASSUME Disjoint, TInv, WInv, RowInv, XInv, LogsHeld,
         NEW i \in Interval, tx[i].at = "ranged", i \notin store.cached
  PROVE  tx[i].rows = NewRows(i) /\ tx[i].logs = NewLogs(i)
PROOF
<1>1. tx[i].rows \subseteq NewRows(i)
  <2> SUFFICES ASSUME NEW row \in tx[i].rows PROVE row \in NewRows(i) OBVIOUS
  <2>1. row \in Child \X Blocks /\ row[2] \in BlocksOf(i) BY DEF RowInv, OwnRows, NewRow
  <2>2. row[2] = FirstBirth[row[1]] BY DEF XInv, RowsExact
  <2>3. row = <<row[1], FirstBirth[row[1]]>> /\ row[1] \in Child BY <2>1, <2>2
  <2> QED BY <2>1, <2>2, <2>3 DEF NewRows
<1>2. NewRows(i) \subseteq tx[i].rows
  <2> SUFFICES ASSUME NEW c \in Child, FirstBirth[c] \in BlocksOf(i)
               PROVE  <<c, FirstBirth[c]>> \in tx[i].rows
    BY DEF NewRows
  <2>1. StoredBirths[c] > FirstBirth[c]
    <3>1. /\ StoredBirths[c] \in 0..Unborn
          /\ StoredBirths[c] # Unborn =>
               StoredBirths[c] \in Blocks /\ store.rows[<<c, StoredBirths[c]>>] > 0
      BY BirthsOK DEF Births
    <3>2. StoredBirths[c] = Unborn
      <4> SUFFICES ASSUME StoredBirths[c] # Unborn PROVE FALSE OBVIOUS
      <4> DEFINE row == <<c, StoredBirths[c]>>
      <4>1. row \in Child \X Blocks /\ store.rows[row] > 0 /\ row[1] = c /\ row[2] = StoredBirths[c]
        BY <3>1
      <4> HIDE DEF row
      <4>2. row[2] = FirstBirth[c] /\ \E j \in store.cached : row[2] \in BlocksOf(j)
        BY <4>1 DEF XInv, StoreExact
      <4>3. PICK j \in store.cached : FirstBirth[c] \in BlocksOf(j) BY <4>2
      <4>4. j \in Interval BY ShellParts DEF Stores
      <4> QED BY <4>3, <4>4 DEF Disjoint
    <3>3. FirstBirth[c] \in Blocks BY StreamParts DEF BlocksOf
    <3> QED BY <3>2, <3>3, GridAssumption DEF Blocks, Unborn
  <2>2. c \in BornDuring(i) BY DEF BornDuring
  <2> QED BY <2>1, <2>2 DEF WInv, Flushed
<1>3. tx[i].logs \subseteq NewLogs(i)
  <2> SUFFICES ASSUME NEW log \in tx[i].logs PROVE log \in NewLogs(i) OBVIOUS
  <2>1. log \in Blocks \X Child
    <3>1. tx[i] \in Transaction BY ShellParts
    <3> QED BY <3>1 DEF Transaction
  <2>2. log[1] \in BlocksOf(i) /\ log[2] \in Born(log[1]) BY DEF LogsHeld
  <2> QED BY <2>1, <2>2 DEF NewLogs, Born
<1>4. NewLogs(i) \subseteq tx[i].logs
  <2> SUFFICES ASSUME NEW log \in NewLogs(i) PROVE log \in tx[i].logs OBVIOUS
  <2>1. log = <<log[1], log[2]>> /\ log[1] \in BlocksOf(i) /\ log[2] \in Born(log[1])
    BY DEF NewLogs, Born
  <2>2. Complete(tx[i].logs, i) BY DEF LogsHeld
  <2> QED BY <2>1, <2>2 DEF Complete
<1> QED BY <1>1, <1>2, <1>3, <1>4

LEMMA CommitsNothing ==
  ASSUME TInv, WInv, RowInv, XInv, LogsHeld,
         NEW i \in Interval, tx[i].at = "ranged", i \in store.cached
  PROVE  tx[i].rows = {} /\ tx[i].logs \subseteq store.logs
PROOF
<1>1. ASSUME NEW row \in tx[i].rows PROVE FALSE
  <2>1. row \in Child \X Blocks /\ row[2] \in BlocksOf(i) /\ store.rows[row] = 0
    BY DEF RowInv, OwnRows, NewRow
  <2>2. row[2] = FirstBirth[row[1]] BY DEF XInv, RowsExact
  <2>3. StoredBirths[row[1]] = row[2] BY <2>1, <2>2 DEF WInv, ChildrenPersisted
  <2>4. row[2] # Unborn BY <2>1, GridAssumption DEF Blocks, Unborn
  <2>5. store.rows[<<row[1], row[2]>>] > 0 BY <2>1, <2>3, <2>4, BirthsOK
  <2>6. row = <<row[1], row[2]>> BY <2>1
  <2> QED BY <2>1, <2>5, <2>6
<1>2. ASSUME NEW log \in tx[i].logs PROVE log \in store.logs
  <2>1. log \in Blocks \X Child
    <3>1. tx[i] \in Transaction BY ShellParts
    <3> QED BY <3>1 DEF Transaction
  <2>2. log = <<log[1], log[2]>> BY <2>1
  <2>3. log[1] \in BlocksOf(i) /\ log[2] \in Born(log[1]) BY DEF LogsHeld
  <2>4. Complete(store.logs, i) BY DEF LogsHeld
  <2> QED BY <2>2, <2>3, <2>4 DEF Complete
<1> QED BY <1>1, <1>2

LEMMA CommitImplements ==
  ASSUME Disjoint, TInv, WInv, RowInv, XInv, LogsHeld, NEW i \in Interval,
         Commit(i) \/ CommitUnseen(i)
  PROVE  [Whole!Next]_store
PROOF
<1>1. tx[i].at = "ranged" /\ store' = Durable(i) BY DEF Commit, CommitUnseen
<1>2. CASE i \notin store.cached
  <2>1. tx[i].rows = NewRows(i) /\ tx[i].logs = NewLogs(i) BY <1>1, <1>2, CommitsWhole
  <2>2. Whole!NewRows(i) = NewRows(i) /\ Whole!NewLogs(i) = NewLogs(i)
    BY DEF Whole!NewRows, Whole!NewLogs, NewRows, NewLogs
  <2>3. Whole!Sync(i) BY <1>1, <1>2, <2>1, <2>2 DEF Whole!Sync, Durable
  <2> QED BY <2>3 DEF Whole!Next
<1>3. CASE i \in store.cached
  <2>1. tx[i].rows = {} /\ tx[i].logs \subseteq store.logs BY <1>1, <1>3, CommitsNothing
  <2>2. store \in Stores /\ store.rows \in [Child \X Blocks -> Nat] BY ShellParts DEF Stores
  <2> DEFINE rows == [row \in Child \X Blocks |->
                        store.rows[row] + IF row \in tx[i].rows THEN 1 ELSE 0]
  <2>3. rows = store.rows BY <2>1, <2>2
  <2>4. store.logs \cup tx[i].logs = store.logs /\ store.cached \cup {i} = store.cached
    BY <1>3, <2>1
  <2>5. store' = [rows |-> rows, logs |-> store.logs \cup tx[i].logs,
                  cached |-> store.cached \cup {i}]
    BY <1>1 DEF Durable
  <2> HIDE DEF rows
  <2>6. store' = store BY <2>2, <2>3, <2>4, <2>5 DEF Stores
  <2> QED BY <2>6
<1> QED BY <1>2, <1>3

LEMMA StepsOfBackfill ==
  ASSUME Disjoint
  PROVE  TInv /\ IInv /\ WInv /\ RowInv /\ XInv /\ LogsHeld /\ [Next]_vars
           => [Whole!Next]_store
PROOF
<1> SUFFICES ASSUME TInv, IInv, WInv, RowInv, XInv, LogsHeld, [Next]_vars
             PROVE  [Whole!Next]_store
  OBVIOUS
<1>1. CASE \E i \in Interval : Commit(i) \/ CommitUnseen(i) BY <1>1, CommitImplements
<1>2. CASE \E i \in Interval :
             \/ Enter(i) \/ LearnHead(i) \/ RefuseGap(i) \/ Delegate(i) \/ AskChunks(i)
             \/ FetchThrows(i) \/ Flush(i) \/ InsertFails(i) \/ Serve(i) \/ InsertLogsFails(i)
             \/ FallBack(i) \/ Rollback(i) \/ Retry(i)
  BY <1>2 DEF Enter, LearnHead, RefuseGap, Delegate, AskChunks, FetchThrows, Flush,
              InsertFails, Serve, InsertLogsFails, FallBack, Rollback, Retry
<1>3. CASE \/ \E e \in Entry : Resume(e) \/ Stream(e) \/ StreamEnd(e) \/ StreamFail(e)
           \/ ScanFind \/ ScanEnd \/ ScanFail
  BY <1>3 DEF Resume, Stream, StreamEnd, StreamFail, ScanFind, ScanEnd, ScanFail, ShellIdle
<1>4. CASE Die \/ Restart \/ Finalize \/ Finished \/ Stopped \/ UNCHANGED vars
  BY <1>4 DEF Die, Restart, Finalize, Finished, Stopped, vars
<1> QED BY <1>1, <1>2, <1>3, <1>4 DEF Next

(* INV-2, INV-3, INV-15, INV-17, in stream mode and for contiguous required        *)
(* intervals: the store only ever gains a whole interval that it does not have,    *)
(* with exactly its children, each stored once, and its logs.  The scans, chunks,  *)
(* flushes, retries, unseen commits, crashes and restarts of the sync are          *)
(* stuttering steps of Backfill (syncBlockRangeData, syncBlockData,              *)
(* persistPendingChildren, dedupeChildAddressesAgainstStore).                  *)
THEOREM ImplementsBackfill ==
  ASSUME StreamMode, Disjoint, Tiled, Started
  PROVE  Spec => BackfillSpec
PROOF
<1>1. Init => Whole!Init BY DEF Init, Whole!Init
<1> QED BY <1>1, InitCovers, InitLogs, InitExact, RowsInit, InitOK, ShellKept, SpecKinds,
           SpecWrites, CoversKept, LogsOnward, RowsKept, ExactKept, StepsOfBackfill,
           PTL DEF Spec, BackfillSpec, Whole!Spec
=============================================================================
