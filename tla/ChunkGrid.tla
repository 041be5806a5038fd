------------------------------ MODULE ChunkGrid ------------------------------
(***************************************************************************)
(* The grid of large aligned chunks the historical sync fetches, and the     *)
(* ranges it plans on it (portal-chunks.ts).                               *)
(***************************************************************************)
EXTENDS Integers

CONSTANTS
  LastBlock,     \* the last block of the chain, and backfillEnd of the spec
  ChunkBlocks,   \* chunkBlocks, settled before the first fetch
  BackfillStart  \* backfillStart of the fetch spec

ASSUME GridAssumption ==
  /\ LastBlock \in Nat /\ BackfillStart \in 0..LastBlock
  /\ ChunkBlocks \in Nat \ {0}

Blocks == 0..LastBlock

Larger(m, n) == IF m < n THEN n ELSE m
Smaller(m, n) == IF m < n THEN m ELSE n

IdxOf(n) == n \div ChunkBlocks
Chunks == 0..IdxOf(LastBlock)

(* Nobody in particular asks: a read-ahead, or a fetch with warmup off.      *)
NoNeed == [from |-> 0, to |-> 0 - 1]

(* chunkRange, its two ends.                                               *)
GridFrom(idx) == Larger(idx * ChunkBlocks, BackfillStart)
GridTo(idx, end) == Smaller(idx * ChunkBlocks + ChunkBlocks - 1, end)

(* fetchBounds: the blocks needed, and at least a quantum of them.           *)
FetchBounds(idx, end, need, quantum) ==
  LET from == IF need = NoNeed THEN GridFrom(idx) ELSE Larger(GridFrom(idx), need.from)
  IN  [from |-> from,
       to   |-> Smaller(GridTo(idx, end), Larger(need.to, from + quantum - 1))]

(* readAheadPlan: always the next chunk, more of them while the row budget   *)
(* lasts, none that begins past the end.                                   *)
ReadAheadPlan(idx, end, readahead, saturated) ==
  {idx + d : d \in {k \in 1..readahead : /\ (idx + k) * ChunkBlocks <= end
                                         /\ k = 1 \/ ~saturated}}

(* evictionPlan.                                                           *)
EvictionPlan(cached, n) == {idx \in cached : (idx + 1) * ChunkBlocks <= n}
=============================================================================
