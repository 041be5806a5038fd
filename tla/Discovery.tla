------------------------------ MODULE Discovery ------------------------------
(***************************************************************************)
(* portal-discovery.ts: which children the factory has created, found by     *)
(* scans that run ahead of the data.  Scans are chained (each awaits the one *)
(* before it), and split into windows that are streamed concurrently.        *)
(*                                                                         *)
(* A child is mapped to its creation block, LastBlock + 1 standing for none: *)
(* so `prev === undefined || prev > n' is prev > n.  The generation counter   *)
(* is left out: reset() only runs before there is a scan to invalidate.      *)
(***************************************************************************)
EXTENDS ChunkGrid, Sequences

CONSTANTS
  Child,            \* the children of the factory
  Creations,        \* creation logs of the chain: pairs <<child, block>>
  FactoryFrom,      \* factory.fromBlock
  DiscoveryWindows, \* windows a scan is split into, at most
  Warmup            \* warmupBlocks

ASSUME DiscoveryAssumption ==
  /\ Creations \subseteq Child \X Blocks
  /\ \A creation \in Creations : creation[2] >= FactoryFrom
  /\ FactoryFrom \in Blocks
  /\ DiscoveryWindows \in Nat \ {0} /\ Warmup \in Nat

VARIABLES
  disc,    \* [through, confirmed, quantum, scans, stray]: watermarks, running
           \* scans, creations still ahead of windows whose scan has failed
  known,   \* childAddresses: child -> earliest creation block found
  queue    \* pendingChildren: child -> creation block to persist

Unborn == LastBlock + 1
Births == [Child -> 0..Unborn]
Nobody == [c \in Child |-> Unborn]

(* An infinite quantum reaches the last block from anywhere.               *)
FullQuantum == LastBlock + 1

DiscTypeOK ==
  /\ disc.through \in -1..LastBlock /\ disc.confirmed \in -1..LastBlock
  /\ disc.confirmed <= disc.through
  /\ disc.quantum \in 1..FullQuantum
  /\ \A i \in 1..Len(disc.scans) :
       /\ disc.scans[i].from <= disc.scans[i].to
       /\ disc.scans[i].left \subseteq disc.scans[i].from..disc.scans[i].to
  /\ disc.stray \subseteq Blocks
  /\ known \in Births /\ queue \in Births

NewDisc == [through |-> -1, confirmed |-> -1, scans |-> <<>>, stray |-> {},
            quantum |-> IF Warmup = 0 THEN FullQuantum ELSE Smaller(Warmup, FullQuantum)]

Live == {c \in Child : known[c] # Unborn}

(* pinDiscoveryFloor.                                                      *)
Floor == IdxOf(FactoryFrom) * ChunkBlocks

Lower(f, g) == [c \in Child |-> Smaller(f[c], g[c])]
InRange(f, lo, hi) == [c \in Child |-> IF f[c] \in lo..hi THEN f[c] ELSE Unborn]
OutOfRange(f, lo, hi) == [c \in Child |-> IF f[c] \in lo..hi THEN Unborn ELSE f[c]]

Earliest(blocks) ==
  IF blocks = {} THEN Unborn ELSE CHOOSE n \in blocks : \A m \in blocks : n <= m

(* The earliest creation of each child in the given blocks.                  *)
BornIn(blocks) == [c \in Child |-> Earliest({n \in blocks : <<c, n>> \in Creations})]

(* splitWindows.                                                           *)
Ceiling(a, b) == (a + b - 1) \div b
Windows(from, to) ==
  LET span == to - from + 1
      parts == Larger(1, Smaller(DiscoveryWindows, Ceiling(span, ChunkBlocks)))
      width == Ceiling(span, parts)
  IN  {[lo |-> from + k * width, hi |-> Smaller(to, from + k * width + width - 1)] :
         k \in {j \in 0..(parts - 1) : from + j * width <= to}}

(* seed: only in the virgin state, and not below the floor.                  *)
Seeded(d, n) ==
  IF d.through = -1 /\ d.confirmed = -1 /\ n >= Floor
    THEN [d EXCEPT !.through = n, !.confirmed = n]
    ELSE d

(* planDiscovery and ensure: the next scan reaches as far as is needed, and   *)
(* on to a quantum.  Whoever calls it waits for all scans started so far.     *)
Ensured(d, needTo, endHint) ==
  LET from == IF d.through < 0 THEN Floor ELSE d.through + 1
      to == Larger(needTo, Smaller(endHint, d.through + d.quantum))
      scan == [from |-> from, to |-> to,
               left |-> {n \in from..to : \E c \in Child : <<c, n>> \in Creations}]
  IN  IF needTo <= d.through
        THEN d
        ELSE [d EXCEPT !.through = to, !.scans = Append(@, scan)]

(* scanWindow meets the creation logs of a block: a child found anew, or      *)
(* earlier, is recorded and queued.                                         *)
Records(n) ==
  LET born == BornIn({n})
  IN  /\ known' = Lower(known, born)
      /\ queue' = [c \in Child |-> IF born[c] < known[c] THEN born[c] ELSE queue[c]]

(* The windows of a scan proceed independently, each in block order.         *)
ScanFinds(n) ==
  LET scan == Head(disc.scans)
      window == CHOOSE w \in Windows(scan.from, scan.to) : n \in w.lo..w.hi
  IN  /\ disc.scans # <<>>
      /\ n \in scan.left
      /\ \A m \in scan.left \cap (window.lo..window.hi) : n <= m
      /\ disc' = [disc EXCEPT !.scans[1].left = @ \ {n}]
      /\ Records(n)

(* A window that nobody awaits any more still records what it meets.         *)
StrayFinds(n) ==
  /\ n \in disc.stray
  /\ disc' = [disc EXCEPT !.stray = @ \ {n}]
  /\ Records(n)

(* Only success moves the confirmed watermark and grows the quantum.         *)
Confirmed(d) ==
  [d EXCEPT !.confirmed = Head(d.scans).to,
            !.quantum = Smaller(2 * @, FullQuantum),
            !.scans = Tail(@)]

(* Mutant: the scan chained behind a failed one runs on.                     *)
RolledBackHead(d, window) ==
  [d EXCEPT !.scans = Tail(@), !.through = IF Len(d.scans) = 1 THEN d.confirmed ELSE @]

(* A scan that fails takes those chained behind it along.  Its other windows   *)
(* run on (Promise.all cancels nothing).                                    *)
RolledBack(d, window) ==
  [d EXCEPT !.through = d.confirmed, !.scans = <<>>,
            !.stray = @ \cup (Head(d.scans).left \ (window.lo..window.hi))]
=============================================================================
