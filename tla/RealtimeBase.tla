---------------------------- MODULE RealtimeBase ----------------------------
(***************************************************************************)
(* What every realtime component of portal-ponder talks about: block       *)
(* headers and the life of the realtime process.                           *)
(*                                                                         *)
(* A header (Light in portal-realtime.ts) is a member of Block.  Its hash   *)
(* is its identity, so comparing hashes is comparing blocks; its parentHash *)
(* is Parent and its number is Height.  Root is the block the process was   *)
(* first started on: the finalized block of its very first boot.           *)
(***************************************************************************)
EXTENDS Integers, Sequences, FiniteSets

CONSTANTS
  Block,     \* every header any fork ever carries
  Root,      \* the finalized block of the first boot
  Parent,    \* parentHash: [Block \ {Root} -> Block]
  Height,    \* number: [Block -> Nat]
  Ancestry,  \* the chain from Root to a block, both included
  Child,     \* factory child addresses
  Creates,   \* [Block -> SUBSET Child]: the factory events of a block
  ChildLogs, \* [Block -> SUBSET Child]: addresses with a matching log in it
  None       \* "undefined"

ASSUME RootAssumption == Root \in Block
ASSUME ParentAssumption == Parent \in [Block \ {Root} -> Block]
ASSUME HeightAssumption ==
  /\ Height \in [Block -> Nat]
  /\ \A b \in Block \ {Root} : Height[b] = Height[Parent[b]] + 1
ASSUME AncestryAssumption ==
  /\ Ancestry \in [Block -> SUBSET Block]
  /\ Ancestry[Root] = {Root}
  /\ \A b \in Block \ {Root} : Ancestry[b] = Ancestry[Parent[b]] \cup {b}
  /\ \A b \in Block : \A a \in Ancestry[b] : Ancestry[a] \subseteq Ancestry[b]
ASSUME ChildAssumption ==
  /\ Creates \in [Block -> SUBSET Child]
  /\ ChildLogs \in [Block -> SUBSET Child]
ASSUME NoneAssumption == None \notin Block /\ None \notin Int

VARIABLE
  status   \* "running", "done", or the fatal that ended the generator

(* The fatals of the realtime path, each a throw that ends the process.    *)
Fatals == { "evicted",      \* no ring entry for the resume parent
            "rejected",     \* deterministic 4xx
            "belowFloor",   \* 409 fork point at or below the floor
            "oscillation",  \* 409s that never lower the cursor
            "gap",          \* a block whose parent is unknown
            "wrongFork",    \* canonical finalized hash mismatch
            "lagging",      \* finalize deferral bound exceeded
            "starved",      \* delivery watchdog
            "unlinked",     \* INV-10 tripwire
            "skipped",      \* another block while a redelivery is awaited
            "unserved",     \* redelivery watchdog
            "crashed" }     \* the process was killed

Running == status = "running"

Fatal(reason) == status' = reason

-----------------------------------------------------------------------------
Extends(child, parent) == child # Root /\ Parent[child] = parent

(* The last position of a chain, oldest first, numbered n or below; else 0. *)
LastAtOrBelow(chain, n) ==
  CHOOSE i \in 0..Len(chain) :
    /\ i = 0 \/ Height[chain[i]] <= n
    /\ \A j \in (i + 1)..Len(chain) : Height[chain[j]] > n

Highest(S) == CHOOSE b \in S : \A c \in S : Height[c] <= Height[b]
=============================================================================
