---------------------------- MODULE RealtimeProofs ---------------------------
(***************************************************************************)
(* The realtime path keeps its types and a hash-linked window (INV-10), for  *)
(* every block tree, every fork schedule and every bound.                  *)
(*                                                                         *)
(* WindowLinked is not inductive: the block a reorg was raised for is        *)
(* appended in a later step, so it must still fit then (AppendFits); and     *)
(* TypeOK needs that a connection's cursor follows its last block            *)
(* (CursorFollows) and that the three generators take turns (TakeTurns).    *)
(***************************************************************************)
EXTENDS RealtimeProperties, NatSets

(***************************************************************************)
(* What the pure core of the realtime path guarantees for every window: a    *)
(* rollback and a finalize cut a linked chain into linked chains, and the    *)
(* CHOOSEs of the model always have something to choose.  Induction is by    *)
(* the least counterexample (LeastElement).                                *)
(***************************************************************************)

(* A set of blocks below some height has a highest block.                  *)
LEMMA HighestExists ==
  ASSUME NEW S, S \subseteq Block, S # {},
         NEW n \in Int, \A b \in S : Height[b] < n
  PROVE  Highest(S) \in S /\ \A b \in S : Height[b] <= Height[Highest(S)]
PROOF
<1> DEFINE Bounds == {k \in Nat : \A b \in S : Height[b] <= k}
<1>1. PICK a \in S : TRUE OBVIOUS
<1>2. \A b \in S : Height[b] \in Nat BY HeightAssumption
<1>3. n \in Bounds BY <1>1, <1>2
<1>4. PICK k \in Bounds : \A m \in Bounds : k <= m
  <2> HIDE DEF Bounds
  <2>1. Bounds \subseteq Nat BY DEF Bounds
  <2> QED BY <1>3, <2>1, LeastElement
<1>5. \E b \in S : Height[b] = k
  <2> SUFFICES ASSUME \A b \in S : Height[b] # k PROVE FALSE OBVIOUS
  <2>1. \A b \in S : Height[b] < k BY <1>2, <1>4
  <2>2. k - 1 \in Bounds BY <1>1, <1>2, <1>4, <2>1
  <2> QED BY <1>4, <2>2
<1>6. \E b \in S : \A c \in S : Height[c] <= Height[b] BY <1>4, <1>5
<1> QED BY <1>6 DEF Highest

(* Where LastAtOrBelow cuts a chain.                                       *)
LEMMA CutPosition ==
  ASSUME NEW chain \in Seq(Block), NEW n \in Int
  PROVE  /\ LastAtOrBelow(chain, n) \in 0..Len(chain)
         /\ \/ LastAtOrBelow(chain, n) = 0
            \/ Height[chain[LastAtOrBelow(chain, n)]] <= n
         /\ \A j \in (LastAtOrBelow(chain, n) + 1)..Len(chain) : Height[chain[j]] > n
PROOF
<1> DEFINE Cuts == {i \in 0..Len(chain) :
                      \A j \in (i + 1)..Len(chain) : Height[chain[j]] > n}
<1>1. Len(chain) \in Nat /\ \A i \in 1..Len(chain) : chain[i] \in Block
  OBVIOUS
<1>2. \A i \in 1..Len(chain) : Height[chain[i]] \in Nat BY <1>1, HeightAssumption
<1>3. Len(chain) \in Cuts BY <1>1
<1>4. PICK i \in Cuts : \A m \in Cuts : i <= m
  <2> HIDE DEF Cuts
  <2>1. Cuts \subseteq Nat BY DEF Cuts
  <2> QED BY <1>3, <2>1, LeastElement
<1>5. i = 0 \/ Height[chain[i]] <= n
  <2> SUFFICES ASSUME i # 0, Height[chain[i]] > n PROVE FALSE BY <1>1, <1>2, <1>4
  <2>1. i - 1 \in Cuts BY <1>1, <1>4
  <2> QED BY <1>4, <2>1
<1>6. \E c \in 0..Len(chain) :
        /\ c = 0 \/ Height[chain[c]] <= n
        /\ \A j \in (c + 1)..Len(chain) : Height[chain[j]] > n
  BY <1>4, <1>5
<1> QED BY <1>6 DEF LastAtOrBelow

(* A linked window is numbered upwards from its anchor, without holes.      *)
LEMMA LinkedIsNumbered ==
  ASSUME NEW blocks \in Seq(Block), NEW bottom \in Block, Linked(blocks, bottom)
  PROVE  \A i \in 1..Len(blocks) : Height[blocks[i]] = Height[bottom] + i
PROOF
<1> DEFINE Wrong == {i \in 1..Len(blocks) : Height[blocks[i]] # Height[bottom] + i}
<1>1. Len(blocks) \in Nat /\ \A i \in 1..Len(blocks) : blocks[i] \in Block
  OBVIOUS
<1> SUFFICES ASSUME Wrong # {} PROVE FALSE OBVIOUS
<1>2. PICK i \in Wrong : \A m \in Wrong : i <= m
  <2> HIDE DEF Wrong
  <2>1. Wrong \subseteq Nat BY DEF Wrong
  <2> QED BY <2>1, LeastElement
<1>3. /\ i \in 1..Len(blocks)
      /\ Height[blocks[i]] # Height[bottom] + i
      /\ Extends(blocks[i], IF i = 1 THEN bottom ELSE blocks[i - 1])
  BY <1>2 DEF Linked
<1>4. Height[blocks[i]] = Height[IF i = 1 THEN bottom ELSE blocks[i - 1]] + 1
  BY <1>1, <1>2, <1>3, HeightAssumption DEF Extends
<1>5. CASE i = 1 BY <1>3, <1>4, <1>5
<1>6. CASE i # 1
  <2>1. i - 1 \in 1..Len(blocks) BY <1>1, <1>2, <1>6
  <2>2. Height[blocks[i - 1]] = Height[bottom] + (i - 1) BY <1>2, <2>1
  <2>3. Height[bottom] \in Nat BY HeightAssumption
  <2>4. Height[blocks[i]] = Height[blocks[i - 1]] + 1 BY <1>4, <1>6
  <2>5. i \in Int BY <1>1, <1>3
  <2> HIDE DEF Wrong
  <2> QED BY <1>3, <2>2, <2>3, <2>4, <2>5
<1> QED BY <1>5, <1>6

(* The front of a chain is a chain on the same anchor.                     *)
LEMMA FrontIsChain ==
  ASSUME NEW blocks \in Seq(Block), NEW bottom \in Block, Linked(blocks, bottom),
         NEW k \in 0..Len(blocks)
  PROVE  /\ SubSeq(blocks, 1, k) \in Seq(Block)
         /\ Linked(SubSeq(blocks, 1, k), bottom)
         /\ Tip(SubSeq(blocks, 1, k), bottom) = (IF k = 0 THEN bottom ELSE blocks[k])
PROOF
<1> DEFINE front == SubSeq(blocks, 1, k)
<1>1. /\ front \in Seq(Block)
      /\ Len(front) = k
      /\ \A i \in 1..k : front[i] = blocks[i]
  OBVIOUS
<1>2. Linked(front, bottom) BY <1>1 DEF Linked
<1> QED BY <1>1, <1>2 DEF Tip

(* What is left above position k of a chain is a chain on the block there.  *)
LEMMA BackIsChain ==
  ASSUME NEW blocks \in Seq(Block), NEW bottom \in Block, Linked(blocks, bottom),
         NEW k \in 1..Len(blocks)
  PROVE  /\ SubSeq(blocks, k + 1, Len(blocks)) \in Seq(Block)
         /\ Linked(SubSeq(blocks, k + 1, Len(blocks)), blocks[k])
PROOF
<1> DEFINE back == SubSeq(blocks, k + 1, Len(blocks))
<1>1. /\ back \in Seq(Block)
      /\ Len(back) = Len(blocks) - k
      /\ \A i \in 1..Len(back) : back[i] = blocks[i + k]
  OBVIOUS
<1>2. Linked(back, blocks[k])
  <2> SUFFICES ASSUME NEW i \in 1..Len(back)
               PROVE  Extends(back[i], IF i = 1 THEN blocks[k] ELSE back[i - 1])
    BY DEF Linked
  <2>1. i + k \in 2..Len(blocks) BY <1>1
  <2>2. Extends(blocks[i + k], blocks[i + k - 1]) BY <2>1 DEF Linked
  <2>3. CASE i = 1 BY <1>1, <2>2, <2>3
  <2>4. CASE i # 1
    <3>1. i - 1 \in 1..Len(back) /\ back[i - 1] = blocks[i - 1 + k] BY <1>1, <2>4
    <3> QED BY <1>1, <2>2, <2>4, <3>1
  <2> QED BY <2>3, <2>4
<1> QED BY <1>1, <1>2

(* A block that extends the tip of a chain makes a longer chain.           *)
LEMMA AppendIsChain ==
  ASSUME NEW blocks \in Seq(Block), NEW bottom \in Block, Linked(blocks, bottom),
         NEW b \in Block, Extends(b, Tip(blocks, bottom))
  PROVE  /\ Append(blocks, b) \in Seq(Block)
         /\ Linked(Append(blocks, b), bottom)
PROOF
<1> DEFINE longer == Append(blocks, b)
<1>1. /\ Len(blocks) \in Nat
      /\ longer \in Seq(Block)
      /\ Len(longer) = Len(blocks) + 1
      /\ \A i \in 1..Len(blocks) : longer[i] = blocks[i]
      /\ longer[Len(blocks) + 1] = b
  OBVIOUS
<1>2. Tip(blocks, bottom) = (IF Len(blocks) = 0 THEN bottom ELSE blocks[Len(blocks)])
  BY DEF Tip
<1>3. Linked(longer, bottom)
  BY <1>1, <1>2 DEF Linked
<1> QED BY <1>1, <1>3

(* In a linked chain a block's height says where it stands.                *)
LEMMA CutAtBlock ==
  ASSUME NEW chain \in Seq(Block), NEW base \in Block, Linked(chain, base),
         NEW k \in 0..Len(chain)
  PROVE  LastAtOrBelow(chain, Height[base] + k) = k
PROOF
<1> DEFINE n == Height[base] + k
           cut == LastAtOrBelow(chain, n)
<1>1. /\ Len(chain) \in Nat /\ Height[base] \in Nat /\ n \in Int
      /\ \A i \in 1..Len(chain) : Height[chain[i]] = Height[base] + i
  BY LinkedIsNumbered, HeightAssumption
<1>2. /\ cut \in 0..Len(chain)
      /\ cut = 0 \/ Height[chain[cut]] <= n
      /\ \A j \in (cut + 1)..Len(chain) : Height[chain[j]] > n
  <2> HIDE DEF n
  <2> QED BY <1>1, CutPosition
<1> HIDE DEF cut
<1>3. cut <= k BY <1>1, <1>2
<1>4. cut >= k
  <2> SUFFICES ASSUME cut < k PROVE FALSE BY <1>2
  <2>1. k \in (cut + 1)..Len(chain) BY <1>2
  <2> QED BY <1>1, <1>2, <2>1
<1>5. cut = k BY <1>2, <1>3, <1>4
<1> QED BY <1>5 DEF cut

(* The fork position of a block that has a parent in the window is one.     *)
LEMMA ForkIsParent ==
  ASSUME NEW blocks \in Seq(Block), NEW bottom, NEW next,
         ParentAt(blocks, next, bottom) # {}
  PROVE  ForkPosition(blocks, next, bottom) \in ParentAt(blocks, next, bottom)
PROOF
<1> DEFINE at == ParentAt(blocks, next, bottom)
           inside == at \ {0}
<1>1. at \subseteq 0..Len(blocks) BY DEF ParentAt
<1>2. CASE inside = {} BY <1>2 DEF ForkPosition
<1>3. CASE inside # {}
  <2>1. \E i \in inside : \A j \in inside : i <= j
    <3> HIDE DEF inside
    <3>1. inside \subseteq Nat BY <1>1 DEF inside
    <3> QED BY <1>3, <3>1, LeastElement
  <2> QED BY <1>3, <2>1 DEF ForkPosition
<1> QED BY <1>2, <1>3

(* A reorg's rollback ends exactly at the parent of the block it makes room  *)
(* for, whether the parent is in the window or is the anchor.               *)
LEMMA RollbackMakesRoom ==
  ASSUME NEW blocks \in Seq(Block), NEW bottom \in Block, Linked(blocks, bottom),
         NEW next \in Block, ParentAt(blocks, next, bottom) # {}
  PROVE  LET ancestor == CommonAncestor(blocks, next, bottom)
         IN  /\ ancestor \in Block
             /\ ReorgedBlocks(blocks, next, bottom) \in Seq(Block)
             /\ TrimTo(blocks, ancestor) \in Seq(Block)
             /\ Linked(TrimTo(blocks, ancestor), bottom)
             /\ Extends(next, Tip(TrimTo(blocks, ancestor), bottom))
PROOF
<1> DEFINE at == ParentAt(blocks, next, bottom)
           fork == ForkPosition(blocks, next, bottom)
           ancestor == CommonAncestor(blocks, next, bottom)
           cut == LastAtOrBelow(blocks, Height[ancestor])
<1>1. /\ Len(blocks) \in Nat
      /\ \A i \in 1..Len(blocks) : blocks[i] \in Block
      /\ \A i \in 1..Len(blocks) : Height[blocks[i]] = Height[bottom] + i
      /\ Height[bottom] \in Nat
  BY LinkedIsNumbered, HeightAssumption
<1>2. at \subseteq 0..Len(blocks) BY DEF ParentAt
<1>3. fork \in at BY ForkIsParent
<1>4. /\ fork \in 0..Len(blocks)
      /\ Extends(next, IF fork = 0 THEN bottom ELSE blocks[fork])
  BY <1>2, <1>3 DEF ParentAt
<1>5. ancestor = (IF fork = 0 THEN bottom ELSE blocks[fork])
  BY DEF CommonAncestor
<1>6. ancestor \in Block /\ Height[ancestor] = Height[bottom] + fork
  BY <1>1, <1>4, <1>5
<1>7. cut = fork
  <2> HIDE DEF fork, ancestor
  <2> QED BY <1>4, <1>6, CutAtBlock
<1>8. ReorgedBlocks(blocks, next, bottom) \in Seq(Block)
  BY <1>4 DEF ReorgedBlocks
<1>9. TrimTo(blocks, ancestor) = SubSeq(blocks, 1, fork)
  BY <1>7 DEF TrimTo
<1>10. /\ TrimTo(blocks, ancestor) \in Seq(Block)
       /\ Linked(TrimTo(blocks, ancestor), bottom)
       /\ Tip(TrimTo(blocks, ancestor), bottom) = ancestor
  <2> HIDE DEF ancestor, fork
  <2>1. fork \in 0..Len(blocks) BY <1>4
  <2>2. /\ SubSeq(blocks, 1, fork) \in Seq(Block)
        /\ Linked(SubSeq(blocks, 1, fork), bottom)
        /\ Tip(SubSeq(blocks, 1, fork), bottom) = (IF fork = 0 THEN bottom ELSE blocks[fork])
    BY <2>1, FrontIsChain
  <2> QED BY <1>5, <1>9, <2>2
<1> QED BY <1>4, <1>5, <1>6, <1>8, <1>10

(* A finalize splits the window at a block of it, or moves nothing; what is  *)
(* left is a chain on the finalized block.                                 *)
LEMMA FinalizeSplits ==
  ASSUME NEW blocks \in Seq(Block), NEW bottom \in Block, Linked(blocks, bottom),
         NEW n \in Int, FinalizedTip(blocks, n) # None
  PROVE  /\ FinalizedTip(blocks, n) \in Block
         /\ Remaining(blocks, n) \in Seq(Block)
         /\ Linked(Remaining(blocks, n), FinalizedTip(blocks, n))
PROOF
<1> DEFINE cut == LastAtOrBelow(blocks, n)
<1>1. cut \in 0..Len(blocks) BY CutPosition
<1>2. cut # 0 /\ FinalizedTip(blocks, n) = blocks[cut] BY DEF FinalizedTip
<1>3. Remaining(blocks, n) = SubSeq(blocks, cut + 1, Len(blocks)) BY DEF Remaining
<1> HIDE DEF cut
<1>4. cut \in 1..Len(blocks) BY <1>1, <1>2
<1> QED BY <1>2, <1>3, <1>4, BackIsChain

(* Where a reorg and a finalize cut the window, and what stays in it.       *)
LEMMA ReorgCut ==
  ASSUME NEW blocks \in Seq(Block), NEW bottom \in Block, Linked(blocks, bottom),
         NEW next \in Block, IsReorg(blocks, next, bottom)
  PROVE  \E k \in 0..(Len(blocks) - 1) :
           /\ CommonAncestor(blocks, next, bottom) = (IF k = 0 THEN bottom ELSE blocks[k])
           /\ ReorgedBlocks(blocks, next, bottom) = SubSeq(blocks, k + 1, Len(blocks))
           /\ TrimTo(blocks, CommonAncestor(blocks, next, bottom)) = SubSeq(blocks, 1, k)
PROOF
<1> DEFINE at == ParentAt(blocks, next, bottom)
           fork == ForkPosition(blocks, next, bottom)
           ancestor == CommonAncestor(blocks, next, bottom)
<1>1. at \subseteq 0..Len(blocks) /\ at # {} BY DEF ParentAt, IsReorg
<1>2. fork \in at BY <1>1, ForkIsParent
<1>3. ancestor = (IF fork = 0 THEN bottom ELSE blocks[fork])
  BY DEF CommonAncestor
<1>4. Extends(next, ancestor) BY <1>2, <1>3 DEF ParentAt
<1>5. fork # Len(blocks)
  <2>1. Tip(blocks, bottom) = (IF Len(blocks) = 0 THEN bottom ELSE blocks[Len(blocks)])
    BY DEF Tip
  <2>2. ~Extends(next, Tip(blocks, bottom)) BY DEF IsReorg, IsAppend
  <2> HIDE DEF fork, ancestor
  <2> QED BY <1>3, <1>4, <2>1, <2>2
<1>6. fork \in 0..(Len(blocks) - 1)
  <2> HIDE DEF fork, at
  <2> QED BY <1>1, <1>2, <1>5
<1>7. LastAtOrBelow(blocks, Height[ancestor]) = fork
  <2>1. Height[bottom] \in Nat BY HeightAssumption
  <2>2. Height[ancestor] = Height[bottom] + fork
    BY <1>3, <1>6, <2>1, LinkedIsNumbered
  <2> HIDE DEF fork, ancestor
  <2> QED BY <1>6, <2>2, CutAtBlock
<1>8. TrimTo(blocks, ancestor) = SubSeq(blocks, 1, fork) BY <1>7 DEF TrimTo
<1>9. ReorgedBlocks(blocks, next, bottom) = SubSeq(blocks, fork + 1, Len(blocks))
  BY DEF ReorgedBlocks
<1> QED BY <1>3, <1>6, <1>8, <1>9

LEMMA FinalizeCut ==
  ASSUME NEW blocks \in Seq(Block), NEW n \in Int, FinalizedTip(blocks, n) # None
  PROVE  \E k \in 1..Len(blocks) :
           /\ FinalizedTip(blocks, n) = blocks[k]
           /\ Remaining(blocks, n) = SubSeq(blocks, k + 1, Len(blocks))
PROOF
<1> DEFINE cut == LastAtOrBelow(blocks, n)
<1>1. cut \in 0..Len(blocks) BY CutPosition
<1>2. cut # 0 /\ FinalizedTip(blocks, n) = blocks[cut] BY DEF FinalizedTip
<1>3. Remaining(blocks, n) = SubSeq(blocks, cut + 1, Len(blocks)) BY DEF Remaining
<1> HIDE DEF cut
<1> QED BY <1>1, <1>2, <1>3

-----------------------------------------------------------------------------
(* The tree of blocks.  A set that has the root and, with a parent, each of   *)
(* its children, has every block.                                          *)
LEMMA TreeInduction ==
  ASSUME NEW S, Root \in S,
         \A b \in Block \ {Root} : Parent[b] \in S => b \in S
  PROVE  \A b \in Block : b \in S
PROOF
<1> DEFINE Bad == {b \in Block : b \notin S}
           heights == {Height[b] : b \in Bad}
<1> SUFFICES ASSUME Bad # {} PROVE FALSE OBVIOUS
<1>1. heights \subseteq Nat /\ heights # {} BY HeightAssumption
<1>2. PICK n \in heights : \A m \in heights : n <= m
  <2> HIDE DEF heights
  <2> QED BY <1>1, LeastElement
<1>3. PICK b \in Bad : Height[b] = n BY <1>2
<1>4. b \in Block \ {Root} /\ b \notin S BY <1>3
<1>5. Parent[b] \in Bad BY <1>4, ParentAssumption
<1>6. Height[Parent[b]] \in Nat /\ Height[b] = Height[Parent[b]] + 1
  BY <1>4, <1>5, HeightAssumption
<1>7. Height[Parent[b]] \in heights BY <1>5
<1> HIDE DEF heights, Bad
<1> QED BY <1>2, <1>3, <1>6, <1>7

LEMMA AncestryEnds ==
  \A b \in Block : Root \in Ancestry[b] /\ b \in Ancestry[b]
PROOF
<1> DEFINE S == {b \in Block : Root \in Ancestry[b] /\ b \in Ancestry[b]}
<1>1. Root \in S BY RootAssumption, AncestryAssumption
<1>2. ASSUME NEW b \in Block \ {Root}, Parent[b] \in S PROVE b \in S
  BY <1>2, AncestryAssumption
<1>3. \A b \in Block : b \in S
  <2> HIDE DEF S
  <2> QED BY <1>1, <1>2, TreeInduction
<1> QED BY <1>3

LEMMA AncestryBelow ==
  \A b \in Block : \A a \in Ancestry[b] :
    Height[a] <= Height[b] /\ (a # b => Height[a] < Height[b])
PROOF
<1> DEFINE S == {b \in Block : \A a \in Ancestry[b] :
                   Height[a] <= Height[b] /\ (a # b => Height[a] < Height[b])}
<1>1. Root \in S BY RootAssumption, AncestryAssumption, HeightAssumption
<1>2. ASSUME NEW b \in Block \ {Root}, Parent[b] \in S PROVE b \in S
  <2>1. Parent[b] \in Block BY ParentAssumption
  <2>2. /\ Height[b] = Height[Parent[b]] + 1
        /\ Height[b] \in Nat /\ Height[Parent[b]] \in Nat
    BY <2>1, HeightAssumption
  <2>3. Ancestry[b] = Ancestry[Parent[b]] \cup {b} BY AncestryAssumption
  <2>4. ASSUME NEW a \in Ancestry[Parent[b]]
        PROVE  Height[a] \in Nat /\ Height[a] < Height[b]
    <3>1. a \in Block BY <2>1, AncestryAssumption
    <3>2. Height[a] \in Nat BY <3>1, HeightAssumption
    <3>3. Height[a] <= Height[Parent[b]] BY <1>2
    <3> QED BY <2>2, <3>2, <3>3
  <2> QED BY <2>2, <2>3, <2>4
<1>3. \A b \in Block : b \in S
  <2> HIDE DEF S
  <2> QED BY <1>1, <1>2, TreeInduction
<1> QED BY <1>3

(* Of two blocks of one chain the lower is an ancestor of the higher.       *)
LEMMA AncestryOrdered ==
  \A b \in Block : \A a, c \in Ancestry[b] :
    Height[a] <= Height[c] => a \in Ancestry[c]
PROOF
<1> DEFINE S == {b \in Block : \A a, c \in Ancestry[b] :
                   Height[a] <= Height[c] => a \in Ancestry[c]}
<1>1. Root \in S BY RootAssumption, AncestryAssumption
<1>2. ASSUME NEW b \in Block \ {Root}, Parent[b] \in S PROVE b \in S
  <2>1. Ancestry[b] = Ancestry[Parent[b]] \cup {b} BY AncestryAssumption
  <2>2. SUFFICES ASSUME NEW a \in Ancestry[b], NEW c \in Ancestry[b],
                        Height[a] <= Height[c]
                 PROVE  a \in Ancestry[c]
    OBVIOUS
  <2>3. CASE c = b BY <2>3
  <2>4. CASE c # b
    <3>1. c \in Block /\ Height[c] < Height[b] BY <2>4, AncestryBelow, AncestryAssumption
    <3>2. a # b BY <2>2, <3>1, HeightAssumption
    <3> QED BY <1>2, <2>1, <2>2, <2>4, <3>2
  <2> QED BY <2>3, <2>4
<1>3. \A b \in Block : b \in S
  <2> HIDE DEF S
  <2> QED BY <1>1, <1>2, TreeInduction
<1> QED BY <1>3

(* A linked chain is what its tip's history has above its base.             *)
LEMMA ChainIsHistory ==
  ASSUME NEW chain \in Seq(Block), NEW base \in Block, Linked(chain, base)
  PROVE  /\ Tip(chain, base) \in Block
         /\ Ancestry[Tip(chain, base)]
              = Ancestry[base] \cup {chain[i] : i \in 1..Len(chain)}
         /\ \A i \in 1..Len(chain) : chain[i] \notin Ancestry[base]
PROOF
<1> DEFINE at(k) == IF k = 0 THEN base ELSE chain[k]
           Holds(k) == Ancestry[at(k)] = Ancestry[base] \cup {chain[i] : i \in 1..k}
           Bad == {k \in 0..Len(chain) : ~Holds(k)}
<1>1. Len(chain) \in Nat /\ \A i \in 1..Len(chain) : chain[i] \in Block OBVIOUS
<1>2. Bad = {}
  <2> SUFFICES ASSUME Bad # {} PROVE FALSE OBVIOUS
  <2>1. PICK k \in Bad : \A m \in Bad : k <= m
    <3>1. Bad \subseteq Nat BY <1>1
    <3> HIDE DEF Bad
    <3> QED BY <3>1, LeastElement
  <2>2. k \in 0..Len(chain) /\ ~Holds(k) BY <2>1
  <2>3. k # 0 BY <2>2
  <2>4. k \in Nat /\ k - 1 \in 0..Len(chain) BY <1>1, <2>2, <2>3
  <2>5. Holds(k - 1)
    <3> SUFFICES ASSUME k - 1 \in Bad PROVE FALSE BY <2>4
    <3> HIDE DEF Bad
    <3> QED BY <2>1, <2>4
  <2>6. Extends(chain[k], at(k - 1)) BY <1>1, <2>2, <2>3 DEF Linked
  <2>7. Ancestry[chain[k]] = Ancestry[at(k - 1)] \cup {chain[k]}
    BY <1>1, <2>2, <2>3, <2>6, AncestryAssumption DEF Extends
  <2>8. 1..k = (1..(k - 1)) \cup {k} BY <2>2, <2>3
  <2>9. {chain[i] : i \in 1..k} = {chain[i] : i \in 1..(k - 1)} \cup {chain[k]}
    BY <2>8
  <2>10. at(k) = chain[k] BY <2>3
  <2> QED BY <2>2, <2>5, <2>7, <2>9, <2>10
<1>3. Tip(chain, base) = at(Len(chain)) BY <1>1 DEF Tip
<1>4. Holds(Len(chain)) BY <1>1, <1>2
<1>5. at(Len(chain)) \in Block BY <1>1
<1>6. ASSUME NEW i \in 1..Len(chain) PROVE chain[i] \notin Ancestry[base]
  <2>1. Height[chain[i]] = Height[base] + i BY LinkedIsNumbered
  <2>2. Height[base] \in Nat BY HeightAssumption
  <2>3. ~(Height[chain[i]] <= Height[base]) BY <2>1, <2>2
  <2> QED BY <2>3, AncestryBelow
<1> QED BY <1>3, <1>4, <1>5, <1>6

-----------------------------------------------------------------------------

AppendFits ==
  stage = "append" => Extends(pending.block, Tip(window, anchor))

CursorFollows == conn # None => cursor = Height[conn.last] + 1

TakeTurns ==
  /\ item # None => stage = "pull" /\ event = None /\ draining = None
  /\ draining # None => event = None

Statuses == {"running", "done"} \cup Fatals

HotOK == HotTypeOK /\ CursorFollows
EventsOK == EventsTypeOK /\ WindowLinked /\ AppendFits

IInv ==
  /\ ServerTypeOK /\ HotOK /\ EventsOK /\ WireTypeOK /\ TakeTurns
  /\ status \in Statuses
  /\ boots \in 0..MaxBoots

-----------------------------------------------------------------------------
(* The Portal.                                                             *)
LEMMA ServerStep ==
  ASSUME ServerTypeOK, ServerNext
  PROVE  ServerTypeOK'
PROOF
<1> USE RootAssumption, AncestryAssumption, ServerAssumption
<1>1. CASE Produce
  <2>1. head' \in Block /\ head' # Root /\ Parent[head'] = head
    BY <1>1 DEF Produce, Extends
  <2>2. Ancestry[head'] = Ancestry[head] \cup {head'} BY <2>1
  <2> QED BY <1>1, <2>1, <2>2 DEF Produce, ServerTypeOK
<1>2. CASE SwitchHead
  <2>1. head' \in Block /\ final \in Ancestry[head']
    BY <1>2 DEF SwitchHead
  <2> QED BY <1>2, <2>1 DEF SwitchHead, ServerTypeOK
<1>3. CASE Finalize
  BY <1>3 DEF Finalize, ServerTypeOK, Canonical
<1> QED BY <1>1, <1>2, <1>3 DEF ServerNext

LEMMA ServerKept ==
  ASSUME ServerTypeOK, UNCHANGED serverVars
  PROVE  ServerTypeOK'
PROOF BY DEF ServerTypeOK, serverVars

-----------------------------------------------------------------------------
(* The follower.                                                           *)
RingOK(r) ==
  /\ DOMAIN r \subseteq {Height[b] : b \in Block}
  /\ \A h \in DOMAIN r : r[h] \in Block /\ Height[r[h]] = h

LEMMA DeliveredIsRing ==
  ASSUME NEW r, RingOK(r), NEW b \in Block, NEW lo
  PROVE  RingOK(Delivered(r, b, lo))
PROOF
<1> DEFINE r2 == [h \in DOMAIN r \cup {Height[b]} |->
                    IF h = Height[b] THEN b ELSE r[h]]
<1>1. RingOK(r2) BY DEF RingOK
<1>2. \E S : S \subseteq DOMAIN r2 /\ Delivered(r, b, lo) = [h \in S |-> r2[h]]
  BY DEF Delivered, Pruned, Newest
<1> HIDE DEF r2
<1> QED BY <1>1, <1>2 DEF RingOK

LEMMA HotKept ==
  ASSUME HotOK, UNCHANGED hotVars
  PROVE  HotOK'
PROOF BY DEF HotOK, HotTypeOK, CursorFollows, hotVars

LEMMA ParentKnown ==
  ASSUME HotOK, ResumeParent # None
  PROVE  /\ ResumeParent \in Block
         /\ Height[ResumeParent] = cursor - 1
         /\ cursor - 1 \in Nat
PROOF BY HeightAssumption DEF HotOK, HotTypeOK, ResumeParent

LEMMA HotNoDataStep ==
  ASSUME HotOK, HotNoData
  PROVE  HotOK' /\ status' = status
PROOF
<1>1. strikes' \in {strikes, 0} /\ item' = Tick
      /\ UNCHANGED <<cursor, ring, dropped, conn, status>>
  BY DEF HotNoData
<1>2. 0 \in 0..MaxStrikes BY HotStreamAssumption
<1>3. Tick \in Item BY DEF Item
<1> QED BY <1>1, <1>2, <1>3 DEF HotOK, HotTypeOK, CursorFollows

LEMMA HotRejectedStep ==
  ASSUME HotOK, HotRejected, status \in Statuses
  PROVE  HotOK' /\ status' \in Statuses /\ item' = item
PROOF
<1>1. dropped' \subseteq Missing BY DEF HotRejected, HotOK, HotTypeOK
<1>2. status' \in Statuses BY DEF HotRejected, Fatal, Fatals, Statuses
<1>3. UNCHANGED <<cursor, ring, strikes, conn, item>> BY DEF HotRejected
<1> QED BY <1>1, <1>2, <1>3 DEF HotOK, HotTypeOK, CursorFollows

LEMMA HotConflictStep ==
  ASSUME HotOK, ServerTypeOK, NEW lo, HotConflict(lo), status \in Statuses
  PROVE  HotOK' /\ status' \in Statuses /\ item' = item
PROOF
<1>1. PICK prev \in PreviousBlocks(cursor) : Negotiate(prev, lo)
  BY DEF HotConflict
<1> DEFINE confirmed == {b \in prev : /\ Height[b] >= lo
                                      /\ Height[b] \in DOMAIN ring
                                      /\ ring[Height[b]] = b}
           target == IF confirmed = {} THEN cursor - 1
                     ELSE Height[Highest(confirmed)] + 1
           missed == IF target < cursor THEN 0 ELSE strikes + 1
<1>2. conn = None BY DEF HotConflict, Requesting
<1>3. cursor \in Nat /\ cursor - 1 \in Nat /\ strikes \in 0..MaxStrikes
  BY ParentKnown DEF HotConflict, HotOK, HotTypeOK
<1>4. prev \subseteq Block /\ \A b \in prev : Height[b] < cursor
  BY <1>1, AncestryAssumption DEF PreviousBlocks, Canonical, ServerTypeOK
<1>5. target \in Nat
  <2>1. CASE confirmed = {} BY <1>3, <2>1
  <2>2. CASE confirmed # {}
    <3> HIDE DEF confirmed
    <3>1. confirmed \subseteq Block /\ \A b \in confirmed : Height[b] < cursor
      BY <1>4 DEF confirmed
    <3>2. Highest(confirmed) \in confirmed BY <1>3, <2>2, <3>1, HighestExists
    <3> QED BY <2>2, <3>1, <3>2, HeightAssumption
  <2> QED BY <2>1, <2>2
<1>6. missed \in Nat BY <1>3
<1>7. \/ Fatal("belowFloor") /\ UNCHANGED hotVars
      \/ /\ cursor' = target
         /\ IF missed > MaxStrikes
            THEN Fatal("oscillation") /\ UNCHANGED strikes
            ELSE strikes' = missed /\ UNCHANGED status
         /\ UNCHANGED <<ring, dropped, conn, item>>
  BY <1>1 DEF Negotiate
<1> HIDE DEF target, missed
<1>8. CASE Fatal("belowFloor") /\ UNCHANGED hotVars
  BY <1>8, HotKept DEF Fatal, Fatals, Statuses, hotVars
<1>9. CASE /\ cursor' = target
           /\ IF missed > MaxStrikes
              THEN Fatal("oscillation") /\ UNCHANGED strikes
              ELSE strikes' = missed /\ UNCHANGED status
           /\ UNCHANGED <<ring, dropped, conn, item>>
  <2>1. strikes' \in 0..MaxStrikes BY <1>3, <1>6, <1>9, HotStreamAssumption
  <2>2. status' \in Statuses BY <1>9 DEF Fatal, Fatals, Statuses
  <2> QED BY <1>2, <1>5, <1>9, <2>1, <2>2 DEF HotOK, HotTypeOK, CursorFollows
<1> QED BY <1>7, <1>8, <1>9

LEMMA HotOpenStep ==
  ASSUME HotOK, NEW filter \in SUBSET Child, HotOpen(filter)
  PROVE  HotOK' /\ UNCHANGED <<item, status>>
PROOF
<1>1. ResumeParent \in Block /\ Height[ResumeParent] = cursor - 1 /\ cursor \in Nat
  BY ParentKnown DEF HotOpen, HotOK, HotTypeOK
<1>2. /\ conn' = [last |-> ResumeParent, filter |-> filter, reading |-> TRUE]
      /\ strikes' = 0
      /\ UNCHANGED <<cursor, ring, dropped, item, status>>
  BY DEF HotOpen
<1>3. conn' \in Connection BY <1>1, <1>2 DEF Connection
<1>4. cursor' = Height[conn'.last] + 1 BY <1>1, <1>2
<1>5. strikes' \in 0..MaxStrikes BY <1>2, HotStreamAssumption
<1> QED BY <1>2, <1>3, <1>4, <1>5 DEF HotOK, HotTypeOK, CursorFollows

LEMMA HotDeliverStep ==
  ASSUME HotOK, NEW lo, HotDeliver(lo)
  PROVE  HotOK' /\ status' = status
PROOF
<1>1. PICK b \in NextServed(conn.last) :
        /\ ring' = Delivered(ring, b, lo)
        /\ cursor' = Height[b] + 1
        /\ item' = Batch(b, ChildLogs[b] \cap conn.filter)
        /\ conn' = [conn EXCEPT !.last = b, !.reading = FALSE]
  BY DEF HotDeliver
<1>2. b \in Block BY DEF NextServed
<1>3. conn \in Connection BY DEF HotDeliver, Reading, HotOK, HotTypeOK
<1>4. conn' \in Connection /\ conn'.last = b BY <1>1, <1>2, <1>3 DEF Connection
<1>5. item' \in Item
  <2>1. ChildLogs[b] \cap conn.filter \in SUBSET Child
    BY <1>2, ChildAssumption
  <2> QED BY <1>1, <1>2, <2>1 DEF Item, Batches
<1>6. RingOK(ring') BY <1>1, <1>2, DeliveredIsRing DEF HotOK, HotTypeOK, RingOK
<1>7. cursor' \in Nat BY <1>1, <1>2, HeightAssumption
<1>8. UNCHANGED <<strikes, dropped, status>> BY DEF HotDeliver
<1> QED BY <1>1, <1>4, <1>5, <1>6, <1>7, <1>8
        DEF HotOK, HotTypeOK, CursorFollows, RingOK

LEMMA HotQuietStep ==
  ASSUME HotOK, HotHeartbeat \/ HotCut
  PROVE  HotOK' /\ status' = status
PROOF
<1>1. /\ item' = Tick
      /\ conn' \in {conn, None}
      /\ UNCHANGED <<cursor, ring, strikes, dropped, status>>
  BY DEF HotHeartbeat, HotCut
<1>2. Tick \in Item BY DEF Item
<1> QED BY <1>1, <1>2 DEF HotOK, HotTypeOK, CursorFollows

LEMMA HotResumeStep ==
  ASSUME HotOK, NEW reopen \in BOOLEAN, HotResume(reopen)
  PROVE  HotOK' /\ UNCHANGED <<item, status>>
PROOF
<1>1. conn \in Connection /\ conn # None /\ cursor = Height[conn.last] + 1
  BY DEF HotResume, HotOK, HotTypeOK, CursorFollows
<1>2. Height[conn.last] \in Nat BY <1>1, HeightAssumption DEF Connection
<1>3. UNCHANGED <<ring, strikes, dropped, item, status>> BY DEF HotResume
<1>4. CASE reopen
  <2>1. conn' = None /\ cursor' = cursor - 1 BY <1>4 DEF HotResume
  <2>2. cursor' \in Nat BY <1>1, <1>2, <2>1
  <2> QED BY <1>3, <2>1, <2>2 DEF HotOK, HotTypeOK, CursorFollows
<1>5. CASE ~reopen
  <2>1. conn' = [conn EXCEPT !.reading = TRUE] /\ cursor' = cursor
    BY <1>5 DEF HotResume
  <2>2. conn' \in Connection /\ conn'.last = conn.last BY <1>1, <2>1 DEF Connection
  <2> QED BY <1>1, <1>3, <2>1, <2>2 DEF HotOK, HotTypeOK, CursorFollows
<1> QED BY <1>4, <1>5

-----------------------------------------------------------------------------
(* The event producer.                                                     *)
LEMMA EventsKept ==
  ASSUME EventsOK, UNCHANGED eventsVars
  PROVE  EventsOK'
PROOF BY DEF EventsOK, EventsTypeOK, WindowLinked, AppendFits, eventsVars

LEMMA LargerIsNat ==
  ASSUME NEW m \in Nat \cup {None}, NEW n \in Nat
  PROVE  LargerOf(m, n) \in Nat
PROOF BY DEF LargerOf

BlockBatch == [kind : {"block"}, block : Block, logs : SUBSET Child]

(* base is the window the block goes on top of.                            *)
LEMMA AppendAndYieldStep ==
  ASSUME EventsOK, NEW batch \in BlockBatch, NEW redelivered \in BOOLEAN,
         ~redelivered => Extends(batch.block, Tip(window, anchor)),
         AppendAndYield(window, batch, redelivered), status \in Statuses
  PROVE  EventsOK' /\ status' \in Statuses
PROOF
<1>1. CASE /\ window' = IF redelivered THEN window ELSE Append(window, batch.block)
           /\ baseline' = LargerOf(baseline, Height[batch.block])
           /\ event' = BlockEvent(batch)
           /\ stage' = "cadence"
           /\ pending' = None
           /\ UNCHANGED <<anchor, deferring, probed, status>>
  <2>1. batch.block \in Block /\ Height[batch.block] \in Nat
    BY HeightAssumption DEF BlockBatch
  <2>2. window' \in Seq(Block) /\ Linked(window', anchor)
    <3>1. CASE redelivered BY <1>1, <3>1 DEF EventsOK, EventsTypeOK, WindowLinked
    <3>2. CASE ~redelivered
      BY <1>1, <2>1, <3>2, AppendIsChain DEF EventsOK, EventsTypeOK, WindowLinked
    <3> QED BY <3>1, <3>2
  <2>3. baseline' \in Nat BY <1>1, <2>1, LargerIsNat DEF EventsOK, EventsTypeOK
  <2>4. event' \in BlockEvents BY <1>1 DEF BlockEvent, BlockEvents, BlockBatch
  <2>5. EventsTypeOK' BY <1>1, <2>2, <2>3, <2>4 DEF EventsOK, EventsTypeOK
  <2>6. WindowLinked' BY <1>1, <2>2 DEF WindowLinked
  <2>7. AppendFits' BY <1>1 DEF AppendFits
  <2> QED BY <1>1, <2>5, <2>6, <2>7 DEF EventsOK
<1>2. CASE Fatal("unlinked") /\ UNCHANGED eventsVars
  BY <1>2, EventsKept DEF Fatal, Fatals, Statuses
<1> QED BY <1>1, <1>2 DEF AppendAndYield

LEMMA TakeTickStep ==
  ASSUME EventsOK, stage = "pull", TakeTick
  PROVE  EventsOK' /\ status' = status
PROOF
<1>1. /\ stage' = "cadence"
      /\ UNCHANGED <<window, anchor, deferring, baseline, probed, pending, event, status>>
  BY DEF TakeTick
<1> QED BY <1>1 DEF EventsOK, EventsTypeOK, WindowLinked, AppendFits

LEMMA TakeBlockStep ==
  ASSUME EventsOK, stage = "pull", NEW awaited \in BOOLEAN,
         NEW batch \in BlockBatch, batch # None,
         TakeBlock(batch, awaited), status \in Statuses
  PROVE  EventsOK' /\ status' \in Statuses
PROOF
<1>1. CASE TakeDuplicate(batch, awaited)
  <2>1. CASE awaited /\ AppendAndYield(window, batch, TRUE)
    BY <2>1, AppendAndYieldStep
  <2>2. CASE UNCHANGED eventsVars /\ UNCHANGED status
    BY <2>2, EventsKept
  <2> QED BY <1>1, <2>1, <2>2 DEF TakeDuplicate
<1>2. CASE TakeAppend(batch)
  <2>1. /\ Extends(batch.block, Tip(window, anchor))
        /\ AppendAndYield(window, batch, FALSE)
    BY <1>2 DEF TakeAppend, IsAppend
  <2> QED BY <2>1, AppendAndYieldStep
<1>3. CASE TakeReorg(batch)
  <2> DEFINE ancestor == CommonAncestor(window, batch.block, anchor)
  <2>1. /\ window' = TrimTo(window, ancestor)
        /\ event' = ReorgEvent(ancestor, ReorgedBlocks(window, batch.block, anchor))
        /\ pending' = batch
        /\ stage' = "append"
        /\ UNCHANGED <<anchor, deferring, baseline, probed, status>>
    BY <1>3 DEF TakeReorg
  <2>2. /\ window \in Seq(Block) /\ anchor \in Block /\ Linked(window, anchor)
        /\ batch.block \in Block
        /\ ParentAt(window, batch.block, anchor) # {}
    BY <1>3 DEF TakeReorg, IsReorg, EventsOK, EventsTypeOK, WindowLinked, BlockBatch
  <2>3. /\ ancestor \in Block
        /\ ReorgedBlocks(window, batch.block, anchor) \in Seq(Block)
        /\ TrimTo(window, ancestor) \in Seq(Block)
        /\ Linked(TrimTo(window, ancestor), anchor)
        /\ Extends(batch.block, Tip(TrimTo(window, ancestor), anchor))
    BY <2>2, RollbackMakesRoom
  <2> HIDE DEF ancestor
  <2>4. event' \in ReorgEvents BY <2>1, <2>3 DEF ReorgEvent, ReorgEvents
  <2>5. pending' \in BlockBatch /\ pending' # None BY <2>1
  <2>6. EventsTypeOK' BY <2>1, <2>3, <2>4, <2>5 DEF EventsOK, EventsTypeOK, BlockBatch
  <2>7. WindowLinked' BY <2>1, <2>3 DEF WindowLinked
  <2>8. AppendFits' BY <2>1, <2>3 DEF AppendFits
  <2> QED BY <2>1, <2>6, <2>7, <2>8 DEF EventsOK
<1>4. CASE TakeGap(batch)
  BY <1>4, EventsKept DEF TakeGap, Fatal, Fatals, Statuses
<1> QED BY <1>1, <1>2, <1>3, <1>4 DEF TakeBlock

LEMMA AppendAfterReorgStep ==
  ASSUME EventsOK, AppendAfterReorg, status \in Statuses
  PROVE  EventsOK' /\ status' \in Statuses
PROOF
<1>1. stage = "append" /\ AppendAndYield(window, pending, FALSE)
  BY DEF AppendAfterReorg
<1>2. pending \in BlockBatch /\ Extends(pending.block, Tip(window, anchor))
  BY <1>1 DEF EventsOK, EventsTypeOK, AppendFits, BlockBatch
<1> QED BY <1>1, <1>2, AppendAndYieldStep

LEMMA CadenceSkipStep ==
  ASSUME EventsOK, CadenceSkip
  PROVE  EventsOK' /\ status' = status
PROOF
<1>1. /\ stage = "cadence" /\ stage' = "pull"
      /\ UNCHANGED <<window, anchor, deferring, baseline, probed, pending, event, status>>
  BY DEF CadenceSkip
<1> QED BY <1>1 DEF EventsOK, EventsTypeOK, WindowLinked, AppendFits

LEMMA PollApplyStep ==
  ASSUME EventsOK, stage = "cadence", NEW fh, fh.number \in Nat, PollApply(fh),
         status \in Statuses
  PROVE  EventsOK' /\ status' \in Statuses
PROOF
<1> DEFINE tip == FinalizedTip(window, fh.number)
<1>1. /\ probed' = TRUE
      /\ baseline' = IF probed THEN baseline ELSE LargerOf(baseline, fh.number)
      /\ pending' = pending
  BY DEF PollApply
<1>2. baseline' \in Nat \cup {None}
  BY <1>1, LargerIsNat DEF EventsOK, EventsTypeOK
<1>3. pending = None BY DEF EventsOK, EventsTypeOK
<1>4. CASE /\ deferring' \in BOOLEAN
           /\ stage' \in {"pull", "cadence"}
           /\ status' \in Statuses
           /\ UNCHANGED <<window, anchor, event>>
  BY <1>1, <1>2, <1>3, <1>4 DEF EventsOK, EventsTypeOK, WindowLinked, AppendFits
<1>5. CASE /\ tip # None
           /\ deferring' = FALSE
           /\ anchor' = tip
           /\ window' = Remaining(window, fh.number)
           /\ event' = FinalizeEvent(tip)
           /\ stage' = "pull"
           /\ UNCHANGED status
  <2>1. window \in Seq(Block) /\ anchor \in Block /\ Linked(window, anchor)
    BY DEF EventsOK, EventsTypeOK, WindowLinked
  <2>2. /\ tip \in Block
        /\ Remaining(window, fh.number) \in Seq(Block)
        /\ Linked(Remaining(window, fh.number), tip)
    BY <1>5, <2>1, FinalizeSplits
  <2> HIDE DEF tip
  <2>3. event' \in FinalizeEvents BY <1>5, <2>2 DEF FinalizeEvent, FinalizeEvents
  <2>4. EventsTypeOK'
    BY <1>1, <1>2, <1>3, <1>5, <2>2, <2>3 DEF EventsOK, EventsTypeOK
  <2>5. WindowLinked' BY <1>5, <2>2 DEF WindowLinked
  <2>6. AppendFits' BY <1>5 DEF AppendFits
  <2> QED BY <1>5, <2>4, <2>5, <2>6 DEF EventsOK
<1>6. deferring \in BOOLEAN BY DEF EventsOK, EventsTypeOK
<1> QED BY <1>4, <1>5, <1>6 DEF PollApply, Fatal, Fatals, Statuses

LEMMA CadencePollStep ==
  ASSUME EventsOK, NEW fh, fh = None \/ fh.number \in Nat, CadencePoll(fh),
         status \in Statuses
  PROVE  EventsOK' /\ status' \in Statuses
PROOF
<1>1. stage = "cadence" BY DEF CadencePoll
<1>2. CASE fh = None
  <2>1. /\ stage' = "pull" /\ deferring' = FALSE
        /\ UNCHANGED <<window, anchor, baseline, probed, pending, event, status>>
    BY <1>2 DEF CadencePoll, PollFailed
  <2> QED BY <1>1, <2>1 DEF EventsOK, EventsTypeOK, WindowLinked, AppendFits
<1>3. CASE fh # None /\ PollStarved(fh)
  BY <1>3, EventsKept DEF PollStarved, Fatal, Fatals, Statuses
<1>4. CASE fh # None /\ PollApply(fh)
  BY <1>1, <1>4, PollApplyStep
<1> QED BY <1>2, <1>3, <1>4 DEF CadencePoll

-----------------------------------------------------------------------------
(* The wire, and what ponder has made of its events.                       *)
Forwarded == [block : Block, logs : SUBSET Child]

LEMMA WireKept ==
  ASSUME WireTypeOK, UNCHANGED wireVars, UNCHANGED ponderVars
  PROVE  WireTypeOK'
PROOF BY DEF WireTypeOK, wireVars, ponderVars

LEMMA FeedCuts ==
  ASSUME WireTypeOK, NEW n \in Nat
  PROVE  KeptTo(n) \in Seq(Forwarded) /\ KeptAbove(n) \in Seq(Forwarded)
PROOF
<1>1. feed \in Seq(Forwarded) BY DEF WireTypeOK, Forwarded
<1>2. FeedChain \in Seq(Block) /\ Len(FeedChain) = Len(feed)
  <2>1. \A i \in 1..Len(feed) : feed[i] \in Forwarded BY <1>1
  <2>2. \A x \in Forwarded : x.block \in Block BY DEF Forwarded
  <2>3. \A i \in 1..Len(feed) : feed[i].block \in Block BY <2>1, <2>2
  <2> QED BY <1>1, <2>3 DEF FeedChain
<1> DEFINE cut == LastAtOrBelow(FeedChain, n)
<1>3. cut \in 0..Len(feed) BY <1>2, CutPosition
<1>4. KeptTo(n) = SubSeq(feed, 1, cut) /\ KeptAbove(n) = SubSeq(feed, cut + 1, Len(feed))
  BY DEF KeptTo, KeptAbove
<1> HIDE DEF cut
<1>5. /\ SubSeq(feed, 1, cut) \in Seq(Forwarded)
      /\ SubSeq(feed, cut + 1, Len(feed)) \in Seq(Forwarded)
  BY <1>1, <1>3
<1> QED BY <1>4, <1>5

LEMMA LiveIsChild ==
  ASSUME NEW map
  PROVE  Live(map) \subseteq Child
PROOF BY DEF Live

LEMMA BackfilledIsTyped ==
  ASSUME NEW b \in Block
  PROVE  Backfilled(b) \in [Child -> Nat \cup {None}]
PROOF
<1> SUFFICES ASSUME NEW c \in Child
             PROVE  Backfilled(b)[c] \in Nat \cup {None}
  BY DEF Backfilled
<1> DEFINE births == {a \in Ancestry[b] : c \in Creates[a]}
           first == CHOOSE a \in births : \A x \in births : Height[a] <= Height[x]
<1>1. births \subseteq Block BY AncestryAssumption
<1>2. Backfilled(b)[c] = IF births = {} THEN None ELSE Height[first]
  BY DEF Backfilled
<1>3. CASE births # {}
  <2> DEFINE heights == {Height[a] : a \in births}
  <2>1. \A a \in births : Height[a] \in Nat BY <1>1, HeightAssumption
  <2>2. heights \subseteq Nat /\ heights # {} BY <1>3, <2>1
  <2>3. \E n \in heights : \A m \in heights : n <= m
    <3> HIDE DEF heights
    <3> QED BY <2>2, LeastElement
  <2>4. \E a \in births : \A x \in births : Height[a] <= Height[x] BY <2>3
  <2>5. first \in births BY <2>4
  <2> QED BY <1>2, <1>3, <2>1, <2>5
<1> QED BY <1>2, <1>3

LEMMA EmitFinalizeStep ==
  ASSUME WireTypeOK, NEW b \in Block, EmitFinalize(b)
  PROVE  lastFinalized' \in Nat /\ feed' \in Seq(Forwarded) /\ durable' \in Block
PROOF
<1>1. Height[b] \in Nat BY HeightAssumption
<1>2. CASE Height[b] <= lastFinalized
  BY <1>2 DEF EmitFinalize, WireTypeOK, Forwarded
<1>3. CASE ~(Height[b] <= lastFinalized)
  BY <1>1, <1>3, FeedCuts DEF EmitFinalize, WireTypeOK
<1> QED BY <1>2, <1>3

LEMMA OnFinalizeStep ==
  ASSUME WireTypeOK, draining = None, NEW b \in Block, OnFinalize(b)
  PROVE  WireTypeOK' /\ status' = status
PROOF
<1>1. UNCHANGED <<awaiting, draining, created, requested, wildcard, stale, aborted, status>>
  BY DEF OnFinalize
<1>2. /\ held' \in Block \cup {None}
      /\ lastFinalized' \in Nat /\ feed' \in Seq(Forwarded) /\ durable' \in Block
  <2>1. CASE MustHold(b)
    BY <2>1 DEF OnFinalize, WireTypeOK, Forwarded
  <2>2. CASE ~MustHold(b)
    <3>1. EmitFinalize(b) /\ held' = held BY <2>2 DEF OnFinalize
    <3> QED BY <3>1, EmitFinalizeStep DEF WireTypeOK
  <2> QED BY <2>1, <2>2
<1> QED BY <1>1, <1>2 DEF WireTypeOK, Forwarded

LEMMA OnReorgStep ==
  ASSUME WireTypeOK, draining = None, NEW b \in Block, NEW reorged, OnReorg(b, reorged)
  PROVE  WireTypeOK' /\ status' = status
PROOF
<1> DEFINE gone == BornAbove(Height[b])
<1>1. /\ awaiting' \in {None, awaiting}
      /\ held' \in {None, held}
      /\ created' = [c \in Child |-> IF c \in gone THEN None ELSE created[c]]
      /\ \/ requested' = Live(created') /\ stale' = TRUE
         \/ UNCHANGED <<requested, stale>>
      /\ feed' = KeptTo(Height[b])
      /\ UNCHANGED <<draining, lastFinalized, wildcard, aborted, durable, status>>
  BY DEF OnReorg
<1>2. created' \in [Child -> Nat \cup {None}]
  <2> HIDE DEF gone
  <2> QED BY <1>1 DEF WireTypeOK
<1>3. feed' \in Seq(Forwarded) BY <1>1, HeightAssumption, FeedCuts
<1>4. requested' \subseteq Child BY <1>1, LiveIsChild DEF WireTypeOK
<1> QED BY <1>1, <1>2, <1>3, <1>4 DEF WireTypeOK, Forwarded

LEMMA OnBlockStep ==
  ASSUME WireTypeOK, draining = None, NEW b \in Block, NEW logs \in SUBSET Child,
         OnBlock(b, logs), status \in Statuses
  PROVE  WireTypeOK' /\ status' \in Statuses
PROOF
<1>1. CASE Fatal("skipped") /\ UNCHANGED wireVars /\ UNCHANGED ponderVars
  BY <1>1, WireKept DEF Fatal, Fatals, Statuses
<1>2. CASE ~(Fatal("skipped") /\ UNCHANGED wireVars /\ UNCHANGED ponderVars)
  <2> DEFINE new == Creates[b] \ Live(created)
  <2>1. /\ created' = [c \in Child |-> IF c \in new THEN Height[b] ELSE created[c]]
        /\ Suppress(b) \/ Forward(b, logs)
        /\ UNCHANGED <<held, lastFinalized, wildcard, aborted, durable>>
    BY <1>2 DEF OnBlock
  <2>2. created' \in [Child -> Nat \cup {None}]
    <3>1. Height[b] \in Nat BY HeightAssumption
    <3> HIDE DEF new
    <3> QED BY <2>1, <3>1 DEF WireTypeOK
  <2>3. CASE Suppress(b)
    <3>1. /\ awaiting' = b /\ requested' = Live(created') /\ stale' = TRUE
          /\ UNCHANGED <<feed, draining, status>>
      BY <2>3 DEF Suppress
    <3>2. requested' \subseteq Child BY <3>1, LiveIsChild
    <3> QED BY <2>1, <2>2, <3>1, <3>2 DEF WireTypeOK
  <2>4. CASE Forward(b, logs)
    <3> DEFINE live == LiveAt(created', Height[b])
               sent == IF wildcard THEN logs \cap live ELSE logs
    <3>1. /\ feed' = Append(feed, [block |-> b, logs |-> sent \cap live])
          /\ awaiting' = None
          /\ draining' = IF held # None THEN b ELSE None
          /\ status' \in {"done", status}
          /\ UNCHANGED <<requested, stale>>
      BY <2>4 DEF Forward, Drained
    <3>2. sent \cap live \in SUBSET Child OBVIOUS
    <3> HIDE DEF live, sent
    <3>3. feed' \in Seq(Forwarded) BY <3>1, <3>2 DEF WireTypeOK, Forwarded
    <3>4. draining' \in Block \cup {None} /\ (draining' # None => held # None) BY <3>1
    <3>5. status' \in Statuses BY <3>1 DEF Statuses
    <3> QED BY <2>1, <2>2, <3>1, <3>3, <3>4, <3>5 DEF WireTypeOK, Forwarded
  <2> QED BY <2>1, <2>3, <2>4
<1> QED BY <1>1, <1>2

LEMMA DrainHeldStep ==
  ASSUME WireTypeOK, DrainHeld, status \in Statuses
  PROVE  WireTypeOK' /\ status' \in Statuses /\ draining' = None
PROOF
<1>1. /\ draining # None /\ EmitFinalize(held)
      /\ held' = None /\ draining' = None
      /\ status' \in {"done", status}
      /\ UNCHANGED <<awaiting, created, requested, wildcard, stale, aborted>>
  BY DEF DrainHeld
<1>2. held \in Block BY <1>1 DEF WireTypeOK
<1>3. lastFinalized' \in Nat /\ feed' \in Seq(Forwarded) /\ durable' \in Block
  BY <1>1, <1>2, EmitFinalizeStep
<1> QED BY <1>1, <1>3 DEF WireTypeOK, Forwarded, Statuses

LEMMA RequestOpenedStep ==
  ASSUME WireTypeOK, RequestOpened
  PROVE  WireTypeOK' /\ draining' = draining
PROOF
<1>1. wildcard' \in BOOLEAN BY DEF RequestOpened, NowWildcard, OverBudget, WireTypeOK
<1>2. /\ stale' = FALSE
      /\ UNCHANGED <<awaiting, held, draining, lastFinalized, created, requested, aborted>>
      /\ UNCHANGED ponderVars
  BY DEF RequestOpened
<1> QED BY <1>1, <1>2 DEF WireTypeOK, ponderVars

LEMMA WatchdogStep ==
  ASSUME WireTypeOK, WatchdogFires
  PROVE  WireTypeOK' /\ UNCHANGED <<draining, status>>
PROOF
<1>1. /\ aborted' = TRUE
      /\ UNCHANGED <<awaiting, held, draining, lastFinalized, created, requested,
                     wildcard, stale, status>>
      /\ UNCHANGED ponderVars
  BY DEF WatchdogFires
<1> QED BY <1>1 DEF WireTypeOK, ponderVars

-----------------------------------------------------------------------------
(* The whole.                                                              *)
LEMMA EmptyChain ==
  /\ <<>> \in Seq(Block) /\ <<>> \in Seq(Forwarded)
  /\ \A a \in Block : Linked(<<>>, a)
PROOF BY DEF Linked

LEMMA InitOK == Init => IInv
PROOF
<1> SUFFICES ASSUME Init PROVE IInv OBVIOUS
<1> USE RootAssumption
<1>1. Height[Root] \in Nat BY HeightAssumption
<1>2. ServerTypeOK
  BY AncestryAssumption, ServerAssumption DEF Init, ServerInit, ServerTypeOK
<1>3. HotOK
  BY <1>1, HotStreamAssumption
     DEF Init, HotInit, HotOK, HotTypeOK, CursorFollows, Item
<1>4. EventsOK
  <2>1. /\ window = <<>> /\ anchor = Root /\ deferring = FALSE /\ baseline = None
        /\ probed = FALSE /\ stage = "pull" /\ pending = None /\ event = None
    BY DEF Init, EventsInit
  <2> QED BY <2>1, EmptyChain DEF EventsOK, EventsTypeOK, WindowLinked, AppendFits
<1>5. WireTypeOK
  <2>1. created \in [Child -> Nat \cup {None}] /\ requested \subseteq Child
    BY BackfilledIsTyped, LiveIsChild DEF Init, WireInit
  <2>2. /\ awaiting = None /\ held = None /\ draining = None
        /\ lastFinalized = Height[Root] /\ durable = Root /\ feed = <<>>
        /\ wildcard = FALSE /\ stale = FALSE /\ aborted = FALSE
    BY DEF Init, WireInit
  <2> QED BY <1>1, <2>1, <2>2, EmptyChain DEF WireTypeOK, Forwarded
<1>6. TakeTurns BY DEF Init, HotInit, WireInit, TakeTurns
<1> QED BY <1>2, <1>3, <1>4, <1>5, <1>6, BootAssumption DEF Init, IInv, Statuses

(* The follower moves only while the two generators above it wait for it.   *)
LEMMA FollowerStep ==
  ASSUME IInv, Follower
  PROVE  IInv'
PROOF
<1> USE DEF IInv
<1>1. /\ stage = "pull" /\ event = None /\ draining = None
      /\ ServerTypeOK' /\ boots' = boots
      /\ EventsOK' /\ stage' = stage /\ event' = event
  <2>1. Idle /\ RestUnchanged /\ UNCHANGED eventsVars
    BY DEF Follower, Evicted, Rejected, Conflict, NoData, Open, Deliver, Heartbeat,
           Cut, Resume, Unserved, EventsAndWireUnchanged, clientVars
  <2> QED BY <2>1, ServerKept, EventsKept DEF Idle, RestUnchanged, eventsVars
<1>2. HotOK' /\ status' \in Statuses
  <2>1. CASE Evicted
    BY <2>1, HotKept DEF Evicted, HotEvicted, Fatal, Fatals, Statuses
  <2>2. CASE Rejected BY <2>2, HotRejectedStep DEF Rejected
  <2>3. CASE Conflict BY <2>3, HotConflictStep DEF Conflict
  <2>4. CASE NoData BY <2>4, HotNoDataStep DEF NoData
  <2>5. CASE Open
    <3>1. StreamFilter \in SUBSET Child BY DEF StreamFilter, WireTypeOK
    <3> QED BY <2>5, <3>1, HotOpenStep DEF Open
  <2>6. CASE Deliver BY <2>6, HotDeliverStep DEF Deliver
  <2>7. CASE Heartbeat \/ Cut BY <2>7, HotQuietStep DEF Heartbeat, Cut
  <2>8. CASE Resume
    <3>1. stale \in BOOLEAN BY DEF WireTypeOK
    <3> QED BY <2>8, <3>1, HotResumeStep DEF Resume
  <2>9. CASE Unserved
    BY <2>9, HotKept DEF Unserved, clientVars, Fatal, Fatals, Statuses
  <2> QED BY <2>1, <2>2, <2>3, <2>4, <2>5, <2>6, <2>7, <2>8, <2>9 DEF Follower
<1>3. WireTypeOK' /\ draining' = draining
  <2>1. CASE Open BY <2>1, RequestOpenedStep DEF Open
  <2>2. CASE UNCHANGED wireVars /\ UNCHANGED ponderVars
    BY <2>2, WireKept DEF wireVars
  <2> QED BY <2>1, <2>2 DEF Follower, Evicted, Rejected, Conflict, NoData, Deliver,
             Heartbeat, Cut, Resume, Unserved, EventsAndWireUnchanged, clientVars
<1>4. TakeTurns' BY <1>1, <1>3 DEF TakeTurns
<1> QED BY <1>1, <1>2, <1>3, <1>4

(* The producer leaves the follower and the wire alone, but takes the item.  *)
LEMMA ProducerStep ==
  ASSUME IInv, Producer
  PROVE  IInv'
PROOF
<1> USE DEF IInv
<1>1. UNCHANGED wireVars /\ UNCHANGED ponderVars /\ RestUnchanged
  BY DEF Producer, OnItem, AppendBlock, Skip, PollAny, Poll
<1>2. WireTypeOK' /\ ServerTypeOK' /\ boots' = boots /\ draining' = draining
  BY <1>1, WireKept, ServerKept DEF RestUnchanged, wireVars
<1>3. CASE OnItem
  <2>1. /\ item \in Item /\ item # None /\ item' = None
        /\ UNCHANGED <<cursor, ring, strikes, dropped, conn>>
        /\ stage = "pull" /\ draining = None
    BY <1>3 DEF OnItem, ItemTaken, HotOK, HotTypeOK, TakeTurns
  <2>2. HotOK' BY <2>1 DEF HotOK, HotTypeOK, CursorFollows, Item
  <2>3. EventsOK' /\ status' \in Statuses
    <3>1. CASE item = Tick
      BY <1>3, <2>1, <3>1, TakeTickStep DEF OnItem, Tick
    <3>2. CASE item # Tick
      <4>1. item \in BlockBatch /\ item.kind # "tick"
        BY <2>1, <3>2 DEF Item, Batches, Batch, BlockBatch
      <4>2. TakeBlock(item, awaiting = item.block) BY <1>3, <4>1 DEF OnItem
      <4> QED BY <2>1, <4>1, <4>2, TakeBlockStep
    <3> QED BY <3>1, <3>2
  <2>4. TakeTurns' BY <1>2, <2>1 DEF TakeTurns
  <2> QED BY <1>2, <2>2, <2>3, <2>4
<1>4. CASE AppendBlock \/ Skip \/ PollAny
  <2>1. stage # "pull" /\ draining = None /\ UNCHANGED hotVars
    BY <1>4 DEF AppendBlock, AppendAfterReorg, Skip, CadenceSkip, PollAny, Poll,
                CadencePoll
  <2>2. HotOK' BY <2>1, HotKept
  <2>3. EventsOK' /\ status' \in Statuses
    <3>1. CASE AppendBlock BY <3>1, AppendAfterReorgStep DEF AppendBlock
    <3>2. CASE Skip BY <3>2, CadenceSkipStep DEF Skip
    <3>3. CASE PollAny
      <4>1. PICK fh \in FinalizedHeads : CadencePoll(fh) BY <3>3 DEF PollAny, Poll
      <4>2. final \in Block BY AncestryAssumption DEF ServerTypeOK
      <4>3. fh = None \/ fh.number \in Nat
        BY <4>1, <4>2, AncestryAssumption, HeightAssumption DEF FinalizedHeads
      <4> QED BY <4>1, <4>3, CadencePollStep
    <3> QED BY <1>4, <3>1, <3>2, <3>3
  <2>4. TakeTurns' BY <1>2, <2>1 DEF TakeTurns, hotVars
  <2> QED BY <1>2, <2>2, <2>3, <2>4
<1> QED BY <1>3, <1>4 DEF Producer

(* The wire takes an event while the producer waits behind it.             *)
LEMMA WireStep ==
  ASSUME IInv, Wire
  PROVE  IInv'
PROOF
<1> USE DEF IInv
<1>1. UNCHANGED hotVars /\ RestUnchanged
  BY DEF Wire, OnEvent, Drain, Watchdog
<1>2. HotOK' /\ ServerTypeOK' /\ boots' = boots /\ item' = item
  BY <1>1, HotKept, ServerKept DEF RestUnchanged, hotVars
<1>3. CASE OnEvent
  <2>1. event # None /\ event' = None
        /\ UNCHANGED <<window, anchor, deferring, baseline, probed, stage, pending>>
    BY <1>3 DEF OnEvent, EventTaken
  <2>2. EventsOK' BY <2>1 DEF EventsOK, EventsTypeOK, WindowLinked, AppendFits
  <2>3. item = None /\ draining = None BY <2>1 DEF TakeTurns
  <2>4. event \in BlockEvents \cup ReorgEvents \cup FinalizeEvents
    BY <2>1 DEF EventsOK, EventsTypeOK
  <2>5. WireTypeOK' /\ status' \in Statuses
    <3>1. CASE event \in BlockEvents
      <4>1. event.block \in Block /\ event.logs \in SUBSET Child
            /\ OnBlock(event.block, event.logs)
        BY <1>3, <3>1 DEF OnEvent, BlockEvents
      <4> QED BY <2>3, <4>1, OnBlockStep
    <3>2. CASE event \in ReorgEvents
      <4>1. event.block \in Block /\ OnReorg(event.block, event.reorged)
        BY <1>3, <3>2 DEF OnEvent, ReorgEvents
      <4> QED BY <2>3, <4>1, OnReorgStep
    <3>3. CASE event \in FinalizeEvents
      <4>1. event.block \in Block /\ OnFinalize(event.block)
        BY <1>3, <3>3 DEF OnEvent, FinalizeEvents
      <4> QED BY <2>3, <4>1, OnFinalizeStep
    <3> QED BY <2>4, <3>1, <3>2, <3>3
  <2>6. TakeTurns' BY <1>2, <2>1, <2>3 DEF TakeTurns
  <2> QED BY <1>2, <2>2, <2>5, <2>6
<1>4. CASE Drain
  <2>1. UNCHANGED eventsVars /\ DrainHeld BY <1>4 DEF Drain
  <2>2. EventsOK' BY <2>1, EventsKept
  <2>3. WireTypeOK' /\ status' \in Statuses /\ draining' = None
    BY <2>1, DrainHeldStep
  <2>4. TakeTurns' BY <1>2, <2>1, <2>3 DEF TakeTurns, DrainHeld, eventsVars
  <2> QED BY <1>2, <2>2, <2>3, <2>4
<1>5. CASE Watchdog
  <2>1. UNCHANGED eventsVars /\ WatchdogFires BY <1>5 DEF Watchdog
  <2>2. EventsOK' BY <2>1, EventsKept
  <2>3. WireTypeOK' /\ status' \in Statuses /\ draining' = draining
    BY <2>1, WatchdogStep
  <2>4. TakeTurns' BY <1>2, <2>1, <2>3 DEF TakeTurns, eventsVars
  <2> QED BY <1>2, <2>2, <2>3, <2>4
<1> QED BY <1>3, <1>4, <1>5 DEF Wire

LEMMA RestartStep ==
  ASSUME IInv, Restart
  PROVE  IInv'
PROOF
<1>1. PICK start \in Block :
        /\ cursor' = Height[start] + 1
        /\ ring' = [h \in {Height[start]} |-> start]
        /\ anchor' = start
        /\ lastFinalized' = Height[start]
        /\ created' = Backfilled(start)
        /\ requested' = Live(created')
        /\ durable' = start
  BY DEF Restart
<1>2. /\ strikes' = 0 /\ dropped' = {} /\ conn' = None /\ item' = None
      /\ window' = <<>> /\ deferring' = FALSE /\ baseline' = None /\ probed' = FALSE
      /\ stage' = "pull" /\ pending' = None /\ event' = None
      /\ awaiting' = None /\ held' = None /\ draining' = None
      /\ wildcard' = FALSE /\ stale' = FALSE /\ aborted' = FALSE
      /\ feed' = <<>>
      /\ status' = "running"
      /\ boots' = boots + 1 /\ boots < MaxBoots
      /\ UNCHANGED serverVars
  BY DEF Restart
<1>3. Height[start] \in Nat BY HeightAssumption
<1>4. ServerTypeOK' BY <1>2, ServerKept DEF IInv
<1>5. HotOK'
  BY <1>1, <1>2, <1>3, HotStreamAssumption DEF HotOK, HotTypeOK, CursorFollows, Item
<1>6. EventsOK'
  BY <1>1, <1>2, EmptyChain DEF EventsOK, EventsTypeOK, WindowLinked, AppendFits
<1>7. WireTypeOK'
  <2>1. created' \in [Child -> Nat \cup {None}] BY <1>1, BackfilledIsTyped
  <2>2. requested' \subseteq Child BY <1>1, LiveIsChild
  <2> QED BY <1>1, <1>2, <1>3, <2>1, <2>2, EmptyChain DEF WireTypeOK, Forwarded
<1>8. TakeTurns' BY <1>2 DEF TakeTurns
<1>9. boots' \in 0..MaxBoots BY <1>2, BootAssumption DEF IInv
<1> QED BY <1>2, <1>4, <1>5, <1>6, <1>7, <1>8, <1>9 DEF IInv, Statuses

LEMMA NextOK == IInv /\ [Next]_vars => IInv'
PROOF
<1> SUFFICES ASSUME IInv, [Next]_vars PROVE IInv' OBVIOUS
<1>1. CASE Server
  <2>1. /\ ServerNext
        /\ UNCHANGED <<hotVars, eventsVars, wireVars, ponderVars, status, boots>>
    BY <1>1 DEF Server, clientVars
  <2> QED BY <2>1, ServerStep, HotKept, EventsKept, WireKept
          DEF IInv, TakeTurns, hotVars, eventsVars, wireVars
<1>2. CASE Follower BY <1>2, FollowerStep
<1>3. CASE Producer BY <1>3, ProducerStep
<1>4. CASE Wire BY <1>4, WireStep
<1>5. CASE Crash
  <2>1. /\ status' = "crashed"
        /\ UNCHANGED <<serverVars, hotVars, eventsVars, wireVars, ponderVars, boots>>
    BY <1>5 DEF Crash, Fatal, clientVars, RestUnchanged
  <2> QED BY <2>1, ServerKept, HotKept, EventsKept, WireKept
          DEF IInv, TakeTurns, hotVars, eventsVars, wireVars, Fatals, Statuses
<1>6. CASE Restart BY <1>6, RestartStep
<1>7. CASE UNCHANGED vars
  <2>1. UNCHANGED <<serverVars, hotVars, eventsVars, wireVars, ponderVars, status, boots>>
    BY <1>7 DEF vars, clientVars
  <2> QED BY <2>1, ServerKept, HotKept, EventsKept, WireKept
          DEF IInv, TakeTurns, hotVars, eventsVars, wireVars
<1> QED BY <1>1, <1>2, <1>3, <1>4, <1>5, <1>6, <1>7 DEF Next, Stopped

LEMMA Inductive == Spec => []IInv
PROOF BY InitOK, NextOK, PTL DEF Spec

(* In every reachable state every variable of the realtime path has its     *)
(* type; in particular every CHOOSE of the model chose a block.             *)
THEOREM TypeCorrect == Spec => []TypeOK
PROOF
<1>1. IInv => TypeOK BY DEF IInv, TypeOK, HotOK, EventsOK, Statuses
<1> QED BY <1>1, Inductive, PTL

(* The unfinalized window is always a hash-linked chain on the last          *)
(* finalized block (INV-10), through every append, reorg, finalize, restart. *)
THEOREM WindowStaysLinked == Spec => []WindowLinked
PROOF
<1>1. IInv => WindowLinked BY DEF IInv, EventsOK
<1> QED BY <1>1, Inductive, PTL
=============================================================================
