---------------------------- MODULE CutoverProofs ----------------------------
(***************************************************************************)
(* For any chains, paces, events and apps, however far replicas lag and        *)
(* however often the process dies: the guarded cutover is ponder's own loop,    *)
(* the boundary stays where the Portal serves, and no event is indexed twice    *)
(* but one at the very time of another chain's checkpoint.                   *)
(***************************************************************************)
EXTENDS CutoverProperties, NatSets, FiniteSetTheorems

-----------------------------------------------------------------------------
(* Bounds of sets of blocks, and the order of checkpoints.                    *)

LEMMA BlockIsNat == Block \subseteq Nat /\ 0 \in Block /\ 1 \in Block /\ LastBlock \in Block
  BY CutoverAssumption DEF Block

LEMMA MinOK ==
  ASSUME NEW S, S \subseteq Nat, S # {}
  PROVE  Min(S) \in S /\ \A n \in S : Min(S) <= n
<1>1. \E n \in S : \A m \in S : n <= m BY LeastElement
<1>2. QED BY <1>1 DEF Min

LEMMA MaxOK ==
  ASSUME NEW S, S \subseteq Block, S # {}
  PROVE  Max(S) \in S /\ \A n \in S : n <= Max(S)
<1> DEFINE Above == {LastBlock - n : n \in S}
<1>1. \A n \in S : n \in Nat /\ LastBlock - n \in Nat /\ n <= LastBlock
  BY CutoverAssumption DEF Block
<1>2. Above \subseteq Nat /\ Above # {} BY <1>1
<1>3. PICK a \in Above : \A b \in Above : a <= b BY <1>2, LeastElement
<1>4. PICK n \in S : a = LastBlock - n BY <1>3
<1>5. \A m \in S : n >= m
  <2>1. TAKE m \in S
  <2>2. a <= LastBlock - m BY <1>3
  <2>3. QED BY <1>1, <1>4, <2>2, CutoverAssumption
<1>6. QED BY <1>1, <1>5 DEF Max

LEMMA AtLeastOK ==
  ASSUME NEW a \in Nat, NEW b \in Nat
  PROVE  AtLeast(a, b) \in {a, b} /\ a <= AtLeast(a, b) /\ b <= AtLeast(a, b)
  BY DEF AtLeast

LEMMA AtMostOK ==
  ASSUME NEW a \in Nat, NEW b \in Nat
  PROVE  AtMost(a, b) \in {a, b} /\ AtMost(a, b) <= a /\ AtMost(a, b) <= b
  BY DEF AtMost

LEMMA ChainsOK ==
  /\ Cardinality(Chain) \in Nat
  /\ \A c \in Chain : c \in Nat /\ 1 <= c /\ c <= Cardinality(Chain)
<1>1. Cardinality(Chain) \in Nat BY CutoverAssumption, FS_CardinalityType
<1>2. QED BY <1>1, CutoverAssumption

(* Multiplication, once and for all.                                        *)
LEMMA Product == \A a, b \in Nat : a * b \in Nat
  OBVIOUS

LEMMA MonotoneProduct ==
  ASSUME NEW m \in Nat, NEW n \in Nat, NEW p \in Nat \ {0}, m < n
  PROVE  m * p + p <= n * p
<1>1. PICK k \in Nat : n = m + 1 + k
  <2>1. n - m - 1 \in Nat /\ n = m + 1 + (n - m - 1) OBVIOUS
  <2>2. QED BY <2>1
<1>2. n * p = m * p + p + k * p BY <1>1
<1>3. k * p \in Nat /\ m * p \in Nat BY Product
<1>4. QED BY <1>2, <1>3

LEMMA TimeIsNat ==
  ASSUME NEW c \in Chain, NEW n \in Nat
  PROVE  Stamp(c, n) \in Nat /\ Time(c, n) \in Nat
<1>1. Pace[c] \in Nat /\ Cardinality(Chain) \in Nat /\ c \in Nat BY ChainsOK, CutoverAssumption
<1>2. Stamp(c, n) \in Nat BY <1>1, Product DEF Stamp
<1>3. Stamp(c, n) * Cardinality(Chain) \in Nat BY <1>1, <1>2, Product
<1>4. QED BY <1>1, <1>2, <1>3 DEF Time

(* A checkpoint goes by its timestamp first, and by its chain where two tie.     *)
LEMMA TimeByStamp ==
  ASSUME NEW c \in Chain, NEW d \in Chain, NEW m \in Nat, NEW n \in Nat
  PROVE  /\ Stamp(c, m) < Stamp(d, n) => Time(c, m) < Time(d, n)
         /\ Stamp(c, m) = Stamp(d, n) => (Time(c, m) <= Time(d, n) <=> c <= d)
<1> DEFINE k == Cardinality(Chain)
           a == Stamp(c, m)
           b == Stamp(d, n)
<1>1. k \in Nat \ {0} /\ c \in Nat /\ d \in Nat /\ 1 <= c /\ c <= k /\ 1 <= d /\ d <= k
  <2>1. k \in Nat /\ c \in Nat /\ 1 <= c /\ c <= k BY ChainsOK
  <2>2. d \in Nat /\ 1 <= d /\ d <= k BY ChainsOK
  <2>3. QED BY <2>1, <2>2
<1>2. a \in Nat /\ b \in Nat BY TimeIsNat
<1>3. Time(c, m) = a * k + c /\ Time(d, n) = b * k + d BY DEF Time
<1> HIDE DEF a, b, k
<1>4. a * k \in Nat /\ b * k \in Nat BY <1>1, <1>2, Product
<1>5. ASSUME a < b PROVE Time(c, m) < Time(d, n)
  <2>1. a * k + k <= b * k BY <1>1, <1>2, <1>5, MonotoneProduct
  <2>2. QED BY <1>1, <1>3, <1>4, <2>1
<1>6. ASSUME a = b PROVE Time(c, m) <= Time(d, n) <=> c <= d
  <2>1. a * k = b * k BY <1>6
  <2>2. QED BY <1>1, <1>3, <1>4, <2>1
<1>7. QED BY <1>5, <1>6 DEF a, b

(* Later blocks of a chain have later checkpoints.                           *)
LEMMA TimeOrder ==
  ASSUME NEW c \in Chain, NEW m \in Nat, NEW n \in Nat, m < n
  PROVE  Time(c, m) < Time(c, n)
<1>1. Pace[c] \in Nat \ {0} BY CutoverAssumption
<1>2. m * Pace[c] \in Nat /\ n * Pace[c] \in Nat BY <1>1, Product
<1>3. m * Pace[c] + Pace[c] <= n * Pace[c] BY <1>1, MonotoneProduct
<1>4. Stamp(c, m) < Stamp(c, n) BY <1>1, <1>2, <1>3 DEF Stamp
<1>5. QED BY <1>4, TimeByStamp

LEMMA TimeReflects ==
  ASSUME NEW c \in Chain, NEW m \in Nat, NEW n \in Nat, Time(c, m) <= Time(c, n)
  PROVE  m <= n
<1>1. SUFFICES ASSUME n < m PROVE FALSE OBVIOUS
<1>2. Time(c, n) < Time(c, m) BY <1>1, TimeOrder
<1>3. QED BY <1>2, TimeIsNat

(* What is no later than another chain's checkpoint has an earlier timestamp,   *)
(* or ties with it.                                                        *)
LEMMA EarlierOrTied ==
  ASSUME NEW c \in Chain, NEW d \in Chain, c # d, NEW m \in Nat, NEW n \in Nat,
         Time(c, m) <= Time(d, n)
  PROVE  Stamp(c, m) < Stamp(d, n) \/ (d > c /\ Stamp(d, n) = Stamp(c, m))
<1>1. /\ Stamp(c, m) \in Nat /\ Stamp(d, n) \in Nat
      /\ Time(c, m) \in Nat /\ Time(d, n) \in Nat
  BY TimeIsNat
<1>2. ~(Stamp(d, n) < Stamp(c, m))
  <2>1. SUFFICES ASSUME Stamp(d, n) < Stamp(c, m) PROVE FALSE OBVIOUS
  <2>2. Time(d, n) < Time(c, m) BY <2>1, TimeByStamp
  <2>3. QED BY <1>1, <2>2
<1>3. Stamp(c, m) = Stamp(d, n) => c <= d BY TimeByStamp
<1>4. c \in Nat /\ d \in Nat BY ChainsOK
<1>5. QED BY <1>1, <1>2, <1>3, <1>4

-----------------------------------------------------------------------------
(* What a boundary may be.                                                  *)

HeadOf(c) == IF app.pin[c] = None THEN served[c] ELSE app.pin[c]

HeadsKnown ==
  /\ app \in Apps
  /\ rpcFinal \in [Chain -> Block] /\ served \in [Chain -> Block]

LEMMA HeadsOK ==
  ASSUME HeadsKnown, NEW c \in Chain
  PROVE  /\ HeadOf(c) \in Nat /\ HeadOf(c) \in Heads(c)
         /\ \A head \in Heads(c) : head \in Nat /\ head <= HeadOf(c)
<1>1. served[c] \in Block /\ served[c] \in Nat /\ ReplicaLag \in Nat
  BY CutoverAssumption, BlockIsNat DEF HeadsKnown
<1>2. served[c] - ReplicaLag <= served[c] BY <1>1
<1>3. app.pin[c] = None \/ app.pin[c] \in Nat BY CutoverAssumption DEF HeadsKnown
<1>4. CASE app.pin[c] = None
  <2>1. HeadOf(c) = served[c] BY <1>4 DEF HeadOf
  <2>2. Heads(c) = {n \in Block : served[c] - ReplicaLag <= n /\ n <= served[c]}
    BY <1>4 DEF Heads
  <2>3. HeadOf(c) \in Heads(c) BY <1>1, <1>2, <2>1, <2>2
  <2>4. \A head \in Heads(c) : head \in Nat /\ head <= HeadOf(c) BY <2>1, <2>2, BlockIsNat
  <2>5. QED BY <1>1, <2>1, <2>3, <2>4
<1>5. CASE app.pin[c] # None BY <1>3, <1>5 DEF HeadOf, Heads
<1>6. QED BY <1>4, <1>5

LEMMA ClampedOK ==
  ASSUME NEW f \in Nat, NEW h \in Nat, NEW l \in Nat
  PROVE  /\ Clamped(f, h, l) \in Nat
         /\ Clamped(f, h, l) <= f /\ Clamped(f, h, l) <= AtLeast(h, l)
         /\ l <= f => l <= Clamped(f, h, l)
         /\ \A n \in Nat : n <= l /\ n <= f => n <= Clamped(f, h, l)
  BY DEF Clamped, AtLeast, AtMost

LEMMA BoundariesOK ==
  ASSUME HeadsKnown, NEW c \in Chain, NEW floor \in Nat
  PROVE  /\ Boundaries(c, floor) \subseteq Nat /\ Boundaries(c, floor) # {}
         /\ \A b \in Boundaries(c, floor) :
              /\ b <= rpcFinal[c]
              /\ c \in app.stream => b <= AtLeast(HeadOf(c), floor)
              /\ \A n \in Nat : (c \in app.stream => n <= floor) /\ n <= rpcFinal[c] => n <= b
<1>1. rpcFinal[c] \in Nat BY BlockIsNat DEF HeadsKnown
<1>2. CASE c \notin app.stream BY <1>1, <1>2 DEF Boundaries
<1>3. CASE c \in app.stream
  <2>1. Boundaries(c, floor) = {Clamped(rpcFinal[c], head, floor) : head \in Heads(c)}
    BY <1>3 DEF Boundaries
  <2>2. Heads(c) # {} BY HeadsOK
  <2>3. ASSUME NEW head \in Heads(c)
        PROVE  LET b == Clamped(rpcFinal[c], head, floor)
               IN  /\ b \in Nat /\ b <= rpcFinal[c] /\ b <= AtLeast(HeadOf(c), floor)
                   /\ \A n \in Nat : n <= floor /\ n <= rpcFinal[c] => n <= b
    <3>1. head \in Nat /\ head <= HeadOf(c) /\ HeadOf(c) \in Nat BY HeadsOK
    <3>2. AtLeast(head, floor) <= AtLeast(HeadOf(c), floor) BY <3>1 DEF AtLeast
    <3>3. AtLeast(head, floor) \in Nat /\ AtLeast(HeadOf(c), floor) \in Nat
      BY <3>1 DEF AtLeast
    <3>4. /\ Clamped(rpcFinal[c], head, floor) \in Nat
          /\ Clamped(rpcFinal[c], head, floor) <= rpcFinal[c]
          /\ Clamped(rpcFinal[c], head, floor) <= AtLeast(head, floor)
          /\ \A n \in Nat : n <= floor /\ n <= rpcFinal[c]
                             => n <= Clamped(rpcFinal[c], head, floor)
      BY <1>1, <3>1, ClampedOK
    <3>5. Clamped(rpcFinal[c], head, floor) <= AtLeast(HeadOf(c), floor)
      BY <3>2, <3>3, <3>4
    <3>6. QED BY <3>4, <3>5
  <2>4. QED BY <1>3, <2>1, <2>2, <2>3
<1>4. QED BY <1>2, <1>3

(* As the heads advance, the least answer a probe may give only grows.         *)
LEMMA BoundariesGrow ==
  ASSUME HeadsKnown, HeadsKnown', app' = app, NEW c \in Chain, NEW floor \in Nat,
         rpcFinal[c] <= rpcFinal'[c], served[c] <= served'[c],
         NEW b \in Boundaries(c, floor)'
  PROVE  b \in Nat /\ \E a \in Boundaries(c, floor) : a <= b
<1>1. /\ rpcFinal[c] \in Nat /\ rpcFinal'[c] \in Nat
      /\ served[c] \in Block /\ served'[c] \in Block /\ ReplicaLag \in Nat
  BY BlockIsNat, CutoverAssumption DEF HeadsKnown
<1>2. CASE c \notin app.stream BY <1>1, <1>2 DEF Boundaries
<1>3. CASE c \in app.stream
  <2>1. PICK later \in Heads(c)' : b = Clamped(rpcFinal'[c], later, floor)
    BY <1>3 DEF Boundaries
  <2>2. PICK head \in Heads(c) : head \in Nat /\ later \in Nat /\ head <= later
    <3>1. CASE app.pin[c] # None
      <4>1. Heads(c)' = Heads(c) BY <3>1 DEF Heads
      <4>2. later \in Nat BY <4>1, HeadsOK
      <4>3. QED BY <4>1, <4>2
    <3>2. CASE app.pin[c] = None
      <4>1. later \in Block /\ served'[c] - ReplicaLag <= later BY <3>2 DEF Heads
      <4>2. AtMost(later, served[c]) \in Heads(c) /\ AtMost(later, served[c]) <= later
        BY <1>1, <3>2, <4>1, BlockIsNat DEF Heads, AtMost
      <4>3. QED BY <4>1, <4>2, BlockIsNat, HeadsOK
    <3>3. QED BY <3>1, <3>2
  <2>3. Clamped(rpcFinal[c], head, floor) <= Clamped(rpcFinal'[c], later, floor)
    BY <1>1, <2>2 DEF Clamped, AtLeast, AtMost
  <2>4. b \in Nat BY <1>1, <2>1, <2>2 DEF Clamped, AtLeast, AtMost
  <2>5. QED BY <1>3, <2>1, <2>3, <2>4 DEF Boundaries
<1>4. QED BY <1>2, <1>3

-----------------------------------------------------------------------------
(* The inductive invariant.                                                *)

Fetching == stage \in {"draining", "drained", "probing", "reprobing"}
Awaiting == stage \in {"probing", "reprobing"}
Running == stage \notin {"booting", "dead"}

(* The backfill never targets past the RPC's finalized block.                 *)
Grounded == Fetching => \A c \in Chain : final[c] <= rpcFinal[c]

(* least is a lower bound of what a probe may answer.                         *)
LeastHolds ==
  stage = "drained" \/ Awaiting =>
    \A c \in Chain : \A b \in Boundaries(c, final[c]) : least[c] <= b

(* What has been found for this round: no regress, nothing the Portal does not  *)
(* serve, and an answer of this round where there had to be a probe.           *)
Answers ==
  Awaiting =>
    \A c \in Chain : found[c] # None =>
      /\ final[c] <= found[c] /\ found[c] <= rpcFinal[c]
      /\ c \in app.stream => found[c] <= AtLeast(HeadOf(c), Resumed(c))
      /\ stage = "reprobing" \/ c \in probed => least[c] <= found[c]

Phases ==
  /\ stage = "probing" =>
       /\ \A c \in Chain : c \notin probed => found[c] = final[c]
       /\ Omnichain /\ parked # {} => probed = Chain
  /\ stage = "reprobing" =>
       \E c \in Chain : found[c] # None /\ found[c] - final[c] > Depth[c]

(* After a crash only what a checkpoint covers is left.                       *)
Reverted ==
  stage = "booting" =>
    /\ final = [c \in Chain |-> 0] /\ parked = {}
    /\ \A e \in Events :
         indexed[e] > 0 => rows[e[1]] # None /\ Moment(e) <= Moment(rows[e[1]])

(* What is indexed lies behind the cursor and, unless it was tied with another   *)
(* chain's checkpoint, behind the boundary; so does what is parked.  Neither is  *)
(* fetched, nor streamed, again.                                            *)
Counted ==
  \A e \in Events : indexed[e] > 0 =>
    /\ e \in synced
    /\ Running => e[2] <= cursor[e[1]]
    /\ e \notin tied => indexed[e] = 1 /\ (Running => e[2] <= final[e[1]])

Held == Running => \A e \in parked : e[2] <= cursor[e[1]] /\ e[2] <= final[e[1]]

IInv ==
  /\ TypeOK /\ Grounded /\ LeastHolds /\ Answers /\ Phases
  /\ Reverted /\ BoundaryServed /\ Counted /\ Held

-----------------------------------------------------------------------------
(* Checkpoints and what is resumed from them.                                *)

LEMMA TypeFacts ==
  ASSUME TypeOK
  PROVE  /\ HeadsKnown
         /\ \A c \in Chain : /\ rpcFinal[c] \in Nat /\ served[c] \in Nat /\ final[c] \in Nat
                             /\ cursor[c] \in Nat /\ least[c] \in Nat
                             /\ found[c] \in Nat \cup {None} /\ Depth[c] \in Nat
                             /\ app.end[c] \in Nat
         /\ \A e \in Events : /\ e[1] \in Chain /\ e[2] \in Nat /\ e[2] \in Block
                              /\ indexed[e] \in Nat /\ e = <<e[1], e[2]>>
<1>1. HeadsKnown BY DEF TypeOK, HeadsKnown
<1>2. app \in Apps /\ app.end \in [Chain -> Nat] BY CutoverAssumption DEF TypeOK
<1>3. ASSUME NEW c \in Chain
      PROVE  /\ rpcFinal[c] \in Nat /\ served[c] \in Nat /\ final[c] \in Nat
             /\ cursor[c] \in Nat /\ least[c] \in Nat
             /\ found[c] \in Nat \cup {None} /\ Depth[c] \in Nat
             /\ app.end[c] \in Nat
  <2>1. /\ rpcFinal[c] \in Block /\ served[c] \in Block /\ final[c] \in Block
        /\ cursor[c] \in Block /\ least[c] \in Block /\ found[c] \in Block \cup {None}
    BY DEF TypeOK
  <2>2. QED BY <1>2, <2>1, BlockIsNat, CutoverAssumption
<1>4. \A e \in Events : e[1] \in Chain /\ e[2] \in 1..LastBlock /\ e = <<e[1], e[2]>>
  BY CutoverAssumption
<1>5. \A e \in Events : e[2] \in Nat /\ e[2] \in Block
  BY <1>4, CutoverAssumption DEF Block
<1>6. \A e \in Events : indexed[e] \in Nat BY DEF TypeOK
<1>7. QED BY <1>1, <1>3, <1>4, <1>5, <1>6

LEMMA RowOK ==
  ASSUME TypeOK, NEW c \in Chain, rows[c] # None
  PROVE  /\ rows[c][1] \in Chain /\ rows[c][2] \in Block /\ rows[c][2] \in Nat
         /\ Moment(rows[c]) = Time(rows[c][1], rows[c][2]) /\ Moment(rows[c]) \in Nat
<1>1. rows[c] \in Chain \X Block BY DEF TypeOK
<1>2. rows[c][1] \in Chain /\ rows[c][2] \in Block BY <1>1
<1>3. rows[c][2] \in Nat BY <1>2, BlockIsNat
<1>4. QED BY <1>2, <1>3, TimeIsNat DEF Moment

LEMMA ResumedOK ==
  ASSUME TypeOK, NEW c \in Chain
  PROVE  /\ Resumed(c) \in Block /\ Resumed(c) \in Nat
         /\ rows[c] # None =>
              \A n \in Block : Time(c, n) <= Moment(rows[c]) => n <= Resumed(c)
<1>1. CASE rows[c] = None BY <1>1, BlockIsNat DEF Resumed
<1>2. CASE rows[c] # None
  <2> DEFINE S == {0} \cup {n \in Block : Time(c, n) <= Moment(rows[c])}
  <2>1. S \subseteq Block /\ S # {} BY BlockIsNat
  <2>2. Max(S) \in S /\ \A n \in S : n <= Max(S) BY <2>1, MaxOK
  <2>3. Resumed(c) = Max(S) BY <1>2 DEF Resumed
  <2>4. QED BY <2>1, <2>2, <2>3, BlockIsNat
<1>3. QED BY <1>1, <1>2

(* The floor is at most what is resumed from, and covers what is indexed, but    *)
(* for an event at the very time of another chain's checkpoint.              *)
LEMMA FloorOK ==
  ASSUME TypeOK, NEW c \in Chain
  PROVE  /\ StartFloor(c) \in Nat /\ StartFloor(c) <= Resumed(c)
         /\ rows[c] # None =>
              \A n \in Block :
                <<c, n>> \in synced /\ Time(c, n) <= Moment(rows[c]) /\ ~TiesWithRow(<<c, n>>)
                  => n <= StartFloor(c)
<1>1. CASE rows[c] = None
  <2>1. StartFloor(c) = 0 BY <1>1 DEF StartFloor
  <2>2. QED BY <1>1, <2>1, ResumedOK
<1>2. CASE rows[c] # None /\ rows[c][1] = c
  <2>1. StartFloor(c) = rows[c][2] BY <1>2 DEF StartFloor
  <2>2. Moment(rows[c]) = Time(c, rows[c][2]) /\ rows[c][2] \in Block /\ rows[c][2] \in Nat
    BY <1>2, RowOK
  <2>3. Time(c, rows[c][2]) <= Moment(rows[c]) BY <2>2, RowOK, <1>2
  <2>4. rows[c][2] <= Resumed(c) BY <1>2, <2>2, <2>3, ResumedOK
  <2>5. \A n \in Block : Time(c, n) <= Moment(rows[c]) => n <= rows[c][2]
    BY <2>2, TimeReflects, BlockIsNat
  <2>6. QED BY <2>1, <2>2, <2>4, <2>5
<1>3. CASE rows[c] # None /\ rows[c][1] # c
  <2> DEFINE d == rows[c][1]
             m == rows[c][2]
             S == {0} \cup StoredBefore(c, Stamp(d, m))
  <2>1. StartFloor(c) = Max(S) BY <1>3 DEF StartFloor
  <2>2. S \subseteq Block /\ S # {} BY BlockIsNat DEF StoredBefore
  <2>3. Max(S) \in S /\ \A n \in S : n <= Max(S) BY <2>2, MaxOK
  <2>4. /\ Moment(rows[c]) \in Nat /\ Moment(rows[c]) = Time(d, m)
        /\ d \in Chain /\ d # c /\ m \in Nat
    BY <1>3, RowOK
  <2>5. Max(S) <= Resumed(c)
    <3>1. CASE Max(S) = 0 BY <3>1, ResumedOK
    <3>2. CASE Max(S) \in StoredBefore(c, Stamp(d, m))
      <4>1. Max(S) \in Block /\ Stamp(c, Max(S)) < Stamp(d, m)
        BY <3>2 DEF StoredBefore
      <4>2. Max(S) \in Nat /\ Time(c, Max(S)) \in Nat BY <4>1, TimeIsNat, BlockIsNat
      <4>3. Time(c, Max(S)) < Time(d, m) BY <2>4, <4>1, <4>2, TimeByStamp
      <4>4. Time(c, Max(S)) <= Moment(rows[c]) BY <2>4, <4>2, <4>3
      <4>5. QED BY <1>3, <4>1, <4>4, ResumedOK
    <3>3. QED BY <2>3, <3>1, <3>2
  <2>6. ASSUME NEW n \in Block, <<c, n>> \in synced, Time(c, n) <= Moment(rows[c]),
               ~TiesWithRow(<<c, n>>)
        PROVE  n \in S
    <3>1. n \in Nat BY BlockIsNat
    <3>2. Time(c, n) <= Time(d, m) BY <2>4, <2>6
    <3>3. ~(d > c /\ Stamp(d, m) = Stamp(c, n)) BY <1>3, <2>6 DEF TiesWithRow
    <3>4. Stamp(c, n) < Stamp(d, m) BY <2>4, <3>1, <3>2, <3>3, EarlierOrTied
    <3>5. QED BY <2>6, <3>4 DEF StoredBefore
  <2>7. Max(S) \in Nat BY <2>2, <2>3, BlockIsNat
  <2> HIDE DEF S
  <2>8. QED BY <2>1, <2>3, <2>5, <2>6, <2>7
<1>4. QED BY <1>1, <1>2, <1>3

-----------------------------------------------------------------------------
(* What a step leaves alone.                                                *)

LEMMA SameRows ==
  ASSUME UNCHANGED rows, NEW c \in Chain
  PROVE  Resumed(c)' = Resumed(c)
  BY DEF Resumed

LEMMA SameHeads ==
  ASSUME UNCHANGED <<app, headVars>>, NEW c \in Chain
  PROVE  /\ HeadOf(c)' = HeadOf(c)
         /\ \A floor : Boundaries(c, floor)' = Boundaries(c, floor)
<1>1. app' = app /\ rpcFinal' = rpcFinal /\ served' = served BY DEF headVars
<1>2. HeadOf(c)' = HeadOf(c) BY <1>1 DEF HeadOf
<1>3. Heads(c)' = Heads(c) BY <1>1 DEF Heads
<1>4. ASSUME NEW floor PROVE Boundaries(c, floor)' = Boundaries(c, floor)
  BY <1>1, <1>3 DEF Boundaries
<1>5. QED BY <1>2, <1>4

(* Writing a set of events.                                                 *)
LEMMA WrittenOK ==
  ASSUME TypeOK, NEW S
  PROVE  /\ Written(S) \in [Events -> Nat]
         /\ \A e \in Events : /\ e \in S => Written(S)[e] = indexed[e] + 1
                              /\ e \notin S => Written(S)[e] = indexed[e]
<1>1. \A e \in Events : indexed[e] \in Nat BY DEF TypeOK
<1>2. QED BY <1>1 DEF Written

(* What the backfill and realtime write has not been written before, unless it   *)
(* was tied.                                                               *)
LEMMA WrittenOnce ==
  ASSUME TypeOK, Counted, NEW S, \A e \in S : e \in Events /\ (indexed[e] = 0 \/ e \in tied)
  PROVE  \A e \in Events :
           /\ Written(S)[e] > 0 =>
                (e \in S \/ indexed[e] > 0) /\ (Written(S)[e] = 1 \/ e \in tied)
           /\ e \notin S => Written(S)[e] = indexed[e]
<1>1. \A e \in Events : indexed[e] \in Nat BY DEF TypeOK
<1>2. \A e \in Events : indexed[e] > 0 => indexed[e] = 1 \/ e \in tied BY DEF Counted
<1>3. QED BY <1>1, <1>2, WrittenOK

-----------------------------------------------------------------------------
(* The initial states.                                                      *)

LEMMA InitOK == Init => IInv
<1> SUFFICES ASSUME Init PROVE IInv OBVIOUS
<1>1. TypeOK
  <2>1. 0 \in Block /\ 1 \in Block BY BlockIsNat
  <2>2. parked = {} /\ synced = {} /\ probed = {} /\ tied = {} BY DEF Init
  <2>3. QED BY <2>1, <2>2 DEF Init, TypeOK, Stages
<1>2. stage = "booting" BY DEF Init
<1>3. Grounded /\ LeastHolds /\ Answers /\ Phases /\ BoundaryServed /\ Held
  BY <1>2 DEF Grounded, LeastHolds, Answers, Phases, BoundaryServed, Held, Fetching,
     Awaiting, Running
<1>4. \A e \in Events : indexed[e] = 0 BY DEF Init
<1>5. Reverted /\ Counted BY <1>4 DEF Init, Reverted, Counted
<1>6. QED BY <1>1, <1>3, <1>5 DEF IInv

-----------------------------------------------------------------------------
(* Startup: what is indexed lies behind the boundary again.                   *)

LEMMA BootKeeps == ASSUME IInv, Boot PROVE IInv'
<1>1. /\ TypeOK /\ Reverted /\ Counted BY DEF IInv
<1>2. /\ stage = "booting" /\ stage' = "draining" /\ ~MovesBackwards
      /\ cursor' = [c \in Chain |-> Resumed(c)]
      /\ UNCHANGED <<app, headVars>> /\ UNCHANGED <<app, rpcFinal, served>>
      /\ UNCHANGED <<parked, probed, found, least>>
      /\ UNCHANGED <<indexed, synced, rows>>
      /\ tied' = tied \cup {e \in Events : TiesWithRow(e)}
  BY DEF Boot, headVars, durableVars
<1>3. final' \in [Chain -> Block]
      /\ \A c \in Chain : final'[c] \in Boundaries(c, StartFloor(c))
  BY DEF Boot
<1>4. TypeOK'
  <2>1. \A c \in Chain : Resumed(c) \in Block BY <1>1, ResumedOK
  <2>2. cursor' \in [Chain -> Block] BY <1>2, <2>1
  <2>3. QED BY <1>1, <1>2, <1>3, <2>2 DEF TypeOK, Stages
<1>5. ASSUME NEW c \in Chain
      PROVE  /\ final'[c] <= rpcFinal[c] /\ final'[c] \in Nat
             /\ c \in app.stream => final'[c] <= AtLeast(HeadOf(c), StartFloor(c))
             /\ \A n \in Nat : n <= StartFloor(c) /\ n <= rpcFinal[c] => n <= final'[c]
  <2>1. StartFloor(c) \in Nat BY <1>1, FloorOK
  <2>2. QED BY <1>1, <1>3, <2>1, TypeFacts, BoundariesOK
<1>6. Grounded' BY <1>2, <1>5 DEF Grounded
<1>7. BoundaryServed'
  <2>1. ASSUME NEW c \in Chain, c \in app.stream
        PROVE  final'[c] <= AtLeast(HeadOf(c), Resumed(c))
    <3>1. HeadOf(c) \in Nat BY <1>1, TypeFacts, HeadsOK
    <3>2. StartFloor(c) \in Nat /\ StartFloor(c) <= Resumed(c) /\ Resumed(c) \in Nat
      BY <1>1, FloorOK, ResumedOK
    <3>3. QED BY <1>5, <2>1, <3>1, <3>2 DEF AtLeast
  <2>2. \A c \in Chain : Resumed(c)' = Resumed(c) /\ HeadOf(c)' = HeadOf(c)
    BY <1>2, SameRows, SameHeads
  <2>3. \A c \in app.stream : c \in Chain BY <1>1, CutoverAssumption DEF TypeOK
  <2>4. QED BY <1>2, <2>1, <2>2, <2>3 DEF BoundaryServed, HeadOf
<1>8. ASSUME NEW e \in Events, indexed[e] > 0
      PROVE  e[2] <= Resumed(e[1]) /\ (e \notin tied' => e[2] <= final'[e[1]])
  <2> DEFINE c == e[1]
             n == e[2]
  <2>1. c \in Chain /\ n \in Nat /\ n \in Block /\ e = <<c, n>> /\ rpcFinal[c] \in Nat
    BY <1>1, TypeFacts
  <2>2. rows[c] # None /\ Moment(e) <= Moment(rows[c]) BY <1>1, <1>2, <1>8 DEF Reverted
  <2>3. Moment(e) = Time(c, n) BY DEF Moment
  <2>4. n <= Resumed(c) BY <1>1, <2>1, <2>2, <2>3, ResumedOK
  <2>5. <<c, n>> \in synced BY <1>1, <1>8, <2>1 DEF Counted
  <2>6. e \notin tied' => n <= StartFloor(c)
    <3>1. e \notin tied' => ~TiesWithRow(<<c, n>>) BY <1>2, <2>1
    <3>2. QED BY <1>1, <2>1, <2>2, <2>3, <2>5, <3>1, FloorOK
  <2>7. n <= rpcFinal[c]
    <3>1. ~(Moment(rows[c]) > Time(c, rpcFinal[c])) BY <1>2, <2>1, <2>2 DEF MovesBackwards
    <3>2. Moment(rows[c]) \in Nat /\ Time(c, rpcFinal[c]) \in Nat /\ Time(c, n) \in Nat
      BY <1>1, <2>1, <2>2, RowOK, TimeIsNat
    <3>3. Time(c, n) <= Time(c, rpcFinal[c]) BY <2>2, <2>3, <3>1, <3>2
    <3>4. QED BY <2>1, <3>3, TimeReflects
  <2>8. e \notin tied' => n <= final'[c] BY <1>5, <2>1, <2>6, <2>7
  <2>9. QED BY <2>4, <2>8
<1>9. Counted'
  <2>1. \A e \in Events : e[1] \in Chain BY <1>1, TypeFacts
  <2>2. QED BY <1>1, <1>2, <1>8, <2>1 DEF Counted
<1>10. Held' BY <1>1, <1>2 DEF Reverted, Held
<1>11. LeastHolds' /\ Answers' /\ Phases' /\ Reverted'
  BY <1>2 DEF LeastHolds, Answers, Phases, Reverted, Awaiting
<1>12. QED BY <1>4, <1>6, <1>7, <1>9, <1>10, <1>11 DEF IInv

-----------------------------------------------------------------------------
(* The rounds of the backfill.                                              *)

(* What a probe may answer does not change while the heads and boundaries stay. *)
LEMMA SameLeast ==
  ASSUME LeastHolds, stage = "drained" \/ Awaiting,
         UNCHANGED <<app, headVars>>, UNCHANGED <<final, least>>
  PROVE  LeastHolds'
<1>1. ASSUME NEW c \in Chain, NEW b \in Boundaries(c, final[c])' PROVE least'[c] <= b
  <2>1. Boundaries(c, final[c])' = Boundaries(c, final[c])
    BY SameHeads DEF Boundaries, Heads, headVars
  <2>2. QED BY <1>1, <2>1 DEF LeastHolds
<1>2. QED BY <1>1 DEF LeastHolds

LEMMA SameServed ==
  ASSUME TypeOK, BoundaryServed, stage \notin {"booting", "live"},
         UNCHANGED <<app, headVars>>, UNCHANGED <<final, rows>>
  PROVE  BoundaryServed'
<1>1. \A c \in app.stream : c \in Chain BY CutoverAssumption DEF TypeOK
<1>2. \A c \in Chain : Resumed(c)' = Resumed(c) BY SameRows
<1>3. app' = app /\ served' = served BY DEF headVars
<1>4. QED BY <1>1, <1>2, <1>3 DEF BoundaryServed

LEMMA DrainKeeps == ASSUME IInv, Drain PROVE IInv'
<1> DEFINE fresh == {e \in Events : cursor[e[1]] < e[2] /\ e[2] <= To(e[1])}
           ready == WithinBoundary(parked \cup fresh)
<1>1. TypeOK /\ Grounded /\ BoundaryServed /\ Counted /\ Held BY DEF IInv
<1>2. /\ stage = "draining" /\ stage' = "drained"
      /\ indexed' = Written(ready)
      /\ parked' = (parked \cup fresh) \ ready
      /\ synced' = synced \cup fresh
      /\ cursor' = [c \in Chain |-> AtLeast(cursor[c], To(c))]
      /\ least' = [c \in Chain |-> Min(Boundaries(c, final[c]))]
      /\ UNCHANGED <<app, headVars>> /\ UNCHANGED <<app, rpcFinal, served>>
      /\ UNCHANGED <<final, probed, found, rows, tied>>
  BY DEF Drain, headVars, startVars
<1>3. ready \subseteq parked \cup fresh /\ (~Omnichain => ready = parked \cup fresh)
  BY DEF WithinBoundary
<1>4. ASSUME NEW c \in Chain
      PROVE  /\ To(c) \in Block /\ To(c) \in Nat /\ To(c) <= final[c]
             /\ AtLeast(cursor[c], To(c)) \in Block
             /\ cursor[c] <= AtLeast(cursor[c], To(c)) /\ To(c) <= AtLeast(cursor[c], To(c))
  <2>1. final[c] \in Block /\ final[c] \in Nat /\ cursor[c] \in Block /\ cursor[c] \in Nat
        /\ app.end[c] \in Nat
    BY <1>1, TypeFacts DEF TypeOK
  <2>2. To(c) \in Nat /\ To(c) <= final[c] BY <2>1, AtMostOK DEF To
  <2>3. To(c) \in Block BY <2>1, <2>2, CutoverAssumption DEF Block
  <2>4. QED BY <2>1, <2>2, <2>3, AtLeastOK
<1>5. \A e \in fresh : /\ e \in Events /\ e[1] \in Chain /\ e[2] \in Nat
                       /\ cursor[e[1]] < e[2] /\ e[2] <= To(e[1])
  BY <1>1, TypeFacts
<1>6. \A e \in parked : e \in Events /\ indexed[e] = 0 /\ app.ordering = "omnichain"
  BY <1>1 DEF TypeOK
<1>7. \A e \in fresh : indexed[e] = 0
  <2>1. TAKE e \in fresh
  <2>2. SUFFICES ASSUME indexed[e] > 0 PROVE FALSE BY <1>1, <1>5, TypeFacts
  <2>3. e[2] <= cursor[e[1]] BY <1>1, <1>2, <1>5, <2>2 DEF Counted, Running
  <2>4. cursor[e[1]] \in Nat BY <1>1, <1>5, TypeFacts
  <2>5. QED BY <1>5, <2>3, <2>4
<1> HIDE DEF fresh, ready
<1>8. \A e \in ready : e \in Events /\ indexed[e] = 0 BY <1>3, <1>5, <1>6, <1>7
<1>9. \A e \in Events :
        /\ indexed'[e] > 0 => (e \in ready \/ indexed[e] > 0) /\ (indexed'[e] = 1 \/ e \in tied)
        /\ e \notin ready => indexed'[e] = indexed[e]
  BY <1>1, <1>2, <1>8, WrittenOnce
<1>10. TypeOK'
  <2>1. indexed' \in [Events -> Nat] BY <1>1, <1>2, WrittenOK
  <2>2. cursor' \in [Chain -> Block] BY <1>2, <1>4
  <2>3. least' \in [Chain -> Block]
    <3>1. ASSUME NEW c \in Chain PROVE Min(Boundaries(c, final[c])) \in Block
      <4>1. HeadsKnown /\ final[c] \in Nat /\ rpcFinal[c] \in Nat BY <1>1, TypeFacts
      <4>2. /\ Boundaries(c, final[c]) \subseteq Nat /\ Boundaries(c, final[c]) # {}
            /\ \A b \in Boundaries(c, final[c]) : b <= rpcFinal[c]
        BY <4>1, BoundariesOK
      <4>3. Min(Boundaries(c, final[c])) \in Boundaries(c, final[c]) BY <4>2, MinOK
      <4>4. Min(Boundaries(c, final[c])) \in Nat
            /\ Min(Boundaries(c, final[c])) <= rpcFinal[c]
        BY <4>2, <4>3
      <4>5. rpcFinal[c] \in Block BY <1>1 DEF TypeOK
      <4>6. QED BY <4>1, <4>4, <4>5, CutoverAssumption DEF Block
    <3>2. QED BY <1>2, <3>1
  <2>4. parked' \subseteq synced' /\ synced' \subseteq Events
    BY <1>1, <1>2, <1>5 DEF TypeOK
  <2>5. \A e \in parked' : indexed'[e] = 0 /\ app'.ordering = "omnichain"
    <3>1. TAKE e \in parked'
    <3>2. e \in Events /\ e \notin ready /\ indexed[e] = 0 BY <1>2, <1>5, <1>6, <1>7
    <3>3. Omnichain BY <1>2, <1>3
    <3>4. QED BY <1>2, <1>9, <3>2, <3>3 DEF Omnichain
  <2>6. QED BY <1>1, <1>2, <2>1, <2>2, <2>3, <2>4, <2>5 DEF TypeOK, Stages
<1>11. Grounded' BY <1>1, <1>2 DEF Grounded, Fetching
<1>12. LeastHolds'
  <2>1. ASSUME NEW c \in Chain, NEW b \in Boundaries(c, final[c])' PROVE least'[c] <= b
    <3>1. Boundaries(c, final[c])' = Boundaries(c, final[c])
      BY <1>2 DEF Boundaries, Heads
    <3>2. HeadsKnown /\ final[c] \in Nat BY <1>1, TypeFacts
    <3>3. Boundaries(c, final[c]) \subseteq Nat /\ Boundaries(c, final[c]) # {}
      BY <3>2, BoundariesOK
    <3>4. Min(Boundaries(c, final[c])) <= b BY <2>1, <3>1, <3>3, MinOK
    <3>5. QED BY <1>2, <3>4
  <2>2. QED BY <2>1 DEF LeastHolds
<1>13. BoundaryServed' BY <1>1, <1>2, SameServed
<1>14. \A e \in Events : e[1] \in Chain /\ e[2] \in Nat
                         /\ cursor[e[1]] \in Nat /\ final[e[1]] \in Nat
  BY <1>1, TypeFacts
<1>15. ASSUME NEW e \in Events, e \in parked \cup fresh \/ indexed[e] > 0
       PROVE  /\ e[2] <= cursor'[e[1]] /\ e \in synced'
              /\ (e \in parked \cup fresh \/ e \notin tied) => e[2] <= final'[e[1]]
  <2>1. \/ e \in fresh
        \/ e[2] <= cursor[e[1]] /\ e \in synced
           /\ ((e \in parked \/ e \notin tied) => e[2] <= final[e[1]])
    BY <1>1, <1>2, <1>15 DEF Counted, Held, Running, TypeOK
  <2>2. cursor'[e[1]] = AtLeast(cursor[e[1]], To(e[1])) BY <1>2, <1>14
  <2>3. AtLeast(cursor[e[1]], To(e[1])) \in Nat BY <1>4, <1>14, BlockIsNat
  <2>4. CASE e \in fresh BY <1>2, <1>4, <1>5, <1>14, <2>2, <2>3, <2>4
  <2>5. CASE /\ e \notin fresh /\ e[2] <= cursor[e[1]] /\ e \in synced
             /\ (e \in parked \/ e \notin tied) => e[2] <= final[e[1]]
    BY <1>2, <1>4, <1>14, <2>2, <2>3, <2>5
  <2>6. QED BY <2>1, <2>4, <2>5
<1>16. Counted' BY <1>2, <1>3, <1>9, <1>15 DEF Counted
<1>17. Held'
  <2>1. \A e \in parked' : e \in Events /\ e \in parked \cup fresh BY <1>2, <1>5, <1>6
  <2>2. QED BY <1>15, <2>1 DEF Held
<1>18. Answers' /\ Phases' /\ Reverted'
  BY <1>2 DEF Answers, Phases, Reverted, Awaiting
<1>19. QED BY <1>10, <1>11, <1>12, <1>13, <1>16, <1>17, <1>18 DEF IInv

(* Going live: what is parked is written for the first time, or dropped.        *)
LEMMA LiveKeeps == ASSUME IInv, GoesLive, Fetching PROVE IInv'
<1> DEFINE ready == {e \in parked : ~Ended(e[1])}
<1>1. TypeOK /\ Counted /\ Held BY DEF IInv
<1>2. /\ stage' = "live" /\ indexed' = Written(ready)
      /\ parked' = {e \in parked : Ended(e[1])}
      /\ probed' = {} /\ found' = [c \in Chain |-> None]
      /\ UNCHANGED <<app, rpcFinal, served>>
      /\ UNCHANGED <<final, cursor, least, synced, rows, tied>>
  BY DEF GoesLive, headVars, startVars
<1>3. Running /\ stage # "booting" BY DEF Fetching, Running
<1>4. \A e \in parked : e \in Events /\ e \in synced /\ indexed[e] = 0
                        /\ app.ordering = "omnichain"
  BY <1>1 DEF TypeOK
<1>5. /\ \A e \in ready : e \in parked
      /\ \A e \in parked' : e \in parked /\ e \notin ready
  BY <1>2
<1> HIDE DEF ready
<1>6. \A e \in ready : e \in Events /\ indexed[e] = 0 BY <1>4, <1>5
<1>7. \A e \in Events :
        /\ indexed'[e] > 0 => (e \in ready \/ indexed[e] > 0) /\ (indexed'[e] = 1 \/ e \in tied)
        /\ e \notin ready => indexed'[e] = indexed[e]
  BY <1>1, <1>2, <1>6, WrittenOnce
<1>8. TypeOK'
  <2>1. indexed' \in [Events -> Nat] BY <1>1, <1>2, WrittenOK
  <2>2. \A e \in parked' : e \in synced /\ indexed'[e] = 0 /\ app.ordering = "omnichain"
    BY <1>4, <1>5, <1>7
  <2>3. parked' \subseteq synced BY <2>2
  <2>4. QED BY <1>1, <1>2, <2>1, <2>2, <2>3 DEF TypeOK, Stages
<1>9. Counted' BY <1>1, <1>2, <1>3, <1>4, <1>5, <1>7 DEF Counted, Held
<1>10. Held' BY <1>1, <1>2, <1>3, <1>5 DEF Held
<1>11. Grounded' /\ LeastHolds' /\ Answers' /\ Phases' /\ Reverted' /\ BoundaryServed'
  BY <1>2 DEF Grounded, LeastHolds, Answers, Phases, Reverted, BoundaryServed, Fetching,
     Awaiting
<1>12. QED BY <1>8, <1>9, <1>10, <1>11 DEF IInv

LEMMA ProbeKeeps == ASSUME IInv, ProbeHeads PROVE IInv'
<1>1. /\ TypeOK /\ Grounded /\ LeastHolds /\ BoundaryServed /\ Counted /\ Held
  BY DEF IInv
<1>2. /\ stage = "drained" /\ stage' = "probing" /\ probed' = PhaseOne
      /\ found' = [c \in Chain |-> IF c \in PhaseOne THEN None ELSE final[c]]
      /\ UNCHANGED <<app, headVars>> /\ UNCHANGED <<app, rpcFinal, served>>
      /\ UNCHANGED <<final, cursor, parked, least, indexed, synced, rows, tied>>
  BY DEF ProbeHeads, headVars, durableVars, startVars
<1>3. PhaseOne \subseteq Chain /\ (Omnichain /\ parked # {} => PhaseOne = Chain)
  BY DEF PhaseOne, CutoverProbe
<1>4. TypeOK'
  <2>1. found' \in [Chain -> Block \cup {None}] BY <1>1, <1>2 DEF TypeOK
  <2>2. QED BY <1>1, <1>2, <1>3, <2>1 DEF TypeOK, Stages
<1>5. Grounded' BY <1>1, <1>2 DEF Grounded, Fetching
<1>6. LeastHolds' BY <1>1, <1>2, SameLeast
<1>7. BoundaryServed' BY <1>1, <1>2, SameServed
<1>8. Counted' /\ Held' BY <1>1, <1>2 DEF Counted, Held, Running
<1>9. Phases' BY <1>2, <1>3 DEF Phases, Omnichain
<1>10. Answers'
  <2>1. ASSUME NEW c \in Chain, found'[c] # None
        PROVE  /\ final[c] <= found'[c] /\ found'[c] <= rpcFinal[c]
               /\ c \in app.stream => found'[c] <= AtLeast(HeadOf(c), Resumed(c))
               /\ c \notin probed'
    <3>1. c \notin PhaseOne /\ found'[c] = final[c] BY <1>2, <2>1
    <3>2. final[c] \in Nat BY <1>1, TypeFacts
    <3>3. final[c] <= rpcFinal[c] BY <1>1, <1>2 DEF Grounded, Fetching
    <3>4. c \in app.stream => final[c] <= AtLeast(HeadOf(c), Resumed(c))
      BY <1>1, <1>2 DEF BoundaryServed, HeadOf
    <3>5. QED BY <1>2, <3>1, <3>2, <3>3, <3>4
  <2>2. \A c \in Chain : Resumed(c)' = Resumed(c) /\ HeadOf(c)' = HeadOf(c)
    BY <1>2, SameRows, SameHeads
  <2>3. QED BY <1>2, <2>1, <2>2 DEF Answers
<1>11. Reverted' BY <1>2 DEF Reverted
<1>12. QED BY <1>4, <1>5, <1>6, <1>7, <1>8, <1>9, <1>10, <1>11 DEF IInv

LEMMA AnswerKeeps == ASSUME IInv, NEW d \in Chain, Answer(d) PROVE IInv'
<1>1. /\ TypeOK /\ Grounded /\ LeastHolds /\ Answers /\ Phases /\ BoundaryServed
      /\ Counted /\ Held
  BY DEF IInv
<1>2. /\ Awaiting /\ found[d] = None
      /\ UNCHANGED <<app, headVars>> /\ UNCHANGED <<app, rpcFinal, served>>
      /\ UNCHANGED <<stage, final, cursor, parked, probed, least, indexed, synced, rows, tied>>
  BY DEF Answer, Awaiting, headVars, durableVars, startVars
<1>3. PICK b \in Boundaries(d, final[d]) : found' = [found EXCEPT ![d] = b] BY DEF Answer
<1>4. HeadsKnown /\ final[d] \in Nat /\ rpcFinal[d] \in Nat /\ HeadOf(d) \in Nat
  BY <1>1, TypeFacts, HeadsOK
<1>5. /\ b \in Nat /\ b <= rpcFinal[d] /\ final[d] <= b /\ least[d] <= b
      /\ d \in app.stream => b <= AtLeast(HeadOf(d), final[d])
  <2>1. final[d] <= rpcFinal[d] BY <1>1, <1>2 DEF Grounded, Fetching, Awaiting
  <2>2. least[d] <= b BY <1>1, <1>2 DEF LeastHolds
  <2>3. QED BY <1>4, <2>1, <2>2, BoundariesOK
<1>6. d \in app.stream => b <= AtLeast(HeadOf(d), Resumed(d))
  <2>1. SUFFICES ASSUME d \in app.stream PROVE b <= AtLeast(HeadOf(d), Resumed(d))
    OBVIOUS
  <2>2. final[d] <= AtLeast(HeadOf(d), Resumed(d))
    BY <1>1, <1>2, <2>1 DEF BoundaryServed, HeadOf, Awaiting
  <2>3. Resumed(d) \in Nat BY <1>1, ResumedOK
  <2>4. QED BY <1>4, <1>5, <2>1, <2>2, <2>3 DEF AtLeast
<1>7. TypeOK'
  <2>1. rpcFinal[d] \in Block BY <1>1 DEF TypeOK
  <2>2. b \in Block BY <1>4, <1>5, <2>1, CutoverAssumption DEF Block
  <2>3. found' \in [Chain -> Block \cup {None}] BY <1>1, <1>3, <2>2 DEF TypeOK
  <2>4. QED BY <1>1, <1>2, <2>3 DEF TypeOK
<1>8. found'[d] = b /\ \A c \in Chain : c # d => found'[c] = found[c]
  BY <1>1, <1>3 DEF TypeOK
<1>9. Answers'
  <2>1. \A c \in Chain : Resumed(c)' = Resumed(c) /\ HeadOf(c)' = HeadOf(c)
    BY <1>2, SameRows, SameHeads
  <2>2. QED BY <1>1, <1>2, <1>5, <1>6, <1>8, <2>1 DEF Answers, Awaiting
<1>10. Phases'
  <2>1. stage = "probing" => d \in probed
    <3>1. None # final[d] BY <1>4, CutoverAssumption
    <3>2. QED BY <1>1, <1>2, <3>1 DEF Phases
  <2>2. QED BY <1>1, <1>2, <1>8, <2>1 DEF Phases, Omnichain
<1>11. Grounded' BY <1>1, <1>2 DEF Grounded, Fetching
<1>12. LeastHolds' BY <1>1, <1>2, SameLeast
<1>13. BoundaryServed' BY <1>1, <1>2, SameServed DEF Awaiting
<1>14. Counted' /\ Held' /\ Reverted'
  BY <1>1, <1>2 DEF Counted, Held, Reverted, Running, Awaiting
<1>15. QED BY <1>7, <1>9, <1>10, <1>11, <1>12, <1>13, <1>14 DEF IInv

LEMMA PhaseTwoKeeps == ASSUME IInv, PhaseTwo PROVE IInv'
<1>1. /\ TypeOK /\ Grounded /\ LeastHolds /\ Answers /\ Phases /\ BoundaryServed
      /\ Counted /\ Held
  BY DEF IInv
<1>2. /\ stage = "probing" /\ stage' = "reprobing" /\ Answered /\ ShouldCatchup
      /\ found' = [c \in Chain |-> IF c \in Excluded THEN None ELSE found[c]]
      /\ UNCHANGED <<app, headVars>> /\ UNCHANGED <<app, rpcFinal, served>>
      /\ UNCHANGED <<final, cursor, parked, probed, least, indexed, synced, rows, tied>>
  BY DEF PhaseTwo, headVars, durableVars, startVars
<1>3. \A c \in Chain : c \notin Excluded => c \in probed
  BY DEF PhaseTwo, Excluded
<1>4. TypeOK'
  <2>1. found' \in [Chain -> Block \cup {None}] BY <1>1, <1>2 DEF TypeOK
  <2>2. QED BY <1>1, <1>2, <2>1 DEF TypeOK, Stages
<1>5. \A c \in Chain : /\ c \in Excluded => found'[c] = None
                       /\ c \notin Excluded => found'[c] = found[c]
  BY <1>2
<1>6. Answers'
  <2>1. \A c \in Chain : Resumed(c)' = Resumed(c) /\ HeadOf(c)' = HeadOf(c)
    BY <1>2, SameRows, SameHeads
  <2>2. QED BY <1>1, <1>2, <1>3, <1>5, <2>1 DEF Answers, Awaiting
<1>7. Phases'
  <2>1. PICK c \in Chain : found[c] - final[c] > Depth[c] BY <1>2 DEF ShouldCatchup
  <2>2. found[c] # None /\ final[c] \in Nat /\ Depth[c] \in Nat
    BY <1>1, <1>2, TypeFacts DEF Answered
  <2>3. c \notin Excluded
    <3>1. SUFFICES ASSUME c \in Excluded PROVE FALSE OBVIOUS
    <3>2. found[c] = final[c] BY <1>1, <1>2, <3>1 DEF Phases, Excluded
    <3>3. QED BY <2>1, <2>2, <3>2
  <2>4. QED BY <1>2, <1>5, <2>1, <2>2, <2>3 DEF Phases
<1>8. Grounded' BY <1>1, <1>2 DEF Grounded, Fetching
<1>9. LeastHolds' BY <1>1, <1>2, SameLeast DEF Awaiting
<1>10. BoundaryServed' BY <1>1, <1>2, SameServed
<1>11. Counted' /\ Held' /\ Reverted'
  BY <1>1, <1>2 DEF Counted, Held, Reverted, Running
<1>12. QED BY <1>4, <1>6, <1>7, <1>8, <1>9, <1>10, <1>11 DEF IInv

(* What a catch-up round adopts.                                            *)
LEMMA Adopted ==
  ASSUME IInv, Adopt
  PROVE  /\ Awaiting /\ stage' = "draining" /\ final' = found
         /\ \A c \in Chain :
              /\ found[c] \in Nat /\ found[c] \in Block
              /\ final[c] <= found[c] /\ found[c] <= rpcFinal[c]
              /\ c \in app.stream => found[c] <= AtLeast(HeadOf(c), Resumed(c))
              /\ Omnichain => least[c] <= found[c]
         /\ \E c \in Chain : found[c] - final[c] > Depth[c]
<1>1. TypeOK /\ Answers /\ Phases BY DEF IInv
<1>2. Awaiting /\ stage' = "draining" /\ final' = found /\ Answered BY DEF Adopt, Awaiting
<1>3. \A c \in Chain : found[c] # None BY <1>2 DEF Answered
<1>4. \A c \in Chain : found[c] \in Nat /\ found[c] \in Block
  BY <1>1, <1>3, BlockIsNat DEF TypeOK
<1>5. Omnichain => stage = "reprobing" \/ \A c \in Chain : c \in probed
  BY DEF Adopt, Excluded
<1>6. \E c \in Chain : found[c] - final[c] > Depth[c]
  BY <1>1 DEF Adopt, ShouldCatchup, Phases
<1>7. QED BY <1>1, <1>2, <1>3, <1>4, <1>5, <1>6 DEF Answers

LEMMA AdoptKeeps == ASSUME IInv, Adopt PROVE IInv'
<1>1. TypeOK /\ Counted /\ Held BY DEF IInv
<1>2. /\ probed' = {} /\ found' = [c \in Chain |-> None]
      /\ UNCHANGED <<app, headVars>> /\ UNCHANGED <<app, rpcFinal, served>>
      /\ UNCHANGED <<cursor, parked, least, indexed, synced, rows, tied>>
  BY DEF Adopt, headVars, durableVars, startVars
<1>3. /\ Awaiting /\ stage' = "draining" /\ final' = found
      /\ \A c \in Chain :
           /\ found[c] \in Nat /\ found[c] \in Block
           /\ final[c] <= found[c] /\ found[c] <= rpcFinal[c]
           /\ c \in app.stream => found[c] <= AtLeast(HeadOf(c), Resumed(c))
  BY Adopted
<1>4. TypeOK'
  <2>1. final' \in [Chain -> Block] BY <1>1, <1>3 DEF TypeOK
  <2>2. QED BY <1>1, <1>2, <1>3, <2>1 DEF TypeOK, Stages
<1>5. Grounded' BY <1>2, <1>3 DEF Grounded
<1>6. BoundaryServed'
  <2>1. \A c \in Chain : Resumed(c)' = Resumed(c) BY <1>2, SameRows
  <2>2. \A c \in app.stream : c \in Chain BY <1>1, CutoverAssumption DEF TypeOK
  <2>3. QED BY <1>2, <1>3, <2>1, <2>2 DEF BoundaryServed, HeadOf
<1>7. ASSUME NEW e \in Events, e[2] <= final[e[1]] PROVE e[2] <= found[e[1]]
  <2>1. e[1] \in Chain /\ e[2] \in Nat /\ final[e[1]] \in Nat BY <1>1, TypeFacts
  <2>2. found[e[1]] \in Nat /\ final[e[1]] <= found[e[1]] BY <1>3, <2>1
  <2>3. QED BY <1>7, <2>1, <2>2
<1>8. Counted' BY <1>1, <1>2, <1>3, <1>7 DEF Counted, Running, Awaiting
<1>9. Held'
  <2>1. \A e \in parked : e \in Events BY <1>1 DEF TypeOK
  <2>2. QED BY <1>1, <1>2, <1>3, <1>7, <2>1 DEF Held, Running, Awaiting
<1>10. LeastHolds' /\ Answers' /\ Phases' /\ Reverted'
  BY <1>3 DEF LeastHolds, Answers, Phases, Reverted, Awaiting
<1>11. QED BY <1>4, <1>5, <1>6, <1>8, <1>9, <1>10 DEF IInv

-----------------------------------------------------------------------------
(* Realtime, the end of the process, and the advance of the heads.             *)

LEMMA FollowKeeps == ASSUME IInv, NEW d \in Chain, Follow(d) PROVE IInv'
<1>1. TypeOK /\ Counted /\ Held BY DEF IInv
<1>2. /\ stage = "live" /\ stage' = "live"
      /\ UNCHANGED <<app, rpcFinal, served>>
      /\ UNCHANGED <<parked, probed, found, least, rows, tied>>
  BY DEF Follow, headVars, startVars
<1> DEFINE through == AtMost(IF d \in app.stream THEN served[d] ELSE rpcFinal[d], app.end[d])
           passed(n) == {e \in Events : e[1] = d /\ final[d] < e[2] /\ e[2] <= n}
<1>3. PICK n \in (final[d] + 1)..through :
        /\ final' = [final EXCEPT ![d] = n]
        /\ cursor' = [cursor EXCEPT ![d] = AtLeast(@, n)]
        /\ indexed' = Written(passed(n))
        /\ synced' = synced \cup passed(n)
  BY DEF Follow
<1>4. /\ n \in Nat /\ n \in Block /\ final[d] \in Nat /\ final[d] < n /\ cursor[d] \in Nat
      /\ AtLeast(cursor[d], n) \in Block /\ AtLeast(cursor[d], n) \in Nat
      /\ cursor[d] <= AtLeast(cursor[d], n) /\ n <= AtLeast(cursor[d], n)
  <2>1. /\ served[d] \in Block /\ rpcFinal[d] \in Block /\ cursor[d] \in Block
        /\ served[d] \in Nat /\ rpcFinal[d] \in Nat /\ cursor[d] \in Nat
        /\ app.end[d] \in Nat /\ final[d] \in Nat
    BY <1>1, TypeFacts DEF TypeOK
  <2>2. through \in Nat /\ through <= LastBlock
    BY <2>1, AtMostOK, CutoverAssumption DEF Block, AtMost
  <2>3. n \in Nat /\ final[d] < n /\ n <= LastBlock BY <2>1, <2>2, CutoverAssumption
  <2>4. n \in Block BY <2>3, CutoverAssumption DEF Block
  <2>5. QED BY <2>1, <2>3, <2>4, AtLeastOK
<1>5. /\ final'[d] = n /\ \A c \in Chain : c # d => final'[c] = final[c]
      /\ cursor'[d] = AtLeast(cursor[d], n)
      /\ \A c \in Chain : c # d => cursor'[c] = cursor[c]
  BY <1>1, <1>3 DEF TypeOK
<1>6. \A e \in passed(n) : e \in Events /\ e[1] = d /\ final[d] < e[2] /\ e[2] <= n
  OBVIOUS
<1> HIDE DEF passed, through
<1>7. \A e \in Events : e[1] \in Chain /\ e[2] \in Nat /\ indexed[e] \in Nat
                        /\ final[e[1]] \in Nat /\ cursor[e[1]] \in Nat
  BY <1>1, TypeFacts
<1>8. \A e \in parked : e \in Events /\ indexed[e] = 0 /\ app.ordering = "omnichain"
                        /\ e[2] <= final[e[1]]
  BY <1>1, <1>2 DEF TypeOK, Held, Running
<1>9. \A e \in passed(n) : (indexed[e] = 0 \/ e \in tied) /\ e \notin parked
  <2>1. TAKE e \in passed(n)
  <2>2. e \in Events /\ ~(e[2] <= final[e[1]]) BY <1>6, <1>7
  <2>3. ~(indexed[e] > 0) \/ e \in tied BY <1>1, <1>2, <2>2 DEF Counted, Running
  <2>4. QED BY <1>7, <1>8, <2>2, <2>3
<1>10. \A e \in Events :
         /\ indexed'[e] > 0 =>
              (e \in passed(n) \/ indexed[e] > 0) /\ (indexed'[e] = 1 \/ e \in tied)
         /\ e \notin passed(n) => indexed'[e] = indexed[e]
  BY <1>1, <1>3, <1>6, <1>9, WrittenOnce
<1>11. TypeOK'
  <2>1. indexed' \in [Events -> Nat] BY <1>1, <1>3, WrittenOK
  <2>2. final' \in [Chain -> Block] /\ cursor' \in [Chain -> Block]
    BY <1>1, <1>3, <1>4 DEF TypeOK
  <2>3. parked' \subseteq synced' /\ synced' \subseteq Events
    BY <1>1, <1>2, <1>3, <1>6 DEF TypeOK
  <2>4. \A e \in parked' : indexed'[e] = 0 /\ app'.ordering = "omnichain"
    BY <1>2, <1>8, <1>9, <1>10
  <2>5. QED BY <1>1, <1>2, <2>1, <2>2, <2>3, <2>4 DEF TypeOK
<1>12. ASSUME NEW e \in Events
       PROVE  /\ e[2] <= cursor[e[1]] => e[2] <= cursor'[e[1]]
              /\ e[2] <= final[e[1]] => e[2] <= final'[e[1]]
  <2>1. CASE e[1] = d BY <1>4, <1>5, <1>7, <1>12, <2>1
  <2>2. CASE e[1] # d BY <1>5, <1>7, <1>12, <2>2
  <2>3. QED BY <2>1, <2>2
<1>13. \A e \in passed(n) : e[2] <= cursor'[e[1]] /\ e[2] <= final'[e[1]]
  BY <1>4, <1>5, <1>6, <1>7
<1>14. Counted'
  BY <1>1, <1>2, <1>3, <1>10, <1>12, <1>13 DEF Counted, Running
<1>15. Held' BY <1>1, <1>2, <1>8, <1>12 DEF Held, Running
<1>16. Grounded' /\ LeastHolds' /\ Answers' /\ Phases' /\ Reverted' /\ BoundaryServed'
  BY <1>2 DEF Grounded, LeastHolds, Answers, Phases, Reverted, BoundaryServed, Fetching,
     Awaiting
<1>17. QED BY <1>11, <1>14, <1>15, <1>16 DEF IInv

LEMMA CheckpointKeeps == ASSUME IInv, NEW d \in Chain, Checkpoint(d) PROVE IInv'
<1>1. TypeOK /\ Counted /\ Held BY DEF IInv
<1>2. /\ stage = "live" /\ stage' = "live"
      /\ UNCHANGED <<app, rpcFinal, served>>
      /\ UNCHANGED <<final, cursor, parked, probed, found, least, indexed, synced, tied>>
  BY DEF Checkpoint, headVars, roundVars, startVars
<1>3. <<d, final[d]>> \in Chain \X Block BY <1>1 DEF TypeOK
<1>4. rows' \in [Chain -> (Chain \X Block) \cup {None}]
  <2>1. rows' = [c \in Chain |-> <<d, final[d]>>] \/ rows' = [rows EXCEPT ![d] = <<d, final[d]>>]
    BY DEF Checkpoint
  <2>2. QED BY <1>1, <1>3, <2>1 DEF TypeOK
<1>5. TypeOK' BY <1>1, <1>2, <1>4 DEF TypeOK
<1>6. Counted' /\ Held' BY <1>1, <1>2 DEF Counted, Held, Running
<1>7. Grounded' /\ LeastHolds' /\ Answers' /\ Phases' /\ Reverted' /\ BoundaryServed'
  BY <1>2 DEF Grounded, LeastHolds, Answers, Phases, Reverted, BoundaryServed, Fetching,
     Awaiting
<1>8. QED BY <1>5, <1>6, <1>7 DEF IInv

(* A throw, at startup or while probing.                                     *)
LEMMA ThrowKeeps ==
  ASSUME IInv, RefuseBoot \/ \E d \in Chain : ProbeThrows(d)
  PROVE  IInv'
<1>1. TypeOK /\ Counted /\ BoundaryServed /\ Reverted BY DEF IInv
<1>2. /\ stage' = "dead" /\ (stage = "booting" \/ Awaiting)
      /\ UNCHANGED <<app, headVars>> /\ UNCHANGED <<app, rpcFinal, served>>
      /\ UNCHANGED <<final, cursor, parked, probed, found, least, indexed, synced, rows, tied>>
  BY DEF RefuseBoot, ProbeThrows, Awaiting, headVars, roundVars, durableVars, startVars
<1>3. TypeOK' BY <1>1, <1>2 DEF TypeOK, Stages
<1>4. BoundaryServed'
  <2>1. CASE Awaiting BY <1>1, <1>2, <2>1, SameServed DEF Awaiting
  <2>2. CASE stage = "booting"
    <3>1. \A c \in Chain : final'[c] = 0 BY <1>1, <1>2, <2>2 DEF Reverted
    <3>2. \A c \in app.stream : c \in Chain BY <1>1, CutoverAssumption DEF TypeOK
    <3>3. \A c \in Chain : HeadOf(c)' \in Nat /\ Resumed(c)' \in Nat
      BY <1>1, <1>2, TypeFacts, HeadsOK, ResumedOK, SameHeads, SameRows
    <3>4. \A c \in Chain : 0 <= AtLeast(HeadOf(c)', Resumed(c)') BY <3>3, AtLeastOK
    <3>5. QED BY <1>2, <3>1, <3>2, <3>4 DEF BoundaryServed, HeadOf
  <2>3. QED BY <1>2, <2>1, <2>2
<1>5. Counted' BY <1>1, <1>2 DEF Counted, Running
<1>6. Held' /\ Grounded' /\ LeastHolds' /\ Answers' /\ Phases' /\ Reverted'
  BY <1>2 DEF Held, Running, Grounded, LeastHolds, Answers, Phases, Reverted, Fetching,
     Awaiting
<1>7. QED BY <1>3, <1>4, <1>5, <1>6 DEF IInv

LEMMA CrashKeeps == ASSUME IInv, Crash PROVE IInv'
<1>1. TypeOK /\ Counted BY DEF IInv
<1>2. /\ stage' = "booting"
      /\ final' = [c \in Chain |-> 0] /\ cursor' = [c \in Chain |-> 0]
      /\ parked' = {} /\ probed' = {}
      /\ found' = [c \in Chain |-> None] /\ least' = [c \in Chain |-> 0]
      /\ UNCHANGED <<app, rpcFinal, served>> /\ UNCHANGED <<synced, rows, tied>>
  BY DEF Crash, headVars
<1>3. indexed' = [e \in Events |->
                    IF rows[e[1]] # None /\ Moment(e) <= Moment(rows[e[1]]) THEN indexed[e]
                    ELSE 0]
  BY DEF Crash
<1>4. \A e \in Events : indexed[e] \in Nat BY <1>1 DEF TypeOK
<1>5. \A e \in Events : indexed'[e] > 0 =>
        /\ indexed'[e] = indexed[e] /\ rows[e[1]] # None /\ Moment(e) <= Moment(rows[e[1]])
  BY <1>3, <1>4
<1>6. TypeOK'
  <2>1. indexed' \in [Events -> Nat] BY <1>3, <1>4
  <2>2. final' \in [Chain -> Block] /\ least' \in [Chain -> Block] /\ cursor' \in [Chain -> Block]
        /\ found' \in [Chain -> Block \cup {None}]
    BY <1>2, BlockIsNat
  <2>3. QED BY <1>1, <1>2, <2>1, <2>2 DEF TypeOK, Stages
<1>7. Counted' BY <1>1, <1>2, <1>5 DEF Counted, Running
<1>8. Reverted'
  <2>1. \A e : rows'[e[1]] = rows[e[1]] /\ Moment(rows[e[1]])' = Moment(rows[e[1]])
    BY <1>2 DEF Moment, Time, Stamp
  <2>2. QED BY <1>2, <1>5, <2>1 DEF Reverted
<1>9. Held' /\ Grounded' /\ LeastHolds' /\ Answers' /\ Phases' /\ BoundaryServed'
  BY <1>2 DEF Held, Running, Grounded, LeastHolds, Answers, Phases, BoundaryServed, Fetching,
     Awaiting
<1>10. QED BY <1>6, <1>7, <1>8, <1>9 DEF IInv

(* The RPC's finalized block and the Portal's head only advance.               *)
LEMMA HeadsKeep ==
  ASSUME IInv, NEW d \in Chain, RpcAdvances(d) \/ PortalAdvances(d)
  PROVE  IInv'
<1>1. /\ TypeOK /\ Grounded /\ LeastHolds /\ Answers /\ Phases /\ Reverted /\ BoundaryServed
      /\ Counted /\ Held
  BY DEF IInv
<1>2. /\ app' = app
      /\ UNCHANGED <<stage, final, cursor, parked, probed, found, least>>
      /\ UNCHANGED <<indexed, synced, rows, tied>>
  BY DEF RpcAdvances, PortalAdvances, roundVars, durableVars, startVars
<1>3. /\ rpcFinal' \in [Chain -> Block] /\ served' \in [Chain -> Block]
      /\ \A c \in Chain : rpcFinal[c] <= rpcFinal'[c] /\ served[c] <= served'[c]
  <2>1. \A c \in Chain : rpcFinal[c] \in Nat /\ served[c] \in Nat BY <1>1, TypeFacts
  <2>2. ASSUME NEW n \in Nat, n < LastBlock PROVE n + 1 \in Block
    BY <2>2, CutoverAssumption DEF Block
  <2>3. CASE RpcAdvances(d)
    <3>1. /\ rpcFinal' = [rpcFinal EXCEPT ![d] = rpcFinal[d] + 1] /\ served' = served
          /\ rpcFinal[d] + 1 \in Block
      BY <2>1, <2>2, <2>3 DEF RpcAdvances
    <3>2. QED BY <1>1, <2>1, <3>1 DEF TypeOK
  <2>4. CASE PortalAdvances(d)
    <3>1. /\ served' = [served EXCEPT ![d] = served[d] + 1] /\ rpcFinal' = rpcFinal
          /\ served[d] + 1 \in Block
      BY <2>1, <2>2, <2>4 DEF PortalAdvances
    <3>2. QED BY <1>1, <2>1, <3>1 DEF TypeOK
  <2>5. QED BY <2>3, <2>4
<1>4. TypeOK' BY <1>1, <1>2, <1>3 DEF TypeOK
<1>5. HeadsKnown /\ HeadsKnown' BY <1>1, <1>4 DEF TypeOK, HeadsKnown
<1>6. \A c \in Chain : /\ rpcFinal[c] \in Nat /\ rpcFinal'[c] \in Nat /\ final[c] \in Nat
                       /\ served[c] \in Nat /\ served'[c] \in Nat
                       /\ found[c] \in Nat \cup {None} /\ least[c] \in Nat
                       /\ Resumed(c) \in Nat /\ HeadOf(c) \in Nat
  BY <1>1, <1>3, <1>5, TypeFacts, BlockIsNat, ResumedOK, HeadsOK
<1>7. ASSUME NEW c \in Chain
      PROVE  /\ Resumed(c)' = Resumed(c) /\ HeadOf(c)' \in Nat /\ HeadOf(c) <= HeadOf(c)'
             /\ AtLeast(HeadOf(c), Resumed(c)) <= AtLeast(HeadOf(c)', Resumed(c)')
  <2>1. Resumed(c)' = Resumed(c) BY <1>2, SameRows
  <2>2. HeadOf(c)' \in Nat /\ HeadOf(c) <= HeadOf(c)'
    BY <1>2, <1>3, <1>6 DEF HeadOf
  <2>3. QED BY <1>6, <2>1, <2>2 DEF AtLeast
<1>8. Grounded' BY <1>1, <1>2, <1>3, <1>6 DEF Grounded, Fetching
<1>9. LeastHolds'
  <2>1. ASSUME stage = "drained" \/ Awaiting,
               NEW c \in Chain, NEW b \in Boundaries(c, final[c])'
        PROVE  least[c] <= b
    <3>1. b \in Nat /\ \E a \in Boundaries(c, final[c]) : a <= b
      BY <1>2, <1>3, <1>5, <1>6, <2>1, BoundariesGrow
    <3>2. PICK a \in Boundaries(c, final[c]) : a <= b BY <3>1
    <3>3. a \in Nat BY <1>5, <1>6, BoundariesOK
    <3>4. least[c] <= a BY <1>1, <2>1 DEF LeastHolds
    <3>5. QED BY <1>6, <3>1, <3>2, <3>3, <3>4
  <2>2. QED BY <1>2, <2>1 DEF LeastHolds, Awaiting
<1>10. \A c \in app.stream : c \in Chain BY <1>1, CutoverAssumption DEF TypeOK
<1>11. BoundaryServed'
  <2>1. ASSUME stage \notin {"booting", "live"}, NEW c \in app.stream
        PROVE  final[c] <= AtLeast(HeadOf(c)', Resumed(c)')
    <3>1. c \in Chain BY <1>10
    <3>2. final[c] <= AtLeast(HeadOf(c), Resumed(c)) BY <1>1, <2>1 DEF BoundaryServed, HeadOf
    <3>3. QED BY <1>6, <1>7, <3>1, <3>2 DEF AtLeast
  <2>2. QED BY <1>2, <2>1 DEF BoundaryServed, HeadOf
<1>12. Answers'
  <2>1. ASSUME Awaiting, NEW c \in Chain, found[c] # None
        PROVE  /\ final[c] <= found[c] /\ found[c] <= rpcFinal'[c]
               /\ c \in app.stream => found[c] <= AtLeast(HeadOf(c)', Resumed(c)')
               /\ stage = "reprobing" \/ c \in probed => least[c] <= found[c]
    <3>1. /\ final[c] <= found[c] /\ found[c] <= rpcFinal[c] /\ found[c] \in Nat
          /\ c \in app.stream => found[c] <= AtLeast(HeadOf(c), Resumed(c))
          /\ stage = "reprobing" \/ c \in probed => least[c] <= found[c]
      BY <1>1, <1>6, <2>1 DEF Answers
    <3>2. found[c] <= rpcFinal'[c] BY <1>3, <1>6, <3>1
    <3>3. c \in app.stream => found[c] <= AtLeast(HeadOf(c)', Resumed(c)')
      BY <1>6, <1>7, <3>1 DEF AtLeast
    <3>4. QED BY <3>1, <3>2, <3>3
  <2>2. QED BY <1>2, <2>1 DEF Answers, Awaiting
<1>13. Phases' BY <1>1, <1>2 DEF Phases, Omnichain
<1>14. Reverted'
  <2>1. \A e : rows'[e[1]] = rows[e[1]] /\ Moment(rows[e[1]])' = Moment(rows[e[1]])
    BY <1>2 DEF Moment, Time, Stamp
  <2>2. QED BY <1>1, <1>2, <2>1 DEF Reverted
<1>15. Counted' /\ Held' BY <1>1, <1>2 DEF Counted, Held, Running
<1>16. QED BY <1>4, <1>8, <1>9, <1>11, <1>12, <1>13, <1>14, <1>15 DEF IInv

-----------------------------------------------------------------------------
(* Every step, and so every state.                                           *)

LEMMA StutterKeeps == ASSUME IInv, UNCHANGED vars PROVE IInv'
<1>1. /\ UNCHANGED <<app, headVars>> /\ UNCHANGED <<app, rpcFinal, served>>
      /\ UNCHANGED <<stage, final, cursor, parked, probed, found, least>>
      /\ UNCHANGED <<indexed, synced, rows, tied>>
  BY DEF vars, headVars, roundVars, durableVars, startVars
<1>2. /\ TypeOK /\ Grounded /\ LeastHolds /\ Answers /\ Phases /\ Reverted /\ BoundaryServed
      /\ Counted /\ Held
  BY DEF IInv
<1>3. \A c \in Chain : Resumed(c)' = Resumed(c) /\ HeadOf(c)' = HeadOf(c)
  BY <1>1, SameRows, SameHeads
<1>4. TypeOK' BY <1>1, <1>2 DEF TypeOK
<1>5. Grounded' BY <1>1, <1>2 DEF Grounded, Fetching
<1>6. LeastHolds'
  <2>1. CASE stage = "drained" \/ Awaiting BY <1>1, <1>2, <2>1, SameLeast
  <2>2. CASE ~(stage = "drained" \/ Awaiting) BY <1>1, <2>2 DEF LeastHolds, Awaiting
  <2>3. QED BY <2>1, <2>2
<1>7. Answers' BY <1>1, <1>2, <1>3 DEF Answers, Awaiting
<1>8. Phases' BY <1>1, <1>2 DEF Phases, Omnichain
<1>9. Reverted'
  <2>1. \A e : rows'[e[1]] = rows[e[1]] /\ Moment(rows[e[1]])' = Moment(rows[e[1]])
    BY <1>1 DEF Moment, Time, Stamp
  <2>2. QED BY <1>1, <1>2, <2>1 DEF Reverted
<1>10. BoundaryServed'
  <2>1. CASE stage \in {"booting", "live"} BY <1>1, <2>1 DEF BoundaryServed
  <2>2. CASE stage \notin {"booting", "live"} BY <1>1, <1>2, <2>2, SameServed
  <2>3. QED BY <2>1, <2>2
<1>11. Counted' /\ Held' BY <1>1, <1>2 DEF Counted, Held, Running
<1>12. QED BY <1>4, <1>5, <1>6, <1>7, <1>8, <1>9, <1>10, <1>11 DEF IInv

LEMMA NextKeeps == ASSUME IInv, [Next]_vars PROVE IInv'
<1>1. CASE Boot BY <1>1, BootKeeps
<1>2. CASE RefuseBoot \/ \E c \in Chain : ProbeThrows(c) BY <1>2, ThrowKeeps
<1>3. CASE Drain BY <1>3, DrainKeeps
<1>4. CASE SkipRound \/ FreshEnough \/ NoCatchup
  BY <1>4, LiveKeeps DEF SkipRound, FreshEnough, NoCatchup, Fetching
<1>5. CASE ProbeHeads BY <1>5, ProbeKeeps
<1>6. CASE \E c \in Chain : Answer(c) BY <1>6, AnswerKeeps
<1>7. CASE PhaseTwo BY <1>7, PhaseTwoKeeps
<1>8. CASE Adopt BY <1>8, AdoptKeeps
<1>9. CASE \E c \in Chain : Follow(c) BY <1>9, FollowKeeps
<1>10. CASE \E c \in Chain : Checkpoint(c) BY <1>10, CheckpointKeeps
<1>11. CASE \E c \in Chain : RpcAdvances(c) \/ PortalAdvances(c) BY <1>11, HeadsKeep
<1>12. CASE Crash BY <1>12, CrashKeeps
<1>13. CASE Finished \/ UNCHANGED vars BY <1>13, StutterKeeps DEF Finished
<1>14. QED
  BY <1>1, <1>2, <1>3, <1>4, <1>5, <1>6, <1>7, <1>8, <1>9, <1>10, <1>11, <1>12, <1>13
  DEF Next

LEMMA Inductive == Spec => []IInv
<1>1. Init => IInv BY InitOK
<1>2. IInv /\ [Next]_vars => IInv' BY NextKeeps
<1>3. QED BY <1>1, <1>2, PTL DEF Spec

(* Type correctness; what is parked is stored and not indexed, and only where   *)
(* the chains share one order (the parked tail of the omnichain generator).     *)
THEOREM CutoverTyped == Spec => []TypeOK
<1>1. IInv => TypeOK BY DEF IInv
<1>2. QED BY <1>1, Inductive, PTL

(* However far the replicas of the Portal lag, and whichever chain's checkpoint  *)
(* a floor is derived from, the backfill targets nothing the Portal does not    *)
(* serve (clampFinalizedToPortalHead, deriveFinalityFloor).                   *)
THEOREM BoundaryIsServed == Spec => []BoundaryServed
<1>1. IInv => BoundaryServed BY DEF IInv
<1>2. QED BY <1>1, Inductive, PTL

(* No event is indexed twice, however often the process dies: the boundary of a  *)
(* restart is not below what a checkpoint covers (deriveFinalityFloor), unless   *)
(* it is another chain's checkpoint at the very time of the event.            *)
THEOREM EventsIndexedOnce == Spec => []IndexedOnce
<1>1. IInv => IndexedOnce
  <2>1. SUFFICES ASSUME IInv, NEW e \in Events, e \notin tied PROVE indexed[e] <= 1
    BY DEF IndexedOnce
  <2>2. indexed[e] \in Nat BY <2>1, TypeFacts DEF IInv
  <2>3. indexed[e] > 0 => indexed[e] = 1 BY <2>1 DEF IInv, Counted
  <2>4. QED BY <2>2, <2>3
<1>2. QED BY <1>1, Inductive, PTL

-----------------------------------------------------------------------------
(* The refinement.                                                         *)

(* A round that goes live has nothing parked, or has probed every chain and     *)
(* found none to have advanced past its finality depth.                       *)
LEMMA GoingLive ==
  ASSUME IInv, SkipRound \/ FreshEnough \/ NoCatchup
  PROVE  parked = {} \/ \A c \in Chain : least[c] - final[c] <= Depth[c]
<1>1. TypeOK /\ Answers /\ Phases BY DEF IInv
<1>2. ~Omnichain => parked = {} BY <1>1 DEF TypeOK, Omnichain
<1>3. CASE SkipRound BY <1>2, <1>3 DEF SkipRound, SkipsRound
<1>4. CASE FreshEnough BY <1>2, <1>4 DEF FreshEnough
<1>5. CASE NoCatchup /\ Omnichain /\ parked # {}
  <2>1. stage = "probing" /\ Answered /\ ~ShouldCatchup BY <1>5 DEF NoCatchup
  <2>2. ASSUME NEW c \in Chain PROVE least[c] - final[c] <= Depth[c]
    <3>1. c \in probed /\ found[c] # None BY <1>1, <1>5, <2>1 DEF Phases, Answered
    <3>2. least[c] <= found[c] BY <1>1, <2>1, <3>1 DEF Answers, Awaiting
    <3>3. ~(found[c] - final[c] > Depth[c]) BY <2>1 DEF ShouldCatchup
    <3>4. found[c] \in Nat /\ final[c] \in Nat /\ least[c] \in Nat /\ Depth[c] \in Nat
      BY <1>1, <3>1, TypeFacts
    <3>5. QED BY <3>2, <3>3, <3>4
  <2>3. QED BY <2>2
<1>6. QED BY <1>2, <1>3, <1>4, <1>5

LEMMA StepsOfLoop == ASSUME IInv, [Next]_vars PROVE [Loop!Next]_(Loop!vars)
<1>1. TypeOK BY DEF IInv
<1> USE DEF StageOfLoop, Omnichain
<1>2. CASE Boot BY <1>2 DEF Boot, Loop!Next, Loop!Start
<1>3. CASE RefuseBoot \/ \E c \in Chain : ProbeThrows(c)
  BY <1>3 DEF RefuseBoot, ProbeThrows, Loop!Next, Loop!Stop
<1>4. CASE Drain BY <1>4 DEF Drain, Loop!Next, Loop!Drain
<1>5. CASE SkipRound \/ FreshEnough \/ NoCatchup
  <2>1. stage' = "live" /\ UNCHANGED <<app, final, least>> /\ stage \in {"drained", "probing"}
    BY <1>5 DEF SkipRound, FreshEnough, NoCatchup, GoesLive
  <2>2. parked = {} \/ \A c \in Chain : least[c] - final[c] <= Depth[c] BY <1>5, GoingLive
  <2>3. QED BY <2>1, <2>2 DEF Loop!Next, Loop!GoLive
<1>6. CASE ProbeHeads \/ PhaseTwo \/ \E c \in Chain : Answer(c)
  BY <1>6 DEF ProbeHeads, PhaseTwo, Answer, Loop!vars
<1>7. CASE Adopt
  <2>1. UNCHANGED <<app, parked, least>> BY <1>7 DEF Adopt
  <2>2. /\ stage \in {"probing", "reprobing"} /\ stage' = "draining" /\ final' = found
        /\ \A c \in Chain : final[c] <= found[c] /\ (Omnichain => least[c] <= found[c])
        /\ \E c \in Chain : found[c] - final[c] > Depth[c]
    BY <1>7, Adopted DEF Awaiting
  <2>3. \A c \in Chain : found[c] \in Nat /\ final[c] \in Nat /\ least[c] \in Nat
    BY <1>1, <1>7, Adopted, TypeFacts
  <2>4. QED BY <2>1, <2>2, <2>3 DEF Loop!Next, Loop!CatchUp
<1>8. CASE \E d \in Chain : Follow(d)
  <2>1. PICK d \in Chain : Follow(d) BY <1>8
  <2>2. PICK n : n > final[d] /\ n \in Int /\ final' = [final EXCEPT ![d] = n]
    <3>1. final[d] \in Nat BY <1>1, TypeFacts
    <3>2. PICK m \in (final[d] + 1)..AtMost(IF d \in app.stream THEN served[d] ELSE rpcFinal[d],
                                           app.end[d]) :
            final' = [final EXCEPT ![d] = m]
      BY <2>1 DEF Follow
    <3>3. m > final[d] /\ m \in Int BY <3>1, <3>2
    <3>4. QED BY <3>2, <3>3
  <2>3. \A c \in Chain : final[c] \in Nat BY <1>1, TypeFacts
  <2>4. \A c \in Chain : final'[c] >= final[c] BY <1>1, <2>2, <2>3 DEF TypeOK
  <2>5. stage = "live" /\ stage' = stage /\ UNCHANGED <<app, parked, least>>
    BY <2>1 DEF Follow
  <2>6. QED BY <2>4, <2>5 DEF Loop!Next, Loop!Advance
<1>9. CASE \E c \in Chain : Checkpoint(c) \/ RpcAdvances(c) \/ PortalAdvances(c)
  BY <1>9 DEF Checkpoint, RpcAdvances, PortalAdvances, roundVars, Loop!vars
<1>10. CASE Crash BY <1>10 DEF Crash, Loop!Next, Loop!Stop
<1>11. CASE Finished \/ UNCHANGED vars BY <1>11 DEF Finished, vars, roundVars, Loop!vars
<1>12. QED
  BY <1>2, <1>3, <1>4, <1>5, <1>6, <1>7, <1>8, <1>9, <1>10, <1>11 DEF Next

(* The guarded loop implements ponder's: it adopts on a round what ponder would, *)
(* and goes live with events parked only where ponder would.                  *)
THEOREM CutoverImplementsLoop == Spec => LoopSpec
<1>1. Init => Loop!Init BY DEF Init, Loop!Init, StageOfLoop
<1>2. IInv /\ [Next]_vars => [Loop!Next]_(Loop!vars) BY StepsOfLoop
<1>3. QED BY <1>1, <1>2, Inductive, PTL DEF Spec, LoopSpec, Loop!Spec
=============================================================================
