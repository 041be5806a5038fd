------------------------------- MODULE NatSets -------------------------------
(***************************************************************************)
(* Facts about naturals, finite sets and sequences that the other proofs cite. *)
(***************************************************************************)
EXTENDS Integers, SequencesExt, FiniteSetTheorems, SequenceTheorems,
        WellFoundedInduction, TLAPS

(* Every non-empty set of naturals has a least element: induction over block   *)
(* heights and births is by the least counterexample.                        *)
LEMMA LeastElement ==
  ASSUME NEW S, S \subseteq Nat, S # {}
  PROVE  \E n \in S : \A m \in S : n <= m
PROOF
<1> DEFINE Below == OpToRel(<, Nat)
<1>1. \A m, n \in Nat : m < n => <<m, n>> \in Below
  BY DEF OpToRel
<1>2. IsWellFoundedOn(Below, Nat) BY NatLessThanWellFounded
<1> HIDE DEF Below
<1>3. PICK n \in S : \A m \in S : <<m, n>> \notin Below
  BY <1>2, WFMin
<1>4. \A m \in S : ~(m < n) BY <1>1, <1>3
<1>5. \A m \in S : n <= m BY <1>3, <1>4
<1> QED BY <1>3, <1>5

(* Min of a set of naturals, and Max of a finite one, are what they say.       *)
LEMMA MinFact ==
  ASSUME NEW S, S \subseteq Nat, S # {}
  PROVE  Min(S) \in S /\ \A m \in S : Min(S) <= m
PROOF
<1>1. PICK n \in S : \A m \in S : n <= m BY LeastElement
<1> QED BY <1>1 DEF Min

LEMMA MaxFact ==
  ASSUME NEW S, S \subseteq Nat, S # {}, IsFiniteSet(S)
  PROVE  Max(S) \in S /\ \A m \in S : m <= Max(S)
PROOF
<1> DEFINE Above(x) == {y \in S : y > x}
           C == [x \in S |-> Cardinality(Above(x))]
           T == {C[x] : x \in S}
<1>1. \A x \in S : IsFiniteSet(Above(x)) /\ C[x] = Cardinality(Above(x)) /\ C[x] \in Nat
  BY FS_Subset, FS_CardinalityType
<1>2. T \subseteq Nat /\ T # {} BY <1>1
<1>3. PICK n \in T : \A m \in T : n <= m BY <1>2, LeastElement
<1>4. PICK x \in S : n = C[x] BY <1>3
<1>5. \A y \in S : C[x] <= C[y] BY <1>3, <1>4
<1>6. ASSUME NEW y \in S, y > x PROVE FALSE
  <2>0. x \in Nat /\ y \in Nat /\ y > x /\ ~(y > y) /\ \A z \in S : z > y => z > x
    BY <1>6
  <2>1. Above(y) \in SUBSET Above(x) /\ y \in Above(x) /\ y \notin Above(y)
    BY <2>0
  <2> HIDE DEF Above
  <2>2. Cardinality(Above(y)) < Cardinality(Above(x))
    BY <2>1, <1>1, FS_Subset
  <2> QED BY <2>2, <1>1, <1>5
<1>7. \A y \in S : y <= x BY <1>6
<1> QED BY <1>7 DEF Max

(* SetToSeq lists a finite set.                                            *)
LEMMA SetToSeqFact ==
  ASSUME NEW S, IsFiniteSet(S)
  PROVE  SetToSeq(S) \in Seq(S) /\ ToSet(SetToSeq(S)) = S
PROOF
<1> DEFINE n == Cardinality(S)
<1>1. n \in Nat /\ ExistsBijection(1..n, S) BY FS_CardinalityType
<1>2. PICK f \in Bijection(1..n, S) : TRUE BY <1>1 DEF ExistsBijection
<1>3. f \in [1..n -> S] /\ IsInjective(f)
  BY <1>2 DEF Bijection, Injection, IsInjective
<1> DEFINE g == SetToSeq(S)
<1>4. g \in [1..n -> S] /\ IsInjective(g)
  BY <1>3 DEF SetToSeq
<1> HIDE DEF g
<1>5. g \in Injection(1..n, S) BY <1>4 DEF Injection, IsInjective
<1>6. Cardinality(1..n) = n /\ IsFiniteSet(1..n) BY <1>1, FS_Interval
<1>7. g \in Surjection(1..n, S) BY <1>5, <1>6, FS_Injection
<1>8. ToSet(g) = S BY <1>4, <1>7 DEF Surjection, ToSet
<1>9. g \in Seq(S) BY <1>4, <1>1, SeqDef
<1> QED BY <1>8, <1>9 DEF g

(* The image of a finite set is finite.                                    *)
LEMMA ImageFinite ==
  ASSUME NEW S, IsFiniteSet(S), NEW g, DOMAIN g = S
  PROVE  IsFiniteSet({g[x] : x \in S})
PROOF
<1> DEFINE T == {g[x] : x \in S}  h == [x \in S |-> g[x]]
<1>1. h \in Surjection(S, T) BY DEF Surjection
<1> QED BY <1>1, FS_Surjection

(* The members of a sequence, of one that grows, and of one that shrinks.       *)
LEMMA MembersOfConcat ==
  ASSUME NEW S, NEW s \in Seq(S), NEW t \in Seq(S)
  PROVE  s \o t \in Seq(S) /\ ToSet(s \o t) = ToSet(s) \cup ToSet(t)
PROOF
<1>1. /\ s \o t \in Seq(S) /\ Len(s \o t) = Len(s) + Len(t)
      /\ \A i \in 1..(Len(s) + Len(t)) :
           (s \o t)[i] = IF i <= Len(s) THEN s[i] ELSE t[i - Len(s)]
  BY ConcatProperties
<1>2. Len(s) \in Nat /\ Len(t) \in Nat /\ DOMAIN s = 1..Len(s) /\ DOMAIN t = 1..Len(t)
      /\ DOMAIN (s \o t) = 1..(Len(s) + Len(t))
  BY <1>1, LenProperties
<1>3. ASSUME NEW x \in ToSet(s \o t) PROVE x \in ToSet(s) \cup ToSet(t)
  <2>1. PICK i \in 1..(Len(s) + Len(t)) : x = (s \o t)[i] BY <1>2 DEF ToSet
  <2>2. CASE i <= Len(s)
    BY <2>1, <2>2, <1>1, <1>2 DEF ToSet
  <2>3. CASE i > Len(s)
    <3>1. x = t[i - Len(s)] /\ i - Len(s) \in DOMAIN t BY <2>1, <2>3, <1>1, <1>2
    <3> QED BY <3>1 DEF ToSet
  <2> QED BY <2>2, <2>3, <1>2
<1>4. ASSUME NEW x \in ToSet(s) PROVE x \in ToSet(s \o t)
  <2>1. PICK i \in 1..Len(s) : x = s[i] BY <1>2 DEF ToSet
  <2>2. x = (s \o t)[i] /\ i \in 1..(Len(s) + Len(t)) BY <2>1, <1>1, <1>2
  <2> QED BY <2>2, <1>2 DEF ToSet
<1>5. ASSUME NEW x \in ToSet(t) PROVE x \in ToSet(s \o t)
  <2>1. PICK i \in 1..Len(t) : x = t[i] BY <1>2 DEF ToSet
  <2> DEFINE j == Len(s) + i
  <2>2. j \in 1..(Len(s) + Len(t)) /\ ~(j <= Len(s)) /\ j - Len(s) = i BY <2>1, <1>2
  <2>3. x = (s \o t)[j] BY <2>1, <2>2, <1>1
  <2> QED BY <2>2, <2>3, <1>2 DEF ToSet
<1> QED BY <1>1, <1>3, <1>4, <1>5

LEMMA MembersOfAppend ==
  ASSUME NEW S, NEW s \in Seq(S), NEW x \in S
  PROVE  Append(s, x) \in Seq(S) /\ ToSet(Append(s, x)) = ToSet(s) \cup {x}
PROOF
<1>1. /\ Append(s, x) \in Seq(S) /\ Len(Append(s, x)) = Len(s) + 1
      /\ \A i \in 1..Len(s) : Append(s, x)[i] = s[i]
      /\ Append(s, x)[Len(s) + 1] = x
  BY AppendProperties
<1>2. Len(s) \in Nat /\ DOMAIN s = 1..Len(s) /\ DOMAIN Append(s, x) = 1..(Len(s) + 1)
  BY <1>1, LenProperties
<1>3. ASSUME NEW y \in ToSet(Append(s, x)) PROVE y \in ToSet(s) \cup {x}
  <2>1. PICK i \in 1..(Len(s) + 1) : y = Append(s, x)[i] BY <1>2 DEF ToSet
  <2>2. CASE i = Len(s) + 1 BY <2>1, <2>2, <1>1
  <2>3. CASE i # Len(s) + 1
    <3>1. i \in 1..Len(s) BY <2>1, <2>3, <1>2
    <3>2. y = s[i] BY <3>1, <2>1, <1>1
    <3> QED BY <3>1, <3>2, <1>2 DEF ToSet
  <2> QED BY <2>2, <2>3
<1>4. ASSUME NEW y \in ToSet(s) PROVE y \in ToSet(Append(s, x))
  <2>1. PICK i \in 1..Len(s) : y = s[i] BY <1>2 DEF ToSet
  <2>2. i \in 1..(Len(s) + 1) /\ y = Append(s, x)[i] BY <2>1, <1>1, <1>2
  <2> QED BY <2>2, <1>2 DEF ToSet
<1>5. x \in ToSet(Append(s, x))
  <2>1. Len(s) + 1 \in DOMAIN Append(s, x) BY <1>2
  <2> QED BY <2>1, <1>1 DEF ToSet
<1> QED BY <1>1, <1>3, <1>4, <1>5

(* A non-empty sequence has its ends among its members, and a search that finds   *)
(* something finds a member.                                               *)
LEMMA SequenceOfMembers ==
  ASSUME NEW S, NEW s \in Seq(S)
  PROVE  s \in Seq(ToSet(s)) /\ ToSet(s) \subseteq S
PROOF
<1>1. Len(s) \in Nat /\ DOMAIN s = 1..Len(s) /\ s \in [1..Len(s) -> S]
  BY LenProperties
<1>2. ToSet(s) = {s[i] : i \in 1..Len(s)} BY <1>1 DEF ToSet
<1>3. s \in [1..Len(s) -> ToSet(s)] BY <1>1, <1>2
<1>4. s \in Seq(ToSet(s)) BY <1>1, <1>3, IsASeq
<1> QED BY <1>1, <1>2, <1>4

LEMMA EndsAreMembers ==
  ASSUME NEW S, NEW s \in Seq(S), s # <<>>
  PROVE  Head(s) \in ToSet(s) /\ Last(s) \in ToSet(s)
PROOF
<1>1. Len(s) \in Nat \ {0} /\ DOMAIN s = 1..Len(s) BY LenProperties, EmptySeq
<1>2. Head(s) = s[1] /\ Last(s) = s[Len(s)] BY DEF Last
<1>3. 1 \in DOMAIN s /\ Len(s) \in DOMAIN s BY <1>1
<1> QED BY <1>2, <1>3 DEF ToSet

LEMMA MaxOfTwo ==
  ASSUME NEW a \in Int, NEW b \in Int
  PROVE  Max({a, b}) = IF a >= b THEN a ELSE b
BY DEF Max

LEMMA MinOfTwo ==
  ASSUME NEW a \in Int, NEW b \in Int
  PROVE  Min({a, b}) = IF a <= b THEN a ELSE b
BY DEF Min

LEMMA MaxOfInterval ==
  ASSUME NEW k \in Nat \ {0}
  PROVE  Max(1..k) = k
PROOF
<1>1. 1..k \subseteq Nat /\ k \in 1..k OBVIOUS
<1>3. IsFiniteSet(1..k) BY FS_Interval
<1>2. Max(1..k) \in 1..k /\ \A m \in 1..k : m <= Max(1..k) BY <1>1, <1>3, MaxFact
<1> QED BY <1>1, <1>2

(* What a fold over 1..k is defined by exists, when its steps stay in a set.     *)
IsFold(iter, T, base, k, G) ==
  /\ iter \in [SUBSET (1..k) -> T]
  /\ \A s \in SUBSET (1..k) :
       iter[s] = IF s = {} THEN base ELSE G[<<iter[s \ {Max(s)}], Max(s)>>]

LEMMA FoldExists ==
  ASSUME NEW T, NEW base \in T, NEW k \in Nat, NEW G \in [T \X (1..k) -> T]
  PROVE  \E iter : IsFold(iter, T, base, k, G)
PROOF
<1> DEFINE Runs(m, iter) ==
             /\ iter \in [SUBSET (1..m) -> T]
             /\ \A s \in SUBSET (1..m) :
                  iter[s] = IF s = {} THEN base ELSE G[<<iter[s \ {Max(s)}], Max(s)>>]
           Bad == {m \in 0..k : ~\E iter : Runs(m, iter)}
<1>1. SUFFICES ASSUME Bad # {} PROVE FALSE
  <2>1. SUFFICES \E iter : Runs(k, iter) BY DEF IsFold
  <2>2. k \in 0..k OBVIOUS
  <2> HIDE DEF Runs
  <2> QED BY <1>1, <2>2
<1>2. PICK m \in Bad : \A i \in Bad : m <= i
  <2>1. Bad \subseteq Nat OBVIOUS
  <2> HIDE DEF Bad
  <2> QED BY <1>1, <2>1, LeastElement
<1>3. m # 0
  <2> DEFINE iter == [s \in SUBSET (1..0) |-> base]
  <2>1. \A s \in SUBSET (1..0) : s = {} OBVIOUS
  <2>2. Runs(0, iter) BY <2>1
  <2> HIDE DEF Runs
  <2> QED BY <2>2
<1>11. m \in Nat /\ 1 <= m /\ m <= k
  <2>1. Bad \subseteq 0..k OBVIOUS
  <2> HIDE DEF Bad
  <2> QED BY <2>1, <1>2, <1>3
<1>4. m - 1 \in 0..k /\ m - 1 \notin Bad
  <2> HIDE DEF Bad
  <2> QED BY <1>2, <1>11
<1>5. PICK low : Runs(m - 1, low) BY <1>4
<1> DEFINE iter == [s \in SUBSET (1..m) |-> IF m \in s THEN G[<<low[s \ {m}], m>>] ELSE low[s]]
<1>6. \A s \in SUBSET (1..m) : s \ {m} \in SUBSET (1..(m - 1)) /\ (m \notin s => s \in SUBSET (1..(m - 1)))
  BY <1>11
<1>7. iter \in [SUBSET (1..m) -> T]
  BY <1>11, <1>5, <1>6
<1>8. ASSUME NEW s \in SUBSET (1..m)
      PROVE  iter[s] = IF s = {} THEN base ELSE G[<<iter[s \ {Max(s)}], Max(s)>>]
  <2>1. CASE s = {} BY <2>1, <1>5, <1>6, <1>11
  <2>2. CASE s # {}
    <3>1. s \subseteq Nat /\ IsFiniteSet(s)
      <4>1. IsFiniteSet(1..m) /\ 1..m \subseteq Nat BY <1>11, FS_Interval
      <4> QED BY <4>1, FS_Subset
    <3>2. Max(s) \in s /\ \A i \in s : i <= Max(s) BY <2>2, <3>1, MaxFact
    <3>3. s \ {Max(s)} \in SUBSET (1..m) OBVIOUS
    <3>4. CASE m \in s
      <4>1. Max(s) = m
        <5>1. Max(s) \in 1..m /\ m <= Max(s) BY <3>2, <3>4
        <5> QED BY <5>1, <1>11
      <4>2. iter[s \ {m}] = low[s \ {m}] BY <1>6, <3>3, <4>1
      <4> QED BY <4>1, <4>2, <3>4, <2>2
    <3>5. CASE m \notin s
      <4>1. iter[s \ {Max(s)}] = low[s \ {Max(s)}] BY <3>3, <3>5
      <4>2. iter[s] = low[s] BY <3>5
      <4>3. s \in SUBSET (1..(m - 1)) BY <3>5, <1>6
      <4> QED BY <4>1, <4>2, <4>3, <2>2, <1>5
    <3> QED BY <3>4, <3>5
  <2> QED BY <2>1, <2>2
<1>9. Runs(m, iter) BY <1>7, <1>8
<1>10. m \notin Bad
  <2> HIDE DEF Runs, iter
  <2> QED BY <1>9
<1> QED BY <1>10, <1>2

(* A flattened sequence has the members of its sequences.                     *)
LEMMA FlattenFact ==
  ASSUME NEW S, NEW seqs \in Seq(Seq(S))
  PROVE  /\ FlattenSeq(seqs) \in Seq(S)
         /\ ToSet(FlattenSeq(seqs)) = UNION {ToSet(seqs[i]) : i \in DOMAIN seqs}
PROOF
<1> DEFINE k == Len(seqs)
           Step(f, i) == IF i = 1 THEN seqs[i] ELSE f[i - 1] \o seqs[i]
           Flat(m, f) == f \in [1..m -> Seq(S)] /\ \A i \in 1..m : f[i] = Step(f, i)
           Bad == {m \in 0..k : ~\E f : Flat(m, f)}
<1>1. k \in Nat /\ DOMAIN seqs = 1..k /\ \A i \in 1..k : seqs[i] \in Seq(S)
  BY LenProperties, ElementOfSeq
<1>2. Bad = {}
  <2>1. SUFFICES ASSUME Bad # {} PROVE FALSE OBVIOUS
  <2>2. PICK m \in Bad : \A i \in Bad : m <= i
    <3>1. Bad \subseteq Nat BY <1>1
    <3> HIDE DEF Bad
    <3> QED BY <2>1, <3>1, LeastElement
  <2>3. m # 0
    <3> DEFINE f == [i \in 1..0 |-> <<>>]
    <3>1. Flat(0, f) BY EmptySeq
    <3> HIDE DEF Flat
    <3> QED BY <3>1
  <2>11. m \in Nat /\ 1 <= m /\ m <= k
    <3>1. Bad \subseteq 0..k OBVIOUS
    <3> HIDE DEF Bad
    <3> QED BY <3>1, <1>1, <2>2, <2>3
  <2>4. m - 1 \in 0..k /\ m - 1 \notin Bad
    <3> HIDE DEF Bad
    <3> QED BY <1>1, <2>2, <2>11
  <2>5. PICK low : Flat(m - 1, low) BY <2>4
  <2> DEFINE f == [i \in 1..m |-> IF i = m THEN Step(low, m) ELSE low[i]]
  <2>6. Step(low, m) \in Seq(S)
    <3>1. m \in 1..k BY <1>1, <2>11
    <3>2. m # 1 => low[m - 1] \in Seq(S) BY <2>5, <3>1
    <3> QED BY <1>1, <3>1, <3>2, ConcatProperties
  <2>7. f \in [1..m -> Seq(S)] BY <2>11, <2>5, <2>6
  <2>8. ASSUME NEW i \in 1..m PROVE f[i] = Step(f, i)
    <3>1. CASE i = m
      <4>1. m # 1 => f[m - 1] = low[m - 1] BY <2>11
      <4> QED BY <4>1, <3>1, <2>11
    <3>2. CASE i # m
      <4>1. i \in 1..(m - 1) BY <3>2, <2>11
      <4>2. low[i] = Step(low, i) /\ f[i] = low[i] BY <2>5, <4>1, <2>11
      <4>3. i # 1 => i - 1 \in 1..(m - 1) /\ i - 1 # m BY <4>1, <2>11
      <4>4. i # 1 => f[i - 1] = low[i - 1] BY <4>3, <2>11
      <4> QED BY <4>2, <4>4
    <3> QED BY <3>1, <3>2
  <2>9. Flat(m, f) BY <2>7, <2>8
  <2>10. m \notin Bad
    <3> HIDE DEF Flat, f
    <3> QED BY <2>9
  <2> QED BY <2>10, <2>2
<1>3. CASE k = 0
  <2>1. FlattenSeq(seqs) = seqs BY <1>3 DEF FlattenSeq
  <2>2. seqs = <<>> BY <1>3, EmptySeq
  <2> QED BY <2>1, <2>2, <1>1, <1>3, EmptySeq DEF ToSet
<1>4. CASE k # 0
  <2>1. k \notin Bad /\ k \in 0..k
    <3> HIDE DEF Bad
    <3> QED BY <1>1, <1>2
  <2>2. \E f : f = [i \in 1..k |-> Step(f, i)]
    <3>1. PICK f : Flat(k, f) BY <2>1
    <3>2. f = [i \in 1..k |-> Step(f, i)] BY <3>1
    <3> QED BY <3>2
  <2> DEFINE flat == CHOOSE f : f = [i \in 1..k |-> Step(f, i)]
  <2>3. flat = [i \in 1..k |-> Step(flat, i)] BY <2>2
  <2>4. FlattenSeq(seqs) = flat[k] BY <1>4 DEF FlattenSeq
  <2> HIDE DEF flat
  <2> DEFINE Fine(i) == flat[i] \in Seq(S) /\ ToSet(flat[i]) = UNION {ToSet(seqs[j]) : j \in 1..i}
             Wrong == {i \in 1..k : ~Fine(i)}
  <2>5. Wrong = {}
    <3>1. SUFFICES ASSUME Wrong # {} PROVE FALSE OBVIOUS
    <3>2. PICK i \in Wrong : \A j \in Wrong : i <= j
      <4>1. Wrong \subseteq Nat BY <1>1
      <4> HIDE DEF Wrong
      <4> QED BY <3>1, <4>1, LeastElement
    <3>3. flat[i] = Step(flat, i) BY <2>3, <3>2
    <3>4. CASE i = 1
      <4>1. flat[1] = seqs[1] BY <3>3, <3>4
      <4>2. UNION {ToSet(seqs[j]) : j \in 1..1} = ToSet(seqs[1]) OBVIOUS
      <4> QED BY <4>1, <4>2, <3>2, <3>4, <1>1
    <3>5. CASE i # 1
      <4>0. i \in Nat /\ 1 < i /\ i <= k
        <5>1. Wrong \subseteq 1..k OBVIOUS
        <5> HIDE DEF Wrong
        <5> QED BY <5>1, <1>1, <3>2, <3>5
      <4>1. i - 1 \in 1..k /\ i - 1 \notin Wrong
        <5> HIDE DEF Wrong
        <5> QED BY <1>1, <3>2, <4>0
      <4>2. Fine(i - 1) BY <4>1
      <4>3. flat[i] = flat[i - 1] \o seqs[i] BY <3>3, <3>5
      <4>4. flat[i] \in Seq(S) /\ ToSet(flat[i]) = ToSet(flat[i - 1]) \cup ToSet(seqs[i])
        BY <4>2, <4>3, <3>2, <1>1, MembersOfConcat
      <4>5. \A j \in 1..i : j \in 1..(i - 1) \/ j = i BY <1>1, <3>2
      <4>6. ToSet(flat[i]) = UNION {ToSet(seqs[j]) : j \in 1..i}
        <5>1. 1..(i - 1) \subseteq 1..i /\ i \in 1..i BY <1>1, <3>2
        <5> QED BY <4>2, <4>4, <4>5, <5>1
      <4> QED BY <4>4, <4>6, <3>2
    <3> QED BY <3>4, <3>5
  <2>6. k \in 1..k BY <1>1, <1>4
  <2>7. Fine(k) BY <2>5, <2>6
  <2> QED BY <2>4, <2>7, <1>1
<1> QED BY <1>3, <1>4
=============================================================================
