---------------------------- MODULE DataPathProofs ----------------------------
(***************************************************************************)
(* The data path keeps its word for every chain, app, dataset and bound: the     *)
(* store is exact below the interval that comes next, no row of it lacks a       *)
(* required column, no body is sent that the Portal would refuse for its size,   *)
(* and the process stops for a gap only where a row would be kept.             *)
(*                                                                         *)
(* DataPathInv says where a range is in its sources.  While a range is streamed a *)
(* source that was passed left either whole rows, or rows with a hole that are   *)
(* remembered as missing and, if assembly keeps one, as matched (FetchedOK); so a *)
(* range that ends without a gap leaves whole rows wherever they are kept         *)
(* (ResolvedOK), and only such blocks are assembled.                          *)
(*                                                                         *)
(* RowsInv adds that nothing is lost.  The bodies planned for a source ask for    *)
(* all that a filter wants, whatever the merging and sharding; a wanted row of    *)
(* the range is fetched, or asked for by a body still to be sent (PendingOK); so  *)
(* a range that ends has them all (CompleteOK), and an interval cut from it puts  *)
(* just those rows into the store (AssembledExact).                           *)
(*                                                                         *)
(* CoversOK is of the realtime: what is open asks for every log of a filter and   *)
(* every creation, and each wildcard is the key of a request, which is open.      *)
(* It holds while RequestsApart does: then the requests of a factory's children   *)
(* are merged with those of their peers alone (PeersOnly), so their key outlives  *)
(* every new child (KeysPersist), and a stream left open for new children has a   *)
(* wildcard for them (UnfilteredCovers).                                      *)
(*                                                                         *)
(* TracesAsStock is kept with TreesOK: a raw block of traces is whole.  The order   *)
(* of paths is strict and total (DfsTotal), so a sorted tree has each frame at the  *)
(* number of those before it (TreeOrderFact), its caller among them; hence one pass *)
(* finds the nearest failed ancestor of every frame (InheritStep, TreeErrorsFact).  *)
(***************************************************************************)
EXTENDS DataPathProperties, NatSets

-----------------------------------------------------------------------------
(* The constants.                                                          *)
Born(f) == UNION {CreatedIn(f, Chain[n].logs) : n \in Numbers}

LEMMA NumbersFact ==
  /\ LastNumber \in Nat /\ Numbers = 0..LastNumber /\ PortalHead \in Numbers
  /\ IsFiniteSet(Numbers) /\ FirstNumber = 0
PROOF
<1>1. LastNumber \in Nat /\ Numbers = 0..LastNumber /\ PortalHead \in Numbers
  BY DataPathAssumption
<1>2. IsFiniteSet(Numbers) BY <1>1, FS_Interval
<1>3. Min(Numbers) \in Numbers /\ \A m \in Numbers : Min(Numbers) <= m
  BY <1>1, MinFact
<1>4. FirstNumber = 0 BY <1>1, <1>3 DEF FirstNumber
<1> QED BY <1>1, <1>2, <1>4

LEMMA NoSentinel == Undefined # "gap"
BY ChainAssumption

LEMMA CreatedFinite ==
  ASSUME NEW f, NEW logs, IsFiniteSet(logs)
  PROVE  IsFiniteSet(CreatedIn(f, logs))
PROOF
<1> DEFINE S == {l \in logs : IsCreation(f, l)}  g == [l \in S |-> l.topic1]
<1>1. IsFiniteSet(S) BY FS_Subset
<1>2. IsFiniteSet({g[l] : l \in S}) BY <1>1, ImageFinite
<1>3. {g[l] : l \in S} = CreatedIn(f, logs) BY DEF CreatedIn
<1> QED BY <1>2, <1>3

LEMMA BornFinite ==
  ASSUME NEW f
  PROVE  IsFiniteSet(Born(f))
PROOF
<1> DEFINE g == [n \in Numbers |-> CreatedIn(f, Chain[n].logs)]
<1>1. IsFiniteSet({g[n] : n \in Numbers})
  <2>1. DOMAIN g = Numbers OBVIOUS
  <2> HIDE DEF g
  <2> QED BY <2>1, NumbersFact, ImageFinite
<1>2. \A T \in {g[n] : n \in Numbers} : IsFiniteSet(T)
  <2>1. \A n \in Numbers : IsFiniteSet(Chain[n].logs) BY ChainAssumption
  <2>2. \A n \in Numbers : IsFiniteSet(CreatedIn(f, Chain[n].logs)) BY <2>1, CreatedFinite
  <2> QED BY <2>2
<1>3. IsFiniteSet(UNION {g[n] : n \in Numbers}) BY <1>1, <1>2, FS_UNION
<1>4. Born(f) = UNION {g[n] : n \in Numbers} BY DEF Born
<1> QED BY <1>3, <1>4

LEMMA EveryoneFact ==
  ASSUME NEW f \in Factory
  PROVE  ToSet(Everyone[f]) = Born(f)
PROOF
<1>1. Everyone[f] = SetToSeq(Born(f)) BY DEF Everyone, Born
<1> QED BY <1>1, BornFinite, SetToSeqFact

(* A child of a factory was created by a block, and by none before its birth.   *)
LEMMA BirthFact ==
  ASSUME NEW f, NEW a \in Born(f)
  PROVE  /\ Birth(f, a) \in Numbers /\ a \in CreatedIn(f, Chain[Birth(f, a)].logs)
         /\ \A n \in Numbers : a \in CreatedIn(f, Chain[n].logs) => Birth(f, a) <= n
PROOF
<1> DEFINE S == {n \in Numbers : a \in CreatedIn(f, Chain[n].logs)}
<1>1. S \subseteq Nat /\ S # {} BY NumbersFact DEF Born
<1>2. Min(S) \in S /\ \A n \in S : Min(S) <= n BY <1>1, MinFact
<1>3. Birth(f, a) = Min(S) BY DEF Birth
<1> QED BY <1>2, <1>3

LEMMA AppFact ==
  ASSUME NEW a \in Apps
  PROVE  /\ Len(a) \in Nat \ {0} /\ DOMAIN a = 1..Len(a) /\ IsFiniteSet(DOMAIN a)
         /\ \A i \in DOMAIN a : a[i].lo \in Nat \cup {Undefined} /\ a[i].hi \in Nat \cup {Undefined}
PROOF
<1>1. a \in Seq(ToSet(a)) /\ a # <<>> BY AppsAssumption
<1>2. Len(a) \in Nat \ {0} /\ DOMAIN a = 1..Len(a) BY <1>1, LenProperties, EmptySeq
<1>3. IsFiniteSet(DOMAIN a) BY <1>2, FS_Interval
<1> QED BY <1>2, <1>3, AppsAssumption DEF IsFilter

-----------------------------------------------------------------------------
(* The inductive invariant, part by part.                                    *)

(* What a source was served of a block.                                      *)
RawAt(n) ==
  [number : {n}, has : SUBSET Fields, logs : SUBSET Chain[n].logs,
   traces : SUBSET Chain[n].traces, txs : SUBSET Chain[n].txs]

ChildrenOK == DOMAIN children = Factory /\ \A f \in Factory : children[f] \in Seq(Born(f))

(* Below discovery's watermark no child is missing.                           *)
ScanOK ==
  live = NotLive =>
    \A f \in Factory, n \in Numbers :
      n <= scanned => CreatedIn(f, Chain[n].logs) \subseteq ToSet(children[f])

CursorsOK ==
  /\ app \in Apps /\ dataset \in Datasets
  /\ scanned \in Int /\ scanned >= -1
  /\ done \in Nat /\ covered \in Nat /\ FirstNeeded <= done /\ done <= covered
  /\ done < covered =>
       covered <= DataEnd + 1 /\ (FactoriesOf(app) # {} => covered <= scanned + 1)

DataOK ==
  /\ DOMAIN data = ToSet(Sources)
  /\ \A s \in ToSet(Sources), n \in Numbers : data[s][n] \in Seq(RawAt(n))

(* The range that is streamed has the fields the model gives it.               *)
IsRange(r) ==
  r = [from |-> r.from, to |-> r.to, source |-> r.source, todo |-> r.todo, cursor |-> r.cursor,
       dropped |-> r.dropped, missing |-> r.missing, matched |-> r.matched, failed |-> r.failed]

FetchOK ==
  fetch # NoFetch =>
    /\ IsRange(fetch)
    /\ fetch.from = covered /\ fetch.to \in Numbers /\ fetch.from <= fetch.to
    /\ fetch.to <= DataEnd /\ DiscoveryReady(fetch.to)
    /\ fetch.source \in 1..4 /\ fetch.cursor \in Nat /\ fetch.from <= fetch.cursor
    /\ fetch.dropped \subseteq Fields /\ fetch.dropped \ Droppable \subseteq fetch.missing
    /\ fetch.matched \subseteq ToSet(Sources)

LiveOK == live # NotLive => fetch = NoFetch /\ done = covered /\ done > DataEnd

(* What a filter will want of a source and a block once every child is known.    *)
Wants(source, n) ==
  CASE source = "log" -> WantedLogs(n) # {}
    [] source = "trace" -> WantedTraces(n) # {}
    [] source = "block" -> BlockKept(app, n)
    [] source = "tx" -> WantedTxs(n) # {}

MatchedOK ==
  fetch # NoFetch =>
    \A s \in fetch.matched : \E n \in fetch.from..fetch.to : Wants(s, n)

FailedOK == fetch # NoFetch /\ fetch.failed = "gap" => IsGap(fetch)

(* A raw block that leaves a row in the store.                                *)
Keeps(source, raw) ==
  CASE source = "log" -> raw.logs \cap WantedLogs(raw.number) # {}
    [] source = "trace" -> raw.traces \cap WantedTraces(raw.number) # {}
    [] source = "block" -> TRUE
    [] source = "tx" -> raw.txs \cap WantedTxs(raw.number) # {}

Required(source) == FieldsOf(app, source) \ Droppable
RawsOf(source, n) == ToSet(data[source][n])

(* Above the resolved chunk there is only what the stream that runs has put.     *)
FetchedOK ==
  \A s \in ToSet(Sources), n \in Numbers : n >= covered =>
    \A raw \in RawsOf(s, n) :
      /\ fetch # NoFetch /\ n <= fetch.to
      /\ Required(s) \ fetch.missing \subseteq raw.has
      /\ Keeps(s, raw) => s \in fetch.matched

(* The sources whose rows emit a receipt.                                     *)
Emits(source) ==
  CASE source = "log" -> NeedReceipts(app)
    [] source = "trace" -> NeedTraceReceipts(app)
    [] source = "block" -> FALSE
    [] source = "tx" -> TRUE

(* In the resolved chunk a column that is missing is missing for no row's sake.  *)
ResolvedOK ==
  \A n \in Numbers : done <= n /\ n < covered =>
    /\ \/ \A s \in ToSet(Sources) : \A raw \in RawsOf(s, n) : Required(s) \ ReceiptFields \subseteq raw.has
       \/ \A s \in ToSet(Sources) : \A raw \in RawsOf(s, n) : ~Keeps(s, raw)
    /\ \/ \A s \in ToSet(Sources) : \A raw \in RawsOf(s, n) : Required(s) \cap ReceiptFields \subseteq raw.has
       \/ \A s \in ToSet(Sources) : \A raw \in RawsOf(s, n) : Emits(s) => ~Keeps(s, raw)

DataPathInv ==
  /\ CursorsOK /\ ChildrenOK /\ ScanOK /\ DataOK /\ FetchOK /\ LiveOK
  /\ MatchedOK /\ FailedOK /\ FetchedOK /\ ResolvedOK /\ NoSilentGap

-----------------------------------------------------------------------------
(* The definitions, as the proofs need them.                                 *)
LEMMA SourcesFact ==
  /\ ToSet(Sources) = {"log", "trace", "block", "tx"} /\ Len(Sources) = 4
  /\ \A i \in 1..4 : Sources[i] \in ToSet(Sources)
PROOF
<1>1. DOMAIN Sources = 1..4 /\ Len(Sources) = 4 BY DEF Sources
<1>2. Sources[1] = "log" /\ Sources[2] = "trace" /\ Sources[3] = "block" /\ Sources[4] = "tx"
  BY DEF Sources
<1>3. \A i \in 1..4 : i = 1 \/ i = 2 \/ i = 3 \/ i = 4 OBVIOUS
<1>4. ToSet(Sources) = {Sources[i] : i \in 1..4} BY <1>1 DEF ToSet
<1>5. {Sources[i] : i \in 1..4} = {"log", "trace", "block", "tx"} BY <1>2, <1>3
<1> QED BY <1>1, <1>4, <1>5

LEMMA FieldsFact ==
  ASSUME NEW s \in ToSet(Sources)
  PROVE  FieldsOf(app, s) \subseteq Fields
BY SourcesFact DEF FieldsOf, Fields, BlockFields, TxFields, ReceiptFields

LEMMA RangeFact ==
  ASSUME app \in Apps
  PROVE  /\ FirstNeeded \in Nat /\ BackfillStart(app) = FirstNeeded
         /\ DataEnd \in Nat /\ DataEnd <= LastNumber
PROOF
<1> DEFINE froms == {app[i].lo : i \in DOMAIN app}
           firsts == {IF app[i].lo = Undefined THEN FirstNumber ELSE app[i].lo : i \in DOMAIN app}
           tos == {app[i].hi : i \in DOMAIN app}
<1>1. /\ 1 \in DOMAIN app /\ IsFiniteSet(DOMAIN app)
      /\ \A i \in DOMAIN app : app[i].lo \in Nat \cup {Undefined} /\ app[i].hi \in Nat \cup {Undefined}
  BY AppFact
<1>2. firsts \subseteq Nat /\ firsts # {} /\ FirstNeeded = Min(firsts)
  BY <1>1, NumbersFact DEF FirstNeeded
<1>3. Min(firsts) \in firsts /\ \A m \in firsts : Min(firsts) <= m
  BY <1>2, MinFact
<1>4. ASSUME Undefined \in froms PROVE BackfillStart(app) = FirstNeeded
  <2>1. 0 \in firsts BY <1>4, NumbersFact
  <2>2. Min(firsts) = 0
    <3> HIDE DEF firsts
    <3>1. Min(firsts) \in Nat /\ Min(firsts) <= 0 BY <2>1, <1>2, <1>3
    <3> QED BY <3>1
  <2>3. BackfillStart(app) = 0 BY <1>4 DEF BackfillStart
  <2> QED BY <2>2, <2>3, <1>2
<1>5. ASSUME Undefined \notin froms PROVE BackfillStart(app) = FirstNeeded
  <2>1. firsts = froms BY <1>5
  <2> QED BY <2>1, <1>5, <1>2 DEF BackfillStart
<1>6. FirstNeeded \in Nat /\ BackfillStart(app) = FirstNeeded
  BY <1>2, <1>3, <1>4, <1>5
<1>7. BackfillEnd(app, LastNumber) \in Nat
  <2>1. CASE Undefined \in tos
    BY <2>1, NumbersFact DEF BackfillEnd
  <2>2. CASE Undefined \notin tos
    <3>1. tos \subseteq Nat /\ tos # {} BY <2>2, <1>1
    <3>2. IsFiniteSet(tos)
      <4> DEFINE g == [i \in DOMAIN app |-> app[i].hi]
      <4>1. DOMAIN g = DOMAIN app /\ tos = {g[i] : i \in DOMAIN app} OBVIOUS
      <4> HIDE DEF g
      <4>2. IsFiniteSet({g[i] : i \in DOMAIN app}) BY <4>1, <1>1, ImageFinite
      <4> QED BY <4>1, <4>2
    <3>3. Max(tos) \in tos BY <3>1, <3>2, MaxFact
    <3> QED BY <3>1, <3>3, <2>2 DEF BackfillEnd
  <2> QED BY <2>1, <2>2
<1>8. DataEnd \in Nat /\ DataEnd <= LastNumber
  BY <1>7, MinOfTwo, NumbersFact DEF DataEnd
<1> QED BY <1>6, <1>8

(* What a block adds to the children.                                         *)
LEMMA FoundFact ==
  ASSUME ChildrenOK, NEW n \in Numbers, NEW logs \in SUBSET Chain[n].logs
  PROVE  /\ DOMAIN Found(logs) = Factory
         /\ \A f \in Factory :
              /\ Found(logs)[f] \in Seq(Born(f))
              /\ ToSet(Found(logs)[f]) = ToSet(children[f]) \cup CreatedIn(f, logs)
PROOF
<1>1. ASSUME NEW f \in Factory
      PROVE  /\ Found(logs)[f] \in Seq(Born(f))
             /\ ToSet(Found(logs)[f]) = ToSet(children[f]) \cup CreatedIn(f, logs)
  <2> DEFINE more == CreatedIn(f, logs) \ ToSet(children[f])
  <2>1. CreatedIn(f, logs) \subseteq Born(f) BY DEF Born, CreatedIn
  <2>2. IsFiniteSet(Born(f)) /\ more \in SUBSET Born(f) BY <2>1, BornFinite
  <2>3. IsFiniteSet(more) BY <2>2, FS_Subset
  <2>4. SetToSeq(more) \in Seq(more) /\ ToSet(SetToSeq(more)) = more BY <2>3, SetToSeqFact
  <2>5. SetToSeq(more) \in Seq(Born(f))
    <3> HIDE DEF more
    <3> QED BY <2>4, <2>2, SeqDef
  <2>6. children[f] \in Seq(Born(f)) BY DEF ChildrenOK
  <2>7. Found(logs)[f] = children[f] \o SetToSeq(more) BY DEF Found
  <2> HIDE DEF more
  <2>8. /\ children[f] \o SetToSeq(more) \in Seq(Born(f))
        /\ ToSet(children[f] \o SetToSeq(more)) = ToSet(children[f]) \cup ToSet(SetToSeq(more))
    BY <2>5, <2>6, MembersOfConcat
  <2>9. ToSet(children[f]) \cup more = ToSet(children[f]) \cup CreatedIn(f, logs) BY DEF more
  <2> QED BY <2>4, <2>7, <2>8, <2>9
<1>2. DOMAIN Found(logs) = Factory BY DEF Found
<1> QED BY <1>1, <1>2

-----------------------------------------------------------------------------
(* The filters under the children known and under all of them.                *)
LEMMA AddressExact ==
  ASSUME ChildrenOK, ScanOK, live = NotLive, NEW n \in Numbers, NEW ref, NEW a,
         ref \in Factory => n <= scanned, scanned \in Int
  PROVE  AddressOk(ref, a, n, children) <=> AddressOk(ref, a, n, Everyone)
PROOF
<1>1. CASE ref \notin Factory BY <1>1 DEF AddressOk
<1>2. CASE ref \in Factory
  <2>1. children[ref] \in Seq(Born(ref)) BY <1>2 DEF ChildrenOK
  <2>2. ToSet(children[ref]) \subseteq Born(ref)
    <3>1. DOMAIN children[ref] = 1..Len(children[ref])
          /\ \A i \in 1..Len(children[ref]) : children[ref][i] \in Born(ref)
      BY <2>1, ElementOfSeq, LenProperties
    <3> QED BY <3>1 DEF ToSet
  <2>3. ASSUME a \in Born(ref), Birth(ref, a) <= n PROVE a \in ToSet(children[ref])
    <3>1. Birth(ref, a) \in Numbers /\ a \in CreatedIn(ref, Chain[Birth(ref, a)].logs)
      BY <2>3, BirthFact
    <3>2. Birth(ref, a) <= scanned BY <2>3, <3>1, <1>2, NumbersFact
    <3> QED BY <3>1, <3>2, <1>2 DEF ScanOK
  <2>4. ToSet(Everyone[ref]) = Born(ref) BY <1>2, EveryoneFact
  <2> QED BY <1>2, <2>2, <2>3, <2>4 DEF AddressOk
<1> QED BY <1>1, <1>2

LEMMA KeptExact ==
  ASSUME app \in Apps, ChildrenOK, ScanOK, live = NotLive, NEW n \in Numbers, scanned \in Int,
         FactoriesOf(app) # {} => n <= scanned
  PROVE  /\ \A i \in DOMAIN app : \A l :
              LogMatches(app[i], l, n, children) <=> LogMatches(app[i], l, n, Everyone)
         /\ \A l : LogKept(app, children, l, n) <=> LogKept(app, Everyone, l, n)
         /\ \A t : TxKept(app, children, t, n) <=> TxKept(app, Everyone, t, n)
         /\ \A t : TraceKept(app, children, t, n) <=> TraceKept(app, Everyone, t, n)
PROOF
<1>1. ASSUME NEW i \in DOMAIN app, NEW field \in AddressFields(app[i]), NEW a
      PROVE  AddressOk(app[i][field], a, n, children) <=> AddressOk(app[i][field], a, n, Everyone)
  <2>1. app[i][field] \in Factory => FactoriesOf(app) # {} BY DEF FactoriesOf
  <2> QED BY <2>1, AddressExact
<1>2. ASSUME NEW i \in DOMAIN app, NEW l
      PROVE  LogMatches(app[i], l, n, children) <=> LogMatches(app[i], l, n, Everyone)
  <2>1. app[i].type = "log" => "address" \in AddressFields(app[i])
    BY AppsAssumption DEF AddressFields, IsFilter
  <2> QED BY <2>1, <1>1 DEF LogMatches
<1>3. ASSUME NEW i \in DOMAIN app, app[i].type \in {"transaction", "trace", "transfer"}, NEW a
      PROVE  /\ AddressOk(app[i].from, a, n, children) <=> AddressOk(app[i].from, a, n, Everyone)
             /\ AddressOk(app[i].to, a, n, children) <=> AddressOk(app[i].to, a, n, Everyone)
  <2>1. "from" \in AddressFields(app[i]) /\ "to" \in AddressFields(app[i])
    BY <1>3, AppsAssumption DEF AddressFields, IsFilter
  <2> QED BY <2>1, <1>1
<1>4. ASSUME NEW i \in DOMAIN app, NEW t
      PROVE  TxMatches(app[i], t, n, children) <=> TxMatches(app[i], t, n, Everyone)
  BY <1>3 DEF TxMatches
<1>5. ASSUME NEW i \in DOMAIN app, NEW t
      PROVE  TraceMatches(app[i], t, n, children) <=> TraceMatches(app[i], t, n, Everyone)
  BY <1>3 DEF TraceMatches
<1> QED BY <1>2, <1>4, <1>5 DEF LogKept, TxKept, TraceKept

-----------------------------------------------------------------------------
(* The range that is streamed, step by step.                                  *)
LEMMA FreshFact ==
  ASSUME NEW r, IsRange(r), NEW s, s = Fresh(r)
  PROVE  s = [from |-> r.from, to |-> r.to, source |-> r.source, todo |-> r.todo,
              cursor |-> r.from, dropped |-> {}, missing |-> r.missing,
              matched |-> r.matched, failed |-> r.failed]
BY DEF Fresh, IsRange

LEMMA TurnFact ==
  ASSUME NEW r, IsRange(r), NEW source, NEW t, t = Turn(r, source)
  PROVE  t = [from |-> r.from, to |-> r.to, source |-> source,
              todo |-> BodiesOf(app, children, Sources[source]), cursor |-> r.from,
              dropped |-> {}, missing |-> r.missing, matched |-> r.matched,
              failed |-> IF Oversized(BodiesOf(app, children, Sources[source]))
                         THEN "oversized" ELSE r.failed]
PROOF
<1> DEFINE bodies == BodiesOf(app, children, Sources[source])  big == Oversized(bodies)
           s == Fresh(r)
<1>1. t = [s EXCEPT !.source = source, !.todo = bodies,
                    !.failed = IF big THEN "oversized" ELSE @]
  BY DEF Turn
<1> HIDE DEF bodies, big, s
<1>2. s = [from |-> r.from, to |-> r.to, source |-> r.source, todo |-> r.todo,
           cursor |-> r.from, dropped |-> {}, missing |-> r.missing,
           matched |-> r.matched, failed |-> r.failed]
  BY FreshFact DEF s
<1>3. t = [from |-> r.from, to |-> r.to, source |-> source, todo |-> bodies, cursor |-> r.from,
           dropped |-> {}, missing |-> r.missing, matched |-> r.matched,
           failed |-> IF big THEN "oversized" ELSE r.failed]
  BY <1>1, <1>2
<1> QED BY <1>3 DEF bodies, big

LEMMA StartStep ==
  ASSUME NEW to, StartFetch(to), covered \in Int, BackfillStart(app) <= covered, BackfillStart(app) \in Int
  PROVE  \E todo, failed :
           /\ fetch' = [from |-> covered, to |-> to, source |-> 1, todo |-> todo, cursor |-> covered,
                        dropped |-> {}, missing |-> {}, matched |-> {}, failed |-> failed]
           /\ todo = BodiesOf(app, children, "log")
           /\ failed = IF Oversized(todo) THEN "oversized" ELSE Undefined
PROOF
<1> DEFINE r == [from |-> Max({covered, BackfillStart(app)}), to |-> to, source |-> 1,
                 todo |-> <<>>, cursor |-> 0, dropped |-> {}, missing |-> {},
                 matched |-> {}, failed |-> Undefined]
<1>1. Max({covered, BackfillStart(app)}) = covered BY MaxOfTwo
<1>2. fetch' = Turn(r, 1) BY DEF StartFetch
<1>3. IsRange(r) /\ r.from = covered /\ r.to = to /\ r.missing = {} /\ r.matched = {} /\ r.failed = Undefined
  BY <1>1 DEF IsRange
<1> HIDE DEF r
<1>4. Sources[1] = "log" BY DEF Sources
<1> QED BY <1>2, <1>3, <1>4, TurnFact

LEMMA NextSourceStep ==
  ASSUME NextSource, IsRange(fetch), fetch.source \in 1..4
  PROVE  /\ fetch.source + 1 \in 1..4
         /\ fetch' = [from |-> fetch.from, to |-> fetch.to, source |-> fetch.source + 1,
                todo |-> BodiesOf(app, children, Sources[fetch.source + 1]), cursor |-> fetch.from,
                dropped |-> {}, missing |-> fetch.missing, matched |-> fetch.matched,
                failed |-> IF Oversized(BodiesOf(app, children, Sources[fetch.source + 1]))
                           THEN "oversized" ELSE fetch.failed]
PROOF
<1>1. fetch' = Turn(fetch, fetch.source + 1) /\ fetch.source < 4 BY SourcesFact DEF NextSource
<1>2. fetch.source + 1 \in 1..4 BY <1>1
<1> QED BY <1>1, <1>2, TurnFact

(* What the steps within a stream may change of the range.                     *)
LEMMA ServeStep ==
  ASSUME NEW last, Serve(last), IsRange(fetch)
  PROVE  LET source == Sources[fetch.source]
             kept == {n \in fetch.cursor..last : Buffered(source, Served(source, fetch.todo[1], n))}
             drained == last = fetch.to
         IN  fetch' = [from |-> fetch.from, to |-> fetch.to, source |-> fetch.source,
                todo |-> IF drained THEN Tail(fetch.todo) ELSE fetch.todo,
                cursor |-> IF drained THEN fetch.from ELSE last + 1,
                dropped |-> IF drained THEN {} ELSE fetch.dropped, missing |-> fetch.missing,
                matched |-> fetch.matched \cup
                  (IF \E n \in kept : Matched(source, Served(source, fetch.todo[1], n))
                   THEN {source} ELSE {}),
                failed |-> fetch.failed]
BY DEF Serve, Drained, Fresh, IsRange

LEMMA DropStep ==
  ASSUME NEW field, DropField(field), IsRange(fetch)
  PROVE  fetch' = [from |-> fetch.from, to |-> fetch.to, source |-> fetch.source,
                todo |-> fetch.todo, cursor |-> fetch.cursor, dropped |-> fetch.dropped \cup {field},
                missing |-> IF field \in Droppable THEN fetch.missing ELSE fetch.missing \cup {field},
                matched |-> fetch.matched, failed |-> fetch.failed]
BY DEF DropField, IsRange

LEMMA SkipStep ==
  ASSUME SkipToStart, IsRange(fetch)
  PROVE  LET drained == dataset.start > fetch.to
         IN  fetch' = [from |-> fetch.from, to |-> fetch.to, source |-> fetch.source,
                todo |-> IF drained THEN Tail(fetch.todo) ELSE fetch.todo,
                cursor |-> IF drained THEN fetch.from ELSE dataset.start,
                dropped |-> IF drained THEN {} ELSE fetch.dropped, missing |-> fetch.missing,
                matched |-> fetch.matched, failed |-> fetch.failed]
BY DEF SkipToStart, Drained, Fresh, IsRange

LEMMA FailStep ==
  ASSUME NEW why, fetch' = [fetch EXCEPT !.failed = why], IsRange(fetch)
  PROVE  fetch' = [from |-> fetch.from, to |-> fetch.to, source |-> fetch.source,
                todo |-> fetch.todo, cursor |-> fetch.cursor, dropped |-> fetch.dropped,
                missing |-> fetch.missing, matched |-> fetch.matched, failed |-> why]
BY DEF IsRange

LEMMA RangeIsFetch ==
  ASSUME NEW r, IsRange(r), r.source \in 1..4
  PROVE  r # NoFetch
BY DEF NoFetch

-----------------------------------------------------------------------------
(* The steps, told apart by what they change.                                 *)
LEMMA FixedStep ==
  ASSUME Next PROVE app' = app /\ dataset' = dataset
BY DEF Next, Discover, NextSource, Finish, SkipToStart, StreamThrows, Evict, StartFetch, Assemble,
       Serve, DropField, GoLive, DiscoverLive, OnlyFetch, fixedVars

(* Only the range moves on, within its bounds.                                *)
RangeMoves ==
  /\ fetch # NoFetch /\ fetch' # NoFetch /\ IsRange(fetch')
  /\ fetch'.from = fetch.from /\ fetch'.to = fetch.to /\ fetch'.source \in 1..4
  /\ fetch'.cursor \in Nat /\ fetch.from <= fetch'.cursor
  /\ fetch'.dropped \subseteq Fields /\ fetch'.dropped \ Droppable \subseteq fetch'.missing
  /\ fetch.missing \subseteq fetch'.missing /\ fetch'.matched = fetch.matched
  /\ fetch'.failed = "gap" => IsGap(fetch')
  /\ OnlyFetch

LEMMA StartFact ==
  ASSUME CursorsOK, NEW to \in Numbers, StartFetch(to), to <= DataEnd
  PROVE  /\ fetch = NoFetch /\ fetch' # NoFetch /\ IsRange(fetch')
         /\ fetch'.from = covered /\ fetch'.to = to /\ covered <= to /\ fetch'.source = 1
         /\ fetch'.cursor = covered /\ fetch'.dropped = {} /\ fetch'.missing = {}
         /\ fetch'.matched = {} /\ fetch'.failed \in {Undefined, "oversized"}
         /\ DiscoveryReady(to) /\ OnlyFetch
PROOF
<1>1. /\ BackfillStart(app) <= covered /\ covered \in Nat /\ BackfillStart(app) \in Nat
  BY RangeFact DEF CursorsOK
<1>2. PICK todo, failed :
           /\ fetch' = [from |-> covered, to |-> to, source |-> 1, todo |-> todo, cursor |-> covered,
                        dropped |-> {}, missing |-> {}, matched |-> {}, failed |-> failed]
           /\ failed = IF Oversized(todo) THEN "oversized" ELSE Undefined
  BY <1>1, StartStep
<1>3. /\ IsRange(fetch')
      /\ fetch'.from = covered /\ fetch'.to = to /\ fetch'.source = 1
      /\ fetch'.cursor = covered /\ fetch'.dropped = {} /\ fetch'.missing = {}
      /\ fetch'.matched = {} /\ fetch'.failed \in {Undefined, "oversized"}
  BY <1>2 DEF IsRange
<1>4. fetch' # NoFetch BY <1>3, RangeIsFetch
<1>5. fetch = NoFetch /\ DiscoveryReady(to) /\ OnlyFetch BY DEF StartFetch, OnlyFetch
<1>6. covered <= to
  BY <1>1, MaxOfTwo DEF StartFetch
<1> QED BY <1>3, <1>4, <1>5, <1>6

LEMMA MovesFact ==
  ASSUME CursorsOK, FetchOK,
         NextSource \/ SkipToStart \/ StreamThrows \/ (\E field \in Fields : DropField(field))
           \/ (Finish /\ IsGap(fetch))
  PROVE  RangeMoves
PROOF
<1>1. fetch # NoFetch /\ fetch.failed = Undefined
  BY DEF NextSource, SkipToStart, StreamThrows, DropField, Finish, Streaming, AtStream
<1>2. /\ IsRange(fetch) /\ fetch.from \in Nat /\ fetch.source \in 1..4
      /\ fetch.cursor \in Nat /\ fetch.from <= fetch.cursor
      /\ fetch.dropped \subseteq Fields /\ fetch.dropped \ Droppable \subseteq fetch.missing
  BY <1>1 DEF FetchOK, CursorsOK
<1>3. Undefined # "gap" BY NoSentinel
<1>4. CASE NextSource
  <2>1. fetch.source + 1 \in 1..4 BY <1>2, <1>4, NextSourceStep
  <2>2. PICK todo, failed :
          /\ fetch' = [from |-> fetch.from, to |-> fetch.to, source |-> fetch.source + 1,
                todo |-> todo, cursor |-> fetch.from, dropped |-> {}, missing |-> fetch.missing,
                matched |-> fetch.matched, failed |-> failed]
          /\ failed \in {"oversized", fetch.failed}
    BY <1>2, <1>4, NextSourceStep
  <2>3. /\ IsRange(fetch') /\ fetch'.from = fetch.from /\ fetch'.to = fetch.to
        /\ fetch'.source = fetch.source + 1 /\ fetch'.cursor = fetch.from /\ fetch'.dropped = {}
        /\ fetch'.missing = fetch.missing /\ fetch'.matched = fetch.matched
        /\ fetch'.failed \in {"oversized", fetch.failed}
    BY <2>2 DEF IsRange
  <2>4. fetch' # NoFetch BY <2>1, <2>3, RangeIsFetch
  <2>5. OnlyFetch BY <1>4 DEF NextSource
  <2> QED BY <2>1, <2>3, <2>4, <2>5, <1>1, <1>2, <1>3 DEF RangeMoves
<1>5. CASE SkipToStart
  <2>1. dataset.start \in Nat /\ fetch.cursor < dataset.start
    BY <1>5, DataPathAssumption, NumbersFact DEF CursorsOK, SkipToStart
  <2>2. PICK todo, cursor, dropped :
          /\ fetch' = [from |-> fetch.from, to |-> fetch.to, source |-> fetch.source,
                todo |-> todo, cursor |-> cursor, dropped |-> dropped, missing |-> fetch.missing,
                matched |-> fetch.matched, failed |-> fetch.failed]
          /\ cursor \in {fetch.from, dataset.start} /\ dropped \in {{}, fetch.dropped}
    BY <1>2, <1>5, SkipStep
  <2>3. /\ IsRange(fetch') /\ fetch'.from = fetch.from /\ fetch'.to = fetch.to
        /\ fetch'.source = fetch.source /\ fetch'.cursor \in {fetch.from, dataset.start}
        /\ fetch'.dropped \in {{}, fetch.dropped}
        /\ fetch'.missing = fetch.missing /\ fetch'.matched = fetch.matched
        /\ fetch'.failed = fetch.failed
    BY <2>2 DEF IsRange
  <2>4. fetch' # NoFetch BY <1>2, <2>3, RangeIsFetch
  <2>5. OnlyFetch BY <1>5 DEF SkipToStart
  <2>6. fetch'.cursor \in Nat /\ fetch.from <= fetch'.cursor BY <2>1, <2>3, <1>2
  <2> QED BY <2>3, <2>4, <2>5, <2>6, <1>1, <1>2, <1>3 DEF RangeMoves
<1>6. CASE StreamThrows \/ (Finish /\ IsGap(fetch))
  <2>1. PICK why : fetch' = [fetch EXCEPT !.failed = why] /\ (why = "gap" => IsGap(fetch))
    BY <1>6 DEF StreamThrows, Finish
  <2>2. fetch' = [from |-> fetch.from, to |-> fetch.to, source |-> fetch.source,
                todo |-> fetch.todo, cursor |-> fetch.cursor, dropped |-> fetch.dropped,
                missing |-> fetch.missing, matched |-> fetch.matched, failed |-> why]
    BY <1>2, <2>1, FailStep
  <2>3. /\ IsRange(fetch') /\ fetch'.from = fetch.from /\ fetch'.to = fetch.to
        /\ fetch'.source = fetch.source /\ fetch'.cursor = fetch.cursor
        /\ fetch'.dropped = fetch.dropped
        /\ fetch'.missing = fetch.missing /\ fetch'.matched = fetch.matched
        /\ fetch'.failed = why
    BY <2>2 DEF IsRange
  <2>4. fetch' # NoFetch BY <1>2, <2>3, RangeIsFetch
  <2>5. OnlyFetch BY <1>6 DEF StreamThrows, Finish, OnlyFetch
  <2>6. why = "gap" => IsGap(fetch')
    <3>1. IsGap(fetch) => IsGap(fetch') BY <2>3 DEF IsGap
    <3> QED BY <3>1, <2>1
  <2> QED BY <2>3, <2>4, <2>5, <2>6, <1>1, <1>2 DEF RangeMoves
<1>7. CASE \E field \in Fields : DropField(field)
  <2>1. PICK field \in Fields : DropField(field) BY <1>7
  <2>2. PICK missing, dropped :
          /\ fetch' = [from |-> fetch.from, to |-> fetch.to, source |-> fetch.source,
                todo |-> fetch.todo, cursor |-> fetch.cursor, dropped |-> dropped,
                missing |-> missing, matched |-> fetch.matched, failed |-> fetch.failed]
          /\ dropped = fetch.dropped \cup {field}
          /\ missing = IF field \in Droppable THEN fetch.missing ELSE fetch.missing \cup {field}
    BY <1>2, <2>1, DropStep
  <2>3. /\ IsRange(fetch') /\ fetch'.from = fetch.from /\ fetch'.to = fetch.to
        /\ fetch'.source = fetch.source /\ fetch'.cursor = fetch.cursor
        /\ fetch'.dropped = dropped /\ fetch'.missing = missing
        /\ fetch'.matched = fetch.matched /\ fetch'.failed = fetch.failed
    BY <2>2 DEF IsRange
  <2>4. fetch' # NoFetch BY <1>2, <2>3, RangeIsFetch
  <2>5. OnlyFetch BY <2>1 DEF DropField
  <2>6. /\ dropped \subseteq Fields /\ dropped \ Droppable \subseteq missing
        /\ fetch.missing \subseteq missing
    BY <2>2, <1>2
  <2> QED BY <2>3, <2>4, <2>5, <2>6, <1>1, <1>2, <1>3 DEF RangeMoves
<1> QED BY <1>4, <1>5, <1>6, <1>7

LEMMA ServeRange ==
  ASSUME CursorsOK, FetchOK, NEW last \in fetch.cursor..fetch.to, Serve(last)
  PROVE  /\ fetch # NoFetch /\ fetch' # NoFetch /\ IsRange(fetch')
         /\ fetch'.from = fetch.from /\ fetch'.to = fetch.to /\ fetch'.source = fetch.source
         /\ fetch'.cursor \in Nat /\ fetch.from <= fetch'.cursor
         /\ fetch'.dropped \in {{}, fetch.dropped} /\ fetch'.missing = fetch.missing
         /\ fetch'.matched = fetch.matched \cup
              (LET source == Sources[fetch.source]
                   Raw(n) == Served(source, fetch.todo[1], n)
               IN  IF \E n \in fetch.cursor..last : Buffered(source, Raw(n)) /\ Matched(source, Raw(n))
                   THEN {source} ELSE {})
         /\ fetch'.failed = fetch.failed /\ fetch.failed = Undefined
PROOF
<1> DEFINE source == Sources[fetch.source]
           Raw(n) == Served(source, fetch.todo[1], n)
           kept == {n \in fetch.cursor..last : Buffered(source, Raw(n))}
           counted == IF \E n \in kept : Matched(source, Raw(n)) THEN {source} ELSE {}
<1>1. fetch # NoFetch /\ fetch.failed = Undefined BY DEF Serve, AtStream, Streaming
<1>2. /\ IsRange(fetch) /\ fetch.from \in Nat /\ fetch.source \in 1..4
      /\ fetch.cursor \in Nat /\ fetch.from <= fetch.cursor /\ fetch.to \in Nat
  BY <1>1, NumbersFact DEF FetchOK, CursorsOK
<1>3. PICK todo, cursor, dropped :
        /\ fetch' = [from |-> fetch.from, to |-> fetch.to, source |-> fetch.source,
                todo |-> todo, cursor |-> cursor, dropped |-> dropped, missing |-> fetch.missing,
                matched |-> fetch.matched \cup counted, failed |-> fetch.failed]
        /\ cursor \in {fetch.from, last + 1} /\ dropped \in {{}, fetch.dropped}
  BY <1>2, ServeStep
<1>4. counted = IF \E n \in fetch.cursor..last : Buffered(source, Raw(n)) /\ Matched(source, Raw(n))
                THEN {source} ELSE {}
  OBVIOUS
<1> HIDE DEF counted, source
<1>5. /\ IsRange(fetch') /\ fetch'.from = fetch.from /\ fetch'.to = fetch.to
      /\ fetch'.source = fetch.source /\ fetch'.cursor \in {fetch.from, last + 1}
      /\ fetch'.dropped \in {{}, fetch.dropped}
      /\ fetch'.missing = fetch.missing /\ fetch'.matched = fetch.matched \cup counted
      /\ fetch'.failed = fetch.failed
  BY <1>3 DEF IsRange
<1>6. fetch' # NoFetch BY <1>2, <1>5, RangeIsFetch
<1>7. fetch'.cursor \in Nat /\ fetch.from <= fetch'.cursor BY <1>2, <1>5
<1> QED BY <1>1, <1>4, <1>5, <1>6, <1>7 DEF source

LEMMA OpenedFact ==
  ASSUME NEW known, NEW wildcard, NEW o, o = Opened(known, wildcard)
  PROVE  o # NotLive
PROOF
<1> DEFINE requests == BuildPortalLogRequests(app, known)
           keys == StripOverBudget(app, requests, wildcard)
<1>1. o = IF keys = Undefined THEN [requests |-> <<>>, keys |-> wildcard, stopped |-> TRUE]
          ELSE [requests |-> WithoutAddresses(app, requests, keys), keys |-> keys, stopped |-> FALSE]
  BY DEF Opened
<1> HIDE DEF requests, keys
<1>2. PICK a, b, c : o = [requests |-> a, keys |-> b, stopped |-> c] BY <1>1
<1>3. "requests" \in DOMAIN o BY <1>2
<1>4. "requests" \notin DOMAIN NotLive BY DEF NotLive
<1> QED BY <1>3, <1>4

(* Of a step, the kinds the invariant tells apart.                             *)
LEMMA StepKinds ==
  ASSUME CursorsOK, FetchOK, Next
  PROVE  \/ Discover
         \/ \E to \in Numbers : StartFetch(to) /\ to <= DataEnd
         \/ RangeMoves
         \/ \E last \in fetch.cursor..fetch.to : Serve(last)
         \/ Finish /\ ~IsGap(fetch)
         \/ Evict
         \/ \E hi \in Numbers : Assemble(hi)
         \/ GoLive \/ DiscoverLive
PROOF
<1>1. CASE NextSource \/ SkipToStart \/ StreamThrows \/ (\E field \in Fields : DropField(field))
             \/ (Finish /\ IsGap(fetch))
  BY <1>1, MovesFact
<1> QED BY <1>1 DEF Next

LEMMA StableRange ==
  ASSUME app' = app
  PROVE  FirstNeeded' = FirstNeeded /\ DataEnd' = DataEnd /\ FactoriesOf(app') = FactoriesOf(app)
BY DEF FirstNeeded, DataEnd

LEMMA ResolveFact ==
  ASSUME CursorsOK, FetchOK, Finish, ~IsGap(fetch)
  PROVE  /\ fetch # NoFetch /\ fetch' = NoFetch /\ covered' = fetch.to + 1 /\ covered <= fetch.to
         /\ fetch.to \in Numbers /\ fetch.to <= DataEnd
         /\ FactoriesOf(app) # {} => fetch.to <= scanned
         /\ UNCHANGED <<discoveryVars, fixedVars, data, store, done, live, failures>>
BY DEF Finish, Streaming, FetchOK, DiscoveryReady

LEMMA CursorsStep ==
  ASSUME CursorsOK, FetchOK, LiveOK, Next
  PROVE  CursorsOK'
PROOF
<1>1. app' = app /\ dataset' = dataset BY FixedStep
<1>2. FirstNeeded' = FirstNeeded /\ DataEnd' = DataEnd /\ FactoriesOf(app') = FactoriesOf(app)
  BY <1>1, StableRange
<1>3. DataEnd \in Nat /\ FirstNeeded \in Nat BY RangeFact DEF CursorsOK
<1> USE <1>1, <1>2, <1>3
<1>4. CASE Discover
  BY <1>4 DEF Discover, CursorsOK, chunkVars
<1>5. CASE \E to \in Numbers : StartFetch(to) /\ to <= DataEnd
  BY <1>5 DEF StartFetch, CursorsOK, discoveryVars
<1>6. CASE RangeMoves
  BY <1>6 DEF RangeMoves, OnlyFetch, CursorsOK, discoveryVars
<1>7. CASE \E last \in fetch.cursor..fetch.to : Serve(last)
  BY <1>7 DEF Serve, CursorsOK, discoveryVars
<1>8. CASE Finish /\ ~IsGap(fetch)
  <2>1. /\ covered' = fetch.to + 1 /\ covered <= fetch.to
        /\ fetch.to \in Numbers /\ fetch.to <= DataEnd
        /\ FactoriesOf(app) # {} => fetch.to <= scanned
        /\ UNCHANGED <<discoveryVars, done>>
    BY <1>8, ResolveFact
  <2> QED BY <2>1, NumbersFact DEF CursorsOK, discoveryVars
<1>9. CASE Evict
  BY <1>9 DEF Evict, CursorsOK, discoveryVars
<1>10. CASE \E hi \in Numbers : Assemble(hi)
  BY <1>10, NumbersFact DEF Assemble, CursorsOK, discoveryVars, chunkVars
<1>11. CASE GoLive
  BY <1>11 DEF GoLive, CursorsOK, discoveryVars, chunkVars
<1>12. CASE DiscoverLive
  <2>1. scanned' \in Numbers /\ covered' = covered /\ done' = done /\ live # NotLive
    BY <1>12 DEF DiscoverLive, chunkVars
  <2>2. scanned' \in Int /\ scanned' >= -1 BY <2>1, NumbersFact
  <2>3. done = covered /\ covered \in Nat BY <2>1 DEF LiveOK, CursorsOK
  <2>4. ~(done' < covered') BY <2>1, <2>3
  <2> QED BY <2>1, <2>2, <2>4 DEF CursorsOK
<1> QED BY StepKinds, <1>4, <1>5, <1>6, <1>7, <1>8, <1>9, <1>10, <1>11, <1>12

LEMMA ChildrenStep ==
  ASSUME CursorsOK, FetchOK, ChildrenOK, Next
  PROVE  ChildrenOK'
PROOF
<1>1. ASSUME NEW n \in Numbers, NEW logs \in SUBSET Chain[n].logs, children' = Found(logs)
      PROVE  ChildrenOK'
  BY <1>1, FoundFact DEF ChildrenOK
<1>2. CASE Discover
  <2>1. scanned + 1 \in Numbers
    BY <1>2, RangeFact, NumbersFact DEF Discover, CursorsOK
  <2>2. children' = Found(Chain[scanned + 1].logs) BY <1>2 DEF Discover
  <2> QED BY <2>1, <2>2, <1>1
<1>3. CASE DiscoverLive
  <2>1. PICK n \in Numbers : children' = Found(LogsFor(live.requests, n))
    BY <1>3 DEF DiscoverLive
  <2>2. LogsFor(live.requests, n) \in SUBSET Chain[n].logs BY DEF LogsFor
  <2> QED BY <2>1, <2>2, <1>1
<1>4. CASE children' = children BY <1>4 DEF ChildrenOK
<1> QED
  BY StepKinds, <1>2, <1>3, <1>4
  DEF StartFetch, RangeMoves, OnlyFetch, Serve, Finish, Evict, Assemble, GoLive, discoveryVars

LEMMA ScanStep ==
  ASSUME CursorsOK, FetchOK, ChildrenOK, ScanOK, Next
  PROVE  ScanOK'
PROOF
<1>1. CASE Discover
  <2>1. scanned + 1 \in Numbers
    BY <1>1, RangeFact, NumbersFact DEF Discover, CursorsOK
  <2>2. /\ children' = Found(Chain[scanned + 1].logs) /\ scanned' = scanned + 1 /\ live' = live
    BY <1>1 DEF Discover
  <2>3. \A f \in Factory :
          ToSet(children'[f]) = ToSet(children[f]) \cup CreatedIn(f, Chain[scanned + 1].logs)
    BY <2>1, <2>2, FoundFact
  <2>4. \A n \in Numbers : n <= scanned' => n <= scanned \/ n = scanned + 1
    BY <2>2, NumbersFact DEF CursorsOK
  <2> QED BY <2>2, <2>3, <2>4 DEF ScanOK
<1>2. CASE DiscoverLive
  <2>1. live # NotLive /\ (live' = live \/ \E known, keys : live' = Opened(known, keys))
    BY <1>2 DEF DiscoverLive
  <2>2. \A known, keys : Opened(known, keys) # NotLive BY OpenedFact
  <2> QED BY <2>1, <2>2 DEF ScanOK
<1>3. CASE UNCHANGED <<children, scanned>> /\ (live' = live \/ live = NotLive)
  BY <1>3 DEF ScanOK
<1> QED
  BY StepKinds, <1>1, <1>2, <1>3
  DEF StartFetch, RangeMoves, OnlyFetch, Serve, Finish, Evict, Assemble, GoLive, discoveryVars

LEMMA FetchStep ==
  ASSUME CursorsOK, FetchOK, LiveOK, Next
  PROVE  FetchOK'
PROOF
<1>1. app' = app /\ dataset' = dataset BY FixedStep
<1>2. DataEnd' = DataEnd /\ FactoriesOf(app') = FactoriesOf(app) BY <1>1, StableRange
<1> USE <1>1, <1>2
<1>3. CASE Discover
  <2>1. fetch' = fetch /\ covered' = covered /\ scanned' = scanned + 1 /\ scanned \in Int
    BY <1>3 DEF Discover, chunkVars, CursorsOK
  <2>2. \A to \in Numbers : DiscoveryReady(to) => DiscoveryReady(to)'
    BY <2>1, NumbersFact DEF DiscoveryReady
  <2> QED BY <2>1, <2>2 DEF FetchOK
<1>4. ASSUME NEW to \in Numbers, StartFetch(to), to <= DataEnd PROVE FetchOK'
  <2>1. /\ IsRange(fetch') /\ fetch'.from = covered /\ fetch'.to = to /\ covered <= to
        /\ fetch'.source = 1 /\ fetch'.cursor = covered /\ fetch'.dropped = {}
        /\ fetch'.matched = {} /\ DiscoveryReady(to) /\ OnlyFetch
    BY <1>4, StartFact
  <2>2. covered \in Nat /\ covered' = covered /\ covered <= covered BY <2>1 DEF CursorsOK, OnlyFetch
  <2>3. DiscoveryReady(to)' BY <2>1 DEF OnlyFetch, discoveryVars, DiscoveryReady
  <2>4. fetch'.dropped \subseteq Fields /\ fetch'.dropped \ Droppable \subseteq fetch'.missing
        /\ fetch'.matched \subseteq ToSet(Sources) /\ fetch'.source \in 1..4
    BY <2>1
  <2> QED BY <2>1, <2>2, <2>3, <2>4, <1>4 DEF FetchOK
<1>5. CASE RangeMoves
  <2>1. fetch # NoFetch BY <1>5 DEF RangeMoves
  <2>2. /\ fetch.from = covered /\ fetch.to \in Numbers /\ fetch.from <= fetch.to
        /\ fetch.to <= DataEnd /\ DiscoveryReady(fetch.to) /\ fetch.matched \subseteq ToSet(Sources)
    BY <2>1 DEF FetchOK
  <2> QED BY <2>2, <1>5 DEF FetchOK, RangeMoves, OnlyFetch, discoveryVars, DiscoveryReady
<1>6. ASSUME NEW last \in fetch.cursor..fetch.to, Serve(last) PROVE FetchOK'
  <2>1. /\ fetch # NoFetch /\ IsRange(fetch')
        /\ fetch'.from = fetch.from /\ fetch'.to = fetch.to /\ fetch'.source = fetch.source
        /\ fetch'.cursor \in Nat /\ fetch.from <= fetch'.cursor
        /\ fetch'.dropped \in {{}, fetch.dropped} /\ fetch'.missing = fetch.missing
    BY <1>6, ServeRange
  <2>2. fetch'.matched \subseteq fetch.matched \cup {Sources[fetch.source]} BY <1>6, ServeRange
  <2>3. /\ fetch.from = covered /\ fetch.to \in Numbers /\ fetch.from <= fetch.to
        /\ fetch.to <= DataEnd /\ DiscoveryReady(fetch.to) /\ fetch.source \in 1..4
        /\ fetch.matched \subseteq ToSet(Sources)
        /\ fetch.dropped \subseteq Fields /\ fetch.dropped \ Droppable \subseteq fetch.missing
    BY <2>1 DEF FetchOK
  <2>4. fetch'.matched \subseteq ToSet(Sources) BY <2>2, <2>3, SourcesFact
  <2>5. covered' = covered /\ UNCHANGED discoveryVars BY <1>6 DEF Serve
  <2> QED BY <2>1, <2>3, <2>4, <2>5 DEF FetchOK, discoveryVars, DiscoveryReady
<1>7. CASE fetch' = NoFetch BY <1>7 DEF FetchOK
<1>8. CASE UNCHANGED <<fetch, covered, scanned>> BY <1>8 DEF FetchOK, DiscoveryReady
<1>9. CASE DiscoverLive
  BY <1>9 DEF DiscoverLive, FetchOK, LiveOK, chunkVars
<1>10. (Finish /\ ~IsGap(fetch)) \/ Evict => fetch' = NoFetch BY DEF Finish, Evict
<1>11. (\E hi \in Numbers : Assemble(hi)) \/ GoLive => UNCHANGED <<fetch, covered, scanned>>
  BY DEF Assemble, GoLive, chunkVars, discoveryVars
<1> QED BY StepKinds, <1>3, <1>4, <1>5, <1>6, <1>7, <1>8, <1>9, <1>10, <1>11

LEMMA LiveStep ==
  ASSUME CursorsOK, FetchOK, LiveOK, Next
  PROVE  LiveOK'
PROOF
<1>1. app' = app BY FixedStep
<1>2. DataEnd' = DataEnd /\ DataEnd \in Nat BY <1>1, StableRange, RangeFact DEF CursorsOK
<1> USE <1>2
<1>3. CASE live = NotLive /\ ~GoLive
  <2>1. live' = NotLive
    BY <1>3, StepKinds
    DEF Discover, StartFetch, RangeMoves, OnlyFetch, Serve, Finish, Evict, Assemble, DiscoverLive
  <2> QED BY <2>1 DEF LiveOK
<1>4. CASE GoLive
  <2>1. done = covered BY <1>4 DEF GoLive, CursorsOK
  <2> QED BY <1>4, <2>1 DEF GoLive, LiveOK, chunkVars
<1>5. CASE live # NotLive
  <2>1. fetch = NoFetch /\ done = covered /\ done > DataEnd /\ covered \in Nat
    BY <1>5 DEF LiveOK, CursorsOK
  <2>2. ~(\E to \in Numbers : StartFetch(to) /\ to <= DataEnd)
    <3> SUFFICES ASSUME NEW to \in Numbers, StartFetch(to), to <= DataEnd PROVE FALSE
      OBVIOUS
    <3>1. covered <= to BY StartFact
    <3> QED BY <3>1, <2>1, NumbersFact
  <2>3. ~RangeMoves /\ ~Finish /\ ~Evict /\ ~GoLive /\ \A last : ~Serve(last)
    BY <1>5, <2>1 DEF RangeMoves, Finish, Evict, GoLive, Serve, Streaming, AtStream
  <2>4. \A hi \in Numbers : ~Assemble(hi)
    BY <2>1, NumbersFact DEF Assemble
  <2>5. CASE Discover BY <2>1, <2>5 DEF Discover, LiveOK, chunkVars
  <2>6. CASE DiscoverLive BY <2>1, <2>6 DEF DiscoverLive, LiveOK, chunkVars
  <2> QED BY StepKinds, <2>2, <2>3, <2>4, <2>5, <2>6
<1> QED BY <1>3, <1>4, <1>5

-----------------------------------------------------------------------------
(* What is served.                                                         *)
LEMMA ServedFact ==
  ASSUME NEW source, NEW body, NEW n \in Numbers, Requested \subseteq Fields,
         NEW raw, raw = Served(source, body, n)
  PROVE  /\ raw \in RawAt(n) /\ raw.number = n /\ raw.has = Requested
         /\ raw.logs = (IF source = "log" THEN LogsFor(body, n) ELSE {})
         /\ raw.traces = (IF source = "trace" THEN Chain[n].traces ELSE {})
         /\ raw.txs \subseteq Chain[n].txs
PROOF
<1> DEFINE logs == IF source = "log" THEN LogsFor(body, n) ELSE {}
           traces == IF source = "trace" THEN Chain[n].traces ELSE {}
<1>1. logs \subseteq Chain[n].logs /\ traces \subseteq Chain[n].traces BY DEF LogsFor
<1>2. PICK txs \in SUBSET Chain[n].txs :
        raw = [number |-> n, has |-> Requested, logs |-> logs, traces |-> traces, txs |-> txs]
  BY DEF Served
<1> HIDE DEF logs, traces
<1>3. raw \in RawAt(n) BY <1>1, <1>2 DEF RawAt
<1>4. /\ raw.number = n /\ raw.has = Requested /\ raw.logs = logs /\ raw.traces = traces
      /\ raw.txs = txs
  BY <1>2
<1> QED BY <1>3, <1>4 DEF logs, traces

LEMMA ServeData ==
  ASSUME CursorsOK, FetchOK, DataOK, NEW last \in fetch.cursor..fetch.to, Serve(last)
  PROVE  LET source == Sources[fetch.source]
             Raw(n) == Served(source, fetch.todo[1], n)
         IN  /\ source \in ToSet(Sources) /\ Requested \subseteq Fields
             /\ fetch.cursor..last \subseteq Numbers
             /\ DOMAIN data' = ToSet(Sources)
             /\ \A s \in ToSet(Sources), n \in Numbers :
                  \/ data'[s][n] = data[s][n] /\ RawsOf(s, n)' = RawsOf(s, n)
                  \/ /\ s = source /\ n \in fetch.cursor..last /\ Buffered(source, Raw(n))
                     /\ Raw(n) \in RawAt(n)
                     /\ data'[s][n] = Append(data[s][n], Raw(n))
                     /\ RawsOf(s, n)' = RawsOf(s, n) \cup {Raw(n)}
PROOF
<1> DEFINE source == Sources[fetch.source]
           Raw(n) == Served(source, fetch.todo[1], n)
           kept == {n \in fetch.cursor..last : Buffered(source, Raw(n))}
<1>1. fetch # NoFetch BY DEF Serve, AtStream, Streaming
<1>2. /\ fetch.source \in 1..4 /\ fetch.cursor \in Nat /\ fetch.to \in Numbers
  BY <1>1 DEF FetchOK
<1>3. source \in ToSet(Sources) BY <1>2, SourcesFact
<1>4. Requested \subseteq Fields BY <1>3, FieldsFact DEF Requested
<1>5. fetch.cursor..last \subseteq Numbers BY <1>2, NumbersFact
<1>6. data' = [data EXCEPT ![source] =
                      [n \in Numbers |-> IF n \in kept THEN Append(@[n], Raw(n)) ELSE @[n]]]
  BY DEF Serve
<1> HIDE DEF source
<1>7. DOMAIN data' = ToSet(Sources) BY <1>6 DEF DataOK
<1>8. ASSUME NEW s \in ToSet(Sources), NEW n \in Numbers
      PROVE  \/ data'[s][n] = data[s][n]
             \/ /\ s = source /\ n \in kept
                /\ data'[s][n] = Append(data[s][n], Raw(n))
  BY <1>3, <1>6 DEF DataOK
<1>9. ASSUME NEW s \in ToSet(Sources), NEW n \in Numbers
      PROVE  \/ data'[s][n] = data[s][n] /\ RawsOf(s, n)' = RawsOf(s, n)
             \/ /\ s = source /\ n \in fetch.cursor..last /\ Buffered(source, Raw(n))
                /\ Raw(n) \in RawAt(n)
                /\ data'[s][n] = Append(data[s][n], Raw(n))
                /\ RawsOf(s, n)' = RawsOf(s, n) \cup {Raw(n)}
  <2>1. CASE data'[s][n] = data[s][n]
    BY <2>1 DEF RawsOf
  <2>2. CASE s = source /\ n \in kept /\ data'[s][n] = Append(data[s][n], Raw(n))
    <3>1. Raw(n) \in RawAt(n) BY <1>4, ServedFact
    <3>2. data[s][n] \in Seq(RawAt(n)) BY DEF DataOK
    <3> HIDE DEF Raw
    <3>3. ToSet(Append(data[s][n], Raw(n))) = ToSet(data[s][n]) \cup {Raw(n)}
      BY <3>1, <3>2, MembersOfAppend
    <3>4. RawsOf(s, n)' = RawsOf(s, n) \cup {Raw(n)} BY <2>2, <3>3 DEF RawsOf
    <3> QED BY <2>2, <3>1, <3>4
  <2> QED BY <1>8, <2>1, <2>2
<1> QED BY <1>3, <1>4, <1>5, <1>7, <1>9 DEF source

LEMMA DataStep ==
  ASSUME CursorsOK, FetchOK, DataOK, Next
  PROVE  DataOK'
PROOF
<1>1. ASSUME NEW last \in fetch.cursor..fetch.to, Serve(last) PROVE DataOK'
  <2>1. DOMAIN data' = ToSet(Sources) BY <1>1, ServeData
  <2>2. ASSUME NEW s \in ToSet(Sources), NEW n \in Numbers PROVE data'[s][n] \in Seq(RawAt(n))
    <3>1. data[s][n] \in Seq(RawAt(n)) BY DEF DataOK
    <3>2. data'[s][n] = data[s][n] \/ \E raw \in RawAt(n) : data'[s][n] = Append(data[s][n], raw)
      BY <1>1, ServeData
    <3>3. \A raw \in RawAt(n) : Append(data[s][n], raw) \in Seq(RawAt(n))
      BY <3>1, AppendProperties
    <3> QED BY <3>1, <3>2, <3>3
  <2> QED BY <2>1, <2>2 DEF DataOK, RawAt
<1>2. CASE Evict
  <2>1. data' = NoData BY <1>2 DEF Evict
  <2>2. \A n : <<>> \in Seq(RawAt(n)) BY EmptySeq
  <2> QED BY <2>1, <2>2 DEF DataOK, NoData, RawAt
<1>3. CASE data' = data BY <1>3 DEF DataOK, RawAt
<1> QED BY StepKinds, <1>1, <1>2, <1>3
  DEF Discover, StartFetch, RangeMoves, OnlyFetch, Finish, Assemble, GoLive, DiscoverLive, chunkVars

-----------------------------------------------------------------------------
(* Why a range fails.                                                       *)
LEMMA StableWants ==
  ASSUME app' = app
  PROVE  /\ \A s, n : Wants(s, n)' <=> Wants(s, n)
         /\ \A s, raw : Keeps(s, raw)' <=> Keeps(s, raw)
         /\ \A s : Required(s)' = Required(s) /\ (Emits(s)' <=> Emits(s))
PROOF
<1>1. \A n : WantedLogs(n)' = WantedLogs(n) BY DEF WantedLogs, Everyone
<1>2. \A n : WantedTraces(n)' = WantedTraces(n) BY DEF WantedTraces, Everyone
<1>3. \A n : WantedTxs(n)' = WantedTxs(n) BY DEF WantedTxs, Everyone
<1>4. \A s, n : Wants(s, n)' <=> Wants(s, n) BY <1>1, <1>2, <1>3 DEF Wants
<1>5. \A s, raw : Keeps(s, raw)' <=> Keeps(s, raw) BY <1>1, <1>2, <1>3 DEF Keeps
<1> QED BY <1>4, <1>5 DEF Required, Emits

(* While discovery is above a block, the rows of it that count are those that     *)
(* the store will keep.                                                     *)
LEMMA MatchedExact ==
  ASSUME CursorsOK, ChildrenOK, ScanOK, live = NotLive, NEW n \in Numbers,
         FactoriesOf(app) # {} => n <= scanned, NEW raw \in RawAt(n), NEW s \in ToSet(Sources)
  PROVE  /\ Matched(s, raw) <=> Keeps(s, raw)
         /\ Keeps(s, raw) /\ (s = "block" => BlockKept(app, n)) => Wants(s, n)
PROOF
<1>1. /\ raw.number = n /\ raw.logs \subseteq Chain[n].logs
      /\ raw.traces \subseteq Chain[n].traces /\ raw.txs \subseteq Chain[n].txs
  BY DEF RawAt
<1>2. /\ \A l : LogKept(app, children, l, n) <=> LogKept(app, Everyone, l, n)
      /\ \A t : TxKept(app, children, t, n) <=> TxKept(app, Everyone, t, n)
      /\ \A t : TraceKept(app, children, t, n) <=> TraceKept(app, Everyone, t, n)
  BY KeptExact DEF CursorsOK
<1>3. CASE s = "log"
  BY <1>1, <1>2, <1>3 DEF Matched, Keeps, Wants, WantedLogs
<1>4. CASE s = "trace"
  BY <1>1, <1>2, <1>4 DEF Matched, Keeps, Wants, WantedTraces
<1>5. CASE s = "block"
  BY <1>5 DEF Matched, Keeps, Wants
<1>6. CASE s = "tx"
  BY <1>1, <1>2, <1>6 DEF Matched, Keeps, Wants, WantedTxs
<1> QED BY SourcesFact, <1>3, <1>4, <1>5, <1>6

LEMMA FetchBelowScan ==
  ASSUME CursorsOK, FetchOK, LiveOK, fetch # NoFetch, NEW n \in Numbers, n <= fetch.to
  PROVE  live = NotLive /\ (FactoriesOf(app) # {} => n <= scanned)
BY NumbersFact DEF FetchOK, LiveOK, CursorsOK, DiscoveryReady

LEMMA MatchedStep ==
  ASSUME CursorsOK, FetchOK, ChildrenOK, ScanOK, LiveOK, MatchedOK, Next
  PROVE  MatchedOK'
PROOF
<1>1. \A s, n : Wants(s, n)' <=> Wants(s, n) BY FixedStep, StableWants
<1>2. CASE \E to \in Numbers : StartFetch(to) /\ to <= DataEnd
  <2>1. fetch'.matched = {} BY <1>2, StartFact
  <2> QED BY <2>1 DEF MatchedOK
<1>3. CASE RangeMoves BY <1>1, <1>3 DEF MatchedOK, RangeMoves
<1>4. ASSUME NEW last \in fetch.cursor..fetch.to, Serve(last) PROVE MatchedOK'
  <2> DEFINE source == Sources[fetch.source]
             Raw(n) == Served(source, fetch.todo[1], n)
  <2>1. /\ fetch # NoFetch /\ fetch'.from = fetch.from /\ fetch'.to = fetch.to
        /\ fetch'.matched = fetch.matched \cup
              (IF \E n \in fetch.cursor..last : Buffered(source, Raw(n)) /\ Matched(source, Raw(n))
               THEN {source} ELSE {})
    BY <1>4, ServeRange
  <2>2. source \in ToSet(Sources) /\ Requested \subseteq Fields
    BY <2>1, SourcesFact, FieldsFact DEF FetchOK, Requested
  <2>3. ASSUME NEW n \in fetch.cursor..last, Buffered(source, Raw(n)), Matched(source, Raw(n))
        PROVE  n \in fetch.from..fetch.to /\ Wants(source, n)
    <3>1. fetch.cursor \in Nat /\ fetch.to \in Numbers /\ fetch.from <= fetch.cursor /\ fetch.from \in Nat
      BY <2>1 DEF FetchOK, CursorsOK
    <3>2. n \in Numbers /\ n <= fetch.to /\ n \in fetch.from..fetch.to BY <3>1, NumbersFact
    <3>3. Raw(n) \in RawAt(n) /\ Raw(n).number = n BY <2>2, <3>2, ServedFact
    <3>4. source = "block" => BlockKept(app, n) BY <2>3, <3>3 DEF Buffered
    <3>5. live = NotLive /\ (FactoriesOf(app) # {} => n <= scanned)
      BY <2>1, <3>2, FetchBelowScan
    <3> HIDE DEF source, Raw
    <3> QED BY <2>2, <2>3, <3>2, <3>3, <3>4, <3>5, MatchedExact
  <2>4. ASSUME NEW s \in fetch'.matched PROVE \E n \in fetch.from..fetch.to : Wants(s, n)
    <3>1. CASE s \in fetch.matched BY <2>1, <3>1 DEF MatchedOK
    <3>2. CASE s \notin fetch.matched
      <4> HIDE DEF source, Raw
      <4>1. s = source /\ \E n \in fetch.cursor..last :
              Buffered(source, Raw(n)) /\ Matched(source, Raw(n))
        BY <2>1, <3>2
      <4> QED BY <4>1, <2>3
    <3> QED BY <3>1, <3>2
  <2> QED BY <1>1, <2>1, <2>4 DEF MatchedOK
<1>5. CASE fetch' = NoFetch BY <1>5 DEF MatchedOK
<1>6. CASE fetch' = fetch BY <1>1, <1>6 DEF MatchedOK
<1> QED BY StepKinds, <1>2, <1>3, <1>4, <1>5, <1>6
  DEF Discover, Finish, Evict, Assemble, GoLive, DiscoverLive, chunkVars

LEMMA FailedStep ==
  ASSUME CursorsOK, FetchOK, FailedOK, Next
  PROVE  FailedOK'
PROOF
<1>1. app' = app BY FixedStep
<1>3. CASE \E to \in Numbers : StartFetch(to) /\ to <= DataEnd
  <2>1. fetch'.failed \in {Undefined, "oversized"} BY <1>3, StartFact
  <2>2. fetch'.failed # "gap" BY <2>1, NoSentinel
  <2> QED BY <2>2 DEF FailedOK
<1>4. CASE RangeMoves
  <2>1. fetch'.failed = "gap" => IsGap(fetch') BY <1>4 DEF RangeMoves
  <2> QED BY <1>1, <2>1 DEF FailedOK, IsGap
<1>5. CASE \E last \in fetch.cursor..fetch.to : Serve(last)
  <2>1. fetch'.failed = Undefined BY <1>5, ServeRange
  <2> QED BY <2>1, NoSentinel DEF FailedOK
<1>6. CASE fetch' = NoFetch BY <1>6 DEF FailedOK
<1>7. CASE fetch' = fetch BY <1>1, <1>7 DEF FailedOK, IsGap
<1> QED BY StepKinds, <1>3, <1>4, <1>5, <1>6, <1>7
  DEF Discover, Finish, Evict, Assemble, GoLive, DiscoverLive, chunkVars

LEMMA EarnedFact ==
  ASSUME CursorsOK, FetchOK, MatchedOK, FailedOK
  PROVE  FatalIsEarned
PROOF
<1> SUFFICES ASSUME fetch # NoFetch, fetch.failed = "gap"
             PROVE  \E n \in fetch.from..fetch.to :
                      /\ Parents(n) # {} \/ BlockKept(app, n)
                      /\ fetch.missing \subseteq ReceiptFields =>
                           \/ NeedReceipts(app) /\ WantedLogs(n) # {}
                           \/ NeedTraceReceipts(app) /\ WantedTraces(n) # {}
                           \/ WantedTxs(n) # {}
  BY DEF FatalIsEarned
<1>1. IsGap(fetch) BY DEF FailedOK
<1>2. \A s \in fetch.matched : \E n \in fetch.from..fetch.to : Wants(s, n) BY DEF MatchedOK
<1>3. fetch.matched \subseteq {"log", "trace", "block", "tx"} BY SourcesFact DEF FetchOK
<1>4. \A n : (WantedLogs(n) # {} \/ WantedTraces(n) # {} \/ WantedTxs(n) # {}) => Parents(n) # {}
  BY DEF Parents
<1>5. \A s \in fetch.matched : \A n : Wants(s, n) => Parents(n) # {} \/ BlockKept(app, n)
  BY <1>3, <1>4 DEF Wants
<1>6. CASE ~(fetch.missing \subseteq ReceiptFields)
  <2>1. fetch.matched # {}
    <3>1. fetch.missing # fetch.missing \cap ReceiptFields BY <1>6
    <3> QED BY <1>1, <1>6 DEF IsGap
  <2> QED BY <2>1, <1>2, <1>5, <1>6
<1>7. CASE fetch.missing \subseteq ReceiptFields
  <2>1. \/ NeedReceipts(app) /\ "log" \in fetch.matched
        \/ NeedTraceReceipts(app) /\ "trace" \in fetch.matched
        \/ "tx" \in fetch.matched
    BY <1>1, <1>7 DEF IsGap
  <2>2. CASE NeedReceipts(app) /\ "log" \in fetch.matched
    <3>1. PICK n \in fetch.from..fetch.to : Wants("log", n) BY <1>2, <2>2
    <3>2. WantedLogs(n) # {} BY <3>1 DEF Wants
    <3> QED BY <3>2, <2>2, <1>4
  <2>3. CASE NeedTraceReceipts(app) /\ "trace" \in fetch.matched
    <3>1. PICK n \in fetch.from..fetch.to : Wants("trace", n) BY <1>2, <2>3
    <3>2. WantedTraces(n) # {} BY <3>1 DEF Wants
    <3> QED BY <3>2, <2>3, <1>4
  <2>4. CASE "tx" \in fetch.matched
    <3>1. PICK n \in fetch.from..fetch.to : Wants("tx", n) BY <1>2, <2>4
    <3>2. WantedTxs(n) # {} BY <3>1 DEF Wants
    <3> QED BY <3>2, <1>4
  <2> QED BY <2>1, <2>2, <2>3, <2>4
<1> QED BY <1>6, <1>7

-----------------------------------------------------------------------------
(* What is missing, in the range that is streamed and in the chunk.             *)
LEMMA FetchedStep ==
  ASSUME CursorsOK, FetchOK, ChildrenOK, ScanOK, DataOK, LiveOK, FetchedOK, Next
  PROVE  FetchedOK'
PROOF
<1>1. /\ \A s, raw : Keeps(s, raw)' <=> Keeps(s, raw)
      /\ \A s : Required(s)' = Required(s)
  BY FixedStep, StableWants
<1>2. \A s, n : data' = data => RawsOf(s, n)' = RawsOf(s, n) BY DEF RawsOf
<1>3. CASE \E to \in Numbers : StartFetch(to) /\ to <= DataEnd
  <2>1. fetch = NoFetch /\ covered' = covered /\ data' = data BY <1>3, StartFact DEF OnlyFetch
  <2>2. \A s \in ToSet(Sources), n \in Numbers : n >= covered => RawsOf(s, n) = {}
    BY <2>1 DEF FetchedOK
  <2> QED BY <2>1, <2>2, <1>2 DEF FetchedOK
<1>4. CASE RangeMoves
  <2>1. /\ covered' = covered /\ data' = data /\ fetch' # NoFetch /\ fetch'.to = fetch.to
        /\ fetch.missing \subseteq fetch'.missing /\ fetch'.matched = fetch.matched
    BY <1>4 DEF RangeMoves, OnlyFetch
  <2> QED BY <1>1, <1>2, <2>1 DEF FetchedOK
<1>5. ASSUME NEW last \in fetch.cursor..fetch.to, Serve(last) PROVE FetchedOK'
  <2> DEFINE source == Sources[fetch.source]
             Raw(n) == Served(source, fetch.todo[1], n)
  <2>1. /\ fetch # NoFetch /\ fetch' # NoFetch /\ fetch'.to = fetch.to
        /\ fetch'.missing = fetch.missing
        /\ fetch'.matched = fetch.matched \cup
              (IF \E n \in fetch.cursor..last : Buffered(source, Raw(n)) /\ Matched(source, Raw(n))
               THEN {source} ELSE {})
    BY <1>5, ServeRange
  <2>2. /\ source \in ToSet(Sources) /\ Requested \subseteq Fields
        /\ fetch.cursor..last \subseteq Numbers
        /\ \A s \in ToSet(Sources), n \in Numbers :
             \/ RawsOf(s, n)' = RawsOf(s, n)
             \/ /\ s = source /\ n \in fetch.cursor..last /\ Buffered(source, Raw(n))
                /\ Raw(n) \in RawAt(n) /\ RawsOf(s, n)' = RawsOf(s, n) \cup {Raw(n)}
    BY <1>5, ServeData
  <2>3. covered' = covered BY <1>5 DEF Serve
  <2>4. fetch.cursor \in Nat /\ fetch.to \in Nat /\ fetch.dropped \ Droppable \subseteq fetch.missing
    BY <2>1, NumbersFact DEF FetchOK
  <2>5. ASSUME NEW n \in fetch.cursor..last, Buffered(source, Raw(n))
        PROVE  /\ n <= fetch.to /\ Required(source) \ fetch.missing \subseteq Raw(n).has
               /\ Keeps(source, Raw(n)) => source \in fetch'.matched
    <3>1. n \in Numbers /\ n <= fetch.to BY <2>2, <2>4
    <3>2. Raw(n) \in RawAt(n) /\ Raw(n).has = Requested BY <2>2, <3>1, ServedFact
    <3>3. Required(source) \ fetch.missing \subseteq Requested
      BY <2>4 DEF Required, Requested
    <3>4. live = NotLive /\ (FactoriesOf(app) # {} => n <= scanned)
      BY <2>1, <3>1, FetchBelowScan
    <3> HIDE DEF source, Raw
    <3>5. Keeps(source, Raw(n)) => Matched(source, Raw(n))
      BY <2>2, <3>1, <3>2, <3>4, MatchedExact
    <3> QED BY <2>1, <2>5, <3>1, <3>2, <3>3, <3>5
  <2>6. ASSUME NEW s \in ToSet(Sources), NEW n \in Numbers, n >= covered, NEW raw \in RawsOf(s, n)'
        PROVE  /\ n <= fetch.to /\ Required(s) \ fetch.missing \subseteq raw.has
               /\ Keeps(s, raw) => s \in fetch'.matched
    <3>1. CASE raw \in RawsOf(s, n)
      BY <2>1, <2>6, <3>1 DEF FetchedOK
    <3>2. CASE raw \notin RawsOf(s, n)
      <4> HIDE DEF source, Raw
      <4>1. s = source /\ n \in fetch.cursor..last /\ Buffered(source, Raw(n)) /\ raw = Raw(n)
        BY <2>2, <2>6, <3>2
      <4> QED BY <4>1, <2>5
    <3> QED BY <3>1, <3>2
  <2> QED BY <1>1, <2>1, <2>3, <2>6 DEF FetchedOK
<1>6. CASE Finish /\ ~IsGap(fetch)
  <2>1. /\ fetch # NoFetch /\ covered' = fetch.to + 1 /\ covered <= fetch.to
        /\ fetch.to \in Numbers /\ data' = data
    BY <1>6, ResolveFact
  <2>2. ASSUME NEW s \in ToSet(Sources), NEW n \in Numbers, n >= covered' PROVE RawsOf(s, n)' = {}
    <3>1. n >= covered /\ ~(n <= fetch.to) BY <2>1, <2>2, NumbersFact DEF CursorsOK
    <3> QED BY <3>1, <2>1, <1>2 DEF FetchedOK
  <2> QED BY <2>2 DEF FetchedOK
<1>7. CASE Evict
  <2>1. data' = NoData BY <1>7 DEF Evict
  <2>2. \A s \in ToSet(Sources), n \in Numbers : RawsOf(s, n)' = {}
    BY <2>1 DEF RawsOf, NoData, ToSet
  <2> QED BY <2>2 DEF FetchedOK
<1>8. CASE UNCHANGED <<fetch, data, covered>> BY <1>1, <1>2, <1>8 DEF FetchedOK
<1> QED BY StepKinds, <1>3, <1>4, <1>5, <1>6, <1>7, <1>8
  DEF Discover, Assemble, GoLive, DiscoverLive, chunkVars

LEMMA ResolvedStep ==
  ASSUME CursorsOK, FetchOK, ChildrenOK, ScanOK, DataOK, LiveOK, FetchedOK, ResolvedOK, Next
  PROVE  ResolvedOK'
PROOF
<1>1. /\ \A s, raw : Keeps(s, raw)' <=> Keeps(s, raw)
      /\ \A s : Required(s)' = Required(s) /\ (Emits(s)' <=> Emits(s))
  BY FixedStep, StableWants
<1>2. ASSUME UNCHANGED covered, done' \in Int, done' >= done,
             \A s \in ToSet(Sources), n \in Numbers : n < covered => RawsOf(s, n)' = RawsOf(s, n)
      PROVE  ResolvedOK'
  <2>1. \A n \in Numbers : done' <= n /\ n < covered' => done <= n /\ n < covered
    BY <1>2, NumbersFact DEF CursorsOK
  <2> QED BY <1>1, <1>2, <2>1 DEF ResolvedOK
<1>3. done \in Int /\ done >= done /\ covered \in Int BY DEF CursorsOK
<1>4. \A s, n : data' = data => RawsOf(s, n)' = RawsOf(s, n) BY DEF RawsOf
<1>5. ASSUME NEW last \in fetch.cursor..fetch.to, Serve(last) PROVE ResolvedOK'
  <2>1. fetch # NoFetch /\ covered' = covered /\ done' = done
    BY <1>5 DEF Serve, AtStream, Streaming
  <2>2. fetch.cursor \in Nat /\ covered <= fetch.cursor BY <2>1 DEF FetchOK
  <2>3. \A s \in ToSet(Sources), n \in Numbers :
          RawsOf(s, n)' = RawsOf(s, n) \/ n \in fetch.cursor..last
    BY <1>5, ServeData
  <2>4. \A s \in ToSet(Sources), n \in Numbers : n < covered => RawsOf(s, n)' = RawsOf(s, n)
    BY <2>2, <2>3, <1>3, NumbersFact
  <2> QED BY <2>1, <2>4, <1>2, <1>3
<1>6. CASE Finish /\ ~IsGap(fetch)
  <2>1. /\ fetch # NoFetch /\ covered' = fetch.to + 1 /\ covered <= fetch.to
        /\ fetch.to \in Numbers /\ data' = data /\ done' = done
    BY <1>6, ResolveFact
  <2>2. \A s, n : RawsOf(s, n)' = RawsOf(s, n) BY <2>1, <1>4
  <2>3. /\ fetch.missing \subseteq ReceiptFields \/ fetch.matched = {}
        /\ fetch.missing \cap ReceiptFields = {} \/ \A s \in fetch.matched : ~Emits(s)
    <3>1. fetch.matched \subseteq {"log", "trace", "block", "tx"}
      BY <2>1, SourcesFact DEF FetchOK
    <3> QED BY <1>6, <3>1 DEF IsGap, Emits
  <2>4. ASSUME NEW n \in Numbers, done <= n, n < covered'
        PROVE
          /\ \/ \A s \in ToSet(Sources) : \A raw \in RawsOf(s, n) : Required(s) \ ReceiptFields \subseteq raw.has
             \/ \A s \in ToSet(Sources) : \A raw \in RawsOf(s, n) : ~Keeps(s, raw)
          /\ \/ \A s \in ToSet(Sources) : \A raw \in RawsOf(s, n) : Required(s) \cap ReceiptFields \subseteq raw.has
             \/ \A s \in ToSet(Sources) : \A raw \in RawsOf(s, n) : Emits(s) => ~Keeps(s, raw)
    <3>1. CASE n < covered BY <2>4, <3>1 DEF ResolvedOK
    <3>2. CASE n >= covered
      <4>1. \A s \in ToSet(Sources) : \A raw \in RawsOf(s, n) :
              /\ Required(s) \ fetch.missing \subseteq raw.has
              /\ Keeps(s, raw) => s \in fetch.matched
        BY <3>2 DEF FetchedOK
      <4> QED BY <4>1, <2>3
    <3> QED BY <3>1, <3>2, <1>3, NumbersFact
  <2> QED BY <1>1, <2>1, <2>2, <2>4 DEF ResolvedOK
<1>7. CASE Evict
  <2>1. covered' = done' /\ done' \in Int BY <1>7, <1>3 DEF Evict
  <2>2. \A n \in Numbers : ~(done' <= n /\ n < covered') BY <2>1, NumbersFact
  <2> QED BY <2>2 DEF ResolvedOK
<1>8. ASSUME NEW hi \in Numbers, Assemble(hi) PROVE ResolvedOK'
  <2>1. covered' = covered /\ data' = data /\ done' = hi + 1 /\ done <= hi
    BY <1>8 DEF Assemble, chunkVars
  <2> QED BY <2>1, <1>2, <1>3, <1>4, NumbersFact
<1>9. CASE UNCHANGED <<data, covered, done>> BY <1>9, <1>2, <1>3, <1>4
<1> QED BY StepKinds, <1>5, <1>6, <1>7, <1>8, <1>9
  DEF Discover, StartFetch, RangeMoves, OnlyFetch, GoLive, DiscoverLive, chunkVars

-----------------------------------------------------------------------------
(* The rows a range assembles.                                               *)
LEMMA RankedFact ==
  ASSUME NEW traces, NEW r \in RankTraces(traces)
  PROVE  r.trace \in traces
BY DEF RankTraces

(* A row of traces is of a trace that is kept.                                *)
LEMMA BuiltFact ==
  ASSUME NEW kids, NEW raw, NEW row \in BuildTraces(app, kids, raw)
  PROVE  /\ row.number = raw.number /\ row.has = raw.has
         /\ \E t \in raw.traces : TraceKept(app, kids, t, raw.number) /\ t.tx = row.tx
PROOF
<1> DEFINE Tree(tx) == {t \in raw.traces : t.tx = tx}
           ranked == UNION {RankTraces(Tree(t.tx)) : t \in {u \in raw.traces : ~IsReward(u)}}
<1>1. PICK x \in ranked : TraceKept(app, kids, x.trace, raw.number) /\ row = TraceRow(raw, x)
  BY DEF BuildTraces
<1>2. PICK tx : x \in RankTraces(Tree(tx)) BY <1>1
<1>3. x.trace \in raw.traces BY <1>2, RankedFact
<1>4. row.number = raw.number /\ row.has = raw.has /\ row.tx = x.trace.tx BY <1>1 DEF TraceRow
<1> QED BY <1>1, <1>3, <1>4

LEMMA TxRowsFact ==
  ASSUME NEW buffer, NEW wanted, NEW key \in DOMAIN TxRows(buffer, wanted), NEW S,
         buffer[key[1]] \in Seq(S)
  PROVE  /\ key \in wanted
         /\ \E raw \in ToSet(buffer[key[1]]) : TxRows(buffer, wanted)[key] = raw.has
PROOF
<1> DEFINE raws == buffer[key[1]]
           I == {i \in 1..Len(raws) : Carries(raws[i], key[2])}
           i == SelectInSeq(raws, LAMBDA raw : Carries(raw, key[2]))
<1>1. key \in wanted /\ \E j \in DOMAIN raws : Carries(raws[j], key[2]) BY DEF TxRows
<1>2. DOMAIN raws = 1..Len(raws) BY LenProperties
<1>3. I # {} BY <1>1, <1>2
<1>4. i \in I
  <2>1. I \subseteq Nat BY <1>2
  <2>2. i = Min(I) BY <1>3 DEF SelectInSeq
  <2> HIDE DEF I, i
  <2> QED BY <2>1, <2>2, <1>3, MinFact
<1>5. TxRows(buffer, wanted)[key] = raws[i].has BY DEF TxRows
<1> HIDE DEF i
<1>6. raws[i] \in ToSet(raws) BY <1>2, <1>4 DEF ToSet
<1> QED BY <1>1, <1>5, <1>6

LEMMA KeepFirstFact ==
  ASSUME NEW rows, NEW more, NEW c,
         \A k \in DOMAIN rows : c \in rows[k], \A k \in DOMAIN more : c \in more[k]
  PROVE  \A k \in DOMAIN KeepFirst(rows, more) : c \in KeepFirst(rows, more)[k]
BY DEF KeepFirst

(* The columns no row of a source can do without.                             *)
LEMMA RequiredFact ==
  /\ "log.data" \in Required("log") \ ReceiptFields
  /\ "trace.frame" \in Required("trace") \ ReceiptFields
  /\ \A s \in ToSet(Sources) : "block.required" \in Required(s) \ ReceiptFields
  /\ \A s \in {"log", "trace", "tx"} : "transaction.core" \in Required(s) \ ReceiptFields
  /\ \A s \in {"log", "trace", "tx"} :
       Emits(s) => "transaction.receipt" \in Required(s) \cap ReceiptFields
PROOF
<1>1. NeedTraceReceipts(app) => NeedReceipts(app) BY DEF NeedTraceReceipts, NeedReceipts
<1> QED BY <1>1, SourcesFact
  DEF Required, Emits, FieldsOf, Droppable, BlockFields, TxFields, ReceiptFields

LEMMA KeptColumns ==
  ASSUME CursorsOK, FetchOK, ChildrenOK, ScanOK, DataOK, LiveOK, ResolvedOK,
         NEW n \in Numbers, done <= n, n < covered,
         NEW s \in ToSet(Sources), NEW raw \in RawsOf(s, n), Matched(s, raw),
         NEW t \in ToSet(Sources), NEW other \in RawsOf(t, n)
  PROVE  /\ Required(t) \ ReceiptFields \subseteq other.has
         /\ Emits(s) => Required(t) \cap ReceiptFields \subseteq other.has
PROOF
<1>1. done < covered /\ n \in Int /\ scanned \in Int /\ covered \in Int /\ done \in Int
  BY NumbersFact DEF CursorsOK
<1>2. live = NotLive BY <1>1 DEF LiveOK
<1>3. FactoriesOf(app) # {} => n <= scanned BY <1>1 DEF CursorsOK
<1>4. raw \in RawAt(n)
  <2>1. data[s][n] \in Seq(RawAt(n)) BY DEF DataOK
  <2>2. DOMAIN data[s][n] = 1..Len(data[s][n])
        /\ \A i \in 1..Len(data[s][n]) : data[s][n][i] \in RawAt(n)
    BY <2>1, LenProperties, ElementOfSeq
  <2> QED BY <2>2 DEF RawsOf, ToSet
<1>5. Keeps(s, raw) BY <1>2, <1>3, <1>4, MatchedExact
<1> QED BY <1>5 DEF ResolvedOK

LEMMA NoGapInRows ==
  ASSUME CursorsOK, FetchOK, ChildrenOK, ScanOK, DataOK, LiveOK, ResolvedOK,
         NEW hi \in Numbers, done <= hi, hi < covered,
         NEW rows, rows = AssembleRange(app, children, data, done, hi)
  PROVE  /\ \A l \in rows.logs : "log.data" \in l.has
         /\ \A t \in rows.traces : "trace.frame" \in t.has
         /\ \A n \in DOMAIN rows.blocks : "block.required" \in rows.blocks[n]
         /\ \A h \in DOMAIN rows.txs : "transaction.core" \in rows.txs[h]
         /\ \A h \in DOMAIN rows.receipts : "transaction.receipt" \in rows.receipts[h]
PROOF
<1> DEFINE Raws(source) == UNION {ToSet(data[source][n]) : n \in done..hi}
           KeptLogs(raw) == {l \in raw.logs : LogKept(app, children, l, raw.number)}
           KeptTxs(raw) == {t \in raw.txs : TxKept(app, children, t, raw.number)}
           logs == UNION {{[number |-> raw.number, log |-> l, has |-> raw.has] : l \in KeptLogs(raw)} :
                            raw \in Raws("log")}
           traces == UNION {BuildTraces(app, children, raw) : raw \in Raws("trace")}
           wantedLog == {<<l.number, l.log.tx>> : l \in logs}
           wantedTx == UNION {{<<raw.number, t.hash>> : t \in KeptTxs(raw)} : raw \in Raws("tx")}
           wantedTrace == {<<r.number, r.tx>> : r \in traces}
           logTxs == TxRows(data["log"], wantedLog)
           filterTxs == TxRows(data["tx"], wantedTx)
           traceTxs == TxRows(data["trace"], wantedTrace)
           unseen == DOMAIN filterTxs \ DOMAIN logTxs
           logBlocks == [n \in {l.number : l \in logs} |-> LastHeader(data["log"][n])]
           dueBlocks == [n \in {raw.number : raw \in Raws("block")} |-> LastHeader(data["block"][n])]
           txBlocks == [n \in {key[1] : key \in unseen} |-> FirstHeader(data["tx"][n])]
           traceBlocks == [n \in {r.number : r \in traces} |-> FirstHeader(data["trace"][n])]
           NoTxs == TxRows(data["log"], {})
           due == IF NeedReceipts(app) THEN logTxs ELSE NoTxs
           dueTraces == IF NeedTraceReceipts(app) THEN traceTxs ELSE NoTxs
<1>1. rows =
        [logs |-> logs, traces |-> traces,
         blocks |-> KeepFirst(traceBlocks, KeepFirst(txBlocks, KeepFirst(logBlocks, dueBlocks))),
         txs |-> KeepFirst(traceTxs, KeepFirst(logTxs, filterTxs)),
         receipts |-> KeepFirst(due, KeepFirst(filterTxs, dueTraces))]
  BY DEF AssembleRange
<1>2. done..hi \subseteq Numbers /\ \A n \in done..hi : done <= n /\ n < covered
  BY NumbersFact DEF CursorsOK
<1>3. ASSUME NEW s \in ToSet(Sources), NEW n \in done..hi
      PROVE  /\ data[s][n] \in Seq(RawAt(n)) /\ RawsOf(s, n) = ToSet(data[s][n])
             /\ \A raw \in ToSet(data[s][n]) : raw.number = n
             /\ ToSet(data[s][n]) # {} => data[s][n] # <<>>
  <2>1. data[s][n] \in Seq(RawAt(n)) BY <1>2 DEF DataOK
  <2>2. DOMAIN data[s][n] = 1..Len(data[s][n])
        /\ \A i \in 1..Len(data[s][n]) : data[s][n][i] \in RawAt(n)
    BY <2>1, LenProperties, ElementOfSeq
  <2>3. \A raw \in ToSet(data[s][n]) : raw \in RawAt(n) BY <2>2 DEF ToSet
  <2>4. \A raw \in RawAt(n) : raw.number = n BY DEF RawAt
  <2>5. ToSet(<<>>) = {} BY DEF ToSet
  <2> QED BY <2>1, <2>3, <2>4, <2>5 DEF RawsOf
\* A source whose rows are kept at a block vouches for every source there.
<1> DEFINE Vouches(s, n) == \E raw \in ToSet(data[s][n]) : Matched(s, raw)
<1>4. ASSUME NEW s \in ToSet(Sources), NEW n \in done..hi, Vouches(s, n),
             NEW t \in ToSet(Sources), NEW other \in ToSet(data[t][n])
      PROVE  /\ Required(t) \ ReceiptFields \subseteq other.has
             /\ Emits(s) => Required(t) \cap ReceiptFields \subseteq other.has
  BY <1>2, <1>3, <1>4, KeptColumns
<1>5. {"log", "trace", "block", "tx"} = ToSet(Sources) BY SourcesFact
<1>6. ASSUME NEW l \in logs
      PROVE  /\ l.number \in done..hi /\ Vouches("log", l.number)
             /\ \E raw \in ToSet(data["log"][l.number]) : l.has = raw.has
  <2>0. PICK n \in done..hi : \E raw \in ToSet(data["log"][n]) : \E x \in KeptLogs(raw) :
          l = [number |-> raw.number, log |-> x, has |-> raw.has]
    OBVIOUS
  <2>1. PICK raw \in ToSet(data["log"][n]) : \E x \in KeptLogs(raw) :
          l = [number |-> raw.number, log |-> x, has |-> raw.has]
    BY <2>0
  <2>2. raw.number = n BY <1>3, <1>5
  <2>3. Matched("log", raw) BY <2>1 DEF Matched
  <2> QED BY <2>1, <2>2, <2>3
<1>7. ASSUME NEW r \in traces
      PROVE  /\ r.number \in done..hi /\ Vouches("trace", r.number)
             /\ \E raw \in ToSet(data["trace"][r.number]) : r.has = raw.has
  <2>0. PICK n \in done..hi : \E raw \in ToSet(data["trace"][n]) : r \in BuildTraces(app, children, raw)
    OBVIOUS
  <2>1. PICK raw \in ToSet(data["trace"][n]) : r \in BuildTraces(app, children, raw)
    BY <2>0
  <2>2. raw.number = n BY <1>3, <1>5
  <2>3. /\ r.number = raw.number /\ r.has = raw.has
        /\ \E t \in raw.traces : TraceKept(app, children, t, raw.number)
    BY <2>1, BuiltFact
  <2>4. Matched("trace", raw) BY <2>3 DEF Matched
  <2> QED BY <2>1, <2>2, <2>3, <2>4
<1>8. ASSUME NEW key \in wantedTx
      PROVE  key[1] \in done..hi /\ Vouches("tx", key[1])
  <2>0. PICK n \in done..hi : \E raw \in ToSet(data["tx"][n]) : \E t \in KeptTxs(raw) :
          key = <<raw.number, t.hash>>
    OBVIOUS
  <2>1. PICK raw \in ToSet(data["tx"][n]) : \E t \in KeptTxs(raw) :
          key = <<raw.number, t.hash>>
    BY <2>0
  <2>2. raw.number = n BY <1>3, <1>5
  <2>3. Matched("tx", raw) BY <2>1 DEF Matched
  <2> QED BY <2>1, <2>2, <2>3
<1>9. ASSUME NEW raw \in Raws("block")
      PROVE  raw.number \in done..hi /\ Vouches("block", raw.number)
  <2>1. PICK n \in done..hi : raw \in ToSet(data["block"][n]) OBVIOUS
  <2>2. raw.number = n BY <1>3, <1>5, <2>1
  <2>3. Matched("block", raw) BY DEF Matched
  <2> QED BY <2>1, <2>2, <2>3
<1> HIDE DEF Raws, logs, traces, wantedTx
<1>10. ASSUME NEW s \in {"log", "trace", "tx"}, NEW wanted, NEW key \in DOMAIN TxRows(data[s], wanted),
              \A k \in wanted : k[1] \in done..hi /\ Vouches(s, k[1])
       PROVE  /\ key[1] \in done..hi /\ Vouches(s, key[1]) /\ key \in wanted
              /\ "transaction.core" \in TxRows(data[s], wanted)[key]
              /\ Emits(s) => "transaction.receipt" \in TxRows(data[s], wanted)[key]
  <2>1. key \in wanted BY DEF TxRows
  <2>2. key[1] \in done..hi /\ Vouches(s, key[1]) BY <2>1, <1>10
  <2>3. data[s][key[1]] \in Seq(RawAt(key[1])) BY <2>2, <1>3, <1>5
  <2>4. PICK raw \in ToSet(data[s][key[1]]) : TxRows(data[s], wanted)[key] = raw.has
    BY <2>3, TxRowsFact
  <2>5. /\ Required(s) \ ReceiptFields \subseteq raw.has
        /\ Emits(s) => Required(s) \cap ReceiptFields \subseteq raw.has
    BY <1>4, <1>5, <2>2
  <2> QED BY <2>1, <2>2, <2>4, <2>5, RequiredFact
<1>11. /\ \A k \in wantedLog : k[1] \in done..hi /\ Vouches("log", k[1])
       /\ \A k \in wantedTrace : k[1] \in done..hi /\ Vouches("trace", k[1])
  BY <1>6, <1>7
<1> HIDE DEF wantedLog, wantedTrace
<1>12. ASSUME NEW s \in ToSet(Sources), NEW n \in done..hi, Vouches(s, n)
       PROVE  /\ "block.required" \in LastHeader(data[s][n])
              /\ "block.required" \in FirstHeader(data[s][n])
  <2>1. data[s][n] \in Seq(RawAt(n)) /\ data[s][n] # <<>> BY <1>3, <1>12
  <2>2. Head(data[s][n]) \in ToSet(data[s][n]) /\ Last(data[s][n]) \in ToSet(data[s][n])
    BY <2>1, EndsAreMembers
  <2>3. \A raw \in ToSet(data[s][n]) : Required(s) \ ReceiptFields \subseteq raw.has
    BY <1>4, <1>12
  <2> QED BY <2>2, <2>3, RequiredFact DEF LastHeader, FirstHeader
<1>13. \A l \in logs : "log.data" \in l.has
  <2> SUFFICES ASSUME NEW l \in logs PROVE "log.data" \in l.has
    OBVIOUS
  <2>1. PICK raw \in ToSet(data["log"][l.number]) : l.has = raw.has BY <1>6
  <2>2. Required("log") \ ReceiptFields \subseteq raw.has BY <1>4, <1>5, <1>6
  <2> QED BY <2>1, <2>2, RequiredFact
<1>14. \A r \in traces : "trace.frame" \in r.has
  <2> SUFFICES ASSUME NEW r \in traces PROVE "trace.frame" \in r.has
    OBVIOUS
  <2>1. PICK raw \in ToSet(data["trace"][r.number]) : r.has = raw.has BY <1>7
  <2>2. Required("trace") \ ReceiptFields \subseteq raw.has BY <1>4, <1>5, <1>7
  <2> QED BY <2>1, <2>2, RequiredFact
<1>15. \A k \in unseen : k \in wantedTx BY DEF TxRows
<1> HIDE DEF unseen
<1>16. /\ \A n \in DOMAIN logBlocks : "block.required" \in logBlocks[n]
       /\ \A n \in DOMAIN dueBlocks : "block.required" \in dueBlocks[n]
       /\ \A n \in DOMAIN txBlocks : "block.required" \in txBlocks[n]
       /\ \A n \in DOMAIN traceBlocks : "block.required" \in traceBlocks[n]
  <2> HIDE DEF Vouches
  <2>1. \A n \in DOMAIN logBlocks : "block.required" \in logBlocks[n] BY <1>5, <1>6, <1>12
  <2>2. \A n \in DOMAIN dueBlocks : "block.required" \in dueBlocks[n] BY <1>5, <1>9, <1>12
  <2>3. \A n \in DOMAIN txBlocks : "block.required" \in txBlocks[n] BY <1>5, <1>8, <1>12, <1>15
  <2>4. \A n \in DOMAIN traceBlocks : "block.required" \in traceBlocks[n] BY <1>5, <1>7, <1>12
  <2> QED BY <2>1, <2>2, <2>3, <2>4
<1>17. /\ \A k \in DOMAIN logTxs : /\ "transaction.core" \in logTxs[k]
                                   /\ NeedReceipts(app) => "transaction.receipt" \in logTxs[k]
       /\ \A k \in DOMAIN filterTxs : /\ "transaction.core" \in filterTxs[k]
                                      /\ "transaction.receipt" \in filterTxs[k]
       /\ \A k \in DOMAIN traceTxs : /\ "transaction.core" \in traceTxs[k]
                                     /\ NeedTraceReceipts(app) => "transaction.receipt" \in traceTxs[k]
  <2>1. Emits("tx") /\ (Emits("log") <=> NeedReceipts(app)) /\ (Emits("trace") <=> NeedTraceReceipts(app))
    BY DEF Emits
  <2> HIDE DEF Vouches
  <2> QED BY <2>1, <1>8, <1>10, <1>11
<1>18. DOMAIN NoTxs = {} BY DEF TxRows
<1> HIDE DEF logBlocks, dueBlocks, txBlocks, traceBlocks, logTxs, filterTxs, traceTxs, NoTxs
<1>19. /\ \A k \in DOMAIN due : "transaction.receipt" \in due[k]
       /\ \A k \in DOMAIN dueTraces : "transaction.receipt" \in dueTraces[k]
  BY <1>17, <1>18
<1> HIDE DEF due, dueTraces
<1>20. \A n \in DOMAIN rows.blocks : "block.required" \in rows.blocks[n]
  <2>1. \A n \in DOMAIN KeepFirst(logBlocks, dueBlocks) :
          "block.required" \in KeepFirst(logBlocks, dueBlocks)[n]
    BY <1>16, KeepFirstFact
  <2> DEFINE more == KeepFirst(logBlocks, dueBlocks)
  <2> HIDE DEF more
  <2>2. \A n \in DOMAIN KeepFirst(txBlocks, more) : "block.required" \in KeepFirst(txBlocks, more)[n]
    BY <2>1, <1>16, KeepFirstFact DEF more
  <2> DEFINE most == KeepFirst(txBlocks, more)
  <2> HIDE DEF most
  <2>3. \A n \in DOMAIN KeepFirst(traceBlocks, most) :
          "block.required" \in KeepFirst(traceBlocks, most)[n]
    BY <2>2, <1>16, KeepFirstFact DEF most
  <2> QED BY <2>3, <1>1 DEF more, most
<1>21. \A k \in DOMAIN rows.txs : "transaction.core" \in rows.txs[k]
  <2> DEFINE more == KeepFirst(logTxs, filterTxs)
  <2>1. \A k \in DOMAIN more : "transaction.core" \in more[k] BY <1>17, KeepFirstFact
  <2> HIDE DEF more
  <2>2. \A k \in DOMAIN KeepFirst(traceTxs, more) :
          "transaction.core" \in KeepFirst(traceTxs, more)[k]
    BY <2>1, <1>17, KeepFirstFact
  <2> QED BY <2>2, <1>1 DEF more
<1>22. \A k \in DOMAIN rows.receipts : "transaction.receipt" \in rows.receipts[k]
  <2> DEFINE more == KeepFirst(filterTxs, dueTraces)
  <2>1. \A k \in DOMAIN more : "transaction.receipt" \in more[k] BY <1>17, <1>19, KeepFirstFact
  <2> HIDE DEF more
  <2>2. \A k \in DOMAIN KeepFirst(due, more) : "transaction.receipt" \in KeepFirst(due, more)[k]
    BY <2>1, <1>19, KeepFirstFact
  <2> QED BY <2>2, <1>1 DEF more
<1>23. rows.logs = logs /\ rows.traces = traces BY <1>1
<1> QED BY <1>13, <1>14, <1>20, <1>21, <1>22, <1>23

LEMMA SilentGapStep ==
  ASSUME CursorsOK, FetchOK, ChildrenOK, ScanOK, DataOK, LiveOK, ResolvedOK, NoSilentGap, Next
  PROVE  NoSilentGap'
PROOF
<1>1. ASSUME NEW hi \in Numbers, Assemble(hi) PROVE NoSilentGap'
  <2> DEFINE rows == AssembleRange(app, children, data, done, hi)
  <2>1. /\ \A l \in rows.logs : "log.data" \in l.has
        /\ \A t \in rows.traces : "trace.frame" \in t.has
        /\ \A n \in DOMAIN rows.blocks : "block.required" \in rows.blocks[n]
        /\ \A h \in DOMAIN rows.txs : "transaction.core" \in rows.txs[h]
        /\ \A h \in DOMAIN rows.receipts : "transaction.receipt" \in rows.receipts[h]
    BY <1>1, NoGapInRows DEF Assemble
  <2>2. store' = Inserted(rows) BY <1>1 DEF Assemble
  <2> HIDE DEF rows
  <2>3. /\ store'.logs = store.logs \cup rows.logs /\ store'.traces = store.traces \cup rows.traces
        /\ store'.blocks = KeepFirst(store.blocks, rows.blocks)
        /\ store'.txs = KeepFirst(store.txs, rows.txs)
        /\ store'.receipts = KeepFirst(store.receipts, rows.receipts)
    BY <2>2 DEF Inserted
  <2>4. \A n \in DOMAIN store'.blocks : "block.required" \in store'.blocks[n]
    BY <2>1, <2>3, KeepFirstFact DEF NoSilentGap
  <2>5. \A h \in DOMAIN store'.txs : "transaction.core" \in store'.txs[h]
    BY <2>1, <2>3, KeepFirstFact DEF NoSilentGap
  <2>6. \A h \in DOMAIN store'.receipts : "transaction.receipt" \in store'.receipts[h]
    BY <2>1, <2>3, KeepFirstFact DEF NoSilentGap
  <2> QED BY <2>1, <2>3, <2>4, <2>5, <2>6 DEF NoSilentGap
<1>2. CASE store' = store BY <1>2 DEF NoSilentGap
<1> QED BY StepKinds, <1>1, <1>2
  DEF Discover, StartFetch, RangeMoves, OnlyFetch, Serve, Finish, Evict, GoLive, DiscoverLive

-----------------------------------------------------------------------------
(* Packing, cutting and merging lose no request.                             *)
(* Packing is a fold over the requests.                                     *)
LEMMA PackRuns ==
  ASSUME NEW R, NEW requests \in Seq(R)
  PROVE  \E run : /\ run[0] = <<>>
                  /\ \A i \in 1..Len(requests) : run[i] = PackInto(run[i - 1], requests[i])
                  /\ Pack(requests) = run[Len(requests)]
PROOF
<1> DEFINE k == Len(requests)
           T == Seq(Seq(R))
           G == [x \in T \X (1..k) |-> PackInto(x[1], requests[x[2]])]
           Step(iter, s) == IF s = {} THEN <<>> ELSE PackInto(iter[s \ {Max(s)}], requests[Max(s)])
<1>1. k \in Nat /\ DOMAIN requests = 1..k /\ \A i \in 1..k : requests[i] \in R
  BY LenProperties, ElementOfSeq
<1>2. ASSUME NEW shards \in T, NEW r \in R PROVE PackInto(shards, r) \in T
  <2>1. <<r>> \in Seq(R) BY EmptySeq, AppendProperties
  <2>2. CASE shards # <<>> /\ Fits(Append(Last(shards), r))
    <3>1. Len(shards) \in Nat \ {0} /\ DOMAIN shards = 1..Len(shards) BY <2>2, LenProperties, EmptySeq
    <3>2. Last(shards) = shards[Len(shards)] /\ shards[Len(shards)] \in Seq(R)
      BY <3>1, ElementOfSeq DEF Last
    <3>3. Append(shards[Len(shards)], r) \in Seq(R) BY <3>2, AppendProperties
    <3>4. [shards EXCEPT ![Len(shards)] = Append(@, r)] \in T
      BY <3>1, <3>3, ExceptSeq
    <3> QED BY <2>2, <3>4 DEF PackInto
  <2>3. CASE ~(shards # <<>> /\ Fits(Append(Last(shards), r)))
    <3>1. Append(shards, <<r>>) \in T BY <2>1, AppendProperties
    <3> QED BY <2>3, <3>1 DEF PackInto
  <2> QED BY <2>2, <2>3
<1>3. G \in [T \X (1..k) -> T] BY <1>1, <1>2
<1>4. <<>> \in T BY EmptySeq
<1>5. \E iter : iter = [s \in SUBSET (1..k) |-> Step(iter, s)]
  <2>1. PICK iter : IsFold(iter, T, <<>>, k, G)
    <3> HIDE DEF G, T, k
    <3> QED BY <1>1, <1>3, <1>4, FoldExists
  <2>2. ASSUME NEW s \in SUBSET (1..k), s # {}
        PROVE  G[<<iter[s \ {Max(s)}], Max(s)>>] = PackInto(iter[s \ {Max(s)}], requests[Max(s)])
    <3>1. s \subseteq Nat /\ IsFiniteSet(s)
      <4>1. IsFiniteSet(1..k) /\ 1..k \subseteq Nat BY <1>1, FS_Interval
      <4> QED BY <4>1, FS_Subset
    <3>2. Max(s) \in 1..k BY <2>2, <3>1, MaxFact
    <3>3. iter[s \ {Max(s)}] \in T
      <4> HIDE DEF T, k
      <4> QED BY <2>1 DEF IsFold
    <3> HIDE DEF T
    <3> QED BY <3>2, <3>3
  <2>3. \A s \in SUBSET (1..k) : iter[s] = Step(iter, s) BY <2>1, <2>2 DEF IsFold
  <2>4. iter = [s \in SUBSET (1..k) |-> Step(iter, s)]
    <3> HIDE DEF Step, k, T
    <3> QED BY <2>1, <2>3 DEF IsFold
  <2> QED BY <2>4
<1> DEFINE iter == CHOOSE iter : iter = [s \in SUBSET (1..k) |-> Step(iter, s)]
           run == [i \in 0..k |-> iter[1..i]]
<1>6. iter = [s \in SUBSET (1..k) |-> Step(iter, s)]
  <2> HIDE DEF k, Step
  <2> QED BY <1>5
<1>7. Pack(requests) = iter[1..k] BY <1>1 DEF Pack, FoldLeft, MapThenFoldSet
<1> HIDE DEF iter
<1>8. ASSUME NEW i \in 1..k PROVE iter[1..i] = PackInto(iter[1..(i - 1)], requests[i])
  <2>1. 1..i \in SUBSET (1..k) /\ 1..i # {} /\ Max(1..i) = i
    <3>1. i \in 1..i BY <1>1
    <3> QED BY <1>1, <3>1, MaxOfInterval
  <2>2. (1..i) \ {i} = 1..(i - 1) BY <1>1
  <2>3. iter[1..i] = Step(iter, 1..i) BY <1>6, <2>1
  <2> QED BY <2>1, <2>2, <2>3
<1>9. iter[1..0] = <<>>
  <2>1. 1..0 = {} /\ 1..0 \in SUBSET (1..k) BY <1>1
  <2>2. iter[1..0] = Step(iter, 1..0) BY <1>6, <2>1
  <2> QED BY <2>1, <2>2
<1>10. /\ run[0] = <<>> /\ \A i \in 1..k : run[i] = PackInto(run[i - 1], requests[i])
       /\ Pack(requests) = run[k]
  <2>1. \A i \in 1..k : i \in 0..k /\ i - 1 \in 0..k BY <1>1
  <2>2. 0 \in 0..k /\ k \in 0..k BY <1>1
  <2> QED BY <1>7, <1>8, <1>9, <2>1, <2>2
<1> QED BY <1>10

(* What packing promises of its shards.                                      *)
Holding(shards, x) == \E j \in DOMAIN shards : x \in ToSet(shards[j])
Sharded(shards, R) ==
  /\ shards \in Seq(Seq(R))
  /\ \A j \in DOMAIN shards : Fits(shards[j]) \/ Len(shards[j]) = 1

(* One request more is put into the last shard or a new one.                *)
LEMMA PackStep ==
  ASSUME NEW R, NEW shards, Sharded(shards, R), NEW r \in R
  PROVE  /\ Sharded(PackInto(shards, r), R)
         /\ Holding(PackInto(shards, r), r)
         /\ \A x : Holding(shards, x) => Holding(PackInto(shards, r), x)
PROOF
<1> DEFINE n == Len(shards)
<1>1. n \in Nat /\ DOMAIN shards = 1..n /\ \A j \in 1..n : shards[j] \in Seq(R)
  BY LenProperties, ElementOfSeq DEF Sharded
<1>2. shards \in Seq(Seq(R)) BY DEF Sharded
<1>3. CASE shards # <<>> /\ Fits(Append(Last(shards), r))
  <2> DEFINE grown == Append(shards[n], r)  next == [shards EXCEPT ![n] = grown]
  <2>1. n \in 1..n /\ Last(shards) = shards[n] BY <1>1, <1>2, <1>3, EmptySeq DEF Last
  <2>2. grown \in Seq(R) /\ ToSet(grown) = ToSet(shards[n]) \cup {r}
    BY <2>1, <1>1, MembersOfAppend
  <2>3. PackInto(shards, r) = next BY <1>3, <2>1 DEF PackInto
  <2>4. next \in Seq(Seq(R)) /\ DOMAIN next = 1..n BY <1>1, <1>2, <2>1, <2>2, ExceptSeq
  <2>5. next[n] = grown /\ \A j \in 1..n : j # n => next[j] = shards[j] BY <1>1, <2>1
  <2>6. Fits(grown) BY <1>3, <2>1
  <2> HIDE DEF grown, next
  <2>7. Sharded(next, R) BY <1>1, <2>4, <2>5, <2>6 DEF Sharded
  <2>8. Holding(next, r) BY <2>1, <2>2, <2>4, <2>5 DEF Holding
  <2>9. \A x : Holding(shards, x) => Holding(next, x)
    BY <1>1, <2>1, <2>2, <2>4, <2>5 DEF Holding
  <2> QED BY <2>3, <2>7, <2>8, <2>9
<1>4. CASE ~(shards # <<>> /\ Fits(Append(Last(shards), r)))
  <2> DEFINE next == Append(shards, <<r>>)
  <2>1. PackInto(shards, r) = next BY <1>4 DEF PackInto
  <2>2. <<r>> \in Seq(R) /\ Len(<<r>>) = 1 /\ ToSet(<<r>>) = {r}
    <3>1. <<r>> \in Seq(R) /\ Len(<<r>>) = 1 /\ DOMAIN <<r>> = 1..1 /\ <<r>>[1] = r OBVIOUS
    <3> QED BY <3>1 DEF ToSet
  <2>3. /\ next \in Seq(Seq(R)) /\ DOMAIN next = 1..(n + 1)
        /\ next[n + 1] = <<r>> /\ \A j \in 1..n : next[j] = shards[j]
    BY <1>2, <2>2, AppendProperties, LenProperties
  <2> HIDE DEF next
  <2>4. \A j \in 1..(n + 1) : j \in 1..n \/ j = n + 1 BY <1>1
  <2>5. n + 1 \in 1..(n + 1) /\ 1..n \subseteq 1..(n + 1) BY <1>1
  <2>6. Sharded(next, R) BY <1>1, <2>2, <2>3, <2>4 DEF Sharded
  <2>7. Holding(next, r) BY <2>2, <2>3, <2>5 DEF Holding
  <2>8. \A x : Holding(shards, x) => Holding(next, x) BY <1>1, <2>3, <2>5 DEF Holding
  <2> QED BY <2>1, <2>6, <2>7, <2>8
<1> QED BY <1>3, <1>4

(* Every request is in a shard, and a shard over budget is a single request.     *)
LEMMA PackFact ==
  ASSUME NEW R, NEW requests \in Seq(R)
  PROVE  /\ Sharded(Pack(requests), R)
         /\ \A i \in DOMAIN requests : Holding(Pack(requests), requests[i])
PROOF
<1> DEFINE k == Len(requests)
<1>1. PICK run : /\ run[0] = <<>> /\ \A i \in 1..k : run[i] = PackInto(run[i - 1], requests[i])
                 /\ Pack(requests) = run[k]
  BY PackRuns
<1>2. k \in Nat /\ DOMAIN requests = 1..k /\ \A i \in 1..k : requests[i] \in R
  BY LenProperties, ElementOfSeq
<1> DEFINE Fine(i) == Sharded(run[i], R) /\ \A j \in 1..i : Holding(run[i], requests[j])
           Wrong == {i \in 0..k : ~Fine(i)}
<1> HIDE DEF k
<1>3. SUFFICES Wrong = {}
  <2>1. k \in 0..k BY <1>2
  <2> QED BY <1>1, <1>2, <1>3, <2>1
<1>4. SUFFICES ASSUME Wrong # {} PROVE FALSE OBVIOUS
<1>5. PICK i \in Wrong : \A j \in Wrong : i <= j
  <2>1. Wrong \subseteq Nat BY <1>2
  <2> HIDE DEF Wrong
  <2> QED BY <1>4, <2>1, LeastElement
<1>6. i \in 0..k /\ ~Fine(i) OBVIOUS
<1>7. i # 0
  <2>1. Sharded(<<>>, R) BY EmptySeq DEF Sharded
  <2>2. \A j \in 1..0 : FALSE OBVIOUS
  <2> QED BY <1>1, <1>6, <2>1, <2>2
<1>8. i - 1 \in 0..k /\ i \in 1..k BY <1>2, <1>6, <1>7
<1>9. Fine(i - 1)
  <2>1. i - 1 \notin Wrong
    <3> HIDE DEF Wrong
    <3> QED BY <1>2, <1>5, <1>6, <1>8
  <2> QED BY <2>1, <1>8
<1>10. run[i] = PackInto(run[i - 1], requests[i]) /\ requests[i] \in R BY <1>1, <1>2, <1>8
<1>11. /\ Sharded(run[i], R) /\ Holding(run[i], requests[i])
       /\ \A x : Holding(run[i - 1], x) => Holding(run[i], x)
  BY <1>9, <1>10, PackStep
<1>12. \A j \in 1..i : j \in 1..(i - 1) \/ j = i BY <1>2, <1>6
<1> QED BY <1>6, <1>9, <1>11, <1>12

(* How often m goes into x.                                                  *)
LEMMA DivFact ==
  ASSUME NEW x \in Nat, NEW m \in Nat \ {0}
  PROVE  /\ x \div m \in Nat
         /\ (x \div m) * m <= x
         /\ \A i \in Nat : i * m <= x => i <= x \div m
PROOF
<1> DEFINE q == x \div m
<1>1. q \in Int /\ q * m <= x /\ x < q * m + m BY SMT
<1>2. q \in Nat
  <2>1. SUFFICES ASSUME q < 0 PROVE FALSE BY <1>1
  <2> HIDE DEF q
  <2>2. q + 1 <= 0 BY <2>1, <1>1
  <2>3. (q + 1) * m <= 0 BY <2>2, <1>1
  <2>4. (q + 1) * m = q * m + m BY <1>1
  <2> QED BY <2>3, <2>4, <1>1
<1>3. ASSUME NEW i \in Nat, i * m <= x PROVE i <= q
  <2>1. SUFFICES ASSUME i >= q + 1 PROVE FALSE BY <1>2
  <2> HIDE DEF q
  <2>2. i * m >= (q + 1) * m BY <2>1, <1>2
  <2>3. (q + 1) * m = q * m + m BY <1>2
  <2>4. i * m \in Int /\ q * m \in Int BY <1>2
  <2> QED BY <1>1, <1>3, <2>2, <2>3, <2>4
<1> QED BY <1>1, <1>2, <1>3

(* Batches cut a sequence into sequences that have its members.                 *)
LEMMA BatchesFact ==
  ASSUME NEW S, NEW addresses \in Seq(S)
  PROVE  /\ Batches(addresses) \in Seq(Seq(S))
         /\ \A a \in ToSet(addresses) : \E i \in DOMAIN Batches(addresses) : a \in ToSet(Batches(addresses)[i])
PROOF
<1> DEFINE n == Len(addresses)  M == MaxAddresses  K == (n + M - 1) \div M
           Batch(i) == SubSeq(addresses, (i - 1) * M + 1, Min({i * M, n}))
<1>1. n \in Nat /\ DOMAIN addresses = 1..n /\ \A i \in 1..n : addresses[i] \in S
  BY LenProperties, ElementOfSeq
<1>2. M \in Nat \ {0} BY FetchSpecAssumption
<1>3. K \in Nat /\ \A i \in Nat : i * M <= n + M - 1 => i <= K
  <2> HIDE DEF n, M
  <2>1. n + M - 1 \in Nat BY <1>1, <1>2
  <2> QED BY <2>1, <1>2, DivFact
<1>4. Batches(addresses) = [i \in 1..K |-> Batch(i)] BY DEF Batches
<1> HIDE DEF n, M, K
<1>5. ASSUME NEW i \in 1..K
      PROVE  /\ i \in Nat \ {0} /\ (i - 1) * M \in Nat /\ i * M \in Nat
             /\ Min({i * M, n}) = IF i * M <= n THEN i * M ELSE n
  <2>1. i \in Nat \ {0} /\ i - 1 \in Nat BY <1>3
  <2>2. (i - 1) * M \in Nat /\ i * M \in Nat BY <2>1, <1>2
  <2> HIDE DEF M
  <2>3. i * M \in Int /\ n \in Int BY <2>2, <1>1
  <2> QED BY <2>1, <2>2, <2>3, MinOfTwo
<1>6. ASSUME NEW i \in 1..K
      PROVE  /\ Batch(i) \in Seq(S)
             /\ \A p \in 1..n : (i - 1) * M < p /\ p <= i * M => addresses[p] \in ToSet(Batch(i))
  <2> DEFINE lo == (i - 1) * M + 1  hi == Min({i * M, n})  low == (i - 1) * M  high == i * M
  <2>1. low \in Nat /\ high \in Nat /\ lo = low + 1 /\ hi = IF high <= n THEN high ELSE n BY <1>5
  <2> HIDE DEF lo, hi, low, high
  <2>2. lo \in Int /\ hi \in Int /\ \A p \in lo..hi : addresses[p] \in S BY <2>1, <1>1
  <2>3. /\ SubSeq(addresses, lo, hi) \in Seq(S)
        /\ Len(SubSeq(addresses, lo, hi)) = IF lo <= hi THEN hi - lo + 1 ELSE 0
        /\ \A j \in 1..(hi - lo + 1) : SubSeq(addresses, lo, hi)[j] = addresses[lo + j - 1]
    BY <2>2, SubSeqProperties
  <2>4. ASSUME NEW p \in 1..n, low < p, p <= high
        PROVE  addresses[p] \in ToSet(SubSeq(addresses, lo, hi))
    <3> DEFINE j == p - lo + 1
    <3>1. lo <= p /\ p <= hi /\ p \in Int BY <2>1, <2>4, <1>1
    <3>2. j \in 1..(hi - lo + 1) /\ lo + j - 1 = p BY <3>1, <2>2
    <3>3. lo <= hi BY <3>1, <2>2
    <3> DEFINE b == SubSeq(addresses, lo, hi)
    <3>4. DOMAIN b = 1..(hi - lo + 1) BY <2>3, <3>3, LenProperties
    <3>5. b[j] = addresses[p] BY <2>3, <3>2
    <3> HIDE DEF b, j
    <3> QED BY <3>2, <3>4, <3>5 DEF ToSet, b
  <2>5. Batch(i) = SubSeq(addresses, lo, hi) BY DEF lo, hi
  <2> QED BY <2>3, <2>4, <2>5 DEF low, high
<1>7. Batches(addresses) \in Seq(Seq(S)) /\ DOMAIN Batches(addresses) = 1..K
      /\ \A i \in 1..K : Batches(addresses)[i] = Batch(i)
  <2> DEFINE T == Seq(S)  B == [i \in 1..K |-> Batch(i)]
  <2>1. \A i \in 1..K : Batch(i) \in T BY <1>6
  <2>2. B \in [1..K -> T]
    <3> HIDE DEF T, Batch
    <3> QED BY <2>1
  <2> HIDE DEF T, Batch
  <2>3. B \in Seq(T) BY <2>2, <1>3, IsASeq
  <2> QED BY <2>3, <1>4 DEF T
<1>8. ASSUME NEW p \in 1..n PROVE \E i \in 1..K : (i - 1) * M < p /\ p <= i * M
  <2> DEFINE Reach == {i \in Nat : p <= i * M}
  <2>1. p \in Nat /\ p <= p * M /\ p >= 1 /\ p <= n BY <1>1, <1>2
  <2>2. p \in Reach BY <2>1
  <2>3. PICK i \in Reach : \A j \in Reach : i <= j
    <3>1. Reach \subseteq Nat OBVIOUS
    <3> HIDE DEF Reach
    <3> QED BY <2>2, <3>1, LeastElement
  <2>4. i \in Nat /\ p <= i * M OBVIOUS
  <2>5. i # 0 BY <2>1, <2>4, <1>2
  <2>6. i - 1 \in Nat /\ i - 1 \notin Reach
    <3>1. i - 1 \in Nat BY <2>4, <2>5
    <3> HIDE DEF Reach
    <3> QED BY <2>3, <2>4, <3>1
  <2>7. (i - 1) * M < p /\ (i - 1) * M = i * M - M /\ i * M \in Nat
    <3>1. (i - 1) * M \in Nat /\ i * M \in Nat BY <2>4, <2>6, <1>2
    <3>2. ~(p <= (i - 1) * M) BY <2>6
    <3>3. (i - 1) * M = i * M - M BY <2>4, <1>2
    <3> QED BY <2>1, <3>1, <3>2, <3>3
  <2> DEFINE high == i * M
  <2>8. high <= n + M - 1
    <3>1. high - M < p /\ high \in Nat BY <2>7
    <3> HIDE DEF high
    <3> QED BY <3>1, <2>1, <1>1, <1>2
  <2>9. i <= K BY <1>3, <2>4, <2>8
  <2> QED BY <2>4, <2>5, <2>7, <2>9, <1>3
<1>9. ASSUME NEW a \in ToSet(addresses) PROVE \E i \in 1..K : a \in ToSet(Batch(i))
  <2>1. PICK p \in 1..n : a = addresses[p] BY <1>1 DEF ToSet
  <2>2. PICK i \in 1..K : (i - 1) * M < p /\ p <= i * M BY <1>8
  <2> HIDE DEF Batch
  <2> QED BY <2>1, <2>2, <1>6
<1> HIDE DEF Batch
<1> QED BY <1>7, <1>9

LogRequests(A, U, B) == [address : A, topic0 : (SUBSET U) \cup {Undefined}, topic1 : B]
AsksLog(requests, log) == \E j \in DOMAIN requests : Asked(requests[j], log)

(* What two requests ask for, their union does.                             *)
LEMMA JoinedFact ==
  ASSUME NEW U, NEW s \in (SUBSET U) \cup {Undefined}, NEW t \in (SUBSET U) \cup {Undefined}
  PROVE  /\ Joined(s, t) \in (SUBSET U) \cup {Undefined}
         /\ \A x : Admits(s, x) \/ Admits(t, x) => Admits(Joined(s, t), x)
PROOF
<1>1. CASE s = Undefined \/ t = Undefined BY <1>1 DEF Joined, Admits
<1>2. CASE s # Undefined /\ t # Undefined
  <2>1. s \in SUBSET U /\ t \in SUBSET U BY <1>2
  <2>2. Joined(s, t) = s \cup t BY <1>2 DEF Joined
  <2>3. s \cup t \in SUBSET U BY <2>1
  <2> QED BY <1>2, <2>2, <2>3 DEF Admits
<1> QED BY <1>1, <1>2

(* Merging one request in keeps what the groups ask for.                    *)
LEMMA MergeStep ==
  ASSUME NEW A, NEW U, NEW B, NEW groups \in Seq(LogRequests(A, U, B)), NEW r \in LogRequests(A, U, B)
  PROVE  /\ MergeInto(groups, r) \in Seq(LogRequests(A, U, B))
         /\ \A l : AsksLog(groups, l) \/ Asked(r, l) => AsksLog(MergeInto(groups, r), l)
PROOF
<1> DEFINE n == Len(groups)
           I == {i \in 1..n : Alike(groups[i], r)}
           first == SelectInSeq(groups, LAMBDA g : Alike(g, r))
<1>1. n \in Nat /\ DOMAIN groups = 1..n /\ \A i \in 1..n : groups[i] \in LogRequests(A, U, B)
  BY LenProperties, ElementOfSeq
<1>2. first = IF I # {} THEN Min(I) ELSE 0 BY DEF SelectInSeq
<1>3. CASE I = {}
  <2>1. MergeInto(groups, r) = Append(groups, r) BY <1>2, <1>3 DEF MergeInto
  <2>2. /\ Append(groups, r) \in Seq(LogRequests(A, U, B)) /\ DOMAIN Append(groups, r) = 1..(n + 1)
        /\ Append(groups, r)[n + 1] = r /\ \A i \in 1..n : Append(groups, r)[i] = groups[i]
    BY AppendProperties, LenProperties
  <2>3. n + 1 \in 1..(n + 1) /\ 1..n \subseteq 1..(n + 1) BY <1>1
  <2> QED BY <2>1, <2>2, <2>3, <1>1 DEF AsksLog
<1>4. CASE I # {}
  <2> DEFINE g == groups[first]
             topics == Joined(g.topic0, r.topic0)
             h == [g EXCEPT !.topic0 = topics]
             next == [groups EXCEPT ![first] = h]
  <2>1. first \in 1..n /\ Alike(groups[first], r) /\ first # 0
    <3>1. I \subseteq Nat /\ Min(I) \in I
      <4>1. I \subseteq Nat BY <1>1
      <4> HIDE DEF I
      <4> QED BY <4>1, <1>4, MinFact
    <3> QED BY <3>1, <1>2, <1>4, <1>1
  <2>2. MergeInto(groups, r) = next BY <2>1 DEF MergeInto
  <2> HIDE DEF first
  <2>3. /\ g \in LogRequests(A, U, B) /\ g.address \in A /\ g.topic1 \in B
        /\ g.topic0 \in (SUBSET U) \cup {Undefined} /\ r.topic0 \in (SUBSET U) \cup {Undefined}
    BY <1>1, <2>1 DEF LogRequests
  <2>4. /\ topics \in (SUBSET U) \cup {Undefined}
        /\ \A x : Admits(g.topic0, x) \/ Admits(r.topic0, x) => Admits(topics, x)
    BY <2>3, JoinedFact
  <2>5. h = [address |-> g.address, topic0 |-> topics, topic1 |-> g.topic1]
    BY <2>3 DEF LogRequests
  <2>6. h \in LogRequests(A, U, B)
    <3> HIDE DEF h, topics, g
    <3> QED BY <2>3, <2>4, <2>5 DEF LogRequests
  <2>7. h.address = g.address /\ h.topic0 = topics /\ h.topic1 = g.topic1
    <3> HIDE DEF h, topics, g
    <3> QED BY <2>5
  <2>8. ASSUME NEW l, Asked(g, l) \/ Asked(r, l) PROVE Asked(h, l)
    <3> HIDE DEF h, topics
    <3>1. SameAddresses(g.address, r.address) /\ g.topic1 = r.topic1 BY <2>1 DEF Alike
    <3>2. Admits(h.topic0, l.topic0) /\ Admits(h.topic1, l.topic1)
      BY <3>1, <2>4, <2>7, <2>8 DEF Asked
    <3>3. h.address = Undefined \/ l.address \in ToSet(h.address)
      BY <3>1, <2>7, <2>8 DEF Asked, SameAddresses
    <3> QED BY <3>2, <3>3 DEF Asked
  <2> HIDE DEF h
  <2>9. /\ next \in Seq(LogRequests(A, U, B)) /\ DOMAIN next = 1..n /\ next[first] = h
        /\ \A i \in 1..n : i # first => next[i] = groups[i]
    BY <1>1, <2>1, <2>6, ExceptSeq
  <2> HIDE DEF next
  <2>10. ASSUME NEW l, AsksLog(groups, l) \/ Asked(r, l) PROVE AsksLog(next, l)
    <3>1. CASE \E j \in 1..n : j # first /\ Asked(groups[j], l)
      BY <3>1, <2>9 DEF AsksLog
    <3>2. CASE Asked(g, l) \/ Asked(r, l)
      BY <3>2, <2>1, <2>8, <2>9 DEF AsksLog
    <3> QED BY <3>1, <3>2, <2>10, <1>1 DEF AsksLog
  <2> QED BY <2>2, <2>9, <2>10
<1> QED BY <1>3, <1>4

MergesIn(R) == \A groups \in Seq(R) : \A r \in R : MergeInto(groups, r) \in Seq(R)

(* Merging is a fold over the requests.                                     *)
LEMMA MergeRuns ==
  ASSUME NEW R, NEW requests \in Seq(R), MergesIn(R)
  PROVE  \E run : /\ run[0] = <<>>
                  /\ \A i \in 1..Len(requests) : run[i] = MergeInto(run[i - 1], requests[i])
                  /\ MergeLogRequests(requests) = run[Len(requests)]
PROOF
<1> DEFINE k == Len(requests)
           T == Seq(R)
           G == [x \in T \X (1..k) |-> MergeInto(x[1], requests[x[2]])]
           Step(iter, s) == IF s = {} THEN <<>> ELSE MergeInto(iter[s \ {Max(s)}], requests[Max(s)])
<1>1. k \in Nat /\ DOMAIN requests = 1..k /\ \A i \in 1..k : requests[i] \in R
  BY LenProperties, ElementOfSeq
<1>3. G \in [T \X (1..k) -> T] BY <1>1 DEF MergesIn
<1>4. <<>> \in T BY EmptySeq
<1>5. \E iter : iter = [s \in SUBSET (1..k) |-> Step(iter, s)]
  <2>1. PICK iter : IsFold(iter, T, <<>>, k, G)
    <3> HIDE DEF G, T, k
    <3> QED BY <1>1, <1>3, <1>4, FoldExists
  <2>2. ASSUME NEW s \in SUBSET (1..k), s # {}
        PROVE  G[<<iter[s \ {Max(s)}], Max(s)>>] = MergeInto(iter[s \ {Max(s)}], requests[Max(s)])
    <3>1. s \subseteq Nat /\ IsFiniteSet(s)
      <4>1. IsFiniteSet(1..k) /\ 1..k \subseteq Nat BY <1>1, FS_Interval
      <4> QED BY <4>1, FS_Subset
    <3>2. Max(s) \in 1..k BY <2>2, <3>1, MaxFact
    <3>3. iter[s \ {Max(s)}] \in T
      <4> HIDE DEF T, k
      <4> QED BY <2>1 DEF IsFold
    <3> HIDE DEF T
    <3> QED BY <3>2, <3>3
  <2>3. \A s \in SUBSET (1..k) : iter[s] = Step(iter, s) BY <2>1, <2>2 DEF IsFold
  <2>4. iter = [s \in SUBSET (1..k) |-> Step(iter, s)]
    <3> HIDE DEF Step, k, T
    <3> QED BY <2>1, <2>3 DEF IsFold
  <2> QED BY <2>4
<1> DEFINE iter == CHOOSE iter : iter = [s \in SUBSET (1..k) |-> Step(iter, s)]
           run == [i \in 0..k |-> iter[1..i]]
<1>6. iter = [s \in SUBSET (1..k) |-> Step(iter, s)]
  <2> HIDE DEF k, Step
  <2> QED BY <1>5
<1>7. MergeLogRequests(requests) = iter[1..k] BY <1>1 DEF MergeLogRequests, FoldLeft, MapThenFoldSet
<1> HIDE DEF iter
<1>8. ASSUME NEW i \in 1..k PROVE iter[1..i] = MergeInto(iter[1..(i - 1)], requests[i])
  <2>1. 1..i \in SUBSET (1..k) /\ 1..i # {} /\ Max(1..i) = i
    <3>1. i \in 1..i BY <1>1
    <3> QED BY <1>1, <3>1, MaxOfInterval
  <2>2. (1..i) \ {i} = 1..(i - 1) BY <1>1
  <2>3. iter[1..i] = Step(iter, 1..i) BY <1>6, <2>1
  <2> QED BY <2>1, <2>2, <2>3
<1>9. iter[1..0] = <<>>
  <2>1. 1..0 = {} /\ 1..0 \in SUBSET (1..k) BY <1>1
  <2>2. iter[1..0] = Step(iter, 1..0) BY <1>6, <2>1
  <2> QED BY <2>1, <2>2
<1>10. /\ run[0] = <<>> /\ \A i \in 1..k : run[i] = MergeInto(run[i - 1], requests[i])
       /\ MergeLogRequests(requests) = run[k]
  <2>1. \A i \in 1..k : i \in 0..k /\ i - 1 \in 0..k BY <1>1
  <2>2. 0 \in 0..k /\ k \in 0..k BY <1>1
  <2> QED BY <1>7, <1>8, <1>9, <2>1, <2>2
<1> QED BY <1>10

(* Every log that was asked for is asked for after merging.                     *)
LEMMA MergeFact ==
  ASSUME NEW A, NEW U, NEW B, NEW requests \in Seq(LogRequests(A, U, B))
  PROVE  /\ MergeLogRequests(requests) \in Seq(LogRequests(A, U, B))
         /\ \A l : AsksLog(requests, l) => AsksLog(MergeLogRequests(requests), l)
PROOF
<1> DEFINE k == Len(requests)  R == LogRequests(A, U, B)
<1>0. MergesIn(R) BY MergeStep DEF MergesIn
<1>1. PICK run : /\ run[0] = <<>> /\ \A i \in 1..k : run[i] = MergeInto(run[i - 1], requests[i])
                 /\ MergeLogRequests(requests) = run[k]
  <2> HIDE DEF R
  <2>1. requests \in Seq(R) BY DEF R
  <2> QED BY <1>0, <2>1, MergeRuns
<1>2. k \in Nat /\ DOMAIN requests = 1..k /\ \A i \in 1..k : requests[i] \in R
  BY LenProperties, ElementOfSeq
<1> DEFINE Fine(i) == run[i] \in Seq(R) /\ \A j \in 1..i : \A l : Asked(requests[j], l) => AsksLog(run[i], l)
           Wrong == {i \in 0..k : ~Fine(i)}
<1> HIDE DEF k, R
<1>3. SUFFICES Wrong = {}
  <2>1. k \in 0..k BY <1>2
  <2>2. Fine(k) BY <2>1, <1>3
  <2>3. MergeLogRequests(requests) \in Seq(R) BY <1>1, <2>2
  <2>4. \A l : AsksLog(requests, l) => AsksLog(run[k], l)
    BY <1>2, <2>2 DEF AsksLog
  <2> QED BY <1>1, <2>3, <2>4 DEF R
<1>4. SUFFICES ASSUME Wrong # {} PROVE FALSE OBVIOUS
<1>5. PICK i \in Wrong : \A j \in Wrong : i <= j
  <2>1. Wrong \subseteq Nat BY <1>2
  <2> HIDE DEF Wrong
  <2> QED BY <1>4, <2>1, LeastElement
<1>6. i \in 0..k /\ ~Fine(i) OBVIOUS
<1>7. i # 0
  <2>1. <<>> \in Seq(R) BY EmptySeq
  <2>2. \A j \in 1..0 : FALSE OBVIOUS
  <2> QED BY <1>1, <1>6, <2>1, <2>2
<1>8. i - 1 \in 0..k /\ i \in 1..k BY <1>2, <1>6, <1>7
<1>9. Fine(i - 1)
  <2>1. i - 1 \notin Wrong
    <3> HIDE DEF Wrong
    <3> QED BY <1>2, <1>5, <1>6, <1>8
  <2> QED BY <2>1, <1>8
<1>10. run[i] = MergeInto(run[i - 1], requests[i]) /\ requests[i] \in R BY <1>1, <1>2, <1>8
<1>11. /\ run[i] \in Seq(R)
       /\ \A l : AsksLog(run[i - 1], l) \/ Asked(requests[i], l) => AsksLog(run[i], l)
  <2>1. run[i - 1] \in Seq(LogRequests(A, U, B)) /\ requests[i] \in LogRequests(A, U, B)
    BY <1>9, <1>10 DEF R
  <2>2. /\ MergeInto(run[i - 1], requests[i]) \in Seq(LogRequests(A, U, B))
        /\ \A l : AsksLog(run[i - 1], l) \/ Asked(requests[i], l)
                   => AsksLog(MergeInto(run[i - 1], requests[i]), l)
    <3> HIDE DEF R, Fine, Wrong
    <3> QED BY <2>1, MergeStep
  <2> QED BY <2>2, <1>10 DEF R
<1>12. \A j \in 1..i : j \in 1..(i - 1) \/ j = i BY <1>2, <1>6
<1> QED BY <1>6, <1>9, <1>11, <1>12

-----------------------------------------------------------------------------
(* The bodies of the backfill ask for all that a filter wants.                *)
(* The requests of a filter of logs.                                          *)
OrNothing(T) == T \cup {Undefined}

(* A reference to addresses gives no list, or one that holds the address.   *)
LEMMA RefFact ==
  ASSUME ChildrenOK, NEW ref, IsReference(ref)
  PROVE  /\ AddressesOf(ref, children) = Undefined
              \/ AddressesOf(ref, children) \in Seq(ToSet(AddressesOf(ref, children)))
         /\ \A a, n : AddressOk(ref, a, n, children) =>
               AddressesOf(ref, children) = Undefined \/ a \in ToSet(AddressesOf(ref, children))
PROOF
<1>1. CASE ref \in Factory
  <2>1. AddressesOf(ref, children) = children[ref] /\ children[ref] \in Seq(Born(ref))
    BY <1>1 DEF AddressesOf, ChildrenOK
  <2>2. children[ref] \in Seq(ToSet(children[ref])) BY <2>1, SequenceOfMembers
  <2> QED BY <2>1, <2>2, <1>1 DEF AddressOk
<1>2. CASE ref \notin Factory
  <2>1. AddressesOf(ref, children) = ref BY <1>2 DEF AddressesOf
  <2> QED BY <2>1, <1>2 DEF IsReference, AddressOk
<1> QED BY <1>1, <1>2

(* A log filter's requests ask for each log it matches.                     *)
LEMMA LogRequestsForFact ==
  ASSUME ChildrenOK, NEW f, IsReference(f.address), NEW S, NEW U, NEW B,
         ToSet(AddressesOf(f.address, children)) \subseteq S, f.topic0 \subseteq U, f.topic1 \in B
  PROVE  /\ LogRequestsFor(f, children) \in Seq(LogRequests(OrNothing(Seq(S)), U, B))
         /\ \A l, n : LogMatches(f, l, n, children) => AsksLog(LogRequestsFor(f, children), l)
PROOF
<1> DEFINE addresses == AddressesOf(f.address, children)
           batches == IF addresses = Undefined THEN <<Undefined>> ELSE Batches(addresses)
           Asking(batch) == [address |-> batch, topic0 |-> f.topic0, topic1 |-> f.topic1]
           requests == LogRequestsFor(f, children)
<1>1. /\ addresses = Undefined \/ addresses \in Seq(ToSet(addresses))
      /\ \A l, n : LogMatches(f, l, n, children) => addresses = Undefined \/ l.address \in ToSet(addresses)
  BY RefFact DEF LogMatches
<1>2. requests = [i \in DOMAIN batches |-> Asking(batches[i])] BY DEF LogRequestsFor
<1>3. /\ batches \in Seq(OrNothing(Seq(S)))
      /\ \A l, n : LogMatches(f, l, n, children) =>
           \E i \in DOMAIN batches : batches[i] = Undefined \/ l.address \in ToSet(batches[i])
  <2>1. CASE addresses = Undefined
    <3>1. batches = <<Undefined>> BY <2>1
    <3>2. <<Undefined>> \in Seq(OrNothing(Seq(S))) /\ 1 \in DOMAIN <<Undefined>> /\ <<Undefined>>[1] = Undefined
      BY DEF OrNothing
    <3> QED BY <3>1, <3>2
  <2>2. CASE addresses # Undefined
    <3>1. addresses \in Seq(S)
      <4> HIDE DEF addresses
      <4>1. ToSet(addresses) \subseteq S BY DEF addresses
      <4> QED BY <4>1, <1>1, <2>2, SeqMonotonic
    <3>2. batches = Batches(addresses) BY <2>2
    <3> HIDE DEF addresses, batches
    <3>3. /\ Batches(addresses) \in Seq(Seq(S))
          /\ \A a \in ToSet(addresses) : \E i \in DOMAIN Batches(addresses) : a \in ToSet(Batches(addresses)[i])
      BY <3>1, BatchesFact
    <3>4. Seq(Seq(S)) \subseteq Seq(OrNothing(Seq(S)))
      <4>1. Seq(S) \subseteq OrNothing(Seq(S)) BY DEF OrNothing
      <4> QED BY <4>1, SeqMonotonic
    <3> QED BY <3>2, <3>3, <3>4, <2>2, <1>1
  <2> QED BY <2>1, <2>2
<1> HIDE DEF addresses, batches
<1>4. Len(batches) \in Nat /\ DOMAIN batches = 1..Len(batches)
      /\ \A i \in 1..Len(batches) : batches[i] \in OrNothing(Seq(S))
  BY <1>3, LenProperties, ElementOfSeq
<1>5. \A i \in 1..Len(batches) : Asking(batches[i]) \in LogRequests(OrNothing(Seq(S)), U, B)
  BY <1>4 DEF LogRequests
<1>6. requests \in Seq(LogRequests(OrNothing(Seq(S)), U, B))
  <2> DEFINE R == LogRequests(OrNothing(Seq(S)), U, B)  n == Len(batches)
  <2>1. n \in Nat /\ DOMAIN batches = 1..n /\ \A i \in 1..n : Asking(batches[i]) \in R BY <1>4, <1>5
  <2> HIDE DEF R, n, Asking
  <2>2. [i \in 1..n |-> Asking(batches[i])] \in [1..n -> R] BY <2>1
  <2>3. [i \in 1..n |-> Asking(batches[i])] \in Seq(R) BY <2>1, <2>2, IsASeq
  <2> QED BY <2>1, <2>3, <1>2 DEF R
<1>7. ASSUME NEW l, NEW n, LogMatches(f, l, n, children) PROVE AsksLog(requests, l)
  <2>1. PICK i \in DOMAIN batches : batches[i] = Undefined \/ l.address \in ToSet(batches[i])
    BY <1>3, <1>7
  <2>2. Admits(f.topic0, l.topic0) /\ Admits(f.topic1, l.topic1) BY <1>7 DEF LogMatches
  <2>3. Asked(Asking(batches[i]), l) BY <2>1, <2>2 DEF Asked
  <2>4. i \in DOMAIN requests /\ requests[i] = Asking(batches[i]) BY <1>2
  <2> QED BY <2>3, <2>4 DEF AsksLog
<1> QED BY <1>6, <1>7

(* The requests of all filters.                                               *)
LEMMA AllLogRequestsFact ==
  ASSUME app \in Apps, ChildrenOK
  PROVE  \E A, U, B :
           /\ AllLogRequests(app, children) \in Seq(LogRequests(A, U, B))
           /\ \A l, n : LogKept(app, children, l, n) => AsksLog(AllLogRequests(app, children), l)
PROOF
<1> DEFINE Known(i) == ToSet(AddressesOf(app[i].address, children))
           S == UNION {Known(i) : i \in DOMAIN app}
           U == UNION {app[i].topic0 : i \in DOMAIN app}
           B == {app[i].topic1 : i \in DOMAIN app}
           R == LogRequests(OrNothing(Seq(S)), U, B)
           Part(i) == IF app[i].type = "log" THEN LogRequestsFor(app[i], children) ELSE <<>>
           parts == [i \in DOMAIN app |-> Part(i)]
           requests == AllLogRequests(app, children)
<1>1. Len(app) \in Nat /\ DOMAIN app = 1..Len(app) BY AppFact
<1>2. requests = FlattenSeq(parts) BY DEF AllLogRequests
<1>3. ASSUME NEW i \in DOMAIN app
      PROVE  /\ Part(i) \in Seq(R)
             /\ \A l, n : LogMatches(app[i], l, n, children) => AsksLog(Part(i), l)
  <2>1. CASE app[i].type = "log"
    <3>1. IsReference(app[i].address) BY <2>1, AppsAssumption DEF IsFilter
    <3>2. Known(i) \subseteq S /\ app[i].topic0 \subseteq U /\ app[i].topic1 \in B OBVIOUS
    <3>3. Part(i) = LogRequestsFor(app[i], children) BY <2>1
    <3> HIDE DEF S, U, B, Part
    <3> QED BY <3>1, <3>2, <3>3, LogRequestsForFact
  <2>2. CASE app[i].type # "log"
    <3>1. Part(i) = <<>> BY <2>2
    <3> HIDE DEF Part
    <3> QED BY <3>1, <2>2, EmptySeq DEF LogMatches
  <2> QED BY <2>1, <2>2
<1> HIDE DEF R, Part
<1>4. parts \in Seq(Seq(R)) /\ DOMAIN parts = DOMAIN app /\ \A i \in DOMAIN app : parts[i] = Part(i)
  <2> DEFINE T == Seq(R)  n == Len(app)
  <2>1. n \in Nat /\ DOMAIN app = 1..n /\ \A i \in 1..n : Part(i) \in T BY <1>1, <1>3
  <2> HIDE DEF T, n
  <2>2. [i \in 1..n |-> Part(i)] \in [1..n -> T] BY <2>1
  <2>3. [i \in 1..n |-> Part(i)] \in Seq(T) BY <2>1, <2>2, IsASeq
  <2> QED BY <2>1, <2>3 DEF T
<1> HIDE DEF parts
<1>5. requests \in Seq(R) /\ ToSet(requests) = UNION {ToSet(parts[i]) : i \in DOMAIN parts}
  BY <1>2, <1>4, FlattenFact
<1> HIDE DEF requests
<1>6. ASSUME NEW l, NEW n, LogKept(app, children, l, n) PROVE AsksLog(requests, l)
  <2>1. PICK i \in DOMAIN app : LogMatches(app[i], l, n, children) BY <1>6 DEF LogKept
  <2>2. PICK j \in DOMAIN parts[i] : Asked(parts[i][j], l) BY <2>1, <1>3, <1>4 DEF AsksLog
  <2>3. parts[i][j] \in ToSet(parts[i]) BY <2>2 DEF ToSet
  <2>4. parts[i][j] \in ToSet(requests) BY <2>1, <2>3, <1>4, <1>5
  <2>5. PICK k \in DOMAIN requests : requests[k] = parts[i][j] BY <2>4 DEF ToSet
  <2> QED BY <2>2, <2>5 DEF AsksLog
<1> QED BY <1>5, <1>6 DEF R, requests

(* Whatever is put into bodies, they ask for it.                                *)
LEMMA ShardLogsFact ==
  ASSUME NEW R, NEW requests \in Seq(R)
  PROVE  /\ Sharded(ShardLogs(requests), R)
         /\ \A l : AsksLog(requests, l) =>
              \E b \in DOMAIN ShardLogs(requests) : AsksLog(ShardLogs(requests)[b], l)
PROOF
<1>1. CASE requests = <<>>
  <2>1. ShardLogs(requests) = <<>> BY <1>1 DEF ShardLogs
  <2>2. DOMAIN requests = {} BY <1>1
  <2>3. Sharded(<<>>, R) BY EmptySeq DEF Sharded
  <2> QED BY <2>1, <2>2, <2>3 DEF AsksLog
<1>2. CASE requests # <<>> /\ Fits(requests)
  <2>1. ShardLogs(requests) = <<requests>> BY <1>2 DEF ShardLogs
  <2>2. <<requests>> \in Seq(Seq(R)) /\ DOMAIN <<requests>> = {1} /\ <<requests>>[1] = requests
    OBVIOUS
  <2>3. Sharded(<<requests>>, R) BY <1>2, <2>2 DEF Sharded
  <2> QED BY <2>1, <2>2, <2>3
<1>3. CASE requests # <<>> /\ ~Fits(requests)
  <2>1. ShardLogs(requests) = Pack(requests) BY <1>3 DEF ShardLogs
  <2>2. /\ Sharded(Pack(requests), R)
        /\ \A i \in DOMAIN requests : Holding(Pack(requests), requests[i])
    BY PackFact
  <2>3. ASSUME NEW l, AsksLog(requests, l)
        PROVE  \E b \in DOMAIN Pack(requests) : AsksLog(Pack(requests)[b], l)
    <3>1. PICK i \in DOMAIN requests : Asked(requests[i], l) BY <2>3 DEF AsksLog
    <3>2. PICK b \in DOMAIN Pack(requests) : requests[i] \in ToSet(Pack(requests)[b])
      BY <2>2 DEF Holding
    <3> QED BY <3>1, <3>2 DEF AsksLog, ToSet
  <2> QED BY <2>1, <2>2, <2>3
<1> QED BY <1>1, <1>2, <1>3

(* The bodies of logs ask for each log a filter matches, and are shards.    *)
LEMMA LogBodiesFact ==
  ASSUME app \in Apps, ChildrenOK
  PROVE  /\ \E R : Sharded(BodiesOf(app, children, "log"), R)
         /\ \A l, n : LogKept(app, children, l, n) =>
              \E b \in DOMAIN BodiesOf(app, children, "log") : AsksLog(BodiesOf(app, children, "log")[b], l)
PROOF
<1> DEFINE requests == AllLogRequests(app, children)
           merged == MergeLogRequests(requests)
<1>1. PICK A, U, B :
           /\ requests \in Seq(LogRequests(A, U, B))
           /\ \A l, n : LogKept(app, children, l, n) => AsksLog(requests, l)
  BY AllLogRequestsFact
<1>2. BodiesOf(app, children, "log") = ShardLogs(merged) BY DEF BodiesOf
<1> HIDE DEF requests
<1>3. /\ merged \in Seq(LogRequests(A, U, B))
      /\ \A l : AsksLog(requests, l) => AsksLog(merged, l)
  BY <1>1, MergeFact
<1> HIDE DEF merged
<1>4. /\ Sharded(ShardLogs(merged), LogRequests(A, U, B))
      /\ \A l : AsksLog(merged, l) => \E b \in DOMAIN ShardLogs(merged) : AsksLog(ShardLogs(merged)[b], l)
  BY <1>3, ShardLogsFact
<1> QED BY <1>1, <1>2, <1>3, <1>4

(* The same of transactions.                                                 *)
TxRequests(S) == [from : OrNothing(Seq(S)), to : OrNothing(Seq(S))]
AsksTx(requests, tx) == \E j \in DOMAIN requests : AskedTx(requests[j], tx)

(* A request that is too large has a side to be split along.                     *)
HasSide(r) ==
  (r.from # Undefined /\ r.from # <<>>) \/ (r.to # Undefined /\ r.to # <<>>)

(* A count of addresses is a number.                                        *)
LEMMA CountFact ==
  ASSUME NEW S, NEW addresses \in OrNothing(Seq(S))
  PROVE  /\ Count(addresses) \in Nat
         /\ Count(addresses) = 0 <=> addresses = Undefined \/ addresses = <<>>
PROOF
<1>1. CASE addresses = Undefined BY <1>1 DEF Count
<1>2. CASE addresses # Undefined
  <2>1. addresses \in Seq(S) BY <1>2 DEF OrNothing
  <2> QED BY <1>2, <2>1, LenProperties, EmptySeq DEF Count
<1> QED BY <1>1, <1>2

(* A request keeps its other side when one is replaced.                     *)
LEMMA SideReplaced ==
  ASSUME NEW X, NEW r \in [from : X, to : X], NEW b \in X, NEW side \in {"from", "to"}
  PROVE  LET p == [r EXCEPT ![side] = b]
         IN  /\ p \in [from : X, to : X]
             /\ p.from = IF side = "from" THEN b ELSE r.from
             /\ p.to = IF side = "to" THEN b ELSE r.to
PROOF
<1>1. CASE side = "from"
  <2>1. [r EXCEPT !.from = b] \in [from : X, to : X] OBVIOUS
  <2> QED BY <1>1, <2>1
<1>2. CASE side = "to"
  <2>1. [r EXCEPT !.to = b] \in [from : X, to : X] OBVIOUS
  <2> QED BY <1>2, <2>1
<1> QED BY <1>1, <1>2

(* Splitting a request along a side loses none of its transactions.         *)
LEMMA SplitFact ==
  ASSUME NEW S, NEW r \in TxRequests(S), NEW side \in {"from", "to"}, r[side] \in Seq(S),
         r[side] # Undefined
  PROVE  LET batches == Batches(r[side])
             parts == [i \in DOMAIN batches |-> [r EXCEPT ![side] = batches[i]]]
         IN  parts \in Seq(TxRequests(S)) /\ \A tx : AskedTx(r, tx) => AsksTx(parts, tx)
PROOF
<1> DEFINE batches == Batches(r[side])
           Part(i) == [r EXCEPT ![side] = batches[i]]
           parts == [i \in DOMAIN batches |-> Part(i)]
           n == Len(batches)
<1>1. /\ batches \in Seq(Seq(S))
      /\ \A a \in ToSet(r[side]) : \E i \in DOMAIN batches : a \in ToSet(batches[i])
  BY BatchesFact
<1> HIDE DEF batches
<1>2. n \in Nat /\ DOMAIN batches = 1..n /\ \A i \in 1..n : batches[i] \in Seq(S)
  BY <1>1, LenProperties, ElementOfSeq
<1>3. r = [from |-> r.from, to |-> r.to] /\ r.from \in OrNothing(Seq(S)) /\ r.to \in OrNothing(Seq(S))
  BY DEF TxRequests
<1>4. ASSUME NEW i \in 1..n
      PROVE  /\ Part(i) \in TxRequests(S)
             /\ Part(i).from = IF side = "from" THEN batches[i] ELSE r.from
             /\ Part(i).to = IF side = "to" THEN batches[i] ELSE r.to
  <2>1. batches[i] \in OrNothing(Seq(S)) BY <1>2 DEF OrNothing
  <2>2. r \in [from : OrNothing(Seq(S)), to : OrNothing(Seq(S))] BY DEF TxRequests
  <2> QED BY <2>1, <2>2, SideReplaced DEF TxRequests
<1>5. parts \in Seq(TxRequests(S)) /\ DOMAIN parts = 1..n /\ \A i \in 1..n : parts[i] = Part(i)
  <2> DEFINE R == TxRequests(S)
  <2>1. \A i \in 1..n : Part(i) \in R BY <1>4
  <2> HIDE DEF R, Part, n
  <2>2. [i \in 1..n |-> Part(i)] \in [1..n -> R] BY <2>1
  <2>3. [i \in 1..n |-> Part(i)] \in Seq(R) BY <2>2, <1>2, IsASeq
  <2> QED BY <2>1, <2>3, <1>2 DEF R
<1>6. ASSUME NEW tx, AskedTx(r, tx) PROVE AsksTx(parts, tx)
  <2> DEFINE x == IF side = "from" THEN tx.from ELSE tx.to
  <2>1. x \in ToSet(r[side]) BY <1>6 DEF AskedTx
  <2>2. PICK i \in 1..n : x \in ToSet(batches[i]) BY <2>1, <1>1, <1>2
  <2> HIDE DEF Part, parts
  <2>3. AskedTx(Part(i), tx) BY <2>2, <1>4, <1>6 DEF AskedTx
  <2> QED BY <2>3, <1>5 DEF AsksTx
<1> QED BY <1>5, <1>6 DEF batches

(* A request is left whole if it fits, else split along its longer side.    *)
LEMMA ChunkTxFact ==
  ASSUME NEW S, NEW r \in TxRequests(S), HasSide(r)
  PROVE  /\ ChunkTxRequest(r) \in Seq(TxRequests(S))
         /\ \A tx : AskedTx(r, tx) => AsksTx(ChunkTxRequest(r), tx)
PROOF
<1> DEFINE side == IF Count(r.from) >= Count(r.to) THEN "from" ELSE "to"
           batches == Batches(r[side])
           parts == [i \in DOMAIN batches |-> [r EXCEPT ![side] = batches[i]]]
<1>1. CASE Fits(<<r>>)
  <2>1. ChunkTxRequest(r) = <<r>> BY <1>1 DEF ChunkTxRequest
  <2>2. <<r>> \in Seq(TxRequests(S)) /\ DOMAIN <<r>> = {1} /\ <<r>>[1] = r OBVIOUS
  <2> QED BY <2>1, <2>2 DEF AsksTx
<1>2. CASE ~Fits(<<r>>)
  <2>1. ChunkTxRequest(r) = parts BY <1>2 DEF ChunkTxRequest
  <2>2. r.from \in OrNothing(Seq(S)) /\ r.to \in OrNothing(Seq(S)) BY DEF TxRequests
  <2>3. /\ Count(r.from) \in Nat /\ (Count(r.from) = 0 <=> r.from = Undefined \/ r.from = <<>>)
        /\ Count(r.to) \in Nat /\ (Count(r.to) = 0 <=> r.to = Undefined \/ r.to = <<>>)
    BY <2>2, CountFact
  <2>4. /\ side \in {"from", "to"} /\ r[side] # Undefined
        /\ r[side] \in OrNothing(Seq(S))
    BY <2>2, <2>3 DEF HasSide
  <2>5. r[side] \in Seq(S) BY <2>4 DEF OrNothing
  <2>6. parts \in Seq(TxRequests(S)) /\ \A tx : AskedTx(r, tx) => AsksTx(parts, tx)
    <3> HIDE DEF side
    <3> QED BY <2>4, <2>5, SplitFact
  <2> QED BY <2>1, <2>6
<1> QED BY <1>1, <1>2

(* A list of children is not mistaken for the lack of one.                  *)
LEMMA ListOfChildren ==
  ASSUME ChildrenOK, NEW f \in Factory
  PROVE  children[f] # Undefined
BY ChainAssumption DEF ChildrenOK, Born

(* A filter's request asks for each transaction that it matches.            *)
LEMMA TxRequestForFact ==
  ASSUME ChildrenOK, NEW f, IsReference(f.from), IsReference(f.to), NEW S,
         ToSet(AddressesOf(f.from, children)) \subseteq S, ToSet(AddressesOf(f.to, children)) \subseteq S
  PROVE  /\ TxRequestFor(f, children) \in TxRequests(S)
         /\ \A tx, n : TxMatches(f, tx, n, children) => AskedTx(TxRequestFor(f, children), tx)
         /\ Asks(f, children) => HasSide(TxRequestFor(f, children))
PROOF
<1> DEFINE Given(ref) == IF AddressesOf(ref, children) = <<>> THEN Undefined ELSE AddressesOf(ref, children)
           r == TxRequestFor(f, children)
<1>1. r = [from |-> Given(f.from), to |-> Given(f.to)] BY DEF TxRequestFor
<1>2. ASSUME NEW ref, IsReference(ref), ToSet(AddressesOf(ref, children)) \subseteq S
      PROVE  /\ Given(ref) \in OrNothing(Seq(S))
             /\ \A a, n : AddressOk(ref, a, n, children) => Given(ref) = Undefined \/ a \in ToSet(Given(ref))
             /\ ref # Undefined /\ AddressesOf(ref, children) # <<>> => Given(ref) # Undefined /\ Given(ref) # <<>>
  <2> DEFINE a == AddressesOf(ref, children)
  <2>1. /\ a = Undefined \/ a \in Seq(ToSet(a))
        /\ \A x, n : AddressOk(ref, x, n, children) => a = Undefined \/ x \in ToSet(a)
    BY <1>2, RefFact
  <2>2. ToSet(a) \subseteq S BY <1>2
  <2>3. ref # Undefined => a # Undefined
    <3>1. CASE ref \in Factory BY <3>1, ListOfChildren DEF AddressesOf
    <3>2. CASE ref \notin Factory BY <3>2 DEF AddressesOf
    <3> QED BY <3>1, <3>2
  <2> HIDE DEF a
  <2>4. a = Undefined \/ a \in Seq(S) BY <2>1, <2>2, SeqMonotonic
  <2>5. Given(ref) = IF a = <<>> THEN Undefined ELSE a BY DEF a
  <2> HIDE DEF Given
  <2> QED BY <2>1, <2>3, <2>4, <2>5 DEF OrNothing, a
<1> HIDE DEF Given
<1>3. /\ Given(f.from) \in OrNothing(Seq(S)) /\ Given(f.to) \in OrNothing(Seq(S)) BY <1>2
<1>4. r \in TxRequests(S) /\ r.from = Given(f.from) /\ r.to = Given(f.to) BY <1>1, <1>3 DEF TxRequests
<1> HIDE DEF r
<1>5. ASSUME NEW tx, NEW n, TxMatches(f, tx, n, children) PROVE AskedTx(r, tx)
  BY <1>2, <1>4, <1>5 DEF TxMatches, AskedTx
<1>6. ASSUME Asks(f, children) PROVE HasSide(r)
  <2>1. PICK ref \in {f.from, f.to} : ref # Undefined /\ AddressesOf(ref, children) # <<>>
    BY <1>6 DEF Asks
  <2>2. IsReference(ref) /\ ToSet(AddressesOf(ref, children)) \subseteq S BY <2>1
  <2>3. Given(ref) # Undefined /\ Given(ref) # <<>> BY <1>2, <2>1, <2>2
  <2>4. CASE ref = f.from BY <2>3, <2>4, <1>4 DEF HasSide
  <2>5. CASE ref = f.to BY <2>3, <2>5, <1>4 DEF HasSide
  <2> QED BY <2>1, <2>4, <2>5
<1> QED BY <1>4, <1>5, <1>6 DEF r

(* A filter of transactions that matches one has a request.                 *)
LEMMA FilterAsks ==
  ASSUME ChildrenOK, NEW f, IsFilter(f), NEW tx, NEW n, TxMatches(f, tx, n, children)
  PROVE  Asks(f, children)
PROOF
<1>1. f.type = "transaction" /\ AddressOk(f.from, tx.from, n, children) /\ AddressOk(f.to, tx.to, n, children)
  BY DEF TxMatches
<1>2. f.from # Undefined \/ f.to # Undefined BY <1>1 DEF IsFilter
<1>3. ASSUME NEW ref, ref # Undefined, NEW a, AddressOk(ref, a, n, children)
      PROVE  AddressesOf(ref, children) # <<>>
  <2>1. a \in ToSet(AddressesOf(ref, children)) BY <1>3 DEF AddressOk, AddressesOf
  <2>2. ToSet(<<>>) = {} BY DEF ToSet
  <2> QED BY <2>1, <2>2
<1> QED BY <1>1, <1>2, <1>3 DEF Asks

TxPlan(requests, S) ==
  requests \in Seq(TxRequests(S)) /\ \A j \in DOMAIN requests : HasSide(requests[j])

(* The requests of all filters of transactions.                             *)
LEMMA TxRequestsForFact ==
  ASSUME app \in Apps, ChildrenOK
  PROVE  \E S :
           /\ TxPlan(TxRequestsFor(app, children), S)
           /\ \A tx, n : TxKept(app, children, tx, n) => AsksTx(TxRequestsFor(app, children), tx)
PROOF
<1> DEFINE Known(ref) == ToSet(AddressesOf(ref, children))
           S == UNION {Known(app[i].from) \cup Known(app[i].to) : i \in DOMAIN app}
           R == {r \in TxRequests(S) : HasSide(r)}
           Part(i) == IF Asks(app[i], children) THEN <<TxRequestFor(app[i], children)>> ELSE <<>>
           parts == [i \in DOMAIN app |-> Part(i)]
           requests == TxRequestsFor(app, children)
<1>1. Len(app) \in Nat /\ DOMAIN app = 1..Len(app) BY AppFact
<1>2. requests = FlattenSeq(parts) BY DEF TxRequestsFor
<1>3. ASSUME NEW i \in DOMAIN app
      PROVE  /\ Part(i) \in Seq(R)
             /\ \A tx, n : TxMatches(app[i], tx, n, children) => AsksTx(Part(i), tx)
  <2>0. IsFilter(app[i]) BY AppsAssumption
  <2>1. CASE Asks(app[i], children)
    <3> DEFINE r == TxRequestFor(app[i], children)
    <3>1. IsReference(app[i].from) /\ IsReference(app[i].to) BY <2>0, <2>1 DEF IsFilter, Asks
    <3>2. Known(app[i].from) \subseteq S /\ Known(app[i].to) \subseteq S OBVIOUS
    <3>3. Part(i) = <<r>> BY <2>1
    <3> HIDE DEF S, Part, r
    <3>4. r \in R /\ \A tx, n : TxMatches(app[i], tx, n, children) => AskedTx(r, tx)
      BY <3>1, <3>2, <2>1, TxRequestForFact DEF r
    <3>5. <<r>> \in Seq(R) /\ DOMAIN <<r>> = {1} /\ <<r>>[1] = r
      <4> HIDE DEF R
      <4> QED BY <3>4
    <3> QED BY <3>3, <3>4, <3>5 DEF AsksTx
  <2>2. CASE ~Asks(app[i], children)
    <3>1. Part(i) = <<>> BY <2>2
    <3>2. \A tx, n : ~TxMatches(app[i], tx, n, children) BY <2>0, <2>2, FilterAsks
    <3> HIDE DEF Part
    <3> QED BY <3>1, <3>2, EmptySeq
  <2> QED BY <2>1, <2>2
<1> HIDE DEF Part
<1>4. parts \in Seq(Seq(R)) /\ DOMAIN parts = DOMAIN app /\ \A i \in DOMAIN app : parts[i] = Part(i)
  <2> DEFINE T == Seq(R)  n == Len(app)
  <2>1. n \in Nat /\ DOMAIN app = 1..n /\ \A i \in 1..n : Part(i) \in T BY <1>1, <1>3
  <2> HIDE DEF T, n
  <2>2. [i \in 1..n |-> Part(i)] \in [1..n -> T] BY <2>1
  <2>3. [i \in 1..n |-> Part(i)] \in Seq(T) BY <2>1, <2>2, IsASeq
  <2> QED BY <2>1, <2>3 DEF T
<1> HIDE DEF parts
<1>5. requests \in Seq(R) /\ ToSet(requests) = UNION {ToSet(parts[i]) : i \in DOMAIN parts}
  <2> HIDE DEF R
  <2> QED BY <1>2, <1>4, FlattenFact
<1> HIDE DEF requests
<1>6. ASSUME NEW tx, NEW n, TxKept(app, children, tx, n) PROVE AsksTx(requests, tx)
  <2>1. PICK i \in DOMAIN app : TxMatches(app[i], tx, n, children) BY <1>6 DEF TxKept
  <2>2. PICK j \in DOMAIN parts[i] : AskedTx(parts[i][j], tx) BY <2>1, <1>3, <1>4 DEF AsksTx
  <2>3. parts[i][j] \in ToSet(parts[i]) BY <2>2 DEF ToSet
  <2>4. parts[i][j] \in ToSet(requests) BY <2>1, <2>3, <1>4, <1>5
  <2>5. PICK k \in DOMAIN requests : requests[k] = parts[i][j] BY <2>4 DEF ToSet
  <2> QED BY <2>2, <2>5 DEF AsksTx
<1>7. TxPlan(requests, S)
  <2>1. \A j \in DOMAIN requests : requests[j] \in R BY <1>5, ElementOfSeq, LenProperties
  <2>2. R \subseteq TxRequests(S) OBVIOUS
  <2>3. requests \in Seq(TxRequests(S))
    <3> HIDE DEF R
    <3> QED BY <1>5, <2>2, SeqMonotonic
  <2> QED BY <2>1, <2>3 DEF TxPlan
<1> QED BY <1>6, <1>7 DEF requests

(* All of them split.                                                       *)
LEMMA ChunkedFact ==
  ASSUME NEW S, NEW requests, TxPlan(requests, S)
  PROVE  /\ Chunked(requests) \in Seq(TxRequests(S))
         /\ \A tx : AsksTx(requests, tx) => AsksTx(Chunked(requests), tx)
PROOF
<1> DEFINE R == TxRequests(S)
           parts == [i \in DOMAIN requests |-> ChunkTxRequest(requests[i])]
           n == Len(requests)
<1>1. n \in Nat /\ DOMAIN requests = 1..n /\ \A i \in 1..n : requests[i] \in R /\ HasSide(requests[i])
  BY LenProperties, ElementOfSeq DEF TxPlan
<1>2. ASSUME NEW i \in 1..n
      PROVE  /\ ChunkTxRequest(requests[i]) \in Seq(R)
             /\ \A tx : AskedTx(requests[i], tx) => AsksTx(ChunkTxRequest(requests[i]), tx)
  BY <1>1, ChunkTxFact
<1> HIDE DEF R
<1>3. parts \in Seq(Seq(R)) /\ DOMAIN parts = 1..n /\ \A i \in 1..n : parts[i] = ChunkTxRequest(requests[i])
  <2> DEFINE T == Seq(R)
  <2>1. \A i \in 1..n : ChunkTxRequest(requests[i]) \in T BY <1>2
  <2> HIDE DEF T, n
  <2>2. [i \in 1..n |-> ChunkTxRequest(requests[i])] \in [1..n -> T] BY <2>1
  <2>3. [i \in 1..n |-> ChunkTxRequest(requests[i])] \in Seq(T) BY <2>2, <1>1, IsASeq
  <2> QED BY <2>1, <2>3, <1>1 DEF T
<1>4. Chunked(requests) = FlattenSeq(parts) BY DEF Chunked
<1> HIDE DEF parts
<1>5. Chunked(requests) \in Seq(R) /\ ToSet(Chunked(requests)) = UNION {ToSet(parts[i]) : i \in DOMAIN parts}
  BY <1>3, <1>4, FlattenFact
<1>6. ASSUME NEW tx, AsksTx(requests, tx) PROVE AsksTx(Chunked(requests), tx)
  <2>1. PICK i \in 1..n : AskedTx(requests[i], tx) BY <1>1, <1>6 DEF AsksTx
  <2>2. PICK j \in DOMAIN parts[i] : AskedTx(parts[i][j], tx) BY <2>1, <1>2, <1>3 DEF AsksTx
  <2>3. parts[i][j] \in ToSet(parts[i]) BY <2>2 DEF ToSet
  <2>4. parts[i][j] \in ToSet(Chunked(requests)) BY <2>1, <2>3, <1>3, <1>5
  <2>5. PICK k \in DOMAIN Chunked(requests) : Chunked(requests)[k] = parts[i][j] BY <2>4 DEF ToSet
  <2> QED BY <2>2, <2>5 DEF AsksTx
<1> QED BY <1>5, <1>6 DEF R

(* The bodies of transactions ask for each one a filter matches, and are    *)
(* shards.                                                                  *)
LEMMA TxBodiesFact ==
  ASSUME app \in Apps, ChildrenOK
  PROVE  /\ \E R : Sharded(BodiesOf(app, children, "tx"), R)
         /\ \A tx, n : TxKept(app, children, tx, n) =>
              \E b \in DOMAIN BodiesOf(app, children, "tx") : AsksTx(BodiesOf(app, children, "tx")[b], tx)
PROOF
<1> DEFINE requests == TxRequestsFor(app, children)
           bodies == ShardTxRequests(requests)
<1>1. PICK S : /\ TxPlan(requests, S)
               /\ \A tx, n : TxKept(app, children, tx, n) => AsksTx(requests, tx)
  BY TxRequestsForFact
<1>2. BodiesOf(app, children, "tx") = bodies BY DEF BodiesOf
<1> HIDE DEF requests
<1>3. SUFFICES /\ Sharded(bodies, TxRequests(S))
               /\ \A tx : AsksTx(requests, tx) => \E b \in DOMAIN bodies : AsksTx(bodies[b], tx)
  <2> HIDE DEF bodies
  <2> QED BY <1>1, <1>2, <1>3
<1>4. requests \in Seq(TxRequests(S)) BY <1>1 DEF TxPlan
<1>5. CASE requests = <<>>
  <2>1. bodies = <<>> BY <1>5 DEF ShardTxRequests
  <2>2. DOMAIN requests = {} BY <1>5
  <2>3. Sharded(<<>>, TxRequests(S)) BY EmptySeq DEF Sharded
  <2> HIDE DEF bodies
  <2> QED BY <2>1, <2>2, <2>3 DEF AsksTx
<1>6. CASE requests # <<>> /\ Fits(requests)
  <2>1. bodies = <<requests>> BY <1>6 DEF ShardTxRequests
  <2>2. <<requests>> \in Seq(Seq(TxRequests(S))) /\ DOMAIN <<requests>> = {1} /\ <<requests>>[1] = requests
    BY <1>4
  <2>3. Sharded(<<requests>>, TxRequests(S)) BY <1>6, <2>2 DEF Sharded
  <2> HIDE DEF bodies
  <2> QED BY <2>1, <2>2, <2>3
<1>7. CASE requests # <<>> /\ ~Fits(requests)
  <2> DEFINE chunked == Chunked(requests)
  <2>1. bodies = Pack(chunked) BY <1>7 DEF ShardTxRequests
  <2>2. chunked \in Seq(TxRequests(S)) /\ \A tx : AsksTx(requests, tx) => AsksTx(chunked, tx)
    BY <1>1, ChunkedFact
  <2> HIDE DEF bodies, chunked
  <2>3. /\ Sharded(Pack(chunked), TxRequests(S))
        /\ \A i \in DOMAIN chunked : Holding(Pack(chunked), chunked[i])
    BY <2>2, PackFact
  <2>4. ASSUME NEW tx, AsksTx(chunked, tx)
        PROVE  \E b \in DOMAIN bodies : AsksTx(bodies[b], tx)
    <3>1. PICK i \in DOMAIN chunked : AskedTx(chunked[i], tx) BY <2>4 DEF AsksTx
    <3>2. PICK b \in DOMAIN bodies : chunked[i] \in ToSet(bodies[b])
      BY <2>1, <2>3 DEF Holding
    <3> QED BY <3>1, <3>2 DEF AsksTx, ToSet
  <2> QED BY <2>1, <2>2, <2>3, <2>4
<1> QED BY <1>5, <1>6, <1>7

-----------------------------------------------------------------------------
(* Sizes.                                                                  *)
(* An interval from 0 on holds naturals.                                    *)
LEMMA NaturalsOnly ==
  ASSUME NEW x PROVE 0..x \subseteq Nat
OBVIOUS

(* The empty body fits: EnvelopeSize is less than the budget.                   *)
LEMMA NothingFits == Fits(<<>>)
PROOF
<1> DEFINE Step(iter, s) == IF s = {} THEN EnvelopeSize ELSE iter[s \ {Max(s)}] + Weight(<<>>[Max(s)])
           G == [s \in SUBSET {} |-> EnvelopeSize]
           D == {}
           iter == CHOOSE iter : iter = [s \in SUBSET D |-> Step(iter, s)]
<1>1. DOMAIN <<>> = {} OBVIOUS
<1>2. G = [s \in SUBSET D |-> Step(G, s)] BY \A s \in SUBSET {} : s = {}
<1>3. iter = [s \in SUBSET D |-> Step(iter, s)]
  <2> HIDE DEF G, Step
  <2> QED BY <1>2
<1>4. iter[D] = EnvelopeSize
  <2> HIDE DEF iter
  <2> QED BY <1>3
<1>5. Size(<<>>) = iter[D]
  BY <1>1 DEF Size, FoldLeft, MapThenFoldSet
<1> QED BY <1>4, <1>5, FetchSpecAssumption DEF Fits

(* The realtime stops rather than send a request that is over budget.       *)
LEMMA OpenedFits ==
  ASSUME NEW known, NEW wildcard, NEW o, o = Opened(known, wildcard), ~o.stopped
  PROVE  Fits(o.requests)
PROOF
<1> DEFINE requests == BuildPortalLogRequests(app, known)
           keys == StripOverBudget(app, requests, wildcard)
<1>1. o = IF keys = Undefined THEN [requests |-> <<>>, keys |-> wildcard, stopped |-> TRUE]
          ELSE [requests |-> WithoutAddresses(app, requests, keys), keys |-> keys, stopped |-> FALSE]
  BY DEF Opened
<1> HIDE DEF requests
<1> DEFINE fewer == {i \in DOMAIN requests : /\ Count(requests[i].address) > 0
                                            /\ WildcardKey(requests[i]) \notin wildcard
                                            /\ ~IsDiscoveryRequest(app, requests[i])}
           Before(i, j) == LET ci == Count(requests[i].address)
                               cj == Count(requests[j].address)
                           IN  ci > cj \/ (ci = cj /\ i < j)
           First(k) == {i \in fewer : Cardinality({j \in fewer : Before(j, i)}) < k}
           Keys(k) == wildcard \cup {WildcardKey(requests[i]) : i \in First(k)}
           enough == {k \in 0..Len(requests) : Fits(WithoutAddresses(app, requests, Keys(k)))}
<1>2. keys = IF enough = {} THEN Undefined ELSE Keys(Min(enough)) BY DEF StripOverBudget
<1>3. enough # {} => Min(enough) \in enough
  <2>1. enough \subseteq Nat BY NaturalsOnly
  <2> HIDE DEF enough
  <2> QED BY <2>1, MinFact
<1>4. enough # {} => Fits(WithoutAddresses(app, requests, Keys(Min(enough))))
  <2> DEFINE k == Min(enough)
  <2> HIDE DEF Keys
  <2> QED BY <1>3
<1> HIDE DEF keys, Keys, enough
<1>5. keys # Undefined BY <1>1
<1>6. o.requests = WithoutAddresses(app, requests, keys) BY <1>1, <1>5
<1>7. Fits(WithoutAddresses(app, requests, keys)) BY <1>2, <1>4, <1>5
<1> QED BY <1>6, <1>7

-----------------------------------------------------------------------------
(* The second invariant: no wanted row is lost on the way.                    *)
(* The bodies still to be streamed, and the requests of the realtime, fit.        *)
BodiesOK ==
  /\ Streaming => fetch.todo \in Seq(ToSet(fetch.todo)) /\ \A i \in DOMAIN fetch.todo : Fits(fetch.todo[i])
  /\ live # NotLive /\ ~live.stopped => Fits(live.requests)

(* The rows of a source that the store will have of a block, those that a raw       *)
(* block has, and whether a body asks for one.                                 *)
WantedOf(s, n) ==
  CASE s = "log" -> WantedLogs(n)
    [] s = "trace" -> WantedTraces(n)
    [] s = "block" -> {m \in {n} : BlockKept(app, m)}
    [] s = "tx" -> WantedTxs(n)
RowsOf(s, raw) ==
  CASE s = "log" -> raw.logs
    [] s = "trace" -> raw.traces
    [] s = "block" -> {raw.number}
    [] s = "tx" -> raw.txs
AsksFor(s, body, x) ==
  CASE s = "log" -> AsksLog(body, x)
    [] s = "tx" -> AsksTx(body, x)
    [] s \in {"trace", "block"} -> TRUE

Fetched(s, n, x) == \E raw \in RawsOf(s, n) : x \in RowsOf(s, raw)

(* A wanted row of the range that is streamed is in the chunk, or a body that is     *)
(* still to be streamed asks for it.                                          *)
PendingOK ==
  Streaming =>
    \A k \in 1..4, n \in Numbers :
      fetch.from <= n /\ n <= fetch.to /\ dataset.start <= n =>
        \A x \in WantedOf(Sources[k], n) :
          \/ k > fetch.source
          \/ k = fetch.source /\ \E b \in DOMAIN fetch.todo :
               AsksFor(Sources[k], fetch.todo[b], x) /\ (b = 1 => fetch.cursor <= n)
          \/ Fetched(Sources[k], n, x)

(* The resolved chunk has every wanted row.                                   *)
CompleteOK ==
  \A s \in ToSet(Sources), n \in Numbers :
    done <= n /\ n < covered /\ dataset.start <= n =>
      \A x \in WantedOf(s, n) : Fetched(s, n, x)

(* A raw block comes with the transactions of its rows.                         *)
RawOK ==
  \A s \in ToSet(Sources), n \in Numbers : \A raw \in RawsOf(s, n) :
    /\ s = "log" => \A l \in raw.logs : \E tx \in raw.txs : tx.hash = l.tx
    /\ s = "trace" => raw.txs = Chain[n].txs
    /\ s = "block" => BlockKept(app, n)

(* Rows of the blocks of an interval only, and the store of those already synced.   *)
Within(rows, lo, hi) ==
  /\ \A l \in rows.logs : l.number \in lo..hi
  /\ \A t \in rows.traces : t.number \in lo..hi
  /\ \A m \in DOMAIN rows.blocks : m \in lo..hi
  /\ \A k \in DOMAIN rows.txs : k[1] \in lo..hi
  /\ \A k \in DOMAIN rows.receipts : k[1] \in lo..hi

StoreOK == Within(store, 0, done - 1)

(* The bodies of every source ask for every wanted row, once discovery is above it. *)
LEMMA BodiesFact ==
  ASSUME app \in Apps, ChildrenOK, NEW s \in ToSet(Sources)
  PROVE  \E R : Sharded(BodiesOf(app, children, s), R)
PROOF
<1>1. CASE s = "log" BY <1>1, LogBodiesFact
<1>2. CASE s = "tx" BY <1>2, TxBodiesFact
<1>3. CASE s \in {"trace", "block"}
  <2> DEFINE bodies == BodiesOf(app, children, s)
  <2>1. bodies = <<<<>>>> \/ bodies = <<>> BY <1>3 DEF BodiesOf
  <2>2. Sharded(<<>>, {}) BY EmptySeq DEF Sharded
  <2>3. Sharded(<<<<>>>>, {})
    <3>1. <<<<>>>> \in Seq(Seq({})) /\ DOMAIN <<<<>>>> = {1} /\ <<<<>>>>[1] = <<>>
      <4>1. <<>> \in Seq({}) BY EmptySeq
      <4> QED BY <4>1
    <3> QED BY <3>1, NothingFits DEF Sharded
  <2> HIDE DEF bodies
  <2>4. Sharded(bodies, {}) BY <2>1, <2>2, <2>3
  <2> QED BY <2>4 DEF bodies
<1> QED BY <1>1, <1>2, <1>3, SourcesFact

(* Shards that are not oversized fit.                                       *)
LEMMA ShardsFit ==
  ASSUME NEW shards, NEW R, Sharded(shards, R), ~Oversized(shards)
  PROVE  shards \in Seq(ToSet(shards)) /\ \A i \in DOMAIN shards : Fits(shards[i])
PROOF
<1>1. shards \in Seq(Seq(R)) /\ \A i \in DOMAIN shards : Fits(shards[i]) \/ Len(shards[i]) = 1
  BY DEF Sharded
<1>2. \A i \in DOMAIN shards : Fits(shards[i]) BY <1>1 DEF Oversized
<1>3. DOMAIN shards = 1..Len(shards) /\ Len(shards) \in Nat BY <1>1, LenProperties
<1>4. shards \in [1..Len(shards) -> ToSet(shards)] BY <1>1, <1>3 DEF ToSet
<1>5. shards \in Seq(ToSet(shards)) BY <1>3, <1>4, IsASeq
<1> QED BY <1>2, <1>5

(* A sequence without its first member.                                     *)
LEMMA TailFact ==
  ASSUME NEW s, s \in Seq(ToSet(s)), s # <<>>
  PROVE  /\ Tail(s) \in Seq(ToSet(Tail(s)))
         /\ \A i \in DOMAIN Tail(s) : i + 1 \in DOMAIN s /\ Tail(s)[i] = s[i + 1]
         /\ \A i \in DOMAIN s : i = 1 \/ (i - 1 \in DOMAIN Tail(s) /\ Tail(s)[i - 1] = s[i])
PROOF
<1> DEFINE n == Len(s)  T == ToSet(s)  t == Tail(s)
<1>1. n \in Nat \ {0} /\ DOMAIN s = 1..n BY LenProperties, EmptySeq
<1>2. /\ t \in Seq(T) /\ Len(t) = n - 1 /\ \A i \in 1..(n - 1) : t[i] = s[i + 1]
  <2> HIDE DEF T
  <2> QED BY HeadTailProperties DEF T
<1>3. DOMAIN t = 1..(n - 1) BY <1>1, <1>2, LenProperties
<1> HIDE DEF n, T, t
<1>4. t \in [1..Len(t) -> ToSet(t)] BY <1>2, <1>3, LenProperties DEF ToSet
<1>5. t \in Seq(ToSet(t)) BY <1>1, <1>2, <1>4, IsASeq
<1>6. \A i \in 1..(n - 1) : i + 1 \in 1..n BY <1>1
<1>7. \A i \in 1..n : i = 1 \/ (i - 1 \in 1..(n - 1) /\ (i - 1) + 1 = i) BY <1>1
<1> QED BY <1>1, <1>2, <1>3, <1>5, <1>6, <1>7 DEF t

-----------------------------------------------------------------------------
(* The steps of a stream.                                                   *)
(* When a source's turn comes, its bodies ask for every wanted row below    *)
(* discovery.                                                               *)
LEMMA PlannedFact ==
  ASSUME app \in Apps, ChildrenOK, ScanOK, live = NotLive, scanned \in Int,
         NEW n \in Numbers, FactoriesOf(app) # {} => n <= scanned,
         NEW s \in ToSet(Sources), NEW x \in WantedOf(s, n)
  PROVE  \E b \in DOMAIN BodiesOf(app, children, s) : AsksFor(s, BodiesOf(app, children, s)[b], x)
PROOF
<1>1. /\ \A l : LogKept(app, children, l, n) <=> LogKept(app, Everyone, l, n)
      /\ \A t : TxKept(app, children, t, n) <=> TxKept(app, Everyone, t, n)
      /\ \A t : TraceKept(app, children, t, n) <=> TraceKept(app, Everyone, t, n)
  BY KeptExact
<1>2. CASE s = "log"
  <2>1. LogKept(app, children, x, n) BY <1>1, <1>2 DEF WantedOf, WantedLogs
  <2>2. \E b \in DOMAIN BodiesOf(app, children, "log") : AsksLog(BodiesOf(app, children, "log")[b], x)
    BY <2>1, LogBodiesFact
  <2> QED BY <1>2, <2>2 DEF AsksFor
<1>3. CASE s = "tx"
  <2>1. TxKept(app, children, x, n) BY <1>1, <1>3 DEF WantedOf, WantedTxs
  <2>2. \E b \in DOMAIN BodiesOf(app, children, "tx") : AsksTx(BodiesOf(app, children, "tx")[b], x)
    BY <2>1, TxBodiesFact
  <2> QED BY <1>3, <2>2 DEF AsksFor
<1>4. CASE s = "trace"
  <2>1. TraceKept(app, Everyone, x, n) BY <1>4 DEF WantedOf, WantedTraces
  <2>2. Has(app, {"trace", "transfer"}) BY <2>1 DEF TraceKept, TraceMatches, Has
  <2>3. BodiesOf(app, children, s) = <<<<>>>> BY <1>4, <2>2 DEF BodiesOf
  <2>4. 1 \in DOMAIN <<<<>>>> OBVIOUS
  <2> QED BY <1>4, <2>3, <2>4 DEF AsksFor
<1>5. CASE s = "block"
  <2>1. BlockKept(app, n) BY <1>5 DEF WantedOf
  <2>2. Has(app, {"block"}) BY <2>1 DEF BlockKept, BlockMatches, Has
  <2>3. BodiesOf(app, children, s) = <<<<>>>> BY <1>5, <2>2 DEF BodiesOf
  <2>4. 1 \in DOMAIN <<<<>>>> OBVIOUS
  <2> QED BY <1>5, <2>3, <2>4 DEF AsksFor
<1> QED BY <1>2, <1>3, <1>4, <1>5, SourcesFact

(* What is served for a body has the rows that it asks for, and is buffered.      *)
LEMMA ServesFact ==
  ASSUME NEW n \in Numbers, NEW s \in ToSet(Sources), NEW body, NEW x \in WantedOf(s, n),
         AsksFor(s, body, x)
  PROVE  Buffered(s, Served(s, body, n)) /\ x \in RowsOf(s, Served(s, body, n))
PROOF
<1> DEFINE raw == Served(s, body, n)
<1>1. CASE s = "log"
  <2>1. x \in LogsFor(body, n)
    BY <1>1 DEF WantedOf, WantedLogs, AsksFor, AsksLog, LogsFor
  <2>2. raw.logs = LogsFor(body, n) BY <1>1 DEF Served
  <2> HIDE DEF raw
  <2> QED BY <1>1, <2>1, <2>2 DEF Buffered, RowsOf, raw
<1>2. CASE s = "trace"
  <2>1. x \in Chain[n].traces BY <1>2 DEF WantedOf, WantedTraces
  <2>2. raw.traces = Chain[n].traces BY <1>2 DEF Served
  <2> HIDE DEF raw
  <2> QED BY <1>2, <2>1, <2>2 DEF Buffered, RowsOf, raw
<1>3. CASE s = "block"
  <2>1. BlockKept(app, n) /\ x = n BY <1>3 DEF WantedOf
  <2>2. raw.number = n BY DEF Served
  <2> HIDE DEF raw
  <2> QED BY <1>3, <2>1, <2>2 DEF Buffered, RowsOf, raw
<1>4. CASE s = "tx"
  <2>1. x \in {tx \in Chain[n].txs : \E i \in DOMAIN body : AskedTx(body[i], tx)}
    BY <1>4 DEF WantedOf, WantedTxs, AsksFor, AsksTx
  <2>2. raw.txs = {tx \in Chain[n].txs : \E i \in DOMAIN body : AskedTx(body[i], tx)}
    BY <1>4 DEF Served
  <2> HIDE DEF raw
  <2> QED BY <1>4, <2>1, <2>2 DEF Buffered, RowsOf, raw
<1> QED BY <1>1, <1>2, <1>3, <1>4, SourcesFact

(* Served blocks come with the transactions of their rows.                  *)
LEMMA RawServed ==
  ASSUME NEW n \in Numbers, NEW s \in ToSet(Sources), NEW body, Buffered(s, Served(s, body, n))
  PROVE  LET raw == Served(s, body, n)
         IN  /\ s = "log" => \A l \in raw.logs : \E tx \in raw.txs : tx.hash = l.tx
             /\ s = "trace" => raw.txs = Chain[n].txs
             /\ s = "block" => BlockKept(app, n)
PROOF
<1> DEFINE raw == Served(s, body, n)
<1>1. CASE s = "log"
  <2>1. raw.logs = LogsFor(body, n)
        /\ raw.txs = {tx \in Chain[n].txs : \E l \in LogsFor(body, n) : l.tx = tx.hash}
    BY <1>1 DEF Served
  <2>2. \A l \in LogsFor(body, n) : \E tx \in Chain[n].txs : tx.hash = l.tx
    BY ChainAssumption DEF LogsFor
  <2> HIDE DEF raw
  <2> QED BY <1>1, <2>1, <2>2 DEF raw
<1>2. CASE s = "trace"
  <2>1. raw.txs = Chain[n].txs BY <1>2 DEF Served
  <2> QED BY <1>2, <2>1
<1>3. CASE s = "block"
  <2>1. raw.number = n BY DEF Served
  <2> HIDE DEF raw
  <2>2. Buffered("block", raw) BY <1>3 DEF raw
  <2>3. BlockKept(app, n) BY <2>1, <2>2 DEF Buffered
  <2> QED BY <1>3, <2>3
<1>4. CASE s = "tx" BY <1>4
<1> QED BY <1>1, <1>2, <1>3, <1>4, SourcesFact

AllFit(todo) == todo \in Seq(ToSet(todo)) /\ \A i \in DOMAIN todo : Fits(todo[i])

(* The source's turn: its bodies fit, unless planning throws.                    *)
LEMMA TurnFits ==
  ASSUME app \in Apps, ChildrenOK, NEW s \in ToSet(Sources),
         ~Oversized(BodiesOf(app, children, s))
  PROVE  AllFit(BodiesOf(app, children, s))
PROOF
<1> DEFINE bodies == BodiesOf(app, children, s)
<1>1. PICK R : Sharded(bodies, R) BY BodiesFact
<1> HIDE DEF bodies
<1>2. ~Oversized(bodies) BY DEF bodies
<1>3. AllFit(bodies) BY <1>1, <1>2, ShardsFit DEF AllFit
<1> QED BY <1>3 DEF bodies

(* Bodies that fit still do when the first is drained.                      *)
LEMMA TailFits ==
  ASSUME NEW todo, AllFit(todo), todo # <<>> PROVE AllFit(Tail(todo))
BY TailFact DEF AllFit

(* No step plans a body that does not fit.                                  *)
LEMMA TodoStep ==
  ASSUME CursorsOK, FetchOK, ChildrenOK, Streaming => AllFit(fetch.todo), Next, Streaming'
  PROVE  AllFit(fetch'.todo)
PROOF
<1>1. fetch' # NoFetch /\ fetch'.failed = Undefined BY DEF Streaming
<1>2. app \in Apps BY DEF CursorsOK
<1>3. Streaming => IsRange(fetch) /\ fetch.source \in 1..4 /\ AllFit(fetch.todo)
  BY DEF Streaming, FetchOK
<1>4. Undefined # "oversized" /\ Undefined # "stream" /\ Undefined # "gap" BY ChainAssumption
<1>5. ASSUME NEW to \in Numbers, StartFetch(to) PROVE AllFit(fetch'.todo)
  <2>1. BackfillStart(app) <= covered /\ covered \in Nat /\ BackfillStart(app) \in Nat
    BY RangeFact DEF CursorsOK
  <2>2. PICK todo, failed :
           /\ fetch' = [from |-> covered, to |-> to, source |-> 1, todo |-> todo, cursor |-> covered,
                        dropped |-> {}, missing |-> {}, matched |-> {}, failed |-> failed]
           /\ todo = BodiesOf(app, children, "log")
           /\ failed = IF Oversized(todo) THEN "oversized" ELSE Undefined
    BY <1>5, <2>1, StartStep
  <2>3. fetch'.todo = todo /\ fetch'.failed = failed BY <2>2
  <2>4. ~Oversized(todo) BY <1>1, <1>4, <2>2, <2>3
  <2> QED BY <1>2, <2>2, <2>3, <2>4, TurnFits, SourcesFact
<1>6. ASSUME NextSource PROVE AllFit(fetch'.todo)
  <2>1. Streaming BY <1>6 DEF NextSource
  <2> DEFINE s == Sources[fetch.source + 1]  todo == BodiesOf(app, children, s)
             failed == IF Oversized(todo) THEN "oversized" ELSE fetch.failed
  <2>2. /\ fetch.source + 1 \in 1..4
        /\ fetch' = [from |-> fetch.from, to |-> fetch.to, source |-> fetch.source + 1,
                todo |-> todo, cursor |-> fetch.from,
                dropped |-> {}, missing |-> fetch.missing, matched |-> fetch.matched,
                failed |-> failed]
    BY <1>3, <1>6, <2>1, NextSourceStep
  <2>3. s \in ToSet(Sources) BY <2>2, SourcesFact
  <2> HIDE DEF s, failed
  <2>4. ~Oversized(todo) => AllFit(todo) BY <1>2, <2>3, TurnFits
  <2> HIDE DEF todo
  <2>5. fetch'.todo = todo /\ fetch'.failed = failed BY <2>2
  <2>6. ~Oversized(todo) BY <1>1, <1>4, <2>5 DEF failed
  <2> QED BY <2>4, <2>5, <2>6
<1>7. ASSUME NEW last, Serve(last) PROVE AllFit(fetch'.todo)
  <2>1. Streaming /\ fetch.todo # <<>> BY <1>7 DEF Serve, AtStream
  <2>2. PICK todo, cursor, dropped, matched :
          /\ fetch' = [from |-> fetch.from, to |-> fetch.to, source |-> fetch.source,
                todo |-> todo, cursor |-> cursor, dropped |-> dropped, missing |-> fetch.missing,
                matched |-> matched, failed |-> fetch.failed]
          /\ todo = IF last = fetch.to THEN Tail(fetch.todo) ELSE fetch.todo
    BY <1>3, <1>7, <2>1, ServeStep
  <2>3. fetch'.todo = todo BY <2>2
  <2> QED BY <1>3, <2>1, <2>2, <2>3, TailFits
<1>8. ASSUME NEW field, DropField(field) PROVE AllFit(fetch'.todo)
  <2>1. Streaming BY <1>8 DEF DropField, AtStream
  <2>2. fetch'.todo = fetch.todo BY <1>3, <1>8, <2>1, DropStep
  <2> QED BY <1>3, <2>1, <2>2
<1>9. ASSUME SkipToStart PROVE AllFit(fetch'.todo)
  <2>1. Streaming /\ fetch.todo # <<>> BY <1>9 DEF SkipToStart, AtStream
  <2>2. fetch'.todo = IF dataset.start > fetch.to THEN Tail(fetch.todo) ELSE fetch.todo
    BY <1>3, <1>9, <2>1, SkipStep
  <2> QED BY <1>3, <2>1, <2>2, TailFits
<1>10. ASSUME NEW why, fetch' = [fetch EXCEPT !.failed = why], Streaming, why # Undefined PROVE FALSE
  <2>1. fetch'.failed = why BY <1>3, <1>10, FailStep
  <2> QED BY <1>1, <1>10, <2>1
<1>11. ~StreamThrows BY <1>4, <1>10 DEF StreamThrows, AtStream
<1>12. ~Finish BY <1>1, <1>4, <1>10 DEF Finish
<1>13. ~Evict BY <1>1 DEF Evict
<1>14. CASE fetch' = fetch BY <1>1, <1>3, <1>14 DEF Streaming
<1> QED BY <1>5, <1>6, <1>7, <1>8, <1>9, <1>11, <1>12, <1>13, <1>14
  DEF Next, Discover, Assemble, GoLive, DiscoverLive, chunkVars

(* BodiesOK is inductive.                                                   *)
LEMMA BodiesStep ==
  ASSUME CursorsOK, FetchOK, ChildrenOK, BodiesOK, Next
  PROVE  BodiesOK'
PROOF
<1>1. Streaming => AllFit(fetch.todo) BY DEF BodiesOK, AllFit
<1>2. Streaming' => AllFit(fetch'.todo) BY <1>1, TodoStep
<1>3. live' # NotLive /\ ~live'.stopped => Fits(live'.requests)
  <2>1. live' = live \/ \E known, wildcard : live' = Opened(known, wildcard)
    BY DEF Next, Discover, NextSource, Finish, SkipToStart, StreamThrows, Evict, StartFetch, Assemble,
       Serve, DropField, GoLive, DiscoverLive, OnlyFetch
  <2>2. CASE live' = live BY <2>2 DEF BodiesOK
  <2>3. CASE \E known, wildcard : live' = Opened(known, wildcard)
    BY <2>3, OpenedFits
  <2> QED BY <2>1, <2>2, <2>3
<1> QED BY <1>2, <1>3 DEF BodiesOK, AllFit

(* What is wanted only depends on the app.                                  *)
LEMMA StableWanted ==
  ASSUME app' = app
  PROVE  /\ \A s, n : WantedOf(s, n)' = WantedOf(s, n)
         /\ \A n : BlockKept(app, n)' <=> BlockKept(app, n)
PROOF
<1>1. \A n : WantedLogs(n)' = WantedLogs(n) BY DEF WantedLogs, Everyone
<1>2. \A n : WantedTraces(n)' = WantedTraces(n) BY DEF WantedTraces, Everyone
<1>3. \A n : WantedTxs(n)' = WantedTxs(n) BY DEF WantedTxs, Everyone
<1> QED BY <1>1, <1>2, <1>3 DEF WantedOf

(* Rows only come to the chunk, until it is evicted.                             *)
LEMMA FetchedGrows ==
  ASSUME CursorsOK, FetchOK, DataOK, Next, ~Evict
  PROVE  \A s \in ToSet(Sources), n \in Numbers :
           /\ RawsOf(s, n) \subseteq RawsOf(s, n)'
           /\ \A x : Fetched(s, n, x) => Fetched(s, n, x)'
PROOF
<1>1. \A s \in ToSet(Sources), n \in Numbers : RawsOf(s, n) \subseteq RawsOf(s, n)'
  <2>1. CASE \E last \in fetch.cursor..fetch.to : Serve(last) BY <2>1, ServeData
  <2>2. CASE data' = data BY <2>2 DEF RawsOf
  <2> QED BY StepKinds, <2>1, <2>2
    DEF Discover, StartFetch, RangeMoves, OnlyFetch, Finish, Assemble, GoLive, DiscoverLive, chunkVars
<1> QED BY <1>1 DEF Fetched

(* A batch brings the rows its body asks for up to its last block.          *)
LEMMA ServePends ==
  ASSUME CursorsOK, FetchOK, DataOK, BodiesOK, PendingOK, NEW last \in fetch.cursor..fetch.to, Serve(last),
         NEW k \in 1..4, NEW n \in Numbers, fetch.from <= n, n <= fetch.to, dataset.start <= n,
         NEW x \in WantedOf(Sources[k], n)
  PROVE  \/ k > fetch'.source
         \/ k = fetch'.source /\ \E b \in DOMAIN fetch'.todo :
              AsksFor(Sources[k], fetch'.todo[b], x) /\ (b = 1 => fetch'.cursor <= n)
         \/ Fetched(Sources[k], n, x)'
PROOF
<1>1. Streaming /\ fetch.todo # <<>> /\ fetch # NoFetch BY DEF Serve, AtStream, Streaming
<1>2. /\ IsRange(fetch) /\ fetch.source \in 1..4 /\ fetch.cursor \in Nat /\ fetch.from \in Nat
      /\ fetch.to \in Nat /\ AllFit(fetch.todo)
  BY <1>1, NumbersFact DEF FetchOK, CursorsOK, BodiesOK, AllFit
<1>3. PICK todo, cursor, dropped, matched :
        /\ fetch' = [from |-> fetch.from, to |-> fetch.to, source |-> fetch.source,
                todo |-> todo, cursor |-> cursor, dropped |-> dropped, missing |-> fetch.missing,
                matched |-> matched, failed |-> fetch.failed]
        /\ todo = IF last = fetch.to THEN Tail(fetch.todo) ELSE fetch.todo
        /\ cursor = IF last = fetch.to THEN fetch.from ELSE last + 1
  BY <1>2, ServeStep
<1>4. fetch'.todo = todo /\ fetch'.cursor = cursor /\ fetch'.source = fetch.source BY <1>3
<1> DEFINE s == Sources[k]
<1>5. s \in ToSet(Sources) BY SourcesFact
<1>6. Fetched(s, n, x) => Fetched(s, n, x)'
  <2>1. \A m \in Numbers : RawsOf(s, m) \subseteq RawsOf(s, m)' BY <1>5, ServeData
  <2> QED BY <2>1 DEF Fetched
<1>7. ASSUME k = fetch.source, AsksFor(s, fetch.todo[1], x), fetch.cursor <= n, n <= last
      PROVE  Fetched(s, n, x)'
  <2> DEFINE raw == Served(s, fetch.todo[1], n)
  <2>1. Buffered(s, raw) /\ x \in RowsOf(s, raw) BY <1>5, <1>7, ServesFact
  <2>2. raw \in RawsOf(s, n)'
    <3> DEFINE raws == RawsOf(s, n)
               kept == {m \in fetch.cursor..last : Buffered(s, Served(s, fetch.todo[1], m))}
    <3>1. n \in kept BY <1>2, <1>7, <2>1, NumbersFact
    <3>2. data' = [data EXCEPT ![s] =
                      [m \in Numbers |-> IF m \in kept THEN Append(@[m], Served(s, fetch.todo[1], m)) ELSE @[m]]]
      BY <1>7 DEF Serve
    <3>3. data'[s][n] = Append(data[s][n], raw)
      <4> HIDE DEF s, kept
      <4> QED BY <1>5, <3>1, <3>2 DEF DataOK
    <3>4. data[s][n] \in Seq(RawAt(n)) BY <1>5 DEF DataOK
    <3>5. raw \in RawAt(n)
      <4>1. Requested \subseteq Fields BY <1>5, <1>7, FieldsFact DEF Requested
      <4> QED BY <4>1, ServedFact
    <3> HIDE DEF raw
    <3>6. ToSet(Append(data[s][n], raw)) = ToSet(data[s][n]) \cup {raw} BY <3>4, <3>5, MembersOfAppend
    <3> QED BY <3>3, <3>6 DEF RawsOf
  <2> QED BY <2>1, <2>2 DEF Fetched
<1>8. \/ k > fetch.source
      \/ k = fetch.source /\ \E b \in DOMAIN fetch.todo :
           AsksFor(s, fetch.todo[b], x) /\ (b = 1 => fetch.cursor <= n)
      \/ Fetched(s, n, x)
  BY <1>1 DEF PendingOK
<1>9. CASE k > fetch.source BY <1>4, <1>9
<1>10. CASE Fetched(s, n, x) BY <1>6, <1>10
<1>11. ASSUME k = fetch.source, NEW b \in DOMAIN fetch.todo,
              AsksFor(s, fetch.todo[b], x), b = 1 => fetch.cursor <= n
       PROVE  \/ \E c \in DOMAIN todo : AsksFor(s, todo[c], x) /\ (c = 1 => cursor <= n)
              \/ Fetched(s, n, x)'
  <2>1. CASE b = 1 /\ n <= last BY <1>7, <1>11, <2>1
  <2>2. CASE last = fetch.to /\ b # 1
    <3>1. b - 1 \in DOMAIN todo /\ todo[b - 1] = fetch.todo[b] /\ cursor <= n
      BY <1>1, <1>2, <1>3, <2>2, TailFact DEF AllFit
    <3> QED BY <1>11, <3>1
  <2>3. CASE last # fetch.to /\ (b = 1 => ~(n <= last))
    <3>1. todo = fetch.todo /\ cursor = last + 1 BY <1>3, <2>3
    <3>2. b = 1 => cursor <= n BY <1>2, <2>3, <3>1, NumbersFact
    <3> QED BY <1>11, <3>1, <3>2
  <2>4. last = fetch.to => n <= last OBVIOUS
  <2> QED BY <2>1, <2>2, <2>3, <2>4
<1> QED BY <1>4, <1>8, <1>9, <1>10, <1>11

(* A source whose turn has come has its rows asked for.                     *)
LEMMA PlanPends ==
  ASSUME CursorsOK, FetchOK', LiveOK', ChildrenOK, ScanOK, live' = live, scanned' = scanned, app' = app,
         fetch' # NoFetch, NEW s \in ToSet(Sources), fetch'.todo = BodiesOf(app, children, s),
         fetch'.cursor = fetch'.from,
         NEW n \in Numbers, fetch'.from <= n, n <= fetch'.to, NEW x \in WantedOf(s, n)
  PROVE  \E b \in DOMAIN fetch'.todo :
           AsksFor(s, fetch'.todo[b], x) /\ (b = 1 => fetch'.cursor <= n)
PROOF
<1>1. live = NotLive /\ (FactoriesOf(app) # {} => n <= scanned)
  <2>1. FactoriesOf(app) # {} => scanned >= fetch'.to BY DEF FetchOK, DiscoveryReady
  <2>2. fetch'.to \in Nat /\ scanned \in Int /\ n \in Int BY NumbersFact DEF FetchOK, CursorsOK
  <2>3. live = NotLive BY DEF LiveOK
  <2> QED BY <2>1, <2>2, <2>3
<1>2. \E b \in DOMAIN BodiesOf(app, children, s) : AsksFor(s, BodiesOf(app, children, s)[b], x)
  BY <1>1, PlannedFact DEF CursorsOK
<1> QED BY <1>2

(* PendingOK is inductive: a row leaves what is pending only by being       *)
(* fetched.                                                                 *)
LEMMA PendingStep ==
  ASSUME CursorsOK, FetchOK, ChildrenOK, ScanOK, LiveOK, DataOK, BodiesOK, PendingOK, Next,
         FetchOK', LiveOK'
  PROVE  PendingOK'
PROOF
<1>1. app' = app /\ dataset' = dataset BY FixedStep
<1>2. \A s, n : WantedOf(s, n)' = WantedOf(s, n) BY <1>1, StableWanted
<1> DEFINE Pends(k, n, x) ==
             \/ k > fetch.source
             \/ k = fetch.source /\ \E b \in DOMAIN fetch.todo :
                  AsksFor(Sources[k], fetch.todo[b], x) /\ (b = 1 => fetch.cursor <= n)
             \/ Fetched(Sources[k], n, x)
<1> SUFFICES ASSUME Streaming',
                    NEW k \in 1..4, NEW n \in Numbers, fetch'.from <= n, n <= fetch'.to, dataset.start <= n,
                    NEW x \in WantedOf(Sources[k], n)
             PROVE  \/ k > fetch'.source
                    \/ k = fetch'.source /\ \E b \in DOMAIN fetch'.todo :
                         AsksFor(Sources[k], fetch'.todo[b], x) /\ (b = 1 => fetch'.cursor <= n)
                    \/ Fetched(Sources[k], n, x)'
  BY <1>1, <1>2 DEF PendingOK
<1>3. fetch' # NoFetch /\ fetch'.failed = Undefined BY DEF Streaming
<1>4. Streaming => /\ IsRange(fetch) /\ fetch.source \in 1..4 /\ fetch.cursor \in Nat
                   /\ fetch.from \in Nat /\ fetch.to \in Nat /\ fetch # NoFetch
  BY NumbersFact DEF Streaming, FetchOK, CursorsOK
<1>5. Undefined # "stream" /\ Undefined # "gap" BY ChainAssumption
<1>6. Sources[k] \in ToSet(Sources) BY SourcesFact
<1>7. ~Evict BY <1>3 DEF Evict
<1>8. Fetched(Sources[k], n, x) => Fetched(Sources[k], n, x)' BY <1>6, <1>7, FetchedGrows
<1>9. ASSUME Streaming, fetch'.from = fetch.from, fetch'.to = fetch.to PROVE Pends(k, n, x)
  BY <1>9 DEF PendingOK
<1>10. ASSUME NEW to \in Numbers, StartFetch(to)
       PROVE  k > fetch'.source \/ (k = fetch'.source /\ \E b \in DOMAIN fetch'.todo :
                AsksFor(Sources[k], fetch'.todo[b], x) /\ (b = 1 => fetch'.cursor <= n))
  <2>1. BackfillStart(app) <= covered /\ covered \in Nat /\ BackfillStart(app) \in Nat
    BY RangeFact DEF CursorsOK
  <2>2. PICK todo, failed :
           /\ fetch' = [from |-> covered, to |-> to, source |-> 1, todo |-> todo, cursor |-> covered,
                        dropped |-> {}, missing |-> {}, matched |-> {}, failed |-> failed]
           /\ todo = BodiesOf(app, children, "log")
    BY <1>10, <2>1, StartStep
  <2>3. fetch'.todo = todo /\ fetch'.source = 1 /\ fetch'.cursor = covered /\ fetch'.from = covered
    BY <2>2
  <2>4. live' = live /\ scanned' = scanned BY <1>10 DEF StartFetch, discoveryVars
  <2>5. CASE k = 1
    <3>1. Sources[k] = "log" BY <2>5 DEF Sources
    <3> QED BY <1>1, <1>3, <1>6, <2>2, <2>3, <2>4, <2>5, <3>1, PlanPends
  <2> QED BY <2>3, <2>5
<1>11. ASSUME NextSource
       PROVE  \/ k > fetch'.source
              \/ k = fetch'.source /\ \E b \in DOMAIN fetch'.todo :
                   AsksFor(Sources[k], fetch'.todo[b], x) /\ (b = 1 => fetch'.cursor <= n)
              \/ Fetched(Sources[k], n, x)'
  <2>1. Streaming /\ fetch.todo = <<>> BY <1>11 DEF NextSource
  <2>2. PICK todo, failed :
        /\ fetch' = [from |-> fetch.from, to |-> fetch.to, source |-> fetch.source + 1,
                todo |-> todo, cursor |-> fetch.from,
                dropped |-> {}, missing |-> fetch.missing, matched |-> fetch.matched,
                failed |-> failed]
        /\ todo = BodiesOf(app, children, Sources[fetch.source + 1])
    BY <1>4, <1>11, <2>1, NextSourceStep
  <2>3. /\ fetch'.todo = todo /\ fetch'.source = fetch.source + 1 /\ fetch'.cursor = fetch.from
        /\ fetch'.from = fetch.from /\ fetch'.to = fetch.to
    BY <2>2
  <2>4. live' = live /\ scanned' = scanned BY <1>11 DEF NextSource, OnlyFetch, discoveryVars
  <2>5. CASE k = fetch.source + 1
    BY <1>1, <1>3, <1>6, <2>2, <2>3, <2>4, <2>5, PlanPends
  <2>6. CASE k > fetch.source + 1 BY <2>3, <2>6
  <2>7. CASE k <= fetch.source
    <3>1. DOMAIN fetch.todo = {} BY <2>1
    <3>2. Pends(k, n, x) BY <1>9, <2>1, <2>3
    <3>3. Fetched(Sources[k], n, x) BY <3>1, <3>2, <2>7, <1>4, <2>1
    <3> QED BY <3>3, <1>8
  <2> QED BY <2>5, <2>6, <2>7, <1>4, <2>1
<1>12. ASSUME NEW last \in fetch.cursor..fetch.to, Serve(last)
       PROVE  \/ k > fetch'.source
              \/ k = fetch'.source /\ \E b \in DOMAIN fetch'.todo :
                   AsksFor(Sources[k], fetch'.todo[b], x) /\ (b = 1 => fetch'.cursor <= n)
              \/ Fetched(Sources[k], n, x)'
  <2>1. fetch'.from = fetch.from /\ fetch'.to = fetch.to BY <1>12, ServeRange
  <2> QED BY <1>12, <2>1, ServePends
<1>13. ASSUME Streaming, fetch'.from = fetch.from, fetch'.to = fetch.to, fetch'.source = fetch.source,
              fetch'.todo = fetch.todo, fetch'.cursor = fetch.cursor
       PROVE  \/ k > fetch'.source
              \/ k = fetch'.source /\ \E b \in DOMAIN fetch'.todo :
                   AsksFor(Sources[k], fetch'.todo[b], x) /\ (b = 1 => fetch'.cursor <= n)
              \/ Fetched(Sources[k], n, x)'
  BY <1>8, <1>9, <1>13
<1>14. ASSUME NEW field, DropField(field)
       PROVE  Streaming /\ fetch'.from = fetch.from /\ fetch'.to = fetch.to
              /\ fetch'.source = fetch.source /\ fetch'.todo = fetch.todo /\ fetch'.cursor = fetch.cursor
  <2>1. Streaming BY <1>14 DEF DropField, AtStream
  <2> QED BY <1>4, <1>14, <2>1, DropStep
<1>15. ASSUME SkipToStart
       PROVE  \/ k > fetch'.source
              \/ k = fetch'.source /\ \E b \in DOMAIN fetch'.todo :
                   AsksFor(Sources[k], fetch'.todo[b], x) /\ (b = 1 => fetch'.cursor <= n)
              \/ Fetched(Sources[k], n, x)'
  <2>1. Streaming /\ fetch.todo # <<>> /\ fetch.cursor < dataset.start
    BY <1>15 DEF SkipToStart, AtStream
  <2>2. PICK todo, cursor, dropped :
        /\ fetch' = [from |-> fetch.from, to |-> fetch.to, source |-> fetch.source,
                todo |-> todo, cursor |-> cursor, dropped |-> dropped, missing |-> fetch.missing,
                matched |-> fetch.matched, failed |-> fetch.failed]
        /\ dataset.start <= fetch.to => todo = fetch.todo /\ cursor = dataset.start
    <3>1. dataset.start \in Nat BY DataPathAssumption, NumbersFact DEF CursorsOK
    <3>2. ~(dataset.start > fetch.to /\ dataset.start <= fetch.to) BY <3>1, <1>4, <2>1
    <3> QED BY <1>4, <1>15, <2>1, <3>1, <3>2, SkipStep
  <2>3. /\ fetch'.todo = todo /\ fetch'.source = fetch.source /\ fetch'.cursor = cursor
        /\ fetch'.from = fetch.from /\ fetch'.to = fetch.to
    BY <2>2
  <2>4. dataset.start <= fetch.to
    <3>1. dataset.start \in Nat BY DataPathAssumption, NumbersFact DEF CursorsOK
    <3> QED BY <3>1, <1>4, <2>1, <2>3, NumbersFact
  <2>5. Pends(k, n, x) BY <1>9, <2>1, <2>3
  <2> QED BY <1>8, <2>2, <2>3, <2>4, <2>5
<1>16. ASSUME NEW why, fetch' = [fetch EXCEPT !.failed = why], Streaming, why # Undefined PROVE FALSE
  <2>1. fetch'.failed = why BY <1>4, <1>16, FailStep
  <2> QED BY <1>3, <1>16, <2>1
<1>17. ~StreamThrows BY <1>5, <1>16 DEF StreamThrows, AtStream
<1>18. ~Finish BY <1>3, <1>5, <1>16 DEF Finish
<1>19. CASE fetch' = fetch
  <2>1. Streaming BY <1>3, <1>19 DEF Streaming
  <2> QED BY <2>1, <1>13, <1>19
<1>20. \/ \E to \in Numbers : StartFetch(to)
       \/ \E last \in fetch.cursor..fetch.to : Serve(last)
       \/ NextSource \/ SkipToStart \/ (\E field : DropField(field)) \/ fetch' = fetch
  BY <1>7, <1>17, <1>18 DEF Next, Discover, Assemble, GoLive, DiscoverLive, chunkVars
<1> QED BY <1>10, <1>11, <1>12, <1>13, <1>14, <1>15, <1>19, <1>20

(* RawOK is inductive.                                                      *)
LEMMA RawStep ==
  ASSUME CursorsOK, FetchOK, DataOK, RawOK, Next
  PROVE  RawOK'
PROOF
<1>1. \A n : BlockKept(app, n)' <=> BlockKept(app, n) BY FixedStep, StableWanted
<1>2. ASSUME NEW last \in fetch.cursor..fetch.to, Serve(last) PROVE RawOK'
  <2> DEFINE source == Sources[fetch.source]
             Raw(n) == Served(source, fetch.todo[1], n)
  <2>1. /\ source \in ToSet(Sources)
        /\ \A s \in ToSet(Sources), n \in Numbers :
             \/ RawsOf(s, n)' = RawsOf(s, n)
             \/ s = source /\ Buffered(source, Raw(n)) /\ RawsOf(s, n)' = RawsOf(s, n) \cup {Raw(n)}
    BY <1>2, ServeData
  <2>2. ASSUME NEW s \in ToSet(Sources), NEW n \in Numbers, NEW raw \in RawsOf(s, n)'
        PROVE  /\ s = "log" => \A l \in raw.logs : \E tx \in raw.txs : tx.hash = l.tx
               /\ s = "trace" => raw.txs = Chain[n].txs
               /\ s = "block" => BlockKept(app, n)
    <3>1. CASE raw \in RawsOf(s, n) BY <3>1 DEF RawOK
    <3>2. CASE raw \notin RawsOf(s, n)
      <4> HIDE DEF source, Raw
      <4>1. s = source /\ Buffered(source, Raw(n)) /\ raw = Raw(n) BY <2>1, <2>2, <3>2
      <4> QED BY <4>1, RawServed DEF Raw
    <3> QED BY <3>1, <3>2
  <2> QED BY <1>1, <2>2 DEF RawOK
<1>3. CASE Evict
  <2>1. data' = NoData BY <1>3 DEF Evict
  <2>2. \A s \in ToSet(Sources), n \in Numbers : RawsOf(s, n)' = {}
    BY <2>1 DEF RawsOf, NoData, ToSet
  <2> QED BY <2>2 DEF RawOK
<1>4. CASE data' = data
  <2>1. \A s, n : RawsOf(s, n)' = RawsOf(s, n) BY <1>4 DEF RawsOf
  <2> QED BY <1>1, <2>1 DEF RawOK
<1> QED BY StepKinds, <1>2, <1>3, <1>4
  DEF Discover, StartFetch, RangeMoves, OnlyFetch, Finish, Assemble, GoLive, DiscoverLive, chunkVars

(* CompleteOK is inductive: a range resolves when nothing of it is pending. *)
LEMMA CompleteStep ==
  ASSUME CursorsOK, FetchOK, DataOK, PendingOK, CompleteOK, Next
  PROVE  CompleteOK'
PROOF
<1>1. app' = app /\ dataset' = dataset BY FixedStep
<1>2. \A s, n : WantedOf(s, n)' = WantedOf(s, n) BY <1>1, StableWanted
<1>3. CASE Evict
  <2>1. covered' = done' /\ done' = done /\ done \in Nat BY <1>3 DEF Evict, CursorsOK
  <2>2. \A n \in Numbers : ~(done' <= n /\ n < covered') BY <2>1, NumbersFact
  <2> QED BY <2>2 DEF CompleteOK
<1>4. ASSUME ~Evict, done' \in Int, done' >= done, covered' = covered PROVE CompleteOK'
  <2>1. \A s \in ToSet(Sources), n \in Numbers : \A x : Fetched(s, n, x) => Fetched(s, n, x)'
    BY <1>4, FetchedGrows
  <2>2. \A n \in Numbers : done' <= n /\ n < covered' => done <= n /\ n < covered
    BY <1>4, NumbersFact DEF CursorsOK
  <2> QED BY <1>1, <1>2, <2>1, <2>2 DEF CompleteOK
<1>5. CASE Finish /\ ~IsGap(fetch)
  <2>1. /\ fetch # NoFetch /\ covered' = fetch.to + 1 /\ covered <= fetch.to
        /\ fetch.to \in Numbers /\ data' = data /\ done' = done
    BY <1>5, ResolveFact
  <2>2. Streaming /\ fetch.todo = <<>> /\ fetch.source = 4 BY <1>5, SourcesFact DEF Finish
  <2>3. \A s, n, x : Fetched(s, n, x)' <=> Fetched(s, n, x) BY <2>1 DEF Fetched, RawsOf
  <2>4. ASSUME NEW s \in ToSet(Sources), NEW n \in Numbers, done <= n, n < covered', dataset.start <= n,
               NEW x \in WantedOf(s, n)
        PROVE  Fetched(s, n, x)
    <3>1. CASE n < covered BY <2>4, <3>1 DEF CompleteOK
    <3>2. CASE covered <= n
      <4>1. fetch.from <= n /\ n <= fetch.to
        BY <2>1, <2>4, <3>2, NumbersFact DEF FetchOK
      <4>2. PICK k \in 1..4 : s = Sources[k]
        BY SourcesFact DEF Sources
      <4>3. DOMAIN fetch.todo = {} BY <2>2
      <4> QED BY <2>2, <2>4, <4>1, <4>2, <4>3 DEF PendingOK
    <3> QED BY <3>1, <3>2, NumbersFact DEF CursorsOK
  <2> QED BY <1>1, <1>2, <2>1, <2>3, <2>4 DEF CompleteOK
<1>6. done \in Int /\ done >= done BY DEF CursorsOK
<1>7. ASSUME NEW hi \in Numbers, Assemble(hi) PROVE ~Evict => CompleteOK'
  <2>1. covered' = covered /\ done' = hi + 1 /\ done <= hi BY <1>7 DEF Assemble, chunkVars
  <2> QED BY <2>1, <1>4, <1>6, NumbersFact
<1>8. CASE ~Evict /\ UNCHANGED <<done, covered>> BY <1>4, <1>6, <1>8
<1> QED BY StepKinds, <1>3, <1>5, <1>7, <1>8
  DEF Discover, StartFetch, RangeMoves, OnlyFetch, Serve, Finish, GoLive, DiscoverLive, chunkVars

-----------------------------------------------------------------------------
(* An interval.                                                            *)
(* StoredExact of one block and any rows.                                       *)
ExactAt(rows, n) ==
  /\ {l.log : l \in {x \in rows.logs : x.number = n}} = WantedLogs(n)
  /\ {<<t.tx, t.path>> : t \in {x \in rows.traces : x.number = n}}
       = {<<t.tx, t.path>> : t \in WantedTraces(n)}
  /\ RowsAt(rows.txs, n) = Parents(n)
  /\ n \in DOMAIN rows.blocks <=> Parents(n) # {} \/ BlockKept(app, n)
  /\ ReceiptsRead(n) \subseteq RowsAt(rows.receipts, n)
  /\ RowsAt(rows.receipts, n) \subseteq RowsAt(rows.txs, n)

(* Rows put together have the keys of both.                                 *)
LEMMA KeepFirstKeys ==
  ASSUME NEW rows, NEW more
  PROVE  DOMAIN KeepFirst(rows, more) = DOMAIN rows \cup DOMAIN more
BY DEF KeepFirst

(* And at each block the rows of both.                                      *)
LEMMA KeepFirstAt ==
  ASSUME NEW rows, NEW more, NEW n
  PROVE  RowsAt(KeepFirst(rows, more), n) = RowsAt(rows, n) \cup RowsAt(more, n)
BY KeepFirstKeys DEF RowsAt

(* Ranking drops no trace.                                                  *)
LEMMA RankedAll ==
  ASSUME NEW traces, NEW t \in traces
  PROVE  \E r \in RankTraces(traces) : r.trace = t
PROOF
<1> DEFINE order == TreeOrder(traces)  errors == TreeErrors(traces)
           Index(u) == (CHOOSE i \in DOMAIN order : order[i] = u) - 1
           Error(u) == IF u.path \in DOMAIN errors THEN errors[u.path] ELSE Undefined
           R(u) == [trace |-> u, index |-> Index(u), error |-> Error(u)]
<1>1. RankTraces(traces) = {R(u) : u \in traces} BY DEF RankTraces
<1> HIDE DEF Index, Error
<1>2. R(t).trace = t OBVIOUS
<1> HIDE DEF R
<1> QED BY <1>1, <1>2

(* Every trace of a tree is ranked, and keeps its place in it.                    *)
LEMMA BuiltExact ==
  ASSUME NEW kids, NEW raw
  PROVE  {<<r.tx, r.path>> : r \in BuildTraces(app, kids, raw)}
           = {<<t.tx, t.path>> : t \in {u \in raw.traces : TraceKept(app, kids, u, raw.number)}}
PROOF
<1> DEFINE Tree(tx) == {t \in raw.traces : t.tx = tx}
           ranked == UNION {RankTraces(Tree(t.tx)) : t \in {u \in raw.traces : ~IsReward(u)}}
           kept == {u \in raw.traces : TraceKept(app, kids, u, raw.number)}
           rows == BuildTraces(app, kids, raw)
<1>1. rows = {TraceRow(raw, x) : x \in {y \in ranked : TraceKept(app, kids, y.trace, raw.number)}}
  BY DEF BuildTraces
<1>2. \A x : TraceRow(raw, x).tx = x.trace.tx /\ TraceRow(raw, x).path = x.trace.path
  BY DEF TraceRow
<1>3. \A x \in ranked : x.trace \in raw.traces BY RankedFact
<1>4. ASSUME NEW t \in kept PROVE \E x \in ranked : x.trace = t
  <2>1. ~IsReward(t) /\ t \in Tree(t.tx) BY <1>4 DEF TraceKept
  <2>2. \E x \in RankTraces(Tree(t.tx)) : x.trace = t BY <2>1, RankedAll
  <2> QED BY <2>1, <2>2
<1> HIDE DEF rows, ranked
<1>5. ASSUME NEW r \in rows PROVE \E t \in kept : r.tx = t.tx /\ r.path = t.path
  BY <1>1, <1>2, <1>3
<1>6. ASSUME NEW t \in kept PROVE \E r \in rows : r.tx = t.tx /\ r.path = t.path
  BY <1>1, <1>2, <1>4
<1> HIDE DEF kept
<1> QED BY <1>5, <1>6 DEF rows, kept

(* What an interval is assembled from: in the raw blocks of block n, the wanted     *)
(* rows and no others count.                                                  *)
LEMMA RawsExact ==
  ASSUME CursorsOK, ChildrenOK, ScanOK, DataOK, LiveOK, RawOK, CompleteOK,
         NEW n \in Numbers, done <= n, n < covered, dataset.start <= n
  PROVE  /\ \A x : x \in WantedLogs(n) <=>
              \E raw \in RawsOf("log", n) : x \in raw.logs /\ LogKept(app, children, x, n)
         /\ \A x : x \in WantedTraces(n) <=>
              \E raw \in RawsOf("trace", n) : x \in raw.traces /\ TraceKept(app, children, x, n)
         /\ \A x : x \in WantedTxs(n) <=>
              \E raw \in RawsOf("tx", n) : x \in raw.txs /\ TxKept(app, children, x, n)
         /\ BlockKept(app, n) <=> RawsOf("block", n) # {}
         /\ \A x \in WantedLogs(n) : \E raw \in RawsOf("log", n) : Carries(raw, x.tx)
         /\ \A x \in WantedTraces(n) : \E raw \in RawsOf("trace", n) : Carries(raw, x.tx)
         /\ \A x \in WantedTxs(n) : \E raw \in RawsOf("tx", n) : Carries(raw, x.hash)
PROOF
<1>1. live = NotLive /\ scanned \in Int /\ (FactoriesOf(app) # {} => n <= scanned)
  <2>1. done < covered /\ scanned \in Int BY NumbersFact DEF CursorsOK
  <2> QED BY <2>1, NumbersFact DEF CursorsOK, LiveOK
<1>2. /\ \A l : LogKept(app, children, l, n) <=> LogKept(app, Everyone, l, n)
      /\ \A t : TxKept(app, children, t, n) <=> TxKept(app, Everyone, t, n)
      /\ \A t : TraceKept(app, children, t, n) <=> TraceKept(app, Everyone, t, n)
  BY <1>1, KeptExact DEF CursorsOK
<1>3. {"log", "trace", "block", "tx"} = ToSet(Sources) BY SourcesFact
<1>4. ASSUME NEW s \in ToSet(Sources), NEW raw \in RawsOf(s, n) PROVE raw \in RawAt(n)
  <2>1. data[s][n] \in Seq(RawAt(n)) BY DEF DataOK
  <2>2. DOMAIN data[s][n] = 1..Len(data[s][n])
        /\ \A i \in 1..Len(data[s][n]) : data[s][n][i] \in RawAt(n)
    BY <2>1, LenProperties, ElementOfSeq
  <2> QED BY <2>2 DEF RawsOf, ToSet
<1>5. ASSUME NEW s \in ToSet(Sources), NEW raw \in RawsOf(s, n)
      PROVE  /\ raw.number = n /\ raw.logs \subseteq Chain[n].logs
             /\ raw.traces \subseteq Chain[n].traces /\ raw.txs \subseteq Chain[n].txs
  BY <1>4 DEF RawAt
<1>6. \A s \in ToSet(Sources) : \A x \in WantedOf(s, n) : \E raw \in RawsOf(s, n) : x \in RowsOf(s, raw)
  BY DEF CompleteOK, Fetched
<1>7. \A x : x \in WantedLogs(n) <=>
        \E raw \in RawsOf("log", n) : x \in raw.logs /\ LogKept(app, children, x, n)
  <2>1. \A x \in WantedLogs(n) : \E raw \in RawsOf("log", n) : x \in raw.logs
    BY <1>3, <1>6 DEF WantedOf, RowsOf
  <2> QED BY <1>2, <1>3, <1>5, <2>1 DEF WantedLogs
<1>8. \A x : x \in WantedTraces(n) <=>
        \E raw \in RawsOf("trace", n) : x \in raw.traces /\ TraceKept(app, children, x, n)
  <2>1. \A x \in WantedTraces(n) : \E raw \in RawsOf("trace", n) : x \in raw.traces
    BY <1>3, <1>6 DEF WantedOf, RowsOf
  <2> QED BY <1>2, <1>3, <1>5, <2>1 DEF WantedTraces
<1>9. \A x : x \in WantedTxs(n) <=>
        \E raw \in RawsOf("tx", n) : x \in raw.txs /\ TxKept(app, children, x, n)
  <2>1. \A x \in WantedTxs(n) : \E raw \in RawsOf("tx", n) : x \in raw.txs
    BY <1>3, <1>6 DEF WantedOf, RowsOf
  <2> QED BY <1>2, <1>3, <1>5, <2>1 DEF WantedTxs
<1>10. BlockKept(app, n) <=> RawsOf("block", n) # {}
  <2>1. ASSUME BlockKept(app, n) PROVE RawsOf("block", n) # {}
    <3>1. n \in WantedOf("block", n) BY <2>1 DEF WantedOf
    <3> QED BY <3>1, <1>3, <1>6
  <2>2. ASSUME NEW raw \in RawsOf("block", n) PROVE BlockKept(app, n)
    BY <1>3 DEF RawOK
  <2> QED BY <2>1, <2>2
<1>11. \A x \in WantedLogs(n) : \E raw \in RawsOf("log", n) : Carries(raw, x.tx)
  <2>1. \A raw \in RawsOf("log", n) : \A x \in raw.logs : Carries(raw, x.tx)
    BY <1>3 DEF RawOK, Carries
  <2> QED BY <1>7, <2>1
<1>12. \A x \in WantedTraces(n) : \E raw \in RawsOf("trace", n) : Carries(raw, x.tx)
  <2>1. \A x \in WantedTraces(n) : \E tx \in Chain[n].txs : tx.hash = x.tx
    BY ChainAssumption DEF WantedTraces, TraceKept
  <2>2. \A raw \in RawsOf("trace", n) : raw.txs = Chain[n].txs BY <1>3 DEF RawOK
  <2> QED BY <1>8, <2>1, <2>2 DEF Carries
<1>13. \A x \in WantedTxs(n) : \E raw \in RawsOf("tx", n) : Carries(raw, x.hash)
  BY <1>9 DEF Carries
<1> QED BY <1>7, <1>8, <1>9, <1>10, <1>11, <1>12, <1>13

Assembled(rows, lo, hi) == rows = AssembleRange(app, children, data, lo, hi)

(* The rows of the transactions that came with a source are those its kept rows      *)
(* point to.                                                                 *)
LEMMA TxRowsExact ==
  ASSUME CursorsOK, DataOK, NEW s \in ToSet(Sources), NEW n \in Numbers, NEW wanted, NEW W,
         \A h : <<n, h>> \in wanted <=> h \in W,
         \A key \in wanted : key = <<key[1], key[2]>>,
         \A h \in W : \E raw \in RawsOf(s, n) : Carries(raw, h)
  PROVE  /\ RowsAt(TxRows(data[s], wanted), n) = W
         /\ \A h \in W : <<n, h>> \in DOMAIN TxRows(data[s], wanted)
PROOF
<1> DEFINE rows == TxRows(data[s], wanted)
<1>1. \A k \in DOMAIN rows : k \in wanted BY DEF TxRows
<1>2. ASSUME NEW h \in W PROVE <<n, h>> \in DOMAIN rows
  <2>1. PICK raw \in RawsOf(s, n) : Carries(raw, h) OBVIOUS
  <2>2. \E i \in DOMAIN data[s][n] : Carries(data[s][n][i], h) BY <2>1 DEF RawsOf, ToSet
  <2>3. <<n, h>> \in wanted /\ <<n, h>>[1] = n /\ <<n, h>>[2] = h OBVIOUS
  <2> QED BY <2>2, <2>3 DEF TxRows
<1> HIDE DEF rows
<1>3. ASSUME NEW key \in DOMAIN rows, key[1] = n PROVE key[2] \in W
  BY <1>1, <1>3
<1>4. ASSUME NEW h \in W PROVE <<n, h>>[1] = n /\ <<n, h>>[2] = h OBVIOUS
<1>5. RowsAt(rows, n) = W BY <1>2, <1>3, <1>4 DEF RowsAt
<1> QED BY <1>2, <1>5 DEF rows

(* Three put together at a block; below, four at a key.                     *)
LEMMA KeepThree ==
  ASSUME NEW a, NEW b, NEW c, NEW n
  PROVE  RowsAt(KeepFirst(a, KeepFirst(b, c)), n) = RowsAt(a, n) \cup (RowsAt(b, n) \cup RowsAt(c, n))
PROOF
<1>1. RowsAt(KeepFirst(b, c), n) = RowsAt(b, n) \cup RowsAt(c, n) BY KeepFirstAt
<1> DEFINE d == KeepFirst(b, c)
<1> HIDE DEF d
<1>2. RowsAt(KeepFirst(a, d), n) = RowsAt(a, n) \cup RowsAt(d, n) BY KeepFirstAt
<1> QED BY <1>1, <1>2 DEF d

LEMMA KeepFour ==
  ASSUME NEW a, NEW b, NEW c, NEW d, NEW kept, kept = KeepFirst(a, KeepFirst(b, KeepFirst(c, d))), NEW m
  PROVE  m \in DOMAIN kept <=> m \in DOMAIN a \/ m \in DOMAIN b \/ m \in DOMAIN c \/ m \in DOMAIN d
PROOF
<1> DEFINE e == KeepFirst(c, d)
           f == KeepFirst(b, e)
<1>1. DOMAIN e = DOMAIN c \cup DOMAIN d BY KeepFirstKeys
<1> HIDE DEF e
<1>2. DOMAIN f = DOMAIN b \cup DOMAIN e BY KeepFirstKeys
<1> HIDE DEF f
<1>3. DOMAIN KeepFirst(a, f) = DOMAIN a \cup DOMAIN f BY KeepFirstKeys
<1>4. kept = KeepFirst(a, f) BY DEF e, f
<1> QED BY <1>1, <1>2, <1>3, <1>4

(* The rows assembled of a complete chunk are exact at each block.          *)
LEMMA AssembledExact ==
  ASSUME CursorsOK, ChildrenOK, ScanOK, DataOK, LiveOK, RawOK, CompleteOK,
         NEW hi \in Numbers, hi < covered, NEW rows, Assembled(rows, done, hi),
         NEW n \in Numbers, done <= n, n <= hi, dataset.start <= n
  PROVE  ExactAt(rows, n)
PROOF
<1> DEFINE Raws(source) == UNION {ToSet(data[source][m]) : m \in done..hi}
           KeptLogs(raw) == {l \in raw.logs : LogKept(app, children, l, raw.number)}
           KeptTxs(raw) == {t \in raw.txs : TxKept(app, children, t, raw.number)}
           LogRow(raw, l) == [number |-> raw.number, log |-> l, has |-> raw.has]
           logs == UNION {{LogRow(raw, l) : l \in KeptLogs(raw)} : raw \in Raws("log")}
           traces == UNION {BuildTraces(app, children, raw) : raw \in Raws("trace")}
           wantedLog == {<<l.number, l.log.tx>> : l \in logs}
           wantedTx == UNION {{<<raw.number, t.hash>> : t \in KeptTxs(raw)} : raw \in Raws("tx")}
           wantedTrace == {<<r.number, r.tx>> : r \in traces}
           logTxs == TxRows(data["log"], wantedLog)
           filterTxs == TxRows(data["tx"], wantedTx)
           traceTxs == TxRows(data["trace"], wantedTrace)
           unseen == DOMAIN filterTxs \ DOMAIN logTxs
           logBlocks == [m \in {l.number : l \in logs} |-> LastHeader(data["log"][m])]
           dueBlocks == [m \in {raw.number : raw \in Raws("block")} |-> LastHeader(data["block"][m])]
           txBlocks == [m \in {key[1] : key \in unseen} |-> FirstHeader(data["tx"][m])]
           traceBlocks == [m \in {r.number : r \in traces} |-> FirstHeader(data["trace"][m])]
           NoTxs == TxRows(data["log"], {})
           due == IF NeedReceipts(app) THEN logTxs ELSE NoTxs
           dueTraces == IF NeedTraceReceipts(app) THEN traceTxs ELSE NoTxs
<1>1. rows =
        [logs |-> logs, traces |-> traces,
         blocks |-> KeepFirst(traceBlocks, KeepFirst(txBlocks, KeepFirst(logBlocks, dueBlocks))),
         txs |-> KeepFirst(traceTxs, KeepFirst(logTxs, filterTxs)),
         receipts |-> KeepFirst(due, KeepFirst(filterTxs, dueTraces))]
  BY DEF Assembled, AssembleRange
<1>2. {"log", "trace", "block", "tx"} = ToSet(Sources) BY SourcesFact
<1>3. done..hi \subseteq Numbers /\ n \in done..hi /\ n < covered
  BY NumbersFact DEF CursorsOK
<1>4. ASSUME NEW s \in ToSet(Sources), NEW m \in done..hi, NEW raw \in ToSet(data[s][m])
      PROVE  raw.number = m
  <2>1. data[s][m] \in Seq(RawAt(m)) BY <1>3 DEF DataOK
  <2>2. DOMAIN data[s][m] = 1..Len(data[s][m])
        /\ \A i \in 1..Len(data[s][m]) : data[s][m][i] \in RawAt(m)
    BY <2>1, LenProperties, ElementOfSeq
  <2>3. raw \in RawAt(m) BY <2>2, <1>4 DEF ToSet
  <2> QED BY <2>3 DEF RawAt
<1>5. ASSUME NEW s \in ToSet(Sources), NEW raw
      PROVE  raw \in Raws(s) /\ raw.number = n <=> raw \in RawsOf(s, n)
  <2>1. RawsOf(s, n) = ToSet(data[s][n]) BY DEF RawsOf
  <2> QED BY <2>1, <1>3, <1>4
<1>6. /\ \A x : x \in WantedLogs(n) <=>
           \E raw \in RawsOf("log", n) : x \in raw.logs /\ LogKept(app, children, x, n)
      /\ \A x : x \in WantedTraces(n) <=>
           \E raw \in RawsOf("trace", n) : x \in raw.traces /\ TraceKept(app, children, x, n)
      /\ \A x : x \in WantedTxs(n) <=>
           \E raw \in RawsOf("tx", n) : x \in raw.txs /\ TxKept(app, children, x, n)
      /\ BlockKept(app, n) <=> RawsOf("block", n) # {}
      /\ \A x \in WantedLogs(n) : \E raw \in RawsOf("log", n) : Carries(raw, x.tx)
      /\ \A x \in WantedTraces(n) : \E raw \in RawsOf("trace", n) : Carries(raw, x.tx)
      /\ \A x \in WantedTxs(n) : \E raw \in RawsOf("tx", n) : Carries(raw, x.hash)
  BY <1>3, RawsExact
<1> HIDE DEF Raws
<1>7. \A l : l \in logs <=> \E raw \in Raws("log") : \E x \in KeptLogs(raw) : l = LogRow(raw, x)
  OBVIOUS
<1>8. \A raw, x : LogRow(raw, x).number = raw.number /\ LogRow(raw, x).log = x OBVIOUS
<1> HIDE DEF LogRow, logs
<1>9. \A x : x \in WantedLogs(n) <=> \E l \in logs : l.number = n /\ l.log = x
  <2>1. ASSUME NEW x \in WantedLogs(n) PROVE \E l \in logs : l.number = n /\ l.log = x
    <3>1. PICK raw \in RawsOf("log", n) : x \in raw.logs /\ LogKept(app, children, x, n)
      BY <1>6
    <3>2. raw \in Raws("log") /\ raw.number = n BY <1>2, <1>5, <3>1
    <3>3. x \in KeptLogs(raw) BY <3>1, <3>2
    <3>4. LogRow(raw, x) \in logs BY <1>7, <3>2, <3>3
    <3> QED BY <3>2, <3>4, <1>8
  <2>2. ASSUME NEW l \in logs, l.number = n PROVE l.log \in WantedLogs(n)
    <3>1. PICK raw \in Raws("log") : \E x \in KeptLogs(raw) : l = LogRow(raw, x) BY <1>7
    <3>2. PICK x \in KeptLogs(raw) : l = LogRow(raw, x) BY <3>1
    <3>3. raw.number = n /\ l.log = x BY <3>2, <2>2, <1>8
    <3>4. raw \in RawsOf("log", n) BY <1>2, <1>5, <3>3
    <3> QED BY <3>2, <3>3, <3>4, <1>6
  <2> QED BY <2>1, <2>2
<1>10. \A raw : {<<r.tx, r.path>> : r \in BuildTraces(app, children, raw)}
                = {<<t.tx, t.path>> : t \in {u \in raw.traces : TraceKept(app, children, u, raw.number)}}
  BY BuiltExact
<1>11. /\ \A r : r \in traces <=> \E raw \in Raws("trace") : r \in BuildTraces(app, children, raw)
       /\ \A raw : \A r \in BuildTraces(app, children, raw) : r.number = raw.number
  BY BuiltFact
<1> HIDE DEF traces
<1>12. \A tx, path :
         (\E t \in WantedTraces(n) : <<t.tx, t.path>> = <<tx, path>>)
           <=> (\E r \in traces : r.number = n /\ <<r.tx, r.path>> = <<tx, path>>)
  <2> SUFFICES ASSUME NEW tx, NEW path
               PROVE  (\E t \in WantedTraces(n) : <<t.tx, t.path>> = <<tx, path>>)
                       <=> (\E r \in traces : r.number = n /\ <<r.tx, r.path>> = <<tx, path>>)
    OBVIOUS
  <2> DEFINE p == <<tx, path>>
  <2>1. ASSUME NEW t \in WantedTraces(n), <<t.tx, t.path>> = p
        PROVE  \E r \in traces : r.number = n /\ <<r.tx, r.path>> = p
    <3>1. PICK raw \in RawsOf("trace", n) : t \in raw.traces /\ TraceKept(app, children, t, n)
      BY <1>6
    <3>2. raw \in Raws("trace") /\ raw.number = n BY <1>2, <1>5, <3>1
    <3> HIDE DEF p
    <3>3. p \in {<<u.tx, u.path>> : u \in {v \in raw.traces : TraceKept(app, children, v, raw.number)}}
      BY <2>1, <3>1, <3>2
    <3>4. PICK r \in BuildTraces(app, children, raw) : <<r.tx, r.path>> = p
      BY <1>10, <3>3
    <3> QED BY <3>2, <3>4, <1>11
  <2>2. ASSUME NEW r \in traces, r.number = n, <<r.tx, r.path>> = p
        PROVE  \E t \in WantedTraces(n) : <<t.tx, t.path>> = p
    <3>1. PICK raw \in Raws("trace") : r \in BuildTraces(app, children, raw) BY <1>11
    <3>2. raw.number = n BY <3>1, <2>2, <1>11
    <3>3. raw \in RawsOf("trace", n) BY <1>2, <1>5, <3>2
    <3> HIDE DEF p
    <3>4. p \in {<<u.tx, u.path>> : u \in {v \in raw.traces : TraceKept(app, children, v, raw.number)}}
      BY <1>10, <2>2, <3>1
    <3> QED BY <3>2, <3>3, <3>4, <1>6
  <2> QED BY <2>1, <2>2
<1>13. {l.log : l \in {x \in logs : x.number = n}} = WantedLogs(n) BY <1>9
<1>14. {<<t.tx, t.path>> : t \in {x \in traces : x.number = n}}
         = {<<t.tx, t.path>> : t \in WantedTraces(n)}
  BY <1>12
<1> DEFINE LogParents == {l.tx : l \in WantedLogs(n)}
           TraceParents == {t.tx : t \in WantedTraces(n)}
           Hashes == {t.hash : t \in WantedTxs(n)}
<1>15. \A key : key \in wantedTx <=> \E raw \in Raws("tx") : \E t \in KeptTxs(raw) : key = <<raw.number, t.hash>>
  OBVIOUS
<1>16. /\ \A h : <<n, h>> \in wantedLog <=> h \in LogParents
       /\ \A h : <<n, h>> \in wantedTrace <=> h \in TraceParents
       /\ \A h : <<n, h>> \in wantedTx <=> h \in Hashes
  <2>1. \A h : <<n, h>> \in wantedLog <=> h \in LogParents
    <3>1. \A h : <<n, h>> \in wantedLog <=> \E l \in logs : l.number = n /\ l.log.tx = h OBVIOUS
    <3>2. \A h : h \in LogParents <=> \E x \in WantedLogs(n) : x.tx = h OBVIOUS
    <3> QED BY <3>1, <3>2, <1>9
  <2>2. \A h : <<n, h>> \in wantedTrace <=> h \in TraceParents
    <3>1. \A h : <<n, h>> \in wantedTrace <=> \E r \in traces : r.number = n /\ r.tx = h OBVIOUS
    <3>2. \A h : h \in TraceParents <=> \E x \in WantedTraces(n) : x.tx = h OBVIOUS
    <3>3. ASSUME NEW r \in traces, r.number = n PROVE \E t \in WantedTraces(n) : t.tx = r.tx
      <4>1. \E t \in WantedTraces(n) : <<t.tx, t.path>> = <<r.tx, r.path>> BY <1>12, <3>3
      <4> QED BY <4>1
    <3>4. ASSUME NEW t \in WantedTraces(n) PROVE \E r \in traces : r.number = n /\ r.tx = t.tx
      <4>1. \E r \in traces : r.number = n /\ <<r.tx, r.path>> = <<t.tx, t.path>> BY <1>12
      <4> QED BY <4>1
    <3> QED BY <3>1, <3>2, <3>3, <3>4
  <2>3. \A h : <<n, h>> \in wantedTx <=> h \in Hashes
    <3>1. ASSUME NEW h, <<n, h>> \in wantedTx PROVE h \in Hashes
      <4>1. PICK raw \in Raws("tx") : \E t \in KeptTxs(raw) : <<n, h>> = <<raw.number, t.hash>>
        BY <3>1, <1>15
      <4>2. PICK t \in KeptTxs(raw) : <<n, h>> = <<raw.number, t.hash>> BY <4>1
      <4>3. raw.number = n /\ t.hash = h BY <4>2
      <4>4. raw \in RawsOf("tx", n) BY <1>2, <1>5, <4>3
      <4>5. t \in WantedTxs(n) BY <4>2, <4>3, <4>4, <1>6
      <4> QED BY <4>3, <4>5
    <3>2. ASSUME NEW t \in WantedTxs(n) PROVE <<n, t.hash>> \in wantedTx
      <4>1. PICK raw \in RawsOf("tx", n) : t \in raw.txs /\ TxKept(app, children, t, n) BY <1>6
      <4>2. raw \in Raws("tx") /\ raw.number = n BY <1>2, <1>5, <4>1
      <4>3. t \in KeptTxs(raw) BY <4>1, <4>2
      <4> QED BY <4>2, <4>3, <1>15
    <3> QED BY <3>1, <3>2
  <2> QED BY <2>1, <2>2, <2>3
<1>17. /\ \A key \in wantedLog : key = <<key[1], key[2]>>
       /\ \A key \in wantedTrace : key = <<key[1], key[2]>>
       /\ \A key \in wantedTx : key = <<key[1], key[2]>>
  OBVIOUS
<1>18. /\ \A h \in LogParents : \E raw \in RawsOf("log", n) : Carries(raw, h)
       /\ \A h \in TraceParents : \E raw \in RawsOf("trace", n) : Carries(raw, h)
       /\ \A h \in Hashes : \E raw \in RawsOf("tx", n) : Carries(raw, h)
  BY <1>6
<1>19. (\E l \in logs : l.number = n) <=> LogParents # {} BY <1>9
<1>20. (\E r \in traces : r.number = n) <=> TraceParents # {}
  <2>1. (\E r \in traces : r.number = n) => WantedTraces(n) # {} BY <1>12
  <2>2. WantedTraces(n) # {} => \E r \in traces : r.number = n BY <1>12
  <2> QED BY <2>1, <2>2
<1>21. \A key \in wantedLog : key[1] = n => \E l \in logs : l.number = n OBVIOUS
<1>22. Parents(n) = LogParents \cup TraceParents \cup Hashes BY DEF Parents
<1>23. ReceiptsRead(n) \subseteq
         (IF NeedReceipts(app) THEN LogParents ELSE {})
           \cup (IF NeedTraceReceipts(app) THEN TraceParents ELSE {}) \cup Hashes
  <2>1. ASSUME NEW x, NEW i \in DOMAIN app, app[i].receipt, LogMatches(app[i], x, n, Everyone)
        PROVE  NeedReceipts(app)
    BY <2>1 DEF NeedReceipts
  <2>2. ASSUME NEW x, NEW i \in DOMAIN app, app[i].receipt, TraceMatches(app[i], x, n, Everyone)
        PROVE  NeedTraceReceipts(app)
    BY <2>2 DEF NeedTraceReceipts, TraceMatches
  <2> QED BY <2>1, <2>2 DEF ReceiptsRead
<1> HIDE DEF wantedLog, wantedTrace, wantedTx, LogParents, TraceParents, Hashes
<1>24. /\ RowsAt(logTxs, n) = LogParents /\ RowsAt(traceTxs, n) = TraceParents
       /\ RowsAt(filterTxs, n) = Hashes
       /\ \A h \in Hashes : <<n, h>> \in DOMAIN filterTxs
  BY <1>2, <1>16, <1>17, <1>18, TxRowsExact
<1>25. /\ \A key \in DOMAIN logTxs : key \in wantedLog
       /\ \A key \in DOMAIN filterTxs : key \in wantedTx
       /\ DOMAIN NoTxs = {}
  BY DEF TxRows
<1> HIDE DEF logTxs, filterTxs, traceTxs, NoTxs
<1>26. RowsAt(NoTxs, n) = {} BY <1>25 DEF RowsAt
<1>27. RowsAt(rows.txs, n) = Parents(n)
  <2>1. rows.txs = KeepFirst(traceTxs, KeepFirst(logTxs, filterTxs)) BY <1>1
  <2> QED BY <2>1, <1>22, <1>24, KeepThree
<1>28. RowsAt(rows.receipts, n) =
         (IF NeedReceipts(app) THEN LogParents ELSE {})
           \cup (IF NeedTraceReceipts(app) THEN TraceParents ELSE {}) \cup Hashes
  <2>1. rows.receipts = KeepFirst(due, KeepFirst(filterTxs, dueTraces)) BY <1>1
  <2>2. /\ RowsAt(due, n) = IF NeedReceipts(app) THEN LogParents ELSE {}
        /\ RowsAt(dueTraces, n) = IF NeedTraceReceipts(app) THEN TraceParents ELSE {}
    BY <1>24, <1>26
  <2> HIDE DEF due, dueTraces
  <2>3. RowsAt(rows.receipts, n) = RowsAt(due, n) \cup (RowsAt(filterTxs, n) \cup RowsAt(dueTraces, n))
    BY <2>1, KeepThree
  <2> QED BY <2>2, <2>3, <1>24
<1>29. n \in DOMAIN rows.blocks <=> Parents(n) # {} \/ BlockKept(app, n)
  <2>1. rows.blocks = KeepFirst(traceBlocks, KeepFirst(txBlocks, KeepFirst(logBlocks, dueBlocks)))
    BY <1>1
  <2>2. DOMAIN traceBlocks = {r.number : r \in traces} /\ DOMAIN logBlocks = {l.number : l \in logs}
        /\ DOMAIN txBlocks = {key[1] : key \in unseen}
        /\ DOMAIN dueBlocks = {raw.number : raw \in Raws("block")}
    OBVIOUS
  <2> HIDE DEF traceBlocks, logBlocks, txBlocks, dueBlocks
  <2>0. n \in DOMAIN rows.blocks <=> n \in DOMAIN traceBlocks \/ n \in DOMAIN txBlocks
                                   \/ n \in DOMAIN logBlocks \/ n \in DOMAIN dueBlocks
    BY <2>1, KeepFour
  <2>3. n \in DOMAIN rows.blocks <=>
          \/ n \in {r.number : r \in traces} \/ n \in {key[1] : key \in unseen}
          \/ n \in {l.number : l \in logs} \/ n \in {raw.number : raw \in Raws("block")}
    BY <2>0, <2>2
  <2>4. n \in {raw.number : raw \in Raws("block")} <=> BlockKept(app, n)
    BY <1>2, <1>5, <1>6
  <2>5. n \in {key[1] : key \in unseen} => Hashes # {}
    <3> SUFFICES ASSUME NEW key \in unseen, key[1] = n PROVE Hashes # {}
      OBVIOUS
    <3>1. key \in DOMAIN filterTxs OBVIOUS
    <3> HIDE DEF unseen
    <3>2. key[2] \in RowsAt(filterTxs, n) BY <3>1 DEF RowsAt
    <3> QED BY <3>2, <1>24
  <2>6. Hashes # {} => n \in {key[1] : key \in unseen} \/ n \in {l.number : l \in logs}
    <3> SUFFICES ASSUME NEW h \in Hashes, n \notin {key[1] : key \in unseen}
                 PROVE  n \in {l.number : l \in logs}
      OBVIOUS
    <3>1. <<n, h>> \in DOMAIN filterTxs /\ <<n, h>>[1] = n BY <1>24
    <3>2. <<n, h>> \notin unseen BY <3>1
    <3>3. <<n, h>> \in DOMAIN logTxs BY <3>1, <3>2
    <3> HIDE DEF unseen
    <3> QED BY <3>1, <3>3, <1>21, <1>25
  <2> HIDE DEF unseen
  <2>7. n \in {l.number : l \in logs} <=> LogParents # {} BY <1>19
  <2>8. n \in {r.number : r \in traces} <=> TraceParents # {} BY <1>20
  <2> QED BY <2>3, <2>4, <2>5, <2>6, <2>7, <2>8, <1>22
<1>30. rows.logs = logs /\ rows.traces = traces BY <1>1
<1>31. /\ ReceiptsRead(n) \subseteq RowsAt(rows.receipts, n)
       /\ RowsAt(rows.receipts, n) \subseteq RowsAt(rows.txs, n)
  BY <1>22, <1>23, <1>27, <1>28
<1> QED BY <1>13, <1>14, <1>27, <1>29, <1>30, <1>31 DEF ExactAt

(* The keys of three.                                                       *)
LEMMA KeepThreeKeys ==
  ASSUME NEW a, NEW b, NEW c, NEW key \in DOMAIN KeepFirst(a, KeepFirst(b, c))
  PROVE  key \in DOMAIN a \/ key \in DOMAIN b \/ key \in DOMAIN c
PROOF
<1> DEFINE d == KeepFirst(b, c)
<1>1. DOMAIN d = DOMAIN b \cup DOMAIN c BY KeepFirstKeys
<1> HIDE DEF d
<1>2. DOMAIN KeepFirst(a, d) = DOMAIN a \cup DOMAIN d BY KeepFirstKeys
<1>3. key \in DOMAIN KeepFirst(a, d) BY DEF d
<1> QED BY <1>1, <1>2, <1>3

(* They are of the interval's blocks.                                       *)
LEMMA AssembledWithin ==
  ASSUME CursorsOK, DataOK, NEW hi \in Numbers, hi < covered, NEW rows, Assembled(rows, done, hi)
  PROVE  Within(rows, done, hi)
PROOF
<1> DEFINE Raws(source) == UNION {ToSet(data[source][m]) : m \in done..hi}
           KeptLogs(raw) == {l \in raw.logs : LogKept(app, children, l, raw.number)}
           KeptTxs(raw) == {t \in raw.txs : TxKept(app, children, t, raw.number)}
           LogRow(raw, l) == [number |-> raw.number, log |-> l, has |-> raw.has]
           logs == UNION {{LogRow(raw, l) : l \in KeptLogs(raw)} : raw \in Raws("log")}
           traces == UNION {BuildTraces(app, children, raw) : raw \in Raws("trace")}
           wantedLog == {<<l.number, l.log.tx>> : l \in logs}
           wantedTx == UNION {{<<raw.number, t.hash>> : t \in KeptTxs(raw)} : raw \in Raws("tx")}
           wantedTrace == {<<r.number, r.tx>> : r \in traces}
           logTxs == TxRows(data["log"], wantedLog)
           filterTxs == TxRows(data["tx"], wantedTx)
           traceTxs == TxRows(data["trace"], wantedTrace)
           unseen == DOMAIN filterTxs \ DOMAIN logTxs
           logBlocks == [m \in {l.number : l \in logs} |-> LastHeader(data["log"][m])]
           dueBlocks == [m \in {raw.number : raw \in Raws("block")} |-> LastHeader(data["block"][m])]
           txBlocks == [m \in {key[1] : key \in unseen} |-> FirstHeader(data["tx"][m])]
           traceBlocks == [m \in {r.number : r \in traces} |-> FirstHeader(data["trace"][m])]
           NoTxs == TxRows(data["log"], {})
           due == IF NeedReceipts(app) THEN logTxs ELSE NoTxs
           dueTraces == IF NeedTraceReceipts(app) THEN traceTxs ELSE NoTxs
<1>1. rows =
        [logs |-> logs, traces |-> traces,
         blocks |-> KeepFirst(traceBlocks, KeepFirst(txBlocks, KeepFirst(logBlocks, dueBlocks))),
         txs |-> KeepFirst(traceTxs, KeepFirst(logTxs, filterTxs)),
         receipts |-> KeepFirst(due, KeepFirst(filterTxs, dueTraces))]
  BY DEF Assembled, AssembleRange
<1>2. {"log", "trace", "block", "tx"} = ToSet(Sources) BY SourcesFact
<1>3. done..hi \subseteq Numbers BY NumbersFact DEF CursorsOK
<1>4. ASSUME NEW s \in ToSet(Sources), NEW m \in done..hi, NEW raw \in ToSet(data[s][m])
      PROVE  raw.number = m
  <2>1. data[s][m] \in Seq(RawAt(m)) BY <1>3 DEF DataOK
  <2>2. DOMAIN data[s][m] = 1..Len(data[s][m])
        /\ \A i \in 1..Len(data[s][m]) : data[s][m][i] \in RawAt(m)
    BY <2>1, LenProperties, ElementOfSeq
  <2>3. raw \in RawAt(m) BY <2>2, <1>4 DEF ToSet
  <2> QED BY <2>3 DEF RawAt
<1>5. \A s \in ToSet(Sources) : \A raw \in Raws(s) : raw.number \in done..hi BY <1>4
<1> HIDE DEF Raws
<1>6. \A l \in logs : l.number \in done..hi
  <2> SUFFICES ASSUME NEW l \in logs PROVE l.number \in done..hi
    OBVIOUS
  <2>1. PICK raw \in Raws("log") : \E x \in KeptLogs(raw) : l = LogRow(raw, x) OBVIOUS
  <2>2. l.number = raw.number BY <2>1
  <2> QED BY <2>1, <2>2, <1>2, <1>5
<1>7. \A r \in traces : r.number \in done..hi
  <2> SUFFICES ASSUME NEW r \in traces PROVE r.number \in done..hi
    OBVIOUS
  <2>1. PICK raw \in Raws("trace") : r \in BuildTraces(app, children, raw) OBVIOUS
  <2>2. r.number = raw.number BY <2>1, BuiltFact
  <2> QED BY <2>1, <2>2, <1>2, <1>5
<1>8. \A key \in wantedTx : key[1] \in done..hi
  <2> SUFFICES ASSUME NEW key \in wantedTx PROVE key[1] \in done..hi
    OBVIOUS
  <2>1. PICK raw \in Raws("tx") : \E t \in KeptTxs(raw) : key = <<raw.number, t.hash>> OBVIOUS
  <2>2. key[1] = raw.number BY <2>1
  <2> QED BY <2>1, <2>2, <1>2, <1>5
<1> HIDE DEF logs, traces, wantedTx
<1>9. /\ \A key \in wantedLog : key[1] \in done..hi
      /\ \A key \in wantedTrace : key[1] \in done..hi
  BY <1>6, <1>7
<1> HIDE DEF wantedLog, wantedTrace
<1>10. /\ \A key \in DOMAIN logTxs : key[1] \in done..hi
       /\ \A key \in DOMAIN filterTxs : key[1] \in done..hi
       /\ \A key \in DOMAIN traceTxs : key[1] \in done..hi
       /\ DOMAIN NoTxs = {}
  BY <1>8, <1>9 DEF TxRows
<1>11. \A m \in {key[1] : key \in unseen} : m \in done..hi
  <2>1. \A key \in unseen : key \in DOMAIN filterTxs OBVIOUS
  <2> HIDE DEF unseen, filterTxs
  <2> QED BY <2>1, <1>10
<1>12. \A m \in {raw.number : raw \in Raws("block")} : m \in done..hi BY <1>2, <1>5
<1> HIDE DEF logTxs, filterTxs, traceTxs, NoTxs, unseen
<1>13. ASSUME NEW m \in DOMAIN rows.blocks PROVE m \in done..hi
  <2>1. rows.blocks = KeepFirst(traceBlocks, KeepFirst(txBlocks, KeepFirst(logBlocks, dueBlocks)))
    BY <1>1
  <2>2. DOMAIN traceBlocks = {r.number : r \in traces} /\ DOMAIN logBlocks = {l.number : l \in logs}
        /\ DOMAIN txBlocks = {key[1] : key \in unseen}
        /\ DOMAIN dueBlocks = {raw.number : raw \in Raws("block")}
    OBVIOUS
  <2> HIDE DEF traceBlocks, logBlocks, txBlocks, dueBlocks
  <2>3. m \in DOMAIN traceBlocks \/ m \in DOMAIN txBlocks \/ m \in DOMAIN logBlocks \/ m \in DOMAIN dueBlocks
    BY <2>1, KeepFour
  <2> QED BY <2>2, <2>3, <1>6, <1>7, <1>11, <1>12
<1>14. ASSUME NEW k \in DOMAIN rows.txs PROVE k[1] \in done..hi
  <2>1. rows.txs = KeepFirst(traceTxs, KeepFirst(logTxs, filterTxs)) BY <1>1
  <2>2. k \in DOMAIN traceTxs \/ k \in DOMAIN logTxs \/ k \in DOMAIN filterTxs
    BY <2>1, KeepThreeKeys
  <2> QED BY <2>2, <1>10
<1>15. ASSUME NEW k \in DOMAIN rows.receipts PROVE k[1] \in done..hi
  <2>1. rows.receipts = KeepFirst(due, KeepFirst(filterTxs, dueTraces)) BY <1>1
  <2>2. (\A key \in DOMAIN due : key[1] \in done..hi) /\ \A key \in DOMAIN dueTraces : key[1] \in done..hi
    BY <1>10
  <2> HIDE DEF due, dueTraces
  <2>3. k \in DOMAIN due \/ k \in DOMAIN filterTxs \/ k \in DOMAIN dueTraces
    BY <2>1, KeepThreeKeys
  <2> QED BY <2>2, <2>3, <1>10
<1>16. rows.logs = logs /\ rows.traces = traces BY <1>1
<1> QED BY <1>6, <1>7, <1>13, <1>14, <1>15, <1>16 DEF Within

(* The store after an interval.                                              *)
LEMMA InsertedFact ==
  ASSUME NEW rows, store' = Inserted(rows)
  PROVE  /\ store'.logs = store.logs \cup rows.logs /\ store'.traces = store.traces \cup rows.traces
         /\ DOMAIN store'.blocks = DOMAIN store.blocks \cup DOMAIN rows.blocks
         /\ DOMAIN store'.txs = DOMAIN store.txs \cup DOMAIN rows.txs
         /\ DOMAIN store'.receipts = DOMAIN store.receipts \cup DOMAIN rows.receipts
PROOF
<1>1. /\ store'.logs = store.logs \cup rows.logs /\ store'.traces = store.traces \cup rows.traces
      /\ store'.blocks = KeepFirst(store.blocks, rows.blocks)
      /\ store'.txs = KeepFirst(store.txs, rows.txs)
      /\ store'.receipts = KeepFirst(store.receipts, rows.receipts)
  BY DEF Inserted
<1> QED BY <1>1, KeepFirstKeys

(* An interval is inserted above what the store has.                           *)
LEMMA StoreStep ==
  ASSUME CursorsOK, FetchOK, DataOK, StoreOK, Next
  PROVE  StoreOK'
PROOF
<1>1. ASSUME NEW hi \in Numbers, Assemble(hi) PROVE StoreOK'
  <2>1. PICK rows : Assembled(rows, done, hi) /\ store' = Inserted(rows)
    BY <1>1 DEF Assemble, Assembled
  <2>2. hi < covered /\ done' = hi + 1 /\ done <= hi BY <1>1 DEF Assemble
  <2>3. Within(rows, done, hi) BY <2>1, <2>2, AssembledWithin
  <2>4. /\ store'.logs = store.logs \cup rows.logs /\ store'.traces = store.traces \cup rows.traces
        /\ DOMAIN store'.blocks = DOMAIN store.blocks \cup DOMAIN rows.blocks
        /\ DOMAIN store'.txs = DOMAIN store.txs \cup DOMAIN rows.txs
        /\ DOMAIN store'.receipts = DOMAIN store.receipts \cup DOMAIN rows.receipts
    BY <2>1, InsertedFact
  <2>5. done \in Nat /\ hi \in Nat BY NumbersFact DEF CursorsOK
  <2>6. /\ \A m \in done..hi : m \in 0..(done' - 1)
        /\ \A m \in 0..(done - 1) : m \in 0..(done' - 1)
    BY <2>2, <2>5
  <2>7. Within(store, 0, done - 1) BY DEF StoreOK
  <2>8. Within(store', 0, done' - 1) BY <2>3, <2>4, <2>6, <2>7 DEF Within
  <2> QED BY <2>8 DEF StoreOK, Within
<1>2. CASE UNCHANGED <<store, done>> BY <1>2 DEF StoreOK, Within
<1> QED BY StepKinds, <1>1, <1>2
  DEF Discover, StartFetch, RangeMoves, OnlyFetch, Serve, Finish, Evict, GoLive, DiscoverLive

(* Rows that have the same of a block are exact there alike.                     *)
LEMMA SameAt ==
  ASSUME NEW rows, NEW more, NEW n, ExactAt(rows, n),
         \A l : l \in more.logs /\ l.number = n <=> l \in rows.logs /\ l.number = n,
         \A t : t \in more.traces /\ t.number = n <=> t \in rows.traces /\ t.number = n,
         RowsAt(more.txs, n) = RowsAt(rows.txs, n),
         RowsAt(more.receipts, n) = RowsAt(rows.receipts, n),
         n \in DOMAIN more.blocks <=> n \in DOMAIN rows.blocks
  PROVE  ExactAt(more, n)
PROOF
<1>1. {x \in more.logs : x.number = n} = {x \in rows.logs : x.number = n} OBVIOUS
<1>2. {x \in more.traces : x.number = n} = {x \in rows.traces : x.number = n} OBVIOUS
<1> QED BY <1>1, <1>2 DEF ExactAt

(* Exactness depends on the app and the rows only.                          *)
LEMMA StableExact ==
  ASSUME app' = app, NEW n, ExactAt(store', n)
  PROVE  ExactAt(store, n)'
PROOF
<1>1. WantedLogs(n)' = WantedLogs(n) BY DEF WantedLogs, Everyone
<1>2. WantedTraces(n)' = WantedTraces(n) BY DEF WantedTraces, Everyone
<1>3. WantedTxs(n)' = WantedTxs(n) BY DEF WantedTxs, Everyone
<1>4. Parents(n)' = Parents(n) BY <1>1, <1>2, <1>3 DEF Parents
<1>5. ReceiptsRead(n)' = ReceiptsRead(n) BY <1>1, <1>2, <1>3 DEF ReceiptsRead, Everyone
<1>6. BlockKept(app, n)' <=> BlockKept(app, n) BY StableWanted
<1>7. /\ RowsAt(store.txs, n)' = RowsAt(store'.txs, n)
      /\ RowsAt(store.receipts, n)' = RowsAt(store'.receipts, n)
  BY DEF RowsAt
<1> HIDE DEF WantedLogs, WantedTraces, WantedTxs, Parents, ReceiptsRead
<1> QED BY <1>1, <1>2, <1>4, <1>5, <1>6, <1>7 DEF ExactAt

(* StoredExact, block by block.                                             *)
LEMMA ExactFact ==
  StoredExact <=> \A n \in FirstNeeded..(done - 1) : n >= dataset.start => ExactAt(store, n)
BY DEF StoredExact, ExactAt

(* An interval adds exact blocks above those that the store has, and leaves these   *)
(* alone.                                                                   *)
LEMMA ExactStep ==
  ASSUME CursorsOK, FetchOK, ChildrenOK, ScanOK, DataOK, LiveOK, RawOK, CompleteOK, StoreOK,
         StoredExact, Next
  PROVE  StoredExact'
PROOF
<1>1. app' = app /\ dataset' = dataset BY FixedStep
<1>2. FirstNeeded' = FirstNeeded BY <1>1, StableRange
<1>3. FirstNeeded \in Nat /\ dataset.start \in Nat
  BY RangeFact, DataPathAssumption, NumbersFact DEF CursorsOK
<1>4. ASSUME NEW hi \in Numbers, Assemble(hi),
             NEW n \in FirstNeeded..(done' - 1), n >= dataset.start
      PROVE  ExactAt(store', n)
  <2>1. PICK rows : Assembled(rows, done, hi) /\ store' = Inserted(rows)
    BY <1>4 DEF Assemble, Assembled
  <2>2. hi < covered /\ done' = hi + 1 /\ done <= hi BY <1>4 DEF Assemble
  <2>3. Within(rows, done, hi) BY <2>1, <2>2, AssembledWithin
  <2>4. /\ store'.logs = store.logs \cup rows.logs /\ store'.traces = store.traces \cup rows.traces
        /\ DOMAIN store'.blocks = DOMAIN store.blocks \cup DOMAIN rows.blocks
        /\ DOMAIN store'.txs = DOMAIN store.txs \cup DOMAIN rows.txs
        /\ DOMAIN store'.receipts = DOMAIN store.receipts \cup DOMAIN rows.receipts
    BY <2>1, InsertedFact
  <2>5. done \in Nat /\ hi \in Nat BY NumbersFact DEF CursorsOK
  <2>6. n \in Numbers /\ n <= hi BY <1>3, <1>4, <2>2, <2>5, NumbersFact
  <2>7. Within(store, 0, done - 1) BY DEF StoreOK
  <2>8. CASE n < done
    <3>1. n \in FirstNeeded..(done - 1) /\ n \notin done..hi BY <2>5, <2>6, <2>8, <1>3, <1>4
    <3>2. ExactAt(store, n) BY <3>1, <1>4, ExactFact
    <3>3. /\ \A l \in rows.logs : l.number # n
          /\ \A t \in rows.traces : t.number # n
          /\ n \notin DOMAIN rows.blocks
          /\ \A k \in DOMAIN rows.txs : k[1] # n
          /\ \A k \in DOMAIN rows.receipts : k[1] # n
      BY <2>3, <3>1 DEF Within
    <3>4. RowsAt(store'.txs, n) = RowsAt(store.txs, n) /\ RowsAt(store'.receipts, n) = RowsAt(store.receipts, n)
      BY <2>4, <3>3 DEF RowsAt
    <3> QED BY <2>4, <3>2, <3>3, <3>4, SameAt
  <2>9. CASE done <= n
    <3>1. n \notin 0..(done - 1) BY <2>5, <2>6, <2>9
    <3>2. ExactAt(rows, n) BY <1>4, <2>1, <2>2, <2>6, <2>9, AssembledExact
    <3>3. /\ \A l \in store.logs : l.number # n
          /\ \A t \in store.traces : t.number # n
          /\ n \notin DOMAIN store.blocks
          /\ \A k \in DOMAIN store.txs : k[1] # n
          /\ \A k \in DOMAIN store.receipts : k[1] # n
      BY <2>7, <3>1 DEF Within
    <3>4. RowsAt(store'.txs, n) = RowsAt(rows.txs, n) /\ RowsAt(store'.receipts, n) = RowsAt(rows.receipts, n)
      BY <2>4, <3>3 DEF RowsAt
    <3> QED BY <2>4, <3>2, <3>3, <3>4, SameAt
  <2> QED BY <2>5, <2>6, <2>8, <2>9
<1>5. ASSUME NEW hi \in Numbers, Assemble(hi) PROVE StoredExact'
  <2>1. \A n \in FirstNeeded..(done' - 1) : n >= dataset.start => ExactAt(store, n)'
    BY <1>1, <1>4, <1>5, StableExact
  <2> QED BY <1>1, <1>2, <2>1 DEF StoredExact, ExactAt
<1>6. CASE UNCHANGED <<store, done>>
  <2>1. \A n \in FirstNeeded..(done' - 1) : n >= dataset.start => ExactAt(store, n)'
    BY <1>1, <1>6, StableExact, ExactFact
  <2> QED BY <1>1, <1>2, <2>1 DEF StoredExact, ExactAt
<1> QED BY StepKinds, <1>5, <1>6
  DEF Discover, StartFetch, RangeMoves, OnlyFetch, Serve, Finish, Evict, GoLive, DiscoverLive

-----------------------------------------------------------------------------
(* The theorems.                                                           *)
LEMMA DataPathInit == Init => DataPathInv
PROOF
<1> SUFFICES ASSUME Init PROVE DataPathInv
  OBVIOUS
<1> USE DEF Init
<1>1. FirstNeeded \in Nat /\ scanned = -1 BY RangeFact, NumbersFact
<1>2. CursorsOK BY <1>1 DEF CursorsOK
<1>3. ChildrenOK
  <2>1. \A f \in Factory : <<>> \in Seq(Born(f)) BY EmptySeq
  <2> QED BY <2>1 DEF ChildrenOK
<1>4. ScanOK BY <1>1, NumbersFact DEF ScanOK
<1>5. DataOK
  <2>1. \A n : <<>> \in Seq(RawAt(n)) BY EmptySeq
  <2> QED BY <2>1 DEF DataOK, NoData
<1>6. FetchOK /\ MatchedOK /\ FailedOK BY DEF FetchOK, MatchedOK, FailedOK
<1>7. LiveOK BY DEF LiveOK
<1>8. \A s \in ToSet(Sources), n \in Numbers : RawsOf(s, n) = {}
  BY DEF RawsOf, NoData, ToSet
<1>9. FetchedOK /\ ResolvedOK BY <1>8 DEF FetchedOK, ResolvedOK
<1>10. NoSilentGap BY DEF NoSilentGap, NoRows
<1> QED BY <1>2, <1>3, <1>4, <1>5, <1>6, <1>7, <1>9, <1>10 DEF DataPathInv

LEMMA DataPathNext == DataPathInv /\ [Next]_vars => DataPathInv'
PROOF
<1> SUFFICES ASSUME DataPathInv, [Next]_vars PROVE DataPathInv'
  OBVIOUS
<1>1. CASE Next
  <2>1. /\ CursorsOK /\ ChildrenOK /\ ScanOK /\ DataOK /\ FetchOK /\ LiveOK
        /\ MatchedOK /\ FailedOK /\ FetchedOK /\ ResolvedOK /\ NoSilentGap
    BY DEF DataPathInv
  <2>2. CursorsOK' BY <1>1, <2>1, CursorsStep
  <2>3. ChildrenOK' BY <1>1, <2>1, ChildrenStep
  <2>4. ScanOK' BY <1>1, <2>1, ScanStep
  <2>5. DataOK' BY <1>1, <2>1, DataStep
  <2>6. FetchOK' BY <1>1, <2>1, FetchStep
  <2>7. LiveOK' BY <1>1, <2>1, LiveStep
  <2>8. MatchedOK' BY <1>1, <2>1, MatchedStep
  <2>9. FailedOK' BY <1>1, <2>1, FailedStep
  <2>10. FetchedOK' BY <1>1, <2>1, FetchedStep
  <2>11. ResolvedOK' BY <1>1, <2>1, ResolvedStep
  <2>12. NoSilentGap' BY <1>1, <2>1, SilentGapStep
  <2> QED BY <2>2, <2>3, <2>4, <2>5, <2>6, <2>7, <2>8, <2>9, <2>10, <2>11, <2>12 DEF DataPathInv
<1>2. CASE UNCHANGED vars
  <2>1. CursorsOK' /\ ChildrenOK' /\ ScanOK' /\ DataOK'
    BY <1>2 DEF DataPathInv, vars, CursorsOK, ChildrenOK, ScanOK, DataOK, RawAt, FirstNeeded, DataEnd
  <2>2. FetchOK' /\ LiveOK' /\ FailedOK'
    BY <1>2 DEF DataPathInv, vars, FetchOK, LiveOK, FailedOK, DataEnd, DiscoveryReady, IsGap
  <2>3. /\ \A s, n : Wants(s, n)' <=> Wants(s, n)
        /\ \A s, raw : Keeps(s, raw)' <=> Keeps(s, raw)
        /\ \A s : Required(s)' = Required(s) /\ (Emits(s)' <=> Emits(s))
    BY <1>2, StableWants DEF vars
  <2>4. \A s, n : RawsOf(s, n)' = RawsOf(s, n) BY <1>2 DEF vars, RawsOf
  <2>5. MatchedOK' BY <1>2, <2>3 DEF DataPathInv, vars, MatchedOK
  <2>6. FetchedOK' BY <1>2, <2>3, <2>4 DEF DataPathInv, vars, FetchedOK
  <2>7. ResolvedOK' BY <1>2, <2>3, <2>4 DEF DataPathInv, vars, ResolvedOK
  <2>8. NoSilentGap' BY <1>2 DEF DataPathInv, vars, NoSilentGap
  <2> QED BY <2>1, <2>2, <2>5, <2>6, <2>7, <2>8 DEF DataPathInv
<1> QED BY <1>1, <1>2

(* The cursors of discovery, the range that is streamed and the chunk are in the  *)
(* order the code relies on, below the watermark no child is missing, and what    *)
(* the chunk misses of the columns it needs, no kept row needs.                  *)
THEOREM DataPathInvariant == Spec => []DataPathInv
PROOF
<1> QED BY DataPathInit, DataPathNext, PTL DEF Spec

(* NoSilentGap: whatever columns the dataset lacks on whatever blocks, and        *)
(* however streams fail, are retried and extend the chunk, no row is stored       *)
(* without the columns it needs.                                            *)
THEOREM NoGapIsSilent == Spec => []NoSilentGap
PROOF
<1>1. DataPathInv => NoSilentGap BY DEF DataPathInv
<1> QED BY <1>1, DataPathInvariant, PTL

(* FatalIsEarned: the process stops for a gap only where a row of the range that   *)
(* was streamed is one the store would keep once every child is known.           *)
THEOREM EveryFatalIsEarned == Spec => []FatalIsEarned
PROOF
<1>1. DataPathInv => FatalIsEarned BY EarnedFact DEF DataPathInv
<1> QED BY <1>1, DataPathInvariant, PTL

(* Nothing a filter wants is lost on the way: the cursors and rows of              *)
(* DataPathInv, the bodies, what they still have to bring, and what the chunk and  *)
(* the store have.                                                          *)
RowsInv ==
  DataPathInv /\ BodiesOK /\ PendingOK /\ CompleteOK /\ RawOK /\ StoreOK /\ StoredExact

LEMMA RowsInit == Init => RowsInv
PROOF
<1> SUFFICES ASSUME Init PROVE RowsInv
  OBVIOUS
<1>1. DataPathInv BY DataPathInit
<1>2. fetch = NoFetch /\ live = NotLive /\ store = NoRows /\ done = FirstNeeded /\ covered = FirstNeeded
  BY DEF Init
<1>3. FirstNeeded \in Nat BY <1>1, <1>2 DEF DataPathInv, CursorsOK
<1>4. BodiesOK /\ PendingOK BY <1>2 DEF BodiesOK, PendingOK, Streaming
<1>5. \A s \in ToSet(Sources), n \in Numbers : RawsOf(s, n) = {}
  BY DEF Init, RawsOf, NoData, ToSet
<1>6. RawOK BY <1>5 DEF RawOK
<1>7. CompleteOK BY <1>2, <1>3, NumbersFact DEF CompleteOK
<1>8. StoreOK
  <2>1. \A k \in DOMAIN <<>> : FALSE OBVIOUS
  <2> QED BY <1>2, <2>1 DEF StoreOK, Within, NoRows
<1>9. StoredExact BY <1>2, <1>3 DEF StoredExact
<1> QED BY <1>1, <1>4, <1>6, <1>7, <1>8, <1>9 DEF RowsInv

LEMMA RowsNext == RowsInv /\ [Next]_vars => RowsInv'
PROOF
<1> SUFFICES ASSUME RowsInv, [Next]_vars PROVE RowsInv'
  OBVIOUS
<1>1. DataPathInv /\ BodiesOK /\ PendingOK /\ CompleteOK /\ RawOK /\ StoreOK /\ StoredExact
  BY DEF RowsInv
<1>2. DataPathInv' BY <1>1, DataPathNext
<1>3. CASE Next
  <2>1. CursorsOK /\ ChildrenOK /\ ScanOK /\ DataOK /\ FetchOK /\ LiveOK
    BY <1>1 DEF DataPathInv
  <2>2. FetchOK' /\ LiveOK' BY <1>2 DEF DataPathInv
  <2>3. BodiesOK' BY <1>1, <1>3, <2>1, BodiesStep
  <2>4. PendingOK' BY <1>1, <1>3, <2>1, <2>2, PendingStep
  <2>5. CompleteOK' BY <1>1, <1>3, <2>1, CompleteStep
  <2>6. RawOK' BY <1>1, <1>3, <2>1, RawStep
  <2>7. StoreOK' BY <1>1, <1>3, <2>1, StoreStep
  <2>8. StoredExact' BY <1>1, <1>3, <2>1, ExactStep
  <2> QED BY <1>2, <2>3, <2>4, <2>5, <2>6, <2>7, <2>8 DEF RowsInv
<1>4. CASE UNCHANGED vars
  <2>0. /\ app' = app /\ dataset' = dataset /\ data' = data /\ covered' = covered /\ fetch' = fetch
        /\ store' = store /\ done' = done /\ live' = live
    BY <1>4 DEF vars
  <2>1. /\ \A s, n : WantedOf(s, n)' = WantedOf(s, n)
        /\ \A n : BlockKept(app, n)' <=> BlockKept(app, n)
    BY <2>0, StableWanted
  <2>2. \A s, n : RawsOf(s, n)' = RawsOf(s, n) BY <2>0 DEF RawsOf
  <2>3. \A s, n, x : Fetched(s, n, x)' <=> Fetched(s, n, x) BY <2>2 DEF Fetched
  <2>4. BodiesOK' BY <1>1, <2>0 DEF BodiesOK, Streaming
  <2>5. PendingOK' BY <1>1, <2>0, <2>1, <2>3 DEF PendingOK, Streaming
  <2>6. CompleteOK' BY <1>1, <2>0, <2>1, <2>3 DEF CompleteOK
  <2>7. RawOK' BY <1>1, <2>0, <2>1, <2>2 DEF RawOK
  <2>8. StoreOK' BY <1>1, <2>0 DEF StoreOK, Within
  <2>9. FirstNeeded' = FirstNeeded BY <2>0, StableRange
  <2>10. \A n \in FirstNeeded..(done' - 1) : n >= dataset.start => ExactAt(store, n)'
    BY <1>1, <2>0, StableExact, ExactFact
  <2>11. StoredExact' BY <2>0, <2>9, <2>10 DEF StoredExact, ExactAt
  <2> QED BY <1>2, <2>4, <2>5, <2>6, <2>7, <2>8, <2>11 DEF RowsInv
<1> QED BY <1>3, <1>4

(* While a range is streamed, every wanted row of it is in the chunk or asked for   *)
(* by a body still to be sent; the resolved chunk has all of them; and the store   *)
(* is exact below the next interval.                                        *)
THEOREM RowsInvariant == Spec => []RowsInv
PROOF
<1> QED BY RowsInit, RowsNext, PTL DEF Spec

(* StoredExact: an interval that was synced is in the store as the filters have it,  *)
(* whatever the sharding, batches, refusals, extensions and evictions on the way.   *)
THEOREM StoreIsExact == Spec => []StoredExact
PROOF
<1>1. RowsInv => StoredExact BY DEF RowsInv
<1> QED BY <1>1, RowsInvariant, PTL

(* BodiesFit: no shard of the backfill and no request of the realtime is over what   *)
(* the Portal accepts, however many filters and children there are.            *)
THEOREM EveryBodyFits == Spec => []BodiesFit
PROOF
<1>1. RowsInv => BodiesFit BY DEF RowsInv, BodiesOK, BodiesFit, AtStream
<1> QED BY <1>1, RowsInvariant, PTL

-----------------------------------------------------------------------------
(* The third invariant: the realtime asks for all it must.                     *)
(* All topics of several requests, or no condition.                          *)
JoinAll(T) == IF Undefined \in T THEN Undefined ELSE UNION T
TopicsAlike(P, g) == JoinAll({q.topic0 : q \in {x \in P : Alike(x, g)}})

(* The groups of a set of requests: one for those alike, with all their topics.  *)
MergedOf(groups, P) ==
  /\ \A g \in DOMAIN groups :
       (\E q \in P : Alike(q, groups[g])) /\ groups[g].topic0 = TopicsAlike(P, groups[g])
  /\ \A q \in P : \E g \in DOMAIN groups : Alike(groups[g], q)
  /\ \A g, h \in DOMAIN groups : Alike(groups[g], groups[h]) => g = h

LEMMA AlikeFact ==
  ASSUME NEW r, NEW s, NEW t
  PROVE  /\ Alike(r, r) /\ (Alike(r, s) => Alike(s, r))
         /\ Alike(r, s) /\ Alike(s, t) => Alike(r, t)
BY DEF Alike, SameAddresses

NoTopics(U) == \A topics \in SUBSET U : topics # Undefined

LEMMA JoinAllFact ==
  ASSUME NEW U, NoTopics(U), NEW T \in SUBSET ((SUBSET U) \cup {Undefined}),
         NEW t \in (SUBSET U) \cup {Undefined}
  PROVE  Joined(JoinAll(T), t) = JoinAll(T \cup {t})
PROOF
<1>1. CASE Undefined \in T BY <1>1 DEF Joined, JoinAll
<1>2. CASE Undefined \notin T
  <2>1. JoinAll(T) = UNION T BY <1>2 DEF JoinAll
  <2>2. UNION T \in SUBSET U BY <1>2
  <2>3. UNION T # Undefined BY <2>2 DEF NoTopics
  <2>4. CASE t = Undefined BY <2>4 DEF Joined, JoinAll
  <2>5. CASE t # Undefined
    <3>1. Joined(JoinAll(T), t) = (UNION T) \cup t BY <2>1, <2>3, <2>5 DEF Joined
    <3>2. Undefined \notin T \cup {t} BY <1>2, <2>5
    <3>3. JoinAll(T \cup {t}) = UNION (T \cup {t}) BY <3>2 DEF JoinAll
    <3> QED BY <3>1, <3>3
  <2> QED BY <2>4, <2>5
<1> QED BY <1>1, <1>2

LEMMA MergeIntoExact ==
  ASSUME NEW A, NEW U, NEW B, NEW groups \in Seq(LogRequests(A, U, B)), NEW r \in LogRequests(A, U, B),
         NEW P \in SUBSET LogRequests(A, U, B), NoTopics(U), MergedOf(groups, P)
  PROVE  MergedOf(MergeInto(groups, r), P \cup {r})
PROOF
<1> DEFINE n == Len(groups)
           R == LogRequests(A, U, B)
           Q == P \cup {r}
           I == {i \in 1..n : Alike(groups[i], r)}
           first == SelectInSeq(groups, LAMBDA g : Alike(g, r))
           merged == MergeInto(groups, r)
<1>1. n \in Nat /\ DOMAIN groups = 1..n /\ \A i \in 1..n : groups[i] \in R
  BY LenProperties, ElementOfSeq
<1>2. first = IF I # {} THEN Min(I) ELSE 0 BY DEF SelectInSeq
<1>3. ASSUME NEW g \in R, ~Alike(g, r) PROVE TopicsAlike(Q, g) = TopicsAlike(P, g)
  <2>1. {x \in Q : Alike(x, g)} = {x \in P : Alike(x, g)} BY <1>3, AlikeFact
  <2> QED BY <2>1 DEF TopicsAlike
<1>4. ASSUME NEW g, Alike(g, r) PROVE TopicsAlike(Q, g) = Joined(TopicsAlike(P, g), r.topic0)
  <2> DEFINE T == {q.topic0 : q \in {x \in P : Alike(x, g)}}
  <2>1. {q.topic0 : q \in {x \in Q : Alike(x, g)}} = T \cup {r.topic0} BY <1>4, AlikeFact
  <2>2. T \in SUBSET ((SUBSET U) \cup {Undefined}) /\ r.topic0 \in (SUBSET U) \cup {Undefined}
    BY DEF LogRequests
  <2>3. TopicsAlike(Q, g) = JoinAll(T \cup {r.topic0}) BY <2>1 DEF TopicsAlike
  <2>4. TopicsAlike(P, g) = JoinAll(T) BY DEF TopicsAlike
  <2> HIDE DEF T
  <2> QED BY <2>2, <2>3, <2>4, JoinAllFact
<1>5. ASSUME NEW g, NEW h, Alike(g, h) PROVE TopicsAlike(P, g) = TopicsAlike(P, h)
  <2>1. {x \in P : Alike(x, g)} = {x \in P : Alike(x, h)} BY <1>5, AlikeFact
  <2> QED BY <2>1 DEF TopicsAlike
<1>6. CASE I = {}
  <2>1. merged = Append(groups, r) BY <1>2, <1>6 DEF MergeInto
  <2>2. /\ DOMAIN merged = 1..(n + 1) /\ merged[n + 1] = r
        /\ \A i \in 1..n : merged[i] = groups[i]
    BY <1>1, <2>1, AppendProperties
  <2> HIDE DEF merged
  <2>3. \A i \in 1..(n + 1) : i \in 1..n \/ i = n + 1 BY <1>1
  <2>4. n + 1 \in 1..(n + 1) /\ 1..n \subseteq 1..(n + 1) BY <1>1
  <2>5. \A i \in 1..n : ~Alike(groups[i], r) BY <1>6
  <2>6. \A q \in P : ~Alike(q, r)
    <3> SUFFICES ASSUME NEW q \in P, Alike(q, r) PROVE FALSE OBVIOUS
    <3>1. PICK g \in 1..n : Alike(groups[g], q) BY <1>1 DEF MergedOf
    <3> QED BY <3>1, <2>5, AlikeFact
  <2>7. TopicsAlike(Q, r) = r.topic0
    <3>1. {x \in Q : Alike(x, r)} = {r} BY <2>6, AlikeFact
    <3>2. {q.topic0 : q \in {r}} = {r.topic0} OBVIOUS
    <3>3. TopicsAlike(Q, r) = JoinAll({r.topic0}) BY <3>1, <3>2 DEF TopicsAlike
    <3> QED BY <3>3 DEF JoinAll
  <2>8. ASSUME NEW g \in 1..(n + 1)
        PROVE (\E q \in Q : Alike(q, merged[g])) /\ merged[g].topic0 = TopicsAlike(Q, merged[g])
    <3>1. CASE g \in 1..n
      <4>1. (\E q \in P : Alike(q, groups[g])) /\ groups[g].topic0 = TopicsAlike(P, groups[g])
        BY <1>1, <3>1 DEF MergedOf
      <4>2. TopicsAlike(Q, groups[g]) = TopicsAlike(P, groups[g]) BY <1>1, <1>3, <2>5, <3>1
      <4> QED BY <4>1, <4>2, <2>2, <3>1
    <3>2. CASE g = n + 1 BY <3>2, <2>2, <2>7, AlikeFact
    <3> QED BY <3>1, <3>2, <2>3
  <2>9. ASSUME NEW q \in Q PROVE \E g \in 1..(n + 1) : Alike(merged[g], q)
    <3>1. CASE q \in P
      <4>1. PICK g \in 1..n : Alike(groups[g], q) BY <1>1, <3>1 DEF MergedOf
      <4> QED BY <4>1, <2>2, <2>4
    <3>2. CASE q = r BY <3>2, <2>2, <2>4, AlikeFact
    <3> QED BY <3>1, <3>2
  <2>10. ASSUME NEW g \in 1..(n + 1), NEW h \in 1..(n + 1), Alike(merged[g], merged[h]) PROVE g = h
    <3>1. CASE g \in 1..n /\ h \in 1..n BY <3>1, <2>10, <2>2, <1>1 DEF MergedOf
    <3>2. CASE g = n + 1 /\ h \in 1..n BY <3>2, <2>10, <2>2, <2>5, AlikeFact
    <3>3. CASE h = n + 1 /\ g \in 1..n BY <3>3, <2>10, <2>2, <2>5, AlikeFact
    <3> QED BY <3>1, <3>2, <3>3, <2>3
  <2> QED BY <2>2, <2>8, <2>9, <2>10 DEF MergedOf, merged
<1>7. CASE I # {}
  <2>1. first \in I
    <3>1. I \subseteq Nat BY <1>1
    <3> HIDE DEF I, first
    <3> QED BY <1>2, <1>7, <3>1, MinFact
  <2>2. first \in 1..n /\ Alike(groups[first], r) /\ first # 0 BY <2>1, <1>1
  <2>3. merged = [groups EXCEPT ![first].topic0 = Joined(@, r.topic0)] BY <2>2 DEF MergeInto
  <2> HIDE DEF merged, first
  <2> DEFINE one == [groups[first] EXCEPT !.topic0 = Joined(@, r.topic0)]
  <2>4. /\ DOMAIN merged = 1..n /\ merged[first] = one
        /\ \A i \in 1..n : i # first => merged[i] = groups[i]
    BY <1>1, <2>2, <2>3
  <2>5. /\ one.topic0 = Joined(groups[first].topic0, r.topic0)
        /\ one.address = groups[first].address /\ one.topic1 = groups[first].topic1
    BY <1>1, <2>2 DEF LogRequests
  <2> HIDE DEF one
  <2>6. \A x : Alike(x, one) <=> Alike(x, groups[first])
    BY <2>5 DEF Alike
  <2>7. \A i \in 1..n : \A x : Alike(x, merged[i]) <=> Alike(x, groups[i]) BY <2>4, <2>6
  <2>8. \A i \in 1..n : i # first => ~Alike(groups[i], r)
    <3> SUFFICES ASSUME NEW i \in 1..n, i # first, Alike(groups[i], r) PROVE FALSE OBVIOUS
    <3>1. Alike(groups[i], groups[first]) BY <2>2, AlikeFact
    <3> QED BY <3>1, <1>1, <2>2 DEF MergedOf
  <2>9. ASSUME NEW g \in 1..n
        PROVE (\E q \in Q : Alike(q, merged[g])) /\ merged[g].topic0 = TopicsAlike(Q, merged[g])
    <3>1. (\E q \in P : Alike(q, groups[g])) /\ groups[g].topic0 = TopicsAlike(P, groups[g])
      BY <1>1 DEF MergedOf
    <3>2. \E q \in Q : Alike(q, merged[g]) BY <3>1, <2>7
    <3>3. CASE g # first
      <4>1. merged[g] = groups[g] /\ ~Alike(groups[g], r) BY <3>3, <2>4, <2>8
      <4> QED BY <4>1, <3>1, <3>2, <1>1, <1>3
    <3>4. CASE g = first
      <4>1. merged[g] = one /\ Alike(one, r) BY <3>4, <2>4, <2>2, <2>6, AlikeFact
      <4>2. TopicsAlike(Q, one) = Joined(TopicsAlike(P, one), r.topic0) BY <4>1, <1>4
      <4>3. TopicsAlike(P, one) = TopicsAlike(P, groups[first])
        BY <2>6, <1>5, AlikeFact
      <4> QED BY <4>1, <4>2, <4>3, <3>1, <3>2, <3>4, <2>5
    <3> QED BY <3>3, <3>4
  <2>10. ASSUME NEW q \in Q PROVE \E g \in 1..n : Alike(merged[g], q)
    <3>1. PICK g \in 1..n : Alike(groups[g], q)
      <4>1. CASE q \in P BY <4>1, <1>1 DEF MergedOf
      <4>2. CASE q = r BY <4>2, <2>2
      <4> QED BY <4>1, <4>2
    <3> QED BY <3>1, <2>7, AlikeFact
  <2>11. ASSUME NEW g \in 1..n, NEW h \in 1..n, Alike(merged[g], merged[h]) PROVE g = h
    <3>1. Alike(merged[g], groups[h]) BY <2>11, <2>7
    <3>2. Alike(groups[h], groups[g]) BY <3>1, <2>7, AlikeFact
    <3> QED BY <3>2, <1>1 DEF MergedOf
  <2> QED BY <2>4, <2>9, <2>10, <2>11 DEF MergedOf, merged
<1> QED BY <1>6, <1>7

LEMMA MergeExact ==
  ASSUME NEW A, NEW U, NEW B, NEW requests \in Seq(LogRequests(A, U, B)), NoTopics(U)
  PROVE  /\ MergeLogRequests(requests) \in Seq(LogRequests(A, U, B))
         /\ MergedOf(MergeLogRequests(requests), ToSet(requests))
PROOF
<1> DEFINE k == Len(requests)  R == LogRequests(A, U, B)
<1>0. MergesIn(R) BY MergeStep DEF MergesIn
<1>1. PICK run : /\ run[0] = <<>> /\ \A i \in 1..k : run[i] = MergeInto(run[i - 1], requests[i])
                 /\ MergeLogRequests(requests) = run[k]
  <2> HIDE DEF R
  <2>1. requests \in Seq(R) BY DEF R
  <2> QED BY <1>0, <2>1, MergeRuns
<1>2. k \in Nat /\ DOMAIN requests = 1..k /\ \A i \in 1..k : requests[i] \in R
  BY LenProperties, ElementOfSeq
<1> DEFINE Upto(i) == {requests[j] : j \in 1..i}
           Fine(i) == run[i] \in Seq(R) /\ MergedOf(run[i], Upto(i))
           Wrong == {i \in 0..k : ~Fine(i)}
<1> HIDE DEF k, R
<1>3. SUFFICES Wrong = {}
  <2>1. k \in 0..k BY <1>2
  <2>2. Fine(k) BY <2>1, <1>3
  <2>3. ToSet(requests) = Upto(k) BY <1>2 DEF ToSet
  <2> QED BY <1>1, <2>2, <2>3 DEF R
<1>4. SUFFICES ASSUME Wrong # {} PROVE FALSE OBVIOUS
<1>5. PICK i \in Wrong : \A j \in Wrong : i <= j
  <2>1. Wrong \subseteq Nat BY <1>2
  <2> HIDE DEF Wrong
  <2> QED BY <1>4, <2>1, LeastElement
<1>6. i \in 0..k /\ ~Fine(i) OBVIOUS
<1>7. i # 0
  <2>1. <<>> \in Seq(R) /\ DOMAIN <<>> = 1..0 BY EmptySeq
  <2>2. \A j \in 1..0 : FALSE OBVIOUS
  <2>3. Upto(0) = {} BY <2>2
  <2>4. MergedOf(<<>>, {}) BY <2>1, <2>2 DEF MergedOf
  <2> QED BY <1>1, <1>6, <2>1, <2>3, <2>4
<1>8. i - 1 \in 0..k /\ i \in 1..k BY <1>2, <1>6, <1>7
<1>9. Fine(i - 1)
  <2>1. i - 1 \notin Wrong
    <3> HIDE DEF Wrong
    <3> QED BY <1>2, <1>5, <1>6, <1>8
  <2> QED BY <2>1, <1>8
<1>10. run[i] = MergeInto(run[i - 1], requests[i]) /\ requests[i] \in R BY <1>1, <1>2, <1>8
<1>11. Upto(i) = Upto(i - 1) \cup {requests[i]}
  <2>1. \A j \in 1..i : j \in 1..(i - 1) \/ j = i BY <1>2, <1>6
  <2>2. 1..(i - 1) \subseteq 1..i /\ i \in 1..i BY <1>2, <1>8
  <2> QED BY <2>1, <2>2
<1>12. Upto(i - 1) \in SUBSET R
  <2>1. 1..(i - 1) \subseteq 1..k BY <1>2, <1>8
  <2> QED BY <2>1, <1>2
<1> DEFINE last == run[i - 1]  more == requests[i]  P == Upto(i - 1)
<1>13. last \in Seq(R) /\ MergedOf(last, P) BY <1>9
<1> HIDE DEF last, more, P, Fine, Wrong, Upto
<1>14. MergeInto(last, more) \in Seq(R) BY <1>13, <1>10, MergeStep DEF R, more
<1>15. MergedOf(MergeInto(last, more), P \cup {more})
  BY <1>10, <1>12, <1>13, MergeIntoExact DEF R, more, P
<1> QED BY <1>6, <1>10, <1>11, <1>14, <1>15 DEF Fine, last, more, P

(* No batch is empty.                                                        *)
LEMMA BatchesHold ==
  ASSUME NEW S, NEW addresses \in Seq(S)
  PROVE  \A b \in ToSet(Batches(addresses)) : b \in Seq(S) /\ ToSet(b) # {} /\ ToSet(b) \subseteq ToSet(addresses)
PROOF
<1> DEFINE n == Len(addresses)  M == MaxAddresses  K == (n + M - 1) \div M
           Batch(i) == SubSeq(addresses, (i - 1) * M + 1, Min({i * M, n}))
<1>1. n \in Nat /\ DOMAIN addresses = 1..n /\ \A i \in 1..n : addresses[i] \in S
  BY LenProperties, ElementOfSeq
<1>2. M \in Nat \ {0} BY FetchSpecAssumption
<1>3. K \in Nat /\ K * M <= n + M - 1
  <2> HIDE DEF n, M
  <2>1. n + M - 1 \in Nat BY <1>1, <1>2
  <2> QED BY <2>1, <1>2, DivFact
<1>4. Batches(addresses) = [i \in 1..K |-> Batch(i)] BY DEF Batches
<1> HIDE DEF n, M, K
<1>5. ASSUME NEW i \in 1..K
      PROVE  ToSet(Batch(i)) # {}
  <2> DEFINE lo == (i - 1) * M + 1  hi == Min({i * M, n})  low == (i - 1) * M  high == i * M
  <2>1. i \in Nat \ {0} /\ i - 1 \in Nat BY <1>3
  <2>2. low \in Nat /\ high \in Nat /\ high = low + M BY <2>1, <1>2
  <2>3. hi = IF high <= n THEN high ELSE n
    <3>1. high \in Int /\ n \in Int BY <2>2, <1>1
    <3> HIDE DEF high
    <3> QED BY <3>1, MinOfTwo DEF high
  <2>4. high <= K * M BY <1>2, <1>3
  <2>5. lo <= hi /\ lo \in Int /\ hi \in Int /\ lo >= 1 /\ hi <= n
    <3>1. lo = low + 1 OBVIOUS
    <3>2. K * M \in Int BY <1>2, <1>3
    <3> DEFINE most == K * M
    <3>3. most \in Int /\ high <= most /\ most <= n + M - 1 BY <3>2, <2>4, <1>3
    <3> HIDE DEF lo, hi, low, high, most
    <3> QED BY <3>1, <3>3, <2>2, <2>3, <1>1, <1>2
  <2> HIDE DEF lo, hi
  <2>6. \A p \in lo..hi : addresses[p] \in S BY <2>5, <1>1
  <2>7. SubSeq(addresses, lo, hi) \in Seq(S) /\ Len(SubSeq(addresses, lo, hi)) = hi - lo + 1
    BY <2>5, <2>6, SubSeqProperties
  <2> DEFINE b == SubSeq(addresses, lo, hi)
  <2>8. DOMAIN b = 1..(hi - lo + 1) BY <2>7, LenProperties
  <2> HIDE DEF b
  <2>9. 1 \in DOMAIN b BY <2>5, <2>8
  <2>10. b[1] \in ToSet(b) BY <2>9 DEF ToSet
  <2> QED BY <2>10 DEF b, lo, hi
<1>6. \A b \in ToSet(Batches(addresses)) : ToSet(b) # {}
  <2> HIDE DEF Batch
  <2> QED BY <1>4, <1>5 DEF ToSet
<1>7. Batches(addresses) \in Seq(Seq(ToSet(addresses))) BY SequenceOfMembers, BatchesFact
<1>8. \A b \in ToSet(Batches(addresses)) : b \in Seq(ToSet(addresses))
  <2> DEFINE T == Seq(ToSet(addresses))  s == Batches(addresses)
  <2>1. s \in Seq(T) BY <1>7
  <2> HIDE DEF T, s
  <2>2. ToSet(s) \subseteq T BY <2>1, SequenceOfMembers
  <2> QED BY <2>2 DEF T, s
<1>9. ASSUME NEW b \in ToSet(Batches(addresses)) PROVE b \in Seq(S) /\ ToSet(b) \subseteq ToSet(addresses)
  <2>1. b \in Seq(ToSet(addresses)) BY <1>8
  <2>2. ToSet(addresses) \subseteq S BY SequenceOfMembers
  <2> QED BY <2>1, <2>2, SequenceOfMembers, SeqMonotonic
<1> QED BY <1>6, <1>9

(* The requests of the realtime, before they are merged.                      *)
Registry(known) == DOMAIN known = Factory /\ \A f \in Factory : known[f] \in Seq(Born(f))
LogFilters == {i \in DOMAIN app : app[i].type = "log"}
BatchesOf(ref, known) ==
  LET addresses == AddressesOf(ref, known)
  IN  IF addresses = Undefined THEN {Undefined} ELSE ToSet(Batches(addresses))
FilterRequest(i, b) == [address |-> b, topic0 |-> app[i].topic0, topic1 |-> app[i].topic1]
RequestsOf(i, known) == {FilterRequest(i, b) : b \in BatchesOf(app[i].address, known)}
Discoveries == {DiscoveryRequest(f) : f \in FactoriesOf(app)}
RequestSet(known) == (UNION {RequestsOf(i, known) : i \in LogFilters}) \cup Discoveries

LEMMA FactoriesFinite ==
  ASSUME app \in Apps
  PROVE  IsFiniteSet(FactoriesOf(app))
PROOF
<1> DEFINE names == {"address", "from", "to"}  D == (DOMAIN app) \X names
           g == [x \in D |-> app[x[1]][x[2]]]
<1>1. IsFiniteSet(DOMAIN app) BY AppFact
<1>2. IsFiniteSet(names)
  <2>1. names = {"address"} \cup {"from"} \cup {"to"} OBVIOUS
  <2>2. IsFiniteSet({"address"}) /\ IsFiniteSet({"from"}) /\ IsFiniteSet({"to"}) BY FS_Singleton
  <2> QED BY <2>1, <2>2, FS_Union
<1>3. IsFiniteSet(D)
  <2> HIDE DEF names
  <2> QED BY <1>1, <1>2, FS_Product
<1>4. IsFiniteSet({g[x] : x \in D})
  <2>1. DOMAIN g = D OBVIOUS
  <2> HIDE DEF g, D
  <2> QED BY <1>3, <2>1, ImageFinite
<1>5. FactoriesOf(app) \subseteq {g[x] : x \in D}
  <2> SUFFICES ASSUME NEW f \in FactoriesOf(app) PROVE f \in {g[x] : x \in D} OBVIOUS
  <2>1. PICK i \in DOMAIN app, field \in names : app[i][field] = f BY DEF FactoriesOf, AddressFields
  <2>2. <<i, field>> \in D /\ g[<<i, field>>] = f BY <2>1
  <2> HIDE DEF g, D
  <2> QED BY <2>2
<1> HIDE DEF g, D
<1> QED BY <1>4, <1>5, FS_Subset

LEMMA LogRequestsExact ==
  ASSUME app \in Apps, NEW known, Registry(known), NEW i \in LogFilters
  PROVE  /\ LogRequestsFor(app[i], known) \in Seq(RequestsOf(i, known))
         /\ ToSet(LogRequestsFor(app[i], known)) = RequestsOf(i, known)
         /\ AddressesOf(app[i].address, known) # Undefined =>
              \E S : AddressesOf(app[i].address, known) \in Seq(S)
PROOF
<1> DEFINE addresses == AddressesOf(app[i].address, known)
           batches == IF addresses = Undefined THEN <<Undefined>> ELSE Batches(addresses)
           requests == LogRequestsFor(app[i], known)
           R == RequestsOf(i, known)
<1>1. i \in DOMAIN app /\ IsReference(app[i].address) BY AppsAssumption DEF IsFilter, LogFilters
<1>2. addresses # Undefined => \E S : addresses \in Seq(S)
  <2>1. CASE app[i].address \in Factory BY <2>1 DEF AddressesOf, Registry
  <2>2. CASE app[i].address \notin Factory
    <3>1. addresses = app[i].address BY <2>2 DEF AddressesOf
    <3> QED BY <1>1, <2>2, <3>1 DEF IsReference
  <2> QED BY <2>1, <2>2
<1>3. requests = [j \in DOMAIN batches |-> FilterRequest(i, batches[j])]
  BY DEF LogRequestsFor, FilterRequest
<1>4. /\ Len(batches) \in Nat /\ DOMAIN batches = 1..Len(batches)
      /\ ToSet(batches) = BatchesOf(app[i].address, known)
  <2>1. CASE addresses = Undefined
    <3>1. batches = <<Undefined>> /\ BatchesOf(app[i].address, known) = {Undefined}
      BY <2>1 DEF BatchesOf
    <3> HIDE DEF batches
    <3> QED BY <3>1 DEF ToSet
  <2>2. CASE addresses # Undefined
    <3>1. PICK S : addresses \in Seq(S) BY <1>2, <2>2
    <3>2. Batches(addresses) \in Seq(Seq(S))
      <4> HIDE DEF addresses
      <4> QED BY <3>1, BatchesFact
    <3>3. batches = Batches(addresses) /\ BatchesOf(app[i].address, known) = ToSet(Batches(addresses))
      BY <2>2 DEF BatchesOf
    <3> HIDE DEF batches, addresses
    <3> QED BY <3>2, <3>3, LenProperties
  <2> QED BY <2>1, <2>2
<1> HIDE DEF batches, addresses
<1>5. R = {FilterRequest(i, batches[j]) : j \in DOMAIN batches}
  <2>1. \A b : b \in ToSet(batches) <=> \E j \in DOMAIN batches : b = batches[j] BY DEF ToSet
  <2>2. R = {FilterRequest(i, b) : b \in ToSet(batches)} BY <1>4 DEF RequestsOf
  <2> HIDE DEF R
  <2> QED BY <2>1, <2>2
<1> HIDE DEF R, requests
<1>6. requests \in Seq(R)
  <2> DEFINE n == Len(batches)
  <2>1. n \in Nat /\ DOMAIN batches = 1..n BY <1>4
  <2> HIDE DEF n
  <2>2. [j \in 1..n |-> FilterRequest(i, batches[j])] \in [1..n -> R] BY <1>5, <2>1
  <2>3. [j \in 1..n |-> FilterRequest(i, batches[j])] \in Seq(R) BY <2>1, <2>2, IsASeq
  <2> QED BY <1>3, <2>1, <2>3
<1>7. ToSet(requests) = R
  <2>1. DOMAIN requests = DOMAIN batches /\ \A j \in DOMAIN batches : requests[j] = FilterRequest(i, batches[j])
    BY <1>3
  <2> QED BY <1>5, <2>1 DEF ToSet
<1> QED BY <1>2, <1>6, <1>7 DEF R, requests, addresses

LEMMA AllRequestsExact ==
  ASSUME app \in Apps, NEW known, Registry(known)
  PROVE  /\ AllLogRequests(app, known) \in Seq(RequestSet(known))
         /\ ToSet(AllLogRequests(app, known)) = UNION {RequestsOf(i, known) : i \in LogFilters}
PROOF
<1> DEFINE R == RequestSet(known)
           Part(i) == IF app[i].type = "log" THEN LogRequestsFor(app[i], known) ELSE <<>>
           parts == [i \in DOMAIN app |-> Part(i)]
<1>1. Len(app) \in Nat /\ DOMAIN app = 1..Len(app) BY AppFact
<1>2. AllLogRequests(app, known) = FlattenSeq(parts) BY DEF AllLogRequests
<1>3. ASSUME NEW i \in LogFilters
      PROVE  Part(i) \in Seq(R) /\ ToSet(Part(i)) = RequestsOf(i, known)
  <2>1. Part(i) = LogRequestsFor(app[i], known) BY DEF LogFilters
  <2>2. RequestsOf(i, known) \subseteq R BY DEF RequestSet
  <2> HIDE DEF Part, R
  <2> QED BY <2>1, <2>2, LogRequestsExact, SeqMonotonic
<1>4. ASSUME NEW i \in DOMAIN app, i \notin LogFilters
      PROVE  Part(i) \in Seq(R) /\ ToSet(Part(i)) = {}
  <2>1. Part(i) = <<>> BY <1>4 DEF LogFilters
  <2> HIDE DEF Part, R
  <2>2. <<>> \in Seq(R) /\ DOMAIN <<>> = {} BY EmptySeq
  <2> QED BY <2>1, <2>2 DEF ToSet
<1> HIDE DEF R, Part
<1>5. parts \in Seq(Seq(R)) /\ DOMAIN parts = DOMAIN app /\ \A i \in DOMAIN app : parts[i] = Part(i)
  <2> DEFINE T == Seq(R)  n == Len(app)
  <2>1. n \in Nat /\ DOMAIN app = 1..n /\ \A i \in 1..n : Part(i) \in T BY <1>1, <1>3, <1>4
  <2> HIDE DEF T, n
  <2>2. [i \in 1..n |-> Part(i)] \in [1..n -> T] BY <2>1
  <2>3. [i \in 1..n |-> Part(i)] \in Seq(T) BY <2>1, <2>2, IsASeq
  <2> QED BY <2>1, <2>3 DEF T
<1> HIDE DEF parts
<1>6. FlattenSeq(parts) \in Seq(R) /\ ToSet(FlattenSeq(parts)) = UNION {ToSet(parts[i]) : i \in DOMAIN parts}
  BY <1>5, FlattenFact
<1>7. UNION {ToSet(parts[i]) : i \in DOMAIN parts} = UNION {RequestsOf(i, known) : i \in LogFilters}
  <2>1. \A x : (\E i \in DOMAIN app : x \in ToSet(Part(i))) <=> (\E i \in LogFilters : x \in RequestsOf(i, known))
    BY <1>3, <1>4 DEF LogFilters
  <2> QED BY <2>1, <1>5
<1> QED BY <1>2, <1>6, <1>7 DEF R

LEMMA RequestTypes ==
  ASSUME NEW known
  PROVE  /\ RequestSet(known) \subseteq
              LogRequests({r.address : r \in RequestSet(known)}, TopicsOf(app), {r.topic1 : r \in RequestSet(known)})
         /\ \A r \in RequestSet(known) : r.topic0 \in (SUBSET TopicsOf(app)) \cup {Undefined}
PROOF
<1> DEFINE R == RequestSet(known)  U == TopicsOf(app)
<1>1. ASSUME NEW r \in R
      PROVE  /\ r = [address |-> r.address, topic0 |-> r.topic0, topic1 |-> r.topic1]
             /\ r.topic0 \in (SUBSET U) \cup {Undefined}
  <2>1. CASE r \in Discoveries
    <3>1. PICK f \in FactoriesOf(app) : r = DiscoveryRequest(f) BY <2>1 DEF Discoveries
    <3>2. r.topic0 = {Selector[f]} /\ Selector[f] \in U
      BY <3>1 DEF DiscoveryRequest, TopicsOf, FactoriesOf
    <3> QED BY <3>1, <3>2 DEF DiscoveryRequest
  <2>2. CASE r \notin Discoveries
    <3>1. PICK i \in LogFilters : r \in RequestsOf(i, known) BY <2>2 DEF RequestSet
    <3>2. PICK b : r = FilterRequest(i, b) BY <3>1 DEF RequestsOf
    <3>3. r.topic0 = app[i].topic0 BY <3>2 DEF FilterRequest
    <3>4. app[i].topic0 # Undefined => app[i].topic0 \subseteq U BY DEF TopicsOf, LogFilters
    <3> QED BY <3>2, <3>3, <3>4 DEF FilterRequest
  <2> QED BY <2>1, <2>2
<1> HIDE DEF R, U
<1>2. ASSUME NEW r \in R PROVE r \in LogRequests({x.address : x \in R}, U, {x.topic1 : x \in R})
  <2>1. r.address \in {x.address : x \in R} /\ r.topic1 \in {x.topic1 : x \in R} OBVIOUS
  <2> QED BY <1>1, <2>1 DEF LogRequests
<1> QED BY <1>1, <1>2 DEF R, U

(* What is asked of the realtime: the groups of the requests of every filter    *)
(* and every factory.                                                       *)
LEMMA BuiltRequests ==
  ASSUME app \in Apps, NEW known, Registry(known), NEW groups, groups = BuildPortalLogRequests(app, known)
  PROVE  /\ MergedOf(groups, RequestSet(known))
         /\ Len(groups) \in Nat /\ DOMAIN groups = 1..Len(groups)
         /\ \A g \in DOMAIN groups :
              groups[g] = [address |-> groups[g].address, topic0 |-> groups[g].topic0, topic1 |-> groups[g].topic1]
PROOF
<1> DEFINE R == RequestSet(known)  U == TopicsOf(app)
           L == LogRequests({r.address : r \in R}, U, {r.topic1 : r \in R})
           fs == SetToSeq(FactoriesOf(app))
           more == [i \in DOMAIN fs |-> DiscoveryRequest(fs[i])]
           all == AllLogRequests(app, known) \o more
<1>1. fs \in Seq(FactoriesOf(app)) /\ ToSet(fs) = FactoriesOf(app)
  BY FactoriesFinite, SetToSeqFact
<1>2. Len(fs) \in Nat /\ DOMAIN fs = 1..Len(fs)
  <2> HIDE DEF fs
  <2> QED BY <1>1, LenProperties
<1> HIDE DEF fs
<1>3. \A r : r \in Discoveries <=> \E i \in DOMAIN fs : r = DiscoveryRequest(fs[i])
  BY <1>1 DEF Discoveries, ToSet
<1>4. more \in Seq(R) /\ ToSet(more) = Discoveries
  <2>1. \A i \in DOMAIN fs : DiscoveryRequest(fs[i]) \in R BY <1>3 DEF RequestSet
  <2>2. DOMAIN more = DOMAIN fs /\ \A i \in DOMAIN fs : more[i] = DiscoveryRequest(fs[i]) OBVIOUS
  <2> DEFINE n == Len(fs)
  <2>3. n \in Nat /\ DOMAIN fs = 1..n BY <1>2
  <2> HIDE DEF n, R
  <2>4. more \in [1..n -> R] BY <2>1, <2>3
  <2>5. more \in Seq(R) BY <2>3, <2>4, IsASeq
  <2> QED BY <1>3, <2>2, <2>5 DEF ToSet
<1>5. /\ AllLogRequests(app, known) \in Seq(R)
      /\ ToSet(AllLogRequests(app, known)) = UNION {RequestsOf(i, known) : i \in LogFilters}
  BY AllRequestsExact
<1> HIDE DEF R, more
<1>6. all \in Seq(R) /\ ToSet(all) = R
  <2>1. all \in Seq(R) /\ ToSet(all) = ToSet(AllLogRequests(app, known)) \cup ToSet(more)
    BY <1>4, <1>5, MembersOfConcat
  <2> QED BY <2>1, <1>4, <1>5 DEF RequestSet, R
<1>7. groups = MergeLogRequests(all) BY DEF BuildPortalLogRequests, fs, more
<1> HIDE DEF all
<1>8. R \subseteq L BY RequestTypes DEF R
<1>9. NoTopics(U) BY AppsAssumption DEF NoTopics
<1>10. groups \in Seq(L) /\ MergedOf(groups, R)
  <2>1. all \in Seq(L)
    <3> HIDE DEF L
    <3> QED BY <1>6, <1>8, SeqMonotonic
  <2> HIDE DEF U
  <2> QED BY <2>1, <1>6, <1>7, <1>9, MergeExact
<1>11. Len(groups) \in Nat /\ DOMAIN groups = 1..Len(groups)
       /\ \A g \in DOMAIN groups : groups[g] \in L
  <2> HIDE DEF L
  <2> QED BY <1>10, LenProperties, ElementOfSeq
<1>12. \A g \in DOMAIN groups :
         groups[g] = [address |-> groups[g].address, topic0 |-> groups[g].topic0, topic1 |-> groups[g].topic1]
  BY <1>11 DEF LogRequests
<1> QED BY <1>10, <1>11, <1>12 DEF R

-----------------------------------------------------------------------------
(* The requests of children, apart from all others.                           *)
(* RequestsApart, of any registry of children.                                *)
Apart(known) ==
  \A i \in LogFilters : app[i].address \in Factory =>
    /\ \A j \in LogFilters : app[j].address \notin {app[i].address, Undefined} =>
         \A b \in ToSet(Batches(known[app[i].address])),
            c \in ToSet(Batches(AddressesOf(app[j].address, known))) : ToSet(b) # ToSet(c)
    /\ \A f \in FactoriesOf(app) :
         IF FactoryAddress[f] = Undefined
         THEN app[i].topic0 = Undefined \/ Selector[f] \notin app[i].topic0
         ELSE ToSet(known[app[i].address]) \cap ToSet(FactoryAddress[f]) = {}

LEMMA ApartFact == RequestsApart <=> Apart(children)
BY DEF RequestsApart, Apart, LogFilters

(* The requests that children have no part in.                               *)
Fixed(known) ==
  (UNION {RequestsOf(i, known) : i \in {j \in LogFilters : app[j].address \notin Factory}}) \cup Discoveries
FilterOfChildren(i) == i \in LogFilters /\ app[i].address \in Factory

(* The filters of the same factory and topics, and what they ask for together.  *)
Peers(i) == {j \in LogFilters : app[j].address = app[i].address /\ app[j].topic1 = app[i].topic1}
PeerTopics(i) == JoinAll({app[j].topic0 : j \in Peers(i)})
PeerKey(i) == [topic0 |-> PeerTopics(i), topic1 |-> app[i].topic1]

LEMMA FixedSame ==
  ASSUME NEW known, NEW more
  PROVE  Fixed(known) = Fixed(more)
PROOF
<1>1. \A i \in LogFilters : app[i].address \notin Factory => RequestsOf(i, known) = RequestsOf(i, more)
  BY DEF RequestsOf, BatchesOf, AddressesOf
<1> QED BY <1>1 DEF Fixed

LEMMA ChildBatch ==
  ASSUME NEW known, Registry(known), NEW i, FilterOfChildren(i)
  PROVE  /\ AddressesOf(app[i].address, known) = known[app[i].address]
         /\ known[app[i].address] # Undefined
         /\ BatchesOf(app[i].address, known) = ToSet(Batches(known[app[i].address]))
         /\ \A b \in ToSet(Batches(known[app[i].address])) :
              /\ b # Undefined /\ ToSet(b) # {} /\ ToSet(b) \subseteq ToSet(known[app[i].address])
              /\ FilterRequest(i, b) \in RequestsOf(i, known)
              /\ FilterRequest(i, b) \in RequestSet(known)
PROOF
<1> DEFINE F == app[i].address
<1>1. i \in LogFilters /\ F \in Factory BY DEF FilterOfChildren
<1>2. known[F] \in Seq(Born(F)) /\ Undefined \notin Seq(Born(F))
  BY <1>1, ChainAssumption DEF Registry, Born
<1>3. AddressesOf(F, known) = known[F] /\ known[F] # Undefined BY <1>1, <1>2 DEF AddressesOf
<1>4. BatchesOf(F, known) = ToSet(Batches(known[F])) BY <1>3 DEF BatchesOf
<1>5. ASSUME NEW b \in ToSet(Batches(known[F]))
      PROVE  b # Undefined /\ ToSet(b) # {} /\ ToSet(b) \subseteq ToSet(known[F])
  <2>1. b \in Seq(Born(F)) /\ ToSet(b) # {} /\ ToSet(b) \subseteq ToSet(known[F])
    BY <1>2, BatchesHold
  <2> QED BY <2>1, <1>2
<1>6. \A b \in ToSet(Batches(known[F])) :
        FilterRequest(i, b) \in RequestsOf(i, known) /\ FilterRequest(i, b) \in RequestSet(known)
  BY <1>1, <1>4 DEF RequestsOf, RequestSet
<1> QED BY <1>3, <1>4, <1>5, <1>6

(* A request of children is like none of something else.                      *)
LEMMA ChildrenApart ==
  ASSUME app \in Apps, NEW known, Registry(known), Apart(known), NEW i, FilterOfChildren(i),
         NEW b \in ToSet(Batches(known[app[i].address]))
  PROVE  /\ \A x \in Fixed(known) : ~Alike(x, FilterRequest(i, b))
         /\ \A j \in LogFilters : app[j].address # app[i].address =>
              \A x \in RequestsOf(j, known) : ~Alike(x, FilterRequest(i, b))
PROOF
<1> DEFINE F == app[i].address  r == FilterRequest(i, b)
<1>1. i \in LogFilters /\ F \in Factory /\ b # Undefined /\ ToSet(b) # {} /\ ToSet(b) \subseteq ToSet(known[F])
  BY ChildBatch DEF FilterOfChildren
<1>2. r.address = b BY DEF FilterRequest
<1>3. ASSUME NEW x, Alike(x, r) PROVE x.address # Undefined /\ ToSet(x.address) = ToSet(b)
  BY <1>1, <1>2, <1>3 DEF Alike, SameAddresses
<1>4. ASSUME NEW j \in LogFilters, app[j].address # F, NEW x \in RequestsOf(j, known), Alike(x, r)
      PROVE  FALSE
  <2>1. PICK c \in BatchesOf(app[j].address, known) : x = FilterRequest(j, c) BY DEF RequestsOf
  <2>2. x.address = c BY <2>1 DEF FilterRequest
  <2>3. c # Undefined /\ ToSet(c) = ToSet(b) BY <1>3, <1>4, <2>2
  <2>4. AddressesOf(app[j].address, known) # Undefined /\ c \in ToSet(Batches(AddressesOf(app[j].address, known)))
    BY <2>3 DEF BatchesOf
  <2>5. app[j].address # Undefined
    BY <2>4, FetchSpecAssumption DEF AddressesOf
  <2>6. ToSet(b) # ToSet(c) BY <1>1, <1>4, <2>4, <2>5 DEF Apart
  <2> QED BY <2>3, <2>6
<1>5. ASSUME NEW x \in Discoveries, Alike(x, r) PROVE FALSE
  <2>1. PICK f \in FactoriesOf(app) : x = DiscoveryRequest(f) BY DEF Discoveries
  <2>2. x.address = FactoryAddress[f] BY <2>1 DEF DiscoveryRequest
  <2>3. FactoryAddress[f] # Undefined /\ ToSet(FactoryAddress[f]) = ToSet(b) BY <2>2, <1>3, <1>5
  <2>4. ToSet(known[F]) \cap ToSet(FactoryAddress[f]) = {} BY <1>1, <2>1, <2>3 DEF Apart
  <2> QED BY <1>1, <2>3, <2>4
<1> QED BY <1>1, <1>4, <1>5 DEF Fixed

(* So it is joined with those of its peers alone.                              *)
LEMMA PeersOnly ==
  ASSUME app \in Apps, NEW known, Registry(known), Apart(known), NEW i, FilterOfChildren(i),
         NEW b \in ToSet(Batches(known[app[i].address])), NEW r, Alike(r, FilterRequest(i, b))
  PROVE  TopicsAlike(RequestSet(known), r) = PeerTopics(i)
PROOF
<1> DEFINE F == app[i].address  R == RequestSet(known)  one == FilterRequest(i, b)
<1>1. i \in LogFilters /\ F \in Factory BY DEF FilterOfChildren
<1>2. one.address = b /\ one.topic1 = app[i].topic1 BY DEF FilterRequest
<1>3. ASSUME NEW x \in R, Alike(x, r) PROVE \E j \in Peers(i) : x.topic0 = app[j].topic0
  <2>1. Alike(x, one) BY <1>3, AlikeFact
  <2>2. x \notin Discoveries
    <3> HIDE DEF one
    <3> QED BY <2>1, ChildrenApart DEF Fixed, one
  <2>3. PICK j \in LogFilters : x \in RequestsOf(j, known) BY <2>2 DEF RequestSet
  <2>4. app[j].address = F
    <3> HIDE DEF one
    <3> QED BY <2>1, <2>3, ChildrenApart DEF one
  <2>5. PICK c : x = FilterRequest(j, c) BY <2>3 DEF RequestsOf
  <2>6. x.topic0 = app[j].topic0 /\ x.topic1 = app[j].topic1 BY <2>5 DEF FilterRequest
  <2>7. x.topic1 = app[i].topic1 BY <2>1, <1>2 DEF Alike
  <2> QED BY <2>4, <2>6, <2>7 DEF Peers
<1>4. ASSUME NEW j \in Peers(i) PROVE \E x \in R : Alike(x, r) /\ x.topic0 = app[j].topic0
  <2> DEFINE x == FilterRequest(j, b)
  <2>1. j \in LogFilters /\ app[j].address = F /\ app[j].topic1 = app[i].topic1 BY DEF Peers
  <2>2. FilterOfChildren(j) BY <1>1, <2>1 DEF FilterOfChildren
  <2>3. b \in ToSet(Batches(known[app[j].address])) BY <2>1
  <2>4. x \in R BY <2>2, <2>3, ChildBatch
  <2>5. x.address = b /\ x.topic1 = app[i].topic1 /\ x.topic0 = app[j].topic0 BY <2>1 DEF FilterRequest
  <2>6. Alike(x, one) BY <2>5, <1>2 DEF Alike, SameAddresses
  <2>7. Alike(x, r) BY <2>6, AlikeFact
  <2> QED BY <2>4, <2>5, <2>7
<1>5. {q.topic0 : q \in {x \in R : Alike(x, r)}} = {app[j].topic0 : j \in Peers(i)}
  <2> HIDE DEF R
  <2>1. \A t : (\E q \in {x \in R : Alike(x, r)} : t = q.topic0) <=> (\E j \in Peers(i) : t = app[j].topic0)
    BY <1>3, <1>4
  <2> QED BY <2>1
<1> QED BY <1>5 DEF TopicsAlike, PeerTopics

(* A batch of children is asked for by a group of its own, that is not taken    *)
(* for a discovery request.                                                 *)
LEMMA ChildGroup ==
  ASSUME app \in Apps, NEW known, Registry(known), Apart(known), NEW i, FilterOfChildren(i),
         NEW b \in ToSet(Batches(known[app[i].address])),
         NEW groups, groups = BuildPortalLogRequests(app, known)
  PROVE  \E g \in DOMAIN groups :
           /\ groups[g].address # Undefined /\ ToSet(groups[g].address) = ToSet(b)
           /\ WildcardKey(groups[g]) = PeerKey(i) /\ ~IsDiscoveryRequest(app, groups[g])
PROOF
<1> DEFINE F == app[i].address  R == RequestSet(known)  one == FilterRequest(i, b)
<1>1. i \in LogFilters /\ F \in Factory BY DEF FilterOfChildren
<1>2. one.address = b /\ one.topic1 = app[i].topic1 BY DEF FilterRequest
<1>3. /\ b # Undefined /\ ToSet(b) # {} /\ ToSet(b) \subseteq ToSet(known[F]) /\ one \in R
  BY ChildBatch
<1>4. MergedOf(groups, R) BY BuiltRequests
<1>5. PICK g \in DOMAIN groups : Alike(groups[g], one) BY <1>3, <1>4 DEF MergedOf
<1> DEFINE q == groups[g]
<1>6. q.address # Undefined /\ ToSet(q.address) = ToSet(b) /\ q.topic1 = app[i].topic1
  BY <1>2, <1>3, <1>5 DEF Alike, SameAddresses
<1>7. q.topic0 = PeerTopics(i)
  <2>1. q.topic0 = TopicsAlike(R, q) BY <1>4 DEF MergedOf
  <2>2. TopicsAlike(R, q) = PeerTopics(i) BY <1>5, PeersOnly
  <2> QED BY <2>1, <2>2
<1>8. ASSUME IsDiscoveryRequest(app, q) PROVE FALSE
  <2>1. PICK f \in FactoriesOf(app) :
          /\ q.topic0 # Undefined /\ Selector[f] \in q.topic0
          /\ FactoryAddress[f] # Undefined =>
               q.address # Undefined /\ ToSet(q.address) \cap ToSet(FactoryAddress[f]) # {}
    BY <1>8 DEF IsDiscoveryRequest
  <2>2. CASE FactoryAddress[f] # Undefined
    <3>1. ToSet(known[F]) \cap ToSet(FactoryAddress[f]) = {} BY <1>1, <2>2 DEF Apart
    <3> QED BY <3>1, <2>1, <2>2, <1>3, <1>6
  <2>3. CASE FactoryAddress[f] = Undefined
    <3>1. \A j \in Peers(i) : app[j].topic0 = Undefined \/ Selector[f] \notin app[j].topic0
      BY <1>1, <2>3 DEF Apart, Peers
    <3> DEFINE T == {app[j].topic0 : j \in Peers(i)}
    <3>2. q.topic0 = JoinAll(T) BY <1>7 DEF PeerTopics
    <3>3. Undefined \notin T BY <3>2, <2>1 DEF JoinAll
    <3>4. q.topic0 = UNION T BY <3>2, <3>3 DEF JoinAll
    <3>5. PICK t \in T : Selector[f] \in t BY <2>1, <3>4
    <3>6. PICK j \in Peers(i) : t = app[j].topic0 OBVIOUS
    <3> QED BY <3>1, <3>3, <3>5, <3>6
  <2> QED BY <2>2, <2>3
<1>9. WildcardKey(q) = PeerKey(i) BY <1>6, <1>7 DEF WildcardKey, PeerKey
<1> QED BY <1>6, <1>8, <1>9

(* The keys a connection could have to let go of.                              *)
KeysOf(known) ==
  LET groups == BuildPortalLogRequests(app, known)
  IN  {WildcardKey(groups[g]) : g \in {h \in DOMAIN groups : ~IsDiscoveryRequest(app, groups[h])}}

(* More children leave the keys of requests what they are.                     *)
LEMMA KeysPersist ==
  ASSUME app \in Apps, NEW known, Registry(known), Apart(known), NEW more, Registry(more), Apart(more),
         \A f \in Factory : ToSet(known[f]) \subseteq ToSet(more[f])
  PROVE  KeysOf(known) \subseteq KeysOf(more)
PROOF
<1> DEFINE groups == BuildPortalLogRequests(app, known)
           later == BuildPortalLogRequests(app, more)
           R == RequestSet(known)  L == RequestSet(more)
<1>1. MergedOf(groups, R) /\ MergedOf(later, L)
  <2> HIDE DEF R, L
  <2> QED BY BuiltRequests DEF R, L
<1> HIDE DEF groups, later
<1> SUFFICES ASSUME NEW g \in DOMAIN groups, ~IsDiscoveryRequest(app, groups[g])
             PROVE  WildcardKey(groups[g]) \in KeysOf(more)
  BY DEF KeysOf, groups
<1> DEFINE q == groups[g]
<1>2. q.topic0 = TopicsAlike(R, q) /\ \E p \in R : Alike(p, q) BY <1>1 DEF MergedOf
<1>3. \A h \in DOMAIN later : ~IsDiscoveryRequest(app, later[h]) => WildcardKey(later[h]) \in KeysOf(more)
  BY DEF KeysOf, later
<1>4. CASE \E p \in R : Alike(p, q) /\ p \notin Fixed(known)
  <2>1. PICK p \in R : Alike(p, q) /\ p \notin Fixed(known) BY <1>4
  <2>2. PICK i \in LogFilters : app[i].address \in Factory /\ p \in RequestsOf(i, known)
    BY <2>1 DEF RequestSet, Fixed
  <2>3. FilterOfChildren(i) BY <2>2 DEF FilterOfChildren
  <2>4. PICK b \in ToSet(Batches(known[app[i].address])) : p = FilterRequest(i, b)
    BY <2>2, <2>3, ChildBatch DEF RequestsOf
  <2>5. Alike(q, FilterRequest(i, b)) BY <2>1, <2>4, AlikeFact
  <2>6. q.topic0 = PeerTopics(i) BY <2>5, <2>3, <1>2, PeersOnly
  <2>7. q.topic1 = app[i].topic1 BY <2>5 DEF Alike, FilterRequest
  <2>8. WildcardKey(q) = PeerKey(i) BY <2>6, <2>7 DEF WildcardKey, PeerKey
  <2> DEFINE F == app[i].address
  <2>9. PICK c : c \in ToSet(Batches(more[F]))
    <3>1. ToSet(b) # {} /\ ToSet(b) \subseteq ToSet(known[F]) BY <2>3, ChildBatch
    <3>2. PICK a : a \in ToSet(more[F]) BY <3>1, <2>2
    <3>3. more[F] \in Seq(Born(F)) BY <2>2 DEF Registry
    <3>4. PICK k \in DOMAIN Batches(more[F]) : a \in ToSet(Batches(more[F])[k]) BY <3>2, <3>3, BatchesFact
    <3> QED BY <3>4 DEF ToSet
  <2>10. PICK h \in DOMAIN later : WildcardKey(later[h]) = PeerKey(i) /\ ~IsDiscoveryRequest(app, later[h])
    BY <2>3, <2>9, ChildGroup DEF later
  <2> QED BY <2>8, <2>10, <1>3
<1>5. CASE \A p \in R : Alike(p, q) => p \in Fixed(known)
  <2>1. PICK p \in R : Alike(p, q) BY <1>2
  <2>2. p \in Fixed(more) BY <2>1, <1>5, FixedSame
  <2>3. Fixed(known) \subseteq R /\ Fixed(more) \subseteq L BY DEF Fixed, RequestSet
  <2>4. ASSUME NEW y \in L, Alike(y, q) PROVE y \in Fixed(more)
    <3>1. SUFFICES ASSUME y \notin Fixed(more) PROVE FALSE OBVIOUS
    <3>2. PICK i \in LogFilters : app[i].address \in Factory /\ y \in RequestsOf(i, more)
      BY <3>1 DEF RequestSet, Fixed
    <3>3. FilterOfChildren(i) BY <3>2 DEF FilterOfChildren
    <3>4. PICK b \in ToSet(Batches(more[app[i].address])) : y = FilterRequest(i, b)
      BY <3>2, <3>3, ChildBatch DEF RequestsOf
    <3>5. Alike(p, y) BY <2>1, <2>4, AlikeFact
    <3> QED BY <3>3, <3>4, <3>5, <2>2, ChildrenApart
  <2>5. {x \in R : Alike(x, q)} = {x \in L : Alike(x, q)}
    <3>1. Fixed(known) = Fixed(more) BY FixedSame
    <3> HIDE DEF R, L, q
    <3> QED BY <3>1, <2>3, <2>4, <1>5
  <2>6. p \in L BY <2>2, <2>3
  <2>7. PICK h \in DOMAIN later : Alike(later[h], p) BY <2>6, <1>1 DEF MergedOf
  <2>8. Alike(later[h], q) BY <2>7, <2>1, AlikeFact
  <2>9. later[h].topic0 = TopicsAlike(L, later[h]) BY <1>1 DEF MergedOf
  <2>10. {x \in L : Alike(x, later[h])} = {x \in L : Alike(x, q)} BY <2>8, AlikeFact
  <2>11. later[h].topic0 = q.topic0 BY <2>5, <2>9, <2>10, <1>2 DEF TopicsAlike
  <2>12. later[h].topic1 = q.topic1 /\ SameAddresses(later[h].address, q.address) BY <2>8 DEF Alike
  <2>13. WildcardKey(later[h]) = WildcardKey(q) BY <2>11, <2>12 DEF WildcardKey
  <2>14. ~IsDiscoveryRequest(app, later[h])
    BY <2>11, <2>12 DEF IsDiscoveryRequest, SameAddresses
  <2> QED BY <2>13, <2>14, <1>3
<1> QED BY <1>4, <1>5

-----------------------------------------------------------------------------
(* What is asked for, opened and left open.                                   *)
(* Every log of a filter and every creation is asked for.                     *)
LEMMA BuiltAsks ==
  ASSUME app \in Apps, NEW known, Registry(known), NEW groups, groups = BuildPortalLogRequests(app, known)
  PROVE  /\ \A l, n : LogKept(app, known, l, n) => AsksLog(groups, l)
         /\ \A f \in FactoriesOf(app) : \A l : IsCreation(f, l) => AsksLog(groups, l)
PROOF
<1> DEFINE R == RequestSet(known)
<1>1. MergedOf(groups, R)
  <2> HIDE DEF R
  <2> QED BY BuiltRequests DEF R
<1>2. ASSUME NEW p \in R, NEW l, Asked(p, l) PROVE AsksLog(groups, l)
  <2>1. PICK g \in DOMAIN groups : Alike(groups[g], p) BY <1>1 DEF MergedOf
  <2> DEFINE q == groups[g]  T == {x.topic0 : x \in {y \in R : Alike(y, q)}}
  <2>2. Alike(p, q) BY <2>1, AlikeFact
  <2>3. q.topic0 = JoinAll(T)
    <3>1. q.topic0 = TopicsAlike(R, q) BY <1>1 DEF MergedOf
    <3> QED BY <3>1 DEF TopicsAlike
  <2>4. p.topic0 \in T BY <2>2
  <2> HIDE DEF T
  <2>5. Admits(q.topic0, l.topic0)
    <3>1. p.topic0 = Undefined \/ l.topic0 \in p.topic0 BY <1>2 DEF Asked, Admits
    <3> QED BY <3>1, <2>3, <2>4 DEF Admits, JoinAll
  <2>6. q.address = Undefined \/ l.address \in ToSet(q.address)
    BY <1>2, <2>2 DEF Asked, Alike, SameAddresses
  <2>7. Admits(q.topic1, l.topic1) BY <1>2, <2>2 DEF Asked, Alike
  <2> QED BY <2>5, <2>6, <2>7 DEF AsksLog, Asked
<1>3. ASSUME NEW l, NEW n, LogKept(app, known, l, n) PROVE \E p \in R : Asked(p, l)
  <2>1. PICK i \in DOMAIN app : LogMatches(app[i], l, n, known) BY <1>3 DEF LogKept
  <2>2. /\ i \in LogFilters /\ Admits(app[i].topic0, l.topic0) /\ Admits(app[i].topic1, l.topic1)
        /\ AddressOk(app[i].address, l.address, n, known)
    BY <2>1 DEF LogMatches, LogFilters
  <2> DEFINE addresses == AddressesOf(app[i].address, known)
  <2>3. addresses = Undefined \/ l.address \in ToSet(addresses) BY <2>2 DEF AddressesOf, AddressOk
  <2>4. PICK b \in BatchesOf(app[i].address, known) : b = Undefined \/ l.address \in ToSet(b)
    <3>1. CASE addresses = Undefined BY <3>1 DEF BatchesOf
    <3>2. CASE addresses # Undefined
      <4>1. PICK S : addresses \in Seq(S) BY <2>2, <3>2, LogRequestsExact
      <4>2. PICK k \in DOMAIN Batches(addresses) : l.address \in ToSet(Batches(addresses)[k])
        <5> HIDE DEF addresses
        <5> QED BY <4>1, <2>3, <3>2, BatchesFact
      <4>3. Batches(addresses)[k] \in ToSet(Batches(addresses)) BY DEF ToSet
      <4>4. BatchesOf(app[i].address, known) = ToSet(Batches(addresses)) BY <3>2 DEF BatchesOf
      <4> HIDE DEF addresses
      <4> QED BY <4>2, <4>3, <4>4
    <3> QED BY <3>1, <3>2
  <2>5. FilterRequest(i, b) \in R BY <2>2, <2>4 DEF RequestsOf, RequestSet
  <2>6. Asked(FilterRequest(i, b), l) BY <2>2, <2>4 DEF FilterRequest, Asked
  <2> QED BY <2>5, <2>6
<1>4. ASSUME NEW f \in FactoriesOf(app), NEW l, IsCreation(f, l) PROVE \E p \in R : Asked(p, l)
  <2>1. DiscoveryRequest(f) \in R BY DEF RequestSet, Discoveries
  <2>2. Asked(DiscoveryRequest(f), l) BY <1>4 DEF IsCreation, DiscoveryRequest, Asked, Admits
  <2> QED BY <2>1, <2>2
<1> QED BY <1>2, <1>3, <1>4

Covering(o, known) ==
  /\ \A l, n : LogKept(app, known, l, n) => AsksLog(o.requests, l)
  /\ \A f \in FactoriesOf(app) : \A l : IsCreation(f, l) => AsksLog(o.requests, l)
  /\ \A k \in o.keys : \E j \in DOMAIN o.requests :
       o.requests[j].address = Undefined /\ WildcardKey(o.requests[j]) = k
  /\ o.keys \subseteq KeysOf(known)

(* Over budget, the requests of some keys lose their addresses, and ask for more. *)
LEMMA OpenedCovers ==
  ASSUME app \in Apps, NEW known, Registry(known), NEW wildcard, wildcard \subseteq KeysOf(known),
         NEW o, o = Opened(known, wildcard), ~o.stopped
  PROVE  Covering(o, known)
PROOF
<1> DEFINE requests == BuildPortalLogRequests(app, known)
           keys == StripOverBudget(app, requests, wildcard)
<1>1. o = IF keys = Undefined THEN [requests |-> <<>>, keys |-> wildcard, stopped |-> TRUE]
          ELSE [requests |-> WithoutAddresses(app, requests, keys), keys |-> keys, stopped |-> FALSE]
  BY DEF Opened
<1>2. keys # Undefined => keys \subseteq KeysOf(known)
  <2> DEFINE fewer == {i \in DOMAIN requests : /\ Count(requests[i].address) > 0
                                              /\ WildcardKey(requests[i]) \notin wildcard
                                              /\ ~IsDiscoveryRequest(app, requests[i])}
             Before(i, j) == LET ci == Count(requests[i].address)
                                 cj == Count(requests[j].address)
                             IN  ci > cj \/ (ci = cj /\ i < j)
             First(k) == {i \in fewer : Cardinality({j \in fewer : Before(j, i)}) < k}
             Keys(k) == wildcard \cup {WildcardKey(requests[i]) : i \in First(k)}
             enough == {k \in 0..Len(requests) : Fits(WithoutAddresses(app, requests, Keys(k)))}
  <2>1. keys = IF enough = {} THEN Undefined ELSE Keys(Min(enough)) BY DEF StripOverBudget
  <2>2. \A i \in fewer : WildcardKey(requests[i]) \in KeysOf(known) BY DEF KeysOf
  <2>3. \A k : First(k) \subseteq fewer OBVIOUS
  <2> HIDE DEF fewer, First, enough, requests, keys
  <2>4. \A k : Keys(k) \subseteq KeysOf(known) BY <2>2, <2>3
  <2> HIDE DEF Keys
  <2> QED BY <2>1, <2>4
<1> HIDE DEF requests, keys
<1>3. keys # Undefined BY <1>1
<1>4. o.requests = WithoutAddresses(app, requests, keys) /\ o.keys = keys BY <1>1, <1>3
<1>5. DOMAIN o.requests = DOMAIN requests BY <1>4 DEF WithoutAddresses
<1>6. ASSUME NEW i \in DOMAIN requests
      PROVE  /\ o.requests[i].topic0 = requests[i].topic0 /\ o.requests[i].topic1 = requests[i].topic1
             /\ o.requests[i].address \in {Undefined, requests[i].address}
             /\ WildcardKey(requests[i]) \in keys /\ ~IsDiscoveryRequest(app, requests[i]) =>
                  o.requests[i].address = Undefined
  <2>1. o.requests[i] = IF WildcardKey(requests[i]) \in keys /\ ~IsDiscoveryRequest(app, requests[i])
                        THEN [requests[i] EXCEPT !.address = Undefined] ELSE requests[i]
    BY <1>4 DEF WithoutAddresses
  <2>2. requests[i] = [address |-> requests[i].address, topic0 |-> requests[i].topic0, topic1 |-> requests[i].topic1]
    BY BuiltRequests DEF requests
  <2> QED BY <2>1, <2>2
<1>7. ASSUME NEW l, AsksLog(requests, l) PROVE AsksLog(o.requests, l)
  <2>1. PICK i \in DOMAIN requests : Asked(requests[i], l) BY <1>7 DEF AsksLog
  <2>2. Asked(o.requests[i], l) BY <2>1, <1>6 DEF Asked
  <2> QED BY <2>2, <1>5 DEF AsksLog
<1>8. ASSUME NEW k \in o.keys
      PROVE  \E j \in DOMAIN o.requests : o.requests[j].address = Undefined /\ WildcardKey(o.requests[j]) = k
  <2>1. k \in KeysOf(known) /\ k \in keys BY <1>2, <1>3, <1>4
  <2>2. PICK j \in DOMAIN requests : ~IsDiscoveryRequest(app, requests[j]) /\ WildcardKey(requests[j]) = k
    BY <2>1 DEF KeysOf, requests
  <2>3. o.requests[j].address = Undefined /\ WildcardKey(o.requests[j]) = k
    BY <2>1, <2>2, <1>6 DEF WildcardKey
  <2> QED BY <2>3, <1>5
<1>9. /\ \A l, n : LogKept(app, known, l, n) => AsksLog(requests, l)
      /\ \A f \in FactoriesOf(app) : \A l : IsCreation(f, l) => AsksLog(requests, l)
  BY BuiltAsks DEF requests
<1> QED BY <1>2, <1>3, <1>4, <1>7, <1>8, <1>9 DEF Covering

(* Where the stream is not reopened for new children, a wildcard lets their logs  *)
(* through.                                                                *)
LEMMA UnfilteredCovers ==
  ASSUME app \in Apps, NEW known, Registry(known), Apart(known), NEW old, Registry(old), Apart(old),
         \A f \in Factory : ToSet(old[f]) \subseteq ToSet(known[f]),
         NEW o, Covering(o, old), ~FiltersByChildren(BuildPortalLogRequests(app, known), o.keys, known)
  PROVE  Covering(o, known)
PROOF
<1> DEFINE groups == BuildPortalLogRequests(app, known)
<1>1. o.keys \subseteq KeysOf(known) BY KeysPersist DEF Covering
<1>2. ASSUME NEW l, NEW n, LogKept(app, known, l, n) PROVE AsksLog(o.requests, l)
  <2>1. PICK i \in DOMAIN app : LogMatches(app[i], l, n, known) BY <1>2 DEF LogKept
  <2> DEFINE F == app[i].address
  <2>2. CASE F \notin Factory
    <3>1. LogMatches(app[i], l, n, old) BY <2>1, <2>2 DEF LogMatches, AddressOk
    <3> QED BY <3>1 DEF LogKept, Covering
  <2>3. CASE F \in Factory
    <3>1. /\ FilterOfChildren(i) /\ i \in LogFilters /\ l.address \in ToSet(known[F])
          /\ Admits(app[i].topic0, l.topic0) /\ Admits(app[i].topic1, l.topic1)
      BY <2>1, <2>3 DEF LogMatches, AddressOk, FilterOfChildren, LogFilters
    <3>2. known[F] \in Seq(Born(F)) BY <2>3 DEF Registry
    <3>3. PICK k \in DOMAIN Batches(known[F]) : l.address \in ToSet(Batches(known[F])[k])
      BY <3>1, <3>2, BatchesFact
    <3> DEFINE b == Batches(known[F])[k]
    <3>4. b \in ToSet(Batches(known[F])) /\ l.address \in ToSet(b) BY <3>3 DEF ToSet
    <3> HIDE DEF b, groups
    <3>5. PICK g \in DOMAIN groups :
            /\ groups[g].address # Undefined /\ ToSet(groups[g].address) = ToSet(b)
            /\ WildcardKey(groups[g]) = PeerKey(i) /\ ~IsDiscoveryRequest(app, groups[g])
      BY <3>1, <3>4, ChildGroup DEF groups
    <3>6. l.address \in ToSet(groups[g].address) \cap UNION {ToSet(known[f]) : f \in Factory}
      BY <2>3, <3>1, <3>4, <3>5
    <3>7. PeerKey(i) \in o.keys BY <3>5, <3>6 DEF FiltersByChildren, groups
    <3>8. PICK j \in DOMAIN o.requests :
            o.requests[j].address = Undefined /\ WildcardKey(o.requests[j]) = PeerKey(i)
      BY <3>7 DEF Covering
    <3>9. o.requests[j].topic0 = PeerTopics(i) /\ o.requests[j].topic1 = app[i].topic1
      <4>1. [topic0 |-> o.requests[j].topic0, topic1 |-> o.requests[j].topic1]
              = [topic0 |-> PeerTopics(i), topic1 |-> app[i].topic1]
        BY <3>8 DEF WildcardKey, PeerKey
      <4> QED BY <4>1
    <3>10. Admits(PeerTopics(i), l.topic0)
      <4>1. i \in Peers(i) BY <3>1 DEF Peers
      <4>2. app[i].topic0 = Undefined \/ l.topic0 \in app[i].topic0 BY <3>1 DEF Admits
      <4> DEFINE T == {app[p].topic0 : p \in Peers(i)}
      <4>3. app[i].topic0 \in T BY <4>1
      <4>4. PeerTopics(i) = JoinAll(T) BY DEF PeerTopics
      <4> HIDE DEF T
      <4> QED BY <4>2, <4>3, <4>4 DEF JoinAll, Admits
    <3> QED BY <3>1, <3>8, <3>9, <3>10 DEF AsksLog, Asked
  <2> QED BY <2>2, <2>3
<1> QED BY <1>1, <1>2 DEF Covering

CoversOK ==
  /\ live # NotLive /\ FactoriesOf(app) # {} => scanned >= DataEnd
  /\ live # NotLive /\ ~live.stopped => Covering(live, children)

LEMMA CoveringLater ==
  ASSUME app' = app
  PROVE  Covering(live, children)' <=> Covering(live', children')
BY DEF Covering, KeysOf

(* A step that leaves the realtime and its registry alone.                      *)
LEMMA CoversStay ==
  ASSUME app \in Apps, app' = app, live' = live, CoversOK,
         live = NotLive \/ (children' = children /\ scanned' = scanned)
  PROVE  CoversOK'
PROOF
<1>1. DataEnd' = DataEnd BY StableRange
<1>2. CASE live = NotLive BY <1>2 DEF CoversOK
<1>3. CASE live # NotLive
  <2>1. children' = children /\ scanned' = scanned BY <1>3
  <2>2. ~live.stopped => Covering(live', children') BY <1>3, <2>1 DEF CoversOK
  <2>3. FactoriesOf(app) # {} => scanned' >= DataEnd' BY <1>1, <1>3, <2>1 DEF CoversOK
  <2> QED BY <2>2, <2>3, CoveringLater DEF CoversOK
<1> QED BY <1>2, <1>3

LEMMA CoversStep ==
  ASSUME DataPathInv, CoversOK, RequestsApart, RequestsApart', [Next]_vars
  PROVE  CoversOK'
PROOF
<1>1. app \in Apps /\ Registry(children) /\ scanned \in Int BY DEF DataPathInv, CursorsOK, ChildrenOK, Registry
<1>2. app' = app
  <2>1. CASE Next BY <2>1, FixedStep
  <2>2. CASE UNCHANGED vars BY <2>2 DEF vars
  <2> QED BY <2>1, <2>2
<1>3. DataEnd' = DataEnd /\ DataEnd \in Nat BY <1>1, <1>2, StableRange, RangeFact
<1>4. Apart(children) BY ApartFact
<1>5. Apart(children') BY <1>2 DEF RequestsApart, Apart, LogFilters
<1>6. CASE GoLive
  <2>1. /\ live' = Opened(children, {}) /\ children' = children /\ scanned' = scanned
        /\ FactoriesOf(app) # {} => scanned = DataEnd
    BY <1>6 DEF GoLive, discoveryVars
  <2>2. ~live'.stopped => Covering(live', children') BY <1>1, <2>1, OpenedCovers
  <2>3. FactoriesOf(app) # {} => scanned' >= DataEnd' BY <1>3, <2>1
  <2> QED BY <1>2, <2>2, <2>3, CoveringLater DEF CoversOK
<1>7. CASE DiscoverLive
  <2> DEFINE n == Max({scanned, DataEnd}) + 1  known == children'
  <2>1. /\ live # NotLive /\ ~live.stopped /\ n \in Numbers /\ scanned' = n
        /\ known = Found(LogsFor(live.requests, n))
        /\ live' = IF known # children
                      /\ FiltersByChildren(BuildPortalLogRequests(app, known), live.keys, known)
                   THEN Opened(known, live.keys) ELSE live
    BY <1>7 DEF DiscoverLive
  <2>2. n >= DataEnd
    <3>1. Max({scanned, DataEnd}) >= DataEnd BY <1>1, <1>3 DEF Max
    <3>2. Max({scanned, DataEnd}) \in Int BY <1>1, <1>3 DEF Max
    <3> DEFINE m == Max({scanned, DataEnd})
    <3> HIDE DEF m
    <3> QED BY <3>1, <3>2, <1>3 DEF m
  <2>3. FactoriesOf(app) # {} => scanned' >= DataEnd' BY <1>3, <2>1, <2>2
  <2>4. Registry(known) /\ \A f \in Factory : ToSet(children[f]) \subseteq ToSet(known[f])
    <3>1. LogsFor(live.requests, n) \in SUBSET Chain[n].logs BY DEF LogsFor
    <3> HIDE DEF n, known
    <3> QED BY <2>1, <3>1, FoundFact DEF Registry, DataPathInv
  <2>5. Covering(live, children) BY <2>1 DEF CoversOK
  <2> HIDE DEF n, known
  <2>6. live.keys \subseteq KeysOf(known)
    <3>1. Apart(known) BY <1>5 DEF known
    <3>2. KeysOf(children) \subseteq KeysOf(known) BY <1>1, <1>4, <2>4, <3>1, KeysPersist
    <3> QED BY <2>5, <3>2 DEF Covering
  <2>7. ~live'.stopped => Covering(live', known)
    <3>1. CASE known # children /\ FiltersByChildren(BuildPortalLogRequests(app, known), live.keys, known)
      <4>1. live' = Opened(known, live.keys) BY <2>1, <3>1
      <4> QED BY <4>1, <1>1, <2>4, <2>6, OpenedCovers
    <3>2. CASE known # children /\ ~FiltersByChildren(BuildPortalLogRequests(app, known), live.keys, known)
      <4>1. live' = live BY <2>1, <3>2
      <4>2. Apart(known) BY <1>5 DEF known
      <4>3. Covering(live, known) BY <1>1, <1>4, <2>4, <2>5, <3>2, <4>2, UnfilteredCovers
      <4> QED BY <4>1, <4>3
    <3>3. CASE known = children
      <4>1. live' = live BY <2>1, <3>3
      <4> QED BY <4>1, <2>5, <3>3
    <3> QED BY <3>1, <3>2, <3>3
  <2> QED BY <1>2, <2>3, <2>7, CoveringLater DEF CoversOK, known
<1>8. CASE Discover
  <2>1. live' = live /\ FactoriesOf(app) # {} /\ scanned < DataEnd BY <1>8 DEF Discover
  <2>2. live = NotLive BY <2>1, <1>1, <1>3 DEF CoversOK
  <2> QED BY <1>1, <1>2, <2>1, <2>2, CoversStay
<1>9. CASE UNCHANGED <<children, scanned, live>> BY <1>1, <1>2, <1>9, CoversStay
<1> QED
  BY StepKinds, <1>6, <1>7, <1>8, <1>9
  DEF DataPathInv, StartFetch, RangeMoves, OnlyFetch, Serve, Finish, Evict, Assemble, discoveryVars, vars

LEMMA CoversFact ==
  ASSUME CoversOK
  PROVE  RealtimeCovers
PROOF
<1> SUFFICES ASSUME live # NotLive, ~live.stopped, NEW n \in (DataEnd + 1)..LastNumber, NEW l \in Chain[n].logs,
                    LogKept(app, children, l, n) \/ \E f \in FactoriesOf(app) : IsCreation(f, l)
             PROVE  l \in Trimmed(n, LogsFor(live.requests, n))
  BY DEF RealtimeCovers
<1>1. AsksLog(live.requests, l) BY DEF CoversOK, Covering
<1>2. l \in LogsFor(live.requests, n) BY <1>1 DEF AsksLog, LogsFor
<1> QED BY <1>2 DEF Trimmed

(* While the requests of different filters stay apart, the realtime misses no     *)
(* log of a filter under the children known and no creation, whatever was         *)
(* merged, widened to fit the budget or left open (reopenForNewChildren of        *)
(* wire.ts, buildPortalLogRequests of portal-filters.ts).                       *)
THEOREM RealtimeMissesNothing == Spec => ([]RequestsApart => []RealtimeCovers)
PROOF
<1>1. Init => CoversOK BY DEF Init, CoversOK
<1>2. DataPathInv /\ CoversOK /\ RequestsApart /\ RequestsApart' /\ [Next]_vars => CoversOK'
  BY CoversStep
<1>3. CoversOK => RealtimeCovers BY CoversFact
<1>4. Spec => []DataPathInv BY DataPathInvariant
<1> QED BY <1>1, <1>2, <1>3, <1>4, PTL DEF Spec

-----------------------------------------------------------------------------
(* The fourth invariant: the traces of the store.  Paths first, and their order.   *)
(* Paths up to a place.                                                      *)
LEMMA PrefixFact ==
  ASSUME NEW p \in Seq(Nat), NEW m \in 0..Len(p)
  PROVE  /\ SubSeq(p, 1, m) \in Seq(Nat) /\ Len(SubSeq(p, 1, m)) = m
         /\ \A j \in 1..m : SubSeq(p, 1, m)[j] = p[j]
PROOF
<1>1. Len(p) \in Nat BY LenProperties
<1> QED BY <1>1, SubSeqProperties

LEMMA AgreeFact ==
  ASSUME NEW p \in Seq(Nat), NEW q \in Seq(Nat), NEW m \in Nat, m <= Len(p), m <= Len(q)
  PROVE  SubSeq(p, 1, m) = SubSeq(q, 1, m) <=> \A j \in 1..m : p[j] = q[j]
PROOF
<1>1. Len(p) \in Nat /\ Len(q) \in Nat BY LenProperties
<1> DEFINE a == SubSeq(p, 1, m)  b == SubSeq(q, 1, m)
<1>2. a \in Seq(Nat) /\ Len(a) = m /\ \A j \in 1..m : a[j] = p[j] BY <1>1, PrefixFact
<1>3. b \in Seq(Nat) /\ Len(b) = m /\ \A j \in 1..m : b[j] = q[j] BY <1>1, PrefixFact
<1> HIDE DEF a, b
<1>4. ASSUME \A j \in 1..m : p[j] = q[j] PROVE a = b
  <2>1. \A j \in 1..Len(a) : a[j] = b[j] BY <1>2, <1>3, <1>4
  <2> QED BY <1>2, <1>3, <2>1, SeqEqual
<1>5. ASSUME a = b PROVE \A j \in 1..m : p[j] = q[j] BY <1>2, <1>3, <1>5
<1>6. a = b <=> \A j \in 1..m : p[j] = q[j] BY <1>4, <1>5
<1> QED BY <1>6 DEF a, b

LEMMA PrefixOf ==
  ASSUME NEW p \in Seq(Nat), NEW q \in Seq(Nat)
  PROVE  IsPrefix(p, q) <=> Len(p) <= Len(q) /\ \A j \in 1..Len(p) : p[j] = q[j]
PROOF
<1>1. Len(p) \in Nat /\ Len(q) \in Nat BY LenProperties
<1>2. CASE Len(p) <= Len(q)
  <2>1. SubSeq(p, 1, Len(p)) = SubSeq(q, 1, Len(p)) <=> \A j \in 1..Len(p) : p[j] = q[j]
    BY <1>1, <1>2, AgreeFact
  <2> QED BY <1>2, <2>1 DEF IsPrefix
<1>3. CASE ~(Len(p) <= Len(q)) BY <1>3 DEF IsPrefix
<1> QED BY <1>2, <1>3

(* The order of two paths is decided where they first differ: one ends there, or   *)
(* its number is less.                                                        *)
DecidedAt(p, q, k) ==
  /\ k <= Len(p) + 1 /\ k <= Len(q)
  /\ \A j \in 1..(k - 1) : p[j] = q[j]
  /\ k <= Len(p) => p[k] < q[k]

LEMMA DfsFact ==
  ASSUME NEW p \in Seq(Nat), NEW q \in Seq(Nat)
  PROVE  DfsBefore(p, q) <=> \E k \in Nat \ {0} : DecidedAt(p, q, k)
PROOF
<1>1. /\ Len(p) \in Nat /\ DOMAIN p = 1..Len(p) /\ Len(q) \in Nat /\ DOMAIN q = 1..Len(q)
      /\ \A j \in 1..Len(p) : p[j] \in Nat
      /\ \A j \in 1..Len(q) : q[j] \in Nat
  BY LenProperties, ElementOfSeq
<1>2. IsPrefix(p, q) <=> Len(p) <= Len(q) /\ \A j \in 1..Len(p) : p[j] = q[j] BY PrefixOf
<1>3. ASSUME IsStrictPrefix(p, q) PROVE DecidedAt(p, q, Len(p) + 1)
  <2>1. Len(p) <= Len(q) /\ \A j \in 1..Len(p) : p[j] = q[j] BY <1>2, <1>3 DEF IsStrictPrefix
  <2>2. Len(p) # Len(q)
    <3>1. p # q BY <1>3 DEF IsStrictPrefix
    <3>2. ASSUME Len(p) = Len(q) PROVE FALSE
      <4>1. \A j \in 1..Len(p) : p[j] = q[j] BY <2>1
      <4>2. p = q BY <3>2, <4>1, SeqEqual
      <4> QED BY <3>1, <4>2
    <3> QED BY <3>2
  <2>3. \A m, n \in Nat : m <= n /\ m # n =>
          m + 1 \in Nat /\ m + 1 <= n /\ (m + 1) - 1 = m /\ ~(m + 1 <= m) /\ m + 1 <= m + 1
    OBVIOUS
  <2>4. Len(p) \in Nat /\ Len(q) \in Nat BY LenProperties
  <2>5. Len(p) + 1 <= Len(q) /\ (Len(p) + 1) - 1 = Len(p) /\ ~(Len(p) + 1 <= Len(p))
        /\ Len(p) + 1 <= Len(p) + 1
    BY <2>1, <2>2, <2>3, <2>4
  <2> QED BY <2>1, <2>5 DEF DecidedAt
<1>4. ASSUME NEW k \in DOMAIN p \cap DOMAIN q, p[k] < q[k],
             SubSeq(p, 1, k - 1) = SubSeq(q, 1, k - 1)
      PROVE  k \in Nat \ {0} /\ DecidedAt(p, q, k)
  <2>1. k \in Nat \ {0} /\ k <= Len(p) /\ k <= Len(q) BY <1>1
  <2>2. \A j \in 1..(k - 1) : p[j] = q[j]
    <3>1. k - 1 \in Nat /\ k - 1 <= Len(p) /\ k - 1 <= Len(q) BY <1>1, <2>1
    <3> QED BY <1>4, <3>1, AgreeFact
  <2> QED BY <1>1, <1>4, <2>1, <2>2 DEF DecidedAt
<1>5. ASSUME NEW k \in Nat \ {0}, DecidedAt(p, q, k) PROVE DfsBefore(p, q)
  <2>1. CASE k <= Len(p)
    <3>1. k \in DOMAIN p \cap DOMAIN q /\ p[k] < q[k] BY <1>1, <1>5, <2>1 DEF DecidedAt
    <3>2. k - 1 \in Nat /\ k - 1 <= Len(p) /\ k - 1 <= Len(q)
          /\ \A j \in 1..(k - 1) : p[j] = q[j]
      BY <1>1, <1>5, <2>1 DEF DecidedAt
    <3>3. SubSeq(p, 1, k - 1) = SubSeq(q, 1, k - 1) BY <3>2, AgreeFact
    <3> QED BY <3>1, <3>3 DEF DfsBefore
  <2>2. CASE ~(k <= Len(p))
    <3>1. k = Len(p) + 1 /\ Len(p) < Len(q) /\ \A j \in 1..Len(p) : p[j] = q[j]
      BY <1>1, <1>5, <2>2 DEF DecidedAt
    <3>2. IsPrefix(p, q)
      <4>1. Len(p) <= Len(q) BY <1>1, <3>1
      <4> QED BY <1>2, <3>1, <4>1
    <3>3. p # q
      <4>1. \A m, n \in Nat : m < n => m # n OBVIOUS
      <4>2. Len(p) \in Nat /\ Len(q) \in Nat /\ Len(p) < Len(q) BY <3>1, LenProperties
      <4>3. Len(p) # Len(q) BY <4>1, <4>2
      <4> QED BY <4>3
    <3> QED BY <3>2, <3>3 DEF DfsBefore, IsStrictPrefix
  <2> QED BY <2>1, <2>2
<1>6. Len(p) + 1 \in Nat \ {0} BY <1>1
<1>7. ASSUME DfsBefore(p, q) PROVE \E k \in Nat \ {0} : DecidedAt(p, q, k)
  BY <1>3, <1>4, <1>6, <1>7 DEF DfsBefore
<1> QED BY <1>5, <1>7

(* Paths are in a strict and total order.                                       *)
LEMMA DfsIrreflexive ==
  ASSUME NEW p \in Seq(Nat)
  PROVE  ~DfsBefore(p, p)
PROOF
<1>1. Len(p) \in Nat /\ \A j \in 1..Len(p) : p[j] \in Nat BY LenProperties, ElementOfSeq
<1>2. ASSUME NEW k \in Nat \ {0} PROVE ~DecidedAt(p, p, k) BY <1>1 DEF DecidedAt
<1> QED BY <1>2, DfsFact

LEMMA DfsTransitive ==
  ASSUME NEW p \in Seq(Nat), NEW q \in Seq(Nat), NEW r \in Seq(Nat),
         DfsBefore(p, q), DfsBefore(q, r)
  PROVE  DfsBefore(p, r)
PROOF
<1>1. /\ Len(p) \in Nat /\ Len(q) \in Nat /\ Len(r) \in Nat
      /\ \A j \in 1..Len(p) : p[j] \in Nat
      /\ \A j \in 1..Len(q) : q[j] \in Nat
      /\ \A j \in 1..Len(r) : r[j] \in Nat
  BY LenProperties, ElementOfSeq
<1>2. PICK k \in Nat \ {0} : DecidedAt(p, q, k) BY DfsFact
<1>3. PICK l \in Nat \ {0} : DecidedAt(q, r, l) BY DfsFact
<1>4. CASE k < l
  <2>1. k \in 1..(l - 1) /\ q[k] = r[k] /\ k <= Len(r) BY <1>1, <1>3, <1>4 DEF DecidedAt
  <2>2. \A j \in 1..(k - 1) : p[j] = r[j] BY <1>1, <1>2, <1>3, <1>4 DEF DecidedAt
  <2>3. DecidedAt(p, r, k) BY <1>1, <1>2, <2>1, <2>2 DEF DecidedAt
  <2> QED BY <2>3, DfsFact
<1>5. CASE k = l
  <2>1. k <= Len(r) /\ k <= Len(q) /\ q[k] < r[k] BY <1>1, <1>2, <1>3, <1>5 DEF DecidedAt
  <2>2. \A j \in 1..(k - 1) : p[j] = r[j] BY <1>1, <1>2, <1>3, <1>5 DEF DecidedAt
  <2>3. k <= Len(p) => p[k] < r[k]
    <3>1. k \in 1..Len(q) /\ k \in 1..Len(r) BY <1>1, <2>1
    <3>2. q[k] \in Nat /\ r[k] \in Nat BY <1>1, <3>1
    <3>3. ASSUME k <= Len(p) PROVE p[k] \in Nat /\ p[k] < q[k] BY <1>1, <1>2, <3>3 DEF DecidedAt
    <3> QED BY <2>1, <3>2, <3>3
  <2>4. DecidedAt(p, r, k) BY <1>1, <1>2, <2>1, <2>2, <2>3 DEF DecidedAt
  <2> QED BY <2>4, DfsFact
<1>6. CASE l < k
  <2>1. l \in 1..(k - 1) /\ p[l] = q[l] /\ l <= Len(q) /\ l <= Len(p) /\ l <= Len(r)
    BY <1>1, <1>2, <1>3, <1>6 DEF DecidedAt
  <2>2. \A j \in 1..(l - 1) : p[j] = r[j] BY <1>1, <1>2, <1>3, <1>6 DEF DecidedAt
  <2>3. DecidedAt(p, r, l) BY <1>1, <1>3, <2>1, <2>2 DEF DecidedAt
  <2> QED BY <2>3, DfsFact
<1> QED BY <1>4, <1>5, <1>6

LEMMA DfsTotal ==
  ASSUME NEW p \in Seq(Nat), NEW q \in Seq(Nat), p # q
  PROVE  DfsBefore(p, q) \/ DfsBefore(q, p)
PROOF
<1>1. /\ Len(p) \in Nat /\ Len(q) \in Nat
      /\ \A j \in 1..Len(p) : p[j] \in Nat
      /\ \A j \in 1..Len(q) : q[j] \in Nat
  BY LenProperties, ElementOfSeq
<1> DEFINE Differ == {k \in Nat \ {0} : k > Len(p) \/ k > Len(q) \/ p[k] # q[k]}
<1>2. PICK k \in Differ : \A j \in Differ : k <= j
  <2>1. Len(p) + 1 \in Differ BY <1>1
  <2>2. Differ \subseteq Nat OBVIOUS
  <2> HIDE DEF Differ
  <2> QED BY <2>1, <2>2, LeastElement
<1>3. \A j \in 1..(k - 1) : j <= Len(p) /\ j <= Len(q) /\ p[j] = q[j]
  <2>1. ASSUME NEW j \in 1..(k - 1), ~(j <= Len(p) /\ j <= Len(q) /\ p[j] = q[j]) PROVE FALSE
    <3>1. j \in Nat \ {0} /\ j < k OBVIOUS
    <3>2. j \in Differ BY <1>1, <2>1, <3>1
    <3> QED BY <1>2, <3>1, <3>2
  <2> QED BY <2>1
<1>4. k \in Nat \ {0} /\ k <= Len(p) + 1 /\ k <= Len(q) + 1
  <2>1. k \in Nat \ {0} OBVIOUS
  <2>2. Len(p) + 1 \in Differ /\ Len(q) + 1 \in Differ BY <1>1
  <2> HIDE DEF Differ
  <2> QED BY <1>2, <2>1, <2>2
<1>5. CASE k > Len(p) /\ k > Len(q)
  <2>1. k = Len(p) + 1 /\ k = Len(q) + 1 BY <1>1, <1>4, <1>5
  <2>2. Len(p) = Len(q) /\ \A j \in 1..Len(p) : p[j] = q[j] BY <1>1, <1>3, <2>1
  <2> QED BY <2>2, SeqEqual
<1>6. CASE k > Len(p) /\ k <= Len(q)
  <2>1. DecidedAt(p, q, k) BY <1>1, <1>3, <1>4, <1>6 DEF DecidedAt
  <2> QED BY <1>4, <2>1, DfsFact
<1>7. CASE k <= Len(p) /\ k > Len(q)
  <2>1. DecidedAt(q, p, k) BY <1>1, <1>3, <1>4, <1>7 DEF DecidedAt
  <2> QED BY <1>4, <2>1, DfsFact
<1>8. CASE k <= Len(p) /\ k <= Len(q)
  <2>1. p[k] # q[k] /\ p[k] \in Nat /\ q[k] \in Nat
    <3>1. k > Len(p) \/ k > Len(q) \/ p[k] # q[k] OBVIOUS
    <3> QED BY <1>1, <1>4, <1>8, <3>1
  <2>2. CASE p[k] < q[k]
    <3>1. DecidedAt(p, q, k) BY <1>1, <1>3, <1>4, <1>8, <2>2 DEF DecidedAt
    <3> QED BY <1>4, <3>1, DfsFact
  <2>3. CASE q[k] < p[k]
    <3>1. DecidedAt(q, p, k) BY <1>1, <1>3, <1>4, <1>8, <2>3 DEF DecidedAt
    <3> QED BY <1>4, <3>1, DfsFact
  <2> QED BY <2>1, <2>2, <2>3
<1> QED BY <1>1, <1>4, <1>5, <1>6, <1>7, <1>8

(* How many frames go before a frame of its tree: each number is taken once.      *)
Rank(tree, t) == Cardinality(Ahead(tree, t))

LEMMA RankFact ==
  ASSUME NEW tree, IsFiniteSet(tree), IsCallTree(tree)
  PROVE  /\ Cardinality(tree) \in Nat
         /\ \A t \in tree : Rank(tree, t) \in 0..(Cardinality(tree) - 1)
         /\ \A t, u \in tree : DfsBefore(t.path, u.path) => Rank(tree, t) < Rank(tree, u)
         /\ \A t, u \in tree : Rank(tree, t) = Rank(tree, u) => t = u
PROOF
<1>1. \A t \in tree : t.path \in Seq(Nat) BY DEF IsCallTree
<1>2. Cardinality(tree) \in Nat BY FS_CardinalityType
<1>3. ASSUME NEW t \in tree
      PROVE  /\ IsFiniteSet(Ahead(tree, t)) /\ Rank(tree, t) \in Nat
             /\ Rank(tree, t) < Cardinality(tree)
  <2>1. Ahead(tree, t) \subseteq tree /\ t \notin Ahead(tree, t)
    BY <1>1, DfsIrreflexive DEF Ahead
  <2>2. IsFiniteSet(Ahead(tree, t)) BY <2>1, FS_Subset
  <2>3. Ahead(tree, t) # tree BY <2>1
  <2> QED BY <1>2, <2>1, <2>2, <2>3, FS_Subset, FS_CardinalityType DEF Rank
<1>4. ASSUME NEW t \in tree, NEW u \in tree, DfsBefore(t.path, u.path)
      PROVE  Rank(tree, t) < Rank(tree, u)
  <2>1. Ahead(tree, t) \subseteq Ahead(tree, u)
    <3>1. SUFFICES ASSUME NEW x \in tree, DfsBefore(x.path, t.path)
                   PROVE  DfsBefore(x.path, u.path)
      BY DEF Ahead
    <3> QED BY <1>1, <1>4, <3>1, DfsTransitive
  <2>2. t \in Ahead(tree, u) /\ t \notin Ahead(tree, t)
    BY <1>1, <1>4, DfsIrreflexive DEF Ahead
  <2> QED BY <1>3, <2>1, <2>2, FS_Subset, FS_CardinalityType DEF Rank
<1>5. ASSUME NEW t \in tree, NEW u \in tree, Rank(tree, t) = Rank(tree, u)
      PROVE  t = u
  <2>1. ~DfsBefore(t.path, u.path) /\ ~DfsBefore(u.path, t.path)
    <3>1. Rank(tree, t) \in Nat /\ Rank(tree, u) \in Nat BY <1>3
    <3> QED BY <1>4, <1>5, <3>1
  <2>2. t.path = u.path BY <1>1, <2>1, DfsTotal
  <2> QED BY <2>2 DEF IsCallTree
<1>6. \A t \in tree : Rank(tree, t) \in 0..(Cardinality(tree) - 1) BY <1>2, <1>3
<1> QED BY <1>2, <1>4, <1>5, <1>6

(* The sorted tree has each frame at its rank.                                  *)
LEMMA TreeOrderFact ==
  ASSUME NEW tree, IsFiniteSet(tree), IsCallTree(tree)
  PROVE  /\ TreeOrder(tree) \in Seq(tree) /\ Len(TreeOrder(tree)) = Cardinality(tree)
         /\ \A i \in 1..Cardinality(tree) : Rank(tree, TreeOrder(tree)[i]) = i - 1
         /\ \A t \in tree : /\ Rank(tree, t) + 1 \in 1..Cardinality(tree)
                            /\ TreeOrder(tree)[Rank(tree, t) + 1] = t
PROOF
<1> DEFINE n == Cardinality(tree)  order == TreeOrder(tree)
           rank == [t \in tree |-> Rank(tree, t)]
<1>1. /\ n \in Nat /\ \A t \in tree : Rank(tree, t) \in 0..(n - 1)
      /\ \A t, u \in tree : Rank(tree, t) = Rank(tree, u) => t = u
  BY RankFact
<1>2. rank \in Injection(tree, 0..(n - 1))
  <2> HIDE DEF n
  <2> QED BY <1>1 DEF Injection, IsInjective
<1>3. IsFiniteSet(0..(n - 1)) /\ Cardinality(0..(n - 1)) = n
  <2>1. 0 \in Int /\ n - 1 \in Int BY <1>1
  <2>2. 0 > n - 1 \/ (n - 1) - 0 + 1 = n BY <1>1
  <2> HIDE DEF n
  <2> QED BY <1>1, <2>1, <2>2, FS_Interval
<1>4. rank \in Surjection(tree, 0..(n - 1))
  <2> HIDE DEF rank
  <2> QED BY <1>2, <1>3, FS_Injection
<1>5. ASSUME NEW i \in 1..n PROVE order[i] \in tree /\ Rank(tree, order[i]) = i - 1
  <2>1. i - 1 \in 0..(n - 1) BY <1>1
  <2>2. PICK t \in tree : rank[t] = i - 1
    <3> HIDE DEF rank, n
    <3> QED BY <1>4, <2>1 DEF Surjection
  <2>3. Cardinality(Ahead(tree, t)) = i - 1 BY <2>2 DEF Rank
  <2>4. order[i] = CHOOSE u \in tree : Cardinality(Ahead(tree, u)) = i - 1 BY DEF TreeOrder
  <2> HIDE DEF order
  <2> QED BY <2>3, <2>4 DEF Rank
<1>6. order \in [1..n -> tree] /\ DOMAIN order = 1..n
  <2>1. order = [i \in 1..n |-> order[i]] BY DEF TreeOrder
  <2> HIDE DEF order, n
  <2> QED BY <1>5, <2>1
<1>7. order \in Seq(tree) /\ Len(order) = n
  <2> HIDE DEF order, n
  <2> QED BY <1>1, <1>6, IsASeq, LenProperties
<1>8. ASSUME NEW t \in tree PROVE Rank(tree, t) + 1 \in 1..n /\ order[Rank(tree, t) + 1] = t
  <2>1. Rank(tree, t) \in 0..(n - 1) BY <1>1
  <2> DEFINE i == Rank(tree, t) + 1
  <2>2. i \in 1..n /\ i - 1 = Rank(tree, t) BY <1>1, <2>1
  <2>3. order[i] \in tree /\ Rank(tree, order[i]) = i - 1 BY <1>5, <2>2
  <2> HIDE DEF order, n, i
  <2>4. order[i] = t BY <1>1, <2>2, <2>3
  <2> QED BY <2>2, <2>4 DEF i
<1> QED BY <1>5, <1>7, <1>8

(* Errors are put into a map one frame of the tree after the other.               *)
LEMMA ErrorRuns ==
  ASSUME NEW tree, NEW order \in Seq(tree)
  PROVE  \E run : /\ run[0] = <<>>
                  /\ \A i \in 1..Len(order) : run[i] = Inherit(run[i - 1], order[i])
                  /\ FoldLeft(Inherit, <<>>, order) = run[Len(order)]
PROOF
<1> DEFINE k == Len(order)
           P == {t.path : t \in tree}
           E == {t.error : t \in tree}
           T == UNION {[D -> E] : D \in SUBSET P}
           G == [x \in T \X (1..k) |-> Inherit(x[1], order[x[2]])]
           Step(iter, s) == IF s = {} THEN <<>> ELSE Inherit(iter[s \ {Max(s)}], order[Max(s)])
<1>1. k \in Nat /\ DOMAIN order = 1..k /\ \A i \in 1..k : order[i] \in tree
  BY LenProperties, ElementOfSeq
<1>2. ASSUME NEW errors \in T, NEW t \in tree PROVE Inherit(errors, t) \in T
  <2>1. PICK D \in SUBSET P : errors \in [D -> E] OBVIOUS
  <2>2. t.path \in P /\ t.error \in E OBVIOUS
  <2>3. ASSUME NEW e \in E PROVE SetError(errors, t.path, e) \in T
    <3>1. SetError(errors, t.path, e) \in [D \cup {t.path} -> E]
      <4> HIDE DEF E, P
      <4> QED BY <2>1 DEF SetError
    <3>2. D \cup {t.path} \in SUBSET P
      <4> HIDE DEF P
      <4> QED BY <2>1, <2>2
    <3> HIDE DEF E, P
    <3> QED BY <3>1, <3>2
  <2>4. \A p \in DOMAIN errors : errors[p] \in E
    <3> HIDE DEF E, P
    <3> QED BY <2>1
  <2> HIDE DEF E, P, T
  <2> QED BY <2>2, <2>3, <2>4 DEF Inherit
<1>3. G \in [T \X (1..k) -> T]
  <2> HIDE DEF T
  <2> QED BY <1>1, <1>2
<1>4. <<>> \in T
  <2>1. <<>> \in [{} -> E]
    <3> HIDE DEF E
    <3> QED OBVIOUS
  <2>2. {} \in SUBSET P OBVIOUS
  <2> HIDE DEF E, P
  <2> QED BY <2>1, <2>2
<1>5. \E iter : iter = [s \in SUBSET (1..k) |-> Step(iter, s)]
  <2>1. PICK iter : IsFold(iter, T, <<>>, k, G)
    <3> HIDE DEF G, T, k
    <3> QED BY <1>1, <1>3, <1>4, FoldExists
  <2>2. ASSUME NEW s \in SUBSET (1..k), s # {}
        PROVE  G[<<iter[s \ {Max(s)}], Max(s)>>] = Inherit(iter[s \ {Max(s)}], order[Max(s)])
    <3>1. s \subseteq Nat /\ IsFiniteSet(s)
      <4>1. IsFiniteSet(1..k) /\ 1..k \subseteq Nat BY <1>1, FS_Interval
      <4> QED BY <4>1, FS_Subset
    <3>2. Max(s) \in 1..k BY <2>2, <3>1, MaxFact
    <3>3. iter[s \ {Max(s)}] \in T
      <4> HIDE DEF T, k
      <4> QED BY <2>1 DEF IsFold
    <3> HIDE DEF T
    <3> QED BY <3>2, <3>3
  <2>3. \A s \in SUBSET (1..k) : iter[s] = Step(iter, s) BY <2>1, <2>2 DEF IsFold
  <2>4. iter = [s \in SUBSET (1..k) |-> Step(iter, s)]
    <3> HIDE DEF Step, k, T
    <3> QED BY <2>1, <2>3 DEF IsFold
  <2> QED BY <2>4
<1> DEFINE iter == CHOOSE iter : iter = [s \in SUBSET (1..k) |-> Step(iter, s)]
           run == [i \in 0..k |-> iter[1..i]]
<1>6. iter = [s \in SUBSET (1..k) |-> Step(iter, s)]
  <2> HIDE DEF k, Step
  <2> QED BY <1>5
<1>7. FoldLeft(Inherit, <<>>, order) = iter[1..k] BY <1>1 DEF FoldLeft, MapThenFoldSet
<1> HIDE DEF iter
<1>8. ASSUME NEW i \in 1..k PROVE iter[1..i] = Inherit(iter[1..(i - 1)], order[i])
  <2>1. 1..i \in SUBSET (1..k) /\ 1..i # {} /\ Max(1..i) = i
    <3>1. i \in 1..i BY <1>1
    <3> QED BY <1>1, <3>1, MaxOfInterval
  <2>2. (1..i) \ {i} = 1..(i - 1) BY <1>1
  <2>3. iter[1..i] = Step(iter, 1..i) BY <1>6, <2>1
  <2> QED BY <2>1, <2>2, <2>3
<1>9. iter[1..0] = <<>>
  <2>1. 1..0 = {} /\ 1..0 \in SUBSET (1..k) BY <1>1
  <2>2. iter[1..0] = Step(iter, 1..0) BY <1>6, <2>1
  <2> QED BY <2>1, <2>2
<1>10. /\ run[0] = <<>> /\ \A i \in 1..k : run[i] = Inherit(run[i - 1], order[i])
       /\ FoldLeft(Inherit, <<>>, order) = run[k]
  <2>1. \A i \in 1..k : i \in 0..k /\ i - 1 \in 0..k BY <1>1
  <2>2. 0 \in 0..k /\ k \in 0..k BY <1>1
  <2> QED BY <1>7, <1>8, <1>9, <2>1, <2>2
<1> QED BY <1>10

(* The frames that failed above a path, that itself included, and the nearest.    *)
Failing(tree, p) == {u \in tree : u.error # Undefined /\ IsPrefix(u.path, p)}
Nearest(failing) == CHOOSE t \in failing : \A u \in failing : Len(u.path) <= Len(t.path)

LEMMA FrontFact ==
  ASSUME NEW p \in Seq(Nat), p # <<>>
  PROVE  /\ Front(p) \in Seq(Nat) /\ Len(Front(p)) = Len(p) - 1 /\ Len(p) \in Nat \ {0}
         /\ \A j \in 1..(Len(p) - 1) : Front(p)[j] = p[j]
         /\ DfsBefore(Front(p), p)
PROOF
<1>1. Len(p) \in Nat \ {0} BY LenProperties, EmptySeq
<1>2. Len(p) - 1 \in 0..Len(p) BY <1>1
<1> DEFINE q == Front(p)
<1>3. q = SubSeq(p, 1, Len(p) - 1) BY DEF Front
<1> HIDE DEF q
<1>4. q \in Seq(Nat) /\ Len(q) = Len(p) - 1 /\ \A j \in 1..(Len(p) - 1) : q[j] = p[j]
  BY <1>2, <1>3, PrefixFact
<1>5. IsPrefix(q, p)
  <2>1. Len(q) <= Len(p) /\ \A j \in 1..Len(q) : q[j] = p[j] BY <1>1, <1>4
  <2>2. IsPrefix(q, p) <=> Len(q) <= Len(p) /\ \A j \in 1..Len(q) : q[j] = p[j]
    BY <1>4, PrefixOf
  <2> QED BY <2>1, <2>2
<1>6. q # p
  <2>1. Len(q) # Len(p) BY <1>1, <1>4
  <2> QED BY <2>1
<1>7. DfsBefore(q, p) BY <1>5, <1>6 DEF DfsBefore, IsStrictPrefix
<1> QED BY <1>1, <1>4, <1>7 DEF q

LEMMA FailingFact ==
  ASSUME NEW tree, IsCallTree(tree), NEW t \in tree
  PROVE  /\ t.error # Undefined => t \in Failing(tree, t.path) /\ Nearest(Failing(tree, t.path)) = t
         /\ t.error = Undefined /\ t.path = <<>> => Failing(tree, t.path) = {}
         /\ t.error = Undefined /\ t.path # <<>> =>
              Failing(tree, t.path) = Failing(tree, Front(t.path))
PROOF
<1> DEFINE p == t.path
<1>1. /\ \A u \in tree : u.path \in Seq(Nat) /\ Len(u.path) \in Nat
      /\ \A u, v \in tree : u.path = v.path => u = v
  <2>1. \A u \in tree : u.path \in Seq(Nat) BY DEF IsCallTree
  <2>2. \A u \in tree : Len(u.path) \in Nat BY <2>1, LenProperties
  <2> QED BY <2>1, <2>2 DEF IsCallTree
<1>2. p \in Seq(Nat) /\ Len(p) \in Nat BY <1>1
<1> HIDE DEF p
<1>3. \A u \in tree : IsPrefix(u.path, p) <=>
        Len(u.path) <= Len(p) /\ \A j \in 1..Len(u.path) : u.path[j] = p[j]
  BY <1>1, <1>2, PrefixOf
<1>4. \A u \in tree : IsPrefix(u.path, p) /\ Len(u.path) = Len(p) => u = t
  <2>1. ASSUME NEW u \in tree, IsPrefix(u.path, p), Len(u.path) = Len(p) PROVE u = t
    <3>1. \A j \in 1..Len(u.path) : u.path[j] = p[j] BY <1>3, <2>1
    <3>2. u.path = p BY <1>1, <1>2, <2>1, <3>1, SeqEqual
    <3> QED BY <1>1, <3>2 DEF p
  <2> QED BY <2>1
<1>5. ASSUME t.error # Undefined PROVE t \in Failing(tree, p) /\ Nearest(Failing(tree, p)) = t
  <2>1. IsPrefix(t.path, p)
    <3>1. t.path = p /\ Len(p) <= Len(p) BY <1>2 DEF p
    <3> QED BY <1>3, <3>1
  <2>2. t \in Failing(tree, p) BY <1>5, <2>1 DEF Failing
  <2> DEFINE F == Failing(tree, p)
  <2>3. \A u \in F : u \in tree /\ IsPrefix(u.path, p) /\ Len(u.path) <= Len(p)
    BY <1>3 DEF Failing
  <2>4. \A u \in F : Len(u.path) <= Len(t.path) BY <2>3 DEF p
  <2>5. ASSUME NEW x \in F, \A u \in F : Len(u.path) <= Len(x.path) PROVE x = t
    <3>1. Len(p) <= Len(x.path) BY <2>2, <2>5 DEF p
    <3>2. Len(x.path) <= Len(p) /\ Len(x.path) \in Nat BY <1>1, <2>3
    <3>3. Len(x.path) = Len(p) BY <1>2, <3>1, <3>2
    <3> QED BY <1>4, <2>3, <3>3
  <2> HIDE DEF F
  <2>6. Nearest(F) = t BY <2>2, <2>4, <2>5 DEF Nearest, F
  <2> QED BY <2>2, <2>6 DEF F
<1>6. ASSUME t.error = Undefined, p = <<>> PROVE Failing(tree, p) = {}
  <2>1. ASSUME NEW u \in Failing(tree, p) PROVE FALSE
    <3>1. u \in tree /\ u.error # Undefined /\ IsPrefix(u.path, p) BY DEF Failing
    <3>2. Len(p) = 0 BY <1>2, <1>6, EmptySeq
    <3>3. Len(u.path) <= Len(p) /\ Len(u.path) \in Nat BY <1>1, <1>3, <3>1
    <3>4. Len(u.path) = Len(p) BY <3>2, <3>3
    <3> QED BY <1>4, <1>6, <3>1, <3>4
  <2> QED BY <2>1
<1>7. ASSUME t.error = Undefined, p # <<>> PROVE Failing(tree, p) = Failing(tree, Front(p))
  <2> DEFINE q == Front(p)
  <2>1. /\ q \in Seq(Nat) /\ Len(q) = Len(p) - 1 /\ Len(p) \in Nat \ {0}
        /\ \A j \in 1..(Len(p) - 1) : q[j] = p[j]
    BY <1>2, <1>7, FrontFact
  <2> HIDE DEF q
  <2>2. \A u \in tree : IsPrefix(u.path, q) <=>
          Len(u.path) <= Len(q) /\ \A j \in 1..Len(u.path) : u.path[j] = q[j]
    BY <1>1, <2>1, PrefixOf
  <2>3. ASSUME NEW u \in tree, u.error # Undefined PROVE IsPrefix(u.path, p) <=> IsPrefix(u.path, q)
    <3>1. Len(u.path) \in Nat BY <1>1
    <3>2. CASE Len(u.path) <= Len(p) - 1
      <4>1. \A j \in 1..Len(u.path) : q[j] = p[j] BY <2>1, <3>1, <3>2
      <4>2. Len(u.path) <= Len(p) /\ Len(u.path) <= Len(q) BY <2>1, <3>1, <3>2
      <4>3. (\A j \in 1..Len(u.path) : u.path[j] = q[j]) <=> (\A j \in 1..Len(u.path) : u.path[j] = p[j])
        BY <4>1
      <4> QED BY <1>3, <2>2, <4>2, <4>3
    <3>3. CASE Len(u.path) = Len(p)
      <4>1. ~IsPrefix(u.path, p) BY <1>4, <1>7, <2>3, <3>3
      <4>2. ~(Len(u.path) <= Len(q)) BY <2>1, <3>3
      <4> QED BY <2>2, <4>1, <4>2
    <3>4. CASE Len(u.path) > Len(p)
      <4>1. ~(Len(u.path) <= Len(q)) /\ ~(Len(u.path) <= Len(p)) BY <2>1, <3>1, <3>4
      <4> QED BY <1>3, <2>2, <4>1
    <3> QED BY <2>1, <3>1, <3>2, <3>3, <3>4
  <2>4. Failing(tree, p) = Failing(tree, q) BY <2>3 DEF Failing
  <2> QED BY <2>4 DEF q
<1> QED BY <1>5, <1>6, <1>7 DEF p

(* Errors are right for the frames done so far: each has that of the nearest frame  *)
(* above it that failed, if there is one.                                        *)
Right(tree, S, errors) ==
  /\ DOMAIN errors = {t.path : t \in {u \in S : Failing(tree, u.path) # {}}}
  /\ \A t \in S : Failing(tree, t.path) # {} => errors[t.path] = Nearest(Failing(tree, t.path)).error

LEMMA InheritStep ==
  ASSUME NEW tree, IsCallTree(tree), NEW S \in SUBSET tree, NEW t \in tree \ S,
         t.path # <<>> => \E u \in S : u.path = Front(t.path),
         NEW errors, Right(tree, S, errors)
  PROVE  Right(tree, S \cup {t}, Inherit(errors, t))
PROOF
<1> DEFINE Fail(p) == Failing(tree, p)
           next == Inherit(errors, t)
           keys == {u.path : u \in {v \in S : Fail(v.path) # {}}}
<1>1. /\ t.error # Undefined => t \in Fail(t.path) /\ Nearest(Fail(t.path)) = t
      /\ t.error = Undefined /\ t.path = <<>> => Fail(t.path) = {}
      /\ t.error = Undefined /\ t.path # <<>> => Fail(t.path) = Fail(Front(t.path))
  BY FailingFact
<1>2. \A u \in S : u.path # t.path BY DEF IsCallTree
<1>3. DOMAIN errors = keys BY DEF Right
<1>4. \A u \in S : Fail(u.path) # {} => errors[u.path] = Nearest(Fail(u.path)).error
  BY DEF Right
<1> HIDE DEF Fail, next
<1>5. t.path # <<>> => (Front(t.path) \in DOMAIN errors <=> Fail(Front(t.path)) # {})
  BY <1>3
<1>6. ASSUME t.path # <<>>, Fail(Front(t.path)) # {}
      PROVE  errors[Front(t.path)] = Nearest(Fail(Front(t.path))).error
  BY <1>4, <1>6
<1>7. CASE Fail(t.path) = {}
  <2>1. next = errors BY <1>1, <1>5, <1>7 DEF Inherit, next
  <2>2. {u.path : u \in {v \in S \cup {t} : Fail(v.path) # {}}} = keys BY <1>7
  <2>3. \A u \in S \cup {t} : Fail(u.path) # {} => next[u.path] = Nearest(Fail(u.path)).error
    BY <1>4, <1>7, <2>1
  <2> QED BY <1>3, <2>1, <2>2, <2>3 DEF Right, Fail, next
<1>8. CASE Fail(t.path) # {}
  <2> DEFINE e == Nearest(Fail(t.path)).error
  <2>1. next = SetError(errors, t.path, e)
    <3>1. CASE t.error # Undefined
      <4>1. e = t.error BY <1>1, <3>1
      <4> QED BY <3>1, <4>1 DEF Inherit, next
    <3>2. CASE t.error = Undefined
      <4>1. t.path # <<>> /\ Fail(t.path) = Fail(Front(t.path)) BY <1>1, <1>8, <3>2
      <4>2. Front(t.path) \in DOMAIN errors /\ errors[Front(t.path)] = e BY <1>5, <1>6, <1>8, <4>1
      <4> HIDE DEF e
      <4> QED BY <3>2, <4>1, <4>2 DEF Inherit, next
    <3> QED BY <3>1, <3>2
  <2> HIDE DEF e
  <2>2. DOMAIN next = DOMAIN errors \cup {t.path}
        /\ \A p \in DOMAIN errors \cup {t.path} : next[p] = IF p = t.path THEN e ELSE errors[p]
    BY <2>1 DEF SetError
  <2>3. DOMAIN next = {u.path : u \in {v \in S \cup {t} : Fail(v.path) # {}}}
    BY <1>3, <1>8, <2>2
  <2>4. ASSUME NEW u \in S \cup {t}, Fail(u.path) # {}
        PROVE  next[u.path] = Nearest(Fail(u.path)).error
    <3>1. CASE u = t
      <4>1. next[t.path] = e BY <2>2
      <4> QED BY <3>1, <4>1 DEF e
    <3>2. CASE u # t
      <4>1. u \in S /\ u.path # t.path /\ u.path \in DOMAIN errors BY <1>2, <1>3, <2>4, <3>2
      <4>2. next[u.path] = errors[u.path] BY <2>2, <4>1
      <4> QED BY <1>4, <2>4, <4>1, <4>2
    <3> QED BY <3>1, <3>2
  <2> QED BY <2>3, <2>4 DEF Right, Fail, next
<1> QED BY <1>7, <1>8

(* The errors of a whole tree.                                                 *)
LEMMA TreeErrorsFact ==
  ASSUME NEW tree, IsFiniteSet(tree), IsCallTree(tree)
  PROVE  Right(tree, tree, TreeErrors(tree))
PROOF
<1> DEFINE order == TreeOrder(tree)  k == Cardinality(tree)
           Done(i) == {order[j] : j \in 1..i}
<1>1. /\ k \in Nat /\ \A t \in tree : Rank(tree, t) \in 0..(k - 1)
      /\ \A t, u \in tree : DfsBefore(t.path, u.path) => Rank(tree, t) < Rank(tree, u)
  BY RankFact
<1>2. /\ order \in Seq(tree) /\ Len(order) = k
      /\ \A i \in 1..k : Rank(tree, order[i]) = i - 1
      /\ \A t \in tree : Rank(tree, t) + 1 \in 1..k /\ order[Rank(tree, t) + 1] = t
  BY TreeOrderFact
<1>3. TreeErrors(tree) = FoldLeft(Inherit, <<>>, order) BY DEF TreeErrors
<1> HIDE DEF order, k
<1>4. \A i \in 1..k : order[i] \in tree BY <1>2, ElementOfSeq
<1>5. PICK run : /\ run[0] = <<>>
                 /\ \A i \in 1..k : run[i] = Inherit(run[i - 1], order[i])
                 /\ TreeErrors(tree) = run[k]
  BY <1>2, <1>3, ErrorRuns
<1> DEFINE Fine(i) == Right(tree, Done(i), run[i])
           Wrong == {i \in 0..k : ~Fine(i)}
<1>6. Done(k) = tree BY <1>2, <1>4
<1>7. SUFFICES Wrong = {}
  <2>1. k \in 0..k BY <1>1
  <2> HIDE DEF Done
  <2> QED BY <1>5, <1>6, <1>7, <2>1
<1>8. SUFFICES ASSUME Wrong # {} PROVE FALSE OBVIOUS
<1>9. PICK i \in Wrong : \A j \in Wrong : i <= j
  <2>1. Wrong \subseteq Nat BY <1>1
  <2> HIDE DEF Wrong
  <2> QED BY <1>8, <2>1, LeastElement
<1>10. i \in 0..k /\ ~Fine(i) OBVIOUS
<1>11. i # 0
  <2>1. Done(0) = {} OBVIOUS
  <2>2. Right(tree, {}, <<>>) BY DEF Right
  <2> HIDE DEF Done
  <2> QED BY <1>5, <1>10, <2>1, <2>2
<1>12. i - 1 \in 0..k /\ i \in 1..k /\ i - 1 < i BY <1>1, <1>10, <1>11
<1>13. Fine(i - 1)
  <2>1. i - 1 \notin Wrong
    <3> HIDE DEF Wrong
    <3> QED BY <1>1, <1>9, <1>10, <1>12
  <2> HIDE DEF Fine
  <2> QED BY <2>1, <1>12
<1> DEFINE t == order[i]  S == Done(i - 1)
<1>14. t \in tree /\ S \in SUBSET tree /\ Done(i) = S \cup {t}
  <2>1. \A j \in 1..i : j \in 1..(i - 1) \/ j = i BY <1>1, <1>10
  <2>2. 1..(i - 1) \subseteq 1..i /\ i \in 1..i /\ 1..i \subseteq 1..k BY <1>1, <1>12
  <2> QED BY <1>4, <2>1, <2>2
<1>15. \A u \in tree : Rank(tree, u) < i - 1 => u \in S
  <2>1. ASSUME NEW u \in tree, Rank(tree, u) < i - 1 PROVE u \in S
    <3>1. Rank(tree, u) \in 0..(k - 1) /\ order[Rank(tree, u) + 1] = u BY <1>1, <1>2
    <3>2. Rank(tree, u) + 1 \in 1..(i - 1) BY <1>1, <1>12, <2>1, <3>1
    <3> QED BY <3>1, <3>2
  <2> QED BY <2>1
<1>16. t \notin S
  <2>1. ASSUME NEW j \in 1..(i - 1), order[j] = t PROVE FALSE
    <3>1. j \in 1..k /\ j - 1 # i - 1 BY <1>1, <1>12
    <3>2. Rank(tree, order[j]) = j - 1 /\ Rank(tree, t) = i - 1 BY <1>2, <1>12, <3>1
    <3> HIDE DEF t
    <3> QED BY <2>1, <3>1, <3>2
  <2> QED BY <2>1
<1>17. ASSUME t.path # <<>> PROVE \E u \in S : u.path = Front(t.path)
  <2>1. PICK u \in tree : u.path = Front(t.path) BY <1>14, <1>17 DEF IsCallTree
  <2>2. DfsBefore(u.path, t.path)
    <3>1. t.path \in Seq(Nat) BY <1>14 DEF IsCallTree
    <3> HIDE DEF t
    <3> QED BY <1>17, <2>1, <3>1, FrontFact
  <2>3. Rank(tree, t) = i - 1 BY <1>2, <1>12
  <2>4. Rank(tree, u) < i - 1
    <3> HIDE DEF t
    <3> QED BY <1>1, <1>14, <2>2, <2>3
  <2>5. u \in S
    <3> HIDE DEF S
    <3> QED BY <1>15, <2>4
  <2> QED BY <2>1, <2>5
<1>18. run[i] = Inherit(run[i - 1], t) BY <1>5, <1>12
<1>19. Right(tree, S, run[i - 1]) BY <1>13
<1> HIDE DEF t, S, Done
<1>20. Right(tree, S \cup {t}, Inherit(run[i - 1], t))
  BY <1>14, <1>16, <1>17, <1>19, InheritStep
<1>21. Fine(i) BY <1>14, <1>18, <1>20
<1> HIDE DEF Fine
<1> QED BY <1>10, <1>21

(* The row of a trace, against the tree of its transaction.                      *)
Stock(row, tree) ==
  /\ row.index = Cardinality({t \in tree : DfsBefore(t.path, row.path)})
  /\ row.error = (IF Failing(tree, row.path) = {} THEN Undefined
                  ELSE Nearest(Failing(tree, row.path)).error)
  /\ row.gas = "limit" <=> \A t \in tree : IsPrefix(row.path, t.path)
TreeOf(n, tx) == {t \in Chain[n].traces : t.tx = tx}

LEMMA StockFact ==
  TracesAsStock <=> \A row \in store.traces : Stock(row, TreeOf(row.number, row.tx))
BY DEF TracesAsStock, Stock, TreeOf, Failing, Nearest

LEMMA RanksFact ==
  ASSUME NEW tree, IsFiniteSet(tree), IsCallTree(tree), NEW r \in RankTraces(tree)
  PROVE  /\ r.trace \in tree /\ r.index = Rank(tree, r.trace)
         /\ r.error = IF Failing(tree, r.trace.path) = {} THEN Undefined
                      ELSE Nearest(Failing(tree, r.trace.path)).error
PROOF
<1> DEFINE order == TreeOrder(tree)  errors == TreeErrors(tree)  k == Cardinality(tree)
           Index(u) == (CHOOSE i \in DOMAIN order : order[i] = u) - 1
           Error(u) == IF u.path \in DOMAIN errors THEN errors[u.path] ELSE Undefined
           R(u) == [trace |-> u, index |-> Index(u), error |-> Error(u)]
<1>1. RankTraces(tree) = {R(u) : u \in tree} BY DEF RankTraces
<1> HIDE DEF Index, Error
<1>2. PICK u \in tree : r = R(u)
  <2> HIDE DEF R
  <2> QED BY <1>1
<1>3. r.trace = u /\ r.index = Index(u) /\ r.error = Error(u) BY <1>2
<1>4. /\ order \in Seq(tree) /\ Len(order) = k /\ k \in Nat
      /\ \A i \in 1..k : Rank(tree, order[i]) = i - 1
      /\ Rank(tree, u) + 1 \in 1..k /\ order[Rank(tree, u) + 1] = u
      /\ Rank(tree, u) \in 0..(k - 1)
  BY TreeOrderFact, RankFact
<1>5. DOMAIN order = 1..k
  <2> HIDE DEF order, k
  <2> QED BY <1>4, LenProperties
<1>6. Index(u) = Rank(tree, u)
  <2> HIDE DEF order, k
  <2>1. PICK i \in 1..k : i = CHOOSE j \in DOMAIN order : order[j] = u
    <3>1. \E j \in DOMAIN order : order[j] = u BY <1>4, <1>5
    <3> QED BY <1>5, <3>1
  <2>2. order[i] = u BY <1>4, <1>5, <2>1
  <2>3. i - 1 = Rank(tree, u) BY <1>4, <2>2
  <2> QED BY <2>1, <2>3 DEF Index
<1>7. Right(tree, tree, errors) BY TreeErrorsFact
<1>8. Error(u) = IF Failing(tree, u.path) = {} THEN Undefined
                 ELSE Nearest(Failing(tree, u.path)).error
  <2>1. u.path \in DOMAIN errors <=> Failing(tree, u.path) # {}
    <3> HIDE DEF errors
    <3>1. ASSUME u.path \in DOMAIN errors PROVE Failing(tree, u.path) # {}
      <4>1. PICK v \in tree : Failing(tree, v.path) # {} /\ v.path = u.path
        BY <1>7, <3>1 DEF Right
      <4> QED BY <4>1
    <3>2. ASSUME Failing(tree, u.path) # {} PROVE u.path \in DOMAIN errors
      BY <1>7, <3>2 DEF Right
    <3> QED BY <3>1, <3>2
  <2>2. Failing(tree, u.path) # {} => errors[u.path] = Nearest(Failing(tree, u.path)).error
    BY <1>7 DEF Right
  <2> HIDE DEF errors
  <2> QED BY <2>1, <2>2 DEF Error
<1> QED BY <1>2, <1>3, <1>6, <1>8

(* A tree has its root, and only the root is above every frame.                  *)
LEMMA RootFact ==
  ASSUME NEW tree, IsCallTree(tree), NEW r \in tree
  PROVE  r.path = <<>> <=> \A t \in tree : IsPrefix(r.path, t.path)
PROOF
<1>1. \A t \in tree : t.path \in Seq(Nat) BY DEF IsCallTree
<1>2. \A t \in tree : Len(t.path) \in Nat BY <1>1, LenProperties
<1>3. <<>> \in Seq(Nat) /\ Len(<<>>) = 0 BY EmptySeq
<1>4. \E t \in tree : t.path = <<>>
  <2> DEFINE L == {Len(t.path) : t \in tree}
  <2>1. PICK m \in L : \A l \in L : m <= l
    <3>1. L \subseteq Nat /\ L # {} BY <1>2
    <3> HIDE DEF L
    <3> QED BY <3>1, LeastElement
  <2>2. PICK t \in tree : Len(t.path) = m OBVIOUS
  <2>3. ASSUME t.path # <<>> PROVE FALSE
    <3>1. PICK u \in tree : u.path = Front(t.path) BY <2>3 DEF IsCallTree
    <3>2. Len(u.path) = Len(t.path) - 1
      <4>1. t.path \in Seq(Nat) BY <1>1
      <4> QED BY <2>3, <3>1, <4>1, FrontFact
    <3>3. m <= Len(u.path) BY <2>1
    <3>4. Len(t.path) \in Nat BY <1>2
    <3> QED BY <2>2, <3>2, <3>3, <3>4
  <2> QED BY <2>3
<1>5. ASSUME r.path = <<>>, NEW t \in tree PROVE IsPrefix(r.path, t.path)
  <2>1. t.path \in Seq(Nat) /\ Len(t.path) \in Nat BY <1>1, <1>2
  <2>2. 0 <= Len(t.path) /\ \A j \in 1..0 : FALSE BY <2>1
  <2>3. IsPrefix(<<>>, t.path) <=> Len(<<>>) <= Len(t.path) /\ \A j \in 1..Len(<<>>) : <<>>[j] = t.path[j]
    BY <1>3, <2>1, PrefixOf
  <2>4. IsPrefix(<<>>, t.path) BY <1>3, <2>2, <2>3
  <2> QED BY <1>5, <2>4
<1>6. ASSUME \A t \in tree : IsPrefix(r.path, t.path) PROVE r.path = <<>>
  <2>1. IsPrefix(r.path, <<>>) BY <1>4, <1>6
  <2>2. r.path \in Seq(Nat) /\ Len(r.path) \in Nat BY <1>1, <1>2
  <2>3. Len(r.path) <= 0
    <3>1. Len(r.path) <= Len(<<>>) BY <2>1 DEF IsPrefix
    <3> QED BY <1>3, <3>1
  <2>4. Len(r.path) = 0 BY <2>2, <2>3
  <2> QED BY <2>2, <2>4, EmptySeq
<1> QED BY <1>5, <1>6

(* What is built of a raw block that has all of its block's traces.              *)
LEMMA BuiltAsStock ==
  ASSUME NEW n \in Numbers, NEW kids, NEW raw, raw.number = n, raw.traces = Chain[n].traces,
         NEW row \in BuildTraces(app, kids, raw)
  PROVE  row.number = n /\ Stock(row, TreeOf(n, row.tx))
PROOF
<1> DEFINE Tree(tx) == {t \in raw.traces : t.tx = tx}
           ranked == UNION {RankTraces(Tree(t.tx)) : t \in {u \in raw.traces : ~IsReward(u)}}
<1>1. PICK x \in ranked : row = TraceRow(raw, x)
  BY DEF BuildTraces
<1>2. PICK t \in raw.traces : ~IsReward(t) /\ x \in RankTraces(Tree(t.tx)) OBVIOUS
<1> DEFINE tree == TreeOf(n, t.tx)
<1>3. Tree(t.tx) = tree BY DEF TreeOf
<1>4. IsFiniteSet(tree) /\ IsCallTree(tree)
  <2>1. IsFiniteSet(Chain[n].traces) BY ChainAssumption
  <2>2. tree \subseteq Chain[n].traces BY DEF TreeOf
  <2>3. IsFiniteSet(tree)
    <3> HIDE DEF tree
    <3> QED BY <2>1, <2>2, FS_Subset
  <2>4. IsCallTree({u \in Chain[n].traces : u.tx = t.tx}) BY <1>2, ChainAssumption
  <2> QED BY <2>3, <2>4 DEF TreeOf
<1> HIDE DEF ranked, tree
<1>5. /\ x.trace \in tree /\ x.index = Rank(tree, x.trace)
      /\ x.error = IF Failing(tree, x.trace.path) = {} THEN Undefined
                   ELSE Nearest(Failing(tree, x.trace.path)).error
  BY <1>2, <1>3, <1>4, RanksFact
<1>6. x.trace.tx = t.tx BY <1>5 DEF TreeOf, tree
<1>7. /\ row.number = raw.number /\ row.tx = x.trace.tx /\ row.path = x.trace.path
      /\ row.index = x.index /\ row.error = x.error
      /\ row.gas = IF x.trace.path = <<>> THEN "limit" ELSE "frame"
  BY <1>1 DEF TraceRow
<1>8. row.gas = "limit" <=> \A u \in tree : IsPrefix(row.path, u.path)
  <2>1. x.trace.path = <<>> <=> \A u \in tree : IsPrefix(x.trace.path, u.path)
    BY <1>4, <1>5, RootFact
  <2>2. row.gas = "limit" <=> x.trace.path = <<>> BY <1>7
  <2> QED BY <1>7, <2>1, <2>2
<1>9. row.index = Cardinality({u \in tree : DfsBefore(u.path, row.path)})
  BY <1>5, <1>7 DEF Rank, Ahead
<1>10. Stock(row, tree) BY <1>5, <1>7, <1>8, <1>9 DEF Stock
<1>11. tree = TreeOf(n, row.tx) BY <1>6, <1>7 DEF tree
<1> QED BY <1>7, <1>10, <1>11

(* The raw blocks of traces have the whole block.                               *)
TreesOK ==
  \A n \in Numbers : \A raw \in RawsOf("trace", n) :
    raw.number = n /\ raw.traces = Chain[n].traces

LEMMA TreesStep ==
  ASSUME CursorsOK, FetchOK, DataOK, TreesOK, Next
  PROVE  TreesOK'
PROOF
<1>1. ASSUME NEW last \in fetch.cursor..fetch.to, Serve(last) PROVE TreesOK'
  <2> DEFINE source == Sources[fetch.source]
             Raw(n) == Served(source, fetch.todo[1], n)
  <2>1. \A s \in ToSet(Sources), n \in Numbers :
           \/ RawsOf(s, n)' = RawsOf(s, n)
           \/ s = source /\ RawsOf(s, n)' = RawsOf(s, n) \cup {Raw(n)}
    BY <1>1, ServeData
  <2>2. ASSUME NEW n \in Numbers, NEW raw \in RawsOf("trace", n)'
        PROVE  raw.number = n /\ raw.traces = Chain[n].traces
    <3>1. CASE raw \in RawsOf("trace", n) BY <3>1 DEF TreesOK
    <3>2. CASE raw \notin RawsOf("trace", n)
      <4> HIDE DEF source, Raw
      <4>1. "trace" \in ToSet(Sources) BY SourcesFact
      <4>2. source = "trace" /\ raw = Raw(n) BY <2>1, <2>2, <3>2, <4>1
      <4>3. Raw(n).number = n /\ Raw(n).traces = Chain[n].traces BY <4>2 DEF Raw, Served
      <4> QED BY <4>2, <4>3
    <3> QED BY <3>1, <3>2
  <2> QED BY <2>2 DEF TreesOK
<1>2. CASE Evict
  <2>1. data' = NoData BY <1>2 DEF Evict
  <2>2. \A s \in ToSet(Sources), n \in Numbers : RawsOf(s, n)' = {}
    BY <2>1 DEF RawsOf, NoData, ToSet
  <2> QED BY <2>2, SourcesFact DEF TreesOK
<1>3. CASE data' = data
  <2>1. \A s, n : RawsOf(s, n)' = RawsOf(s, n) BY <1>3 DEF RawsOf
  <2> QED BY <2>1 DEF TreesOK
<1> QED BY StepKinds, <1>1, <1>2, <1>3
  DEF Discover, StartFetch, RangeMoves, OnlyFetch, Finish, Assemble, GoLive, DiscoverLive, chunkVars

LEMMA StockStep ==
  ASSUME CursorsOK, FetchOK, TreesOK, TracesAsStock, Next
  PROVE  TracesAsStock'
PROOF
<1>1. ASSUME NEW hi \in Numbers, Assemble(hi) PROVE TracesAsStock'
  <2>1. PICK rows : Assembled(rows, done, hi) /\ store' = Inserted(rows)
    BY <1>1 DEF Assemble, Assembled
  <2>2. store'.traces = store.traces \cup rows.traces BY <2>1, InsertedFact
  <2>3. rows.traces = UNION {BuildTraces(app, children, raw) :
                               raw \in UNION {ToSet(data["trace"][n]) : n \in done..hi}}
    BY <2>1 DEF Assembled, AssembleRange
  <2>4. done..hi \subseteq Numbers BY NumbersFact DEF CursorsOK
  <2>5. ASSUME NEW row \in rows.traces PROVE Stock(row, TreeOf(row.number, row.tx))
    <3>1. PICK n \in done..hi : \E raw \in ToSet(data["trace"][n]) :
            row \in BuildTraces(app, children, raw)
      BY <2>3
    <3>4. PICK raw \in ToSet(data["trace"][n]) : row \in BuildTraces(app, children, raw)
      BY <3>1
    <3>2. n \in Numbers /\ raw \in RawsOf("trace", n) BY <2>4 DEF RawsOf
    <3>3. raw.number = n /\ raw.traces = Chain[n].traces BY <3>2 DEF TreesOK
    <3> QED BY <3>2, <3>3, <3>4, BuiltAsStock
  <2>6. \A row \in store.traces : Stock(row, TreeOf(row.number, row.tx)) BY StockFact
  <2>7. \A row \in store'.traces : Stock(row, TreeOf(row.number, row.tx)) BY <2>2, <2>5, <2>6
  <2> QED BY <2>7 DEF TracesAsStock, Stock, TreeOf, Failing, Nearest
<1>2. CASE store' = store BY <1>2 DEF TracesAsStock
<1> QED BY StepKinds, <1>1, <1>2
  DEF Discover, StartFetch, RangeMoves, OnlyFetch, Serve, Finish, Evict, GoLive, DiscoverLive

(* TracesAsStock: the traces of the store are those of ponder's own RPC sync, with   *)
(* the index, error and gas of the whole call tree (rankTraces and buildTraces of   *)
(* portal-assemble.ts), whichever of its frames the filters keep.                *)
THEOREM TracesMatchStock == Spec => []TracesAsStock
PROOF
<1> DEFINE Inv == TreesOK /\ TracesAsStock
<1>1. Init => Inv
  <2> SUFFICES ASSUME Init PROVE Inv
    OBVIOUS
  <2>1. \A s \in ToSet(Sources), n \in Numbers : RawsOf(s, n) = {}
    BY DEF Init, RawsOf, NoData, ToSet
  <2>2. store.traces = {} BY DEF Init, NoRows
  <2> QED BY <2>1, <2>2, SourcesFact DEF TreesOK, TracesAsStock
<1>2. DataPathInv /\ Inv /\ [Next]_vars => Inv'
  <2> SUFFICES ASSUME DataPathInv, Inv, [Next]_vars PROVE Inv'
    OBVIOUS
  <2>1. CursorsOK /\ FetchOK /\ DataOK BY DEF DataPathInv
  <2>2. CASE Next BY <2>1, <2>2, TreesStep, StockStep
  <2>3. CASE UNCHANGED vars
    <3>1. data' = data /\ store' = store BY <2>3 DEF vars
    <3>2. \A n : RawsOf("trace", n)' = RawsOf("trace", n) BY <3>1 DEF RawsOf
    <3>3. TreesOK' BY <3>2 DEF TreesOK
    <3>4. TracesAsStock' BY <3>1 DEF TracesAsStock
    <3> QED BY <3>3, <3>4
  <2> QED BY <2>2, <2>3
<1>3. Inv => TracesAsStock OBVIOUS
<1>4. Spec => []DataPathInv BY DataPathInvariant
<1> QED BY <1>1, <1>2, <1>3, <1>4, PTL DEF Spec
=============================================================================
