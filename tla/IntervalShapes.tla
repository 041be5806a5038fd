---------------------------- MODULE IntervalShapes ----------------------------
(***************************************************************************)
(* The shapes of the historical sync: what the discovery watermarks, the chunk  *)
(* cache and the callbacks look like in every reachable state, in both modes   *)
(* and for any grid, intervals, children, failures and restarts.  The lemmas   *)
(* about ensure, dataChunk and the streams also say how far each step reaches, *)
(* for the proofs of IntervalProofs.                                        *)
(***************************************************************************)
EXTENDS IntervalProperties, NatSets

(* The highest block handled so far: none yet, or a block.                    *)
Marks == -1..LastBlock

(* The watermarks, and the scans of the chain one after the other: each goes      *)
(* further than the one before and leaves no gap behind it, but for blocks below *)
(* the first a factory creates in; the last one ends at "through".             *)
ScanKind == [from : Blocks, to : Blocks, left : SUBSET Blocks]
DiscKind == [through : Marks, confirmed : Marks, quantum : 1..FullQuantum,
             scans : Seq(ScanKind), stray : SUBSET Blocks]
Before(d, k) == IF k = 1 THEN d.confirmed ELSE d.scans[k - 1].to
ScansChained(d) ==
  /\ d.confirmed <= d.through
  /\ \A k \in 1..Len(d.scans) :
       /\ Before(d, k) < d.scans[k].to /\ d.scans[k].to <= d.through
       /\ d.scans[k].from <= d.scans[k].to
       /\ d.scans[k].from <= Larger(Before(d, k) + 1, Floor)
       /\ d.scans[k].left \subseteq d.scans[k].from..d.scans[k].to
  /\ Before(d, Len(d.scans) + 1) = d.through
DiscOK(d) == d \in DiscKind /\ ScansChained(d)

(* An entry of the cache, its queued jobs, and what has to hold of them: a chain  *)
(* that runs has a job, and one that has not failed has had or has one.        *)
JobKind == [from : Nat, to : Marks, hint : Marks]
EntryKind == [at : {"free", "settled", "discovering", "streaming", "failed"},
              idx : Nat, from : Nat, to : Marks, jobs : Seq(JobKind), done : Nat,
              wait : Marks, filter : SUBSET Child, data : SUBSET (Blocks \X Child)]
EntriesOK(ent) ==
  /\ ent \in [Entry -> EntryKind]
  /\ \A e \in Entry :
       /\ ent[e].at = "free" => ent[e] = NoEntry
       /\ ent[e].at \in {"discovering", "streaming"} => ent[e].jobs # <<>>
       /\ ent[e].at \notin {"free", "failed"} => ent[e].done + Len(ent[e].jobs) >= 1

(* The cache points at the entry of its chunk, which has not failed; whoever     *)
(* awaits a job awaits it of an entry.                                        *)
CacheOK(cach, ent) ==
  /\ cach \in [Chunks -> Entry \cup {NoId}]
  /\ \A idx \in Chunks : cach[idx] # NoId =>
       ent[cach[idx]].idx = idx /\ ent[cach[idx]].at \notin {"free", "failed"}
Promise == [entry : Entry, job : Nat \ {0}]

StreamKinds ==
  /\ DiscOK(disc) /\ EntriesOK(entry) /\ CacheOK(cache, entry)
  /\ fetchQuantum \in 1..ChunkBlocks
  /\ Warmup = 0 => fetchQuantum = ChunkBlocks
  /\ awaited \in [Interval -> SUBSET Promise]
  /\ final \in Blocks /\ portalHead \in -1..final

(* Only a callback that hands over has something to commit, and only one that     *)
(* fetches or flushes awaits a chunk.                                         *)
Transaction == [at : Places, rows : SUBSET (Child \X Blocks), logs : SUBSET (Blocks \X Child)]
ShellKinds ==
  /\ known \in Births /\ queue \in Births
  /\ tx \in [Interval -> Transaction]
  /\ \A i \in Interval : /\ tx[i].at # "ranged" => tx[i].rows = {} /\ tx[i].logs = {}
                         /\ tx[i].at \notin {"fetching", "flushing"} => awaited[i] = {}
  /\ pendingFlushes \in [Interval -> Births]
  /\ stash \subseteq Interval /\ delegated \subseteq Interval
  /\ store \in [rows : [Child \X Blocks -> Nat], logs : SUBSET (Blocks \X Child),
                cached : SUBSET Interval]
  /\ up \in BOOLEAN

(* A process that is down has no memory; only what is durable survives it.       *)
Down == ~up => /\ disc = NewDisc /\ entry = NoEntries /\ cache = NoChunks
               /\ \A i \in Interval : tx[i].at = "idle"

(* All of it together is inductive.                                          *)
TInv == StreamKinds /\ ShellKinds /\ Down

-----------------------------------------------------------------------------
(* How far things reach: what a job to n has to wait for, a scan that has seen   *)
(* what it no longer has left, a job that waits for discovery to come as far as   *)
(* it reads, a chunk that covers no more than its jobs or discovery vouch for,    *)
(* and a promise that settles no earlier than a job which reaches to "to".       *)
Target(n) == Larger(n, Floor)
ScansHonest(d) ==
  \A k \in 1..Len(d.scans) : \A creation \in Creations :
    creation[2] \in d.scans[k].from..d.scans[k].to =>
      creation[2] \in d.scans[k].left \/ known[creation[1]] <= creation[2]
JobsWait(ent, n) ==
  \A e \in Entry :
    /\ ent[e].at = "discovering" => ent[e].wait >= Target(Head(ent[e].jobs).to)
    /\ ent[e].at = "streaming" => n >= Target(Head(ent[e].jobs).to)
ChunksReach(cach, ent, n) ==
  \A idx \in Chunks : cach[idx] # NoId =>
    \/ n >= Target(ent[cach[idx]].to)
    \/ \E m \in 1..Len(ent[cach[idx]].jobs) : ent[cach[idx]].jobs[m].to >= ent[cach[idx]].to
Reaches(ent, p, to) ==
  \/ ent[p.entry].at = "failed" /\ ent[p.entry].done < p.job
  \/ \E m \in 1..Len(ent[p.entry].jobs) :
       ent[p.entry].jobs[m].to >= to /\ ent[p.entry].done + m <= p.job

(* What is held: all logs of a block, by the children born until then.  A block   *)
(* is accounted for by the j-th promise of an entry if its logs are held, or a    *)
(* job that the promise waits for reads it; what an entry covers is.  A stream    *)
(* that runs asks for every child that is born by the end of its job.           *)
Born(n) == {c \in Child : FirstBirth[c] <= n}
Holds(r, n) == \A c \in Born(n) : <<n, c>> \in r.data
Accounts(r, n, j) ==
  \/ Holds(r, n)
  \/ \E m \in 1..Len(r.jobs) : n \in r.jobs[m].from..r.jobs[m].to /\ r.done + m <= j
Vouches(ent, p, n) ==
  \/ ent[p.entry].at = "failed" /\ ent[p.entry].done < p.job
  \/ Accounts(ent[p.entry], n, p.job)
Covers(r) ==
  /\ \A n \in r.from..r.to : Accounts(r, n, r.done + Len(r.jobs))
  /\ Warmup = 0 => r.from <= GridFrom(r.idx)
  /\ r.at = "streaming" => Born(Head(r.jobs).to) \subseteq r.filter
EntriesCover(ent) == \A e \in Entry : ent[e].at \notin {"free", "failed"} => Covers(ent[e])

-----------------------------------------------------------------------------
(* The store.                                                             *)

LEMMA EarliestOK ==
  ASSUME NEW S, S \subseteq Blocks
  PROVE  /\ Earliest(S) \in 0..Unborn
         /\ Earliest(S) # Unborn => Earliest(S) \in S
         /\ \A n \in S : Earliest(S) <= n
PROOF
<1>1. CASE S = {}
  BY <1>1, GridAssumption DEF Earliest, Unborn
<1>2. CASE S # {}
  <2>1. S \subseteq Nat BY GridAssumption DEF Blocks
  <2>2. \E n \in S : \A m \in S : n <= m
    BY <1>2, <2>1, LeastElement
  <2>3. Earliest(S) = CHOOSE n \in S : \A m \in S : n <= m BY <1>2 DEF Earliest
  <2>4. Earliest(S) \in S /\ \A m \in S : Earliest(S) <= m BY <2>2, <2>3
  <2>5. Earliest(S) \in 0..LastBlock BY <2>4 DEF Blocks
  <2>6. Earliest(S) \in 0..Unborn BY <2>5, GridAssumption DEF Unborn
  <2> QED BY <2>4, <2>6
<1> QED BY <1>1, <1>2

LEMMA BirthsOK ==
  /\ StoredBirths \in Births
  /\ \A c \in Child : StoredBirths[c] # Unborn =>
       StoredBirths[c] \in Blocks /\ store.rows[<<c, StoredBirths[c]>>] > 0
  /\ \A c \in Child, n \in Blocks : store.rows[<<c, n>>] > 0 => StoredBirths[c] <= n
PROOF
<1> DEFINE rows(c) == {n \in Blocks : store.rows[<<c, n>>] > 0}
<1>1. \A c \in Child : rows(c) \subseteq Blocks OBVIOUS
<1>2. StoredBirths = [c \in Child |-> Earliest(rows(c))] BY DEF StoredBirths
<1>3. \A c \in Child : /\ StoredBirths[c] \in 0..Unborn
                       /\ StoredBirths[c] # Unborn => StoredBirths[c] \in rows(c)
                       /\ \A n \in rows(c) : StoredBirths[c] <= n
  <2> HIDE DEF rows
  <2> QED BY <1>1, <1>2, EarliestOK
<1> QED BY <1>2, <1>3 DEF Births

LEMMA NobodyOK == Nobody \in Births /\ \A c \in Child : Nobody[c] = Unborn
PROOF
BY GridAssumption DEF Nobody, Births, Unborn

LEMMA BornOK ==
  ASSUME NEW n \in Blocks
  PROVE  BornIn({n}) \in Births
PROOF
<1> DEFINE at(c) == {m \in {n} : <<c, m>> \in Creations}
<1>1. \A c \in Child : at(c) \subseteq Blocks OBVIOUS
<1>2. BornIn({n}) = [c \in Child |-> Earliest(at(c))] BY DEF BornIn
<1> HIDE DEF at
<1> QED BY <1>1, <1>2, EarliestOK DEF Births

(* A child that is stored stays so, under no later block.                    *)
LEMMA StoredStays ==
  ASSUME \A row \in Child \X Blocks : store.rows[row] > 0 => store'.rows[row] > 0
  PROVE  \A c \in Child : StoredBirths'[c] <= StoredBirths[c]
PROOF
<1> TAKE c \in Child
<1>1. /\ StoredBirths[c] \in 0..Unborn
      /\ StoredBirths[c] # Unborn =>
           StoredBirths[c] \in Blocks /\ store.rows[<<c, StoredBirths[c]>>] > 0
  BY BirthsOK DEF Births
<1>2. /\ StoredBirths'[c] \in 0..Unborn
      /\ \A n \in Blocks : store'.rows[<<c, n>>] > 0 => StoredBirths'[c] <= n
  <2>1. BirthsOK!1' /\ BirthsOK!3' BY BirthsOK, PTL
  <2> QED BY <2>1 DEF Births
<1>3. CASE StoredBirths[c] = Unborn
  BY <1>2, <1>3, GridAssumption DEF Unborn
<1>4. CASE StoredBirths[c] # Unborn
  BY <1>1, <1>2, <1>4
<1> QED BY <1>3, <1>4

-----------------------------------------------------------------------------
(* The grid.                                                               *)

LEMMA GridFacts ==
  /\ \A n \in Nat : /\ IdxOf(n) \in Nat /\ IdxOf(n) * ChunkBlocks \in Nat
                    /\ IdxOf(n) * ChunkBlocks <= n
                    /\ n < IdxOf(n) * ChunkBlocks + ChunkBlocks
  /\ Floor \in Blocks /\ Floor <= FactoryFrom /\ FactoryFrom \in Nat
PROOF
<1>1. \A n \in Nat, b \in Nat \ {0} :
        /\ n \div b \in Nat /\ (n \div b) * b \in Nat
        /\ (n \div b) * b <= n /\ n < (n \div b) * b + b
  OBVIOUS
<1>2. \A n \in Nat : /\ IdxOf(n) \in Nat /\ IdxOf(n) * ChunkBlocks \in Nat
                     /\ IdxOf(n) * ChunkBlocks <= n
                     /\ n < IdxOf(n) * ChunkBlocks + ChunkBlocks
  BY <1>1, GridAssumption DEF IdxOf
<1>3. FactoryFrom \in Nat /\ FactoryFrom <= LastBlock /\ LastBlock \in Nat
  BY DiscoveryAssumption, GridAssumption DEF Blocks
<1>4. Floor = IdxOf(FactoryFrom) * ChunkBlocks BY DEF Floor
<1>5. Floor \in Nat /\ Floor <= FactoryFrom BY <1>2, <1>3, <1>4
<1> QED BY <1>2, <1>3, <1>5 DEF Blocks

-----------------------------------------------------------------------------
(* Asking for one chunk after another, as a sequence of single steps.          *)

LEMMA AskAllSteps ==
  ASSUME NEW s, NEW needs
  PROVE  \E f : /\ f[0] = s
                /\ \A k \in 1..(IdxOf(LastBlock) + 1) :
                     f[k] = Asked(f[k - 1], needs, k - 1)
                /\ AskAll(s, needs) = f[IdxOf(LastBlock) + 1]
PROOF
<1> DEFINE N == IdxOf(LastBlock) + 1
           Step(f, k) == IF k = 0 THEN s ELSE Asked(f[k - 1], needs, k - 1)
           Runs(n, f) == f = [k \in 0..n |-> Step(f, k)]
           Stuck == {n \in 0..N : ~\E f : Runs(n, f)}
<1>1. N \in Nat
  <2>1. LastBlock \in Nat BY GridAssumption
  <2>2. IdxOf(LastBlock) \in Nat BY <2>1, GridFacts
  <2> HIDE DEF Step, Runs, Stuck
  <2> QED BY <2>2
<1>2. AskAll(s, needs) = (CHOOSE f : Runs(N, f))[N] BY DEF AskAll
<1> HIDE DEF N
<1>3. Stuck = {}
  <2> SUFFICES ASSUME Stuck # {} PROVE FALSE OBVIOUS
  <2>1. Stuck \subseteq Nat BY <1>1
  <2>2. PICK n \in Stuck : \A m \in Stuck : n <= m BY <2>1, LeastElement
  <2>3. n \in 0..N OBVIOUS
  <2>4. CASE n = 0
    <3>1. Runs(0, [k \in 0..0 |-> s]) OBVIOUS
    <3> QED BY <2>4, <3>1
  <2>5. CASE n # 0
    <3>1. n - 1 \in 0..N /\ n - 1 \notin Stuck BY <1>1, <2>2, <2>3, <2>5
    <3>2. PICK f : Runs(n - 1, f) BY <3>1
    <3> DEFINE g == [k \in 0..n |-> IF k = n THEN Asked(f[n - 1], needs, n - 1) ELSE f[k]]
    <3>3. \A k \in 0..(n - 1) : g[k] = f[k] /\ f[k] = Step(f, k)
      BY <1>1, <2>3, <2>5, <3>2
    <3>4. ASSUME NEW k \in 0..n PROVE g[k] = Step(g, k)
      <4>1. CASE k = n
        <5>1. n - 1 \in 0..(n - 1) BY <2>3, <2>5
        <5>2. g[n - 1] = f[n - 1] BY <3>3, <5>1
        <5>3. g[n] = Asked(f[n - 1], needs, n - 1) OBVIOUS
        <5> HIDE DEF g
        <5> QED BY <4>1, <5>2, <5>3, <2>5
      <4>2. CASE k # n
        <5>1. k \in 0..(n - 1) /\ (k # 0 => k - 1 \in 0..(n - 1)) BY <2>3, <4>2
        <5>2. g[k] = Step(f, k) BY <3>3, <5>1
        <5>3. k # 0 => g[k - 1] = f[k - 1] BY <3>3, <5>1
        <5> HIDE DEF g
        <5> QED BY <5>2, <5>3
      <4> QED BY <4>1, <4>2
    <3>5. g = [k \in 0..n |-> g[k]] OBVIOUS
    <3> HIDE DEF g
    <3>6. Runs(n, g) BY <3>4, <3>5
    <3> QED BY <3>6
  <2> QED BY <2>4, <2>5
<1>4. \E f : Runs(N, f) BY <1>1, <1>3
<1>5. PICK f : Runs(N, f) /\ AskAll(s, needs) = f[N] BY <1>2, <1>4
<1>6. f[0] = s BY <1>1, <1>5
<1>7. ASSUME NEW k \in 1..N PROVE f[k] = Asked(f[k - 1], needs, k - 1)
  <2>1. k \in 0..N /\ k # 0 BY <1>1
  <2> QED BY <1>5, <2>1
<1> QED BY <1>5, <1>6, <1>7 DEF N

-----------------------------------------------------------------------------
(* Discovery.                                                              *)

LEMMA TargetOK ==
  \A n \in Marks : /\ Target(n) \in Blocks /\ n <= Target(n) /\ Floor <= Target(n)
                   /\ \A m \in Marks : n <= m => Target(n) <= Target(m)
PROOF BY GridFacts, GridAssumption DEF Marks, Blocks, Target, Larger

(* A scan appended behind the others.                                       *)
LEMMA ScanAppended ==
  ASSUME NEW d, DiscOK(d), NEW scan \in ScanKind,
         d.through < scan.to, scan.from <= scan.to,
         scan.from <= Larger(d.through + 1, Floor),
         scan.left \subseteq scan.from..scan.to
  PROVE  DiscOK([d EXCEPT !.through = scan.to, !.scans = Append(@, scan)])
PROOF
<1> DEFINE e == [d EXCEPT !.through = scan.to, !.scans = Append(@, scan)]
<1>1. /\ d \in DiscKind /\ d.scans \in Seq(ScanKind) /\ Len(d.scans) \in Nat
      /\ d.confirmed \in Marks /\ d.through \in Marks /\ ScansChained(d)
  BY DEF DiscOK, DiscKind
<1>2. scan.to \in Blocks /\ scan.to \in Marks /\ scan.from \in Blocks
  BY DEF ScanKind, Blocks, Marks
<1>3. /\ e.through = scan.to /\ e.confirmed = d.confirmed
      /\ e.scans = Append(d.scans, scan) /\ e \in DiscKind
  <2>1. Append(d.scans, scan) \in Seq(ScanKind) BY <1>1
  <2>2. ASSUME NEW n \in Marks, NEW t \in Seq(ScanKind)
        PROVE  LET x == [d EXCEPT !.through = n, !.scans = t]
               IN  /\ x.through = n /\ x.confirmed = d.confirmed /\ x.scans = t
                   /\ x \in DiscKind
    <3> HIDE DEF Marks, ScanKind
    <3> QED BY <1>1 DEF DiscKind
  <2> QED BY <1>2, <2>1, <2>2
<1>4. /\ Len(e.scans) = Len(d.scans) + 1 /\ e.scans[Len(d.scans) + 1] = scan
      /\ \A k \in 1..Len(d.scans) : e.scans[k] = d.scans[k]
      /\ \A k \in 1..Len(d.scans) : d.scans[k] \in ScanKind
  BY <1>1, <1>3
<1> HIDE DEF e
<1>5. \A k \in 1..(Len(d.scans) + 1) : Before(e, k) = Before(d, k)
  <2> TAKE k \in 1..(Len(d.scans) + 1)
  <2>1. CASE k = 1 BY <1>3, <2>1 DEF Before
  <2>2. CASE k # 1
    <3>1. k - 1 \in 1..Len(d.scans) BY <1>1, <2>2
    <3> QED BY <1>4, <2>2, <3>1 DEF Before
  <2> QED BY <2>1, <2>2
<1>6. Before(d, Len(d.scans) + 1) = d.through BY <1>1 DEF ScansChained
<1>7. ASSUME NEW k \in 1..Len(e.scans)
      PROVE  /\ Before(e, k) < e.scans[k].to /\ e.scans[k].to <= e.through
             /\ e.scans[k].from <= e.scans[k].to
             /\ e.scans[k].from <= Larger(Before(e, k) + 1, Floor)
             /\ e.scans[k].left \subseteq e.scans[k].from..e.scans[k].to
  <2>1. CASE k = Len(d.scans) + 1
    <3>1. Before(e, k) = d.through /\ e.scans[k] = scan BY <1>1, <1>4, <1>5, <1>6, <2>1
    <3>2. scan.to <= e.through BY <1>2, <1>3 DEF Blocks
    <3> QED BY <3>1, <3>2
  <2>2. CASE k \in 1..Len(d.scans)
    <3>1. Before(e, k) = Before(d, k) /\ e.scans[k] = d.scans[k]
      BY <1>1, <1>4, <1>5, <2>2
    <3>2. d.scans[k].to \in Int /\ d.scans[k].to <= d.through
      BY <1>1, <1>4, <2>2 DEF ScansChained, ScanKind, Blocks
    <3>3. d.scans[k].to <= e.through
      BY <1>1, <1>2, <1>3, <3>2 DEF Blocks, Marks
    <3> QED BY <1>1, <2>2, <3>1, <3>3 DEF ScansChained
  <2> QED BY <1>1, <1>4, <2>1, <2>2
<1>8. Before(e, Len(e.scans) + 1) = e.through
  <2>1. Len(e.scans) + 1 # 1 /\ Len(e.scans) + 1 - 1 = Len(d.scans) + 1 BY <1>1, <1>4
  <2> QED BY <1>3, <1>4, <2>1 DEF Before
<1>9. e.confirmed <= e.through
  BY <1>1, <1>2, <1>3 DEF ScansChained, Marks, Blocks
<1>10. DiscOK(e) BY <1>3, <1>7, <1>8, <1>9 DEF DiscOK, ScansChained
<1> QED BY <1>10 DEF e

(* ensure covers what is asked for, with the scans that run or with one more. *)
LEMMA EnsuredOK ==
  ASSUME NEW d, DiscOK(d), NEW n \in Marks, NEW hint \in Marks
  PROVE  LET e == Ensured(d, EnsureTarget(d, n), hint)
         IN  /\ DiscOK(e) /\ e.confirmed = d.confirmed
             /\ Target(n) <= e.through
             /\ \/ e = d
                \/ \E scan \in ScanKind :
                     /\ e.scans = Append(d.scans, scan)
                     /\ scan.left = {m \in scan.from..scan.to :
                                       \E c \in Child : <<c, m>> \in Creations}
PROOF
<1> DEFINE needTo == EnsureTarget(d, n)
           from == IF d.through < 0 THEN Floor ELSE d.through + 1
           to == Larger(needTo, Smaller(hint, d.through + d.quantum))
           scan == [from |-> from, to |-> to,
                    left |-> {m \in from..to : \E c \in Child : <<c, m>> \in Creations}]
           e == Ensured(d, needTo, hint)
<1>1. /\ d \in DiscKind /\ d.through \in Marks /\ d.confirmed \in Marks
      /\ d.quantum \in 1..FullQuantum /\ FullQuantum \in Nat /\ LastBlock \in Nat
  BY GridAssumption DEF DiscOK, DiscKind, FullQuantum
<1>2. Floor \in Blocks /\ Floor \in Nat BY GridFacts DEF Blocks
<1>3. needTo \in Marks /\ (needTo <= d.through \/ needTo >= Target(n))
      /\ (d.through >= Floor \/ needTo >= Floor)
      /\ (needTo <= d.through => Target(n) <= d.through)
  BY <1>1, <1>2 DEF EnsureTarget, Target, Larger, Marks, Blocks
<1>4. CASE needTo <= d.through
  <2>1. e = d BY <1>4 DEF Ensured
  <2> HIDE DEF needTo, e
  <2>2. Target(n) <= d.through BY <1>3, <1>4
  <2> QED BY <2>1, <2>2 DEF e, needTo
<1>5. CASE ~(needTo <= d.through)
  <2>1. e = [d EXCEPT !.through = scan.to, !.scans = Append(@, scan)]
    BY <1>5 DEF Ensured
  <2> HIDE DEF e, needTo
  <2>2. needTo > d.through /\ needTo >= Target(n) BY <1>1, <1>3, <1>5 DEF Marks
  <2>3. to \in Marks /\ needTo <= to
    BY <1>1, <1>3 DEF Larger, Smaller, Marks
  <2>4. from \in Blocks /\ from <= needTo /\ from <= Larger(d.through + 1, Floor)
    BY <1>1, <1>2, <1>3, <2>2 DEF Larger, Marks, Blocks
  <2> HIDE DEF from, to
  <2>5. to \in Blocks /\ d.through < to /\ from <= to
    BY <1>1, <1>3, <2>2, <2>3, <2>4 DEF Marks, Blocks
  <2>6. from..to \subseteq Blocks BY <1>1, <2>4, <2>5 DEF Blocks
  <2>7. scan \in ScanKind BY <2>4, <2>5, <2>6 DEF ScanKind
  <2>8. DiscOK(e)
    <3>1. scan.left \subseteq scan.from..scan.to OBVIOUS
    <3>2. d.through < scan.to /\ scan.from <= scan.to /\ scan.from <= Larger(d.through + 1, Floor)
      BY <2>4, <2>5
    <3> HIDE DEF scan
    <3> QED BY <2>1, <2>7, <3>1, <3>2, ScanAppended
  <2>9. e.confirmed = d.confirmed /\ e.through = to /\ e.scans = Append(d.scans, scan)
    BY <1>1, <2>1 DEF DiscKind
  <2>10. Target(n) <= e.through
    BY <1>1, <1>3, <2>2, <2>3, <2>9, TargetOK DEF Marks, Blocks
  <2>11. scan.left = {m \in scan.from..scan.to : \E c \in Child : <<c, m>> \in Creations}
    OBVIOUS
  <2> HIDE DEF scan
  <2> QED BY <2>7, <2>8, <2>9, <2>10, <2>11 DEF e, needTo
<1> QED BY <1>4, <1>5

(* What such a scan has not met yet is still ahead of it.                     *)
LEMMA EnsuredHonest ==
  ASSUME NEW d, DiscOK(d), ScansHonest(d), NEW n \in Marks, NEW hint \in Marks
  PROVE  ScansHonest(Ensured(d, EnsureTarget(d, n), hint))
PROOF
<1> DEFINE e == Ensured(d, EnsureTarget(d, n), hint)
<1>1. \/ e = d
      \/ \E scan \in ScanKind :
           /\ e.scans = Append(d.scans, scan)
           /\ scan.left = {m \in scan.from..scan.to :
                             \E c \in Child : <<c, m>> \in Creations}
  BY EnsuredOK
<1> HIDE DEF e
<1>2. CASE e = d BY <1>2 DEF e
<1>3. ASSUME NEW scan \in ScanKind, e.scans = Append(d.scans, scan),
             scan.left = {m \in scan.from..scan.to :
                            \E c \in Child : <<c, m>> \in Creations}
      PROVE  ScansHonest(e)
  <2> SUFFICES ASSUME NEW k \in 1..Len(e.scans), NEW creation \in Creations,
                      creation[2] \in e.scans[k].from..e.scans[k].to
               PROVE  \/ creation[2] \in e.scans[k].left
                      \/ known[creation[1]] <= creation[2]
    BY DEF ScansHonest
  <2>1. d.scans \in Seq(ScanKind) /\ Len(d.scans) \in Nat BY DEF DiscOK, DiscKind
  <2>2. /\ Len(e.scans) = Len(d.scans) + 1 /\ e.scans[Len(d.scans) + 1] = scan
        /\ \A m \in 1..Len(d.scans) : e.scans[m] = d.scans[m]
    BY <1>3, <2>1
  <2>3. CASE k = Len(d.scans) + 1
    <3>1. creation[1] \in Child /\ <<creation[1], creation[2]>> \in Creations
      BY DiscoveryAssumption
    <3> QED BY <1>3, <2>2, <2>3, <3>1
  <2>4. CASE k \in 1..Len(d.scans) BY <2>2, <2>4 DEF ScansHonest
  <2> QED BY <2>1, <2>2, <2>3, <2>4
<1> QED BY <1>1, <1>2, <1>3 DEF e

-----------------------------------------------------------------------------
(* The state of asking: what it is made of, and how an entry of it widens.     *)
AskKind ==
  [entry : [Entry -> EntryKind], cache : [Chunks -> Entry \cup {NoId}], disc : DiscKind,
   promises : SUBSET Promise, refused : BOOLEAN, full : BOOLEAN]
AskOK(s) ==
  s \in AskKind /\ DiscOK(s.disc) /\ EntriesOK(s.entry) /\ CacheOK(s.cache, s.entry)
NeedKind == [from : Nat, to : Marks]

(* Jobs are only added, at the end.                                         *)
Widened(r, q) ==
  /\ q.at = r.at /\ q.idx = r.idx /\ q.done = r.done /\ q.wait = r.wait
  /\ q.filter = r.filter /\ q.data = r.data
  /\ Len(r.jobs) <= Len(q.jobs) /\ \A k \in 1..Len(r.jobs) : q.jobs[k] = r.jobs[k]
Grows(ent, ent2) == \A e \in Entry : ent[e].at # "free" => Widened(ent[e], ent2[e])

LEMMA EntryParts ==
  /\ \A r \in EntryKind :
       /\ r.jobs \in Seq(JobKind) /\ Len(r.jobs) \in Nat /\ r.done \in Nat
       /\ r.from \in Nat /\ r.to \in Marks /\ r.to \in Int /\ r.wait \in Marks
       /\ \A m \in 1..Len(r.jobs) : /\ r.jobs[m] \in JobKind /\ r.jobs[m].to \in Marks
                                   /\ r.jobs[m].to \in Int /\ r.jobs[m].from \in Nat
  /\ \A m \in Marks : m \in Int
PROOF
<1>1. \A m \in Marks : m \in Int BY GridAssumption DEF Marks
<1>2. \A j \in JobKind : j.to \in Marks /\ j.from \in Nat BY DEF JobKind
<1>3. \A r \in EntryKind :
        /\ r.jobs \in Seq(JobKind) /\ r.done \in Nat
        /\ r.from \in Nat /\ r.to \in Marks /\ r.wait \in Marks
  <2> HIDE DEF JobKind, Marks
  <2> QED BY DEF EntryKind
<1>4. \A jobs \in Seq(JobKind) :
        Len(jobs) \in Nat /\ \A m \in 1..Len(jobs) : jobs[m] \in JobKind
  <2> HIDE DEF JobKind
  <2> QED OBVIOUS
<1> HIDE DEF JobKind, Marks, EntryKind
<1> QED BY <1>1, <1>2, <1>3, <1>4

LEMMA WidenedOK ==
  /\ \A r \in EntryKind : Widened(r, r)
  /\ \A p, q, r \in EntryKind : Widened(p, q) /\ Widened(q, r) => Widened(p, r)
PROOF
<1>1. \A r \in EntryKind : Len(r.jobs) \in Nat BY DEF EntryKind
<1>2. \A r \in EntryKind : Widened(r, r) BY <1>1 DEF Widened
<1>3. ASSUME NEW p \in EntryKind, NEW q \in EntryKind, NEW r \in EntryKind,
             Widened(p, q), Widened(q, r)
      PROVE  Widened(p, r)
  <2>1. Len(p.jobs) \in Nat /\ Len(q.jobs) \in Nat /\ Len(r.jobs) \in Nat BY <1>1
  <2> QED BY <1>3, <2>1 DEF Widened
<1> QED BY <1>2, <1>3

LEMMA NoEntryOK ==
  /\ NoEntry \in EntryKind /\ NoEntry.at = "free" /\ NoEntry.jobs = <<>> /\ NoEntry.done = 0
  /\ NoId \notin Entry
PROOF
<1>1. LastBlock \in Nat BY GridAssumption
<1>2. <<>> \in Seq(JobKind) OBVIOUS
<1>3. 0 \in Marks /\ -1 \in Marks BY <1>1 DEF Marks
<1> HIDE DEF JobKind, Marks
<1>4. NoEntry \in EntryKind BY <1>2, <1>3 DEF NoEntry, EntryKind
<1> QED BY <1>4 DEF NoEntry, NoId, Entry

(* An entry of the state is replaced.                                       *)
LEMMA Replaced ==
  ASSUME NEW s \in AskKind, NEW e \in Entry, NEW r \in EntryKind
  PROVE  LET t == [s EXCEPT !.entry[e] = r]
         IN  /\ t \in AskKind
             /\ t.cache = s.cache /\ t.disc = s.disc /\ t.promises = s.promises
             /\ t.refused = s.refused /\ t.full = s.full
             /\ t.entry[e] = r /\ \A f \in Entry : f # e => t.entry[f] = s.entry[f]
PROOF
<1> HIDE DEF EntryKind, DiscKind, Promise, Chunks
<1> QED BY DEF AskKind

(* What a job chained behind an entry makes of the state.                     *)
ChainedTo(s, t, e, from, to, hint) ==
  /\ t \in AskKind
  /\ t.cache = s.cache /\ t.disc = s.disc /\ t.promises = s.promises
  /\ t.refused = s.refused /\ t.full = s.full
  /\ \A f \in Entry : f # e => t.entry[f] = s.entry[f]
  /\ Widened(s.entry[e], t.entry[e])
  /\ t.entry[e].from = s.entry[e].from /\ t.entry[e].to = s.entry[e].to
  /\ t.entry[e].jobs = Append(s.entry[e].jobs, [from |-> from, to |-> to, hint |-> hint])
  /\ Len(t.entry[e].jobs) = Len(s.entry[e].jobs) + 1
  /\ t.entry[e].jobs[Len(s.entry[e].jobs) + 1].to = to
  /\ t.entry[e].jobs[Len(s.entry[e].jobs) + 1].from = from

LEMMA ChainedOK ==
  ASSUME NEW s \in AskKind, NEW e \in Entry,
         NEW from \in Nat, NEW to \in Marks, NEW hint \in Marks
  PROVE  ChainedTo(s, Chained(s, e, from, to, hint), e, from, to, hint)
PROOF
<1> DEFINE job == [from |-> from, to |-> to, hint |-> hint]
           r == s.entry[e]
           q == [r EXCEPT !.jobs = Append(@, job)]
           t == Chained(s, e, from, to, hint)
<1>1. job \in JobKind /\ job.to = to /\ job.from = from BY DEF JobKind
<1>2. r \in EntryKind BY DEF AskKind
<1>3. t = [s EXCEPT !.entry[e] = q] BY DEF Chained
<1> HIDE DEF job, r, t
<1>4. r.jobs \in Seq(JobKind) BY <1>2 DEF EntryKind
<1>5. /\ Append(r.jobs, job) \in Seq(JobKind)
      /\ Len(Append(r.jobs, job)) = Len(r.jobs) + 1 /\ Len(r.jobs) \in Nat
      /\ Append(r.jobs, job)[Len(r.jobs) + 1] = job
      /\ \A k \in 1..Len(r.jobs) : Append(r.jobs, job)[k] = r.jobs[k]
  <2> HIDE DEF JobKind
  <2> QED BY <1>1, <1>4
<1>6. /\ q \in EntryKind /\ q.jobs = Append(r.jobs, job)
      /\ q.at = r.at /\ q.idx = r.idx /\ q.done = r.done /\ q.wait = r.wait
      /\ q.filter = r.filter /\ q.data = r.data /\ q.from = r.from /\ q.to = r.to
  <2>1. ASSUME NEW jobs \in Seq(JobKind)
        PROVE  LET x == [r EXCEPT !.jobs = jobs]
               IN  /\ x \in EntryKind /\ x.jobs = jobs
                   /\ x.at = r.at /\ x.idx = r.idx /\ x.done = r.done /\ x.wait = r.wait
                   /\ x.filter = r.filter /\ x.data = r.data /\ x.from = r.from /\ x.to = r.to
    <3> HIDE DEF JobKind, Marks
    <3> QED BY <1>2 DEF EntryKind
  <2> QED BY <1>5, <2>1
<1> HIDE DEF q
<1>7. Widened(r, q) BY <1>5, <1>6 DEF Widened
<1>8. /\ t \in AskKind
      /\ t.cache = s.cache /\ t.disc = s.disc /\ t.promises = s.promises
      /\ t.refused = s.refused /\ t.full = s.full
      /\ t.entry[e] = q /\ \A f \in Entry : f # e => t.entry[f] = s.entry[f]
  BY <1>3, <1>6, Replaced
<1> QED BY <1>1, <1>5, <1>6, <1>7, <1>8 DEF job, r, t, ChainedTo

(* The coverage of an entry is moved.                                       *)
MovedTo(s, t, e, from, to) ==
  /\ t \in AskKind
  /\ t.cache = s.cache /\ t.disc = s.disc /\ t.promises = s.promises
  /\ t.refused = s.refused /\ t.full = s.full
  /\ \A f \in Entry : f # e => t.entry[f] = s.entry[f]
  /\ Widened(s.entry[e], t.entry[e]) /\ t.entry[e].jobs = s.entry[e].jobs
  /\ t.entry[e].from = from /\ t.entry[e].to = to

LEMMA BoundMoved ==
  ASSUME NEW s \in AskKind, NEW e \in Entry, NEW from \in Nat, NEW to \in Marks
  PROVE  /\ MovedTo(s, [s EXCEPT !.entry[e].from = from], e, from, s.entry[e].to)
         /\ MovedTo(s, [s EXCEPT !.entry[e].to = to], e, s.entry[e].from, to)
PROOF
<1> DEFINE r == s.entry[e]
           q == [r EXCEPT !.from = from]
           p == [r EXCEPT !.to = to]
           a == [s EXCEPT !.entry[e].from = from]
           b == [s EXCEPT !.entry[e].to = to]
<1>1. r \in EntryKind /\ Len(r.jobs) \in Nat BY DEF AskKind, EntryKind
<1>2. a = [s EXCEPT !.entry[e] = q] /\ b = [s EXCEPT !.entry[e] = p] OBVIOUS
<1> HIDE DEF r, a, b
<1>3. /\ q \in EntryKind /\ q.jobs = r.jobs /\ q.from = from /\ q.to = r.to
      /\ q.at = r.at /\ q.idx = r.idx /\ q.done = r.done /\ q.wait = r.wait
      /\ q.filter = r.filter /\ q.data = r.data
  <2> HIDE DEF JobKind, Marks
  <2> QED BY <1>1 DEF EntryKind
<1>4. /\ p \in EntryKind /\ p.jobs = r.jobs /\ p.from = r.from /\ p.to = to
      /\ p.at = r.at /\ p.idx = r.idx /\ p.done = r.done /\ p.wait = r.wait
      /\ p.filter = r.filter /\ p.data = r.data
  <2> HIDE DEF JobKind, Marks
  <2> QED BY <1>1 DEF EntryKind
<1> HIDE DEF p, q
<1>5. Widened(r, q) /\ Widened(r, p) BY <1>1, <1>3, <1>4 DEF Widened
<1>6. /\ a \in AskKind
      /\ a.cache = s.cache /\ a.disc = s.disc /\ a.promises = s.promises
      /\ a.refused = s.refused /\ a.full = s.full
      /\ a.entry[e] = q /\ \A f \in Entry : f # e => a.entry[f] = s.entry[f]
  BY <1>2, <1>3, Replaced
<1>7. /\ b \in AskKind
      /\ b.cache = s.cache /\ b.disc = s.disc /\ b.promises = s.promises
      /\ b.refused = s.refused /\ b.full = s.full
      /\ b.entry[e] = p /\ \A f \in Entry : f # e => b.entry[f] = s.entry[f]
  BY <1>2, <1>4, Replaced
<1>8. MovedTo(s, a, e, from, r.to) BY <1>3, <1>5, <1>6 DEF MovedTo, r
<1>9. MovedTo(s, b, e, r.from, to) BY <1>4, <1>5, <1>7 DEF MovedTo, r
<1> QED BY <1>8, <1>9 DEF r, a, b

-----------------------------------------------------------------------------
(* dataChunk: what each call keeps.                                         *)
Reachable(s) ==
  /\ ScansHonest(s.disc) /\ JobsWait(s.entry, s.disc.confirmed)
  /\ ChunksReach(s.cache, s.entry, s.disc.confirmed)
Follows(s, t) ==
  /\ AskOK(t) /\ Grows(s.entry, t.entry) /\ t.disc.confirmed = s.disc.confirmed
  /\ s.promises \subseteq t.promises
  /\ s.refused => t.refused
  /\ s.full => t.full
  /\ Reachable(s) => Reachable(t)
  /\ EntriesCover(s.entry) => EntriesCover(t.entry)
Promising(s, to) ==
  s.refused \/ s.full \/ s.disc.confirmed >= Target(to) \/ \E p \in s.promises : Reaches(s.entry, p, to)
Vouching(s, n) == s.refused \/ s.full \/ \E p \in s.promises : Vouches(s.entry, p, n)

LEMMA GrowsReaches ==
  ASSUME NEW ent \in [Entry -> EntryKind], NEW ent2 \in [Entry -> EntryKind], Grows(ent, ent2),
         NEW p \in Promise, NEW to \in Marks, Reaches(ent, p, to), EntriesOK(ent)
  PROVE  Reaches(ent2, p, to)
PROOF
<1>1. p.entry \in Entry BY DEF Promise
<1>2. ent[p.entry].at # "free"
  <2>1. CASE ent[p.entry].at = "failed" BY <2>1
  <2>2. CASE \E m \in 1..Len(ent[p.entry].jobs) : TRUE
    <3>1. ASSUME ent[p.entry].at = "free" PROVE ent[p.entry].jobs = <<>>
      <4>1. ent[p.entry] = NoEntry BY <1>1, <3>1 DEF EntriesOK
      <4> QED BY <4>1, NoEntryOK
    <3> QED BY <2>2, <3>1
  <2> QED BY <2>1, <2>2 DEF Reaches
<1>3. Widened(ent[p.entry], ent2[p.entry]) BY <1>1, <1>2 DEF Grows
<1>4. Len(ent[p.entry].jobs) \in Nat /\ Len(ent2[p.entry].jobs) \in Nat
  BY <1>1 DEF EntryKind
<1> QED BY <1>3, <1>4 DEF Reaches, Widened

(* Whoever widens still accounts for what was accounted for.                   *)
LEMMA WidenedAccounts ==
  ASSUME NEW r \in EntryKind, NEW q \in EntryKind, Widened(r, q), NEW n, NEW j,
         Accounts(r, n, j)
  PROVE  Accounts(q, n, j)
PROOF
<1>1. Len(r.jobs) \in Nat /\ Len(q.jobs) \in Nat BY EntryParts
<1>2. CASE Holds(r, n) BY <1>2 DEF Widened, Holds, Accounts
<1>3. CASE \E m \in 1..Len(r.jobs) : n \in r.jobs[m].from..r.jobs[m].to /\ r.done + m <= j
  <2>1. PICK m \in 1..Len(r.jobs) : n \in r.jobs[m].from..r.jobs[m].to /\ r.done + m <= j
    BY <1>3
  <2>2. m \in 1..Len(q.jobs) BY <1>1 DEF Widened
  <2> QED BY <2>1, <2>2 DEF Widened, Accounts
<1> QED BY <1>2, <1>3 DEF Accounts

LEMMA GrowsVouches ==
  ASSUME NEW ent, EntriesOK(ent), NEW ent2, EntriesOK(ent2), Grows(ent, ent2),
         NEW p \in Promise, NEW n, Vouches(ent, p, n)
  PROVE  Vouches(ent2, p, n)
PROOF
<1> DEFINE r == ent[p.entry]
           q == ent2[p.entry]
<1>1. p.entry \in Entry BY DEF Promise
<1>2. r \in EntryKind /\ q \in EntryKind BY <1>1 DEF EntriesOK
<1>3. CASE r.at = "free"
  <2>1. r = NoEntry BY <1>1, <1>3 DEF EntriesOK
  <2>2. r.jobs = <<>> /\ r.data = {} /\ r.at # "failed"
    <3>1. NoEntry.data = {} BY DEF NoEntry
    <3> QED BY <1>3, <2>1, <3>1, NoEntryOK
  <2> HIDE DEF r, q
  <2>3. ~\E m \in 1..Len(r.jobs) : TRUE BY <2>2
  <2>4. Holds(r, n) BY <2>2, <2>3 DEF Vouches, Accounts, r
  <2>5. Holds(q, n) BY <2>2, <2>4 DEF Holds
  <2> QED BY <2>5 DEF Vouches, Accounts, q
<1>4. CASE r.at # "free"
  <2>1. Widened(r, q) BY <1>1, <1>4 DEF Grows
  <2>2. CASE r.at = "failed" /\ r.done < p.job BY <2>1, <2>2 DEF Widened, Vouches
  <2>3. CASE Accounts(r, n, p.job)
    <3> HIDE DEF r, q
    <3>1. Accounts(q, n, p.job) BY <1>2, <2>1, <2>3, WidenedAccounts
    <3> QED BY <3>1 DEF Vouches, q
  <2> QED BY <2>2, <2>3 DEF Vouches
<1> QED BY <1>3, <1>4

LEMMA FollowsOK ==
  /\ \A s : AskOK(s) => Follows(s, s)
  /\ \A s, t, u : AskOK(s) /\ Follows(s, t) /\ Follows(t, u) => Follows(s, u)
  /\ \A s, t : \A to \in Marks :
       AskOK(s) /\ Follows(s, t) /\ Promising(s, to) => Promising(t, to)
  /\ \A s, t, n : AskOK(s) /\ Follows(s, t) /\ Vouching(s, n) => Vouching(t, n)
PROOF
<1>1. ASSUME NEW s, AskOK(s) PROVE Follows(s, s)
  <2>1. \A e \in Entry : s.entry[e] \in EntryKind BY <1>1 DEF AskOK, AskKind
  <2>2. Grows(s.entry, s.entry) BY <2>1, WidenedOK DEF Grows
  <2> QED BY <1>1, <2>2 DEF Follows
<1>2. ASSUME NEW s, NEW t, NEW u, AskOK(s), Follows(s, t), Follows(t, u) PROVE Follows(s, u)
  <2>1. \A e \in Entry : /\ s.entry[e] \in EntryKind /\ t.entry[e] \in EntryKind
                         /\ u.entry[e] \in EntryKind
    BY <1>2 DEF Follows, AskOK, AskKind
  <2>2. ASSUME NEW e \in Entry, s.entry[e].at # "free"
        PROVE  Widened(s.entry[e], u.entry[e])
    <3>1. Widened(s.entry[e], t.entry[e]) BY <1>2, <2>2 DEF Follows, Grows
    <3>2. t.entry[e].at # "free" BY <2>2, <3>1 DEF Widened
    <3>3. Widened(t.entry[e], u.entry[e]) BY <1>2, <3>2 DEF Follows, Grows
    <3> QED BY <2>1, <3>1, <3>3, WidenedOK
  <2>3. Grows(s.entry, u.entry) BY <2>2 DEF Grows
  <2> QED BY <1>2, <2>3 DEF Follows
<1>3. ASSUME NEW s, NEW t, NEW to \in Marks, AskOK(s), Follows(s, t), Promising(s, to)
      PROVE  Promising(t, to)
  <2>1. CASE s.refused \/ s.full \/ s.disc.confirmed >= Target(to)
    BY <1>3, <2>1 DEF Promising, Follows
  <2>2. CASE \E p \in s.promises : Reaches(s.entry, p, to)
    <3>1. PICK p \in s.promises : Reaches(s.entry, p, to) BY <2>2
    <3>2. /\ s.entry \in [Entry -> EntryKind] /\ t.entry \in [Entry -> EntryKind]
          /\ p \in Promise /\ EntriesOK(s.entry) /\ Grows(s.entry, t.entry)
          /\ p \in t.promises
      <4>1. s \in AskKind /\ t \in AskKind BY <1>3 DEF Follows, AskOK
      <4> QED BY <1>3, <3>1, <4>1 DEF Follows, AskOK, AskKind
    <3>3. Reaches(t.entry, p, to) BY <3>1, <3>2, GrowsReaches
    <3> QED BY <3>2, <3>3 DEF Promising
  <2> QED BY <1>3, <2>1, <2>2 DEF Promising
<1>4. ASSUME NEW s, NEW t, NEW n, AskOK(s), Follows(s, t), Vouching(s, n)
      PROVE  Vouching(t, n)
  <2>1. CASE s.refused \/ s.full BY <1>4, <2>1 DEF Vouching, Follows
  <2>2. CASE \E p \in s.promises : Vouches(s.entry, p, n)
    <3>1. PICK p \in s.promises : Vouches(s.entry, p, n) BY <2>2
    <3>2. /\ EntriesOK(s.entry) /\ EntriesOK(t.entry) /\ Grows(s.entry, t.entry)
          /\ p \in Promise /\ p \in t.promises
      <4>1. s \in AskKind /\ AskOK(t) BY <1>4 DEF Follows, AskOK
      <4> QED BY <1>4, <3>1, <4>1 DEF Follows, AskOK, AskKind
    <3>3. Vouches(t.entry, p, n) BY <3>1, <3>2, GrowsVouches
    <3> QED BY <3>2, <3>3 DEF Vouching
  <2> QED BY <1>4, <2>1, <2>2 DEF Vouching
<1> QED BY <1>1, <1>2, <1>3, <1>4

LEMMA CachedOK ==
  ASSUME NEW s, AskOK(s), NEW idx \in Chunks, s.cache[idx] # NoId
  PROVE  LET e == s.cache[idx]
         IN  /\ e \in Entry /\ s.entry[e] \in EntryKind /\ s.entry[e].idx = idx
             /\ s.entry[e].at \notin {"free", "failed"}
             /\ Len(s.entry[e].jobs) \in Nat /\ s.entry[e].done \in Nat
             /\ s.entry[e].done + Len(s.entry[e].jobs) >= 1
PROOF
<1>1. s.cache[idx] \in Entry /\ s.entry \in [Entry -> EntryKind] BY DEF AskOK, AskKind
<1>2. /\ s.entry[s.cache[idx]].idx = idx
      /\ s.entry[s.cache[idx]].at \notin {"free", "failed"}
  BY DEF AskOK, CacheOK
<1>3. s.entry[s.cache[idx]] \in EntryKind BY <1>1
<1>4. Len(s.entry[s.cache[idx]].jobs) \in Nat /\ s.entry[s.cache[idx]].done \in Nat
  BY <1>3, EntryParts
<1>5. s.entry[s.cache[idx]].done + Len(s.entry[s.cache[idx]].jobs) >= 1
  BY <1>1, <1>2 DEF AskOK, EntriesOK
<1> QED BY <1>1, <1>2, <1>3, <1>4, <1>5

(* The promise of an entry is kept when its last job is done.                  *)
LEMMA PromisedOK ==
  ASSUME NEW s, AskOK(s), NEW idx \in Chunks, s.cache[idx] # NoId
  PROVE  LET e == s.cache[idx]
             t == Promised(s, e)
         IN  /\ Follows(s, t) /\ t.entry = s.entry /\ t.cache = s.cache
             /\ Reachable(s) => \A to \in Marks : to <= s.entry[e].to => Promising(t, to)
             /\ EntriesCover(s.entry) =>
                  \A n \in s.entry[e].from..s.entry[e].to : Vouching(t, n)
PROOF
<1> DEFINE e == s.cache[idx]
           r == s.entry[e]
           p == [entry |-> e, job |-> r.done + Len(r.jobs)]
           t == Promised(s, e)
<1>1. /\ e \in Entry /\ r \in EntryKind /\ r.at \notin {"free", "failed"}
      /\ Len(r.jobs) \in Nat /\ r.done \in Nat /\ r.done + Len(r.jobs) >= 1
  BY CachedOK
<1>2. p \in Promise /\ p.entry = e /\ p.job = r.done + Len(r.jobs)
  <2> HIDE DEF e, r
  <2>1. r.done + Len(r.jobs) \in Nat \ {0} BY <1>1
  <2> QED BY <1>1, <2>1 DEF Promise
<1>3. t = [s EXCEPT !.promises = @ \cup {p}] BY DEF Promised
<1> HIDE DEF p, t
<1>4. /\ t \in AskKind /\ t.entry = s.entry /\ t.cache = s.cache /\ t.disc = s.disc
      /\ t.refused = s.refused /\ t.full = s.full /\ t.promises = s.promises \cup {p}
  <2>1. s \in AskKind BY DEF AskOK
  <2>2. s.promises \cup {p} \in SUBSET Promise BY <1>2, <2>1 DEF AskKind
  <2> HIDE DEF EntryKind, DiscKind, Promise
  <2> QED BY <1>3, <2>1, <2>2 DEF AskKind
<1>5. Grows(s.entry, t.entry)
  <2>1. \A f \in Entry : s.entry[f] \in EntryKind BY DEF AskOK, AskKind
  <2> QED BY <1>4, <2>1, WidenedOK DEF Grows
<1>6. Follows(s, t) BY <1>4, <1>5 DEF Follows, AskOK, Reachable
<1>7. ASSUME Reachable(s), NEW to \in Marks, to <= r.to PROVE Promising(t, to)
  <2>1. \/ s.disc.confirmed >= Target(r.to)
        \/ \E m \in 1..Len(r.jobs) : r.jobs[m].to >= r.to
    BY <1>7 DEF Reachable, ChunksReach
  <2>2. r.to \in Marks BY <1>1 DEF EntryKind
  <2>3. CASE s.disc.confirmed >= Target(r.to)
    <3>1. Target(to) <= Target(r.to) /\ Target(to) \in Blocks /\ Target(r.to) \in Blocks
      BY <1>7, <2>2, TargetOK
    <3>2. s.disc.confirmed \in Marks
      <4>1. s.disc \in DiscKind BY DEF AskOK, DiscOK
      <4> QED BY <4>1 DEF DiscKind
    <3>3. s.disc.confirmed >= Target(to)
      BY <2>3, <3>1, <3>2, GridAssumption DEF Blocks, Marks
    <3> QED BY <1>4, <3>3 DEF Promising
  <2>4. CASE \E m \in 1..Len(r.jobs) : r.jobs[m].to >= r.to
    <3>1. PICK m \in 1..Len(r.jobs) : r.jobs[m].to >= r.to BY <2>4
    <3>2. r.jobs[m].to \in Marks
      <4>1. r.jobs \in Seq(JobKind) BY <1>1 DEF EntryKind
      <4>2. r.jobs[m] \in JobKind BY <4>1
      <4> QED BY <4>2 DEF JobKind
    <3>3. r.jobs[m].to >= to /\ r.done + m <= p.job
      <4>1. r.jobs[m].to \in Int /\ r.to \in Int /\ to \in Int BY <1>1, <3>1, EntryParts
      <4> HIDE DEF e, r
      <4> QED BY <1>1, <1>2, <1>7, <3>1, <4>1
    <3>4. Reaches(t.entry, p, to) BY <1>2, <1>4, <3>1, <3>3 DEF Reaches
    <3> QED BY <1>4, <3>4 DEF Promising
  <2> QED BY <2>1, <2>3, <2>4
<1>8. ASSUME EntriesCover(s.entry), NEW n \in r.from..r.to PROVE Vouching(t, n)
  <2>1. Accounts(r, n, p.job) BY <1>1, <1>2, <1>8 DEF EntriesCover, Covers
  <2>2. Vouches(t.entry, p, n) BY <1>2, <1>4, <2>1 DEF Vouches
  <2>3. p \in t.promises BY <1>4
  <2> QED BY <2>2, <2>3 DEF Vouching
<1> QED BY <1>4, <1>6, <1>7, <1>8 DEF t

LEMMA GridFromOK ==
  \A idx \in Nat : GridFrom(idx) \in Nat /\ idx * ChunkBlocks <= GridFrom(idx)
PROOF
<1> SUFFICES ASSUME NEW idx \in Nat
             PROVE  GridFrom(idx) \in Nat /\ idx * ChunkBlocks <= GridFrom(idx)
  OBVIOUS
<1>1. \A m, n \in Nat : m * n \in Nat OBVIOUS
<1> DEFINE g == idx * ChunkBlocks
<1>2. g \in Nat /\ BackfillStart \in Nat BY <1>1, GridAssumption
<1>3. GridFrom(idx) = Larger(g, BackfillStart) BY DEF GridFrom
<1> HIDE DEF g
<1>4. GridFrom(idx) \in Nat /\ g <= GridFrom(idx) BY <1>2, <1>3 DEF Larger
<1> QED BY <1>4 DEF g

(* An entry with more behind it, that covers no more than its jobs do.          *)
LEMMA WidenedFollows ==
  ASSUME NEW s, AskOK(s), NEW e \in Entry, s.entry[e].at \notin {"free", "failed"},
         NEW t \in AskKind, t.cache = s.cache, t.disc = s.disc, t.promises = s.promises,
         t.refused = s.refused, t.full = s.full,
         \A f \in Entry : f # e => t.entry[f] = s.entry[f],
         Widened(s.entry[e], t.entry[e]),
         \/ t.entry[e].to = s.entry[e].to
         \/ \E m \in 1..Len(t.entry[e].jobs) : t.entry[e].jobs[m].to >= t.entry[e].to,
         t.entry[e].from <= s.entry[e].from,
         \A n \in t.entry[e].from..t.entry[e].to :
           \/ n \in s.entry[e].from..s.entry[e].to
           \/ \E m \in 1..Len(t.entry[e].jobs) :
                n \in t.entry[e].jobs[m].from..t.entry[e].jobs[m].to
  PROVE  Follows(s, t)
PROOF
<1> DEFINE r == s.entry[e]
           q == t.entry[e]
<1>1. /\ s \in AskKind /\ DiscOK(s.disc) /\ EntriesOK(s.entry) /\ CacheOK(s.cache, s.entry)
      /\ s.entry \in [Entry -> EntryKind] /\ t.entry \in [Entry -> EntryKind]
      /\ r \in EntryKind /\ q \in EntryKind
  BY DEF AskOK, AskKind
<1>2. /\ Len(r.jobs) \in Nat /\ Len(q.jobs) \in Nat /\ r.done \in Nat
      /\ r.jobs \in Seq(JobKind) /\ q.jobs \in Seq(JobKind)
  BY <1>1 DEF EntryKind
<1>3. /\ q.at = r.at /\ q.idx = r.idx /\ q.done = r.done /\ q.wait = r.wait
      /\ Len(r.jobs) <= Len(q.jobs) /\ \A k \in 1..Len(r.jobs) : q.jobs[k] = r.jobs[k]
  BY DEF Widened
<1>4. r.at \in {"discovering", "streaming"} =>
        /\ r.jobs # <<>> /\ q.jobs # <<>> /\ Head(q.jobs) = Head(r.jobs)
  <2>1. r.at \in {"discovering", "streaming"} => r.jobs # <<>> BY <1>1 DEF EntriesOK
  <2>2. r.jobs # <<>> => 1 \in 1..Len(r.jobs) BY <1>2
  <2>3. r.jobs # <<>> => q.jobs # <<>> BY <1>2, <1>3, <2>2
  <2>4. r.jobs # <<>> => Head(q.jobs) = q.jobs[1] /\ Head(r.jobs) = r.jobs[1]
    BY <1>2, <2>3
  <2> QED BY <1>3, <2>1, <2>2, <2>3, <2>4
<1>5. EntriesOK(t.entry)
  <2>1. q.at # "free" /\ r.done + Len(r.jobs) >= 1 /\ q.done + Len(q.jobs) >= 1
    <3>1. r.done + Len(r.jobs) >= 1 /\ r.at # "free" BY <1>1 DEF EntriesOK
    <3> HIDE DEF r, q
    <3> QED BY <1>2, <1>3, <3>1
  <2>2. \A f \in Entry :
          /\ t.entry[f].at = "free" => t.entry[f] = NoEntry
          /\ t.entry[f].at \in {"discovering", "streaming"} => t.entry[f].jobs # <<>>
          /\ t.entry[f].at \notin {"free", "failed"} =>
               t.entry[f].done + Len(t.entry[f].jobs) >= 1
    <3> TAKE f \in Entry
    <3>1. CASE f = e BY <1>3, <1>4, <2>1, <3>1
    <3>2. CASE f # e BY <1>1, <3>2 DEF EntriesOK
    <3> QED BY <3>1, <3>2
  <2> QED BY <1>1, <2>2 DEF EntriesOK
<1>6. CacheOK(t.cache, t.entry)
  BY <1>1, <1>3 DEF CacheOK
<1>7. Grows(s.entry, t.entry) BY <1>1, WidenedOK DEF Grows
<1>8. ASSUME Reachable(s) PROVE Reachable(t)
  <2>1. JobsWait(t.entry, t.disc.confirmed)
    BY <1>3, <1>4, <1>8 DEF Reachable, JobsWait
  <2>2. ChunksReach(t.cache, t.entry, t.disc.confirmed)
    <3> SUFFICES ASSUME NEW idx \in Chunks, s.cache[idx] # NoId
                 PROVE  LET f == s.cache[idx]
                        IN  \/ s.disc.confirmed >= Target(t.entry[f].to)
                            \/ \E m \in 1..Len(t.entry[f].jobs) :
                                 t.entry[f].jobs[m].to >= t.entry[f].to
      BY DEF ChunksReach
    <3>1. s.cache[idx] \in Entry BY <1>1 DEF CacheOK
    <3>2. \/ s.disc.confirmed >= Target(s.entry[s.cache[idx]].to)
          \/ \E m \in 1..Len(s.entry[s.cache[idx]].jobs) :
               s.entry[s.cache[idx]].jobs[m].to >= s.entry[s.cache[idx]].to
      BY <1>8 DEF Reachable, ChunksReach
    <3>3. CASE s.cache[idx] # e BY <3>1, <3>2, <3>3
    <3>4. CASE s.cache[idx] = e
      <4>1. CASE \E m \in 1..Len(q.jobs) : q.jobs[m].to >= q.to BY <3>4, <4>1
      <4>2. CASE q.to = r.to
        <5>1. CASE \E m \in 1..Len(r.jobs) : r.jobs[m].to >= r.to
          <6>1. PICK m \in 1..Len(r.jobs) : r.jobs[m].to >= r.to BY <5>1
          <6>2. m \in 1..Len(q.jobs) /\ q.jobs[m].to >= q.to BY <1>2, <1>3, <4>2, <6>1
          <6> QED BY <3>4, <6>2
        <5> QED BY <3>2, <3>4, <4>2, <5>1
      <4> QED BY <4>1, <4>2
    <3> QED BY <3>3, <3>4
  <2> QED BY <1>8, <2>1, <2>2 DEF Reachable
<1>9. ASSUME EntriesCover(s.entry) PROVE EntriesCover(t.entry)
  <2>1. Covers(r) BY <1>9 DEF EntriesCover
  <2>2. ASSUME NEW n \in q.from..q.to PROVE Accounts(q, n, q.done + Len(q.jobs))
    <3>1. CASE n \in r.from..r.to
      <4>1. Accounts(r, n, r.done + Len(r.jobs)) BY <2>1, <3>1 DEF Covers
      <4>2. Accounts(q, n, r.done + Len(r.jobs))
        <5> HIDE DEF r, q
        <5> QED BY <1>1, <4>1, WidenedAccounts DEF r, q
      <4> HIDE DEF r, q
      <4>3. CASE Holds(q, n) BY <4>3 DEF Accounts
      <4>4. CASE \E m \in 1..Len(q.jobs) : /\ n \in q.jobs[m].from..q.jobs[m].to
                                           /\ q.done + m <= r.done + Len(r.jobs)
        <5>1. PICK m \in 1..Len(q.jobs) : /\ n \in q.jobs[m].from..q.jobs[m].to
                                          /\ q.done + m <= r.done + Len(r.jobs)
          BY <4>4
        <5>2. m \in Int /\ q.done + m <= q.done + Len(q.jobs) BY <1>2, <1>3
        <5> QED BY <5>1, <5>2 DEF Accounts
      <4> QED BY <4>2, <4>3, <4>4 DEF Accounts
    <3>2. CASE \E m \in 1..Len(q.jobs) : n \in q.jobs[m].from..q.jobs[m].to
      <4>1. PICK m \in 1..Len(q.jobs) : n \in q.jobs[m].from..q.jobs[m].to BY <3>2
      <4> HIDE DEF r, q
      <4>2. q.done + m <= q.done + Len(q.jobs) BY <1>2, <1>3
      <4> QED BY <4>1, <4>2 DEF Accounts
    <3> QED BY <3>1, <3>2
  <2>3. Warmup = 0 => q.from <= GridFrom(q.idx)
    <3>1. Warmup = 0 => r.from <= GridFrom(r.idx) BY <2>1 DEF Covers
    <3>2. q.from <= r.from /\ q.from \in Int /\ r.from \in Int BY <1>1, EntryParts
    <3>3. GridFrom(r.idx) \in Int
      <4>1. r.idx \in Nat BY <1>1 DEF EntryKind
      <4> QED BY <4>1, GridFromOK
    <3> HIDE DEF r, q
    <3> QED BY <1>3, <3>1, <3>2, <3>3
  <2>5. q.at = "streaming" => Born(Head(q.jobs).to) \subseteq q.filter
    <3>1. q.filter = r.filter BY DEF Widened
    <3> QED BY <1>3, <1>4, <2>1, <3>1 DEF Covers
  <2>4. Covers(q) BY <2>2, <2>3, <2>5 DEF Covers
  <2> QED BY <2>4, <1>9 DEF EntriesCover
<1> QED BY <1>1, <1>5, <1>6, <1>7, <1>8, <1>9 DEF Follows, AskOK

(* A chunk nobody has asked for: an entry, and a scan if it is needed.          *)
LEMMA OpenedOK ==
  ASSUME NEW s, AskOK(s), NEW idx \in Chunks, s.cache[idx] = NoId,
         NEW bounds \in NeedKind, NEW hint \in Marks,
         Warmup = 0 => bounds.from <= GridFrom(idx)
  PROVE  LET t == Opened(s, idx, bounds, hint)
         IN  /\ Follows(s, t)
             /\ Reachable(s) => \A to \in Marks : to <= bounds.to => Promising(t, to)
             /\ EntriesCover(s.entry) => \A n \in bounds.from..bounds.to : Vouching(t, n)
PROOF
<1> DEFINE free == {f \in Entry : s.entry[f] = NoEntry}
           e == CHOOSE f \in free : \A g \in free : f <= g
           d == Ensured(s.disc, EnsureTarget(s.disc, bounds.to), hint)
           opened == [NoEntry EXCEPT !.at = "discovering", !.idx = idx,
                        !.from = bounds.from, !.to = bounds.to, !.wait = d.through]
           u == [s EXCEPT !.disc = d, !.cache[idx] = e, !.entry[e] = opened]
           v == Chained(u, e, bounds.from, bounds.to, hint)
           t == Opened(s, idx, bounds, hint)
<1>1. /\ s \in AskKind /\ DiscOK(s.disc) /\ EntriesOK(s.entry) /\ CacheOK(s.cache, s.entry)
      /\ bounds.from \in Nat /\ bounds.to \in Marks
  BY DEF AskOK, NeedKind
<1>2. /\ t = IF free = {} THEN [s EXCEPT !.full = TRUE] ELSE Promised(v, e)
  BY DEF Opened
<1>3. /\ DiscOK(d) /\ d.confirmed = s.disc.confirmed /\ Target(bounds.to) <= d.through
      /\ d.through \in Marks /\ d \in DiscKind
      /\ ScansHonest(s.disc) => ScansHonest(d)
  <2>1. DiscOK(d) /\ d.confirmed = s.disc.confirmed /\ Target(bounds.to) <= d.through
    BY <1>1, EnsuredOK
  <2>2. d \in DiscKind /\ d.through \in Marks BY <2>1 DEF DiscOK, DiscKind
  <2>3. ScansHonest(s.disc) => ScansHonest(d) BY <1>1, EnsuredHonest
  <2> QED BY <2>1, <2>2, <2>3
<1> HIDE DEF d
<1>4. CASE free = {}
  <2>1. t = [s EXCEPT !.full = TRUE] BY <1>2, <1>4
  <2> HIDE DEF t, free, v, u, e, opened
  <2>2. /\ t \in AskKind /\ t.entry = s.entry /\ t.cache = s.cache /\ t.disc = s.disc
        /\ t.promises = s.promises /\ t.refused = s.refused /\ t.full = TRUE
    <3> HIDE DEF EntryKind, DiscKind, Promise, Chunks
    <3> QED BY <1>1, <2>1 DEF AskKind
  <2>3. Follows(s, t) BY <2>2, FollowsOK DEF Follows, AskOK, Reachable
  <2> QED BY <2>2, <2>3 DEF Promising, Vouching, t
<1>5. CASE free # {}
  <2>1. free \subseteq Nat BY DEF Entry
  <2>2. \E f \in free : \A g \in free : f <= g BY <1>5, <2>1, LeastElement
  <2>3. e \in free BY <2>2
  <2>4. e \in Entry /\ s.entry[e] = NoEntry /\ s.entry[e].at = "free"
    BY <2>3, NoEntryOK
  <2>5. t = Promised(v, e) BY <1>2, <1>5
  <2> HIDE DEF t, e, free
  <2>6. /\ opened \in EntryKind /\ opened.at = "discovering" /\ opened.idx = idx
        /\ opened.from = bounds.from /\ opened.to = bounds.to /\ opened.wait = d.through
        /\ opened.jobs = <<>> /\ opened.done = 0
    <3>1. idx \in Nat BY DEF Chunks
    <3> HIDE DEF Marks, JobKind
    <3> QED BY <1>1, <1>3, <3>1, NoEntryOK DEF EntryKind
  <2> HIDE DEF opened
  <2>7. /\ u \in AskKind /\ u.disc = d /\ u.promises = s.promises
        /\ u.refused = s.refused /\ u.full = s.full
        /\ u.entry = [s.entry EXCEPT ![e] = opened]
        /\ u.cache = [s.cache EXCEPT ![idx] = e]
    <3>1. /\ s.entry \in [Entry -> EntryKind] /\ s.cache \in [Chunks -> Entry \cup {NoId}]
      BY <1>1 DEF AskKind
    <3>2. /\ [s.entry EXCEPT ![e] = opened] \in [Entry -> EntryKind]
          /\ [s.cache EXCEPT ![idx] = e] \in [Chunks -> Entry \cup {NoId}]
      BY <2>4, <2>6, <3>1
    <3>3. ASSUME NEW x \in [Entry -> EntryKind], NEW y \in [Chunks -> Entry \cup {NoId}]
          PROVE  LET w == [s EXCEPT !.disc = d, !.cache = y, !.entry = x]
                 IN  /\ w \in AskKind /\ w.disc = d /\ w.promises = s.promises
                     /\ w.refused = s.refused /\ w.full = s.full /\ w.entry = x /\ w.cache = y
      <4> HIDE DEF EntryKind, DiscKind, Promise, Chunks
      <4> QED BY <1>1, <1>3 DEF AskKind
    <3>4. u = [s EXCEPT !.disc = d, !.cache = [s.cache EXCEPT ![idx] = e],
                        !.entry = [s.entry EXCEPT ![e] = opened]]
      <4> HIDE DEF EntryKind, DiscKind, Promise, Chunks
      <4> QED BY <1>1, <1>3, <2>4, <2>6 DEF AskKind
    <3> DEFINE x == [s.entry EXCEPT ![e] = opened]
               y == [s.cache EXCEPT ![idx] = e]
    <3>5. x \in [Entry -> EntryKind] /\ y \in [Chunks -> Entry \cup {NoId}] BY <3>2
    <3>6. u = [s EXCEPT !.disc = d, !.cache = y, !.entry = x] BY <3>4
    <3> HIDE DEF x, y, u
    <3>7. /\ u \in AskKind /\ u.disc = d /\ u.promises = s.promises
          /\ u.refused = s.refused /\ u.full = s.full /\ u.entry = x /\ u.cache = y
      BY <3>3, <3>5, <3>6
    <3> QED BY <3>7 DEF x, y
  <2> HIDE DEF u
  <2>8. /\ v \in AskKind /\ v.cache = u.cache /\ v.disc = u.disc /\ v.promises = u.promises
        /\ v.refused = u.refused /\ v.full = u.full
        /\ \A f \in Entry : f # e => v.entry[f] = u.entry[f]
        /\ Widened(u.entry[e], v.entry[e]) /\ v.entry[e].to = u.entry[e].to
        /\ v.entry[e].jobs = Append(u.entry[e].jobs,
                               [from |-> bounds.from, to |-> bounds.to, hint |-> hint])
        /\ Len(v.entry[e].jobs) = Len(u.entry[e].jobs) + 1
        /\ v.entry[e].jobs[Len(u.entry[e].jobs) + 1].to = bounds.to
        /\ v.entry[e].jobs[Len(u.entry[e].jobs) + 1].from = bounds.from
        /\ v.entry[e].from = u.entry[e].from
    <3>1. ChainedTo(u, v, e, bounds.from, bounds.to, hint) BY <1>1, <2>4, <2>7, ChainedOK
    <3> QED BY <3>1 DEF ChainedTo
  <2> HIDE DEF v
  <2>9. u.entry[e] = opened /\ \A f \in Entry : f # e => u.entry[f] = s.entry[f]
    BY <1>1, <2>4, <2>7 DEF AskKind
  <2>10. /\ v.entry[e].at = "discovering" /\ v.entry[e].idx = idx /\ v.entry[e].to = bounds.to
         /\ v.entry[e].wait = d.through /\ v.entry[e].done = 0
         /\ Len(v.entry[e].jobs) = 1 /\ v.entry[e].jobs[1].to = bounds.to
         /\ Head(v.entry[e].jobs).to = bounds.to /\ v.entry[e].jobs # <<>>
         /\ v.entry[e].from = bounds.from /\ v.entry[e].jobs[1].from = bounds.from
    <3>1. /\ Len(v.entry[e].jobs) = 1 /\ v.entry[e].jobs[1].to = bounds.to
          /\ v.entry[e].jobs[1].from = bounds.from
      BY <2>6, <2>8, <2>9
    <3>2. v.entry[e] \in EntryKind BY <2>4, <2>8 DEF AskKind
    <3>3. v.entry[e].jobs # <<>> /\ Head(v.entry[e].jobs) = v.entry[e].jobs[1]
      BY <3>1
    <3> QED BY <2>6, <2>8, <2>9, <3>1, <3>3 DEF Widened
  <2>11. AskOK(v)
    <3>1. EntriesOK(v.entry)
      <4>1. v.entry \in [Entry -> EntryKind] BY <2>8 DEF AskKind
      <4>2. ASSUME NEW f \in Entry
            PROVE  /\ v.entry[f].at = "free" => v.entry[f] = NoEntry
                   /\ v.entry[f].at \in {"discovering", "streaming"} => v.entry[f].jobs # <<>>
                   /\ v.entry[f].at \notin {"free", "failed"} =>
                        v.entry[f].done + Len(v.entry[f].jobs) >= 1
        <5>1. CASE f = e BY <2>10, <5>1
        <5>2. CASE f # e
          <6>1. v.entry[f] = s.entry[f] BY <2>8, <2>9, <5>2
          <6> QED BY <1>1, <6>1 DEF EntriesOK
        <5> QED BY <5>1, <5>2
      <4> QED BY <4>1, <4>2 DEF EntriesOK
    <3>2. CacheOK(v.cache, v.entry)
      <4>1. v.cache \in [Chunks -> Entry \cup {NoId}] BY <2>8 DEF AskKind
      <4>2. ASSUME NEW i \in Chunks, v.cache[i] # NoId
            PROVE  /\ v.entry[v.cache[i]].idx = i
                   /\ v.entry[v.cache[i]].at \notin {"free", "failed"}
        <5>1. CASE i = idx
          <6>1. v.cache[i] = e BY <1>1, <2>7, <2>8, <5>1 DEF AskKind
          <6> QED BY <2>10, <5>1, <6>1
        <5>2. CASE i # idx
          <6>1. v.cache[i] = s.cache[i] BY <1>1, <2>7, <2>8, <5>2 DEF AskKind
          <6>2. /\ s.cache[i] \in Entry /\ s.entry[s.cache[i]].idx = i
                /\ s.entry[s.cache[i]].at \notin {"free", "failed"}
            BY <1>1, <4>2, <6>1 DEF CacheOK
          <6>3. s.cache[i] # e BY <2>4, <6>2
          <6>4. v.entry[s.cache[i]] = s.entry[s.cache[i]] BY <2>8, <2>9, <6>2, <6>3
          <6> QED BY <6>1, <6>2, <6>4
        <5> QED BY <5>1, <5>2
      <4> QED BY <4>1, <4>2 DEF CacheOK
    <3> QED BY <1>3, <2>7, <2>8, <3>1, <3>2 DEF AskOK
  <2>12. Grows(s.entry, v.entry)
    <3> SUFFICES ASSUME NEW f \in Entry, s.entry[f].at # "free"
                 PROVE  Widened(s.entry[f], v.entry[f])
      BY DEF Grows
    <3>1. f # e BY <2>4
    <3>2. v.entry[f] = s.entry[f] /\ s.entry[f] \in EntryKind
      BY <1>1, <2>8, <2>9, <3>1 DEF AskKind
    <3> QED BY <3>2, WidenedOK
  <2>13. ASSUME Reachable(s) PROVE Reachable(v)
    <3>1. ScansHonest(v.disc) BY <1>3, <2>7, <2>8, <2>13 DEF Reachable
    <3>2. JobsWait(v.entry, v.disc.confirmed)
      <4> SUFFICES ASSUME NEW f \in Entry
                   PROVE  /\ v.entry[f].at = "discovering" =>
                               v.entry[f].wait >= Target(Head(v.entry[f].jobs).to)
                          /\ v.entry[f].at = "streaming" =>
                               v.disc.confirmed >= Target(Head(v.entry[f].jobs).to)
        BY DEF JobsWait
      <4>1. CASE f = e
        <5>1. Target(bounds.to) \in Int /\ d.through \in Int
          <6>1. Target(bounds.to) \in Blocks BY <1>1, TargetOK
          <6> QED BY <1>3, <6>1, EntryParts DEF Blocks
        <5> HIDE DEF e
        <5> QED BY <1>3, <2>10, <4>1, <5>1
      <4>2. CASE f # e
        <5>1. v.entry[f] = s.entry[f] BY <2>8, <2>9, <4>2
        <5> QED BY <1>3, <2>7, <2>8, <2>13, <5>1 DEF Reachable, JobsWait
      <4> QED BY <4>1, <4>2
    <3>3. ChunksReach(v.cache, v.entry, v.disc.confirmed)
      <4> SUFFICES ASSUME NEW i \in Chunks, v.cache[i] # NoId
                   PROVE  LET f == v.cache[i]
                          IN  \/ v.disc.confirmed >= Target(v.entry[f].to)
                              \/ \E m \in 1..Len(v.entry[f].jobs) :
                                   v.entry[f].jobs[m].to >= v.entry[f].to
        BY DEF ChunksReach
      <4>1. CASE i = idx
        <5>1. v.cache[i] = e BY <1>1, <2>7, <2>8, <4>1 DEF AskKind
        <5>2. bounds.to \in Int /\ 1 \in 1..1 BY <1>1, EntryParts
        <5>3. 1 \in 1..Len(v.entry[e].jobs) /\ v.entry[e].jobs[1].to >= v.entry[e].to
          BY <2>10, <5>2
        <5> QED BY <5>1, <5>3
      <4>2. CASE i # idx
        <5>1. v.cache[i] = s.cache[i] BY <1>1, <2>7, <2>8, <4>2 DEF AskKind
        <5>2. /\ s.cache[i] \in Entry /\ s.entry[s.cache[i]].at \notin {"free", "failed"}
          BY <1>1, <5>1 DEF CacheOK
        <5>3. s.cache[i] # e BY <2>4, <5>2
        <5>4. v.entry[s.cache[i]] = s.entry[s.cache[i]] BY <2>8, <2>9, <5>2, <5>3
        <5>5. \/ s.disc.confirmed >= Target(s.entry[s.cache[i]].to)
              \/ \E m \in 1..Len(s.entry[s.cache[i]].jobs) :
                   s.entry[s.cache[i]].jobs[m].to >= s.entry[s.cache[i]].to
          BY <2>13, <5>1 DEF Reachable, ChunksReach
        <5> QED BY <1>3, <2>7, <2>8, <5>1, <5>4, <5>5
      <4> QED BY <4>1, <4>2
    <3> QED BY <3>1, <3>2, <3>3 DEF Reachable
  <2>18. ASSUME EntriesCover(s.entry) PROVE EntriesCover(v.entry)
    <3>1. Covers(v.entry[e])
      <4> DEFINE q == v.entry[e]
      <4>1. q.done = 0 /\ Len(q.jobs) = 1 /\ q.from = bounds.from /\ q.to = bounds.to
            /\ q.jobs[1].from = bounds.from /\ q.jobs[1].to = bounds.to /\ q.idx = idx
            /\ q.at = "discovering"
        BY <2>10
      <4> HIDE DEF q
      <4>2. ASSUME NEW n \in q.from..q.to PROVE Accounts(q, n, q.done + Len(q.jobs))
        <5>1. 1 \in 1..Len(q.jobs) /\ q.done + 1 <= q.done + Len(q.jobs) BY <4>1
        <5>2. n \in q.jobs[1].from..q.jobs[1].to BY <4>1
        <5> QED BY <5>1, <5>2 DEF Accounts
      <4>3. Covers(q) BY <4>1, <4>2 DEF Covers
      <4> QED BY <4>3 DEF q
    <3>2. \A f \in Entry : f # e => v.entry[f] = s.entry[f] BY <2>8, <2>9
    <3> QED BY <2>18, <3>1, <3>2 DEF EntriesCover
  <2>14. Follows(s, v)
    BY <1>3, <2>7, <2>8, <2>11, <2>12, <2>13, <2>18 DEF Follows
  <2>15. v.cache[idx] = e /\ e # NoId
    <3>1. NoId \notin Entry BY NoEntryOK
    <3> QED BY <1>1, <2>4, <2>7, <2>8, <3>1 DEF AskKind
  <2>16. /\ Follows(v, t)
         /\ Reachable(v) => \A to \in Marks : to <= v.entry[e].to => Promising(t, to)
         /\ EntriesCover(v.entry) =>
              \A n \in v.entry[e].from..v.entry[e].to : Vouching(t, n)
    BY <2>5, <2>11, <2>15, PromisedOK
  <2>17. Follows(s, t) BY <2>14, <2>16, FollowsOK
  <2> QED BY <2>10, <2>13, <2>16, <2>17, <2>18 DEF t
<1> QED BY <1>4, <1>5

(* The low end that is missing, and the top end that is needed.                *)
LEMMA RepairedOK ==
  ASSUME NEW s, AskOK(s), NEW idx \in Chunks, s.cache[idx] # NoId, NEW need \in NeedKind,
         portalHead \in Marks
  PROVE  LET e == s.cache[idx]
             t == Repaired(s, e, need)
         IN  /\ Follows(s, t) /\ t.cache = s.cache
             /\ need = NoNeed => t = s
PROOF
<1> DEFINE e == s.cache[idx]
           r == s.entry[e]
           t == Repaired(s, e, need)
           needed == need # NoNeed /\ need.from < r.from /\ need.to >= r.from
           u == [s EXCEPT !.entry[e].from = need.from]
           v == Chained(u, e, need.from, r.from - 1, DataEnd)
<1>1. /\ e \in Entry /\ r \in EntryKind /\ r.at \notin {"free", "failed"} BY CachedOK
<1>2. s \in AskKind /\ r.from \in Nat /\ need.from \in Nat /\ need.to \in Marks
  BY <1>1, EntryParts DEF AskOK, NeedKind
<1>3. CASE ~needed
  <2>1. t = s BY <1>3 DEF Repaired
  <2> HIDE DEF t
  <2> QED BY <2>1, FollowsOK DEF t
<1>4. CASE needed
  <2>1. t = v BY <1>4 DEF Repaired
  <2>2. r.from - 1 \in Marks /\ DataEnd \in Marks
    BY <1>2, <1>4, GridAssumption DEF Marks, DataEnd, Smaller
  <2> HIDE DEF t, v, u, e, needed
  <2>3. /\ u \in AskKind
        /\ u.cache = s.cache /\ u.disc = s.disc /\ u.promises = s.promises
        /\ u.refused = s.refused /\ u.full = s.full
        /\ \A f \in Entry : f # e => u.entry[f] = s.entry[f]
        /\ Widened(r, u.entry[e]) /\ u.entry[e].to = r.to /\ u.entry[e].from = need.from
    <3>1. -1 \in Marks BY GridAssumption DEF Marks
    <3>2. MovedTo(s, u, e, need.from, r.to) BY <1>1, <1>2, <3>1, BoundMoved DEF u
    <3> QED BY <3>2 DEF MovedTo
  <2>4. ChainedTo(u, v, e, need.from, r.from - 1, DataEnd)
    BY <1>1, <1>2, <2>2, <2>3, ChainedOK DEF v
  <2>5. /\ v \in AskKind
        /\ v.cache = s.cache /\ v.disc = s.disc /\ v.promises = s.promises
        /\ v.refused = s.refused /\ v.full = s.full
        /\ \A f \in Entry : f # e => v.entry[f] = s.entry[f]
        /\ v.entry[e].to = r.to /\ Widened(u.entry[e], v.entry[e])
        /\ v.entry[e].from = need.from
        /\ Len(v.entry[e].jobs) = Len(u.entry[e].jobs) + 1
        /\ v.entry[e].jobs[Len(u.entry[e].jobs) + 1].from = need.from
        /\ v.entry[e].jobs[Len(u.entry[e].jobs) + 1].to = r.from - 1
    BY <2>3, <2>4 DEF ChainedTo
  <2>6. Widened(r, v.entry[e])
    <3>1. u.entry[e] \in EntryKind /\ v.entry[e] \in EntryKind
      BY <1>1, <2>3, <2>5 DEF AskKind
    <3> QED BY <1>1, <2>3, <2>5, <3>1, WidenedOK
  <2>8. v.entry[e].from <= r.from BY <1>2, <1>4, <2>5 DEF needed
  <2>9. ASSUME NEW n \in v.entry[e].from..v.entry[e].to
        PROVE  \/ n \in r.from..r.to
               \/ \E m \in 1..Len(v.entry[e].jobs) :
                    n \in v.entry[e].jobs[m].from..v.entry[e].jobs[m].to
    <3>1. n \in need.from..r.to /\ r.to \in Int BY <1>1, <2>5, EntryParts
    <3>2. CASE n >= r.from BY <1>2, <3>1, <3>2
    <3>3. CASE n < r.from
      <4>1. u.entry[e] \in EntryKind BY <1>1, <2>3 DEF AskKind
      <4>2. Len(u.entry[e].jobs) \in Nat BY <4>1, EntryParts
      <4> DEFINE m == Len(u.entry[e].jobs) + 1
                 q == v.entry[e]
      <4>3. m \in 1..Len(q.jobs) BY <2>5, <4>2
      <4>4. q.jobs[m].from = need.from /\ q.jobs[m].to = r.from - 1 BY <2>5
      <4> HIDE DEF m, q
      <4>5. n \in q.jobs[m].from..q.jobs[m].to BY <1>2, <3>1, <3>3, <4>4
      <4> QED BY <4>3, <4>5 DEF q
    <3> QED BY <1>2, <3>1, <3>2, <3>3
  <2>7. Follows(s, v) BY <1>1, <2>5, <2>6, <2>8, <2>9, WidenedFollows
  <2> QED BY <1>4, <2>1, <2>5, <2>7 DEF t, e, needed
<1> QED BY <1>3, <1>4

LEMMA ExtendedOK ==
  ASSUME NEW s, AskOK(s), NEW idx \in Chunks, s.cache[idx] # NoId,
         NEW needTo \in Marks, NEW desiredTo \in Marks,
         portalHead \in Marks, fetchQuantum \in Nat
  PROVE  LET e == s.cache[idx]
             t == Extended(s, e, needTo, desiredTo)
         IN  /\ Follows(s, t) /\ t.cache = s.cache
             /\ \A to \in Marks : to <= needTo /\ to <= desiredTo => to <= t.entry[e].to
             /\ t.entry[e].from = s.entry[e].from
PROOF
<1> DEFINE e == s.cache[idx]
           r == s.entry[e]
           t == Extended(s, e, needTo, desiredTo)
           far == Smaller(desiredTo, Larger(needTo, r.to + fetchQuantum))
           u == [s EXCEPT !.entry[e].to = far]
           v == Chained(u, e, r.to + 1, far, DataEnd)
<1>1. /\ e \in Entry /\ r \in EntryKind /\ r.at \notin {"free", "failed"} BY CachedOK
<1>2. s \in AskKind /\ r.to \in Marks BY <1>1, EntryParts DEF AskOK
<1>3. CASE needTo <= r.to
  <2>1. t = s BY <1>3 DEF Extended
  <2>2. r.to \in Int /\ needTo \in Int /\ \A to \in Marks : to \in Int
    BY <1>2, EntryParts
  <2>3. \A to \in Marks : to <= needTo => to <= r.to
    <3> HIDE DEF r, t
    <3> QED BY <1>3, <2>2
  <2> QED BY <2>1, <2>3, FollowsOK
<1>4. CASE ~(needTo <= r.to)
  <2>1. t = v BY <1>4 DEF Extended
  <2>2. /\ far \in Marks /\ DataEnd \in Marks /\ r.to + 1 \in Nat
        /\ \A to \in Marks : to <= needTo /\ to <= desiredTo => to <= far
    <3> HIDE DEF r, t, v, u
    <3> QED BY <1>2, <1>4, GridAssumption DEF Marks, DataEnd, Smaller, Larger
  <2> HIDE DEF t, v, u, e, far
  <2>3. /\ u \in AskKind
        /\ u.cache = s.cache /\ u.disc = s.disc /\ u.promises = s.promises
        /\ u.refused = s.refused /\ u.full = s.full
        /\ \A f \in Entry : f # e => u.entry[f] = s.entry[f]
        /\ Widened(r, u.entry[e]) /\ u.entry[e].to = far /\ u.entry[e].from = r.from
    <3>1. 0 \in Nat OBVIOUS
    <3>2. MovedTo(s, u, e, r.from, far) BY <1>1, <1>2, <2>2, <3>1, BoundMoved DEF u
    <3> QED BY <3>2 DEF MovedTo
  <2>4. ChainedTo(u, v, e, r.to + 1, far, DataEnd)
    BY <1>1, <2>2, <2>3, ChainedOK DEF v
  <2>5. /\ v \in AskKind
        /\ v.cache = s.cache /\ v.disc = s.disc /\ v.promises = s.promises
        /\ v.refused = s.refused /\ v.full = s.full
        /\ \A f \in Entry : f # e => v.entry[f] = s.entry[f]
        /\ v.entry[e].to = far /\ Widened(u.entry[e], v.entry[e])
        /\ Len(v.entry[e].jobs) = Len(u.entry[e].jobs) + 1
        /\ v.entry[e].jobs[Len(u.entry[e].jobs) + 1].to = far
        /\ v.entry[e].jobs[Len(u.entry[e].jobs) + 1].from = r.to + 1
        /\ v.entry[e].from = r.from
    BY <2>3, <2>4 DEF ChainedTo
  <2>6. u.entry[e] \in EntryKind /\ v.entry[e] \in EntryKind
    BY <1>1, <2>3, <2>5 DEF AskKind
  <2>7. Widened(r, v.entry[e]) BY <1>1, <2>3, <2>5, <2>6, WidenedOK
  <2>8. \E m \in 1..Len(v.entry[e].jobs) : v.entry[e].jobs[m].to >= v.entry[e].to
    <3>1. Len(u.entry[e].jobs) \in Nat /\ far \in Int BY <2>2, <2>6, EntryParts
    <3>2. Len(u.entry[e].jobs) + 1 \in 1..Len(v.entry[e].jobs) BY <2>5, <3>1
    <3>3. v.entry[e].jobs[Len(u.entry[e].jobs) + 1].to >= v.entry[e].to BY <2>5, <3>1
    <3> QED BY <3>2, <3>3
  <2>10. v.entry[e].from <= r.from
    <3>1. r.from \in Int BY <1>1, EntryParts
    <3> QED BY <2>5, <3>1
  <2>11. ASSUME NEW n \in v.entry[e].from..v.entry[e].to
         PROVE  \/ n \in r.from..r.to
                \/ \E m \in 1..Len(v.entry[e].jobs) :
                     n \in v.entry[e].jobs[m].from..v.entry[e].jobs[m].to
    <3>1. n \in r.from..far /\ r.to \in Int /\ r.from \in Int /\ far \in Int
      BY <1>1, <2>2, <2>5, EntryParts
    <3>2. CASE n <= r.to BY <3>1, <3>2
    <3>3. CASE n > r.to
      <4>1. Len(u.entry[e].jobs) \in Nat BY <2>6, EntryParts
      <4> DEFINE m == Len(u.entry[e].jobs) + 1
                 q == v.entry[e]
      <4>2. m \in 1..Len(q.jobs) BY <2>5, <4>1
      <4>3. q.jobs[m].from = r.to + 1 /\ q.jobs[m].to = far BY <2>5
      <4> HIDE DEF m, q
      <4>4. n \in q.jobs[m].from..q.jobs[m].to BY <3>1, <3>3, <4>3
      <4> QED BY <4>2, <4>4 DEF q
    <3> QED BY <3>1, <3>2, <3>3
  <2>9. Follows(s, v) BY <1>1, <2>5, <2>7, <2>8, <2>10, <2>11, WidenedFollows
  <2> QED BY <2>1, <2>2, <2>5, <2>9 DEF t, e
<1> QED BY <1>3, <1>4

(* What the requests read: the head, and the quantum of a fetch.               *)
RequestsOK ==
  /\ portalHead \in Marks /\ fetchQuantum \in 1..ChunkBlocks
  /\ Warmup = 0 => fetchQuantum = ChunkBlocks

LEMMA ChunkFacts ==
  ASSUME NEW idx \in Chunks
  PROVE  idx \in Nat /\ idx * ChunkBlocks \in Nat
PROOF
<1>1. idx \in Nat BY DEF Chunks
<1>2. \A m, n \in Nat : m * n \in Nat OBVIOUS
<1> QED BY <1>1, <1>2, GridAssumption

(* A first fetch covers what is needed of its chunk, up to the end.            *)
LEMMA FetchBoundsOK ==
  ASSUME NEW idx \in Chunks, NEW need \in NeedKind, RequestsOK,
         Warmup = 0 => need = NoNeed
  PROVE  LET b == FetchBounds(idx, DataEnd, need, fetchQuantum)
         IN  /\ b \in NeedKind /\ GridTo(idx, DataEnd) \in Marks /\ DataEnd \in Marks
             /\ \A to \in Marks :
                  to <= GridTo(idx, DataEnd) /\ (Warmup = 0 \/ to <= need.to) => to <= b.to
             /\ Warmup = 0 => b.from <= GridFrom(idx)
             /\ \A n \in Nat : GridFrom(idx) <= n /\ (Warmup = 0 \/ need.from <= n) => b.from <= n
PROOF
<1> DEFINE g == idx * ChunkBlocks
           b == FetchBounds(idx, DataEnd, need, fetchQuantum)
<1>1. g \in Nat BY ChunkFacts
<1>2. /\ ChunkBlocks \in Nat /\ ChunkBlocks >= 1 /\ BackfillStart \in Nat /\ LastBlock \in Nat
      /\ fetchQuantum \in Nat /\ fetchQuantum >= 1
      /\ need.from \in Nat /\ need.to \in Marks
  BY GridAssumption DEF RequestsOK, NeedKind
<1>3. DataEnd \in Marks BY <1>2 DEF RequestsOK, Marks, DataEnd, Smaller
<1>4. GridTo(idx, DataEnd) = Smaller(g + ChunkBlocks - 1, DataEnd) BY DEF GridTo
<1>5. GridFrom(idx) = Larger(g, BackfillStart) BY DEF GridFrom
<1> HIDE DEF g
<1>6. GridTo(idx, DataEnd) \in Marks /\ GridTo(idx, DataEnd) <= g + ChunkBlocks - 1
  BY <1>1, <1>2, <1>3, <1>4 DEF Smaller, Marks
<1>7. GridFrom(idx) \in Nat /\ g <= GridFrom(idx) BY <1>1, <1>2, <1>5 DEF Larger
<1> DEFINE from == IF need = NoNeed THEN GridFrom(idx) ELSE Larger(GridFrom(idx), need.from)
           to == Smaller(GridTo(idx, DataEnd), Larger(need.to, from + fetchQuantum - 1))
<1>8. b = [from |-> from, to |-> to] BY DEF FetchBounds
<1>9. from \in Nat /\ g <= from BY <1>1, <1>2, <1>7 DEF Larger
<1>12. /\ Warmup = 0 => from <= GridFrom(idx)
       /\ \A n \in Nat : GridFrom(idx) <= n /\ (Warmup = 0 \/ need.from <= n) => from <= n
  BY <1>2, <1>7 DEF Larger
<1> HIDE DEF b, from
<1>10. to \in Marks BY <1>2, <1>6, <1>9 DEF Smaller, Larger, Marks
<1>11. ASSUME NEW n \in Marks, n <= GridTo(idx, DataEnd), Warmup = 0 \/ n <= need.to
       PROVE  n <= to
  <2>1. CASE Warmup = 0
    <3>1. from + fetchQuantum - 1 >= g + ChunkBlocks - 1
      BY <1>1, <1>2, <1>9, <2>1 DEF RequestsOK
    <3> QED BY <1>1, <1>2, <1>6, <1>9, <1>11, <3>1 DEF Smaller, Larger, Marks
  <2>2. CASE n <= need.to
    BY <1>2, <1>6, <1>9, <1>11, <2>2 DEF Smaller, Larger, Marks
  <2> QED BY <1>11, <2>1, <2>2
<1> HIDE DEF to
<1> QED BY <1>3, <1>6, <1>8, <1>9, <1>10, <1>11, <1>12 DEF NeedKind, b

(* A block that the need of a chunk is about: on the grid, and below the head.   *)
Needed(idx, need, n) ==
  /\ GridFrom(idx) <= n /\ need.from <= n
  /\ n <= need.to /\ n <= GridTo(idx, DataEnd)

(* A chunk is asked for: its promise reaches to the end of the need, and vouches  *)
(* for each of its blocks.                                                   *)
LEMMA DataChunkOK ==
  ASSUME NEW s, AskOK(s), NEW idx \in Chunks, NEW need \in NeedKind, RequestsOK
  PROVE  LET t == DataChunk(s, idx, need)
         IN  /\ Follows(s, t)
             /\ Reachable(s) => \A to \in Marks :
                  to <= need.to /\ to <= GridTo(idx, DataEnd) => Promising(t, to)
             /\ EntriesCover(s.entry) =>
                  \A n \in Blocks : Needed(idx, need, n) => Vouching(t, n)
PROOF
<1> DEFINE active == IF Warmup = 0 THEN NoNeed ELSE need
           desiredTo == GridTo(idx, DataEnd)
           needTo == IF active = NoNeed THEN desiredTo ELSE active.to
           e == s.cache[idx]
           bounds == FetchBounds(idx, DataEnd, active, fetchQuantum)
           u == Repaired(s, e, active)
           v == Extended(u, e, needTo, desiredTo)
           t == DataChunk(s, idx, need)
           below == active # NoNeed /\ active.from < u.entry[e].from
<1>1. active \in NeedKind /\ (Warmup = 0 => active = NoNeed)
  BY GridAssumption DEF NeedKind, NoNeed, Marks
<1>2. portalHead \in Marks /\ fetchQuantum \in Nat BY GridAssumption DEF RequestsOK
<1>3. t = IF e = NoId THEN Opened(s, idx, bounds, DataEnd)
          ELSE IF below THEN [s EXCEPT !.refused = TRUE] ELSE Promised(v, e)
  BY DEF DataChunk
<1>4. /\ bounds \in NeedKind /\ desiredTo \in Marks /\ DataEnd \in Marks
      /\ \A to \in Marks : to <= desiredTo /\ to <= need.to => to <= bounds.to
      /\ Warmup = 0 => bounds.from <= GridFrom(idx)
      /\ \A n \in Nat : GridFrom(idx) <= n /\ need.from <= n => bounds.from <= n
  <2> HIDE DEF active
  <2>1. /\ bounds \in NeedKind /\ desiredTo \in Marks /\ DataEnd \in Marks
        /\ \A to \in Marks :
             to <= desiredTo /\ (Warmup = 0 \/ to <= active.to) => to <= bounds.to
        /\ Warmup = 0 => bounds.from <= GridFrom(idx)
        /\ \A n \in Nat :
             GridFrom(idx) <= n /\ (Warmup = 0 \/ active.from <= n) => bounds.from <= n
    BY <1>1, FetchBoundsOK
  <2>2. Warmup # 0 => active = need BY DEF active
  <2> HIDE DEF bounds, desiredTo
  <2> QED BY <2>1, <2>2
<1>5. /\ needTo \in Marks
      /\ \A to \in Marks : to <= desiredTo /\ to <= need.to => to <= needTo
  BY <1>1, <1>4 DEF NeedKind
<1>9. ASSUME NEW n \in Blocks, Needed(idx, need, n)
      PROVE  /\ n \in Marks /\ n \in Nat /\ n <= desiredTo /\ n <= need.to
             /\ need.from <= n /\ GridFrom(idx) <= n
             /\ bounds.from <= n /\ n <= bounds.to
             /\ Warmup # 0 => active = need /\ active # NoNeed
  <2>1. n \in Marks /\ n \in Nat BY GridAssumption DEF Blocks, Marks
  <2>2. need # NoNeed
    <3>1. NoNeed.from = 0 /\ NoNeed.to = -1 BY DEF NoNeed
    <3> QED BY <1>9, <2>1, <3>1 DEF Needed
  <2> QED BY <1>4, <1>9, <2>1, <2>2 DEF Needed
<1>10. Warmup = 0 => active = NoNeed BY DEF active
<1> HIDE DEF active, desiredTo, needTo, bounds, t
<1>6. CASE e = NoId
  <2>1. t = Opened(s, idx, bounds, DataEnd) BY <1>3, <1>6
  <2>2. /\ Follows(s, t)
        /\ Reachable(s) => \A to \in Marks : to <= bounds.to => Promising(t, to)
        /\ EntriesCover(s.entry) => \A n \in bounds.from..bounds.to : Vouching(t, n)
    BY <1>4, <1>6, <2>1, OpenedOK
  <2>3. ASSUME EntriesCover(s.entry), NEW n \in Blocks, Needed(idx, need, n)
        PROVE  Vouching(t, n)
    <3>1. bounds.from \in Int /\ bounds.to \in Int /\ n \in Int
      BY <1>4, <1>9, <2>3, EntryParts DEF NeedKind
    <3>2. n \in bounds.from..bounds.to BY <1>9, <2>3, <3>1
    <3> QED BY <2>2, <2>3, <3>2
  <2> QED BY <1>4, <2>2, <2>3 DEF t, desiredTo
<1>7. CASE e # NoId /\ below
  <2>1. t = [s EXCEPT !.refused = TRUE] BY <1>3, <1>7
  <2>2. s \in AskKind BY DEF AskOK
  <2>3. /\ t \in AskKind /\ t.entry = s.entry /\ t.cache = s.cache /\ t.disc = s.disc
        /\ t.promises = s.promises /\ t.refused = TRUE /\ t.full = s.full
    <3> HIDE DEF EntryKind, DiscKind, Promise, Chunks, u, v, below
    <3> QED BY <2>1, <2>2 DEF AskKind
  <2>4. Follows(s, t) BY <2>3, FollowsOK DEF Follows, AskOK, Reachable
  <2> QED BY <2>3, <2>4 DEF Promising, Vouching, t
<1>8. CASE e # NoId /\ ~below
  <2>1. t = Promised(v, e) BY <1>3, <1>8
  <2>2. Follows(s, u) /\ u.cache = s.cache
    BY <1>1, <1>2, <1>8, RepairedOK
  <2>10. active = NoNeed \/ u.entry[e].from <= active.from
    <3>1. AskOK(u) /\ u.cache[idx] = e BY <2>2 DEF Follows
    <3> HIDE DEF u
    <3>2. u.entry[e] \in EntryKind BY <1>8, <3>1, CachedOK
    <3>3. u.entry[e].from \in Int /\ active.from \in Int
      BY <1>1, <3>2, EntryParts DEF NeedKind
    <3> QED BY <1>8, <3>3 DEF below
  <2>3. AskOK(u) /\ u.cache[idx] = e BY <2>2 DEF Follows
  <2> HIDE DEF u, below
  <2>4. /\ Follows(u, v) /\ v.cache = u.cache
        /\ \A to \in Marks : to <= needTo /\ to <= desiredTo => to <= v.entry[e].to
        /\ v.entry[e].from = u.entry[e].from
    <3> DEFINE w(f) == Extended(u, f, needTo, desiredTo)
    <3>1. LET f == u.cache[idx]
          IN  /\ Follows(u, w(f)) /\ w(f).cache = u.cache
              /\ \A to \in Marks : to <= needTo /\ to <= desiredTo => to <= w(f).entry[f].to
              /\ w(f).entry[f].from = u.entry[f].from
      BY <1>2, <1>4, <1>5, <1>8, <2>3, ExtendedOK
    <3>2. v = w(e) OBVIOUS
    <3> HIDE DEF v, w, e
    <3> QED BY <2>3, <3>1, <3>2
  <2>5. AskOK(v) /\ v.cache[idx] = e BY <2>3, <2>4 DEF Follows
  <2> HIDE DEF v
  <2>6. /\ Follows(v, t)
        /\ Reachable(v) => \A to \in Marks : to <= v.entry[e].to => Promising(t, to)
        /\ EntriesCover(v.entry) =>
             \A n \in v.entry[e].from..v.entry[e].to : Vouching(t, n)
    BY <1>8, <2>1, <2>5, PromisedOK
  <2>7. Follows(s, v) BY <2>2, <2>3, <2>4, FollowsOK
  <2>8. Follows(s, t) BY <2>6, <2>7, FollowsOK
  <2>9. Reachable(s) => Reachable(v) BY <2>7 DEF Follows
  <2>11. ASSUME EntriesCover(s.entry), NEW n \in Blocks, Needed(idx, need, n)
         PROVE  Vouching(t, n)
    <3>1. EntriesCover(v.entry) BY <2>7, <2>11 DEF Follows
    <3>2. n \in Nat /\ n \in Marks /\ n <= v.entry[e].to BY <1>5, <1>9, <2>4, <2>11
    <3>3. /\ e \in Entry /\ v.entry[e] \in EntryKind /\ v.entry[e].idx = idx
          /\ v.entry[e].at \notin {"free", "failed"}
      BY <1>8, <2>5, CachedOK
    <3>4. v.entry[e].from \in Nat /\ v.entry[e].to \in Int BY <3>3, EntryParts
    <3>5. CASE Warmup = 0
      <4>1. v.entry[e].from <= GridFrom(idx) BY <3>1, <3>3, <3>5 DEF EntriesCover, Covers
      <4>2. GridFrom(idx) \in Int
        <5>1. idx \in Nat BY DEF Chunks
        <5> QED BY <5>1, GridFromOK
      <4>3. n \in v.entry[e].from..v.entry[e].to BY <1>9, <2>11, <3>2, <3>4, <4>1, <4>2
      <4> QED BY <2>6, <3>1, <4>3
    <3>6. CASE Warmup # 0
      <4>1. v.entry[e].from <= need.from BY <1>9, <2>4, <2>10, <2>11, <3>6
      <4>2. need.from \in Int BY DEF NeedKind
      <4>3. n \in v.entry[e].from..v.entry[e].to BY <1>9, <2>11, <3>2, <3>4, <4>1, <4>2
      <4> QED BY <2>6, <3>1, <4>3
    <3> QED BY <3>5, <3>6
  <2> QED BY <1>5, <2>4, <2>6, <2>8, <2>9, <2>11 DEF t, desiredTo
<1> QED BY <1>6, <1>7, <1>8

LEMMA AskedIs ==
  \A s, needs, idx :
    Asked(s, needs, idx) = IF s.refused \/ s.full \/ idx \notin DOMAIN needs
                             THEN s ELSE DataChunk(s, idx, needs[idx])
PROOF BY DEF Asked

LEMMA AskAllOK ==
  ASSUME NEW s, AskOK(s), NEW needs, \A idx \in DOMAIN needs : needs[idx] \in NeedKind,
         RequestsOK
  PROVE  LET t == AskAll(s, needs)
         IN  /\ Follows(s, t)
             /\ Reachable(s) => \A idx \in DOMAIN needs \cap Chunks, to \in Marks :
                  to <= needs[idx].to /\ to <= GridTo(idx, DataEnd) => Promising(t, to)
             /\ EntriesCover(s.entry) => \A idx \in DOMAIN needs \cap Chunks, n \in Blocks :
                  Needed(idx, needs[idx], n) => Vouching(t, n)
PROOF
<1> DEFINE N == IdxOf(LastBlock) + 1
<1>1. N \in Nat \ {0} /\ Chunks = 0..(N - 1)
  <2>1. IdxOf(LastBlock) \in Nat BY GridFacts, GridAssumption
  <2> QED BY <2>1 DEF Chunks
<1>2. PICK f : /\ f[0] = s
               /\ \A k \in 1..N : f[k] = Asked(f[k - 1], needs, k - 1)
               /\ AskAll(s, needs) = f[N]
  BY AskAllSteps
<1> HIDE DEF N
<1> DEFINE Kept(k) ==
             /\ Follows(s, f[k])
             /\ Reachable(s) => \A idx \in DOMAIN needs \cap Chunks, to \in Marks :
                  idx < k /\ to <= needs[idx].to /\ to <= GridTo(idx, DataEnd)
                    => Promising(f[k], to)
             /\ EntriesCover(s.entry) => \A idx \in DOMAIN needs \cap Chunks, n \in Blocks :
                  idx < k /\ Needed(idx, needs[idx], n) => Vouching(f[k], n)
           Bad == {k \in 0..N : ~Kept(k)}
<1>3. Bad = {}
  <2> SUFFICES ASSUME Bad # {} PROVE FALSE OBVIOUS
  <2>1. Bad \subseteq Nat BY <1>1
  <2>2. PICK n \in Bad : \A m \in Bad : n <= m
    <3> HIDE DEF Bad
    <3> QED BY <2>1, LeastElement
  <2>3. n \in 0..N /\ ~Kept(n) OBVIOUS
  <2>4. n # 0
    <3>1. Kept(0)
      <4>1. Follows(s, f[0]) BY <1>2, FollowsOK
      <4>2. \A idx \in Chunks : ~(idx < 0) BY <1>1
      <4> QED BY <4>1, <4>2
    <3> QED BY <2>3, <3>1
  <2>5. n - 1 \in Chunks /\ n \in 1..N /\ n - 1 \in 0..N BY <1>1, <2>3, <2>4
  <2>6. Kept(n - 1)
    <3>1. n - 1 \notin Bad BY <1>1, <2>1, <2>2, <2>3, <2>4
    <3> QED BY <2>5, <3>1
  <2> DEFINE a == f[n - 1]
             b == f[n]
  <2>7. b = IF a.refused \/ a.full \/ n - 1 \notin DOMAIN needs
              THEN a ELSE DataChunk(a, n - 1, needs[n - 1])
    BY <1>2, <2>5, AskedIs
  <2>8. Follows(s, a) /\ AskOK(a) BY <2>6 DEF Follows
  <2>9. /\ Follows(a, b)
        /\ Reachable(a) /\ n - 1 \in DOMAIN needs => \A to \in Marks :
             to <= needs[n - 1].to /\ to <= GridTo(n - 1, DataEnd) => Promising(b, to)
        /\ EntriesCover(a.entry) /\ n - 1 \in DOMAIN needs => \A x \in Blocks :
             Needed(n - 1, needs[n - 1], x) => Vouching(b, x)
    <3> HIDE DEF a, b
    <3>1. CASE a.refused \/ a.full \/ n - 1 \notin DOMAIN needs
      <4>1. b = a BY <2>7, <3>1
      <4>2. Follows(a, b) BY <2>8, <4>1, FollowsOK
      <4>3. n - 1 \in DOMAIN needs =>
              (\A to \in Marks : Promising(b, to)) /\ (\A x \in Blocks : Vouching(b, x))
        BY <3>1, <4>1 DEF Promising, Vouching
      <4> QED BY <4>2, <4>3
    <3>2. CASE ~(a.refused \/ a.full \/ n - 1 \notin DOMAIN needs)
      <4>1. b = DataChunk(a, n - 1, needs[n - 1]) /\ needs[n - 1] \in NeedKind
        BY <2>7, <3>2
      <4> QED BY <2>5, <2>8, <4>1, DataChunkOK
    <3> QED BY <3>1, <3>2
  <2>10. Follows(s, b) BY <2>8, <2>9, FollowsOK
  <2>11. ASSUME Reachable(s), NEW idx \in DOMAIN needs \cap Chunks, NEW to \in Marks,
                idx < n, to <= needs[idx].to, to <= GridTo(idx, DataEnd)
         PROVE  Promising(b, to)
    <3>1. CASE idx = n - 1
      <4>1. Reachable(a) BY <2>8, <2>11 DEF Follows
      <4> QED BY <2>9, <2>11, <3>1, <4>1
    <3>2. CASE idx # n - 1
      <4>1. idx \in Int /\ n \in Int BY <1>1, <2>3
      <4>2. idx < n - 1 BY <2>11, <3>2, <4>1
      <4>3. Promising(a, to) BY <2>6, <2>11, <4>2
      <4> QED BY <2>8, <2>9, <4>3, FollowsOK
    <3> QED BY <3>1, <3>2
  <2>12. ASSUME EntriesCover(s.entry), NEW idx \in DOMAIN needs \cap Chunks, NEW x \in Blocks,
                idx < n, Needed(idx, needs[idx], x)
         PROVE  Vouching(b, x)
    <3>1. CASE idx = n - 1
      <4>1. EntriesCover(a.entry) BY <2>8, <2>12 DEF Follows
      <4> QED BY <2>9, <2>12, <3>1, <4>1
    <3>2. CASE idx # n - 1
      <4>1. idx \in Int /\ n \in Int BY <1>1, <2>3
      <4>2. idx < n - 1 BY <2>12, <3>2, <4>1
      <4>3. Vouching(a, x) BY <2>6, <2>12, <4>2
      <4> QED BY <2>8, <2>9, <4>3, FollowsOK
    <3> QED BY <3>1, <3>2
  <2> QED BY <2>3, <2>10, <2>11, <2>12
<1>4. Kept(N)
  <2>1. N \in 0..N BY <1>1
  <2> HIDE DEF Kept
  <2> QED BY <1>3, <2>1
<1>5. \A idx \in Chunks : idx < N BY <1>1
<1> QED BY <1>2, <1>4, <1>5

LEMMA IdxMonotone ==
  \A m, n \in Nat : m <= n => IdxOf(m) <= IdxOf(n)
PROOF
<1> SUFFICES ASSUME NEW m \in Nat, NEW n \in Nat, m <= n PROVE IdxOf(m) <= IdxOf(n)
  OBVIOUS
<1>1. /\ IdxOf(m) \in Nat /\ IdxOf(n) \in Nat /\ IdxOf(m) * ChunkBlocks <= m
      /\ n < IdxOf(n) * ChunkBlocks + ChunkBlocks
  BY GridFacts
<1>2. ChunkBlocks \in Nat \ {0} BY GridAssumption
<1>3. \A p, q, b \in Nat : p >= q + 1 => p * b >= q * b + b
  <2> TAKE p, q, b \in Nat
  <2>1. p >= q + 1 => (p - q - 1) * b >= 0 OBVIOUS
  <2>2. p * b = (p - q - 1) * b + q * b + b OBVIOUS
  <2>3. (p - q - 1) * b \in Int /\ p * b \in Int /\ q * b \in Int OBVIOUS
  <2> QED BY <2>1, <2>2, <2>3
<1>4. IdxOf(m) >= IdxOf(n) + 1 =>
        IdxOf(m) * ChunkBlocks >= IdxOf(n) * ChunkBlocks + ChunkBlocks
  BY <1>1, <1>2, <1>3
<1>5. IdxOf(m) * ChunkBlocks \in Int /\ IdxOf(n) * ChunkBlocks \in Int
  BY GridFacts
<1> QED BY <1>1, <1>2, <1>4, <1>5

(* The chunks of an interval: all that is asked for is promised.               *)
LEMMA AskRangeOK ==
  ASSUME NEW s, AskOK(s), NEW lo \in Nat, NEW hi \in Blocks, lo <= hi, RequestsOK,
         portalHead >= hi
  PROVE  LET t == AskRange(s, lo, hi)
         IN  /\ Follows(s, t) /\ (Reachable(s) => Promising(t, hi))
             /\ BackfillStart <= lo /\ EntriesCover(s.entry) =>
                  \A n \in lo..hi : Vouching(t, n)
PROOF
<1> DEFINE needs == NeedsOf(lo, hi)
           last == IdxOf(hi)
<1>1. hi \in Nat /\ hi <= LastBlock /\ LastBlock \in Nat /\ ChunkBlocks \in Nat \ {0} /\ hi \in Marks
  BY GridAssumption DEF Blocks, Marks
<1>2. /\ last \in Nat /\ last * ChunkBlocks \in Nat /\ IdxOf(lo) \in Nat
      /\ hi <= last * ChunkBlocks + ChunkBlocks - 1
  <2>1. hi < last * ChunkBlocks + ChunkBlocks /\ last * ChunkBlocks \in Nat /\ last \in Nat
    BY <1>1, GridFacts
  <2>2. IdxOf(lo) \in Nat BY GridFacts
  <2> HIDE DEF last
  <2> QED BY <1>1, <2>1, <2>2
<1>3. last \in Chunks /\ last \in ChunksOf(lo, hi)
  <2>1. last <= IdxOf(LastBlock) /\ IdxOf(lo) <= last /\ IdxOf(LastBlock) \in Nat
    BY <1>1, IdxMonotone, GridFacts
  <2> QED BY <1>2, <2>1 DEF Chunks, ChunksOf
<1>4. DOMAIN needs = ChunksOf(lo, hi) BY DEF NeedsOf
<1>5. ASSUME NEW idx \in ChunksOf(lo, hi) PROVE needs[idx] \in NeedKind
  <2>1. idx \in Nat BY <1>2 DEF ChunksOf
  <2>2. idx * ChunkBlocks \in Nat
    <3>1. \A m, n \in Nat : m * n \in Nat OBVIOUS
    <3> QED BY <1>1, <2>1, <3>1
  <2> DEFINE g == idx * ChunkBlocks
  <2>3. needs[idx] = [from |-> Larger(lo, g), to |-> Smaller(hi, g + ChunkBlocks - 1)]
    BY DEF NeedsOf
  <2> HIDE DEF g, needs
  <2>4. g \in Nat BY <2>2 DEF g
  <2>5. Larger(lo, g) \in Nat /\ Smaller(hi, g + ChunkBlocks - 1) \in Marks
    BY <1>1, <2>4 DEF Larger, Smaller, Marks
  <2> QED BY <2>3, <2>5 DEF NeedKind
<1>6. needs[last].to = hi
  <2> DEFINE g == last * ChunkBlocks
  <2>1. needs[last].to = Smaller(hi, g + ChunkBlocks - 1) BY <1>3 DEF NeedsOf
  <2> HIDE DEF g, needs, last
  <2>2. g \in Nat /\ hi <= g + ChunkBlocks - 1 BY <1>2 DEF g
  <2> QED BY <1>1, <2>1, <2>2 DEF Smaller
<1>7. hi <= GridTo(last, DataEnd)
  <2> DEFINE g == last * ChunkBlocks
  <2>1. GridTo(last, DataEnd) = Smaller(g + ChunkBlocks - 1, DataEnd) BY DEF GridTo
  <2> HIDE DEF g, last
  <2>2. g \in Nat /\ hi <= g + ChunkBlocks - 1 BY <1>2 DEF g
  <2>3. portalHead \in Int BY GridAssumption DEF RequestsOK, Marks
  <2> QED BY <1>1, <2>1, <2>2, <2>3 DEF Smaller, DataEnd
<1>12. ASSUME BackfillStart <= lo, NEW n \in lo..hi
       PROVE  /\ n \in Blocks /\ IdxOf(n) \in DOMAIN needs \cap Chunks
              /\ Needed(IdxOf(n), needs[IdxOf(n)], n)
  <2>1. n \in Nat /\ n \in Blocks /\ n <= hi /\ lo <= n BY <1>1 DEF Blocks
  <2> DEFINE idx == IdxOf(n)
             g == idx * ChunkBlocks
  <2>2. idx \in Nat /\ g \in Nat /\ g <= n /\ n < g + ChunkBlocks BY <2>1, GridFacts
  <2>3. IdxOf(lo) <= idx /\ idx <= last /\ idx <= IdxOf(LastBlock) /\ IdxOf(LastBlock) \in Nat
    <3>1. n <= LastBlock BY <1>1, <2>1
    <3>2. IdxOf(lo) <= IdxOf(n) BY <2>1, IdxMonotone
    <3>3. IdxOf(n) <= IdxOf(hi) BY <1>1, <2>1, IdxMonotone
    <3>4. IdxOf(n) <= IdxOf(LastBlock) BY <1>1, <2>1, <3>1, IdxMonotone
    <3>5. IdxOf(LastBlock) \in Nat BY <1>1, GridFacts
    <3> QED BY <3>2, <3>3, <3>4, <3>5
  <2>4. idx \in Chunks /\ idx \in ChunksOf(lo, hi)
    BY <1>2, <2>2, <2>3 DEF Chunks, ChunksOf
  <2>5. needs[idx] = [from |-> Larger(lo, g), to |-> Smaller(hi, g + ChunkBlocks - 1)]
    BY <2>4 DEF NeedsOf
  <2>6. GridFrom(idx) = Larger(g, BackfillStart) BY DEF GridFrom
  <2>7. GridTo(idx, DataEnd) = Smaller(g + ChunkBlocks - 1, DataEnd) BY DEF GridTo
  <2>8. portalHead \in Int /\ BackfillStart \in Nat BY GridAssumption DEF RequestsOK, Marks
  <2> HIDE DEF idx, g, needs, last
  <2>9. Needed(idx, needs[idx], n)
    <3>1. needs[idx].from = Larger(lo, g) /\ needs[idx].to = Smaller(hi, g + ChunkBlocks - 1)
      BY <2>5
    <3>2. GridFrom(idx) <= n BY <1>12, <2>1, <2>2, <2>6, <2>8 DEF Larger
    <3>3. needs[idx].from <= n /\ n <= needs[idx].to
      BY <1>1, <2>1, <2>2, <3>1 DEF Larger, Smaller
    <3>4. n <= GridTo(idx, DataEnd) BY <1>1, <2>1, <2>2, <2>7, <2>8 DEF Smaller, DataEnd
    <3> QED BY <3>2, <3>3, <3>4 DEF Needed
  <2> QED BY <1>4, <2>1, <2>4, <2>9 DEF idx
<1> HIDE DEF needs, last
<1>8. AskRange(s, lo, hi) = AskAll(s, needs) BY DEF AskRange, needs
<1>9. hi <= needs[last].to BY <1>1, <1>6
<1>10. last \in DOMAIN needs \cap Chunks BY <1>3, <1>4
<1>11. \A idx \in DOMAIN needs : needs[idx] \in NeedKind BY <1>4, <1>5
<1>13. /\ Follows(s, AskAll(s, needs))
       /\ Reachable(s) => Promising(AskAll(s, needs), hi)
  BY <1>1, <1>7, <1>9, <1>10, <1>11, AskAllOK
<1>14. EntriesCover(s.entry) => \A idx \in DOMAIN needs \cap Chunks, n \in Blocks :
         Needed(idx, needs[idx], n) => Vouching(AskAll(s, needs), n)
  BY <1>11, AskAllOK
<1> QED BY <1>8, <1>12, <1>13, <1>14

LEMMA ReadAheadOK ==
  ASSUME NEW s, AskOK(s), NEW idxs, RequestsOK
  PROVE  Follows(s, ReadAhead(s, idxs))
PROOF
<1> DEFINE needs == [idx \in idxs |-> NoNeed]
<1>1. NoNeed \in NeedKind BY GridAssumption DEF NeedKind, NoNeed, Marks
<1>2. \A idx \in DOMAIN needs : needs[idx] \in NeedKind BY <1>1
<1>3. ReadAhead(s, idxs) = AskAll(s, needs) BY DEF ReadAhead
<1> HIDE DEF needs
<1> QED BY <1>2, <1>3, AskAllOK

-----------------------------------------------------------------------------
(* Forgetting.                                                             *)

LEMMA SweptOK ==
  ASSUME NEW ent, EntriesOK(ent), NEW cach, CacheOK(cach, ent),
         NEW promises \in [Interval -> SUBSET Promise]
  PROVE  LET x == Swept(ent, cach, promises)
         IN  /\ EntriesOK(x) /\ CacheOK(cach, x)
             /\ \A e \in Entry : x[e] = ent[e] \/ x[e] = NoEntry
             /\ \A i \in Interval : \A p \in promises[i] : x[p.entry] = ent[p.entry]
             /\ \A idx \in Chunks : cach[idx] # NoId => x[cach[idx]] = ent[cach[idx]]
             /\ \A e \in Entry : ent[e].at \in {"discovering", "streaming"} => x[e] = ent[e]
PROOF
<1> DEFINE x == Swept(ent, cach, promises)
           Used(e) ==
             \/ \E idx \in Chunks : cach[idx] = e
             \/ \E i \in Interval : \E p \in promises[i] : p.entry = e
             \/ ent[e].at \in {"discovering", "streaming"}
             \/ ent[e].at = "settled" /\ ent[e].jobs # <<>>
<1>1. x = [e \in Entry |-> IF Used(e) THEN ent[e] ELSE NoEntry] BY DEF Swept
<1>2. \A e \in Entry : Used(e) => x[e] = ent[e] BY <1>1
<1>3. \A e \in Entry : x[e] = ent[e] \/ x[e] = NoEntry BY <1>1
<1>4. \A i \in Interval : \A p \in promises[i] : p.entry \in Entry /\ x[p.entry] = ent[p.entry]
  <2>1. \A i \in Interval : \A p \in promises[i] : p.entry \in Entry BY DEF Promise
  <2> QED BY <1>2, <2>1
<1>5. \A idx \in Chunks : cach[idx] # NoId => cach[idx] \in Entry /\ x[cach[idx]] = ent[cach[idx]]
  <2>1. \A idx \in Chunks : cach[idx] # NoId => cach[idx] \in Entry BY DEF CacheOK
  <2> QED BY <1>2, <2>1
<1>6. \A e \in Entry : ent[e].at \in {"discovering", "streaming"} => x[e] = ent[e] BY <1>2
<1>7. x = [e \in Entry |-> x[e]] BY <1>1
<1> HIDE DEF x
<1>8. EntriesOK(x)
  <2>1. \A e \in Entry : ent[e] \in EntryKind BY DEF EntriesOK
  <2>2. x \in [Entry -> EntryKind]
    <3>1. \A e \in Entry : x[e] \in EntryKind BY <1>3, <2>1, NoEntryOK
    <3> HIDE DEF EntryKind
    <3> QED BY <1>7, <3>1
  <2>3. ASSUME NEW e \in Entry
        PROVE  /\ x[e].at = "free" => x[e] = NoEntry
               /\ x[e].at \in {"discovering", "streaming"} => x[e].jobs # <<>>
               /\ x[e].at \notin {"free", "failed"} => x[e].done + Len(x[e].jobs) >= 1
    <3>1. CASE x[e] = NoEntry BY <3>1, NoEntryOK
    <3>2. CASE x[e] = ent[e] BY <3>2 DEF EntriesOK
    <3> QED BY <1>3, <3>1, <3>2
  <2> QED BY <2>2, <2>3 DEF EntriesOK
<1>9. CacheOK(cach, x) BY <1>5 DEF CacheOK
<1> QED BY <1>3, <1>4, <1>5, <1>6, <1>8, <1>9 DEF x

-----------------------------------------------------------------------------
(* How the watermarks and the scans move.                                    *)

LEMMA DiscParts ==
  \A d : DiscOK(d) =>
    /\ d \in DiscKind /\ d.scans \in Seq(ScanKind) /\ Len(d.scans) \in Nat
    /\ d.confirmed \in Marks /\ d.through \in Marks /\ d.quantum \in 1..FullQuantum
    /\ d.stray \subseteq Blocks
    /\ d.confirmed \in Int /\ d.through \in Int /\ d.confirmed <= d.through
    /\ \A k \in 1..Len(d.scans) :
         /\ d.scans[k] \in ScanKind /\ d.scans[k].to \in Marks /\ d.scans[k].to \in Int
         /\ d.scans[k].from \in Nat /\ d.scans[k].left \subseteq Blocks
PROOF
<1> SUFFICES ASSUME NEW d, DiscOK(d)
             PROVE  /\ d \in DiscKind /\ d.scans \in Seq(ScanKind) /\ Len(d.scans) \in Nat
                    /\ d.confirmed \in Marks /\ d.through \in Marks
                    /\ d.quantum \in 1..FullQuantum /\ d.stray \subseteq Blocks
                    /\ d.confirmed \in Int /\ d.through \in Int /\ d.confirmed <= d.through
                    /\ \A k \in 1..Len(d.scans) :
                         /\ d.scans[k] \in ScanKind /\ d.scans[k].to \in Marks
                         /\ d.scans[k].to \in Int /\ d.scans[k].from \in Nat
                         /\ d.scans[k].left \subseteq Blocks
  OBVIOUS
<1>1. /\ d \in DiscKind /\ d.scans \in Seq(ScanKind)
      /\ d.confirmed \in Marks /\ d.through \in Marks /\ d.quantum \in 1..FullQuantum
      /\ d.stray \subseteq Blocks /\ d.confirmed <= d.through
  <2> HIDE DEF ScanKind, Marks
  <2> QED BY DEF DiscOK, DiscKind, ScansChained
<1>2. d.confirmed \in Int /\ d.through \in Int BY <1>1, EntryParts
<1>3. \A j \in ScanKind : /\ j.to \in Marks /\ j.to \in Int /\ j.from \in Nat
                          /\ j.left \subseteq Blocks
  BY GridAssumption DEF ScanKind, Blocks, Marks
<1>4. Len(d.scans) \in Nat /\ \A k \in 1..Len(d.scans) : d.scans[k] \in ScanKind
  <2> HIDE DEF ScanKind
  <2> QED BY <1>1
<1> HIDE DEF ScanKind
<1> QED BY <1>1, <1>2, <1>3, <1>4

LEMMA DiscBuilt ==
  ASSUME NEW d, d \in DiscKind, d.scans = <<>>, d.confirmed = d.through
  PROVE  DiscOK(d)
PROOF
<1>1. d.confirmed \in Int
  <2>1. d.confirmed \in Marks BY DEF DiscKind
  <2> QED BY <2>1, EntryParts
<1>2. Len(d.scans) = 0 BY DEF DiscKind
<1> QED BY <1>1, <1>2 DEF DiscOK, ScansChained, Before

LEMMA NewDiscOK == DiscOK(NewDisc) /\ NewDisc.confirmed = -1
PROOF
<1>1. LastBlock \in Nat /\ Warmup \in Nat BY GridAssumption, DiscoveryAssumption
<1>2. -1 \in Marks BY <1>1 DEF Marks
<1>3. (IF Warmup = 0 THEN FullQuantum ELSE Smaller(Warmup, FullQuantum)) \in 1..FullQuantum
  BY <1>1 DEF FullQuantum, Smaller
<1>4. <<>> \in Seq(ScanKind) OBVIOUS
<1>5. NewDisc \in DiscKind
  <2> HIDE DEF ScanKind, Marks
  <2> QED BY <1>2, <1>3, <1>4 DEF NewDisc, DiscKind
<1>6. NewDisc.scans = <<>> /\ NewDisc.confirmed = -1 /\ NewDisc.through = -1 BY DEF NewDisc
<1> QED BY <1>5, <1>6, DiscBuilt

LEMMA SeededOK ==
  ASSUME NEW d, DiscOK(d), NEW n \in Marks
  PROVE  LET e == Seeded(d, n)
         IN  /\ DiscOK(e) /\ e.scans = d.scans
             /\ \/ e = d
                \/ /\ d.confirmed = -1 /\ e.scans = <<>> /\ e.confirmed = n /\ n >= Floor
PROOF
<1> DEFINE e == Seeded(d, n)
<1>1. CASE ~(d.through = -1 /\ d.confirmed = -1 /\ n >= Floor)
  <2>1. e = d BY <1>1 DEF Seeded
  <2> QED BY <2>1
<1>2. CASE d.through = -1 /\ d.confirmed = -1 /\ n >= Floor
  <2>1. e = [d EXCEPT !.through = n, !.confirmed = n] BY <1>2 DEF Seeded
  <2> HIDE DEF e
  <2>2. d \in DiscKind /\ Len(d.scans) \in Nat /\ d.scans \in Seq(ScanKind) BY DiscParts
  <2>3. Len(d.scans) = 0
    <3> SUFFICES ASSUME Len(d.scans) # 0 PROVE FALSE OBVIOUS
    <3>1. 1 \in 1..Len(d.scans) BY <2>2
    <3>2. /\ Before(d, 1) < d.scans[1].to /\ d.scans[1].to <= d.through
          /\ d.scans[1].to \in Int
      BY <3>1, DiscParts DEF DiscOK, ScansChained
    <3>3. Before(d, 1) = d.confirmed BY DEF Before
    <3> QED BY <1>2, <3>2, <3>3
  <2>4. d.scans = <<>> BY <2>2, <2>3
  <2>5. e \in DiscKind /\ e.scans = d.scans /\ e.confirmed = n /\ e.through = n
    <3> HIDE DEF ScanKind, Marks
    <3> QED BY <2>1, <2>2 DEF DiscKind
  <2>6. DiscOK(e) BY <2>4, <2>5, DiscBuilt
  <2> QED BY <1>2, <2>4, <2>5, <2>6 DEF e
<1> QED BY <1>1, <1>2

(* A creation is met.                                                      *)
LEMMA MetOK ==
  ASSUME NEW d, DiscOK(d), d.scans # <<>>, NEW n
  PROVE  LET e == [d EXCEPT !.scans[1].left = @ \ {n}]
         IN  /\ DiscOK(e) /\ e.confirmed = d.confirmed /\ e.through = d.through
             /\ e.stray = d.stray /\ Len(e.scans) = Len(d.scans)
             /\ \A k \in 1..Len(d.scans) :
                  /\ e.scans[k].from = d.scans[k].from /\ e.scans[k].to = d.scans[k].to
                  /\ e.scans[k].left = d.scans[k].left \ (IF k = 1 THEN {n} ELSE {})
PROOF
<1> DEFINE e == [d EXCEPT !.scans[1].left = @ \ {n}]
           scan == [d.scans[1] EXCEPT !.left = @ \ {n}]
           scans == [d.scans EXCEPT ![1] = scan]
<1>1. /\ d \in DiscKind /\ d.scans \in Seq(ScanKind) /\ Len(d.scans) \in Nat
      /\ \A k \in 1..Len(d.scans) : d.scans[k] \in ScanKind
  BY DiscParts
<1>2. 1 \in 1..Len(d.scans) BY <1>1
<1>3. e = [d EXCEPT !.scans = scans] BY <1>1 DEF DiscKind
<1>4. /\ scan \in ScanKind /\ scan.from = d.scans[1].from /\ scan.to = d.scans[1].to
      /\ scan.left = d.scans[1].left \ {n}
  <2>1. d.scans[1] \in ScanKind BY <1>1, <1>2
  <2> QED BY <2>1 DEF ScanKind
<1> HIDE DEF e, scan
<1>5. /\ scans \in Seq(ScanKind) /\ Len(scans) = Len(d.scans) /\ scans[1] = scan
      /\ \A k \in 1..Len(d.scans) : k # 1 => scans[k] = d.scans[k]
  <2> HIDE DEF ScanKind
  <2> QED BY <1>1, <1>2, <1>4
<1> HIDE DEF scans
<1>6. /\ e \in DiscKind /\ e.scans = scans /\ e.confirmed = d.confirmed
      /\ e.through = d.through /\ e.stray = d.stray
  <2> HIDE DEF ScanKind, Marks
  <2> QED BY <1>1, <1>3, <1>5 DEF DiscKind
<1>7. \A k \in 1..Len(d.scans) :
        /\ e.scans[k].from = d.scans[k].from /\ e.scans[k].to = d.scans[k].to
        /\ e.scans[k].left = d.scans[k].left \ (IF k = 1 THEN {n} ELSE {})
  BY <1>4, <1>5, <1>6
<1>8. \A k \in 1..(Len(d.scans) + 1) : Before(e, k) = Before(d, k)
  <2> TAKE k \in 1..(Len(d.scans) + 1)
  <2>1. k # 1 => k - 1 \in 1..Len(d.scans) BY <1>1
  <2> QED BY <1>6, <1>7, <2>1 DEF Before
<1>9. DiscOK(e)
  <2>1. Len(e.scans) = Len(d.scans) /\ 1..Len(d.scans) \subseteq 1..(Len(d.scans) + 1)
        /\ Len(d.scans) + 1 \in 1..(Len(d.scans) + 1)
    BY <1>1, <1>5, <1>6
  <2>2. \A k \in 1..Len(d.scans) :
          /\ Before(e, k) < e.scans[k].to /\ e.scans[k].to <= e.through
          /\ e.scans[k].from <= e.scans[k].to
          /\ e.scans[k].from <= Larger(Before(e, k) + 1, Floor)
          /\ e.scans[k].left \subseteq e.scans[k].from..e.scans[k].to
    BY <1>6, <1>7, <1>8, <2>1 DEF DiscOK, ScansChained
  <2> QED BY <1>6, <1>8, <2>1, <2>2 DEF DiscOK, ScansChained
<1> QED BY <1>5, <1>6, <1>7, <1>9 DEF e

(* The first scan succeeds.                                                 *)
LEMMA ConfirmedOK ==
  ASSUME NEW d, DiscOK(d), d.scans # <<>>
  PROVE  LET e == Confirmed(d)
         IN  /\ DiscOK(e) /\ e.through = d.through /\ e.scans = Tail(d.scans)
             /\ e.confirmed = d.scans[1].to /\ d.confirmed < d.scans[1].to
             /\ d.scans[1].from <= Larger(d.confirmed + 1, Floor)
             /\ Len(e.scans) = Len(d.scans) - 1
             /\ \A k \in 1..Len(e.scans) : e.scans[k] = d.scans[k + 1]
PROOF
<1> DEFINE e == Confirmed(d)
<1>1. /\ d \in DiscKind /\ d.scans \in Seq(ScanKind) /\ Len(d.scans) \in Nat
      /\ \A k \in 1..Len(d.scans) : d.scans[k].to \in Marks /\ d.scans[k].to \in Int
      /\ d.quantum \in 1..FullQuantum /\ d.through \in Int
  BY DiscParts
<1>2. /\ 1 \in 1..Len(d.scans) /\ Head(d.scans) = d.scans[1]
      /\ Tail(d.scans) \in Seq(ScanKind) /\ Len(Tail(d.scans)) = Len(d.scans) - 1
      /\ \A k \in 1..Len(Tail(d.scans)) : Tail(d.scans)[k] = d.scans[k + 1]
  <2> HIDE DEF ScanKind
  <2> QED BY <1>1
<1>3. Smaller(2 * d.quantum, FullQuantum) \in 1..FullQuantum
  BY <1>1, GridAssumption DEF Smaller, FullQuantum
<1>4. e = [d EXCEPT !.confirmed = d.scans[1].to,
                    !.quantum = Smaller(2 * d.quantum, FullQuantum),
                    !.scans = Tail(d.scans)]
  BY <1>1, <1>2 DEF Confirmed, DiscKind
<1> HIDE DEF e
<1>5. /\ e \in DiscKind /\ e.confirmed = d.scans[1].to /\ e.scans = Tail(d.scans)
      /\ e.through = d.through
  <2> DEFINE Q == 1..FullQuantum
             S == Seq(ScanKind)
             c == d.scans[1].to
             q == Smaller(2 * d.quantum, FullQuantum)
             t == Tail(d.scans)
             x == [d EXCEPT !.confirmed = c]
             y == [x EXCEPT !.quantum = q]
  <2>1. d \in [through : Marks, confirmed : Marks, quantum : Q, scans : S, stray : SUBSET Blocks]
        /\ DiscKind = [through : Marks, confirmed : Marks, quantum : Q, scans : S, stray : SUBSET Blocks]
    BY <1>1 DEF DiscKind
  <2>2. c \in Marks /\ q \in Q /\ t \in S BY <1>1, <1>2, <1>3
  <2>3. e = [y EXCEPT !.scans = t] BY <1>4, <2>1
  <2> HIDE DEF Q, S, c, q, t, Marks, Blocks, DiscKind
  <2>4. x \in DiscKind /\ x.confirmed = c /\ x.through = d.through BY <2>1, <2>2
  <2> HIDE DEF x
  <2>5. y \in DiscKind /\ y.confirmed = c /\ y.through = d.through BY <2>1, <2>2, <2>4
  <2> HIDE DEF y
  <2>6. e \in DiscKind /\ e.confirmed = c /\ e.scans = t /\ e.through = d.through
    BY <2>1, <2>2, <2>3, <2>5
  <2> QED BY <2>6 DEF c, t
<1>6. /\ Before(d, 1) = d.confirmed /\ Before(d, 1) < d.scans[1].to
      /\ d.scans[1].from <= Larger(Before(d, 1) + 1, Floor)
      /\ d.scans[1].to <= d.through
  BY <1>2 DEF DiscOK, ScansChained, Before
<1>7. ASSUME NEW k \in 1..(Len(e.scans) + 1)
      PROVE  k + 1 \in 1..(Len(d.scans) + 1) /\ Before(e, k) = Before(d, k + 1)
  <2>1. Len(e.scans) = Len(d.scans) - 1 BY <1>2, <1>5
  <2>2. k + 1 \in 1..(Len(d.scans) + 1) /\ k + 1 # 1 BY <1>1, <2>1
  <2>3. CASE k = 1 BY <1>5, <2>2, <2>3 DEF Before
  <2>4. CASE k # 1
    <3>1. k - 1 \in 1..Len(e.scans) /\ k - 1 + 1 = k /\ k + 1 - 1 = k BY <1>1, <2>1, <2>4
    <3>2. e.scans[k - 1] = d.scans[k] BY <1>2, <1>5, <3>1
    <3> QED BY <2>2, <2>4, <3>1, <3>2 DEF Before
  <2> QED BY <2>2, <2>3, <2>4
<1>8. DiscOK(e)
  <2>1. Len(e.scans) = Len(d.scans) - 1 BY <1>2, <1>5
  <2>2. ASSUME NEW k \in 1..Len(e.scans)
        PROVE  /\ Before(e, k) < e.scans[k].to /\ e.scans[k].to <= e.through
               /\ e.scans[k].from <= e.scans[k].to
               /\ e.scans[k].from <= Larger(Before(e, k) + 1, Floor)
               /\ e.scans[k].left \subseteq e.scans[k].from..e.scans[k].to
    <3>1. k + 1 \in 1..Len(d.scans) /\ e.scans[k] = d.scans[k + 1] BY <1>1, <1>2, <1>5, <2>1
    <3>2. k \in 1..(Len(e.scans) + 1) BY <1>1, <2>1
    <3>3. Before(e, k) = Before(d, k + 1) BY <1>7, <3>2
    <3> QED BY <1>5, <3>1, <3>3 DEF DiscOK, ScansChained
  <2>3. Before(e, Len(e.scans) + 1) = e.through
    <3>1. Len(e.scans) + 1 \in 1..(Len(e.scans) + 1) BY <1>1, <1>2, <2>1
    <3>2. Len(e.scans) + 1 + 1 = Len(d.scans) + 1 BY <1>1, <2>1
    <3>3. Before(e, Len(e.scans) + 1) = Before(d, Len(d.scans) + 1) BY <1>7, <3>1, <3>2
    <3> QED BY <1>5, <3>3 DEF DiscOK, ScansChained
  <2>4. e.confirmed <= e.through BY <1>5, <1>6
  <2> QED BY <1>5, <2>2, <2>3, <2>4 DEF DiscOK, ScansChained
<1> QED BY <1>2, <1>5, <1>6, <1>8 DEF e

(* The first scan fails, and those behind it with it.                         *)
LEMMA RolledBackOK ==
  ASSUME NEW d, DiscOK(d), d.scans # <<>>, NEW window
  PROVE  LET e == RolledBack(d, window)
         IN  DiscOK(e) /\ e.scans = <<>> /\ e.confirmed = d.confirmed /\ e.through = d.confirmed
PROOF
<1> DEFINE e == RolledBack(d, window)
           stray == d.stray \cup (Head(d.scans).left \ (window.lo..window.hi))
<1>1. /\ d \in DiscKind /\ d.confirmed \in Marks /\ d.scans \in Seq(ScanKind)
      /\ Len(d.scans) \in Nat /\ d.stray \subseteq Blocks
      /\ \A k \in 1..Len(d.scans) : d.scans[k].left \subseteq Blocks
  BY DiscParts
<1>2. 1 \in 1..Len(d.scans) /\ Head(d.scans) = d.scans[1] BY <1>1
<1>3. stray \in SUBSET Blocks BY <1>1, <1>2
<1>4. e = [d EXCEPT !.through = d.confirmed, !.scans = <<>>, !.stray = stray]
  BY <1>1 DEF RolledBack, DiscKind
<1> HIDE DEF e, stray
<1>5. /\ e \in DiscKind /\ e.scans = <<>> /\ e.confirmed = d.confirmed
      /\ e.through = d.confirmed
  <2> DEFINE Q == 1..FullQuantum
             S == Seq(ScanKind)
             B == SUBSET Blocks
             c == d.confirmed
             x == [d EXCEPT !.through = c]
             y == [x EXCEPT !.scans = <<>>]
  <2>1. d \in [through : Marks, confirmed : Marks, quantum : Q, scans : S, stray : B]
        /\ DiscKind = [through : Marks, confirmed : Marks, quantum : Q, scans : S, stray : B]
    BY <1>1 DEF DiscKind
  <2>2. c \in Marks /\ stray \in B /\ <<>> \in S BY <1>1, <1>3
  <2>3. e = [y EXCEPT !.stray = stray] BY <1>4, <2>1
  <2> HIDE DEF Q, S, B, c, Marks, DiscKind
  <2>4. x \in DiscKind /\ x.through = c /\ x.confirmed = d.confirmed BY <2>1, <2>2
  <2> HIDE DEF x
  <2>5. y \in DiscKind /\ y.through = c /\ y.confirmed = d.confirmed /\ y.scans = <<>>
    BY <2>1, <2>2, <2>4
  <2> HIDE DEF y
  <2>6. e \in DiscKind /\ e.through = c /\ e.confirmed = d.confirmed /\ e.scans = <<>>
    BY <2>1, <2>2, <2>3, <2>5
  <2> QED BY <2>6 DEF c
<1>6. DiscOK(e) BY <1>5, DiscBuilt
<1> QED BY <1>5, <1>6 DEF e

LEMMA StrayOK ==
  ASSUME NEW d, DiscOK(d), NEW n
  PROVE  LET e == [d EXCEPT !.stray = @ \ {n}]
         IN  /\ DiscOK(e) /\ e.scans = d.scans /\ e.confirmed = d.confirmed
             /\ e.through = d.through
PROOF
<1> DEFINE e == [d EXCEPT !.stray = @ \ {n}]
<1>1. d \in DiscKind BY DiscParts
<1>2. e \in DiscKind /\ e.scans = d.scans /\ e.confirmed = d.confirmed /\ e.through = d.through
  <2> HIDE DEF ScanKind, Marks
  <2> QED BY <1>1 DEF DiscKind
<1> HIDE DEF e
<1>3. DiscOK(e) BY <1>2 DEF DiscOK, ScansChained, Before
<1> QED BY <1>2, <1>3 DEF e

-----------------------------------------------------------------------------
(* The chunk cache.                                                        *)

LEMMA StreamParts ==
  ASSUME TInv
  PROVE  /\ RequestsOK /\ DiscOK(disc) /\ EntriesOK(entry) /\ CacheOK(cache, entry)
         /\ entry \in [Entry -> EntryKind] /\ cache \in [Chunks -> Entry \cup {NoId}]
         /\ portalHead \in -1..final /\ final \in Blocks /\ final \in Nat /\ final <= LastBlock
         /\ awaited \in [Interval -> SUBSET Promise]
         /\ \A i \in Interval : Lo(i) \in Nat /\ Hi(i) \in Blocks /\ Lo(i) <= Hi(i)
                                /\ Lo(i) - 1 \in Marks /\ Hi(i) \in Nat /\ BlocksOf(i) \subseteq Blocks
         /\ LastBlock \in Nat
PROOF
<1>1. final \in Nat /\ final <= LastBlock /\ LastBlock \in Nat
  BY GridAssumption DEF TInv, StreamKinds, Blocks
<1>2. portalHead \in Marks BY <1>1 DEF TInv, StreamKinds, Marks
<1>3. RequestsOK BY <1>2 DEF TInv, StreamKinds, RequestsOK
<1>4. \A i \in Interval : /\ Lo(i) \in Nat /\ Hi(i) \in Blocks /\ Lo(i) <= Hi(i)
                          /\ Lo(i) - 1 \in Marks /\ Hi(i) \in Nat /\ BlocksOf(i) \subseteq Blocks
  BY <1>1, SyncAssumption DEF Lo, Hi, Blocks, Marks, BlocksOf
<1> QED BY <1>1, <1>3, <1>4 DEF TInv, StreamKinds, EntriesOK, CacheOK

(* An entry is replaced.                                                   *)
LEMMA EntryReplaced ==
  ASSUME NEW ent, EntriesOK(ent), NEW cach, CacheOK(cach, ent), NEW e \in Entry,
         NEW q \in EntryKind, q.idx = ent[e].idx, q.at \notin {"free", "failed"},
         q.at \in {"discovering", "streaming"} => q.jobs # <<>>,
         q.done + Len(q.jobs) >= 1
  PROVE  LET x == [ent EXCEPT ![e] = q]
         IN  /\ EntriesOK(x) /\ CacheOK(cach, x) /\ x[e] = q
             /\ \A f \in Entry : f # e => x[f] = ent[f]
PROOF
<1> DEFINE x == [ent EXCEPT ![e] = q]
<1>1. ent \in [Entry -> EntryKind] BY DEF EntriesOK
<1>2. /\ x \in [Entry -> EntryKind] /\ x[e] = q
      /\ \A f \in Entry : f # e => x[f] = ent[f]
  <2> HIDE DEF EntryKind
  <2> QED BY <1>1
<1> HIDE DEF x
<1>3. EntriesOK(x)
  <2> SUFFICES ASSUME NEW f \in Entry
               PROVE  /\ x[f].at = "free" => x[f] = NoEntry
                      /\ x[f].at \in {"discovering", "streaming"} => x[f].jobs # <<>>
                      /\ x[f].at \notin {"free", "failed"} => x[f].done + Len(x[f].jobs) >= 1
    BY <1>2 DEF EntriesOK
  <2>1. CASE f = e BY <1>2, <2>1
  <2>2. CASE f # e BY <1>2, <2>2 DEF EntriesOK
  <2> QED BY <2>1, <2>2
<1>4. CacheOK(cach, x) BY <1>2 DEF CacheOK
<1> QED BY <1>2, <1>3, <1>4 DEF x

(* A chained job is reached.                                                *)
LEMMA ResumesOK ==
  ASSUME TInv, NEW e \in Entry, Resumes(e)
  PROVE  /\ DiscOK(disc') /\ disc'.confirmed = disc.confirmed
         /\ Target(Head(entry[e].jobs).to) <= disc'.through
         /\ ScansHonest(disc) => ScansHonest(disc')
         /\ EntriesOK(entry') /\ CacheOK(cache, entry')
         /\ entry'[e] = [entry[e] EXCEPT !.at = "discovering", !.wait = disc'.through]
         /\ entry'[e].at = "discovering" /\ entry'[e].wait = disc'.through
         /\ entry'[e].jobs = entry[e].jobs /\ entry'[e].done = entry[e].done
         /\ entry'[e].idx = entry[e].idx /\ entry'[e].to = entry[e].to
         /\ entry'[e].from = entry[e].from /\ entry'[e].data = entry[e].data
         /\ \A f \in Entry : f # e => entry'[f] = entry[f]
PROOF
<1> DEFINE r == entry[e]
           job == Head(r.jobs)
           d == Ensured(disc, EnsureTarget(disc, job.to), job.hint)
           q == [r EXCEPT !.at = "discovering", !.wait = d.through]
<1>1. /\ r.at = "settled" /\ r.jobs # <<>> /\ disc' = d
      /\ entry' = [entry EXCEPT ![e].at = "discovering", ![e].wait = d.through]
  BY DEF Resumes
<1>2. /\ DiscOK(disc) /\ EntriesOK(entry) /\ CacheOK(cache, entry)
      /\ entry \in [Entry -> EntryKind] /\ r \in EntryKind
  BY StreamParts DEF EntriesOK
<1>3. /\ r.jobs \in Seq(JobKind) /\ Len(r.jobs) \in Nat /\ r.done \in Nat
  BY <1>2, EntryParts
<1>4. job \in JobKind BY <1>1, <1>3
<1>5. job.to \in Marks /\ job.hint \in Marks BY <1>4 DEF JobKind
<1> HIDE DEF job
<1>6. /\ DiscOK(d) /\ d.confirmed = disc.confirmed /\ Target(job.to) <= d.through
  BY <1>2, <1>5, EnsuredOK
<1>7. ScansHonest(disc) => ScansHonest(d) BY <1>2, <1>5, EnsuredHonest
<1> HIDE DEF d
<1>8. d.through \in Marks BY <1>6, DiscParts
<1>9. entry' = [entry EXCEPT ![e] = q] BY <1>1, <1>2
<1>10. /\ q \in EntryKind /\ q.at = "discovering" /\ q.wait = d.through
       /\ q.jobs = r.jobs /\ q.done = r.done /\ q.idx = r.idx /\ q.to = r.to
       /\ q.from = r.from /\ q.data = r.data
  <2> HIDE DEF r, Marks, JobKind
  <2> QED BY <1>2, <1>8 DEF EntryKind
<1> HIDE DEF q
<1>11. r.done + Len(r.jobs) >= 1
  <2>1. Len(r.jobs) >= 1 BY <1>1, <1>3
  <2> HIDE DEF r
  <2> QED BY <1>3, <2>1
<1>12. /\ EntriesOK(entry') /\ CacheOK(cache, entry') /\ entry'[e] = q
       /\ \A f \in Entry : f # e => entry'[f] = entry[f]
  <2>1. /\ q.idx = entry[e].idx /\ q.at \notin {"free", "failed"} /\ q.jobs # <<>>
        /\ q.done + Len(q.jobs) >= 1
    BY <1>1, <1>10, <1>11
  <2> HIDE DEF r
  <2> QED BY <1>2, <1>9, <1>10, <2>1, EntryReplaced
<1>13. entry'[e] = [r EXCEPT !.at = "discovering", !.wait = disc'.through]
  BY <1>1, <1>12 DEF q
<1>14. Target(job.to) <= disc'.through BY <1>1, <1>6
<1> QED BY <1>1, <1>6, <1>7, <1>10, <1>12, <1>13, <1>14 DEF job

(* Rejected entries go out of the cache and keep no job.                      *)
LEMMA RejectedOK ==
  ASSUME TInv, NEW broken \in SUBSET Entry, Rejected(broken),
         \A e \in broken : entry[e].at \in {"discovering", "streaming"}
  PROVE  /\ EntriesOK(entry') /\ CacheOK(cache', entry')
         /\ \A idx \in Chunks : cache'[idx] # NoId =>
              /\ cache'[idx] = cache[idx] /\ cache[idx] \notin broken
              /\ entry'[cache[idx]] = entry[cache[idx]]
         /\ \A e \in Entry \ broken :
              /\ entry'[e] = entry[e] \/ entry'[e] = NoEntry
              /\ entry[e].at \in {"discovering", "streaming"} => entry'[e] = entry[e]
         /\ \A e \in broken : entry'[e] = NoEntry \/ entry'[e].at = "failed"
         /\ \A i \in Interval : \A p \in awaited[i] :
              IF p.entry \in broken
                THEN /\ entry'[p.entry].at = "failed"
                     /\ entry'[p.entry].done = entry[p.entry].done
                     /\ entry'[p.entry].data = entry[p.entry].data
                ELSE entry'[p.entry] = entry[p.entry]
PROOF
<1> DEFINE cached == [idx \in Chunks |-> IF cache[idx] \in broken THEN NoId ELSE cache[idx]]
           Q(e) == [entry[e] EXCEPT !.at = "failed", !.jobs = <<>>]
           ent == [e \in Entry |-> IF e \in broken THEN Q(e) ELSE entry[e]]
<1>1. cache' = cached /\ entry' = Swept(ent, cached, awaited) BY DEF Rejected
<1>2. /\ EntriesOK(entry) /\ CacheOK(cache, entry) /\ entry \in [Entry -> EntryKind]
      /\ cache \in [Chunks -> Entry \cup {NoId}] /\ awaited \in [Interval -> SUBSET Promise]
  BY StreamParts
<1>3. ASSUME NEW e \in Entry
      PROVE  /\ Q(e) \in EntryKind /\ Q(e).at = "failed"
             /\ Q(e).done = entry[e].done /\ Q(e).data = entry[e].data
  <2>1. entry[e] \in EntryKind BY <1>2
  <2>2. <<>> \in Seq(JobKind) OBVIOUS
  <2> HIDE DEF JobKind, Marks
  <2> QED BY <2>1, <2>2 DEF EntryKind
<1> HIDE DEF Q
<1>4. \A e \in Entry : ent[e] = IF e \in broken THEN Q(e) ELSE entry[e] OBVIOUS
<1>5. ent \in [Entry -> EntryKind]
  <2> HIDE DEF EntryKind
  <2> QED BY <1>2, <1>3
<1>6. cached \in [Chunks -> Entry \cup {NoId}] BY <1>2
<1>7. \A idx \in Chunks : cached[idx] # NoId =>
        cached[idx] = cache[idx] /\ cache[idx] \notin broken /\ cache[idx] \in Entry
  BY <1>2
<1> HIDE DEF ent, cached
<1>8. EntriesOK(ent)
  <2> SUFFICES ASSUME NEW e \in Entry
               PROVE  /\ ent[e].at = "free" => ent[e] = NoEntry
                      /\ ent[e].at \in {"discovering", "streaming"} => ent[e].jobs # <<>>
                      /\ ent[e].at \notin {"free", "failed"} =>
                           ent[e].done + Len(ent[e].jobs) >= 1
    BY <1>5 DEF EntriesOK
  <2>1. CASE e \in broken BY <1>3, <1>4, <2>1
  <2>2. CASE e \notin broken BY <1>2, <1>4, <2>2 DEF EntriesOK
  <2> QED BY <2>1, <2>2
<1>9. CacheOK(cached, ent)
  BY <1>2, <1>4, <1>6, <1>7 DEF CacheOK
<1>10. LET x == entry'
       IN  /\ EntriesOK(x) /\ CacheOK(cached, x)
           /\ \A e \in Entry : x[e] = ent[e] \/ x[e] = NoEntry
           /\ \A i \in Interval : \A p \in awaited[i] : x[p.entry] = ent[p.entry]
           /\ \A idx \in Chunks : cached[idx] # NoId => x[cached[idx]] = ent[cached[idx]]
           /\ \A e \in Entry : ent[e].at \in {"discovering", "streaming"} => x[e] = ent[e]
  BY <1>1, <1>2, <1>8, <1>9, SweptOK
<1>11. \A idx \in Chunks : cache'[idx] # NoId =>
         /\ cache'[idx] = cache[idx] /\ cache[idx] \notin broken
         /\ entry'[cache[idx]] = entry[cache[idx]]
  BY <1>1, <1>4, <1>7, <1>10
<1>12. \A i \in Interval : \A p \in awaited[i] :
         IF p.entry \in broken
           THEN /\ entry'[p.entry].at = "failed"
                /\ entry'[p.entry].done = entry[p.entry].done
                /\ entry'[p.entry].data = entry[p.entry].data
           ELSE entry'[p.entry] = entry[p.entry]
  <2> SUFFICES ASSUME NEW i \in Interval, NEW p \in awaited[i]
               PROVE  IF p.entry \in broken
                        THEN /\ entry'[p.entry].at = "failed"
                             /\ entry'[p.entry].done = entry[p.entry].done
                             /\ entry'[p.entry].data = entry[p.entry].data
                        ELSE entry'[p.entry] = entry[p.entry]
    OBVIOUS
  <2>1. p.entry \in Entry BY <1>2 DEF Promise
  <2>2. entry'[p.entry] = ent[p.entry] BY <1>10
  <2> QED BY <1>3, <1>4, <2>1, <2>2
<1> QED BY <1>1, <1>3, <1>4, <1>10, <1>11, <1>12

(* A stream ends.                                                          *)
LEMMA StreamEndsOK ==
  ASSUME TInv, NEW e \in Entry, StreamEnds(e)
  PROVE  LET r == entry[e]
             q == [r EXCEPT !.at = "settled", !.jobs = Tail(@), !.done = @ + 1,
                            !.filter = {}, !.wait = -1,
                            !.data = @ \cup ((Head(r.jobs).from..Head(r.jobs).to) \X r.filter)]
             streamed == [entry EXCEPT ![e] = q]
         IN  /\ r.at = "streaming" /\ q \in EntryKind /\ q.at = "settled"
             /\ q.jobs = Tail(r.jobs) /\ q.done = r.done + 1 /\ q.idx = r.idx
             /\ q.from = r.from /\ q.to = r.to
             /\ q.data = r.data \cup ((Head(r.jobs).from..Head(r.jobs).to) \X r.filter)
             /\ EntriesOK(entry') /\ CacheOK(cache, entry')
             /\ \A f \in Entry : entry'[f] = streamed[f] \/ entry'[f] = NoEntry
             /\ \A i \in Interval : \A p \in awaited[i] : entry'[p.entry] = streamed[p.entry]
             /\ \A idx \in Chunks : cache[idx] # NoId => entry'[cache[idx]] = streamed[cache[idx]]
             /\ \A f \in Entry : f # e => streamed[f] = entry[f]
             /\ streamed[e] = q
PROOF
<1> DEFINE r == entry[e]
           job == Head(r.jobs)
           got == r.data \cup ((job.from..job.to) \X r.filter)
           q == [r EXCEPT !.at = "settled", !.jobs = Tail(@), !.done = @ + 1,
                          !.filter = {}, !.wait = -1,
                          !.data = @ \cup ((job.from..job.to) \X r.filter)]
           streamed == [entry EXCEPT ![e] = q]
<1>1. /\ EntriesOK(entry) /\ CacheOK(cache, entry) /\ entry \in [Entry -> EntryKind]
      /\ r \in EntryKind /\ awaited \in [Interval -> SUBSET Promise]
  BY StreamParts
<1>2. r.at = "streaming" BY DEF StreamEnds
<1>3. /\ r.jobs \in Seq(JobKind) /\ Len(r.jobs) \in Nat /\ r.done \in Nat /\ r.jobs # <<>>
  BY <1>1, <1>2, EntryParts DEF EntriesOK
<1>4. job \in JobKind /\ Tail(r.jobs) \in Seq(JobKind) /\ Len(Tail(r.jobs)) \in Nat
  <2> HIDE DEF JobKind
  <2> QED BY <1>3
<1>5. job.from..job.to \subseteq Blocks /\ r.filter \subseteq Child /\ r.data \subseteq Blocks \X Child
  <2>1. job.from \in Nat /\ job.to \in Int /\ job.to <= LastBlock
    <3>1. job.from \in Nat /\ job.to \in Marks BY <1>4 DEF JobKind
    <3> QED BY <3>1, GridAssumption DEF Marks
  <2>2. \A n \in Nat, m \in Int : m <= LastBlock => n..m \subseteq 0..LastBlock
    BY GridAssumption
  <2>3. r.filter \in SUBSET Child /\ r.data \in SUBSET (Blocks \X Child)
    <3> HIDE DEF r, JobKind, Marks
    <3> QED BY <1>1 DEF EntryKind
  <2> HIDE DEF r, job
  <2> QED BY <2>1, <2>2, <2>3 DEF Blocks
<1>6. got \in SUBSET (Blocks \X Child)
  <2> HIDE DEF r, job
  <2> QED BY <1>5
<1>7. /\ q \in EntryKind /\ q.at = "settled" /\ q.jobs = Tail(r.jobs) /\ q.done = r.done + 1
      /\ q.idx = r.idx /\ q.from = r.from /\ q.to = r.to /\ q.data = got
  <2> DEFINE q1 == [r EXCEPT !.at = "settled"]
             q2 == [q1 EXCEPT !.jobs = Tail(r.jobs)]
             q3 == [q2 EXCEPT !.done = r.done + 1]
             q4 == [q3 EXCEPT !.filter = {}]
             q5 == [q4 EXCEPT !.wait = -1]
  <2>1. q = [q5 EXCEPT !.data = got]
    <3> HIDE DEF r, job
    <3> QED BY <1>1 DEF EntryKind
  <2>2. -1 \in Marks /\ {} \in SUBSET Child BY GridAssumption DEF Marks
  <2> HIDE DEF q, r, got, Marks, JobKind, job
  <2>3. /\ q2 \in EntryKind /\ q2.at = "settled" /\ q2.jobs = Tail(r.jobs) /\ q2.done = r.done
        /\ q2.idx = r.idx /\ q2.from = r.from /\ q2.to = r.to
    BY <1>1, <1>4 DEF EntryKind
  <2> HIDE DEF q2
  <2>4. /\ q4 \in EntryKind /\ q4.at = "settled" /\ q4.jobs = Tail(r.jobs)
        /\ q4.done = r.done + 1 /\ q4.idx = r.idx /\ q4.from = r.from /\ q4.to = r.to
    <3>1. r.done + 1 \in Nat BY <1>3
    <3> QED BY <2>2, <2>3, <3>1 DEF EntryKind
  <2> HIDE DEF q4
  <2> QED BY <1>6, <2>1, <2>2, <2>4 DEF EntryKind
<1>8. /\ entry' = Swept(streamed, cache, awaited)
  <2>1. streamed = [entry EXCEPT ![e].at = "settled", ![e].jobs = Tail(@),
                      ![e].done = @ + 1, ![e].filter = {}, ![e].wait = -1,
                      ![e].data = @ \cup ((job.from..job.to) \X entry[e].filter)]
    BY <1>1
  <2> QED BY <2>1 DEF StreamEnds
<1> HIDE DEF q, got
<1>9. /\ EntriesOK(streamed) /\ CacheOK(cache, streamed) /\ streamed[e] = q
      /\ \A f \in Entry : f # e => streamed[f] = entry[f]
  <2>1. q.done + Len(q.jobs) >= 1
    <3> HIDE DEF r
    <3> QED BY <1>3, <1>4, <1>7
  <2> QED BY <1>1, <1>7, <2>1, EntryReplaced
<1> HIDE DEF streamed
<1>10. LET x == entry'
       IN  /\ EntriesOK(x) /\ CacheOK(cache, x)
           /\ \A f \in Entry : x[f] = streamed[f] \/ x[f] = NoEntry
           /\ \A i \in Interval : \A p \in awaited[i] : x[p.entry] = streamed[p.entry]
           /\ \A idx \in Chunks : cache[idx] # NoId => x[cache[idx]] = streamed[cache[idx]]
  BY <1>1, <1>8, <1>9, SweptOK
<1> QED BY <1>2, <1>7, <1>9, <1>10 DEF streamed, q, got

-----------------------------------------------------------------------------
(* What an interval asks for, and what it leaves behind.                     *)

LEMMA AskingOK ==
  ASSUME TInv, NEW d, DiscOK(d)
  PROVE  LET s == [Asking EXCEPT !.disc = d]
         IN  /\ AskOK(s) /\ s.disc = d /\ s.entry = entry /\ s.cache = cache
             /\ s.promises = {} /\ ~s.refused /\ ~s.full
             /\ d = disc => s = Asking
PROOF
<1> DEFINE s == [Asking EXCEPT !.disc = d]
<1>1. /\ EntriesOK(entry) /\ CacheOK(cache, entry) /\ d \in DiscKind /\ disc \in DiscKind
      /\ entry \in [Entry -> EntryKind] /\ cache \in [Chunks -> Entry \cup {NoId}]
      /\ {} \in SUBSET Promise
  BY StreamParts, DiscParts
<1>2. /\ Asking \in AskKind /\ Asking.disc = disc /\ Asking.entry = entry
      /\ Asking.cache = cache /\ Asking.promises = {} /\ ~Asking.refused /\ ~Asking.full
  <2> HIDE DEF EntryKind, DiscKind, Promise
  <2> QED BY <1>1 DEF AskKind, Asking
<1>3. /\ s \in AskKind /\ s.disc = d /\ s.entry = Asking.entry /\ s.cache = Asking.cache
      /\ s.promises = Asking.promises /\ s.refused = Asking.refused /\ s.full = Asking.full
      /\ d = disc => s = Asking
  <2> HIDE DEF EntryKind, DiscKind, Promise
  <2> QED BY <1>1, <1>2 DEF AskKind
<1> HIDE DEF s
<1>4. AskOK(s) BY <1>1, <1>2, <1>3 DEF AskOK
<1> QED BY <1>2, <1>3, <1>4 DEF s

AskedFor(i, s, t) ==
  /\ AskOK(s) /\ s.entry = entry /\ s.cache = cache /\ s.promises = {} /\ ~s.refused
  /\ \/ s.disc = disc
     \/ /\ disc.confirmed = -1 /\ s.disc.scans = <<>> /\ s.disc.confirmed = Lo(i) - 1
        /\ Lo(i) - 1 >= Floor
  /\ Follows(s, t) /\ (Reachable(s) => Promising(t, Hi(i)))
  /\ BackfillStart <= Lo(i) /\ EntriesCover(s.entry) => \A n \in BlocksOf(i) : Vouching(t, n)
  /\ ~t.full
  /\ awaited' = [awaited EXCEPT ![i] = IF t.refused THEN {} ELSE t.promises]
  /\ disc' = t.disc /\ cache' = t.cache /\ entry' = Swept(t.entry, t.cache, awaited')
  /\ tx' = Moved(i, IF t.refused THEN "thrown" ELSE "fetching")

LEMMA AskChunksMeans ==
  ASSUME TInv, NEW i \in Interval, AskChunks(i)
  PROVE  \E s, t : AskedFor(i, s, t)
PROOF
<1> DEFINE d == IF Warmup = 0 THEN disc ELSE Seeded(disc, Lo(i) - 1)
           s == [Asking EXCEPT !.disc = d]
           t == AskRange(s, Lo(i), Hi(i))
<1>1. /\ RequestsOK /\ DiscOK(disc) /\ portalHead \in -1..final
      /\ Lo(i) \in Nat /\ Hi(i) \in Blocks /\ Lo(i) <= Hi(i) /\ Lo(i) - 1 \in Marks
  BY StreamParts
<1>2. /\ DiscOK(d)
      /\ \/ d = disc
         \/ /\ disc.confirmed = -1 /\ d.scans = <<>> /\ d.confirmed = Lo(i) - 1
            /\ Lo(i) - 1 >= Floor
  BY <1>1, SeededOK
<1> HIDE DEF d
<1>3. /\ AskOK(s) /\ s.disc = d /\ s.entry = entry /\ s.cache = cache
      /\ s.promises = {} /\ ~s.refused /\ ~s.full
  BY <1>2, AskingOK
<1>4. /\ portalHead >= Hi(i) /\ ~t.full
      /\ awaited' = [awaited EXCEPT ![i] = IF t.refused THEN {} ELSE t.promises]
      /\ disc' = t.disc /\ cache' = t.cache
      /\ entry' = Swept(t.entry, t.cache, awaited')
      /\ tx' = Moved(i, IF t.refused THEN "thrown" ELSE "fetching")
  BY DEF AskChunks, d
<1> HIDE DEF s
<1>5. /\ Follows(s, t) /\ (Reachable(s) => Promising(t, Hi(i)))
      /\ BackfillStart <= Lo(i) /\ EntriesCover(s.entry) =>
           \A n \in BlocksOf(i) : Vouching(t, n)
  BY <1>1, <1>3, <1>4, AskRangeOK DEF BlocksOf
<1> HIDE DEF t
<1>6. AskedFor(i, s, t) BY <1>2, <1>3, <1>4, <1>5 DEF AskedFor
<1> QED BY <1>6

AssembledFrom(i, t) ==
  /\ AskOK(Asking) /\ Asking.entry = entry /\ Asking.cache = cache /\ Asking.disc = disc
  /\ Follows(Asking, t)
  /\ awaited' = [awaited EXCEPT ![i] = {}]
  /\ disc' = t.disc /\ cache' = EvictedBehind(t.cache, Lo(i))
  /\ entry' = Swept(t.entry, cache', awaited')

LEMMA AssembleMeans ==
  ASSUME TInv, NEW i \in Interval, Assemble(i)
  PROVE  \E t : AssembledFrom(i, t)
PROOF
<1>1. PICK saturated \in BOOLEAN :
        LET t == ReadAhead(Asking, ReadAheadPlan(IdxOf(Hi(i)), DataEnd, Readahead, saturated))
        IN  /\ awaited' = [awaited EXCEPT ![i] = {}]
            /\ disc' = t.disc /\ cache' = EvictedBehind(t.cache, Lo(i))
            /\ entry' = Swept(t.entry, cache', awaited')
  BY DEF Assemble
<1> DEFINE idxs == ReadAheadPlan(IdxOf(Hi(i)), DataEnd, Readahead, saturated)
           t == ReadAhead(Asking, idxs)
<1>2. DiscOK(disc) /\ RequestsOK BY StreamParts
<1>4. AskOK(Asking) /\ Asking.disc = disc /\ Asking.entry = entry /\ Asking.cache = cache
  <2> HIDE DEF t, idxs
  <2>1. LET s == [Asking EXCEPT !.disc = disc]
        IN  /\ AskOK(s) /\ s.disc = disc /\ s.entry = entry /\ s.cache = cache
            /\ s = Asking
    BY <1>2, AskingOK
  <2> QED BY <2>1
<1> HIDE DEF idxs
<1>5. Follows(Asking, t) BY <1>2, <1>4, ReadAheadOK
<1>6. /\ awaited' = [awaited EXCEPT ![i] = {}]
      /\ disc' = t.disc /\ cache' = EvictedBehind(t.cache, Lo(i))
      /\ entry' = Swept(t.entry, cache', awaited')
  BY <1>1 DEF idxs
<1> HIDE DEF t
<1>7. AssembledFrom(i, t) BY <1>4, <1>5, <1>6 DEF AssembledFrom
<1> QED BY <1>7

LEMMA EvictedOK ==
  ASSUME NEW ent, NEW cach, CacheOK(cach, ent), NEW n
  PROVE  LET x == EvictedBehind(cach, n)
         IN  CacheOK(x, ent) /\ \A idx \in Chunks : x[idx] # NoId => x[idx] = cach[idx]
PROOF
<1> DEFINE x == EvictedBehind(cach, n)
           gone == EvictionPlan({idx \in Chunks : cach[idx] # NoId}, n)
<1>1. cach \in [Chunks -> Entry \cup {NoId}] BY DEF CacheOK
<1>2. x = [idx \in Chunks |-> IF idx \in gone THEN NoId ELSE cach[idx]] BY DEF EvictedBehind
<1> HIDE DEF gone, x
<1>3. \A idx \in Chunks : x[idx] # NoId => x[idx] = cach[idx] BY <1>2
<1>4. x \in [Chunks -> Entry \cup {NoId}] BY <1>1, <1>2
<1> QED BY <1>3, <1>4 DEF CacheOK, x

(* The streams' part of the state, after each of these.                       *)
LEMMA AwaitedKind ==
  ASSUME TInv, NEW i \in Interval, NEW P \in SUBSET Promise,
         awaited' = [awaited EXCEPT ![i] = P]
  PROVE  /\ awaited' \in [Interval -> SUBSET Promise] /\ awaited'[i] = P
         /\ \A j \in Interval : j # i => awaited'[j] = awaited[j]
PROOF
<1>1. awaited \in [Interval -> SUBSET Promise] BY StreamParts
<1> HIDE DEF Promise
<1> QED BY <1>1

LEMMA AskedForKinds ==
  ASSUME TInv, NEW i \in Interval, NEW s, NEW t, AskedFor(i, s, t),
         UNCHANGED <<fetchQuantum, portalHead, final>>
  PROVE  /\ StreamKinds'
         /\ awaited'[i] = IF t.refused THEN {} ELSE t.promises
         /\ \A j \in Interval : j # i => awaited'[j] = awaited[j]
PROOF
<1>1. AskOK(t) BY DEF AskedFor, Follows
<1>2. /\ DiscOK(t.disc) /\ EntriesOK(t.entry) /\ CacheOK(t.cache, t.entry)
      /\ t.promises \in SUBSET Promise
  BY <1>1 DEF AskOK, AskKind
<1> DEFINE P == IF t.refused THEN {} ELSE t.promises
<1>3. P \in SUBSET Promise BY <1>2
<1>4. awaited' = [awaited EXCEPT ![i] = P] BY DEF AskedFor
<1> HIDE DEF P
<1>5. /\ awaited' \in [Interval -> SUBSET Promise] /\ awaited'[i] = P
      /\ \A j \in Interval : j # i => awaited'[j] = awaited[j]
  BY <1>3, <1>4, AwaitedKind
<1>6. EntriesOK(entry') /\ CacheOK(t.cache, entry')
  BY <1>2, <1>5, SweptOK DEF AskedFor
<1>7. StreamKinds' BY <1>2, <1>5, <1>6 DEF AskedFor, TInv, StreamKinds
<1> QED BY <1>5, <1>7 DEF P

LEMMA AssembledKinds ==
  ASSUME TInv, NEW i \in Interval, NEW t, AssembledFrom(i, t),
         UNCHANGED <<fetchQuantum, portalHead, final>>
  PROVE  /\ StreamKinds' /\ awaited'[i] = {}
         /\ \A j \in Interval : j # i => awaited'[j] = awaited[j]
PROOF
<1>1. AskOK(t) BY DEF AssembledFrom, Follows
<1>2. DiscOK(t.disc) /\ EntriesOK(t.entry) /\ CacheOK(t.cache, t.entry)
  BY <1>1 DEF AskOK
<1>3. /\ awaited' \in [Interval -> SUBSET Promise] /\ awaited'[i] = {}
      /\ \A j \in Interval : j # i => awaited'[j] = awaited[j]
  BY AwaitedKind DEF AssembledFrom
<1>4. CacheOK(cache', t.entry) BY <1>2, EvictedOK DEF AssembledFrom
<1>5. EntriesOK(entry') /\ CacheOK(cache', entry')
  BY <1>2, <1>3, <1>4, SweptOK DEF AssembledFrom
<1>6. StreamKinds' BY <1>2, <1>3, <1>5 DEF AssembledFrom, TInv, StreamKinds
<1> QED BY <1>3, <1>6

LEMMA DroppedKinds ==
  ASSUME TInv, NEW i \in Interval, awaited' = [awaited EXCEPT ![i] = {}],
         entry' = Swept(entry, cache, awaited'),
         UNCHANGED <<disc, cache, fetchQuantum, portalHead, final>>
  PROVE  /\ StreamKinds' /\ awaited'[i] = {}
         /\ \A j \in Interval : j # i => awaited'[j] = awaited[j]
PROOF
<1>1. EntriesOK(entry) /\ CacheOK(cache, entry) BY StreamParts
<1>2. /\ awaited' \in [Interval -> SUBSET Promise] /\ awaited'[i] = {}
      /\ \A j \in Interval : j # i => awaited'[j] = awaited[j]
  BY AwaitedKind
<1>3. EntriesOK(entry') /\ CacheOK(cache, entry') BY <1>1, <1>2, SweptOK
<1> QED BY <1>2, <1>3 DEF TInv, StreamKinds

-----------------------------------------------------------------------------
(* Where the callbacks stand, and what they hold.                            *)

Stores == [rows : [Child \X Blocks -> Nat], logs : SUBSET (Blocks \X Child),
           cached : SUBSET Interval]

LEMMA ShellParts ==
  ASSUME TInv
  PROVE  /\ known \in Births /\ queue \in Births /\ pendingFlushes \in [Interval -> Births]
         /\ stash \subseteq Interval /\ delegated \subseteq Interval /\ store \in Stores
         /\ tx \in [Interval -> Transaction] /\ up \in BOOLEAN
         /\ \A i \in Interval :
              /\ tx[i] \in Transaction /\ tx[i].at \in Places
              /\ tx[i].at \notin {"fetching", "flushing"} => awaited[i] = {}
              /\ tx[i].at # "ranged" => tx[i].rows = {} /\ tx[i].logs = {}
              /\ tx[i].at # "idle" => up
PROOF
<1>1. ShellKinds /\ Down BY DEF TInv
<1>2. \A i \in Interval : tx[i] \in Transaction /\ tx[i].at \in Places
  BY <1>1 DEF ShellKinds, Transaction
<1> QED BY <1>1, <1>2 DEF ShellKinds, Down, Stores

LEMMA PlaceOK ==
  \A at \in Places : LET t == [NoTx EXCEPT !.at = at]
                     IN  t \in Transaction /\ t.at = at /\ t.rows = {} /\ t.logs = {}
PROOF BY DEF NoTx, Transaction

LEMMA ShellMoves ==
  ASSUME TInv, NEW i \in Interval, tx[i].at # "idle",
         NEW at \in Places, at # "ranged", tx' = Moved(i, at),
         known' \in Births, queue' \in Births, pendingFlushes' \in [Interval -> Births],
         stash' \subseteq Interval, delegated' \subseteq Interval, store' \in Stores,
         UNCHANGED up,
         \A j \in Interval : j # i => awaited'[j] = awaited[j],
         at \notin {"fetching", "flushing"} => awaited'[i] = {}
  PROVE  ShellKinds' /\ Down'
PROOF
<1>1. /\ tx \in [Interval -> Transaction] /\ up
      /\ \A j \in Interval :
           /\ tx[j].at \notin {"fetching", "flushing"} => awaited[j] = {}
           /\ tx[j].at # "ranged" => tx[j].rows = {} /\ tx[j].logs = {}
  BY ShellParts
<1> DEFINE t == [NoTx EXCEPT !.at = at]
<1>2. t \in Transaction /\ t.at = at /\ t.rows = {} /\ t.logs = {} BY PlaceOK
<1>3. tx' = [tx EXCEPT ![i] = t] BY DEF Moved
<1> HIDE DEF t
<1>4. /\ tx' \in [Interval -> Transaction] /\ tx'[i] = t
      /\ \A j \in Interval : j # i => tx'[j] = tx[j]
  <2> HIDE DEF Transaction
  <2> QED BY <1>1, <1>2, <1>3
<1>5. \A j \in Interval :
        /\ tx'[j].at # "ranged" => tx'[j].rows = {} /\ tx'[j].logs = {}
        /\ tx'[j].at \notin {"fetching", "flushing"} => awaited'[j] = {}
  BY <1>1, <1>2, <1>4
<1> QED BY <1>1, <1>4, <1>5 DEF ShellKinds, Down, Stores

(* i hands over, and the next interval is dispatched.                        *)
HandedOver(i, rows, logs, t) ==
  /\ t \in [Interval -> Transaction]
  /\ t[i].at = "ranged" /\ t[i].rows = rows /\ t[i].logs = logs
  /\ \A j \in Interval : j # i =>
       \/ t[j] = tx[j]
       \/ /\ tx[j].at = "idle" /\ t[j].at = "ready" /\ j > i
          /\ t[j].rows = {} /\ t[j].logs = {}
          /\ \A k \in Interval : k > i /\ tx[k].at = "idle" => j <= k

LEMMA RangedIs ==
  ASSUME tx \in [Interval -> Transaction], NEW i \in Interval,
         NEW rows \in SUBSET (Child \X Blocks), NEW logs \in SUBSET (Blocks \X Child)
  PROVE  HandedOver(i, rows, logs, Ranged(i, rows, logs))
PROOF
<1> DEFINE idle == {j \in Interval : j > i /\ tx[j].at = "idle"}
           here == [at |-> "ranged", rows |-> rows, logs |-> logs]
           next == [NoTx EXCEPT !.at = "ready"]
           t == Ranged(i, rows, logs)
<1>1. t = [j \in Interval |-> IF j = i THEN here
                              ELSE IF idle # {} /\ j = FirstOf(idle) THEN next ELSE tx[j]]
  BY DEF Ranged
<1>2. here \in Transaction /\ here.at = "ranged" /\ here.rows = rows /\ here.logs = logs
  BY DEF Transaction, Places
<1>3. next \in Transaction /\ next.at = "ready" /\ next.rows = {} /\ next.logs = {}
  BY PlaceOK DEF Places
<1>4. idle # {} => FirstOf(idle) \in idle /\ \A j \in idle : FirstOf(idle) <= j
  <2> SUFFICES ASSUME idle # {} PROVE FirstOf(idle) \in idle /\ \A j \in idle : FirstOf(idle) <= j
    OBVIOUS
  <2>1. idle \subseteq Nat BY CacheAssumption
  <2>2. \E n \in idle : \A m \in idle : n <= m BY <2>1, LeastElement
  <2> HIDE DEF idle
  <2> QED BY <2>2 DEF FirstOf
<1>5. \A j \in Interval : j \in idle <=> j > i /\ tx[j].at = "idle" OBVIOUS
<1> HIDE DEF idle, here, next, t
<1>6. t \in [Interval -> Transaction]
  <2> HIDE DEF Transaction
  <2> QED BY <1>1, <1>2, <1>3
<1>7. t[i] = here BY <1>1
<1>8. ASSUME NEW j \in Interval, j # i, t[j] # tx[j]
      PROVE  /\ tx[j].at = "idle" /\ t[j].at = "ready" /\ j > i
             /\ t[j].rows = {} /\ t[j].logs = {}
             /\ \A k \in Interval : k > i /\ tx[k].at = "idle" => j <= k
  <2>1. idle # {} /\ j = FirstOf(idle) /\ t[j] = next BY <1>1, <1>8
  <2> QED BY <2>1, <1>3, <1>4, <1>5
<1> QED BY <1>2, <1>6, <1>7, <1>8 DEF t, HandedOver

LEMMA ShellRanged ==
  ASSUME TInv, NEW i \in Interval, tx[i].at # "idle",
         NEW rows \in SUBSET (Child \X Blocks), NEW logs \in SUBSET (Blocks \X Child),
         tx' = Ranged(i, rows, logs),
         known' \in Births, stash' \subseteq Interval,
         UNCHANGED <<queue, pendingFlushes, delegated, store, up>>,
         \A j \in Interval : j # i => awaited'[j] = awaited[j], awaited'[i] = {}
  PROVE  ShellKinds' /\ Down'
PROOF
<1>1. /\ tx \in [Interval -> Transaction] /\ up /\ queue \in Births
      /\ pendingFlushes \in [Interval -> Births] /\ delegated \subseteq Interval /\ store \in Stores
      /\ \A j \in Interval :
           /\ tx[j].at \notin {"fetching", "flushing"} => awaited[j] = {}
           /\ tx[j].at # "ranged" => tx[j].rows = {} /\ tx[j].logs = {}
  BY ShellParts
<1>2. /\ tx' \in [Interval -> Transaction] /\ tx'[i].at = "ranged"
      /\ \A j \in Interval : j # i =>
           \/ tx'[j] = tx[j]
           \/ /\ tx[j].at = "idle" /\ tx'[j].at = "ready" /\ tx'[j].rows = {} /\ tx'[j].logs = {}
  <2>1. HandedOver(i, rows, logs, tx') BY <1>1, RangedIs
  <2> QED BY <2>1 DEF HandedOver
<1>3. \A j \in Interval :
        /\ tx'[j].at # "ranged" => tx'[j].rows = {} /\ tx'[j].logs = {}
        /\ tx'[j].at \notin {"fetching", "flushing"} => awaited'[j] = {}
  BY <1>1, <1>2
<1> QED BY <1>1, <1>2, <1>3 DEF ShellKinds, Down, Stores

LEMMA ShellStays ==
  ASSUME TInv, ShellIdle, up, known' \in Births, queue' \in Births
  PROVE  ShellKinds' /\ Down'
PROOF
BY DEF TInv, ShellKinds, ShellIdle, shellVars, Down

LEMMA StreamsStay ==
  ASSUME TInv, UNCHANGED <<disc, cache, entry, fetchQuantum, awaited, portalHead, final>>
  PROVE  StreamKinds'
PROOF
BY DEF TInv, StreamKinds

-----------------------------------------------------------------------------
(* What the memory of the writer is made of.                                 *)

LEMMA BornInOK ==
  ASSUME NEW S, S \subseteq Blocks
  PROVE  BornIn(S) \in Births
PROOF
<1> DEFINE at(c) == {m \in S : <<c, m>> \in Creations}
<1>1. \A c \in Child : at(c) \subseteq Blocks OBVIOUS
<1>2. BornIn(S) = [c \in Child |-> Earliest(at(c))] BY DEF BornIn
<1> HIDE DEF at
<1> QED BY <1>1, <1>2, EarliestOK DEF Births

LEMMA LowerOK ==
  \A f, g \in Births : Lower(f, g) \in Births
PROOF
BY GridAssumption DEF Births, Lower, Smaller, Unborn

LEMMA TakenOK ==
  ASSUME TInv, NEW i \in Interval, Take(i)
  PROVE  queue' \in Births /\ pendingFlushes' \in [Interval -> Births]
PROOF
<1>1. queue \in Births /\ pendingFlushes \in [Interval -> Births] BY ShellParts
<1>2. InRange(queue, Lo(i), Hi(i)) \in Births /\ OutOfRange(queue, Lo(i), Hi(i)) \in Births
  BY <1>1, GridAssumption DEF Births, InRange, OutOfRange, Unborn
<1> HIDE DEF Births
<1> QED BY <1>1, <1>2 DEF Take

LEMMA PutBackOK ==
  ASSUME TInv, NEW i \in Interval, queue' = Restored(i),
         pendingFlushes' = [pendingFlushes EXCEPT ![i] = Nobody]
  PROVE  queue' \in Births /\ pendingFlushes' \in [Interval -> Births]
PROOF
<1>1. queue \in Births /\ pendingFlushes \in [Interval -> Births] BY ShellParts
<1>2. pendingFlushes[i] \in Births /\ Nobody \in Births BY <1>1, NobodyOK
<1>3. queue' \in Births BY <1>1, <1>2, LowerOK DEF Restored
<1> HIDE DEF Births
<1> QED BY <1>1, <1>2, <1>3

LEMMA RecordedOK ==
  ASSUME TInv, NEW n \in Blocks, Records(n)
  PROVE  known' \in Births /\ queue' \in Births
PROOF
<1>1. known \in Births /\ queue \in Births /\ BornIn({n}) \in Births
  BY ShellParts, BornOK
<1>2. known' \in Births BY <1>1, LowerOK DEF Records
<1>3. queue' = [c \in Child |-> IF BornIn({n})[c] < known[c] THEN BornIn({n})[c] ELSE queue[c]]
  BY DEF Records
<1>4. queue' \in Births
  <2> HIDE DEF Records
  <2> QED BY <1>1, <1>3 DEF Births
<1> QED BY <1>2, <1>4

LEMMA DedupedOK ==
  \A flush \in Births : Deduped(flush) \subseteq Child \X Blocks
PROOF
<1> SUFFICES ASSUME NEW flush \in Births, NEW c \in Child, flush[c] < StoredBirths[c]
             PROVE  flush[c] \in Blocks
  BY DEF Deduped
<1>1. StoredBirths[c] \in 0..Unborn /\ flush[c] \in 0..Unborn BY BirthsOK DEF Births
<1> QED BY <1>1, GridAssumption DEF Unborn, Blocks

LEMMA AssembledOK ==
  ASSUME TInv, NEW i \in Interval
  PROVE  Assembled(i, Lo(i), Hi(i)) \subseteq Blocks \X Child
PROOF
<1>1. /\ entry \in [Entry -> EntryKind] /\ awaited[i] \subseteq Promise
  BY StreamParts
<1>2. \A p \in awaited[i] : entry[p.entry].data \subseteq Blocks \X Child
  <2> SUFFICES ASSUME NEW p \in awaited[i] PROVE entry[p.entry].data \subseteq Blocks \X Child
    OBVIOUS
  <2>1. p.entry \in Entry BY <1>1 DEF Promise
  <2>2. entry[p.entry] \in EntryKind BY <1>1, <2>1
  <2> QED BY <2>2 DEF EntryKind
<1> QED BY <1>2 DEF Assembled

LEMMA DurableOK ==
  ASSUME TInv, NEW i \in Interval
  PROVE  Durable(i) \in Stores
PROOF
<1>1. store \in Stores /\ tx[i] \in Transaction BY ShellParts
<1> DEFINE rows == [row \in Child \X Blocks |->
                      store.rows[row] + IF row \in tx[i].rows THEN 1 ELSE 0]
<1>2. store.rows \in [Child \X Blocks -> Nat] /\ store.logs \in SUBSET (Blocks \X Child)
      /\ store.cached \in SUBSET Interval
  BY <1>1 DEF Stores
<1>3. rows \in [Child \X Blocks -> Nat] BY <1>2
<1>4. tx[i].logs \subseteq Blocks \X Child BY <1>1 DEF Transaction
<1> HIDE DEF rows
<1>5. Durable(i) = [rows |-> rows, logs |-> store.logs \cup tx[i].logs,
                    cached |-> store.cached \cup {i}]
  BY DEF Durable, rows
<1> QED BY <1>2, <1>3, <1>4, <1>5 DEF Stores

-----------------------------------------------------------------------------
(* The streams and the scans, step by step.                                   *)

LEMMA StreamsOK ==
  ASSUME TInv, NEW e \in Entry, Streams(e), Ready(Head(entry[e].jobs).to)
  PROVE  /\ entry[e].at = "discovering" /\ disc.confirmed >= entry[e].wait /\ cache' = cache
         /\ EntriesOK(entry') /\ CacheOK(cache, entry')
         /\ entry'[e] = [entry[e] EXCEPT !.at = "streaming", !.filter = Live]
         /\ entry'[e].at = "streaming" /\ entry'[e].filter = Live
         /\ entry'[e].jobs = entry[e].jobs /\ entry'[e].done = entry[e].done
         /\ entry'[e].idx = entry[e].idx /\ entry'[e].to = entry[e].to
         /\ entry'[e].from = entry[e].from /\ entry'[e].data = entry[e].data
         /\ \A f \in Entry : f # e => entry'[f] = entry[f]
PROOF
<1> DEFINE r == entry[e]
           q == [r EXCEPT !.at = "streaming", !.filter = Live]
<1>1. /\ r.at = "discovering" /\ disc.confirmed >= r.wait /\ cache' = cache
      /\ entry' = [entry EXCEPT ![e].at = "streaming", ![e].filter = Live]
  BY DEF Streams
<1>2. /\ EntriesOK(entry) /\ CacheOK(cache, entry)
      /\ entry \in [Entry -> EntryKind] /\ r \in EntryKind
      /\ r.at \in {"discovering", "streaming"} => r.jobs # <<>>
      /\ r.at \notin {"free", "failed"} => r.done + Len(r.jobs) >= 1
  BY StreamParts DEF EntriesOK
<1>3. entry' = [entry EXCEPT ![e] = q] BY <1>1, <1>2
<1>4. Live \in SUBSET Child BY DEF Live
<1>5. /\ q \in EntryKind /\ q.at = "streaming" /\ q.filter = Live
      /\ q.jobs = r.jobs /\ q.done = r.done /\ q.idx = r.idx /\ q.to = r.to
      /\ q.from = r.from /\ q.data = r.data
  <2> HIDE DEF r, Marks, JobKind
  <2> QED BY <1>2, <1>4 DEF EntryKind
<1> HIDE DEF q
<1>6. /\ EntriesOK(entry') /\ CacheOK(cache, entry') /\ entry'[e] = q
      /\ \A f \in Entry : f # e => entry'[f] = entry[f]
  <2>1. /\ q.idx = entry[e].idx /\ q.at \notin {"free", "failed"} /\ q.jobs # <<>>
        /\ q.done + Len(q.jobs) >= 1
    BY <1>1, <1>2, <1>5
  <2> HIDE DEF r
  <2> QED BY <1>2, <1>3, <1>5, <2>1, EntryReplaced
<1> QED BY <1>1, <1>5, <1>6 DEF q

LEMMA RejectedKinds ==
  ASSUME TInv, NEW broken \in SUBSET Entry, Rejected(broken),
         \A e \in broken : entry[e].at \in {"discovering", "streaming"},
         DiscOK(disc'), UNCHANGED <<fetchQuantum, awaited, portalHead, final>>
  PROVE  StreamKinds'
PROOF
<1>1. EntriesOK(entry') /\ CacheOK(cache', entry') BY RejectedOK
<1> QED BY <1>1 DEF TInv, StreamKinds

LEMMA GrownOK ==
  ASSUME TInv
  PROVE  /\ Grown \in 1..ChunkBlocks
         /\ Warmup = 0 => Grown = ChunkBlocks
PROOF BY GridAssumption DEF TInv, StreamKinds, Grown, Smaller

(* A process that does any of this is up.                                    *)
LEMMA Running ==
  ASSUME TInv
  PROVE  /\ \A e \in Entry : entry[e].at # "free" => up
         /\ disc.scans # <<>> => up
         /\ disc.stray # {} => up
PROOF
<1>1. Down BY DEF TInv
<1>2. ASSUME ~up PROVE disc.scans = <<>> /\ disc.stray = {} /\ \A e \in Entry : entry[e].at = "free"
  BY <1>1, <1>2, NoEntryOK DEF Down, NewDisc, NoEntries
<1> QED BY <1>2

LEMMA ChainKinds ==
  ASSUME TInv, NEW e \in Entry, Resume(e) \/ Stream(e) \/ StreamEnd(e) \/ StreamFail(e)
  PROVE  TInv'
PROOF
<1>1. known \in Births /\ queue \in Births BY ShellParts
<1>2. up BY Running DEF Resume, Resumes, Stream, Streams, StreamEnd, StreamEnds, StreamFail, StreamFails
<1>3. ShellKinds' /\ Down'
  <2>1. ShellIdle /\ UNCHANGED <<known, queue>>
    BY DEF Resume, Resumes, Stream, Streams, StreamEnd, StreamEnds, StreamFail, StreamFails
  <2> QED BY <1>1, <1>2, <2>1, ShellStays
<1>4. CASE Resume(e)
  <2>1. Resumes(e) /\ UNCHANGED <<cache, fetchQuantum, awaited, portalHead, final>>
    BY <1>4 DEF Resume, Resumes, ShellIdle
  <2>2. DiscOK(disc') /\ EntriesOK(entry') /\ CacheOK(cache, entry') BY <2>1, ResumesOK
  <2> QED BY <1>3, <2>1, <2>2 DEF TInv, StreamKinds
<1>5. CASE Stream(e)
  <2>1. Streams(e) /\ UNCHANGED <<disc, fetchQuantum, awaited, portalHead, final>>
    BY <1>5 DEF Stream, Streams, ShellIdle
  <2>2. CASE Ready(Head(entry[e].jobs).to)
    <3>1. EntriesOK(entry') /\ CacheOK(cache, entry') /\ cache' = cache BY <2>1, <2>2, StreamsOK
    <3> QED BY <1>3, <2>1, <3>1 DEF TInv, StreamKinds
  <2>3. CASE ~Ready(Head(entry[e].jobs).to)
    <3>1. Rejected({e}) /\ entry[e].at = "discovering" BY <2>1, <2>3 DEF Streams
    <3>2. DiscOK(disc') BY <2>1, StreamParts
    <3>3. StreamKinds' BY <2>1, <3>1, <3>2, RejectedKinds
    <3> QED BY <1>3, <3>3 DEF TInv
  <2> QED BY <2>2, <2>3
<1>6. CASE StreamEnd(e)
  <2>1. StreamEnds(e) /\ UNCHANGED <<disc, cache, awaited, portalHead, final>> /\ fetchQuantum' = Grown
    BY <1>6 DEF StreamEnd, StreamEnds, ShellIdle
  <2>2. EntriesOK(entry') /\ CacheOK(cache, entry') BY <2>1, StreamEndsOK
  <2> QED BY <1>3, <2>1, <2>2, GrownOK DEF TInv, StreamKinds
<1>7. CASE StreamFail(e)
  <2>1. /\ Rejected({e}) /\ entry[e].at = "streaming"
        /\ UNCHANGED <<disc, fetchQuantum, awaited, portalHead, final>>
    BY <1>7 DEF StreamFail, StreamFails, ShellIdle
  <2>2. DiscOK(disc') BY <2>1, StreamParts
  <2>3. StreamKinds' BY <2>1, <2>2, RejectedKinds
  <2> QED BY <1>3, <2>3 DEF TInv
<1> QED BY <1>4, <1>5, <1>6, <1>7

(* What meeting a creation does.                                            *)
Meets(n) ==
  /\ Records(n)
  /\ \/ /\ disc.scans # <<>> /\ n \in disc.scans[1].left
        /\ disc' = [disc EXCEPT !.scans[1].left = @ \ {n}]
     \/ n \in disc.stray /\ disc' = [disc EXCEPT !.stray = @ \ {n}]

LEMMA ScanMeets ==
  ASSUME TInv, NEW n \in Blocks, Scan(n)
  PROVE  Meets(n) /\ DiscOK(disc') /\ disc'.confirmed = disc.confirmed
PROOF
<1>1. DiscOK(disc) BY StreamParts
<1>2. Meets(n)
  <2>1. disc.scans \in Seq(ScanKind) BY <1>1, DiscParts
  <2>2. disc.scans # <<>> => Head(disc.scans) = disc.scans[1] BY <2>1
  <2> QED BY <2>2 DEF Scan, ScanFinds, StrayFinds, Meets
<1>3. DiscOK(disc') /\ disc'.confirmed = disc.confirmed
  <2>1. CASE disc.scans # <<>> /\ disc' = [disc EXCEPT !.scans[1].left = @ \ {n}]
    BY <1>1, <2>1, MetOK
  <2>2. CASE disc' = [disc EXCEPT !.stray = @ \ {n}]
    BY <1>1, <2>2, StrayOK
  <2> QED BY <1>2, <2>1, <2>2 DEF Meets
<1> QED BY <1>2, <1>3

LEMMA ScanKinds ==
  ASSUME TInv, ScanFind \/ ScanEnd \/ ScanFail
  PROVE  TInv'
PROOF
<1>1. known \in Births /\ queue \in Births /\ DiscOK(disc) BY ShellParts, StreamParts
<1>2. CASE ScanFind
  <2>1. PICK n \in Blocks : Scan(n) BY <1>2 DEF ScanFind
  <2>2. ShellIdle /\ UNCHANGED <<cache, entry, fetchQuantum, awaited, portalHead, final>>
    BY <1>2, <2>1 DEF ScanFind, Scan, ShellIdle
  <2>3. Meets(n) /\ DiscOK(disc') BY <2>1, ScanMeets
  <2>4. up BY <2>3, Running DEF Meets
  <2>5. known' \in Births /\ queue' \in Births BY <2>3, RecordedOK DEF Meets
  <2>6. ShellKinds' /\ Down' BY <2>2, <2>4, <2>5, ShellStays
  <2> QED BY <2>2, <2>3, <2>6 DEF TInv, StreamKinds
<1>3. CASE ScanEnd
  <2>1. /\ ShellIdle /\ disc.scans # <<>> /\ disc' = Confirmed(disc)
        /\ UNCHANGED <<known, queue, cache, entry, fetchQuantum, awaited, portalHead, final>>
    BY <1>3 DEF ScanEnd, ScanEnds, ShellIdle
  <2>2. DiscOK(disc') BY <1>1, <2>1, ConfirmedOK
  <2>3. ShellKinds' /\ Down' BY <1>1, <2>1, Running, ShellStays
  <2> QED BY <2>1, <2>2, <2>3 DEF TInv, StreamKinds
<1>4. CASE ScanFail
  <2> DEFINE broken == {e \in Entry : entry[e].at = "discovering" /\ entry[e].wait > disc'.through}
  <2>1. /\ ShellIdle /\ disc.scans # <<>> /\ Rejected(broken)
        /\ UNCHANGED <<known, queue, fetchQuantum, awaited, portalHead, final>>
    BY <1>4 DEF ScanFail, ScanFails, ShellIdle
  <2>2. PICK window : disc' = RolledBack(disc, window) BY <1>4 DEF ScanFail, ScanFails
  <2>3. DiscOK(disc') BY <1>1, <2>1, <2>2, RolledBackOK
  <2>4. broken \in SUBSET Entry /\ \A e \in broken : entry[e].at = "discovering" OBVIOUS
  <2> HIDE DEF broken
  <2>5. StreamKinds' BY <2>1, <2>3, <2>4, RejectedKinds
  <2>6. ShellKinds' /\ Down' BY <1>1, <2>1, Running, ShellStays
  <2> QED BY <2>5, <2>6 DEF TInv
<1> QED BY <1>2, <1>3, <1>4

-----------------------------------------------------------------------------
(* The callbacks, step by step.                                             *)

LEMMA ProbeOK ==
  ASSUME TInv, NEW i \in Interval, Probe(i)
  PROVE  portalHead' \in -1..final
PROOF
<1>1. portalHead \in -1..final /\ final \in Nat BY StreamParts
<1>2. PICK h \in -1..final : portalHead' = Larger(portalHead, h) BY DEF Probe
<1> QED BY <1>1, <1>2 DEF Larger

LEMMA ProbeKinds ==
  ASSUME TInv, NEW i \in Interval, Enter(i) \/ LearnHead(i) \/ RefuseGap(i) \/ Delegate(i)
  PROVE  TInv'
PROOF
<1>1. /\ known \in Births /\ queue \in Births /\ pendingFlushes \in [Interval -> Births]
      /\ stash \subseteq Interval /\ delegated \subseteq Interval /\ store \in Stores
      /\ tx[i].at \notin {"fetching", "flushing"} => awaited[i] = {}
  BY ShellParts
<1>2. tx[i].at \in {"ready", "probing"}
  BY DEF Enter, LearnHead, RefuseGap, Delegate, Probe
<1>3. CASE Enter(i)
  <2>1. /\ tx' = Moved(i, "probing") /\ queue' = Restored(i)
        /\ pendingFlushes' = [pendingFlushes EXCEPT ![i] = Nobody]
        /\ UNCHANGED <<disc, known, cache, entry, fetchQuantum, awaited, portalHead, final,
                       stash, delegated, store, up>>
    BY <1>3 DEF Enter, streamVars
  <2>2. queue' \in Births /\ pendingFlushes' \in [Interval -> Births] BY <2>1, PutBackOK
  <2>3. StreamKinds' BY <2>1, StreamsStay
  <2>4. ShellKinds' /\ Down' BY <1>1, <1>2, <2>1, <2>2, ShellMoves DEF Places
  <2> QED BY <2>3, <2>4 DEF TInv
<1>4. CASE LearnHead(i)
  <2>1. /\ Probe(i)
        /\ UNCHANGED <<discVars, streamVars, awaited, final, shellVars, store, up>>
    BY <1>4 DEF LearnHead
  <2>2. portalHead' \in -1..final BY <2>1, ProbeOK
  <2> QED BY <2>1, <2>2 DEF TInv, StreamKinds, ShellKinds, Down, discVars, streamVars, shellVars
<1>5. CASE RefuseGap(i) \/ Delegate(i)
  <2>1. /\ Probe(i)
        /\ tx' = Moved(i, "thrown") \/ tx' = Moved(i, "delegating")
        /\ delegated' \subseteq Interval
        /\ Take(i) \/ UNCHANGED <<queue, pendingFlushes>>
        /\ UNCHANGED <<disc, known, cache, entry, fetchQuantum, awaited, final, stash, store, up>>
    BY <1>1, <1>5 DEF RefuseGap, Delegate, TakeDelegated, discVars, streamVars
  <2>2. portalHead' \in -1..final BY <2>1, ProbeOK
  <2>3. StreamKinds' BY <2>1, <2>2 DEF TInv, StreamKinds
  <2>4. queue' \in Births /\ pendingFlushes' \in [Interval -> Births]
    BY <1>1, <2>1, TakenOK
  <2>5. PICK at \in {"thrown", "delegating"} : tx' = Moved(i, at) BY <2>1
  <2>6. ShellKinds' /\ Down' BY <1>1, <1>2, <2>1, <2>4, <2>5, ShellMoves DEF Places
  <2> QED BY <2>3, <2>6 DEF TInv
<1> QED BY <1>3, <1>4, <1>5

LEMMA FetchKinds ==
  ASSUME TInv, NEW i \in Interval,
         AskChunks(i) \/ FetchThrows(i) \/ Flush(i) \/ InsertFails(i)
  PROVE  TInv'
PROOF
<1>1. /\ known \in Births /\ queue \in Births /\ pendingFlushes \in [Interval -> Births]
      /\ stash \subseteq Interval /\ delegated \subseteq Interval /\ store \in Stores
      /\ tx[i].at \notin {"fetching", "flushing"} => awaited[i] = {}
  BY ShellParts
<1>2. tx[i].at \in {"ready", "probing", "fetching", "flushing", "delegating"}
  BY DEF AskChunks, FetchThrows, Flush, InsertFails
<1>3. CASE AskChunks(i)
  <2>1. /\ queue' = Restored(i) /\ pendingFlushes' = [pendingFlushes EXCEPT ![i] = Nobody]
        /\ UNCHANGED <<known, fetchQuantum, portalHead, final, stash, delegated, store, up>>
    BY <1>3 DEF AskChunks
  <2>2. queue' \in Births /\ pendingFlushes' \in [Interval -> Births] BY <2>1, PutBackOK
  <2>3. PICK s, t : AskedFor(i, s, t) BY <1>3, AskChunksMeans
  <2>4. /\ StreamKinds' /\ awaited'[i] = IF t.refused THEN {} ELSE t.promises
        /\ \A j \in Interval : j # i => awaited'[j] = awaited[j]
    BY <2>1, <2>3, AskedForKinds
  <2> DEFINE at == IF t.refused THEN "thrown" ELSE "fetching"
  <2>5. at \in Places /\ at # "ranged" /\ tx' = Moved(i, at)
    BY <2>3 DEF AskedFor, Places
  <2>6. at # "fetching" => awaited'[i] = {} BY <2>4
  <2> HIDE DEF at
  <2>7. ShellKinds' /\ Down' BY <1>1, <1>2, <2>1, <2>2, <2>4, <2>5, <2>6, ShellMoves
  <2> QED BY <2>4, <2>7 DEF TInv
<1>4. CASE FetchThrows(i)
  <2>1. /\ awaited' = [awaited EXCEPT ![i] = {}] /\ entry' = Swept(entry, cache, awaited')
        /\ tx' = Moved(i, "thrown")
        /\ UNCHANGED <<disc, known, queue, cache, fetchQuantum, portalHead, final,
                       pendingFlushes, stash, delegated, store, up>>
    BY <1>4 DEF FetchThrows, discVars
  <2>2. /\ StreamKinds' /\ awaited'[i] = {}
        /\ \A j \in Interval : j # i => awaited'[j] = awaited[j]
    BY <2>1, DroppedKinds
  <2>3. ShellKinds' /\ Down' BY <1>1, <1>2, <2>1, <2>2, ShellMoves DEF Places
  <2> QED BY <2>2, <2>3 DEF TInv
<1>5. CASE Flush(i)
  <2>1. /\ Take(i) /\ tx' = Moved(i, "flushing") /\ tx[i].at = "fetching"
        /\ UNCHANGED <<disc, known, cache, entry, fetchQuantum, awaited, portalHead, final,
                       stash, delegated, store, up>>
    BY <1>5 DEF Flush, streamVars
  <2>2. queue' \in Births /\ pendingFlushes' \in [Interval -> Births] BY <2>1, TakenOK
  <2>3. StreamKinds' BY <2>1, StreamsStay
  <2>4. ShellKinds' /\ Down' BY <1>1, <1>2, <2>1, <2>2, ShellMoves DEF Places
  <2> QED BY <2>3, <2>4 DEF TInv
<1>6. CASE InsertFails(i)
  <2>1. /\ awaited' = [awaited EXCEPT ![i] = {}] /\ entry' = Swept(entry, cache, awaited')
        /\ tx' = Moved(i, "thrown") /\ queue' = Restored(i)
        /\ pendingFlushes' = [pendingFlushes EXCEPT ![i] = Nobody]
        /\ UNCHANGED <<disc, known, cache, fetchQuantum, portalHead, final,
                       stash, delegated, store, up>>
    BY <1>6 DEF InsertFails
  <2>2. /\ StreamKinds' /\ awaited'[i] = {}
        /\ \A j \in Interval : j # i => awaited'[j] = awaited[j]
    BY <2>1, DroppedKinds
  <2>3. queue' \in Births /\ pendingFlushes' \in [Interval -> Births] BY <2>1, PutBackOK
  <2>4. ShellKinds' /\ Down' BY <1>1, <1>2, <2>1, <2>2, <2>3, ShellMoves DEF Places
  <2> QED BY <2>2, <2>4 DEF TInv
<1> QED BY <1>3, <1>4, <1>5, <1>6

LEMMA HandOverKinds ==
  ASSUME TInv, NEW i \in Interval, Serve(i) \/ InsertLogsFails(i) \/ FallBack(i)
  PROVE  TInv'
PROOF
<1>1. /\ known \in Births /\ queue \in Births /\ pendingFlushes \in [Interval -> Births]
      /\ stash \subseteq Interval /\ delegated \subseteq Interval /\ store \in Stores
      /\ tx[i].at \notin {"fetching", "flushing"} => awaited[i] = {}
  BY ShellParts
<1>2. Deduped(pendingFlushes[i]) \subseteq Child \X Blocks BY <1>1, DedupedOK
<1>3. CASE Serve(i) \/ InsertLogsFails(i)
  <2>1. /\ Assemble(i) /\ tx[i].at = "flushing" /\ stash' \subseteq Interval
        /\ \/ tx' = Ranged(i, Deduped(pendingFlushes[i]), Assembled(i, Lo(i), Hi(i)))
           \/ tx' = Moved(i, "thrown")
        /\ UNCHANGED <<known, queue, fetchQuantum, portalHead, final, pendingFlushes, delegated,
                       store, up>>
    BY <1>1, <1>3 DEF Serve, InsertLogsFails, Assemble
  <2>2. PICK t : AssembledFrom(i, t) BY <2>1, AssembleMeans
  <2>3. /\ StreamKinds' /\ awaited'[i] = {}
        /\ \A j \in Interval : j # i => awaited'[j] = awaited[j]
    BY <2>1, <2>2, AssembledKinds
  <2>4. CASE tx' = Moved(i, "thrown")
    <3>1. ShellKinds' /\ Down' BY <1>1, <2>1, <2>3, <2>4, ShellMoves DEF Places
    <3> QED BY <2>3, <3>1 DEF TInv
  <2>5. CASE tx' = Ranged(i, Deduped(pendingFlushes[i]), Assembled(i, Lo(i), Hi(i)))
    <3>1. Assembled(i, Lo(i), Hi(i)) \subseteq Blocks \X Child BY AssembledOK
    <3>2. ShellKinds' /\ Down' BY <1>1, <1>2, <2>1, <2>3, <2>5, <3>1, ShellRanged
    <3> QED BY <2>3, <3>2 DEF TInv
  <2> QED BY <2>1, <2>4, <2>5
<1>4. CASE FallBack(i)
  <2> DEFINE born == BornIn(Lo(i)..Hi(i))
             found == {c \in Child : born[c] < known[c]}
             rows == Deduped(pendingFlushes[i]) \cup {<<c, born[c]>> : c \in found}
             logs == {log \in (Lo(i)..Hi(i)) \X Child : known'[log[2]] <= log[1]}
  <2>1. /\ tx[i].at = "delegating" /\ known' = Lower(known, born) /\ tx' = Ranged(i, rows, logs)
        /\ UNCHANGED <<disc, queue, cache, entry, fetchQuantum, awaited, portalHead, final,
                       pendingFlushes, stash, delegated, store, up>>
    BY <1>4 DEF FallBack, streamVars
  <2>2. Lo(i)..Hi(i) \subseteq Blocks BY StreamParts DEF BlocksOf
  <2>3. born \in Births BY <2>2, BornInOK
  <2>4. {<<c, born[c]>> : c \in found} \subseteq Child \X Blocks
    <3> HIDE DEF born
    <3> QED BY <1>1, <2>3, GridAssumption DEF Births, Unborn, Blocks
  <2>5. rows \in SUBSET (Child \X Blocks) /\ logs \in SUBSET (Blocks \X Child)
    BY <1>2, <2>2, <2>4
  <2>6. known' \in Births BY <1>1, <2>1, <2>3, LowerOK
  <2>7. awaited' = awaited /\ awaited[i] = {} BY <1>1, <2>1
  <2> HIDE DEF rows, logs, born
  <2>8. StreamKinds' BY <2>1, StreamsStay
  <2>9. ShellKinds' /\ Down' BY <1>1, <2>1, <2>5, <2>6, <2>7, ShellRanged
  <2> QED BY <2>8, <2>9 DEF TInv
<1> QED BY <1>3, <1>4

LEMMA CommitKinds ==
  ASSUME TInv, NEW i \in Interval,
         Commit(i) \/ CommitUnseen(i) \/ Rollback(i) \/ Retry(i)
  PROVE  TInv'
PROOF
<1>1. /\ known \in Births /\ queue \in Births /\ pendingFlushes \in [Interval -> Births]
      /\ stash \subseteq Interval /\ delegated \subseteq Interval /\ store \in Stores
      /\ tx[i].at \notin {"fetching", "flushing"} => awaited[i] = {}
  BY ShellParts
<1>2. Consume(i) => stash' \subseteq Interval /\ delegated' \subseteq Interval
  BY <1>1 DEF Consume
<1>3. /\ tx[i].at \in {"ranged", "thrown"} /\ stash' \subseteq Interval /\ delegated' \subseteq Interval
      /\ store' = store \/ store' = Durable(i)
      /\ \E at \in {"done", "thrown", "ready"} : tx' = Moved(i, at)
      /\ UNCHANGED <<disc, known, queue, cache, entry, fetchQuantum, awaited, portalHead, final,
                     pendingFlushes, up>>
  BY <1>1, <1>2 DEF Commit, CommitUnseen, Rollback, Retry, discVars, streamVars
<1>4. PICK at \in {"done", "thrown", "ready"} : tx' = Moved(i, at) BY <1>3
<1>5. store' \in Stores BY <1>1, <1>3, DurableOK
<1>6. StreamKinds' BY <1>3, StreamsStay
<1>7. ShellKinds' /\ Down' BY <1>1, <1>3, <1>4, <1>5, ShellMoves DEF Places
<1> QED BY <1>6, <1>7 DEF TInv

-----------------------------------------------------------------------------
(* The process.                                                            *)

LEMMA FreshOK ==
  /\ DiscOK(NewDisc) /\ EntriesOK(NoEntries) /\ CacheOK(NoChunks, NoEntries)
  /\ FirstQuantum \in 1..ChunkBlocks /\ (Warmup = 0 => FirstQuantum = ChunkBlocks)
  /\ [i \in Interval |-> {}] \in [Interval -> SUBSET Promise]
  /\ [i \in Interval |-> Nobody] \in [Interval -> Births]
PROOF
<1>1. FirstQuantum \in 1..ChunkBlocks /\ (Warmup = 0 => FirstQuantum = ChunkBlocks)
  BY GridAssumption, DiscoveryAssumption DEF FirstQuantum, Smaller
<1>2. /\ NoEntries \in [Entry -> EntryKind]
      /\ \A e \in Entry : NoEntries[e] = NoEntry
  <2> HIDE DEF EntryKind, NoEntry
  <2> QED BY NoEntryOK DEF NoEntries
<1>3. EntriesOK(NoEntries) BY <1>2, NoEntryOK DEF EntriesOK
<1>4. CacheOK(NoChunks, NoEntries) BY DEF CacheOK, NoChunks
<1>5. [i \in Interval |-> Nobody] \in [Interval -> Births] BY NobodyOK
<1>6. [i \in Interval |-> {}] \in [Interval -> SUBSET Promise]
  <2> HIDE DEF Promise
  <2> QED OBVIOUS
<1> QED BY <1>1, <1>3, <1>4, <1>5, <1>6, NewDiscOK

LEMMA DispatchedOK ==
  ASSUME NEW S
  PROVE  /\ Dispatched(S) \in [Interval -> Transaction]
         /\ \A i \in Interval :
              /\ Dispatched(S)[i].rows = {} /\ Dispatched(S)[i].logs = {}
              /\ Dispatched(S)[i].at = IF i \in S THEN "done"
                                       ELSE IF i = FirstOf(Interval \ S) THEN "ready" ELSE "idle"
PROOF
<1> DEFINE at(i) == IF i \in S THEN "done"
                    ELSE IF i = FirstOf(Interval \ S) THEN "ready" ELSE "idle"
           t(i) == [NoTx EXCEPT !.at = at(i)]
<1>1. \A i \in Interval : /\ t(i) \in Transaction /\ t(i).at = at(i)
                          /\ t(i).rows = {} /\ t(i).logs = {}
  BY PlaceOK DEF Places
<1>2. Dispatched(S) = [i \in Interval |-> t(i)] BY DEF Dispatched
<1> HIDE DEF t, Transaction
<1>3. Dispatched(S) \in [Interval -> Transaction] BY <1>1, <1>2
<1> QED BY <1>1, <1>2, <1>3

LEMMA ProcessKinds ==
  ASSUME TInv, Die \/ Restart \/ Finalize \/ UNCHANGED vars
  PROVE  TInv'
PROOF
<1>1. /\ known \in Births /\ queue \in Births /\ store \in Stores /\ DiscOK(disc)
      /\ final \in Blocks /\ portalHead \in -1..final
  BY ShellParts, StreamParts
<1>2. CASE Die
  <2>1. /\ disc' = NewDisc /\ known' = Nobody /\ queue' = Nobody /\ up' = FALSE
        /\ cache' = NoChunks /\ entry' = NoEntries /\ fetchQuantum' = FirstQuantum
        /\ awaited' = [i \in Interval |-> {}] /\ tx' = [i \in Interval |-> NoTx]
        /\ pendingFlushes' = [i \in Interval |-> Nobody] /\ stash' = {} /\ delegated' = {}
        /\ portalHead' = -1 /\ UNCHANGED <<final, store>>
    BY <1>2 DEF Die
  <2>2. -1 \in -1..final BY <1>1, GridAssumption DEF Blocks
  <2>3. StreamKinds' BY <1>1, <2>1, <2>2, FreshOK DEF StreamKinds
  <2>4. NoTx \in Transaction /\ NoTx.at = "idle" /\ NoTx.rows = {} /\ NoTx.logs = {}
    BY DEF NoTx, Transaction, Places
  <2>5. tx' \in [Interval -> Transaction] /\ \A i \in Interval : tx'[i] = NoTx
    <3> HIDE DEF Transaction, NoTx
    <3> QED BY <2>1, <2>4
  <2>6. \A i \in Interval : awaited'[i] = {} BY <2>1
  <2>7. ShellKinds' BY <1>1, <2>1, <2>4, <2>5, <2>6, FreshOK, NobodyOK DEF ShellKinds, Stores
  <2>8. Down' BY <2>1, <2>4, <2>5 DEF Down
  <2> QED BY <2>3, <2>7, <2>8 DEF TInv
<1>3. CASE Restart
  <2>1. /\ ~up /\ up' = TRUE /\ known' = StoredBirths /\ tx' = Dispatched(store.cached)
        /\ UNCHANGED <<disc, queue, cache, entry, fetchQuantum, awaited, portalHead, final,
                       pendingFlushes, stash, delegated, store>>
    BY <1>3 DEF Restart, streamVars
  <2>2. StreamKinds' BY <2>1, StreamsStay
  <2>3. \A i \in Interval : awaited'[i] = {}
    BY <2>1 DEF TInv, ShellKinds, Down
  <2>4. /\ tx' \in [Interval -> Transaction]
        /\ \A i \in Interval : tx'[i].rows = {} /\ tx'[i].logs = {}
    BY <2>1, DispatchedOK
  <2>5. ShellKinds' BY <2>1, <2>3, <2>4, BirthsOK DEF TInv, ShellKinds
  <2>6. Down' BY <2>1 DEF Down
  <2> QED BY <2>2, <2>5, <2>6 DEF TInv
<1>4. CASE Finalize
  <2>1. final < LastBlock /\ final' = final + 1
        /\ UNCHANGED <<discVars, streamVars, awaited, portalHead, shellVars, store, up>>
    BY <1>4 DEF Finalize
  <2>2. final' \in Blocks /\ portalHead' \in -1..final'
    BY <1>1, <2>1, GridAssumption DEF Blocks
  <2> QED BY <2>1, <2>2 DEF TInv, StreamKinds, ShellKinds, Down, discVars, streamVars, shellVars
<1>5. CASE UNCHANGED vars
  BY <1>5 DEF TInv, StreamKinds, ShellKinds, Down, discVars, streamVars, shellVars, vars
<1> QED BY <1>2, <1>3, <1>4, <1>5

LEMMA InitKinds == Init => TInv
PROOF
<1> SUFFICES ASSUME Init PROVE TInv OBVIOUS
<1>1. LastBlock \in Nat /\ FirstFinal \in Blocks BY GridAssumption, SyncAssumption
<1>2. portalHead \in -1..final /\ final \in Blocks BY <1>1 DEF Init, Blocks
<1>3. StreamKinds BY <1>2, FreshOK DEF Init, StreamKinds
<1>4. /\ tx \in [Interval -> Transaction]
      /\ \A i \in Interval : tx[i].rows = {} /\ tx[i].logs = {}
  BY DispatchedOK DEF Init
<1>5. store \in Stores
  <2> DEFINE rows == [row \in Child \X Blocks |-> 0]
  <2>1. rows \in [Child \X Blocks -> Nat] OBVIOUS
  <2>2. store = [rows |-> rows, logs |-> {}, cached |-> {}] BY DEF Init
  <2> HIDE DEF rows
  <2> QED BY <2>1, <2>2 DEF Stores
<1>6. \A i \in Interval : awaited[i] = {} BY DEF Init
<1>7. known = Nobody /\ queue = Nobody /\ stash = {} /\ delegated = {} /\ up = TRUE
      /\ pendingFlushes = [i \in Interval |-> Nobody]
  BY DEF Init
<1>8. ShellKinds BY <1>4, <1>5, <1>6, <1>7, FreshOK, NobodyOK DEF ShellKinds, Stores
<1> QED BY <1>3, <1>7, <1>8 DEF TInv, Down

LEMMA NextKinds == TInv /\ [Next]_vars => TInv'
PROOF
<1> SUFFICES ASSUME TInv, [Next]_vars PROVE TInv' OBVIOUS
<1>1. ASSUME NEW i \in Interval,
             \/ Enter(i) \/ LearnHead(i) \/ RefuseGap(i) \/ Delegate(i) \/ AskChunks(i)
             \/ FetchThrows(i) \/ Flush(i) \/ InsertFails(i) \/ Serve(i) \/ InsertLogsFails(i)
             \/ FallBack(i) \/ Commit(i) \/ CommitUnseen(i) \/ Rollback(i) \/ Retry(i)
      PROVE  TInv'
  BY <1>1, ProbeKinds, FetchKinds, HandOverKinds, CommitKinds
<1>2. ASSUME NEW e \in Entry, Resume(e) \/ Stream(e) \/ StreamEnd(e) \/ StreamFail(e)
      PROVE  TInv'
  BY <1>2, ChainKinds
<1>3. CASE ScanFind \/ ScanEnd \/ ScanFail BY <1>3, ScanKinds
<1>4. CASE Die \/ Restart \/ Finalize \/ Finished \/ Stopped \/ UNCHANGED vars
  BY <1>4, ProcessKinds DEF Finished, Stopped
<1> QED BY <1>1, <1>2, <1>3, <1>4 DEF Next

LEMMA KindsImplyTypes == TInv => TypeOK
PROOF
<1> SUFFICES ASSUME TInv PROVE TypeOK OBVIOUS
<1>1. DiscTypeOK
  <2>1. DiscOK(disc) /\ known \in Births /\ queue \in Births BY StreamParts, ShellParts
  <2> QED BY <2>1, DiscParts DEF DiscTypeOK, DiscOK, ScansChained, Marks
<1>2. CacheTypeOK
  <2>1. EntriesOK(entry) /\ CacheOK(cache, entry) BY StreamParts
  <2>2. ASSUME NEW e \in Entry
        PROVE  /\ entry[e].at \in {"free", "settled", "discovering", "streaming", "failed"}
               /\ entry[e].from \in Nat /\ entry[e].to <= LastBlock
               /\ entry[e].filter \subseteq Child /\ entry[e].data \subseteq Blocks \X Child
               /\ entry[e].at \in {"discovering", "streaming"} => entry[e].jobs # <<>>
    <3>1. entry[e] \in EntryKind BY <2>1 DEF EntriesOK
    <3>2. entry[e].to \in Marks BY <3>1, EntryParts
    <3>3. entry[e].to <= LastBlock BY <3>2, GridAssumption DEF Marks
    <3> HIDE DEF JobKind, Marks
    <3> QED BY <2>1, <3>1, <3>3 DEF EntryKind, EntriesOK
  <2>3. \A i \in Interval : \A p \in awaited[i] : p.entry \in Entry /\ p.job \in Nat \ {0}
    BY StreamParts DEF Promise
  <2> QED BY <2>1, <2>2, <2>3 DEF CacheTypeOK, CacheOK, TInv, StreamKinds
<1>3. SyncTypeOK
  <2>1. \A i \in Interval : tx[i].rows \subseteq Child \X Blocks /\ tx[i].logs \subseteq Blocks \X Child
    <3> SUFFICES ASSUME NEW i \in Interval
                 PROVE  tx[i].rows \subseteq Child \X Blocks /\ tx[i].logs \subseteq Blocks \X Child
      OBVIOUS
    <3>1. tx[i] \in Transaction BY ShellParts
    <3> QED BY <3>1 DEF Transaction
  <2>2. /\ store.rows \in [Child \X Blocks -> Nat] /\ store.logs \subseteq Blocks \X Child
        /\ store.cached \subseteq Interval
    BY ShellParts DEF Stores
  <2> QED BY <2>1, <2>2, ShellParts DEF SyncTypeOK
<1> QED BY <1>1, <1>2, <1>3 DEF TypeOK

LEMMA SpecKinds == Spec => []TInv
PROOF
<1> QED BY InitKinds, NextKinds, PTL DEF Spec

(* The cache's promises, the watermarks and the callbacks keep their shape,     *)
(* whatever fails, in both modes and for any grid (portal.ts 161-214).          *)
THEOREM ShapesHold == Spec => []TypeOK
PROOF
<1> QED BY SpecKinds, KindsImplyTypes, PTL
=============================================================================
