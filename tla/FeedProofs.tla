------------------------------ MODULE FeedProofs -----------------------------
(***************************************************************************)
(* The producer and ponder believe in one chain, for every block tree, fork   *)
(* schedule and bound: the chain ponder has been given, with the block that    *)
(* waits for its redelivery on top, is linked on what is durable, and is the   *)
(* producer's window.  While an event is on its way the two differ by what     *)
(* the event says, and while a finalize is held back the producer is ahead.    *)
(*                                                                         *)
(* That no other block reaches the wire while a redelivery is awaited is the   *)
(* follower's doing: it reopens below the suppressed block, so what it serves  *)
(* next is numbered no higher (RedeliveryFirst).                            *)
(***************************************************************************)
EXTENDS RealtimeProofs, FiniteSetTheorems

ChainOf(blocks) == [i \in 1..Len(blocks) |-> blocks[i].block]

(* What ponder was given, and the block held back from it.                  *)
Given == IF awaiting = None THEN FeedChain ELSE Append(FeedChain, awaiting)

(* The producer's window is that chain, or a finalize is held at its top.     *)
Agrees(chain) ==
  /\ held = None => anchor = durable /\ window = chain
  /\ held # None => /\ window = <<>> /\ chain # <<>>
                    /\ anchor = held /\ held = Tip(chain, durable)

(* A finalize is held for the awaited block or the one just forwarded.        *)
HeldAwaits ==
  held # None => \/ awaiting = held /\ draining = None
                 \/ awaiting = None /\ draining = held

Settled ==
  event = None => /\ Agrees(Given)
                  /\ stage = "append" => awaiting = None /\ held = None

BlockFits ==
  event \in BlockEvents =>
    /\ stage = "cadence"
    /\ awaiting \in {None, event.block}
    /\ awaiting = None => held = None
    /\ Linked(Append(FeedChain, event.block), durable)
    /\ Agrees(Append(FeedChain, event.block))

ReorgFits ==
  event \in ReorgEvents =>
    /\ stage = "append"
    /\ held = None /\ anchor = durable
    /\ awaiting # None => Lost(event.reorged)
    /\ \E k \in 0..(Len(Given) - 1) :
         /\ window = SubSeq(Given, 1, k)
         /\ event.block = (IF k = 0 THEN durable ELSE Given[k])

FinalizeFits ==
  event \in FinalizeEvents =>
    /\ stage = "pull"
    /\ held = None /\ event.block = anchor
    /\ \E n \in 1..Len(Given) :
         anchor = Given[n] /\ window = SubSeq(Given, n + 1, Len(Given))

FeedAgrees ==
  /\ Linked(Given, durable) /\ lastFinalized = Height[durable]
  /\ HeldAwaits /\ Settled /\ BlockFits /\ ReorgFits /\ FinalizeFits

-----------------------------------------------------------------------------
(* The block the connection has just served, on its way to the wire.         *)
Brings(b) ==
  /\ conn \in Connection /\ ~conn.reading /\ conn.last = b
  /\ awaiting # None => Height[b] <= Height[awaiting]

Carried ==
  /\ item \in BlockBatch => Brings(item.block)
  /\ pending \in BlockBatch => Brings(pending.block)
  /\ event \in BlockEvents => Brings(event.block)

BlockOut == item \in BlockBatch \/ event \in BlockEvents \/ stage = "append"

(* The follower stands at or below the awaited block, or is about to reopen.   *)
RedeliveryFirst ==
  Running /\ awaiting # None =>
    /\ conn = None \/ conn.reading => cursor <= Height[awaiting]
    /\ conn # None /\ ~conn.reading => /\ cursor <= Height[awaiting] + 1
                                       /\ stale \/ BlockOut

FollowerBehind == Carried /\ RedeliveryFirst

Quiet == status \notin {"unlinked", "skipped"}

AgreeInv == FeedAgrees /\ FollowerBehind /\ Quiet

-----------------------------------------------------------------------------
(* Chains as sequences.                                                    *)
LEMMA SameChain ==
  ASSUME NEW s \in Seq(Block), NEW t \in Seq(Block), Len(s) = Len(t),
         \A i \in 1..Len(s) : s[i] = t[i]
  PROVE  s = t
PROOF OBVIOUS

LEMMA ChainOfTyped ==
  ASSUME NEW f \in Seq(Forwarded)
  PROVE  /\ ChainOf(f) \in Seq(Block)
         /\ Len(ChainOf(f)) = Len(f)
         /\ \A i \in 1..Len(f) : ChainOf(f)[i] = f[i].block
PROOF
<1>1. \A i \in 1..Len(f) : f[i] \in Forwarded OBVIOUS
<1>2. \A x \in Forwarded : x.block \in Block BY DEF Forwarded
<1>3. \A i \in 1..Len(f) : f[i].block \in Block BY <1>1, <1>2
<1> QED BY <1>3 DEF ChainOf

LEMMA ChainOfParts ==
  ASSUME NEW f \in Seq(Forwarded), NEW k \in 0..Len(f), NEW x \in Forwarded
  PROVE  /\ ChainOf(SubSeq(f, 1, k)) = SubSeq(ChainOf(f), 1, k)
         /\ ChainOf(SubSeq(f, k + 1, Len(f))) = SubSeq(ChainOf(f), k + 1, Len(f))
         /\ ChainOf(Append(f, x)) = Append(ChainOf(f), x.block)
PROOF
<1>1. /\ Len(f) \in Nat /\ ChainOf(f) \in Seq(Block) /\ Len(ChainOf(f)) = Len(f)
      /\ \A i \in 1..Len(f) : ChainOf(f)[i] = f[i].block
  BY ChainOfTyped
<1>2. ChainOf(SubSeq(f, 1, k)) = SubSeq(ChainOf(f), 1, k)
  <2> DEFINE front == SubSeq(f, 1, k)
             other == SubSeq(ChainOf(f), 1, k)
  <2>1. front \in Seq(Forwarded) /\ Len(front) = k /\ \A i \in 1..k : front[i] = f[i]
    OBVIOUS
  <2>2. other \in Seq(Block) /\ Len(other) = k /\ \A i \in 1..k : other[i] = ChainOf(f)[i]
    BY <1>1
  <2> HIDE DEF front, other
  <2>3. /\ ChainOf(front) \in Seq(Block) /\ Len(ChainOf(front)) = k
        /\ \A i \in 1..k : ChainOf(front)[i] = front[i].block
    BY <2>1, ChainOfTyped
  <2>4. \A i \in 1..k : ChainOf(front)[i] = other[i]
    BY <1>1, <2>1, <2>2, <2>3
  <2>5. ChainOf(front) = other BY <2>2, <2>3, <2>4, SameChain
  <2> QED BY <2>5 DEF front, other
<1>3. ChainOf(SubSeq(f, k + 1, Len(f))) = SubSeq(ChainOf(f), k + 1, Len(f))
  <2> DEFINE back == SubSeq(f, k + 1, Len(f))
             other == SubSeq(ChainOf(f), k + 1, Len(f))
             n == Len(f) - k
  <2>1. back \in Seq(Forwarded) /\ Len(back) = n /\ \A i \in 1..n : back[i] = f[i + k]
    OBVIOUS
  <2>2. other \in Seq(Block) /\ Len(other) = n /\ \A i \in 1..n : other[i] = ChainOf(f)[i + k]
    BY <1>1
  <2> HIDE DEF back, other
  <2>3. /\ ChainOf(back) \in Seq(Block) /\ Len(ChainOf(back)) = n
        /\ \A i \in 1..n : ChainOf(back)[i] = back[i].block
    BY <2>1, ChainOfTyped
  <2>4. \A i \in 1..n : i + k \in 1..Len(f) BY <1>1
  <2>5. \A i \in 1..n : ChainOf(back)[i] = other[i]
    BY <1>1, <2>1, <2>2, <2>3, <2>4
  <2>6. ChainOf(back) = other BY <2>2, <2>3, <2>5, SameChain
  <2> QED BY <2>6 DEF back, other
<1>4. ChainOf(Append(f, x)) = Append(ChainOf(f), x.block)
  <2> DEFINE longer == Append(f, x)
             other == Append(ChainOf(f), x.block)
             n == Len(f) + 1
  <2>1. /\ longer \in Seq(Forwarded) /\ Len(longer) = n
        /\ \A i \in 1..Len(f) : longer[i] = f[i]
        /\ longer[n] = x
    OBVIOUS
  <2>2. /\ other \in Seq(Block) /\ Len(other) = n
        /\ \A i \in 1..Len(f) : other[i] = ChainOf(f)[i]
        /\ other[n] = x.block
    <3>1. x.block \in Block BY DEF Forwarded
    <3> QED BY <1>1, <3>1
  <2> HIDE DEF longer, other
  <2>3. /\ ChainOf(longer) \in Seq(Block) /\ Len(ChainOf(longer)) = n
        /\ \A i \in 1..n : ChainOf(longer)[i] = longer[i].block
    BY <2>1, ChainOfTyped
  <2>4. \A i \in 1..n : i \in 1..Len(f) \/ i = n BY <1>1
  <2>5. \A i \in 1..n : ChainOf(longer)[i] = other[i]
    BY <1>1, <2>1, <2>2, <2>3, <2>4
  <2>6. ChainOf(longer) = other BY <2>2, <2>3, <2>5, SameChain
  <2> QED BY <2>6 DEF longer, other
<1> QED BY <1>2, <1>3, <1>4

LEMMA GivenTyped ==
  ASSUME WireTypeOK
  PROVE  /\ feed \in Seq(Forwarded)
         /\ FeedChain = ChainOf(feed)
         /\ FeedChain \in Seq(Block) /\ Len(FeedChain) = Len(feed)
         /\ Given \in Seq(Block)
         /\ Len(Given) = (IF awaiting = None THEN Len(feed) ELSE Len(feed) + 1)
         /\ \A i \in 1..Len(feed) : Given[i] = FeedChain[i]
         /\ awaiting # None => Given[Len(Given)] = awaiting /\ awaiting \in Block
         /\ durable \in Block /\ Height[durable] \in Nat
PROOF
<1>1. feed \in Seq(Forwarded) /\ awaiting \in Block \cup {None} /\ durable \in Block
  BY DEF WireTypeOK, Forwarded
<1>2. FeedChain = ChainOf(feed) BY DEF FeedChain, ChainOf
<1>3. FeedChain \in Seq(Block) /\ Len(FeedChain) = Len(feed) BY <1>1, <1>2, ChainOfTyped
<1>4. Height[durable] \in Nat BY <1>1, HeightAssumption
<1>5. CASE awaiting = None BY <1>1, <1>2, <1>3, <1>4, <1>5 DEF Given
<1>6. CASE awaiting # None BY <1>1, <1>2, <1>3, <1>4, <1>6 DEF Given
<1> QED BY <1>5, <1>6

(* Ponder's own part of the chain is linked too.                            *)
LEMMA FeedIsLinked ==
  ASSUME WireTypeOK, Linked(Given, durable)
  PROVE  Linked(FeedChain, durable)
PROOF
<1>1. /\ Len(feed) \in Nat
      /\ Len(FeedChain) = Len(feed)
      /\ Len(Given) >= Len(feed)
      /\ \A i \in 1..Len(feed) : Given[i] = FeedChain[i]
  BY GivenTyped
<1>2. ASSUME NEW i \in 1..Len(feed)
      PROVE  Extends(FeedChain[i], IF i = 1 THEN durable ELSE FeedChain[i - 1])
  <2>1. i \in 1..Len(Given) BY <1>1
  <2>2. Extends(Given[i], IF i = 1 THEN durable ELSE Given[i - 1])
    BY <2>1 DEF Linked
  <2>3. i # 1 => i - 1 \in 1..Len(feed) BY <1>1
  <2> QED BY <1>1, <2>2, <2>3
<1> QED BY <1>1, <1>2 DEF Linked

-----------------------------------------------------------------------------
(* The wire takes an event.                                                *)
FeedMoves == Feed!FeedNext \/ UNCHANGED <<durable, FeedChain>>

LEMMA NoneIsNoEvent ==
  ASSUME event = None
  PROVE  event \notin BlockEvents /\ event \notin ReorgEvents /\ event \notin FinalizeEvents
PROOF BY NoEventAssumption

LEMMA SettledAgain ==
  ASSUME event' = None, Linked(Given, durable)', lastFinalized' = Height[durable'],
         HeldAwaits', Agrees(Given)',
         stage' = "append" => awaiting' = None /\ held' = None
  PROVE  FeedAgrees'
PROOF
<1>1. /\ event' \notin BlockEvents /\ event' \notin ReorgEvents
      /\ event' \notin FinalizeEvents
  BY NoEventAssumption
<1> QED BY <1>1 DEF FeedAgrees, Settled, BlockFits, ReorgFits, FinalizeFits

LEMMA OnBlockAgrees ==
  ASSUME WireTypeOK, draining = None, FeedAgrees, event \in BlockEvents,
         OnBlock(event.block, event.logs), EventTaken
  PROVE  /\ FeedAgrees' /\ FeedMoves
         /\ status' \in {"done", status}
         /\ Given' = Append(FeedChain, event.block)
         /\ awaiting' # None => awaiting' = event.block /\ stale' = TRUE
PROOF
<1> DEFINE b == event.block
<1>1. /\ b \in Block /\ event.logs \subseteq Child
      /\ stage = "cadence"
      /\ awaiting \in {None, b}
      /\ awaiting = None => held = None
      /\ Linked(Append(FeedChain, b), durable)
      /\ Agrees(Append(FeedChain, b))
  BY DEF FeedAgrees, BlockFits, BlockEvents
<1>2. /\ Suppress(b) \/ Forward(b, event.logs)
      /\ UNCHANGED <<held, lastFinalized, wildcard, aborted, durable>>
  <2>1. b # None BY <1>1, NoneAssumption
  <2> QED BY <1>1, <2>1 DEF OnBlock
<1>3. event' = None /\ stage' = stage /\ anchor' = anchor /\ window' = window
  BY DEF EventTaken
<1>4. HeldAwaits /\ lastFinalized = Height[durable] BY DEF FeedAgrees
<1>5. FeedChain = ChainOf(feed) /\ feed \in Seq(Forwarded) /\ FeedChain \in Seq(Block)
  BY GivenTyped
<1>6. CASE Suppress(b)
  <2>1. awaiting' = b /\ stale' = TRUE /\ UNCHANGED <<feed, draining, status>>
    BY <1>6 DEF Suppress
  <2>2. FeedChain' = FeedChain BY <2>1 DEF FeedChain
  <2>3. Given' = Append(FeedChain, b)
    BY <1>1, <2>1, <2>2, NoneAssumption DEF Given
  <2>4. HeldAwaits' BY <1>1, <1>2, <1>4, <2>1 DEF HeldAwaits
  <2>5. Linked(Given, durable)' BY <1>1, <1>2, <2>3 DEF Linked
  <2>6. Agrees(Given)' BY <1>1, <1>2, <1>3, <2>3 DEF Agrees
  <2>7. FeedAgrees'
    BY <1>1, <1>2, <1>3, <1>4, <2>4, <2>5, <2>6, SettledAgain
  <2> QED BY <1>2, <2>1, <2>2, <2>3, <2>7 DEF FeedMoves
<1>7. CASE Forward(b, event.logs)
  <2> DEFINE live == LiveAt(created', Height[b])
             sent == IF wildcard THEN event.logs \cap live ELSE event.logs
             x == [block |-> b, logs |-> sent \cap live]
  <2>1. /\ feed' = Append(feed, x)
        /\ awaiting' = None
        /\ draining' = IF held # None THEN b ELSE None
        /\ status' \in {"done", status}
    BY <1>7 DEF Forward, Drained
  <2>2. x \in Forwarded /\ x.block = b BY <1>1 DEF Forwarded
  <2> HIDE DEF x
  <2>3. FeedChain' = Append(FeedChain, b)
    <3>1. 0 \in 0..Len(feed) BY <1>5
    <3>2. FeedChain' = ChainOf(feed') BY DEF FeedChain, ChainOf
    <3>3. ChainOf(Append(feed, x)) = Append(ChainOf(feed), x.block)
      BY <1>5, <2>2, <3>1, ChainOfParts
    <3> QED BY <1>5, <2>1, <2>2, <3>2, <3>3
  <2>4. Given' = Append(FeedChain, b) BY <2>1, <2>3 DEF Given
  <2>5. HeldAwaits' BY <1>1, <1>2, <1>4, <2>1 DEF HeldAwaits
  <2>6. Linked(Given, durable)' BY <1>1, <1>2, <2>4 DEF Linked
  <2>7. Agrees(Given)' BY <1>1, <1>2, <1>3, <2>4 DEF Agrees
  <2>8. FeedAgrees'
    BY <1>1, <1>2, <1>3, <1>4, <2>5, <2>6, <2>7, SettledAgain
  <2>9. Extends(b, IF FeedChain = <<>> THEN durable ELSE FeedChain[Len(FeedChain)])
    <3> DEFINE longer == Append(FeedChain, b)
               n == Len(FeedChain) + 1
    <3>1. /\ Len(FeedChain) \in Nat /\ Len(longer) = n /\ longer[n] = b
          /\ n # 1 => longer[n - 1] = FeedChain[Len(FeedChain)]
          /\ FeedChain = <<>> <=> n = 1
      BY <1>1, <1>5
    <3>2. n \in 1..Len(longer) BY <3>1
    <3> HIDE DEF longer
    <3>3. Linked(longer, durable) BY <1>1 DEF longer
    <3>4. Extends(longer[n], IF n = 1 THEN durable ELSE longer[n - 1])
      BY <3>2, <3>3 DEF Linked
    <3> QED BY <3>1, <3>4
  <2>10. Feed!Give
    BY <1>1, <1>2, <2>3, <2>9 DEF Feed!Give, Feed!Top, Feed!Extends, Extends
  <2> QED BY <2>1, <2>4, <2>8, <2>10 DEF FeedMoves, Feed!FeedNext
<1> QED BY <1>2, <1>6, <1>7

LEMMA OnReorgAgrees ==
  ASSUME WireTypeOK, draining = None, FeedAgrees, event \in ReorgEvents,
         OnReorg(event.block, event.reorged), EventTaken
  PROVE  /\ FeedAgrees' /\ FeedMoves
         /\ status' = status /\ awaiting' = None
         /\ \E k \in 0..Len(feed) :
              /\ feed' = SubSeq(feed, 1, k)
              /\ event.block = (IF k = 0 THEN durable ELSE Given[k])
PROOF
<1>1. /\ stage = "append" /\ held = None /\ anchor = durable
      /\ awaiting # None => Lost(event.reorged)
      /\ lastFinalized = Height[durable]
      /\ Linked(Given, durable)
  BY DEF FeedAgrees, ReorgFits
<1>2. PICK k \in 0..(Len(Given) - 1) :
        /\ window = SubSeq(Given, 1, k)
        /\ event.block = (IF k = 0 THEN durable ELSE Given[k])
  BY DEF FeedAgrees, ReorgFits
<1>3. /\ awaiting' = None /\ held' = None
      /\ feed' = KeptTo(Height[event.block])
      /\ UNCHANGED <<draining, lastFinalized, durable, status>>
  BY <1>1 DEF OnReorg
<1>4. event' = None /\ stage' = stage /\ anchor' = anchor /\ window' = window
  BY DEF EventTaken
<1>5. /\ feed \in Seq(Forwarded) /\ FeedChain = ChainOf(feed)
      /\ FeedChain \in Seq(Block) /\ Len(FeedChain) = Len(feed) /\ Len(feed) \in Nat
      /\ Given \in Seq(Block)
      /\ Len(Given) = (IF awaiting = None THEN Len(feed) ELSE Len(feed) + 1)
      /\ \A i \in 1..Len(feed) : Given[i] = FeedChain[i]
      /\ durable \in Block /\ Height[durable] \in Nat
  BY GivenTyped
<1>6. k \in 0..Len(feed) BY <1>2, <1>5
<1>7. feed' = SubSeq(feed, 1, k)
  <2>1. Height[event.block] = Height[durable] + k
    <3>1. k # 0 => k \in 1..Len(Given) BY <1>2
    <3>2. k # 0 => Height[Given[k]] = Height[durable] + k
      BY <1>1, <1>5, <3>1, LinkedIsNumbered
    <3> QED BY <1>2, <1>5, <3>2
  <2>2. Linked(FeedChain, durable) BY <1>1, FeedIsLinked
  <2>3. LastAtOrBelow(FeedChain, Height[durable] + k) = k
    BY <1>5, <1>6, <2>2, CutAtBlock
  <2> QED BY <1>3, <2>1, <2>3 DEF KeptTo
<1>8. FeedChain' = SubSeq(FeedChain, 1, k)
  <2>1. FeedChain' = ChainOf(feed') BY DEF FeedChain, ChainOf
  <2>2. [block |-> durable, logs |-> {}] \in Forwarded BY <1>5 DEF Forwarded
  <2>3. ChainOf(SubSeq(feed, 1, k)) = SubSeq(ChainOf(feed), 1, k)
    BY <1>5, <1>6, <2>2, ChainOfParts
  <2> QED BY <1>5, <1>7, <2>1, <2>3
<1>9. SubSeq(FeedChain, 1, k) = window
  <2> DEFINE s == SubSeq(FeedChain, 1, k)
             t == SubSeq(Given, 1, k)
  <2>1. /\ s \in Seq(Block) /\ Len(s) = k /\ \A i \in 1..k : s[i] = FeedChain[i]
    BY <1>5, <1>6
  <2>2. /\ t \in Seq(Block) /\ Len(t) = k /\ \A i \in 1..k : t[i] = Given[i]
    BY <1>2, <1>5
  <2>3. \A i \in 1..k : i \in 1..Len(feed) BY <1>6
  <2> HIDE DEF s, t
  <2>4. s = t BY <1>5, <2>1, <2>2, <2>3, SameChain
  <2> QED BY <1>2, <2>4 DEF s, t
<1>10. Given' = window BY <1>3, <1>8, <1>9 DEF Given
<1>11. FeedAgrees'
  <2>1. Linked(window, durable) BY <1>1, <1>2, <1>5, FrontIsChain
  <2>2. Linked(Given, durable)' BY <1>3, <1>10, <2>1 DEF Linked
  <2>3. HeldAwaits' BY <1>3 DEF HeldAwaits
  <2>4. Agrees(Given)' BY <1>1, <1>3, <1>4, <1>10 DEF Agrees
  <2> QED BY <1>1, <1>3, <1>4, <2>2, <2>3, <2>4, SettledAgain
<1>12. FeedMoves
  <2>1. CASE k < Len(feed)
    <3>1. k \in 0..(Len(FeedChain) - 1) BY <1>5, <1>6, <2>1
    <3>2. Feed!RollBack BY <1>3, <1>8, <3>1 DEF Feed!RollBack
    <3> QED BY <3>2 DEF FeedMoves, Feed!FeedNext
  <2>2. CASE k = Len(feed)
    <3>1. SubSeq(FeedChain, 1, k) = FeedChain
      <4> DEFINE s == SubSeq(FeedChain, 1, k)
      <4>1. /\ s \in Seq(Block) /\ Len(s) = k /\ \A i \in 1..k : s[i] = FeedChain[i]
        BY <1>5, <1>6
      <4> HIDE DEF s
      <4>2. s = FeedChain BY <1>5, <2>2, <4>1, SameChain
      <4> QED BY <4>2 DEF s
    <3> QED BY <1>3, <1>8, <3>1 DEF FeedMoves
  <2> QED BY <1>5, <1>6, <2>1, <2>2
<1> QED BY <1>2, <1>3, <1>6, <1>7, <1>11, <1>12

(* What a finalize leaves of a chain ends where the chain did.               *)
LEMMA TailTip ==
  ASSUME NEW chain \in Seq(Block), NEW base, NEW n \in 1..Len(chain)
  PROVE  Tip(SubSeq(chain, n + 1, Len(chain)), chain[n]) = Tip(chain, base)
PROOF
<1> DEFINE back == SubSeq(chain, n + 1, Len(chain))
           m == Len(chain) - n
<1>1. back \in Seq(Block) /\ Len(back) = m /\ \A i \in 1..m : back[i] = chain[i + n]
  OBVIOUS
<1>2. Len(chain) \in Nat /\ m \in Nat /\ n \in Nat /\ m + n = Len(chain) OBVIOUS
<1> SUFFICES Tip(back, chain[n]) = Tip(chain, base) OBVIOUS
<1> HIDE DEF back, m
<1>a. /\ Tip(chain, base) = (IF Len(chain) = 0 THEN base ELSE chain[Len(chain)])
      /\ Tip(back, chain[n]) = (IF Len(back) = 0 THEN chain[n] ELSE back[Len(back)])
  BY <1>1 DEF Tip
<1>b. Len(chain) # 0 OBVIOUS
<1>3. CASE m = 0
  <2>1. n = Len(chain) BY <1>2, <1>3
  <2> QED BY <1>1, <1>3, <1>a, <1>b, <2>1
<1>4. CASE m # 0
  <2>1. m \in 1..m BY <1>2, <1>4
  <2>2. back[m] = chain[m + n] BY <1>1, <2>1
  <2> QED BY <1>1, <1>2, <1>4, <1>a, <1>b, <2>2
<1> QED BY <1>3, <1>4

LEMMA TailOfLonger ==
  ASSUME NEW chain \in Seq(Block), NEW a \in Block, NEW n \in 0..Len(chain)
  PROVE  Append(SubSeq(chain, n + 1, Len(chain)), a)
           = SubSeq(Append(chain, a), n + 1, Len(chain) + 1)
PROOF
<1> DEFINE back == SubSeq(chain, n + 1, Len(chain))
           longer == Append(chain, a)
           s == Append(back, a)
           t == SubSeq(longer, n + 1, Len(chain) + 1)
           m == Len(chain) - n
<1>1. Len(chain) \in Nat /\ m \in Nat /\ n \in Nat /\ m + n = Len(chain) OBVIOUS
<1>2. back \in Seq(Block) /\ Len(back) = m /\ \A i \in 1..m : back[i] = chain[i + n]
  OBVIOUS
<1>3. /\ longer \in Seq(Block) /\ Len(longer) = Len(chain) + 1
      /\ \A i \in 1..Len(chain) : longer[i] = chain[i]
      /\ longer[Len(chain) + 1] = a
  OBVIOUS
<1> HIDE DEF back, longer, m
<1>4. /\ s \in Seq(Block) /\ Len(s) = m + 1
      /\ \A i \in 1..m : s[i] = back[i]
      /\ s[m + 1] = a
  BY <1>1, <1>2
<1>5. t \in Seq(Block) /\ Len(t) = m + 1 /\ \A i \in 1..(m + 1) : t[i] = longer[i + n]
  BY <1>1, <1>3
<1>6. ASSUME NEW i \in 1..(m + 1) PROVE s[i] = t[i]
  <2>1. CASE i = m + 1
    <3>1. t[m + 1] = longer[m + 1 + n] BY <1>1, <1>5
    <3>2. m + 1 + n = Len(chain) + 1 BY <1>1
    <3> QED BY <1>3, <1>4, <2>1, <3>1, <3>2
  <2>2. CASE i # m + 1
    <3>1. i \in 1..m /\ i + n \in 1..Len(chain) BY <1>1, <2>2
    <3> QED BY <1>2, <1>3, <1>4, <1>5, <3>1
  <2> QED BY <2>1, <2>2
<1>7. s = t
  <2> HIDE DEF s, t
  <2> QED BY <1>4, <1>5, <1>6, SameChain
<1> QED BY <1>7 DEF back, longer

(* ponder makes everything up to a block of its chain durable.               *)
LEMMA EmitAgrees ==
  ASSUME WireTypeOK, Linked(Given, durable), lastFinalized = Height[durable],
         NEW n \in 1..Len(feed), EmitFinalize(Given[n]), awaiting' = awaiting
  PROVE  /\ durable' = Given[n] /\ lastFinalized' = Height[durable']
         /\ feed' = SubSeq(feed, n + 1, Len(feed))
         /\ Given' = SubSeq(Given, n + 1, Len(Given))
         /\ Feed!FinalizeUpTo
PROOF
<1>1. /\ feed \in Seq(Forwarded) /\ FeedChain = ChainOf(feed)
      /\ FeedChain \in Seq(Block) /\ Len(FeedChain) = Len(feed) /\ Len(feed) \in Nat
      /\ Given \in Seq(Block)
      /\ Len(Given) = (IF awaiting = None THEN Len(feed) ELSE Len(feed) + 1)
      /\ \A i \in 1..Len(feed) : Given[i] = FeedChain[i]
      /\ awaiting # None => awaiting \in Block
      /\ durable \in Block /\ Height[durable] \in Nat
  BY GivenTyped
<1>2. n \in 1..Len(Given) /\ n \in 0..Len(feed) BY <1>1
<1>3. Height[Given[n]] = Height[durable] + n BY <1>1, <1>2, LinkedIsNumbered
<1>4. ~(Height[Given[n]] <= lastFinalized) BY <1>1, <1>3
<1>5. /\ durable' = Given[n] /\ lastFinalized' = Height[Given[n]]
      /\ feed' = KeptAbove(Height[Given[n]])
  BY <1>4 DEF EmitFinalize
<1>6. feed' = SubSeq(feed, n + 1, Len(feed))
  <2>1. Linked(FeedChain, durable) BY FeedIsLinked
  <2>2. LastAtOrBelow(FeedChain, Height[durable] + n) = n
    BY <1>1, <1>2, <2>1, CutAtBlock
  <2> QED BY <1>3, <1>5, <2>2 DEF KeptAbove
<1>7. FeedChain' = SubSeq(FeedChain, n + 1, Len(FeedChain))
  <2>1. FeedChain' = ChainOf(feed') BY DEF FeedChain, ChainOf
  <2>2. [block |-> durable, logs |-> {}] \in Forwarded BY <1>1 DEF Forwarded
  <2>3. ChainOf(SubSeq(feed, n + 1, Len(feed))) = SubSeq(ChainOf(feed), n + 1, Len(feed))
    BY <1>1, <1>2, <2>2, ChainOfParts
  <2> QED BY <1>1, <1>6, <2>1, <2>3
<1>8. Given' = SubSeq(Given, n + 1, Len(Given))
  <2>1. CASE awaiting = None BY <1>1, <1>7, <2>1 DEF Given
  <2>2. CASE awaiting # None
    <3>1. Given' = Append(FeedChain', awaiting) BY <2>2 DEF Given
    <3>2. Given = Append(FeedChain, awaiting) BY <2>2 DEF Given
    <3>3. Append(SubSeq(FeedChain, n + 1, Len(FeedChain)), awaiting)
            = SubSeq(Append(FeedChain, awaiting), n + 1, Len(FeedChain) + 1)
      BY <1>1, <1>2, <2>2, TailOfLonger
    <3> QED BY <1>1, <1>7, <2>2, <3>1, <3>2, <3>3
  <2> QED BY <2>1, <2>2
<1>9. Feed!FinalizeUpTo
  <2>1. n \in 1..Len(FeedChain) /\ Given[n] = FeedChain[n] BY <1>1
  <2> QED BY <1>5, <1>7, <2>1 DEF Feed!FinalizeUpTo
<1> QED BY <1>5, <1>6, <1>8, <1>9

LEMMA OnFinalizeAgrees ==
  ASSUME WireTypeOK, draining = None, FeedAgrees, event \in FinalizeEvents,
         OnFinalize(event.block), EventTaken
  PROVE  /\ FeedAgrees' /\ FeedMoves
         /\ UNCHANGED <<awaiting, status>>
         /\ \E n \in 0..Len(feed) : feed' = SubSeq(feed, n + 1, Len(feed))
         /\ Tip(Given, durable)' = Tip(Given, durable)
         /\ durable' \in {durable, anchor}
PROOF
<1>1. /\ stage = "pull" /\ held = None /\ event.block = anchor
      /\ lastFinalized = Height[durable] /\ Linked(Given, durable)
  BY DEF FeedAgrees, FinalizeFits
<1>2. PICK n \in 1..Len(Given) :
        anchor = Given[n] /\ window = SubSeq(Given, n + 1, Len(Given))
  BY DEF FeedAgrees, FinalizeFits
<1>3. event' = None /\ stage' = stage /\ anchor' = anchor /\ window' = window
  BY DEF EventTaken
<1>4. /\ feed \in Seq(Forwarded) /\ Len(feed) \in Nat
      /\ Given \in Seq(Block)
      /\ Len(Given) = (IF awaiting = None THEN Len(feed) ELSE Len(feed) + 1)
      /\ awaiting # None => Given[Len(Given)] = awaiting /\ awaiting \in Block
      /\ durable \in Block /\ Height[durable] \in Nat
  BY GivenTyped
<1>5. UNCHANGED <<awaiting, draining, status>> BY DEF OnFinalize
<1>6. \A i \in 1..Len(Given) : Height[Given[i]] = Height[durable] + i
  BY <1>1, <1>4, LinkedIsNumbered
<1>7. anchor \in Block /\ anchor # None BY <1>2, <1>4, NoneAssumption
<1>8. CASE MustHold(anchor)
  <2>1. held' = anchor /\ UNCHANGED <<lastFinalized, feed, durable>>
    BY <1>1, <1>8 DEF OnFinalize
  <2>2. awaiting # None /\ Height[anchor] >= Height[awaiting] BY <1>8 DEF MustHold
  <2>3. Len(Given) \in 1..Len(Given) BY <1>2, <1>4
  <2>4. n = Len(Given) BY <1>2, <1>4, <1>6, <2>2, <2>3
  <2>5. anchor = awaiting BY <1>2, <1>4, <2>2, <2>4
  <2>6. window = <<>> BY <1>2, <1>4, <2>4
  <2>7. Given' = Given /\ FeedChain' = FeedChain BY <1>5, <2>1 DEF Given, FeedChain
  <2>8. Given # <<>> /\ Tip(Given, durable) = anchor BY <1>2, <1>4, <2>4 DEF Tip
  <2>9. Linked(Given, durable)' BY <1>1, <2>1, <2>7 DEF Linked
  <2>10. HeldAwaits' BY <1>5, <2>1, <2>5 DEF HeldAwaits
  <2>11. Agrees(Given)' BY <1>3, <1>7, <2>1, <2>6, <2>7, <2>8 DEF Agrees, Tip
  <2>12. FeedAgrees'
    <3>1. stage' # "append" BY <1>1, <1>3
    <3> QED BY <1>1, <1>3, <2>1, <2>9, <2>10, <2>11, <3>1, SettledAgain
  <2>13. feed' = SubSeq(feed, 0 + 1, Len(feed)) BY <1>4, <2>1
  <2>14. Tip(Given, durable)' = Tip(Given, durable) BY <2>1, <2>7 DEF Tip
  <2> QED BY <1>4, <1>5, <2>1, <2>7, <2>12, <2>13, <2>14 DEF FeedMoves
<1>9. CASE ~MustHold(anchor)
  <2>1. EmitFinalize(Given[n]) /\ held' = None BY <1>1, <1>2, <1>9 DEF OnFinalize
  <2>2. n \in 1..Len(feed)
    <3>1. CASE awaiting = None BY <1>4, <3>1
    <3>2. CASE awaiting # None
      <4>1. ~(Height[anchor] >= Height[awaiting]) BY <1>9, <3>2 DEF MustHold
      <4>2. Len(Given) \in 1..Len(Given) BY <1>2, <1>4
      <4>3. n # Len(Given) BY <1>2, <1>4, <1>6, <3>2, <4>1, <4>2
      <4> QED BY <1>4, <3>2, <4>3
    <3> QED BY <3>1, <3>2
  <2>3. /\ durable' = Given[n] /\ lastFinalized' = Height[durable']
        /\ feed' = SubSeq(feed, n + 1, Len(feed))
        /\ Given' = SubSeq(Given, n + 1, Len(Given))
        /\ Feed!FinalizeUpTo
    BY <1>1, <1>5, <2>1, <2>2, EmitAgrees
  <2>4. Linked(SubSeq(Given, n + 1, Len(Given)), Given[n])
    BY <1>1, <1>2, <1>4, BackIsChain
  <2>5. Linked(Given, durable)' BY <2>3, <2>4 DEF Linked
  <2>6. HeldAwaits' BY <2>1 DEF HeldAwaits
  <2>7. Agrees(Given)' BY <1>2, <1>3, <2>1, <2>3 DEF Agrees
  <2>8. FeedAgrees'
    <3>1. stage' # "append" BY <1>1, <1>3
    <3> QED BY <1>3, <2>3, <2>5, <2>6, <2>7, <3>1, SettledAgain
  <2>9. Tip(SubSeq(Given, n + 1, Len(Given)), Given[n]) = Tip(Given, durable)
    BY <1>2, <1>4, TailTip
  <2>10. Tip(Given, durable)' = Tip(Given, durable) BY <2>3, <2>9 DEF Tip
  <2>11. n \in 0..Len(feed) BY <2>2
  <2> QED BY <1>2, <1>5, <2>3, <2>8, <2>10, <2>11 DEF FeedMoves, Feed!FeedNext
<1> QED BY <1>8, <1>9

(* The finalize held for the block just forwarded catches ponder up.          *)
LEMMA DrainAgrees ==
  ASSUME WireTypeOK, event = None, UNCHANGED eventsVars, FeedAgrees, DrainHeld
  PROVE  /\ FeedAgrees' /\ FeedMoves
         /\ status' \in {"done", status} /\ awaiting' = awaiting
         /\ \E n \in 0..Len(feed) : feed' = SubSeq(feed, n + 1, Len(feed))
         /\ Tip(Given, durable)' = Tip(Given, durable)
         /\ durable' = anchor
PROOF
<1>1. /\ draining # None /\ EmitFinalize(held)
      /\ held' = None /\ draining' = None /\ awaiting' = awaiting
      /\ status' \in {"done", status}
  BY DEF DrainHeld
<1>2. /\ feed \in Seq(Forwarded) /\ Len(feed) \in Nat
      /\ Given \in Seq(Block)
      /\ Len(Given) = (IF awaiting = None THEN Len(feed) ELSE Len(feed) + 1)
  BY GivenTyped
<1>3. held # None BY <1>1 DEF WireTypeOK
<1>4. awaiting = None BY <1>1, <1>3 DEF FeedAgrees, HeldAwaits
<1>5. /\ window = <<>> /\ Given # <<>> /\ anchor = held /\ held = Tip(Given, durable)
      /\ lastFinalized = Height[durable] /\ Linked(Given, durable)
  BY <1>3 DEF FeedAgrees, Settled, Agrees
<1> DEFINE n == Len(feed)
<1>6. n \in 1..Len(feed) /\ n \in 1..Len(Given) /\ held = Given[n] /\ Len(Given) = n
  BY <1>2, <1>4, <1>5 DEF Tip
<1>7. EmitFinalize(Given[n]) BY <1>1, <1>6
<1> HIDE DEF n
<1>8. /\ durable' = Given[n] /\ lastFinalized' = Height[durable']
      /\ feed' = SubSeq(feed, n + 1, Len(feed))
      /\ Given' = SubSeq(Given, n + 1, Len(Given))
      /\ Feed!FinalizeUpTo
  BY <1>1, <1>5, <1>6, <1>7, EmitAgrees
<1>9. Given' = <<>> BY <1>2, <1>6, <1>8
<1>10. event' = None /\ stage' = stage /\ anchor' = anchor /\ window' = window
  BY DEF eventsVars
<1>11. FeedAgrees'
  <2>1. Linked(Given, durable)' BY <1>9 DEF Linked
  <2>2. HeldAwaits' BY <1>1 DEF HeldAwaits
  <2>3. Agrees(Given)' BY <1>1, <1>5, <1>6, <1>8, <1>9, <1>10 DEF Agrees
  <2> QED BY <1>1, <1>4, <1>8, <1>10, <2>1, <2>2, <2>3, SettledAgain
<1>12. Tip(Given, durable)' = Tip(Given, durable)
  BY <1>5, <1>6, <1>8, <1>9 DEF Tip
<1>13. n \in 0..Len(feed) BY <1>6
<1> QED BY <1>1, <1>5, <1>6, <1>8, <1>11, <1>12, <1>13 DEF FeedMoves, Feed!FeedNext

-----------------------------------------------------------------------------
(* The producer yields an event.                                           *)
LEMMA TipAt ==
  ASSUME NEW chain \in Seq(Block), NEW base
  PROVE  Tip(chain, base) = (IF Len(chain) = 0 THEN base ELSE chain[Len(chain)])
PROOF BY DEF Tip

(* Between two events both know the same tip, held finalize or not.          *)
LEMMA SettledTip ==
  ASSUME WireTypeOK, EventsOK, FeedAgrees, event = None
  PROVE  /\ Tip(window, anchor) = Tip(Given, durable)
         /\ awaiting # None => Tip(window, anchor) = awaiting
         /\ window # <<>> => held = None
PROOF
<1>1. Agrees(Given) BY DEF FeedAgrees, Settled
<1>2. Tip(window, anchor) = Tip(Given, durable)
  BY <1>1 DEF Agrees, Tip
<1>3. awaiting # None => Tip(Given, durable) = awaiting
  <2>1. /\ Given \in Seq(Block) /\ Len(feed) \in Nat
        /\ awaiting # None => Len(Given) = Len(feed) + 1 /\ Given[Len(Given)] = awaiting
    BY GivenTyped
  <2>2. Tip(Given, durable) = (IF Len(Given) = 0 THEN durable ELSE Given[Len(Given)])
    BY <2>1, TipAt
  <2> QED BY <2>1, <2>2
<1> QED BY <1>1, <1>2, <1>3 DEF Agrees

LEMMA YieldAgrees ==
  ASSUME WireTypeOK, EventsOK, FeedAgrees, event = None,
         UNCHANGED wireVars, UNCHANGED ponderVars,
         NEW batch \in BlockBatch, NEW redelivered \in BOOLEAN,
         redelivered => awaiting = batch.block,
         ~redelivered => /\ awaiting = None /\ held = None
                         /\ Extends(batch.block, Tip(window, anchor)),
         AppendAndYield(window, batch, redelivered)
  PROVE  /\ FeedAgrees'
         /\ status' = status
         /\ event' = BlockEvent(batch) /\ event' \in BlockEvents
         /\ pending' = None /\ stage' = "cadence"
PROOF
<1> DEFINE b == batch.block
<1>1. b \in Block /\ b # None /\ batch.logs \subseteq Child
  BY NoneAssumption DEF BlockBatch
<1>2. /\ window \in Seq(Block) /\ anchor \in Block
  BY DEF EventsOK, EventsTypeOK
<1>3. /\ Given \in Seq(Block) /\ FeedChain \in Seq(Block) /\ durable \in Block
  BY GivenTyped
<1>4. Agrees(Given) /\ Linked(Given, durable) /\ HeldAwaits /\ lastFinalized = Height[durable]
  BY DEF FeedAgrees, Settled
<1>5. ~redelivered => \/ window = <<>>
                      \/ /\ Extends(b, window[Len(window)])
                         /\ Height[b] > Height[window[Len(window)]]
  <2> SUFFICES ASSUME ~redelivered, window # <<>>
               PROVE  /\ Extends(b, window[Len(window)])
                      /\ Height[b] > Height[window[Len(window)]]
    OBVIOUS
  <2>1. Extends(b, window[Len(window)]) BY DEF Tip
  <2>2. Len(window) \in 1..Len(window) BY <1>2
  <2>3. window[Len(window)] \in Block BY <1>2, <2>2
  <2>4. Height[window[Len(window)]] \in Nat /\ Height[b] = Height[window[Len(window)]] + 1
    BY <1>1, <2>1, <2>3, HeightAssumption DEF Extends
  <2> QED BY <2>1, <2>4
<1>6. /\ window' = IF redelivered THEN window ELSE Append(window, b)
      /\ event' = BlockEvent(batch)
      /\ stage' = "cadence"
      /\ pending' = None
      /\ UNCHANGED <<anchor, deferring, probed, status>>
  BY <1>5 DEF AppendAndYield
<1>7. event' \in BlockEvents /\ event'.block = b BY <1>1, <1>6 DEF BlockEvent, BlockEvents
<1>8. /\ event' # None /\ event' \notin ReorgEvents /\ event' \notin FinalizeEvents
  BY <1>7, NoEventAssumption DEF BlockEvents, ReorgEvents, FinalizeEvents
<1>9. /\ UNCHANGED <<awaiting, held, draining, lastFinalized, feed, durable>>
      /\ FeedChain' = FeedChain /\ Given' = Given
  BY DEF wireVars, ponderVars, FeedChain, Given
<1>10. Linked(Append(FeedChain, b), durable) /\ Agrees(Append(FeedChain, b))'
  <2>1. CASE redelivered
    <3>1. Given = Append(FeedChain, b) BY <1>1, <2>1 DEF Given
    <3> QED BY <1>4, <1>6, <1>9, <2>1, <3>1 DEF Agrees
  <2>2. CASE ~redelivered
    <3>1. Given = FeedChain BY <2>2 DEF Given
    <3>2. window = FeedChain /\ anchor = durable BY <1>4, <2>2, <3>1 DEF Agrees
    <3>3. Linked(Append(FeedChain, b), durable)
      BY <1>1, <1>3, <1>4, <2>2, <3>1, <3>2, AppendIsChain
    <3> QED BY <1>6, <1>9, <2>2, <3>2, <3>3 DEF Agrees
  <2> QED BY <2>1, <2>2
<1>11. BlockFits'
  <2>1. Linked(Append(FeedChain, event.block), durable)'
    BY <1>7, <1>9, <1>10 DEF Linked
  <2>2. Agrees(Append(FeedChain, event.block))' BY <1>7, <1>10 DEF Agrees
  <2>3. awaiting \in {None, b} /\ (awaiting = None => held = None)
    BY <1>1
  <2> QED BY <1>6, <1>7, <1>9, <2>1, <2>2, <2>3 DEF BlockFits
<1>12. Linked(Given, durable)' BY <1>4, <1>9 DEF Linked
<1>13. HeldAwaits' /\ lastFinalized' = Height[durable'] BY <1>4, <1>9 DEF HeldAwaits
<1> QED BY <1>6, <1>7, <1>8, <1>11, <1>12, <1>13
        DEF FeedAgrees, Settled, ReorgFits, FinalizeFits

(* Nothing of the agreement is about the rest of the producer.               *)
LEMMA FeedAgreesKept ==
  ASSUME FeedAgrees, event = None \/ stage' = stage,
         stage' = "append" => stage = "append",
         UNCHANGED <<window, anchor, event>>,
         UNCHANGED <<awaiting, held, draining, lastFinalized, feed, durable>>
  PROVE  FeedAgrees'
PROOF
<1>1. FeedChain' = FeedChain /\ Given' = Given BY DEF FeedChain, Given
<1>2. Linked(Given, durable)' /\ HeldAwaits' /\ lastFinalized' = Height[durable']
  BY <1>1 DEF FeedAgrees, Linked, HeldAwaits
<1>3. Settled' BY <1>1 DEF FeedAgrees, Settled, Agrees, Tip
<1>4. CASE event = None BY <1>2, <1>3, <1>4, NoneIsNoEvent
                        DEF FeedAgrees, BlockFits, ReorgFits, FinalizeFits
<1>5. CASE event # None
  <2>1. stage' = stage BY <1>5
  <2>2. BlockFits'
    <3> SUFFICES ASSUME event \in BlockEvents PROVE BlockFits' BY DEF BlockFits
    <3>1. Linked(Append(FeedChain, event.block), durable)'
      BY <1>1 DEF FeedAgrees, BlockFits, Linked
    <3>2. Agrees(Append(FeedChain, event.block))'
      BY <1>1 DEF FeedAgrees, BlockFits, Agrees, Tip
    <3> QED BY <2>1, <3>1, <3>2 DEF FeedAgrees, BlockFits
  <2>3. ReorgFits' BY <1>1, <2>1 DEF FeedAgrees, ReorgFits, Lost
  <2>4. FinalizeFits' BY <1>1, <2>1 DEF FeedAgrees, FinalizeFits
  <2> QED BY <1>2, <1>3, <2>2, <2>3, <2>4 DEF FeedAgrees
<1> QED BY <1>4, <1>5

LEMMA TakeReorgAgrees ==
  ASSUME WireTypeOK, EventsOK, FeedAgrees, event = None,
         UNCHANGED wireVars, UNCHANGED ponderVars,
         NEW batch \in BlockBatch, TakeReorg(batch)
  PROVE  FeedAgrees' /\ event' \notin BlockEvents
PROOF
<1> DEFINE b == batch.block
           ancestor == CommonAncestor(window, b, anchor)
           gone == ReorgedBlocks(window, b, anchor)
<1>1. /\ window \in Seq(Block) /\ anchor \in Block /\ Linked(window, anchor)
      /\ b \in Block
  BY DEF EventsOK, EventsTypeOK, WindowLinked, BlockBatch
<1>2. IsReorg(window, b, anchor) BY DEF TakeReorg
<1>3. PICK k \in 0..(Len(window) - 1) :
        /\ ancestor = (IF k = 0 THEN anchor ELSE window[k])
        /\ gone = SubSeq(window, k + 1, Len(window))
        /\ TrimTo(window, ancestor) = SubSeq(window, 1, k)
  <2> HIDE DEF b
  <2> QED BY <1>1, <1>2, ReorgCut
<1>4. ancestor \in Block /\ gone \in Seq(Block)
  <2> HIDE DEF b
  <2> QED BY <1>1, <1>2, RollbackMakesRoom DEF IsReorg
<1>5. /\ window' = SubSeq(window, 1, k)
      /\ event' = ReorgEvent(ancestor, gone)
      /\ stage' = "append"
      /\ anchor' = anchor
  BY <1>3 DEF TakeReorg
<1> HIDE DEF b, ancestor, gone
<1>6. /\ event' \in ReorgEvents /\ event'.block = ancestor /\ event'.reorged = gone
  BY <1>4, <1>5 DEF ReorgEvent, ReorgEvents
<1>7. event' # None /\ event' \notin BlockEvents /\ event' \notin FinalizeEvents
  BY <1>6, NoEventAssumption DEF BlockEvents, ReorgEvents, FinalizeEvents
<1>8. /\ Len(window) \in Nat /\ Len(window) # 0 /\ k \in Nat /\ k < Len(window)
      /\ window # <<>>
  BY <1>1, <1>3
<1>9. held = None BY <1>8, SettledTip
<1>10. anchor = durable /\ window = Given
  BY <1>9 DEF FeedAgrees, Settled, Agrees
<1>11. /\ UNCHANGED <<awaiting, held, draining, lastFinalized, feed, durable>>
       /\ FeedChain' = FeedChain /\ Given' = Given
  BY DEF wireVars, ponderVars, FeedChain, Given
<1>12. awaiting # None => Lost(gone)
  <2> SUFFICES ASSUME awaiting # None PROVE Lost(gone) OBVIOUS
  <2>1. Given[Len(Given)] = awaiting BY GivenTyped
  <2>2. /\ Len(gone) = Len(window) - k
        /\ \A i \in 1..(Len(window) - k) : gone[i] = window[i + k]
    BY <1>1, <1>3, <1>8
  <2>3. Len(window) - k \in 1..Len(gone) /\ (Len(window) - k) + k = Len(window)
    BY <1>8, <2>2
  <2>4. gone[Len(window) - k] = window[Len(window)] BY <2>2, <2>3
  <2> QED BY <1>10, <2>1, <2>3, <2>4 DEF Lost
<1>13. ReorgFits'
  <2>1. /\ window' = SubSeq(Given', 1, k)
        /\ event'.block = (IF k = 0 THEN durable' ELSE Given'[k])
        /\ k \in 0..(Len(Given') - 1)
    BY <1>3, <1>5, <1>6, <1>10, <1>11
  <2>2. awaiting' # None => Lost(event.reorged)' BY <1>6, <1>11, <1>12 DEF Lost
  <2> QED BY <1>5, <1>9, <1>10, <1>11, <2>1, <2>2 DEF ReorgFits
<1>14. Linked(Given, durable)' /\ HeldAwaits' /\ lastFinalized' = Height[durable']
  BY <1>11 DEF FeedAgrees, Linked, HeldAwaits
<1> QED BY <1>7, <1>13, <1>14 DEF FeedAgrees, Settled, BlockFits, FinalizeFits

LEMMA TakeBlockAgrees ==
  ASSUME WireTypeOK, EventsOK, FeedAgrees, event = None, draining = None, stage = "pull",
         UNCHANGED wireVars, UNCHANGED ponderVars,
         NEW batch \in BlockBatch, TakeBlock(batch, awaiting = batch.block),
         awaiting # None => Height[batch.block] <= Height[awaiting]
  PROVE  /\ FeedAgrees'
         /\ \/ /\ event' = BlockEvent(batch) /\ event' \in BlockEvents
               /\ pending' = None /\ stage' = "cadence" /\ status' = status
            \/ /\ stage' = "append" /\ pending' = batch /\ event' \notin BlockEvents
               /\ status' = status
            \/ status' = "gap" /\ UNCHANGED eventsVars
            \/ awaiting = None /\ UNCHANGED eventsVars /\ status' = status
PROOF
<1>1. /\ Tip(window, anchor) = Tip(Given, durable)
      /\ awaiting # None => Tip(window, anchor) = awaiting
  BY SettledTip
<1>2. batch.block \in Block /\ batch.block # None /\ window \in Seq(Block) /\ anchor \in Block
  BY NoneAssumption DEF BlockBatch, EventsOK, EventsTypeOK
<1>3. UNCHANGED <<awaiting, held, draining, lastFinalized, feed, durable>>
  BY DEF wireVars, ponderVars
<1>4. UNCHANGED eventsVars => FeedAgrees'
  BY <1>3, FeedAgreesKept DEF eventsVars
<1>5. CASE TakeDuplicate(batch, awaiting = batch.block)
  <2>1. CASE awaiting = batch.block
    <3>1. AppendAndYield(window, batch, TRUE) BY <1>5, <2>1 DEF TakeDuplicate
    <3> QED BY <2>1, <3>1, YieldAgrees
  <2>2. CASE awaiting # batch.block
    <3>1. UNCHANGED eventsVars /\ status' = status BY <1>5, <2>2 DEF TakeDuplicate
    <3>2. awaiting = None BY <1>1, <1>5, <2>2 DEF TakeDuplicate, IsDuplicate
    <3> QED BY <1>4, <3>1, <3>2
  <2> QED BY <2>1, <2>2
<1>6. CASE TakeAppend(batch)
  <2>1. /\ Extends(batch.block, Tip(window, anchor))
        /\ AppendAndYield(window, batch, FALSE)
    BY <1>6 DEF TakeAppend, IsAppend
  <2>2. awaiting = None
    <3> SUFFICES ASSUME awaiting # None PROVE FALSE OBVIOUS
    <3>1. awaiting \in Block BY GivenTyped
    <3>2. Height[batch.block] = Height[awaiting] + 1 /\ Height[awaiting] \in Nat
      BY <1>1, <1>2, <2>1, <3>1, HeightAssumption DEF Extends
    <3> QED BY <3>2
  <2>3. held = None BY <2>2 DEF FeedAgrees, HeldAwaits
  <2> QED BY <2>1, <2>2, <2>3, YieldAgrees
<1>7. CASE TakeReorg(batch)
  <2>1. stage' = "append" /\ pending' = batch /\ status' = status
    BY <1>7 DEF TakeReorg
  <2> QED BY <1>7, <2>1, TakeReorgAgrees
<1>8. CASE TakeGap(batch)
  <2>1. status' = "gap" /\ UNCHANGED eventsVars BY <1>8 DEF TakeGap, Fatal
  <2> QED BY <1>4, <2>1
<1> QED BY <1>5, <1>6, <1>7, <1>8 DEF TakeBlock

(* The finality cadence.                                                   *)
LEMMA CadenceAgrees ==
  ASSUME WireTypeOK, EventsOK, FeedAgrees, event = None,
         UNCHANGED wireVars, UNCHANGED ponderVars,
         NEW fh, fh = None \/ fh.number \in Nat, CadencePoll(fh) \/ CadenceSkip
  PROVE  /\ FeedAgrees'
         /\ status' \in {status, "starved", "wrongFork", "lagging"}
         /\ stage' \in {"pull", "cadence"} /\ pending' = pending
         /\ event' \notin BlockEvents
PROOF
<1>1. UNCHANGED <<awaiting, held, draining, lastFinalized, feed, durable>>
  BY DEF wireVars, ponderVars
<1>2. stage = "cadence" /\ event \notin BlockEvents
  BY NoneIsNoEvent DEF CadencePoll, CadenceSkip
<1> DEFINE tip == FinalizedTip(window, fh.number)
<1>3. CASE /\ stage' \in {"pull", "cadence"} /\ pending' = pending
           /\ status' \in {status, "starved", "wrongFork", "lagging"}
           /\ UNCHANGED <<window, anchor, event>>
  <2>1. FeedAgrees' BY <1>1, <1>2, <1>3, FeedAgreesKept
  <2> QED BY <1>2, <1>3, <2>1
<1>4. CASE /\ tip # None /\ fh.number \in Nat
           /\ anchor' = tip
           /\ window' = Remaining(window, fh.number)
           /\ event' = FinalizeEvent(tip)
           /\ stage' = "pull" /\ pending' = pending
           /\ status' = status
  <2>1. window \in Seq(Block) /\ anchor \in Block BY DEF EventsOK, EventsTypeOK
  <2> DEFINE n == fh.number
  <2>11. n \in Int /\ FinalizedTip(window, n) # None BY <1>4
  <2> HIDE DEF n
  <2>2. PICK k \in 1..Len(window) :
          /\ FinalizedTip(window, n) = window[k]
          /\ Remaining(window, n) = SubSeq(window, k + 1, Len(window))
    BY <2>1, <2>11, FinalizeCut
  <2>12. tip = window[k] /\ Remaining(window, fh.number) = SubSeq(window, k + 1, Len(window))
    BY <2>2 DEF n
  <2> HIDE DEF tip
  <2>3. tip \in Block /\ window # <<>> BY <2>1, <2>12
  <2>4. event' \in FinalizeEvents /\ event'.block = tip
    BY <1>4, <2>3 DEF FinalizeEvent, FinalizeEvents
  <2>5. event' # None /\ event' \notin BlockEvents /\ event' \notin ReorgEvents
    BY <2>4, NoEventAssumption DEF BlockEvents, ReorgEvents, FinalizeEvents
  <2>6. held = None BY <2>3, SettledTip
  <2>7. anchor = durable /\ window = Given
    BY <2>6 DEF FeedAgrees, Settled, Agrees
  <2>8. FeedChain' = FeedChain /\ Given' = Given BY <1>1 DEF FeedChain, Given
  <2>9. FinalizeFits' BY <1>1, <1>4, <2>4, <2>6, <2>7, <2>8, <2>12 DEF FinalizeFits
  <2>10. Linked(Given, durable)' /\ HeldAwaits' /\ lastFinalized' = Height[durable']
    BY <1>1, <2>8 DEF FeedAgrees, Linked, HeldAwaits
  <2> QED BY <1>4, <2>5, <2>9, <2>10 DEF FeedAgrees, Settled, BlockFits, ReorgFits
<1>5. CASE CadenceSkip
  BY <1>2, <1>3, <1>5 DEF CadenceSkip
<1>6. CASE CadencePoll(fh)
  <2>1. CASE fh = None
    BY <1>3, <1>6, <2>1 DEF CadencePoll, PollFailed
  <2>2. CASE fh # None /\ PollStarved(fh)
    BY <1>2, <1>3, <1>6, <2>2 DEF PollStarved, Fatal, eventsVars
  <2>3. CASE fh # None /\ PollApply(fh)
    <3>1. fh.number \in Nat BY <2>3
    <3> QED BY <1>2, <1>3, <1>4, <2>3, <3>1 DEF PollApply, Fatal
  <2> QED BY <1>6, <2>1, <2>2, <2>3 DEF CadencePoll
<1> QED BY <1>5, <1>6

-----------------------------------------------------------------------------
(* The follower stays behind the block that is awaited.                      *)
LEMMA NoBatch == None \notin BlockBatch /\ Tick \notin BlockBatch
PROOF
<1>1. \A x \in BlockBatch : x \in Batches BY DEF BlockBatch, Batches, Batch
<1>2. Tick \notin BlockBatch BY DEF BlockBatch, Tick
<1> QED BY <1>1, <1>2, NoItemAssumption

(* An open connection serves no block numbered past its last one's child.     *)
LEMMA ServedNext ==
  ASSUME ServerTypeOK, NEW last \in Block, NEW b \in NextServed(last)
  PROVE  b \in Block /\ Height[b] <= Height[last] + 1
PROOF
<1> DEFINE shared == Canonical \cap Ancestry[last]
           join == Highest(shared)
<1>1. b \in Block BY DEF NextServed
<1>2. head \in Block BY DEF ServerTypeOK
<1>3. Root \in shared BY <1>2, AncestryEnds DEF Canonical
<1>4. \A a \in shared : a \in Block /\ Height[a] <= Height[last]
  BY AncestryAssumption, AncestryBelow
<1>5. Height[last] \in Nat /\ \A a \in Block : Height[a] \in Nat BY HeightAssumption
<1> HIDE DEF shared
<1>6. join \in shared
  <2>1. \A a \in shared : Height[a] < Height[last] + 1 BY <1>4, <1>5
  <2>2. shared \subseteq Block /\ shared # {} /\ Height[last] + 1 \in Int
    BY <1>3, <1>4, <1>5
  <2> QED BY <2>1, <2>2, HighestExists
<1> HIDE DEF join
<1>7. Extends(b, join) \/ Extends(b, last) BY DEF NextServed, join, shared
<1>8. \A a \in Block : Extends(b, a) => Height[b] = Height[a] + 1
  BY <1>1, HeightAssumption DEF Extends
<1>9. join \in Block /\ Height[join] <= Height[last] BY <1>4, <1>6
<1>10. Height[join] \in Nat BY <1>5, <1>9
<1>11. CASE Extends(b, join)
  <2>1. Height[b] = Height[join] + 1 BY <1>8, <1>9, <1>11
  <2> QED BY <1>1, <1>5, <1>9, <1>10, <2>1
<1>12. CASE Extends(b, last)
  <2>1. Height[b] = Height[last] + 1 BY <1>8, <1>12
  <2> QED BY <1>1, <1>5, <2>1
<1> QED BY <1>7, <1>11, <1>12

(* A negotiation never moves the cursor up.                                 *)
LEMMA ConflictLowers ==
  ASSUME HotOK, ServerTypeOK, NEW lo, HotConflict(lo)
  PROVE  /\ cursor' <= cursor
         /\ UNCHANGED <<ring, dropped, conn, item>>
         /\ status' \in {status, "belowFloor", "oscillation"}
PROOF
<1>1. PICK prev \in PreviousBlocks(cursor) : Negotiate(prev, lo)
  BY DEF HotConflict
<1> DEFINE confirmed == {b \in prev : /\ Height[b] >= lo
                                      /\ Height[b] \in DOMAIN ring
                                      /\ ring[Height[b]] = b}
           target == IF confirmed = {} THEN cursor - 1
                     ELSE Height[Highest(confirmed)] + 1
<1>2. cursor \in Nat BY DEF HotOK, HotTypeOK
<1>3. prev \subseteq Block /\ \A b \in prev : Height[b] < cursor
  BY <1>1, AncestryAssumption DEF PreviousBlocks, Canonical, ServerTypeOK
<1>4. target <= cursor
  <2>1. CASE confirmed = {} BY <1>2, <2>1
  <2>2. CASE confirmed # {}
    <3> HIDE DEF confirmed
    <3>1. confirmed \subseteq Block /\ \A b \in confirmed : Height[b] < cursor
      BY <1>3 DEF confirmed
    <3>2. Highest(confirmed) \in confirmed BY <1>2, <2>2, <3>1, HighestExists
    <3>3. Height[Highest(confirmed)] \in Nat /\ Height[Highest(confirmed)] < cursor
      BY <3>1, <3>2, HeightAssumption
    <3> QED BY <1>2, <2>2, <3>3
  <2> QED BY <2>1, <2>2
<1>5. \/ Fatal("belowFloor") /\ UNCHANGED hotVars
      \/ /\ cursor' = target
         /\ status' \in {status, "oscillation"}
         /\ UNCHANGED <<ring, dropped, conn, item>>
  BY <1>1 DEF Negotiate, Fatal
<1> HIDE DEF target
<1> QED BY <1>2, <1>4, <1>5 DEF hotVars, Fatal

(* Nothing moves but what the follower's place does not depend on.           *)
LEMMA BehindKept ==
  ASSUME FollowerBehind, ~BlockOut, ~BlockOut',
         pending' \notin BlockBatch,
         UNCHANGED <<cursor, conn, awaiting, stale>>, Running' => Running
  PROVE  FollowerBehind'
PROOF BY DEF FollowerBehind, Carried, RedeliveryFirst, BlockOut, BlockBatch

(* The follower's own steps.                                               *)
LEMMA FollowerAgrees ==
  ASSUME IInv, AgreeInv, Follower
  PROVE  AgreeInv' /\ FeedMoves
PROOF
<1>1. /\ ServerTypeOK /\ HotOK /\ WireTypeOK /\ EventsTypeOK
      /\ FeedAgrees /\ FollowerBehind /\ Quiet
  BY DEF IInv, AgreeInv, EventsOK
<1>2. /\ stage = "pull" /\ event = None /\ draining = None
      /\ UNCHANGED eventsVars
      /\ UNCHANGED <<awaiting, held, draining, lastFinalized, feed, durable>>
  BY DEF Follower, Evicted, Rejected, Conflict, NoData, Open, Deliver, Heartbeat,
         Cut, Resume, Unserved, EventsAndWireUnchanged, clientVars, wireVars,
         ponderVars, RequestOpened, Idle
<1>3. FeedAgrees' BY <1>1, <1>2, FeedAgreesKept DEF eventsVars
<1>4. FeedMoves BY <1>2 DEF FeedMoves, FeedChain
<1>5. /\ pending = None /\ pending' = None /\ pending' \notin BlockBatch
      /\ stage' = "pull" /\ event' = None /\ event' \notin BlockEvents
  BY <1>1, <1>2, NoBatch, NoneIsNoEvent DEF EventsTypeOK, eventsVars
<1>6. cursor \in Nat /\ conn \in {None} \cup Connection
  BY <1>1 DEF HotOK, HotTypeOK
<1>7. awaiting \in {None} \cup Block /\ awaiting' = awaiting
  BY <1>1, <1>2 DEF WireTypeOK
<1>8. \A b \in Block : Height[b] \in Nat BY HeightAssumption
<1>9. ASSUME ~Running', item' = item, conn' = conn PROVE FollowerBehind'
  BY <1>1, <1>5, <1>7, <1>9 DEF FollowerBehind, Carried, RedeliveryFirst, Brings
<1>10. ASSUME conn = None \/ conn.reading, conn' = None \/ conn' = conn,
              item' \notin BlockBatch, cursor' <= cursor, cursor' \in Nat,
              Running' => Running
       PROVE  FollowerBehind'
  <2>1. Carried' BY <1>5, <1>10 DEF Carried
  <2>2. RedeliveryFirst'
    <3> SUFFICES ASSUME Running', awaiting # None
                 PROVE  cursor' <= Height[awaiting] /\ (conn' = None \/ conn'.reading)
      BY <1>7 DEF RedeliveryFirst
    <3>1. cursor <= Height[awaiting]
      BY <1>1, <1>10 DEF FollowerBehind, RedeliveryFirst
    <3> QED BY <1>6, <1>7, <1>8, <1>10, <3>1
  <2> QED BY <2>1, <2>2 DEF FollowerBehind
<1>11. FollowerBehind' /\ Quiet'
  <2>1. CASE Evicted
    <3>1. status' = "evicted" /\ item' = item /\ conn' = conn
      BY <2>1 DEF Evicted, HotEvicted, Fatal, hotVars
    <3> QED BY <1>9, <3>1 DEF Running, Quiet
  <2>2. CASE Unserved
    <3>1. status' = "unserved" /\ item' = item /\ conn' = conn
      BY <2>2 DEF Unserved, Fatal, hotVars, clientVars
    <3> QED BY <1>9, <3>1 DEF Running, Quiet
  <2>3. CASE Rejected
    <3>1. /\ conn = None /\ item = None /\ status' \in {status, "rejected"}
          /\ UNCHANGED <<cursor, conn, item>>
      BY <2>3 DEF Rejected, HotRejected, Requesting, Fatal
    <3>2. item' \notin BlockBatch /\ (Running' => Running)
      BY <3>1, NoBatch DEF Running
    <3>3. FollowerBehind' BY <1>6, <1>10, <3>1, <3>2
    <3> QED BY <1>1, <3>1, <3>3 DEF Quiet
  <2>4. CASE Conflict
    <3>1. /\ conn = None /\ item = None /\ cursor' <= cursor
          /\ status' \in {status, "belowFloor", "oscillation"}
          /\ UNCHANGED <<conn, item>>
      BY <1>1, <2>4, ConflictLowers DEF Conflict, HotConflict, Requesting
    <3>2. cursor' \in Nat
      <4>1. status \in Statuses BY DEF IInv
      <4>2. HotOK' BY <1>1, <2>4, <4>1, HotConflictStep DEF Conflict
      <4> QED BY <4>2 DEF HotOK, HotTypeOK
    <3>3. item' \notin BlockBatch /\ (Running' => Running)
      BY <3>1, NoBatch DEF Running
    <3>4. FollowerBehind' BY <1>10, <3>1, <3>2, <3>3
    <3> QED BY <1>1, <3>1, <3>4 DEF Quiet
  <2>5. CASE NoData
    <3>1. conn = None /\ item' = Tick /\ UNCHANGED <<cursor, conn, status>>
      BY <2>5 DEF NoData, HotNoData, Requesting
    <3>2. FollowerBehind' BY <1>6, <1>10, <3>1, NoBatch DEF Running
    <3> QED BY <1>1, <3>1, <3>2 DEF Quiet
  <2>6. CASE Heartbeat \/ Cut
    <3>1. /\ conn # None /\ conn.reading /\ item' = Tick
          /\ conn' \in {conn, None} /\ UNCHANGED <<cursor, status>>
      BY <2>6 DEF Heartbeat, Cut, HotHeartbeat, HotCut, Reading
    <3>2. FollowerBehind' BY <1>6, <1>10, <3>1, NoBatch DEF Running
    <3> QED BY <1>1, <3>1, <3>2 DEF Quiet
  <2>7. CASE Open
    <3>1. /\ Running /\ conn = None /\ item = None /\ conn'.reading
          /\ UNCHANGED <<cursor, item, status>>
      BY <2>7 DEF Open, HotOpen, Requesting
    <3>2. Carried' BY <1>5, <3>1, NoBatch DEF Carried
    <3>3. RedeliveryFirst' BY <1>1, <1>7, <3>1 DEF FollowerBehind, RedeliveryFirst
    <3> QED BY <1>1, <3>1, <3>2, <3>3 DEF FollowerBehind, Quiet
  <2>8. CASE Resume
    <3>1. /\ Running /\ item = None /\ conn # None /\ ~conn.reading
          /\ IF stale THEN conn' = None /\ cursor' = cursor - 1
                      ELSE conn' = [conn EXCEPT !.reading = TRUE] /\ UNCHANGED cursor
          /\ UNCHANGED <<item, status>>
      BY <2>8 DEF Resume, HotResume
    <3>2. Carried' BY <1>5, <3>1, NoBatch DEF Carried
    <3>3. RedeliveryFirst'
      <4> SUFFICES ASSUME awaiting # None
                   PROVE  cursor' <= Height[awaiting] /\ (conn' = None \/ conn'.reading)
        BY <1>7 DEF RedeliveryFirst
      <4>1. ~BlockOut BY <1>2, <3>1, NoBatch, NoneIsNoEvent DEF BlockOut
      <4>2. stale /\ cursor <= Height[awaiting] + 1
        BY <1>1, <3>1, <4>1 DEF FollowerBehind, RedeliveryFirst
      <4> QED BY <1>6, <1>7, <1>8, <3>1, <4>2
    <3> QED BY <1>1, <3>1, <3>2, <3>3 DEF FollowerBehind, Quiet
  <2>9. CASE Deliver
    <3>1. PICK b \in NextServed(conn.last) :
            /\ cursor' = Height[b] + 1
            /\ item' = Batch(b, ChildLogs[b] \cap conn.filter)
            /\ conn' = [conn EXCEPT !.last = b, !.reading = FALSE]
      BY <2>9 DEF Deliver, HotDeliver
    <3>2. /\ Running /\ conn # None /\ conn.reading /\ status' = status
      BY <2>9 DEF Deliver, HotDeliver, Reading
    <3>3. conn \in Connection /\ conn.last \in Block BY <1>6, <3>2 DEF Connection
    <3>4. b \in Block /\ Height[b] <= Height[conn.last] + 1
      BY <1>1, <3>3, ServedNext
    <3>5. cursor = Height[conn.last] + 1 BY <1>1, <3>2 DEF HotOK, CursorFollows
    <3>6. conn' \in Connection /\ ~conn'.reading /\ conn'.last = b
      BY <3>1, <3>3, <3>4 DEF Connection
    <3>7. item' \in BlockBatch /\ item'.block = b
      <4>1. ChildLogs[b] \cap conn.filter \in SUBSET Child BY <3>4, ChildAssumption
      <4> QED BY <3>1, <3>4, <4>1 DEF Batch, BlockBatch
    <3>8. awaiting # None => Height[b] <= Height[awaiting]
      <4>1. awaiting # None => cursor <= Height[awaiting]
        BY <1>1, <3>2 DEF FollowerBehind, RedeliveryFirst
      <4> QED BY <1>7, <1>8, <3>3, <3>4, <3>5, <4>1
    <3>9. Carried' BY <1>5, <1>7, <3>6, <3>7, <3>8 DEF Carried, Brings
    <3>10. RedeliveryFirst'
      <4>1. awaiting # None => cursor' <= Height[awaiting] + 1
        BY <1>7, <1>8, <3>1, <3>4, <3>8
      <4>2. conn' # None BY <3>6, NoItemAssumption
      <4> QED BY <1>7, <3>6, <3>7, <4>1, <4>2 DEF RedeliveryFirst, BlockOut
    <3> QED BY <1>1, <3>2, <3>9, <3>10 DEF FollowerBehind, Quiet
  <2> QED BY <2>1, <2>2, <2>3, <2>4, <2>5, <2>6, <2>7, <2>8, <2>9 DEF Follower
<1> QED BY <1>3, <1>4, <1>11 DEF AgreeInv

(* The producer takes an item, or comes back for the block behind a reorg.     *)
LEMMA ItemAgrees ==
  ASSUME IInv, AgreeInv, OnItem
  PROVE  AgreeInv'
PROOF
<1>1. /\ WireTypeOK /\ EventsOK /\ EventsTypeOK
      /\ FeedAgrees /\ FollowerBehind /\ Quiet
  BY DEF IInv, AgreeInv, EventsOK
<1>2. /\ Running /\ item # None /\ item \in Item
      /\ stage = "pull" /\ event = None /\ draining = None /\ pending = None
  BY DEF OnItem, IInv, HotOK, HotTypeOK, TakeTurns, EventsOK, EventsTypeOK
<1>3. /\ item' = None /\ UNCHANGED <<cursor, conn>>
      /\ UNCHANGED wireVars /\ UNCHANGED ponderVars
      /\ UNCHANGED <<awaiting, held, draining, lastFinalized, stale, feed, durable>>
  BY DEF OnItem, ItemTaken, wireVars, ponderVars
<1>4. item' \notin BlockBatch BY <1>3, NoBatch
<1>5. CASE item = Tick
  <2>1. /\ stage' = "cadence"
        /\ UNCHANGED <<window, anchor, pending, event, status>>
    BY <1>5 DEF OnItem, TakeTick, Tick
  <2>2. FeedAgrees' BY <1>1, <1>2, <1>3, <2>1, FeedAgreesKept
  <2>3. ~BlockOut /\ ~BlockOut' /\ pending' \notin BlockBatch
    BY <1>2, <1>4, <1>5, <2>1, NoBatch, NoneIsNoEvent DEF BlockOut
  <2>4. FollowerBehind' BY <1>1, <1>3, <2>1, <2>3, BehindKept DEF Running
  <2> QED BY <1>1, <2>1, <2>2, <2>4 DEF AgreeInv, Quiet
<1>6. CASE item # Tick
  <2>1. item \in BlockBatch /\ item.kind # "tick"
    BY <1>2, <1>6 DEF Item, Batches, Batch, BlockBatch
  <2>2. TakeBlock(item, awaiting = item.block) BY <2>1 DEF OnItem
  <2>3. Brings(item.block) BY <1>1, <2>1 DEF FollowerBehind, Carried
  <2>4. /\ FeedAgrees'
        /\ \/ /\ event' = BlockEvent(item) /\ event' \in BlockEvents
              /\ pending' = None /\ stage' = "cadence" /\ status' = status
           \/ /\ stage' = "append" /\ pending' = item /\ event' \notin BlockEvents
              /\ status' = status
           \/ status' = "gap" /\ UNCHANGED eventsVars
           \/ awaiting = None /\ UNCHANGED eventsVars /\ status' = status
    <3>1. awaiting # None => Height[item.block] <= Height[awaiting]
      BY <2>3 DEF Brings
    <3> QED BY <1>1, <1>2, <1>3, <2>1, <2>2, <3>1, TakeBlockAgrees
  <2>6. /\ conn' \in Connection /\ ~conn'.reading /\ conn'.last = item.block
        /\ awaiting' # None => Height[item.block] <= Height[awaiting']
    BY <1>3, <2>3 DEF Brings
  <2>7. Quiet' BY <1>1, <2>4 DEF Quiet
  <2>8. awaiting # None => /\ cursor <= Height[awaiting] + 1
                           /\ conn # None /\ ~conn.reading
    BY <1>1, <1>2, <2>3, NoItemAssumption DEF FollowerBehind, RedeliveryFirst, Brings
  <2>9. Carried' /\ RedeliveryFirst'
    <3>1. CASE /\ event' = BlockEvent(item) /\ event' \in BlockEvents
               /\ pending' = None /\ stage' = "cadence"
      <4>1. event'.block = item.block BY <3>1 DEF BlockEvent
      <4> QED BY <1>3, <1>4, <2>6, <2>8, <3>1, <4>1, NoBatch
              DEF Carried, Brings, RedeliveryFirst, BlockOut
    <3>2. CASE stage' = "append" /\ pending' = item /\ event' \notin BlockEvents
      BY <1>3, <1>4, <2>6, <2>8, <3>2 DEF Carried, Brings, RedeliveryFirst, BlockOut
    <3>3. CASE UNCHANGED eventsVars /\ (awaiting = None \/ status' = "gap")
      <4>1. event' \notin BlockEvents /\ pending' \notin BlockBatch
        BY <1>2, <3>3, NoBatch, NoneIsNoEvent DEF eventsVars
      <4> QED BY <1>3, <1>4, <3>3, <4>1 DEF Carried, RedeliveryFirst, Running
    <3> QED BY <2>4, <3>1, <3>2, <3>3
  <2> QED BY <2>4, <2>7, <2>9 DEF AgreeInv, FollowerBehind
<1> QED BY <1>5, <1>6

LEMMA ProducerAgrees ==
  ASSUME IInv, AgreeInv, Producer
  PROVE  AgreeInv' /\ FeedMoves
PROOF
<1>1. /\ WireTypeOK /\ EventsOK /\ EventsTypeOK
      /\ FeedAgrees /\ FollowerBehind /\ Quiet
  BY DEF IInv, AgreeInv, EventsOK
<1>2. UNCHANGED wireVars /\ UNCHANGED ponderVars
  BY DEF Producer, OnItem, AppendBlock, Skip, PollAny, Poll
<1>3. UNCHANGED <<awaiting, held, draining, lastFinalized, stale, feed, durable>>
  BY <1>2 DEF wireVars, ponderVars
<1>4. FeedMoves BY <1>3 DEF FeedMoves, FeedChain
<1>5. CASE OnItem BY <1>4, <1>5, ItemAgrees
<1>6. ASSUME UNCHANGED hotVars, event = None, stage # "pull"
      PROVE  /\ UNCHANGED <<cursor, conn, item>>
             /\ item = None /\ item' \notin BlockBatch
  BY <1>6, NoBatch DEF hotVars, IInv, TakeTurns
<1>7. CASE AppendBlock
  <2>1. /\ stage = "append" /\ event = None /\ UNCHANGED hotVars
        /\ AppendAndYield(window, pending, FALSE)
    BY <1>7 DEF AppendBlock, AppendAfterReorg
  <2>2. UNCHANGED <<cursor, conn, item>> /\ item' \notin BlockBatch BY <1>6, <2>1
  <2>3. awaiting = None /\ held = None BY <1>1, <2>1 DEF FeedAgrees, Settled
  <2>4. pending \in BlockBatch /\ Extends(pending.block, Tip(window, anchor))
    BY <1>1, <2>1 DEF EventsOK, EventsTypeOK, AppendFits, BlockBatch
  <2>5. /\ FeedAgrees'
        /\ status' = status
        /\ event' = BlockEvent(pending) /\ event' \in BlockEvents
        /\ pending' = None /\ stage' = "cadence"
    BY <1>1, <1>2, <2>1, <2>3, <2>4, YieldAgrees
  <2>6. event'.block = pending.block BY <2>5 DEF BlockEvent
  <2>7. Brings(pending.block) BY <1>1, <2>4 DEF FollowerBehind, Carried
  <2>8. Carried'
    BY <1>3, <2>2, <2>3, <2>5, <2>6, <2>7, NoBatch DEF Carried, Brings
  <2>9. RedeliveryFirst' BY <1>3, <2>3 DEF RedeliveryFirst
  <2> QED BY <1>1, <1>4, <2>5, <2>8, <2>9 DEF AgreeInv, FollowerBehind, Quiet
<1>8. ASSUME NEW fh, fh = None \/ fh.number \in Nat,
             CadencePoll(fh) \/ CadenceSkip, UNCHANGED hotVars
      PROVE  AgreeInv'
  <2>1. stage = "cadence" /\ event = None /\ pending = None
    BY <1>1, <1>8 DEF CadencePoll, CadenceSkip, EventsTypeOK
  <2>2. /\ FeedAgrees'
        /\ status' \in {status, "starved", "wrongFork", "lagging"}
        /\ stage' \in {"pull", "cadence"} /\ pending' = pending
        /\ event' \notin BlockEvents
    BY <1>1, <1>2, <1>8, <2>1, CadenceAgrees
  <2>3. UNCHANGED <<cursor, conn, item>> /\ item = None /\ item' \notin BlockBatch
    BY <1>6, <1>8, <2>1
  <2>4. ~BlockOut /\ ~BlockOut' /\ pending' \notin BlockBatch
    BY <2>1, <2>2, <2>3, NoBatch, NoneIsNoEvent DEF BlockOut
  <2>5. Running' => Running BY <2>2 DEF Running
  <2>6. FollowerBehind' BY <1>1, <1>3, <2>3, <2>4, <2>5, BehindKept
  <2>7. Quiet' BY <1>1, <2>2 DEF Quiet
  <2> QED BY <2>2, <2>6, <2>7 DEF AgreeInv
<1>9. CASE Skip
  BY <1>4, <1>8, <1>9, NoneAssumption DEF Skip
<1>10. CASE PollAny
  <2>1. PICK fh \in FinalizedHeads : CadencePoll(fh) BY <1>10 DEF PollAny, Poll
  <2>2. final \in Block BY AncestryAssumption DEF IInv, ServerTypeOK
  <2>3. fh = None \/ fh.number \in Nat
    BY <2>1, <2>2, AncestryAssumption, HeightAssumption DEF FinalizedHeads
  <2>4. UNCHANGED hotVars BY <1>10 DEF PollAny, Poll
  <2>5. AgreeInv' BY <1>8, <2>1, <2>3, <2>4
  <2> QED BY <1>4, <2>5
<1> QED BY <1>5, <1>7, <1>9, <1>10 DEF Producer

-----------------------------------------------------------------------------
(* The wire takes an event, drains a finalize, or gives up.                  *)
LEMMA EventAgrees ==
  ASSUME IInv, AgreeInv, OnEvent
  PROVE  AgreeInv' /\ FeedMoves
PROOF
<1>1. /\ WireTypeOK /\ EventsTypeOK /\ draining = None /\ item = None
      /\ FeedAgrees /\ FollowerBehind /\ Quiet
  BY DEF IInv, AgreeInv, EventsOK, OnEvent, TakeTurns
<1>2. /\ Running /\ event # None /\ EventTaken
      /\ event \in BlockEvents \cup ReorgEvents \cup FinalizeEvents
      /\ UNCHANGED <<cursor, conn, item>>
  BY <1>1 DEF OnEvent, EventsTypeOK, hotVars
<1>3. event' = None /\ stage' = stage /\ pending' = pending BY <1>2 DEF EventTaken
<1>4. event' \notin BlockEvents /\ item' \notin BlockBatch /\ item \notin BlockBatch
  BY <1>1, <1>2, <1>3, NoBatch, NoEventAssumption
<1>5. CASE event \in BlockEvents
  <2>1. event.block \in Block /\ OnBlock(event.block, event.logs)
    BY <1>5 DEF OnEvent, BlockEvents
  <2>2. /\ FeedAgrees' /\ FeedMoves
        /\ status' \in {"done", status}
        /\ awaiting' # None => awaiting' = event.block /\ stale' = TRUE
    BY <1>1, <1>2, <1>5, <2>1, OnBlockAgrees
  <2>3. Brings(event.block) /\ cursor = Height[event.block] + 1
    <3>1. Brings(event.block) BY <1>1, <1>5 DEF FollowerBehind, Carried
    <3> QED BY <3>1, NoItemAssumption DEF Brings, IInv, HotOK, CursorFollows
  <2>4. pending = None
    BY <1>1, <1>5 DEF FeedAgrees, BlockFits, EventsTypeOK
  <2>5. Carried' BY <1>3, <1>4, <2>4, NoBatch DEF Carried
  <2>6. Height[event.block] \in Nat BY <2>1, HeightAssumption
  <2>7. RedeliveryFirst'
    BY <1>2, <2>2, <2>3, <2>6, NoItemAssumption DEF RedeliveryFirst, Brings
  <2> QED BY <1>1, <2>2, <2>5, <2>7 DEF AgreeInv, FollowerBehind, Quiet
<1>6. CASE event \in ReorgEvents
  <2>1. OnReorg(event.block, event.reorged) BY <1>6 DEF OnEvent, ReorgEvents
  <2>2. FeedAgrees' /\ FeedMoves /\ status' = status /\ awaiting' = None
    BY <1>1, <1>2, <1>6, <2>1, OnReorgAgrees
  <2>3. Carried'
    BY <1>1, <1>2, <1>3, <1>4, <2>2 DEF FollowerBehind, Carried, Brings
  <2>4. RedeliveryFirst' BY <2>2 DEF RedeliveryFirst
  <2> QED BY <1>1, <2>2, <2>3, <2>4 DEF AgreeInv, FollowerBehind, Quiet
<1>7. CASE event \in FinalizeEvents
  <2>1. OnFinalize(event.block) BY <1>7 DEF OnEvent, FinalizeEvents
  <2>2. FeedAgrees' /\ FeedMoves /\ UNCHANGED <<awaiting, status>>
    BY <1>1, <1>2, <1>7, <2>1, OnFinalizeAgrees
  <2>3. stage = "pull" /\ pending = None
    BY <1>1, <1>7 DEF FeedAgrees, FinalizeFits, EventsTypeOK
  <2>4. event \notin BlockEvents BY <1>7 DEF BlockEvents, FinalizeEvents
  <2>5. ~BlockOut /\ ~BlockOut' /\ pending' \notin BlockBatch
    BY <1>3, <1>4, <2>3, <2>4, NoBatch DEF BlockOut
  <2>6. stale' = stale BY <2>1 DEF OnFinalize
  <2>7. FollowerBehind' BY <1>1, <1>2, <2>2, <2>5, <2>6, BehindKept DEF Running
  <2> QED BY <1>1, <2>2, <2>7 DEF AgreeInv, Quiet
<1> QED BY <1>2, <1>5, <1>6, <1>7

LEMMA WireAgrees ==
  ASSUME IInv, AgreeInv, Wire
  PROVE  AgreeInv' /\ FeedMoves
PROOF
<1>1. /\ WireTypeOK /\ FeedAgrees /\ FollowerBehind /\ Quiet
  BY DEF IInv, AgreeInv
<1>2. CASE OnEvent BY <1>2, EventAgrees
<1>3. CASE Drain
  <2>1. /\ Running /\ DrainHeld /\ UNCHANGED <<cursor, conn, item>>
        /\ UNCHANGED eventsVars
    BY <1>3 DEF Drain, hotVars
  <2>2. draining # None /\ stale' = stale BY <2>1 DEF DrainHeld
  <2>3. event = None BY <2>2 DEF IInv, TakeTurns
  <2>4. /\ FeedAgrees' /\ FeedMoves
        /\ status' \in {"done", status} /\ awaiting' = awaiting
    BY <1>1, <2>1, <2>3, DrainAgrees
  <2>5. /\ Running' => Running
        /\ UNCHANGED <<item, event, stage, pending>>
    BY <2>1, <2>4 DEF Running, eventsVars
  <2>6. FollowerBehind'
    BY <1>1, <2>1, <2>2, <2>4, <2>5
       DEF FollowerBehind, Carried, Brings, RedeliveryFirst, BlockOut
  <2> QED BY <1>1, <2>4, <2>6 DEF AgreeInv, Quiet
<1>4. CASE Watchdog
  <2>1. /\ UNCHANGED <<cursor, conn, item>> /\ UNCHANGED eventsVars
        /\ UNCHANGED <<awaiting, held, draining, lastFinalized, stale, status>>
        /\ UNCHANGED <<feed, durable>>
    BY <1>4 DEF Watchdog, WatchdogFires, hotVars, ponderVars
  <2>2. FeedAgrees' BY <1>1, <2>1, FeedAgreesKept DEF eventsVars
  <2>3. FollowerBehind'
    BY <1>1, <2>1
       DEF FollowerBehind, Carried, Brings, RedeliveryFirst, BlockOut, eventsVars, Running
  <2> QED BY <1>1, <2>1, <2>2, <2>3 DEF AgreeInv, Quiet, FeedMoves, FeedChain
<1> QED BY <1>2, <1>3, <1>4 DEF Wire

(* The process starts, and starts again: both believe in one block.          *)
Started ==
  /\ window = <<>> /\ anchor = durable /\ lastFinalized = Height[durable]
  /\ feed = <<>> /\ awaiting = None /\ held = None
  /\ event = None /\ item = None /\ pending = None
  /\ status = "running" /\ stage = "pull"

LEMMA StartAgrees == Started => AgreeInv
PROOF
<1> SUFFICES ASSUME Started PROVE AgreeInv OBVIOUS
<1> USE DEF Started
<1>1. FeedChain = <<>> /\ Given = <<>> BY DEF FeedChain, Given
<1>2. Linked(Given, durable) BY <1>1 DEF Linked
<1>3. FeedAgrees
  BY <1>1, <1>2, NoneIsNoEvent
     DEF FeedAgrees, HeldAwaits, Settled, Agrees, BlockFits, ReorgFits, FinalizeFits
<1>4. FollowerBehind
  BY NoBatch, NoneIsNoEvent DEF FollowerBehind, Carried, RedeliveryFirst
<1> QED BY <1>3, <1>4 DEF AgreeInv, Quiet

LEMMA AgreeInit == Init => AgreeInv
PROOF
<1> SUFFICES ASSUME Init PROVE AgreeInv OBVIOUS
<1>1. Started BY DEF Started, Init, HotInit, EventsInit, WireInit
<1> QED BY <1>1, StartAgrees

-----------------------------------------------------------------------------
(* Finality.  With hash-carrying probes, what is final here is final there.   *)
FinalInv == HashProbes => {anchor, durable} \subseteq Ancestry[final]

LEMMA FinalGrows ==
  ASSUME ServerTypeOK, Server
  PROVE  Ancestry[final] \subseteq Ancestry[final'] /\ UNCHANGED <<anchor, durable>>
PROOF
<1>1. ServerNext /\ UNCHANGED <<anchor, durable>>
  BY DEF Server, clientVars, eventsVars, ponderVars
<1>2. final \in Block BY AncestryAssumption DEF ServerTypeOK
<1>3. CASE Produce \/ SwitchHead BY <1>1, <1>3 DEF Produce, SwitchHead
<1>4. CASE Finalize
  <2>1. final' \in Canonical /\ Extends(final', final) BY <1>4 DEF Finalize
  <2>2. final' \in Block \ {Root} /\ Parent[final'] = final
    BY <2>1, AncestryAssumption DEF Canonical, ServerTypeOK, Extends
  <2> QED BY <1>1, <2>2, AncestryAssumption
<1> QED BY <1>1, <1>3, <1>4 DEF ServerNext

(* Only a verified block becomes the anchor.                                *)
LEMMA PollIsCanonical ==
  ASSUME HashProbes, ServerTypeOK, EventsOK,
         NEW fh \in FinalizedHeads, CadencePoll(fh)
  PROVE  anchor' = anchor \/ anchor' \in Ancestry[final]
PROOF
<1>1. fh = None \/ \E b \in Ancestry[final] : fh = [number |-> Height[b], hash |-> b]
  BY DEF FinalizedHeads
<1>2. Ancestry[final] \subseteq Block BY AncestryAssumption DEF ServerTypeOK
<1>3. CASE fh = None \/ PollStarved(fh)
  BY <1>3 DEF CadencePoll, PollFailed, PollStarved, PollApply, eventsVars
<1>4. CASE fh # None /\ PollApply(fh)
  <2>1. PICK b \in Ancestry[final] : fh = [number |-> Height[b], hash |-> b]
    BY <1>1, <1>4
  <2>2. b \in Block /\ Height[b] \in Nat /\ fh.hash = b /\ fh.number = Height[b] /\ b # None
    BY <1>2, <2>1, HeightAssumption, NoneAssumption
  <2> DEFINE tip == FinalizedTip(window, Height[b])
  <2>3. \/ anchor' = anchor
        \/ /\ anchor' = tip /\ tip # None
           /\ ~Diverged(fh, tip) /\ ~Unverifiable(fh, tip)
    BY <1>4, <2>2 DEF PollApply
  <2>4. CASE tip # None /\ ~Diverged(fh, tip) /\ ~Unverifiable(fh, tip)
    <3> DEFINE cut == LastAtOrBelow(window, Height[b])
    <3>1. window \in Seq(Block) BY DEF EventsOK, EventsTypeOK
    <3>2. cut \in 0..Len(window) /\ (cut = 0 \/ Height[window[cut]] <= Height[b])
      BY <2>2, <3>1, CutPosition
    <3>3. cut # 0 /\ tip = window[cut] BY <2>4 DEF FinalizedTip
    <3> HIDE DEF cut, tip
    <3>4. tip \in Block /\ Height[tip] <= Height[b] /\ Height[tip] \in Nat
      BY <3>1, <3>2, <3>3, HeightAssumption
    <3>5. Height[tip] = Height[b] BY <2>2, <2>4, <3>4 DEF Unverifiable
    <3> QED BY <2>1, <2>2, <2>3, <2>4, <3>5 DEF Diverged
  <2> QED BY <2>3, <2>4
<1> QED BY <1>3, <1>4 DEF CadencePoll

(* A restart goes on from what is durable, on the chain the Portal serves.     *)
LEMMA RestartIsCanonical ==
  ASSUME HashProbes, ServerTypeOK, WireTypeOK, FinalInv, Restart
  PROVE  /\ anchor' = durable' /\ durable' \in Ancestry[final]
         /\ Feed!Recover
PROOF
<1>1. PICK rpc \in {Height[b] : b \in Ancestry[final]},
           probe \in {Height[b] : b \in Ancestry[final]}, start \in Block :
        /\ rpc >= Height[durable]
        /\ start \in Canonical
        /\ Height[start] = Boundary(rpc, probe, Height[durable])
        /\ anchor' = start /\ durable' = start
  BY DEF Restart
<1>2. feed' = <<>> BY DEF Restart
<1>3. /\ head \in Block /\ final \in Block /\ final \in Ancestry[head]
      /\ Ancestry[final] \subseteq Ancestry[head]
      /\ durable \in Ancestry[final]
  BY AncestryAssumption DEF ServerTypeOK, FinalInv
<1>4. PICK a \in Ancestry[final], c \in Ancestry[final] :
        rpc = Height[a] /\ probe = Height[c]
  OBVIOUS
<1>5. /\ Height[a] \in Nat /\ Height[c] \in Nat /\ Height[durable] \in Nat
      /\ Height[a] <= Height[final] /\ Height[final] \in Nat
  BY <1>3, AncestryAssumption, AncestryBelow, HeightAssumption
<1>6. /\ Height[start] >= Height[durable] /\ Height[start] <= Height[final]
  BY <1>1, <1>4, <1>5 DEF Boundary
<1>7. start \in Ancestry[final]
  BY <1>1, <1>3, <1>6, AncestryOrdered DEF Canonical
<1>8. durable \in Ancestry[start]
  BY <1>1, <1>3, <1>5, <1>6, AncestryOrdered DEF Canonical
<1>9. FeedChain' = <<>> BY <1>2 DEF FeedChain
<1> QED BY <1>1, <1>7, <1>8, <1>9 DEF Feed!Recover

LEMMA RestartAgrees ==
  ASSUME Restart
  PROVE  AgreeInv'
PROOF
<1>1. Started'
  BY DEF Restart, Started
<1>2. (Started => AgreeInv)' BY StartAgrees, PTL
<1> QED BY <1>1, <1>2

(* Steps that move none of the variables the agreement is about.              *)
LEMMA AgreeKept ==
  ASSUME AgreeInv, Running' => Running, Quiet', UNCHANGED <<cursor, conn, item>>,
         UNCHANGED eventsVars, UNCHANGED wireVars, UNCHANGED ponderVars
  PROVE  AgreeInv' /\ FeedMoves
PROOF
<1>1. UNCHANGED <<awaiting, held, draining, lastFinalized, stale, feed, durable>>
  BY DEF wireVars, ponderVars
<1>2. FeedAgrees' BY <1>1, FeedAgreesKept DEF AgreeInv, eventsVars
<1>3. FollowerBehind'
  BY <1>1 DEF AgreeInv, FollowerBehind, Carried, Brings, RedeliveryFirst, BlockOut,
              eventsVars
<1> QED BY <1>1, <1>2, <1>3 DEF AgreeInv, FeedMoves, FeedChain

LEMMA AgreeNext ==
  ASSUME IInv, AgreeInv, [Next]_vars
  PROVE  AgreeInv' /\ (FeedMoves \/ Restart)
PROOF
<1>1. CASE Follower BY <1>1, FollowerAgrees
<1>2. CASE Producer BY <1>2, ProducerAgrees
<1>3. CASE Wire BY <1>3, WireAgrees
<1>4. CASE Restart BY <1>4, RestartAgrees
<1>5. CASE Crash
  <2>1. /\ status' = "crashed" /\ UNCHANGED <<cursor, conn, item>>
        /\ UNCHANGED eventsVars /\ UNCHANGED wireVars /\ UNCHANGED ponderVars
    BY <1>5 DEF Crash, Fatal, clientVars, hotVars
  <2>2. Quiet' /\ ~Running' BY <2>1 DEF Quiet, Running
  <2> QED BY <2>1, <2>2, AgreeKept
<1>6. CASE Server \/ UNCHANGED vars
  <2>1. /\ status' = status /\ UNCHANGED <<cursor, conn, item>>
        /\ UNCHANGED eventsVars /\ UNCHANGED wireVars /\ UNCHANGED ponderVars
    BY <1>6 DEF Server, vars, clientVars, hotVars
  <2>2. Quiet' /\ (Running' => Running) BY <2>1 DEF AgreeInv, Quiet, Running
  <2> QED BY <2>1, <2>2, AgreeKept
<1> QED BY <1>1, <1>2, <1>3, <1>4, <1>5, <1>6 DEF Next, Stopped

LEMMA FinalNext ==
  ASSUME IInv, AgreeInv, FinalInv, [Next]_vars
  PROVE  FinalInv'
PROOF
<1> SUFFICES ASSUME HashProbes PROVE {anchor', durable'} \subseteq Ancestry[final']
  BY DEF FinalInv
<1>1. ServerTypeOK /\ EventsOK /\ EventsTypeOK /\ WireTypeOK /\ FeedAgrees
  BY DEF IInv, AgreeInv, EventsOK
<1>2. {anchor, durable} \subseteq Ancestry[final] BY DEF FinalInv
<1>3. CASE Server BY <1>1, <1>2, <1>3, FinalGrows
<1>4. CASE UNCHANGED <<anchor, durable, final>> BY <1>2, <1>4
<1>5. CASE Follower \/ Crash \/ Watchdog \/ UNCHANGED vars
  <2>1. UNCHANGED <<anchor, durable, final>>
    BY <1>5 DEF Follower, Evicted, Rejected, Conflict, NoData, Open, Deliver, Heartbeat,
           Cut, Resume, Unserved, EventsAndWireUnchanged, RestUnchanged, clientVars,
           eventsVars, serverVars, ponderVars, RequestOpened, Crash, Watchdog,
           WatchdogFires, vars
  <2> QED BY <1>4, <2>1
<1>6. CASE Producer
  <2>1. UNCHANGED <<durable, final>>
    BY <1>6 DEF Producer, OnItem, AppendBlock, Skip, PollAny, Poll, ponderVars,
                RestUnchanged, serverVars
  <2>2. CASE PollAny
    <3>1. PICK fh \in FinalizedHeads : CadencePoll(fh) BY <2>2 DEF PollAny, Poll
    <3>2. anchor' = anchor \/ anchor' \in Ancestry[final]
      BY <1>1, <3>1, PollIsCanonical
    <3> QED BY <1>2, <2>1, <3>2
  <2>3. CASE OnItem \/ AppendBlock \/ Skip
    <3>1. anchor' = anchor
      BY <2>3 DEF OnItem, AppendBlock, Skip, TakeTick, TakeBlock, TakeDuplicate, TakeAppend,
              TakeReorg, TakeGap, AppendAfterReorg, AppendAndYield, CadenceSkip, eventsVars
    <3> QED BY <1>2, <2>1, <3>1
  <2> QED BY <1>6, <2>2, <2>3 DEF Producer
<1>7. CASE OnEvent
  <2>1. /\ draining = None /\ EventTaken /\ anchor' = anchor /\ final' = final
        /\ event \in BlockEvents \cup ReorgEvents \cup FinalizeEvents
    BY <1>1, <1>7 DEF OnEvent, EventTaken, RestUnchanged, serverVars, IInv, TakeTurns,
                      EventsTypeOK
  <2>2. durable' \in {durable, anchor}
    <3>1. CASE event \in BlockEvents
      <4>1. OnBlock(event.block, event.logs) BY <1>7, <3>1 DEF OnEvent, BlockEvents
      <4> QED BY <4>1 DEF OnBlock, ponderVars
    <3>2. CASE event \in ReorgEvents
      <4>1. OnReorg(event.block, event.reorged) BY <1>7, <3>2 DEF OnEvent, ReorgEvents
      <4> QED BY <4>1 DEF OnReorg
    <3>3. CASE event \in FinalizeEvents
      <4>1. OnFinalize(event.block) BY <1>7, <3>3 DEF OnEvent, FinalizeEvents
      <4> QED BY <1>1, <2>1, <3>3, <4>1, OnFinalizeAgrees
    <3> QED BY <2>1, <3>1, <3>2, <3>3
  <2> QED BY <1>2, <2>1, <2>2
<1>8. CASE Drain
  <2>1. DrainHeld /\ UNCHANGED eventsVars /\ anchor' = anchor /\ final' = final
    BY <1>8 DEF Drain, eventsVars, RestUnchanged, serverVars
  <2>2. event = None BY <2>1 DEF DrainHeld, IInv, TakeTurns
  <2>3. durable' = anchor BY <1>1, <2>1, <2>2, DrainAgrees
  <2> QED BY <1>2, <2>1, <2>3
<1>9. CASE Restart
  <2>1. anchor' = durable' /\ durable' \in Ancestry[final]
    BY <1>1, <1>9, RestartIsCanonical
  <2>2. final' = final BY <1>9 DEF Restart, serverVars
  <2> QED BY <2>1, <2>2
<1> QED BY <1>3, <1>5, <1>6, <1>7, <1>8, <1>9 DEF Next, Wire, Stopped

LEMMA FinalInit == Init => FinalInv
PROOF BY RootAssumption, AncestryAssumption
      DEF Init, ServerInit, EventsInit, WireInit, FinalInv

LEMMA AgreeInductive == Spec => [](IInv /\ AgreeInv /\ FinalInv)
PROOF
<1>1. IInv /\ AgreeInv /\ FinalInv /\ [Next]_vars => AgreeInv' /\ FinalInv'
  BY AgreeNext, FinalNext
<1> QED BY <1>1, InitOK, AgreeInit, FinalInit, NextOK, PTL DEF Spec

-----------------------------------------------------------------------------
(* An append always links (INV-10), and while a redelivery is awaited no other *)
(* block reaches the wire: the follower serves nothing numbered above it.     *)
THEOREM TripwiresStaySilent == Spec => []TripwiresSilent
PROOF
<1>1. AgreeInv => TripwiresSilent BY DEF AgreeInv, Quiet, TripwiresSilent
<1> QED BY <1>1, AgreeInductive, PTL

(* Between two events the producer and ponder hold the same block for final,   *)
(* unless a finalize waits for a redelivery.                               *)
THEOREM FinalityIsOne == Spec => []FinalityAgrees
PROOF
<1>1. AgreeInv => FinalityAgrees
  BY DEF AgreeInv, FeedAgrees, Settled, Agrees, FinalityAgrees
<1> QED BY <1>1, AgreeInductive, PTL

(* Between two events ponder holds exactly the blocks of the producer's chain  *)
(* above what is durable, but for the one suppressed for its redelivery.      *)
THEOREM FeedIsWindow == Spec => []FeedMatchesWindow
PROOF
<1>1. ASSUME IInv, AgreeInv, event = None
      PROVE  Ancestry[Tip(window, anchor)] \ Ancestry[durable]
               = FeedBlocks \cup ({awaiting} \ {None})
  <2>1. WireTypeOK /\ EventsOK /\ FeedAgrees BY <1>1 DEF IInv, AgreeInv
  <2>2. Tip(window, anchor) = Tip(Given, durable) BY <1>1, <2>1, SettledTip
  <2>3. /\ Given \in Seq(Block) /\ durable \in Block /\ Linked(Given, durable)
        /\ Len(feed) \in Nat /\ FeedChain = ChainOf(feed) /\ feed \in Seq(Forwarded)
        /\ Len(Given) = (IF awaiting = None THEN Len(feed) ELSE Len(feed) + 1)
        /\ \A i \in 1..Len(feed) : Given[i] = FeedChain[i]
        /\ awaiting # None => Given[Len(Given)] = awaiting
    BY <2>1, GivenTyped DEF FeedAgrees
  <2>4. /\ Ancestry[Tip(Given, durable)]
             = Ancestry[durable] \cup {Given[i] : i \in 1..Len(Given)}
        /\ \A i \in 1..Len(Given) : Given[i] \notin Ancestry[durable]
    BY <2>3, ChainIsHistory
  <2>5. {Given[i] : i \in 1..Len(Given)} = FeedBlocks \cup ({awaiting} \ {None})
    <3>1. \A i \in 1..Len(feed) : Given[i] = feed[i].block
      BY <2>3, ChainOfTyped
    <3>2. CASE awaiting = None BY <2>3, <3>1, <3>2 DEF FeedBlocks
    <3>3. CASE awaiting # None
      <4>1. 1..Len(Given) = 1..Len(feed) \cup {Len(Given)} BY <2>3, <3>3
      <4> QED BY <2>3, <3>1, <3>3, <4>1 DEF FeedBlocks
    <3> QED BY <3>2, <3>3
  <2> QED BY <2>2, <2>4, <2>5
<1>2. IInv /\ AgreeInv => FeedMatchesWindow BY <1>1 DEF FeedMatchesWindow
<1> QED BY <1>2, AgreeInductive, PTL

(* With hash-carrying probes ponder makes no block durable that the Portal has *)
(* not finalized: no fork is ever persisted as final.                      *)
THEOREM FinalIsCanonical ==
  ASSUME HashProbes
  PROVE  Spec => []FinalizedCanonical
PROOF
<1>1. FinalInv => FinalizedCanonical BY DEF FinalInv, FinalizedCanonical
<1> QED BY <1>1, AgreeInductive, PTL

(* What ponder is given is an unbroken chain on a finalized base: the realtime *)
(* path implements RealtimeFeed.  A probe without hashes lets a block of a     *)
(* lost fork become durable, and a restart then leaves it: so such a Portal is  *)
(* covered only for a process that is not started again.                    *)
THEOREM ImplementsFeed ==
  ASSUME HashProbes \/ MaxBoots = 0
  PROVE  Spec => FeedSpec
PROOF
<1>1. Init => Feed!FeedInit
  BY DEF Init, WireInit, Feed!FeedInit, FeedChain
<1>2. ASSUME IInv, AgreeInv, FinalInv, [Next]_vars
      PROVE  [Feed!FeedNext]_<<durable, FeedChain>>
  <2>1. FeedMoves \/ Restart BY <1>2, AgreeNext
  <2>2. CASE Restart
    <3>1. HashProbes
      <4>1. boots \in 0..MaxBoots BY <1>2 DEF IInv
      <4>2. boots < MaxBoots BY <2>2 DEF Restart
      <4>3. MaxBoots # 0 BY <4>1, <4>2, BootAssumption
      <4> QED BY <4>3
    <3>2. Feed!Recover BY <1>2, <2>2, <3>1, RestartIsCanonical DEF IInv
    <3> QED BY <3>2 DEF Feed!FeedNext
  <2> QED BY <2>1, <2>2 DEF FeedMoves
<1>3. IInv /\ AgreeInv /\ FinalInv /\ [Next]_vars => [Feed!FeedNext]_<<durable, FeedChain>>
  BY <1>2
<1> QED BY <1>1, <1>3, AgreeInductive, PTL
        DEF Spec, FeedSpec, Feed!FeedSpec, Feed!feedVars

-----------------------------------------------------------------------------
(* The logs.  The children the wire knows are those a backfill up to the tip    *)
(* would find, the request asks for all of them, and a connection that still    *)
(* reads carries them all: only the block that waits for its redelivery may     *)
(* have been streamed without its own children.                             *)
ChildrenMatch == created = Backfilled(Tip(Given, durable))

RequestMatches == wildcard \/ requested = Live(created)

FilterCovers ==
  conn # None => /\ wildcard => conn.filter = Child
                 /\ awaiting = None \/ ~stale => Live(created) \subseteq conn.filter

CarriedLogs ==
  /\ item \in BlockBatch => item.logs = ChildLogs[item.block] \cap conn.filter
  /\ pending \in BlockBatch => pending.logs = ChildLogs[pending.block] \cap conn.filter
  /\ event \in BlockEvents => event.logs = ChildLogs[event.block] \cap conn.filter

(* What is read, or read again, comes under the newest filter.               *)
FreshFilter ==
  /\ conn # None /\ (conn.reading \/ item \in BlockBatch) => ~stale
  /\ awaiting # None /\ BlockOut => ~stale

LogsInv ==
  /\ ChildrenMatch /\ RequestMatches /\ FilterCovers /\ CarriedLogs /\ FreshFilter
  /\ LogsComplete

Births(b, c) == {a \in Ancestry[b] : c \in Creates[a]}

LEMMA BackfilledAt ==
  ASSUME NEW b \in Block, NEW c \in Child
  PROVE  /\ Births(b, c) = {} => Backfilled(b)[c] = None
         /\ \A a \in Births(b, c) :
              (\A x \in Births(b, c) : Height[a] <= Height[x]) => Backfilled(b)[c] = Height[a]
         /\ Births(b, c) # {} =>
              \E a \in Births(b, c) : \A x \in Births(b, c) : Height[a] <= Height[x]
         /\ \A a \in Births(b, c) : a \in Block /\ Height[a] \in Nat /\ Height[a] # None
PROOF
<1> DEFINE births == Births(b, c)
           heights == {Height[a] : a \in births}
           IsFirst(a) == a \in births /\ \A x \in births : Height[a] <= Height[x]
           first == CHOOSE a \in births : \A x \in births : Height[a] <= Height[x]
<1>1. \A a \in births : a \in Block /\ Height[a] \in Nat /\ Height[a] # None
  BY AncestryAssumption, HeightAssumption, NoneAssumption DEF Births
<1>2. Backfilled(b)[c] = IF births = {} THEN None ELSE Height[first]
  BY DEF Backfilled, Births
<1> HIDE DEF births
<1>3. births # {} => \E a \in births : IsFirst(a)
  <2> SUFFICES ASSUME births # {} PROVE \E a \in births : IsFirst(a) OBVIOUS
  <2>1. heights \subseteq Nat /\ heights # {} BY <1>1
  <2>2. \E n \in heights : \A m \in heights : n <= m
    <3> HIDE DEF heights
    <3> QED BY <2>1, LeastElement
  <2> QED BY <2>2
<1>4. ASSUME NEW a \in births, IsFirst(a) PROVE Backfilled(b)[c] = Height[a]
  <2>1. first \in births /\ \A x \in births : Height[first] <= Height[x] BY <1>4
  <2>2. Height[first] <= Height[a] /\ Height[a] <= Height[first] BY <1>4, <2>1
  <2>3. Height[first] \in Nat /\ Height[a] \in Nat BY <1>1, <1>4, <2>1
  <2> QED BY <1>2, <1>4, <2>2, <2>3
<1> QED BY <1>1, <1>2, <1>3, <1>4 DEF births

(* A child is known exactly when a block of the chain created it.            *)
LEMMA BackfilledLive ==
  ASSUME NEW b \in Block
  PROVE  /\ Live(Backfilled(b)) = {c \in Child : Births(b, c) # {}}
         /\ LiveAt(Backfilled(b), Height[b]) = Live(Backfilled(b))
PROOF
<1>1. \A a \in Ancestry[b] : Height[a] <= Height[b] BY AncestryBelow
<1>2. ASSUME NEW c \in Child
      PROVE  /\ Births(b, c) = {} => Backfilled(b)[c] = None
             /\ Births(b, c) # {} => /\ Backfilled(b)[c] # None
                                     /\ Backfilled(b)[c] <= Height[b]
  <2>1. CASE Births(b, c) = {} BY <2>1, BackfilledAt
  <2>2. CASE Births(b, c) # {}
    <3>1. PICK a \in Births(b, c) : \A x \in Births(b, c) : Height[a] <= Height[x]
      BY <2>2, BackfilledAt
    <3>2. Backfilled(b)[c] = Height[a] /\ Height[a] # None BY <3>1, BackfilledAt
    <3>3. Height[a] <= Height[b] BY <1>1 DEF Births
    <3> QED BY <2>2, <3>2, <3>3
  <2> QED BY <2>1, <2>2
<1> QED BY <1>2 DEF Live, LiveAt

(* The wire's discovery in one more block is the backfill of one block more.   *)
LEMMA BackfillGrows ==
  ASSUME NEW p \in Block, NEW b \in Block, Extends(b, p)
  PROVE  Backfilled(b) = [c \in Child |-> IF c \in Creates[b] \ Live(Backfilled(p))
                                          THEN Height[b] ELSE Backfilled(p)[c]]
PROOF
<1>1. Ancestry[b] = Ancestry[p] \cup {b}
  BY AncestryAssumption DEF Extends
<1>2. Height[b] \in Nat /\ Height[p] \in Nat /\ Height[b] = Height[p] + 1
  BY HeightAssumption DEF Extends
<1>3. \A a \in Ancestry[p] : Height[a] <= Height[p] BY AncestryBelow
<1>4. ASSUME NEW c \in Child
      PROVE  Backfilled(b)[c] = IF c \in Creates[b] \ Live(Backfilled(p))
                                THEN Height[b] ELSE Backfilled(p)[c]
  <2>1. Births(b, c) = Births(p, c) \cup (IF c \in Creates[b] THEN {b} ELSE {})
    BY <1>1 DEF Births
  <2>2. c \in Live(Backfilled(p)) <=> Births(p, c) # {} BY BackfilledLive
  <2>3. CASE Births(p, c) # {}
    <3>1. PICK a \in Births(p, c) : \A x \in Births(p, c) : Height[a] <= Height[x]
      BY <2>3, BackfilledAt
    <3>2. Backfilled(p)[c] = Height[a] /\ Height[a] \in Nat BY <3>1, BackfilledAt
    <3>3. Height[a] <= Height[p] BY <1>3 DEF Births
    <3>4. a \in Births(b, c) /\ \A x \in Births(b, c) : Height[a] <= Height[x]
      BY <1>2, <2>1, <3>1, <3>2, <3>3
    <3>5. Backfilled(b)[c] = Height[a] BY <3>4, BackfilledAt
    <3> QED BY <2>2, <2>3, <3>2, <3>5
  <2>4. CASE Births(p, c) = {} /\ c \in Creates[b]
    <3>1. Births(b, c) = {b} BY <2>1, <2>4
    <3>2. b \in Births(b, c) /\ \A x \in Births(b, c) : Height[b] <= Height[x]
      BY <1>2, <3>1
    <3>3. Backfilled(b)[c] = Height[b] BY <3>2, BackfilledAt
    <3> QED BY <2>2, <2>4, <3>3
  <2>5. CASE Births(p, c) = {} /\ c \notin Creates[b]
    <3>1. Births(b, c) = {} BY <2>1, <2>5
    <3> QED BY <2>2, <2>5, <3>1, BackfilledAt
  <2> QED BY <2>3, <2>4, <2>5
<1>5. Backfilled(b) \in [Child -> Nat \cup {None}] BY BackfilledIsTyped
<1> QED BY <1>4, <1>5

(* The wire's pruning at an ancestor is the backfill up to the ancestor.       *)
LEMMA BackfillPrunes ==
  ASSUME NEW t \in Block, NEW a \in Ancestry[t]
  PROVE  Backfilled(a) =
           [c \in Child |->
              IF c \in Live(Backfilled(t)) /\ Backfilled(t)[c] > Height[a]
              THEN None ELSE Backfilled(t)[c]]
PROOF
<1>1. a \in Block BY AncestryAssumption
<1>2. Height[a] \in Nat BY <1>1, HeightAssumption
<1>3. \A x \in Ancestry[t] : x \in Ancestry[a] <=> Height[x] <= Height[a]
  BY <1>1, AncestryOrdered, AncestryBelow
<1>4. Ancestry[a] \subseteq Ancestry[t] BY AncestryAssumption
<1>5. ASSUME NEW c \in Child
      PROVE  Backfilled(a)[c] = IF c \in Live(Backfilled(t)) /\ Backfilled(t)[c] > Height[a]
                                THEN None ELSE Backfilled(t)[c]
  <2>1. Births(a, c) = {x \in Births(t, c) : Height[x] <= Height[a]}
    BY <1>3, <1>4 DEF Births
  <2>2. c \in Live(Backfilled(t)) <=> Births(t, c) # {} BY BackfilledLive
  <2>3. CASE Births(t, c) = {}
    <3>1. Births(a, c) = {} BY <2>1, <2>3
    <3> QED BY <1>1, <2>2, <2>3, <3>1, BackfilledAt
  <2>4. CASE Births(t, c) # {}
    <3>1. PICK f \in Births(t, c) : \A x \in Births(t, c) : Height[f] <= Height[x]
      BY <2>4, BackfilledAt
    <3>2. Backfilled(t)[c] = Height[f] /\ Height[f] \in Nat BY <3>1, BackfilledAt
    <3>3. CASE Height[f] <= Height[a]
      <4>1. f \in Births(a, c) /\ \A x \in Births(a, c) : Height[f] <= Height[x]
        BY <2>1, <3>1, <3>3
      <4>2. Backfilled(a)[c] = Height[f] BY <1>1, <4>1, BackfilledAt
      <4> QED BY <1>2, <3>2, <3>3, <4>2
    <3>4. CASE ~(Height[f] <= Height[a])
      <4>1. \A x \in Births(t, c) : Height[x] \in Nat BY BackfilledAt
      <4>2. Births(a, c) = {} BY <1>2, <2>1, <3>1, <3>2, <3>4, <4>1
      <4>3. Backfilled(a)[c] = None BY <1>1, <4>2, BackfilledAt
      <4> QED BY <1>2, <2>2, <2>4, <3>2, <3>4, <4>3
    <3> QED BY <3>3, <3>4
  <2> QED BY <2>3, <2>4
<1>6. Backfilled(a) \in [Child -> Nat \cup {None}] BY <1>1, BackfilledIsTyped
<1> QED BY <1>5, <1>6

LEMMA ExpectedLogs ==
  ASSUME NEW b \in Block
  PROVE  LogsExpected(b) = ChildLogs[b] \cap Live(Backfilled(b))
PROOF
<1>1. ChildLogs[b] \subseteq Child BY ChildAssumption
<1> QED BY <1>1, BackfilledLive DEF LogsExpected, Births

LEMMA LastExtends ==
  ASSUME NEW chain \in Seq(Block), NEW b \in Block, NEW base, Linked(Append(chain, b), base)
  PROVE  /\ Extends(b, Tip(chain, base))
         /\ Tip(Append(chain, b), base) = b
PROOF
<1> DEFINE longer == Append(chain, b)
           n == Len(chain) + 1
<1>1. /\ Len(chain) \in Nat /\ longer \in Seq(Block) /\ Len(longer) = n /\ longer[n] = b
      /\ n # 1 => longer[n - 1] = chain[Len(chain)]
  OBVIOUS
<1>2. n \in 1..Len(longer) BY <1>1
<1>3. Tip(chain, base) = (IF Len(chain) = 0 THEN base ELSE chain[Len(chain)]) BY TipAt
<1> SUFFICES Extends(b, Tip(chain, base)) /\ Tip(longer, base) = b OBVIOUS
<1> HIDE DEF longer
<1>4. Tip(longer, base) = (IF Len(longer) = 0 THEN base ELSE longer[Len(longer)])
  BY <1>1, TipAt
<1>5. Linked(longer, base) BY DEF longer
<1>6. Extends(longer[n], IF n = 1 THEN base ELSE longer[n - 1])
  BY <1>2, <1>5 DEF Linked
<1> QED BY <1>1, <1>3, <1>4, <1>6

LEMMA ChildrenKept ==
  ASSUME LogsInv, UNCHANGED <<awaiting, created, feed, durable>>,
         UNCHANGED <<requested, wildcard>> \/ RequestMatches'
  PROVE  ChildrenMatch' /\ RequestMatches' /\ LogsComplete'
PROOF
<1>1. FeedChain' = FeedChain BY DEF FeedChain
<1>2. Given' = Given BY <1>1 DEF Given
<1>3. Tip(Given, durable)' = Tip(Given, durable) BY <1>2 DEF Tip
<1>4. ChildrenMatch' BY <1>3 DEF LogsInv, ChildrenMatch
<1>5. RequestMatches' BY DEF LogsInv, RequestMatches, Live
<1>6. LogsComplete' BY DEF LogsInv, LogsComplete
<1> QED BY <1>4, <1>5, <1>6

LEMMA LogsKept ==
  ASSUME LogsInv,
         UNCHANGED <<awaiting, stale, created, requested, wildcard, feed, durable>>,
         UNCHANGED <<conn, item, pending, event, stage>>
  PROVE  LogsInv'
PROOF
<1>1. ChildrenMatch' /\ RequestMatches' /\ LogsComplete' BY ChildrenKept
<1>2. FilterCovers' BY DEF LogsInv, FilterCovers, Live
<1>3. CarriedLogs' BY DEF LogsInv, CarriedLogs
<1>4. FreshFilter' BY DEF LogsInv, FreshFilter, BlockOut
<1> QED BY <1>1, <1>2, <1>3, <1>4 DEF LogsInv

LEMMA FollowerLogs ==
  ASSUME IInv, AgreeInv, LogsInv, Follower
  PROVE  LogsInv'
PROOF
<1>1. /\ ChildrenMatch /\ RequestMatches /\ FilterCovers /\ CarriedLogs /\ FreshFilter
      /\ LogsComplete /\ HotTypeOK /\ EventsTypeOK /\ WireTypeOK
  BY DEF LogsInv, IInv, HotOK, EventsOK
<1>2. /\ stage = "pull" /\ event = None /\ pending = None
      /\ stage' = "pull" /\ event' = None /\ pending' = None
      /\ UNCHANGED <<awaiting, created, feed, durable>>
  BY <1>1 DEF Follower, Evicted, Rejected, Conflict, NoData, Open, Deliver, Heartbeat,
         Cut, Resume, Unserved, EventsAndWireUnchanged, clientVars, wireVars, eventsVars,
         ponderVars, RequestOpened, Idle, EventsTypeOK
<1>3. /\ pending' \notin BlockBatch /\ event' \notin BlockEvents
      /\ event \notin BlockEvents /\ stage' # "append"
  BY <1>2, NoBatch, NoneIsNoEvent, NoEventAssumption
<1>4. conn \in {None} \cup Connection BY <1>1 DEF HotTypeOK
<1>5. Live(created') = Live(created) BY <1>2
<1>6. CASE Open
  <2>1. /\ conn = None /\ item = None /\ item' = None
        /\ conn'.filter = StreamFilter
        /\ wildcard' = NowWildcard /\ stale' = FALSE /\ requested' = requested
    BY <1>6 DEF Open, HotOpen, Requesting, RequestOpened
  <2>2. RequestMatches'
    BY <1>1, <1>5, <2>1 DEF RequestMatches, NowWildcard
  <2>3. ChildrenMatch' /\ LogsComplete' BY <1>2, <2>2, ChildrenKept
  <2>4. FilterCovers'
    <3>1. NowWildcard => StreamFilter = Child BY DEF StreamFilter
    <3>2. ~NowWildcard => StreamFilter = Live(created)
      BY <1>1 DEF StreamFilter, RequestMatches, NowWildcard
    <3>3. Live(created) \subseteq StreamFilter BY <3>1, <3>2 DEF Live
    <3> QED BY <1>5, <2>1, <3>1, <3>3 DEF FilterCovers
  <2>5. CarriedLogs' BY <1>3, <2>1, NoBatch DEF CarriedLogs
  <2>6. FreshFilter' BY <2>1 DEF FreshFilter
  <2> QED BY <2>2, <2>3, <2>4, <2>5, <2>6 DEF LogsInv
<1>7. CASE ~Open
  <2>1. /\ UNCHANGED <<requested, wildcard, stale>>
    BY <1>7 DEF Follower, Evicted, Rejected, Conflict, NoData, Deliver, Heartbeat,
         Cut, Resume, Unserved, EventsAndWireUnchanged, clientVars, wireVars
  <2>2. ChildrenMatch' /\ RequestMatches' /\ LogsComplete'
    BY <1>2, <2>1, ChildrenKept
  <2>3. ASSUME \/ conn' = None
               \/ conn # None /\ conn'.filter = conn.filter
        PROVE  FilterCovers'
    BY <1>1, <1>2, <1>5, <2>1, <2>3 DEF FilterCovers
  <2>4. ASSUME item' \notin BlockBatch, conn' = conn \/ conn' = None
        PROVE  LogsInv'
    <3>1. FilterCovers'
      BY <1>4, <2>3, <2>4
    <3>2. CarriedLogs' BY <1>3, <2>4 DEF CarriedLogs
    <3>3. FreshFilter'
      BY <1>1, <1>2, <1>3, <2>1, <2>4 DEF FreshFilter, BlockOut
    <3> QED BY <2>2, <3>1, <3>2, <3>3 DEF LogsInv
  <2>5. CASE Unserved
    <3>1. item = None /\ item' = item /\ conn' = conn
      BY <2>5 DEF Unserved, clientVars, hotVars
    <3> QED BY <2>4, <3>1, NoBatch
  <2>6. CASE Evicted \/ Rejected \/ Conflict
    <3>1. item = None /\ item' = item /\ conn' = conn
      <4>1. CASE Conflict
        BY <4>1, ConflictLowers DEF Conflict, HotConflict, Requesting, IInv
      <4>2. CASE Evicted \/ Rejected
        BY <4>2 DEF Evicted, Rejected, HotEvicted, HotRejected, Requesting, hotVars
      <4> QED BY <2>6, <4>1, <4>2
    <3> QED BY <2>4, <3>1, NoBatch
  <2>7. CASE NoData \/ Heartbeat \/ Cut
    <3>1. item' = Tick /\ conn' \in {conn, None}
      BY <2>7 DEF NoData, Heartbeat, Cut, HotNoData, HotHeartbeat, HotCut
    <3> QED BY <2>4, <3>1, NoBatch
  <2>8. CASE Resume
    <3>1. /\ item = None /\ item' = None /\ conn # None /\ conn \in Connection
          /\ IF stale THEN conn' = None ELSE conn' = [conn EXCEPT !.reading = TRUE]
      BY <1>4, <2>8 DEF Resume, HotResume
    <3>2. ~stale => conn' \in Connection /\ conn'.filter = conn.filter
      BY <3>1 DEF Connection
    <3>3. FilterCovers' BY <2>3, <3>1, <3>2
    <3>4. CarriedLogs' BY <1>3, <3>1, NoBatch DEF CarriedLogs
    <3>5. FreshFilter' BY <1>3, <2>1, <3>1, NoBatch DEF FreshFilter, BlockOut
    <3> QED BY <2>2, <3>3, <3>4, <3>5 DEF LogsInv
  <2>9. CASE Deliver
    <3>1. PICK b \in NextServed(conn.last) :
            /\ item' = Batch(b, ChildLogs[b] \cap conn.filter)
            /\ conn' = [conn EXCEPT !.last = b, !.reading = FALSE]
      BY <2>9 DEF Deliver, HotDeliver
    <3>2. conn # None /\ conn.reading /\ conn \in Connection
      BY <1>4, <2>9 DEF Deliver, HotDeliver, Reading
    <3>3. b \in Block BY DEF NextServed
    <3>4. conn' \in Connection /\ conn'.filter = conn.filter
      BY <3>1, <3>2, <3>3 DEF Connection
    <3>5. FilterCovers' BY <2>3, <3>2, <3>4
    <3>6. item'.block = b /\ item'.logs = ChildLogs[b] \cap conn.filter
      BY <3>1 DEF Batch
    <3>7. CarriedLogs' BY <1>3, <3>4, <3>6 DEF CarriedLogs
    <3>8. FreshFilter' BY <1>1, <2>1, <3>2 DEF FreshFilter
    <3> QED BY <2>2, <3>5, <3>7, <3>8 DEF LogsInv
  <2> QED BY <1>7, <2>5, <2>6, <2>7, <2>8, <2>9 DEF Follower
<1> QED BY <1>6, <1>7

LEMMA ProducerLogs ==
  ASSUME IInv, AgreeInv, LogsInv, Producer
  PROVE  LogsInv'
PROOF
<1>1. /\ ChildrenMatch /\ RequestMatches /\ FilterCovers /\ CarriedLogs /\ FreshFilter
      /\ HotTypeOK /\ EventsTypeOK /\ WireTypeOK /\ EventsOK
      /\ FeedAgrees /\ FollowerBehind
  BY DEF LogsInv, IInv, AgreeInv, HotOK, EventsOK
<1>2. /\ UNCHANGED wireVars /\ UNCHANGED ponderVars /\ conn' = conn
  BY DEF Producer, OnItem, ItemTaken, AppendBlock, Skip, PollAny, Poll, hotVars
<1>3. UNCHANGED <<awaiting, created, requested, wildcard, stale, feed, durable>>
  BY <1>2 DEF wireVars, ponderVars
<1>4. ChildrenMatch' /\ RequestMatches' /\ LogsComplete' BY <1>3, ChildrenKept
<1>5. FilterCovers' BY <1>1, <1>2, <1>3 DEF FilterCovers, Live
<1>6. ASSUME item' \notin BlockBatch, CarriedLogs', BlockOut' => BlockOut
      PROVE  LogsInv'
  <2>1. FreshFilter' BY <1>1, <1>2, <1>3, <1>6 DEF FreshFilter
  <2> QED BY <1>4, <1>5, <1>6, <2>1 DEF LogsInv
<1>7. CASE OnItem
  <2>1. /\ item # None /\ item \in Item /\ item' = None
        /\ stage = "pull" /\ event = None /\ draining = None /\ pending = None
    BY <1>1, <1>7 DEF OnItem, ItemTaken, IInv, HotTypeOK, TakeTurns, EventsTypeOK
  <2>2. item' \notin BlockBatch BY <2>1, NoBatch
  <2>3. CASE item = Tick
    <3>1. stage' = "cadence" /\ pending' = pending /\ event' = event
      BY <1>7, <2>3 DEF OnItem, TakeTick, Tick
    <3>2. ~BlockOut' BY <2>1, <2>2, <3>1, NoneIsNoEvent DEF BlockOut
    <3>3. CarriedLogs' BY <2>1, <2>2, <3>1, NoBatch, NoneIsNoEvent DEF CarriedLogs
    <3> QED BY <1>6, <2>2, <3>2, <3>3
  <2>4. CASE item # Tick
    <3>1. item \in BlockBatch /\ item.kind # "tick"
      BY <2>1, <2>4 DEF Item, Batches, Batch, BlockBatch
    <3>2. TakeBlock(item, awaiting = item.block) BY <1>7, <3>1 DEF OnItem
    <3>3. awaiting # None => Height[item.block] <= Height[awaiting]
      BY <1>1, <3>1 DEF FollowerBehind, Carried, Brings
    <3>4. \/ /\ event' = BlockEvent(item) /\ event' \in BlockEvents /\ pending' = None
          \/ /\ pending' = item /\ event' \notin BlockEvents
          \/ UNCHANGED eventsVars
      BY <1>1, <1>2, <2>1, <3>1, <3>2, <3>3, TakeBlockAgrees
    <3>5. item.logs = ChildLogs[item.block] \cap conn.filter
      BY <1>1, <3>1 DEF CarriedLogs
    <3>6. CarriedLogs'
      <4>1. CASE event' = BlockEvent(item) /\ event' \in BlockEvents /\ pending' = None
        <5>1. event'.block = item.block /\ event'.logs = item.logs
          BY <4>1 DEF BlockEvent
        <5> QED BY <1>2, <2>2, <3>5, <4>1, <5>1, NoBatch DEF CarriedLogs
      <4>2. CASE pending' = item /\ event' \notin BlockEvents
        BY <1>2, <2>2, <3>5, <4>2 DEF CarriedLogs
      <4>3. CASE UNCHANGED eventsVars
        BY <2>1, <2>2, <4>3, NoBatch, NoneIsNoEvent DEF CarriedLogs, eventsVars
      <4> QED BY <3>4, <4>1, <4>2, <4>3
    <3>7. BlockOut BY <3>1 DEF BlockOut
    <3> QED BY <1>6, <2>2, <3>6, <3>7
  <2> QED BY <2>3, <2>4
<1>8. ASSUME UNCHANGED hotVars, event = None, stage # "pull"
      PROVE  item = None /\ item' = None /\ item' \notin BlockBatch
  BY <1>8, NoBatch DEF hotVars, IInv, TakeTurns
<1>9. CASE AppendBlock
  <2>1. /\ stage = "append" /\ event = None /\ UNCHANGED hotVars
        /\ AppendAndYield(window, pending, FALSE)
    BY <1>9 DEF AppendBlock, AppendAfterReorg
  <2>2. item' \notin BlockBatch BY <1>8, <2>1
  <2>3. pending \in BlockBatch BY <1>1, <2>1 DEF EventsTypeOK, BlockBatch
  <2>4. pending.logs = ChildLogs[pending.block] \cap conn.filter
    BY <1>1, <2>3 DEF CarriedLogs
  <2>5. \/ event' = BlockEvent(pending) /\ pending' = None
        \/ event' = event /\ pending' = pending
    BY <2>1 DEF AppendAndYield, eventsVars
  <2>6. CarriedLogs'
    <3>1. CASE event' = BlockEvent(pending) /\ pending' = None
      <4>1. event'.block = pending.block /\ event'.logs = pending.logs
        BY <3>1 DEF BlockEvent
      <4> QED BY <1>2, <2>2, <2>4, <3>1, <4>1, NoBatch DEF CarriedLogs
    <3>2. CASE event' = event /\ pending' = pending
      BY <1>2, <2>1, <2>2, <2>4, <3>2, NoneIsNoEvent DEF CarriedLogs
    <3> QED BY <2>5, <3>1, <3>2
  <2>7. BlockOut BY <2>1 DEF BlockOut
  <2> QED BY <1>6, <2>2, <2>6, <2>7
<1>10. ASSUME NEW fh, fh = None \/ fh.number \in Nat,
              CadencePoll(fh) \/ CadenceSkip, UNCHANGED hotVars
       PROVE  LogsInv'
  <2>1. stage = "cadence" /\ event = None /\ pending = None
    BY <1>1, <1>10 DEF CadencePoll, CadenceSkip, EventsTypeOK
  <2>2. /\ stage' \in {"pull", "cadence"} /\ pending' = pending
        /\ event' \notin BlockEvents
    BY <1>1, <1>2, <1>10, <2>1, CadenceAgrees
  <2>3. item' \notin BlockBatch BY <1>8, <1>10, <2>1
  <2>4. ~BlockOut' BY <2>2, <2>3 DEF BlockOut
  <2>5. CarriedLogs' BY <2>1, <2>2, <2>3, NoBatch DEF CarriedLogs
  <2> QED BY <1>6, <2>3, <2>4, <2>5
<1>11. CASE Skip
  BY <1>10, <1>11, NoneAssumption DEF Skip
<1>12. CASE PollAny
  <2>1. PICK fh \in FinalizedHeads : CadencePoll(fh) BY <1>12 DEF PollAny, Poll
  <2>2. final \in Block BY AncestryAssumption DEF IInv, ServerTypeOK
  <2>3. fh = None \/ fh.number \in Nat
    BY <2>1, <2>2, AncestryAssumption, HeightAssumption DEF FinalizedHeads
  <2>4. UNCHANGED hotVars BY <1>12 DEF PollAny, Poll
  <2> QED BY <1>10, <2>1, <2>3, <2>4
<1> QED BY <1>7, <1>9, <1>11, <1>12 DEF Producer

(* A suffix or a prefix of complete blocks is complete.                      *)
LEMMA PartIsComplete ==
  ASSUME WireTypeOK, LogsComplete, NEW k \in 0..Len(feed),
         \/ feed' = SubSeq(feed, 1, k)
         \/ feed' = SubSeq(feed, k + 1, Len(feed))
  PROVE  LogsComplete'
PROOF
<1>1. feed \in Seq(Forwarded) /\ Len(feed) \in Nat BY DEF WireTypeOK, Forwarded
<1>2. ASSUME NEW i \in 1..Len(feed') PROVE \E j \in 1..Len(feed) : feed'[i] = feed[j]
  <2>1. CASE feed' = SubSeq(feed, 1, k)
    <3>1. i \in 1..Len(feed) /\ feed'[i] = feed[i] BY <1>1, <2>1
    <3> QED BY <3>1
  <2>2. CASE feed' = SubSeq(feed, k + 1, Len(feed))
    <3>1. i + k \in 1..Len(feed) /\ feed'[i] = feed[i + k] BY <1>1, <2>2
    <3> QED BY <3>1
  <2> QED BY <2>1, <2>2
<1> QED BY <1>2 DEF LogsComplete, LogsExpected

LEMMA OnReorgLogs ==
  ASSUME WireTypeOK, draining = None, item = None, FeedAgrees, Carried, LogsInv,
         event \in ReorgEvents, pending \in BlockBatch,
         OnReorg(event.block, event.reorged), EventTaken, UNCHANGED <<conn, item>>
  PROVE  LogsInv'
PROOF
<1> DEFINE t == Tip(Given, durable)
           a == event.block
           gone == BornAbove(Height[a])
<1>1. /\ ChildrenMatch /\ RequestMatches /\ FilterCovers /\ CarriedLogs /\ FreshFilter
      /\ LogsComplete
  BY DEF LogsInv
<1>2. PICK k \in 0..Len(feed) :
        /\ feed' = SubSeq(feed, 1, k)
        /\ a = (IF k = 0 THEN durable ELSE Given[k])
  BY OnReorgAgrees
<1>3. awaiting' = None /\ stage = "append"
  BY OnReorgAgrees DEF FeedAgrees, ReorgFits
<1>4. /\ created' = [c \in Child |-> IF c \in gone THEN None ELSE created[c]]
      /\ IF gone # {} THEN requested' = Live(created') /\ stale' = TRUE
         ELSE UNCHANGED <<requested, stale>>
      /\ UNCHANGED <<wildcard, durable>>
  BY DEF OnReorg
<1>5. event' = None /\ stage' = stage /\ pending' = pending BY DEF EventTaken
<1>6. /\ feed \in Seq(Forwarded) /\ FeedChain = ChainOf(feed)
      /\ FeedChain \in Seq(Block) /\ Len(FeedChain) = Len(feed) /\ Len(feed) \in Nat
      /\ Given \in Seq(Block) /\ Len(Given) >= Len(feed)
      /\ \A i \in 1..Len(feed) : Given[i] = FeedChain[i]
      /\ durable \in Block
  BY GivenTyped
<1>7. Linked(Given, durable) /\ Linked(FeedChain, durable)
  BY FeedIsLinked DEF FeedAgrees
<1>8. Tip(Given, durable)' = a
  <2>1. FeedChain' = ChainOf(feed') BY DEF FeedChain, ChainOf
  <2>2. [block |-> durable, logs |-> {}] \in Forwarded BY <1>6 DEF Forwarded
  <2>3. FeedChain' = SubSeq(FeedChain, 1, k) BY <1>2, <1>6, <2>1, <2>2, ChainOfParts
  <2>4. Given' = SubSeq(FeedChain, 1, k) BY <1>3, <2>3 DEF Given
  <2>5. Tip(SubSeq(FeedChain, 1, k), durable) = (IF k = 0 THEN durable ELSE FeedChain[k])
    BY <1>6, <1>7, FrontIsChain
  <2>6. Tip(Given, durable)' = Tip(SubSeq(FeedChain, 1, k), durable)
    BY <1>4, <2>4 DEF Tip
  <2>7. k # 0 => k \in 1..Len(feed) BY <1>2, <1>6
  <2> QED BY <1>2, <1>6, <2>5, <2>6, <2>7
<1>9. t \in Block /\ a \in Ancestry[t]
  <2>1. /\ t \in Block
        /\ Ancestry[t] = Ancestry[durable] \cup {Given[i] : i \in 1..Len(Given)}
    BY <1>6, <1>7, ChainIsHistory
  <2>2. durable \in Ancestry[durable] BY <1>6, AncestryEnds
  <2>3. k # 0 => k \in 1..Len(Given) BY <1>2, <1>6
  <2> QED BY <1>2, <2>1, <2>2, <2>3
<1>10. created = Backfilled(t) BY <1>1 DEF ChildrenMatch
<1> HIDE DEF t
<1>11. created' = Backfilled(a)
  BY <1>4, <1>9, <1>10, BackfillPrunes DEF BornAbove
<1>12. ChildrenMatch' BY <1>8, <1>11 DEF ChildrenMatch
<1>13. gone = {} => created' = created
  <2>1. created \in [Child -> Nat \cup {None}] BY DEF WireTypeOK
  <2> HIDE DEF gone
  <2> QED BY <1>4, <2>1
<1>14. Live(created') \subseteq Live(created)
  <2> HIDE DEF gone
  <2> QED BY <1>4 DEF Live
<1> HIDE DEF gone
<1>15. RequestMatches'
  BY <1>1, <1>4, <1>13 DEF RequestMatches
<1>16. LogsComplete' BY <1>1, <1>2, PartIsComplete
<1>17. awaiting # None => ~stale
  BY <1>1, <1>3 DEF FreshFilter, BlockOut
<1>18. FilterCovers'
  BY <1>1, <1>4, <1>14, <1>17 DEF FilterCovers
<1>19. ~conn.reading BY DEF Carried, Brings
<1>20. item' \notin BlockBatch /\ event' \notin BlockEvents
  BY <1>5, NoBatch, NoEventAssumption
<1>21. CarriedLogs' BY <1>1, <1>5, <1>20 DEF CarriedLogs
<1>22. FreshFilter' BY <1>3, <1>19, <1>20 DEF FreshFilter
<1> QED BY <1>12, <1>15, <1>16, <1>18, <1>21, <1>22 DEF LogsInv

(* The children of a redelivered block are known since its first delivery.    *)
LEMMA RedeliveredHasNoNew ==
  ASSUME WireTypeOK, FeedAgrees, ChildrenMatch, event \in BlockEvents,
         awaiting = event.block
  PROVE  Creates[event.block] \ Live(created) = {}
PROOF
<1> DEFINE b == event.block
<1>1. b \in Block /\ b # None /\ Linked(Append(FeedChain, b), durable)
  BY NoneAssumption DEF FeedAgrees, BlockFits, BlockEvents
<1>2. FeedChain \in Seq(Block) /\ durable \in Block BY GivenTyped
<1>3. Tip(Append(FeedChain, b), durable) = b BY <1>1, <1>2, LastExtends
<1>4. Given = Append(FeedChain, b) BY <1>1 DEF Given
<1>5. created = Backfilled(b) BY <1>3, <1>4 DEF ChildrenMatch
<1>6. b \in Ancestry[b] /\ Creates[b] \subseteq Child BY <1>1, AncestryEnds, ChildAssumption
<1>7. \A c \in Creates[b] : b \in Births(b, c) BY <1>6 DEF Births
<1> QED BY <1>1, <1>5, <1>6, <1>7, BackfilledLive

LEMMA OnBlockLogs ==
  ASSUME WireTypeOK, draining = None, item = None, pending = None, FeedAgrees, Carried,
         LogsInv, event \in BlockEvents,
         OnBlock(event.block, event.logs), EventTaken, UNCHANGED <<conn, item>>
  PROVE  LogsInv'
PROOF
<1> DEFINE b == event.block
           t == Tip(Given, durable)
           new == Creates[b] \ Live(created)
<1>1. /\ ChildrenMatch /\ RequestMatches /\ FilterCovers /\ CarriedLogs /\ FreshFilter
      /\ LogsComplete
  BY DEF LogsInv
<1>2. /\ b \in Block /\ b # None /\ awaiting \in {None, b} /\ stage = "cadence"
      /\ Linked(Append(FeedChain, b), durable)
      /\ event.logs = ChildLogs[b] \cap conn.filter
  BY <1>1, NoneAssumption DEF FeedAgrees, BlockFits, BlockEvents, CarriedLogs
<1>3. /\ conn \in Connection /\ conn # None /\ ~conn.reading
  BY NoItemAssumption DEF Carried, Brings
<1>4. /\ created' = [c \in Child |-> IF c \in new THEN Height[b] ELSE created[c]]
      /\ IF new # {} /\ ~wildcard THEN Suppress(b) ELSE Forward(b, event.logs)
      /\ UNCHANGED <<wildcard, durable>>
  BY <1>2 DEF OnBlock
<1>5. event' = None /\ stage' = stage /\ pending' = pending BY DEF EventTaken
<1>6. item' \notin BlockBatch /\ event' \notin BlockEvents /\ pending' \notin BlockBatch
  BY <1>5, NoBatch, NoEventAssumption
<1>7. CarriedLogs' BY <1>6 DEF CarriedLogs
<1>8. ~BlockOut' BY <1>2, <1>5, <1>6 DEF BlockOut
<1>9. FreshFilter' BY <1>3, <1>6, <1>8 DEF FreshFilter
<1>10. FeedChain \in Seq(Block) /\ durable \in Block /\ Given \in Seq(Block)
  BY GivenTyped
<1>11. Given' = Append(FeedChain, b) BY OnBlockAgrees
<1>12. /\ Extends(b, Tip(FeedChain, durable))
       /\ Tip(Append(FeedChain, b), durable) = b
  BY <1>2, <1>10, LastExtends
<1>13. Tip(Given, durable)' = b BY <1>4, <1>11, <1>12 DEF Tip
<1>14. created = Backfilled(t) /\ t \in Block
  <2>1. Linked(Given, durable) BY DEF FeedAgrees
  <2> QED BY <1>1, <1>10, <2>1, ChainIsHistory DEF ChildrenMatch
<1>15. created' = Backfilled(b)
  <2>1. CASE awaiting = None
    <3>1. Extends(b, t) BY <1>12, <2>1 DEF Given
    <3> HIDE DEF t
    <3> QED BY <1>2, <1>4, <1>14, <3>1, BackfillGrows
  <2>2. CASE awaiting # None
    <3>1. t = b BY <1>2, <1>12, <2>2 DEF Given
    <3>3. created = Backfilled(b) BY <1>14, <3>1
    <3>4. new = {} BY <1>1, <1>2, <2>2, RedeliveredHasNoNew
    <3>5. created \in [Child -> Nat \cup {None}] BY DEF WireTypeOK
    <3> HIDE DEF new
    <3> QED BY <1>4, <3>3, <3>4, <3>5
  <2> QED BY <2>1, <2>2
<1>16. ChildrenMatch' BY <1>13, <1>15 DEF ChildrenMatch
<1>17. new = {} => created' = created
  <2>1. created \in [Child -> Nat \cup {None}] BY DEF WireTypeOK
  <2> HIDE DEF new
  <2> QED BY <1>4, <2>1
<1> HIDE DEF new, t
<1>18. CASE Suppress(b) /\ ~wildcard
  <2>1. /\ awaiting' = b /\ requested' = Live(created') /\ stale' = TRUE
        /\ feed' = feed /\ ~wildcard
    BY <1>18 DEF Suppress
  <2>2. FilterCovers' BY <1>2, <1>4, <2>1 DEF FilterCovers
  <2>3. RequestMatches' BY <2>1 DEF RequestMatches
  <2>4. LogsComplete' BY <1>1, <2>1 DEF LogsComplete
  <2> QED BY <1>7, <1>9, <1>16, <2>2, <2>3, <2>4 DEF LogsInv
<1>19. CASE Forward(b, event.logs) /\ (new = {} \/ wildcard)
  <2> DEFINE live == LiveAt(created', Height[b])
             logs == (IF wildcard THEN event.logs \cap live ELSE event.logs) \cap live
  <2>1. /\ feed' = Append(feed, [block |-> b, logs |-> logs])
        /\ awaiting' = None
        /\ UNCHANGED <<requested, stale>>
    BY <1>19 DEF Forward
  <2>2. live = Live(Backfilled(b)) /\ Live(created') = live
    BY <1>2, <1>15, BackfilledLive
  <2>3. live \subseteq conn.filter
    <3>1. CASE wildcard
      BY <1>1, <1>3, <2>2, <3>1, LiveIsChild DEF FilterCovers
    <3>2. CASE ~wildcard
      <4>1. created' = created BY <1>17, <1>19, <3>2
      <4>2. awaiting = None \/ ~stale
        <5>1. BlockOut BY DEF BlockOut
        <5> QED BY <1>1, <5>1 DEF FreshFilter
      <4> QED BY <1>1, <1>3, <2>2, <4>1, <4>2 DEF FilterCovers
    <3> QED BY <3>1, <3>2
  <2>4. logs = LogsExpected(b)
    <3>1. LogsExpected(b) = ChildLogs[b] \cap Live(Backfilled(b))
      BY <1>2, ExpectedLogs
    <3> HIDE DEF live
    <3> QED BY <1>2, <2>2, <2>3, <3>1
  <2>5. FilterCovers' BY <1>1, <1>4, <2>1, <2>2, <2>3 DEF FilterCovers
  <2>6. RequestMatches' BY <1>1, <1>4, <1>17, <1>19, <2>1 DEF RequestMatches
  <2> HIDE DEF live, logs
  <2>7. LogsComplete'
    <3>1. feed \in Seq(Forwarded) /\ Len(feed) \in Nat
      BY DEF WireTypeOK, Forwarded
    <3>2. logs \subseteq Child BY <1>2, <2>4, ChildAssumption DEF LogsExpected
    <3>3. [block |-> b, logs |-> logs] \in Forwarded BY <1>2, <3>2 DEF Forwarded
    <3>4. /\ Len(feed') = Len(feed) + 1
          /\ feed'[Len(feed) + 1] = [block |-> b, logs |-> logs]
          /\ \A i \in 1..Len(feed) : feed'[i] = feed[i]
      BY <2>1, <3>1, <3>3
    <3>5. ASSUME NEW i \in 1..Len(feed')
          PROVE  i = Len(feed) + 1 \/ i \in 1..Len(feed)
      BY <3>1, <3>4
    <3>6. \A i \in 1..Len(feed) : feed[i].logs = LogsExpected(feed[i].block)
      BY <1>1 DEF LogsComplete
    <3>7. \A i \in 1..Len(feed') : feed'[i].logs = LogsExpected(feed'[i].block)
      BY <2>4, <3>4, <3>5, <3>6
    <3> QED BY <3>7 DEF LogsComplete, LogsExpected
  <2> QED BY <1>7, <1>9, <1>16, <2>5, <2>6, <2>7 DEF LogsInv
<1> QED BY <1>4, <1>18, <1>19

(* A finalize leaves the wire's knowledge alone and cuts ponder's blocks.      *)
LEMMA CutLogs ==
  ASSUME WireTypeOK, LogsInv,
         UNCHANGED <<awaiting, stale, created, requested, wildcard>>,
         UNCHANGED <<conn, item, pending, stage>>,
         event \notin BlockEvents, event' = None,
         NEW n \in 0..Len(feed), feed' = SubSeq(feed, n + 1, Len(feed)),
         Tip(Given, durable)' = Tip(Given, durable)
  PROVE  LogsInv'
PROOF
<1>1. event' \notin BlockEvents BY NoEventAssumption
<1>2. LogsComplete' BY PartIsComplete DEF LogsInv
<1>3. ChildrenMatch' BY DEF LogsInv, ChildrenMatch
<1>4. RequestMatches' /\ FilterCovers'
  BY DEF LogsInv, RequestMatches, FilterCovers, Live
<1>5. CarriedLogs' BY <1>1 DEF LogsInv, CarriedLogs
<1>6. FreshFilter' BY <1>1 DEF LogsInv, FreshFilter, BlockOut
<1> QED BY <1>2, <1>3, <1>4, <1>5, <1>6 DEF LogsInv

LEMMA WireLogs ==
  ASSUME IInv, AgreeInv, LogsInv, Wire
  PROVE  LogsInv'
PROOF
<1>1. /\ WireTypeOK /\ EventsTypeOK /\ FeedAgrees /\ Carried
      /\ UNCHANGED <<conn, item>>
  BY DEF IInv, AgreeInv, EventsOK, FollowerBehind, Wire, OnEvent, Drain, Watchdog, hotVars
<1>2. CASE OnEvent
  <2>1. /\ event # None /\ EventTaken /\ draining = None /\ item = None
        /\ event \in BlockEvents \cup ReorgEvents \cup FinalizeEvents
    BY <1>1, <1>2 DEF OnEvent, EventsTypeOK, IInv, TakeTurns
  <2>2. event' = None /\ stage' = stage /\ pending' = pending BY <2>1 DEF EventTaken
  <2>3. CASE event \in BlockEvents
    <3>1. OnBlock(event.block, event.logs) BY <1>2, <2>3 DEF OnEvent, BlockEvents
    <3>2. pending = None BY <1>1, <2>3 DEF FeedAgrees, BlockFits, EventsTypeOK
    <3> QED BY <1>1, <2>1, <2>3, <3>1, <3>2, OnBlockLogs
  <2>4. CASE event \in ReorgEvents
    <3>1. OnReorg(event.block, event.reorged) BY <1>2, <2>4 DEF OnEvent, ReorgEvents
    <3>2. pending \in BlockBatch
      BY <1>1, <2>4 DEF FeedAgrees, ReorgFits, EventsTypeOK, BlockBatch
    <3> QED BY <1>1, <2>1, <2>4, <3>1, <3>2, OnReorgLogs
  <2>5. CASE event \in FinalizeEvents
    <3>1. OnFinalize(event.block) BY <1>2, <2>5 DEF OnEvent, FinalizeEvents
    <3>2. UNCHANGED <<awaiting, stale, created, requested, wildcard>>
      BY <3>1 DEF OnFinalize
    <3>3. event \notin BlockEvents BY <2>5 DEF BlockEvents, FinalizeEvents
    <3>4. /\ \E n \in 0..Len(feed) : feed' = SubSeq(feed, n + 1, Len(feed))
          /\ Tip(Given, durable)' = Tip(Given, durable)
      BY <1>1, <2>1, <2>5, <3>1, OnFinalizeAgrees
    <3> QED BY <1>1, <2>2, <3>2, <3>3, <3>4, CutLogs
  <2> QED BY <2>1, <2>3, <2>4, <2>5
<1>3. CASE Drain
  <2>1. DrainHeld /\ UNCHANGED eventsVars BY <1>3 DEF Drain
  <2>2. UNCHANGED <<awaiting, stale, created, requested, wildcard>>
        /\ event = None /\ event' = None
        /\ UNCHANGED <<pending, stage>>
    BY <2>1 DEF DrainHeld, IInv, TakeTurns, eventsVars
  <2>3. /\ \E n \in 0..Len(feed) : feed' = SubSeq(feed, n + 1, Len(feed))
        /\ Tip(Given, durable)' = Tip(Given, durable)
    BY <1>1, <2>1, <2>2, DrainAgrees
  <2> QED BY <1>1, <2>2, <2>3, NoneIsNoEvent, CutLogs
<1>4. CASE Watchdog
  <2>1. /\ UNCHANGED <<awaiting, stale, created, requested, wildcard, feed, durable>>
        /\ UNCHANGED <<pending, event, stage>>
    BY <1>4 DEF Watchdog, WatchdogFires, ponderVars, eventsVars
  <2> QED BY <1>1, <2>1, LogsKept
<1> QED BY <1>2, <1>3, <1>4 DEF Wire

(* The process starts, or starts again, from a backfill.                     *)
FreshWire ==
  /\ Started /\ conn = None
  /\ created = Backfilled(durable) /\ requested = Live(created)

LEMMA StartLogs == FreshWire => LogsInv
PROOF
<1> SUFFICES ASSUME FreshWire PROVE LogsInv OBVIOUS
<1>1. /\ feed = <<>> /\ awaiting = None /\ event = None /\ item = None /\ pending = None
      /\ conn = None /\ created = Backfilled(durable) /\ requested = Live(created)
  BY DEF FreshWire, Started
<1>2. Given = <<>> BY <1>1 DEF Given, FeedChain
<1>3. ChildrenMatch BY <1>1, <1>2 DEF ChildrenMatch, Tip
<1>4. RequestMatches /\ FilterCovers /\ FreshFilter /\ LogsComplete
  BY <1>1 DEF RequestMatches, FilterCovers, FreshFilter, LogsComplete
<1>5. CarriedLogs BY <1>1, NoBatch, NoneIsNoEvent DEF CarriedLogs
<1> QED BY <1>3, <1>4, <1>5 DEF LogsInv

LEMMA LogsInit == Init => LogsInv
PROOF
<1> SUFFICES ASSUME Init PROVE LogsInv OBVIOUS
<1>1. FreshWire
  BY DEF FreshWire, Started, Init, HotInit, EventsInit, WireInit
<1> QED BY <1>1, StartLogs

LEMMA LogsNext ==
  ASSUME IInv, AgreeInv, LogsInv, [Next]_vars
  PROVE  LogsInv'
PROOF
<1>1. CASE Follower BY <1>1, FollowerLogs
<1>2. CASE Producer BY <1>2, ProducerLogs
<1>3. CASE Wire BY <1>3, WireLogs
<1>4. CASE Restart
  <2>1. FreshWire' BY <1>4 DEF Restart, FreshWire, Started
  <2>2. (FreshWire => LogsInv)' BY StartLogs, PTL
  <2> QED BY <2>1, <2>2
<1>5. CASE Server \/ Crash \/ UNCHANGED vars
  <2>1. UNCHANGED <<hotVars, eventsVars, wireVars, ponderVars>>
    BY <1>5 DEF Server, Crash, vars, clientVars
  <2> QED BY <2>1, LogsKept DEF hotVars, eventsVars, wireVars, ponderVars
<1> QED BY <1>1, <1>2, <1>3, <1>4, <1>5 DEF Next, Stopped

LEMMA LogsInductive == Spec => []LogsInv
PROOF
<1>1. IInv /\ AgreeInv /\ LogsInv /\ [Next]_vars => LogsInv' BY LogsNext
<1> QED BY <1>1, LogsInit, AgreeInductive, PTL DEF Spec

(* Every block ponder holds has exactly the logs of the children created at or  *)
(* below it on its own fork: none is lost to the filter the block was streamed  *)
(* under, and none is a phantom of a creation that was reorged away.         *)
THEOREM LogsAreComplete == Spec => []LogsComplete
PROOF
<1>1. LogsInv => LogsComplete BY DEF LogsInv
<1> QED BY <1>1, LogsInductive, PTL

-----------------------------------------------------------------------------
(* The ring.  It reaches from the anchor up to the cursor, holds the block      *)
(* below the cursor once what was served has been taken, and, while a reopen is  *)
(* due, the block below that one: the floor the ring is pruned at never passes   *)
(* a block that has yet to be asked for again.                              *)
RingInv ==
  Running =>
    /\ \A h \in Height[anchor]..(cursor - 1) : h \in DOMAIN ring
    /\ item \notin BlockBatch => cursor - 1 \in DOMAIN ring
    /\ conn # None /\ stale /\ item \notin BlockBatch => cursor - 2 \in DOMAIN ring

(* The follower has not been served RING_CAP blocks above the finalized one.    *)
RingHolds ==
  \A h \in DOMAIN ring \cup {cursor - 1} : h < Height[anchor] + RingCap

LEMMA NewestIsAll ==
  ASSUME NEW S, NEW lo \in Nat, NEW n \in Nat \ {0},
         \A k \in S : k \in Nat /\ lo <= k /\ k < lo + n
  PROVE  Newest(S, n) = S
PROOF
<1> SUFFICES ASSUME NEW h \in S PROVE Cardinality({k \in S : k > h}) < n
  BY DEF Newest
<1> DEFINE above == {k \in S : k > h}
           room == (lo + 1)..(lo + n - 1)
<1>1. above \subseteq room OBVIOUS
<1>2. IsFiniteSet(room) /\ Cardinality(room) = n - 1
  <2>1. lo + 1 \in Int /\ lo + n - 1 \in Int OBVIOUS
  <2>2. /\ IsFiniteSet(room)
        /\ Cardinality(room) = (IF lo + 1 > lo + n - 1 THEN 0
                                ELSE (lo + n - 1) - (lo + 1) + 1)
    BY <2>1, FS_Interval
  <2> QED BY <2>2
<1>3. Cardinality(above) <= Cardinality(room) /\ Cardinality(above) \in Nat
  BY <1>1, <1>2, FS_Subset, FS_CardinalityType
<1> QED BY <1>2, <1>3

LEMMA DeliveredCovers ==
  ASSUME NEW r, RingOK(r), NEW b \in Block, NEW lo \in Nat,
         \A h \in DOMAIN r \cup {Height[b]} : h < lo + RingCap,
         NEW h \in DOMAIN r \cup {Height[b]}, lo <= h
  PROVE  h \in DOMAIN Delivered(r, b, lo)
PROOF
<1> DEFINE keys == DOMAIN r \cup {Height[b]}
           high == {k \in keys : k >= lo}
<1>1. keys \subseteq Nat BY HeightAssumption DEF RingOK
<1>2. \A k \in high : k \in Nat /\ lo <= k /\ k < lo + RingCap BY <1>1
<1>3. h \in high OBVIOUS
<1>4. DOMAIN Delivered(r, b, lo) = Newest(high, RingCap)
  BY DEF Delivered, Pruned
<1> HIDE DEF high
<1>5. Newest(high, RingCap) = high BY <1>2, HotStreamAssumption, NewestIsAll
<1> QED BY <1>3, <1>4, <1>5

(* A chain's tip is as far above its base as the chain is long.               *)
LEMMA TipIsNumbered ==
  ASSUME NEW chain \in Seq(Block), NEW base \in Block, Linked(chain, base)
  PROVE  /\ Tip(chain, base) \in Block
         /\ Height[Tip(chain, base)] = Height[base] + Len(chain)
PROOF
<1>1. /\ \A i \in 1..Len(chain) : Height[chain[i]] = Height[base] + i
      /\ \A i \in 1..Len(chain) : chain[i] \in Block
      /\ Height[base] \in Nat /\ Len(chain) \in Nat
  BY LinkedIsNumbered, HeightAssumption
<1>2. Tip(chain, base) = (IF Len(chain) = 0 THEN base ELSE chain[Len(chain)]) BY TipAt
<1>3. CASE Len(chain) = 0 BY <1>1, <1>2, <1>3
<1>4. CASE Len(chain) # 0
  <2>1. Len(chain) \in 1..Len(chain) BY <1>1, <1>4
  <2> QED BY <1>1, <1>2, <1>4, <2>1
<1> QED BY <1>3, <1>4

(* A block the producer does not give up on is numbered at or above its anchor.  *)
LEMMA KnownIsAbove ==
  ASSUME NEW chain \in Seq(Block), NEW base \in Block, Linked(chain, base),
         NEW b \in Block, ~IsGap(chain, b, base)
  PROVE  Height[b] >= Height[base]
PROOF
<1>1. /\ \A i \in 1..Len(chain) : Height[chain[i]] = Height[base] + i
      /\ \A i \in 1..Len(chain) : chain[i] \in Block
      /\ Height[base] \in Nat /\ Len(chain) \in Nat
  BY LinkedIsNumbered, HeightAssumption
<1>3. Tip(chain, base) \in Block /\ Height[Tip(chain, base)] >= Height[base]
  BY <1>1, TipIsNumbered
<1>4. \A a \in Block : Extends(b, a) => Height[b] = Height[a] + 1 /\ Height[a] \in Nat
  BY HeightAssumption DEF Extends
<1>5. CASE b = Tip(chain, base) BY <1>3, <1>5
<1>6. CASE Extends(b, Tip(chain, base)) BY <1>1, <1>3, <1>4, <1>6
<1>7. CASE ParentAt(chain, b, base) # {}
  <2>1. PICK i \in 0..Len(chain) : Extends(b, IF i = 0 THEN base ELSE chain[i])
    BY <1>7 DEF ParentAt
  <2> DEFINE a == IF i = 0 THEN base ELSE chain[i]
  <2>2. i # 0 => i \in 1..Len(chain) OBVIOUS
  <2>3. a \in Block /\ Height[a] >= Height[base] BY <1>1, <2>2
  <2> HIDE DEF a
  <2>4. Extends(b, a) BY <2>1 DEF a
  <2> QED BY <1>1, <1>4, <2>3, <2>4
<1> QED BY <1>5, <1>6, <1>7 DEF IsGap, IsReorg, IsAppend, IsDuplicate

LEMMA RingKept ==
  ASSUME RingInv, UNCHANGED <<anchor, cursor, ring, conn, item, stale>>,
         Running' => Running
  PROVE  RingInv'
PROOF BY DEF RingInv, BlockBatch

LEMMA FollowerRing ==
  ASSUME IInv, AgreeInv, LogsInv, RingInv, RingHolds, RingHolds', Follower
  PROVE  RingInv'
PROOF
<1>1. /\ ServerTypeOK /\ HotOK /\ HotTypeOK /\ EventsTypeOK /\ FreshFilter
      /\ cursor \in Nat /\ conn \in {None} \cup Connection
  BY DEF IInv, LogsInv, HotOK, EventsOK, HotTypeOK
<1>2. /\ stage = "pull" /\ event = None /\ anchor' = anchor
      /\ anchor \in Block /\ Height[anchor] \in Nat
  BY <1>1, HeightAssumption
     DEF Follower, Evicted, Rejected, Conflict, NoData, Open, Deliver, Heartbeat,
         Cut, Resume, Unserved, EventsAndWireUnchanged, clientVars, eventsVars, Idle,
         EventsTypeOK
<1>3. Running =>
        /\ \A h \in Height[anchor]..(cursor - 1) : h \in DOMAIN ring
        /\ item \notin BlockBatch => cursor - 1 \in DOMAIN ring
        /\ conn # None /\ stale /\ item \notin BlockBatch => cursor - 2 \in DOMAIN ring
  BY DEF RingInv
<1>4. CASE Evicted \/ Unserved
  <2>1. ~Running'
    BY <1>4 DEF Evicted, Unserved, HotEvicted, Fatal, Running
  <2> QED BY <2>1 DEF RingInv
<1>5. ASSUME item \notin BlockBatch, item' \notin BlockBatch, conn' = None \/ ~stale',
             UNCHANGED <<cursor, ring>>, Running' => Running
      PROVE  RingInv'
  BY <1>2, <1>3, <1>5 DEF RingInv, BlockBatch
<1>6. CASE Open
  <2>1. item = None /\ item' = None /\ ~stale' /\ UNCHANGED <<cursor, ring, status>>
    BY <1>6 DEF Open, HotOpen, Requesting, RequestOpened
  <2> QED BY <1>5, <2>1, NoBatch DEF Running
<1>7. CASE Rejected
  <2>1. /\ conn' = None /\ item = None /\ item' = None
        /\ status' \in {status, "rejected"} /\ UNCHANGED <<cursor, ring>>
    BY <1>7 DEF Rejected, HotRejected, Requesting, Fatal
  <2> QED BY <1>5, <2>1, NoBatch DEF Running
<1>8. CASE NoData
  <2>1. conn' = None /\ item = None /\ item' = Tick /\ UNCHANGED <<cursor, ring, status>>
    BY <1>8 DEF NoData, HotNoData, Requesting
  <2> QED BY <1>5, <2>1, NoBatch DEF Running
<1>9. CASE Heartbeat \/ Cut
  <2>1. /\ conn # None /\ conn.reading /\ conn' \in {conn, None}
        /\ item = None /\ item' = Tick /\ UNCHANGED <<cursor, ring, status, stale>>
    BY <1>9 DEF Heartbeat, Cut, HotHeartbeat, HotCut, Reading, EventsAndWireUnchanged,
                wireVars
  <2>2. ~stale' BY <1>1, <2>1 DEF FreshFilter
  <2> QED BY <1>5, <2>1, <2>2, NoBatch DEF Running
<1>10. CASE Resume
  <2>1. /\ Running /\ item = None /\ item' = None /\ conn # None
        /\ IF stale THEN conn' = None /\ cursor' = cursor - 1 ELSE UNCHANGED cursor
        /\ UNCHANGED <<ring, status, stale>>
    BY <1>10 DEF Resume, HotResume, EventsAndWireUnchanged, wireVars
  <2>2. CASE ~stale BY <1>5, <2>1, <2>2, NoBatch DEF Running
  <2>3. CASE stale
    <3>1. cursor - 2 \in DOMAIN ring BY <1>3, <2>1, <2>3, NoBatch
    <3>2. \A h \in Height[anchor]..(cursor' - 1) : h \in DOMAIN ring'
      BY <1>1, <1>2, <1>3, <2>1, <2>3
    <3>3. cursor' - 1 \in DOMAIN ring' BY <1>1, <2>1, <2>3, <3>1
    <3> QED BY <1>2, <2>1, <2>3, <3>2, <3>3 DEF RingInv
  <2> QED BY <2>2, <2>3
<1>11. CASE Conflict
  <2>1. /\ Running /\ conn = None /\ item = None /\ cursor' <= cursor
        /\ UNCHANGED <<ring, conn, item>>
    BY <1>1, <1>11, ConflictLowers DEF Conflict, HotConflict, Requesting
  <2>2. PICK prev \in PreviousBlocks(cursor) : Negotiate(prev, Height[anchor])
    BY <1>11 DEF Conflict, HotConflict, Floor
  <2> DEFINE confirmed == {b \in prev : /\ Height[b] >= Height[anchor]
                                        /\ Height[b] \in DOMAIN ring
                                        /\ ring[Height[b]] = b}
  <2>3. prev \subseteq Block /\ \A b \in prev : Height[b] < cursor
    BY <1>1, <2>2, AncestryAssumption DEF PreviousBlocks, Canonical, ServerTypeOK
  <2>4. Running' => \/ /\ confirmed # {}
                       /\ cursor' = Height[Highest(confirmed)] + 1
                    \/ /\ cursor - 1 > Height[anchor]
                       /\ cursor' = cursor - 1
    BY <2>2 DEF Negotiate, Fatal, Running
  <2>5. cursor' \in Int
    <3>1. status \in Statuses BY DEF IInv
    <3>2. HotOK' BY <1>1, <1>11, <3>1, HotConflictStep DEF Conflict
    <3> QED BY <3>2 DEF HotOK, HotTypeOK
  <2>6. ASSUME Running' PROVE cursor' - 1 \in DOMAIN ring
    <3>1. CASE confirmed # {} /\ cursor' = Height[Highest(confirmed)] + 1
      <4> HIDE DEF confirmed
      <4>1. confirmed \subseteq Block /\ \A b \in confirmed : Height[b] < cursor
        BY <2>3 DEF confirmed
      <4>2. Highest(confirmed) \in confirmed BY <1>1, <3>1, <4>1, HighestExists
      <4>3. Height[Highest(confirmed)] \in DOMAIN ring BY <4>2 DEF confirmed
      <4>4. Height[Highest(confirmed)] \in Nat BY <4>1, <4>2, HeightAssumption
      <4>5. cursor' - 1 = Height[Highest(confirmed)] BY <3>1, <4>4
      <4> QED BY <4>3, <4>5
    <3>2. CASE cursor - 1 > Height[anchor] /\ cursor' = cursor - 1
      <4>1. cursor' - 1 \in Height[anchor]..(cursor - 1) BY <1>1, <1>2, <3>2
      <4> QED BY <1>3, <2>1, <4>1
    <3> HIDE DEF confirmed
    <3> QED BY <2>4, <2>6, <3>1, <3>2
  <2> HIDE DEF confirmed
  <2>7. ASSUME NEW h \in Height[anchor]..(cursor' - 1)
        PROVE  h \in DOMAIN ring
    <3>1. cursor \in Int /\ Height[anchor] \in Int /\ cursor' <= cursor
      BY <1>1, <1>2, <2>1
    <3>2. \A lo, m, n \in Int : m <= n => lo..(m - 1) \subseteq lo..(n - 1) OBVIOUS
    <3>3. h \in Height[anchor]..(cursor - 1) BY <2>5, <3>1, <3>2
    <3> QED BY <1>3, <2>1, <3>3
  <2>8. Running' =>
          /\ \A h \in Height[anchor']..(cursor' - 1) : h \in DOMAIN ring'
          /\ cursor' - 1 \in DOMAIN ring'
          /\ conn' = None
    BY <1>2, <2>1, <2>6, <2>7
  <2> QED BY <2>8 DEF RingInv
<1>12. CASE Deliver
  <2>1. PICK b \in NextServed(conn.last) :
          /\ ring' = Delivered(ring, b, Height[anchor])
          /\ cursor' = Height[b] + 1
          /\ item' = Batch(b, ChildLogs[b] \cap conn.filter)
    BY <1>12 DEF Deliver, HotDeliver, Floor
  <2>2. Running /\ conn # None /\ conn \in Connection
    BY <1>1, <1>12 DEF Deliver, HotDeliver, Reading
  <2>3. conn.last \in Block /\ cursor = Height[conn.last] + 1
    BY <1>1, <2>2 DEF HotOK, CursorFollows, Connection
  <2>4. b \in Block /\ Height[b] <= cursor /\ Height[b] \in Nat
    BY <1>1, <2>3, ServedNext, HeightAssumption
  <2>5. item' \in BlockBatch
    <3>1. ChildLogs[b] \cap conn.filter \in SUBSET Child BY <2>4, ChildAssumption
    <3> QED BY <2>1, <2>4, <3>1 DEF Batch, BlockBatch
  <2>6. RingOK(ring) BY <1>1 DEF HotTypeOK, RingOK
  <2>7. \A h \in DOMAIN ring \cup {Height[b]} : h < Height[anchor] + RingCap
    <3>1. \A h \in DOMAIN ring : h < Height[anchor] + RingCap BY DEF RingHolds
    <3>2. Height[b] < Height[anchor] + RingCap
      BY <1>2, <2>1, <2>4 DEF RingHolds
    <3> QED BY <3>1, <3>2
  <2>8. ASSUME NEW h \in Height[anchor]..(cursor' - 1)
        PROVE  h \in DOMAIN ring'
    <3>1. h \in DOMAIN ring \cup {Height[b]}
      BY <1>1, <1>2, <1>3, <2>1, <2>2, <2>4
    <3> QED BY <1>2, <2>1, <2>4, <2>6, <2>7, <3>1, DeliveredCovers
  <2> QED BY <1>2, <2>5, <2>8 DEF RingInv, BlockBatch
<1> QED BY <1>4, <1>6, <1>7, <1>8, <1>9, <1>10, <1>11, <1>12 DEF Follower


LEMMA ProducerRing ==
  ASSUME IInv, AgreeInv, LogsInv, RingInv, Producer
  PROVE  RingInv'
PROOF
<1>1. /\ HotOK /\ EventsOK /\ EventsTypeOK /\ FreshFilter /\ Carried
      /\ cursor \in Nat /\ window \in Seq(Block) /\ Linked(window, anchor)
      /\ anchor \in Block /\ Height[anchor] \in Nat
  BY HeightAssumption
     DEF IInv, AgreeInv, LogsInv, FollowerBehind, HotOK, HotTypeOK, EventsOK,
         EventsTypeOK, WindowLinked
<1>2. Running /\ UNCHANGED <<cursor, ring, conn, stale>>
  BY DEF Producer, OnItem, ItemTaken, AppendBlock, Skip, PollAny, Poll, hotVars, wireVars
<1>3. /\ \A h \in Height[anchor]..(cursor - 1) : h \in DOMAIN ring
      /\ item \notin BlockBatch => cursor - 1 \in DOMAIN ring
      /\ conn # None /\ stale /\ item \notin BlockBatch => cursor - 2 \in DOMAIN ring
  BY <1>2 DEF RingInv
<1>4. ASSUME item' \notin BlockBatch => item \notin BlockBatch,
             anchor' \in Block, Height[anchor'] >= Height[anchor]
      PROVE  RingInv'
  <2>1. Height[anchor'] \in Nat BY <1>4, HeightAssumption
  <2>2. \A lo, m, n \in Int : lo <= m => m..n \subseteq lo..n OBVIOUS
  <2>3. cursor - 1 \in Int BY <1>1
  <2>4. \A h \in Height[anchor']..(cursor - 1) : h \in DOMAIN ring
    BY <1>1, <1>3, <1>4, <2>1, <2>2, <2>3
  <2> QED BY <1>2, <1>3, <1>4, <2>4 DEF RingInv, BlockBatch
<1>5. CASE OnItem
  <2>1. item # None /\ item \in Item /\ item' = None
    BY <1>1, <1>5 DEF OnItem, ItemTaken, HotOK, HotTypeOK
  <2>2. CASE item = Tick
    <3>1. anchor' = anchor BY <1>5, <2>2 DEF OnItem, TakeTick, Tick
    <3> QED BY <1>1, <1>4, <2>2, <3>1, NoBatch
  <2>3. CASE item # Tick
    <3> DEFINE b == item.block
    <3>1. item \in BlockBatch /\ item.kind # "tick" /\ b \in Block
      BY <2>1, <2>3 DEF Item, Batches, Batch, BlockBatch
    <3>2. TakeBlock(item, awaiting = b) BY <1>5, <3>1 DEF OnItem
    <3>3. /\ anchor' = anchor
          /\ Running' => ~IsGap(window, b, anchor)
      BY <3>2 DEF TakeBlock, TakeDuplicate, TakeAppend, TakeReorg, TakeGap, AppendAndYield,
                  eventsVars, IsGap, Fatal, Running
    <3>4. conn \in Connection /\ conn # None /\ conn.last = b
      BY <1>1, <3>1, NoItemAssumption DEF Carried, Brings
    <3>5. cursor = Height[b] + 1 /\ Height[b] \in Nat /\ ~stale
      BY <1>1, <3>1, <3>4, HeightAssumption DEF HotOK, CursorFollows, FreshFilter
    <3> HIDE DEF b
    <3>6. Running' => cursor - 1 \in DOMAIN ring
      <4>1. SUFFICES ASSUME Running' PROVE cursor - 1 \in DOMAIN ring OBVIOUS
      <4>2. Height[b] >= Height[anchor]
        BY <1>1, <3>1, <3>3, <4>1, KnownIsAbove DEF b
      <4>3. cursor - 1 \in Height[anchor]..(cursor - 1) BY <1>1, <3>5, <4>2
      <4> QED BY <1>3, <4>3
    <3> QED BY <1>2, <1>3, <3>3, <3>5, <3>6 DEF RingInv
  <2> QED BY <2>2, <2>3
<1>6. CASE AppendBlock \/ Skip
  <2>1. anchor' = anchor /\ item' = item
    BY <1>6 DEF AppendBlock, AppendAfterReorg, AppendAndYield, Skip, CadenceSkip,
                eventsVars, hotVars
  <2> QED BY <1>1, <1>4, <2>1 DEF BlockBatch
<1>7. CASE PollAny
  <2>1. PICK fh \in FinalizedHeads : CadencePoll(fh) BY <1>7 DEF PollAny, Poll
  <2>2. item' = item BY <1>7 DEF PollAny, Poll, hotVars
  <2>3. final \in Block BY AncestryAssumption DEF IInv, ServerTypeOK
  <2>4. fh = None \/ fh.number \in Int
    BY <2>1, <2>3, AncestryAssumption, HeightAssumption DEF FinalizedHeads
  <2>5. \/ anchor' = anchor
        \/ fh # None /\ FinalizedTip(window, fh.number) # None
                     /\ anchor' = FinalizedTip(window, fh.number)
    BY <2>1 DEF CadencePoll, PollFailed, PollStarved, PollApply, eventsVars
  <2>6. CASE anchor' = anchor BY <1>1, <1>4, <2>2, <2>6 DEF BlockBatch
  <2>7. CASE fh # None /\ FinalizedTip(window, fh.number) # None
                       /\ anchor' = FinalizedTip(window, fh.number)
    <3> DEFINE n == fh.number
    <3>1. n \in Int /\ FinalizedTip(window, n) # None /\ anchor' = FinalizedTip(window, n)
      BY <2>4, <2>7
    <3> HIDE DEF n
    <3>2. PICK k \in 1..Len(window) : anchor' = window[k] BY <1>1, <3>1, FinalizeCut
    <3>3. anchor' \in Block /\ Height[anchor'] = Height[anchor] + k
      BY <1>1, <3>2, LinkedIsNumbered
    <3>4. Height[anchor'] >= Height[anchor] BY <1>1, <3>2, <3>3
    <3> QED BY <1>4, <2>2, <3>3, <3>4 DEF BlockBatch
  <2> QED BY <2>5, <2>6, <2>7
<1> QED BY <1>5, <1>6, <1>7 DEF Producer


LEMMA OnBlockRing ==
  ASSUME IInv, AgreeInv, LogsInv, RingInv, item = None, event \in BlockEvents,
         OnBlock(event.block, event.logs), EventTaken, UNCHANGED hotVars
  PROVE  RingInv'
PROOF
<1> DEFINE b == event.block
           new == Creates[b] \ Live(created)
<1>1. /\ WireTypeOK /\ HotOK /\ FeedAgrees /\ Carried /\ ChildrenMatch /\ item \notin BlockBatch
      /\ cursor \in Nat /\ b \in Block /\ b # None /\ awaiting \in {None, b}
      /\ UNCHANGED <<anchor, cursor, ring, conn, item>>
  BY NoBatch, NoneAssumption
     DEF IInv, AgreeInv, LogsInv, FollowerBehind, HotOK, HotTypeOK, FeedAgrees, BlockFits,
         BlockEvents, EventTaken, hotVars
<1>2. IF new # {} /\ ~wildcard THEN Suppress(b) ELSE Forward(b, event.logs)
  BY <1>1 DEF OnBlock
<1>3. CASE Forward(b, event.logs)
  BY <1>1, <1>3, RingKept DEF Forward, Running
<1>4. CASE new # {} /\ Suppress(b)
  <2>1. Running' => Running BY <1>4 DEF Suppress, Running
  <2>2. awaiting = None BY <1>1, <1>4, RedeliveredHasNoNew
  <2> HIDE DEF new
  <2>3. anchor = durable /\ Linked(Append(FeedChain, b), durable)
    BY <2>2 DEF AgreeInv, FeedAgrees, BlockFits, Agrees
  <2>4. FeedChain \in Seq(Block) /\ durable \in Block BY <1>1, GivenTyped
  <2>5. Tip(Append(FeedChain, b), durable) = b BY <1>1, <2>3, <2>4, LastExtends
  <2>6. Append(FeedChain, b) \in Seq(Block) /\ Len(Append(FeedChain, b)) >= 1
    BY <1>1, <2>4
  <2>7. Height[b] = Height[durable] + Len(Append(FeedChain, b))
    BY <2>3, <2>4, <2>5, <2>6, TipIsNumbered
  <2>8. Height[b] >= Height[anchor] + 1 /\ Height[anchor] \in Nat
    BY <2>3, <2>4, <2>6, <2>7, HeightAssumption
  <2>9. cursor = Height[b] + 1 /\ Height[b] \in Nat
    BY <1>1, NoItemAssumption, HeightAssumption DEF Carried, Brings, HotOK, CursorFollows
  <2> HIDE DEF b
  <2>10. cursor - 2 \in Height[anchor]..(cursor - 1) BY <2>8, <2>9
  <2> QED BY <1>1, <2>1, <2>10 DEF RingInv
<1> QED BY <1>2, <1>3, <1>4

LEMMA OnReorgRing ==
  ASSUME IInv, AgreeInv, RingInv, item = None, event \in ReorgEvents,
         OnReorg(event.block, event.reorged), EventTaken, UNCHANGED hotVars
  PROVE  RingInv'
PROOF
<1>1. /\ HotOK /\ EventsOK /\ EventsTypeOK /\ Carried /\ item \notin BlockBatch
      /\ cursor \in Nat /\ anchor \in Block /\ window \in Seq(Block) /\ Linked(window, anchor)
      /\ stage = "append" /\ Height[anchor] \in Nat
      /\ UNCHANGED <<anchor, cursor, ring, conn, item>>
  BY NoBatch, HeightAssumption
     DEF IInv, AgreeInv, FollowerBehind, HotOK, HotTypeOK, EventsOK, EventsTypeOK,
         WindowLinked, FeedAgrees, ReorgFits, EventTaken, hotVars
<1>2. Running' => Running BY DEF OnReorg, Running
<1>3. pending \in BlockBatch /\ pending.block \in Block
  BY <1>1 DEF EventsTypeOK, BlockBatch
<1>4. Extends(pending.block, Tip(window, anchor)) BY <1>1 DEF EventsOK, AppendFits
<1>5. /\ Tip(window, anchor) \in Block
      /\ Height[Tip(window, anchor)] = Height[anchor] + Len(window)
  BY <1>1, TipIsNumbered
<1>6. Height[pending.block] = Height[anchor] + Len(window) + 1 /\ Len(window) \in Nat
  BY <1>1, <1>3, <1>4, <1>5, HeightAssumption DEF Extends
<1>7. cursor = Height[pending.block] + 1
  BY <1>1, <1>3, NoItemAssumption DEF Carried, Brings, HotOK, CursorFollows
<1>8. cursor - 2 \in Height[anchor]..(cursor - 1) BY <1>1, <1>6, <1>7
<1> QED BY <1>1, <1>2, <1>8 DEF RingInv

LEMMA WireRing ==
  ASSUME IInv, AgreeInv, LogsInv, RingInv, Wire
  PROVE  RingInv'
PROOF
<1>1. CASE OnEvent
  <2>1. /\ event # None /\ EventTaken /\ item = None /\ UNCHANGED hotVars
        /\ event \in BlockEvents \cup ReorgEvents \cup FinalizeEvents
    BY <1>1 DEF OnEvent, EventsTypeOK, EventsOK, IInv, TakeTurns
  <2>2. CASE event \in BlockEvents
    <3>1. OnBlock(event.block, event.logs) BY <1>1, <2>2 DEF OnEvent, BlockEvents
    <3> QED BY <2>1, <2>2, <3>1, OnBlockRing
  <2>3. CASE event \in ReorgEvents
    <3>1. OnReorg(event.block, event.reorged) BY <1>1, <2>3 DEF OnEvent, ReorgEvents
    <3> QED BY <2>1, <2>3, <3>1, OnReorgRing
  <2>4. CASE event \in FinalizeEvents
    <3>1. OnFinalize(event.block) BY <1>1, <2>4 DEF OnEvent, FinalizeEvents
    <3> QED BY <2>1, <3>1, RingKept DEF OnFinalize, EventTaken, hotVars, Running
  <2> QED BY <2>1, <2>2, <2>3, <2>4
<1>2. CASE Drain \/ Watchdog
  <2>1. UNCHANGED <<anchor, cursor, ring, conn, item, stale>> /\ Running
    BY <1>2 DEF Drain, DrainHeld, Watchdog, WatchdogFires, hotVars, eventsVars
  <2> QED BY <2>1, RingKept
<1> QED BY <1>1, <1>2 DEF Wire

LEMMA RingNext ==
  ASSUME IInv, AgreeInv, LogsInv, RingInv, RingHolds, RingHolds', [Next]_vars
  PROVE  RingInv'
PROOF
<1>1. CASE Follower BY <1>1, FollowerRing
<1>2. CASE Producer BY <1>2, ProducerRing
<1>3. CASE Wire BY <1>3, WireRing
<1>4. CASE Restart
  <2>1. PICK start \in Block :
          /\ anchor' = start /\ cursor' = Height[start] + 1
          /\ ring' = [h \in {Height[start]} |-> start]
          /\ conn' = None
    BY <1>4 DEF Restart
  <2>2. Height[start] \in Nat BY HeightAssumption
  <2>3. cursor' - 1 = Height[start] /\ DOMAIN ring' = {Height[start]} BY <2>1, <2>2
  <2>4. \A h \in Height[anchor']..(cursor' - 1) : h \in DOMAIN ring'
    BY <2>1, <2>2, <2>3
  <2> QED BY <2>1, <2>3, <2>4 DEF RingInv
<1>5. CASE Server \/ Crash \/ UNCHANGED vars
  <2>1. /\ UNCHANGED <<anchor, cursor, ring, conn, item, stale>>
        /\ Running' => Running
    BY <1>5 DEF Server, Crash, vars, clientVars, hotVars, eventsVars, wireVars, Running
  <2> QED BY <2>1, RingKept
<1> QED BY <1>1, <1>2, <1>3, <1>4, <1>5 DEF Next, Stopped

LEMMA RingInit == Init => RingInv
PROOF
<1> SUFFICES ASSUME Init PROVE RingInv OBVIOUS
<1>1. /\ anchor = Root /\ cursor = Height[Root] + 1 /\ Height[Root] \in Nat
      /\ ring = [h \in {Height[Root]} |-> Root] /\ conn = None
  BY RootAssumption, HeightAssumption DEF Init, HotInit, EventsInit
<1>2. cursor - 1 = Height[Root] /\ DOMAIN ring = {Height[Root]} BY <1>1
<1>3. \A h \in Height[anchor]..(cursor - 1) : h \in DOMAIN ring BY <1>1, <1>2
<1> QED BY <1>1, <1>2, <1>3 DEF RingInv

(* As long as the Portal serves less than RING_CAP blocks above the finalized    *)
(* one, no prune, rewind, reopen or finalize leaves the cursor without its        *)
(* resume parent: the eviction fatal is for deeper windows only.               *)
THEOREM RingIsEnough == Spec /\ []RingHolds => []RingCoversResume
PROOF
<1>1. IInv /\ AgreeInv /\ LogsInv /\ RingInv /\ RingHolds /\ RingHolds' /\ [Next]_vars
      => RingInv'
  BY RingNext
<1>2. Spec => []IInv /\ []AgreeInv
  <2>1. IInv /\ AgreeInv /\ FinalInv => IInv /\ AgreeInv OBVIOUS
  <2> QED BY <2>1, AgreeInductive, PTL
<1>3. Spec /\ []RingHolds => []RingInv
  BY <1>1, <1>2, RingInit, LogsInductive, PTL DEF Spec
<1>4. IInv /\ AgreeInv /\ RingInv => RingCoversResume
  <2> SUFFICES ASSUME IInv, AgreeInv, RingInv, Running, conn = None PROVE ResumeParent # None
    BY DEF RingCoversResume
  <2>1. CASE item \in BlockBatch
    BY <2>1, NoItemAssumption DEF AgreeInv, FollowerBehind, Carried, Brings
  <2>2. CASE item \notin BlockBatch
    <3>1. cursor - 1 \in DOMAIN ring BY <2>2 DEF RingInv
    <3>2. ring[cursor - 1] \in Block BY <3>1 DEF IInv, HotOK, HotTypeOK
    <3> QED BY <3>1, <3>2, NoneAssumption DEF ResumeParent
  <2> QED BY <2>1, <2>2
<1> QED BY <1>2, <1>3, <1>4, PTL
=============================================================================
