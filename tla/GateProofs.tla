----------------------------- MODULE GateProofs ------------------------------
(***************************************************************************)
(* INV-8 for any number of requests, any limits and any retry budget: the    *)
(* concurrency limit stays within its bounds, no request waits while a slot  *)
(* is free, no slot is lost or counted twice on any way out of a request,    *)
(* and slots are granted in order, below the limit of the moment.           *)
(* INV-7: the rows that are counted are those of the cached chunks.          *)
(***************************************************************************)
EXTENDS PortalFetch, FiniteSetTheorems, TLAPS

IInv == TypeOK /\ WorkConserving

(* What pumping leaves: nobody waits, or the limit is used up.             *)
PumpedOK(l) ==
  /\ active' \in Nat
  /\ waiters' \in Seq(Request)
  /\ waiters' # <<>> => active' >= l

LEMMA PumpUsesTheLimit ==
  ASSUME NEW l \in Nat, NEW a \in Nat, NEW queue \in Seq(Request)
  PROVE  /\ Pump(l, a, queue).active \in Nat
         /\ Pump(l, a, queue).waiters \in Seq(Request)
         /\ Pump(l, a, queue).waiters # <<>> => Pump(l, a, queue).active >= l
PROOF
<1> DEFINE granted == AtMost(Len(queue), AtLeast(0, l - a))
<1>1. granted \in 0..Len(queue) BY DEF AtMost, AtLeast
<1>2. granted < Len(queue) => a + granted >= l BY DEF AtMost, AtLeast
<1>3. /\ Pump(l, a, queue).active = a + granted
      /\ Pump(l, a, queue).waiters = SubSeq(queue, granted + 1, Len(queue))
  BY DEF Pump
<1> HIDE DEF granted
<1>4. /\ SubSeq(queue, granted + 1, Len(queue)) \in Seq(Request)
      /\ Len(SubSeq(queue, granted + 1, Len(queue))) = Len(queue) - granted
  BY <1>1
<1>5. granted = Len(queue) => SubSeq(queue, granted + 1, Len(queue)) = <<>>
  BY <1>4
<1> QED BY <1>1, <1>2, <1>3, <1>4, <1>5

LEMMA ReleaseOK ==
  ASSUME NEW l \in Nat, NEW a \in Nat, NEW queue \in Seq(Request),
         Release(l, a, queue)
  PROVE  PumpedOK(l)
PROOF
<1>1. AtLeast(0, a - 1) \in Nat BY DEF AtLeast
<1> QED BY <1>1, PumpUsesTheLimit DEF Release, GateIs, PumpedOK

-----------------------------------------------------------------------------
(* The gate.                                                               *)
GateOK == GateTypeOK /\ WorkConserving

LEMMA GateInitOK == GateInit => GateOK
PROOF
<1> SUFFICES ASSUME GateInit PROVE GateOK OBVIOUS
<1>1. limit \in MinLimit..MaxLimit
  BY LimitAssumption DEF GateInit, AtMost, AtLeast
<1>2. <<>> \in Seq(Request) OBVIOUS
<1> QED BY <1>1, <1>2, RampAssumption DEF GateInit, GateOK, GateTypeOK, WorkConserving

LEMMA AcquireOK ==
  ASSUME GateOK, NEW r \in Request, Acquire(r)
  PROVE  GateOK'
PROOF
<1>1. limit \in Nat /\ active \in Nat /\ Append(waiters, r) \in Seq(Request)
  BY LimitAssumption DEF GateOK, GateTypeOK
<1>2. PumpedOK(limit)
  BY <1>1, PumpUsesTheLimit DEF Acquire, GateIs, PumpedOK
<1> QED BY <1>2 DEF Acquire, GateOK, GateTypeOK, WorkConserving, PumpedOK

LEMMA LeaveOK ==
  ASSUME GateOK, OkAndRelease \/ ThrottleAndRelease \/ JustRelease
  PROVE  GateOK'
PROOF
<1>1. /\ limit \in MinLimit..MaxLimit /\ active \in Nat /\ waiters \in Seq(Request)
      /\ ok \in 0..RampEvery /\ rows \in Nat
      /\ MinLimit \in Nat \ {0} /\ MaxLimit \in Nat /\ MinLimit <= MaxLimit
      /\ RampEvery \in Nat \ {0} /\ RampStep \in Nat \ {0}
  BY LimitAssumption, RampAssumption DEF GateOK, GateTypeOK
<1>2. /\ limit' \in MinLimit..MaxLimit
      /\ ok' \in 0..RampEvery
      /\ rows' = rows
      /\ PumpedOK(limit')
  <2>1. CASE OkAndRelease
    <3> DEFINE pumped == Pump(limit', active, waiters)
    <3>1. /\ limit' = IF Ramps THEN Ramped ELSE limit
          /\ ok' = IF Ramps THEN 0 ELSE AtMost(RampEvery, ok + 1)
          /\ Release(limit', pumped.active, pumped.waiters)
          /\ rows' = rows
      BY <2>1 DEF OkAndRelease
    <3>2. limit' \in MinLimit..MaxLimit BY <1>1, <3>1 DEF Ramped, AtMost
    <3>3. ok' \in 0..RampEvery BY <1>1, <3>1 DEF AtMost
    <3>4. limit' \in Nat BY <1>1, <3>2
    <3>5. pumped.active \in Nat /\ pumped.waiters \in Seq(Request)
      BY <1>1, <3>4, PumpUsesTheLimit
    <3> HIDE DEF pumped
    <3>6. PumpedOK(limit') BY <3>1, <3>4, <3>5, ReleaseOK
    <3> QED BY <3>1, <3>2, <3>3, <3>6
  <2>2. CASE ThrottleAndRelease
    <3>1. /\ limit' = AtLeast(MinLimit, limit \div 2)
          /\ ok' = 0
          /\ Release(limit', active, waiters)
          /\ rows' = rows
      BY <2>2 DEF ThrottleAndRelease
    <3>2. limit \div 2 \in Nat /\ limit \div 2 <= limit BY <1>1
    <3>3. limit' \in MinLimit..MaxLimit BY <1>1, <3>1, <3>2 DEF AtLeast
    <3>4. PumpedOK(limit') BY <1>1, <3>1, <3>3, ReleaseOK
    <3> QED BY <1>1, <3>1, <3>3, <3>4
  <2>3. CASE JustRelease
    <3>1. Release(limit, active, waiters) /\ UNCHANGED <<limit, ok, rows>>
      BY <2>3 DEF JustRelease
    <3>2. PumpedOK(limit) BY <1>1, <3>1, ReleaseOK
    <3> QED BY <1>1, <3>1, <3>2
  <2> QED BY <2>1, <2>2, <2>3
<1> QED BY <1>1, <1>2 DEF GateOK, GateTypeOK, WorkConserving, PumpedOK

LEMMA GateKept ==
  ASSUME GateOK, UNCHANGED <<limit, active, ok, waiters>>, rows' \in Nat
  PROVE  GateOK'
PROOF BY DEF GateOK, GateTypeOK, WorkConserving

-----------------------------------------------------------------------------
(* The streams and their tokens.                                           *)
LEMMA StreamTyped ==
  ASSUME FetchTypeOK, NEW f \in Fetch, StreamStarts(f) \/ StreamEnds(f)
  PROVE  /\ left' \in [Fetch -> 0..MaxSpan]
         /\ attempt' \in [Fetch -> 0..MaxRetries]
         /\ drops' \in [Fetch -> 0..Columns]
PROOF BY FetchAssumption DEF FetchTypeOK, StreamStarts, StreamEnds

LEMMA AtTyped ==
  ASSUME FetchTypeOK, NEW f \in Fetch, NEW place \in Places,
         Goes(f, place) \/ LeavesGate(f, place)
  PROVE  at' \in [Fetch -> Places]
PROOF
<1>1. "fetching" \in Places BY DEF Places
<1> QED BY <1>1 DEF FetchTypeOK, Goes, LeavesGate

LEMMA TokenTyped ==
  ASSUME FetchTypeOK, GateOK, NEW f \in Fetch, FreeToken(f)
  PROVE  rows' \in Nat /\ freed' \in [Fetch -> BOOLEAN]
PROOF
<1>1. rows \in Nat /\ held[f] \in Nat BY DEF GateOK, GateTypeOK, FetchTypeOK
<1>2. AtLeast(0, rows - held[f]) \in Nat BY <1>1 DEF AtLeast
<1> QED BY <1>1, <1>2 DEF FreeToken, FreeRows, FetchTypeOK

LEMMA DispatchOK ==
  ASSUME GateOK, FetchTypeOK, Dispatch
  PROVE  GateOK' /\ FetchTypeOK'
PROOF
<1>1. ASSUME NEW i \in Chunk, NEW f \in Fetch, Open(i, f)
      PROVE  GateOK' /\ FetchTypeOK'
  <2>1. GateOK' BY <1>1, GateKept DEF Open, gateVars, GateOK, GateTypeOK
  <2>2. at' \in [Fetch -> Places] BY <1>1, AtTyped DEF Open, Places
  <2>3. StreamStarts(f) BY <1>1 DEF Open
  <2> QED BY <1>1, <2>1, <2>2, <2>3, StreamTyped DEF Open, FetchTypeOK
<1>2. ASSUME NEW f \in Fetch, Extend(f)
      PROVE  GateOK' /\ FetchTypeOK'
  <2>1. GateOK' BY <1>2, GateKept DEF Extend, gateVars, GateOK, GateTypeOK
  <2>2. CASE at[f] = "settled"
    <3>1. at' \in [Fetch -> Places] BY <1>2, <2>2, AtTyped DEF Extend, Places
    <3>2. StreamStarts(f) BY <1>2, <2>2 DEF Extend
    <3> QED BY <1>2, <2>1, <2>2, <3>1, <3>2, StreamTyped DEF Extend, FetchTypeOK, tokenVars
  <2>3. CASE at[f] # "settled"
    BY <1>2, <2>1, <2>3 DEF Extend, FetchTypeOK, streamVars, tokenVars
  <2> QED BY <2>2, <2>3
<1>3. ASSUME NEW i \in Chunk, Evict(i)
      PROVE  GateOK' /\ FetchTypeOK'
  <2>1. cache[i] \in Fetch /\ FreeToken(cache[i]) BY <1>3 DEF Evict, FetchTypeOK
  <2>2. rows' \in Nat /\ freed' \in [Fetch -> BOOLEAN] BY <2>1, TokenTyped
  <2>3. GateOK' BY <1>3, <2>2, GateKept DEF Evict
  <2> QED BY <1>3, <2>2, <2>3 DEF Evict, FetchTypeOK, streamVars
<1> QED BY <1>1, <1>2, <1>3 DEF Dispatch

LEMMA StreamOK ==
  ASSUME GateOK, FetchTypeOK, NEW f \in Fetch,
         \/ Reject(f) \/ Ask(f) \/ Clean(f) \/ Congested(f)
         \/ Refused(f) \/ WakeUp(f) \/ Consume(f)
  PROVE  GateOK' /\ FetchTypeOK'
PROOF
<1> USE FetchAssumption
<1>1. CASE Reject(f)
  <2>1. rows' \in Nat /\ freed' \in [Fetch -> BOOLEAN]
    BY <1>1, TokenTyped DEF Reject
  <2>2. GateOK' BY <1>1, <2>1, GateKept DEF Reject
  <2>3. chained' \in [Fetch -> Nat]
    <3>1. chained[f] \in Nat /\ chained[f] > 0 BY <1>1 DEF Reject, FetchTypeOK
    <3>2. chained[f] - 1 \in Nat BY <3>1
    <3>3. chained' = [chained EXCEPT ![f] = chained[f] - 1] BY <1>1 DEF Reject
    <3> QED BY <3>2, <3>3 DEF FetchTypeOK
  <2>4. cache' \in [Chunk -> Fetch \cup {None}] BY <1>1 DEF Reject, FetchTypeOK
  <2> QED BY <1>1, <2>1, <2>2, <2>3, <2>4 DEF Reject, FetchTypeOK, streamVars
<1>2. CASE Ask(f)
  <2>1. GateOK' BY <1>2, AcquireOK DEF Ask, Fetch
  <2>2. at' \in [Fetch -> Places] BY <1>2, AtTyped DEF Ask, Places
  <2> QED BY <1>2, <2>1, <2>2 DEF Ask, FetchTypeOK, streamVars, tokenVars
<1>3. CASE Clean(f)
  <2>1. GateOK' BY <1>3, LeaveOK DEF Clean
  <2>2. at' \in [Fetch -> Places] BY <1>3, AtTyped DEF Clean, Places
  <2>3. left' \in [Fetch -> 0..MaxSpan] BY <1>3 DEF Clean, FetchTypeOK
  <2> QED BY <1>3, <2>1, <2>2, <2>3 DEF Clean, FetchTypeOK, tokenVars
<1>4. CASE Congested(f)
  <2>1. GateOK' BY <1>4, LeaveOK DEF Congested
  <2>2. at' \in [Fetch -> Places] BY <1>4, AtTyped DEF Congested, Places
  <2>3. CASE attempt[f] < MaxRetries
    <3>1. attempt[f] + 1 \in 0..MaxRetries BY <2>3 DEF FetchTypeOK
    <3>2. attempt' = [attempt EXCEPT ![f] = attempt[f] + 1]
      BY <1>4, <2>3 DEF Congested
    <3>3. attempt' \in [Fetch -> 0..MaxRetries] BY <3>1, <3>2 DEF FetchTypeOK
    <3> QED BY <1>4, <2>1, <2>2, <2>3, <3>3 DEF Congested, FetchTypeOK, tokenVars
  <2>4. CASE ~(attempt[f] < MaxRetries)
    <3>1. StreamFails(f) BY <1>4, <2>4 DEF Congested
    <3> QED BY <1>4, <2>1, <2>2, <3>1, StreamTyped
            DEF Congested, StreamFails, FetchTypeOK, tokenVars
  <2> QED BY <2>3, <2>4
<1>5. CASE Refused(f)
  <2>1. GateOK' BY <1>5, LeaveOK DEF Refused
  <2>2. at' \in [Fetch -> Places] BY <1>5, AtTyped DEF Refused, Places
  <2>3. CASE StreamFails(f)
    BY <1>5, <2>1, <2>2, <2>3, StreamTyped
       DEF Refused, StreamFails, FetchTypeOK, tokenVars
  <2>4. CASE ~StreamFails(f)
    BY <1>5, <2>1, <2>2, <2>4 DEF Refused, FetchTypeOK, tokenVars
  <2> QED BY <2>3, <2>4
<1>6. CASE WakeUp(f)
  <2>1. GateOK' BY <1>6, GateKept DEF WakeUp, gateVars, GateOK, GateTypeOK
  <2>2. at' \in [Fetch -> Places] BY <1>6, AtTyped DEF WakeUp, Places
  <2> QED BY <1>6, <2>1, <2>2 DEF WakeUp, FetchTypeOK, streamVars, tokenVars
<1>7. CASE Consume(f)
  <2>1. rows' \in Nat /\ held' \in [Fetch -> Nat]
    <3>1. rows \in Nat /\ batch[f] \in Nat /\ held[f] \in Nat /\ held \in [Fetch -> Nat]
      BY DEF GateOK, GateTypeOK, FetchTypeOK
    <3>2. rows + batch[f] \in Nat /\ held[f] + batch[f] \in Nat BY <3>1
    <3>3. \/ UNCHANGED <<rows, held>>
          \/ /\ rows' = rows + batch[f]
             /\ held' = [held EXCEPT ![f] = held[f] + batch[f]]
      BY <1>7 DEF Consume, AddRows
    <3> QED BY <3>1, <3>2, <3>3
  <2>2. GateOK' BY <1>7, <2>1, GateKept DEF Consume
  <2>3. at' \in [Fetch -> Places] BY <1>7, AtTyped DEF Consume, Places
  <2>4. /\ left' \in [Fetch -> 0..MaxSpan]
        /\ attempt' \in [Fetch -> 0..MaxRetries]
        /\ drops' \in [Fetch -> 0..Columns]
    BY <1>7, StreamTyped DEF Consume, StreamFails, FetchTypeOK, streamVars
  <2>5. chained' \in [Fetch -> Nat]
    BY <1>7 DEF Consume, StreamFails, FetchTypeOK
  <2> QED BY <1>7, <2>1, <2>2, <2>3, <2>4, <2>5 DEF Consume, FetchTypeOK
<1> QED BY <1>1, <1>2, <1>3, <1>4, <1>5, <1>6, <1>7

LEMMA InitOK == Init => IInv
PROOF
<1> SUFFICES ASSUME Init PROVE IInv OBVIOUS
<1>1. GateOK BY GateInitOK DEF Init
<1>2. FetchTypeOK BY FetchAssumption DEF Init, FetchTypeOK, Places
<1> QED BY <1>1, <1>2 DEF IInv, TypeOK, GateOK

LEMMA NextOK == IInv /\ [Next]_vars => IInv'
PROOF
<1> SUFFICES ASSUME IInv, [Next]_vars PROVE IInv' OBVIOUS
<1>1. GateOK /\ FetchTypeOK BY DEF IInv, TypeOK, GateOK
<1>2. GateOK' /\ FetchTypeOK'
  <2>1. CASE Dispatch BY <1>1, <2>1, DispatchOK
  <2>2. CASE \E f \in Fetch : \/ Reject(f) \/ Ask(f) \/ Clean(f) \/ Congested(f)
                              \/ Refused(f) \/ WakeUp(f) \/ Consume(f)
    BY <1>1, <2>2, StreamOK
  <2>3. CASE UNCHANGED vars
    <3>1. GateOK' BY <1>1, <2>3, GateKept DEF vars, gateVars, GateOK, GateTypeOK
    <3> QED BY <1>1, <2>3, <3>1 DEF vars, FetchTypeOK, streamVars, tokenVars
  <2> QED BY <2>1, <2>2, <2>3 DEF Next
<1> QED BY <1>2 DEF IInv, TypeOK, GateOK

(* The gate and the streams keep their types; in particular the AIMD limit    *)
(* never leaves [MinLimit, MaxLimit].                                       *)
THEOREM TypeCorrect == Spec => []TypeOK
PROOF
<1>1. IInv => TypeOK BY DEF IInv
<1> QED BY <1>1, InitOK, NextOK, PTL DEF Spec

(* A request waits for a slot only while the limit is used up, whatever       *)
(* order requests end in and however the limit moves.                       *)
THEOREM NoSlotIdles == Spec => []WorkConserving
PROOF
<1>1. IInv => WorkConserving BY DEF IInv
<1> QED BY <1>1, InitOK, NextOK, PTL DEF Spec

-----------------------------------------------------------------------------
(* Who holds a slot, and who queues for one.                               *)
Fetching == {f \in Fetch : at[f] = "fetching"}

(* Nobody is queued twice.                                                 *)
QueuedOnce == \A i, j \in 1..Len(waiters) : waiters[i] = waiters[j] => i = j

(* Who waits is queued, and nobody else.                                    *)
WaitersMatch == \A f \in Fetch : at[f] = "waiting" <=> f \in Queued

-----------------------------------------------------------------------------
(* The first g of a queue are admitted, and the rest is what is left.          *)
Shift(queue, rest, g) ==
  /\ g \in 0..Len(queue)
  /\ rest \in Seq(Request) /\ Len(rest) = Len(queue) - g
  /\ \A i \in 1..Len(rest) : rest[i] = queue[i + g]

(* What a step of the gate has granted, from queue and a slots in use.         *)
Grants(l, a, queue, g) ==
  /\ Shift(queue, waiters', g)
  /\ active' = a + g
  /\ g > 0 => active' <= l

LEMMA PumpShifts ==
  ASSUME NEW l \in Nat, NEW a \in Nat, NEW queue \in Seq(Request)
  PROVE  \E g \in 0..Len(queue) :
           /\ Shift(queue, Pump(l, a, queue).waiters, g)
           /\ Pump(l, a, queue).active = a + g
           /\ g > 0 => a + g <= l
<1> DEFINE g == AtMost(Len(queue), AtLeast(0, l - a))
<1>1. g \in 0..Len(queue) /\ (g > 0 => a + g <= l) BY DEF AtMost, AtLeast
<1>2. /\ Pump(l, a, queue).active = a + g
      /\ Pump(l, a, queue).waiters = SubSeq(queue, g + 1, Len(queue))
  BY DEF Pump
<1> HIDE DEF g
<1>3. /\ SubSeq(queue, g + 1, Len(queue)) \in Seq(Request)
      /\ Len(SubSeq(queue, g + 1, Len(queue))) = Len(queue) - g
      /\ \A i \in 1..(Len(queue) - g) : SubSeq(queue, g + 1, Len(queue))[i] = queue[i + g]
  BY <1>1
<1>4. QED BY <1>1, <1>2, <1>3 DEF Shift

LEMMA ShiftTwice ==
  ASSUME NEW q \in Seq(Request), NEW r, NEW s, NEW g, NEW h, Shift(q, r, g), Shift(r, s, h)
  PROVE  Shift(q, s, g + h)
<1>1. /\ g \in 0..Len(q) /\ h \in 0..Len(r) /\ Len(r) = Len(q) - g /\ Len(s) = Len(r) - h
      /\ s \in Seq(Request) /\ Len(q) \in Nat
  BY DEF Shift
<1>2. g + h \in 0..Len(q) /\ Len(s) = Len(q) - (g + h) BY <1>1
<1>3. ASSUME NEW i \in 1..Len(s) PROVE s[i] = q[i + (g + h)]
  <2>1. i + h \in 1..Len(r) BY <1>1
  <2>2. s[i] = r[i + h] /\ r[i + h] = q[(i + h) + g] BY <2>1 DEF Shift
  <2>3. (i + h) + g = i + (g + h) BY <1>1
  <2>4. QED BY <2>2, <2>3
<1>4. QED BY <1>1, <1>2, <1>3 DEF Shift

LEMMA ReleaseGrants ==
  ASSUME NEW l \in Nat, NEW a \in Nat \ {0}, NEW queue \in Seq(Request), Release(l, a, queue)
  PROVE  \E g \in 0..Len(queue) : Grants(l, a - 1, queue, g)
<1>1. AtLeast(0, a - 1) = a - 1 /\ a - 1 \in Nat BY DEF AtLeast
<1>2. /\ active' = Pump(l, a - 1, queue).active
      /\ waiters' = Pump(l, a - 1, queue).waiters
  BY <1>1 DEF Release, GateIs
<1>3. PICK g \in 0..Len(queue) :
        /\ Shift(queue, Pump(l, a - 1, queue).waiters, g)
        /\ Pump(l, a - 1, queue).active = a - 1 + g
        /\ g > 0 => a - 1 + g <= l
  BY <1>1, PumpShifts
<1>4. Grants(l, a - 1, queue, g) BY <1>2, <1>3 DEF Grants
<1>5. QED BY <1>4

(* Every way out of a request: it gives its slot back, and g of the queue get    *)
(* one.                                                                   *)
LEMMA LeaveGrants ==
  ASSUME GateTypeOK, active > 0, OkAndRelease \/ ThrottleAndRelease \/ JustRelease
  PROVE  \E g \in 0..Len(waiters) : Grants(limit', active - 1, waiters, g)
<1>1. /\ limit \in Nat /\ active \in Nat \ {0} /\ waiters \in Seq(Request)
      /\ MinLimit \in Nat /\ MaxLimit \in Nat /\ RampStep \in Nat
  BY LimitAssumption, RampAssumption DEF GateTypeOK
<1>2. CASE JustRelease
  <2>1. limit' = limit /\ Release(limit, active, waiters) BY <1>2 DEF JustRelease
  <2>2. QED BY <1>1, <2>1, ReleaseGrants
<1>3. CASE ThrottleAndRelease
  <2>1. limit' = AtLeast(MinLimit, limit \div 2) /\ Release(limit', active, waiters)
    BY <1>3 DEF ThrottleAndRelease
  <2>2. limit \div 2 \in Nat BY <1>1
  <2>3. limit' \in Nat BY <1>1, <2>1, <2>2 DEF AtLeast
  <2>4. QED BY <1>1, <2>1, <2>3, ReleaseGrants
<1>4. CASE OkAndRelease
  <2> DEFINE pumped == Pump(limit', active, waiters)
  <2>1. /\ limit' = IF Ramps THEN Ramped ELSE limit
        /\ Release(limit', pumped.active, pumped.waiters)
    BY <1>4 DEF OkAndRelease
  <2>2. limit' \in Nat BY <1>1, <2>1 DEF Ramped, AtMost
  <2>3. PICK g \in 0..Len(waiters) :
          /\ Shift(waiters, pumped.waiters, g) /\ pumped.active = active + g
          /\ g > 0 => active + g <= limit'
    BY <1>1, <2>2, PumpShifts
  <2> HIDE DEF pumped
  <2>4. /\ pumped.waiters \in Seq(Request) /\ pumped.active \in Nat \ {0}
        /\ Len(pumped.waiters) = Len(waiters) - g
    BY <1>1, <2>3 DEF Shift
  <2>5. PICK h \in 0..Len(pumped.waiters) :
          Grants(limit', pumped.active - 1, pumped.waiters, h)
    BY <2>1, <2>2, <2>4, ReleaseGrants
  <2>6. Shift(waiters, waiters', g + h) BY <1>1, <2>3, <2>5, ShiftTwice DEF Grants
  <2>7. active' = pumped.active - 1 + h /\ (h > 0 => active' <= limit')
    BY <2>5 DEF Grants
  <2>8. /\ active' = active - 1 + (g + h) /\ g + h \in 0..Len(waiters)
        /\ g + h > 0 => active' <= limit'
    BY <1>1, <2>2, <2>3, <2>4, <2>7
  <2>9. QED BY <2>6, <2>8 DEF Grants
<1>5. QED BY <1>2, <1>3, <1>4

-----------------------------------------------------------------------------
(* Who is admitted.                                                        *)

LEMMA ShiftedQueue ==
  ASSUME NEW queue \in Seq(Request), NEW rest, NEW g, Shift(queue, rest, g),
         \A i, j \in 1..Len(queue) : queue[i] = queue[j] => i = j
  PROVE  LET admitted == {queue[i] : i \in 1..g}
             all == {queue[i] : i \in 1..Len(queue)}
         IN  /\ {rest[i] : i \in 1..Len(rest)} = all \ admitted
             /\ admitted \subseteq all
             /\ \A i, j \in 1..Len(rest) : rest[i] = rest[j] => i = j
             /\ IsFiniteSet(admitted) /\ Cardinality(admitted) = g
             /\ \A i \in 1..Len(queue) : queue[i] \in admitted <=> i <= g
<1> DEFINE admitted == {queue[i] : i \in 1..g}
           all == {queue[i] : i \in 1..Len(queue)}
<1>1. /\ g \in 0..Len(queue) /\ Len(queue) \in Nat /\ g \in Nat
      /\ Len(rest) = Len(queue) - g /\ \A i \in 1..Len(rest) : rest[i] = queue[i + g]
  BY DEF Shift
<1>2. \A i \in 1..Len(queue) : queue[i] \in admitted <=> i <= g BY <1>1
<1>3. \A i \in 1..Len(rest) : i + g \in 1..Len(queue) /\ ~(i + g <= g) BY <1>1
<1>4. admitted \subseteq all BY <1>1
<1>5. {rest[i] : i \in 1..Len(rest)} = all \ admitted
  <2>1. ASSUME NEW i \in 1..Len(rest) PROVE rest[i] \in all \ admitted
    BY <1>1, <1>2, <1>3
  <2>2. ASSUME NEW x \in all \ admitted PROVE \E i \in 1..Len(rest) : x = rest[i]
    <3>1. PICK j \in 1..Len(queue) : x = queue[j] BY <2>2
    <3>2. j - g \in 1..Len(rest) /\ (j - g) + g = j BY <1>1, <1>2, <2>2, <3>1
    <3>3. QED BY <1>1, <3>1, <3>2
  <2>3. QED BY <2>1, <2>2
<1>6. \A i, j \in 1..Len(rest) : rest[i] = rest[j] => i = j
  <2>1. TAKE i, j \in 1..Len(rest)
  <2>2. HAVE rest[i] = rest[j]
  <2>3. i + g = j + g BY <1>1, <1>3, <2>2
  <2>4. QED BY <1>1, <2>3
<1>7. IsFiniteSet(admitted) /\ Cardinality(admitted) = g
  <2> DEFINE place == [i \in 1..g |-> queue[i]]
  <2>1. place \in Surjection(1..g, admitted) BY DEF Surjection
  <2>2. place \in Injection(1..g, admitted)
    <3>1. \A i \in 1..g : i \in 1..Len(queue) BY <1>1
    <3>2. QED BY <3>1 DEF Injection, IsInjective
  <2>3. IsFiniteSet(1..g) /\ Cardinality(1..g) = g
    <3>1. 1 \in Int /\ g \in Int BY <1>1
    <3>2. /\ IsFiniteSet(1..g)
          /\ Cardinality(1..g) = IF 1 > g THEN 0 ELSE g - 1 + 1
      BY <3>1, FS_Interval
    <3>3. QED BY <1>1, <3>2
  <2>4. QED BY <2>1, <2>2, <2>3, FS_Surjection
<1>8. QED BY <1>2, <1>4, <1>5, <1>6, <1>7

(* What a step of the gate that grants g slots to the queue leaves.            *)
LEMMA Admitted ==
  ASSUME GateTypeOK, QueuedOnce, NEW a, NEW l, NEW g, Grants(l, a, waiters, g)
  PROVE  LET admitted == {waiters[i] : i \in 1..g}
         IN  /\ Queued \ QueuedNext = admitted /\ admitted \subseteq Queued
             /\ QueuedNext = Queued \ admitted
             /\ QueuedOnce'
             /\ IsFiniteSet(admitted) /\ Cardinality(admitted) = g
             /\ \A i \in 1..Len(waiters) : waiters[i] \in admitted <=> i <= g
<1>1. waiters \in Seq(Request) /\ Shift(waiters, waiters', g)
  BY DEF GateTypeOK, Grants
<1>2. \A i, j \in 1..Len(waiters) : waiters[i] = waiters[j] => i = j BY DEF QueuedOnce
<1> DEFINE admitted == {waiters[i] : i \in 1..g}
<1>3. /\ QueuedNext = Queued \ admitted /\ admitted \subseteq Queued
      /\ \A i, j \in 1..Len(waiters') : waiters'[i] = waiters'[j] => i = j
      /\ IsFiniteSet(admitted) /\ Cardinality(admitted) = g
      /\ \A i \in 1..Len(waiters) : waiters[i] \in admitted <=> i <= g
  BY <1>1, <1>2, ShiftedQueue DEF Queued, QueuedNext
<1> HIDE DEF admitted
<1>4. QueuedOnce' BY <1>3 DEF QueuedOnce
<1>5. Queued \ QueuedNext = admitted BY <1>3
<1>6. QED BY <1>3, <1>4, <1>5 DEF admitted

(* The step of AdmitsInOrder.                                               *)
InOrder ==
  \A f \in Queued \ QueuedNext :
    /\ active' <= limit'
    /\ \A i, j \in 1..Len(waiters) :
         waiters[j] = f /\ i < j => waiters[i] \notin QueuedNext

SlotsOK == /\ QueuedOnce /\ WaitersMatch
           /\ IsFiniteSet(Fetching) /\ active = Cardinality(Fetching)

(* A request ends: its slot is given back, and those admitted have one.          *)
LEMMA LeaveKeeps ==
  ASSUME GateTypeOK, SlotsOK, NEW f \in Fetch, at[f] = "fetching",
         NEW place, place \notin {"fetching", "waiting"}, LeavesGate(f, place),
         OkAndRelease \/ ThrottleAndRelease \/ JustRelease
  PROVE  SlotsOK' /\ InOrder
<1>1. f \in Fetching /\ IsFiniteSet(Fetching) /\ active = Cardinality(Fetching)
  BY DEF Fetching, SlotsOK
<1>2. /\ Cardinality(Fetching) \in Nat
      /\ Cardinality(Fetching \ {f}) = Cardinality(Fetching) - 1
      /\ IsFiniteSet(Fetching \ {f}) /\ Cardinality(Fetching \ {f}) \in Nat
  BY <1>1, FS_RemoveElement, FS_CardinalityType
<1>3. active > 0 BY <1>1, <1>2
<1>4. PICK g \in 0..Len(waiters) : Grants(limit', active - 1, waiters, g)
  BY <1>3, LeaveGrants
<1> DEFINE admitted == {waiters[i] : i \in 1..g}
<1>5. /\ Queued \ QueuedNext = admitted /\ admitted \subseteq Queued
      /\ QueuedNext = Queued \ admitted
      /\ QueuedOnce'
      /\ IsFiniteSet(admitted) /\ Cardinality(admitted) = g
      /\ \A i \in 1..Len(waiters) : waiters[i] \in admitted <=> i <= g
  BY <1>4, Admitted DEF SlotsOK
<1> HIDE DEF admitted
<1>6. at' = [h \in Fetch |-> IF h = f THEN place
                             ELSE IF h \in admitted THEN "fetching" ELSE at[h]]
  BY <1>5 DEF LeavesGate
<1>7. Queued \subseteq Fetch /\ \A h \in Fetch : at[h] = "waiting" <=> h \in Queued
  BY DEF SlotsOK, WaitersMatch, Queued, GateTypeOK, Fetch
<1>8. \A h \in admitted : h \in Fetch /\ h # f /\ at[h] = "waiting" BY <1>5, <1>7
<1>9. Fetching' = (Fetching \ {f}) \cup admitted
  BY <1>6, <1>8 DEF Fetching
<1>10. (Fetching \ {f}) \cap admitted = {} BY <1>8 DEF Fetching
<1>11. IsFiniteSet(Fetching') /\ active' = Cardinality(Fetching')
  <2>1. active' = active - 1 + g BY <1>4 DEF Grants
  <2>2. /\ IsFiniteSet((Fetching \ {f}) \cup admitted)
        /\ Cardinality((Fetching \ {f}) \cup admitted)
             = Cardinality(Fetching \ {f}) + Cardinality(admitted)
               - Cardinality((Fetching \ {f}) \cap admitted)
    BY <1>2, <1>5, FS_Union
  <2>3. Cardinality((Fetching \ {f}) \cap admitted) = 0 BY <1>10, FS_EmptySet
  <2>4. Cardinality(Fetching') = (active - 1) + g
    BY <1>1, <1>2, <1>5, <1>9, <2>2, <2>3
  <2>5. QED BY <1>9, <2>1, <2>2, <2>4
<1>12. WaitersMatch'
  <2>1. ASSUME NEW h \in Fetch PROVE at'[h] = "waiting" <=> h \in QueuedNext
    BY <1>5, <1>6, <1>7, <1>8
  <2>2. Queued' = QueuedNext BY DEF Queued, QueuedNext
  <2>3. QED BY <2>1, <2>2 DEF WaitersMatch, Fetch
<1>13. InOrder
  <2> SUFFICES ASSUME NEW h \in admitted
               PROVE  /\ active' <= limit'
                      /\ \A i, j \in 1..Len(waiters) :
                           waiters[j] = h /\ i < j => waiters[i] \notin QueuedNext
    BY <1>5 DEF InOrder
  <2>1. g > 0 BY <1>4 DEF admitted
  <2>2. active' <= limit' BY <1>4, <2>1 DEF Grants
  <2>3. \A i, j \in 1..Len(waiters) :
          waiters[j] = h /\ i < j => waiters[i] \notin QueuedNext
    BY <1>4, <1>5
  <2>4. QED BY <2>2, <2>3
<1>14. QED BY <1>5, <1>11, <1>12, <1>13 DEF SlotsOK

(* A request asks for a slot: it has one at once, or it queues behind the      *)
(* others, none of whom is admitted.                                         *)
LEMMA AskKeeps ==
  ASSUME IInv, SlotsOK, NEW f \in Fetch, Ask(f)
  PROVE  SlotsOK' /\ InOrder
<1> DEFINE queue == Append(waiters, f)
<1>1. /\ waiters \in Seq(Request) /\ f \in Request /\ limit \in Nat /\ active \in Nat
      /\ queue \in Seq(Request) /\ Len(queue) = Len(waiters) + 1 /\ Len(waiters) \in Nat
      /\ queue[Len(waiters) + 1] = f
      /\ \A i \in 1..Len(waiters) : queue[i] = waiters[i]
  BY LimitAssumption DEF IInv, TypeOK, GateTypeOK, Fetch
<1>2. /\ active' = Pump(limit, active, queue).active
      /\ waiters' = Pump(limit, active, queue).waiters
      /\ limit' = limit
  BY DEF Ask, Acquire, GateIs
<1>3. /\ at[f] = "ready" /\ at \in [Fetch -> Places]
      /\ at' = [at EXCEPT ![f] = IF f \in QueuedNext THEN "waiting" ELSE "fetching"]
  BY DEF Ask, Goes, IInv, TypeOK, FetchTypeOK
<1>4. /\ QueuedOnce /\ IsFiniteSet(Fetching) /\ active = Cardinality(Fetching)
      /\ \A h \in Fetch : at[h] = "waiting" <=> h \in Queued
  BY DEF SlotsOK, WaitersMatch
<1>5. f \notin Queued /\ f \notin Fetching BY <1>3, <1>4 DEF Fetching
<1>6. Queued' = QueuedNext BY DEF Queued, QueuedNext
<1> HIDE DEF queue
<1>7. PICK g \in 0..Len(queue) : Grants(limit, active, queue, g)
  BY <1>1, <1>2, PumpShifts DEF Grants
<1>8. /\ waiters' \in Seq(Request) /\ Len(waiters') = Len(queue) - g
      /\ \A i \in 1..Len(waiters') : waiters'[i] = queue[i + g]
      /\ active' = active + g /\ (g > 0 => active' <= limit)
  BY <1>7 DEF Grants, Shift
<1>9. CASE g = 0
  <2>1. /\ Len(waiters') = Len(waiters) + 1
        /\ waiters'[Len(waiters) + 1] = f
        /\ \A i \in 1..Len(waiters) : waiters'[i] = waiters[i]
    BY <1>1, <1>8, <1>9
  <2>2. QueuedNext = Queued \cup {f}
    <3>1. ASSUME NEW i \in 1..Len(waiters') PROVE waiters'[i] \in Queued \cup {f}
      <4>1. CASE i = Len(waiters) + 1 BY <2>1, <4>1
      <4>2. CASE i # Len(waiters) + 1
        <5>1. i \in 1..Len(waiters) BY <1>1, <2>1, <4>2
        <5>2. QED BY <2>1, <5>1 DEF Queued
      <4>3. QED BY <4>1, <4>2
    <3>2. f \in QueuedNext
      <4>1. Len(waiters) + 1 \in 1..Len(waiters') BY <1>1, <2>1
      <4>2. QED BY <2>1, <4>1 DEF QueuedNext
    <3>3. ASSUME NEW i \in 1..Len(waiters) PROVE waiters[i] \in QueuedNext
      <4>1. i \in 1..Len(waiters') BY <1>1, <2>1
      <4>2. QED BY <2>1, <4>1 DEF QueuedNext
    <3>4. QED BY <3>1, <3>2, <3>3 DEF Queued, QueuedNext
  <2>3. QueuedOnce'
    <3> SUFFICES ASSUME NEW i \in 1..Len(waiters'), NEW j \in 1..Len(waiters'),
                        waiters'[i] = waiters'[j]
                 PROVE  i = j
      BY DEF QueuedOnce
    <3>1. \A k \in 1..Len(waiters) : waiters[k] # f BY <1>5 DEF Queued
    <3>2. \A k \in 1..Len(waiters') : k \in 1..Len(waiters) \/ k = Len(waiters) + 1
      BY <1>1, <2>1
    <3>3. QED BY <1>4, <2>1, <3>1, <3>2 DEF QueuedOnce
  <2>4. at' = [at EXCEPT ![f] = "waiting"] BY <1>3, <2>2
  <2>5. Fetching' = Fetching BY <1>3, <2>4 DEF Fetching
  <2>6. active' = active BY <1>1, <1>8, <1>9
  <2>7. WaitersMatch' BY <1>3, <1>4, <1>6, <2>2, <2>4 DEF WaitersMatch, Fetch
  <2>8. InOrder BY <2>2 DEF InOrder
  <2>9. QED BY <1>4, <2>3, <2>5, <2>6, <2>7, <2>8 DEF SlotsOK
<1>10. CASE g # 0
  <2>1. active < limit BY <1>1, <1>8, <1>10
  <2>2. waiters = <<>> BY <1>1, <2>1 DEF IInv, WorkConserving
  <2>3. Len(waiters) = 0 /\ g = 1 /\ Len(waiters') = 0 BY <1>1, <1>8, <1>10, <2>2
  <2>4. Queued = {} /\ QueuedNext = {} BY <2>3 DEF Queued, QueuedNext
  <2>5. at' = [at EXCEPT ![f] = "fetching"] BY <1>3, <2>4
  <2>6. Fetching' = Fetching \cup {f} BY <1>3, <2>5 DEF Fetching
  <2>7. /\ IsFiniteSet(Fetching \cup {f})
        /\ Cardinality(Fetching \cup {f}) = Cardinality(Fetching) + 1
    BY <1>4, <1>5, FS_AddElement
  <2>8. active' = active + 1 BY <1>8, <2>3
  <2>9. QueuedOnce' BY <2>3 DEF QueuedOnce
  <2>10. WaitersMatch' BY <1>3, <1>4, <1>6, <2>4, <2>5 DEF WaitersMatch, Fetch
  <2>11. InOrder BY <2>4 DEF InOrder
  <2>12. QED BY <1>4, <2>6, <2>7, <2>8, <2>9, <2>10, <2>11 DEF SlotsOK
<1>11. QED BY <1>9, <1>10

(* Every other step leaves the slots and the queue alone.                      *)
LEMMA OthersKeep ==
  ASSUME SlotsOK, UNCHANGED <<active, waiters>>,
         \A f \in Fetch : /\ at'[f] = "fetching" <=> at[f] = "fetching"
                          /\ at'[f] = "waiting" <=> at[f] = "waiting"
  PROVE  SlotsOK' /\ InOrder
<1>1. Fetching' = Fetching BY DEF Fetching, Fetch
<1>2. Queued' = Queued /\ QueuedNext = Queued BY DEF Queued, QueuedNext
<1>3. QueuedOnce' BY DEF SlotsOK, QueuedOnce
<1>4. WaitersMatch' BY <1>2 DEF SlotsOK, WaitersMatch, Fetch
<1>5. InOrder BY <1>2 DEF InOrder
<1>6. QED BY <1>1, <1>3, <1>4, <1>5 DEF SlotsOK

LEMMA SlotsInit == Init => SlotsOK
<1> SUFFICES ASSUME Init PROVE SlotsOK OBVIOUS
<1>1. waiters = <<>> /\ active = 0 /\ \A f \in Fetch : at[f] = "unused"
  BY DEF Init, GateInit
<1>2. Fetching = {} BY <1>1 DEF Fetching
<1>3. Queued = {} BY <1>1 DEF Queued
<1>4. QueuedOnce BY <1>1 DEF QueuedOnce
<1>5. WaitersMatch BY <1>1, <1>3 DEF WaitersMatch
<1>6. QED BY <1>1, <1>2, <1>4, <1>5, FS_EmptySet DEF SlotsOK

LEMMA SlotsNext == IInv /\ SlotsOK /\ [Next]_vars => SlotsOK' /\ InOrder
<1> SUFFICES ASSUME IInv, SlotsOK, [Next]_vars PROVE SlotsOK' /\ InOrder OBVIOUS
<1>1. GateTypeOK /\ at \in [Fetch -> Places] BY DEF IInv, TypeOK, FetchTypeOK
<1>2. ASSUME NEW i \in Chunk, NEW f \in Fetch, Open(i, f) PROVE SlotsOK' /\ InOrder
  BY <1>1, <1>2, OthersKeep DEF Open, Goes, gateVars
<1>3. ASSUME NEW f \in Fetch, Extend(f) PROVE SlotsOK' /\ InOrder
  <2>1. CASE at[f] = "settled" BY <1>1, <1>3, <2>1, OthersKeep DEF Extend, Goes, gateVars
  <2>2. CASE at[f] # "settled" BY <1>1, <1>3, <2>2, OthersKeep DEF Extend, gateVars
  <2>3. QED BY <2>1, <2>2
<1>4. ASSUME NEW i \in Chunk, Evict(i) PROVE SlotsOK' /\ InOrder
  BY <1>1, <1>4, OthersKeep DEF Evict
<1>5. ASSUME NEW f \in Fetch, Reject(f) PROVE SlotsOK' /\ InOrder
  BY <1>1, <1>5, OthersKeep DEF Reject
<1>6. ASSUME NEW f \in Fetch, Ask(f) PROVE SlotsOK' /\ InOrder BY <1>6, AskKeeps
<1>7. ASSUME NEW f \in Fetch, Clean(f) PROVE SlotsOK' /\ InOrder
  <2>1. "received" \notin {"fetching", "waiting"} OBVIOUS
  <2>2. QED BY <1>1, <1>7, <2>1, LeaveKeeps DEF Clean
<1>8. ASSUME NEW f \in Fetch, Congested(f) PROVE SlotsOK' /\ InOrder
  <2>1. /\ at[f] = "fetching" /\ ThrottleAndRelease
        /\ LeavesGate(f, "backoff") \/ LeavesGate(f, "failed")
    BY <1>8 DEF Congested
  <2>2. "backoff" \notin {"fetching", "waiting"} /\ "failed" \notin {"fetching", "waiting"}
    OBVIOUS
  <2>3. CASE LeavesGate(f, "backoff") BY <1>1, <2>1, <2>2, <2>3, LeaveKeeps
  <2>4. CASE LeavesGate(f, "failed") BY <1>1, <2>1, <2>2, <2>4, LeaveKeeps
  <2>5. QED BY <2>1, <2>3, <2>4
<1>9. ASSUME NEW f \in Fetch, Refused(f) PROVE SlotsOK' /\ InOrder
  <2>1. /\ at[f] = "fetching" /\ JustRelease
        /\ \E place \in {"ready", "received", "failed"} : LeavesGate(f, place)
    BY <1>9 DEF Refused
  <2>2. PICK place \in {"ready", "received", "failed"} : LeavesGate(f, place) BY <2>1
  <2>3. place \notin {"fetching", "waiting"} OBVIOUS
  <2>4. QED BY <1>1, <2>1, <2>2, <2>3, LeaveKeeps
<1>10. ASSUME NEW f \in Fetch, WakeUp(f) PROVE SlotsOK' /\ InOrder
  BY <1>1, <1>10, OthersKeep DEF WakeUp, Goes, gateVars
<1>11. ASSUME NEW f \in Fetch, Consume(f) PROVE SlotsOK' /\ InOrder
  <2>1. /\ at[f] = "received" /\ UNCHANGED <<active, waiters>>
        /\ Goes(f, "ready") \/ Goes(f, "settled") \/ Goes(f, "failed")
    BY <1>11 DEF Consume
  <2>2. QED BY <1>1, <2>1, OthersKeep DEF Goes
<1>12. CASE UNCHANGED vars
  <2>1. UNCHANGED <<active, waiters, at>> BY <1>12 DEF vars, gateVars
  <2>2. QED BY <2>1, OthersKeep
<1>13. QED
  BY <1>2, <1>3, <1>4, <1>5, <1>6, <1>7, <1>8, <1>9, <1>10, <1>11, <1>12 DEF Next, Dispatch

(* As many slots are in use as requests are in flight, whatever way each of    *)
(* them ends: success, back-off, refusal or failure.                         *)
THEOREM NoSlotLost == Spec => []SlotsMatch
<1>1. SlotsOK => SlotsMatch BY DEF SlotsOK, SlotsMatch, Fetching
<1>2. Init => IInv /\ SlotsOK BY InitOK, SlotsInit
<1>3. IInv /\ SlotsOK /\ [Next]_vars => (IInv /\ SlotsOK)' BY NextOK, SlotsNext
<1>4. QED BY <1>1, <1>2, <1>3, PTL DEF Spec

(* A slot is granted below the limit of the moment, first come first served.    *)
THEOREM FirstComeFirstServed == Spec => AdmitsInOrder
<1>1. Init => IInv /\ SlotsOK BY InitOK, SlotsInit
<1>2. IInv /\ SlotsOK /\ [Next]_vars => (IInv /\ SlotsOK)' BY NextOK, SlotsNext
<1>3. IInv /\ SlotsOK /\ [Next]_vars =>
        [\A f \in Queued \ QueuedNext :
           /\ active' <= limit'
           /\ \A i, j \in 1..Len(waiters) :
                waiters[j] = f /\ i < j => waiters[i] \notin QueuedNext]_vars
  BY SlotsNext DEF InOrder
<1>4. QED BY <1>1, <1>2, <1>3, PTL DEF Spec, AdmitsInOrder

-----------------------------------------------------------------------------
(* The rows that the cached entries hold, each counted with its entry.         *)
InCache == {f \in Fetch : Cached(f)}
Buffered == HeldRows(InCache)

(* An entry is the one of at most one chunk, and its token is free just when it  *)
(* is the one of none; so what a token gives back is still counted.           *)
RowInv ==
  /\ IsFiniteSet(Buffered) /\ rows = Cardinality(Buffered)
  /\ \A f \in Fetch : ~freed[f] <=> Cached(f)
  /\ \A i, j \in Chunk : cache[i] = cache[j] /\ cache[i] # None => i = j

LEMMA RowsOf ==
  ASSUME NEW f, NEW lo \in Nat, NEW hi \in Nat, lo <= hi + 1
  PROVE  IsFiniteSet({f} \X (lo..hi)) /\ Cardinality({f} \X (lo..hi)) = hi - lo + 1
PROOF
<1>1. IsFiniteSet({f}) /\ Cardinality({f}) = 1 BY FS_Singleton
<1>2. IsFiniteSet(lo..hi) /\ Cardinality(lo..hi) = hi - lo + 1
  BY FS_Interval
<1>3. /\ IsFiniteSet({f} \X (lo..hi))
      /\ Cardinality({f} \X (lo..hi)) = Cardinality({f}) * Cardinality(lo..hi)
  BY <1>1, <1>2, FS_Product
<1>4. hi - lo + 1 \in Int OBVIOUS
<1> QED BY <1>1, <1>2, <1>3, <1>4

LEMMA WhatIsBuffered ==
  ASSUME TypeOK
  PROVE  \A x : x \in Buffered <=> \E f \in Fetch : Cached(f) /\ x \in {f} \X (1..held[f])
BY DEF Buffered, InCache, HeldRows

LEMMA RowsStay ==
  ASSUME RowInv, UNCHANGED <<rows, cache, held, freed>>
  PROVE  RowInv'
BY DEF RowInv, Buffered, InCache, HeldRows, Cached

(* A new entry has no rows yet, whatever it held as the entry of another chunk.  *)
LEMMA OpenKeeps ==
  ASSUME IInv, IInv', RowInv, NEW i \in Chunk, NEW f \in Fetch, Open(i, f)
  PROVE  RowInv'
PROOF
<1>1. /\ cache \in [Chunk -> Fetch \cup {None}] /\ held \in [Fetch -> Nat]
      /\ freed \in [Fetch -> BOOLEAN] /\ None \notin Fetch
  BY FetchAssumption DEF IInv, TypeOK, FetchTypeOK
<1>2. /\ cache' = [cache EXCEPT ![i] = f] /\ cache[i] = None
      /\ held' = [held EXCEPT ![f] = 0] /\ freed' = [freed EXCEPT ![f] = FALSE]
      /\ ~Cached(f) /\ rows' = rows
  BY DEF Open, gateVars
<1>3. \A g \in Fetch : Cached(g)' <=> Cached(g) \/ g = f BY <1>1, <1>2 DEF Cached
<1>4. \A g \in Fetch : g # f => held'[g] = held[g] BY <1>1, <1>2
<1>5. held'[f] = 0 BY <1>1, <1>2
<1>6. Buffered' = Buffered
  <2>1. ASSUME NEW x, x \in Buffered PROVE x \in Buffered'
    <3>1. PICK g \in Fetch : Cached(g) /\ x \in {g} \X (1..held[g])
      BY <2>1, WhatIsBuffered DEF IInv
    <3> QED BY <1>2, <1>3, <1>4, <3>1 DEF Buffered, InCache, HeldRows
  <2>2. ASSUME NEW x, x \in Buffered' PROVE x \in Buffered
    <3>1. PICK g \in Fetch : Cached(g)' /\ x \in {g} \X (1..held'[g])
      BY <2>2 DEF Buffered, InCache, HeldRows
    <3>2. g # f BY <1>5, <3>1
    <3> QED BY <1>3, <1>4, <3>1, <3>2 DEF Buffered, InCache, HeldRows
  <2> QED BY <2>1, <2>2
<1>7. \A g \in Fetch : ~freed'[g] <=> Cached(g)' BY <1>1, <1>2, <1>3 DEF RowInv
<1>8. \A j, k \in Chunk : cache'[j] = cache'[k] /\ cache'[j] # None => j = k
  BY <1>1, <1>2 DEF RowInv, Cached
<1> QED BY <1>2, <1>6, <1>7, <1>8 DEF RowInv

(* An entry leaves the cache with its rows; one that had left it gives nothing.   *)
LEMMA LeavingKeeps ==
  ASSUME IInv, RowInv, NEW f \in Fetch, FreeToken(f), held' = held,
         cache' = [j \in Chunk |-> IF cache[j] = f THEN None ELSE cache[j]]
  PROVE  RowInv'
PROOF
<1>1. /\ cache \in [Chunk -> Fetch \cup {None}] /\ held \in [Fetch -> Nat]
      /\ freed \in [Fetch -> BOOLEAN] /\ None \notin Fetch /\ rows \in Nat
  BY FetchAssumption DEF IInv, TypeOK, FetchTypeOK, GateTypeOK
<1>2. \A g \in Fetch : Cached(g)' <=> Cached(g) /\ g # f BY <1>1 DEF Cached
<1>3. \A j, k \in Chunk : cache'[j] = cache'[k] /\ cache'[j] # None => j = k
  BY <1>1 DEF RowInv
<1>4. CASE freed[f]
  <2>1. ~Cached(f) BY <1>4 DEF RowInv
  <2>2. cache' = cache BY <1>1, <2>1 DEF Cached
  <2> QED BY <1>4, <2>2, RowsStay DEF FreeToken
<1>5. CASE ~freed[f]
  <2> DEFINE Own == {f} \X (1..held[f])
  <2>1. Cached(f) /\ freed' = [freed EXCEPT ![f] = TRUE] /\ rows' = AtLeast(0, rows - held[f])
    BY <1>5 DEF RowInv, FreeToken, FreeRows
  <2>2. Buffered' = Buffered \ Own
    BY <1>2 DEF Buffered, InCache, HeldRows
  <2>3. Own \subseteq Buffered BY <2>1 DEF Buffered, InCache, HeldRows
  <2>4. Cardinality(Own) = held[f]
    <3>1. held[f] \in Nat /\ 1 <= held[f] + 1 BY <1>1
    <3>2. Cardinality(Own) = held[f] - 1 + 1 BY <3>1, RowsOf
    <3> QED BY <3>1, <3>2
  <2> HIDE DEF Own
  <2>5. IsFiniteSet(Buffered) /\ rows = Cardinality(Buffered) BY DEF RowInv
  <2>6. /\ IsFiniteSet(Buffered \ Own)
        /\ Cardinality(Buffered \ Own) = Cardinality(Buffered) - Cardinality(Own)
    <3>1. Buffered \cap Own = Own BY <2>3
    <3> QED BY <2>5, <3>1, FS_Difference
  <2>7. Cardinality(Buffered \ Own) \in Nat BY <2>6, FS_CardinalityType
  <2>8. rows' = Cardinality(Buffered \ Own)
    <3>1. rows - held[f] \in Nat BY <1>1, <2>4, <2>5, <2>6, <2>7
    <3> QED BY <2>1, <2>4, <2>5, <2>6, <3>1 DEF AtLeast
  <2>9. \A g \in Fetch : ~freed'[g] <=> Cached(g)' BY <1>1, <1>2, <2>1 DEF RowInv
  <2> QED BY <1>3, <2>2, <2>6, <2>8, <2>9 DEF RowInv
<1> QED BY <1>4, <1>5

LEMMA EvictKeeps ==
  ASSUME IInv, RowInv, NEW i \in Chunk, Evict(i)
  PROVE  RowInv'
PROOF
<1>1. cache \in [Chunk -> Fetch \cup {None}] BY DEF IInv, TypeOK, FetchTypeOK
<1>2. cache[i] \in Fetch /\ FreeToken(cache[i]) /\ held' = held BY <1>1 DEF Evict
<1>3. cache' = [j \in Chunk |-> IF cache[j] = cache[i] THEN None ELSE cache[j]]
  BY <1>1 DEF Evict, RowInv
<1> QED BY <1>2, <1>3, LeavingKeeps

(* A batch is charged to the entry that is still cached, and to nobody else.      *)
LEMMA ConsumeKeeps ==
  ASSUME IInv, RowInv, NEW f \in Fetch, Consume(f)
  PROVE  RowInv'
PROOF
<1>1. /\ cache \in [Chunk -> Fetch \cup {None}] /\ held \in [Fetch -> Nat]
      /\ batch \in [Fetch -> Nat] /\ rows \in Nat
  BY DEF IInv, TypeOK, FetchTypeOK, GateTypeOK
<1>2. cache' = cache /\ freed' = freed BY DEF Consume
<1>3. \A g \in Fetch : Cached(g)' <=> Cached(g) BY <1>2 DEF Cached
<1>4. CASE freed[f]
  BY <1>2, <1>4, RowsStay DEF Consume
<1>5. CASE ~freed[f]
  <2> DEFINE New == {f} \X ((held[f] + 1)..(held[f] + batch[f]))
  <2>1. Cached(f) BY <1>5 DEF RowInv
  <2>2. /\ rows' = rows + batch[f] /\ held' = [held EXCEPT ![f] = @ + batch[f]]
    BY <1>5 DEF Consume, AddRows
  <2>3. held[f] \in Nat /\ batch[f] \in Nat BY <1>1
  <2>4. 1..held'[f] = (1..held[f]) \cup ((held[f] + 1)..(held[f] + batch[f]))
    BY <1>1, <2>2, <2>3
  <2>5. \A g \in Fetch : g # f => held'[g] = held[g] BY <1>1, <2>2
  <2>6. Buffered' = Buffered \cup New
    <3>1. ASSUME NEW x, x \in Buffered' PROVE x \in Buffered \cup New
      <4>1. PICK g \in Fetch : Cached(g) /\ x \in {g} \X (1..held'[g])
        BY <1>3, <3>1 DEF Buffered, InCache, HeldRows
      <4>2. CASE g = f BY <2>4, <4>1, <4>2 DEF Buffered, InCache, HeldRows
      <4>3. CASE g # f BY <2>5, <4>1, <4>3 DEF Buffered, InCache, HeldRows
      <4> QED BY <4>2, <4>3
    <3>2. ASSUME NEW x, x \in Buffered PROVE x \in Buffered'
      <4>1. PICK g \in Fetch : Cached(g) /\ x \in {g} \X (1..held[g])
        BY <3>2 DEF Buffered, InCache, HeldRows
      <4>2. x \in {g} \X (1..held'[g]) BY <2>4, <2>5, <4>1
      <4> QED BY <1>3, <4>1, <4>2 DEF Buffered, InCache, HeldRows
    <3>3. ASSUME NEW x, x \in New PROVE x \in Buffered'
      <4>1. x \in {f} \X (1..held'[f]) BY <2>4, <3>3
      <4> QED BY <1>3, <2>1, <4>1 DEF Buffered, InCache, HeldRows
    <3> QED BY <3>1, <3>2, <3>3
  <2>7. Buffered \cap New = {}
    BY <2>3 DEF Buffered, InCache, HeldRows
  <2>8. IsFiniteSet(New) /\ Cardinality(New) = batch[f]
    <3> DEFINE lo == held[f] + 1
               hi == held[f] + batch[f]
    <3>1. lo \in Nat /\ hi \in Nat /\ lo <= hi + 1 /\ hi - lo + 1 = batch[f] BY <2>3
    <3> HIDE DEF lo, hi
    <3>2. IsFiniteSet({f} \X (lo..hi)) /\ Cardinality({f} \X (lo..hi)) = hi - lo + 1
      BY <3>1, RowsOf
    <3> QED BY <3>1, <3>2 DEF lo, hi
  <2> HIDE DEF New
  <2>9. IsFiniteSet(Buffered) /\ rows = Cardinality(Buffered) BY DEF RowInv
  <2>10. IsFiniteSet(Buffered') /\ Cardinality(Buffered') = rows + batch[f]
    <3>1. Cardinality(Buffered \cap New) = 0 BY <2>7, FS_EmptySet
    <3>2. /\ IsFiniteSet(Buffered \cup New)
          /\ Cardinality(Buffered \cup New) = rows + batch[f] - 0
      BY <2>8, <2>9, <3>1, FS_Union
    <3> QED BY <1>1, <2>3, <2>6, <3>2
  <2> QED BY <1>2, <1>3, <2>2, <2>10 DEF RowInv
<1> QED BY <1>4, <1>5

LEMMA RowsInit == Init => RowInv
PROOF
<1> SUFFICES ASSUME Init PROVE RowInv OBVIOUS
<1>1. \A f \in Fetch : ~Cached(f) /\ freed[f] BY FetchAssumption DEF Init, Cached
<1>2. Buffered = {} BY <1>1 DEF Buffered, InCache, HeldRows
<1>3. rows = 0 BY DEF Init, GateInit
<1> QED BY <1>1, <1>2, <1>3, FS_EmptySet DEF RowInv, Init

LEMMA RowsNext == IInv /\ IInv' /\ RowInv /\ [Next]_vars => RowInv'
PROOF
<1> SUFFICES ASSUME IInv, IInv', RowInv, [Next]_vars PROVE RowInv' OBVIOUS
<1>1. ASSUME NEW i \in Chunk, NEW f \in Fetch, Open(i, f) PROVE RowInv'
  BY <1>1, OpenKeeps
<1>2. ASSUME NEW f \in Fetch, Extend(f) PROVE RowInv'
  BY <1>2, RowsStay DEF Extend, gateVars, tokenVars
<1>3. ASSUME NEW i \in Chunk, Evict(i) PROVE RowInv' BY <1>3, EvictKeeps
<1>4. ASSUME NEW f \in Fetch, Reject(f) PROVE RowInv'
  BY <1>4, LeavingKeeps DEF Reject
<1>5. ASSUME NEW f \in Fetch, Ask(f) PROVE RowInv'
  BY <1>5, RowsStay DEF Ask, Acquire, tokenVars
<1>6. ASSUME NEW f \in Fetch, Clean(f) PROVE RowInv'
  BY <1>6, RowsStay DEF Clean, OkAndRelease, tokenVars
<1>7. ASSUME NEW f \in Fetch, Congested(f) PROVE RowInv'
  BY <1>7, RowsStay DEF Congested, ThrottleAndRelease, tokenVars
<1>8. ASSUME NEW f \in Fetch, Refused(f) PROVE RowInv'
  BY <1>8, RowsStay DEF Refused, JustRelease, tokenVars
<1>9. ASSUME NEW f \in Fetch, WakeUp(f) PROVE RowInv'
  BY <1>9, RowsStay DEF WakeUp, gateVars, tokenVars
<1>10. ASSUME NEW f \in Fetch, Consume(f) PROVE RowInv' BY <1>10, ConsumeKeeps
<1>11. CASE UNCHANGED vars
  BY <1>11, RowsStay DEF vars, gateVars, tokenVars
<1> QED
  BY <1>1, <1>2, <1>3, <1>4, <1>5, <1>6, <1>7, <1>8, <1>9, <1>10, <1>11 DEF Next, Dispatch

(* INV-7, for any number of chunks and entries, any spans and batches: the row    *)
(* counter is what the cached chunks hold, though entries stream on after their    *)
(* eviction, are replaced, extended or rejected more than once, and their batches   *)
(* arrive late (the row tokens of dataChunk; portal.ts 640-736).               *)
THEOREM RowsAreCounted == Spec => []RowsMatch
PROOF
<1>1. RowInv => RowsMatch BY DEF RowInv, RowsMatch, Buffered, InCache
<1>2. Init => IInv /\ RowInv BY InitOK, RowsInit
<1>3. IInv /\ RowInv /\ [Next]_vars => (IInv /\ RowInv)' BY NextOK, RowsNext
<1> QED BY <1>1, <1>2, <1>3, PTL DEF Spec
=============================================================================
