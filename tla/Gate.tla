-------------------------------- MODULE Gate --------------------------------
(***************************************************************************)
(* The process-wide gate every chain's Portal requests share: an AIMD        *)
(* concurrency limit, a FIFO queue of requests waiting for a slot, and the   *)
(* count of rows buffered by all fetched chunks (portal-gate.ts).           *)
(***************************************************************************)
EXTENDS Integers, Sequences

CONSTANTS
  Request,     \* whoever may ask for a slot
  MinLimit, MaxLimit, StartLimit,   \* minConcurrency, maxConcurrency, startConcurrency
  RampEvery,   \* RAMP_EVERY
  RampStep     \* RAMP_STEP

ASSUME LimitAssumption ==
  /\ MinLimit \in Nat \ {0}
  /\ MaxLimit \in Nat /\ MinLimit <= MaxLimit
  /\ StartLimit \in Nat
ASSUME RampAssumption == RampEvery \in Nat \ {0} /\ RampStep \in Nat \ {0}

VARIABLES
  limit,     \* requests that may be in flight
  active,    \* requests in flight
  ok,        \* clean responses since the last ramp or back-off, counted up to RampEvery
  rows,      \* buffered rows
  waiters    \* the queue, longest waiting first

gateVars == <<limit, active, ok, rows, waiters>>

GateTypeOK ==
  /\ limit \in MinLimit..MaxLimit
  /\ active \in Nat
  /\ ok \in 0..RampEvery
  /\ rows \in Nat
  /\ waiters \in Seq(Request)

AtLeast(m, n) == IF n < m THEN m ELSE n
AtMost(m, n) == IF n > m THEN m ELSE n

GateInit ==
  /\ limit = AtMost(MaxLimit, AtLeast(MinLimit, StartLimit))
  /\ active = 0
  /\ ok = 0
  /\ rows = 0
  /\ waiters = <<>>

(* Mutant: slots are granted from the back.                                *)
PumpFromBack(l, a, queue) ==
  LET granted == AtMost(Len(queue), AtLeast(0, l - a))
  IN  [active  |-> a + granted,
       waiters |-> SubSeq(queue, 1, Len(queue) - granted)]

(* pump: slots are granted from the front while fewer than l are taken.     *)
Pump(l, a, queue) ==
  LET granted == AtMost(Len(queue), AtLeast(0, l - a))
  IN  [active  |-> a + granted,
       waiters |-> SubSeq(queue, granted + 1, Len(queue))]

GateIs(pumped) == active' = pumped.active /\ waiters' = pumped.waiters

Acquire(r) ==
  /\ GateIs(Pump(limit, active, Append(waiters, r)))
  /\ UNCHANGED <<limit, ok, rows>>

(* Mutant: a release does not pump.                                        *)
ReleaseQuietly(l, a, queue) == active' = AtLeast(0, a - 1) /\ waiters' = queue

(* release, on what the gate is by then.                                   *)
Release(l, a, queue) == GateIs(Pump(l, AtLeast(0, a - 1), queue))

Ramps == ok + 1 >= RampEvery /\ limit < MaxLimit

(* Mutant: the ramp is not capped.                                         *)
RampedPast == limit + RampStep

Ramped == AtMost(MaxLimit, limit + RampStep)

(* onOk (which pumps), then the release in fetchBatch's finally.           *)
OkAndRelease ==
  /\ limit' = IF Ramps THEN Ramped ELSE limit
  /\ ok' = IF Ramps THEN 0 ELSE AtMost(RampEvery, ok + 1)
  /\ LET pumped == Pump(limit', active, waiters)
     IN  Release(limit', pumped.active, pumped.waiters)
  /\ UNCHANGED rows

(* Mutant: the limit is halved without a minimum.                          *)
ThrottleToZero ==
  /\ limit' = limit \div 2
  /\ ok' = 0
  /\ Release(limit', active, waiters)
  /\ UNCHANGED rows

(* onThrottle (which does not pump), then the release.                     *)
ThrottleAndRelease ==
  /\ limit' = AtLeast(MinLimit, limit \div 2)
  /\ ok' = 0
  /\ Release(limit', active, waiters)
  /\ UNCHANGED rows

(* Mutant: a refused request keeps its slot.                               *)
KeepSlot == UNCHANGED gateVars

JustRelease == Release(limit, active, waiters) /\ UNCHANGED <<limit, ok, rows>>

AddRows(n) == rows' = rows + n
FreeRows(n) == rows' = AtLeast(0, rows - n)
=============================================================================
