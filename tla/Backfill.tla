------------------------------- MODULE Backfill -------------------------------
(***************************************************************************)
(* What the historical sync promises whoever reads its store: it grows by one  *)
(* interval at a time, in any order, and an interval comes with everything    *)
(* that belongs to it, at once: each child first created in its blocks, stored *)
(* once, every log of the children that exist by then, and nothing else.      *)
(***************************************************************************)
EXTENDS Integers

CONSTANTS
  Interval,
  Child,
  Block,
  Own,        \* Own[i]: the blocks of interval i
  FirstBirth  \* FirstBirth[c]: the block that first creates c, after all if none does

VARIABLE store  \* [rows, logs, cached]: what is durable

NewRows(i) == {<<c, FirstBirth[c]>> : c \in {d \in Child : FirstBirth[d] \in Own[i]}}
NewLogs(i) == {log \in Own[i] \X Child : FirstBirth[log[2]] <= log[1]}

Init == store = [rows |-> [row \in Child \X Block |-> 0], logs |-> {}, cached |-> {}]

(* An interval is synced once: a transaction that is run again though it had   *)
(* been committed changes nothing.                                          *)
Sync(i) ==
  /\ i \notin store.cached
  /\ store' = [rows   |-> [row \in Child \X Block |->
                             store.rows[row] + IF row \in NewRows(i) THEN 1 ELSE 0],
               logs   |-> store.logs \cup NewLogs(i),
               cached |-> store.cached \cup {i}]

Next == \E i \in Interval : Sync(i)

Spec == Init /\ [][Next]_store
=============================================================================
