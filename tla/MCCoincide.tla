------------------------------ MODULE MCCoincide ------------------------------
(***************************************************************************)
(* Three factories over a small budget, two of which have the same children,    *)
(* then not, then again: their requests are one, two and one.                 *)
(***************************************************************************)
EXTENDS DataPathProperties

CONSTANTS f1, f2, f3

Log(address, topic0, topic1) ==
  [address |-> address, topic0 |-> topic0, topic1 |-> topic1, tx |-> "t"]
Creations(factory, S) == {Log(factory, "New", child) : child \in S}

\* block 1 only brings the third factory over the budget
TwinChain == [n \in 0..4 |->
  [logs |-> CASE n = 0 -> Creations("F1", {"a", "b", "c", "d"}) \cup Creations("F2", {"a", "b", "c", "d"})
                            \cup Creations("F3", {"p", "q", "r", "s"})
              [] n = 1 -> Creations("F3", {"t", "u"})
              [] n = 2 -> Creations("F1", {"e"})
              [] n = 3 -> Creations("F2", {"e"})
              [] n = 4 -> {Log("e", "Y", "z")},
   txs |-> {[hash |-> "t", from |-> "v", to |-> "w"]}, traces |-> {}]]

Twins == (f1 :> <<"F1">>) @@ (f2 :> <<"F2">>) @@ (f3 :> <<"F3">>)
New == [f \in {f1, f2, f3} |-> "New"]

EventsOf(factory, topic0) ==
  [type |-> "log", address |-> factory, topic0 |-> topic0, topic1 |-> Undefined,
   lo |-> 0, hi |-> Undefined, receipt |-> FALSE]
TwinApps == {<<EventsOf(f1, {"X"}), EventsOf(f2, {"Y"}), EventsOf(f3, {"Z"})>>}
Whole == {[start |-> 0, lacks |-> [field \in Fields |-> {}]]}
=============================================================================
