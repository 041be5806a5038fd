------------------------------ MODULE MCDataPath ------------------------------
(***************************************************************************)
(* A factory whose children are created before, at and after the blocks that    *)
(* log them, the last one above the finalized head; frames that fail at two       *)
(* depths; a dataset that lacks a column on some blocks or starts late.        *)
(***************************************************************************)
EXTENDS DataPathProperties

CONSTANT f1

Log(address, topic0, topic1, tx) ==
  [address |-> address, topic0 |-> topic0, topic1 |-> topic1, tx |-> tx]
Tx(hash, from, to) == [hash |-> hash, from |-> from, to |-> to]
Frame(tx, path, from, to, value, error) ==
  [tx |-> tx, path |-> path, from |-> from, to |-> to, value |-> value, error |-> error]

MCChain == [n \in 0..4 |->
  CASE n = 0 -> [logs |-> {Log("fac", "New", "c1", "t0"), Log("b", "X", "z", "t0")},
                 txs |-> {Tx("t0", "u", "fac")},
                 traces |-> {Frame(Undefined, <<>>, "b", "b", 1, Undefined)}]
    [] n = 1 -> [logs |-> {Log("c1", "X", "z", "t1"), Log("a", "X", "z", "s1"),
                            Log("c2", "X", "z", "s1")},
                 txs |-> {Tx("t1", "u", "c1"), Tx("s1", "v", "a")},
                 traces |-> {Frame("t1", <<1>>, "c1", "b", 1, Undefined),
                              Frame("t1", <<0, 0>>, "a", "b", 1, Undefined),
                              Frame("t1", <<>>, "u", "c1", 0, Undefined),
                              Frame("t1", <<0, 0, 0>>, "b", "b", 1, Undefined),
                              Frame("t1", <<0>>, "c1", "a", 1, "reverted"),
                              Frame("t1", <<0, 1>>, "a", "b", 1, "out of gas"),
                              Frame("s1", <<>>, "v", "b", 1, Undefined)}]
    [] n = 2 -> [logs |-> {Log("b", "Y", "z", "t2"), Log("fac", "New", "c2", "t2")},
                 txs |-> {Tx("t2", "u", "b")},
                 traces |-> {Frame("t2", <<>>, "u", "b", 0, Undefined)}]
    [] n = 3 -> [logs |-> {Log("c2", "Y", "z", "t3"), Log("a", "Y", "z", "t3")},
                 txs |-> {Tx("t3", "v", "c2")},
                 traces |-> {Frame("t3", <<>>, "v", "c2", 1, Undefined)}]
    [] n = 4 -> [logs |-> {Log("fac", "New", "c3", "t4"), Log("c3", "Y", "z", "t4"),
                            Log("c1", "X", "z", "t4"), Log("u", "X", "z", "t4")},
                 txs |-> {Tx("t4", "v", "c3")}, traces |-> {}]]

Addresses == [f \in {f1} |-> <<"fac">>]
Selectors == [f \in {f1} |-> "New"]

LogFilter(address, topic0, topic1, lo, hi, receipt) ==
  [type |-> "log", address |-> address, topic0 |-> topic0, topic1 |-> topic1,
   lo |-> lo, hi |-> hi, receipt |-> receipt]
AccountFilter(type, from, to, lo, hi, receipt) ==
  [type |-> type, from |-> from, to |-> to, lo |-> lo, hi |-> hi, receipt |-> receipt]
EveryOther(lo, hi) ==
  [type |-> "block", interval |-> 2, offset |-> 1, lo |-> lo, hi |-> hi, receipt |-> FALSE]

(* Two events of a contract made by a factory, over the budget with the lists.   *)
Merged == <<LogFilter(f1, {"X"}, Undefined, 0, Undefined, FALSE),
            LogFilter(f1, {"Y"}, Undefined, 0, Undefined, FALSE),
            LogFilter(<<"a", "c1", "b">>, Undefined, Undefined, 1, Undefined, FALSE),
            LogFilter(<<"b">>, Undefined, {"z"}, 0, Undefined, FALSE)>>
(* A long list that becomes a wildcard before the children do.                *)
Widened == <<LogFilter(<<"a", "b", "u">>, {"X"}, Undefined, Undefined, Undefined, FALSE),
             LogFilter(f1, {"Y"}, Undefined, 1, Undefined, FALSE),
             EveryOther(1, Undefined)>>
(* Events with and without a receipt, one filter within another; an account.   *)
Receipts == <<LogFilter(f1, {"X"}, Undefined, 0, 2, TRUE),
              LogFilter(<<"b">>, {"Y"}, Undefined, 0, 3, FALSE),
              LogFilter(<<"b">>, Undefined, Undefined, 0, 3, FALSE),
              AccountFilter("transaction", <<"v">>, Undefined, 1, 3, TRUE)>>
(* Calls of the children and transfers to b, and a plain event.               *)
Calls == <<AccountFilter("trace", f1, Undefined, 0, Undefined, FALSE),
           AccountFilter("transfer", Undefined, <<"b">>, 1, 2, TRUE),
           LogFilter(<<"a">>, {"X"}, Undefined, 0, Undefined, FALSE)>>
(* Transactions of many senders to the children: over the budget.            *)
Senders == <<AccountFilter("transaction", <<"v", "p", "q", "r", "u", "s", "t", "w">>, f1,
                           0, Undefined, TRUE),
             EveryOther(1, 2)>>

(* Two long sides, that no chunk of one of them makes fit.                    *)
Wide == LET many == <<"v", "p", "q", "r", "u", "s", "t", "w">>
        IN  <<AccountFilter("transaction", many, many, 0, Undefined, TRUE)>>
(* Topics alone fill the body of the realtime.                              *)
Topical == LET topics == <<"X", "Y", "V", "W", "Z">>
           IN  [i \in 1..5 |-> LogFilter(<<"a">>, {topics[i]}, Undefined, 1 + (i % 2), Undefined, FALSE)]
                 \o <<LogFilter(<<"b">>, {"Y", "Z"}, {"z"}, 2, Undefined, FALSE)>>

MCApps == {Merged, Widened, Receipts, Calls, Senders, Wide, Topical}

Dataset(start, fields, blocks) ==
  [start |-> start, lacks |-> [field \in Fields |-> IF field \in fields THEN blocks ELSE {}]]
MCDatasets ==
  {Dataset(0, {}, {}), Dataset(1, {"block.nullable"}, {1, 2}),
   Dataset(0, ReceiptFields, {0, 1}), Dataset(0, ReceiptFields, {2}),
   Dataset(0, ReceiptFields, {3}),
   Dataset(0, {"log.data", "block.required"}, {0}),
   Dataset(0, {"trace.frame", "transaction.accessList"}, {1}),
   Dataset(0, {"transaction.core"}, {2, 3})}
=============================================================================
