------------------------------ MODULE FetchSpec ------------------------------
(***************************************************************************)
(* portal-filters.ts: how ponder's filters become the queries the Portal is    *)
(* asked, and how queries are kept under the Portal's limit on a body.        *)
(*                                                                         *)
(* An app is the sequence of its filters.  The addresses of a filter are Undefined *)
(* (no condition), a sequence, or a factory, standing for its children known    *)
(* so far: a factory mapped to the sequence of them.  Topics are a set, or      *)
(* Undefined; topic1 stands for topics 1 to 3.  A body is as large as its addresses  *)
(* and topics, plus one per request and the envelope.                        *)
(***************************************************************************)
EXTENDS Integers, FiniteSets, SequencesExt

CONSTANTS
  Undefined,      \* no condition, no bound, nothing
  Factory,        \* factories, as model values
  FactoryAddress, \* the addresses a factory's creation logs come from
  Selector,       \* the topic0 of a factory's creation logs
  MaxAddresses,   \* PORTAL_MAX_ADDRESSES
  BodyBudget,     \* SHARD_BODY_BUDGET
  EnvelopeSize

ASSUME FetchSpecAssumption ==
  /\ MaxAddresses \in Nat \ {0}
  /\ BodyBudget \in Nat /\ EnvelopeSize \in Nat /\ EnvelopeSize < BodyBudget
  /\ Undefined \notin Factory

Count(addresses) == IF addresses = Undefined THEN 0 ELSE Len(addresses)
CountTopics(topics) == IF topics = Undefined THEN 0 ELSE Cardinality(topics)
Admits(topics, topic) == topics = Undefined \/ topic \in topics

Has(app, types) == \E i \in DOMAIN app : app[i].type \in types

AddressFields(f) == DOMAIN f \cap {"address", "from", "to"}
FactoriesOf(app) ==
  {f \in Factory : \E i \in DOMAIN app : \E field \in AddressFields(app[i]) : app[i][field] = f}

(* The compiled needs: one flag for the whole chain.                        *)
NeedReceipts(app) == \E i \in DOMAIN app : app[i].receipt
NeedTraceReceipts(app) ==
  \E i \in DOMAIN app : app[i].type \in {"trace", "transfer"} /\ app[i].receipt

(* Mutant: the bounds that are there bound the others too.                   *)
StartOfBounded(app) ==
  LET froms == {app[i].lo : i \in DOMAIN app} IN IF froms = {Undefined} THEN 0 ELSE Min(froms \ {Undefined})

(* The window of the backfill: one filter without a bound lifts the bound.     *)
BackfillStart(app) ==
  LET froms == {app[i].lo : i \in DOMAIN app} IN IF Undefined \in froms THEN 0 ELSE Min(froms)
BackfillEnd(app, last) ==
  LET tos == {app[i].hi : i \in DOMAIN app} IN IF Undefined \in tos THEN last ELSE Max(tos)

-----------------------------------------------------------------------------
(* Requests.                                                               *)
AddressesOf(ref, children) == IF ref \in Factory THEN children[ref] ELSE ref

Batches(addresses) ==
  [i \in 1..((Len(addresses) + MaxAddresses - 1) \div MaxAddresses) |->
     SubSeq(addresses, (i - 1) * MaxAddresses + 1, Min({i * MaxAddresses, Len(addresses)}))]

(* A factory without children asks for nothing, never for everything.        *)
LogRequestsFor(f, children) ==
  LET addresses == AddressesOf(f.address, children)
      Asking(batch) == [address |-> batch, topic0 |-> f.topic0, topic1 |-> f.topic1]
      batches == IF addresses = Undefined THEN <<Undefined>> ELSE Batches(addresses)
  IN  [i \in DOMAIN batches |-> Asking(batches[i])]

AllLogRequests(app, children) ==
  FlattenSeq([i \in DOMAIN app |->
    IF app[i].type = "log" THEN LogRequestsFor(app[i], children) ELSE <<>>])

(* Requests alike but for topic0 become one, of all their topics.            *)
SameAddresses(a, b) ==
  \/ a = Undefined /\ b = Undefined
  \/ a # Undefined /\ b # Undefined /\ ToSet(a) = ToSet(b)
Alike(r, s) == SameAddresses(r.address, s.address) /\ r.topic1 = s.topic1
Joined(topics, more) == IF topics = Undefined \/ more = Undefined THEN Undefined ELSE topics \cup more

MergeInto(groups, r) ==
  LET i == SelectInSeq(groups, LAMBDA g : Alike(g, r))
  IN  IF i = 0 THEN Append(groups, r)
               ELSE [groups EXCEPT ![i].topic0 = Joined(@, r.topic0)]
MergeLogRequests(requests) == FoldLeft(MergeInto, <<>>, requests)

(* The transactions to ask for; a filter that would ask for all is passed over. *)
TxRequestFor(f, children) ==
  LET Given(ref) == LET a == AddressesOf(ref, children) IN IF a = <<>> THEN Undefined ELSE a
  IN  [from |-> Given(f.from), to |-> Given(f.to)]

Asks(f, children) ==
  /\ f.type = "transaction"
  /\ \E ref \in {f.from, f.to} : ref # Undefined /\ AddressesOf(ref, children) # <<>>

TxRequestsFor(app, children) ==
  FlattenSeq([i \in DOMAIN app |->
    IF Asks(app[i], children) THEN <<TxRequestFor(app[i], children)>> ELSE <<>>])

-----------------------------------------------------------------------------
(* Shards: greedy, in order, each under budget.                             *)
Weight(r) ==
  1 + (IF "address" \in DOMAIN r
       THEN Count(r.address) + CountTopics(r.topic0) + CountTopics(r.topic1)
       ELSE Count(r.from) + Count(r.to))
Size(requests) == FoldLeft(LAMBDA n, r : n + Weight(r), EnvelopeSize, requests)
Fits(requests) == Size(requests) < BodyBudget

(* Mutant: the budget of a shard is checked before the request is added.      *)
PackIntoFull(shards, r) ==
  IF shards # <<>> /\ Fits(Last(shards))
  THEN [shards EXCEPT ![Len(shards)] = Append(@, r)]
  ELSE Append(shards, <<r>>)

PackInto(shards, r) ==
  IF shards # <<>> /\ Fits(Append(Last(shards), r))
  THEN [shards EXCEPT ![Len(shards)] = Append(@, r)]
  ELSE Append(shards, <<r>>)

Pack(requests) == FoldLeft(PackInto, <<>>, requests)

ShardLogs(requests) ==
  IF requests = <<>> THEN <<>> ELSE IF Fits(requests) THEN <<requests>> ELSE Pack(requests)

(* A request too large on its own is split along its longer side.            *)
ChunkTxRequest(r) ==
  LET side == IF Count(r.from) >= Count(r.to) THEN "from" ELSE "to"
      batches == Batches(r[side])
  IN  IF Fits(<<r>>) THEN <<r>>
      ELSE [i \in DOMAIN batches |-> [r EXCEPT ![side] = batches[i]]]

Chunked(requests) == FlattenSeq([i \in DOMAIN requests |-> ChunkTxRequest(requests[i])])
ShardTxRequests(requests) ==
  IF requests = <<>> THEN <<>>
  ELSE IF Fits(requests) THEN <<requests>> ELSE Pack(Chunked(requests))

(* A shard is never smaller than one request: then planning throws.          *)
Oversized(shards) == \E i \in DOMAIN shards : Len(shards[i]) = 1 /\ ~Fits(shards[i])

-----------------------------------------------------------------------------
(* The queries of each source, with the columns they project.                *)
Sources == <<"log", "trace", "block", "tx">>

BlockFields == {"block.required", "block.nullable"}
TxFields == {"transaction.core", "transaction.accessList"}
ReceiptFields == {"transaction.receipt"}
Droppable == {"block.nullable", "transaction.accessList"}
Fields == BlockFields \cup TxFields \cup ReceiptFields \cup {"log.data", "trace.frame"}

(* The receipt columns ride with every source once a filter wants receipts,    *)
(* and always with the transactions.                                        *)
FieldsOf(app, source) ==
  LET txs == TxFields \cup (IF NeedReceipts(app) THEN ReceiptFields ELSE {})
  IN  BlockFields \cup
      CASE source = "log"   -> {"log.data"} \cup txs
        [] source = "trace" -> {"trace.frame"} \cup txs
        [] source = "block" -> {}
        [] source = "tx"    -> TxFields \cup ReceiptFields

(* The bodies to be streamed for a source.  Traces are asked for without a     *)
(* condition, so that each can be ranked in its whole tree.                  *)
BodiesOf(app, children, source) ==
  CASE source = "log"   -> ShardLogs(MergeLogRequests(AllLogRequests(app, children)))
    [] source = "trace" -> IF Has(app, {"trace", "transfer"}) THEN <<<<>>>> ELSE <<>>
    [] source = "block" -> IF Has(app, {"block"}) THEN <<<<>>>> ELSE <<>>
    [] source = "tx"    -> ShardTxRequests(TxRequestsFor(app, children))

-----------------------------------------------------------------------------
(* The stream of the realtime: every log filter, and the creations of every     *)
(* factory.                                                                *)
DiscoveryRequest(f) == [address |-> FactoryAddress[f], topic0 |-> {Selector[f]}, topic1 |-> Undefined]

BuildPortalLogRequests(app, children) ==
  LET factories == SetToSeq(FactoriesOf(app))
  IN  MergeLogRequests(AllLogRequests(app, children)
                       \o [i \in DOMAIN factories |-> DiscoveryRequest(factories[i])])

IsDiscoveryRequest(app, r) ==
  \E f \in FactoriesOf(app) :
    /\ r.topic0 # Undefined /\ Selector[f] \in r.topic0
    /\ FactoryAddress[f] # Undefined =>
         r.address # Undefined /\ ToSet(r.address) \cap ToSet(FactoryAddress[f]) # {}

WildcardKey(r) == [topic0 |-> r.topic0, topic1 |-> r.topic1]

WithoutAddresses(app, requests, keys) ==
  [i \in DOMAIN requests |->
     IF WildcardKey(requests[i]) \in keys /\ ~IsDiscoveryRequest(app, requests[i])
     THEN [requests[i] EXCEPT !.address = Undefined] ELSE requests[i]]

(* Over budget the requests with most addresses lose them first, and for good.  *)
(* Undefined when that is not enough: the process stops.                     *)
StripOverBudget(app, requests, wildcard) ==
  LET fewer == {i \in DOMAIN requests : /\ Count(requests[i].address) > 0
                                        /\ WildcardKey(requests[i]) \notin wildcard
                                        /\ ~IsDiscoveryRequest(app, requests[i])}
      Before(i, j) == LET ci == Count(requests[i].address)
                          cj == Count(requests[j].address)
                      IN  ci > cj \/ (ci = cj /\ i < j)
      First(k) == {i \in fewer : Cardinality({j \in fewer : Before(j, i)}) < k}
      Keys(k) == wildcard \cup {WildcardKey(requests[i]) : i \in First(k)}
      enough == {k \in 0..Len(requests) : Fits(WithoutAddresses(app, requests, Keys(k)))}
  IN  IF enough = {} THEN Undefined ELSE Keys(Min(enough))
=============================================================================
