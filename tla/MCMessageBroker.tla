--------------------------- MODULE MCMessageBroker ---------------------------
(* Instances of MessageBroker: who polls whom. *)
EXTENDS MessageBroker

\* Two listeners of one sender; two listeners that poll the same two senders;
\* one that polls two senders and one that polls only the first of them.
Single == [l \in Listeners |-> <<"s1">>]

Shared == [l \in Listeners |-> <<"s1", "s2">>]

Crossing == [l \in Listeners |-> IF l = "l1" THEN <<"s1", "s2">> ELSE <<"s1">>]

Setup(sendersOf, duplicate, maxReads, maxBatch, partial, msgs) ==
    [sendersOf |-> sendersOf, duplicate |-> duplicate, maxReads |-> maxReads,
     maxBatch |-> maxBatch, partial |-> partial, msgs |-> msgs]

\* With duplication, for one sender and for crossing listeners; without it,
\* where maxReads is out of the reach of listeners that share a queue.
Instances ==
    {Setup(Single, {"s1"}, 2, 2, TRUE, 4), Setup(Crossing, {"s1", "s2"}, 1, 1, FALSE, 1),
     Setup(Single, {}, 4, 2, TRUE, 4), Setup(Shared, {}, 2, 1, TRUE, 2)}

\* Crossing listeners without duplication.
CrossingOnly == {Setup(Crossing, {}, 2, 1, FALSE, 1)}
=============================================================================
