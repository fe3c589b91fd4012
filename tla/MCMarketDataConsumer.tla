------------------------ MODULE MCMarketDataConsumer ------------------------
(* The snapshots of one ticker, numbered as the synthesizer does: START 0, *)
(* a CLEAR that takes the 1 and is never sent, then either the END or an   *)
(* order and the END; in datagrams of one or two messages in any order.    *)
EXTENDS MarketDataConsumer

CONSTANT EndNumbers     \* what SNAPSHOT_END may say was applied last

SnapshotMessages ==
    {[seq |-> 0, type |-> "START", orderId |-> 0],
     [seq |-> 2, type |-> "UPDATE", orderId |-> 0]}
    \cup [seq : {2, 3}, type : {"END"}, orderId : EndNumbers]

MCSnapshotDatagrams == UNION {[1 .. n -> SnapshotMessages] : n \in 1 .. 2}
=============================================================================
