---------------------------- MODULE MCSafeQueue -----------------------------
(* Small rings for SafeQueue.                                              *)
EXTENDS SafeQueue

\* The largest backlog SafeUse allows.
MCSafeLimit == [g \in Gates |-> IF g = "reread" THEN N - 2 ELSE N - 1]

\* Writers that run a whole ring, and one more, ahead of the reader.
MCAnyLimit == [g \in Gates |-> N + 1]

MCFullLimit == [g \in Gates |-> N]
=============================================================================
