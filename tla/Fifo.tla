-------------------------------- MODULE Fifo --------------------------------
(***************************************************************************)
(* What the users of common/SafeQueue.h expect of it: a first-in first-out *)
(* channel between two threads.  Elements are named by the order in which  *)
(* they were written (1, 2, 3, ...), so that losing, duplicating or        *)
(* reordering one shows in the value that comes out.                       *)
(***************************************************************************)
EXTENDS Naturals, Sequences

VARIABLES
    queue,      \* elements written and not yet read, oldest first
    sent,       \* number of elements written so far
    last        \* the element read last (0: none yet)

vars == <<queue, sent, last>>

Init == /\ queue = <<>>
        /\ sent = 0
        /\ last = 0

Send == /\ queue' = Append(queue, sent + 1)
        /\ sent' = sent + 1
        /\ UNCHANGED last

Receive == /\ queue # <<>>
           /\ last' = Head(queue)
           /\ queue' = Tail(queue)
           /\ UNCHANGED sent

Next == Send \/ Receive

Spec == Init /\ [][Next]_vars
=============================================================================
