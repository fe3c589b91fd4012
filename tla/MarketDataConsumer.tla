------------------------- MODULE MarketDataConsumer -------------------------
(***************************************************************************)
(* trading/market_data/MarketDataConsumer.cpp: follows the incremental     *)
(* multicast stream and, after a gap, tries to recover from the snapshots. *)
(* UDP may lose, duplicate and reorder datagrams: one that has been sent   *)
(* may be received at any later time, any number of times, or never.       *)
(*                                                                         *)
(* A message is [seq, type, orderId]; the incremental message seq stands   *)
(* for the seq-th update of the exchange.  RecvAndSend appends a datagram  *)
(* to the socket's buffer and RecvCallback works it off, a message per     *)
(* step here, so that the queues can be seen between two messages.         *)
(***************************************************************************)
EXTENDS Integers, Sequences, FiniteSets, SequencesExt

CONSTANTS
    SnapshotDatagrams,  \* what may arrive on the snapshot socket
    MaxBatch,           \* bound: updates in one incremental datagram
    MaxSeq              \* bound: updates published

ASSUME BoundsAssumption == MaxBatch \in Nat /\ MaxSeq \in Nat

Message == [seq : Nat, type : {"UPDATE", "START", "END"}, orderId : Nat]

ASSUME SnapshotAssumption == \A d \in SnapshotDatagrams : d \in Seq(Message)

VARIABLES
    published,          \* updates the exchange has sent (mNextSequenceNumber - 1)
    sent,               \* the incremental datagrams sent
    inbox,              \* socket -> inboundData, whole messages
    handling,           \* the socket whose RecvCallback runs, or "none"
    inRecovery,         \* mInRecovery
    expected,           \* mNextExpectedSequenceNumber
    snapshotQueue,      \* mSnapshotQueuedMessages: seq -> message
    incrementalQueue,   \* mIncrementalQueuedMessages: seq -> message
    delivered,          \* everything written to mMarketUpdates
    received,           \* the last update received, while clean
    clean               \* every datagram so far arrived once and in order

network == <<published, sent, received, clean>>
state == <<inRecovery, expected, snapshotQueue, incrementalQueue, delivered>>
vars == <<network, inbox, handling, state>>

Sockets == {"incremental", "snapshot"}

Update(k) == [seq |-> k, type |-> "UPDATE", orderId |-> 0]

EmptyMap == <<>>

\* map[message.sequenceNumber] = message
Put(map, message) ==
    [k \in DOMAIN map \cup {message.seq} |->
       IF k = message.seq THEN message ELSE map[k]]

Init == /\ published = 0 /\ sent = {} /\ received = 0 /\ clean = TRUE
        /\ inbox = [s \in Sockets |-> <<>>]
        /\ handling = "none"
        /\ inRecovery = FALSE
        /\ expected = 1
        /\ snapshotQueue = EmptyMap /\ incrementalQueue = EmptyMap
        /\ delivered = <<>>

-----------------------------------------------------------------------------
(* The network.                                                            *)

\* MarketDataPublisher::Run numbers the updates it finds and sends them at once.
Publish(n) ==
    /\ published + n <= MaxSeq
    /\ published' = published + n
    /\ sent' = sent \cup {[k \in 1 .. n |-> Update(published + k)]}
    /\ UNCHANGED <<received, clean, inbox, handling, state>>

Receive(socket, datagram) ==
    /\ handling = "none"
    /\ handling' = socket
    /\ inbox' = [inbox EXCEPT ![socket] = @ \o datagram]
    /\ UNCHANGED <<published, sent, state>>

ReceiveIncremental(datagram) ==
    /\ Receive("incremental", datagram)
    /\ clean' = (clean /\ Head(datagram).seq = received + 1)
    /\ received' = IF clean' THEN Last(datagram).seq ELSE received

\* The snapshot socket is opened by StartSnaphotSync and closed after recovery.
ReceiveSnapshot(datagram) ==
    /\ inRecovery
    /\ Receive("snapshot", datagram)
    /\ UNCHANGED <<received, clean>>

-----------------------------------------------------------------------------
(* CheckSnapshotSync.                                                      *)

FirstKey(map) == CHOOSE k \in DOMAIN map : \A j \in DOMAIN map : k <= j
LastKey(map)  == CHOOSE k \in DOMAIN map : \A j \in DOMAIN map : k >= j

\* The walk over the queue expects 1, 2, ... and stops at the first other key.
HasGap(map) == DOMAIN map # 1 .. Cardinality(DOMAIN map)

\* The flag starts as false and a gap makes it true.
IsSnapshotComplete(snapshot) ==
    /\ DOMAIN snapshot # {}
    /\ snapshot[FirstKey(snapshot)].type = "START"
    /\ HasGap(snapshot)
    /\ snapshot[LastKey(snapshot)].type = "END"

\* The queued incrementals not delivered yet, which must follow the snapshot.
Newer(incremental) == {k \in DOMAIN incremental : k >= expected}
Follows(incremental, from) ==
    Newer(incremental) = from .. from + Cardinality(Newer(incremental)) - 1

Events(map, keys) ==
    LET messages == [k \in keys |-> map[k]]
        sorted   == SetToSortSeq(keys, <)
    IN  SelectSeq([i \in DOMAIN sorted |-> messages[sorted[i]]],
                  LAMBDA m : m.type \notin {"START", "END"})

FinalEvents(snapshot, incremental) ==
    Events(snapshot, {k \in DOMAIN snapshot : FirstKey(snapshot) = 1
                                              /\ 1 .. k \subseteq DOMAIN snapshot})
    \o Events(incremental, Newer(incremental))

\* (The ...Slip definitions are plausible mistakes: see "Mutants" in README.md.)
CheckSnapshotSyncSlip(snapshot, incremental) ==
    IF ~IsSnapshotComplete(snapshot)
    THEN /\ snapshotQueue' = snapshot
         /\ incrementalQueue' = incremental
         /\ inRecovery' = TRUE
         /\ UNCHANGED <<expected, delivered>>
    ELSE /\ inRecovery' = FALSE
         /\ snapshotQueue' = EmptyMap /\ incrementalQueue' = EmptyMap
         /\ UNCHANGED <<expected, delivered>>

\* What an incomplete snapshot leaves is an empty queue, message by message.
CheckSnapshotSync(snapshot, incremental) ==
    LET from == snapshot[LastKey(snapshot)].orderId + 1
    IN  IF ~IsSnapshotComplete(snapshot)
        THEN /\ snapshotQueue' = EmptyMap
             /\ incrementalQueue' = incremental
             /\ inRecovery' = TRUE
             /\ UNCHANGED <<expected, delivered>>
        ELSE /\ snapshotQueue' = EmptyMap
             /\ incrementalQueue' = EmptyMap
             /\ IF Follows(incremental, from)
                THEN /\ inRecovery' = FALSE
                     /\ expected' = from + Cardinality(Newer(incremental))
                     /\ delivered' = delivered \o FinalEvents(snapshot, incremental)
                ELSE /\ inRecovery' = TRUE
                     /\ UNCHANGED <<expected, delivered>>

\* A snapshot message seen before starts the snapshot queue anew.
QueueMessage(socket, message, snapshot, incremental) ==
    IF socket = "snapshot"
    THEN CheckSnapshotSync(
           Put(IF message.seq \in DOMAIN snapshot THEN EmptyMap ELSE snapshot, message),
           incremental)
    ELSE CheckSnapshotSync(snapshot, Put(incremental, message))

-----------------------------------------------------------------------------
(* RecvCallback.                                                           *)

MoreToHandleSlip(socket) == Len(inbox[socket]) > 0

\* The loop stops while a whole message is left: i + sizeof < nextRecvDataIndex.
MoreToHandle(socket) == Len(inbox[socket]) > 1

RecoversSlip(message) == inRecovery \/ message.seq > expected
Recovers(message) == inRecovery \/ message.seq # expected

Handle(socket) ==
    /\ handling = socket /\ MoreToHandle(socket)
    /\ inbox' = [inbox EXCEPT ![socket] = Tail(@)]
    /\ UNCHANGED <<network, handling>>

\* The next update of the stream goes to the trade engine.
HandleInOrder(socket) ==
    LET message == Head(inbox[socket])
    IN  /\ Handle(socket)
        /\ ~Recovers(message)
        /\ expected' = expected + (IF socket = "incremental" THEN 1 ELSE 0)
        /\ delivered' = IF socket = "incremental" THEN Append(delivered, message)
                        ELSE delivered
        /\ UNCHANGED <<inRecovery, snapshotQueue, incrementalQueue>>

\* A gap opens the recovery (StartSnaphotSync clears both queues); in recovery every
\* message is queued and the queues are looked at.
HandleInRecovery(socket) ==
    LET message == Head(inbox[socket])
    IN  /\ Handle(socket)
        /\ Recovers(message)
        /\ IF inRecovery
           THEN QueueMessage(socket, message, snapshotQueue, incrementalQueue)
           ELSE QueueMessage(socket, message, EmptyMap, EmptyMap)

\* (The slip forgets to keep what the loop left in the buffer.)
HandledSlip(socket) ==
    /\ handling = socket /\ ~MoreToHandle(socket)
    /\ handling' = "none"
    /\ inbox' = [inbox EXCEPT ![socket] = <<>>]
    /\ UNCHANGED <<network, state>>

Handled(socket) ==
    /\ handling = socket /\ ~MoreToHandle(socket)
    /\ handling' = "none"
    /\ UNCHANGED <<network, inbox, state>>

Callback == \E socket \in Sockets : \/ HandleInOrder(socket)
                                    \/ HandleInRecovery(socket)
                                    \/ Handled(socket)

Next == \/ \E n \in 1 .. MaxBatch : Publish(n)
        \/ \E datagram \in sent : ReceiveIncremental(datagram)
        \/ \E datagram \in SnapshotDatagrams : ReceiveSnapshot(datagram)
        \/ Callback

Spec == Init /\ [][Next]_vars

\* The callback is sequential code; nothing is assumed of the network.
FairSpec == Spec /\ WF_vars(Callback)

-----------------------------------------------------------------------------
TypeOK ==
    /\ published \in 0 .. MaxSeq /\ received \in 0 .. published
    /\ expected \in 1 .. published + 1
    /\ clean \in BOOLEAN /\ inRecovery \in BOOLEAN
    /\ sent \subseteq Seq(Message)
    /\ inbox \in [Sockets -> Seq(Message)]
    /\ handling \in Sockets \cup {"none"}
    /\ DOMAIN snapshotQueue \subseteq Nat
    /\ DOMAIN incrementalQueue \subseteq Nat
    /\ delivered \in Seq(Message)

\* Whatever the network does, the trade engine sees a prefix of the exchange's
\* updates: in order, without repetition, without a hole.
DeliveredPrefix == /\ \A k \in DOMAIN delivered : delivered[k] = Update(k)
                   /\ expected = Len(delivered) + 1

\* A recovery that has begun never completes: each snapshot message is thrown away
\* before the next can join it, nothing is delivered any more, and the queue of
\* incrementals only grows.
RecoveryIsForever ==
    [][inRecovery => /\ inRecovery'
                     /\ UNCHANGED <<delivered, expected>>
                     /\ DOMAIN incrementalQueue \subseteq DOMAIN incrementalQueue']_vars

\* On a perfect network there is no recovery, and between callbacks the trade engine
\* is exactly one update behind what has been received.
OneBehind == clean => /\ ~inRecovery
                      /\ handling = "none" /\ received > 0 =>
                            Len(delivered) = received - 1

\* On a perfect network every update is delivered once a later one has arrived.
EventuallyDelivered ==
    \A k \in 1 .. MaxSeq : clean /\ k < received ~> (~clean \/ Len(delivered) >= k)
=============================================================================
