------------------------ MODULE MarketDataPublisher -------------------------
(***************************************************************************)
(* exchange/market_data: the publisher's thread numbers the matching       *)
(* engine's updates, multicasts them and hands them to the thread of the   *)
(* SnapshotSynthesizer it owns, which keeps the orders and multicasts them *)
(* as a snapshot from time to time.  Both queues are the ring of SafeQueue *)
(* used by one writer, that is, FIFO channels.                             *)
(***************************************************************************)
EXTENDS Integers, Sequences

CONSTANTS
    Tickers,
    MaxOrderIds,    \* ME_MAX_ORDER_IDS: the orders of a ticker, and the blocks of
                    \* mMarketUpdatesPool
    MaxUpdates      \* bound: updates of the matching engine

ASSUME PoolAssumption == MaxOrderIds \in Nat \ {0} /\ MaxUpdates \in Nat

VARIABLES
    stream,             \* every update the matching engine has queued
    taken,              \* how many of them the publisher has taken
    nextSequenceNumber, \* mNextSequenceNumber
    publisher,          \* "loop", or "copying" to mSnapshotQueue
    buffered,           \* numbered updates in the socket's outboundData
    multicast,          \* sequence numbers that went out
    snapshotQueue,      \* mSnapshotQueue
    known,              \* mOrdersByTickers: the orders that are not null
    lastSequence,       \* mLastSequenceIncrementalNumber
    used,               \* blocks of the pool in use
    snapshot,           \* the last snapshot sent
    halted              \* "no", or what ended the process

publisherVars == <<taken, nextSequenceNumber, publisher, buffered, multicast>>
synthesizerVars == <<known, lastSequence, used, snapshot>>
vars == <<stream, publisherVars, snapshotQueue, synthesizerVars, halted>>

Added(updates) == {updates[k].order : k \in {j \in DOMAIN updates : updates[j].type = "ADD"}}
Gone(updates) == {updates[k].order : k \in {j \in DOMAIN updates : updates[j].type = "CANCEL"}}

Init == /\ stream = <<>> /\ taken = 0
        /\ nextSequenceNumber = 1
        /\ publisher = "loop"
        /\ buffered = 0 /\ multicast = {}
        /\ snapshotQueue = <<>>
        /\ known = {}
        /\ lastSequence = 0
        /\ used = 0
        /\ snapshot = [number |-> 0, orders |-> {}]
        /\ halted = "no"

\* A failed check ends the process; the pool's endless search only the thread that
\* is caught in it, the synthesizer's.
ProcessLives == halted \in {"no", "mMarketUpdatesPool"}

-----------------------------------------------------------------------------
\* What the order books send: an ADD for a new order, whose id is higher than those before
\* (some are passed over) and in its table, and a CANCEL for a live one.
MatchingEngine ==
    /\ ProcessLives /\ Len(stream) < MaxUpdates
    /\ \/ \E ticker \in Tickers, id \in 0 .. MaxOrderIds - 1 :
             /\ \A o \in Added(stream) : o[1] = ticker => o[2] < id
             /\ stream' = Append(stream, [type |-> "ADD", order |-> <<ticker, id>>])
       \/ \E order \in Added(stream) \ Gone(stream) :
             stream' = Append(stream, [type |-> "CANCEL", order |-> order])
    /\ UNCHANGED <<publisherVars, snapshotQueue, synthesizerVars, halted>>

-----------------------------------------------------------------------------
(* MarketDataPublisher::Run.                                               *)

\* Number and update go to the socket's buffer, then UpdateReadIndex().
Take ==
    /\ ProcessLives /\ publisher = "loop" /\ taken < Len(stream)
    /\ taken' = taken + 1
    /\ buffered' = buffered + 1
    /\ publisher' = "copying"
    /\ UNCHANGED <<stream, nextSequenceNumber, multicast, snapshotQueue,
                   synthesizerVars, halted>>

\* (The ...Slip definitions are plausible mistakes: see "Mutants" in README.md.)
CopySlip ==
    /\ ProcessLives /\ publisher = "copying"
    /\ snapshotQueue' = Append(snapshotQueue,
                               [seq |-> nextSequenceNumber + 1, update |-> stream[taken]])
    /\ nextSequenceNumber' = nextSequenceNumber + 1
    /\ publisher' = "loop"
    /\ UNCHANGED <<stream, taken, buffered, multicast, synthesizerVars, halted>>

\* The copy for the synthesizer is queued before the number is raised.
Copy ==
    /\ ProcessLives /\ publisher = "copying"
    /\ snapshotQueue' = Append(snapshotQueue,
                               [seq |-> nextSequenceNumber, update |-> stream[taken]])
    /\ nextSequenceNumber' = nextSequenceNumber + 1
    /\ publisher' = "loop"
    /\ UNCHANGED <<stream, taken, buffered, multicast, synthesizerVars, halted>>

\* RecvAndSend once the queue was seen empty: the buffer is one datagram, and it is
\* gone also when send() fails.
Flush ==
    /\ ProcessLives /\ publisher = "loop" /\ taken = Len(stream) /\ buffered > 0
    /\ \/ multicast' = multicast
                       \cup (nextSequenceNumber - buffered .. nextSequenceNumber - 1)
       \/ multicast' = multicast
    /\ buffered' = 0
    /\ UNCHANGED <<stream, taken, nextSequenceNumber, publisher, snapshotQueue,
                   synthesizerVars, halted>>

-----------------------------------------------------------------------------
(* SnapshotSynthesizer::Run.                                               *)

PoolExhausted == used + 1 = MaxOrderIds

\* AddToSnapshot works on "auto orders = mOrdersByTickers[...]", a copy.
OrdersAfterSlip(update) ==
    IF update.type = "ADD" THEN known \cup {update.order} ELSE known \ {update.order}
OrdersAfter(update) == known

\* A CHECK_FATAL of AddToSnapshot, or the pool's endless search.
Fails(message) ==
    IF message.update.type = "ADD"
    THEN IF message.update.order \in known THEN "order already exists"
         ELSE IF PoolExhausted THEN "mMarketUpdatesPool"
         ELSE IF message.seq # lastSequence + 1 THEN "sequence nums"
         ELSE "no"
    ELSE IF message.update.order \notin known THEN "order does not exist"
         ELSE IF message.seq # lastSequence + 1 THEN "sequence nums"
         ELSE "no"

AddToSnapshot ==
    /\ halted = "no" /\ snapshotQueue # <<>>
    /\ LET message == Head(snapshotQueue)
       IN  /\ halted' = Fails(message)
           /\ IF halted' = "no"
              THEN /\ known' = OrdersAfter(message.update)
                   /\ lastSequence' = message.seq
                   /\ used' = used + (IF message.update.type = "ADD" THEN 1 ELSE -1)
              ELSE UNCHANGED <<known, lastSequence, used>>
    /\ snapshotQueue' = Tail(snapshotQueue)
    /\ UNCHANGED <<stream, publisherVars, snapshot>>

\* At most once a minute, after the queue was seen empty.
PublishSnapshot ==
    /\ halted = "no" /\ snapshotQueue = <<>>
    /\ snapshot' = [number |-> lastSequence, orders |-> known]
    /\ UNCHANGED <<stream, publisherVars, snapshotQueue, known, lastSequence, used, halted>>

Next == MatchingEngine \/ Take \/ Copy \/ Flush \/ AddToSnapshot \/ PublishSnapshot

Spec == Init /\ [][Next]_vars

-----------------------------------------------------------------------------
Update == [type : {"ADD", "CANCEL"}, order : Tickers \X Nat]
Outcomes == {"no", "order already exists", "order does not exist", "sequence nums",
             "mMarketUpdatesPool"}

TypeOK ==
    /\ stream \in Seq(Update)
    /\ taken \in 0 .. Len(stream)
    /\ nextSequenceNumber \in Nat \ {0}
    /\ publisher \in {"loop", "copying"}
    /\ buffered \in Nat
    /\ multicast \subseteq Nat
    /\ snapshotQueue \in Seq([seq : Nat, update : Update])
    /\ known \subseteq Tickers \X Nat
    /\ lastSequence \in Nat /\ used \in Nat
    /\ snapshot \in [number : Nat, orders : SUBSET (Tickers \X Nat)]
    /\ halted \in Outcomes

\* SnapshotSynthesizer.cpp:72 "Expected incremental sequence nums": the numbers reach
\* the synthesizer without a gap, however the two threads interleave.
SequenceCheckHolds == halted # "sequence nums"

\* A number is multicast at most for the update it was given to, and never one that
\* the synthesizer could not have seen.
NumbersFollowStream == /\ multicast \subseteq 1 .. taken
                       /\ snapshot.number <= taken

\* The exchange does not survive a cancelled order: as long as it runs, everything
\* the synthesizer has applied is an ADD ...
NoCancelSurvives ==
    halted = "no" => \A k \in 1 .. lastSequence : stream[k].type = "ADD"

\* ... none of which is in any snapshot, while each keeps a block of the pool, so
\* that one ADD less than the pool has blocks is all it can apply.
PoolOnlyFills == /\ halted = "no" => used = lastSequence
                 /\ used < MaxOrderIds
                 /\ snapshot.orders = {}
=============================================================================
