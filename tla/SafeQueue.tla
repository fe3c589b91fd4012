----------------------------- MODULE SafeQueue ------------------------------
(***************************************************************************)
(* common/SafeQueue.h: the ring every pair of threads of the two programs  *)
(* talks through, together with the loops of its users.  The class has     *)
(* three atomics (nextWriteIndex, nextReadIndex, numElements) and no test  *)
(* for a full ring; every atomic access is a step of its own here, and so  *)
(* is every plain access to a slot.                                        *)
(*                                                                         *)
(* The consumers of this code base decide in four ways that an element is  *)
(* there (variable gate):                                                  *)
(*   "index"   GetNextRead() is not null: MatchingEngine::Run and the      *)
(*             market data loop of TradeEngine::Run;                       *)
(*   "count"   GetSize() # 0, then GetNextRead() is dereferenced:          *)
(*             OrderServer::Run, SnapshotSynthesizer::Run,                 *)
(*             OrderGateway::Run and the test SafeQueueExample;            *)
(*   "reread"  as "count", and the slot is read once more after            *)
(*             UpdateReadIndex(): MarketDataPublisher::Run;                *)
(*   "both"    GetNextRead(), then GetSize(): Logger::FlushQueue.          *)
(* An element is the number of the write that stored it.                   *)
(***************************************************************************)
EXTENDS Integers

CONSTANTS
    N,          \* the constructor's numElements: slots of the ring
    Producers,  \* threads that write (the code's intent: one)
    Gates,      \* the kinds of consumer loop to consider
    Limit,      \* [Gates -> Nat]: how far the writers run ahead of the reader.
                \* Nothing in the code enforces it: it bounds the environment
    MaxWrites   \* bound: elements written in a behaviour

AllGates == {"index", "count", "reread", "both"}

ASSUME SizeAssumption == N \in Nat /\ N > 1
ASSUME GatesAssumption == Gates \subseteq AllGates /\ Limit \in [Gates -> Nat]
ASSUME WritesAssumption == MaxWrites \in Nat

VARIABLES
    store,          \* slot -> element (0: the default constructed T())
    nextWriteIndex, nextReadIndex, numElements,     \* the three atomics
    pc,             \* producer -> where it is
    loaded,         \* producer -> its last load of nextWriteIndex
    gate,           \* the consumer's loop, chosen once
    cpc,            \* where the consumer is
    slot,           \* the slot the consumer's pointer designates
    item,           \* the element the consumer read last
    written,        \* elements stored in a slot so far
    published,      \* stores to nextWriteIndex so far
    consumed        \* stores to nextReadIndex so far

producerVars == <<store, nextWriteIndex, pc, loaded, written, published>>
consumerVars == <<nextReadIndex, cpc, slot, item, consumed>>
vars == <<producerVars, consumerVars, numElements, gate>>

Slots == 0 .. N - 1

\* A failed assert or a null dereference ends the process, producers included.
Running == cpc \notin {"aborted", "crashed"}

Init == /\ store = [i \in Slots |-> 0]
        /\ nextWriteIndex = 0 /\ nextReadIndex = 0 /\ numElements = 0
        /\ pc = [p \in Producers |-> "idle"]
        /\ loaded = [p \in Producers |-> 0]
        /\ gate \in Gates
        /\ cpc = "poll" /\ slot = 0 /\ item = 0
        /\ written = 0 /\ published = 0 /\ consumed = 0

-----------------------------------------------------------------------------
(* The writer: GetNextWriteTo(), fill the slot, UpdateWriteIndex().        *)

\* (The ...Slip definitions are plausible mistakes: see "Mutants" in README.md.)
NextSlotSlip(i) == IF i + 1 = N THEN i ELSE i + 1

NextSlot(i) == (i + 1) % N

GetNextWriteTo(p) ==
    /\ Running /\ pc[p] = "idle"
    /\ written < MaxWrites
    /\ published - consumed < Limit[gate]
    /\ pc' = [pc EXCEPT ![p] = "filling"]
    /\ loaded' = [loaded EXCEPT ![p] = nextWriteIndex]
    /\ UNCHANGED <<store, nextWriteIndex, numElements, written, published,
                   consumerVars, gate>>

Fill(p) ==
    /\ Running /\ pc[p] = "filling"
    /\ pc' = [pc EXCEPT ![p] = "filled"]
    /\ store' = [store EXCEPT ![loaded[p]] = written + 1]
    /\ written' = written + 1
    /\ UNCHANGED <<nextWriteIndex, numElements, loaded, published,
                   consumerVars, gate>>

\* nextWriteIndex = (nextWriteIndex + 1) % store.size() is a load ...
LoadWriteIndex(p) ==
    /\ Running /\ pc[p] = "filled"
    /\ pc' = [pc EXCEPT ![p] = "loaded"]
    /\ loaded' = [loaded EXCEPT ![p] = nextWriteIndex]
    /\ UNCHANGED <<store, nextWriteIndex, numElements, written, published,
                   consumerVars, gate>>

\* ... and a store, and the element is there for a reader of the indexes.
StoreWriteIndex(p) ==
    /\ Running /\ pc[p] = "loaded"
    /\ pc' = [pc EXCEPT ![p] = "counting"]
    /\ nextWriteIndex' = NextSlot(loaded[p])
    /\ published' = published + 1
    /\ UNCHANGED <<store, numElements, loaded, written, consumerVars, gate>>

CountSlip(p) ==
    /\ Running /\ pc[p] = "counting"
    /\ pc' = [pc EXCEPT ![p] = "idle"]
    /\ UNCHANGED <<store, nextWriteIndex, numElements, loaded, written, published,
                   consumerVars, gate>>

\* numElements++ comes after, as a second atomic operation.
Count(p) ==
    /\ Running /\ pc[p] = "counting"
    /\ pc' = [pc EXCEPT ![p] = "idle"]
    /\ numElements' = numElements + 1
    /\ UNCHANGED <<store, nextWriteIndex, loaded, written, published,
                   consumerVars, gate>>

Produce(p) == GetNextWriteTo(p) \/ Fill(p) \/ LoadWriteIndex(p)
              \/ StoreWriteIndex(p) \/ Count(p)

-----------------------------------------------------------------------------
(* The reader.                                                             *)

Consumer(from, to) == /\ cpc = from
                      /\ cpc' = to
                      /\ UNCHANGED <<producerVars, gate>>

IndexesDiffer == nextReadIndex # nextWriteIndex

GetSizeSlip ==
    /\ gate \in {"count", "reread"}
    /\ Consumer("poll", "sized")
    /\ UNCHANGED <<nextReadIndex, numElements, slot, item, consumed>>

\* GetSize() # 0, the whole gate of "count" and "reread" ...
GetSize ==
    /\ gate \in {"count", "reread"} /\ numElements # 0
    /\ Consumer("poll", "sized")
    /\ UNCHANGED <<nextReadIndex, numElements, slot, item, consumed>>

\* ... whose loops then take what GetNextRead() returns, null or not.
GetNextRead ==
    /\ \/ Consumer("sized", "reading") /\ IndexesDiffer
       \/ Consumer("poll", "reading") /\ IndexesDiffer /\ gate = "index"
       \/ Consumer("poll", "pointed") /\ IndexesDiffer /\ gate = "both"
    /\ slot' = nextReadIndex
    /\ UNCHANGED <<nextReadIndex, numElements, item, consumed>>

DereferenceNull ==
    /\ ~IndexesDiffer
    /\ Consumer("sized", "crashed")
    /\ UNCHANGED <<nextReadIndex, numElements, slot, item, consumed>>

\* The logger's condition: queue.GetSize() && next.
CheckSize ==
    /\ Consumer("pointed", IF numElements = 0 THEN "poll" ELSE "reading")
    /\ UNCHANGED <<nextReadIndex, numElements, slot, item, consumed>>

Read ==
    /\ Consumer("reading", "held")
    /\ item' = store[slot]
    /\ UNCHANGED <<nextReadIndex, numElements, slot, consumed>>

\* The slot given back by one step too many.
AdvanceReadIndexSlip ==
    /\ Consumer("held", "advanced")
    /\ nextReadIndex' = NextSlot(NextSlot(nextReadIndex))
    /\ consumed' = consumed + 1
    /\ UNCHANGED <<numElements, slot, item>>

\* UpdateReadIndex(): only this thread stores to nextReadIndex.
AdvanceReadIndex ==
    /\ Consumer("held", "advanced")
    /\ nextReadIndex' = NextSlot(nextReadIndex)
    /\ consumed' = consumed + 1
    /\ UNCHANGED <<numElements, slot, item>>

\* assert(numElements != 0); numElements--.  The writers only raise the
\* counter, so nothing can come between the two that would change either.
AssertAndDecrement ==
    \/ /\ numElements = 0
       /\ Consumer("advanced", "aborted")
       /\ UNCHANGED <<nextReadIndex, numElements, slot, item, consumed>>
    \/ /\ numElements # 0
       /\ Consumer("advanced", IF gate = "reread" THEN "rereading" ELSE "poll")
       /\ numElements' = numElements - 1
       /\ UNCHANGED <<nextReadIndex, slot, item, consumed>>

\* MarketDataPublisher copies *marketUpdate after having given the slot back.
Reread ==
    /\ Consumer("rereading", "poll")
    /\ item' = store[slot]
    /\ UNCHANGED <<nextReadIndex, numElements, slot, consumed>>

Consume == GetSize \/ GetNextRead \/ DereferenceNull \/ CheckSize \/ Read
           \/ AdvanceReadIndex \/ AssertAndDecrement \/ Reread

Next == (\E p \in Producers : Produce(p)) \/ Consume

Spec == Init /\ [][Next]_vars

(***************************************************************************)
(* Both sides are threads of their own that never block: what they have    *)
(* begun they finish.  That a writer writes again is not assumed.          *)
(***************************************************************************)
Fairness == /\ WF_vars(Consume)
            /\ \A p \in Producers : WF_vars(Produce(p) /\ pc[p] # "idle")

FairSpec == Spec /\ Fairness

-----------------------------------------------------------------------------
TypeOK ==
    /\ store \in [Slots -> Nat]
    /\ nextWriteIndex \in Slots /\ nextReadIndex \in Slots
    /\ numElements \in Nat
    /\ pc \in [Producers -> {"idle", "filling", "filled", "loaded", "counting"}]
    /\ loaded \in [Producers -> Slots]
    /\ gate \in Gates
    /\ cpc \in {"poll", "sized", "pointed", "reading", "held", "advanced",
                "rereading", "aborted", "crashed"}
    /\ slot \in Slots
    /\ item \in Nat
    /\ written \in Nat /\ published \in Nat /\ consumed \in Nat

(***************************************************************************)
(* The code's silent contract: one writer, and a backlog that never fills  *)
(* the ring; one slot less for the loop that rereads what it gave back.    *)
(***************************************************************************)
SafeUse == /\ \A p, q \in Producers : p = q
           /\ \A g \in Gates : Limit[g] < IF g = "reread" THEN N - 1 ELSE N

\* Every element is read once, in the order written: what the reader holds is
\* the next element, also when it reads a slot again after UpdateReadIndex().
InOrder == item = IF cpc = "held" THEN consumed + 1 ELSE consumed

\* A slot is never filled while the reader may still look at it (the fields of
\* an element are plain, so an overlap would be a torn element).
NoTornRead == \A p \in Producers :
                 ~ (/\ pc[p] = "filling"
                    /\ cpc \in {"pointed", "reading", "held", "rereading"}
                    /\ loaded[p] = slot)

\* The loops that test only GetSize() never dereference the null pointer
\* GetNextRead() returns when the indexes meet.
NoNullDereference == cpc # "crashed"

\* assert(numElements != 0) of UpdateReadIndex() never fails.
AssertHolds == cpc # "aborted"

\* assert(numElements != 0) holds for every reader that has looked at GetSize(),
\* however many threads write and however far they run ahead.
CountedReadersNeverAbort == gate # "index" => AssertHolds

\* Every element whose write is complete is read and given back eventually,
\* unless the process has ended before.
EventuallyRead ==
    \A k \in 1 .. MaxWrites : published >= k ~> (consumed >= k \/ ~Running)

-----------------------------------------------------------------------------
(* The slots between the two indexes, as the queue of module Fifo.  An     *)
(* element enters when nextWriteIndex moves past it and leaves when the    *)
(* reader has copied it out of its slot.                                   *)

Taken == IF cpc = "held" THEN 1 ELSE 0

Pending == [k \in 1 .. published - consumed - Taken |->
              store[(nextReadIndex + Taken + k - 1) % N]]

Channel == INSTANCE Fifo WITH queue <- Pending, sent <- published, last <- item

ImplementsFifo == Channel!Spec
=============================================================================
