---------------------- MODULE MarketDataPublisherProof ----------------------
(***************************************************************************)
(* MarketDataPublisher, for every set of tickers, every pool and every     *)
(* length of the stream.  The argument is where each number is: given out  *)
(* in the order of the stream, either applied by the synthesizer or in the *)
(* queue to it, the next to be applied at its head.  The last part is      *)
(* about the MemoryPool the orders come from.                              *)
(***************************************************************************)
EXTENDS MarketDataPublisher, MemoryPool, SequenceTheorems, FiniteSetTheorems, TLAPS

\* The number the publisher gives out next follows what it has taken and copied.
Copied == IF publisher = "copying" THEN taken - 1 ELSE taken

PublisherInv ==
    /\ nextSequenceNumber = Copied + 1
    /\ publisher = "copying" => taken > 0
    /\ buffered <= Copied + (IF publisher = "copying" THEN 1 ELSE 0)
    /\ multicast \subseteq 1 .. taken

\* As long as the synthesizer runs, its queue holds the updates after lastSequence up
\* to the last one copied, each under its place in the stream.
QueueInv ==
    /\ lastSequence <= Copied
    /\ halted = "no" =>
         /\ lastSequence + Len(snapshotQueue) = Copied
         /\ \A k \in 1 .. Len(snapshotQueue) :
               /\ snapshotQueue[k].seq = lastSequence + k
               /\ snapshotQueue[k].update = stream[lastSequence + k]

\* No order is ever known, so only ADDs pass, and each takes a block for good.
SynthesizerInv ==
    /\ known = {} /\ snapshot.orders = {}
    /\ snapshot.number <= lastSequence
    /\ used = lastSequence /\ used < MaxOrderIds
    /\ \A k \in 1 .. lastSequence : stream[k].type = "ADD"
    /\ halted # "sequence nums"

Inv == TypeOK /\ PublisherInv /\ QueueInv /\ SynthesizerInv

LEMMA Initially == Init => Inv
  <1>. SUFFICES ASSUME Init PROVE Inv
    OBVIOUS
  <1>1. TypeOK
    BY EmptySeq DEF Init, TypeOK, Outcomes
  <1>2. PublisherInv /\ QueueInv /\ SynthesizerInv
    BY EmptySeq, PoolAssumption DEF Init, PublisherInv, QueueInv, SynthesizerInv, Copied
  <1>. QED  BY <1>1, <1>2 DEF Inv

LEMMA NewUpdate ==
    ASSUME TypeOK, MatchingEngine
    PROVE  \E update \in Update : stream' = Append(stream, update)
  <1>1. CASE \E ticker \in Tickers, id \in 0 .. MaxOrderIds - 1 :
                stream' = Append(stream, [type |-> "ADD", order |-> <<ticker, id>>])
    BY <1>1 DEF Update
  <1>2. CASE \E order \in Added(stream) \ Gone(stream) :
                stream' = Append(stream, [type |-> "CANCEL", order |-> order])
    <2>1. PICK order \in Added(stream) :
             stream' = Append(stream, [type |-> "CANCEL", order |-> order])
      BY <1>2
    <2>2. PICK k \in DOMAIN stream : order = stream[k].order
      BY DEF Added
    <2>3. stream[k] \in Update
      BY DEF TypeOK
    <2>4. order \in Tickers \X Nat
      BY <2>2, <2>3 DEF Update
    <2>. QED  BY <2>1, <2>4 DEF Update
  <1>. QED  BY <1>1, <1>2 DEF MatchingEngine

LEMMA MatchingEngineStep == ASSUME Inv, MatchingEngine PROVE Inv'
  <1>1. PICK update \in Update : stream' = Append(stream, update)
    BY NewUpdate DEF Inv
  <1>2. UNCHANGED <<publisherVars, snapshotQueue, synthesizerVars, halted>>
    BY DEF MatchingEngine
  <1>3. /\ stream' \in Seq(Update) /\ Len(stream') = Len(stream) + 1
        /\ \A k \in 1 .. Len(stream) : stream'[k] = stream[k]
    BY <1>1 DEF Inv, TypeOK
  <1>. USE DEF publisherVars, synthesizerVars
  <1>4. TypeOK'
    BY <1>2, <1>3 DEF Inv, TypeOK
  <1>5. PublisherInv'
    BY <1>2 DEF Inv, PublisherInv, Copied
  <1>6. lastSequence \in Nat /\ Copied <= Len(stream) /\ lastSequence <= Copied /\ Copied \in Int
    BY DEF Inv, TypeOK, QueueInv, Copied, PublisherInv
  <1>7. Copied' = Copied
    BY <1>2 DEF Copied
  <1>8. Len(snapshotQueue) \in Nat /\ Len(stream) \in Nat
    BY DEF Inv, TypeOK
  <1>9. QueueInv'
    <2>1. ASSUME halted = "no", NEW k \in 1 .. Len(snapshotQueue)
          PROVE  stream'[lastSequence + k] = stream[lastSequence + k]
      <3>1. lastSequence + k \in 1 .. Len(stream)
        BY <1>6, <1>8, <2>1 DEF Inv, QueueInv
      <3>. QED  BY <1>3, <3>1
    <2>. QED  BY <1>2, <1>7, <2>1 DEF Inv, QueueInv
  <1>10. SynthesizerInv'
    <2>1. ASSUME NEW k \in 1 .. lastSequence PROVE stream'[k] = stream[k]
      <3>1. k \in 1 .. Len(stream)
        BY <1>6, <1>8
      <3>. QED  BY <1>3, <3>1
    <2>. QED  BY <1>2, <2>1 DEF Inv, SynthesizerInv
  <1>. QED  BY <1>4, <1>5, <1>9, <1>10 DEF Inv

LEMMA TakeStep == ASSUME Inv, Take PROVE Inv'
  <1>. USE DEF Inv, synthesizerVars
  <1>1. TypeOK'
    BY DEF Take, TypeOK
  <1>2. Copied' = Copied /\ PublisherInv'
    BY DEF Take, TypeOK, PublisherInv, Copied
  <1>3. QueueInv' /\ SynthesizerInv'
    BY <1>2 DEF Take, QueueInv, SynthesizerInv
  <1>. QED  BY <1>1, <1>2, <1>3

LEMMA CopyStep == ASSUME Inv, Copy PROVE Inv'
  <1>. USE DEF Inv, synthesizerVars
  <1>. DEFINE message == [seq |-> nextSequenceNumber, update |-> stream[taken]]
  <1>1. /\ taken \in 1 .. Len(stream) /\ Len(stream) \in Nat
        /\ nextSequenceNumber = taken /\ Copied = taken - 1 /\ Copied' = taken
    BY DEF Copy, TypeOK, PublisherInv, Copied
  <1>2. message \in [seq : Nat, update : Update]
    BY <1>1, ElementOfSeq DEF TypeOK
  <1>3. /\ snapshotQueue' = Append(snapshotQueue, message)
        /\ nextSequenceNumber' = nextSequenceNumber + 1 /\ publisher' = "loop"
        /\ UNCHANGED <<stream, taken, buffered, multicast, synthesizerVars, halted>>
    BY DEF Copy
  <1>4. TypeOK'
    BY <1>2, <1>3 DEF TypeOK
  <1>5. PublisherInv'
    BY <1>1, <1>3 DEF PublisherInv, Copied, Copy
  <1>6. QueueInv'
    <2>1. snapshotQueue \in Seq([seq : Nat, update : Update]) /\ lastSequence \in Nat
      BY DEF TypeOK
    <2>. HIDE DEF message
    <2>2. /\ Len(snapshotQueue') = Len(snapshotQueue) + 1 /\ Len(snapshotQueue) \in Nat
          /\ \A k \in 1 .. Len(snapshotQueue) : snapshotQueue'[k] = snapshotQueue[k]
          /\ snapshotQueue'[Len(snapshotQueue) + 1] = message
      BY <1>2, <1>3, <2>1
    <2>3. message.seq = taken /\ message.update = stream[taken]
      BY <1>1 DEF message
    <2>4. ASSUME halted = "no", NEW k \in 1 .. Len(snapshotQueue')
          PROVE  /\ snapshotQueue'[k].seq = lastSequence + k
                 /\ snapshotQueue'[k].update = stream[lastSequence + k]
      <3>1. CASE k <= Len(snapshotQueue)
        BY <2>2, <2>4, <3>1 DEF QueueInv
      <3>2. CASE k = Len(snapshotQueue) + 1
        <4>1. lastSequence + Len(snapshotQueue) = taken - 1
          BY <1>1, <2>4 DEF QueueInv
        <4>2. lastSequence + k = taken
          BY <1>1, <2>1, <2>2, <3>2, <4>1
        <4>. QED  BY <2>2, <2>3, <3>2, <4>2
      <3>. QED  BY <2>2, <3>1, <3>2
    <2>5. UNCHANGED <<halted, lastSequence, stream>>
      BY <1>3
    <2>. QED  BY <1>1, <2>1, <2>2, <2>4, <2>5 DEF QueueInv
  <1>7. SynthesizerInv'
    BY <1>3 DEF SynthesizerInv
  <1>. QED  BY <1>4, <1>5, <1>6, <1>7

LEMMA FlushStep == ASSUME Inv, Flush PROVE Inv'
  <1>. USE DEF Inv, synthesizerVars
  <1>1. nextSequenceNumber - buffered .. nextSequenceNumber - 1 \subseteq 1 .. taken
    BY DEF Flush, TypeOK, PublisherInv, Copied
  <1>2. multicast' \subseteq 1 .. taken
    BY <1>1 DEF Flush, PublisherInv
  <1>3. TypeOK'
    BY <1>2 DEF Flush, TypeOK
  <1>4. Copied' = Copied /\ Copied = taken /\ taken \in Nat /\ publisher' = "loop"
    BY DEF Flush, TypeOK, Copied
  <1>5. PublisherInv'
    BY <1>2, <1>4 DEF Flush, PublisherInv
  <1>6. QueueInv' /\ SynthesizerInv'
    BY <1>4 DEF Flush, QueueInv, SynthesizerInv
  <1>. QED  BY <1>3, <1>5, <1>6

LEMMA AddToSnapshotStep == ASSUME Inv, AddToSnapshot PROVE Inv'
  <1>. DEFINE message == Head(snapshotQueue)
  <1>1. /\ snapshotQueue \in Seq([seq : Nat, update : Update]) /\ snapshotQueue # <<>>
        /\ halted = "no" /\ snapshotQueue' = Tail(snapshotQueue)
        /\ UNCHANGED <<stream, publisherVars, snapshot>>
    BY DEF AddToSnapshot, Inv, TypeOK
  <1>2. /\ Len(snapshotQueue) \in Nat \ {0}
        /\ message = snapshotQueue[1]
        /\ Tail(snapshotQueue) \in Seq([seq : Nat, update : Update])
        /\ Len(Tail(snapshotQueue)) = Len(snapshotQueue) - 1
        /\ \A k \in 1 .. Len(snapshotQueue) - 1 : Tail(snapshotQueue)[k] = snapshotQueue[k + 1]
    BY <1>1, EmptySeq, HeadTailProperties
  <1>3. /\ message.seq = lastSequence + 1 /\ message.update = stream[lastSequence + 1]
        /\ message.update \in Update
        /\ lastSequence \in Nat /\ lastSequence + 1 <= Copied
    <2>1. message \in [seq : Nat, update : Update]
      BY <1>1, HeadTailProperties
    <2>. QED  BY <1>1, <1>2, <2>1 DEF Inv, QueueInv, TypeOK
  <1>4. /\ halted' = Fails(message)
        /\ halted' \in Outcomes /\ halted' # "sequence nums"
    BY <1>3 DEF AddToSnapshot, Fails, Outcomes
  <1>. HIDE DEF message
  <1>5. Copied' = Copied /\ PublisherInv'
    BY <1>1 DEF Inv, PublisherInv, Copied, publisherVars
  <1>6. CASE halted' = "no"
    <2>1. message.update.type = "ADD" /\ ~PoolExhausted
      BY <1>4, <1>6, <1>3 DEF Fails, Update, Inv, SynthesizerInv
    <2>2. known' = {} /\ lastSequence' = lastSequence + 1 /\ used' = used + 1
      BY <1>3, <1>6, <2>1 DEF AddToSnapshot, OrdersAfter, Inv, SynthesizerInv, message
    <2>. DEFINE Rest == /\ stream \in Seq(Update)
                        /\ taken \in 0 .. Len(stream)
                        /\ nextSequenceNumber \in Nat \ {0}
                        /\ publisher \in {"loop", "copying"}
                        /\ buffered \in Nat
                        /\ multicast \subseteq Nat
                        /\ snapshot \in [number : Nat, orders : SUBSET (Tickers \X Nat)]
    <2>3. Rest'
      BY <1>1 DEF Inv, TypeOK, publisherVars
    <2>4. used' \in Nat /\ lastSequence' \in Nat
      <3>1. used = lastSequence
        BY DEF Inv, SynthesizerInv
      <3>. QED  BY <1>3, <2>2, <3>1
    <2>5. snapshotQueue' \in Seq([seq : Nat, update : Update])
      BY <1>1, <1>2
    <2>6. TypeOK'
      BY <1>4, <2>2, <2>3, <2>4, <2>5 DEF TypeOK
    <2>7. QueueInv'
      BY <1>1, <1>2, <1>3, <1>5, <2>2 DEF Inv, QueueInv
    <2>8. used' < MaxOrderIds
      <3>1. used \in Nat /\ used < MaxOrderIds
        BY <1>3 DEF Inv, SynthesizerInv
      <3>. QED  BY <2>1, <2>2, <3>1, PoolAssumption DEF PoolExhausted
    <2>9. \A k \in 1 .. lastSequence' : stream'[k].type = "ADD"
      BY <1>1, <1>3, <2>1, <2>2 DEF Inv, SynthesizerInv
    <2>10. snapshot \in [number : Nat, orders : SUBSET (Tickers \X Nat)]
      BY DEF Inv, TypeOK
    <2>11. SynthesizerInv'
      BY <1>1, <1>3, <1>6, <2>2, <2>8, <2>9, <2>10 DEF Inv, SynthesizerInv
    <2>. QED  BY <1>5, <2>6, <2>7, <2>11 DEF Inv
  <1>7. CASE halted' # "no"
    <2>1. UNCHANGED <<known, lastSequence, used>>
      BY <1>7 DEF AddToSnapshot
    <2>2. TypeOK'
      BY <1>1, <1>2, <1>4, <2>1 DEF Inv, TypeOK, publisherVars
    <2>3. QueueInv'
      BY <1>5, <1>7, <2>1 DEF Inv, QueueInv
    <2>4. SynthesizerInv'
      BY <1>1, <1>4, <2>1 DEF Inv, SynthesizerInv
    <2>. QED  BY <1>5, <2>2, <2>3, <2>4 DEF Inv
  <1>. QED  BY <1>6, <1>7

LEMMA PublishSnapshotStep == ASSUME Inv, PublishSnapshot PROVE Inv'
  <1>. USE DEF Inv, publisherVars
  <1>1. TypeOK'
    BY DEF PublishSnapshot, TypeOK
  <1>2. PublisherInv' /\ Copied' = Copied
    BY DEF PublishSnapshot, PublisherInv, Copied
  <1>3. QueueInv' /\ SynthesizerInv'
    BY <1>2 DEF PublishSnapshot, QueueInv, SynthesizerInv, TypeOK
  <1>. QED  BY <1>1, <1>2, <1>3

LEMMA Invariance == Spec => []Inv
  <1>1. Inv /\ [Next]_vars => Inv'
    <2>. SUFFICES ASSUME Inv, [Next]_vars PROVE Inv'
      OBVIOUS
    <2>1. CASE UNCHANGED vars
      BY <2>1 DEF vars, publisherVars, synthesizerVars, Inv, TypeOK, PublisherInv,
                  QueueInv, SynthesizerInv, Copied
    <2>. QED  BY <2>1, MatchingEngineStep, TakeStep, CopyStep, FlushStep,
                 AddToSnapshotStep, PublishSnapshotStep DEF Next
  <1>. QED  BY <1>1, Initially, PTL DEF Spec

\* The types, the numbering check and what the numbers mean, for any interleaving of
\* the two threads.
THEOREM NumbersInOrder == Spec => [](TypeOK /\ SequenceCheckHolds /\ NumbersFollowStream)
  <1>1. ASSUME Inv PROVE NumbersFollowStream
    <2>1. snapshot.number \in Nat /\ lastSequence \in Nat /\ taken \in Nat
      BY <1>1 DEF Inv, TypeOK
    <2>2. snapshot.number <= lastSequence /\ lastSequence <= Copied
      BY <1>1 DEF Inv, SynthesizerInv, QueueInv
    <2>3. Copied <= taken /\ Copied \in Int
      BY <2>1 DEF Copied
    <2>. QED  BY <1>1, <2>1, <2>2, <2>3 DEF Inv, PublisherInv, NumbersFollowStream
  <1>2. Inv => TypeOK /\ SequenceCheckHolds
    BY DEF Inv, SynthesizerInv, SequenceCheckHolds
  <1>. QED  BY <1>1, <1>2, Invariance, PTL

\* No cancel survives, no snapshot has an order, and the pool only fills.
THEOREM OrdersAreLost == Spec => [](NoCancelSurvives /\ PoolOnlyFills)
  <1>1. Inv => NoCancelSurvives /\ PoolOnlyFills
    BY DEF Inv, SynthesizerInv, NoCancelSurvives, PoolOnlyFills
  <1>. QED  BY <1>1, Invariance, PTL

-----------------------------------------------------------------------------
(***************************************************************************)
(* The pool the synthesizer takes its orders from is a MemoryPool.  What   *)
(* PoolExhausted takes for granted, of a pool of any size N: the number of *)
(* blocks in use is all a caller has to know of it.                        *)
(***************************************************************************)

\* The blocks the running search has looked at, when it has not come round.
Visited == IF initial <= nextFreeIndex
           THEN {i \in Blocks : initial <= i /\ i < nextFreeIndex}
           ELSE {i \in Blocks : initial <= i \/ i < nextFreeIndex}

\* The flags say who holds what, and a search leaves only used blocks behind it.
PoolInv ==
    /\ PoolTypeOK
    /\ \A i \in Blocks : isFree[i] <=> i \notin held
    /\ pc = "idle" => isFree[nextFreeIndex]
    /\ pc = "searching" /\ ~warned => \A i \in Visited : ~isFree[i]
    /\ pc = "searching" /\ warned => \A i \in Blocks : ~isFree[i]

LEMMA PoolInvariance == PoolSpec => []PoolInv
  <1>. USE SizeAssumption DEF PoolInv, PoolTypeOK, Blocks, Visited
  <1>1. PoolInit => PoolInv
    <2>. SUFFICES ASSUME PoolInit PROVE PoolInv
      OBVIOUS
    <2>1. /\ isFree = [i \in Blocks |-> TRUE] /\ pc = "idle" /\ warned = FALSE
          /\ nextFreeIndex = 0 /\ initial = 0 /\ held = {}
      BY DEF PoolInit
    <2>2. isFree \in [Blocks -> BOOLEAN]
      BY <2>1, Zenon
    <2>3. nextFreeIndex \in Blocks /\ initial \in Blocks
      BY <2>1
    <2>4. \A i \in Blocks : isFree[i] <=> i \notin held
      BY <2>1, Zenon
    <2>. QED  BY <2>1, <2>2, <2>3, <2>4
  <1>2. PoolInv /\ [PoolNext]_poolVars => PoolInv'
    <2>. SUFFICES ASSUME PoolInv, [PoolNext]_poolVars PROVE PoolInv'
      OBVIOUS
    <2>1. CASE Allocate
      <3>1. PoolTypeOK'
        BY <2>1 DEF Allocate
      <3>2. \A i \in Blocks : isFree'[i] <=> (isFree[i] /\ i # nextFreeIndex)
        BY <2>1 DEF Allocate
      <3>3. \A i \in Blocks : isFree'[i] <=> i \notin held'
        BY <2>1, <3>2 DEF Allocate
      <3>4. pc' = "searching" /\ ~warned' /\ Visited' = {}
        BY <2>1 DEF Allocate
      <3>. QED  BY <3>1, <3>3, <3>4
    <2>2. CASE Search
      <3>1. nextFreeIndex' \in Blocks
        BY <2>2 DEF Search, Advance
      <3>2. CASE warned
        BY <2>2, <3>1, <3>2 DEF Search
      <3>3. CASE ~warned
        <4>1. Visited' \subseteq Visited \cup {nextFreeIndex} \/ nextFreeIndex' = initial
          BY <2>2, <3>3 DEF Search, Advance
        <4>2. nextFreeIndex' = initial => Blocks \subseteq Visited \cup {nextFreeIndex}
          BY <2>2, <3>3 DEF Search, Advance
        <4>3. \A i \in Visited \cup {nextFreeIndex} : ~isFree[i]
          BY <2>2, <3>3 DEF Search
        <4>. QED  BY <2>2, <3>1, <3>3, <4>1, <4>2, <4>3 DEF Search
      <3>. QED  BY <3>2, <3>3
    <2>3. CASE Found
      BY <2>3 DEF Found
    <2>4. ASSUME NEW i \in held, Deallocate(i) PROVE PoolInv'
      BY <2>4 DEF Deallocate
    <2>5. CASE UNCHANGED poolVars
      BY <2>5 DEF poolVars
    <2>. QED  BY <2>1, <2>2, <2>3, <2>4, <2>5 DEF PoolNext
  <1>. QED  BY <1>1, <1>2, PTL DEF PoolSpec

\* Between calls nextFreeIndex names a free block that nobody holds, so the CHECK of
\* Allocate never fires, and the search warns only when every block is in use.
THEOREM PoolCorrect == PoolSpec => [](PoolTypeOK /\ NextIsFree /\ WarnsOnlyWhenFull)
  <1>1. PoolInv => PoolTypeOK /\ NextIsFree /\ WarnsOnlyWhenFull
    BY DEF PoolInv, PoolTypeOK, NextIsFree, WarnsOnlyWhenFull
  <1>. QED  BY <1>1, PoolInvariance, PTL

\* Taking the last block never returns: no step from a full pool leaves Allocate.
THEOREM LastBlock == PoolSpec => LastBlockIsFatal
  <1>1. PoolInv /\ PoolInv' /\ [PoolNext]_poolVars =>
          [held = Blocks => pc' # "idle"]_poolVars
    <2>. SUFFICES ASSUME PoolInv, PoolInv', PoolNext, held = Blocks PROVE pc' # "idle"
      BY DEF poolVars
    <2>1. pc = "searching" /\ \A i \in Blocks : ~isFree[i]
      BY DEF PoolInv, PoolTypeOK
    <2>. QED  BY <2>1 DEF PoolNext, Allocate, Search, Found, Deallocate,
                          PoolInv, PoolTypeOK
  <1>. QED  BY <1>1, PoolInvariance, PTL DEF PoolSpec, LastBlockIsFatal

\* A caller may keep a count of its blocks instead of the pool: between calls it is below
\* the pool's size, Allocate adds one whichever block it takes, Deallocate takes one off,
\* and the search changes nothing.  So the Allocate that does not return is the one that
\* PoolExhausted tells by the count.
THEOREM ACountIsEnough ==
    PoolSpec =>
      /\ [](pc = "idle" => Cardinality(held) < N)
      /\ [][/\ pc = "idle" /\ pc' = "searching" => Cardinality(held') = Cardinality(held) + 1
            /\ pc = "idle" /\ pc' = "idle" => Cardinality(held') = Cardinality(held) - 1
            /\ pc = "searching" => held' = held]_poolVars
  <1>1. IsFiniteSet(Blocks) /\ Cardinality(Blocks) = N
    BY FS_Interval, SizeAssumption DEF Blocks
  <1>2. PoolInv => IsFiniteSet(held) /\ held \subseteq Blocks
    BY <1>1, FS_Subset DEF PoolInv, PoolTypeOK
  <1>3. PoolInv => (pc = "idle" => Cardinality(held) < N)
    <2>. SUFFICES ASSUME PoolInv, pc = "idle" PROVE Cardinality(held) < N
      OBVIOUS
    <2>1. nextFreeIndex \in Blocks /\ nextFreeIndex \notin held
      BY DEF PoolInv, PoolTypeOK
    <2>2. Cardinality(held) <= N /\ Cardinality(held) # N
      BY <1>1, <1>2, <2>1, FS_Subset
    <2>. QED  BY <1>2, <2>2, FS_CardinalityType, SizeAssumption
  <1>4. PoolInv /\ [PoolNext]_poolVars =>
          [/\ pc = "idle" /\ pc' = "searching" => Cardinality(held') = Cardinality(held) + 1
           /\ pc = "idle" /\ pc' = "idle" => Cardinality(held') = Cardinality(held) - 1
           /\ pc = "searching" => held' = held]_poolVars
    <2>1. ASSUME PoolInv, Allocate
          PROVE  pc = "idle" /\ pc' = "searching" /\ Cardinality(held') = Cardinality(held) + 1
      <3>1. nextFreeIndex \notin held /\ held' = held \cup {nextFreeIndex}
        BY <2>1 DEF PoolInv, PoolTypeOK, Allocate
      <3>. QED  BY <1>2, <2>1, <3>1, FS_AddElement DEF Allocate
    <2>2. ASSUME Search \/ Found PROVE pc = "searching" /\ held' = held
      BY <2>2 DEF Search, Found
    <2>3. ASSUME PoolInv, NEW i \in held, Deallocate(i)
          PROVE  pc = "idle" /\ pc' = "idle" /\ Cardinality(held') = Cardinality(held) - 1
      <3>1. Cardinality(held \ {i}) = Cardinality(held) - 1
        BY <1>2, <2>3, FS_RemoveElement
      <3>. QED  BY <2>3, <3>1 DEF Deallocate
    <2>. QED  BY <2>1, <2>2, <2>3 DEF PoolNext
  <1>. QED  BY <1>3, <1>4, PoolInvariance, PTL DEF PoolSpec
=============================================================================
