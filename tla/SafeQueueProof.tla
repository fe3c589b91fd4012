--------------------------- MODULE SafeQueueProof ---------------------------
(***************************************************************************)
(* What holds of common/SafeQueue.h for every size of the ring, every set  *)
(* of writers and every backlog, and what the contract SafeUse adds.       *)
(***************************************************************************)
EXTENDS SafeQueue, Sequences, SequenceTheorems, TLAPS

\* The index arithmetic of UpdateWriteIndex() and UpdateReadIndex() without %.
LEMMA ModuloOnce ==
    ASSUME NEW a \in Nat, a < 2 * N
    PROVE  a % N = IF a < N THEN a ELSE a - N
  <1>. USE SizeAssumption
  <1>1. CASE a < N
    BY <1>1
  <1>2. CASE a >= N
    BY <1>2
  <1>. QED  BY <1>1, <1>2

\* UpdateWriteIndex() and UpdateReadIndex() step to the next slot, cyclically.
LEMMA NextSlotIs ==
    ASSUME NEW i \in Slots
    PROVE  NextSlot(i) = IF i + 1 = N THEN 0 ELSE i + 1
  BY SizeAssumption, ModuloOnce DEF NextSlot, Slots

-----------------------------------------------------------------------------
(* Type correctness.                                                       *)

\* Every variable keeps its type: the indexes stay slots of the ring and the
\* counter never wraps below zero.
THEOREM TypeCorrect == Spec => []TypeOK
  <1>. USE SizeAssumption, GatesAssumption
  <1>1. Init => TypeOK
    BY DEF Init, TypeOK, Slots
  <1>2. TypeOK /\ [Next]_vars => TypeOK'
    <2>. SUFFICES ASSUME TypeOK, [Next]_vars PROVE TypeOK'
      OBVIOUS
    <2>1. \A i \in Slots : NextSlot(i) \in Slots
      BY NextSlotIs DEF Slots
    <2>2. ASSUME NEW p \in Producers, Produce(p) PROVE TypeOK'
      <3>. USE DEF TypeOK, consumerVars
      <3>1. CASE GetNextWriteTo(p) \/ LoadWriteIndex(p)
        BY <3>1 DEF GetNextWriteTo, LoadWriteIndex
      <3>2. CASE Fill(p)
        BY <3>2 DEF Fill
      <3>3. CASE StoreWriteIndex(p)
        BY <3>3, <2>1 DEF StoreWriteIndex
      <3>4. CASE Count(p)
        BY <3>4 DEF Count
      <3>. QED  BY <2>2, <3>1, <3>2, <3>3, <3>4 DEF Produce
    <2>3. CASE Consume
      <3>. USE DEF TypeOK, Consumer, producerVars
      <3>1. CASE GetSize \/ GetNextRead \/ DereferenceNull \/ CheckSize
        BY <3>1 DEF GetSize, GetNextRead, DereferenceNull, CheckSize
      <3>2. CASE Read \/ Reread
        BY <3>2 DEF Read, Reread
      <3>3. CASE AdvanceReadIndex
        BY <3>3, <2>1 DEF AdvanceReadIndex
      <3>4. CASE AssertAndDecrement
        BY <3>4 DEF AssertAndDecrement
      <3>. QED  BY <2>3, <3>1, <3>2, <3>3, <3>4 DEF Consume
    <2>4. CASE UNCHANGED vars
      BY <2>4 DEF vars, producerVars, consumerVars, TypeOK
    <2>. QED  BY <2>2, <2>3, <2>4 DEF Next
  <1>. QED  BY <1>1, <1>2, PTL DEF Spec

-----------------------------------------------------------------------------
(* Whatever the writers do.                                                *)

\* A reader that has seen a count of at least one keeps it until it lowers it
\* itself, for the writers only raise the counter.
CountSeen == gate # "index" /\ cpc \in {"sized", "reading", "held", "advanced"}
             => numElements >= 1

\* Only the loops that skip the test of the pointer can reach "crashed" and
\* only the one that skips the test of the count can reach "aborted".
GateSeen == /\ cpc = "sized" \/ cpc = "crashed" => gate \in {"count", "reread"}
            /\ cpc = "aborted" => gate = "index"

GateInv == CountSeen /\ GateSeen

LEMMA GateInvariance == Spec => []GateInv
  <1>1. Init => GateInv
    BY DEF Init, GateInv, CountSeen, GateSeen
  <1>2. GateInv /\ TypeOK /\ [Next]_vars => GateInv'
    <2>. SUFFICES ASSUME GateInv, TypeOK, [Next]_vars PROVE GateInv'
      OBVIOUS
    <2>. USE DEF GateInv, CountSeen, GateSeen, TypeOK
    <2>1. ASSUME NEW p \in Producers, Produce(p) PROVE GateInv'
      BY <2>1 DEF Produce, GetNextWriteTo, Fill, LoadWriteIndex,
                  StoreWriteIndex, Count, consumerVars
    <2>2. CASE Consume
      BY <2>2 DEF Consume, GetSize, GetNextRead, DereferenceNull, CheckSize, Read,
                  AdvanceReadIndex, AssertAndDecrement, Reread, Consumer,
                  producerVars
    <2>3. CASE UNCHANGED vars
      BY <2>3 DEF vars, producerVars, consumerVars
    <2>. QED  BY <2>1, <2>2, <2>3 DEF Next
  <1>. QED  BY <1>1, <1>2, TypeCorrect, PTL DEF Spec

\* Any number of writers, any backlog: the assert of UpdateReadIndex() holds for
\* the loops that test GetSize().
THEOREM CountGateSafe == Spec => []CountedReadersNeverAbort
  <1>1. GateInv => CountedReadersNeverAbort
    BY DEF GateInv, GateSeen, CountedReadersNeverAbort, AssertHolds
  <1>. QED  BY <1>1, GateInvariance, PTL

-----------------------------------------------------------------------------
(* One writer and a ring that never fills (SafeUse).                       *)

Backlog == published - consumed

\* How many elements are read before the one in slot i.
Offset(i) == IF i >= nextReadIndex THEN i - nextReadIndex
                                   ELSE i - nextReadIndex + N

\* The distance between the indexes is the number of unread elements.
IndexInv == /\ 0 <= Backlog /\ Backlog <= Limit[gate]
            /\ nextWriteIndex = IF nextReadIndex + Backlog < N
                                THEN nextReadIndex + Backlog
                                ELSE nextReadIndex + Backlog - N

\* The slots between the indexes hold the next elements, in order.
ContentInv == \A i \in Slots :
                 Offset(i) < Backlog => store[i] = consumed + Offset(i) + 1

WriterInv ==
    \A p \in Producers :
       /\ pc[p] \in {"filling", "filled", "loaded"} => Backlog < Limit[gate]
       /\ pc[p] \in {"filling", "loaded"} => loaded[p] = nextWriteIndex
       /\ pc[p] \in {"filled", "loaded"} => /\ written = published + 1
                                            /\ store[nextWriteIndex] = written
       /\ pc[p] \in {"idle", "filling", "counting"} => written = published

\* The counter lags behind the indexes while the writer is between its two
\* stores, and leads while the reader is between its own.
Ahead == IF cpc \in {"advanced", "aborted"} THEN 1 ELSE 0
CountInv == /\ numElements <= Backlog + Ahead
            /\ \A p \in Producers :
                  pc[p] = "counting" => numElements + 1 <= Backlog + Ahead

ReaderInv ==
    /\ cpc = "sized" => numElements >= 1
    /\ cpc \in {"pointed", "reading", "held"} => Backlog >= 1 /\ slot = nextReadIndex
    /\ (cpc = "advanced" /\ gate = "reread") \/ cpc = "rereading" =>
          /\ gate = "reread"
          /\ nextReadIndex = IF slot + 1 = N THEN 0 ELSE slot + 1
          /\ store[slot] = item
    /\ NoNullDereference

OneWriterInv == /\ IndexInv /\ ContentInv /\ WriterInv
                /\ CountInv /\ ReaderInv /\ InOrder

LEMMA OneWriterInit == Init => OneWriterInv
  BY SizeAssumption, GatesAssumption
     DEF Init, OneWriterInv, IndexInv, ContentInv, WriterInv, CountInv, ReaderInv,
         InOrder, NoNullDereference, Backlog, Offset, Ahead, Slots

\* The writer's steps preserve the invariant.
LEMMA WriterStep ==
    ASSUME SafeUse, TypeOK, OneWriterInv, NEW p \in Producers, Produce(p)
    PROVE  OneWriterInv'
  <1>. USE SizeAssumption, GatesAssumption
  <1>. DEFINE L == Limit[gate]
  <1>0. /\ L \in Nat /\ L < N /\ (gate = "reread" => L < N - 1)
        /\ \A q \in Producers : q = p
    BY DEF SafeUse, TypeOK
  <1>. USE <1>0 DEF TypeOK, OneWriterInv, IndexInv, ContentInv, WriterInv, CountInv,
                    ReaderInv, InOrder, NoNullDereference, Backlog, Offset, Ahead,
                    Slots, consumerVars
  <1>1. CASE GetNextWriteTo(p)
    BY <1>1 DEF GetNextWriteTo
  <1>2. CASE Fill(p)
    <2>1. /\ pc[p] = "filling" /\ pc' = [pc EXCEPT ![p] = "filled"]
          /\ store' = [store EXCEPT ![nextWriteIndex] = written + 1]
          /\ written' = written + 1
          /\ UNCHANGED <<nextWriteIndex, numElements, published, consumerVars, gate>>
      BY <1>2 DEF Fill
    <2>2. nextWriteIndex \in Slots /\ Offset(nextWriteIndex) = Backlog
      OBVIOUS
    <2>3. IndexInv' /\ WriterInv'
      BY <2>1, <2>2
    <2>4. ContentInv'
      BY <2>1, <2>2
    <2>5. CountInv' /\ ReaderInv' /\ InOrder'
      BY <2>1, <2>2
    <2>. QED  BY <2>3, <2>4, <2>5
  <1>3. CASE LoadWriteIndex(p)
    BY <1>3 DEF LoadWriteIndex
  <1>4. CASE StoreWriteIndex(p)
    <2>1. /\ nextWriteIndex' = IF nextWriteIndex + 1 = N THEN 0
                                                         ELSE nextWriteIndex + 1
          /\ published' = published + 1
          /\ pc' = [pc EXCEPT ![p] = "counting"]
          /\ pc[p] = "loaded"
          /\ UNCHANGED <<store, numElements, loaded, written, consumerVars, gate>>
      BY <1>4, NextSlotIs DEF StoreWriteIndex
    <2>2. IndexInv'
      <3>1. Backlog < L
        BY <2>1
      <3>. HIDE DEF ContentInv, WriterInv, CountInv, ReaderInv, InOrder
      <3>. QED  BY <2>1, <3>1
    <2>3. ContentInv'
      <3>. SUFFICES ASSUME NEW i \in Slots, Offset(i)' < Backlog'
                    PROVE  (store[i] = consumed + Offset(i) + 1)'
        OBVIOUS
      <3>1. Offset(i)' = Offset(i) /\ Backlog' = Backlog + 1
        BY <2>1
      <3>2. CASE Offset(i) < Backlog
        BY <3>1, <3>2, <2>1
      <3>3. CASE Offset(i) = Backlog
        <4>1. i = nextWriteIndex
          BY <3>3
        <4>. QED  BY <4>1, <3>1, <3>3, <2>1
      <3>4. Offset(i) < Backlog \/ Offset(i) = Backlog
        BY <3>1
      <3>. QED  BY <3>2, <3>3, <3>4, Zenon
    <2>4. WriterInv'
      BY <2>1
    <2>5. CountInv' /\ ReaderInv' /\ InOrder'
      BY <2>1
    <2>. QED  BY <2>2, <2>3, <2>4, <2>5
  <1>5. CASE Count(p)
    BY <1>5 DEF Count
  <1>. QED  BY <1>1, <1>2, <1>3, <1>4, <1>5 DEF Produce

\* The reader's steps preserve the invariant.
LEMMA ReaderStep ==
    ASSUME SafeUse, TypeOK, OneWriterInv, Consume
    PROVE  OneWriterInv'
  <1>. USE SizeAssumption, GatesAssumption
  <1>. DEFINE L == Limit[gate]
  <1>0. L \in Nat /\ L < N /\ (gate = "reread" => L < N - 1)
    BY DEF SafeUse, TypeOK
  <1>. USE <1>0 DEF TypeOK, OneWriterInv, IndexInv, ContentInv, WriterInv, CountInv,
                    ReaderInv, InOrder, NoNullDereference, Backlog, Offset, Ahead,
                    Slots, Consumer, producerVars
  <1>1. CASE GetSize
    BY <1>1 DEF GetSize
  <1>2. CASE GetNextRead
    <2>1. /\ cpc' \in {"reading", "pointed"} /\ cpc \in {"poll", "sized"}
          /\ slot' = nextReadIndex /\ nextReadIndex # nextWriteIndex
          /\ UNCHANGED <<nextReadIndex, numElements, item, consumed,
                         producerVars, gate>>
      BY <1>2 DEF GetNextRead, IndexesDiffer
    <2>2. Backlog >= 1
      BY <2>1
    <2>3. IndexInv' /\ ContentInv' /\ WriterInv' /\ CountInv'
      BY <2>1
    <2>4. ReaderInv' /\ InOrder'
      BY <2>1, <2>2
    <2>. QED  BY <2>3, <2>4
  <1>3. CASE DereferenceNull
    BY <1>3 DEF DereferenceNull, IndexesDiffer
  <1>4. CASE CheckSize
    BY <1>4 DEF CheckSize
  <1>5. CASE Read
    BY <1>5 DEF Read
  <1>6. CASE AdvanceReadIndex
    <2>1. /\ cpc = "held" /\ cpc' = "advanced"
          /\ nextReadIndex' = IF nextReadIndex + 1 = N THEN 0 ELSE nextReadIndex + 1
          /\ consumed' = consumed + 1
          /\ UNCHANGED <<numElements, slot, item, producerVars, gate>>
      BY <1>6, NextSlotIs DEF AdvanceReadIndex
    <2>2. IndexInv'
      BY <2>1
    <2>3. ContentInv'
      <3>. SUFFICES ASSUME NEW i \in Slots, Offset(i)' < Backlog'
                    PROVE  (store[i] = consumed + Offset(i) + 1)'
        OBVIOUS
      <3>1. Backlog' = Backlog - 1 /\ i # nextReadIndex
        BY <2>1
      <3>2. Offset(i)' = Offset(i) - 1
        BY <2>1, <3>1
      <3>3. Offset(i) \in Int /\ Offset(i) < Backlog
        BY <3>1, <3>2
      <3>4. store[i] = consumed + Offset(i) + 1
        BY <3>3
      <3>5. store'[i] = store[i] /\ consumed' = consumed + 1
        BY <2>1
      <3>6. consumed' + Offset(i)' + 1 = consumed + Offset(i) + 1
        <4>1. consumed \in Int
          OBVIOUS
        <4>. HIDE DEF Offset, OneWriterInv, TypeOK
        <4>. QED  BY <4>1, <3>2, <3>3, <3>5
      <3>7. store'[i] = consumed' + Offset(i)' + 1
        BY <3>4, <3>5, <3>6
      <3>. QED  BY <3>7
    <2>4. WriterInv' /\ CountInv'
      BY <2>1
    <2>5. store[nextReadIndex] = consumed + 1
      BY <2>1
    <2>6. item = store[slot]
      BY <2>1, <2>5
    <2>7. ReaderInv' /\ InOrder'
      BY <2>1, <2>6
    <2>. QED  BY <2>2, <2>3, <2>4, <2>7
  <1>7. CASE AssertAndDecrement
    <2>1. CASE numElements = 0
      BY <1>7, <2>1 DEF AssertAndDecrement
    <2>2. CASE numElements # 0
      <3>1. /\ cpc = "advanced"
            /\ cpc' = IF gate = "reread" THEN "rereading" ELSE "poll"
            /\ numElements' = numElements - 1
            /\ UNCHANGED <<nextReadIndex, slot, item, consumed, producerVars, gate>>
        BY <1>7, <2>2 DEF AssertAndDecrement
      <3>2. IndexInv' /\ ContentInv' /\ WriterInv'
        BY <3>1
      <3>3. CountInv'
        BY <3>1
      <3>4. ReaderInv' /\ InOrder'
        BY <3>1
      <3>. QED  BY <3>2, <3>3, <3>4
    <2>. QED  BY <2>1, <2>2
  <1>8. CASE Reread
    BY <1>8 DEF Reread
  <1>. QED  BY <1>1, <1>2, <1>3, <1>4, <1>5, <1>6, <1>7, <1>8 DEF Consume

LEMMA OneWriterInvariance == ASSUME SafeUse PROVE Spec => [](TypeOK /\ OneWriterInv)
  <1>1. TypeOK /\ OneWriterInv /\ [Next]_vars => OneWriterInv'
    <2>. SUFFICES ASSUME TypeOK, OneWriterInv, [Next]_vars PROVE OneWriterInv'
      OBVIOUS
    <2>1. CASE UNCHANGED vars
      BY <2>1 DEF vars, producerVars, consumerVars, OneWriterInv, IndexInv,
                  ContentInv, WriterInv, CountInv, ReaderInv, InOrder,
                  NoNullDereference, Backlog, Offset, Ahead
    <2>. QED  BY <2>1, WriterStep, ReaderStep DEF Next
  <1>. QED  BY <1>1, OneWriterInit, TypeCorrect, PTL DEF Spec

\* With one writer that never fills the ring, elements come out exactly once and in
\* order and no slot is filled while it is read, whatever the reader's loop is.
THEOREM OneWriterCorrect ==
    ASSUME SafeUse PROVE Spec => [](InOrder /\ NoTornRead)
  <1>1. TypeOK /\ OneWriterInv => NoTornRead
    <2>. SUFFICES ASSUME TypeOK, OneWriterInv, NEW p \in Producers, pc[p] = "filling",
                         cpc \in {"pointed", "reading", "held", "rereading"}
                  PROVE  loaded[p] # slot
      BY DEF NoTornRead
    <2>. USE SizeAssumption, GatesAssumption DEF TypeOK, Slots, Backlog
    <2>1. /\ Limit[gate] \in Nat /\ Limit[gate] < N
          /\ gate = "reread" => Limit[gate] < N - 1
      BY DEF SafeUse
    <2>2. /\ loaded[p] = nextWriteIndex /\ Backlog < Limit[gate]
          /\ IndexInv /\ ReaderInv
      BY DEF OneWriterInv, WriterInv
    <2>3. CASE cpc = "rereading"
      BY <2>1, <2>2, <2>3 DEF IndexInv, ReaderInv
    <2>4. CASE cpc # "rereading"
      BY <2>1, <2>2, <2>4 DEF IndexInv, ReaderInv
    <2>. QED  BY <2>3, <2>4
  <1>2. OneWriterInv => InOrder
    BY DEF OneWriterInv
  <1>. QED  BY <1>1, <1>2, OneWriterInvariance, PTL

\* The loops that test GetSize() but not the pointer rely on the counter never being
\* ahead of the indexes: with one writer that never fills the ring it is not, and no
\* null pointer is dereferenced.
THEOREM NeverDereferencesNull == ASSUME SafeUse PROVE Spec => []NoNullDereference
  <1>1. OneWriterInv => NoNullDereference
    BY DEF OneWriterInv, ReaderInv
  <1>. QED  BY <1>1, OneWriterInvariance, PTL

-----------------------------------------------------------------------------
(* The ring implements the channel.                                        *)

\* The elements c + 1, ..., c + n.
Run(c, n) == [k \in 1 .. n |-> c + k]

LEMMA RunIsSeq ==
    ASSUME NEW c \in Nat, NEW n \in Nat
    PROVE  Run(c, n) \in Seq(Nat) /\ Len(Run(c, n)) = n
  <1>1. Run(c, n) \in [1 .. n -> Nat]
    BY DEF Run
  <1>2. Run(c, n) \in Seq(Nat)
    BY <1>1
  <1>3. DOMAIN Run(c, n) = 1 .. n
    BY <1>1
  <1>. QED  BY <1>2, <1>3

LEMMA RunAppend ==
    ASSUME NEW c \in Nat, NEW n \in Nat
    PROVE  Append(Run(c, n), c + n + 1) = Run(c, n + 1)
  BY RunIsSeq DEF Run

LEMMA RunTail ==
    ASSUME NEW c \in Nat, NEW n \in Nat, n > 0
    PROVE  /\ Run(c, n) # <<>>
           /\ Head(Run(c, n)) = c + 1
           /\ Tail(Run(c, n)) = Run(c + 1, n - 1)
  <1>1. Run(c, n) \in Seq(Nat) /\ Len(Run(c, n)) = n
    BY RunIsSeq
  <1>2. Run(c, n) # <<>> /\ Head(Run(c, n)) = c + 1
    BY <1>1 DEF Run
  <1>3. /\ Tail(Run(c, n)) \in Seq(Nat) /\ Len(Tail(Run(c, n))) = n - 1
        /\ \A k \in 1 .. n - 1 : Tail(Run(c, n))[k] = Run(c, n)[k + 1]
    BY <1>1, <1>2, HeadTailProperties
  <1>4. Run(c + 1, n - 1) \in Seq(Nat) /\ Len(Run(c + 1, n - 1)) = n - 1
    BY RunIsSeq
  <1>5. \A k \in 1 .. n - 1 : Tail(Run(c, n))[k] = Run(c + 1, n - 1)[k]
    BY <1>3 DEF Run
  <1>6. Tail(Run(c, n)) = Run(c + 1, n - 1)
    BY <1>3, <1>4, <1>5, SeqEqual
  <1>. QED  BY <1>2, <1>6

\* The slots between the indexes are the elements written and not yet taken.
LEMMA PendingIsRun ==
    ASSUME SafeUse, TypeOK, OneWriterInv
    PROVE  /\ Pending = Run(consumed + Taken, Backlog - Taken)
           /\ Backlog - Taken \in Nat
           /\ Backlog \in Nat
  <1>. USE SizeAssumption, GatesAssumption DEF TypeOK, Slots
  <1>1. /\ Backlog - Taken \in Nat /\ Taken \in {0, 1}
        /\ Backlog \in Nat /\ Backlog <= N - 1
        /\ nextReadIndex \in Nat /\ consumed \in Nat
    BY DEF SafeUse, OneWriterInv, IndexInv, ReaderInv, Taken, Backlog
  <1>2. ASSUME NEW k \in 1 .. Backlog - Taken
        PROVE  store[(nextReadIndex + Taken + k - 1) % N] = consumed + Taken + k
    <2>. DEFINE a == nextReadIndex + Taken + k - 1
                i == IF a < N THEN a ELSE a - N
    <2>1. a \in Nat /\ a < 2 * N
      BY <1>1
    <2>2. a % N = i
      BY <2>1, ModuloOnce
    <2>3. i \in Slots /\ Offset(i) = Taken + k - 1
      BY <1>1, <2>1 DEF Offset
    <2>4. store[i] = consumed + Offset(i) + 1
      BY <1>1, <2>3 DEF OneWriterInv, ContentInv
    <2>. QED  BY <1>1, <2>2, <2>3, <2>4
  <1>. QED  BY <1>1, <1>2 DEF Pending, Run, Backlog

\* For every ring size, the queue with one writer and a bounded backlog is a FIFO
\* channel: sending is the store to nextWriteIndex, receiving the read of the slot.
THEOREM RingImplementsFifo == ASSUME SafeUse PROVE Spec => ImplementsFifo
  <1>. USE DEF Channel!vars
  <1>1. Init => Channel!Init
    BY DEF Init, Channel!Init, Pending, Taken
  <1>a. TypeOK /\ OneWriterInv =>
          /\ Pending = Run(consumed + Taken, Backlog - Taken)
          /\ Backlog - Taken \in Nat
    BY PendingIsRun
  <1>b. (TypeOK /\ OneWriterInv =>
          /\ Pending = Run(consumed + Taken, Backlog - Taken)
          /\ Backlog - Taken \in Nat)'
    BY <1>a, PTL
  <1>2. TypeOK /\ OneWriterInv /\ TypeOK' /\ OneWriterInv' /\ [Next]_vars
        => [Channel!Next]_(Channel!vars)
    <2>. SUFFICES ASSUME TypeOK, OneWriterInv, TypeOK', OneWriterInv', [Next]_vars
                  PROVE  [Channel!Next]_(Channel!vars)
      OBVIOUS
    <2>0. /\ Pending = Run(consumed + Taken, Backlog - Taken)
          /\ Backlog - Taken \in Nat
          /\ Pending' = Run(consumed' + Taken', Backlog' - Taken')
          /\ Backlog' - Taken' \in Nat
      BY <1>a, <1>b
    <2>. USE <2>0 DEF TypeOK, Backlog, Taken
    <2>1. ASSUME NEW p \in Producers, StoreWriteIndex(p) PROVE Channel!Send
      <3>1. /\ published' = published + 1
            /\ UNCHANGED <<item, consumed, cpc>>
        BY <2>1 DEF StoreWriteIndex, consumerVars
      <3>. DEFINE c == consumed + Taken
                  n == Backlog - Taken
      <3>2. /\ consumed' + Taken' = c /\ Backlog' - Taken' = n + 1
            /\ c + n + 1 = published + 1
            /\ c \in Nat /\ n \in Nat
        BY <3>1
      <3>3. Pending = Run(c, n) /\ Pending' = Run(c, n + 1)
        BY <3>2
      <3>4. Append(Run(c, n), published + 1) = Run(c, n + 1)
        <4>. HIDE DEF c, n
        <4>. QED  BY <3>2, RunAppend
      <3>. QED  BY <3>1, <3>3, <3>4 DEF Channel!Send
    <2>2. ASSUME NEW p \in Producers,
                 GetNextWriteTo(p) \/ Fill(p) \/ LoadWriteIndex(p) \/ Count(p)
          PROVE  UNCHANGED Channel!vars
      BY <2>2 DEF GetNextWriteTo, Fill, LoadWriteIndex, Count, consumerVars
    <2>3. CASE Read
      <3>1. /\ cpc = "reading" /\ cpc' = "held"
            /\ UNCHANGED <<consumed, published>>
        BY <2>3 DEF Read, Consumer, producerVars
      <3>2. item' = consumed + 1 /\ Backlog - Taken > 0
        BY <3>1 DEF OneWriterInv, InOrder, ReaderInv
      <3>. DEFINE n == Backlog - Taken
      <3>3. /\ n \in Nat /\ n > 0
            /\ Pending = Run(consumed, n) /\ Pending' = Run(consumed + 1, n - 1)
        BY <3>1, <3>2
      <3>4. /\ Run(consumed, n) # <<>> /\ Head(Run(consumed, n)) = consumed + 1
            /\ Tail(Run(consumed, n)) = Run(consumed + 1, n - 1)
        <4>. HIDE DEF n
        <4>. QED  BY <3>3, RunTail
      <3>5. Channel!Receive
        BY <3>1, <3>2, <3>3, <3>4 DEF Channel!Receive
      <3>. QED  BY <3>5 DEF Channel!Next
    <2>4. CASE AdvanceReadIndex
      <3>1. /\ cpc = "held" /\ cpc' = "advanced" /\ consumed' = consumed + 1
            /\ UNCHANGED <<item, published>>
        BY <2>4 DEF AdvanceReadIndex, Consumer, producerVars
      <3>2. Pending' = Pending
        BY <3>1
      <3>. QED  BY <3>1, <3>2
    <2>5. CASE GetSize \/ GetNextRead \/ DereferenceNull \/ CheckSize
      <3>1. /\ cpc # "held" /\ cpc' # "held"
            /\ UNCHANGED <<item, published, consumed>>
        BY <2>5 DEF GetSize, GetNextRead, DereferenceNull, CheckSize, Consumer,
                    producerVars
      <3>. QED  BY <3>1
    <2>6. CASE AssertAndDecrement
      <3>1. /\ cpc # "held" /\ cpc' # "held"
            /\ UNCHANGED <<item, published, consumed>>
        BY <2>6 DEF AssertAndDecrement, Consumer, producerVars
      <3>. QED  BY <3>1
    <2>7. CASE Reread
      <3>1. /\ cpc # "held" /\ cpc' # "held" /\ item' = store[slot]
            /\ cpc = "rereading" /\ UNCHANGED <<published, consumed>>
        BY <2>7 DEF Reread, Consumer, producerVars
      <3>2. item' = item
        BY <3>1 DEF OneWriterInv, ReaderInv
      <3>. QED  BY <3>1, <3>2
    <2>8. CASE UNCHANGED vars
      BY <2>8 DEF vars, producerVars, consumerVars
    <2>. QED  BY <2>1, <2>2, <2>3, <2>4, <2>5, <2>6, <2>7, <2>8
              DEF Next, Produce, Consume, Channel!Next
  <1>. QED  BY <1>1, <1>2, OneWriterInvariance, PTL
            DEF Spec, ImplementsFifo, Channel!Spec
=============================================================================
