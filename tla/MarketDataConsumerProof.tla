---------------------- MODULE MarketDataConsumerProof -----------------------
(***************************************************************************)
(* MarketDataConsumer, for every snapshot stream, batch size and length of *)
(* the incremental stream, on a network that may do anything.              *)
(***************************************************************************)
EXTENDS MarketDataConsumer, SequenceTheorems, TLAPS

\* What is on the incremental socket: updates, under their own number.
Genuine(datagram) == /\ datagram \in Seq(Message)
                     /\ \A k \in DOMAIN datagram : datagram[k] = Update(datagram[k].seq)

ConsumerInv ==
    /\ published \in Nat
    /\ sent \subseteq {d \in Seq(Message) : Genuine(d)}
    /\ inbox \in [Sockets -> Seq(Message)]
    /\ Genuine(inbox["incremental"])
    /\ handling = "snapshot" => inRecovery
    /\ snapshotQueue = EmptyMap
    /\ inRecovery \in BOOLEAN
    /\ delivered \in Seq(Message)
    /\ expected = Len(delivered) + 1
    /\ \A k \in 1 .. Len(delivered) : delivered[k] = Update(k)

\* A queue of one message never passes for a snapshot: it cannot begin with START
\* and end with END.
LEMMA OneMessageIsNoSnapshot ==
    ASSUME NEW message \in Message
    PROVE  ~IsSnapshotComplete(Put(EmptyMap, message))
  <1>. DEFINE map == Put(EmptyMap, message)
  <1>1. DOMAIN map = {message.seq}
    BY DEF Put, EmptyMap
  <1>2. FirstKey(map) = LastKey(map)
    BY <1>1 DEF FirstKey, LastKey
  <1>3. map[FirstKey(map)].type = map[LastKey(map)].type
    BY <1>2
  <1>. QED  BY <1>3 DEF IsSnapshotComplete

LEMMA NothingIsNoSnapshot == ~IsSnapshotComplete(EmptyMap)
  BY DEF IsSnapshotComplete, EmptyMap

\* In recovery, or on entering it, a message ends up in the queue of incrementals or
\* nowhere, and nothing else changes.
LEMMA QueueMessageIs ==
    ASSUME NEW socket, NEW message \in Message, NEW incremental,
           QueueMessage(socket, message, EmptyMap, incremental)
    PROVE  /\ inRecovery' = TRUE
           /\ snapshotQueue' = EmptyMap
           /\ UNCHANGED <<expected, delivered>>
           /\ incrementalQueue' \in {incremental, Put(incremental, message)}
  <1>1. (IF message.seq \in DOMAIN EmptyMap THEN EmptyMap ELSE EmptyMap) = EmptyMap
    OBVIOUS
  <1>2. CASE socket = "snapshot"
    BY <1>1, <1>2, OneMessageIsNoSnapshot DEF QueueMessage, CheckSnapshotSync
  <1>3. CASE socket # "snapshot"
    BY <1>3, NothingIsNoSnapshot DEF QueueMessage, CheckSnapshotSync
  <1>. QED  BY <1>2, <1>3

LEMMA GenuineAppend ==
    ASSUME NEW s, NEW t, Genuine(s), Genuine(t)
    PROVE  Genuine(s \o t)
  <1>1. /\ s \o t \in Seq(Message)
        /\ Len(s \o t) = Len(s) + Len(t)
        /\ \A i \in 1 .. Len(s) + Len(t) :
              (s \o t)[i] = IF i <= Len(s) THEN s[i] ELSE t[i - Len(s)]
    BY ConcatProperties DEF Genuine
  <1>2. ASSUME NEW i \in DOMAIN (s \o t)
        PROVE  (s \o t)[i] = Update((s \o t)[i].seq)
    <2>1. i \in 1 .. Len(s) + Len(t) /\ Len(s) \in Nat /\ Len(t) \in Nat
      BY <1>1, <1>2, LenProperties DEF Genuine
    <2>2. CASE i <= Len(s)
      BY <1>1, <2>1, <2>2 DEF Genuine
    <2>3. CASE i > Len(s)
      <3>1. i - Len(s) \in DOMAIN t
        BY <2>1, <2>3 DEF Genuine
      <3>. QED  BY <1>1, <2>1, <2>3, <3>1 DEF Genuine
    <2>. QED  BY <2>1, <2>2, <2>3
  <1>. QED  BY <1>1, <1>2 DEF Genuine

LEMMA GenuineTail ==
    ASSUME NEW s, Genuine(s), s # <<>>
    PROVE  Genuine(Tail(s)) /\ Head(s) = Update(Head(s).seq) /\ Head(s) \in Message
  BY HeadTailProperties DEF Genuine

LEMMA Initially == Init => ConsumerInv
  <1>. SUFFICES ASSUME Init PROVE ConsumerInv
    OBVIOUS
  <1>1. <<>> \in Seq(Message) /\ Len(<<>>) = 0 /\ Genuine(<<>>)
    BY DEF Genuine
  <1>2. inbox \in [Sockets -> Seq(Message)] /\ inbox["incremental"] = <<>>
    BY <1>1 DEF Init, Sockets
  <1>3. /\ delivered \in Seq(Message) /\ expected = Len(delivered) + 1
        /\ \A k \in 1 .. Len(delivered) : delivered[k] = Update(k)
    <2>1. delivered = <<>> /\ expected = 1
      BY DEF Init
    <2>. QED  BY <1>1, <2>1
  <1>4. /\ published \in Nat /\ sent = {} /\ handling = "none"
        /\ snapshotQueue = EmptyMap /\ inRecovery = FALSE
    BY DEF Init
  <1>. QED  BY <1>1, <1>2, <1>3, <1>4 DEF ConsumerInv

LEMMA Step == ConsumerInv /\ [Next]_vars => ConsumerInv'
  <1>. SUFFICES ASSUME ConsumerInv, [Next]_vars PROVE ConsumerInv'
    OBVIOUS
  <1>. USE DEF ConsumerInv, network, state
  <1>1. ASSUME NEW n \in 1 .. MaxBatch, Publish(n) PROVE ConsumerInv'
    <2>. DEFINE d == [k \in 1 .. n |-> Update(published + k)]
    <2>1. d \in Seq(Message) /\ n \in Nat
      <3>1. n \in Nat /\ \A k \in 1 .. n : Update(published + k) \in Message
        BY <1>1, BoundsAssumption DEF Update, Message
      <3>2. d \in [1 .. n -> Message]
        BY <3>1
      <3>. QED  BY <3>1, <3>2
    <2>2. Genuine(d)
      BY <2>1 DEF Genuine, Update
    <2>3. sent' \subseteq {e \in Seq(Message) : Genuine(e)}
      BY <1>1, <2>1, <2>2 DEF Publish
    <2>4. /\ published' \in Nat
          /\ UNCHANGED <<inbox, handling, inRecovery, snapshotQueue, delivered, expected>>
      BY <1>1, <2>1 DEF Publish
    <2>. HIDE DEF d
    <2>. QED  BY <2>3, <2>4
  <1>2. ASSUME NEW d \in sent, ReceiveIncremental(d) PROVE ConsumerInv'
    <2>1. Genuine(inbox["incremental"] \o d) /\ d \in Seq(Message)
      BY GenuineAppend
    <2>2. inbox' \in [Sockets -> Seq(Message)]
      BY <1>2, <2>1 DEF ReceiveIncremental, Receive, Sockets, Genuine
    <2>. QED  BY <1>2, <2>1, <2>2 DEF ReceiveIncremental, Receive, Sockets
  <1>3. ASSUME NEW d \in SnapshotDatagrams, ReceiveSnapshot(d) PROVE ConsumerInv'
    <2>1. inbox["snapshot"] \o d \in Seq(Message)
      BY SnapshotAssumption, ConcatProperties DEF Sockets
    <2>2. /\ inbox' \in [Sockets -> Seq(Message)]
          /\ inbox'["incremental"] = inbox["incremental"]
      BY <1>3, <2>1 DEF ReceiveSnapshot, Receive, Sockets
    <2>. QED  BY <1>3, <2>2 DEF ReceiveSnapshot, Receive
  <1>4. ASSUME NEW s \in Sockets, Handle(s)
        PROVE  /\ inbox[s] # <<>> /\ Head(inbox[s]) \in Message
               /\ inbox' \in [Sockets -> Seq(Message)]
               /\ Genuine(inbox'["incremental"])
               /\ s = "incremental" => Head(inbox[s]) = Update(Head(inbox[s]).seq)
    <2>1. inbox[s] \in Seq(Message) /\ inbox[s] # <<>>
      BY <1>4 DEF Handle, MoreToHandle
    <2>2. Head(inbox[s]) \in Message /\ Tail(inbox[s]) \in Seq(Message)
      BY <2>1, HeadTailProperties
    <2>3. inbox' = [inbox EXCEPT ![s] = Tail(inbox[s])]
      BY <1>4 DEF Handle
    <2>. QED  BY <2>1, <2>2, <2>3, GenuineTail
  <1>5. ASSUME NEW s \in Sockets, HandleInOrder(s) PROVE ConsumerInv'
    <2>. DEFINE m == Head(inbox[s])
    <2>1. /\ Handle(s) /\ ~inRecovery /\ m.seq = expected
          /\ UNCHANGED <<inRecovery, snapshotQueue>>
      BY <1>5 DEF HandleInOrder, Recovers
    <2>2. s = "incremental"
      BY <2>1 DEF Handle, Sockets
    <2>3. expected' = expected + 1 /\ delivered' = Append(delivered, m)
      BY <1>5, <2>2 DEF HandleInOrder
    <2>4. m \in Message /\ m = Update(expected)
      BY <1>4, <2>1, <2>2
    <2>. HIDE DEF m
    <2>5. /\ delivered' \in Seq(Message) /\ Len(delivered') = Len(delivered) + 1
          /\ \A k \in 1 .. Len(delivered') : delivered'[k] = Update(k)
      BY <2>3, <2>4
    <2>. QED  BY <1>4, <2>1, <2>3, <2>5 DEF Handle
  <1>6. ASSUME NEW s \in Sockets, HandleInRecovery(s) PROVE ConsumerInv'
    <2>. DEFINE m == Head(inbox[s])
    <2>1. Handle(s) /\ m \in Message
      BY <1>4, <1>6 DEF HandleInRecovery
    <2>2. \E q : QueueMessage(s, m, EmptyMap, q)
      BY <1>6 DEF HandleInRecovery
    <2>3. inRecovery' = TRUE /\ snapshotQueue' = EmptyMap /\ UNCHANGED <<expected, delivered>>
      BY <2>1, <2>2, QueueMessageIs
    <2>. QED  BY <1>4, <2>1, <2>3 DEF Handle
  <1>7. ASSUME NEW s \in Sockets, Handled(s) PROVE ConsumerInv'
    BY <1>7 DEF Handled
  <1>8. CASE UNCHANGED vars
    BY <1>8 DEF vars
  <1>. QED  BY <1>1, <1>2, <1>3, <1>5, <1>6, <1>7, <1>8 DEF Next, Callback

LEMMA Invariance == Spec => []ConsumerInv
  BY Initially, Step, PTL DEF Spec

\* On any network, the trade engine is given a prefix of the exchange's updates.
THEOREM DeliversPrefix == Spec => []DeliveredPrefix
  <1>1. ConsumerInv => DeliveredPrefix
    BY LenProperties DEF ConsumerInv, DeliveredPrefix
  <1>. QED  BY <1>1, Invariance, PTL

\* Whatever arrives on the snapshot socket, recovery never ends.
THEOREM NeverRecovers == Spec => RecoveryIsForever
  <1>1. ConsumerInv /\ [Next]_vars =>
          [inRecovery => /\ inRecovery'
                         /\ UNCHANGED <<delivered, expected>>
                         /\ DOMAIN incrementalQueue \subseteq DOMAIN incrementalQueue']_vars
    <2>. SUFFICES ASSUME ConsumerInv, Next, inRecovery
                  PROVE  /\ inRecovery'
                         /\ UNCHANGED <<delivered, expected>>
                         /\ DOMAIN incrementalQueue \subseteq DOMAIN incrementalQueue'
      OBVIOUS
    <2>. USE DEF network, state
    <2>1. ASSUME NEW s \in Sockets, HandleInRecovery(s)
          PROVE  /\ inRecovery'
                 /\ UNCHANGED <<delivered, expected>>
                 /\ DOMAIN incrementalQueue \subseteq DOMAIN incrementalQueue'
      <3>. DEFINE m == Head(inbox[s])
      <3>1. m \in Message
        <4>1. inbox[s] \in Seq(Message) /\ inbox[s] # <<>>
          BY <2>1 DEF HandleInRecovery, Handle, MoreToHandle, ConsumerInv
        <4>. QED  BY <4>1, HeadTailProperties
      <3>2. QueueMessage(s, m, EmptyMap, incrementalQueue)
        BY <2>1 DEF HandleInRecovery, ConsumerInv
      <3>3. /\ inRecovery' = TRUE /\ UNCHANGED <<expected, delivered>>
            /\ incrementalQueue' \in {incrementalQueue, Put(incrementalQueue, m)}
        BY <3>1, <3>2, QueueMessageIs
      <3>4. DOMAIN incrementalQueue \subseteq DOMAIN Put(incrementalQueue, m)
        BY DEF Put
      <3>. QED  BY <3>3, <3>4
    <2>2. ASSUME NEW s \in Sockets, HandleInOrder(s) PROVE FALSE
      BY <2>2 DEF HandleInOrder, Recovers
    <2>3. ASSUME NEW n \in 1 .. MaxBatch, Publish(n)
          PROVE  UNCHANGED state
      BY <2>3 DEF Publish
    <2>4. ASSUME NEW d, ReceiveIncremental(d) \/ ReceiveSnapshot(d)
          PROVE  UNCHANGED state
      BY <2>4 DEF ReceiveIncremental, ReceiveSnapshot, Receive
    <2>5. ASSUME NEW s \in Sockets, Handled(s) PROVE UNCHANGED state
      BY <2>5 DEF Handled
    <2>. QED  BY <2>1, <2>2, <2>3, <2>4, <2>5 DEF Next, Callback
  <1>. QED  BY <1>1, Invariance, PTL DEF Spec, RecoveryIsForever

-----------------------------------------------------------------------------
(* A perfect network                                                       *)

\* Updates that follow each other, the first under a given number.
CountsFrom(first, datagram) == \A i \in 1 .. Len(datagram) : datagram[i].seq = first + i - 1

\* What is sent at once follows each other.
DatagramsCount == \A d \in sent : d # <<>> /\ CountsFrom(d[1].seq, d)

\* The buffer holds what has been received and not delivered yet.  When no callback
\* runs, that is the last message, and once one has come there always is a last one.
BufferIsTheRest ==
    clean => /\ inRecovery = FALSE /\ received \in Nat
             /\ Len(inbox["incremental"]) = received + 1 - expected
             /\ CountsFrom(expected, inbox["incremental"])
             /\ received > 0 => inbox["incremental"] # <<>>
             /\ handling = "none" => Len(inbox["incremental"]) <= 1

CleanInv == DatagramsCount /\ BufferIsTheRest

LEMMA InitIsClean == Init => CleanInv
  <1>. SUFFICES ASSUME Init PROVE CleanInv
    OBVIOUS
  <1>1. DatagramsCount
    BY DEF Init, DatagramsCount
  <1>2. /\ inbox["incremental"] = <<>> /\ received = 0 /\ expected = 1 /\ inRecovery = FALSE
    BY DEF Init, Sockets
  <1>3. Len(inbox["incremental"]) = 0
    BY <1>2
  <1>4. BufferIsTheRest
    BY <1>2, <1>3 DEF BufferIsTheRest, CountsFrom
  <1>. QED  BY <1>1, <1>4 DEF CleanInv

LEMMA CountsOn ==
    ASSUME NEW s \in Seq(Message), NEW t \in Seq(Message), NEW first \in Nat,
           CountsFrom(first, s), CountsFrom(first + Len(s), t)
    PROVE  /\ s \o t \in Seq(Message) /\ Len(s \o t) = Len(s) + Len(t)
           /\ CountsFrom(first, s \o t)
  <1>1. /\ Len(s) \in Nat /\ Len(t) \in Nat
        /\ s \o t \in Seq(Message) /\ Len(s \o t) = Len(s) + Len(t)
        /\ \A i \in 1 .. Len(s) + Len(t) :
              (s \o t)[i] = IF i <= Len(s) THEN s[i] ELSE t[i - Len(s)]
    BY LenProperties, ConcatProperties
  <1>2. ASSUME NEW i \in 1 .. Len(s \o t) PROVE (s \o t)[i].seq = first + i - 1
    <2>1. CASE i <= Len(s)
      BY <1>1, <2>1 DEF CountsFrom
    <2>2. CASE i > Len(s)
      <3>1. i - Len(s) \in 1 .. Len(t) /\ (s \o t)[i] = t[i - Len(s)]
        BY <1>1, <2>2
      <3>. QED  BY <1>1, <3>1 DEF CountsFrom
    <2>. QED  BY <1>1, <2>1, <2>2
  <1>. QED  BY <1>1, <1>2 DEF CountsFrom

LEMMA CountsTail ==
    ASSUME NEW s \in Seq(Message), NEW first \in Nat, CountsFrom(first, s), s # <<>>
    PROVE  /\ Tail(s) \in Seq(Message) /\ Len(Tail(s)) = Len(s) - 1
           /\ Head(s).seq = first /\ CountsFrom(first + 1, Tail(s))
  <1>1. /\ Len(s) \in Nat /\ Len(s) # 0 /\ Head(s) = s[1]
        /\ Tail(s) \in Seq(Message) /\ Len(Tail(s)) = Len(s) - 1
        /\ \A i \in 1 .. Len(Tail(s)) : Tail(s)[i] = s[i + 1]
    BY LenProperties, EmptySeq, HeadTailProperties
  <1>2. Head(s).seq = first
    BY <1>1 DEF CountsFrom
  <1>3. ASSUME NEW i \in 1 .. Len(Tail(s)) PROVE Tail(s)[i].seq = first + 1 + i - 1
    <2>1. i + 1 \in 1 .. Len(s) /\ Tail(s)[i] = s[i + 1]
      BY <1>1
    <2>. QED  BY <2>1 DEF CountsFrom
  <1>. QED  BY <1>1, <1>2, <1>3 DEF CountsFrom

LEMMA StepKeepsClean == ConsumerInv /\ CleanInv /\ [Next]_vars => CleanInv'
  <1>. SUFFICES ASSUME ConsumerInv, CleanInv, [Next]_vars PROVE CleanInv'
    OBVIOUS
  <1>. PICK buffer \in Seq(Message) : buffer = inbox["incremental"]
    BY DEF ConsumerInv, Sockets
  <1>1. /\ DatagramsCount /\ Len(buffer) \in Nat
        /\ expected \in Nat /\ expected >= 1 /\ inbox \in [Sockets -> Seq(Message)]
    BY LenProperties DEF ConsumerInv, CleanInv
  <1>2. clean => /\ inRecovery = FALSE /\ received \in Nat
                 /\ Len(buffer) = received + 1 - expected
                 /\ CountsFrom(expected, buffer)
                 /\ received > 0 => buffer # <<>>
                 /\ handling = "none" => Len(buffer) <= 1
    BY DEF CleanInv, BufferIsTheRest
  <1>3. UNCHANGED sent => DatagramsCount'
    BY <1>1 DEF DatagramsCount
  <1>4. UNCHANGED <<clean, inRecovery, received, inbox, expected, handling>> => BufferIsTheRest'
    BY Zenon DEF CleanInv, BufferIsTheRest
  <1>5. ASSUME NEW n \in 1 .. MaxBatch, Publish(n) PROVE CleanInv'
    <2>. DEFINE d == [k \in 1 .. n |-> Update(published + k)]
    <2>1. n \in Nat /\ published \in Nat /\ 1 \in 1 .. n
      BY BoundsAssumption DEF ConsumerInv
    <2>2. d # <<>> /\ Len(d) = n /\ \A i \in 1 .. n : d[i].seq = published + i
      BY <2>1 DEF Update
    <2>. HIDE DEF d
    <2>3. CountsFrom(d[1].seq, d)
      BY <2>1, <2>2 DEF CountsFrom
    <2>4. sent' = sent \cup {d}
      BY <1>5 DEF Publish, d
    <2>5. DatagramsCount'
      BY <1>1, <2>2, <2>3, <2>4 DEF DatagramsCount
    <2>6. UNCHANGED <<clean, inRecovery, received, inbox, expected, handling>>
      BY <1>5 DEF Publish, state
    <2>. QED  BY <1>4, <2>5, <2>6 DEF CleanInv
  <1>6. ASSUME NEW d \in sent, ReceiveIncremental(d) PROVE CleanInv'
    <2>1. /\ d \in Seq(Message) /\ d # <<>> /\ CountsFrom(d[1].seq, d)
      BY <1>1 DEF ConsumerInv, DatagramsCount
    <2>2. /\ Len(d) \in Nat /\ Len(d) >= 1 /\ Head(d) = d[1] /\ Last(d) = d[Len(d)]
          /\ 1 \in 1 .. Len(d) /\ Len(d) \in 1 .. Len(d)
      <3>1. Len(d) \in Nat /\ Len(d) # 0 /\ Head(d) = d[1]
        BY <2>1, LenProperties, EmptySeq, HeadTailProperties
      <3>. QED  BY <3>1 DEF Last
    <2>3. /\ handling = "none" /\ handling' = "incremental"
          /\ inbox' = [inbox EXCEPT !["incremental"] = @ \o d]
          /\ UNCHANGED <<sent, inRecovery, expected>>
          /\ clean' = (clean /\ Head(d).seq = received + 1)
          /\ received' = IF clean' THEN Last(d).seq ELSE received
      BY <1>6 DEF ReceiveIncremental, Receive, state
    <2>4. inbox'["incremental"] = buffer \o d
      BY <1>1, <2>3 DEF Sockets
    <2>. SUFFICES ASSUME clean'
                  PROVE  /\ inRecovery' = FALSE /\ received' \in Nat
                         /\ Len(buffer \o d) = received' + 1 - expected
                         /\ CountsFrom(expected, buffer \o d)
                         /\ buffer \o d # <<>>
      BY <1>3, <2>3, <2>4 DEF CleanInv, BufferIsTheRest
    <2>5. clean /\ d[1].seq = received + 1
      BY <2>2, <2>3
    <2>6. received' = d[Len(d)].seq
      BY <2>2, <2>3
    <2>7. received' = received + Len(d)
      <3>1. d[Len(d)].seq = d[1].seq + Len(d) - 1
        BY <2>1, <2>2 DEF CountsFrom
      <3>2. received \in Nat
        BY <1>2, <2>5
      <3>3. received' = received + 1 + Len(d) - 1
        BY <2>5, <2>6, <3>1
      <3>. QED  BY <2>2, <3>2, <3>3
    <2>8. /\ buffer \o d \in Seq(Message) /\ Len(buffer \o d) = Len(buffer) + Len(d)
          /\ CountsFrom(expected, buffer \o d)
      <3>1. expected + Len(buffer) = d[1].seq /\ CountsFrom(expected, buffer)
        BY <1>1, <1>2, <2>5
      <3>2. expected \in Nat /\ CountsFrom(expected + Len(buffer), d) /\ d \in Seq(Message)
        BY <1>1, <2>1, <3>1
      <3>. QED  BY <3>1, <3>2, CountsOn
    <2>9. buffer \o d # <<>>
      BY <1>1, <2>2, <2>8, EmptySeq
    <2>10. inRecovery' = FALSE /\ received \in Nat /\ Len(buffer) = received + 1 - expected
      BY <1>2, <2>3, <2>5
    <2>11. received' \in Nat /\ Len(buffer \o d) = received' + 1 - expected
      BY <1>1, <2>2, <2>7, <2>8, <2>10
    <2>. QED  BY <2>8, <2>9, <2>10, <2>11
  <1>7. ASSUME NEW d \in SnapshotDatagrams, ReceiveSnapshot(d) PROVE CleanInv'
    <2>1. clean' = clean /\ inRecovery /\ UNCHANGED sent
      BY <1>7 DEF ReceiveSnapshot, Receive
    <2>2. ~clean'
      BY <1>2, <2>1
    <2>. QED  BY <1>3, <2>1, <2>2 DEF CleanInv, BufferIsTheRest
  <1>8. ASSUME NEW s \in Sockets, HandleInOrder(s) \/ HandleInRecovery(s) PROVE CleanInv'
    <2>1. /\ handling = s /\ Len(inbox[s]) > 1
          /\ inbox' = [inbox EXCEPT ![s] = Tail(@)]
          /\ UNCHANGED <<sent, received, clean, handling>>
      BY <1>8 DEF HandleInOrder, HandleInRecovery, Handle, MoreToHandle, network
    <2>. SUFFICES ASSUME clean PROVE BufferIsTheRest'
      BY <1>3, <2>1 DEF CleanInv, BufferIsTheRest
    <2>2. s = "incremental" /\ ~inRecovery
      BY <1>2, <2>1 DEF ConsumerInv, Sockets
    <2>3. /\ buffer # <<>> /\ Len(buffer) > 1
          /\ inbox'["incremental"] = Tail(buffer)
      BY <1>1, <2>1, <2>2, EmptySeq
    <2>4. PICK rest \in Seq(Message) :
            /\ rest = Tail(buffer) /\ Len(rest) = Len(buffer) - 1
            /\ Head(buffer).seq = expected /\ CountsFrom(expected + 1, rest)
      BY <1>1, <1>2, <2>3, CountsTail
    <2>5. HandleInOrder(s)
      BY <1>8, <2>2, <2>4 DEF HandleInRecovery, Recovers
    <2>6. expected' = expected + 1 /\ inRecovery' = FALSE
      BY <1>2, <2>2, <2>5 DEF HandleInOrder
    <2>7. /\ Len(rest) \in Nat /\ Len(rest) # 0 /\ Len(buffer) = received + 1 - expected
          /\ received \in Nat /\ received' = received
      <3>1. Len(buffer) = received + 1 - expected /\ received \in Nat
        BY <1>2
      <3>2. Len(rest) \in Nat /\ Len(rest) # 0
        BY <1>1, <2>3, <2>4
      <3>. QED  BY <2>1, <3>1, <3>2
    <2>8. rest # <<>>
      BY <2>7, EmptySeq
    <2>9. handling' # "none" /\ inbox'["incremental"] = rest
      BY <2>1, <2>2, <2>3, <2>4
    <2>10. received' \in Nat /\ Len(rest) = received' + 1 - expected'
      BY <1>1, <2>4, <2>6, <2>7
    <2>11. CountsFrom(expected', rest)
      BY <2>4, <2>6
    <2>. QED  BY <2>6, <2>8, <2>9, <2>10, <2>11 DEF BufferIsTheRest, CountsFrom
  <1>9. ASSUME NEW s \in Sockets, Handled(s) PROVE CleanInv'
    <2>1. handling = s /\ Len(inbox[s]) <= 1
          /\ UNCHANGED <<sent, received, clean, inbox, inRecovery, expected>>
      <3>1. inbox[s] \in Seq(Message)
        BY <1>1
      <3>2. Len(inbox[s]) \in Nat /\ ~(Len(inbox[s]) > 1)
        BY <1>9, <3>1, LenProperties DEF Handled, MoreToHandle
      <3>. QED  BY <1>9, <3>2 DEF Handled, network, state
    <2>. SUFFICES ASSUME clean PROVE BufferIsTheRest'
      BY <1>3, <2>1 DEF CleanInv, BufferIsTheRest
    <2>2. s = "incremental"
      BY <1>2, <2>1 DEF ConsumerInv, Sockets
    <2>. QED  BY <1>2, <2>1, <2>2 DEF BufferIsTheRest
  <1>10. CASE UNCHANGED vars
    BY <1>3, <1>4, <1>10 DEF CleanInv, vars, network, state
  <1>. QED  BY <1>5, <1>6, <1>7, <1>8, <1>9, <1>10 DEF Next, Callback

\* While the network has been perfect the consumer has never recovered, and between
\* callbacks it is one update behind, whatever the sizes of the datagrams.
THEOREM StaysOneBehind == Spec => []OneBehind
  <1>1. ConsumerInv /\ CleanInv => OneBehind
    <2>. SUFFICES ASSUME ConsumerInv, CleanInv, clean
                  PROVE  ~inRecovery /\ (handling = "none" /\ received > 0 => Len(delivered) = received - 1)
      BY DEF OneBehind
    <2>1. inbox["incremental"] \in Seq(Message) /\ Len(delivered) \in Nat /\ expected = Len(delivered) + 1
      BY LenProperties DEF ConsumerInv, Sockets
    <2>2. Len(inbox["incremental"]) \in Nat /\ (inbox["incremental"] # <<>> => Len(inbox["incremental"]) # 0)
      BY <2>1, LenProperties, EmptySeq
    <2>. QED  BY <2>1, <2>2 DEF CleanInv, BufferIsTheRest
  <1>2. Spec => []CleanInv
    BY InitIsClean, StepKeepsClean, Invariance, PTL DEF Spec
  <1>. QED  BY <1>1, <1>2, Invariance, PTL

-----------------------------------------------------------------------------
(* What has been published.                                                *)

Published(message) == message.seq \in 1 .. published

\* Whatever is on its way, has been received or delivered was published before.
SentInv ==
    /\ published \in 0 .. MaxSeq /\ received \in 0 .. published
    /\ expected \in 1 .. published + 1
    /\ clean \in BOOLEAN /\ handling \in Sockets \cup {"none"}
    /\ \A d \in sent : d # <<>> /\ \A k \in 1 .. Len(d) : Published(d[k])
    /\ \A k \in 1 .. Len(inbox["incremental"]) : Published(inbox["incremental"][k])
    /\ DOMAIN incrementalQueue \subseteq Nat

\* The n updates that follow number first, sent at once.
Datagram(first, n) == [k \in 1 .. n |-> Update(first + k)]

LEMMA DatagramIs ==
    ASSUME NEW first \in Nat, NEW n \in Nat, n >= 1
    PROVE  /\ Datagram(first, n) # <<>> /\ Len(Datagram(first, n)) = n
           /\ \A k \in 1 .. n : Datagram(first, n)[k].seq = first + k
  <1>. DEFINE d == Datagram(first, n)
  <1>. USE DEF Datagram
  <1>1. DOMAIN d = 1 .. n /\ 1 \in 1 .. n
    OBVIOUS
  <1>2. d # <<>>
    BY <1>1
  <1>3. \A k \in 1 .. n : d[k].seq = first + k
    BY DEF Update
  <1>4. Len(d) = n
    BY DEF Update
  <1>. QED  BY <1>2, <1>3, <1>4

LEMMA InitIsSent == Init => SentInv
  <1>. SUFFICES ASSUME Init PROVE SentInv
    OBVIOUS
  <1>1. /\ inbox["incremental"] = <<>> /\ received = 0 /\ expected = 1 /\ published = 0
        /\ sent = {} /\ clean = TRUE /\ handling = "none" /\ DOMAIN incrementalQueue = {}
    BY DEF Init, Sockets, EmptyMap
  <1>2. Len(inbox["incremental"]) = 0
    BY <1>1
  <1>3. published \in 0 .. MaxSeq /\ received \in 0 .. published /\ expected \in 1 .. published + 1
    BY <1>1, BoundsAssumption
  <1>. QED  BY <1>1, <1>2, <1>3 DEF SentInv

LEMMA StepKeepsSent == ConsumerInv /\ SentInv /\ [Next]_vars => SentInv'
  <1>. SUFFICES ASSUME ConsumerInv, SentInv, [Next]_vars PROVE SentInv'
    OBVIOUS
  <1>. PICK buffer \in Seq(Message) : buffer = inbox["incremental"]
    BY DEF ConsumerInv, Sockets
  <1>1. /\ published \in 0 .. MaxSeq /\ received \in 0 .. published /\ expected \in 1 .. published + 1
        /\ \A d \in sent : d # <<>> /\ \A k \in 1 .. Len(d) : d[k].seq \in 1 .. published
        /\ \A k \in 1 .. Len(buffer) : buffer[k].seq \in 1 .. published
        /\ inbox \in [Sockets -> Seq(Message)] /\ Len(buffer) \in Nat /\ MaxSeq \in Nat
    BY BoundsAssumption, LenProperties DEF ConsumerInv, SentInv, Published
  <1>2. clean \in BOOLEAN /\ handling \in Sockets \cup {"none"} /\ DOMAIN incrementalQueue \subseteq Nat
    BY DEF SentInv
  <1>3. UNCHANGED <<sent, published>> =>
           \A d \in sent' : d # <<>> /\ \A k \in 1 .. Len(d) : Published(d[k])'
    BY <1>1 DEF Published
  <1>4. UNCHANGED <<inbox, published>> =>
           \A k \in 1 .. Len(inbox'["incremental"]) : Published(inbox["incremental"][k])'
    BY <1>1 DEF Published
  <1>5. ASSUME NEW n \in 1 .. MaxBatch, Publish(n) PROVE SentInv'
    <2>0. PICK d : d = Datagram(published, n)
      OBVIOUS
    <2>1. /\ n \in Nat /\ n >= 1 /\ published' = published + n /\ published' <= MaxSeq
          /\ UNCHANGED <<received, expected, inbox, clean, handling, incrementalQueue>>
      BY <1>5, BoundsAssumption DEF Publish, state
    <2>2. d # <<>> /\ Len(d) = n /\ \A k \in 1 .. n : d[k].seq = published + k
      <3>1. n \in Nat /\ n >= 1 /\ published \in Nat
        BY <1>1, <2>1
      <3>. QED  BY <2>0, <3>1, DatagramIs
    <2>3. sent' = sent \cup {d}
      BY <1>5, <2>0 DEF Publish, Datagram
    <2>4. /\ published' \in 0 .. MaxSeq /\ received' \in 0 .. published'
          /\ expected' \in 1 .. published' + 1
          /\ \A i : i \in 1 .. published => i \in 1 .. published'
      BY <1>1, <2>1
    <2>5. \A e \in sent' : e # <<>> /\ \A k \in 1 .. Len(e) : Published(e[k])'
      <3>1. \A k \in 1 .. n : published + k \in 1 .. published'
        BY <1>1, <2>1
      <3>2. ASSUME NEW e \in sent PROVE e # <<>> /\ \A k \in 1 .. Len(e) : Published(e[k])'
        BY <1>1, <2>4, <3>2 DEF Published
      <3>3. d # <<>> /\ \A k \in 1 .. Len(d) : Published(d[k])'
        BY <2>2, <3>1 DEF Published
      <3>. QED  BY <2>3, <3>2, <3>3
    <2>6. \A k \in 1 .. Len(inbox'["incremental"]) : Published(inbox["incremental"][k])'
      BY <1>1, <2>1, <2>4 DEF Published
    <2>. QED  BY <1>2, <2>1, <2>4, <2>5, <2>6 DEF SentInv
  <1>6. ASSUME NEW d \in sent, ReceiveIncremental(d) PROVE SentInv'
    <2>1. /\ d \in Seq(Message) /\ d # <<>> /\ \A k \in 1 .. Len(d) : d[k].seq \in 1 .. published
      BY <1>1 DEF ConsumerInv
    <2>2. Len(d) \in 1 .. Len(d) /\ Last(d) = d[Len(d)] /\ Len(d) \in Nat
      <3>1. Len(d) \in Nat /\ Len(d) # 0
        BY <2>1, LenProperties, EmptySeq
      <3>. QED  BY <3>1 DEF Last
    <2>3. /\ inbox' = [inbox EXCEPT !["incremental"] = @ \o d]
          /\ UNCHANGED <<published, sent, expected, incrementalQueue>>
          /\ handling' = "incremental" /\ clean' \in BOOLEAN
          /\ received' \in {Last(d).seq, received}
      BY <1>6, <1>2 DEF ReceiveIncremental, Receive, state
    <2>4. received' \in 0 .. published'
      BY <1>1, <2>1, <2>2, <2>3
    <2>5. inbox'["incremental"] = buffer \o d
      BY <1>1, <2>3 DEF Sockets
    <2>6. \A k \in 1 .. Len(buffer \o d) : (buffer \o d)[k].seq \in 1 .. published
      <3>1. /\ Len(buffer \o d) = Len(buffer) + Len(d)
            /\ \A i \in 1 .. Len(buffer) + Len(d) :
                  (buffer \o d)[i] = IF i <= Len(buffer) THEN buffer[i] ELSE d[i - Len(buffer)]
        BY <2>1, ConcatProperties
      <3>2. ASSUME NEW i \in 1 .. Len(buffer) + Len(d) PROVE (buffer \o d)[i].seq \in 1 .. published
        <4>1. CASE i <= Len(buffer)
          BY <1>1, <2>2, <3>1, <4>1
        <4>2. CASE i > Len(buffer)
          <5>1. i - Len(buffer) \in 1 .. Len(d) /\ (buffer \o d)[i] = d[i - Len(buffer)]
            BY <1>1, <2>2, <3>1, <4>2
          <5>. QED  BY <2>1, <5>1
        <4>. QED  BY <1>1, <2>2, <4>1, <4>2
      <3>. QED  BY <3>1, <3>2
    <2>7. \A k \in 1 .. Len(inbox'["incremental"]) : Published(inbox["incremental"][k])'
      BY <2>3, <2>5, <2>6 DEF Published
    <2>8. published' \in 0 .. MaxSeq /\ expected' \in 1 .. published' + 1
      BY <1>1, <2>3
    <2>. QED  BY <1>2, <1>3, <2>3, <2>4, <2>7, <2>8 DEF SentInv, Sockets
  <1>7. ASSUME NEW d \in SnapshotDatagrams, ReceiveSnapshot(d) PROVE SentInv'
    <2>1. /\ inbox' = [inbox EXCEPT !["snapshot"] = @ \o d] /\ handling' = "snapshot"
          /\ UNCHANGED <<published, sent, expected, incrementalQueue, received, clean>>
      BY <1>7 DEF ReceiveSnapshot, Receive, state
    <2>2. inbox'["incremental"] = inbox["incremental"]
      BY <1>1, <2>1 DEF Sockets
    <2>. QED  BY <1>3, <2>1, <2>2 DEF SentInv, Published, Sockets
  <1>8. ASSUME NEW s \in Sockets, Handle(s)
        PROVE  /\ buffer # <<>> \/ s # "incremental"
               /\ \A k \in 1 .. Len(inbox'["incremental"]) : Published(inbox["incremental"][k])'
               /\ UNCHANGED <<published, sent, received, clean, handling>>
    <2>1. /\ inbox' = [inbox EXCEPT ![s] = Tail(@)] /\ Len(inbox[s]) > 1
          /\ UNCHANGED <<published, sent, received, clean, handling>>
      BY <1>8 DEF Handle, MoreToHandle, network
    <2>2. CASE s # "incremental"
      BY <1>1, <2>1, <2>2 DEF Published, Sockets
    <2>3. CASE s = "incremental"
      <3>1. buffer # <<>> /\ inbox'["incremental"] = Tail(buffer)
        BY <1>1, <2>1, <2>3, EmptySeq
      <3>2. /\ Len(Tail(buffer)) = Len(buffer) - 1
            /\ \A i \in 1 .. Len(Tail(buffer)) : Tail(buffer)[i] = buffer[i + 1]
        BY <3>1, HeadTailProperties
      <3>3. \A i \in 1 .. Len(Tail(buffer)) : Tail(buffer)[i].seq \in 1 .. published
        BY <1>1, <3>2
      <3>. QED  BY <2>1, <3>1, <3>3 DEF Published
    <2>. QED  BY <2>2, <2>3
  <1>9. ASSUME NEW s \in Sockets, HandleInOrder(s) PROVE SentInv'
    <2>1. Handle(s) /\ UNCHANGED incrementalQueue
      BY <1>9 DEF HandleInOrder
    <2>2. s = "incremental" => buffer # <<>>
      BY <1>8, <2>1
    <2>3. s = "incremental" => expected \in 1 .. published
      <3>. SUFFICES ASSUME s = "incremental" PROVE expected \in 1 .. published
        OBVIOUS
      <3>1. Head(buffer) = buffer[1] /\ 1 \in 1 .. Len(buffer)
        BY <1>1, <2>2, EmptySeq, HeadTailProperties
      <3>2. Head(buffer).seq = expected
        BY <1>9 DEF HandleInOrder, Recovers
      <3>. QED  BY <1>1, <3>1, <3>2
    <2>4. expected' = expected + (IF s = "incremental" THEN 1 ELSE 0)
      BY <1>9 DEF HandleInOrder
    <2>5. UNCHANGED <<published, sent, received, clean, handling>>
      BY <1>8, <2>1
    <2>6. /\ published' \in 0 .. MaxSeq /\ received' \in 0 .. published'
          /\ expected' \in 1 .. published' + 1
      BY <1>1, <2>3, <2>4, <2>5
    <2>. QED  BY <1>2, <1>3, <1>8, <2>1, <2>5, <2>6 DEF SentInv
  <1>10. ASSUME NEW s \in Sockets, HandleInRecovery(s) PROVE SentInv'
    <2>. DEFINE m == Head(inbox[s])
    <2>1. Handle(s)
      BY <1>10 DEF HandleInRecovery
    <2>2. m \in Message
      <3>1. inbox[s] \in Seq(Message) /\ inbox[s] # <<>>
        BY <2>1 DEF Handle, MoreToHandle, ConsumerInv
      <3>. QED  BY <3>1, HeadTailProperties
    <2>3. QueueMessage(s, m, EmptyMap, incrementalQueue) \/ QueueMessage(s, m, EmptyMap, EmptyMap)
      BY <1>10 DEF HandleInRecovery, ConsumerInv
    <2>. HIDE DEF m
    <2>4. PICK map \in {incrementalQueue, EmptyMap} :
            UNCHANGED expected /\ incrementalQueue' \in {map, Put(map, m)}
      BY <2>2, <2>3, QueueMessageIs
    <2>5. DOMAIN map \subseteq Nat /\ m.seq \in Nat
      BY <1>2, <2>2 DEF EmptyMap, Message
    <2>6. DOMAIN incrementalQueue' \subseteq Nat
      BY <2>4, <2>5 DEF Put
    <2>7. UNCHANGED <<published, sent, received, clean, handling>>
      BY <1>8, <2>1
    <2>8. /\ published' \in 0 .. MaxSeq /\ received' \in 0 .. published'
          /\ expected' \in 1 .. published' + 1
      BY <1>1, <2>4, <2>7
    <2>. QED  BY <1>2, <1>3, <1>8, <2>1, <2>6, <2>7, <2>8 DEF SentInv
  <1>11. ASSUME NEW s \in Sockets, Handled(s) PROVE SentInv'
    <2>1. /\ handling' = "none"
          /\ UNCHANGED <<published, sent, received, clean, inbox, expected, incrementalQueue>>
      BY <1>11 DEF Handled, network, state
    <2>. QED  BY <1>1, <1>2, <1>3, <1>4, <2>1 DEF SentInv
  <1>12. CASE UNCHANGED vars
    <2>1. UNCHANGED <<published, sent, received, clean, inbox, expected, incrementalQueue, handling>>
      BY <1>12 DEF vars, network, state
    <2>. QED  BY <1>1, <1>2, <1>3, <1>4, <2>1 DEF SentInv
  <1>. QED  BY <1>5, <1>6, <1>7, <1>9, <1>10, <1>11, <1>12 DEF Next, Callback

\* The types of the consumer's state, and with them that no update is delivered or
\* expected, but for the next, that the exchange has not published.
THEOREM ConsumerTypeCorrect == Spec => []TypeOK
  <1>1. ConsumerInv /\ SentInv => TypeOK
    <2>. SUFFICES ASSUME ConsumerInv, SentInv PROVE TypeOK
      OBVIOUS
    <2>1. DOMAIN snapshotQueue \subseteq Nat
      BY DEF ConsumerInv, EmptyMap
    <2>. QED  BY <2>1 DEF ConsumerInv, SentInv, TypeOK
  <1>2. Spec => []SentInv
    BY InitIsSent, StepKeepsSent, Invariance, PTL DEF Spec
  <1>. QED  BY <1>1, <1>2, Invariance, PTL
=============================================================================
