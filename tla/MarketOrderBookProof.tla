------------------------ MODULE MarketOrderBookProof ------------------------
(***************************************************************************)
(* MarketOrderBook, for every number of ids and levels, all prices and any    *)
(* length of the stream.  The argument: the circle of a level is never       *)
(* closed, so no level gets a second order, and the sum over a best level    *)
(* never ends with a number.                                                 *)
(***************************************************************************)
EXTENDS MarketOrderBook, SequenceTheorems, TLAPS

\* An order is the first of its level, and its links are null.
OneOrderALevel ==
    \A o \in DOMAIN orders :
        /\ orders[o].prev = None /\ orders[o].next = None
        /\ GetOrdersAtPrice(orders[o].price) =
              [side |-> orders[o].side, price |-> orders[o].price, first |-> o]

LevelsLeadToOrders ==
    \A i \in Index :
        \/ levelAt[i] \in {NoLevel, Uninitialised, Freed}
        \/ /\ levelAt[i].first \in DOMAIN orders
           /\ PriceToIndex(orders[levelAt[i].first].price) = i

RingsHoldLevels ==
    \A side \in Sides :
        /\ \A k \in DOMAIN ring[side] : levelAt[ring[side][k]].side = side
        /\ \A i \in Index : levelAt[i].side = side => \E k \in DOMAIN ring[side] : ring[side][k] = i

ClearedAreFreed == \A i \in cleared : levelAt[i] = Freed

IdsAreOld == \A o \in DOMAIN orders : o <= lastId

\* While the process lives: the updates say what the book holds, and the head of a side
\* is its worst price.
MarketIsBook ==
    /\ DOMAIN market = DOMAIN orders
    /\ \A o \in DOMAIN orders :
          market[o] = Update(o, orders[o].side, orders[o].price, orders[o].quantity)

HeadsAreWorst ==
    \A side \in Sides : \A i \in Index :
        /\ ring[side] # <<>> /\ levelAt[i].side = side /\ i # Head(ring[side])
        => GoesBefore(side, HeadPrice(side), levelAt[i].price)

Shape == OneOrderALevel /\ LevelsLeadToOrders /\ RingsHoldLevels /\ ClearedAreFreed

BookInv == /\ TypeOK /\ Shape /\ IdsAreOld /\ NoPriceIsReported
           /\ halted = "no" => MarketIsBook /\ HeadsAreWorst /\ EachNewPriceIsWorse

LEMMA IndexOfPrice == ASSUME NEW price \in Nat PROVE PriceToIndex(price) \in Index
  BY SizesAssumption DEF PriceToIndex, Index

HoldsMore(longer, seq, pos, e) ==
    /\ longer # <<>>
    /\ \A k \in DOMAIN longer : longer[k] = e \/ \E j \in DOMAIN seq : longer[k] = seq[j]
    /\ \A j \in DOMAIN seq : \E k \in DOMAIN longer : longer[k] = seq[j]
    /\ \E k \in DOMAIN longer : longer[k] = e
    /\ pos = 1 => Head(longer) = e

\* InsertAt holds what the sequence held, and the new element.
LEMMA Inserted ==
    ASSUME NEW S, NEW seq \in Seq(S), NEW pos \in 1 .. Len(seq) + 1, NEW e \in S
    PROVE  InsertAt(seq, pos, e) \in Seq(S) /\ HoldsMore(InsertAt(seq, pos, e), seq, pos, e)
  <1>. DEFINE front == SubSeq(seq, 1, pos - 1)
              back  == SubSeq(seq, pos, Len(seq))
              n == Len(seq)
  <1>0. n \in Nat /\ DOMAIN seq = 1 .. n
    BY LenProperties
  <1>1. /\ front \in Seq(S) /\ Len(front) = pos - 1
        /\ \A j \in 1 .. pos - 1 : front[j] = seq[j]
    BY <1>0, SubSeqProperties
  <1>2. /\ back \in Seq(S) /\ Len(back) = n - pos + 1
        /\ \A j \in 1 .. n - pos + 1 : back[j] = seq[pos + j - 1]
    BY <1>0, SubSeqProperties
  <1>. DEFINE most == front \o <<e>>
              longer == InsertAt(seq, pos, e)
  <1>. HIDE DEF front, back, n
  <1>3. /\ most \in Seq(S) /\ Len(most) = pos
        /\ \A j \in 1 .. pos : most[j] = IF j < pos THEN seq[j] ELSE e
    BY <1>1
  <1>4. longer = most \o back
    BY DEF InsertAt, most, front, back
  <1>. HIDE DEF most, longer
  <1>5. /\ longer \in Seq(S) /\ Len(longer) = n + 1
        /\ \A j \in 1 .. n + 1 : longer[j] = IF j <= pos THEN most[j] ELSE back[j - pos]
    BY <1>0, <1>2, <1>3, <1>4
  <1>6. /\ DOMAIN longer = 1 .. n + 1
        /\ \A j \in 1 .. n + 1 :
              longer[j] = IF j < pos THEN seq[j] ELSE IF j = pos THEN e ELSE seq[j - 1]
    <2>1. DOMAIN longer = 1 .. n + 1
      BY <1>5, LenProperties
    <2>2. ASSUME NEW j \in 1 .. n + 1, j > pos PROVE longer[j] = seq[j - 1]
      <3>1. j - pos \in 1 .. n - pos + 1 /\ pos + (j - pos) - 1 = j - 1 /\ ~(j <= pos)
        BY <1>0, <2>2 DEF n
      <3>2. longer[j] = back[j - pos]
        BY <1>5, <2>2, <3>1
      <3>3. back[j - pos] = seq[pos + (j - pos) - 1]
        BY <1>2, <3>1
      <3>. QED  BY <3>1, <3>2, <3>3
    <2>3. ASSUME NEW j \in 1 .. n + 1, j <= pos
          PROVE  longer[j] = IF j < pos THEN seq[j] ELSE e
      BY <1>0, <1>3, <1>5, <2>3 DEF n
    <2>. QED  BY <1>0, <2>1, <2>2, <2>3 DEF n
  <1>7. ASSUME NEW k \in DOMAIN longer
        PROVE  longer[k] = e \/ \E j \in DOMAIN seq : longer[k] = seq[j]
    <2>1. k \in 1 .. n + 1
      BY <1>6
    <2>2. CASE k < pos
      <3>1. k \in DOMAIN seq
        BY <1>0, <2>1, <2>2 DEF n
      <3>. QED  BY <1>6, <2>1, <2>2, <3>1
    <2>3. CASE k = pos
      BY <1>6, <2>1, <2>3
    <2>4. CASE k > pos
      <3>1. k - 1 \in DOMAIN seq
        BY <1>0, <2>1, <2>4 DEF n
      <3>. QED  BY <1>0, <1>6, <2>1, <2>4, <3>1 DEF n
    <2>. QED  BY <1>0, <2>1, <2>2, <2>3, <2>4 DEF n
  <1>8. ASSUME NEW j \in DOMAIN seq
        PROVE  \E k \in DOMAIN longer : longer[k] = seq[j]
    <2>1. j \in 1 .. n
      BY <1>0
    <2>2. CASE j < pos
      BY <1>0, <1>6, <2>1, <2>2 DEF n
    <2>3. CASE j >= pos
      <3>1. j + 1 \in DOMAIN longer /\ (j + 1) - 1 = j /\ ~(j + 1 < pos) /\ j + 1 # pos
        BY <1>0, <1>6, <2>1, <2>3 DEF n
      <3>. QED  BY <1>6, <3>1
    <2>. QED  BY <1>0, <2>1, <2>2, <2>3 DEF n
  <1>9. pos \in DOMAIN longer /\ longer[pos] = e
    BY <1>0, <1>6 DEF n
  <1>10. longer # <<>>
    BY <1>0, <1>5
  <1>11. pos = 1 => Head(longer) = e
    BY <1>0, <1>5, <1>9, <1>10
  <1>. QED  BY <1>5, <1>7, <1>8, <1>9, <1>10, <1>11 DEF longer, HoldsMore

\* Removing the only element leaves nothing.
LEMMA RemovedOnly ==
    ASSUME NEW S, NEW seq \in Seq(S), Len(seq) = 1, NEW place \in DOMAIN seq
    PROVE  RemoveAt(seq, place) = <<>>
  <1>1. place = 1
    BY LenProperties
  <1>2. SubSeq(seq, 1, 0) = <<>> /\ SubSeq(seq, 2, 1) = <<>>
    BY SubSeqProperties, EmptySeq
  <1>. QED  BY <1>1, <1>2, EmptySeq, ConcatEmptySeq DEF RemoveAt

-----------------------------------------------------------------------------
(* ADD                                                                     *)

BookTyped == /\ \A o \in DOMAIN orders : o \in Nat /\ orders[o] \in Order
             /\ levelAt \in [Index -> Level]
             /\ ring \in [Sides -> Seq(Index)]

IsUpdate(u) == u.side \in Sides /\ u.price \in Nat /\ u.quantity \in Nat

\* A level of a side leads to an order, which is the only one of it.
LEMMA LevelIsOrder ==
    ASSUME Shape, NEW i \in Index, levelAt[i] \notin {NoLevel, Uninitialised, Freed}
    PROVE  /\ levelAt[i].first \in DOMAIN orders
           /\ PriceToIndex(orders[levelAt[i].first].price) = i
           /\ orders[levelAt[i].first].prev = None /\ orders[levelAt[i].first].next = None
           /\ levelAt[i] = [side |-> orders[levelAt[i].first].side,
                            price |-> orders[levelAt[i].first].price,
                            first |-> levelAt[i].first]
  <1>1. levelAt[i].first \in DOMAIN orders /\ PriceToIndex(orders[levelAt[i].first].price) = i
    BY DEF Shape, LevelsLeadToOrders
  <1>. QED  BY <1>1, Zenon DEF Shape, OneOrderALevel, GetOrdersAtPrice

\* So an order that is added without a fault is the first of its level.
LEMMA AddedIsFirst ==
    ASSUME BookTyped, Shape, NEW u, IsUpdate(u), AddOrder(u)
    PROVE  /\ GetOrdersAtPrice(u.price) \in {NoLevel, Uninitialised}
           /\ orders' = [o \in DOMAIN orders \cup {u.id} |->
                           IF o = u.id THEN NewOrder(u) ELSE orders[o]]
           /\ levelAt' = [levelAt EXCEPT ![PriceToIndex(u.price)] =
                            [side |-> u.side, price |-> u.price, first |-> u.id]]
           /\ InsertLevel(u.side, u.price)
  <1>1. PriceToIndex(u.price) \in Index
    BY IndexOfPrice DEF IsUpdate
  <1>2. CASE GetOrdersAtPrice(u.price) \notin {NoLevel, Uninitialised}
    <2>1. ~LinksToNull(GetOrdersAtPrice(u.price))
      BY <1>2, Zenon DEF AddOrder
    <2>2. levelAt[PriceToIndex(u.price)] \notin {NoLevel, Uninitialised, Freed}
      BY <1>2, <2>1 DEF LinksToNull, GetOrdersAtPrice
    <2> DEFINE o == levelAt[PriceToIndex(u.price)].first
    <2>3. /\ o \in DOMAIN orders /\ orders[o].prev = None
          /\ levelAt[PriceToIndex(u.price)] =
                [side |-> orders[o].side, price |-> orders[o].price, first |-> o]
      BY <1>1, <2>2, LevelIsOrder
    <2>4. orders[o].side \in Sides
      BY <2>3 DEF BookTyped, Order
    <2>5. levelAt[PriceToIndex(u.price)].side \in Sides
      BY <2>3, <2>4
    <2>6. ~(levelAt[PriceToIndex(u.price)].side \in Sides /\ orders[o].prev = None)
      BY <2>1, Zenon DEF LinksToNull, GetOrdersAtPrice
    <2>. QED  BY <2>3, <2>5, <2>6, Zenon
  <1>. QED  BY <1>2, ZenonT(30) DEF AddOrder

\* What InsertLevel makes of the circle of a side; a price that goes before the first
\* level becomes the head.
LEMMA LevelIsInserted ==
    ASSUME BookTyped, NEW side \in Sides, NEW price \in Nat, InsertLevel(side, price)
    PROVE  /\ ring' \in [Sides -> Seq(Index)]
           /\ \A s \in Sides \ {side} : ring'[s] = ring[s]
           /\ ring'[side] # <<>>
           /\ \A k \in DOMAIN ring'[side] :
                 \/ ring'[side][k] = PriceToIndex(price)
                 \/ \E j \in DOMAIN ring[side] : ring'[side][k] = ring[side][j]
           /\ \A j \in DOMAIN ring[side] : \E k \in DOMAIN ring'[side] : ring'[side][k] = ring[side][j]
           /\ \E k \in DOMAIN ring'[side] : ring'[side][k] = PriceToIndex(price)
           /\ ring[side] = <<>> \/ GoesBefore(side, price, HeadPrice(side)) =>
                 Head(ring'[side]) = PriceToIndex(price)
  <1>1. PICK pos \in 1 .. Len(ring[side]) + 1 :
            /\ \A k \in 1 .. pos - 1 : ~GoesBefore(side, price, levelAt[ring[side][k]].price)
            /\ ring' = [ring EXCEPT ![side] = InsertAt(@, pos, PriceToIndex(price))]
    BY Zenon DEF InsertLevel
  <1>. DEFINE seq == ring[side]
              index == PriceToIndex(price)
              longer == InsertAt(seq, pos, index)
  <1>2. seq \in Seq(Index) /\ index \in Index /\ Len(seq) \in Nat
    BY IndexOfPrice, LenProperties DEF BookTyped
  <1>3. ring'[side] = longer /\ \A s \in Sides \ {side} : ring'[s] = ring[s]
    BY <1>1 DEF BookTyped
  <1>4. /\ longer \in Seq(Index) /\ longer # <<>>
        /\ \A k \in DOMAIN longer : longer[k] = index \/ \E j \in DOMAIN seq : longer[k] = seq[j]
        /\ \A j \in DOMAIN seq : \E k \in DOMAIN longer : longer[k] = seq[j]
        /\ \E k \in DOMAIN longer : longer[k] = index
        /\ pos = 1 => Head(longer) = index
    <2>1. pos \in 1 .. Len(seq) + 1
      BY <1>1
    <2>. HIDE DEF seq, index
    <2>2. longer \in Seq(Index) /\ HoldsMore(longer, seq, pos, index)
      BY <1>2, <2>1, Inserted
    <2>. QED  BY <2>2, Zenon DEF HoldsMore
  <1>5. ASSUME seq = <<>> \/ GoesBefore(side, price, HeadPrice(side))
        PROVE  pos = 1
    <2>1. CASE seq = <<>>
      BY <1>1, <2>1, EmptySeq
    <2>2. CASE seq # <<>> /\ pos # 1
      <3>1. 1 \in 1 .. pos - 1 /\ seq[1] = Head(seq)
        BY <1>1, <1>2, <2>2
      <3>2. ~GoesBefore(side, price, levelAt[seq[1]].price)
        BY <1>1, <3>1
      <3>. QED  BY <1>5, <2>2, <3>1, <3>2 DEF HeadPrice
    <2>. QED  BY <2>1, <2>2
  <1>6. ring' \in [Sides -> Seq(Index)]
    BY <1>1, <1>4 DEF BookTyped
  <1>. HIDE DEF longer, index
  <1>. QED  BY <1>3, <1>4, <1>5, <1>6 DEF index

\* An addition keeps the shape of the book, also the one that kills the process
\* after it.
LEMMA AddKeepsShape ==
    ASSUME BookTyped, Shape, IdsAreOld, lastId \in Int, cleared \subseteq Index,
           NEW u, IsUpdate(u), u.id \in Nat, u.id > lastId, AddOrder(u), cleared' = cleared
    PROVE  BookTyped' /\ Shape'
  <1>. DEFINE index == PriceToIndex(u.price)
              with == [side |-> u.side, price |-> u.price, first |-> u.id]
  <1>1. index \in Index /\ levelAt[index] \in {NoLevel, Uninitialised}
    BY IndexOfPrice, AddedIsFirst DEF IsUpdate, GetOrdersAtPrice
  <1>2. orders' = [o \in DOMAIN orders \cup {u.id} |-> IF o = u.id THEN NewOrder(u) ELSE orders[o]]
    BY AddedIsFirst
  <1>3. /\ levelAt' = [levelAt EXCEPT ![index] = with]
        /\ levelAt'[index] = with
        /\ \A i \in Index \ {index} : levelAt'[i] = levelAt[i]
    <2>1. levelAt' = [levelAt EXCEPT ![index] = with]
      BY AddedIsFirst
    <2>. HIDE DEF index, with
    <2>. QED  BY <1>1, <2>1 DEF BookTyped
  <1>4. InsertLevel(u.side, u.price)
    BY AddedIsFirst
  <1>5. u.id \notin DOMAIN orders
    BY DEF IdsAreOld, BookTyped
  <1>6. \A o \in DOMAIN orders : PriceToIndex(orders[o].price) \in Index /\ PriceToIndex(orders[o].price) # index
    <2>. SUFFICES ASSUME NEW o \in DOMAIN orders
                  PROVE  PriceToIndex(orders[o].price) \in Index /\ PriceToIndex(orders[o].price) # index
      OBVIOUS
    <2>1. orders[o].price \in Nat /\ orders[o].side \in Sides
      BY DEF BookTyped, Order
    <2>2. levelAt[PriceToIndex(orders[o].price)] =
            [side |-> orders[o].side, price |-> orders[o].price, first |-> o]
      BY DEF Shape, OneOrderALevel, GetOrdersAtPrice
    <2>. QED  BY <1>1, <2>1, <2>2, IndexOfPrice DEF NoLevel, Uninitialised, Sides
  <1>7. BookTyped'
    <2>1. NewOrder(u) \in Order
      BY DEF NewOrder, Order, IsUpdate, None
    <2>2. with \in Level
      BY DEF Level, IsUpdate
    <2>3. levelAt' \in [Index -> Level]
      BY <1>1, <1>3, <2>2 DEF BookTyped
    <2>4. ring' \in [Sides -> Seq(Index)]
      BY <1>4, LevelIsInserted DEF IsUpdate
    <2>5. \A o \in DOMAIN orders' : o \in Nat /\ orders'[o] \in Order
      BY <1>2, <2>1 DEF BookTyped
    <2>. QED  BY <2>3, <2>4, <2>5 DEF BookTyped
  <1>8. OneOrderALevel'
    <2>. SUFFICES ASSUME NEW o \in DOMAIN orders'
                  PROVE  /\ orders'[o].prev = None /\ orders'[o].next = None
                         /\ levelAt'[PriceToIndex(orders'[o].price)] =
                              [side |-> orders'[o].side, price |-> orders'[o].price, first |-> o]
      BY DEF OneOrderALevel, GetOrdersAtPrice
    <2>1. CASE o = u.id
      <3>1. orders'[o] = NewOrder(u)
        BY <1>2, <2>1
      <3>. QED  BY <1>3, <2>1, <3>1 DEF NewOrder
    <2>2. CASE o # u.id
      <3>1. o \in DOMAIN orders /\ orders'[o] = orders[o]
        BY <1>2, <2>2
      <3>2. levelAt'[PriceToIndex(orders[o].price)] = levelAt[PriceToIndex(orders[o].price)]
        BY <1>3, <1>6, <3>1
      <3>. QED  BY <3>1, <3>2 DEF Shape, OneOrderALevel, GetOrdersAtPrice
    <2>. QED  BY <2>1, <2>2
  <1>9. LevelsLeadToOrders'
    <2>. SUFFICES ASSUME NEW i \in Index
                  PROVE  \/ levelAt'[i] \in {NoLevel, Uninitialised, Freed}
                         \/ /\ levelAt'[i].first \in DOMAIN orders'
                            /\ PriceToIndex(orders'[levelAt'[i].first].price) = i
      BY DEF LevelsLeadToOrders
    <2>1. CASE i = index
      <3>1. orders'[u.id] = NewOrder(u) /\ u.id \in DOMAIN orders'
        BY <1>2
      <3>. QED  BY <1>3, <2>1, <3>1 DEF NewOrder
    <2>2. CASE i # index /\ levelAt[i] \notin {NoLevel, Uninitialised, Freed}
      <3> DEFINE o == levelAt[i].first
      <3>1. o \in DOMAIN orders /\ PriceToIndex(orders[o].price) = i
        BY <2>2 DEF Shape, LevelsLeadToOrders
      <3>2. o \in DOMAIN orders' /\ orders'[o] = orders[o]
        BY <1>2, <1>5, <3>1
      <3>. QED  BY <1>3, <2>2, <3>1, <3>2
    <2>3. CASE i # index /\ levelAt[i] \in {NoLevel, Uninitialised, Freed}
      BY <1>3, <2>3
    <2>. QED  BY <2>1, <2>2, <2>3
  <1>10. RingsHoldLevels'
    <2>. SUFFICES ASSUME NEW side \in Sides
                  PROVE  /\ \A k \in DOMAIN ring'[side] : levelAt'[ring'[side][k]].side = side
                         /\ \A i \in Index : levelAt'[i].side = side =>
                               \E k \in DOMAIN ring'[side] : ring'[side][k] = i
      BY DEF RingsHoldLevels
    <2>1. /\ \A k \in DOMAIN ring[side] : ring[side][k] \in Index /\ levelAt[ring[side][k]].side = side
          /\ \A i \in Index : levelAt[i].side = side => \E k \in DOMAIN ring[side] : ring[side][k] = i
      BY ElementOfSeq, LenProperties DEF Shape, RingsHoldLevels, BookTyped
    <2>2. levelAt[index].side \notin Sides
      BY <1>1 DEF NoLevel, Uninitialised, Sides
    <2>3. \A k \in DOMAIN ring[side] : ring[side][k] # index /\ levelAt'[ring[side][k]].side = side
      BY <1>3, <2>1, <2>2
    <2>4. CASE side # u.side
      <3>1. ring'[side] = ring[side]
        BY <1>4, <2>4, LevelIsInserted DEF IsUpdate
      <3>2. with.side # side
        BY <2>4
      <3>. QED  BY <1>3, <2>1, <2>3, <3>1, <3>2
    <2>5. CASE side = u.side
      <3>1. /\ \A k \in DOMAIN ring'[side] :
                  ring'[side][k] = index \/ \E j \in DOMAIN ring[side] : ring'[side][k] = ring[side][j]
            /\ \A j \in DOMAIN ring[side] : \E k \in DOMAIN ring'[side] : ring'[side][k] = ring[side][j]
            /\ \E k \in DOMAIN ring'[side] : ring'[side][k] = index
        BY <1>4, <2>5, LevelIsInserted DEF IsUpdate
      <3>2. with.side = side
        BY <2>5
      <3>3. ASSUME NEW i \in Index, levelAt'[i].side = side
            PROVE  \E k \in DOMAIN ring'[side] : ring'[side][k] = i
        <4>1. CASE i = index
          BY <3>1, <4>1
        <4>2. CASE i # index
          <5>1. PICK j \in DOMAIN ring[side] : ring[side][j] = i
            BY <1>3, <2>1, <3>3, <4>2
          <5>. QED  BY <3>1, <5>1
        <4>. QED  BY <4>1, <4>2
      <3>4. ASSUME NEW k \in DOMAIN ring'[side]
            PROVE  levelAt'[ring'[side][k]].side = side
        BY <1>3, <2>3, <3>1, <3>2
      <3>. QED  BY <3>3, <3>4
    <2>. QED  BY <2>4, <2>5
  <1>11. ClearedAreFreed'
    <2>1. index \notin cleared
      BY <1>1 DEF Shape, ClearedAreFreed, NoLevel, Uninitialised, Freed
    <2>. QED  BY <1>3, <2>1 DEF Shape, ClearedAreFreed
  <1>. QED  BY <1>7, <1>8, <1>9, <1>10, <1>11 DEF Shape

-----------------------------------------------------------------------------
(* The best bid and offer, and the steps that are not an ADD               *)

\* The sum over the first level of a side that has one runs into a null link.
LEMMA SumNeverEnds ==
    ASSUME BookTyped', Shape', NEW side \in Sides, ring'[side] # <<>>
    PROVE  SumFollowsNull(side)'
  <1> DEFINE i == Head(ring'[side])
  <1>1. ring'[side] \in Seq(Index)
    BY DEF BookTyped
  <1>2. i \in Index /\ 1 \in DOMAIN ring'[side] /\ ring'[side][1] = i
    BY <1>1, LenProperties, EmptySeq
  <1>3. levelAt'[i].side = side
    BY <1>2 DEF Shape, RingsHoldLevels
  <1>4. levelAt'[i] \notin {NoLevel, Uninitialised, Freed}
    BY <1>3 DEF NoLevel, Uninitialised, Freed, Sides
  <1>5. levelAt'[i].first \in DOMAIN orders'
    BY <1>2, <1>4 DEF Shape, LevelsLeadToOrders
  <1>6. orders'[levelAt'[i].first].next = None
    BY <1>5 DEF Shape, OneOrderALevel
  <1>. QED  BY <1>6 DEF SumFollowsNull

\* The best bid and offer stay invalid: an update at a best price that leaves a level on
\* its side ends the process.
LEMMA UpdateIsSilent ==
    ASSUME BookTyped', Shape', NoPriceIsReported, NEW u, UpdateBestBidOffer(u), halted = "no"
    PROVE  /\ best' = [side \in Sides |-> Invalid]
           /\ \/ halted' = "UpdateBestBidOffer"
              \/ halted' = "no" /\ \A side \in Sides : Updated(side, u) => ring'[side] = <<>>
  <1>1. CASE \E side \in Sides : Updated(side, u) /\ SumFollowsNull(side)'
    BY <1>1 DEF UpdateBestBidOffer, NoPriceIsReported
  <1>2. CASE ~\E side \in Sides : Updated(side, u) /\ SumFollowsNull(side)'
    <2>1. \A side \in Sides : Updated(side, u) => ring'[side] = <<>>
      BY <1>2, SumNeverEnds
    <2>2. /\ best' = [side \in Sides |-> IF Updated(side, u) THEN BestOf(side)' ELSE best[side]]
          /\ halted' = "no"
      BY <1>2 DEF UpdateBestBidOffer
    <2>3. \A side \in Sides : Updated(side, u) => BestOf(side)' = Invalid
      BY <2>1 DEF BestOf, Invalid, None
    <2>4. \A side \in Sides : best[side] = Invalid
      BY DEF NoPriceIsReported
    <2>5. best' = [side \in Sides |-> Invalid]
      BY <2>2, <2>3, <2>4
    <2>. QED  BY <2>1, <2>2, <2>5
  <1>. QED  BY <1>1, <1>2

LEMMA InvalidIsSilent ==
    ASSUME NEW bbo, bbo = [side \in Sides |-> Invalid]
    PROVE  ~BothSides(bbo)
  BY DEF BothSides, Invalid, Sides

LEMMA ReportIsSilent ==
    ASSUME BookTyped', Shape', NoPriceIsReported, NEW u, Report(u), halted = "no"
    PROVE  /\ NoPriceIsReported'
           /\ \/ halted' = "UpdateBestBidOffer"
              \/ halted' = "no" /\ \A side \in Sides : Updated(side, u) => ring'[side] = <<>>
  <1>1. UpdateBestBidOffer(u)
    BY DEF Report
  <1>2. best' = [side \in Sides |-> Invalid]
    BY <1>1, UpdateIsSilent
  <1>3. ~BothSides(best')
    BY <1>2, InvalidIsSilent
  <1>4. UNCHANGED quote
    BY <1>3 DEF Report, CallBack
  <1>. QED  BY <1>1, <1>2, <1>4, UpdateIsSilent DEF NoPriceIsReported

\* A step that leaves the book alone.
LEMMA BookUntouched ==
    ASSUME BookTyped, Shape, UNCHANGED <<orders, levelAt, ring, cleared>>
    PROVE  BookTyped' /\ Shape'
  <1>1. BookTyped'
    BY DEF BookTyped
  <1>2. OneOrderALevel'
    BY DEF Shape, OneOrderALevel, GetOrdersAtPrice
  <1>3. LevelsLeadToOrders' /\ RingsHoldLevels' /\ ClearedAreFreed'
    BY DEF Shape, LevelsLeadToOrders, RingsHoldLevels, ClearedAreFreed
  <1>. QED  BY <1>1, <1>2, <1>3 DEF Shape

LEMMA DyingKeepsBook ==
    ASSUME BookTyped, Shape, NoPriceIsReported, NEW where, Dies(where), UNCHANGED cleared
    PROVE  BookTyped' /\ Shape' /\ NoPriceIsReported' /\ halted' = where
  BY BookUntouched DEF Dies, book, NoPriceIsReported

LEMMA ModifyKeepsShape ==
    ASSUME BookTyped, Shape, NEW o \in DOMAIN orders, NEW qty \in Nat,
           orders' = [orders EXCEPT ![o].quantity = qty],
           UNCHANGED <<levelAt, ring, cleared>>
    PROVE  BookTyped' /\ Shape'
  <1>1. /\ DOMAIN orders' = DOMAIN orders
        /\ \A p \in DOMAIN orders :
              /\ orders'[p] \in Order
              /\ orders'[p].side = orders[p].side /\ orders'[p].price = orders[p].price
              /\ orders'[p].prev = orders[p].prev /\ orders'[p].next = orders[p].next
    BY DEF BookTyped, Order
  <1>2. BookTyped'
    BY <1>1 DEF BookTyped
  <1>3. OneOrderALevel'
    BY <1>1 DEF Shape, OneOrderALevel, GetOrdersAtPrice
  <1>4. LevelsLeadToOrders'
    BY <1>1 DEF Shape, LevelsLeadToOrders
  <1>5. RingsHoldLevels' /\ ClearedAreFreed'
    BY DEF Shape, RingsHoldLevels, ClearedAreFreed
  <1>. QED  BY <1>2, <1>3, <1>4, <1>5 DEF Shape

\* A cancel that is survived takes the only level of its side away.
LEMMA RemovalKeepsShape ==
    ASSUME BookTyped, Shape, cleared \subseteq Index, NEW u, u.id \in DOMAIN orders,
           u.side = orders[u.id].side, u.price = orders[u.id].price,
           OnlyLevel(u), RemoveLevel(u), UNCHANGED cleared
    PROVE  /\ BookTyped' /\ Shape' /\ ring'[u.side] = <<>>
           /\ \A side \in Sides \ {u.side} : ring'[side] = ring[side]
           /\ \A i \in Index \ {PriceToIndex(u.price)} : levelAt'[i] = levelAt[i]
           /\ levelAt'[PriceToIndex(u.price)] = NoLevel
  <1>. DEFINE index == PriceToIndex(u.price)
              o == u.id
  <1>1. u.side \in Sides /\ u.price \in Nat /\ index \in Index
    BY IndexOfPrice DEF BookTyped, Order
  <1>2. levelAt[index] = [side |-> u.side, price |-> u.price, first |-> o]
    BY DEF Shape, OneOrderALevel, GetOrdersAtPrice
  <1>3. Len(ring[u.side]) = 1 /\ ring[u.side] \in Seq(Index)
    BY <1>1, <1>2 DEF OnlyLevel, GetOrdersAtPrice, BookTyped
  <1>4. PICK place \in DOMAIN ring[u.side] :
            /\ ring[u.side][place] = index
            /\ ring' = [ring EXCEPT ![u.side] = RemoveAt(@, place)]
    BY DEF RemoveLevel
  <1>5. ring'[u.side] = <<>> /\ \A side \in Sides \ {u.side} : ring'[side] = ring[side]
    BY <1>1, <1>3, <1>4, RemovedOnly DEF BookTyped
  <1>6. /\ levelAt' = [levelAt EXCEPT ![index] = NoLevel]
        /\ levelAt'[index] = NoLevel
        /\ \A i \in Index \ {index} : levelAt'[i] = levelAt[i]
    BY <1>1 DEF RemoveLevel, BookTyped
  <1>7. orders' = [p \in DOMAIN orders \ {o} |-> orders[p]]
    BY DEF RemoveLevel
  <1>8. \A p \in DOMAIN orders \ {o} :
            PriceToIndex(orders[p].price) \in Index /\ PriceToIndex(orders[p].price) # index
    <2>. SUFFICES ASSUME NEW p \in DOMAIN orders \ {o}
                  PROVE  PriceToIndex(orders[p].price) \in Index /\ PriceToIndex(orders[p].price) # index
      OBVIOUS
    <2>1. levelAt[PriceToIndex(orders[p].price)] =
            [side |-> orders[p].side, price |-> orders[p].price, first |-> p]
      BY DEF Shape, OneOrderALevel, GetOrdersAtPrice
    <2>2. orders[p].price \in Nat
      BY DEF BookTyped, Order
    <2>3. PriceToIndex(orders[p].price) # index
      BY <1>2, <2>1
    <2>4. PriceToIndex(orders[p].price) \in Index
      BY <2>2, IndexOfPrice
    <2>. QED  BY <2>3, <2>4
  <1>9. BookTyped'
    <2>1. NoLevel \in Level
      BY DEF NoLevel, Level, None
    <2>2. levelAt' \in [Index -> Level]
      BY <1>6, <2>1 DEF BookTyped
    <2>3. ring' \in [Sides -> Seq(Index)]
      BY <1>1, <1>3, <1>4, <1>5, EmptySeq DEF BookTyped
    <2>. QED  BY <1>7, <2>2, <2>3 DEF BookTyped
  <1>10. OneOrderALevel'
    BY <1>6, <1>7, <1>8 DEF Shape, OneOrderALevel, GetOrdersAtPrice
  <1>11. LevelsLeadToOrders'
    <2>. SUFFICES ASSUME NEW i \in Index
                  PROVE  \/ levelAt'[i] \in {NoLevel, Uninitialised, Freed}
                         \/ /\ levelAt'[i].first \in DOMAIN orders'
                            /\ PriceToIndex(orders'[levelAt'[i].first].price) = i
      BY DEF LevelsLeadToOrders
    <2>1. CASE i # index /\ levelAt[i] \notin {NoLevel, Uninitialised, Freed}
      <3>1. levelAt[i].first \in DOMAIN orders /\ PriceToIndex(orders[levelAt[i].first].price) = i
        BY <2>1 DEF Shape, LevelsLeadToOrders
      <3>2. levelAt[i].first # o
        BY <2>1, <3>1
      <3>. QED  BY <1>6, <1>7, <2>1, <3>1, <3>2
    <2>. QED  BY <1>6, <2>1
  <1>12. RingsHoldLevels'
    <2>. SUFFICES ASSUME NEW side \in Sides
                  PROVE  /\ \A k \in DOMAIN ring'[side] : levelAt'[ring'[side][k]].side = side
                         /\ \A i \in Index : levelAt'[i].side = side =>
                               \E k \in DOMAIN ring'[side] : ring'[side][k] = i
      BY DEF RingsHoldLevels
    <2>1. /\ \A k \in DOMAIN ring[side] : ring[side][k] \in Index /\ levelAt[ring[side][k]].side = side
          /\ \A i \in Index : levelAt[i].side = side => \E k \in DOMAIN ring[side] : ring[side][k] = i
      BY ElementOfSeq, LenProperties DEF Shape, RingsHoldLevels, BookTyped
    <2>2. CASE side # u.side
      <3>1. \A k \in DOMAIN ring[side] : ring[side][k] # index
        BY <1>2, <2>1, <2>2
      <3>2. NoLevel.side # side
        BY DEF NoLevel, Sides
      <3>. QED  BY <1>5, <1>6, <2>1, <2>2, <3>1, <3>2
    <2>3. CASE side = u.side
      <3>1. DOMAIN ring'[side] = {}
        BY <1>5, <2>3
      <3>2. \A i \in Index : levelAt[i].side = side => i = index
        <4>1. \A k \in DOMAIN ring[side] : k = place
          BY <1>3, <1>4, <2>3, LenProperties
        <4>. QED  BY <1>4, <2>1, <2>3, <4>1
      <3>3. NoLevel.side # side
        BY DEF NoLevel, Sides
      <3>. QED  BY <1>6, <3>1, <3>2, <3>3
    <2>. QED  BY <2>2, <2>3
  <1>13. ClearedAreFreed'
    <2>1. index \notin cleared
      BY <1>1, <1>2 DEF Shape, ClearedAreFreed, Freed, Sides
    <2>. QED  BY <1>6, <2>1 DEF Shape, ClearedAreFreed
  <1>. QED  BY <1>5, <1>6, <1>9, <1>10, <1>11, <1>12, <1>13 DEF Shape

LEMMA ClearKeepsShape ==
    ASSUME BookTyped, Shape, cleared \subseteq Index, Clear
    PROVE  BookTyped' /\ Shape' /\ cleared' \subseteq Index
  <1>1. /\ orders' = <<>> /\ DOMAIN orders' = {}
        /\ ring' = [side \in Sides |-> <<>>]
        /\ \A side \in Sides : DOMAIN ring'[side] = {}
        /\ cleared' = cleared \cup UsedLevels
    BY DEF Clear
  <1>2. \A i \in Index : levelAt'[i] = IF levelAt[i].side \in Sides THEN Freed ELSE levelAt[i]
    BY DEF Clear, UsedLevels
  <1>3. BookTyped'
    <2>1. Freed \in Level
      BY DEF Freed, Level, None
    <2>2. levelAt' \in [Index -> Level]
      BY <2>1 DEF Clear, BookTyped
    <2>. QED  BY <1>1, <2>2, EmptySeq DEF BookTyped
  <1>4. OneOrderALevel'
    BY <1>1 DEF OneOrderALevel
  <1>5. ASSUME NEW i \in Index
        PROVE  levelAt'[i] \in {NoLevel, Uninitialised, Freed} /\ levelAt'[i].side \notin Sides
    <2>1. CASE levelAt[i].side \in Sides
      BY <1>2, <2>1 DEF Freed, Sides
    <2>2. CASE levelAt[i].side \notin Sides
      <3>1. levelAt[i] \in {NoLevel, Uninitialised, Freed}
        <4>1. CASE levelAt[i] \notin {NoLevel, Uninitialised, Freed}
          <5>1. levelAt[i].first \in DOMAIN orders
            BY <4>1 DEF Shape, LevelsLeadToOrders
          <5>2. levelAt[i] = [side |-> orders[levelAt[i].first].side,
                              price |-> orders[levelAt[i].first].price,
                              first |-> levelAt[i].first]
            BY <4>1, LevelIsOrder
          <5>3. orders[levelAt[i].first].side \in Sides
            BY <5>1 DEF BookTyped, Order
          <5>. QED  BY <2>2, <5>2, <5>3
        <4>. QED  BY <4>1
      <3>. QED  BY <1>2, <2>2, <3>1
    <2>. QED  BY <2>1, <2>2
  <1>6. LevelsLeadToOrders' /\ RingsHoldLevels'
    BY <1>1, <1>5 DEF LevelsLeadToOrders, RingsHoldLevels
  <1>7. ClearedAreFreed' /\ cleared' \subseteq Index
    BY <1>1, <1>2 DEF Shape, ClearedAreFreed, UsedLevels, Freed, Sides
  <1>. QED  BY <1>3, <1>4, <1>6, <1>7 DEF Shape

-----------------------------------------------------------------------------
(* The inductive invariant                                                 *)

LEMMA GoesBeforeIsTransitive ==
    ASSUME NEW side \in Sides, NEW a \in Nat, NEW b \in Nat, NEW c \in Nat,
           GoesBefore(side, a, b), GoesBefore(side, b, c)
    PROVE  GoesBefore(side, a, c)
  BY DEF GoesBefore, Sides

\* The rest of TypeOK.
Bookkeeping == /\ unwritten \subseteq 0 .. MaxOrderIds - 1
               /\ algorithm \in {"MAKER", "TAKER", "RANDOM"}
               /\ lastId \in Int
               /\ cleared \subseteq Index
               /\ halted \in Halts
               /\ received \in Nat

LEMMA TypesTogether ==
    NoPriceIsReported => (TypeOK <=> BookTyped /\ Bookkeeping)
  <1>1. Invalid \in [price : Int, quantity : Int]
    BY DEF Invalid, None
  <1>. QED  BY <1>1 DEF TypeOK, BookTyped, Bookkeeping, NoPriceIsReported

LEMMA InvTogether ==
    ASSUME BookTyped', Bookkeeping', Shape', IdsAreOld', NoPriceIsReported',
           halted' = "no" => MarketIsBook' /\ HeadsAreWorst' /\ EachNewPriceIsWorse'
    PROVE  BookInv'
  <1>1. Invalid \in [price : Int, quantity : Int]
    BY DEF Invalid, None
  <1>2. TypeOK'
    BY <1>1 DEF TypeOK, BookTyped, Bookkeeping, NoPriceIsReported
  <1>. QED  BY <1>2 DEF BookInv

\* An order that is added and survived was worse than all of its side, or the first.
LEMMA AddKeepsOrder ==
    ASSUME BookInv, halted = "no", NEW u, IsUpdate(u), u.id \in Nat, u.id > lastId,
           AddOrder(u), ~Updated(u.side, u)
    PROVE  HeadsAreWorst' /\ EachNewPriceIsWorse'
  <1>. DEFINE index == PriceToIndex(u.price)
              side == u.side
              with == [side |-> u.side, price |-> u.price, first |-> u.id]
  <1>0. BookTyped /\ Shape /\ IdsAreOld /\ HeadsAreWorst /\ EachNewPriceIsWorse
    BY DEF BookInv, TypeOK, BookTyped
  <1>1. side \in Sides /\ u.price \in Nat /\ index \in Index
    BY IndexOfPrice DEF IsUpdate
  <1>2. orders' = [o \in DOMAIN orders \cup {u.id} |-> IF o = u.id THEN NewOrder(u) ELSE orders[o]]
    BY <1>0, AddedIsFirst
  <1>3. levelAt'[index] = with /\ \A i \in Index \ {index} : levelAt'[i] = levelAt[i]
    <2>1. levelAt' = [levelAt EXCEPT ![index] = with]
      BY <1>0, AddedIsFirst
    <2>. HIDE DEF index, with
    <2>. QED  BY <1>0, <1>1, <2>1 DEF BookTyped
  <1>4. /\ \A s \in Sides \ {side} : ring'[s] = ring[s]
        /\ ring'[side] # <<>>
        /\ ring[side] = <<>> \/ GoesBefore(side, u.price, HeadPrice(side)) => Head(ring'[side]) = index
    <2>. InsertLevel(side, u.price)
      BY <1>0, AddedIsFirst
    <2>. QED  BY <1>0, <1>1, LevelIsInserted
  <1>5. \A s \in Sides : ring[s] # <<>> =>
            Head(ring[s]) \in Index /\ levelAt[Head(ring[s])].side = s /\ HeadPrice(s) \in Nat
    <2>. SUFFICES ASSUME NEW s \in Sides, ring[s] # <<>>
                  PROVE  /\ Head(ring[s]) \in Index /\ levelAt[Head(ring[s])].side = s
                         /\ HeadPrice(s) \in Nat
      OBVIOUS
    <2>1. ring[s] \in Seq(Index) /\ 1 \in DOMAIN ring[s] /\ ring[s][1] = Head(ring[s])
      BY <1>0, EmptySeq, LenProperties DEF BookTyped
    <2>2. Head(ring[s]) \in Index /\ levelAt[Head(ring[s])].side = s
      BY <1>0, <2>1 DEF Shape, RingsHoldLevels
    <2>. QED  BY <1>0, <2>2 DEF BookTyped, Level, HeadPrice
  <1>6. ring[side] = <<>> \/ GoesBefore(side, u.price, HeadPrice(side))
    BY <1>1, <1>5 DEF Updated, GoesBefore, Sides
  <1>7. Head(ring'[side]) = index
    BY <1>4, <1>6
  \* the levels the new price found
  <1>8. \A i \in Index : levelAt[i].side = side => GoesBefore(side, u.price, levelAt[i].price)
    <2>. SUFFICES ASSUME NEW i \in Index, levelAt[i].side = side
                  PROVE  GoesBefore(side, u.price, levelAt[i].price)
      OBVIOUS
    <2>1. ring[side] # <<>>
      BY <1>0, <1>1 DEF Shape, RingsHoldLevels
    <2>2. CASE i = Head(ring[side])
      BY <1>6, <2>1, <2>2 DEF HeadPrice
    <2>3. CASE i # Head(ring[side])
      <3>1. GoesBefore(side, HeadPrice(side), levelAt[i].price)
        BY <1>0, <1>1, <2>1, <2>3 DEF HeadsAreWorst
      <3>2. levelAt[i].price \in Nat
        BY <1>0 DEF BookTyped, Level
      <3>. QED  BY <1>1, <1>5, <1>6, <2>1, <3>1, <3>2, GoesBeforeIsTransitive
    <2>. QED  BY <2>2, <2>3
  <1>9. HeadsAreWorst'
    <2>. SUFFICES ASSUME NEW s \in Sides, NEW i \in Index,
                         ring'[s] # <<>>, levelAt'[i].side = s, i # Head(ring'[s])
                  PROVE  GoesBefore(s, levelAt'[Head(ring'[s])].price, levelAt'[i].price)
      BY DEF HeadsAreWorst, HeadPrice
    <2>1. CASE s = side
      <3>1. i # index /\ levelAt'[i] = levelAt[i] /\ levelAt'[index].price = u.price
        BY <1>3, <1>7, <2>1
      <3>. QED  BY <1>7, <1>8, <2>1, <3>1
    <2>2. CASE s # side
      <3>1. ring'[s] = ring[s]
        BY <1>4, <2>2
      <3>2. levelAt[index].side \notin Sides
        <4>1. levelAt[index] \in {NoLevel, Uninitialised}
          BY <1>0, AddedIsFirst DEF GetOrdersAtPrice
        <4>. QED  BY <4>1 DEF NoLevel, Uninitialised, Sides
      <3>3. Head(ring[s]) # index /\ Head(ring[s]) \in Index
        BY <1>5, <3>1, <3>2
      <3>4. i # index
        BY <1>3, <2>2
      <3>5. GoesBefore(s, HeadPrice(s), levelAt[i].price)
        BY <1>0, <1>3, <3>1, <3>4 DEF HeadsAreWorst
      <3>. QED  BY <1>3, <3>1, <3>3, <3>4, <3>5 DEF HeadPrice
    <2>. QED  BY <2>1, <2>2
  <1>10. EachNewPriceIsWorse'
    <2>. SUFFICES ASSUME NEW o \in DOMAIN orders', NEW p \in DOMAIN orders',
                         orders'[o].side = orders'[p].side, o < p
                  PROVE  GoesBefore(orders'[o].side, orders'[p].price, orders'[o].price)
      BY DEF EachNewPriceIsWorse
    <2>1. \A q \in DOMAIN orders : q \in Nat /\ q < u.id /\ orders'[q] = orders[q]
      BY <1>0, <1>2 DEF IdsAreOld, BookTyped, BookInv, TypeOK
    <2>2. o \in DOMAIN orders
      BY <1>2, <2>1
    <2>3. CASE p = u.id
      <3>1. orders'[p].price = u.price /\ orders'[p].side = side
        BY <1>2, <2>3 DEF NewOrder
      <3>2. levelAt[PriceToIndex(orders[o].price)] =
              [side |-> orders[o].side, price |-> orders[o].price, first |-> o]
        BY <1>0, <2>2 DEF Shape, OneOrderALevel, GetOrdersAtPrice
      <3>3. PriceToIndex(orders[o].price) \in Index
        BY <1>0, <2>2, IndexOfPrice DEF BookTyped, Order
      <3>. QED  BY <1>8, <2>1, <2>2, <3>1, <3>2, <3>3
    <2>4. CASE p \in DOMAIN orders
      BY <1>0, <2>1, <2>2, <2>4 DEF EachNewPriceIsWorse, BookInv
    <2>. QED  BY <1>2, <2>3, <2>4
  <1>. QED  BY <1>9, <1>10

LEMMA AddKeepsInv ==
    ASSUME BookInv, Running, NEW u, IsUpdate(u), u.id \in Nat, u.id > lastId,
           u = Update(u.id, u.side, u.price, u.quantity), Add(u)
    PROVE  BookInv'
  <1>0. /\ BookTyped /\ Bookkeeping /\ Shape /\ IdsAreOld /\ NoPriceIsReported
        /\ halted = "no" /\ MarketIsBook
    BY TypesTogether DEF BookInv, Running
  <1>1. lastId' = u.id /\ UNCHANGED cleared /\ received' = received + 1 /\ UNCHANGED algorithm
        /\ market' = [o \in DOMAIN market \cup {u.id} |-> IF o = u.id THEN u ELSE market[o]]
    BY DEF Add, AddFollowsWildPointer, AddExhausts, AddLinksToNull, AddBeyondTable, AddRests,
           Announced, Dies, Receive
  <1>2. u.id \in Int /\ \A o \in DOMAIN orders : o <= u.id
    BY <1>0 DEF IdsAreOld, BookTyped, Bookkeeping
  <1>3. ASSUME NEW where \in Halts, where # "no", Dies(where) PROVE BookInv'
    <2>1. BookTyped' /\ Shape' /\ NoPriceIsReported' /\ halted' = where
      BY <1>0, <1>1, <1>3, DyingKeepsBook
    <2>2. Bookkeeping' /\ IdsAreOld'
      BY <1>0, <1>1, <1>2, <1>3, <2>1 DEF Dies, book, Bookkeeping, IdsAreOld
    <2>. QED  BY <1>3, <2>1, <2>2, InvTogether
  <1>4. CASE AddFollowsWildPointer(u)
    BY <1>3, <1>4 DEF AddFollowsWildPointer, Halts
  <1>5. CASE AddExhausts(u)
    BY <1>3, <1>5 DEF AddExhausts, Halts
  <1>6. CASE AddLinksToNull(u)
    BY <1>3, <1>6 DEF AddLinksToNull, Halts
  <1>7. ASSUME AddOrder(u) PROVE BookTyped' /\ Shape' /\ IdsAreOld'
    <2>1. BookTyped' /\ Shape'
      BY <1>0, <1>1, <1>7, AddKeepsShape DEF Bookkeeping
    <2>2. DOMAIN orders' = DOMAIN orders \cup {u.id}
      BY <1>0, <1>7, AddedIsFirst
    <2>. QED  BY <1>1, <1>2, <2>1, <2>2 DEF IdsAreOld
  <1>8. CASE AddBeyondTable(u)
    <2>1. AddOrder(u) /\ halted' = "mOrderIdToOrder" /\ UNCHANGED <<unwritten, best, quote>>
      BY <1>8 DEF AddBeyondTable
    <2>2. Bookkeeping' /\ NoPriceIsReported'
      BY <1>0, <1>1, <1>2, <2>1 DEF Bookkeeping, Halts, NoPriceIsReported
    <2>. QED  BY <1>7, <2>1, <2>2, InvTogether
  <1>9. CASE AddRests(u)
    <2>1. AddOrder(u) /\ unwritten' = unwritten \ {u.id} /\ Report(u)
      BY <1>9 DEF AddRests
    <2>2. /\ BookTyped' /\ Shape' /\ IdsAreOld' /\ NoPriceIsReported'
          /\ \/ halted' = "UpdateBestBidOffer"
             \/ halted' = "no" /\ \A side \in Sides : Updated(side, u) => ring'[side] = <<>>
      BY <1>0, <1>7, <2>1, ReportIsSilent
    <2>3. halted' \in Halts
      BY <2>2 DEF Halts
    <2>4. Bookkeeping'
      <3>1. unwritten' \subseteq 0 .. MaxOrderIds - 1
        BY <1>0, <2>1 DEF Bookkeeping
      <3>2. received' \in Nat /\ lastId' \in Int
        BY <1>0, <1>1, <1>2 DEF Bookkeeping
      <3>3. cleared' \subseteq Index /\ algorithm' \in {"MAKER", "TAKER", "RANDOM"}
        BY <1>0, <1>1 DEF Bookkeeping
      <3>. QED  BY <2>3, <3>1, <3>2, <3>3 DEF Bookkeeping
    <2>5. ASSUME halted' = "no" PROVE MarketIsBook' /\ HeadsAreWorst' /\ EachNewPriceIsWorse'
      <3>1. ring'[u.side] # <<>>
        <4>. InsertLevel(u.side, u.price)
          BY <1>0, <2>1, AddedIsFirst
        <4>. QED  BY <1>0, LevelIsInserted DEF IsUpdate
      <3>2. ~Updated(u.side, u)
        BY <2>2, <2>5, <3>1 DEF IsUpdate
      <3>3. HeadsAreWorst' /\ EachNewPriceIsWorse'
        BY <1>0, <2>1, <3>2, AddKeepsOrder
      <3>4. MarketIsBook'
        <4>1. orders' = [o \in DOMAIN orders \cup {u.id} |-> IF o = u.id THEN NewOrder(u) ELSE orders[o]]
          BY <1>0, <2>1, AddedIsFirst
        <4>. QED  BY <1>0, <1>1, <4>1 DEF MarketIsBook, NewOrder
      <3>. QED  BY <3>3, <3>4
    <2>. QED  BY <2>2, <2>4, <2>5, InvTogether
  <1>. QED  BY <1>4, <1>5, <1>6, <1>8, <1>9 DEF Add

LEMMA ModifyKeepsInv ==
    ASSUME BookInv, Running, NEW id \in DOMAIN market, NEW qty \in Nat,
           Modify([market[id] EXCEPT !.quantity = qty])
    PROVE  BookInv'
  <1>. DEFINE u == [market[id] EXCEPT !.quantity = qty]
  <1>0. /\ BookTyped /\ Bookkeeping /\ Shape /\ IdsAreOld /\ NoPriceIsReported
        /\ halted = "no" /\ MarketIsBook /\ HeadsAreWorst /\ EachNewPriceIsWorse
    BY TypesTogether DEF BookInv, Running
  <1>1. /\ id \in DOMAIN orders /\ u.id = id /\ u.quantity = qty
        /\ u = Update(id, orders[id].side, orders[id].price, qty)
    BY <1>0 DEF MarketIsBook, Update
  <1>. HIDE DEF u
  <1>2. /\ orders' = [orders EXCEPT ![id].quantity = qty]
        /\ market' = [market EXCEPT ![id] = u]
        /\ UNCHANGED <<unwritten, levelAt, ring, lastId, cleared, algorithm>>
        /\ received' = received + 1 /\ Report(u)
    BY <1>1 DEF Modify, Receive, u
  <1>3. BookTyped' /\ Shape'
    BY <1>0, <1>1, <1>2, ModifyKeepsShape
  <1>4. NoPriceIsReported' /\ halted' \in {"no", "UpdateBestBidOffer"}
    BY <1>0, <1>2, <1>3, ReportIsSilent
  <1>5. Bookkeeping' /\ IdsAreOld'
    <2>1. halted' \in Halts
      BY <1>4 DEF Halts
    <2>. QED  BY <1>0, <1>2, <2>1 DEF Bookkeeping, IdsAreOld
  <1>6. /\ DOMAIN orders' = DOMAIN orders
        /\ \A o \in DOMAIN orders : orders'[o].side = orders[o].side /\ orders'[o].price = orders[o].price
        /\ \A o \in DOMAIN orders : orders'[o].quantity = IF o = id THEN qty ELSE orders[o].quantity
    BY <1>0, <1>2 DEF BookTyped, Order
  <1>7. MarketIsBook'
    BY <1>0, <1>1, <1>2, <1>6 DEF MarketIsBook
  <1>8. HeadsAreWorst' /\ EachNewPriceIsWorse'
    BY <1>0, <1>2, <1>6 DEF HeadsAreWorst, EachNewPriceIsWorse, HeadPrice
  <1>. QED  BY <1>3, <1>4, <1>5, <1>7, <1>8, InvTogether

LEMMA CancelKeepsInv ==
    ASSUME BookInv, Running, NEW id \in DOMAIN market, Cancel(market[id])
    PROVE  BookInv'
  <1>. DEFINE u == market[id]
  <1>0. /\ BookTyped /\ Bookkeeping /\ Shape /\ IdsAreOld /\ NoPriceIsReported
        /\ halted = "no" /\ MarketIsBook /\ HeadsAreWorst /\ EachNewPriceIsWorse
    BY TypesTogether DEF BookInv, Running
  <1>1. /\ id \in DOMAIN orders /\ u.id = id
        /\ u.side = orders[id].side /\ u.price = orders[id].price
        /\ u.side \in Sides /\ u.price \in Nat /\ orders[id].prev = None
    <2>1. id \in DOMAIN orders
      BY <1>0 DEF MarketIsBook
    <2>2. u = Update(id, orders[id].side, orders[id].price, orders[id].quantity)
      BY <1>0, <2>1 DEF MarketIsBook
    <2>3. orders[id] \in Order /\ orders[id].prev = None
      BY <1>0, <2>1 DEF BookTyped, Shape, OneOrderALevel
    <2>. QED  BY <2>1, <2>2, <2>3 DEF Update, Order
  <1>. HIDE DEF u
  <1>2. CASE CancelRelinksNull(u)
    <2>1. Dies("RemoveOrder") /\ Withdrawn(u)
      BY <1>2 DEF CancelRelinksNull
    <2>2. BookTyped' /\ Shape' /\ NoPriceIsReported' /\ halted' = "RemoveOrder"
      BY <1>0, <2>1, DyingKeepsBook DEF Withdrawn
    <2>3. Bookkeeping' /\ IdsAreOld'
      BY <1>0, <2>1, <2>2 DEF Dies, Receive, Withdrawn, book, Bookkeeping, Halts, IdsAreOld
    <2>. QED  BY <2>2, <2>3, InvTogether
  <1>3. CASE CancelRemoves(u)
    <2>1. OnlyLevel(u) /\ RemoveLevel(u) /\ Report(u)
      BY <1>1, <1>3 DEF CancelRemoves
    <2>2. /\ market' = [o \in DOMAIN market \ {id} |-> market[o]]
          /\ UNCHANGED <<unwritten, lastId, cleared, algorithm>>
          /\ received' = received + 1
      BY <1>1, <1>3 DEF CancelRemoves, Withdrawn, Receive
    <2>3. /\ BookTyped' /\ Shape' /\ ring'[u.side] = <<>>
          /\ \A side \in Sides \ {u.side} : ring'[side] = ring[side]
          /\ \A i \in Index \ {PriceToIndex(u.price)} : levelAt'[i] = levelAt[i]
          /\ levelAt'[PriceToIndex(u.price)] = NoLevel
      BY <1>0, <1>1, <2>1, <2>2, RemovalKeepsShape DEF Bookkeeping
    <2>4. NoPriceIsReported' /\ halted' \in {"no", "UpdateBestBidOffer"}
      BY <1>0, <2>1, <2>3, ReportIsSilent
    <2>5. orders' = [o \in DOMAIN orders \ {id} |-> orders[o]]
      BY <1>1, <2>1 DEF RemoveLevel
    <2>6. Bookkeeping' /\ IdsAreOld'
      <3>1. halted' \in Halts
        BY <2>4 DEF Halts
      <3>. QED  BY <1>0, <2>2, <2>5, <3>1 DEF Bookkeeping, IdsAreOld
    <2>7. MarketIsBook' /\ EachNewPriceIsWorse'
      BY <1>0, <2>2, <2>5 DEF MarketIsBook, EachNewPriceIsWorse
    <2>8. HeadsAreWorst'
      <3>. SUFFICES ASSUME NEW side \in Sides, NEW i \in Index,
                           ring'[side] # <<>>, levelAt'[i].side = side, i # Head(ring'[side])
                    PROVE  GoesBefore(side, levelAt'[Head(ring'[side])].price, levelAt'[i].price)
        BY DEF HeadsAreWorst, HeadPrice
      <3>1. side # u.side /\ ring'[side] = ring[side]
        BY <2>3
      <3>2. i # PriceToIndex(u.price)
        BY <2>3 DEF NoLevel, Sides
      <3>3. Head(ring[side]) \in Index /\ levelAt'[Head(ring[side])].side = side
        <4>1. ring[side] \in Seq(Index) /\ 1 \in DOMAIN ring[side] /\ ring[side][1] = Head(ring[side])
          BY <1>0, <3>1, EmptySeq, LenProperties DEF BookTyped
        <4>. QED  BY <2>3, <3>1, <4>1 DEF Shape, RingsHoldLevels
      <3>4. Head(ring[side]) # PriceToIndex(u.price)
        BY <2>3, <3>3 DEF NoLevel, Sides
      <3>. QED  BY <1>0, <2>3, <3>1, <3>2, <3>3, <3>4 DEF HeadsAreWorst, HeadPrice
    <2>. QED  BY <2>3, <2>4, <2>6, <2>7, <2>8, InvTogether
  <1>. QED  BY <1>2, <1>3 DEF Cancel, u

LEMMA TradeKeepsInv ==
    ASSUME BookInv, Running, NEW u, Trade(u)
    PROVE  BookInv'
  <1>0. /\ BookTyped /\ Bookkeeping /\ Shape /\ IdsAreOld /\ NoPriceIsReported
        /\ halted = "no" /\ MarketIsBook /\ HeadsAreWorst /\ EachNewPriceIsWorse
    BY TypesTogether DEF BookInv, Running
  <1>1. /\ UNCHANGED <<orders, unwritten, levelAt, ring, market, lastId, cleared, algorithm>>
        /\ received' = received + 1 /\ UpdateBestBidOffer(u)
    BY DEF Trade, Receive, book, told
  <1>2. BookTyped' /\ Shape'
    BY <1>0, <1>1, BookUntouched
  <1>3. best' = [side \in Sides |-> Invalid] /\ halted' \in {"no", "UpdateBestBidOffer"}
    BY <1>0, <1>1, <1>2, UpdateIsSilent
  <1>4. ~BothSides(best) /\ ~BothSides(best')
    BY <1>0, <1>3, InvalidIsSilent DEF NoPriceIsReported
  <1>5. NoPriceIsReported'
    BY <1>0, <1>3, <1>4 DEF Trade, CallBack, TradeCallBack, NoPriceIsReported
  <1>6. Bookkeeping' /\ IdsAreOld'
    <2>1. halted' \in Halts
      BY <1>3 DEF Halts
    <2>. QED  BY <1>0, <1>1, <2>1 DEF Bookkeeping, IdsAreOld
  <1>7. MarketIsBook' /\ HeadsAreWorst' /\ (EachNewPriceIsWorse')
    BY <1>0, <1>1 DEF MarketIsBook, HeadsAreWorst, HeadPrice, EachNewPriceIsWorse
  <1>. QED  BY <1>2, <1>3, <1>5, <1>6, <1>7, InvTogether

LEMMA ClearKeepsInv ==
    ASSUME BookInv, Running, Clear
    PROVE  BookInv'
  <1>0. /\ BookTyped /\ Bookkeeping /\ Shape /\ IdsAreOld /\ NoPriceIsReported
        /\ halted = "no"
    BY TypesTogether DEF BookInv, Running
  <1>1. BookTyped' /\ Shape' /\ cleared' \subseteq Index
    BY <1>0, ClearKeepsShape DEF Bookkeeping
  <1>2. /\ orders' = <<>> /\ unwritten' = {} /\ market' = <<>>
        /\ ring' = [side \in Sides |-> <<>>]
        /\ UNCHANGED <<best, halted, lastId, algorithm>> /\ received' = received + 1
    BY DEF Clear, Receive
  <1>3. NoPriceIsReported'
    BY <1>0, <1>2, InvalidIsSilent DEF NoPriceIsReported, Clear, CallBack
  <1>4. Bookkeeping' /\ IdsAreOld'
    BY <1>0, <1>1, <1>2 DEF Bookkeeping, IdsAreOld
  <1>5. MarketIsBook' /\ HeadsAreWorst' /\ EachNewPriceIsWorse'
    BY <1>2 DEF MarketIsBook, HeadsAreWorst, EachNewPriceIsWorse
  <1>. QED  BY <1>1, <1>3, <1>4, <1>5, InvTogether

-----------------------------------------------------------------------------
(* The theorems                                                            *)

LEMMA InitIsInv == Init => BookInv
  <1>. SUFFICES ASSUME Init PROVE BookInv
    OBVIOUS
  <1>1. Uninitialised \in Level /\ Invalid \in [price : Int, quantity : Int]
    BY DEF Uninitialised, Level, Invalid, None
  <1>2. TypeOK
    BY <1>1, EmptySeq DEF Init, TypeOK, Halts, None
  <1>3. Shape
    <2>1. Uninitialised.side \notin Sides
      BY DEF Uninitialised, Sides
    <2>. QED  BY <2>1 DEF Init, Shape, OneOrderALevel, LevelsLeadToOrders, RingsHoldLevels,
                          ClearedAreFreed
  <1>. QED  BY <1>2, <1>3 DEF Init, BookInv, IdsAreOld, NoPriceIsReported, MarketIsBook,
                              HeadsAreWorst, EachNewPriceIsWorse

LEMMA NextKeepsInv == BookInv /\ [Next]_vars => BookInv'
  <1>. SUFFICES ASSUME BookInv, [Next]_vars PROVE BookInv'
    OBVIOUS
  <1>0. lastId \in Int
    BY DEF BookInv, TypeOK
  <1>1. ASSUME NEW id \in OrderIds, NEW side \in Sides, NEW price \in Prices,
               NEW qty \in Quantities, Running, id > lastId, Add(Update(id, side, price, qty))
        PROVE  BookInv'
    <2> DEFINE u == Update(id, side, price, qty)
    <2>1. /\ u.id = id /\ u.side = side /\ u.price = price /\ u.quantity = qty
          /\ id \in Nat /\ price \in Nat /\ qty \in Nat
      BY InputsAssumption DEF Update
    <2>2. u = Update(u.id, u.side, u.price, u.quantity)
      BY <2>1
    <2>3. IsUpdate(u)
      BY <2>1 DEF IsUpdate
    <2>4. Add(u)
      BY <1>1
    <2>. HIDE DEF u
    <2>. QED  BY <1>1, <2>1, <2>2, <2>3, <2>4, AddKeepsInv
  <1>2. ASSUME NEW id \in DOMAIN market, NEW qty \in Quantities, Running,
               Modify([market[id] EXCEPT !.quantity = qty])
        PROVE  BookInv'
    BY <1>2, ModifyKeepsInv, InputsAssumption
  <1>3. ASSUME NEW id \in DOMAIN market, Running, Cancel(market[id])
        PROVE  BookInv'
    BY <1>3, CancelKeepsInv
  <1>4. ASSUME NEW u, Running, Trade(u)
        PROVE  BookInv'
    BY <1>4, TradeKeepsInv
  <1>5. CASE Running /\ ClearFollowsWildPointer
    <2>1. Dies("wild pointer") /\ UNCHANGED told /\ halted = "no"
      BY <1>5 DEF ClearFollowsWildPointer, Running
    <2>2. BookTyped /\ Bookkeeping /\ Shape /\ IdsAreOld /\ NoPriceIsReported
      BY TypesTogether DEF BookInv
    <2>3. BookTyped' /\ Shape' /\ NoPriceIsReported' /\ halted' = "wild pointer"
      BY <2>1, <2>2, DyingKeepsBook DEF told
    <2>4. Bookkeeping' /\ IdsAreOld'
      <3>1. halted' \in Halts
        BY <2>3 DEF Halts
      <3>2. UNCHANGED <<orders, unwritten, algorithm, lastId, cleared>> /\ received' = received + 1
        BY <2>1 DEF Dies, Receive, book, told
      <3>. QED  BY <2>2, <3>1, <3>2 DEF Bookkeeping, IdsAreOld
    <2>. QED  BY <2>3, <2>4, InvTogether
  <1>6. CASE Running /\ Clear
    BY <1>6, ClearKeepsInv
  <1>7. CASE UNCHANGED vars
    BY <1>7 DEF vars, book, told, BookInv, TypeOK, Shape, OneOrderALevel, LevelsLeadToOrders,
                RingsHoldLevels, ClearedAreFreed, IdsAreOld, NoPriceIsReported, MarketIsBook,
                HeadsAreWorst, HeadPrice, EachNewPriceIsWorse, GetOrdersAtPrice
  <1>. QED  BY <1>1, <1>2, <1>3, <1>4, <1>5, <1>6, <1>7 DEF Next

LEMMA BookInvariant == Spec => []BookInv
  BY InitIsInv, NextKeepsInv, PTL DEF Spec

\* Every variable keeps its type: the tables, the circles and the counters stay what the
\* code declares them to be, whatever updates arrive.
THEOREM MarketBookTypeCorrect == Spec => []TypeOK
  <1>1. BookInv => TypeOK
    BY DEF BookInv
  <1>. QED  BY <1>1, BookInvariant, PTL

\* No best bid or offer is ever reported and no strategy ever asks for an order.
THEOREM TheBestPriceIsNeverKnown == Spec => []NoPriceIsReported
  <1>1. BookInv => NoPriceIsReported
    BY DEF BookInv
  <1>. QED  BY <1>1, BookInvariant, PTL

\* A book that lives holds what the updates say rests.
THEOREM LivingBookIsRight == Spec => []MirrorsUpdates
  <1>1. BookInv => MirrorsUpdates
    <2>. SUFFICES ASSUME BookInv, halted = "no" PROVE MirrorsUpdates
      BY DEF MirrorsUpdates
    <2>1. MarketIsBook /\ BookTyped /\ Shape
      BY DEF BookInv, TypeOK, BookTyped
    <2>2. ASSUME NEW o \in DOMAIN orders
          PROVE  \E k \in DOMAIN ring[orders[o].side] :
                    ring[orders[o].side][k] = PriceToIndex(orders[o].price)
      <3>1. levelAt[PriceToIndex(orders[o].price)] =
              [side |-> orders[o].side, price |-> orders[o].price, first |-> o]
        BY <2>1 DEF Shape, OneOrderALevel, GetOrdersAtPrice
      <3>2. orders[o].side \in Sides /\ PriceToIndex(orders[o].price) \in Index
        BY <2>1, IndexOfPrice DEF BookTyped, Order
      <3>. QED  BY <2>1, <3>1, <3>2 DEF Shape, RingsHoldLevels
    <2>. QED  BY <2>1, <2>2 DEF MarketIsBook, MirrorsUpdates, Update
  <1>. QED  BY <1>1, BookInvariant, PTL

\* Only ever worse prices are survived.
THEOREM BetterPricesAreFatal == Spec => []EachNewPriceIsWorse
  <1>1. BookInv => EachNewPriceIsWorse
    BY DEF BookInv, EachNewPriceIsWorse
  <1>. QED  BY <1>1, BookInvariant, PTL

\* A price in use when a CLEAR came is never used again.
THEOREM ClearLosesPrices == Spec => []ClearedPricesAreLost
  <1>1. BookInv => ClearedPricesAreLost
    <2>. SUFFICES ASSUME BookInv, NEW o \in DOMAIN orders
                  PROVE  PriceToIndex(orders[o].price) \notin cleared
      BY DEF ClearedPricesAreLost
    <2>1. levelAt[PriceToIndex(orders[o].price)] =
            [side |-> orders[o].side, price |-> orders[o].price, first |-> o]
      BY DEF BookInv, Shape, OneOrderALevel, GetOrdersAtPrice
    <2>2. orders[o].side \in Sides
      BY DEF BookInv, TypeOK, Order
    <2>. QED  BY <2>1, <2>2 DEF BookInv, Shape, ClearedAreFreed, Freed, Sides
  <1>. QED  BY <1>1, BookInvariant, PTL
=============================================================================
