-------------------------- MODULE MEOrderBookProof --------------------------
(***************************************************************************)
(* MEOrderBook, for every number of clients, ids, levels, prices and       *)
(* requests.  The argument: an order only ever comes to an empty level,    *)
(* because the second order of a level follows a null link, and it only    *)
(* ever leaves as the last order of its side, because any other cancel     *)
(* follows one too.                                                        *)
(***************************************************************************)
EXTENDS MEOrderBook, SequenceTheorems, FiniteSetTheorems, TLAPS

BookInv == /\ TypeOK
           /\ LevelsLeadToOrders /\ RingsHoldLevels /\ TableLeadsToOrders
           /\ OneOrderPerLevel

LEMMA IndexOfPrice == ASSUME NEW price \in Nat PROVE PriceToIndex(price) \in Index
  BY SizesAssumption DEF PriceToIndex, Index

\* Place by place, longer is seq with e inserted at pos.
IsInsertion(longer, seq, pos, e, S) ==
    /\ longer \in Seq(S)
    /\ Len(longer) = Len(seq) + 1
    /\ \A j \in 1 .. Len(seq) + 1 :
          longer[j] = IF j < pos THEN seq[j] ELSE IF j = pos THEN e ELSE seq[j - 1]

\* What InsertAt returns.
LEMMA Inserted ==
    ASSUME NEW S, NEW seq \in Seq(S), NEW pos \in 1 .. Len(seq) + 1, NEW e \in S
    PROVE  IsInsertion(InsertAt(seq, pos, e), seq, pos, e, S)
  <1>. DEFINE front == SubSeq(seq, 1, pos - 1)
              back  == SubSeq(seq, pos, Len(seq))
  <1>0. Len(seq) \in Nat
    BY LenProperties
  <1>1. /\ front \in Seq(S) /\ Len(front) = pos - 1
        /\ \A j \in 1 .. pos - 1 : front[j] = seq[j]
    BY <1>0, SubSeqProperties
  <1>2. /\ back \in Seq(S) /\ Len(back) = Len(seq) - pos + 1
        /\ \A j \in 1 .. Len(seq) - pos + 1 : back[j] = seq[pos + j - 1]
    BY <1>0, SubSeqProperties
  <1>. HIDE DEF front, back
  <1>3. /\ front \o <<e>> \in Seq(S) /\ Len(front \o <<e>>) = pos
        /\ \A j \in 1 .. pos : (front \o <<e>>)[j] = IF j < pos THEN seq[j] ELSE e
    BY <1>1
  <1>. DEFINE most == front \o <<e>>
  <1>. HIDE DEF most
  <1>4. /\ most \o back \in Seq(S) /\ Len(most \o back) = Len(seq) + 1
        /\ \A j \in 1 .. Len(seq) + 1 :
              (most \o back)[j] = IF j <= pos THEN most[j] ELSE back[j - pos]
    BY <1>0, <1>2, <1>3 DEF most
  <1>5. InsertAt(seq, pos, e) = most \o back
    BY DEF InsertAt, most, front, back
  <1>. QED  BY <1>0, <1>2, <1>3, <1>4, <1>5 DEF most, IsInsertion

\* Removing the only element leaves nothing.
LEMMA RemovedOnly ==
    ASSUME NEW S, NEW seq \in Seq(S), Len(seq) = 1, NEW place \in DOMAIN seq
    PROVE  RemoveAt(seq, place) = <<>>
  <1>1. place = 1
    BY LenProperties
  <1>2. SubSeq(seq, 1, 0) = <<>> /\ SubSeq(seq, 2, 1) = <<>>
    BY SubSeqProperties, EmptySeq
  <1>. QED  BY <1>1, <1>2, EmptySeq, ConcatEmptySeq DEF RemoveAt

LEMMA BookInit == Init => BookInv
  <1>. SUFFICES ASSUME Init PROVE BookInv
    OBVIOUS
  <1>1. DOMAIN orders = {} /\ nextOrderId = 0
    BY DEF Init
  <1>2. NoLevel \in Level /\ NoLevel.first = None
    BY DEF NoLevel, Level, None
  <1>3. levelAt = [i \in Index |-> NoLevel] /\ ring = [side \in Sides |-> <<>>]
    BY DEF Init
  <1>4. table = [cell \in Cells |-> Uninitialised] /\ Uninitialised = -2
    BY DEF Init, Uninitialised
  <1>5. TypeOK
    <2>1. levelAt \in [Index -> Level] /\ ring \in [Sides -> Seq(Index)]
      BY <1>2, <1>3, EmptySeq
    <2>2. table \in [Cells -> Int]
      BY <1>4
    <2>3. response.type = "INVALID" /\ halted \in Halts
      BY DEF Init, Halts
    <2>4. build \in Builds /\ processed \in Nat
      BY DEF Init
    <2>. QED  BY <1>1, <2>1, <2>2, <2>3, <2>4 DEF TypeOK
  <1>6. UsedLevels = {}
    BY <1>2, <1>3 DEF UsedLevels
  <1>7. RingsHoldLevels
    BY <1>3 DEF RingsHoldLevels
  <1>8. LevelsLeadToOrders /\ TableLeadsToOrders /\ OneOrderPerLevel
    BY <1>1, <1>4, <1>6 DEF LevelsLeadToOrders, TableLeadsToOrders, OneOrderPerLevel
  <1>. QED  BY <1>5, <1>7, <1>8 DEF BookInv

\* A call that leaves the book alone.
LEMMA BookStays ==
    ASSUME BookInv, UNCHANGED book,
           nextOrderId' \in {nextOrderId, nextOrderId + 1},
           response'.type \in {"INVALID", "ACCEPTED", "CANCELED", "CANCEL_REJECTED"},
           halted' \in Halts, build' = build, processed' \in Nat
    PROVE  BookInv'
  <1>1. UNCHANGED <<orders, levelAt, ring, table>>
    BY DEF book
  <1>2. nextOrderId' \in Nat /\ DOMAIN orders' \subseteq 0 .. nextOrderId' - 1
    BY <1>1 DEF BookInv, TypeOK
  <1>3. TypeOK'
    BY <1>1, <1>2 DEF BookInv, TypeOK
  <1>4. LevelsLeadToOrders' /\ RingsHoldLevels'
    BY <1>1 DEF BookInv, LevelsLeadToOrders, RingsHoldLevels, UsedLevels
  <1>5. TableLeadsToOrders' /\ OneOrderPerLevel'
    BY <1>1 DEF BookInv, TableLeadsToOrders, OneOrderPerLevel, GetOrdersAtPrice
  <1>. QED  BY <1>3, <1>4, <1>5 DEF BookInv

LEMMA AcceptIs ==
    ASSUME TypeOK, NEW clientId, Accept(clientId)
    PROVE  /\ nextOrderId' = nextOrderId + 1
           /\ response'.type = "ACCEPTED"
           /\ build' = build /\ processed' = processed + 1 /\ processed' \in Nat
           /\ halted = "no"
  BY DEF Accept, Request, TypeOK

\* A resting order of price p is the first of the level at p's index.
LEMMA RestingOrder ==
    ASSUME BookInv, NEW o \in DOMAIN orders
    PROVE  /\ orders[o] \in Order /\ orders[o].id = o /\ o \in Nat /\ o < nextOrderId
           /\ PriceToIndex(orders[o].price) \in Index
           /\ levelAt[PriceToIndex(orders[o].price)].first = o
           /\ PriceToIndex(orders[o].price) \in UsedLevels
           /\ orders[o].prev = None /\ orders[o].next = None
  <1>1. /\ orders[o] \in Order /\ orders[o].id = o /\ o \in 0 .. nextOrderId - 1
        /\ nextOrderId \in Nat
    BY DEF BookInv, TypeOK
  <1>2. PriceToIndex(orders[o].price) \in Index
    BY <1>1, IndexOfPrice DEF Order
  <1>3. /\ levelAt[PriceToIndex(orders[o].price)].first = o
        /\ orders[o].prev = None /\ orders[o].next = None
    BY DEF BookInv, OneOrderPerLevel, GetOrdersAtPrice
  <1>. QED  BY <1>1, <1>2, <1>3 DEF UsedLevels, None

\* What an order that comes to rest does to the three tables of the book.
RestEffect(clientId, clientOrderId, side, price) ==
    LET i     == PriceToIndex(price)
        order == NewOrder(clientId, clientOrderId, side, price)
    IN  /\ i \in Index /\ levelAt[i].first = None
        /\ order \in Order
        /\ order.id = nextOrderId /\ order.client = clientId
        /\ order.clientOrderId = clientOrderId
        /\ order.side = side /\ order.price = price /\ order.priority = 1
        /\ order.prev = None /\ order.next = None
        /\ orders' = [o \in DOMAIN orders \cup {nextOrderId} |->
                        IF o = nextOrderId THEN order ELSE orders[o]]
        /\ levelAt' = [levelAt EXCEPT ![i] =
                        [side |-> side, price |-> price, first |-> nextOrderId]]
        /\ InsertLevel(side, price)

\* An order rests only at an empty level, which becomes its own.
LEMMA RestsIs ==
    ASSUME BookInv, NEW clientId \in Clients, NEW clientOrderId \in ClientOrderIds,
           NEW side \in Sides, NEW price \in Prices, NEW qty,
           Rests(clientId, clientOrderId, side, price, qty)
    PROVE  RestEffect(clientId, clientOrderId, side, price)
  <1>. DEFINE i == PriceToIndex(price)
              order == NewOrder(clientId, clientOrderId, side, price)
  <1>1. price \in Nat /\ clientOrderId \in Nat /\ nextOrderId \in Nat
    BY InputsAssumption DEF BookInv, TypeOK
  <1>2. i \in Index
    BY <1>1, IndexOfPrice
  <1>3. ~PriorityUnreadable(price) /\ AddOrder(order)
    BY DEF Rests
  <1>4. levelAt[i].first = None
    <2>. SUFFICES ASSUME levelAt[i].first # None PROVE FALSE
      OBVIOUS
    <2>1. levelAt[i].first \in DOMAIN orders
      BY <1>2 DEF UsedLevels, BookInv, LevelsLeadToOrders
    <2>2. orders[levelAt[i].first].prev = None
      BY <2>1, RestingOrder
    <2>. QED  BY <1>3, <2>2 DEF PriorityUnreadable, GetOrdersAtPrice
  <1>5. order = [id |-> nextOrderId, client |-> clientId, clientOrderId |-> clientOrderId,
                 side |-> side, price |-> price, priority |-> 1,
                 prev |-> None, next |-> None]
    <2>1. GetNextPriority(price) = 1
      BY <1>4 DEF GetNextPriority, GetOrdersAtPrice
    <2>. QED  BY <2>1 DEF NewOrder
  <1>. HIDE DEF order
  <1>6. order \in Order
    BY <1>1, <1>5 DEF Order, None
  <1>7. /\ orders' = [o \in DOMAIN orders \cup {nextOrderId} |->
                        IF o = nextOrderId THEN order ELSE orders[o]]
        /\ levelAt' = [levelAt EXCEPT ![i] =
                         [side |-> side, price |-> price, first |-> nextOrderId]]
        /\ InsertLevel(side, price)
    BY <1>3, <1>4, <1>5, ZenonT(30) DEF AddOrder, GetOrdersAtPrice
  <1>. QED  BY <1>2, <1>4, <1>5, <1>6, <1>7 DEF order, RestEffect

\* The list of the new level's side has one more place, its own; the others move on.
LEMMA InsertLevelIs ==
    ASSUME BookInv, NEW side \in Sides, NEW price \in Prices, InsertLevel(side, price)
    PROVE  /\ ring' \in [Sides -> Seq(Index)]
           /\ \A other \in Sides : other # side => ring'[other] = ring[other]
           /\ Len(ring[side]) \in Nat
           /\ \E pos \in 1 .. Len(ring[side]) + 1 :
                 /\ \A k \in 1 .. pos - 1 :
                       ~GoesBefore(side, price, levelAt[ring[side][k]].price)
                 /\ pos <= Len(ring[side]) =>
                       GoesBefore(side, price, levelAt[ring[side][pos]].price)
                 /\ Len(ring'[side]) = Len(ring[side]) + 1
                 /\ \A j \in 1 .. Len(ring[side]) + 1 :
                       ring'[side][j] = IF j < pos THEN ring[side][j]
                                        ELSE IF j = pos THEN PriceToIndex(price)
                                        ELSE ring[side][j - 1]
  <1>1. ring \in [Sides -> Seq(Index)] /\ ring[side] \in Seq(Index)
    BY DEF BookInv, TypeOK
  <1>2. PriceToIndex(price) \in Index
    BY IndexOfPrice, InputsAssumption
  <1>3. Len(ring[side]) \in Nat
    BY <1>1, LenProperties
  <1>4. PICK pos \in 1 .. Len(ring[side]) + 1 :
          /\ \A k \in 1 .. pos - 1 :
                ~GoesBefore(side, price, levelAt[ring[side][k]].price)
          /\ pos <= Len(ring[side]) =>
                GoesBefore(side, price, levelAt[ring[side][pos]].price)
          /\ ring' = [ring EXCEPT ![side] = InsertAt(@, pos, PriceToIndex(price))]
    BY DEF InsertLevel
  <1>. DEFINE longer == InsertAt(ring[side], pos, PriceToIndex(price))
  <1>5. /\ longer \in Seq(Index) /\ Len(longer) = Len(ring[side]) + 1
        /\ \A j \in 1 .. Len(ring[side]) + 1 :
              longer[j] = IF j < pos THEN ring[side][j]
                          ELSE IF j = pos THEN PriceToIndex(price) ELSE ring[side][j - 1]
    <2>1. IsInsertion(longer, ring[side], pos, PriceToIndex(price), Index)
      BY <1>1, <1>2, Inserted, Zenon
    <2>. HIDE DEF longer
    <2>. QED  BY <2>1 DEF IsInsertion
  <1>6. ring' = [ring EXCEPT ![side] = longer]
    BY <1>4
  <1>. HIDE DEF longer
  <1>7. /\ ring' \in [Sides -> Seq(Index)] /\ ring'[side] = longer
        /\ \A other \in Sides : other # side => ring'[other] = ring[other]
    BY <1>1, <1>5, <1>6
  <1>. QED  BY <1>3, <1>4, <1>5, <1>7

\* What an order that comes to rest leaves of the invariant; the table, the response
\* and the market are the business of the two actions.
LEMMA RestsKeepsBook ==
    ASSUME BookInv, NEW clientId \in Clients, NEW clientOrderId \in ClientOrderIds,
           NEW side \in Sides, NEW price \in Prices, NEW qty,
           Rests(clientId, clientOrderId, side, price, qty)
    PROVE  /\ nextOrderId' = nextOrderId + 1 /\ nextOrderId' \in Nat
           /\ DOMAIN orders' = DOMAIN orders \cup {nextOrderId}
           /\ DOMAIN orders' \subseteq 0 .. nextOrderId' - 1
           /\ \A o \in DOMAIN orders : orders'[o] = orders[o]
           /\ \A o \in DOMAIN orders' : orders'[o] \in Order /\ orders'[o].id = o
           /\ levelAt' \in [Index -> Level]
           /\ ring' \in [Sides -> Seq(Index)]
           /\ LevelsLeadToOrders' /\ RingsHoldLevels' /\ OneOrderPerLevel'
  <1>. DEFINE i     == PriceToIndex(price)
              order == NewOrder(clientId, clientOrderId, side, price)
              level == [side |-> side, price |-> price, first |-> nextOrderId]
  <1>1. /\ i \in Index /\ levelAt[i].first = None
        /\ order \in Order /\ order.id = nextOrderId /\ order.side = side
        /\ order.price = price /\ order.priority = 1
        /\ order.prev = None /\ order.next = None
        /\ orders' = [o \in DOMAIN orders \cup {nextOrderId} |->
                        IF o = nextOrderId THEN order ELSE orders[o]]
        /\ levelAt' = [levelAt EXCEPT ![i] = level]
        /\ InsertLevel(side, price)
    <2>1. RestEffect(clientId, clientOrderId, side, price)
      BY RestsIs
    <2>. QED  BY <2>1, Zenon DEF RestEffect, NewOrder
  <1>. HIDE DEF order
  <1>2. /\ nextOrderId \in Nat /\ DOMAIN orders \subseteq 0 .. nextOrderId - 1
        /\ \A o \in DOMAIN orders : orders[o] \in Order /\ orders[o].id = o
        /\ levelAt \in [Index -> Level]
    BY DEF BookInv, TypeOK
  <1>3. nextOrderId' = nextOrderId + 1
    BY AcceptIs DEF Rests, BookInv
  <1>4. /\ DOMAIN orders' = DOMAIN orders \cup {nextOrderId}
        /\ nextOrderId \notin DOMAIN orders
        /\ orders'[nextOrderId] = order
        /\ \A o \in DOMAIN orders : orders'[o] = orders[o]
    BY <1>1, <1>2
  <1>5. /\ DOMAIN orders' \subseteq 0 .. nextOrderId' - 1
        /\ \A o \in DOMAIN orders' : orders'[o] \in Order /\ orders'[o].id = o
    BY <1>1, <1>2, <1>3, <1>4
  <1>6. price \in Nat
    BY InputsAssumption
  <1>7. /\ level \in Level /\ level.side = side /\ level.price = price
        /\ level.first = nextOrderId /\ nextOrderId # None
    BY <1>2, <1>6 DEF Level, None
  <1>. HIDE DEF level
  <1>8. /\ levelAt' \in [Index -> Level] /\ levelAt'[i] = level
        /\ \A j \in Index : j # i => levelAt'[j] = levelAt[j]
    BY <1>1, <1>2, <1>7
  <1>9. UsedLevels' = UsedLevels \cup {i} /\ i \notin UsedLevels
    BY <1>1, <1>7, <1>8 DEF UsedLevels
  <1>10. /\ ring' \in [Sides -> Seq(Index)]
         /\ \A other \in Sides : other # side => ring'[other] = ring[other]
         /\ Len(ring[side]) \in Nat
    BY <1>1, InsertLevelIs
  <1>11. PICK pos \in 1 .. Len(ring[side]) + 1 :
           /\ Len(ring'[side]) = Len(ring[side]) + 1
           /\ \A j \in 1 .. Len(ring[side]) + 1 :
                 ring'[side][j] = IF j < pos THEN ring[side][j]
                                  ELSE IF j = pos THEN i ELSE ring[side][j - 1]
    BY <1>1, InsertLevelIs
  <1>12. /\ DOMAIN ring[side] = 1 .. Len(ring[side])
         /\ DOMAIN ring'[side] = 1 .. Len(ring[side]) + 1
    BY <1>10, <1>11, LenProperties DEF BookInv, TypeOK
  <1>13. LevelsLeadToOrders'
    <2>. SUFFICES ASSUME NEW j \in UsedLevels'
                  PROVE  /\ PriceToIndex(levelAt'[j].price) = j
                         /\ levelAt'[j].side \in Sides
                         /\ levelAt'[j].first \in DOMAIN orders'
                         /\ orders'[levelAt'[j].first].side = levelAt'[j].side
                         /\ orders'[levelAt'[j].first].price = levelAt'[j].price
                         /\ \E k \in DOMAIN ring'[levelAt'[j].side] :
                               ring'[levelAt'[j].side][k] = j
      BY DEF LevelsLeadToOrders, UsedLevels
    <2>1. CASE j = i
      <3>1. pos \in DOMAIN ring'[side] /\ ring'[side][pos] = i
        BY <1>10, <1>11, <1>12
      <3>. QED  BY <2>1, <3>1, <1>1, <1>4, <1>7, <1>8
    <2>2. CASE j # i
      <3>1. j \in UsedLevels /\ j \in Index /\ levelAt'[j] = levelAt[j]
        BY <1>8, <1>9, <2>2 DEF UsedLevels
      <3>2. /\ PriceToIndex(levelAt[j].price) = j /\ levelAt[j].side \in Sides
            /\ levelAt[j].first \in DOMAIN orders
            /\ orders[levelAt[j].first].side = levelAt[j].side
            /\ orders[levelAt[j].first].price = levelAt[j].price
        BY <3>1 DEF BookInv, LevelsLeadToOrders
      <3>3. PICK k \in DOMAIN ring[levelAt[j].side] : ring[levelAt[j].side][k] = j
        BY <3>1 DEF BookInv, LevelsLeadToOrders
      <3>4. \E l \in DOMAIN ring'[levelAt[j].side] : ring'[levelAt[j].side][l] = j
        <4>1. CASE levelAt[j].side # side
          BY <1>10, <3>2, <3>3, <4>1
        <4>2. CASE levelAt[j].side = side /\ k < pos
          <5>1. k \in DOMAIN ring'[side] /\ ring'[side][k] = j
            BY <1>10, <1>11, <1>12, <3>3, <4>2
          <5>. QED  BY <4>2, <5>1
        <4>3. CASE levelAt[j].side = side /\ ~(k < pos)
          <5>1. k + 1 \in DOMAIN ring'[side] /\ ring'[side][k + 1] = j
            BY <1>10, <1>11, <1>12, <3>3, <4>3
          <5>. QED  BY <4>3, <5>1
        <4>. QED  BY <4>1, <4>2, <4>3
      <3>. QED  BY <1>4, <3>1, <3>2, <3>4
    <2>. QED  BY <2>1, <2>2
  <1>14. RingsHoldLevels'
    <2>. SUFFICES ASSUME NEW s \in Sides, NEW k \in DOMAIN ring'[s]
                  PROVE  /\ ring'[s][k] \in UsedLevels'
                         /\ levelAt'[ring'[s][k]].side = s
      BY DEF RingsHoldLevels
    <2>1. ASSUME NEW l \in DOMAIN ring[s]
          PROVE  /\ ring[s][l] \in UsedLevels' /\ levelAt'[ring[s][l]].side = s
      <3>1. ring[s][l] \in UsedLevels /\ levelAt[ring[s][l]].side = s
        BY DEF BookInv, RingsHoldLevels
      <3>. QED  BY <1>8, <1>9, <3>1 DEF UsedLevels
    <2>2. CASE s # side
      BY <1>10, <2>1, <2>2
    <2>3. CASE s = side
      <3>1. CASE k = pos
        BY <1>7, <1>8, <1>9, <1>11, <1>12, <2>3, <3>1
      <3>2. CASE k < pos
        BY <1>10, <1>11, <1>12, <2>1, <2>3, <3>2
      <3>3. CASE k > pos
        <4>1. k - 1 \in DOMAIN ring[side] /\ ring'[side][k] = ring[side][k - 1]
          BY <1>10, <1>11, <1>12, <2>3, <3>3
        <4>. QED  BY <2>1, <2>3, <4>1
      <3>. QED  BY <1>10, <1>12, <2>3, <3>1, <3>2, <3>3
    <2>. QED  BY <2>2, <2>3
  <1>15. OneOrderPerLevel'
    <2>. SUFFICES ASSUME NEW o \in DOMAIN orders'
                  PROVE  /\ levelAt'[PriceToIndex(orders'[o].price)].first = o
                         /\ orders'[o].prev = None /\ orders'[o].next = None
                         /\ orders'[o].priority = 1
      BY DEF OneOrderPerLevel, GetOrdersAtPrice, PriceToIndex
    <2>1. CASE o = nextOrderId
      BY <1>1, <1>4, <1>7, <1>8, <2>1
    <2>2. CASE o \in DOMAIN orders
      <3>1. /\ PriceToIndex(orders[o].price) \in Index
            /\ PriceToIndex(orders[o].price) \in UsedLevels
            /\ levelAt[PriceToIndex(orders[o].price)].first = o
            /\ orders[o].prev = None /\ orders[o].next = None /\ orders[o].priority = 1
        BY <2>2, RestingOrder DEF BookInv, OneOrderPerLevel
      <3>. QED  BY <1>4, <1>8, <1>9, <2>2, <3>1
    <2>. QED  BY <1>4, <2>1, <2>2
  <1>. QED  BY <1>2, <1>3, <1>4, <1>5, <1>8, <1>10, <1>13, <1>14, <1>15

-----------------------------------------------------------------------------
(* The actions.                                                            *)

LEMMA AddStep ==
    ASSUME BookInv, NEW clientId \in Clients, NEW clientOrderId \in ClientOrderIds,
           NEW side \in Sides, NEW price \in Prices, NEW qty \in Quantities,
           Add(clientId, clientOrderId, side, price, qty)
    PROVE  BookInv'
  <1>1. TypeOK
    BY DEF BookInv
  <1>2. CASE AddSpins(clientId, side, price, qty)
    <2>1. Accept(clientId) /\ UNCHANGED book /\ halted' \in Halts
      BY <1>2 DEF AddSpins, Halts
    <2>. QED  BY <1>1, <2>1, AcceptIs, BookStays
  <1>3. CASE AddNothing(clientId, qty)
    <2>1. Accept(clientId) /\ UNCHANGED book /\ halted' \in Halts
      BY <1>1, <1>3 DEF AddNothing, TypeOK
    <2>. QED  BY <1>1, <2>1, AcceptIs, BookStays
  <1>4. CASE AddBehindOrder(clientId, side, price, qty)
    <2>1. Accept(clientId) /\ UNCHANGED book /\ halted' \in Halts
      BY <1>4 DEF AddBehindOrder, Halts
    <2>. QED  BY <1>1, <2>1, AcceptIs, BookStays
  <1>5. CASE AddExhausts(clientId, side, price, qty)
    <2>1. Accept(clientId) /\ UNCHANGED book /\ halted' \in Halts
      BY <1>5 DEF AddExhausts, Halts
    <2>. QED  BY <1>1, <2>1, AcceptIs, BookStays
  <1>6. ASSUME Rests(clientId, clientOrderId, side, price, qty),
               table' \in [Cells -> Int], halted' \in Halts, TableLeadsToOrders'
        PROVE  BookInv'
    <2>1. Accept(clientId)
      BY <1>6 DEF Rests
    <2>2. response'.type = "ACCEPTED" /\ build' \in Builds /\ processed' \in Nat
      BY <1>1, <2>1, AcceptIs DEF TypeOK
    <2>3. TypeOK'
      BY <1>6, <2>2, RestsKeepsBook DEF TypeOK
    <2>. QED  BY <1>6, <2>3, RestsKeepsBook DEF BookInv
  <1>7. CASE AddWritesBeyondRow(clientId, clientOrderId, side, price, qty)
    <2>1. /\ Rests(clientId, clientOrderId, side, price, qty)
          /\ table' = table /\ halted' \in Halts
      BY <1>7 DEF AddWritesBeyondRow, Halts
    <2>2. TableLeadsToOrders'
      <3>1. /\ DOMAIN orders \subseteq DOMAIN orders'
            /\ \A o \in DOMAIN orders : orders'[o] = orders[o]
        BY <2>1, RestsKeepsBook
      <3>. QED  BY <2>1, <3>1 DEF BookInv, TableLeadsToOrders
    <2>. QED  BY <1>1, <1>6, <2>1, <2>2 DEF TypeOK
  <1>8. CASE AddRests(clientId, clientOrderId, side, price, qty)
    <2>1. /\ Cell(clientId, clientOrderId) \in Cells
          /\ Rests(clientId, clientOrderId, side, price, qty)
          /\ table' = [table EXCEPT ![Cell(clientId, clientOrderId)] = nextOrderId]
      BY <1>8 DEF AddRests
    <2>2. halted' \in Halts
      BY <1>1, <1>8 DEF AddRests, Halts, TypeOK
    <2>3. table \in [Cells -> Int] /\ nextOrderId \in Nat
      BY <1>1 DEF TypeOK
    <2>4. table' \in [Cells -> Int]
      BY <2>1, <2>3
    <2>5. /\ DOMAIN orders' = DOMAIN orders \cup {nextOrderId}
          /\ \A o \in DOMAIN orders : orders'[o] = orders[o]
      BY <2>1, RestsKeepsBook
    <2>6. /\ orders'[nextOrderId].client = clientId
          /\ orders'[nextOrderId].clientOrderId = clientOrderId
      BY <2>1, RestsIs DEF RestEffect
    <2>7. TableLeadsToOrders'
      <3>. SUFFICES ASSUME NEW cell \in Cells, table'[cell] >= 0
                    PROVE  /\ table'[cell] \in DOMAIN orders'
                           /\ Cell(orders'[table'[cell]].client,
                                   orders'[table'[cell]].clientOrderId) = cell
        BY DEF TableLeadsToOrders
      <3>1. CASE cell = Cell(clientId, clientOrderId)
        BY <2>1, <2>3, <2>5, <2>6, <3>1
      <3>2. CASE cell # Cell(clientId, clientOrderId)
        <4>1. table'[cell] = table[cell]
          BY <2>1, <2>3, <3>2
        <4>. QED  BY <2>5, <4>1 DEF BookInv, TableLeadsToOrders
      <3>. QED  BY <3>1, <3>2
    <2>. QED  BY <1>6, <2>1, <2>2, <2>4, <2>7
  <1>. QED  BY <1>2, <1>3, <1>4, <1>5, <1>7, <1>8 DEF Add

\* A client's own ids have their cells in the table ...
LEMMA CellOfClient ==
    ASSUME NEW clientId \in Clients, NEW id \in Nat, id < MaxOrderIds
    PROVE  Cell(clientId, id) \in Cells
  <1>1. /\ clientId \in Nat /\ NumClients \in Nat /\ MaxOrderIds \in Nat
        /\ clientId <= NumClients - 1
    BY SizesAssumption DEF Clients
  <1>2. clientId * MaxOrderIds \in Nat /\ NumClients * MaxOrderIds \in Nat
    BY <1>1
  <1>3. clientId * MaxOrderIds <= (NumClients - 1) * MaxOrderIds
    BY <1>1
  <1>4. (NumClients - 1) * MaxOrderIds = NumClients * MaxOrderIds - MaxOrderIds
    BY <1>1
  <1>. QED  BY <1>1, <1>2, <1>3, <1>4 DEF Cell, Cells

\* ... which no two clients share.
LEMMA CellsApart ==
    ASSUME NEW a \in Clients, NEW b \in Clients, NEW i \in Nat, NEW j \in Nat,
           i < MaxOrderIds, j < MaxOrderIds, Cell(a, i) = Cell(b, j)
    PROVE  a = b
  <1>1. a \in Nat /\ b \in Nat /\ MaxOrderIds \in Nat
    BY SizesAssumption DEF Clients
  <1>2. ASSUME NEW c \in Nat, NEW d \in Nat, c < d
        PROVE  c * MaxOrderIds + MaxOrderIds <= d * MaxOrderIds
    <2>1. (c + 1) * MaxOrderIds <= d * MaxOrderIds
      BY <1>1, <1>2
    <2>2. (c + 1) * MaxOrderIds = c * MaxOrderIds + MaxOrderIds
      BY <1>1, <1>2
    <2>. QED  BY <2>1, <2>2
  <1>3. a * MaxOrderIds \in Nat /\ b * MaxOrderIds \in Nat
    BY <1>1
  <1>4. a * MaxOrderIds + i = b * MaxOrderIds + j
    BY DEF Cell
  <1>5. ~(a < b) /\ ~(b < a)
    BY <1>1, <1>2, <1>3, <1>4
  <1>. QED  BY <1>1, <1>5

\* What a cancel that goes through finds, and what it leaves.
CancelEffect(clientId, clientOrderId) ==
    LET cell  == Cell(clientId, clientOrderId)
        id    == table[cell]
        order == orders[id]
        i     == PriceToIndex(order.price)
    IN  /\ cell \in Cells /\ clientOrderId < MaxOrderIds
        /\ id \in DOMAIN orders
        /\ Cell(order.client, order.clientOrderId) = cell
        /\ i \in UsedLevels /\ levelAt[i].first = id
        /\ order.side \in Sides /\ levelAt[i].side = order.side
        /\ Len(ring[order.side]) = 1 /\ ring[order.side][1] = i
        /\ DOMAIN ring[order.side] = {1}
        /\ levelAt' = [levelAt EXCEPT ![i] = NoLevel]
        /\ ring' = [ring EXCEPT ![order.side] = <<>>]
        /\ orders' = [o \in DOMAIN orders \ {id} |-> orders[o]]
        /\ table' = [table EXCEPT ![cell] = None]
        /\ market' = [o \in DOMAIN market \ {id} |-> market[o]]
        /\ response'.type = "CANCELED" /\ response'.client = clientId
        /\ nextOrderId' = nextOrderId /\ halted' = halted /\ build' = build
        /\ processed' = processed + 1

\* A cancel that goes through takes the last order of its side.
LEMMA CancelRemovesIs ==
    ASSUME BookInv, NEW clientId \in Clients, NEW clientOrderId \in ClientOrderIds,
           CancelRemoves(clientId, clientOrderId)
    PROVE  CancelEffect(clientId, clientOrderId)
  <1>. DEFINE cell  == Cell(clientId, clientOrderId)
              id    == table[cell]
              order == orders[id]
              i     == PriceToIndex(order.price)
  <1>1. clientOrderId \in Nat /\ clientOrderId < MaxOrderIds /\ id >= 0
    <2>1. Cancellable(clientId, clientOrderId)
      BY DEF CancelRemoves
    <2>. QED  BY <2>1, InputsAssumption DEF Cancellable
  <1>2. cell \in Cells
    BY <1>1, CellOfClient
  <1>3. id \in DOMAIN orders /\ Cell(order.client, order.clientOrderId) = cell
    BY <1>1, <1>2 DEF BookInv, TableLeadsToOrders
  <1>4. /\ order \in Order /\ order.id = id /\ i \in UsedLevels /\ levelAt[i].first = id
        /\ order.prev = None
    BY <1>3, RestingOrder, ZenonT(30)
  <1>5. /\ levelAt[i].side = order.side /\ order.side \in Sides
        /\ \E k \in DOMAIN ring[order.side] : ring[order.side][k] = i
    <2>1. /\ levelAt[i].side \in Sides /\ orders[levelAt[i].first].side = levelAt[i].side
          /\ \E k \in DOMAIN ring[levelAt[i].side] : ring[levelAt[i].side][k] = i
      BY <1>4 DEF BookInv, LevelsLeadToOrders
    <2>. QED  BY <1>4, <2>1, ZenonT(30)
  <1>6. OnlyLevel(order) /\ RemoveLevel(order)
    BY <1>4 DEF CancelRemoves
  <1>7. Len(ring[order.side]) = 1
    BY <1>5, <1>6 DEF OnlyLevel, GetOrdersAtPrice
  <1>8. ring \in [Sides -> Seq(Index)] /\ ring[order.side] \in Seq(Index)
    BY <1>5 DEF BookInv, TypeOK
  <1>9. DOMAIN ring[order.side] = {1} /\ ring[order.side][1] = i
    BY <1>5, <1>7, <1>8, LenProperties
  <1>10. ring' = [ring EXCEPT ![order.side] = <<>>]
    BY <1>6, <1>7, <1>8, RemovedOnly DEF RemoveLevel
  <1>11. /\ levelAt' = [levelAt EXCEPT ![i] = NoLevel]
         /\ orders' = [o \in DOMAIN orders \ {id} |-> orders[o]]
    BY <1>4, <1>6 DEF RemoveLevel
  <1>12. /\ table' = [table EXCEPT ![cell] = None]
         /\ market' = [o \in DOMAIN market \ {id} |-> market[o]]
         /\ response'.type = "CANCELED" /\ response'.client = clientId
         /\ nextOrderId' = nextOrderId /\ halted' = halted /\ build' = build
         /\ processed' = processed + 1
    BY <1>3, <1>4 DEF CancelRemoves, Cancellable, Request
  <1>. QED  BY <1>1, <1>2, <1>3, <1>4, <1>5, <1>7, <1>9, <1>10, <1>11, <1>12 DEF CancelEffect

LEMMA CancelRemovesStep ==
    ASSUME BookInv, NEW clientId \in Clients, NEW clientOrderId \in ClientOrderIds,
           CancelRemoves(clientId, clientOrderId)
    PROVE  BookInv'
  <1>. DEFINE cell  == Cell(clientId, clientOrderId)
              id    == table[cell]
              order == orders[id]
              i     == PriceToIndex(order.price)
  <1>1. /\ cell \in Cells /\ id \in DOMAIN orders
        /\ Cell(order.client, order.clientOrderId) = cell
        /\ i \in UsedLevels /\ levelAt[i].first = id
        /\ order.side \in Sides /\ levelAt[i].side = order.side
        /\ ring[order.side][1] = i /\ DOMAIN ring[order.side] = {1}
    <2>1. CancelEffect(clientId, clientOrderId)
      BY CancelRemovesIs
    <2>. QED  BY <2>1 DEF CancelEffect
  <1>2. /\ levelAt' = [levelAt EXCEPT ![i] = NoLevel]
        /\ ring' = [ring EXCEPT ![order.side] = <<>>]
        /\ orders' = [o \in DOMAIN orders \ {id} |-> orders[o]]
        /\ table' = [table EXCEPT ![cell] = None]
        /\ response'.type = "CANCELED"
        /\ nextOrderId' = nextOrderId /\ halted' = halted /\ build' = build
        /\ processed' = processed + 1
    BY CancelRemovesIs DEF CancelEffect
  <1>. HIDE DEF cell, id, order, i
  <1>3. /\ nextOrderId \in Nat /\ DOMAIN orders \subseteq 0 .. nextOrderId - 1
        /\ \A o \in DOMAIN orders : orders[o] \in Order /\ orders[o].id = o
        /\ levelAt \in [Index -> Level] /\ ring \in [Sides -> Seq(Index)]
        /\ table \in [Cells -> Int] /\ halted \in Halts /\ build \in Builds
        /\ processed \in Nat
    BY DEF BookInv, TypeOK
  <1>4. NoLevel \in Level /\ NoLevel.first = None
    BY DEF NoLevel, Level, None
  <1>5. /\ DOMAIN orders' = DOMAIN orders \ {id}
        /\ \A o \in DOMAIN orders' : orders'[o] = orders[o]
    BY <1>2
  <1>6. /\ levelAt' \in [Index -> Level] /\ levelAt'[i] = NoLevel
        /\ \A j \in Index : j # i => levelAt'[j] = levelAt[j]
    BY <1>1, <1>2, <1>3, <1>4 DEF UsedLevels
  <1>7. UsedLevels' = UsedLevels \ {i}
    BY <1>4, <1>6 DEF UsedLevels
  <1>8. /\ ring' \in [Sides -> Seq(Index)] /\ ring'[order.side] = <<>>
        /\ \A s \in Sides : s # order.side => ring'[s] = ring[s]
    BY <1>1, <1>2, <1>3, EmptySeq
  <1>9. /\ table' \in [Cells -> Int]
        /\ \A c \in Cells : table'[c] = IF c = cell THEN None ELSE table[c]
    BY <1>1, <1>2, <1>3 DEF None
  <1>10. TypeOK'
    BY <1>2, <1>3, <1>5, <1>6, <1>8, <1>9 DEF TypeOK
  <1>11. LevelsLeadToOrders'
    <2>. SUFFICES ASSUME NEW j \in UsedLevels'
                  PROVE  /\ PriceToIndex(levelAt'[j].price) = j
                         /\ levelAt'[j].side \in Sides
                         /\ levelAt'[j].first \in DOMAIN orders'
                         /\ orders'[levelAt'[j].first].side = levelAt'[j].side
                         /\ orders'[levelAt'[j].first].price = levelAt'[j].price
                         /\ \E k \in DOMAIN ring'[levelAt'[j].side] :
                               ring'[levelAt'[j].side][k] = j
      BY DEF LevelsLeadToOrders, UsedLevels
    <2>1. j \in UsedLevels /\ j \in Index /\ j # i /\ levelAt'[j] = levelAt[j]
      BY <1>6, <1>7 DEF UsedLevels
    <2>2. /\ PriceToIndex(levelAt[j].price) = j /\ levelAt[j].side \in Sides
          /\ levelAt[j].first \in DOMAIN orders
          /\ orders[levelAt[j].first].side = levelAt[j].side
          /\ orders[levelAt[j].first].price = levelAt[j].price
          /\ \E k \in DOMAIN ring[levelAt[j].side] : ring[levelAt[j].side][k] = j
      BY <2>1 DEF BookInv, LevelsLeadToOrders
    <2>3. levelAt[j].first # id
      BY <2>1, <2>2 DEF i, order
    <2>4. levelAt[j].side # order.side
      BY <1>1, <2>1, <2>2
    <2>. QED  BY <1>5, <1>8, <2>1, <2>2, <2>3, <2>4
  <1>12. RingsHoldLevels'
    <2>. SUFFICES ASSUME NEW s \in Sides, NEW k \in DOMAIN ring'[s]
                  PROVE  /\ ring'[s][k] \in UsedLevels'
                         /\ levelAt'[ring'[s][k]].side = s
      BY DEF RingsHoldLevels
    <2>1. s # order.side
      BY <1>8
    <2>2. ring'[s][k] \in UsedLevels /\ levelAt[ring'[s][k]].side = s
      BY <1>8, <2>1 DEF BookInv, RingsHoldLevels
    <2>3. ring'[s][k] # i
      BY <1>1, <2>1, <2>2
    <2>. QED  BY <1>6, <1>7, <2>2, <2>3 DEF UsedLevels
  <1>13. TableLeadsToOrders'
    <2>. SUFFICES ASSUME NEW c \in Cells, table'[c] >= 0
                  PROVE  /\ table'[c] \in DOMAIN orders'
                         /\ Cell(orders'[table'[c]].client,
                                 orders'[table'[c]].clientOrderId) = c
      BY DEF TableLeadsToOrders
    <2>1. c # cell /\ table'[c] = table[c]
      BY <1>9 DEF None
    <2>2. /\ table[c] \in DOMAIN orders
          /\ Cell(orders[table[c]].client, orders[table[c]].clientOrderId) = c
      BY <2>1 DEF BookInv, TableLeadsToOrders
    <2>3. table[c] # id
      BY <1>1, <2>1, <2>2 DEF order
    <2>. QED  BY <1>5, <2>1, <2>2, <2>3
  <1>14. OneOrderPerLevel'
    <2>. SUFFICES ASSUME NEW o \in DOMAIN orders'
                  PROVE  /\ levelAt'[PriceToIndex(orders'[o].price)].first = o
                         /\ orders'[o].prev = None /\ orders'[o].next = None
                         /\ orders'[o].priority = 1
      BY DEF OneOrderPerLevel, GetOrdersAtPrice, PriceToIndex
    <2>1. o \in DOMAIN orders /\ o # id /\ orders'[o] = orders[o]
      BY <1>5
    <2>2. /\ PriceToIndex(orders[o].price) \in Index
          /\ levelAt[PriceToIndex(orders[o].price)].first = o
          /\ orders[o].prev = None /\ orders[o].next = None /\ orders[o].priority = 1
      BY <2>1, RestingOrder DEF BookInv, OneOrderPerLevel
    <2>. QED  BY <1>1, <1>6, <2>1, <2>2
  <1>. QED  BY <1>10, <1>11, <1>12, <1>13, <1>14 DEF BookInv

LEMMA CancelStep ==
    ASSUME BookInv, NEW clientId \in Clients, NEW clientOrderId \in ClientOrderIds,
           Cancel(clientId, clientOrderId)
    PROVE  BookInv'
  <1>1. /\ response.type \in {"INVALID", "ACCEPTED", "CANCELED", "CANCEL_REJECTED"}
        /\ processed \in Nat /\ halted \in Halts
    BY DEF BookInv, TypeOK
  <1>2. CASE CancelThrows(clientId, clientOrderId)
    <2>1. /\ UNCHANGED <<book, nextOrderId, response, build>> /\ halted' \in Halts
          /\ processed' = processed + 1
      BY <1>2 DEF CancelThrows, Request, Halts
    <2>. QED  BY <1>1, <2>1, BookStays
  <1>3. CASE CancelFollowsWildPointer(clientId, clientOrderId)
    <2>1. /\ UNCHANGED <<book, nextOrderId, response, build>> /\ halted' \in Halts
          /\ processed' = processed + 1
      BY <1>3 DEF CancelFollowsWildPointer, Request, Halts
    <2>. QED  BY <1>1, <2>1, BookStays
  <1>4. CASE CancelRelinksNull(clientId, clientOrderId)
    <2>1. /\ UNCHANGED <<book, nextOrderId, response, build>> /\ halted' \in Halts
          /\ processed' = processed + 1
      BY <1>4 DEF CancelRelinksNull, Cancellable, Request, Halts
    <2>. QED  BY <1>1, <2>1, BookStays
  <1>5. CASE CancelRejected(clientId, clientOrderId)
    <2>1. /\ UNCHANGED <<orders, levelAt, ring, nextOrderId, build, halted>>
          /\ processed' = processed + 1 /\ response'.type = "CANCEL_REJECTED"
          /\ table' = [table EXCEPT ![Cell(clientId, clientOrderId)] = None]
      BY <1>5 DEF CancelRejected, Request
    <2>2. table \in [Cells -> Int]
      BY DEF BookInv, TypeOK
    <2>3. /\ table' \in [Cells -> Int]
          /\ \A c \in Cells : table'[c] \in {None, table[c]}
      <3>. DEFINE cell == Cell(clientId, clientOrderId)
      <3>1. table' = [table EXCEPT ![cell] = None] /\ None \in Int
        BY <2>1 DEF None
      <3>. HIDE DEF cell
      <3>. QED  BY <2>2, <3>1
    <2>4. TypeOK'
      BY <1>1, <2>1, <2>3 DEF BookInv, TypeOK
    <2>5. LevelsLeadToOrders' /\ RingsHoldLevels'
      BY <2>1 DEF BookInv, LevelsLeadToOrders, RingsHoldLevels, UsedLevels
    <2>6. TableLeadsToOrders'
      BY <2>1, <2>3 DEF BookInv, TableLeadsToOrders, None
    <2>7. OneOrderPerLevel'
      BY <2>1 DEF BookInv, OneOrderPerLevel, GetOrdersAtPrice
    <2>. QED  BY <2>4, <2>5, <2>6, <2>7 DEF BookInv
  <1>. QED  BY <1>2, <1>3, <1>4, <1>5, CancelRemovesStep DEF Cancel

LEMMA BookStep == ASSUME BookInv, [Next]_vars PROVE BookInv'
  <1>1. CASE UNCHANGED vars
    <2>1. /\ UNCHANGED <<book, nextOrderId, response, halted, build, processed>>
          /\ response.type \in {"INVALID", "ACCEPTED", "CANCELED", "CANCEL_REJECTED"}
          /\ halted \in Halts /\ processed \in Nat
      BY <1>1 DEF vars, BookInv, TypeOK
    <2>. QED  BY <2>1, BookStays
  <1>. QED  BY <1>1, AddStep, CancelStep DEF Next

LEMMA BookInvariance == Spec => []BookInv
  BY BookInit, BookStep, PTL DEF Spec

\* The maps, the lists and the pool agree after every call, while the process lives
\* and at the call that ends it.
THEOREM BookIsConsistent == Spec => []BookConsistent
  <1>1. BookInv => BookConsistent
    BY DEF BookInv, BookConsistent
  <1>. QED  BY <1>1, BookInvariance, PTL

\* No level ever has a second order.
THEOREM BookCorrect == Spec => [](TypeOK /\ OneOrderPerLevel)
  <1>1. BookInv => TypeOK /\ OneOrderPerLevel
    BY DEF BookInv
  <1>. QED  BY <1>1, BookInvariance, PTL

-----------------------------------------------------------------------------
(* What a step may do to the orders.                                       *)

LEMMA OnlyCancelsRemove ==
    ASSUME BookInv, [Next]_vars, NEW o \in DOMAIN orders, o \notin DOMAIN orders'
    PROVE  \E clientId \in Clients, clientOrderId \in ClientOrderIds :
              CancelRemoves(clientId, clientOrderId) /\ o = table[Cell(clientId, clientOrderId)]
  <1>1. ASSUME NEW clientId \in Clients, NEW clientOrderId \in ClientOrderIds,
               NEW side \in Sides, NEW price \in Prices, NEW qty \in Quantities,
               Add(clientId, clientOrderId, side, price, qty)
        PROVE  FALSE
    <2>1. CASE Rests(clientId, clientOrderId, side, price, qty)
      BY <2>1, RestsKeepsBook
    <2>2. CASE orders' = orders
      BY <2>2
    <2>. QED  BY <1>1, <2>1, <2>2 DEF Add, AddSpins, AddNothing, AddBehindOrder,
                 AddExhausts, AddWritesBeyondRow, AddRests, book
  <1>2. ASSUME NEW clientId \in Clients, NEW clientOrderId \in ClientOrderIds,
               Cancel(clientId, clientOrderId)
        PROVE  /\ CancelRemoves(clientId, clientOrderId)
               /\ o = table[Cell(clientId, clientOrderId)]
    <2>1. CASE CancelRemoves(clientId, clientOrderId)
      <3>. DEFINE id == table[Cell(clientId, clientOrderId)]
      <3>1. orders' = [x \in DOMAIN orders \ {id} |-> orders[x]]
        BY <2>1, CancelRemovesIs DEF CancelEffect
      <3>. HIDE DEF id
      <3>2. o = id
        BY <3>1
      <3>. QED  BY <2>1, <3>2 DEF id
    <2>2. CASE orders' = orders
      BY <2>2
    <2>. QED  BY <1>2, <2>1, <2>2 DEF Cancel, CancelThrows, CancelRejected,
                 CancelFollowsWildPointer, CancelRelinksNull, book
  <1>3. CASE UNCHANGED vars
    BY <1>3 DEF vars, book
  <1>. QED  BY <1>1, <1>2, <1>3 DEF Next

\* A cancel that succeeds leaves its side of the book empty.
THEOREM CancelEmpties == Spec => CancelEmptiesSide
  <1>1. ASSUME BookInv, [Next]_vars, NEW o \in DOMAIN orders \ DOMAIN orders'
        PROVE  ring'[orders[o].side] = <<>>
    <2>1. PICK clientId \in Clients, clientOrderId \in ClientOrderIds :
             /\ CancelRemoves(clientId, clientOrderId)
             /\ o = table[Cell(clientId, clientOrderId)]
      BY <1>1, OnlyCancelsRemove
    <2>2. /\ ring' = [ring EXCEPT ![orders[o].side] = <<>>]
          /\ orders[o].side \in Sides
      BY <1>1, <2>1, CancelRemovesIs DEF CancelEffect
    <2>3. ring \in [Sides -> Seq(Index)]
      BY <1>1 DEF BookInv, TypeOK
    <2>. QED  BY <2>2, <2>3
  <1>2. BookInv /\ [Next]_vars =>
          [\A o \in DOMAIN orders \ DOMAIN orders' : ring'[orders[o].side] = <<>>]_vars
    BY <1>1
  <1>. QED  BY <1>2, BookInvariance, PTL DEF Spec, CancelEmptiesSide

\* A cancel takes away only the client's own order, or one filed beyond its row.
THEOREM CancelOwn == Spec => CancelsOwnOrder
  <1>1. ASSUME BookInv, [Next]_vars, NEW o \in DOMAIN orders \ DOMAIN orders'
        PROVE  \/ orders[o].client = response'.client
               \/ orders[o].clientOrderId >= MaxOrderIds
    <2>1. PICK clientId \in Clients, clientOrderId \in ClientOrderIds :
             /\ CancelRemoves(clientId, clientOrderId)
             /\ o = table[Cell(clientId, clientOrderId)]
      BY <1>1, OnlyCancelsRemove
    <2>2. /\ clientOrderId < MaxOrderIds /\ response'.client = clientId
          /\ Cell(orders[o].client, orders[o].clientOrderId) = Cell(clientId, clientOrderId)
      BY <1>1, <2>1, CancelRemovesIs DEF CancelEffect
    <2>3. orders[o].client \in Clients /\ orders[o].clientOrderId \in Nat
      BY <1>1, RestingOrder DEF Order
    <2>4. clientOrderId \in Nat /\ MaxOrderIds \in Nat
      BY InputsAssumption, SizesAssumption
    <2>5. CASE orders[o].clientOrderId < MaxOrderIds
      BY <2>2, <2>3, <2>4, <2>5, CellsApart
    <2>. QED  BY <2>3, <2>4, <2>5
  <1>2. BookInv /\ [Next]_vars =>
          [\A o \in DOMAIN orders \ DOMAIN orders' :
             \/ orders[o].client = response'.client
             \/ orders[o].clientOrderId >= MaxOrderIds]_vars
    BY <1>1
  <1>. QED  BY <1>2, BookInvariance, PTL DEF Spec, CancelsOwnOrder

-----------------------------------------------------------------------------
(* The order of the levels and their heads.                                *)

LEMMA StepIs ==
    ASSUME [Next]_vars
    PROVE  \/ \E clientId \in Clients, clientOrderId \in ClientOrderIds, side \in Sides,
                 price \in Prices, qty \in Quantities :
                 Rests(clientId, clientOrderId, side, price, qty)
           \/ \E clientId \in Clients, clientOrderId \in ClientOrderIds :
                 CancelRemoves(clientId, clientOrderId)
           \/ UNCHANGED <<orders, levelAt, ring, build>>
  <1>1. ASSUME NEW clientId \in Clients, NEW clientOrderId \in ClientOrderIds,
               NEW side \in Sides, NEW price \in Prices, NEW qty \in Quantities,
               Add(clientId, clientOrderId, side, price, qty)
        PROVE  \/ Rests(clientId, clientOrderId, side, price, qty)
               \/ UNCHANGED <<orders, levelAt, ring, build>>
    BY <1>1 DEF Add, AddSpins, AddNothing, AddBehindOrder, AddExhausts,
                AddWritesBeyondRow, AddRests, Accept, Request, book
  <1>2. ASSUME NEW clientId \in Clients, NEW clientOrderId \in ClientOrderIds,
               Cancel(clientId, clientOrderId)
        PROVE  \/ CancelRemoves(clientId, clientOrderId)
               \/ UNCHANGED <<orders, levelAt, ring, build>>
    BY <1>2 DEF Cancel, CancelThrows, CancelRejected, CancelFollowsWildPointer,
                CancelRelinksNull, Cancellable, Request, book
  <1>3. CASE UNCHANGED vars
    BY <1>3 DEF vars, book
  <1>. QED  BY <1>1, <1>2, <1>3 DEF Next

PriceAt(side, k) == levelAt[ring[side][k]].price

LEMMA PriceAtIsNat ==
    ASSUME BookInv, NEW side \in Sides, NEW k \in DOMAIN ring[side]
    PROVE  /\ ring[side][k] \in UsedLevels /\ ring[side][k] \in Index
           /\ levelAt[ring[side][k]].side = side
           /\ PriceAt(side, k) \in Nat
           /\ PriceToIndex(PriceAt(side, k)) = ring[side][k]
  <1>1. /\ ring[side][k] \in UsedLevels /\ ring[side][k] \in Index
        /\ levelAt[ring[side][k]].side = side
    BY DEF BookInv, RingsHoldLevels, UsedLevels
  <1>2. levelAt[ring[side][k]] \in Level
    BY <1>1 DEF BookInv, TypeOK
  <1>3. PriceToIndex(levelAt[ring[side][k]].price) = ring[side][k]
    BY <1>1 DEF BookInv, LevelsLeadToOrders
  <1>. QED  BY <1>1, <1>2, <1>3 DEF PriceAt, Level

LEMMA GoesBeforeOrders ==
    ASSUME NEW side, NEW a \in Nat, NEW b \in Nat
    PROVE  /\ a # b /\ ~GoesBefore(side, a, b) => GoesBefore(side, b, a)
           /\ \A c \in Nat : GoesBefore(side, a, b) /\ GoesBefore(side, b, c)
                             => GoesBefore(side, a, c)
  BY DEF GoesBefore

Sorted == \A side \in Sides : \A j, k \in DOMAIN ring[side] :
             j < k => GoesBefore(side, PriceAt(side, j), PriceAt(side, k))

LEMMA SortedIs == WorstPriceFirst <=> Sorted
  BY DEF Sorted, WorstPriceFirst, PriceAt, GoesBefore

\* Where the prices of the side stand after an order has come to rest.
LEMMA PricesAfterRests ==
    ASSUME BookInv, NEW clientId \in Clients, NEW clientOrderId \in ClientOrderIds,
           NEW side \in Sides, NEW price \in Prices, NEW qty,
           Rests(clientId, clientOrderId, side, price, qty)
    PROVE  /\ \A s \in Sides : s # side =>
                 /\ ring'[s] = ring[s]
                 /\ \A k \in DOMAIN ring[s] : PriceAt(s, k)' = PriceAt(s, k)
           /\ Len(ring[side]) \in Nat
           /\ DOMAIN ring[side] = 1 .. Len(ring[side])
           /\ DOMAIN ring'[side] = 1 .. Len(ring[side]) + 1
           /\ \A k \in DOMAIN ring[side] : PriceAt(side, k) # price
           /\ \E pos \in 1 .. Len(ring[side]) + 1 :
                 /\ \A k \in 1 .. pos - 1 : ~GoesBefore(side, price, PriceAt(side, k))
                 /\ pos <= Len(ring[side]) => GoesBefore(side, price, PriceAt(side, pos))
                 /\ \A j \in DOMAIN ring'[side] :
                       PriceAt(side, j)' = IF j < pos THEN PriceAt(side, j)
                                           ELSE IF j = pos THEN price
                                           ELSE PriceAt(side, j - 1)
  <1>. DEFINE i == PriceToIndex(price)
  <1>1. /\ i \in Index /\ i \notin UsedLevels
        /\ levelAt' = [levelAt EXCEPT ![i] =
                         [side |-> side, price |-> price, first |-> nextOrderId]]
        /\ InsertLevel(side, price)
    BY RestsIs DEF UsedLevels, RestEffect
  <1>2. levelAt \in [Index -> Level] /\ ring[side] \in Seq(Index)
    BY DEF BookInv, TypeOK
  <1>3. levelAt'[i].price = price
        /\ \A j \in UsedLevels : levelAt'[j] = levelAt[j]
    BY <1>1, <1>2 DEF UsedLevels
  <1>4. /\ Len(ring[side]) \in Nat /\ DOMAIN ring[side] = 1 .. Len(ring[side])
        /\ ring' \in [Sides -> Seq(Index)]
        /\ \A s \in Sides : s # side => ring'[s] = ring[s]
    BY <1>1, <1>2, InsertLevelIs, LenProperties
  <1>5. \A s \in Sides, k \in Nat : k \in DOMAIN ring[s] =>
           levelAt'[ring[s][k]].price = PriceAt(s, k)
    BY <1>3, PriceAtIsNat DEF PriceAt
  <1>6. ASSUME NEW s \in Sides, s # side
        PROVE  /\ ring'[s] = ring[s]
               /\ \A k \in DOMAIN ring[s] : PriceAt(s, k)' = PriceAt(s, k)
    BY <1>3, <1>4, <1>6, PriceAtIsNat DEF PriceAt
  <1>7. ASSUME NEW k \in DOMAIN ring[side] PROVE PriceAt(side, k) # price
    BY <1>1, PriceAtIsNat
  <1>8. PICK pos \in 1 .. Len(ring[side]) + 1 :
          /\ \A k \in 1 .. pos - 1 :
                ~GoesBefore(side, price, levelAt[ring[side][k]].price)
          /\ pos <= Len(ring[side]) =>
                GoesBefore(side, price, levelAt[ring[side][pos]].price)
          /\ Len(ring'[side]) = Len(ring[side]) + 1
          /\ \A j \in 1 .. Len(ring[side]) + 1 :
                ring'[side][j] = IF j < pos THEN ring[side][j]
                                 ELSE IF j = pos THEN i ELSE ring[side][j - 1]
    BY <1>1, InsertLevelIs
  <1>9. DOMAIN ring'[side] = 1 .. Len(ring[side]) + 1
    BY <1>4, <1>8, LenProperties
  <1>10. ASSUME NEW j \in DOMAIN ring'[side]
         PROVE  PriceAt(side, j)' = IF j < pos THEN PriceAt(side, j)
                                    ELSE IF j = pos THEN price ELSE PriceAt(side, j - 1)
    <2>1. PriceAt(side, j)' = levelAt'[ring'[side][j]].price
      BY DEF PriceAt
    <2>2. CASE j < pos
      BY <1>4, <1>5, <1>8, <1>9, <2>1, <2>2
    <2>3. CASE j = pos
      BY <1>3, <1>8, <1>9, <2>1, <2>3
    <2>4. CASE j > pos
      <3>1. j - 1 \in DOMAIN ring[side] /\ j - 1 \in Nat /\ ring'[side][j] = ring[side][j - 1]
        BY <1>4, <1>8, <1>9, <2>4
      <3>2. levelAt'[ring[side][j - 1]].price = PriceAt(side, j - 1)
        BY <1>5, <3>1
      <3>3. PriceAt(side, j)' = PriceAt(side, j - 1)
        BY <2>1, <3>1, <3>2
      <3>. QED  BY <1>4, <1>9, <2>4, <3>3
    <2>. QED  BY <1>4, <1>9, <2>2, <2>3, <2>4
  <1>. QED  BY <1>4, <1>6, <1>7, <1>8, <1>9, <1>10 DEF PriceAt

LEMMA SortedStep ==
    ASSUME BookInv, Sorted, [Next]_vars
    PROVE  Sorted'
  <1>1. ASSUME NEW clientId \in Clients, NEW clientOrderId \in ClientOrderIds,
               NEW side \in Sides, NEW price \in Prices, NEW qty \in Quantities,
               Rests(clientId, clientOrderId, side, price, qty)
        PROVE  Sorted'
    <2>1. /\ \A s \in Sides : s # side =>
                /\ ring'[s] = ring[s]
                /\ \A k \in DOMAIN ring[s] : PriceAt(s, k)' = PriceAt(s, k)
          /\ Len(ring[side]) \in Nat
          /\ DOMAIN ring[side] = 1 .. Len(ring[side])
          /\ DOMAIN ring'[side] = 1 .. Len(ring[side]) + 1
          /\ \A k \in DOMAIN ring[side] : PriceAt(side, k) # price
      BY <1>1, PricesAfterRests
    <2>2. PICK pos \in 1 .. Len(ring[side]) + 1 :
            /\ \A k \in 1 .. pos - 1 : ~GoesBefore(side, price, PriceAt(side, k))
            /\ pos <= Len(ring[side]) => GoesBefore(side, price, PriceAt(side, pos))
            /\ \A j \in DOMAIN ring'[side] :
                  PriceAt(side, j)' = IF j < pos THEN PriceAt(side, j)
                                      ELSE IF j = pos THEN price
                                      ELSE PriceAt(side, j - 1)
      BY <1>1, PricesAfterRests
    <2>3. price \in Nat
      BY InputsAssumption
    \* The levels before the new one are worse, those after it are better.
    <2>4. ASSUME NEW k \in 1 .. pos - 1
          PROVE  GoesBefore(side, PriceAt(side, k), price)
      <3>1. k \in DOMAIN ring[side]
        BY <2>1
      <3>2. PriceAt(side, k) \in Nat /\ PriceAt(side, k) # price
        BY <2>1, <3>1, PriceAtIsNat
      <3>. QED  BY <2>2, <2>3, <3>2, GoesBeforeOrders
    <2>5. ASSUME NEW k \in pos .. Len(ring[side])
          PROVE  GoesBefore(side, price, PriceAt(side, k))
      <3>1. k \in DOMAIN ring[side] /\ pos \in DOMAIN ring[side]
        BY <2>1
      <3>2. PriceAt(side, k) \in Nat /\ PriceAt(side, pos) \in Nat
        BY <3>1, PriceAtIsNat
      <3>3. GoesBefore(side, price, PriceAt(side, pos))
        BY <2>1, <2>2
      <3>4. CASE pos < k
        <4>1. GoesBefore(side, PriceAt(side, pos), PriceAt(side, k))
          BY <3>1, <3>4 DEF Sorted
        <4>. QED  BY <2>3, <3>2, <3>3, <4>1, GoesBeforeOrders
      <3>. QED  BY <2>1, <3>3, <3>4
    <2>6. ASSUME NEW j \in DOMAIN ring'[side], NEW k \in DOMAIN ring'[side], j < k
          PROVE  GoesBefore(side, PriceAt(side, j)', PriceAt(side, k)')
      <3>1. /\ j \in 1 .. Len(ring[side]) + 1 /\ k \in 1 .. Len(ring[side]) + 1
            /\ PriceAt(side, j)' = (IF j < pos THEN PriceAt(side, j)
                                    ELSE IF j = pos THEN price ELSE PriceAt(side, j - 1))
            /\ PriceAt(side, k)' = (IF k < pos THEN PriceAt(side, k)
                                    ELSE IF k = pos THEN price ELSE PriceAt(side, k - 1))
        BY <2>1, <2>2
      <3>2. CASE k < pos
        <4>1. j \in DOMAIN ring[side] /\ k \in DOMAIN ring[side] /\ j < pos
          BY <2>1, <2>6, <3>1, <3>2
        <4>2. GoesBefore(side, PriceAt(side, j), PriceAt(side, k))
          BY <2>6, <4>1 DEF Sorted
        <4>. QED  BY <3>1, <3>2, <4>1, <4>2
      <3>3. CASE k = pos
        <4>1. j \in 1 .. pos - 1 /\ j < pos
          BY <2>1, <2>6, <3>1, <3>3
        <4>. QED  BY <2>4, <3>1, <3>3, <4>1
      <3>4. CASE pos < k
        <4>1. k - 1 \in pos .. Len(ring[side]) /\ k - 1 \in DOMAIN ring[side]
          BY <2>1, <3>1, <3>4
        <4>2. PriceAt(side, k)' = PriceAt(side, k - 1)
          BY <2>1, <3>1, <3>4
        <4>3. CASE j < pos
          <5>1. j \in DOMAIN ring[side] /\ j < k - 1
            BY <2>1, <3>1, <3>4, <4>3
          <5>2. GoesBefore(side, PriceAt(side, j), PriceAt(side, k - 1))
            BY <4>1, <5>1 DEF Sorted
          <5>. QED  BY <3>1, <4>2, <4>3, <5>2
        <4>4. CASE j = pos
          <5>1. GoesBefore(side, price, PriceAt(side, k - 1))
            BY <2>5, <4>1
          <5>. QED  BY <3>1, <4>2, <4>4, <5>1
        <4>5. CASE pos < j
          <5>1. j - 1 \in DOMAIN ring[side] /\ j - 1 < k - 1
            BY <2>1, <2>6, <3>1, <4>5
          <5>2. GoesBefore(side, PriceAt(side, j - 1), PriceAt(side, k - 1))
            BY <4>1, <5>1 DEF Sorted
          <5>3. PriceAt(side, j)' = PriceAt(side, j - 1)
            BY <2>1, <3>1, <4>5
          <5>. QED  BY <4>2, <5>2, <5>3
        <4>. QED  BY <2>1, <3>1, <4>3, <4>4, <4>5
      <3>. QED  BY <2>1, <3>1, <3>2, <3>3, <3>4
    <2>7. ASSUME NEW s \in Sides, s # side, NEW j \in DOMAIN ring'[s],
                 NEW k \in DOMAIN ring'[s], j < k
          PROVE  GoesBefore(s, PriceAt(s, j)', PriceAt(s, k)')
      <3>1. /\ j \in DOMAIN ring[s] /\ k \in DOMAIN ring[s]
            /\ PriceAt(s, j)' = PriceAt(s, j) /\ PriceAt(s, k)' = PriceAt(s, k)
        BY <2>1, <2>7
      <3>2. GoesBefore(s, PriceAt(s, j), PriceAt(s, k))
        BY <2>7, <3>1 DEF Sorted
      <3>. QED  BY <3>1, <3>2
    <2>. QED  BY <2>6, <2>7 DEF Sorted, GoesBefore
  <1>2. ASSUME NEW clientId \in Clients, NEW clientOrderId \in ClientOrderIds,
               CancelRemoves(clientId, clientOrderId)
        PROVE  Sorted'
    <2>. DEFINE id == table[Cell(clientId, clientOrderId)]
                order == orders[id]
                i == PriceToIndex(order.price)
    <2>1. /\ order.side \in Sides /\ levelAt[i].side = order.side
          /\ ring' = [ring EXCEPT ![order.side] = <<>>]
          /\ levelAt' = [levelAt EXCEPT ![i] = NoLevel]
      BY <1>2, CancelRemovesIs DEF CancelEffect
    <2>2. levelAt \in [Index -> Level] /\ ring \in [Sides -> Seq(Index)]
      BY DEF BookInv, TypeOK
    <2>3. ASSUME NEW s \in Sides, NEW j \in DOMAIN ring'[s], NEW k \in DOMAIN ring'[s],
                 j < k
          PROVE  GoesBefore(s, PriceAt(s, j)', PriceAt(s, k)')
      <3>1. s # order.side /\ ring'[s] = ring[s]
        BY <2>1, <2>2, <2>3
      <3>2. /\ ring[s][j] \in Index /\ levelAt[ring[s][j]].side = s
            /\ ring[s][k] \in Index /\ levelAt[ring[s][k]].side = s
        BY <2>3, <3>1, PriceAtIsNat
      <3>3. levelAt'[ring[s][j]] = levelAt[ring[s][j]]
            /\ levelAt'[ring[s][k]] = levelAt[ring[s][k]]
        BY <2>1, <2>2, <3>1, <3>2
      <3>4. PriceAt(s, j)' = PriceAt(s, j) /\ PriceAt(s, k)' = PriceAt(s, k)
        BY <3>1, <3>3 DEF PriceAt
      <3>5. GoesBefore(s, PriceAt(s, j), PriceAt(s, k))
        BY <2>3, <3>1 DEF Sorted
      <3>. QED  BY <3>4, <3>5
    <2>. QED  BY <2>3 DEF Sorted, GoesBefore
  <1>3. CASE UNCHANGED <<orders, levelAt, ring, build>>
    BY <1>3 DEF Sorted, PriceAt, GoesBefore
  <1>. QED  BY <1>1, <1>2, <1>3, StepIs

\* A side is listed from its worst price to its best, whatever was added and
\* cancelled, and whichever prices share an index.
THEOREM WorstFirst == Spec => []WorstPriceFirst
  <1>1. Init => Sorted
    BY DEF Init, Sorted
  <1>2. BookInv /\ Sorted /\ [Next]_vars => Sorted'
    BY SortedStep
  <1>3. Sorted => WorstPriceFirst
    BY SortedIs
  <1>. QED  BY <1>1, <1>2, <1>3, BookInvariance, PTL DEF Spec

-----------------------------------------------------------------------------
(* The two heads.                                                          *)

LEMMA HeadsStep ==
    ASSUME BookInv, HeadsNotCrossed, [Next]_vars
    PROVE  HeadsNotCrossed'
  <1>0. ring \in [Sides -> Seq(Index)] /\ ring' \in [Sides -> Seq(Index)]
    <2>1. BookInv'
      BY BookStep
    <2>. QED  BY <2>1 DEF BookInv, TypeOK
  <1>1. ASSUME NEW clientId \in Clients, NEW clientOrderId \in ClientOrderIds,
               NEW side \in Sides, NEW price \in Prices, NEW qty \in Quantities,
               Rests(clientId, clientOrderId, side, price, qty),
               build' = "hangs", ring'["BUY"] # <<>>, ring'["SELL"] # <<>>
        PROVE  PriceAt("BUY", 1)' < PriceAt("SELL", 1)'
    <2>. DEFINE other == Other(side)
    <2>1. /\ other \in Sides /\ other # side /\ side \in Sides
          /\ side = "BUY" => other = "SELL"
          /\ side = "SELL" => other = "BUY"
      BY DEF Other, Sides
    <2>. HIDE DEF other
    <2>2. /\ ring'[other] = ring[other]
          /\ \A k \in DOMAIN ring[other] : PriceAt(other, k)' = PriceAt(other, k)
          /\ Len(ring[side]) \in Nat
          /\ DOMAIN ring[side] = 1 .. Len(ring[side])
          /\ DOMAIN ring'[side] = 1 .. Len(ring[side]) + 1
      BY <1>1, <2>1, PricesAfterRests
    <2>3. ring[other] # <<>> /\ 1 \in DOMAIN ring[other]
      BY <1>0, <1>1, <2>1, <2>2, EmptySeq, LenProperties DEF Sides
    <2>4. build = "hangs"
      BY <1>1 DEF Rests, Accept, Request
    \* The loop was left, so the new price does not reach the other head.
    <2>5. IF side = "BUY" THEN price < PriceAt(other, 1) ELSE price > PriceAt(other, 1)
      <3>1. Head(ring[other]) = ring[other][1]
        BY <1>0, <2>1, <2>3
      <3>2. /\ ring[other][1] \in UsedLevels
            /\ orders[levelAt[ring[other][1]].first].price = PriceAt(other, 1)
        BY <2>1, <2>3, PriceAtIsNat DEF BookInv, LevelsLeadToOrders, PriceAt
      <3>3. ~CheckForMatchNeverLeaves(side, price, qty) /\ qty # 0
        BY <1>1, <2>4 DEF Rests, LeftQuantity
      <3>. QED  BY <2>3, <3>1, <3>2, <3>3 DEF CheckForMatchNeverLeaves, other
    <2>6. PriceAt(other, 1)' = PriceAt(other, 1)
      BY <2>2, <2>3
    <2>7. \/ PriceAt(side, 1)' = price
          \/ 1 \in DOMAIN ring[side] /\ PriceAt(side, 1)' = PriceAt(side, 1)
      <3>1. PICK pos \in 1 .. Len(ring[side]) + 1 :
              \A j \in DOMAIN ring'[side] :
                 PriceAt(side, j)' = IF j < pos THEN PriceAt(side, j)
                                     ELSE IF j = pos THEN price
                                     ELSE PriceAt(side, j - 1)
        BY <1>1, PricesAfterRests
      <3>2. 1 \in DOMAIN ring'[side]
        BY <2>2
      <3>. QED  BY <2>2, <3>1, <3>2
    <2>8. CASE PriceAt(side, 1)' = price
      BY <2>1, <2>5, <2>6, <2>8 DEF Sides
    <2>9. CASE 1 \in DOMAIN ring[side] /\ PriceAt(side, 1)' = PriceAt(side, 1)
      <3>1. ring[side] # <<>>
        BY <2>9
      <3>2. ring["BUY"] # <<>> /\ ring["SELL"] # <<>>
        BY <2>1, <2>3, <3>1 DEF Sides
      <3>3. Head(ring["BUY"]) = ring["BUY"][1] /\ Head(ring["SELL"]) = ring["SELL"][1]
        BY <1>0, <3>2 DEF Sides
      <3>4. PriceAt("BUY", 1) < PriceAt("SELL", 1)
        BY <2>4, <3>2, <3>3 DEF HeadsNotCrossed, PriceAt
      <3>. QED  BY <2>1, <2>6, <2>9, <3>4 DEF Sides
    <2>. QED  BY <2>7, <2>8, <2>9
  <1>2. ASSUME NEW clientId \in Clients, NEW clientOrderId \in ClientOrderIds,
               CancelRemoves(clientId, clientOrderId)
        PROVE  ring'["BUY"] = <<>> \/ ring'["SELL"] = <<>>
    <2>1. \E side \in Sides : ring' = [ring EXCEPT ![side] = <<>>]
      BY <1>2, CancelRemovesIs DEF CancelEffect
    <2>. QED  BY <1>0, <2>1 DEF Sides
  <1>3. CASE UNCHANGED <<orders, levelAt, ring, build>>
    BY <1>3 DEF HeadsNotCrossed
  <1>4. ASSUME build' = "hangs", ring'["BUY"] # <<>>, ring'["SELL"] # <<>>,
               PriceAt("BUY", 1)' < PriceAt("SELL", 1)'
        PROVE  HeadsNotCrossed'
    <2>1. Head(ring'["BUY"]) = ring'["BUY"][1] /\ Head(ring'["SELL"]) = ring'["SELL"][1]
      BY <1>0, <1>4 DEF Sides
    <2>. QED  BY <1>4, <2>1 DEF HeadsNotCrossed, PriceAt
  <1>5. ~(build' = "hangs" /\ ring'["BUY"] # <<>> /\ ring'["SELL"] # <<>>)
        => HeadsNotCrossed'
    BY DEF HeadsNotCrossed
  <1>. QED  BY <1>1, <1>2, <1>3, <1>4, <1>5, StepIs

\* Where the matching loop is compiled as written, an order that crosses the head
\* of the other side never rests.
THEOREM HeadsApart == Spec => []HeadsNotCrossed
  <1>1. Init => HeadsNotCrossed
    BY DEF Init, HeadsNotCrossed, Sides
  <1>2. BookInv /\ HeadsNotCrossed /\ [Next]_vars => HeadsNotCrossed'
    BY HeadsStep
  <1>. QED  BY <1>1, <1>2, BookInvariance, PTL DEF Spec

-----------------------------------------------------------------------------
(* The updates, and the order pool.                                        *)

\* Whoever follows the updates knows the orders that rest, while the process lives.
THEOREM UpdatesMirrorBook == Spec => []MarketMirrorsBook
  <1>1. Init => MarketMirrorsBook
    BY DEF Init, MarketMirrorsBook
  <1>2. ASSUME BookInv, MarketMirrorsBook, [Next]_vars, halted' = "no"
        PROVE  market' = [o \in DOMAIN orders' |-> orders'[o].price]
    <2>1. ASSUME NEW clientId \in Clients, NEW clientOrderId \in ClientOrderIds,
                 NEW side \in Sides, NEW price \in Prices, NEW qty \in Quantities,
                 Add(clientId, clientOrderId, side, price, qty)
          PROVE  market' = [o \in DOMAIN orders' |-> orders'[o].price]
      <3>1. CASE AddRests(clientId, clientOrderId, side, price, qty)
        <4>1. /\ Rests(clientId, clientOrderId, side, price, qty) /\ halted = "no"
              /\ market' = [o \in DOMAIN market \cup {nextOrderId} |->
                              IF o = nextOrderId THEN price ELSE market[o]]
          BY <1>2, <3>1 DEF AddRests, Rests, Accept, Request
        <4>. DEFINE order == NewOrder(clientId, clientOrderId, side, price)
        <4>2. /\ orders' = [o \in DOMAIN orders \cup {nextOrderId} |->
                              IF o = nextOrderId THEN order ELSE orders[o]]
              /\ order.price = price
          BY <1>2, <4>1, RestsIs DEF RestEffect
        <4>3. market = [o \in DOMAIN orders |-> orders[o].price]
          BY <1>2, <4>1 DEF MarketMirrorsBook
        <4>. HIDE DEF order
        <4>. QED  BY <4>1, <4>2, <4>3
      <3>2. CASE UNCHANGED <<orders, market>> /\ halted = "no"
        BY <1>2, <3>2 DEF MarketMirrorsBook
      <3>3. AddNothing(clientId, qty) => UNCHANGED <<orders, market>> /\ halted = "no"
        BY DEF AddNothing, Accept, Request, book
      <3>4. /\ ~AddSpins(clientId, side, price, qty)
            /\ ~AddBehindOrder(clientId, side, price, qty)
            /\ ~AddExhausts(clientId, side, price, qty)
            /\ ~AddWritesBeyondRow(clientId, clientOrderId, side, price, qty)
        BY <1>2 DEF AddSpins, AddBehindOrder, AddExhausts, AddWritesBeyondRow
      <3>. QED  BY <2>1, <3>1, <3>2, <3>3, <3>4 DEF Add
    <2>2. ASSUME NEW clientId \in Clients, NEW clientOrderId \in ClientOrderIds,
                 Cancel(clientId, clientOrderId)
          PROVE  market' = [o \in DOMAIN orders' |-> orders'[o].price]
      <3>1. CASE CancelRemoves(clientId, clientOrderId)
        <4>. DEFINE id == table[Cell(clientId, clientOrderId)]
        <4>1. /\ orders' = [o \in DOMAIN orders \ {id} |-> orders[o]]
              /\ market' = [o \in DOMAIN market \ {id} |-> market[o]]
              /\ halted' = halted
          BY <1>2, <3>1, CancelRemovesIs DEF CancelEffect
        <4>2. market = [o \in DOMAIN orders |-> orders[o].price]
          BY <1>2, <4>1 DEF MarketMirrorsBook
        <4>. HIDE DEF id
        <4>. QED  BY <4>1, <4>2
      <3>2. CASE CancelRejected(clientId, clientOrderId)
        BY <1>2, <3>2 DEF CancelRejected, MarketMirrorsBook
      <3>3. /\ ~CancelThrows(clientId, clientOrderId)
            /\ ~CancelFollowsWildPointer(clientId, clientOrderId)
            /\ ~CancelRelinksNull(clientId, clientOrderId)
        BY <1>2 DEF CancelThrows, CancelFollowsWildPointer, CancelRelinksNull
      <3>. QED  BY <2>2, <3>1, <3>2, <3>3 DEF Cancel
    <2>3. CASE UNCHANGED vars
      BY <1>2, <2>3 DEF vars, book, MarketMirrorsBook
    <2>. QED  BY <1>2, <2>1, <2>2, <2>3 DEF Next
  <1>3. BookInv /\ MarketMirrorsBook /\ [Next]_vars => MarketMirrorsBook'
    BY <1>2 DEF MarketMirrorsBook
  <1>. QED  BY <1>1, <1>3, BookInvariance, PTL DEF Spec

\* The updates are such as MarketOrderBook takes for granted: an ADD has an id that was
\* never used, a CANCEL is of an order announced and not cancelled yet.
THEOREM UpdatesAreAStream == Spec => SendsAStream
  <1>. USE DEF Stream!vars
  <1>1. Init => Stream!Init
    BY DEF Init, Stream!Init
  <1>2. BookInv /\ MarketMirrorsBook /\ [Next]_vars => [Stream!Next]_(Stream!vars)
    <2>. SUFFICES ASSUME BookInv, MarketMirrorsBook, [Next]_vars
                  PROVE  [Stream!Next]_(Stream!vars)
      OBVIOUS
    <2>1. ASSUME NEW clientId \in Clients, NEW clientOrderId \in ClientOrderIds,
                 NEW side \in Sides, NEW price \in Prices, NEW qty \in Quantities,
                 Add(clientId, clientOrderId, side, price, qty)
          PROVE  Stream!Next
      <3>1. Accept(clientId)
        BY <2>1 DEF Add, AddSpins, AddNothing, AddBehindOrder, AddExhausts, AddWritesBeyondRow,
                    AddRests, Rests
      <3>2. nextOrderId \in Nat /\ nextOrderId' = nextOrderId + 1 /\ halted = "no"
        BY <3>1, AcceptIs DEF BookInv, TypeOK
      <3>3. CASE UNCHANGED market
        BY <3>2, <3>3 DEF Stream!Next, Stream!Pass
      <3>4. CASE market' = [o \in DOMAIN market \cup {nextOrderId} |->
                              IF o = nextOrderId THEN price ELSE market[o]]
        <4>1. DOMAIN market = DOMAIN orders
          BY <3>2 DEF MarketMirrorsBook
        <4>2. nextOrderId \notin DOMAIN market
          BY <3>2, <4>1 DEF BookInv, TypeOK
        <4>3. /\ DOMAIN market' = DOMAIN market \cup {nextOrderId}
              /\ \A o \in DOMAIN market : market'[o] = market[o]
          BY <3>4, <4>2, Zenon
        <4>4. nextOrderId' \in Nat /\ nextOrderId' > nextOrderId /\ nextOrderId' - 1 = nextOrderId
          BY <3>2
        <4>5. Stream!Announce
          BY <4>3, <4>4 DEF Stream!Announce
        <4>. QED  BY <4>5 DEF Stream!Next
      <3>5. \/ UNCHANGED market
            \/ market' = [o \in DOMAIN market \cup {nextOrderId} |->
                            IF o = nextOrderId THEN price ELSE market[o]]
        BY <2>1 DEF Add, AddSpins, AddNothing, AddBehindOrder, AddExhausts, AddWritesBeyondRow,
                    AddRests
      <3>. QED  BY <3>3, <3>4, <3>5
    <2>2. ASSUME NEW clientId \in Clients, NEW clientOrderId \in ClientOrderIds,
                 Cancel(clientId, clientOrderId)
          PROVE  [Stream!Next]_(Stream!vars)
      <3>1. CASE CancelRemoves(clientId, clientOrderId)
        <4>. DEFINE id == table[Cell(clientId, clientOrderId)]
        <4>1. id \in DOMAIN orders /\ market' = [o \in DOMAIN market \ {id} |-> market[o]]
              /\ nextOrderId' = nextOrderId
          BY <3>1, CancelRemovesIs DEF CancelEffect
        <4>2. halted = "no"
          BY <3>1 DEF CancelRemoves, Cancellable, Request
        <4>3. DOMAIN market = DOMAIN orders
          BY <4>2 DEF MarketMirrorsBook
        <4>. HIDE DEF id
        <4>4. Stream!Withdraw
          BY <4>1, <4>3 DEF Stream!Withdraw
        <4>. QED  BY <4>4 DEF Stream!Next
      <3>2. CASE ~CancelRemoves(clientId, clientOrderId)
        <4>1. UNCHANGED <<market, nextOrderId>>
          BY <2>2, <3>2 DEF Cancel, CancelThrows, CancelRejected, CancelFollowsWildPointer,
                            CancelRelinksNull
        <4>. QED  BY <4>1
      <3>. QED  BY <3>1, <3>2
    <2>3. CASE UNCHANGED vars
      BY <2>3 DEF vars
    <2>. QED  BY <2>1, <2>2, <2>3 DEF Next
  <1>. QED  BY <1>1, <1>2, BookInvariance, UpdatesMirrorBook, PTL DEF Spec, SendsAStream, Stream!Spec

\* Each order has a level of its own, so an Add that finds its level free finds
\* room in the order pool too.
LEMMA FreeLevelMeansRoom ==
    ASSUME BookInv, NEW price \in Prices, ~PriorityUnreadable(price)
    PROVE  ~OrdersExhausted
  <1>. DEFINE i == PriceToIndex(price)
              Place == [o \in DOMAIN orders |-> PriceToIndex(orders[o].price)]
  <1>1. i \in Index
    BY IndexOfPrice, InputsAssumption
  <1>2. levelAt[i].first = None
    <2>1. i \in UsedLevels => /\ levelAt[i].first \in DOMAIN orders
                              /\ orders[levelAt[i].first].prev = None
      BY DEF BookInv, LevelsLeadToOrders, OneOrderPerLevel
    <2>. QED  BY <1>1, <2>1 DEF UsedLevels, PriorityUnreadable, GetOrdersAtPrice
  <1>3. /\ IsFiniteSet(Index) /\ Cardinality(Index) = NumLevels
        /\ NumLevels \in Nat /\ MaxOrderIds \in Nat /\ NumLevels < MaxOrderIds
    BY FS_Interval, SizesAssumption DEF Index
  <1>4. IsFiniteSet(Index \ {i}) /\ Cardinality(Index \ {i}) = NumLevels - 1
    BY <1>1, <1>3, FS_RemoveElement
  <1>5. \A o \in DOMAIN orders : Place[o] \in Index \ {i} /\ levelAt[Place[o]].first = o
    BY <1>2, RestingOrder DEF None
  <1>6. Place \in Injection(DOMAIN orders, Index \ {i})
    BY <1>5 DEF Injection, IsInjective
  <1>. HIDE DEF Place
  <1>7. /\ IsFiniteSet(DOMAIN orders) /\ Cardinality(DOMAIN orders) <= NumLevels - 1
    BY <1>4, <1>6, FS_Injection
  <1>8. Cardinality(DOMAIN orders) \in Nat
    BY <1>7, FS_CardinalityType
  <1>. QED  BY <1>3, <1>7, <1>8 DEF OrdersExhausted

\* The level pool runs out first, whatever the sizes.
THEOREM OrderPoolIsEnough == Spec => []OrderPoolSuffices
  <1>1. Init => OrderPoolSuffices
    BY DEF Init, OrderPoolSuffices
  <1>2. ASSUME BookInv, OrderPoolSuffices, [Next]_vars, halted' = "mOrdersPool"
        PROVE  FALSE
    <2>1. ASSUME NEW clientId \in Clients, NEW clientOrderId \in ClientOrderIds,
                 NEW side \in Sides, NEW price \in Prices, NEW qty \in Quantities,
                 Add(clientId, clientOrderId, side, price, qty)
          PROVE  FALSE
      <3>1. CASE AddExhausts(clientId, side, price, qty)
        BY <1>2, <3>1, FreeLevelMeansRoom DEF AddExhausts
      <3>. QED  BY <1>2, <2>1, <3>1 DEF Add, AddSpins, AddNothing, AddBehindOrder,
                   AddWritesBeyondRow, AddRests, Rests, Accept, Request
    <2>2. ASSUME NEW clientId \in Clients, NEW clientOrderId \in ClientOrderIds,
                 Cancel(clientId, clientOrderId)
          PROVE  FALSE
      BY <1>2, <2>2 DEF Cancel, CancelThrows, CancelRejected, CancelFollowsWildPointer,
         CancelRelinksNull, CancelRemoves, Cancellable, Request, OrderPoolSuffices
    <2>3. CASE UNCHANGED vars
      BY <1>2, <2>3 DEF vars, OrderPoolSuffices
    <2>. QED  BY <1>2, <2>1, <2>2, <2>3 DEF Next
  <1>3. BookInv /\ OrderPoolSuffices /\ [Next]_vars => OrderPoolSuffices'
    BY <1>2 DEF OrderPoolSuffices
  <1>. QED  BY <1>1, <1>3, BookInvariance, PTL DEF Spec
=============================================================================
