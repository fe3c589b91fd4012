--------------------------- MODULE OrderManagerProof ---------------------------
(***************************************************************************)
(* OrderManager, for all prices, every clip and every limit: what rests at   *)
(* the exchange is the order of the slot, the position keeps its limits, and *)
(* a short position is charged in full.                                      *)
(***************************************************************************)
EXTENDS OrderManager, SequenceTheorems, TLAPS

Free(side) == slot[side].state \in {"INVALID", "DEAD"}

\* A NEW that is on its way asks for a clip.
NewAsksForAClip ==
    \A i \in 1 .. Len(requests) :
        requests[i].type = "NEW" => slot[requests[i].side].quantity = Clip

\* What the manager thinks it holds: right while it hears; and no better than the
\* truth on a side it may still send an order for.
PositionIsKnown ==
    /\ Hears => info.position = held
    /\ Free("BUY") => held <= info.position
    /\ Free("SELL") => held >= info.position

Orderly == /\ OnlyTheSlotsOrderRests /\ PositionWithinLimits
           /\ ~misled => NewAsksForAClip /\ PositionIsKnown

\* Once the position has been flat a short one finds nothing in openVWAP[BUY].
NothingBought == flat /\ info.position <= 0 => info.openVWAP["BUY"] = 0

-----------------------------------------------------------------------------
(* Types                                                                   *)

LEMMA ArithmeticTypes ==
    /\ \A x \in Int : Abs(x) \in Nat /\ (x # 0 => Abs(x) > 0)
    /\ \A x, y \in Int : Lesser(x, y) \in Int
    /\ \A side \in Sides : SideToValue(side) \in {1, -1} /\ Invert(side) \in Sides
  BY DEF Abs, Lesser, SideToValue, Invert, Sides

LEMMA QuotientType == ASSUME NEW x \in Int, NEW y \in Nat, y > 0 PROVE x \div y \in Int
  OBVIOUS

LEMMA ProductType == ASSUME NEW x \in Int, NEW y \in Int PROVE x * y \in Int
  OBVIOUS

InfoType == [position : Int, realized : Int, unrealized : Int, total : Int,
             openVWAP : [Sides -> Int]]

LEMMA UnrealizedType ==
    ASSUME NEW now \in Int, NEW vwap \in [Sides -> Int], NEW price \in Int
    PROVE  Unrealized(now, vwap, price) \in Int
  <1>1. Abs(now) \in Int /\ vwap["BUY"] \in Int
    BY ArithmeticTypes DEF Sides
  <1>2. price * Abs(now) \in Int
    BY <1>1, ProductType
  <1>. QED  BY <1>1, <1>2 DEF Unrealized

LEMMA AddFillType ==
    ASSUME info \in InfoType, flat \in BOOLEAN, NEW side \in Sides, NEW price \in Nat,
           NEW executed \in Nat, AddFill(side, price, executed)
    PROVE  info' \in InfoType /\ flat' \in BOOLEAN /\ mark' \in Nat
  <1>. DEFINE now == Now(side, executed)
              vwap == OpenVWAP(side, price, executed)
  <1>1. /\ info.position \in Int /\ info.realized \in Int /\ info.openVWAP \in [Sides -> Int]
        /\ SideToValue(side) \in {1, -1} /\ Invert(side) \in Sides
    BY ArithmeticTypes DEF InfoType
  <1>2. now \in Int
    BY <1>1 DEF Now
  <1>3. Abs(now) \in Nat /\ Abs(info.position) \in Nat
    BY <1>1, <1>2, ArithmeticTypes
  <1>4. ~AddsTo(side) => OldPrice(side) \in Int
    <2>1. ~AddsTo(side) => info.position # 0
      BY <1>1 DEF AddsTo
    <2>2. ~AddsTo(side) => Abs(info.position) > 0
      BY <1>1, <2>1, ArithmeticTypes
    <2>3. info.openVWAP[Invert(side)] \in Int
      BY <1>1
    <2>. QED  BY <1>3, <2>2, <2>3, QuotientType DEF OldPrice
  <1>5. vwap \in [Sides -> Int]
    <2>1. price * executed \in Int /\ price * Abs(now) \in Int
      BY <1>3, ProductType
    <2>2. CASE now = 0
      BY <2>2 DEF OpenVWAP
    <2>3. CASE now # 0 /\ AddsTo(side)
      <3>1. vwap = [info.openVWAP EXCEPT ![side] = @ + price * executed]
        BY <2>3 DEF OpenVWAP
      <3>. QED  BY <1>1, <2>1, <3>1
    <2>4. CASE now # 0 /\ ~AddsTo(side) /\ now * info.position < 0
      <3>1. vwap = [info.openVWAP EXCEPT ![side] = price * Abs(now), ![Invert(side)] = 0]
        BY <2>4 DEF OpenVWAP
      <3>. QED  BY <1>1, <2>1, <3>1
    <2>5. CASE now # 0 /\ ~AddsTo(side) /\ ~(now * info.position < 0)
      <3>1. vwap = [info.openVWAP EXCEPT ![Invert(side)] = OldPrice(side) * Abs(now)]
        BY <2>5 DEF OpenVWAP
      <3>2. OldPrice(side) * Abs(now) \in Int
        BY <1>3, <1>4, <2>5, ProductType
      <3>. QED  BY <1>1, <3>1, <3>2
    <2>. QED  BY <2>2, <2>3, <2>4, <2>5
  <1>6. Realized(side, price, executed) \in Int
    <2>1. CASE AddsTo(side)
      BY <1>1, <2>1 DEF Realized
    <2>2. CASE ~AddsTo(side)
      <3> DEFINE amount == Lesser(executed, Abs(info.position))
                 gain == OldPrice(side) - price
      <3>1. amount \in Int /\ gain \in Int
        BY <1>3, <1>4, <2>2, ArithmeticTypes
      <3>2. amount * gain \in Int
        BY <3>1, ProductType
      <3>. HIDE DEF amount, gain
      <3>3. amount * gain * SideToValue(side) \in Int
        BY <1>1, <3>2
      <3>. QED  BY <2>2, <3>3 DEF Realized, amount, gain
    <2>. QED  BY <2>1, <2>2
  <1>7. Unrealized(now, vwap, price) \in Int
    BY <1>2, <1>5, UnrealizedType
  <1>8. /\ info' = [position |-> now, realized |-> Realized(side, price, executed),
                    unrealized |-> Unrealized(now, vwap, price),
                    total |-> Unrealized(now, vwap, price) + Realized(side, price, executed),
                    openVWAP |-> vwap]
        /\ mark' = price
        /\ flat' = (flat \/ now * info.position < 0 \/ now = 0)
    BY DEF AddFill
  <1>. HIDE DEF now, vwap
  <1>. QED  BY <1>2, <1>5, <1>6, <1>7, <1>8 DEF InfoType

Slots == [Sides -> [id : Int, price : Int, quantity : Int, state : States]]
Resting == [Sides -> [id : Int, price : Int, leaves : Nat]]

LEMMA DeliverType ==
    ASSUME slot \in Slots, caught \in BOOLEAN, NEW type, NEW side \in Sides, NEW leaves \in Int,
           Deliver(type, side, leaves)
    PROVE  slot' \in Slots /\ caught' \in BOOLEAN /\ fetches' = fetches
  <1>1. slot[side] \in [id : Int, price : Int, quantity : Int, state : States]
    BY DEF Slots
  <1>2. OnOrderUpdate(type, slot[side], leaves) \in [id : Int, price : Int, quantity : Int, state : States]
    BY <1>1 DEF OnOrderUpdate, Filled, States
  <1>3. slot' = IF Hears THEN [slot EXCEPT ![side] = OnOrderUpdate(type, slot[side], leaves)] ELSE slot
    BY DEF Deliver
  <1>4. caught' \in BOOLEAN /\ fetches' = fetches
    BY DEF Deliver
  <1>. QED  BY <1>2, <1>3, <1>4 DEF Slots

LEMMA InitType == Init => TypeOK
  <1>. SUFFICES ASSUME Init PROVE TypeOK
    OBVIOUS
  <1>1. NoOrder \in [id : Int, price : Int, quantity : Int, state : States]
    BY DEF NoOrder, States, Invalid
  <1>2. Nothing \in [id : Int, price : Int, leaves : Nat]
    BY DEF Nothing, Invalid
  <1>3. info \in InfoType
    BY ConfigAssumption DEF Init, InfoType
  <1>4. slot \in Slots /\ resting \in Resting
    BY <1>1, <1>2 DEF Init, Slots, Resting
  <1>5. requests \in Seq(Request)
    BY EmptySeq DEF Init
  <1>6. nextOrderId \in Nat /\ mark \in Nat /\ held \in Int /\ fills \in Nat
    BY DEF Init
  <1>7. /\ flat \in BOOLEAN /\ obeyed \in BOOLEAN /\ heard \in BOOLEAN /\ misled \in BOOLEAN
        /\ fetches \in BOOLEAN /\ caught \in BOOLEAN
    BY DEF Init
  <1>. QED  BY <1>3, <1>4, <1>5, <1>6, <1>7 DEF TypeOK, InfoType, Slots, Resting

LEMMA MoveOrdersType ==
    ASSUME TypeOK, NEW want \in [Sides -> Int], MoveOrders(want)
    PROVE  TypeOK'
  <1> DEFINE new == {side \in Sides : IsNew(side, want[side])}
             cancelled == {side \in Sides : IsCancelled(side, want[side])}
             id(side) == IF side = "SELL" /\ "BUY" \in new THEN nextOrderId + 1 ELSE nextOrderId
             sent(side) == IF side \in new
                THEN <<[type |-> "NEW", side |-> side, id |-> id(side), price |-> want[side]]>>
                ELSE IF side \in cancelled
                THEN <<[type |-> "CANCEL", side |-> side, id |-> slot[side].id,
                        price |-> slot[side].price]>>
                ELSE <<>>
  <1>1. slot' = [side \in Sides |-> IF side \in new THEN NewOrder(id(side), want[side])
                      ELSE IF side \in cancelled THEN CancelOrder(slot[side])
                      ELSE slot[side]]
    BY DEF MoveOrders
  <1>2. nextOrderId' \in Nat /\ \A side \in Sides : id(side) \in Int
    <2>1. nextOrderId \in Nat
      BY DEF TypeOK
    <2>2. nextOrderId' \in {nextOrderId, nextOrderId + 1, nextOrderId + 2}
      BY DEF MoveOrders
    <2>. QED  BY <2>1, <2>2
  <1>3. requests' = IF obeyed THEN requests \o sent("BUY") \o sent("SELL") ELSE requests
    BY DEF MoveOrders
  <1>4. UNCHANGED <<position, resting, held, fills, session, loop, misled>>
    BY DEF MoveOrders
  <1>. HIDE DEF new, cancelled, id
  <1>5. \A side \in Sides : slot[side] \in [id : Int, price : Int, quantity : Int, state : States]
    BY DEF TypeOK
  <1>6. slot' \in Slots
    <2>1. \A side \in Sides : NewOrder(id(side), want[side]) \in
              [id : Int, price : Int, quantity : Int, state : States]
      BY <1>2, ConfigAssumption DEF NewOrder, States
    <2>2. \A side \in Sides : CancelOrder(slot[side]) \in
              [id : Int, price : Int, quantity : Int, state : States]
      BY <1>5 DEF CancelOrder, States
    <2>. QED  BY <1>1, <1>5, <2>1, <2>2 DEF Slots
  <1>7. \A side \in Sides : sent(side) \in Seq(Request)
    <2>. SUFFICES ASSUME NEW side \in Sides PROVE sent(side) \in Seq(Request)
      OBVIOUS
    <2>1. [type |-> "NEW", side |-> side, id |-> id(side), price |-> want[side]] \in Request
      BY <1>2 DEF Request
    <2>2. [type |-> "CANCEL", side |-> side, id |-> slot[side].id, price |-> slot[side].price] \in Request
      BY <1>5 DEF Request
    <2>. QED  BY <2>1, <2>2, EmptySeq
  <1>. HIDE DEF sent
  <1>8. requests' \in Seq(Request)
    BY <1>3, <1>7 DEF TypeOK, Sides
  <1>. QED  BY <1>2, <1>4, <1>6, <1>8 DEF TypeOK, Slots, position, session, loop

LEMMA AnswerType == TypeOK /\ Answer => TypeOK'
  <1>. SUFFICES ASSUME TypeOK, Answer PROVE TypeOK'
    OBVIOUS
  <1>. DEFINE r == Head(requests)
  <1>1. /\ requests' = Tail(requests) /\ requests # <<>> /\ requests \in Seq(Request)
        /\ UNCHANGED <<nextOrderId, position, held, fills, session, misled>>
    BY DEF Answer, TypeOK
  <1>2. r \in Request /\ requests' \in Seq(Request)
    BY <1>1
  <1>3. r.side \in Sides /\ r.id \in Int /\ r.price \in Int
    BY <1>2 DEF Request
  <1>4. Clip \in Nat /\ Invalid \in Int /\ Nothing \in [id : Int, price : Int, leaves : Nat]
    BY ConfigAssumption DEF Invalid, Nothing
  <1>5. slot \in Slots /\ resting \in Resting /\ caught \in BOOLEAN
    BY DEF TypeOK, Slots, Resting
  <1>6. \/ Accept(r) \/ Canceled(r)
        \/ UNCHANGED resting /\ Deliver("CANCEL_REJECTED", r.side, Invalid)
    BY DEF Answer
  <1>. HIDE DEF r
  <1>7. /\ slot' \in Slots /\ resting' \in Resting
        /\ caught' \in BOOLEAN /\ fetches' = fetches
    <2>1. CASE Accept(r)
      <3>1. slot' \in Slots /\ caught' \in BOOLEAN /\ fetches' = fetches
        BY <1>3, <1>4, <1>5, <2>1, DeliverType DEF Accept
      <3>2. [id |-> r.id, price |-> r.price, leaves |-> Clip] \in [id : Int, price : Int, leaves : Nat]
        BY <1>3, <1>4
      <3>. QED  BY <1>5, <2>1, <3>1, <3>2 DEF Accept, Resting
    <2>2. CASE Canceled(r)
      <3>1. slot' \in Slots /\ caught' \in BOOLEAN /\ fetches' = fetches
        BY <1>3, <1>4, <1>5, <2>2, DeliverType DEF Canceled
      <3>. QED  BY <1>4, <1>5, <2>2, <3>1 DEF Canceled, Resting
    <2>3. CASE UNCHANGED resting /\ Deliver("CANCEL_REJECTED", r.side, Invalid)
      BY <1>3, <1>4, <1>5, <2>3, DeliverType
    <2>. QED  BY <1>6, <2>1, <2>2, <2>3
  <1>. QED  BY <1>1, <1>2, <1>7 DEF TypeOK, Slots, Resting, position, session

LEMMA ExecutesType ==
    ASSUME TypeOK, NEW side \in Sides, NEW price \in Nat, NEW executed \in 1 .. Clip,
           Executes(side, price, executed)
    PROVE  /\ resting' \in Resting /\ held' \in Int /\ fills' \in Nat
           /\ executed \in Nat /\ resting[side].leaves - executed \in Nat
           /\ UNCHANGED <<nextOrderId, requests, obeyed, heard>>
  <1>1. /\ Clip \in Nat /\ executed \in Nat /\ resting[side] \in [id : Int, price : Int, leaves : Nat]
        /\ executed <= resting[side].leaves
    BY ConfigAssumption DEF TypeOK, Executes
  <1>2. Nothing \in [id : Int, price : Int, leaves : Nat]
    BY DEF Nothing, Invalid
  <1>3. [resting[side] EXCEPT !.leaves = resting[side].leaves - executed] \in [id : Int, price : Int, leaves : Nat]
    BY <1>1
  <1>4. resting' \in Resting
    BY <1>2, <1>3 DEF TypeOK, Resting, Executes
  <1>5. SideToValue(side) \in {1, -1} /\ held \in Int /\ fills \in Nat
    BY ArithmeticTypes DEF TypeOK
  <1>6. held' \in Int /\ fills' \in Nat
    BY <1>1, <1>5 DEF Executes
  <1>. QED  BY <1>1, <1>4, <1>6 DEF Executes, session

LEMMA ExecutionType ==
    ASSUME TypeOK, NEW side \in Sides, NEW price \in Nat, NEW executed \in 1 .. Clip,
           Execution(side, price, executed)
    PROVE  TypeOK'
  <1>1. Executes(side, price, executed) /\ UNCHANGED misled
        /\ Deliver("FILLED", side, resting[side].leaves - executed)
    BY DEF Execution
  <1>2. /\ resting' \in Resting /\ held' \in Int /\ fills' \in Nat /\ executed \in Nat
        /\ resting[side].leaves - executed \in Int
        /\ UNCHANGED <<nextOrderId, requests, obeyed, heard>>
    BY <1>1, ExecutesType
  <1>3. slot' \in Slots /\ caught' \in BOOLEAN /\ fetches' = fetches
    BY <1>1, <1>2, DeliverType DEF TypeOK, Slots
  <1>4. info' \in InfoType /\ flat' \in BOOLEAN /\ mark' \in Nat
    <2>1. CASE Hears
      BY <1>2, <2>1, AddFillType DEF Execution, TypeOK, InfoType
    <2>2. CASE ~Hears
      BY <2>2 DEF Execution, TypeOK, InfoType, position
    <2>. QED  BY <2>1, <2>2
  <1>. QED  BY <1>1, <1>2, <1>3, <1>4 DEF TypeOK, Slots, Resting, InfoType

LEMMA PassiveExecutionType ==
    ASSUME TypeOK, NEW side \in Sides, NEW price \in Nat, NEW executed \in 1 .. Clip,
           NEW leaves \in Int, PassiveExecution(side, price, executed, leaves)
    PROVE  TypeOK'
  <1>1. /\ Executes(side, price, executed) /\ misled' = TRUE /\ Invert(side) \in Sides
        /\ Deliver("FILLED", Invert(side), leaves) /\ AddFill(Invert(side), price, executed)
    BY ArithmeticTypes DEF PassiveExecution
  <1>2. /\ resting' \in Resting /\ held' \in Int /\ fills' \in Nat /\ executed \in Nat
        /\ UNCHANGED <<nextOrderId, requests, obeyed, heard>>
    BY <1>1, ExecutesType
  <1>3. slot' \in Slots /\ caught' \in BOOLEAN /\ fetches' = fetches
    BY <1>1, DeliverType DEF TypeOK, Slots
  <1>4. info' \in InfoType /\ flat' \in BOOLEAN /\ mark' \in Nat
    BY <1>1, <1>2, AddFillType DEF TypeOK, InfoType
  <1>. QED  BY <1>1, <1>2, <1>3, <1>4 DEF TypeOK, Slots, Resting, InfoType

LEMMA QuoteType ==
    ASSUME TypeOK, NEW bid \in Nat, NEW ask \in Nat, UpdateBestBidOffer(bid, ask)
    PROVE  TypeOK'
  <1>. DEFINE mid == (bid + ask) \div 2
              unrealized == Unrealized(info.position, info.openVWAP, mid)
  <1>1. mid \in Nat
    OBVIOUS
  <1>2. unrealized \in Int
    <2>1. info.position \in Int /\ info.openVWAP \in [Sides -> Int]
      BY DEF TypeOK
    <2>2. mid \in Int
      BY <1>1
    <2>. HIDE DEF mid
    <2>. QED  BY <2>1, <2>2, UnrealizedType
  <1>3. info' = [info EXCEPT !.unrealized = unrealized, !.total = unrealized + info.realized]
        /\ mark' = mid /\ UNCHANGED <<manager, flat, exchange, session, loop, misled>>
    BY DEF UpdateBestBidOffer
  <1>. HIDE DEF mid, unrealized
  <1>4. info' \in InfoType
    <2>1. info \in InfoType /\ unrealized + info.realized \in Int
      BY <1>2 DEF TypeOK, InfoType
    <2>2. [info EXCEPT !.unrealized = unrealized, !.total = unrealized + info.realized] \in InfoType
      BY <1>2, <2>1 DEF InfoType
    <2>. QED  BY <1>3, <2>2
  <1>. QED  BY <1>1, <1>3, <1>4 DEF TypeOK, InfoType, manager, exchange, session, loop

LEMMA LossType == TypeOK /\ (LoseRequests \/ LoseAnswers) => TypeOK'
  <1>1. ASSUME TypeOK, LoseRequests PROVE TypeOK'
    <2>1. PICK kept \in 0 .. Len(requests) : requests' = SubSeq(requests, 1, kept)
      BY <1>1 DEF LoseRequests
    <2>2. requests' \in Seq(Request)
      BY <1>1, <2>1, SubSeqProperties DEF TypeOK
    <2>. QED  BY <1>1, <2>2 DEF LoseRequests, TypeOK, manager, position, loop
  <1>2. ASSUME TypeOK, LoseAnswers PROVE TypeOK'
    BY <1>2 DEF LoseAnswers, TypeOK, manager, position, exchange, loop
  <1>. QED  BY <1>1, <1>2

-----------------------------------------------------------------------------
(* What rests is the slot's, and the position keeps its limits             *)

IsNewAt(i, side) == requests[i].type = "NEW" /\ requests[i].side = side

\* A free slot has nothing at the exchange.
LEMMA FreeHasNothing ==
    ASSUME TypeOK, Orderly, ~misled, NEW side \in Sides, Free(side)
    PROVE  /\ resting[side].leaves = 0
           /\ \A i \in 1 .. Len(requests) : ~IsNewAt(i, side)
           /\ AtExchange(side) = 0
  <1>1. OnlyTheSlotsOrderRests /\ resting[side].leaves \in Nat
    BY DEF Orderly, TypeOK
  <1>2. ~Working(side)
    BY DEF Free, Working, Pending
  <1>3. resting[side].leaves = 0
    BY <1>1, <1>2 DEF OnlyTheSlotsOrderRests
  <1>4. \A i \in 1 .. Len(requests) : ~IsNewAt(i, side)
    BY <1>1 DEF OnlyTheSlotsOrderRests, Free, IsNewAt
  <1>. QED  BY <1>3, <1>4 DEF AtExchange, IsNewAt

\* Nothing rests of a side whose NEW is on its way.
LEMMA NewMeansNoneRests ==
    ASSUME Orderly, ~misled, NEW side \in Sides, resting[side].leaves > 0
    PROVE  /\ \A i \in 1 .. Len(requests) : ~IsNewAt(i, side)
           /\ AtExchange(side) = resting[side].leaves
  <1>1. \A i \in 1 .. Len(requests) : ~IsNewAt(i, side)
    BY DEF Orderly, OnlyTheSlotsOrderRests, IsNewAt
  <1>. QED  BY <1>1 DEF AtExchange, IsNewAt

LEMMA AtExchangeType ==
    TypeOK => \A side \in Sides : AtExchange(side) \in Nat
  BY ConfigAssumption DEF TypeOK, AtExchange

\* Less at the exchange and the same position keep the limits.
LEMMA LessKeepsLimits ==
    ASSUME TypeOK, TypeOK', PositionWithinLimits, ~misled, held' = held,
           \A side \in Sides : AtExchange(side)' <= AtExchange(side)
    PROVE  PositionWithinLimits'
  <1>1. /\ AtExchange("BUY") \in Nat /\ AtExchange("SELL") \in Nat /\ held \in Int
        /\ MaxPositions \in Nat
    BY AtExchangeType, ConfigAssumption DEF Sides, TypeOK
  <1>2. AtExchange("BUY")' \in Nat /\ AtExchange("SELL")' \in Nat
    BY ConfigAssumption DEF Sides, TypeOK, AtExchange
  <1>3. AtExchange("BUY")' <= AtExchange("BUY") /\ AtExchange("SELL")' <= AtExchange("SELL")
    BY DEF Sides
  <1>. QED  BY <1>1, <1>2, <1>3 DEF PositionWithinLimits

HasTwoMore(longer, seq, a, b) ==
    /\ Len(longer) = Len(seq) + Len(a) + Len(b)
    /\ \A i \in 1 .. Len(longer) :
          \/ i <= Len(seq) /\ longer[i] = seq[i]
          \/ i = Len(seq) + 1 /\ Len(a) = 1 /\ longer[i] = a[1]
          \/ i = Len(seq) + Len(a) + 1 /\ Len(b) = 1 /\ longer[i] = b[1]
    /\ \A i \in 1 .. Len(seq) : longer[i] = seq[i]

LEMMA TwoMore ==
    ASSUME NEW S, NEW seq \in Seq(S), NEW a \in Seq(S), NEW b \in Seq(S),
           Len(a) <= 1, Len(b) <= 1
    PROVE  HasTwoMore(seq \o a \o b, seq, a, b)
  <1>. DEFINE n == Len(seq)
              most == seq \o a
              longer == most \o b
  <1>1. n \in Nat /\ Len(a) \in {0, 1} /\ Len(b) \in {0, 1}
    <2>1. Len(seq) \in Nat /\ Len(a) \in Nat /\ Len(b) \in Nat
      BY LenProperties
    <2>2. Len(a) <= 1 /\ Len(b) <= 1
      OBVIOUS
    <2>3. \A k \in Nat : k <= 1 => k \in {0, 1}
      OBVIOUS
    <2>. QED  BY <2>1, <2>2, <2>3
  <1>2. /\ most \in Seq(S) /\ Len(most) = n + Len(a)
        /\ \A i \in 1 .. n + Len(a) : most[i] = IF i <= n THEN seq[i] ELSE a[i - n]
    BY ConcatProperties
  <1>. HIDE DEF most
  <1>3. /\ Len(longer) = n + Len(a) + Len(b)
        /\ \A i \in 1 .. n + Len(a) + Len(b) :
              longer[i] = IF i <= n + Len(a) THEN most[i] ELSE b[i - (n + Len(a))]
    <2>. HIDE DEF n
    <2>1. /\ Len(longer) = Len(most) + Len(b)
          /\ \A i \in 1 .. Len(most) + Len(b) :
                longer[i] = IF i <= Len(most) THEN most[i] ELSE b[i - Len(most)]
      BY <1>2, ConcatProperties
    <2>. HIDE DEF longer
    <2>. QED  BY <1>2, <2>1
  <1>. HIDE DEF longer, n
  <1>4. ASSUME NEW i \in 1 .. Len(longer)
        PROVE  \/ i <= n /\ longer[i] = seq[i]
               \/ i = n + 1 /\ Len(a) = 1 /\ longer[i] = a[1]
               \/ i = n + Len(a) + 1 /\ Len(b) = 1 /\ longer[i] = b[1]
    <2>1. i \in 1 .. n + Len(a) + Len(b)
      BY <1>3
    <2>2. CASE i <= n
      <3>1. i <= n + Len(a) /\ i \in 1 .. n + Len(a)
        BY <1>1, <2>1, <2>2
      <3>. QED  BY <1>2, <1>3, <2>1, <2>2, <3>1
    <2>3. CASE i > n /\ i <= n + Len(a)
      <3>1. i = n + 1 /\ Len(a) = 1 /\ i - n = 1 /\ i \in 1 .. n + Len(a) /\ ~(i <= n)
        BY <1>1, <2>1, <2>3
      <3>. QED  BY <1>2, <1>3, <2>1, <2>3, <3>1
    <2>4. CASE i > n + Len(a)
      <3>1. i = n + Len(a) + 1 /\ Len(b) = 1 /\ i - (n + Len(a)) = 1 /\ ~(i <= n + Len(a))
        BY <1>1, <2>1, <2>4
      <3>. QED  BY <1>3, <2>1, <3>1
    <2>. QED  BY <1>1, <2>1, <2>2, <2>3, <2>4
  <1>5. ASSUME NEW i \in 1 .. n
        PROVE  longer[i] = seq[i]
    <2>1. i \in 1 .. Len(longer) /\ i # n + 1 /\ i # n + Len(a) + 1
      BY <1>1, <1>3
    <2>. QED  BY <1>4, <2>1
  <1>6. HasTwoMore(longer, seq, a, b)
    BY <1>3, <1>4, <1>5 DEF n, HasTwoMore
  <1>. QED  BY <1>6 DEF longer, most

LEMMA MoveOrdersIsOrderly ==
    ASSUME TypeOK, TypeOK', Orderly, ~misled, NEW want \in [Sides -> Int], MoveOrders(want)
    PROVE  Orderly'
  <1> DEFINE new == {side \in Sides : IsNew(side, want[side])}
             cancelled == {side \in Sides : IsCancelled(side, want[side])}
             id(side) == IF side = "SELL" /\ "BUY" \in new THEN nextOrderId + 1 ELSE nextOrderId
             sent(side) == IF side \in new
                THEN <<[type |-> "NEW", side |-> side, id |-> id(side), price |-> want[side]]>>
                ELSE IF side \in cancelled
                THEN <<[type |-> "CANCEL", side |-> side, id |-> slot[side].id,
                        price |-> slot[side].price]>>
                ELSE <<>>
  <1>1. slot' = [side \in Sides |-> IF side \in new THEN NewOrder(id(side), want[side])
                      ELSE IF side \in cancelled THEN CancelOrder(slot[side])
                      ELSE slot[side]]
    BY DEF MoveOrders
  <1>2. requests' = IF obeyed THEN requests \o sent("BUY") \o sent("SELL") ELSE requests
    BY DEF MoveOrders
  <1>3. UNCHANGED <<info, resting, held, Hears, misled>>
    BY DEF MoveOrders, position, session, loop, Hears
  <1>4. /\ \A side \in new : /\ side \in Sides /\ Free(side) /\ CheckPreTradeRisk(side)
        /\ \A side \in cancelled : side \in Sides /\ slot[side].state = "LIVE"
    BY DEF IsNew, IsCancelled, Free
  <1>. HIDE DEF new, cancelled, id
  <1>5. \A side \in Sides :
          /\ Len(sent(side)) <= 1
          /\ Len(sent(side)) = 1 => sent(side)[1].side = side
          /\ Len(sent(side)) = 1 /\ sent(side)[1].type = "NEW" =>
                side \in new /\ sent(side)[1].id = id(side)
    OBVIOUS
  <1>6. \A side \in Sides : sent(side) \in Seq(Request)
    <2>. SUFFICES ASSUME NEW side \in Sides PROVE sent(side) \in Seq(Request)
      OBVIOUS
    <2>1. id(side) \in Int /\ want[side] \in Int
      BY DEF TypeOK, id
    <2>2. slot[side].id \in Int /\ slot[side].price \in Int
      BY DEF TypeOK
    <2>3. [type |-> "NEW", side |-> side, id |-> id(side), price |-> want[side]] \in Request
      BY <2>1 DEF Request
    <2>4. [type |-> "CANCEL", side |-> side, id |-> slot[side].id, price |-> slot[side].price] \in Request
      BY <2>2 DEF Request
    <2>. QED  BY <2>3, <2>4, EmptySeq
  <1>. HIDE DEF sent
  <1>. DEFINE n == Len(requests)
  <1>7. /\ \A i \in 1 .. Len(requests') : requests'[i].type = "NEW" =>
              \/ i \in 1 .. n /\ requests'[i] = requests[i]
              \/ i > n /\ requests'[i].side \in new /\ requests'[i].id = id(requests'[i].side)
        /\ \A i, j \in 1 .. Len(requests') :
              i > n /\ j > n /\ requests'[i].side = requests'[j].side => i = j
        /\ \A i \in 1 .. n : i \in 1 .. Len(requests') /\ requests'[i] = requests[i]
    <2>0. n \in Nat /\ requests \in Seq(Request)
      BY LenProperties DEF TypeOK
    <2>1. CASE ~obeyed
      BY <1>2, <2>0, <2>1
    <2>2. CASE obeyed
      <3> DEFINE a == sent("BUY")
                 b == sent("SELL")
      <3>1. "BUY" \in Sides /\ "SELL" \in Sides
        BY DEF Sides
      <3>2. a \in Seq(Request) /\ b \in Seq(Request)
        BY <1>6, <3>1
      <3>3. Len(a) <= 1 /\ Len(b) <= 1 /\ Len(a) \in Nat /\ Len(b) \in Nat
        BY <1>5, <3>1, <3>2, LenProperties
      <3>4. requests' = requests \o a \o b
        BY <1>2, <2>2
      <3>. HIDE DEF a, b
      <3>5. /\ Len(requests') = n + Len(a) + Len(b)
            /\ \A i \in 1 .. Len(requests') :
                  \/ i <= n /\ requests'[i] = requests[i]
                  \/ i = n + 1 /\ Len(a) = 1 /\ requests'[i] = a[1]
                  \/ i = n + Len(a) + 1 /\ Len(b) = 1 /\ requests'[i] = b[1]
            /\ \A i \in 1 .. n : requests'[i] = requests[i]
        <4>1. HasTwoMore(requests \o a \o b, requests, a, b)
          BY <2>0, <3>2, <3>3, TwoMore
        <4>2. HasTwoMore(requests', requests, a, b)
          BY <3>4, <4>1, Zenon
        <4>. QED  BY <4>2 DEF HasTwoMore
      <3>6. /\ Len(a) = 1 => a[1].side = "BUY" /\ (a[1].type = "NEW" => "BUY" \in new /\ a[1].id = id("BUY"))
            /\ Len(b) = 1 => b[1].side = "SELL" /\ (b[1].type = "NEW" => "SELL" \in new /\ b[1].id = id("SELL"))
        BY <1>5, <3>1 DEF a, b
      <3>. HIDE DEF n
      <3>. QED  BY <2>0, <3>3, <3>5, <3>6
    <2>. QED  BY <2>1, <2>2
  <1>8. /\ \A side \in new : /\ slot'[side].state = "PENDING_NEW" /\ slot'[side].id = id(side)
                             /\ slot'[side].quantity = Clip
        /\ \A side \in Sides \ new : /\ slot'[side].id = slot[side].id
                                     /\ slot'[side].quantity = slot[side].quantity
                                     /\ \/ slot'[side].state = slot[side].state
                                        \/ /\ slot[side].state = "LIVE"
                                           /\ slot'[side].state = "PENDING_CANCEL"
    <2>1. \A side \in Sides : slot[side] \in [id : Int, price : Int, quantity : Int, state : States]
      BY DEF TypeOK
    <2>2. \A side \in Sides : slot'[side] = IF side \in new THEN NewOrder(id(side), want[side])
                      ELSE IF side \in cancelled THEN CancelOrder(slot[side]) ELSE slot[side]
      BY <1>1
    <2>3. new \subseteq Sides /\ \A side \in cancelled : slot[side].state = "LIVE"
      BY <1>4
    <2>4. ASSUME NEW side \in new
          PROVE  /\ slot'[side].state = "PENDING_NEW" /\ slot'[side].id = id(side)
                 /\ slot'[side].quantity = Clip
      <3>1. slot'[side] = NewOrder(id(side), want[side])
        BY <2>2, <2>3
      <3>. QED  BY <3>1 DEF NewOrder
    <2>5. ASSUME NEW side \in Sides \ new
          PROVE  /\ slot'[side].id = slot[side].id
                 /\ slot'[side].quantity = slot[side].quantity
                 /\ \/ slot'[side].state = slot[side].state
                    \/ slot[side].state = "LIVE" /\ slot'[side].state = "PENDING_CANCEL"
      <3>1. CASE side \in cancelled
        <4>1. slot'[side] = CancelOrder(slot[side])
          BY <2>2, <3>1
        <4>. QED  BY <2>1, <2>3, <3>1, <4>1 DEF CancelOrder
      <3>2. CASE side \notin cancelled
        BY <2>2, <3>2
      <3>. QED  BY <3>1, <3>2
    <2>. QED  BY <2>4, <2>5
  <1>9. \A side \in new : /\ resting[side].leaves = 0 /\ AtExchange(side) = 0
                         /\ \A i \in 1 .. n : ~IsNewAt(i, side)
    BY <1>4, FreeHasNothing
  <1>10. n \in Nat /\ \A i \in 1 .. n : requests[i].side \in Sides
    <2>1. requests \in Seq(Request)
      BY DEF TypeOK
    <2>2. n \in Nat /\ \A i \in 1 .. n : requests[i] \in Request
      BY <2>1, LenProperties, ElementOfSeq
    <2>. HIDE DEF n
    <2>. QED  BY <2>2 DEF Request
  <1>. HIDE DEF n
  <1>11. OnlyTheSlotsOrderRests'
    <2>1. ASSUME NEW side \in Sides, resting'[side].leaves > 0
          PROVE  /\ Working(side)' /\ slot'[side].id = resting'[side].id
                 /\ resting'[side].leaves <= slot'[side].quantity
      <3>1. side \notin new /\ resting[side].leaves > 0
        BY <1>3, <1>9, <2>1
      <3>2. /\ Working(side) /\ slot[side].id = resting[side].id
            /\ resting[side].leaves <= slot[side].quantity
        BY <3>1 DEF Orderly, OnlyTheSlotsOrderRests
      <3>. QED  BY <1>3, <1>8, <3>1, <3>2 DEF Working, Pending
    <2>2. ASSUME NEW i \in 1 .. Len(requests'), requests'[i].type = "NEW"
          PROVE  /\ slot'[requests'[i].side].state = "PENDING_NEW"
                 /\ slot'[requests'[i].side].id = requests'[i].id
                 /\ resting'[requests'[i].side].leaves = 0
                 /\ \A j \in 1 .. Len(requests') :
                       requests'[j].type = "NEW" /\ requests'[j].side = requests'[i].side => i = j
      <3>1. CASE i \in 1 .. n /\ requests'[i] = requests[i]
        <4> DEFINE side == requests[i].side
        <4>1. /\ slot[side].state = "PENDING_NEW" /\ slot[side].id = requests[i].id
              /\ resting[side].leaves = 0
              /\ \A j \in 1 .. n : requests[j].type = "NEW" /\ requests[j].side = side => i = j
          BY <2>2, <3>1 DEF Orderly, OnlyTheSlotsOrderRests, n
        <4>2. side \in Sides \ new
          BY <1>4, <1>10, <3>1, <4>1 DEF Free
        <4>. HIDE DEF side
        <4>3. \A j \in 1 .. Len(requests') : requests'[j].type = "NEW" /\ requests'[j].side = side => j \in 1 .. n /\ requests'[j] = requests[j]
          BY <1>7, <4>2
        <4>. QED  BY <1>3, <1>8, <3>1, <4>1, <4>2, <4>3 DEF side
      <3>2. CASE i > n /\ requests'[i].side \in new /\ requests'[i].id = id(requests'[i].side)
        <4>1. \A j \in 1 .. Len(requests') :
                requests'[j].type = "NEW" /\ requests'[j].side = requests'[i].side => j > n
          BY <1>7, <1>9, <3>2 DEF IsNewAt
        <4>. QED  BY <1>3, <1>7, <1>8, <1>9, <3>2, <4>1
      <3>. QED  BY <1>7, <2>2, <3>1, <3>2
    <2>. QED  BY <2>1, <2>2 DEF OnlyTheSlotsOrderRests
  <1>12. NewAsksForAClip'
    <2>. SUFFICES ASSUME NEW i \in 1 .. Len(requests'), requests'[i].type = "NEW"
                  PROVE  slot'[requests'[i].side].quantity = Clip
      BY DEF NewAsksForAClip
    <2>1. CASE i \in 1 .. n /\ requests'[i] = requests[i]
      <3>1. /\ slot[requests[i].side].state = "PENDING_NEW"
            /\ slot[requests[i].side].quantity = Clip
        BY <2>1 DEF Orderly, OnlyTheSlotsOrderRests, NewAsksForAClip, n
      <3>2. requests[i].side \in Sides \ new
        BY <1>4, <1>10, <2>1, <3>1 DEF Free
      <3>. QED  BY <1>8, <2>1, <3>1, <3>2
    <2>. QED  BY <1>7, <1>8, <2>1
  <1>13. PositionIsKnown'
    <2>1. \A side \in Sides : Free(side)' => Free(side)
      BY <1>8 DEF Free
    <2>. QED  BY <1>3, <2>1 DEF Orderly, PositionIsKnown, Sides
  <1>14. PositionWithinLimits'
    <2>1. \A side \in Sides \ new : AtExchange(side)' <= AtExchange(side)
      <3>. SUFFICES ASSUME NEW side \in Sides \ new PROVE AtExchange(side)' <= AtExchange(side)
        OBVIOUS
      <3>1. (\E i \in 1 .. Len(requests') : requests'[i].type = "NEW" /\ requests'[i].side = side)
              <=> (\E i \in 1 .. n : requests[i].type = "NEW" /\ requests[i].side = side)
        BY <1>7
      <3>2. AtExchange(side)' = AtExchange(side) /\ AtExchange(side) \in Nat
        BY <1>3, <3>1, AtExchangeType DEF AtExchange, n
      <3>. QED  BY <3>2
    <2>2. \A side \in new : AtExchange(side)' <= Clip
      BY <1>3, <1>4, <1>9, ConfigAssumption DEF AtExchange
    <2>3. /\ info.position \in Int /\ held \in Int /\ MaxPositions \in Nat /\ Clip \in Nat
          /\ held' = held /\ ~misled
      BY <1>3, ConfigAssumption DEF TypeOK
    <2>4. \A side \in Sides : AtExchange(side) \in Nat /\ AtExchange(side)' \in Nat
      BY AtExchangeType, ConfigAssumption DEF TypeOK, AtExchange
    <2>5. "BUY" \in new => held + Clip <= MaxPositions
      <3>1. "BUY" \in new => held <= info.position /\ Abs(info.position + 1 * Clip) <= MaxPositions
        BY <1>4 DEF Orderly, PositionIsKnown, CheckPreTradeRisk, SideToValue
      <3>. QED  BY <2>3, <3>1 DEF Abs
    <2>6. "SELL" \in new => held - Clip >= -MaxPositions
      <3>1. "SELL" \in new => held >= info.position /\ Abs(info.position + (-1) * Clip) <= MaxPositions
        BY <1>4 DEF Orderly, PositionIsKnown, CheckPreTradeRisk, SideToValue
      <3>. QED  BY <2>3, <3>1 DEF Abs
    <2>7. held + AtExchange("BUY")' <= MaxPositions
      BY <2>1, <2>2, <2>3, <2>4, <2>5 DEF Sides, Orderly, PositionWithinLimits
    <2>8. held - AtExchange("SELL")' >= -MaxPositions
      BY <2>1, <2>2, <2>3, <2>4, <2>6 DEF Sides, Orderly, PositionWithinLimits
    <2>. QED  BY <2>3, <2>7, <2>8 DEF PositionWithinLimits
  <1>. QED  BY <1>11, <1>12, <1>13, <1>14 DEF Orderly

LEMMA AnswerIsOrderly ==
    ASSUME TypeOK, TypeOK', Orderly, ~misled, Answer
    PROVE  Orderly'
  <1> DEFINE r == Head(requests)
             n == Len(requests)
  <1>1. /\ requests # <<>> /\ requests' = Tail(requests) /\ requests \in Seq(Request)
        /\ UNCHANGED <<info, held, misled>>
        /\ Hears' => Hears
    BY DEF Answer, TypeOK, position, session, Hears, Accept, Canceled, Deliver
  <1>2. /\ n \in Nat /\ n >= 1 /\ r \in Request /\ r = requests[1] /\ Len(requests') = n - 1
        /\ \A i \in 1 .. n - 1 : requests'[i] = requests[i + 1] /\ i + 1 \in 1 .. n
    BY <1>1, EmptySeq, LenProperties, HeadTailProperties
  <1>3. /\ r.side \in Sides
        /\ \/ r.type = "NEW" /\ Accept(r)
           \/ r.type = "CANCEL" /\ Rests(r) /\ Canceled(r)
           \/ r.type = "CANCEL" /\ ~Rests(r) /\ UNCHANGED <<resting, slot>>
    <2>1. r.side \in Sides /\ r = Head(requests)
      BY <1>2 DEF Request
    <2>2. Deliver("CANCEL_REJECTED", r.side, Invalid) => UNCHANGED slot
      <3>1. slot \in Slots
        BY DEF TypeOK, Slots
      <3>. QED  BY <2>1, <3>1 DEF Deliver, OnOrderUpdate, Slots
    <2>. QED  BY <2>1, <2>2 DEF Answer
  <1>. HIDE DEF r, n
  <1>4. OnlyTheSlotsOrderRests /\ NewAsksForAClip /\ PositionIsKnown /\ PositionWithinLimits
    BY DEF Orderly
  \* what is still on its way was so before
  <1>5. \A i \in 1 .. Len(requests') : \E j \in 2 .. n : j = i + 1 /\ requests'[i] = requests[j]
    BY <1>2
  <1>6. \A i \in 1 .. Len(requests') : requests'[i].type = "NEW" =>
            /\ requests'[i].side \in Sides
            /\ slot[requests'[i].side].state = "PENDING_NEW"
            /\ slot[requests'[i].side].id = requests'[i].id
            /\ slot[requests'[i].side].quantity = Clip
            /\ resting[requests'[i].side].leaves = 0
            /\ \A j \in 1 .. Len(requests') :
                  requests'[j].type = "NEW" /\ requests'[j].side = requests'[i].side => i = j
            /\ r.type = "NEW" => requests'[i].side # r.side
    <2>. SUFFICES ASSUME NEW i \in 1 .. Len(requests'), requests'[i].type = "NEW"
         PROVE /\ requests'[i].side \in Sides
               /\ slot[requests'[i].side].state = "PENDING_NEW"
               /\ slot[requests'[i].side].id = requests'[i].id
               /\ slot[requests'[i].side].quantity = Clip
               /\ resting[requests'[i].side].leaves = 0
               /\ \A j \in 1 .. Len(requests') :
                     requests'[j].type = "NEW" /\ requests'[j].side = requests'[i].side => i = j
               /\ r.type = "NEW" => requests'[i].side # r.side
      OBVIOUS
    <2>1. i \in 1 .. n - 1 /\ i + 1 \in 1 .. n /\ requests'[i] = requests[i + 1] /\ i + 1 # 1 /\ 1 \in 1 .. n
      BY <1>2
    <2>2. requests[i + 1].side \in Sides
      <3>1. requests[i + 1] \in Request
        BY <1>1, <2>1, ElementOfSeq DEF n
      <3>. QED  BY <3>1 DEF Request
    <2>3. /\ slot[requests[i + 1].side].state = "PENDING_NEW"
          /\ slot[requests[i + 1].side].id = requests[i + 1].id
          /\ slot[requests[i + 1].side].quantity = Clip
          /\ resting[requests[i + 1].side].leaves = 0
          /\ \A j \in 1 .. n :
                requests[j].type = "NEW" /\ requests[j].side = requests[i + 1].side => i + 1 = j
      BY <1>4, <2>1 DEF OnlyTheSlotsOrderRests, NewAsksForAClip, n
    <2>4. \A j \in 1 .. Len(requests') :
              requests'[j].type = "NEW" /\ requests'[j].side = requests'[i].side => i = j
      <3>. SUFFICES ASSUME NEW j \in 1 .. Len(requests'), requests'[j].type = "NEW",
                           requests'[j].side = requests'[i].side
                    PROVE  i = j
        OBVIOUS
      <3>1. j \in 1 .. n - 1 /\ j + 1 \in 1 .. n /\ requests'[j] = requests[j + 1]
        BY <1>2
      <3>2. i + 1 = j + 1
        BY <2>1, <2>3, <3>1
      <3>. QED  BY <2>1, <3>1, <3>2
    <2>. QED  BY <1>2, <2>1, <2>2, <2>3, <2>4
  <1>7. ASSUME \A side \in Sides : slot'[side] = slot[side] \/ side = r.side
        PROVE  \A i \in 1 .. Len(requests') : requests'[i].type = "NEW" /\ requests'[i].side # r.side =>
                  slot'[requests'[i].side] = slot[requests'[i].side]
    BY <1>6, <1>7
  \* a request less and no more at rest is no more at the exchange
  <1>8. ASSUME \A side \in Sides : resting'[side].leaves <= resting[side].leaves
        PROVE  PositionWithinLimits'
    <2>1. \A side \in Sides : AtExchange(side)' <= AtExchange(side)
      <3>. SUFFICES ASSUME NEW side \in Sides PROVE AtExchange(side)' <= AtExchange(side)
        OBVIOUS
      <3>1. (\E i \in 1 .. Len(requests') : requests'[i].type = "NEW" /\ requests'[i].side = side)
              => (\E j \in 1 .. n : requests[j].type = "NEW" /\ requests[j].side = side)
        BY <1>2
      <3>2. (\E j \in 1 .. n : requests[j].type = "NEW" /\ requests[j].side = side) => resting[side].leaves = 0
        BY <1>4 DEF OnlyTheSlotsOrderRests, n
      <3>3. resting[side].leaves \in Nat /\ resting'[side].leaves \in Nat /\ Clip \in Nat
        BY ConfigAssumption DEF TypeOK
      <3>. QED  BY <1>8, <3>1, <3>2, <3>3 DEF AtExchange, n
    <2>. QED  BY <1>1, <1>4, <2>1, LessKeepsLimits
  <1>9. CASE r.type = "NEW" /\ Accept(r)
    <2>1. /\ resting' = [resting EXCEPT ![r.side] = [id |-> r.id, price |-> r.price, leaves |-> Clip]]
          /\ slot' = IF Hears THEN [slot EXCEPT ![r.side].state = "LIVE"] ELSE slot
      BY <1>9 DEF Accept, Deliver, OnOrderUpdate
    <2>2. /\ slot[r.side].state = "PENDING_NEW" /\ slot[r.side].id = r.id
          /\ slot[r.side].quantity = Clip /\ resting[r.side].leaves = 0
      BY <1>2, <1>4, <1>9 DEF OnlyTheSlotsOrderRests, NewAsksForAClip, n
    <2>3. /\ resting'[r.side] = [id |-> r.id, price |-> r.price, leaves |-> Clip]
          /\ slot'[r.side].id = r.id /\ slot'[r.side].quantity = Clip
          /\ slot'[r.side].state \in {"LIVE", "PENDING_NEW"}
          /\ \A side \in Sides \ {r.side} : slot'[side] = slot[side] /\ resting'[side] = resting[side]
      <3>1. slot \in Slots /\ resting \in Resting
            /\ slot[r.side] \in [id : Int, price : Int, quantity : Int, state : States]
        BY <1>3 DEF TypeOK, Slots, Resting
      <3>2. /\ resting'[r.side] = [id |-> r.id, price |-> r.price, leaves |-> Clip]
            /\ \A side \in Sides \ {r.side} : resting'[side] = resting[side]
        BY <1>3, <2>1, <3>1 DEF Resting
      <3>3. /\ slot'[r.side].id = r.id /\ slot'[r.side].quantity = Clip
            /\ slot'[r.side].state \in {"LIVE", "PENDING_NEW"}
            /\ \A side \in Sides \ {r.side} : slot'[side] = slot[side]
        BY <1>3, <2>1, <2>2, <3>1 DEF Slots
      <3>. QED  BY <3>2, <3>3
    <2>4. OnlyTheSlotsOrderRests'
      <3>1. ASSUME NEW side \in Sides, resting'[side].leaves > 0
            PROVE  /\ Working(side)' /\ slot'[side].id = resting'[side].id
                   /\ resting'[side].leaves <= slot'[side].quantity
        <4>1. CASE side = r.side
          BY <2>3, <4>1, ConfigAssumption DEF Working, Pending
        <4>2. CASE side # r.side
          BY <1>4, <2>3, <3>1, <4>2 DEF OnlyTheSlotsOrderRests, Working, Pending
        <4>. QED  BY <4>1, <4>2
      <3>2. \A i \in 1 .. Len(requests') : requests'[i].type = "NEW" =>
                requests'[i].side \in Sides \ {r.side}
        BY <1>6, <1>9
      <3>. QED  BY <1>6, <2>3, <3>1, <3>2 DEF OnlyTheSlotsOrderRests
    <2>5. NewAsksForAClip'
      BY <1>6, <1>9, <2>3 DEF NewAsksForAClip
    <2>6. PositionIsKnown'
      <3>1. \A side \in Sides : Free(side)' => Free(side)
        BY <2>3 DEF Free
      <3>. QED  BY <1>1, <1>4, <3>1 DEF PositionIsKnown, Sides
    <2>7. PositionWithinLimits'
      <3>1. \A side \in Sides : AtExchange(side)' <= AtExchange(side)
        <4>. SUFFICES ASSUME NEW side \in Sides PROVE AtExchange(side)' <= AtExchange(side)
          OBVIOUS
        <4>0. AtExchange(side) \in Nat /\ Clip \in Nat /\ 1 \in 1 .. n
          BY <1>2, AtExchangeType, ConfigAssumption
        <4>1. CASE side = r.side
          <5>1. AtExchange(side) = Clip
            BY <1>2, <1>9, <4>0, <4>1 DEF AtExchange, n
          <5>2. AtExchange(side)' = Clip
            BY <2>3, <4>1 DEF AtExchange
          <5>. QED  BY <4>0, <5>1, <5>2
        <4>2. CASE side # r.side
          <5>1. (\E i \in 1 .. Len(requests') : requests'[i].type = "NEW" /\ requests'[i].side = side)
                  => (\E j \in 1 .. n : requests[j].type = "NEW" /\ requests[j].side = side)
            BY <1>2
          <5>2. (\E j \in 1 .. n : requests[j].type = "NEW" /\ requests[j].side = side) => resting[side].leaves = 0
            BY <1>4 DEF OnlyTheSlotsOrderRests, n
          <5>3. resting'[side] = resting[side] /\ resting[side].leaves \in Nat
            BY <2>3, <4>2 DEF TypeOK
          <5>. QED  BY <4>0, <5>1, <5>2, <5>3 DEF AtExchange, n
        <4>. QED  BY <4>1, <4>2
      <3>. QED  BY <1>1, <1>4, <3>1, LessKeepsLimits
    <2>. QED  BY <2>4, <2>5, <2>6, <2>7 DEF Orderly
  <1>10. CASE r.type = "CANCEL" /\ Rests(r) /\ Canceled(r)
    <2>1. /\ resting' = [resting EXCEPT ![r.side] = Nothing]
          /\ slot' = IF Hears THEN [slot EXCEPT ![r.side] = [slot[r.side] EXCEPT !.state = "DEAD", !.quantity = Invalid]]
                     ELSE slot
      BY <1>10 DEF Canceled, Deliver, OnOrderUpdate
    <2>2. resting[r.side].leaves > 0
      BY <1>10 DEF Rests
    <2>3. /\ resting'[r.side].leaves = 0
          /\ Hears => slot'[r.side].state = "DEAD"
          /\ ~Hears => slot' = slot
          /\ \A side \in Sides \ {r.side} : slot'[side] = slot[side] /\ resting'[side] = resting[side]
      <3>1. slot \in Slots /\ resting \in Resting
        BY DEF TypeOK, Slots, Resting
      <3>2. /\ resting'[r.side].leaves = 0
            /\ \A side \in Sides \ {r.side} : resting'[side] = resting[side]
        BY <1>3, <2>1, <3>1 DEF Resting, Nothing
      <3>3. Hears => slot'[r.side] = [slot[r.side] EXCEPT !.state = "DEAD", !.quantity = Invalid]
        BY <1>3, <2>1, <3>1 DEF Slots
      <3>4. \A side \in Sides \ {r.side} : slot'[side] = slot[side]
        BY <1>3, <2>1, <3>1 DEF Slots
      <3>5. slot[r.side] \in [id : Int, price : Int, quantity : Int, state : States]
        BY <1>3, <3>1 DEF Slots
      <3>6. Hears => slot'[r.side].state = "DEAD"
        BY <3>3, <3>5
      <3>7. ~Hears => slot' = slot
        BY <2>1
      <3>. QED  BY <3>2, <3>4, <3>6, <3>7
    <2>4. \A i \in 1 .. Len(requests') : requests'[i].type = "NEW" => requests'[i].side \in Sides \ {r.side}
      <3>. SUFFICES ASSUME NEW i \in 1 .. Len(requests'), requests'[i].type = "NEW"
                    PROVE  requests'[i].side \in Sides /\ requests'[i].side # r.side
        OBVIOUS
      <3>1. requests'[i].side \in Sides /\ resting[requests'[i].side].leaves = 0
        BY <1>6
      <3>. QED  BY <2>2, <3>1
    <2>5. OnlyTheSlotsOrderRests'
      <3>1. ASSUME NEW side \in Sides, resting'[side].leaves > 0
            PROVE  /\ Working(side)' /\ slot'[side].id = resting'[side].id
                   /\ resting'[side].leaves <= slot'[side].quantity
        BY <1>4, <2>3, <3>1 DEF OnlyTheSlotsOrderRests, Working, Pending
      <3>. QED  BY <1>6, <2>3, <2>4, <3>1 DEF OnlyTheSlotsOrderRests
    <2>6. NewAsksForAClip'
      BY <1>6, <2>3, <2>4 DEF NewAsksForAClip
    <2>7. PositionIsKnown'
      <3>1. \A side \in Sides : Free(side)' => Free(side) \/ Hears
        BY <2>3 DEF Free
      <3>2. Hears => info.position = held /\ info.position \in Int
        BY <1>4 DEF PositionIsKnown, TypeOK
      <3>. QED  BY <1>1, <1>4, <3>1, <3>2 DEF PositionIsKnown, Sides
    <2>8. PositionWithinLimits'
      <3>1. \A side \in Sides : resting'[side].leaves <= resting[side].leaves
        <4>. SUFFICES ASSUME NEW side \in Sides PROVE resting'[side].leaves <= resting[side].leaves
          OBVIOUS
        <4>1. resting[side].leaves \in Nat
          BY DEF TypeOK
        <4>. QED  BY <2>3, <4>1
      <3>. QED  BY <1>8, <3>1
    <2>. QED  BY <2>5, <2>6, <2>7, <2>8 DEF Orderly
  <1>11. CASE r.type = "CANCEL" /\ ~Rests(r) /\ UNCHANGED <<resting, slot>>
    <2>1. OnlyTheSlotsOrderRests' /\ NewAsksForAClip'
      BY <1>4, <1>6, <1>11 DEF OnlyTheSlotsOrderRests, NewAsksForAClip, Working, Pending
    <2>2. PositionIsKnown'
      BY <1>1, <1>4, <1>11 DEF PositionIsKnown, Free
    <2>3. \A side \in Sides : resting'[side].leaves <= resting[side].leaves
      <3>. SUFFICES ASSUME NEW side \in Sides PROVE resting'[side].leaves <= resting[side].leaves
        OBVIOUS
      <3>1. resting[side].leaves \in Nat
        BY DEF TypeOK
      <3>. QED  BY <1>11, <3>1
    <2>. QED  BY <1>8, <2>1, <2>2, <2>3 DEF Orderly
  <1>. QED  BY <1>3, <1>9, <1>10, <1>11

LEMMA ExecutionIsOrderly ==
    ASSUME TypeOK, TypeOK', Orderly, ~misled, NEW side \in Sides, NEW price \in Nat,
           NEW executed \in 1 .. Clip, Execution(side, price, executed)
    PROVE  Orderly'
  <1> DEFINE leaves == resting[side].leaves
  <1>1. /\ Executes(side, price, executed) /\ UNCHANGED misled
        /\ Deliver("FILLED", side, leaves - executed)
        /\ Hears => AddFill(side, price, executed)
        /\ ~Hears => UNCHANGED info
    BY DEF Execution, position
  <1>2. /\ UNCHANGED requests /\ (Hears' => Hears) /\ executed \in Nat /\ executed >= 1 /\ executed <= leaves
        /\ leaves \in Nat /\ held' = held + executed * SideToValue(side)
        /\ resting' = [resting EXCEPT ![side] = IF executed = leaves THEN Nothing
                          ELSE [resting[side] EXCEPT !.leaves = leaves - executed]]
    <2>1. leaves \in Nat /\ executed \in Nat /\ executed >= 1
      BY ConfigAssumption DEF TypeOK
    <2>. QED  BY <1>1, <2>1 DEF Executes, session, Deliver, Hears
  <1>3. /\ resting'[side].leaves = leaves - executed
        /\ leaves - executed > 0 => resting'[side].id = resting[side].id
        /\ \A s \in Sides \ {side} : resting'[s] = resting[s]
    <2>1. /\ resting \in Resting /\ resting[side] \in [id : Int, price : Int, leaves : Nat]
          /\ leaves = resting[side].leaves
      BY DEF TypeOK, Resting
    <2>. HIDE DEF leaves
    <2>2. CASE executed = leaves
      <3>1. resting' = [resting EXCEPT ![side] = Nothing]
        BY <1>2, <2>2
      <3>. QED  BY <1>2, <2>1, <2>2, <3>1 DEF Nothing, Resting
    <2>3. CASE executed # leaves
      <3>1. resting' = [resting EXCEPT ![side] = [resting[side] EXCEPT !.leaves = leaves - executed]]
        BY <1>2, <2>3
      <3>. QED  BY <2>1, <3>1 DEF Resting
    <2>. QED  BY <2>2, <2>3
  <1>4. /\ Hears => slot' = [slot EXCEPT ![side] = Filled(slot[side], leaves - executed)]
        /\ ~Hears => slot' = slot
    BY <1>1 DEF Deliver, OnOrderUpdate
  <1>5. /\ Hears => /\ slot'[side].quantity = leaves - executed /\ slot'[side].id = slot[side].id
                    /\ slot'[side].state = IF leaves - executed = 0 THEN "DEAD" ELSE slot[side].state
        /\ ~Hears => slot' = slot
        /\ \A s \in Sides \ {side} : slot'[s] = slot[s]
    <2>1. slot \in Slots /\ slot[side] \in [id : Int, price : Int, quantity : Int, state : States]
      BY DEF TypeOK, Slots
    <2>2. /\ Filled(slot[side], leaves - executed).quantity = leaves - executed
          /\ Filled(slot[side], leaves - executed).id = slot[side].id
          /\ Filled(slot[side], leaves - executed).state =
                IF leaves - executed = 0 THEN "DEAD" ELSE slot[side].state
      BY <2>1 DEF Filled
    <2>. HIDE DEF leaves
    <2>. QED  BY <1>4, <2>1, <2>2 DEF Slots
  <1>6. /\ \A i \in 1 .. Len(requests) : ~IsNewAt(i, side)
        /\ AtExchange(side) = leaves /\ leaves > 0
    BY <1>2, NewMeansNoneRests
  <1>7. OnlyTheSlotsOrderRests /\ NewAsksForAClip /\ PositionIsKnown /\ PositionWithinLimits
    BY DEF Orderly
  <1>8. /\ Working(side) /\ slot[side].id = resting[side].id /\ leaves <= slot[side].quantity
        /\ slot[side].quantity \in Int
    BY <1>6, <1>7 DEF OnlyTheSlotsOrderRests, TypeOK
  <1>. HIDE DEF leaves
  <1>9. OnlyTheSlotsOrderRests'
    <2>1. ASSUME NEW s \in Sides, resting'[s].leaves > 0
          PROVE  /\ Working(s)' /\ slot'[s].id = resting'[s].id
                 /\ resting'[s].leaves <= slot'[s].quantity
      <3>1. CASE s = side /\ Hears
        BY <1>2, <1>3, <1>5, <1>8, <2>1, <3>1 DEF Working, Pending
      <3>2. CASE s = side /\ ~Hears
        BY <1>2, <1>3, <1>5, <1>8, <2>1, <3>2 DEF Working, Pending
      <3>3. CASE s # side
        BY <1>3, <1>5, <1>7, <2>1, <3>3 DEF OnlyTheSlotsOrderRests, Working, Pending
      <3>. QED  BY <3>1, <3>2, <3>3
    <2>2. ASSUME NEW i \in 1 .. Len(requests), requests[i].type = "NEW"
          PROVE  /\ slot'[requests[i].side] = slot[requests[i].side]
                 /\ resting'[requests[i].side] = resting[requests[i].side]
      <3>1. requests[i].side \in Sides \ {side}
        <4>1. requests[i] \in Request
          BY ElementOfSeq DEF TypeOK
        <4>. QED  BY <1>6, <2>2, <4>1 DEF IsNewAt, Request
      <3>. QED  BY <1>3, <1>5, <3>1
    <2>3. ASSUME NEW i \in 1 .. Len(requests'), requests'[i].type = "NEW"
          PROVE  /\ slot'[requests'[i].side].state = "PENDING_NEW"
                 /\ slot'[requests'[i].side].id = requests'[i].id
                 /\ resting'[requests'[i].side].leaves = 0
                 /\ \A j \in 1 .. Len(requests') :
                       requests'[j].type = "NEW" /\ requests'[j].side = requests'[i].side => i = j
      <3>1. requests' = requests
        BY <1>2
      <3>2. /\ slot[requests[i].side].state = "PENDING_NEW"
            /\ slot[requests[i].side].id = requests[i].id
            /\ resting[requests[i].side].leaves = 0
            /\ \A j \in 1 .. Len(requests) :
                  requests[j].type = "NEW" /\ requests[j].side = requests[i].side => i = j
        BY <1>7, <2>3, <3>1 DEF OnlyTheSlotsOrderRests
      <3>. QED  BY <2>2, <2>3, <3>1, <3>2
    <2>. QED  BY <2>1, <2>3 DEF OnlyTheSlotsOrderRests
  <1>10. NewAsksForAClip'
    <2>1. ASSUME NEW i \in 1 .. Len(requests), requests[i].type = "NEW"
          PROVE  slot'[requests[i].side] = slot[requests[i].side]
      <3>1. requests[i] \in Request
        BY ElementOfSeq DEF TypeOK
      <3>2. requests[i].side \in Sides \ {side}
        BY <1>6, <2>1, <3>1 DEF IsNewAt, Request
      <3>. QED  BY <1>5, <3>2
    <2>. QED  BY <1>2, <1>7, <2>1 DEF NewAsksForAClip
  <1>11. SideToValue(side) = (IF side = "BUY" THEN 1 ELSE -1) /\ held \in Int /\ held' \in Int
    BY DEF SideToValue, TypeOK
  <1>12. PositionIsKnown'
    <2>1. CASE Hears
      <3>1. info'.position = info.position + executed * SideToValue(side)
        BY <1>1, <2>1 DEF AddFill, Now
      <3>2. info'.position = held'
        BY <1>2, <1>7, <2>1, <3>1 DEF PositionIsKnown
      <3>. QED  BY <1>11, <3>2 DEF PositionIsKnown
    <2>2. CASE ~Hears
      <3>1. UNCHANGED <<info, slot>> /\ ~Hears'
        BY <1>1, <1>2, <1>5, <2>2
      <3>2. ~Free(side)
        BY <1>8 DEF Free, Working, Pending
      <3>3. side = "BUY" => held' = held + executed
        BY <1>2, <1>11
      <3>4. side = "SELL" => held' = held - executed
        BY <1>2, <1>11
      <3>5. info.position \in Int
        BY DEF TypeOK
      <3>. QED  BY <1>2, <1>7, <1>11, <2>2, <3>1, <3>2, <3>3, <3>4, <3>5 DEF PositionIsKnown, Free, Sides
    <2>. QED  BY <2>1, <2>2
  <1>13. PositionWithinLimits'
    <2>1. AtExchange(side)' = leaves - executed
      BY <1>2, <1>3, <1>6 DEF AtExchange, IsNewAt
    <2>2. \A s \in Sides \ {side} : AtExchange(s)' = AtExchange(s)
      BY <1>2, <1>3 DEF AtExchange
    <2>3. /\ AtExchange("BUY") \in Nat /\ AtExchange("SELL") \in Nat /\ MaxPositions \in Nat
      BY AtExchangeType, ConfigAssumption DEF Sides
    <2>4. CASE side = "BUY"
      <3>1. held' = held + executed /\ AtExchange("BUY") = leaves
        BY <1>2, <1>6, <1>11, <2>4
      <3>2. AtExchange("BUY")' = leaves - executed /\ AtExchange("SELL")' = AtExchange("SELL")
        BY <2>1, <2>2, <2>4 DEF Sides
      <3>. QED  BY <1>2, <1>7, <1>11, <2>3, <3>1, <3>2 DEF PositionWithinLimits
    <2>5. CASE side = "SELL"
      <3>1. held' = held - executed /\ AtExchange("SELL") = leaves
        BY <1>2, <1>6, <1>11, <2>5
      <3>2. AtExchange("SELL")' = leaves - executed /\ AtExchange("BUY")' = AtExchange("BUY")
        BY <2>1, <2>2, <2>5 DEF Sides
      <3>. QED  BY <1>2, <1>7, <1>11, <2>3, <3>1, <3>2 DEF PositionWithinLimits
    <2>. QED  BY <2>4, <2>5 DEF Sides
  <1>. QED  BY <1>9, <1>10, <1>12, <1>13 DEF Orderly

LEMMA LossIsOrderly ==
    ASSUME TypeOK, TypeOK', Orderly, ~misled, LoseRequests \/ LoseAnswers
    PROVE  Orderly'
  <1>0. OnlyTheSlotsOrderRests /\ NewAsksForAClip /\ PositionIsKnown /\ PositionWithinLimits
    BY DEF Orderly
  <1>1. CASE LoseRequests
    <2>1. PICK kept \in 0 .. Len(requests) : requests' = SubSeq(requests, 1, kept)
      BY <1>1 DEF LoseRequests
    <2>2. UNCHANGED <<slot, info, resting, held, Hears, misled>>
      BY <1>1 DEF LoseRequests, manager, position, loop, Hears
    <2>3. /\ Len(requests') = kept /\ \A i \in 1 .. kept : requests'[i] = requests[i]
          /\ kept \in Nat /\ kept <= Len(requests) /\ Len(requests) \in Nat
      <3>1. requests \in Seq(Request) /\ Len(requests) \in Nat
        BY LenProperties DEF TypeOK
      <3>. QED  BY <2>1, <3>1, SubSeqProperties
    <2>4. \A i \in 1 .. Len(requests') : i \in 1 .. Len(requests) /\ requests'[i] = requests[i]
      BY <2>3
    <2>5. OnlyTheSlotsOrderRests' /\ NewAsksForAClip'
      <3>1. OnlyTheSlotsOrderRests'
        BY <1>0, <2>2, <2>4 DEF OnlyTheSlotsOrderRests, Working, Pending
      <3>2. NewAsksForAClip'
        BY <1>0, <2>2, <2>4 DEF NewAsksForAClip, Working, Pending
      <3>. QED  BY <3>1, <3>2
    <2>6. PositionIsKnown'
      BY <1>0, <2>2 DEF PositionIsKnown, Free
    <2>7. \A side \in Sides : AtExchange(side)' <= AtExchange(side)
      <3>. SUFFICES ASSUME NEW side \in Sides PROVE AtExchange(side)' <= AtExchange(side)
        OBVIOUS
      <3>1. (\E i \in 1 .. Len(requests') : requests'[i].type = "NEW" /\ requests'[i].side = side)
              => (\E i \in 1 .. Len(requests) : requests[i].type = "NEW" /\ requests[i].side = side)
        BY <2>4
      <3>2. (\E i \in 1 .. Len(requests) : requests[i].type = "NEW" /\ requests[i].side = side)
              => resting[side].leaves = 0
        BY <1>0 DEF OnlyTheSlotsOrderRests
      <3>3. resting[side].leaves \in Nat /\ Clip \in Nat
        BY ConfigAssumption DEF TypeOK
      <3>. QED  BY <2>2, <3>1, <3>2, <3>3 DEF AtExchange
    <2>8. PositionWithinLimits'
      BY <1>0, <2>2, <2>7, LessKeepsLimits
    <2>. QED  BY <2>5, <2>6, <2>8 DEF Orderly
  <1>2. CASE LoseAnswers
    BY <1>2 DEF LoseAnswers, Hears, manager, position, exchange, Orderly, OnlyTheSlotsOrderRests,
                NewAsksForAClip, PositionIsKnown, PositionWithinLimits, AtExchange, Free, Working, Pending
  <1>. QED  BY <1>1, <1>2

LEMMA QuoteIsOrderly ==
    ASSUME Orderly, NEW bid, NEW ask, UpdateBestBidOffer(bid, ask), TypeOK
    PROVE  Orderly'
  <1>1. UNCHANGED <<slot, requests, resting, held, Hears, misled>>
    BY DEF UpdateBestBidOffer, manager, exchange, session, loop, Hears
  <1>2. info'.position = info.position
    BY DEF UpdateBestBidOffer, TypeOK
  <1>. QED  BY <1>1, <1>2 DEF Orderly, OnlyTheSlotsOrderRests, NewAsksForAClip,
            PositionIsKnown, PositionWithinLimits, AtExchange, Free, Working, Pending

-----------------------------------------------------------------------------
(* What a short position is worth                                          *)

Charged == NothingBought /\ ShortIsChargedInFull

LEMMA SignOfProduct ==
    ASSUME NEW a \in Int, NEW b \in Int
    PROVE  a * b < 0 <=> (a < 0 /\ b > 0) \/ (a > 0 /\ b < 0)
  OBVIOUS

LEMMA ShortIsWorth ==
    ASSUME NEW now \in Int, now < 0, NEW vwap \in [Sides -> Int], vwap["BUY"] = 0, NEW price \in Nat
    PROVE  Unrealized(now, vwap, price) = price * now
  <1>1. Abs(now) = -now
    BY DEF Abs
  <1>2. Unrealized(now, vwap, price) = 0 - price * Abs(now)
    BY DEF Unrealized
  <1>3. price * (-now) = -(price * now) /\ price * now \in Int
    OBVIOUS
  <1>. QED  BY <1>1, <1>2, <1>3

LEMMA AddFillCharges ==
    ASSUME TypeOK, Charged, NEW side \in Sides, NEW price \in Nat, NEW executed \in Nat, executed > 0,
           AddFill(side, price, executed)
    PROVE  Charged'
  <1> DEFINE now == Now(side, executed)
             vwap == OpenVWAP(side, price, executed)
             was == info.position
  <1>1. /\ was \in Int /\ flat \in BOOLEAN /\ info.openVWAP \in [Sides -> Int]
        /\ now = was + executed * SideToValue(side)
        /\ SideToValue(side) = (IF side = "BUY" THEN 1 ELSE -1)
    BY DEF TypeOK, Now, SideToValue
  <1>2. now \in Int /\ (side = "BUY" => now = was + executed) /\ (side = "SELL" => now = was - executed)
    BY <1>1 DEF Sides
  <1>3. info'.position = now /\ info'.openVWAP = vwap /\ mark' = price
        /\ info'.unrealized = Unrealized(now, vwap, price)
        /\ flat' = (flat \/ now * was < 0 \/ now = 0)
    BY DEF AddFill
  <1>4. now * was < 0 <=> (now < 0 /\ was > 0) \/ (now > 0 /\ was < 0)
    BY <1>1, <1>2, SignOfProduct
  <1>5. AddsTo(side) <=> (side = "BUY" /\ was >= 0) \/ (side = "SELL" /\ was <= 0)
    BY <1>1 DEF AddsTo, Sides
  <1>. HIDE DEF now
  <1>6. vwap \in [Sides -> Int]
    <2>1. info' \in InfoType
      BY AddFillType DEF TypeOK, InfoType
    <2>. QED  BY <1>3, <2>1 DEF InfoType
  <1>7. ASSUME flat', now <= 0 PROVE vwap["BUY"] = 0
    <2>1. CASE now = 0
      BY <2>1 DEF OpenVWAP, now, Sides
    <2>2. CASE now < 0 /\ AddsTo(side)
      <3>1. side = "SELL" /\ was <= 0 /\ flat
        BY <1>1, <1>2, <1>3, <1>4, <1>5, <1>7, <2>2
      <3>2. info.openVWAP["BUY"] = 0
        BY <1>1, <3>1 DEF Charged, NothingBought
      <3>3. vwap = [info.openVWAP EXCEPT ![side] = @ + price * executed]
        BY <1>2, <2>2 DEF OpenVWAP, now
      <3>. QED  BY <1>1, <3>1, <3>2, <3>3 DEF Sides
    <2>3. CASE now < 0 /\ ~AddsTo(side) /\ now * was < 0
      <3>1. side = "SELL"
        BY <1>1, <1>2, <1>4, <2>3 DEF Sides
      <3>2. vwap = [info.openVWAP EXCEPT ![side] = price * Abs(now), ![Invert(side)] = 0]
        BY <1>2, <2>3 DEF OpenVWAP, now
      <3>. QED  BY <1>1, <3>1, <3>2 DEF Sides, Invert
    <2>4. CASE now < 0 /\ ~AddsTo(side) /\ ~(now * was < 0)
      <3>1. side = "BUY" /\ was < 0 /\ flat
        BY <1>1, <1>2, <1>3, <1>4, <1>5, <1>7, <2>4 DEF Sides
      <3>2. info.openVWAP["BUY"] = 0
        BY <1>1, <3>1 DEF Charged, NothingBought
      <3>3. vwap = [info.openVWAP EXCEPT ![Invert(side)] = OldPrice(side) * Abs(now)]
        BY <1>2, <2>4 DEF OpenVWAP, now
      <3>. QED  BY <1>1, <3>1, <3>2, <3>3 DEF Sides, Invert
    <2>. QED  BY <1>2, <1>7, <2>1, <2>2, <2>3, <2>4
  <1>. HIDE DEF vwap, was
  <1>8. NothingBought'
    BY <1>3, <1>7 DEF NothingBought
  <1>9. ShortIsChargedInFull'
    <2>. SUFFICES ASSUME info'.position < 0, flat'
                  PROVE  info'.unrealized = mark' * info'.position
      BY DEF ShortIsChargedInFull
    <2>1. now < 0 /\ vwap["BUY"] = 0
      BY <1>2, <1>3, <1>7
    <2>. QED  BY <1>2, <1>3, <1>6, <2>1, ShortIsWorth
  <1>. QED  BY <1>8, <1>9 DEF Charged

LEMMA QuoteCharges ==
    ASSUME TypeOK, Charged, NEW bid \in Nat, NEW ask \in Nat, UpdateBestBidOffer(bid, ask)
    PROVE  Charged'
  <1> DEFINE mid == (bid + ask) \div 2
             unrealized == Unrealized(info.position, info.openVWAP, mid)
  <1>1. /\ info' = [info EXCEPT !.unrealized = unrealized, !.total = unrealized + info.realized]
        /\ mark' = mid /\ flat' = flat /\ mid \in Nat
    BY DEF UpdateBestBidOffer
  <1>. HIDE DEF mid
  <1>2. /\ info'.position = info.position /\ info'.openVWAP = info.openVWAP
        /\ info'.unrealized = unrealized
        /\ info.position \in Int /\ info.openVWAP \in [Sides -> Int]
    BY <1>1 DEF TypeOK
  <1>. HIDE DEF unrealized
  <1>3. NothingBought'
    BY <1>1, <1>2 DEF Charged, NothingBought
  <1>4. ShortIsChargedInFull'
    <2>. SUFFICES ASSUME info'.position < 0, flat'
                  PROVE  info'.unrealized = mark' * info'.position
      BY DEF ShortIsChargedInFull
    <2>1. info.position < 0 /\ info.openVWAP["BUY"] = 0
      BY <1>1, <1>2 DEF Charged, NothingBought
    <2>2. unrealized = mid * info.position
      BY <1>1, <1>2, <2>1, ShortIsWorth DEF unrealized
    <2>. QED  BY <1>1, <1>2, <2>2
  <1>. QED  BY <1>3, <1>4 DEF Charged

-----------------------------------------------------------------------------
(* The theorems                                                            *)

ManagerInv == TypeOK /\ Orderly /\ Charged

LEMMA InitIsManagerInv == Init => ManagerInv
  <1>. SUFFICES ASSUME Init PROVE ManagerInv
    OBVIOUS
  <1>1. TypeOK
    BY InitType
  <1>2. /\ requests = <<>> /\ held = 0 /\ info.position = 0 /\ ~flat
        /\ \A side \in Sides : resting[side].leaves = 0
    BY DEF Init, Nothing
  <1>3. 1 .. Len(requests) = {}
    BY <1>2, EmptySeq
  <1>4. \A side \in Sides : AtExchange(side) = 0
    BY <1>2, <1>3 DEF AtExchange
  <1>5. Orderly
    BY <1>2, <1>3, <1>4, ConfigAssumption DEF Orderly, OnlyTheSlotsOrderRests, PositionWithinLimits,
       NewAsksForAClip, PositionIsKnown, Sides
  <1>. QED  BY <1>1, <1>2, <1>5 DEF ManagerInv, Charged, NothingBought, ShortIsChargedInFull

LEMMA NextKeepsManagerInv == ManagerInv /\ [Next]_vars => ManagerInv'
  <1>. SUFFICES ASSUME ManagerInv, [Next]_vars PROVE ManagerInv'
    OBVIOUS
  <1>0. TypeOK /\ Orderly /\ Charged
    BY DEF ManagerInv
  <1>1. ASSUME NEW bid \in Prices \cup {Invalid}, NEW ask \in Prices \cup {Invalid}, ~misled,
               MoveOrders([side \in Sides |-> IF side = "BUY" THEN bid ELSE ask])
        PROVE  ManagerInv'
    <2>1. [side \in Sides |-> IF side = "BUY" THEN bid ELSE ask] \in [Sides -> Int]
      BY PricesAssumption DEF Invalid
    <2>2. TypeOK'
      BY <1>0, <1>1, <2>1, MoveOrdersType
    <2>3. Orderly'
      BY <1>0, <1>1, <2>1, <2>2, MoveOrdersIsOrderly
    <2>4. Charged'
      <3>1. UNCHANGED <<info, flat, mark>>
        BY <1>1 DEF MoveOrders, position
      <3>. QED  BY <1>0, <3>1 DEF Charged, NothingBought, ShortIsChargedInFull
    <2>. QED  BY <2>2, <2>3, <2>4 DEF ManagerInv
  <1>2. CASE ~misled /\ Answer
    <2>1. TypeOK'
      BY <1>0, <1>2, AnswerType
    <2>2. Orderly'
      BY <1>0, <1>2, <2>1, AnswerIsOrderly
    <2>3. UNCHANGED <<info, flat, mark>>
      BY <1>2 DEF Answer, position
    <2>. QED  BY <1>0, <2>1, <2>2, <2>3 DEF ManagerInv, Charged, NothingBought, ShortIsChargedInFull
  <1>3. ASSUME NEW side \in Sides, NEW price \in Prices, NEW executed \in 1 .. Clip, ~misled,
               Execution(side, price, executed)
        PROVE  ManagerInv'
    <2>1. price \in Nat /\ executed \in Nat /\ executed > 0
      BY PricesAssumption, ConfigAssumption
    <2>2. TypeOK'
      BY <1>0, <1>3, <2>1, ExecutionType
    <2>3. Orderly'
      BY <1>0, <1>3, <2>1, <2>2, ExecutionIsOrderly
    <2>4. Charged'
      <3>1. CASE Hears
        BY <1>0, <1>3, <2>1, <3>1, AddFillCharges DEF Execution
      <3>2. CASE ~Hears
        <4>1. UNCHANGED <<info, flat, mark>>
          BY <1>3, <3>2 DEF Execution, position
        <4>. QED  BY <1>0, <4>1 DEF Charged, NothingBought, ShortIsChargedInFull
      <3>. QED  BY <3>1, <3>2
    <2>. QED  BY <2>2, <2>3, <2>4 DEF ManagerInv
  <1>4. ASSUME NEW side \in Sides, NEW price \in Prices, NEW executed \in 1 .. Clip,
               NEW leaves \in 0 .. 1, ~misled, PassiveExecution(side, price, executed, leaves)
        PROVE  ManagerInv'
    <2>1. price \in Nat /\ executed \in Nat /\ executed > 0 /\ leaves \in Int /\ Invert(side) \in Sides
      BY PricesAssumption, ConfigAssumption, ArithmeticTypes
    <2>2. TypeOK'
      BY <1>0, <1>4, <2>1, PassiveExecutionType
    <2>3. Orderly'
      BY <1>4 DEF PassiveExecution, Orderly, OnlyTheSlotsOrderRests, PositionWithinLimits
    <2>4. Charged'
      BY <1>0, <1>4, <2>1, AddFillCharges DEF PassiveExecution
    <2>. QED  BY <2>2, <2>3, <2>4 DEF ManagerInv
  <1>5. ASSUME NEW bid \in Prices, NEW ask \in Prices, ~misled, UpdateBestBidOffer(bid, ask)
        PROVE  ManagerInv'
    <2>1. bid \in Nat /\ ask \in Nat
      BY PricesAssumption
    <2>2. TypeOK' /\ Orderly' /\ Charged'
      BY <1>0, <1>5, <2>1, QuoteType, QuoteIsOrderly, QuoteCharges
    <2>. QED  BY <2>2 DEF ManagerInv
  <1>6. CASE ~misled /\ (LoseRequests \/ LoseAnswers)
    <2>1. TypeOK'
      BY <1>0, <1>6, LossType
    <2>2. Orderly'
      BY <1>0, <1>6, <2>1, LossIsOrderly
    <2>3. UNCHANGED <<info, flat, mark>>
      BY <1>6 DEF LoseRequests, LoseAnswers, position
    <2>. QED  BY <1>0, <2>1, <2>2, <2>3 DEF ManagerInv, Charged, NothingBought, ShortIsChargedInFull
  <1>7. CASE UNCHANGED vars
    <2>1. UNCHANGED <<slot, nextOrderId, info, flat, mark, requests, resting, held, fills,
                      obeyed, heard, fetches, caught, misled>>
      BY <1>7 DEF vars, manager, position, exchange, session, loop
    <2>2. TypeOK'
      BY <1>0, <2>1 DEF TypeOK
    <2>3. Orderly'
      BY <1>0, <2>1 DEF Orderly, OnlyTheSlotsOrderRests, PositionWithinLimits, NewAsksForAClip,
                        PositionIsKnown, Hears, AtExchange, Free, Working, Pending
    <2>. QED  BY <1>0, <2>1, <2>2, <2>3 DEF ManagerInv, Charged, NothingBought, ShortIsChargedInFull
  <1>. QED  BY <1>1, <1>2, <1>3, <1>4, <1>5, <1>6, <1>7 DEF Next

LEMMA ManagerInvariant == Spec => []ManagerInv
  BY InitIsManagerInv, NextKeepsManagerInv, PTL DEF Spec

\* Every variable keeps its type, for all prices and every value openVWAP starts with.
THEOREM ManagerTypeCorrect == Spec => []TypeOK
  <1>1. ManagerInv => TypeOK
    BY DEF ManagerInv
  <1>. QED  BY <1>1, ManagerInvariant, PTL

\* What rests is the order of the slot.
THEOREM OneOrderASide == Spec => []OnlyTheSlotsOrderRests
  <1>1. ManagerInv => OnlyTheSlotsOrderRests
    BY DEF ManagerInv, Orderly
  <1>. QED  BY <1>1, ManagerInvariant, PTL

\* The limit of the position holds, also once the session has lost something.
THEOREM LimitsHold == Spec => []PositionWithinLimits
  <1>1. ManagerInv => PositionWithinLimits
    BY DEF ManagerInv, Orderly
  <1>. QED  BY <1>1, ManagerInvariant, PTL

\* A short position is charged its whole value at every price.
THEOREM ShortsAreCharged == Spec => []ShortIsChargedInFull
  <1>1. ManagerInv => ShortIsChargedInFull
    BY DEF ManagerInv, Charged
  <1>. QED  BY <1>1, ManagerInvariant, PTL
================================================================================
