---------------------------- MODULE OrderManager ----------------------------
(***************************************************************************)
(* OrderManager, RiskManager and PositionKeeper (trading/strategy) for one   *)
(* ticker; tickers share nothing but the counter of order ids.  The trade    *)
(* engine's thread makes every call, so a call of MoveOrders, of             *)
(* OnOrderUpdate or of UpdateBestBidOffer is a step.                         *)
(*                                                                           *)
(* The exchange works requests off in the order sent.  Its answers come in   *)
(* order too, so nothing the manager can tell changes if each is taken to be *)
(* given in the step that delivers it.  Money is in units fine enough for    *)
(* the divisions of PositionKeeper to leave no rest.                         *)
(***************************************************************************)
EXTENDS Integers, Sequences

CONSTANTS
    Prices,         \* prices strategies ask for, and trades are made at
    Clip,           \* the quantity of every order
    MaxOrderSize, MaxPositions,     \* RiskConfig
    LossAllowed,    \* -RiskConfig.maxLoss
    Garbage,        \* a value an uninitialised openVWAP may have
    MaxOrders,      \* bound: orders
    MaxFills        \* bound: executions

ASSUME PricesAssumption == Prices \subseteq Nat \ {0}
ASSUME ConfigAssumption == /\ Clip \in Nat \ {0}
                           /\ MaxOrderSize \in Nat
                           /\ MaxPositions \in Nat
                           /\ LossAllowed \in Int
                           /\ Garbage \in Int
ASSUME BoundsAssumption == MaxOrders \in Nat /\ MaxFills \in Nat

VARIABLES
    slot,           \* mTickerSideOrder[ticker]
    nextOrderId,    \* mNextOrderId
    info,           \* the PositionInfo of the ticker
    flat,           \* the position was 0 or changed its sign since the start
    mark,           \* the price info.unrealizedPnL was computed from
    requests,       \* on their way to the exchange
    resting,        \* side -> the manager's order at the exchange
    held,           \* the position the exchange's executions add up to
    fills,          \* executions so far
    obeyed, heard,  \* no request, no answer of the session was lost
    fetches,        \* the engine's loop fetches the next answer after each
    caught,         \* the engine's loop has kept an answer
    misled          \* a FILLED came with the side of the other party

manager == <<slot, nextOrderId>>
position == <<info, flat, mark>>
exchange == <<requests, resting, held, fills>>
session == <<obeyed, heard>>
loop == <<fetches, caught>>
vars == <<manager, position, exchange, session, loop, misled>>

Sides == {"BUY", "SELL"}
Invert(side) == IF side = "BUY" THEN "SELL" ELSE "BUY"
SideToValue(side) == IF side = "BUY" THEN 1 ELSE -1
Invalid == -1           \* Price_INVALID, Quantity_INVALID, OrderId_INVALID
Abs(x) == IF x < 0 THEN -x ELSE x
Lesser(x, y) == IF x < y THEN x ELSE y

NoOrder == [id |-> Invalid, price |-> Invalid, quantity |-> Invalid, state |-> "INVALID"]
Nothing == [id |-> Invalid, price |-> Invalid, leaves |-> 0]

\* openVWAP has no initial value.  The loop of TradeEngine::Run fetches one
\* answer only; OrderManager can also be driven by one like that of the market updates.
Init == /\ slot = [side \in Sides |-> NoOrder]
        /\ nextOrderId = 1
        /\ \E buy, sell \in {0, Garbage} :
              info = [position |-> 0, realized |-> 0, unrealized |-> 0, total |-> 0,
                      openVWAP |-> [side \in Sides |-> IF side = "BUY" THEN buy ELSE sell]]
        /\ flat = FALSE /\ mark = 0
        /\ requests = <<>>
        /\ resting = [side \in Sides |-> Nothing]
        /\ held = 0 /\ fills = 0
        /\ obeyed = TRUE /\ heard = TRUE
        /\ fetches \in BOOLEAN /\ caught = FALSE
        /\ misled = FALSE

-----------------------------------------------------------------------------
(* The strategy moves its orders.                                          *)

\* (The ...Slip definitions are plausible mistakes: see "Mutants" in README.md.)
CheckPreTradeRiskSlip(side) ==
    /\ Clip <= MaxOrderSize
    /\ Abs(info.position) <= MaxPositions
    /\ info.total >= -LossAllowed

CheckPreTradeRisk(side) ==
    /\ Clip <= MaxOrderSize
    /\ Abs(info.position + SideToValue(side) * Clip) <= MaxPositions
    /\ info.total >= -LossAllowed

\* MoveOrder: a live order that is not the one wanted is cancelled; there is a new
\* one only once the slot is free.
IsCancelled(side, price) ==
    /\ slot[side].state = "LIVE"
    /\ slot[side].price # price \/ slot[side].quantity # Clip

IsNew(side, price) ==
    /\ slot[side].state \in {"INVALID", "DEAD"}
    /\ price # Invalid
    /\ CheckPreTradeRisk(side)

NewOrder(id, price) == [id |-> id, price |-> price, quantity |-> Clip, state |-> "PENDING_NEW"]

CancelOrderSlip(order) == [order EXCEPT !.state = "DEAD"]

CancelOrder(order) == [order EXCEPT !.state = "PENDING_CANCEL"]

\* The bid is moved first.
MoveOrders(want) ==
    LET new       == {side \in Sides : IsNew(side, want[side])}
        cancelled == {side \in Sides : IsCancelled(side, want[side])}
        id(side)  == IF side = "SELL" /\ "BUY" \in new THEN nextOrderId + 1 ELSE nextOrderId
        sent(side) == IF side \in new
                      THEN <<[type |-> "NEW", side |-> side, id |-> id(side), price |-> want[side]]>>
                      ELSE IF side \in cancelled
                      THEN <<[type |-> "CANCEL", side |-> side, id |-> slot[side].id,
                              price |-> slot[side].price]>>
                      ELSE <<>>
    IN  /\ ~caught
        /\ nextOrderId + 1 <= MaxOrders
        /\ slot' = [side \in Sides |->
                      IF side \in new THEN NewOrder(id(side), want[side])
                      ELSE IF side \in cancelled THEN CancelOrder(slot[side])
                      ELSE slot[side]]
        /\ nextOrderId' = IF new = {} THEN nextOrderId
                          ELSE IF new = Sides THEN nextOrderId + 2 ELSE nextOrderId + 1
        /\ requests' = IF obeyed THEN requests \o sent("BUY") \o sent("SELL") ELSE requests
        /\ UNCHANGED <<position, resting, held, fills, session, loop, misled>>

-----------------------------------------------------------------------------
(* The position and what it is worth.                                      *)

\* The price is taken against openVWAP[BUY] whatever the side.
Unrealized(now, vwap, price) ==
    IF now > 0 THEN price * Abs(now) - vwap["BUY"]
    ELSE IF now < 0 THEN vwap["BUY"] - price * Abs(now)
    ELSE 0

AddsTo(side) == info.position * SideToValue(side) >= 0
Now(side, executed) == info.position + executed * SideToValue(side)
OldPrice(side) == info.openVWAP[Invert(side)] \div Abs(info.position)

\* (The slip leaves the average of the other side as it is when the position changes
\* its sign.)
OpenVWAPSlip(side, price, executed) ==
    LET now == Now(side, executed)
    IN  IF now = 0 THEN [s \in Sides |-> 0]
        ELSE IF AddsTo(side) THEN [info.openVWAP EXCEPT ![side] = @ + price * executed]
        ELSE IF now * info.position < 0
             THEN [info.openVWAP EXCEPT ![side] = price * Abs(now),
                                        ![Invert(side)] = OldPrice(side) * Abs(now)]
        ELSE [info.openVWAP EXCEPT ![Invert(side)] = OldPrice(side) * Abs(now)]

\* openVWAP after a fill: one of the same side adds to it, one of the other closes
\* some of the position at the old average, or all of it and opens another.
OpenVWAP(side, price, executed) ==
    LET now == Now(side, executed)
    IN  IF now = 0 THEN [s \in Sides |-> 0]
        ELSE IF AddsTo(side) THEN [info.openVWAP EXCEPT ![side] = @ + price * executed]
        ELSE IF now * info.position < 0
             THEN [info.openVWAP EXCEPT ![side] = price * Abs(now), ![Invert(side)] = 0]
        ELSE [info.openVWAP EXCEPT ![Invert(side)] = OldPrice(side) * Abs(now)]

\* realizedPnL is that of the last close, not the sum.
Realized(side, price, executed) ==
    IF AddsTo(side) THEN info.realized
    ELSE Lesser(executed, Abs(info.position)) * (OldPrice(side) - price) * SideToValue(side)

AddFill(side, price, executed) ==
    LET now        == Now(side, executed)
        vwap       == OpenVWAP(side, price, executed)
        unrealized == Unrealized(now, vwap, price)
        realized   == Realized(side, price, executed)
    IN  /\ info' = [position |-> now, realized |-> realized, unrealized |-> unrealized,
                    total |-> unrealized + realized, openVWAP |-> vwap]
        /\ flat' = (flat \/ now * info.position < 0 \/ now = 0)
        /\ mark' = price

UpdateBestBidOffer(bid, ask) ==
    LET mid        == (bid + ask) \div 2
        unrealized == Unrealized(info.position, info.openVWAP, mid)
    IN  /\ ~caught
        /\ info.position # 0
        /\ info' = [info EXCEPT !.unrealized = unrealized, !.total = unrealized + info.realized]
        /\ mark' = mid
        /\ UNCHANGED <<manager, flat, exchange, session, loop, misled>>

-----------------------------------------------------------------------------
(* The answers of the exchange.                                            *)

FilledSlip(order, leaves) == [order EXCEPT !.quantity = leaves]

Filled(order, leaves) ==
    [order EXCEPT !.quantity = leaves, !.state = IF leaves = 0 THEN "DEAD" ELSE @]

\* OnOrderUpdate: an answer finds its order by the side alone; a CANCELED goes on
\* into the case of a FILLED, a CANCEL_REJECTED changes nothing.
OnOrderUpdate(type, order, leaves) ==
    CASE type = "ACCEPTED" -> [order EXCEPT !.state = "LIVE"]
      [] type = "CANCELED" -> [order EXCEPT !.state = "DEAD", !.quantity = leaves]
      [] type = "FILLED"   -> Filled(order, leaves)
      [] OTHER             -> order

\* Once an answer is lost the gateway drops all that follow.
Hears == heard /\ ~caught

\* A loop that does not fetch keeps its first answer, the ACCEPTED of the first order,
\* and applies it again and again, which changes nothing, until the assert of
\* UpdateReadIndex ends the process (FirstResponseIsTheLast of Lifecycle).
Deliver(type, side, leaves) ==
    /\ IF Hears
       THEN /\ slot' = [slot EXCEPT ![side] = OnOrderUpdate(type, @, leaves)]
            /\ caught' = ~fetches
       ELSE UNCHANGED <<slot, caught>>
    /\ UNCHANGED fetches

\* MEOrderBook::Add and Cancel.  A rejection has no side, and changes no order.
Accept(r) == /\ resting' = [resting EXCEPT ![r.side] =
                              [id |-> r.id, price |-> r.price, leaves |-> Clip]]
             /\ Deliver("ACCEPTED", r.side, Clip)

Canceled(r) == /\ resting' = [resting EXCEPT ![r.side] = Nothing]
               /\ Deliver("CANCELED", r.side, Invalid)

Rests(r) == resting[r.side].leaves > 0 /\ resting[r.side].id = r.id

Answer ==
    /\ requests # <<>>
    /\ requests' = Tail(requests)
    /\ LET r == Head(requests)
       IN  \/ r.type = "NEW" /\ Accept(r)
           \/ r.type = "CANCEL" /\ Rests(r) /\ Canceled(r)
           \/ r.type = "CANCEL" /\ ~Rests(r) /\ UNCHANGED resting
              /\ Deliver("CANCEL_REJECTED", r.side, Invalid)
    /\ UNCHANGED <<nextOrderId, position, held, fills, session, misled>>

\* MEOrderBook::Match executes some of an order at the price of the order or a better.
Executes(side, price, executed) ==
    /\ fills < MaxFills /\ fills' = fills + 1
    /\ executed <= resting[side].leaves
    /\ SideToValue(side) * (resting[side].price - price) >= 0
    /\ resting' = [resting EXCEPT ![side] =
                     IF executed = @.leaves THEN Nothing
                     ELSE [resting[side] EXCEPT !.leaves = resting[side].leaves - executed]]
    /\ held' = held + executed * SideToValue(side)
    /\ UNCHANGED <<nextOrderId, requests, session>>

\* The first of the two responses of Match: TradeEngine::OnOrderUpdate tells the
\* position keeper first.
Execution(side, price, executed) ==
    /\ Executes(side, price, executed)
    /\ Deliver("FILLED", side, resting[side].leaves - executed)
    /\ IF Hears THEN AddFill(side, price, executed) ELSE UNCHANGED position
    /\ UNCHANGED misled

\* The second, for the owner of an order that rested: it has the side, and what is
\* left, of the other party.
PassiveExecution(side, price, executed, leaves) ==
    /\ Hears
    /\ Executes(side, price, executed)
    /\ Deliver("FILLED", Invert(side), leaves)
    /\ AddFill(Invert(side), price, executed)
    /\ misled' = TRUE

\* With the connection, or with an engine that does not come back from its matching.
LoseRequests == /\ obeyed /\ obeyed' = FALSE
                /\ \E kept \in 0 .. Len(requests) : requests' = SubSeq(requests, 1, kept)
                /\ UNCHANGED <<manager, position, resting, held, fills, heard, loop, misled>>

LoseAnswers == /\ heard /\ heard' = FALSE
               /\ UNCHANGED <<manager, position, exchange, obeyed, loop, misled>>

-----------------------------------------------------------------------------
\* Bound: a behaviour is not followed beyond a FILLED that misleads the manager.
Next ==
    \/ \E bid, ask \in Prices \cup {Invalid} :
          ~misled /\ MoveOrders([side \in Sides |-> IF side = "BUY" THEN bid ELSE ask])
    \/ ~misled /\ Answer
    \/ \E side \in Sides, price \in Prices, executed \in 1 .. Clip :
          ~misled /\ Execution(side, price, executed)
    \/ \E side \in Sides, price \in Prices, executed \in 1 .. Clip, leaves \in 0 .. 1 :
          ~misled /\ PassiveExecution(side, price, executed, leaves)
    \/ \E bid, ask \in Prices : ~misled /\ UpdateBestBidOffer(bid, ask)
    \/ ~misled /\ LoseRequests
    \/ ~misled /\ LoseAnswers

\* The exchange works on; that it may fail to is LoseRequests.
Spec == Init /\ [][Next]_vars /\ WF_vars(Answer)

-----------------------------------------------------------------------------
States == {"INVALID", "PENDING_NEW", "LIVE", "PENDING_CANCEL", "DEAD"}
Request == [type : {"NEW", "CANCEL"}, side : Sides, id : Int, price : Int]

TypeOK ==
    /\ slot \in [Sides -> [id : Int, price : Int, quantity : Int, state : States]]
    /\ nextOrderId \in Nat
    /\ info \in [position : Int, realized : Int, unrealized : Int, total : Int,
                 openVWAP : [Sides -> Int]]
    /\ flat \in BOOLEAN /\ mark \in Nat
    /\ requests \in Seq(Request)
    /\ resting \in [Sides -> [id : Int, price : Int, leaves : Nat]]
    /\ held \in Int /\ fills \in Nat
    /\ obeyed \in BOOLEAN /\ heard \in BOOLEAN
    /\ fetches \in BOOLEAN /\ caught \in BOOLEAN /\ misled \in BOOLEAN

Pending(side) == slot[side].state \in {"PENDING_NEW", "PENDING_CANCEL"}
Working(side) == slot[side].state = "LIVE" \/ Pending(side)

\* What the exchange may still execute of a side.
AtExchange(side) ==
    IF \E i \in 1 .. Len(requests) : requests[i].type = "NEW" /\ requests[i].side = side
    THEN Clip ELSE resting[side].leaves

\* All that rests at the exchange, or is on its way there, on a side is the order of
\* the slot of that side, and no more of it than the slot says: although an answer
\* finds its order by the side alone, it is never applied to another order.
OnlyTheSlotsOrderRests ==
    ~misled =>
        /\ \A side \in Sides : resting[side].leaves > 0 =>
              /\ Working(side) /\ slot[side].id = resting[side].id
              /\ resting[side].leaves <= slot[side].quantity
        /\ \A i \in 1 .. Len(requests) : requests[i].type = "NEW" =>
              /\ slot[requests[i].side].state = "PENDING_NEW"
              /\ slot[requests[i].side].id = requests[i].id
              /\ resting[requests[i].side].leaves = 0
              /\ \A j \in 1 .. Len(requests) :
                    requests[j].type = "NEW" /\ requests[j].side = requests[i].side => i = j

\* The position never exceeds the limit, whatever the exchange still executes of the
\* orders it has or is being sent, and even if its answers are lost: the check before
\* an order counts neither the orders of the other side nor unreported executions.
PositionWithinLimits ==
    ~misled => /\ held + AtExchange("BUY") <= MaxPositions
               /\ held - AtExchange("SELL") >= -MaxPositions

\* A short position is worth minus its whole value, as if it had been sold for
\* nothing, unless it grew on an openVWAP nobody has written.
ShortIsChargedInFull ==
    info.position < 0 /\ flat => info.unrealized = mark * info.position

\* A request is answered and the slot with it, unless the session or the matching
\* engine lost something, the trade engine's loop has kept an answer, or an execution
\* was reported to the other side.
PendingEnds ==
    \A side \in Sides :
        Pending(side) ~> ~Pending(side) \/ ~obeyed \/ ~Hears \/ misled
=============================================================================
