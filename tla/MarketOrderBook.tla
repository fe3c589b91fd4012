-------------------------- MODULE MarketOrderBook ---------------------------
(***************************************************************************)
(* trading/strategy/MarketOrderBook.cpp: the book the trade engine rebuilds *)
(* from market updates, its best bid and offer, and the strategies that are *)
(* called back after every update.  The trade engine's thread handles one   *)
(* update at a time, so OnMarketUpdate is a step; when it ends the process, *)
(* halted names where.                                                      *)
(*                                                                          *)
(* As in MEOrderBook an order is named by its id, a level by its index in   *)
(* mPriceOrdersAtPrice, and the circular list of levels of a side is the    *)
(* sequence that starts at mBidsByPrice or mAsksByPrice.                    *)
(***************************************************************************)
EXTENDS Integers, FiniteSets, SequencesExt

CONSTANTS
    MaxOrderIds,    \* ME_MAX_ORDER_IDS: mOrderIdToOrder and the order pool
    NumLevels,      \* ME_MAX_PRICE_LEVELS: mPriceOrdersAtPrice and the level pool
    OrderIds,       \* ids the exchange gives; nothing keeps them below MaxOrderIds
    Prices, Quantities,
    MaxUpdates      \* bound: updates in a behaviour

ASSUME SizesAssumption == /\ MaxOrderIds \in Nat \ {0}
                          /\ NumLevels \in Nat \ {0}
ASSUME InputsAssumption == /\ OrderIds \subseteq Nat
                           /\ Prices \subseteq Nat
                           /\ Quantities \subseteq Nat
                           /\ MaxUpdates \in Nat

VARIABLES
    orders,         \* id -> the order, a block of mMartketOrdersPool in use
    unwritten,      \* the cells of mOrderIdToOrder nobody has written
    levelAt,        \* mPriceOrdersAtPrice
    ring,           \* side -> indexes of its levels, from the head on
    best,           \* mBestBidOffer
    quote,          \* the last MoveOrders a strategy has called for
    algorithm,      \* the strategy that is plugged in
    market,         \* what the updates so far say rests
    lastId,         \* the last id the exchange gave
    cleared,        \* indexes that held a level when a CLEAR came
    halted,         \* "no", or where the process ended
    received        \* updates so far

book == <<orders, unwritten, levelAt, ring>>
told == <<market, lastId, cleared>>
vars == <<book, best, quote, algorithm, told, halted, received>>

Sides == {"BUY", "SELL"}
Index == 0 .. NumLevels - 1
None == -1          \* nullptr, Price_INVALID, Quantity_INVALID

NoLevel == [side |-> "null", price |-> 0, first |-> None]
Uninitialised == [side |-> "uninitialised", price |-> 0, first |-> None]
Freed == [side |-> "freed", price |-> 0, first |-> None]
Invalid == [price |-> None, quantity |-> None]

PriceToIndex(price) == price % NumLevels
GetOrdersAtPrice(price) == levelAt[PriceToIndex(price)]
HeadPrice(side) == levelAt[Head(ring[side])].price
UsedLevels == {i \in Index : levelAt[i].side \in Sides}

\* The two tables are not initialised by the constructor.
Init == /\ orders = <<>>
        /\ unwritten = 0 .. MaxOrderIds - 1
        /\ levelAt = [i \in Index |-> Uninitialised]
        /\ ring = [side \in Sides |-> <<>>]
        /\ best = [side \in Sides |-> Invalid]
        /\ quote = <<>>
        /\ algorithm \in {"MAKER", "TAKER", "RANDOM"}
        /\ market = <<>>
        /\ lastId = None
        /\ cleared = {}
        /\ halted = "no"
        /\ received = 0

-----------------------------------------------------------------------------
(* The best bid and offer, and who is told of it.                          *)

\* bidUpdated and askUpdated, decided before the update is applied and from the
\* head of the list.
Updated(side, u) ==
    /\ ring[side] # <<>> /\ u.side = side
    /\ IF side = "BUY" THEN u.price >= HeadPrice(side) ELSE u.price <= HeadPrice(side)

QuantityOf(i) == MapThenSumSet(LAMBDA o : orders[o].quantity,
                               {o \in DOMAIN orders : PriceToIndex(orders[o].price) = i})

\* UpdateBestBidOffer for one side: the sum follows nextOrder until it comes back
\* to the first order, so it needs the list to be a circle.
BestOf(side) == IF ring[side] = <<>> THEN Invalid
                ELSE [price |-> HeadPrice(side), quantity |-> QuantityOf(Head(ring[side]))]

SumFollowsNull(side) ==
    ring[side] # <<>> /\ orders[levelAt[Head(ring[side])].first].next = None

\* A strategy wants two valid prices.
BothSides(bbo) == bbo["BUY"].price # None /\ bbo["SELL"].price # None

\* MarketMaker::OnOrderBookUpdate: the two prices it moves its orders to; its
\* formulas choose between neighbours.
MakerQuote(bbo) ==
    \E below, above \in {0, 1} :
        quote' = <<bbo["BUY"].price - below, bbo["BUY"].price + above>>

\* TradeEngine::OnOrderBookUpdate, which MarketOrderBook calls after every update.
CallBack(bbo) ==
    IF algorithm = "MAKER" /\ BothSides(bbo) THEN MakerQuote(bbo) ELSE UNCHANGED quote

\* TradeEngine::OnTradeUpdate and LiquidityTaker::OnTradeUpdate, if the trade is
\* large enough; the best bid and offer are those from before the update.
TradeCallBack(u) ==
    IF algorithm = "TAKER" /\ BothSides(best)
    THEN quote' = IF u.side = "BUY" THEN <<best["SELL"].price, None>>
                                    ELSE <<None, best["BUY"].price>>
    ELSE UNCHANGED quote

\* The best bid and offer once the update is in the book.
UpdateBestBidOffer(u) ==
    IF \E side \in Sides : Updated(side, u) /\ SumFollowsNull(side)'
    THEN halted' = "UpdateBestBidOffer" /\ UNCHANGED best
    ELSE /\ best' = [side \in Sides |-> IF Updated(side, u) THEN BestOf(side)' ELSE best[side]]
         /\ UNCHANGED halted

\* The end of OnMarketUpdate, if it is reached.
Report(u) == /\ UpdateBestBidOffer(u)
             /\ IF halted' = "no" THEN CallBack(best') ELSE UNCHANGED quote

-----------------------------------------------------------------------------
Running == halted = "no"

Receive == /\ received < MaxUpdates
           /\ received' = received + 1
           /\ UNCHANGED algorithm

Dies(where) == /\ Receive
               /\ halted' = where
               /\ UNCHANGED <<book, best, quote>>

(* ADD                                                                     *)

Announced(u) == /\ market' = [o \in DOMAIN market \cup {u.id} |->
                                IF o = u.id THEN u ELSE market[o]]
                /\ lastId' = u.id
                /\ UNCHANGED cleared

\* MemoryPool::Allocate does not return when it takes the last free block.
Exhausts(u) == \/ Cardinality(DOMAIN orders) + 1 = MaxOrderIds
               \/ /\ GetOrdersAtPrice(u.price) \in {NoLevel, Uninitialised}
                  /\ Cardinality(UsedLevels) + 1 = NumLevels

GoesBefore(side, price, other) ==
    IF side = "SELL" THEN price > other ELSE price < other

\* (The ...Slip definitions are plausible mistakes: see "Mutants" in README.md.)
InsertLevelSlip(side, price) ==
    \E pos \in 1 .. Len(ring[side]) + 1 :
        /\ \A k \in 1 .. pos - 1 : ~GoesBefore(side, price, levelAt[ring[side][k]].price)
        /\ pos <= Len(ring[side]) => GoesBefore(side, price, levelAt[ring[side][pos]].price)
        /\ ring' = [ring EXCEPT ![side] = Append(SubSeq(@, 1, pos - 1), PriceToIndex(price))]

\* AddOrdersAtPrice: before the first level the new price goes before, or last.
InsertLevel(side, price) ==
    \E pos \in 1 .. Len(ring[side]) + 1 :
        /\ \A k \in 1 .. pos - 1 : ~GoesBefore(side, price, levelAt[ring[side][k]].price)
        /\ pos <= Len(ring[side]) => GoesBefore(side, price, levelAt[ring[side][pos]].price)
        /\ ring' = [ring EXCEPT ![side] = InsertAt(@, pos, PriceToIndex(price))]

NewOrderSlip(u) == [side |-> u.side, price |-> u.price, quantity |-> u.quantity,
                    prev |-> u.id, next |-> u.id]

\* AddOrder makes the links null and does not close the circle.
NewOrder(u) == [side |-> u.side, price |-> u.price, quantity |-> u.quantity,
                prev |-> None, next |-> None]

\* A cell nobody has written may hold anything.
AddFollowsWildPointer(u) ==
    /\ GetOrdersAtPrice(u.price) = Uninitialised
    /\ Dies("wild pointer") /\ Announced(u)

AddExhausts(u) == Exhausts(u) /\ Dies("memory pool") /\ Announced(u)

\* The second order at a price links itself behind firstOrder->prevOrder; a level
\* that CLEAR has freed still looks like one in use.
LinksToNull(level) == level = Freed \/ (level.side \in Sides /\ orders[level.first].prev = None)

AddLinksToNull(u) ==
    /\ ~Exhausts(u) /\ LinksToNull(GetOrdersAtPrice(u.price))
    /\ Dies("AddOrder") /\ Announced(u)

AddOrder(u) ==
    LET level == GetOrdersAtPrice(u.price)
        last  == orders[level.first].prev
        with  == [o \in DOMAIN orders \cup {u.id} |-> IF o = u.id THEN NewOrder(u) ELSE orders[o]]
    IN  IF level \in {NoLevel, Uninitialised}
        THEN /\ orders' = with
             /\ levelAt' = [levelAt EXCEPT ![PriceToIndex(u.price)] =
                              [side |-> u.side, price |-> u.price, first |-> u.id]]
             /\ InsertLevel(u.side, u.price)
        ELSE /\ ~LinksToNull(level)
             /\ orders' = [with EXCEPT ![last].next = u.id, ![level.first].prev = u.id,
                                       ![u.id].prev = last, ![u.id].next = level.first]
             /\ UNCHANGED <<levelAt, ring>>

\* mOrderIdToOrder is written by an id nothing has checked.
AddBeyondTable(u) ==
    /\ ~Exhausts(u) /\ u.id >= MaxOrderIds
    /\ Receive /\ AddOrder(u) /\ Announced(u)
    /\ halted' = "mOrderIdToOrder"
    /\ UNCHANGED <<unwritten, best, quote>>

AddRests(u) ==
    /\ ~Exhausts(u) /\ u.id < MaxOrderIds
    /\ Receive /\ AddOrder(u) /\ Announced(u)
    /\ unwritten' = unwritten \ {u.id}
    /\ Report(u)

Add(u) == \/ AddFollowsWildPointer(u) \/ AddExhausts(u) \/ AddLinksToNull(u)
          \/ AddBeyondTable(u) \/ AddRests(u)

-----------------------------------------------------------------------------
(* MODIFY, CANCEL, TRADE and CLEAR                                         *)

Modify(u) ==
    /\ Receive
    /\ orders' = [orders EXCEPT ![u.id].quantity = u.quantity]
    /\ market' = [market EXCEPT ![u.id] = u]
    /\ UNCHANGED <<unwritten, levelAt, ring, lastId, cleared>>
    /\ Report(u)

Withdrawn(u) == /\ market' = [o \in DOMAIN market \ {u.id} |-> market[o]]
                /\ UNCHANGED <<lastId, cleared>>

\* RemoveOrder takes the level away if it is the only one of its side, and relinks
\* the order's neighbours if it is not.
OnlyLevel(u) == Len(ring[GetOrdersAtPrice(u.price).side]) = 1

CancelRelinksNull(u) ==
    /\ ~OnlyLevel(u) /\ (orders[u.id].prev = None \/ orders[u.id].next = None)
    /\ Dies("RemoveOrder") /\ Withdrawn(u)

RemoveLevel(u) ==
    /\ levelAt' = [levelAt EXCEPT ![PriceToIndex(u.price)] = NoLevel]
    /\ \E place \in DOMAIN ring[u.side] :
          /\ ring[u.side][place] = PriceToIndex(u.price)
          /\ ring' = [ring EXCEPT ![u.side] = RemoveAt(@, place)]
    /\ orders' = [o \in DOMAIN orders \ {u.id} |-> orders[o]]

RelinkOrders(u) ==
    LET order == orders[u.id]
        relinked == [orders EXCEPT ![order.prev].next = order.next, ![order.next].prev = order.prev]
    IN  /\ orders' = [o \in DOMAIN orders \ {u.id} |-> relinked[o]]
        /\ levelAt' = [levelAt EXCEPT ![PriceToIndex(u.price)].first =
                         IF @ = u.id THEN order.next ELSE @]
        /\ UNCHANGED ring

CancelRemoves(u) ==
    /\ Receive /\ Withdrawn(u)
    /\ IF OnlyLevel(u) THEN RemoveLevel(u)
       ELSE orders[u.id].prev # None /\ orders[u.id].next # None /\ RelinkOrders(u)
    /\ UNCHANGED unwritten
    /\ Report(u)

Cancel(u) == CancelRelinksNull(u) \/ CancelRemoves(u)

\* The strategies are told of a trade before the best bid and offer are brought up
\* to date, and of the book afterwards.
Trade(u) ==
    /\ Receive
    /\ UNCHANGED <<book, told>>
    /\ UpdateBestBidOffer(u)
    /\ IF algorithm = "MAKER" /\ halted' = "no" THEN CallBack(best') ELSE TradeCallBack(u)

\* Every cell that is not null is given back to the pool.
ClearFollowsWildPointer ==
    /\ unwritten # {}
    /\ Dies("wild pointer") /\ UNCHANGED told

\* (The slip clears mPriceOrdersAtPrice too.)
ClearSlip ==
    /\ Receive
    /\ orders' = <<>> /\ unwritten' = {}
    /\ levelAt' = [i \in Index |-> IF i \in UsedLevels THEN NoLevel ELSE levelAt[i]]
    /\ ring' = [side \in Sides |-> <<>>]
    /\ market' = <<>>
    /\ cleared' = cleared \cup UsedLevels
    /\ CallBack(best)
    /\ UNCHANGED <<best, halted, lastId>>

\* Orders and levels are freed and forgotten, except that mPriceOrdersAtPrice keeps
\* its pointers.  An update without a side never touches the best bid and offer.
Clear ==
    /\ Receive
    /\ orders' = <<>> /\ unwritten' = {}
    /\ levelAt' = [i \in Index |-> IF i \in UsedLevels THEN Freed ELSE levelAt[i]]
    /\ ring' = [side \in Sides |-> <<>>]
    /\ market' = <<>>
    /\ cleared' = cleared \cup UsedLevels
    /\ CallBack(best)
    /\ UNCHANGED <<best, halted, lastId>>

-----------------------------------------------------------------------------
Update(id, side, price, qty) == [id |-> id, side |-> side, price |-> price, quantity |-> qty]

\* Any stream a book can be told of: new ids rise, and only what rests is
\* modified or cancelled.
Next ==
    \/ \E id \in OrderIds, side \in Sides, price \in Prices, qty \in Quantities :
          Running /\ id > lastId /\ Add(Update(id, side, price, qty))
    \/ \E id \in DOMAIN market, qty \in Quantities :
          Running /\ Modify([market[id] EXCEPT !.quantity = qty])
    \/ \E id \in DOMAIN market : Running /\ Cancel(market[id])
    \/ \E side \in Sides, price \in Prices, qty \in Quantities :
          Running /\ Trade(Update(None, side, price, qty))
    \/ Running /\ ClearFollowsWildPointer
    \/ Running /\ Clear

Spec == Init /\ [][Next]_vars

-----------------------------------------------------------------------------
Order == [side : Sides, price : Nat, quantity : Nat, prev : Int, next : Int]
Level == [side : Sides \cup {"null", "uninitialised", "freed"}, price : Nat, first : Int]
Halts == {"no", "wild pointer", "memory pool", "AddOrder", "mOrderIdToOrder",
          "RemoveOrder", "UpdateBestBidOffer"}

TypeOK ==
    /\ \A o \in DOMAIN orders : o \in Nat /\ orders[o] \in Order
    /\ unwritten \subseteq 0 .. MaxOrderIds - 1
    /\ levelAt \in [Index -> Level]
    /\ ring \in [Sides -> Seq(Index)]
    /\ best \in [Sides -> [price : Int, quantity : Int]]
    /\ algorithm \in {"MAKER", "TAKER", "RANDOM"}
    /\ lastId \in Int
    /\ cleared \subseteq Index
    /\ halted \in Halts
    /\ received \in Nat

\* The best bid and offer are never anything but invalid, so no strategy ever asks
\* for an order: a price reaches mBestBidOffer only through a sum that dereferences
\* null, and the first order of a side is not reported at all.
NoPriceIsReported == best = [side \in Sides |-> Invalid] /\ quote = <<>>

\* While the process lives its book holds exactly what the updates say rests, each
\* order with its quantity at a level in the list of its side.
MirrorsUpdates ==
    halted = "no" =>
        /\ DOMAIN orders = DOMAIN market
        /\ \A o \in DOMAIN orders :
              /\ orders[o].side = market[o].side
              /\ orders[o].price = market[o].price
              /\ orders[o].quantity = market[o].quantity
              /\ \E k \in DOMAIN ring[orders[o].side] :
                    ring[orders[o].side][k] = PriceToIndex(orders[o].price)

\* In a book that lives every new bid was lower, and every new ask higher, than
\* those it found: a better price ends the process, and so does an equal one.
EachNewPriceIsWorse ==
    halted = "no" =>
        \A o, p \in DOMAIN orders :
            orders[o].side = orders[p].side /\ o < p =>
                GoesBefore(orders[o].side, orders[p].price, orders[o].price)

\* A price that was in use when a CLEAR came can never be used again.
ClearedPricesAreLost ==
    \A o \in DOMAIN orders : PriceToIndex(orders[o].price) \notin cleared
=============================================================================
