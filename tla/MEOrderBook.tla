---------------------------- MODULE MEOrderBook -----------------------------
(***************************************************************************)
(* exchange/matcher/MEOrderBook.cpp: the order book of one ticker.  The    *)
(* matching engine's thread calls Add and Cancel one at a time, so each    *)
(* call is a step.  A call may also end the process or never return; the   *)
(* variable halted then names the function, and what the call had already  *)
(* done (an ACCEPTED response, an order linked but not announced) stays.   *)
(*                                                                         *)
(* An order is named by its market order id, a price level by its index in *)
(* mOrdersAtPrice.  The circular list of levels of a side is the sequence  *)
(* that starts at its head (mBidsByPrice, mAsksByPrice); the links between *)
(* the orders of a level are kept as the code keeps them.                  *)
(***************************************************************************)
EXTENDS Integers, FiniteSets, SequencesExt

CONSTANTS
    NumClients,     \* ME_MAX_NUM_CLIENTS
    MaxOrderIds,    \* ME_MAX_ORDER_IDS: a client's row of the table, and the order pool
    NumLevels,      \* ME_MAX_PRICE_LEVELS: mOrdersAtPrice, and the level pool
    ClientOrderIds, \* ids clients use; nothing keeps them below MaxOrderIds
    Prices, Quantities,
    Builds,         \* what the compiler makes of the matching loop
    MaxRequests     \* bound: requests in a behaviour

ASSUME SizesAssumption == /\ NumClients \in Nat \ {0}
                          /\ MaxOrderIds \in Nat \ {0}
                          /\ NumLevels \in Nat \ {0}
                          /\ NumLevels < MaxOrderIds
ASSUME InputsAssumption == /\ ClientOrderIds \subseteq Nat
                           /\ Prices \subseteq Nat
                           /\ Quantities \subseteq Nat
                           /\ MaxRequests \in Nat
ASSUME BuildsAssumption == Builds \subseteq {"hangs", "falls through"}

VARIABLES
    orders,         \* market order id -> the order filed, a block of mOrdersPool
    levelAt,        \* mOrdersAtPrice
    ring,           \* side -> indexes of its levels, from the head on
    table,          \* mClientIdToOrderId as the flat memory it is
    nextOrderId,    \* mNextOrderId
    response,       \* the last response sent
    market,         \* ids announced by ADD and not yet by CANCEL, with their price
    halted,         \* "no", or where the process ended or stopped
    build,          \* the build that runs
    processed       \* requests so far

book == <<orders, levelAt, ring, table>>
vars == <<book, nextOrderId, response, market, halted, build, processed>>

Clients == 0 .. NumClients - 1
Sides == {"BUY", "SELL"}
Other(side) == IF side = "BUY" THEN "SELL" ELSE "BUY"
Index == 0 .. NumLevels - 1
Cells == 0 .. NumClients * MaxOrderIds - 1

None == -1          \* nullptr
Uninitialised == -2 \* a cell of the table nobody has written

NoLevel == [side |-> "INVALID", price |-> 0, first |-> None]

\* price % ME_MAX_PRICE_LEVELS: distinct prices may share an index.
PriceToIndex(price) == price % NumLevels

GetOrdersAtPrice(price) == levelAt[PriceToIndex(price)]

\* (The ...Slip definitions are plausible mistakes: see "Mutants" in README.md.)
CellSlip(clientId, clientOrderId) == clientOrderId

\* mClientIdToOrderId[clientId][clientOrderId] with operator[]: a large id runs
\* into the row of the next client.
Cell(clientId, clientOrderId) == clientId * MaxOrderIds + clientOrderId

Init == /\ orders = <<>>
        /\ levelAt = [i \in Index |-> NoLevel]
        /\ ring = [side \in Sides |-> <<>>]
        /\ table = [cell \in Cells |-> Uninitialised]
        /\ nextOrderId = 0
        /\ response = [type |-> "INVALID", client |-> None, id |-> None]
        /\ market = <<>>
        /\ halted = "no"
        /\ build \in Builds
        /\ processed = 0

Request == /\ halted = "no"
           /\ processed < MaxRequests
           /\ processed' = processed + 1
           /\ UNCHANGED build

-----------------------------------------------------------------------------
(* Add                                                                     *)

\* Every Add takes an id and is accepted, whatever happens next.
Accept(clientId) ==
    /\ Request
    /\ nextOrderId' = nextOrderId + 1
    /\ response' = [type |-> "ACCEPTED", client |-> clientId, id |-> nextOrderId]

GoesBeforeSlip(side, price, other) ==
    IF side = "SELL" THEN price < other ELSE price > other

\* shouldInsert of AddOrdersAtPrice.
GoesBefore(side, price, other) ==
    IF side = "SELL" THEN price > other ELSE price < other

CheckForMatchSlip(side, price, qty) ==
    LET opposite == ring[Other(side)]
    IN  /\ qty # 0 /\ opposite # <<>>
        /\ LET first == orders[levelAt[Head(opposite)].first]
           IN  ~ IF side = "BUY" THEN price > first.price ELSE price < first.price

\* The loop of CheckForMatch is left at once, or not at all: its body changes
\* nothing and looks only at the first order of the first level.
CheckForMatchNeverLeaves(side, price, qty) ==
    LET opposite == ring[Other(side)]
    IN  /\ qty # 0 /\ opposite # <<>>
        /\ LET first == orders[levelAt[Head(opposite)].first]
           IN  ~ IF side = "BUY" THEN price < first.price ELSE price > first.price

AddSpins(clientId, side, price, qty) ==
    /\ Accept(clientId)
    /\ build = "hangs" /\ CheckForMatchNeverLeaves(side, price, qty)
    /\ halted' = "CheckForMatch"
    /\ UNCHANGED <<book, market>>

\* A loop without effect may be left out by an optimising compiler: then the
\* whole quantity is left and the order rests.
LeftQuantity(side, price, qty) ==
    /\ qty # 0
    /\ build = "hangs" => ~CheckForMatchNeverLeaves(side, price, qty)

AddNothing(clientId, qty) ==
    /\ qty = 0
    /\ Accept(clientId)
    /\ UNCHANGED <<book, market, halted>>

\* GetNextPriority reads firstOrder->prevOrder->priority.
PriorityUnreadable(price) ==
    LET first == GetOrdersAtPrice(price).first
    IN  first # None /\ orders[first].prev = None

GetNextPriority(price) ==
    LET first == GetOrdersAtPrice(price).first
    IN  IF first = None THEN 1 ELSE orders[orders[first].prev].priority + 1

AddBehindOrder(clientId, side, price, qty) ==
    /\ Accept(clientId)
    /\ LeftQuantity(side, price, qty)
    /\ PriorityUnreadable(price)
    /\ halted' = "GetNextPriority"
    /\ UNCHANGED <<book, market>>

\* MemoryPool::Allocate does not return when it takes the last free block.
UsedLevels == {i \in Index : levelAt[i].first # None}
OrdersExhausted == Cardinality(DOMAIN orders) + 1 = MaxOrderIds
LevelsExhausted(price) == /\ GetOrdersAtPrice(price).first = None
                          /\ Cardinality(UsedLevels) + 1 = NumLevels
NoneExhausted(price) == ~OrdersExhausted /\ ~LevelsExhausted(price)

AddExhausts(clientId, side, price, qty) ==
    /\ Accept(clientId)
    /\ LeftQuantity(side, price, qty)
    /\ ~PriorityUnreadable(price)
    /\ ~NoneExhausted(price)
    /\ halted' = IF OrdersExhausted THEN "mOrdersPool" ELSE "mOrdersAtPricePool"
    /\ UNCHANGED <<book, market>>

\* AddOrdersAtPrice: before the first level the new price goes before, or last.
InsertLevel(side, price) ==
    \E pos \in 1 .. Len(ring[side]) + 1 :
        /\ \A k \in 1 .. pos - 1 :
              ~GoesBefore(side, price, levelAt[ring[side][k]].price)
        /\ pos <= Len(ring[side]) =>
              GoesBefore(side, price, levelAt[ring[side][pos]].price)
        /\ ring' = [ring EXCEPT ![side] = InsertAt(@, pos, PriceToIndex(price))]

\* AddOrder: alone at a new level, or last in the circular list of its level.
AddOrder(order) ==
    LET level == GetOrdersAtPrice(order.price)
        id    == order.id
        last  == orders[level.first].prev
        with  == [o \in DOMAIN orders \cup {id} |-> IF o = id THEN order ELSE orders[o]]
    IN  IF level.first = None
        THEN /\ orders' = with
             /\ levelAt' = [levelAt EXCEPT ![PriceToIndex(order.price)] =
                              [side |-> order.side, price |-> order.price, first |-> id]]
             /\ InsertLevel(order.side, order.price)
        ELSE /\ orders' = [with EXCEPT ![last].next = id, ![level.first].prev = id,
                                       ![id].prev = last, ![id].next = level.first]
             /\ UNCHANGED <<levelAt, ring>>

\* (The slip leaves out the two lines that make the links null.)
NewOrderSlip(clientId, clientOrderId, side, price) ==
    [id |-> nextOrderId, client |-> clientId, clientOrderId |-> clientOrderId,
     side |-> side, price |-> price, priority |-> GetNextPriority(price),
     prev |-> nextOrderId, next |-> nextOrderId]

NewOrder(clientId, clientOrderId, side, price) ==
    [id |-> nextOrderId, client |-> clientId, clientOrderId |-> clientOrderId,
     side |-> side, price |-> price, priority |-> GetNextPriority(price),
     prev |-> None, next |-> None]

Rests(clientId, clientOrderId, side, price, qty) ==
    /\ Accept(clientId)
    /\ LeftQuantity(side, price, qty)
    /\ ~PriorityUnreadable(price)
    /\ NoneExhausted(price)
    /\ AddOrder(NewOrder(clientId, clientOrderId, side, price))

\* The table is written last, by an index nothing has checked.  Beyond its row
\* the id may also stop a build whose library checks operator[]; beyond the
\* table it overwrites the members that follow.
AddWritesBeyondRow(clientId, clientOrderId, side, price, qty) ==
    /\ clientOrderId >= MaxOrderIds
    /\ Rests(clientId, clientOrderId, side, price, qty)
    /\ halted' = "mClientIdToOrderId"
    /\ UNCHANGED <<table, market>>

AddRestsSlip(clientId, clientOrderId, side, price, qty) ==
    /\ Cell(clientId, clientOrderId) \in Cells
    /\ Rests(clientId, clientOrderId, side, price, qty)
    /\ table' = [table EXCEPT ![Cell(clientId, clientOrderId)] = nextOrderId]
    /\ UNCHANGED <<halted, market>>

\* SHOWINFO prints *mBidsByPrice, also when there is none; only then is the new
\* order announced.
AddRests(clientId, clientOrderId, side, price, qty) ==
    /\ Cell(clientId, clientOrderId) \in Cells
    /\ Rests(clientId, clientOrderId, side, price, qty)
    /\ table' = [table EXCEPT ![Cell(clientId, clientOrderId)] = nextOrderId]
    /\ IF ring'["BUY"] = <<>>
       THEN halted' = "ToString" /\ UNCHANGED market
       ELSE /\ market' = [o \in DOMAIN market \cup {nextOrderId} |->
                            IF o = nextOrderId THEN price ELSE market[o]]
            /\ UNCHANGED halted

Add(clientId, clientOrderId, side, price, qty) ==
    \/ AddSpins(clientId, side, price, qty)
    \/ AddNothing(clientId, qty)
    \/ AddBehindOrder(clientId, side, price, qty)
    \/ AddExhausts(clientId, side, price, qty)
    \/ AddWritesBeyondRow(clientId, clientOrderId, side, price, qty)
    \/ AddRests(clientId, clientOrderId, side, price, qty)

-----------------------------------------------------------------------------
(* Cancel                                                                  *)

\* order.at(clientOrderId) throws, and nobody catches.
CancelThrows(clientId, clientOrderId) ==
    /\ clientOrderId >= MaxOrderIds
    /\ Request
    /\ halted' = "Cancel"
    /\ UNCHANGED <<book, nextOrderId, response, market>>

\* A cell that holds null, or happens to: what was read is what it held.
CancelRejected(clientId, clientOrderId) ==
    LET cell == Cell(clientId, clientOrderId)
    IN  /\ clientOrderId < MaxOrderIds
        /\ table[cell] \in {None, Uninitialised}
        /\ Request
        /\ table' = [table EXCEPT ![cell] = None]
        /\ response' = [type |-> "CANCEL_REJECTED", client |-> clientId, id |-> None]
        /\ UNCHANGED <<orders, levelAt, ring, nextOrderId, market, halted>>

\* The constructor leaves the table uninitialised: the pointer may be wild.
CancelFollowsWildPointer(clientId, clientOrderId) ==
    /\ clientOrderId < MaxOrderIds
    /\ table[Cell(clientId, clientOrderId)] = Uninitialised
    /\ Request
    /\ halted' = "wild pointer"
    /\ UNCHANGED <<book, nextOrderId, response, market>>

Cancellable(clientId, clientOrderId) ==
    /\ clientOrderId < MaxOrderIds
    /\ table[Cell(clientId, clientOrderId)] >= 0
    /\ Request

OnlyLevelSlip(order) == GetOrdersAtPrice(order.price).first = order.id

\* ordersAtPrice->nextEntry == ordersAtPrice, which says that the level is the
\* only one of its side.
OnlyLevel(order) == Len(ring[GetOrdersAtPrice(order.price).side]) = 1

\* The order's list is relinked whenever the side has another level.
CancelRelinksNull(clientId, clientOrderId) ==
    LET order == orders[table[Cell(clientId, clientOrderId)]]
    IN  /\ Cancellable(clientId, clientOrderId)
        /\ ~OnlyLevel(order) /\ (order.prev = None \/ order.next = None)
        /\ halted' = "RemoveOrder"
        /\ UNCHANGED <<book, nextOrderId, response, market>>

RemoveLevelSlip(order) ==
    /\ \E place \in DOMAIN ring[order.side] :
          /\ ring[order.side][place] = PriceToIndex(order.price)
          /\ ring' = [ring EXCEPT ![order.side] = RemoveAt(@, place)]
    /\ orders' = [o \in DOMAIN orders \ {order.id} |-> orders[o]]
    /\ UNCHANGED levelAt

\* RemoveOrdersAtPrice.
RemoveLevel(order) ==
    /\ levelAt' = [levelAt EXCEPT ![PriceToIndex(order.price)] = NoLevel]
    /\ \E place \in DOMAIN ring[order.side] :
          /\ ring[order.side][place] = PriceToIndex(order.price)
          /\ ring' = [ring EXCEPT ![order.side] = RemoveAt(@, place)]
    /\ orders' = [o \in DOMAIN orders \ {order.id} |-> orders[o]]

RelinkOrders(order) ==
    LET i == PriceToIndex(order.price)
        relinked == [orders EXCEPT ![order.prev].next = order.next,
                                   ![order.next].prev = order.prev]
    IN  /\ orders' = [o \in DOMAIN orders \ {order.id} |-> relinked[o]]
        /\ levelAt' = IF levelAt[i].first = order.id
                      THEN [levelAt EXCEPT ![i].first = order.next] ELSE levelAt
        /\ UNCHANGED ring

\* RemoveOrder, then the response and the update, read from the freed order.
CancelRemoves(clientId, clientOrderId) ==
    LET order == orders[table[Cell(clientId, clientOrderId)]]
    IN  /\ Cancellable(clientId, clientOrderId)
        /\ IF OnlyLevel(order) THEN RemoveLevel(order)
           ELSE order.prev # None /\ order.next # None /\ RelinkOrders(order)
        /\ table' = [table EXCEPT ![Cell(order.client, order.clientOrderId)] = None]
        /\ response' = [type |-> "CANCELED", client |-> clientId, id |-> order.id]
        /\ market' = [o \in DOMAIN market \ {order.id} |-> market[o]]
        /\ UNCHANGED <<nextOrderId, halted>>

Cancel(clientId, clientOrderId) ==
    \/ CancelThrows(clientId, clientOrderId)
    \/ CancelRejected(clientId, clientOrderId)
    \/ CancelFollowsWildPointer(clientId, clientOrderId)
    \/ CancelRelinksNull(clientId, clientOrderId)
    \/ CancelRemoves(clientId, clientOrderId)

-----------------------------------------------------------------------------
\* MatchingEngine::ProcessClientRequest hands over one request after another.
Next == \E clientId \in Clients, clientOrderId \in ClientOrderIds :
           \/ \E side \in Sides, price \in Prices, qty \in Quantities :
                 Add(clientId, clientOrderId, side, price, qty)
           \/ Cancel(clientId, clientOrderId)

Spec == Init /\ [][Next]_vars

-----------------------------------------------------------------------------
Order == [id : Nat, client : Clients, clientOrderId : Nat, side : Sides,
          price : Nat, priority : Nat, prev : Int, next : Int]

Level == [side : Sides \cup {"INVALID"}, price : Nat, first : Int]

Halts == {"no", "CheckForMatch", "GetNextPriority", "mOrdersPool",
          "mOrdersAtPricePool", "mClientIdToOrderId", "ToString", "Cancel",
          "wild pointer", "RemoveOrder"}

TypeOK ==
    /\ nextOrderId \in Nat
    /\ DOMAIN orders \subseteq 0 .. nextOrderId - 1
    /\ \A o \in DOMAIN orders : orders[o] \in Order /\ orders[o].id = o
    /\ levelAt \in [Index -> Level]
    /\ ring \in [Sides -> Seq(Index)]
    /\ table \in [Cells -> Int]
    /\ response.type \in {"INVALID", "ACCEPTED", "CANCELED", "CANCEL_REJECTED"}
    /\ halted \in Halts
    /\ build \in Builds
    /\ processed \in Nat

\* A level in mOrdersAtPrice leads to a resting order of its side and price, and
\* is in the list of its side.
LevelsLeadToOrders ==
    \A i \in UsedLevels :
        LET level == levelAt[i] IN
        /\ PriceToIndex(level.price) = i
        /\ level.side \in Sides
        /\ level.first \in DOMAIN orders
        /\ orders[level.first].side = level.side
        /\ orders[level.first].price = level.price
        /\ \E k \in DOMAIN ring[level.side] : ring[level.side][k] = i

\* The lists hold levels in use only, each in the list of its own side.
RingsHoldLevels ==
    \A side \in Sides : \A k \in DOMAIN ring[side] :
        /\ ring[side][k] \in UsedLevels
        /\ levelAt[ring[side][k]].side = side

\* A pointer in the table leads to an order in use that was filed in that cell.
TableLeadsToOrders ==
    \A cell \in Cells : table[cell] >= 0 =>
        /\ table[cell] \in DOMAIN orders
        /\ Cell(orders[table[cell]].client, orders[table[cell]].clientOrderId) = cell

\* The maps, the lists and the pool agree after every call, also after duplicate
\* client order ids, aliased cells and colliding prices.
BookConsistent == LevelsLeadToOrders /\ RingsHoldLevels /\ TableLeadsToOrders

\* No call ever completes a level with two orders: every resting order is the
\* first of its level, linked to nothing and of priority 1, so the price-time
\* queue of the book never exists.
OneOrderPerLevel ==
    \A o \in DOMAIN orders : /\ GetOrdersAtPrice(orders[o].price).first = o
                             /\ orders[o].prev = None /\ orders[o].next = None
                             /\ orders[o].priority = 1

\* The head of a side is its worst price: asks fall and bids rise along the list.
WorstPriceFirst ==
    \A side \in Sides : \A j, k \in DOMAIN ring[side] : j < k =>
        LET before == levelAt[ring[side][j]].price
            after  == levelAt[ring[side][k]].price
        IN  IF side = "SELL" THEN before > after ELSE before < after

\* Where the loop of CheckForMatch is compiled as written, it keeps the two heads
\* apart.  (It keeps nothing else apart: see "Observations" in README.md.)
HeadsNotCrossed ==
    /\ build = "hangs"
    /\ ring["BUY"] # <<>> /\ ring["SELL"] # <<>>
    => levelAt[Head(ring["BUY"])].price < levelAt[Head(ring["SELL"])].price

\* While the process lives, whoever follows the updates knows exactly the orders
\* that rest and their prices, whether or not the client can still reach them.
MarketMirrorsBook ==
    halted = "no" => market = [o \in DOMAIN orders |-> orders[o].price]

\* The updates are a stream such as the trading side's book expects, also after duplicate
\* client order ids, aliased cells and orders that get an id and never rest.
Stream == INSTANCE UpdateStream WITH resting <- market, fresh <- nextOrderId

SendsAStream == Stream!Spec

\* Every level costs one order, so the order pool is never the one that runs out.
OrderPoolSuffices == halted # "mOrdersPool"

\* A cancel that succeeds leaves its side of the book empty.
CancelEmptiesSide ==
    [][\A o \in DOMAIN orders \ DOMAIN orders' : ring'[orders[o].side] = <<>>]_vars

\* A client's cancel takes away another client's order only if that one was
\* filed under an id beyond its row of the table.
CancelsOwnOrder ==
    [][\A o \in DOMAIN orders \ DOMAIN orders' :
          \/ orders[o].client = response'.client
          \/ orders[o].clientOrderId >= MaxOrderIds]_vars
=============================================================================
