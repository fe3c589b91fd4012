# Verification of low-latency

A TLA+ development kept beside the code of low-latency, an exchange (`exchange/`) and a
trading client (`trading/`) that talk over TCP and UDP multicast and are built on a small
library (`common/`). Source paths are those of the repository.

Contents: [The system](#the-system) · [Hard behaviours](#hard-behaviours) · [Plan](#plan) ·
[Modules and code](#modules-and-code) · [Runs](#runs) · [Fairness](#fairness) ·
[Proofs](#proofs) · [Assumptions](#assumptions) · [Observations](#observations) ·
[Mutants](#mutants) · [Not modelled](#not-modelled)

## The system

Two processes. Every component below with a thread runs a loop `while (!mShouldStop)` over
its queue or socket; the only communication between threads is a `SafeQueue` ring.

```
 trading process                                exchange process
 TradeEngine --requests--> OrderGateway ==TCP==> OrderServer -> FIFOSequencer
     ^  ^                      |                     |  ^            |
     |  +-----responses--------+                     |  |            v  (requests)
     |                                       (responses) +---- MatchingEngine
     |                                                          | MEOrderBook x 8
     |                                                          v  (updates)
     +--updates-- MarketDataConsumer <==UDP== MarketDataPublisher
                            ^                          | (numbered updates)
                            +=========UDP============ SnapshotSynthesizer
```

| component | state | operations | must hold |
|---|---|---|---|
| `SafeQueue` (common/SafeQueue.h) | ring `store`, atomics `nextWriteIndex`, `nextReadIndex`, `numElements` | `GetNextWriteTo`, `UpdateWriteIndex`, `GetNextRead`, `UpdateReadIndex`, `GetSize` | a FIFO channel between two threads: no element lost, repeated, torn or out of order; no null pointer; no failed assert |
| `MemoryPool` (common/MemoryPool.h) | flags `isFree`, `nextFreeIndex` | `Allocate`, `Deallocate` | never a block in use; returns |
| `Logger` (common/Logger.h) | a `SafeQueue`, a thread | `PushValue`, `FlushQueue` | as SafeQueue, from the threads that log |
| `MCastSocket`, `TCPSocket`, `TCPServer` | inbound and outbound buffers, epoll sets | `Send`, `RecvAndSend`, callbacks | bytes in order; nothing dropped silently |
| `OrderServer`, `FIFOSequencer` | client -> socket, expected and next numbers, pending requests | `RecvCallback`, `RecvFinishCallback`, `SequenceAndPublish`, the response loop | requests of a client in order and once; responses to the right socket |
| `MatchingEngine` | one `MEOrderBook` per ticker | `ProcessClientRequest`, `SendClientResponse`, `SendMarketUpdate` | one call per request |
| `MEOrderBook` (exchange/matcher) | levels by price index, a list of levels per side, client order table, pools, next id | `Add`, `Cancel` and what they call | maps, lists and pools agree; a cancel takes away what it names; the market is told what rests |
| `MarketDataPublisher` | `mNextSequenceNumber`, the multicast buffer | `Run` | each update numbered once, sent, and handed on |
| `SnapshotSynthesizer` | orders by ticker, `mLastSequenceIncrementalNumber`, a pool | `AddToSnapshot`, `PublishSnapshot` | a snapshot is the book at its number |
| `MarketDataConsumer` (trading/market_data) | `mInRecovery`, the next expected number, two queues of messages | `RecvCallback`, `QueueMessage`, `CheckSnapshotSync`, `StartSnaphotSync` | delivers a prefix of the stream; recovers after a gap |
| `OrderGateway` | outgoing and expected numbers | `Run`, `RecvCallback` | each request sent once; responses in order |
| `TradeEngine` | callbacks, one `MarketOrderBook` per ticker | `Run`, `SendClientRequest`, `Stop` | handles each response and each update once |
| `MarketOrderBook` (trading/strategy) | as MEOrderBook, and the best bid and offer | `OnMarketUpdate` | the exchange's book |
| `OrderManager`, `RiskManager`, `PositionKeeper` | an order per ticker and side with a state; positions | `NewOrder`, `CancelOrder`, `MoveOrder`, `OnOrderUpdate`, `AddFill`, `CheckPreTradeRisk` | states follow the responses; the risk limits hold |
| `MarketMaker`, `LiquidityTaker`, `FeatureEngine` | parameters, two feature values | callbacks | (formulas) |
| `ThreadUtils.h`, the two `main.cpp` | threads, global pointers | start, `InterruptHandler` | orderly start and end |

## Hard behaviours

`PROJECT.json` lists each hazard at its line. The themes:

- *Interleaving.* `UpdateWriteIndex` publishes an element by two atomic operations and
  `UpdateReadIndex` gives it back by two; the consumers decide in four different ways that
  an element is there; one logger has two writers; the signal handler destroys components
  that other threads are still starting.
- *Stale state.* The publisher copies `*marketUpdate` after having given its slot back;
  `AddToSnapshot` edits a copy of the table; the order table is written by unchecked client
  indexes and read uninitialised; a client id keeps the first socket it was seen on; CLEAR
  leaves pointers to levels it has freed; a loop goes on with a response it has handled.
- *Protocols between calls.* Whether a second order may join a level, or a cancel unlinks a
  level, depends on what earlier calls left in the links; an answer finds its order by the
  side alone.
- *An unreliable network.* Loss, duplication and reordering of datagrams, a recovery that
  combines two streams, TCP sends that take only part of a buffer, clients that leave and
  come back, answers that are late or never come.
- *Limits.* Pools, rings and pending requests that fill, ids and prices outside the arrays,
  a sort that is stable only for short inputs, positions at their limit.
- *Ends.* Destructors and signal handlers that join threads still in use, or twice.

## Plan

In the order of what the rest of the system depends on, all of it written:

1. `Fifo`, `SafeQueue`: every thread boundary. The abstract specification is `Fifo`; the
   later modules use a queue as a sequence on the strength of that refinement.
2. `MemoryPool`.
3. `MEOrderBook`: what the exchange is for.
4. `MarketDataPublisher`: publisher and synthesizer together, over FIFO queues.
5. `MarketDataConsumer`: the other end, over an unreliable network.
6. `MarketOrderBook`: the book of the trading side and when its strategies are called.
7. `OrderManager`: with `RiskManager` and `PositionKeeper`, against an exchange that
   answers and executes and a session that may lose either direction.
8. `OrderSession`: `OrderGateway`, `TCPSocket`, `TCPServer`, `OrderServer` and
   `FIFOSequencer` composed.
9. `Lifecycle`: both programs from start to end.

The way of a market update is stated link by link, each proved for all constants. What the
updates of `MEOrderBook` say is what rests (`UpdatesMirrorBook`), and as a stream they
implement `UpdateStream` (`UpdatesAreAStream`); the publisher numbers what it takes without
a gap (`NumbersInOrder`); the consumer delivers a prefix (`DeliversPrefix`) of what was
published (`ConsumerTypeCorrect`); and as long as the trading side's book lives it holds what
the updates say (`LivingBookIsRight`). Only the exchange's book is shown to implement
`UpdateStream`. `MarketDataPublisher` and `MarketOrderBook` each enumerate the streams their
code may be given in an environment of their own; that these include all that `UpdateStream`
allows is read off their definitions and not checked by a tool. Open: one module that
composes the links.

## Modules and code

`PROJECT.json` maps every definition to its lines. In outline:

**Fifo** is the promise of a queue: `Send`, `Receive`, nothing else.

**UpdateStream** is what the exchange's book promises of its updates: the orders that rest
with their prices, and the ids never used. A new id is announced (`Announce`) or passed over
(`Pass`), and an order that rests is withdrawn (`Withdraw`).

**SafeQueue** has one action per atomic access. A writer goes through `GetNextWriteTo`,
`Fill`, `LoadWriteIndex`, `StoreWriteIndex`, `Count` (lines 15-24); the atomics are
sequentially consistent (`std::atomic` with its default order), so an interleaving of these
steps is an execution. The reader's loop is chosen by the variable `gate`: the four loops of
the code base test the pointer (`MatchingEngine`, `TradeEngine`'s updates), the counter
(`OrderServer`, `SnapshotSynthesizer`, `OrderGateway`, the test), the counter with a second
read of the slot (`MarketDataPublisher`), or both (`Logger`). The class tests neither for a
full ring nor for a second writer; `Limit` and `Producers` say how the environment uses it.

**MemoryPool** has `Allocate` and `Deallocate`, and the loop of `UpdateNextFreeIndex` one
round per step (`Search`, `Found`), because that loop may not end.

**MEOrderBook**: a call of `Add` or `Cancel` is one step, for one thread makes them. A call
that does not come back is a step too: it sets `halted` to the function it ends in, keeping
what was done before (the ACCEPTED response, say). The circular lists are sequences from the
head; the table is the flat memory it is, so that an id beyond a client's row reaches the
next client's. The matching loop `CheckForMatch` is left at once or never; as a loop without
effect it may also be removed by an optimising compiler. The variable `build` chooses one of
the two for the whole run.

**MarketDataPublisher**: actions `Take`, `Copy`, `Flush` of the publisher's thread and
`AddToSnapshot`, `PublishSnapshot` of the synthesizer's, over a stream of updates such as
`MEOrderBook` announces (an ADD per new id, a CANCEL of a live one). The queue between the
two threads is a sequence (module SafeQueue shows that it may be); the queue from the
matching engine is `stream` with the position `taken`.

**MarketDataConsumer**: `Publish` sends datagrams, `ReceiveIncremental` and
`ReceiveSnapshot` receive any datagram sent, once, again, late or never; `RecvCallback` is
worked off a message per step (`HandleInOrder`, `HandleInRecovery`, `Handled`). What the
snapshot socket may deliver is a parameter; `MCMarketDataConsumer` gives it the messages the
synthesizer sends for one ticker, in datagrams of one or two in any order. The walk of
`CheckSnapshotSync` over the two queues is written as the condition it computes
(`IsSnapshotComplete`, `Follows`).

**MarketOrderBook**: `OnMarketUpdate` is one step, with `UpdateBestBidOffer` and the
callbacks of the strategy that is plugged in; a step may end the process, and `halted` says
where. `best` is `mBestBidOffer`, `quote` the last `MoveOrders` a strategy asked for. The
environment is any stream a book can be told of: ADD with a new id, MODIFY and CANCEL of
what rests, TRADE, CLEAR. The tables the constructor leaves uninitialised are the cells
`unwritten`, and reading one is nondeterministic: null, or the end.

**OrderManager** is one ticker. `MoveOrders` is the strategies' call for both sides with the
pre-trade check in it; `UpdateBestBidOffer` and `Execution` (with `AddFill`) are the calls
into `PositionKeeper`; `Answer` lets the exchange work off the oldest request and delivers
the response. Two flags say whether a request (`obeyed`) or an answer (`heard`) was ever
lost, after which, as `OrderSession` shows, none of that direction arrives any more; a
matching engine that does not come back is a loss of requests. The trade engine's loop over
responses never fetches a second one (`TradeEngine.cpp:114`), so the manager is followed in
two ways: `fetches` is FALSE for the program as it is, where the first answer sets `caught`
and the manager makes no call any more until the assert ends the process; it is TRUE for a
caller that fetches each answer, without which nothing of `OrderManager` beyond an ACCEPTED
could be looked at.
`PassiveExecution` is the response `Match` gives to the owner of the resting order, which
carries the side of the other party; `misled` marks it, and a behaviour is not followed
beyond it.

**OrderSession**: a connection is a trading process and its socket. The gateway's actions are
`Connect`, `GatewaySend`, `GatewayReceive`, `Leave`; the server's loop is the variable
`turn`, which walks over the sockets (`Read`, then the frames one by one by `Refuse`,
`Admit` or `CannotHandle`, then `ServerSend`), then `Finish` (`RecvFinishCallback` and
`SequenceAndPublish`), then the loop over responses, and `Poll` begins the next round. `up`
and `down` are the streams; `Sent` is what `send()` may take of a buffer, after which the
buffer is empty in any case. What the matching engine makes of a request is said where the
server looks for the response: it answers (`Respond`), it only logs a request whose type is
neither NEW nor CANCEL (`Ignore`, the positions `ignored`), or it does not come back
(`EngineStops`: it spins, `stuck`, or the process ends). `MEOrderBook` answers a request with
one response; the further ones of `Match`, which has no caller, are not modelled here.

**Lifecycle**: each actor (the main thread, and a component thread in the handler of
SIGABRT) has a sequence of steps to do, which `Make`, `Start`, `Stop` and `Destructor` give
as the code has them. `Interrupt` puts the handler before what main was doing. `Spawn` and
`Assign` are the two halves of `Start`, between which the thread exists and its handle does
not. The engine's two loops are `TakeResponse` and `TakeUpdate`. `Spin` is a thread in a loop
that does not end: the matching loop, or the `Allocate` that takes the last block of a pool,
which the books of the two processes and the synthesizer have. `Dangles` is the window
between a `delete` and the assignment of null to the pointer, in which another thread's
handler deletes once more.

## Runs

| run | asks | instance and why it is enough |
|---|---|---|
| SafeQueueOneWriter | is the ring the FIFO channel its users take it for, for all four loops; does every element come out | 4 slots, 10 elements: the indexes go round more than twice, the backlog reaches its largest allowed value for each loop. Refines `Fifo` |
| SafeQueueAnyWriters | what is left when the contract is broken | 2 slots, 2 writers, up to 3 elements ahead of the reader: overwritten slots and lost index updates all occur |
| SafeQueueAssert (violated) | `assert(numElements != 0)` of SafeQueue.h:39 | one writer, two elements |
| SafeQueueFullRing (violated) | the test `SafeQueueExample` | as many elements as slots |
| MemoryPool | free blocks only, the search returns | 5 blocks: a search that goes round from any place |
| MEOrderBook | see the properties below | 5 requests of 2 clients; prices 1 and 5 share an index; id 5 of client 0 is the cell of id 0 of client 1; the 4th level takes the last block |
| MarketDataPublisher | numbering, and what the snapshots keep | 2 tickers, 4 updates, 3 blocks: the pool fills and a cancel arrives at every stage: 327 thousand states |
| MarketDataConsumer | what is delivered on any network, whether recovery ends | 4 updates in datagrams of 1 or 2, every order, loss and duplication; complete and incomplete snapshots |
| MarketOrderBook | which streams the book survives, and what the strategies see | ids up to one beyond the table, 4 prices on 3 indexes, a level pool that runs out; 5 updates of every kind: 831 thousand states |
| OrderManager | what rests, and the position, while answers are late or lost | a position of one clip of 2 that may be executed in parts, 3 executions: each side may open, close and turn the position round; the loop that fetches one answer and one that fetches all: 526 thousand states |
| OrderSession | what reaches the engine, what comes back, and what a fault leaves | two connections, of one client or of two; 3 requests; one fault of any kind in a behaviour; a batch of 3 is longer than the stable part of the sort: 476 thousand states |
| Lifecycle | what the handlers and destructors find, whether an end ends | both programs, two tickers, two entries in the queues: 115 thousand states |

The properties of the book: after every call maps, lists, pool and table agree
(`BookConsistent`); no level ever has a second order (`OneOrderPerLevel`); each side lists
its worst price first (`WorstPriceFirst`); where the matching loop is compiled as written
the two heads do not cross (`HeadsNotCrossed`); whoever follows the updates knows what rests
(`MarketMirrorsBook`); a cancel that succeeds empties its side (`CancelEmptiesSide`); a
cancel takes another client's order only when that was filed beyond its row
(`CancelsOwnOrder`). Several of these say something
the author of the code did not intend; they are what is true of it, and `findings` in
`PROJECT.json` quotes the comment, message or branch that expects otherwise.

The properties of the trading side's book: no price ever becomes the best
(`NoPriceIsReported`); a book that lives is right (`MirrorsUpdates`), and lives only if
each new price is worse than those before (`EachNewPriceIsWorse`); a price in use at a
CLEAR is lost (`ClearedPricesAreLost`). Of the order manager: what the exchange may execute
is what the slots say (`OnlyTheSlotsOrderRests`); position and open orders together respect
the limit, although the check counts neither the other side's orders nor unreported
executions (`PositionWithinLimits`); what a short is valued at (`ShortIsChargedInFull`); a
pending order does not stay so (`PendingEnds`). Of the session: the requests of a client
are published in order and once (`RequestsInOrder`), its gateway gets its own answers in
order, none missing but of requests the engine ignores (`AnswersReachTheirClient`), there
is a socket for each (`NoNullSocket`), a lost request is the last (`GapIsForever`), and
without a fault every request the engine does not ignore is answered
(`EveryRequestIsAnswered`). Of the programs: which component is destroyed under its thread
(`NoThreadOutlivesItsObject`), what success says (`SuccessMeansNoFailure`), what the first
response does (`FirstResponseIsTheLast`), and when an end is an end (`EndingEnds`).

A property that holds except in a case names the case (`wild`, `shuffled`, `misled`, `Hears`,
`stuck`, `Excused`), and each case is reached in its run.

Bounds: `MaxWrites`, `MaxRequests`, `MaxUpdates`, `MaxSeq`, `MaxBatch`, `MaxOrders`,
`MaxFills` and `MaxItems` limit the length of a behaviour, and `MaxFaults` the number of
processes, connections and requests something goes wrong with in one; each is in a guard of the
actions it limits. A gateway of `OrderSession` sends at most two requests at once. The
bounds do not limit the theorems, whose constants are arbitrary.

`CHECK_DEADLOCK FALSE` is set where a behaviour ends for one of two reasons: the bound is
reached, or the process has ended (a failed check, a null pointer). `MemoryPool` has neither
and is checked for deadlock: its full search goes round for ever, which is not a deadlock
but is what `LastBlockIsFatal` is about.

## Fairness

- *SafeQueue*: the reader's thread polls without blocking (`WF(Consume)`) and a writer that
  has begun an element finishes it. That a writer ever writes again is not assumed.
  `EventuallyRead` follows from no more.
- *MemoryPool*: the search is a loop without waiting (`WF(Search \/ Found)`). That blocks
  are returned is not assumed.
- *MarketDataConsumer*: the callback is sequential code (`WF(Callback)`). Nothing is assumed
  of the network, so `EventuallyDelivered` speaks only of updates after which a later one
  has arrived.
- *OrderManager*: the exchange works its requests off (`WF(Answer)`). Where its engine does
  not come back the requests are lost (`LoseRequests`), which may happen at any time and
  excuses `PendingEnds`; so does a loop that has kept an answer. Nothing is assumed of the
  strategy or of executions.
- *OrderSession*: the gateway's receiving and the server's loop are loops without waiting
  (weak fairness each). Of the engine it is assumed only that something becomes of a request:
  `Respond`, `Ignore` or `EngineStops`, so not that it answers. They share strong fairness:
  the loop over responses is asked once a round, so the step is not continuously ready to be
  taken, but an engine that answers at all has done so in one of infinitely many rounds.
- *Lifecycle*: every thread and every actor is scheduled (weak fairness of each). That a
  check fails, a signal or an entry of a queue comes, is not assumed; nor that the matching
  engine, the synthesizer or the trade engine comes back from its loop.

The other specifications are used for safety only and have no fairness.

## Proofs

Eight modules hold proofs; all of them are for every value of the constants that satisfies
the assumptions declared with them.

**SafeQueueProof.** `TypeCorrect`: the types, by the steps alone. `CountGateSafe`, for any
number of writers and any backlog: a reader that has looked at `GetSize()` never fails the
assert, because writers only raise the counter; the invariant is that such a reader knows
the counter to be positive (`CountSeen`) until it lowers it itself. `OneWriterCorrect`,
`NeverDereferencesNull` and `RingImplementsFifo` assume `SafeUse` (one writer, a backlog
below the ring size, one less for the loop that rereads). `InOrder` is not inductive: the
strengthening `OneWriterInv` says how far apart the indexes are (`IndexInv`), that the slots
between them hold the next elements (`ContentInv`), where the writer is (`WriterInv`), that
the counter never exceeds the backlog (`CountInv`, which is why a reader that tests the
counter never gets a null pointer), and what the reader's pointer designates (`ReaderInv`).
The refinement maps the slots between the indexes to `Fifo`'s queue; the lemma
`PendingIsRun` says that they are a run of consecutive numbers, from which each step is a
`Send`, a `Receive` or a stutter.

**MEOrderBookProof.** One inductive invariant, `BookInv`, of the checked parts themselves:
`BookConsistent` alone is not inductive, because a cancel that relinks an order's neighbours
would break it. `OneOrderPerLevel` closes the gap: every resting order has null links, so an
order only comes to an empty level (`RestsIs`; a second order at a price does not get past
`GetNextPriority`) and only leaves as the last level of its side (`CancelRemovesIs`; any
other cancel does not get past the relinking). From these two lemmas follow
`BookIsConsistent`, `BookCorrect`, `CancelEmpties`, `CancelOwn` (with `CellsApart`: in
range, a cell of the table belongs to one client and id) and `UpdatesMirrorBook`.
`WorstFirst` is inductive relative to `BookInv`; `PricesAfterRests` gives the price at every
place after an insertion. `HeadsApart` follows because an order that rests in a build with
the loop has compared itself with the other head, and a new order either becomes the head of
its own side or leaves it as it was. `OrderPoolIsEnough` counts: orders inject into levels
(`FreeLevelMeansRoom`). `UpdatesAreAStream` maps what the updates say rests and the next
order id to `UpdateStream`: an ADD that rests announces the last id, one that does not rest
passes it over, and of the cancels only one that removes an order withdraws it.

**MarketDataPublisherProof.** `QueueInv` says that the queue holds exactly the updates after
the last one applied up to the last one copied, each under its place in the stream;
`NumbersInOrder` reads the sequence check off its head. `SynthesizerInv` says that no order
is ever known; hence a CANCEL ends the process, and each ADD keeps a block (`OrdersAreLost`).

The last part of this module is about `MemoryPool`, the pool the synthesizer takes its
orders from, of any size. `PoolInv` adds to the checked invariant that flags and holders
agree and that a search leaves only used blocks behind it; hence the warning is only given
by a full pool (`PoolCorrect`), and from a full pool the search finds nothing (`LastBlock`).
`ACountIsEnough` justifies what the two order books and the synthesizer keep of their pools:
a number of blocks in use, and that the `Allocate` which would make it the size of the pool
does not return.

**MarketDataConsumerProof.** `ConsumerInv` says that everything on the incremental socket is
an update under its own number and that the queue of snapshot messages is empty between two
messages. The lemma `OneMessageIsNoSnapshot` is the heart of `NeverRecovers`: a queue of one
message cannot begin with START and end with END. `DeliversPrefix` needs only that the one
message delivered is the one expected. `ConsumerTypeCorrect` adds that it has been published
(`SentInv`: so has everything on its way). `StaysOneBehind` is about a network that has lost
and repeated nothing so far. Its invariant `CleanInv` says that the datagrams count on from
their first number, and that the buffer then holds exactly what was received and not
delivered, in order (`BufferIsTheRest`); the callback leaves one message in it because its
loop stops before the last whole one. `CountsOn` and `CountsTail` are what joining and taking
do to such a sequence.

**MarketOrderBookProof.** `BookInv` has the shape of the book (`OneOrderALevel`,
`LevelsLeadToOrders`, `RingsHoldLevels`, `ClearedAreFreed`), that no order is younger than
the last id (`IdsAreOld`), and, while the process lives, that the book is what the updates
say (`MarketIsBook`) and that every head is the worst of its side (`HeadsAreWorst`). The
four properties follow: an update that would change the best price finds a level whose
single order has a null link, and ends the process before anything is reported.

**OrderManagerProof.** `ManagerInv` is `TypeOK`, `Orderly` and `Charged`. `Orderly` adds to
the two checked invariants that an order on its way is for a clip (`NewAsksForAClip`) and
that the manager knows its position as long as it hears, and errs only on the safe side
where it may still send an order (`PositionIsKnown`): the check before an order is made of
the manager's position, the limit is about the exchange's. `Charged` adds that, once the
position has been flat, a short finds nothing in the buy side's `openVWAP`
(`NothingBought`).

**OrderSessionProof.** `SessionInv` is `TypeOK`, `Streams` (the types of what is on its
way), `FramesAreTheCurrents` (frames are handled in the turn of their socket),
`RequestsAreKnown` (what was admitted is of a client with a socket) and `NoNullSocket`.
`LostRequestIsFinal` says that a lost request stays lost and that the server takes none of
its client while it is. It rests on two lemmas: a frame that is admitted was on its way
(`ExpectedIsOnItsWay`), and no step puts a number on its way that the gateway has used
before (`NothingComesAgain`, over the set `Arriving` of frames not handled yet). It holds
for any number of connections that claim the same client.

`RequestsStayInOrder` is about the way to the engine: receive buffer, pending requests, sort.
No connection is accepted twice (`OnceEach`), so within a round the requests of a client are
read in one turn, at one time (`ReadsAreTimed`, `WaitingIsOfThisRound`), and the sort by time
leaves them as they are wherever it is stable. Their numbers are below the one the server
expects next and they come from the client's socket (`NumbersAreExpected`), none is missing
(`NoneIsMissing`), and they wait in their order behind those that were published
(`InTheirOrder`). The conjunction, `OrderInv`, is inductive relative to `SessionInv`.

`AnswersAreTheClients` is about the way back. `Upto` counts the requests of a client among
the first so many that are not ignored, and the invariant `AnswerInv` is written with it: the
server's next number for a client is one more than the requests answered
(`AnswersAreCounted`), so a request that gets no response leaves no gap; a response that
waits to be sent or is on a connection carries the number of its request and is at the socket
of its client (`AnswersWait`, `AnswersArrive`; a fragment is none); a gateway has handed on
the answer of each number below the one it expects (`AnswersAreHandedOn`); and only an entry
of the sequencer that nobody has written is of no socket (`AllAreWritten`). Since a gateway
takes the next number only, gaps and repetitions need no word. Both properties speak of
places in a sequence and of sets of such places; stated with subsequences they would need an
induction. That the mark of a fragment is no client id is an assumption of this module
(`NamesAssumption`).

**LifecycleProof.** `LifeInv` says where in its text each actor is, and what must have been
done to be there. `main` is at a step of its own text, with the components before it made,
their threads spawned and the handlers stored (`Prepares`, `Proceeds`); or in the handler,
with every component it has deleted gone (`Deletes`); or in a destructor, with every thread
it has joined settled (`Destroys`); or on the way to `abort` (`Dies`); or, in the trading
program, for good in the destructor that waits on a queue nobody reads any more
(`Deadends`). A component's thread is in the handler only when the order server has run, and
then the thread it stops has been spawned. Hence an object is freed only after the joins of
its threads (`ThreadsEndFirst`); at `exit(0)` every component is gone, and with it a thread
whose failed check would still be on its way to `abort` (`SuccessIsClean`); and once the
trading program has read a first response nothing leads back to its loop
(`NoWayOutOfTheLoop`). None of the three is inductive alone: what a thread may still do
depends on how far `main` is, and what `main` may free on how far the threads are. The
exchange program has no parameter, so of it the run shows as much; the trading program is
proved for every set of tickers and every length of its queues.

Only model-checked: the liveness properties `EventuallyRead`, `ReturnsIfRoom`,
`EventuallyDelivered`, `PendingEnds`, `EveryRequestIsAnswered` and `EndingEnds` (the provers
do not handle fairness).

The theorems do not need the bounds; where a bound occurs in a guard they hold for each value
of it. Some state what no run lists, because the theorem says more: the types of the modules,
`OrderPoolIsEnough`, `ACountIsEnough`, and the refinement of `UpdateStream`.

## Assumptions

- Asserts are compiled in (no `NDEBUG`); without them `AssertHolds` is about nothing, but
  the counter then goes below zero.
- Reads and writes of the atomics are sequentially consistent, which is the default used.
- A queue between two threads is used within `SafeUse` wherever a module takes it as a
  sequence: one writer, and a backlog below the ring size (1024 elements; 8 Mi for the logger).
  Nothing in the code enforces the second part.
- `NumLevels < MaxOrderIds`, as in common/Limits.h (256 and 1024).
- Client ids are below `ME_MAX_NUM_CLIENTS`. `OrderServer` indexes its own arrays with them
  before the book sees them and checks nothing (`CannotHandle` of `OrderSession`). Order
  ids, prices and quantities are whatever the client sends. The side of a request is taken to
  be BUY or SELL, although its byte is as unchecked as they are, and the ticker to exist.
- The ids that a book passes over, as those it announces, stay below `MaxOrderIds` in
  `MarketDataPublisher`; beyond lies the end of the synthesizer's table.
- `OrderManager` takes the request that is answered to be the one that was sent, although
  `OrderGateway.cpp:36` sends the bytes at the address of a pointer (see Observations).
- A matching loop without side effects may be kept or removed by the compiler (C++ lets it
  assume that the loop ends): both builds are modelled.
- Writing beyond `mClientIdToOrderId`'s row lands in the next row, or stops the process if
  the library checks `operator[]`; writing beyond the table, which would overwrite the
  members behind it, is modelled as the end of the process.
- An uninitialised cell of that table reads as null or leads to the end of the process.
- The consumer's snapshot socket, before its first `Init`, has an uninitialised descriptor;
  it is assumed to differ from that of the incremental socket.
- A datagram arrives whole or not at all, and holds whole messages.
- On TCP a frame is received whole or was cut by the sender: a read that ends inside a frame
  leaves its head in the buffer and is taken as the later read that completes it. A receiver
  that is out of step reads anything; a behaviour is not followed beyond that.
- `mPendingSize` has no initial value; it is modelled as 0 or as one entry nobody wrote,
  with a valid client id. `openVWAP` has no initial value either: 0 or `Garbage`.
- `std::sort` is an insertion sort, hence stable, up to 16 elements, as in the common
  libraries; `StableSort` is that number.
- A first send to a peer that has closed does not raise SIGPIPE; a later one may.
- The divisions in `PositionKeeper` leave no rest; the runs choose units that make it so.
- `OrderManager` lets the exchange execute, although `MEOrderBook::Match` has no caller
  today; without executions a position never leaves 0 and there is nothing to check.
- SIGINT is delivered to the main thread, outside its handler. The threads of the loggers
  are left out of `Lifecycle`.

## Observations

What the models or the reading brought out, beside the `findings` of `PROJECT.json`:

- `CheckForMatch` compares with the *head* of the other side, which is its worst price. So
  `HeadsNotCrossed` is all that holds: the best bid may be above the best ask, and an order
  that crosses only better levels rests. `MEOrderBook::Match` has no caller.
- The ACCEPTED response is sent before the call can fail; a client may hold an acceptance
  for an order that never rested (`AddSpins`, `AddBehindOrder`, `AddExhausts`).
- The first order of a book, if it is an ask, dereferences a null `mBidsByPrice` in a log
  line after it was linked and before it is announced (`AddRests`, halted in `ToString`).
- A duplicate client order id makes the older order unreachable for its client; it rests for
  ever and the market still sees it.
- `trading/main.cpp` numbers its random orders from `clientId * 1000`, so client 2's first
  orders are already beyond a row of 1024 ids; it leaves `request.tickerId` unset
  (lines 92 to 99); its configuration loop (lines 37 to 45) never raises `nextTickerId`
  and starts at `argv[0]`.
- The exchange multicasts to 233.252.14.1:20000 and 233.252.14.3:20001; the trading main
  listens on 127.0.0.1:4269 and :6942, so the two do not meet as configured.
- `OrderGateway.cpp:36` and `MarketDataPublisher.cpp:47` send the bytes at the address of a
  *pointer*; the payload on the wire is not the record. The models name a message by its
  number and so speak of order and loss; `OrderSession` lets the client id of a frame be
  any, because the server acts on it.
- `RecvCallback` of the consumer leaves the last whole message of the buffer for the next
  datagram, hence `OneBehind`.
- `TradeEngine`'s logger is written by two threads (`main` and the engine's own);
  `SafeQueueAnyWriters` shows what still holds for it: its loop, which looks at `GetSize()`,
  does not fail the assert (`CountedReadersNeverAbort`). Lines may be lost or repeated.
- `MarketMaker.cpp:38` computes the ask from the *bid* price.
- `realizedPnL` is assigned, not accumulated (`PositionKeeper.h:70`), so the loss limit sees
  only the last close.
- `OrderManager` sends its requests with client id 0 whatever the process is
  (`OrderManager.cpp:15`, `:35`).
- A CANCEL_REJECTED leaves its slot in `PENDING_CANCEL` (`OrderManager.cpp:70`). For a
  caller that fetches each answer `PendingEnds` shows that this does no harm while nothing is
  lost: the execution that made the cancel come too late was reported before. The program has no such caller: its loop stays with the first response, and every slot that is
  pending behind it stays so.
- A request of unknown type is logged and never answered (`MatchingEngine.cpp:37`), and its
  sender is not told. The numbers of the responses do not suffer.
- The synthesizer keeps a block for each ADD, in one pool of the size that each of the books
  has for itself. So the books can announce more orders than it has blocks; its thread then
  stays in `Allocate`, and a handler that ends the exchange waits for it in vain.
- The second response of `Match` (`MEOrderBook.cpp:52` to `:61`) gives the resting order's
  owner the side and the leaves of the other party, so its manager books the wrong side.
- A client that reconnects keeps its old socket in `mClientIdToSocket` and is refused for
  ever; a client that loses a request is never heard again. Neither side is told.
- A component that fails to start makes the exchange exit with `EXIT_SUCCESS`, because the
  handler of SIGABRT ends that way.
- `CreateAndStartThread` lets the thread use `func` and `args` by reference after it may
  have returned (`ThreadUtils.h:41`).
- A second SIGABRT, from a check that fails while the handler destroys, returns from the
  handler at once and ends the process as aborted.
- Once its first response has come, the trade engine handles it until the assert fails;
  `Stop`, which waits for both queues to be empty, may therefore never return.

## Mutants

The definitions whose names end in `Slip` are plausible mistakes in the definition they
stand before: an increment left out, a comparison reversed, a bound off by one, links not
made null, a reset forgotten. Nothing uses them; `PROJECT.json` pairs each with a property
that TLC finds violated when the slip is put in place of the definition. They show that the
property depends on that piece of code.

## Not modelled

`PROJECT.json` says for each component whether and why. Left out:

- formatting and logging text, epoll and socket options, `StringTo...` conversions, and the
  command line;
- the floating point formulas of `FeatureEngine` and the strategies: when a strategy acts and
  on which neighbouring prices is modelled, the comparison with a threshold is left open;
- the client of random requests in `trading/main.cpp`, which only chooses inputs of
  `OrderSession`;
- `MEOrderBook::Match`, which has no caller (its responses are modelled in `OrderManager`),
  and `DeleteSocket` of `TCPServer`, which has none either;
- what follows an index outside an array, a wild pointer or a stream out of step: a
  behaviour ends there;
- the whole way of a market update in one module (see [Plan](#plan)).
