---------------------------- MODULE OrderSession ----------------------------
(***************************************************************************)
(* Requests and responses between trading processes and the exchange:        *)
(* OrderGateway (trading), TCPSocket and TCPServer (common), OrderServer and  *)
(* FIFOSequencer (exchange), and the queues they feed.                       *)
(*                                                                           *)
(* A connection stands for a trading process and its socket; two of one      *)
(* client id are a client and the process it is restarted as.  The gateway   *)
(* and the order server are a thread each and share nothing but the streams  *)
(* up and down, so the iterations of their loops are cut into steps where a  *)
(* stream or a queue is touched.                                             *)
(*                                                                           *)
(* Bytes are frames here.  A frame that was only partly sent leaves a        *)
(* Fragment, and the receiver reads what follows out of step; a behaviour is *)
(* not followed beyond that, nor beyond an index outside an array.           *)
(***************************************************************************)
EXTENDS Integers, FiniteSets, SequencesExt

CONSTANTS
    Conns,          \* connections
    ClientIds,      \* ids below ME_MAX_NUM_CLIENTS
    Beyond,         \* an id that is not
    Fragment,       \* the head of a frame
    None,           \* nullptr
    MaxPending,     \* ME_MAX_PENDING_REQUESTS
    StableSort,     \* up to this length std::sort keeps equal elements in order
    Times,          \* receive times that differ, 0 for none
    Owners,         \* the ways connections belong to clients
    MaxRequests,    \* bound: requests
    MaxFaults       \* bound: processes, connections and requests something goes wrong with

ASSUME SizesAssumption == /\ MaxPending \in Nat \ {0}
                          /\ StableSort \in Nat
                          /\ MaxRequests \in Nat /\ MaxFaults \in Nat
                          /\ Times \subseteq Nat
ASSUME NamesAssumption == /\ Beyond \notin ClientIds /\ Fragment \notin ClientIds
                          /\ None \notin Conns
                          /\ Owners \subseteq [Conns -> ClientIds]

VARIABLES
    own,            \* the client id of each gateway
    out,            \* mNextOutgoingSequenceNumber
    expectedResp,   \* mNextExpectedSequenceNumber
    delivered,      \* what it has put into mResponses, as positions in published
    up, down,       \* the two directions of the connection
    backlog,        \* connections to be accepted
    gone,           \* connections whose trading process has ended
    receiveSockets,
    turn,           \* where the server is in its loop
    inbox, rxTime,  \* frames being handled, and the time of their read plus 1
    recv,           \* a socket has received something in this round
    socketOf,       \* mClientIdToSocket
    expectedReq,    \* mClientIdToNextRequestSequenceNumber
    nextResp,       \* mClientIdToNextResponseSequenceNumber
    pending,        \* mPendingRequests
    sendServer,     \* the sendBuffers of the server's sockets
    published,      \* all that was written to the engine's queue
    returned,       \* how many of these are done with: their response is taken, or they get none
    ignored,        \* those that get none, as positions in published
    stuck,          \* the matching engine does not come back
    halted,         \* "no", or why the behaviour ends
    listening,      \* whether Listen has found its port
    dropped, strayed, shuffled, wild    \* what went wrong so far, see below

gateways == <<own, out, expectedResp, delivered>>
network == <<up, down, backlog, gone>>
loop == <<receiveSockets, turn, inbox, rxTime, recv>>
tables == <<socketOf, expectedReq, nextResp>>
engine == <<published, returned, ignored, stuck>>
faults == <<halted, listening, dropped, strayed, shuffled, wild>>
vars == <<gateways, network, loop, tables, pending, sendServer, engine, faults>>

\* As many of the faults are followed together as MaxFaults says.
Faults == Cardinality(gone) + Cardinality(dropped \cup strayed) + Cardinality(ignored)
              + (IF wild THEN 1 ELSE 0) + (IF stuck THEN 1 ELSE 0)
Few == Faults <= MaxFaults

Accepted == {receiveSockets[i] : i \in 1 .. Len(receiveSockets)}
Running == halted = "no"

Request(frame, k) == [id |-> frame.id, n |-> frame.n, conn |-> k]

\* mPendingSize has no initial value: entries nobody has written may be pending.
\* Listen tests the result of CreateSocket for 0 and not for -1.
Init == /\ own \in Owners
        /\ out = [k \in Conns |-> 1] /\ expectedResp = [k \in Conns |-> 1]
        /\ delivered = [k \in Conns |-> <<>>]
        /\ up = [k \in Conns |-> <<>>] /\ down = [k \in Conns |-> <<>>]
        /\ backlog = <<>> /\ gone = {}
        /\ receiveSockets = <<>> /\ turn = 2
        /\ inbox = <<>> /\ rxTime = 0 /\ recv = FALSE
        /\ socketOf = [id \in ClientIds |-> None]
        /\ expectedReq = [id \in ClientIds |-> 1] /\ nextResp = [id \in ClientIds |-> 1]
        /\ sendServer = [k \in Conns |-> <<>>]
        /\ \/ pending = <<>> /\ wild = FALSE
           \/ \E id \in ClientIds :
                 pending = <<[time |-> 0, of |-> Request([id |-> id, n |-> 0], None)]>> /\ wild = TRUE
        /\ published = <<>> /\ returned = 0 /\ ignored = {} /\ stuck = FALSE
        /\ halted = "no" /\ listening \in BOOLEAN
        /\ dropped = {} /\ strayed = {} /\ shuffled = FALSE
        /\ Few

-----------------------------------------------------------------------------
(* The trading process.                                                    *)

Connected(k) == k \in Accepted \/ \E i \in 1 .. Len(backlog) : backlog[i] = k

\* OrderGateway::Start does test for -1, and ends the process.
Connect(k) ==
    /\ ~Connected(k) /\ k \notin gone
    /\ IF listening THEN backlog' = Append(backlog, k) /\ UNCHANGED gone
       ELSE gone' = gone \cup {k} /\ UNCHANGED backlog
    /\ UNCHANGED <<gateways, up, down, loop, tables, pending, sendServer, engine, faults>>
    /\ Few'

\* TCPSocket::RecvAndSend: send() takes any part of the buffer, and the buffer is empty
\* whatever it took.
Torn(frame) == [frame EXCEPT !.id = Fragment]
Sent(buffer, n, torn) ==
    SubSeq(buffer, 1, n) \o (IF torn THEN <<Torn(buffer[n + 1])>> ELSE <<>>)

Requests == FoldFunction(LAMBDA n, sum : n - 1 + sum, 0, out)

\* Run takes some requests from its queue and its next round sends them.  What goes out
\* after a number is the bytes at the address of a pointer, so the client id in it may
\* be any.
GatewaySend(k, ids) ==
    LET buffer == [i \in 1 .. Len(ids) |-> [id |-> ids[i], n |-> out[k] + i - 1]]
    IN  /\ Connected(k) /\ k \notin gone /\ Requests + Len(ids) <= MaxRequests
        /\ out' = [out EXCEPT ![k] = @ + Len(ids)]
        /\ strayed' = IF \A i \in 1 .. Len(ids) : ids[i] = own[k] THEN strayed ELSE strayed \cup {k}
        /\ \E n \in 0 .. Len(ids), torn \in BOOLEAN :
              /\ torn => n < Len(ids)
              /\ up' = [up EXCEPT ![k] = @ \o Sent(buffer, n, torn)]
              /\ dropped' = IF n < Len(ids) THEN dropped \cup {k} ELSE dropped
        /\ UNCHANGED <<own, expectedResp, delivered, down, backlog, gone, loop, tables, pending,
                       sendServer, engine, halted, listening, shuffled, wild>>
        /\ Few'

\* (The ...Slip definitions are plausible mistakes: see "Mutants" in README.md.)
IsExpectedSlip(k, r) == r.id = own[k]

\* RecvCallback of the gateway drops what is not the next response of its own client.
IsExpected(k, r) == r.id = own[k] /\ r.n = expectedResp[k]

GatewayReceive(k) ==
    /\ k \notin gone /\ down[k] # <<>>
    /\ down' = [down EXCEPT ![k] = Tail(@)]
    /\ LET r == Head(down[k])
       IN  /\ halted' = IF r.id = Fragment THEN "out of step" ELSE "no"
           /\ IF IsExpected(k, r)
              THEN /\ expectedResp' = [expectedResp EXCEPT ![k] = @ + 1]
                   /\ delivered' = [delivered EXCEPT ![k] = Append(@, r.of)]
              ELSE UNCHANGED <<expectedResp, delivered>>
    /\ UNCHANGED <<own, out, up, backlog, gone, loop, tables, pending, sendServer,
                   engine, listening, dropped, strayed, shuffled, wild>>

Leave(k) == /\ Connected(k) /\ k \notin gone
            /\ gone' = gone \cup {k}
            /\ UNCHANGED <<gateways, up, down, backlog, loop, tables, pending, sendServer, engine,
                           faults>>
            /\ Few'

-----------------------------------------------------------------------------
(* The order server.  Its loop is at turn i with the i-th socket, then in          *)
(* recvFinishedCallback, and then in the loop over responses.                      *)

Current == receiveSockets[turn]
AtSocket == turn \in 1 .. Len(receiveSockets)
AtFinish == turn = Len(receiveSockets) + 1
AtResponses == turn = Len(receiveSockets) + 2

\* A round begins with TCPServer::Poll when no response is there (the engine may not
\* have answered yet): every pending connection is accepted, and no socket is ever
\* taken out again.
Poll == /\ AtResponses
        /\ receiveSockets' = receiveSockets \o backlog
        /\ backlog' = <<>>
        /\ turn' = 1 /\ recv' = FALSE
        /\ UNCHANGED <<gateways, up, down, gone, inbox, rxTime, tables, pending, sendServer,
                       engine, faults>>

\* A read takes what has arrived, if anything, and the time of the last of it; there is
\* one for each socket in a round.  (What arrives late was sent late, for all that
\* follows.)
Read ==
    /\ AtSocket /\ inbox = <<>> /\ rxTime = 0
    /\ \E n \in 1 .. Len(up[Current]), time \in Times :
          /\ inbox' = SubSeq(up[Current], 1, n)
          /\ up' = [up EXCEPT ![Current] = SubSeq(@, n + 1, Len(@))]
          /\ rxTime' = time + 1
    /\ recv' = TRUE
    /\ UNCHANGED <<gateways, down, backlog, gone, receiveSockets, turn, tables, pending,
                   sendServer, engine, faults>>

\* RecvCallback of the order server, a frame at a time.
Frame == Head(inbox)
NextFrame == inbox # <<>> /\ inbox' = Tail(inbox)

CannotHandle ==
    /\ NextFrame
    /\ \/ Frame.id = Fragment /\ halted' = "out of step"
       \/ Frame.id = Beyond /\ halted' = "client id"
    /\ UNCHANGED <<gateways, network, receiveSockets, turn, rxTime, recv, tables, pending,
                   sendServer, engine, listening, dropped, strayed, shuffled, wild>>

\* The first socket that names a client id has it for ever.
BindSlip == socketOf' = [socketOf EXCEPT ![Frame.id] =
                             IF @ \in {None, Current} THEN Current ELSE None]

Bind == socketOf' = IF socketOf[Frame.id] = None
                    THEN [socketOf EXCEPT ![Frame.id] = Current] ELSE socketOf

IsNextSlip == socketOf[Frame.id] \in {None, Current} /\ Frame.n >= expectedReq[Frame.id]

IsNext == socketOf[Frame.id] \in {None, Current} /\ Frame.n = expectedReq[Frame.id]

Refuse ==
    /\ NextFrame /\ Frame.id \in ClientIds
    /\ ~IsNext
    /\ Bind
    /\ UNCHANGED <<gateways, network, receiveSockets, turn, rxTime, recv, expectedReq, nextResp,
                   pending, sendServer, engine, faults>>

\* FIFOSequencer::AddClientRequest.
Admit ==
    /\ NextFrame /\ Frame.id \in ClientIds
    /\ IsNext
    /\ Bind
    /\ expectedReq' = [expectedReq EXCEPT ![Frame.id] = Frame.n + 1]
    /\ IF Len(pending) < MaxPending
       THEN /\ pending' = Append(pending, [time |-> rxTime, of |-> Request(Frame, Current)])
            /\ UNCHANGED halted
       ELSE halted' = "too many pending" /\ UNCHANGED pending
    /\ UNCHANGED <<gateways, network, receiveSockets, turn, rxTime, recv, nextResp, sendServer,
                   engine, listening, dropped, strayed, shuffled, wild>>

\* The rest of RecvAndSend for a socket.  To send to a process that has ended raises
\* SIGPIPE, unless it is the first time.
ServerSend ==
    /\ AtSocket /\ inbox = <<>>
    /\ rxTime = 0 => up[Current] = <<>>
    /\ turn' = turn + 1 /\ rxTime' = 0
    /\ sendServer' = [sendServer EXCEPT ![Current] = <<>>]
    /\ LET buffer == sendServer[Current]
       IN  \/ /\ Current \notin gone
              /\ \E n \in 0 .. Len(buffer), torn \in BOOLEAN :
                    /\ torn => n < Len(buffer)
                    /\ down' = [down EXCEPT ![Current] = @ \o Sent(buffer, n, torn)]
                    /\ dropped' = IF n < Len(buffer) THEN dropped \cup {Current} ELSE dropped
              /\ UNCHANGED halted
           \/ /\ Current \in gone
              /\ halted' \in (IF buffer = <<>> THEN {"no"} ELSE {"no", "SIGPIPE"})
              /\ UNCHANGED <<down, dropped>>
    /\ UNCHANGED <<gateways, up, backlog, gone, receiveSockets, inbox, recv, tables, pending,
                   engine, listening, strayed, shuffled, wild>>
    /\ Few'

\* SequenceAndPublish sorts by time.  std::sort is stable only while it is a mere
\* insertion sort.
KeptSlip(batch, i, j) == batch[i].time <= batch[j].time

Kept(batch, i, j) ==
    \/ batch[i].time < batch[j].time
    \/ batch[i].time = batch[j].time /\ (Len(batch) > StableSort \/ i < j)

SequenceAndPublish ==
    /\ \E p \in Bijection(1 .. Len(pending), 1 .. Len(pending)) :
          /\ \A i, j \in 1 .. Len(pending) : i < j => Kept(pending, p[i], p[j])
          /\ published' = published \o [i \in 1 .. Len(pending) |-> pending[p[i]].of]
    /\ pending' = <<>>
    /\ shuffled' = (shuffled \/ Len(pending) > StableSort)

Finish ==
    /\ AtFinish
    /\ turn' = turn + 1
    /\ IF recv THEN SequenceAndPublish ELSE UNCHANGED <<published, pending, shuffled>>
    /\ UNCHANGED <<gateways, network, receiveSockets, inbox, rxTime, recv, tables, sendServer,
                   returned, ignored, stuck, halted, listening, dropped, strayed, wild>>

\* The matching engine works the requests off one by one.  What it makes of one is said
\* here when the server looks for the response.
Working == AtResponses /\ returned < Len(published) /\ ~stuck
Answering == published[returned + 1]

ResponseSlip == [id |-> Answering.id, n |-> nextResp[Answering.id] + 1, of |-> returned + 1]

Response == [id |-> Answering.id, n |-> nextResp[Answering.id], of |-> returned + 1]

\* A request for a new order or a cancel has a response of the same client, and that goes
\* to the socket of the client.
Respond ==
    /\ Working
    /\ LET k == socketOf[Answering.id]
       IN  IF k = None
           THEN halted' = "null socket" /\ UNCHANGED <<sendServer, nextResp, returned>>
           ELSE /\ sendServer' = [sendServer EXCEPT ![k] = Append(@, Response)]
                /\ nextResp' = [nextResp EXCEPT ![Answering.id] = @ + 1]
                /\ returned' = returned + 1
                /\ UNCHANGED halted
    /\ UNCHANGED <<gateways, network, loop, socketOf, expectedReq, pending, published, ignored,
                   stuck, listening, dropped, strayed, shuffled, wild>>

\* ProcessClientRequest only logs a request of another type, and any byte may be the type.
Ignore ==
    /\ Working
    /\ returned' = returned + 1 /\ ignored' = ignored \cup {returned + 1}
    /\ UNCHANGED <<gateways, network, loop, tables, pending, sendServer, published, stuck, faults>>
    /\ Few'

\* The matching of a request never ends (CheckForMatchNeverLeaves of MEOrderBook), or ends the
\* process.
EngineStops ==
    /\ Working
    /\ stuck' = TRUE /\ halted' \in {"no", "matching engine"}
    /\ UNCHANGED <<gateways, network, loop, tables, pending, sendServer, published, returned,
                   ignored, listening, dropped, strayed, shuffled, wild>>
    /\ Few'

-----------------------------------------------------------------------------
\* The server's loop, but for responses, of which it may find none.
ServerStep == Poll \/ Read \/ CannotHandle \/ Refuse \/ Admit \/ ServerSend \/ Finish

\* Nobody else sees what RecvCallback and RecvFinishCallback do, so the others wait.
Quiet == Running /\ inbox = <<>> /\ ~AtFinish

Next ==
    \/ \E k \in Conns : Quiet /\ Connect(k)
    \/ \E k \in Conns : \E m \in 1 .. 2 : \E ids \in [1 .. m -> ClientIds \cup {Beyond}] :
          Quiet /\ GatewaySend(k, ids)
    \/ \E k \in Conns : Running /\ GatewayReceive(k)
    \/ \E k \in Conns : Quiet /\ Leave(k)
    \/ Quiet /\ Poll
    \/ Quiet /\ Read
    \/ Running /\ CannotHandle
    \/ Running /\ Refuse
    \/ Running /\ Admit
    \/ Quiet /\ ServerSend
    \/ Running /\ Finish
    \/ Quiet /\ Respond
    \/ Quiet /\ Ignore
    \/ Quiet /\ EngineStops

\* The threads run: a request is answered or ignored in the end, or the engine stops at
\* it, and a loop that goes round for ever finds the answer.
Fairness ==
    /\ \A k \in Conns : WF_vars(Running /\ GatewayReceive(k))
    /\ WF_vars(Running /\ ServerStep)
    /\ SF_vars(Quiet /\ (Respond \/ Ignore \/ EngineStops))

Spec == Init /\ [][Next]_vars /\ Fairness

-----------------------------------------------------------------------------
Wire(id) == [id : id \cup {Fragment}, n : Nat]
MERequests == [id : ClientIds, n : Nat, conn : Conns \cup {None}]
Halts == {"no", "out of step", "client id", "too many pending", "null socket", "SIGPIPE",
          "matching engine"}

TypeOK ==
    /\ own \in [Conns -> ClientIds]
    /\ out \in [Conns -> Nat] /\ expectedResp \in [Conns -> Nat]
    /\ receiveSockets \in Seq(Conns) /\ backlog \in Seq(Conns) /\ gone \subseteq Conns
    /\ turn \in Nat /\ turn <= Len(receiveSockets) + 2
    /\ inbox \in Seq(Wire(ClientIds \cup {Beyond})) /\ rxTime \in Nat
    /\ socketOf \in [ClientIds -> Conns \cup {None}]
    /\ expectedReq \in [ClientIds -> Nat] /\ nextResp \in [ClientIds -> Nat]
    /\ pending \in Seq([time : Nat, of : MERequests])
    /\ published \in Seq(MERequests)
    /\ returned <= Len(published) /\ ignored \subseteq 1 .. returned /\ stuck \in BOOLEAN
    /\ halted \in Halts

\* The requests of a client that the engine has been given.
Taken(id) ==
    {i \in 1 .. Len(published) : published[i].id = id /\ published[i].conn # None}

\* The requests of a client reach the engine in the order of their numbers, none
\* missing, none twice, and all from the socket that first named the client, until a
\* batch is too long for the sort to be stable.
RequestsInOrder ==
    ~shuffled => \A id \in ClientIds : \A i \in Taken(id) :
        /\ published[i].n >= 1 /\ published[i].conn = socketOf[id]
        /\ \A j \in Taken(id) : i < j => published[i].n < published[j].n
        /\ \A n \in 1 .. published[i].n : \E j \in Taken(id) : published[j].n = n

OwnRequests(k) ==
    {i \in 1 .. Len(published) : published[i].conn = k /\ published[i].id = own[k]}

\* What a gateway hands to its trade engine is the engine's answers to its own
\* requests, in the order these were published, none missing: a request the engine
\* ignores costs nobody else's answer.
AnswersReachTheirClient ==
    ~wild => \A k \in Conns : \A j \in 1 .. Len(delivered[k]) :
        /\ delivered[k][j] \in OwnRequests(k) \ ignored
        /\ {delivered[k][h] : h \in 1 .. j - 1} =
              {i \in OwnRequests(k) \ ignored : i < delivered[k][j]}

\* The check "Can't send response to a null socket" never fails, but for requests
\* nobody has made.
NoNullSocket == halted = "null socket" => wild

OnItsWay(id) ==
    LET k == socketOf[id]
        frames == up[k] \o IF AtSocket /\ Current = k THEN inbox ELSE <<>>
    IN  \E i \in 1 .. Len(frames) : frames[i].id = id /\ frames[i].n = expectedReq[id]

IsLost(id) == /\ socketOf[id] # None
              /\ out[socketOf[id]] > expectedReq[id]
              /\ ~OnItsWay(id)

\* Once a request of a client is lost on the way it stays so, and the server never again
\* takes one of that client.
GapIsForever ==
    [][\A id \in ClientIds : IsLost(id) => IsLost(id)' /\ expectedReq'[id] = expectedReq[id]]_vars

Excused(k) == \/ k \in dropped \cup gone
              \/ strayed # {} \/ wild \/ shuffled \/ stuck \/ ~Running
              \/ socketOf[own[k]] \notin {None, k}

\* A gateway that sends no more requests has, in the end, the answers to all of them but
\* those the engine ignored, unless send() took part of a buffer, a client id on the wire
\* was not its own or had another socket, the client left, the engine does not come back,
\* or the exchange ended.
EveryRequestIsAnswered ==
    \A k \in Conns : <>[](\/ Len(delivered[k]) = out[k] - 1 - Cardinality(OwnRequests(k) \cap ignored)
                         \/ Excused(k))
=============================================================================
