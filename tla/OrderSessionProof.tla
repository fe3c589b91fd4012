--------------------------- MODULE OrderSessionProof ---------------------------
(***************************************************************************)
(* OrderSession, for any number of connections, clients and requests and     *)
(* however much goes wrong: types, the socket a response is sent to, the gap *)
(* a lost request leaves, the order of a client's requests and of the         *)
(* answers its gateway hands on.                                             *)
(***************************************************************************)
EXTENDS OrderSession, SequenceTheorems, FiniteSetTheorems, TLAPS

Frames == Wire(ClientIds \cup {Beyond})

\* What TypeOK leaves out.
Streams == up \in [Conns -> Seq(Frames)] /\ returned \in Nat

\* A frame is handled in the turn of the socket it came from.
FramesAreTheCurrents == inbox # <<>> => AtSocket

\* A request anybody made is that of a client whose socket is known.
Known(r) == socketOf[r.id] # None
RequestsAreKnown ==
    ~wild => /\ \A i \in 1 .. Len(pending) : Known(pending[i].of)
             /\ \A i \in 1 .. Len(published) : Known(published[i])

SessionInv == TypeOK /\ Streams /\ FramesAreTheCurrents /\ RequestsAreKnown /\ NoNullSocket

-----------------------------------------------------------------------------
(* Sequences                                                               *)

LEMMA TailKeeps ==
    ASSUME NEW S, NEW seq \in Seq(S), seq # <<>>
    PROVE  Tail(seq) \in Seq(S) /\ Head(seq) \in S /\ Head(seq) = seq[1] /\ 1 \in 1 .. Len(seq)
  BY HeadTailProperties, EmptySeq, LenProperties, ElementOfSeq

LEMMA PartOf ==
    ASSUME NEW S, NEW seq \in Seq(S), NEW a \in Nat, NEW b \in Nat, a >= 1, b <= Len(seq)
    PROVE  SubSeq(seq, a, b) \in Seq(S)
  <1>1. Len(seq) \in Nat /\ \A i \in a .. b : seq[i] \in S
    BY LenProperties, ElementOfSeq
  <1>. QED  BY <1>1, SubSeqProperties

LEMMA SentIsFrames ==
    ASSUME NEW buffer \in Seq(Frames), NEW n \in 0 .. Len(buffer), NEW torn \in BOOLEAN,
           torn => n < Len(buffer)
    PROVE  Sent(buffer, n, torn) \in Seq(Frames)
  <1>1. Len(buffer) \in Nat /\ n \in Nat /\ SubSeq(buffer, 1, n) \in Seq(Frames)
    BY LenProperties, PartOf
  <1>2. CASE torn
    <2>1. buffer[n + 1] \in Frames
      BY <1>1, <1>2, ElementOfSeq
    <2>2. Torn(buffer[n + 1]) \in Frames
      BY <2>1 DEF Frames, Wire, Torn
    <2>. QED  BY <1>1, <1>2, <2>2 DEF Sent
  <1>3. CASE ~torn
    BY <1>1, <1>3, EmptySeq, ConcatEmptySeq DEF Sent
  <1>. QED  BY <1>2, <1>3

\* A sorted batch holds what was pending.
LEMMA Batch ==
    ASSUME NEW S, NEW seq \in Seq([time : Nat, of : S]), NEW p \in Bijection(1 .. Len(seq), 1 .. Len(seq))
    PROVE  LET batch == [i \in 1 .. Len(seq) |-> seq[p[i]].of]
           IN  /\ batch \in Seq(S) /\ Len(batch) = Len(seq)
               /\ \A i \in 1 .. Len(batch) : \E j \in 1 .. Len(seq) : batch[i] = seq[j].of
  <1>. DEFINE n == Len(seq)
              batch == [i \in 1 .. n |-> seq[p[i]].of]
  <1>1. n \in Nat /\ p \in [1 .. n -> 1 .. n]
    BY LenProperties DEF Bijection, Injection
  <1>2. \A i \in 1 .. n : p[i] \in 1 .. n /\ seq[p[i]].of \in S
    <2>1. \A j \in 1 .. n : seq[j] \in [time : Nat, of : S]
      BY ElementOfSeq
    <2>. HIDE DEF n
    <2>. QED  BY <1>1, <2>1
  <1>. HIDE DEF n
  <1>3. batch \in [1 .. n -> S]
    BY <1>2
  <1>4. batch \in Seq(S) /\ Len(batch) = n
    <2>1. batch \in Seq(S)
      BY <1>1, <1>3, SeqDef
    <2>. QED  BY <1>1, <2>1, LenProperties
  <1>. QED  BY <1>2, <1>4 DEF n

-----------------------------------------------------------------------------
(* The invariant, in the groups of variables the actions change            *)

GatewaysOK == /\ own \in [Conns -> ClientIds]
              /\ out \in [Conns -> Nat] /\ expectedResp \in [Conns -> Nat]
UpOK == up \in [Conns -> Seq(Frames)]
BacklogOK == backlog \in Seq(Conns) /\ gone \subseteq Conns
LoopOK == /\ receiveSockets \in Seq(Conns)
          /\ turn \in Nat /\ turn <= Len(receiveSockets) + 2
          /\ inbox \in Seq(Frames) /\ rxTime \in Nat
          /\ FramesAreTheCurrents
TablesOK == /\ socketOf \in [ClientIds -> Conns \cup {None}]
            /\ expectedReq \in [ClientIds -> Nat] /\ nextResp \in [ClientIds -> Nat]
PendingOK == pending \in Seq([time : Nat, of : MERequests])
EngineOK == /\ published \in Seq(MERequests)
            /\ returned \in Nat /\ returned <= Len(published)
            /\ ignored \subseteq 1 .. returned /\ stuck \in BOOLEAN
HaltedOK == halted \in Halts /\ NoNullSocket

LEMMA Groups ==
    SessionInv <=> /\ GatewaysOK /\ UpOK /\ BacklogOK /\ LoopOK /\ TablesOK /\ PendingOK
                   /\ EngineOK /\ HaltedOK /\ RequestsAreKnown
  BY DEF SessionInv, TypeOK, Streams, Frames, GatewaysOK, UpOK, BacklogOK, LoopOK, TablesOK,
         PendingOK, EngineOK, HaltedOK

LEMMA GroupsNext ==
    ASSUME GatewaysOK', UpOK', BacklogOK', LoopOK', TablesOK', PendingOK', EngineOK', HaltedOK',
           RequestsAreKnown'
    PROVE  SessionInv'
  BY DEF SessionInv, TypeOK, Streams, Frames, GatewaysOK, UpOK, BacklogOK, LoopOK, TablesOK,
         PendingOK, EngineOK, HaltedOK

\* What a step leaves alone.
LEMMA Untouched ==
    ASSUME SessionInv
    PROVE  /\ UNCHANGED gateways => GatewaysOK'
           /\ UNCHANGED up => UpOK'
           /\ UNCHANGED <<backlog, gone>> => BacklogOK'
           /\ UNCHANGED loop => LoopOK'
           /\ UNCHANGED tables => TablesOK'
           /\ UNCHANGED pending => PendingOK'
           /\ UNCHANGED engine => EngineOK'
           /\ UNCHANGED <<halted, wild>> => HaltedOK'
           /\ UNCHANGED <<socketOf, pending, published, wild>> => RequestsAreKnown'
  <1>1. /\ GatewaysOK /\ UpOK /\ BacklogOK /\ LoopOK /\ TablesOK /\ PendingOK
        /\ EngineOK /\ HaltedOK /\ RequestsAreKnown
    BY Groups
  <1>2. UNCHANGED gateways => GatewaysOK'
    BY <1>1 DEF gateways, GatewaysOK
  <1>3. UNCHANGED up => UpOK'
    BY <1>1 DEF UpOK
  <1>4. UNCHANGED <<backlog, gone>> => BacklogOK'
    BY <1>1 DEF BacklogOK
  <1>5. UNCHANGED loop => LoopOK'
    BY <1>1 DEF loop, LoopOK, FramesAreTheCurrents, AtSocket
  <1>6. UNCHANGED tables => TablesOK'
    BY <1>1 DEF tables, TablesOK
  <1>7. UNCHANGED pending => PendingOK'
    BY <1>1 DEF PendingOK
  <1>8. UNCHANGED engine => EngineOK'
    BY <1>1 DEF engine, EngineOK
  <1>9. UNCHANGED <<halted, wild>> => HaltedOK'
    <2>. SUFFICES ASSUME halted' = halted, wild' = wild PROVE HaltedOK'
      OBVIOUS
    <2>. QED  BY <1>1, Zenon DEF HaltedOK, NoNullSocket
  <1>10. UNCHANGED <<socketOf, pending, published, wild>> => RequestsAreKnown'
    BY <1>1 DEF RequestsAreKnown, Known
  <1>. QED  BY <1>2, <1>3, <1>4, <1>5, <1>6, <1>7, <1>8, <1>9, <1>10

LEMMA InitIsSession == Init => SessionInv
  <1>. SUFFICES ASSUME Init PROVE SessionInv
    OBVIOUS
  <1>1. GatewaysOK
    BY NamesAssumption DEF Init, GatewaysOK
  <1>2. UpOK /\ BacklogOK /\ TablesOK
    BY EmptySeq DEF Init, UpOK, BacklogOK, TablesOK
  <1>3. LoopOK
    BY EmptySeq DEF Init, LoopOK, FramesAreTheCurrents
  <1>4. EngineOK /\ HaltedOK
    <2>1. published = <<>> /\ returned = 0 /\ ignored = {} /\ stuck = FALSE /\ halted = "no"
      BY DEF Init
    <2>2. EngineOK
      <3>1. published \in Seq(MERequests)
        BY <2>1, EmptySeq
      <3>2. Len(published) = 0
        BY <2>1, EmptySeq
      <3>3. ignored \subseteq 1 .. returned
        BY <2>1, Zenon
      <3>4. returned = 0
        BY <2>1, Zenon
      <3>5. stuck \in BOOLEAN
        BY <2>1, Zenon
      <3>6. returned \in Nat /\ returned <= Len(published)
        BY <3>2, <3>4
      <3>. QED  BY <3>1, <3>3, <3>5, <3>6 DEF EngineOK
    <2>. QED  BY <2>1, <2>2 DEF HaltedOK, NoNullSocket, Halts
  <1>5. PendingOK /\ RequestsAreKnown
    <2>1. CASE pending = <<>> /\ wild = FALSE
      BY <2>1, EmptySeq DEF Init, PendingOK, RequestsAreKnown
    <2>2. CASE ~(pending = <<>> /\ wild = FALSE)
      <3>1. PICK id \in ClientIds :
                pending = <<[time |-> 0, of |-> Request([id |-> id, n |-> 0], None)]>> /\ wild = TRUE
        BY <2>2 DEF Init
      <3>2. Request([id |-> id, n |-> 0], None) \in MERequests
        BY DEF Request, MERequests
      <3>. QED  BY <3>1, <3>2 DEF PendingOK, RequestsAreKnown
    <2>. QED  BY <2>1, <2>2
  <1>. QED  BY <1>1, <1>2, <1>3, <1>4, <1>5, Groups

-----------------------------------------------------------------------------
(* The trading process                                                     *)

LEMMA ConnectKeeps ==
    ASSUME SessionInv, NEW k \in Conns, Connect(k)
    PROVE  SessionInv'
  <1>1. BacklogOK
    BY Groups
  <1>2. BacklogOK'
    BY <1>1, AppendProperties DEF BacklogOK, Connect
  <1>3. UNCHANGED <<gateways, up, loop, tables, pending, engine, halted, wild, socketOf, published>>
    BY DEF Connect, tables, engine, faults
  <1>. QED  BY <1>2, <1>3, Untouched, GroupsNext

LEMMA GatewaySendKeeps ==
    ASSUME SessionInv, NEW k \in Conns, NEW m \in 1 .. 2,
           NEW ids \in [1 .. m -> ClientIds \cup {Beyond}], GatewaySend(k, ids)
    PROVE  SessionInv'
  <1>. DEFINE buffer == [i \in 1 .. Len(ids) |-> [id |-> ids[i], n |-> out[k] + i - 1]]
  <1>1. GatewaysOK /\ UpOK
    BY Groups
  <1>2. ids \in Seq(ClientIds \cup {Beyond}) /\ Len(ids) \in Nat
        /\ \A i \in 1 .. Len(ids) : ids[i] \in ClientIds \cup {Beyond}
    <2>1. m \in Nat
      OBVIOUS
    <2>2. ids \in Seq(ClientIds \cup {Beyond})
      BY <2>1, SeqDef
    <2>. QED  BY <2>2, LenProperties, ElementOfSeq
  <1>3. buffer \in Seq(Frames)
    <2>1. \A i \in 1 .. Len(ids) : [id |-> ids[i], n |-> out[k] + i - 1] \in Frames
      <3>. SUFFICES ASSUME NEW i \in 1 .. Len(ids)
                    PROVE  [id |-> ids[i], n |-> out[k] + i - 1] \in Frames
        OBVIOUS
      <3>1. out[k] + i - 1 \in Nat
        BY <1>1 DEF GatewaysOK
      <3>. QED  BY <1>2, <3>1 DEF Frames, Wire
    <2>2. buffer \in [1 .. Len(ids) -> Frames]
      BY <2>1
    <2> DEFINE n == Len(ids)
    <2>3. n \in Nat /\ buffer \in [1 .. n -> Frames]
      BY <1>2, <2>2
    <2>. HIDE DEF n, buffer
    <2>. QED  BY <2>3, SeqDef
  <1>. HIDE DEF buffer
  <1>4. PICK n \in 0 .. Len(buffer), torn \in BOOLEAN :
            /\ torn => n < Len(buffer)
            /\ up' = [up EXCEPT ![k] = @ \o Sent(buffer, n, torn)]
    <2>1. Len(buffer) = Len(ids)
      BY <1>2 DEF buffer
    <2>. QED  BY <2>1, Zenon DEF GatewaySend, buffer
  <1>5. UpOK'
    <2>1. Sent(buffer, n, torn) \in Seq(Frames)
      BY <1>3, <1>4, SentIsFrames
    <2>2. up[k] \o Sent(buffer, n, torn) \in Seq(Frames)
      BY <1>1, <2>1, ConcatProperties DEF UpOK
    <2>. QED  BY <1>1, <1>4, <2>2 DEF UpOK
  <1>6. GatewaysOK'
    BY <1>1, <1>2 DEF GatewaysOK, GatewaySend
  <1>7. UNCHANGED <<backlog, gone, loop, tables, pending, engine, halted, wild, socketOf, published>>
    BY DEF GatewaySend, tables, engine
  <1>. QED  BY <1>5, <1>6, <1>7, Untouched, GroupsNext

LEMMA GatewayReceiveKeeps ==
    ASSUME SessionInv, Running, NEW k \in Conns, GatewayReceive(k)
    PROVE  SessionInv'
  <1>1. GatewaysOK
    BY Groups
  <1>2. /\ UNCHANGED <<own, out>>
        /\ expectedResp' \in {expectedResp, [expectedResp EXCEPT ![k] = @ + 1]}
        /\ halted' \in {"out of step", "no"}
    BY DEF GatewayReceive
  <1>3. GatewaysOK'
    <2>1. [expectedResp EXCEPT ![k] = @ + 1] \in [Conns -> Nat]
      BY <1>1 DEF GatewaysOK
    <2>. QED  BY <1>1, <1>2, <2>1 DEF GatewaysOK
  <1>4. HaltedOK'
    BY <1>2 DEF HaltedOK, Halts, NoNullSocket
  <1>5. UNCHANGED <<up, backlog, gone, loop, tables, pending, engine, wild, socketOf, published>>
    BY DEF GatewayReceive, tables, engine
  <1>. QED  BY <1>3, <1>4, <1>5, Untouched, GroupsNext

LEMMA LeaveKeeps ==
    ASSUME SessionInv, NEW k \in Conns, Leave(k)
    PROVE  SessionInv'
  <1>1. BacklogOK
    BY Groups
  <1>2. BacklogOK'
    BY <1>1 DEF BacklogOK, Leave
  <1>3. UNCHANGED <<gateways, up, loop, tables, pending, engine, halted, wild, socketOf, published>>
    BY DEF Leave, tables, engine, faults
  <1>. QED  BY <1>2, <1>3, Untouched, GroupsNext

-----------------------------------------------------------------------------
(* The order server                                                        *)

LEMMA PollKeeps ==
    ASSUME SessionInv, Poll
    PROVE  SessionInv'
  <1>1. BacklogOK /\ LoopOK
    BY Groups
  <1>2. Len(receiveSockets) \in Nat /\ turn = Len(receiveSockets) + 2
    BY <1>1, LenProperties DEF LoopOK, Poll, AtResponses
  <1>3. inbox = <<>>
    BY <1>1, <1>2 DEF LoopOK, FramesAreTheCurrents, AtSocket
  <1>4. LoopOK'
    <2>1. receiveSockets' \in Seq(Conns) /\ turn' = 1 /\ UNCHANGED <<inbox, rxTime>>
      BY <1>1, ConcatProperties DEF Poll, BacklogOK, LoopOK
    <2>2. Len(receiveSockets') \in Nat
      BY <2>1, LenProperties
    <2>. QED  BY <1>1, <1>3, <2>1, <2>2 DEF LoopOK, FramesAreTheCurrents
  <1>5. BacklogOK'
    BY <1>1, EmptySeq DEF BacklogOK, Poll
  <1>6. UNCHANGED <<gateways, up, tables, pending, engine, halted, wild, socketOf, published>>
    BY DEF Poll, tables, engine, faults
  <1>. QED  BY <1>4, <1>5, <1>6, Untouched, GroupsNext

LEMMA ReadKeeps ==
    ASSUME SessionInv, Read
    PROVE  SessionInv'
  <1>1. UpOK /\ LoopOK
    BY Groups
  <1>2. AtSocket /\ Current \in Conns
    BY <1>1, ElementOfSeq DEF Read, LoopOK, AtSocket, Current
  <1>3. PICK n \in 1 .. Len(up[Current]), time \in Times :
            /\ inbox' = SubSeq(up[Current], 1, n)
            /\ up' = [up EXCEPT ![Current] = SubSeq(@, n + 1, Len(@))]
            /\ rxTime' = time + 1
    BY DEF Read
  <1>4. up[Current] \in Seq(Frames) /\ Len(up[Current]) \in Nat /\ n \in Nat /\ time \in Nat
    BY <1>1, <1>2, LenProperties, SizesAssumption DEF UpOK
  <1>5. inbox' \in Seq(Frames) /\ SubSeq(up[Current], n + 1, Len(up[Current])) \in Seq(Frames)
    BY <1>3, <1>4, PartOf
  <1>6. UpOK'
    BY <1>1, <1>2, <1>3, <1>5 DEF UpOK
  <1>7. LoopOK'
    <2>1. UNCHANGED <<receiveSockets, turn>> /\ rxTime' \in Nat
      BY <1>3, <1>4 DEF Read
    <2>. QED  BY <1>1, <1>2, <1>5, <2>1 DEF LoopOK, FramesAreTheCurrents, AtSocket
  <1>8. UNCHANGED <<gateways, backlog, gone, tables, pending, engine, halted, wild, socketOf, published>>
    BY DEF Read, tables, engine, faults
  <1>. QED  BY <1>6, <1>7, <1>8, Untouched, GroupsNext

\* A frame is taken from the inbox.
LEMMA FrameIsTaken ==
    ASSUME SessionInv, NextFrame, UNCHANGED <<receiveSockets, turn, rxTime>>
    PROVE  LoopOK' /\ Frame \in Frames /\ AtSocket /\ Current \in Conns
  <1>1. LoopOK /\ inbox # <<>>
    BY Groups DEF NextFrame
  <1>2. inbox' \in Seq(Frames) /\ Frame \in Frames
    BY <1>1, TailKeeps DEF LoopOK, NextFrame, Frame
  <1>3. AtSocket
    BY <1>1 DEF LoopOK, FramesAreTheCurrents
  <1>4. Current \in Conns
    BY <1>1, <1>3, ElementOfSeq DEF LoopOK, AtSocket, Current
  <1>. QED  BY <1>1, <1>2, <1>3, <1>4 DEF LoopOK, FramesAreTheCurrents, AtSocket

\* Binding forgets no socket.
LEMMA BindKeeps ==
    ASSUME SessionInv, Bind, Frame.id \in ClientIds, Current \in Conns
    PROVE  /\ socketOf' \in [ClientIds -> Conns \cup {None}]
           /\ \A id \in ClientIds : socketOf[id] # None => socketOf'[id] # None
           /\ socketOf'[Frame.id] # None
  <1>1. socketOf \in [ClientIds -> Conns \cup {None}]
    BY Groups DEF TablesOK
  <1>. QED  BY <1>1, NamesAssumption DEF Bind

\* So a request whose socket was known is one still.
LEMMA KnownStays ==
    ASSUME SessionInv, \A id \in ClientIds : socketOf[id] # None => socketOf'[id] # None
    PROVE  /\ ~wild => \A i \in 1 .. Len(pending) : socketOf'[pending[i].of.id] # None
           /\ ~wild => \A i \in 1 .. Len(published) : socketOf'[published[i].id] # None
  <1>1. PendingOK /\ EngineOK /\ RequestsAreKnown
    BY Groups
  <1>2. \A i \in 1 .. Len(pending) : pending[i].of.id \in ClientIds
    <2>. SUFFICES ASSUME NEW i \in 1 .. Len(pending) PROVE pending[i].of.id \in ClientIds
      OBVIOUS
    <2>1. pending[i] \in [time : Nat, of : MERequests]
      BY <1>1, ElementOfSeq DEF PendingOK
    <2>. QED  BY <2>1 DEF MERequests
  <1>3. \A i \in 1 .. Len(published) : published[i].id \in ClientIds
    <2>. SUFFICES ASSUME NEW i \in 1 .. Len(published) PROVE published[i].id \in ClientIds
      OBVIOUS
    <2>1. published[i] \in MERequests
      BY <1>1, ElementOfSeq DEF EngineOK
    <2>. QED  BY <2>1 DEF MERequests
  <1>. QED  BY <1>1, <1>2, <1>3 DEF RequestsAreKnown, Known

LEMMA CannotHandleKeeps ==
    ASSUME SessionInv, CannotHandle
    PROVE  SessionInv'
  <1>1. LoopOK'
    BY FrameIsTaken DEF CannotHandle
  <1>2. HaltedOK'
    BY DEF CannotHandle, HaltedOK, Halts, NoNullSocket
  <1>3. UNCHANGED <<gateways, up, backlog, gone, tables, pending, engine, wild, socketOf, published>>
    BY DEF CannotHandle, tables, engine, network
  <1>. QED  BY <1>1, <1>2, <1>3, Untouched, GroupsNext

LEMMA RefuseKeeps ==
    ASSUME SessionInv, Refuse
    PROVE  SessionInv'
  <1>1. LoopOK' /\ Current \in Conns
    BY FrameIsTaken DEF Refuse
  <1>2. /\ socketOf' \in [ClientIds -> Conns \cup {None}]
        /\ \A id \in ClientIds : socketOf[id] # None => socketOf'[id] # None
    BY <1>1, BindKeeps DEF Refuse
  <1>3. UNCHANGED <<expectedReq, nextResp>>
    BY DEF Refuse
  <1>4. TablesOK
    BY Groups
  <1>5. TablesOK'
    BY <1>2, <1>3, <1>4 DEF TablesOK
  <1>6. UNCHANGED <<gateways, up, backlog, gone, pending, engine, halted, wild>>
    BY DEF Refuse, network, faults
  <1>7. RequestsAreKnown'
    <2>1. pending' = pending /\ published' = published /\ wild' = wild
      BY <1>6 DEF engine
    <2>. QED  BY <1>2, <2>1, KnownStays DEF RequestsAreKnown, Known
  <1>. QED  BY <1>1, <1>5, <1>6, <1>7, Untouched, GroupsNext

LEMMA AdmitKeeps ==
    ASSUME SessionInv, Running, Admit
    PROVE  SessionInv'
  <1>1. LoopOK' /\ Current \in Conns /\ Frame \in Frames /\ Frame.id \in ClientIds
    BY FrameIsTaken DEF Admit
  <1>2. Frame.n \in Nat
    BY <1>1 DEF Frames, Wire
  <1>3. /\ socketOf' \in [ClientIds -> Conns \cup {None}]
        /\ \A id \in ClientIds : socketOf[id] # None => socketOf'[id] # None
        /\ socketOf'[Frame.id] # None
    BY <1>1, BindKeeps DEF Admit
  <1>4. TablesOK /\ PendingOK /\ LoopOK
    BY Groups
  <1>5. TablesOK'
    <2>1. expectedReq' = [expectedReq EXCEPT ![Frame.id] = Frame.n + 1] /\ nextResp' = nextResp
      BY DEF Admit
    <2>2. expectedReq' \in [ClientIds -> Nat]
      <3>1. Frame.n + 1 \in Nat
        BY <1>2
      <3>. QED  BY <1>4, <2>1, <3>1, Zenon DEF TablesOK
    <2>. QED  BY <1>3, <1>4, <2>1, <2>2 DEF TablesOK
  <1>. DEFINE entry == [time |-> rxTime, of |-> Request(Frame, Current)]
  <1>6. entry \in [time : Nat, of : MERequests] /\ entry.of.id = Frame.id
    BY <1>1, <1>2, <1>4 DEF LoopOK, Request, MERequests
  <1>. HIDE DEF entry
  <1>7. /\ UNCHANGED <<gateways, up, backlog, gone, published, engine, wild>>
        /\ \/ pending' = Append(pending, entry) /\ halted' = halted
           \/ pending' = pending /\ halted' = "too many pending"
    BY DEF Admit, network, engine, entry
  <1>8. PendingOK'
    <2>1. Append(pending, entry) \in Seq([time : Nat, of : MERequests])
      BY <1>4, <1>6, AppendProperties, Zenon DEF PendingOK
    <2>. QED  BY <1>4, <1>7, <2>1, Zenon DEF PendingOK
  <1>9. HaltedOK'
    <2>1. halted' \in {"no", "too many pending"}
      BY <1>7 DEF Running
    <2>. QED  BY <2>1 DEF HaltedOK, Halts, NoNullSocket
  <1>10. RequestsAreKnown'
    <2>. SUFFICES ASSUME ~wild'
                  PROVE  /\ \A i \in 1 .. Len(pending') : socketOf'[pending'[i].of.id] # None
                         /\ \A i \in 1 .. Len(published') : socketOf'[published'[i].id] # None
      BY DEF RequestsAreKnown, Known
    <2>1. /\ \A i \in 1 .. Len(pending) : socketOf'[pending[i].of.id] # None
          /\ \A i \in 1 .. Len(published) : socketOf'[published[i].id] # None
      BY <1>3, <1>7, KnownStays
    <2>2. CASE pending' = Append(pending, entry)
      <3>1. /\ Len(pending) \in Nat /\ Len(pending') = Len(pending) + 1
            /\ \A i \in 1 .. Len(pending) : pending'[i] = pending[i]
            /\ pending'[Len(pending) + 1] = entry
        BY <1>4, <1>6, <2>2, AppendProperties, LenProperties DEF PendingOK
      <3>2. \A i \in 1 .. Len(pending') : i \in 1 .. Len(pending) \/ i = Len(pending) + 1
        BY <3>1
      <3>. QED  BY <1>3, <1>6, <1>7, <2>1, <3>1, <3>2
    <2>. QED  BY <1>7, <2>1, <2>2
  <1>11. EngineOK'
    <2>1. EngineOK
      BY Groups
    <2>. QED  BY <1>7, <2>1 DEF EngineOK, engine
  <1>. QED  BY <1>1, <1>5, <1>7, <1>8, <1>9, <1>10, <1>11, Untouched, GroupsNext

LEMMA ServerSendKeeps ==
    ASSUME SessionInv, Running, ServerSend
    PROVE  SessionInv'
  <1>1. LoopOK
    BY Groups
  <1>2. AtSocket /\ inbox = <<>> /\ turn' = turn + 1 /\ rxTime' = 0 /\ UNCHANGED <<inbox, receiveSockets>>
    BY DEF ServerSend
  <1>3. LoopOK'
    BY <1>1, <1>2, LenProperties DEF LoopOK, FramesAreTheCurrents, AtSocket
  <1>4. HaltedOK'
    <2>1. halted' \in {"no", "SIGPIPE"}
      BY DEF ServerSend, Running
    <2>. QED  BY <2>1 DEF HaltedOK, Halts, NoNullSocket
  <1>5. UNCHANGED <<gateways, up, backlog, gone, tables, pending, engine, wild, socketOf, published>>
    BY DEF ServerSend, tables, engine
  <1>. QED  BY <1>3, <1>4, <1>5, Untouched, GroupsNext

LEMMA FinishKeeps ==
    ASSUME SessionInv, Finish
    PROVE  SessionInv'
  <1>1. LoopOK /\ PendingOK /\ EngineOK /\ RequestsAreKnown
    BY Groups
  <1>2. LoopOK'
    <2>1. AtFinish /\ turn' = turn + 1 /\ UNCHANGED <<receiveSockets, inbox, rxTime>>
      BY DEF Finish
    <2>2. inbox = <<>>
      BY <1>1, <2>1, LenProperties DEF LoopOK, FramesAreTheCurrents, AtSocket, AtFinish
    <2>. QED  BY <1>1, <2>1, <2>2, LenProperties DEF LoopOK, FramesAreTheCurrents, AtFinish
  <1>3. UNCHANGED <<gateways, up, backlog, gone, tables, halted, wild, socketOf, returned, ignored, stuck>>
    BY DEF Finish, network, tables
  <1>4. PendingOK' /\ EngineOK' /\ RequestsAreKnown'
    <2>1. CASE UNCHANGED <<published, pending, shuffled>>
      BY <1>1, <1>3, <2>1 DEF PendingOK, EngineOK, RequestsAreKnown, Known
    <2>2. CASE SequenceAndPublish
      <3>. DEFINE n == Len(pending)
      <3>1. PICK p \in Bijection(1 .. n, 1 .. n) :
                published' = published \o [i \in 1 .. n |-> pending[p[i]].of]
        BY <2>2 DEF SequenceAndPublish
      <3>. DEFINE batch == [i \in 1 .. n |-> pending[p[i]].of]
      <3>2. /\ batch \in Seq(MERequests) /\ Len(batch) = n
            /\ \A i \in 1 .. Len(batch) : \E j \in 1 .. n : batch[i] = pending[j].of
        BY <1>1, Batch DEF PendingOK
      <3>3. published' = published \o batch /\ pending' = <<>>
        BY <2>2, <3>1 DEF SequenceAndPublish
      <3>. HIDE DEF batch, n
      <3>4. Len(published) \in Nat /\ Len(batch) \in Nat
        BY <1>1, <3>2, LenProperties DEF EngineOK
      <3>5. /\ published' \in Seq(MERequests) /\ Len(published') = Len(published) + Len(batch)
            /\ \A i \in 1 .. Len(published) + Len(batch) :
                  published'[i] = IF i <= Len(published) THEN published[i] ELSE batch[i - Len(published)]
        <4>1. published \in Seq(MERequests)
          BY <1>1 DEF EngineOK
        <4>2. batch \in Seq(MERequests)
          BY <3>2
        <4>3. /\ published \o batch \in Seq(MERequests)
              /\ Len(published \o batch) = Len(published) + Len(batch)
              /\ \A i \in 1 .. Len(published) + Len(batch) : (published \o batch)[i] =
                    IF i <= Len(published) THEN published[i] ELSE batch[i - Len(published)]
          BY <4>1, <4>2, ConcatProperties, Zenon
        <4>. QED  BY <3>3, <4>3, Zenon
      <3>6. EngineOK' /\ PendingOK'
        BY <1>1, <1>3, <3>3, <3>4, <3>5, EmptySeq DEF EngineOK, PendingOK
      <3>7. RequestsAreKnown'
        <4>. SUFFICES ASSUME ~wild', NEW i \in 1 .. Len(published')
                      PROVE  socketOf'[published'[i].id] # None
          BY <3>3, EmptySeq DEF RequestsAreKnown, Known
        <4>0. /\ \A j \in 1 .. n : socketOf[pending[j].of.id] # None
              /\ \A j \in 1 .. Len(published) : socketOf[published[j].id] # None
          BY <1>1, <1>3 DEF RequestsAreKnown, Known, n
        <4>1. CASE i <= Len(published)
          <5>1. i \in 1 .. Len(published) /\ published'[i] = published[i]
            BY <3>4, <3>5, <4>1
          <5>. QED  BY <1>3, <4>0, <5>1
        <4>2. CASE i > Len(published)
          <5>1. i - Len(published) \in 1 .. Len(batch) /\ published'[i] = batch[i - Len(published)]
            BY <3>4, <3>5, <4>2
          <5>2. PICK j \in 1 .. n : batch[i - Len(published)] = pending[j].of
            BY <3>2, <5>1
          <5>3. socketOf[pending[j].of.id] # None
            BY <4>0
          <5>. QED  BY <1>3, <5>1, <5>2, <5>3, Zenon
        <4>. QED  BY <3>4, <3>5, <4>1, <4>2
      <3>. QED  BY <3>6, <3>7
    <2>. QED  BY <2>1, <2>2 DEF Finish
  <1>. QED  BY <1>2, <1>3, <1>4, Untouched, GroupsNext

LEMMA WorkingOn ==
    ASSUME SessionInv, Working
    PROVE  /\ Len(published) \in Nat /\ returned \in Nat /\ returned < Len(published)
           /\ returned + 1 \in 1 .. Len(published) /\ returned + 1 \notin ignored
  <1>1. /\ returned \in Nat /\ published \in Seq(MERequests) /\ ignored \subseteq 1 .. returned
    BY Groups DEF EngineOK
  <1>2. Len(published) \in Nat
    BY <1>1, LenProperties
  <1>3. returned < Len(published)
    BY DEF Working
  <1>4. returned + 1 \notin 1 .. returned
    BY <1>1
  <1>. QED  BY <1>1, <1>2, <1>3, <1>4

LEMMA IgnoreKeeps ==
    ASSUME SessionInv, Ignore
    PROVE  SessionInv'
  <1>1. EngineOK
    BY Groups
  <1>2. returned \in Nat /\ returned + 1 \in 1 .. Len(published) /\ Len(published) \in Nat
    BY WorkingOn DEF Ignore
  <1>3. /\ UNCHANGED <<gateways, up, backlog, gone, loop, tables, pending, halted, wild, socketOf, published, stuck>>
        /\ returned' = returned + 1 /\ ignored' = ignored \cup {returned + 1}
    BY DEF Ignore, network, tables, faults
  <1>4. EngineOK'
    BY <1>1, <1>2, <1>3 DEF EngineOK
  <1>. QED  BY <1>3, <1>4, Untouched, GroupsNext

LEMMA EngineStopsKeeps ==
    ASSUME SessionInv, EngineStops
    PROVE  SessionInv'
  <1>1. EngineOK
    BY Groups
  <1>2. /\ UNCHANGED <<gateways, up, backlog, gone, loop, tables, pending, wild, socketOf, published, returned, ignored>>
        /\ stuck' = TRUE /\ halted' \in {"no", "matching engine"}
    BY DEF EngineStops, network, tables
  <1>3. EngineOK'
    BY <1>1, <1>2 DEF EngineOK
  <1>4. HaltedOK'
    BY <1>2 DEF HaltedOK, Halts, NoNullSocket
  <1>. QED  BY <1>2, <1>3, <1>4, Untouched, GroupsNext

LEMMA RespondKeeps ==
    ASSUME SessionInv, Running, Respond
    PROVE  SessionInv'
  <1>1. EngineOK /\ TablesOK /\ RequestsAreKnown
    BY Groups
  <1>2. /\ returned < Len(published) /\ Len(published) \in Nat
        /\ returned + 1 \in 1 .. Len(published)
    BY WorkingOn DEF Respond
  <1>3. Answering \in MERequests /\ Answering.id \in ClientIds
    <2>1. Answering \in MERequests
      BY <1>1, <1>2, ElementOfSeq DEF EngineOK, Answering
    <2>. QED  BY <2>1 DEF MERequests
  <1>4. UNCHANGED <<gateways, up, backlog, gone, loop, pending, wild, socketOf, expectedReq, published,
                    ignored, stuck>>
    BY DEF Respond, network
  <1>5. CASE socketOf[Answering.id] = None
    <2>1. halted' = "null socket" /\ UNCHANGED <<nextResp, returned>>
      BY <1>5 DEF Respond
    <2>2. wild
      BY <1>1, <1>2, <1>5 DEF RequestsAreKnown, Known, Answering
    <2>3. HaltedOK'
      <3>1. wild'
        BY <1>4, <2>2
      <3>. QED  BY <2>1, <3>1 DEF HaltedOK, Halts, NoNullSocket
    <2>4. UNCHANGED tables /\ UNCHANGED engine
      BY <1>4, <2>1 DEF tables, engine
    <2>. QED  BY <1>4, <2>3, <2>4, Untouched, GroupsNext
  <1>6. CASE socketOf[Answering.id] # None
    <2>1. /\ nextResp' = [nextResp EXCEPT ![Answering.id] = @ + 1]
          /\ returned' = returned + 1 /\ UNCHANGED halted
      BY <1>6 DEF Respond
    <2>2. TablesOK' /\ EngineOK'
      BY <1>1, <1>2, <1>3, <1>4, <2>1 DEF TablesOK, EngineOK
    <2>. QED  BY <1>4, <2>1, <2>2, Untouched, GroupsNext
  <1>. QED  BY <1>5, <1>6

LEMMA NextKeepsSession == SessionInv /\ [Next]_vars => SessionInv'
  <1>. SUFFICES ASSUME SessionInv, [Next]_vars PROVE SessionInv'
    OBVIOUS
  <1>1. ASSUME NEW k \in Conns, NEW m \in 1 .. 2, NEW ids \in [1 .. m -> ClientIds \cup {Beyond}],
               GatewaySend(k, ids)
        PROVE  SessionInv'
    BY <1>1, GatewaySendKeeps
  <1>2. ASSUME NEW k \in Conns, Connect(k) \/ Leave(k) \/ (Running /\ GatewayReceive(k))
        PROVE  SessionInv'
    BY <1>2, ConnectKeeps, LeaveKeeps, GatewayReceiveKeeps
  <1>3. ASSUME Running, \/ Poll \/ Read \/ CannotHandle \/ Refuse \/ Admit \/ ServerSend \/ Finish
                        \/ Respond \/ Ignore \/ EngineStops
        PROVE  SessionInv'
    BY <1>3, PollKeeps, ReadKeeps, CannotHandleKeeps, RefuseKeeps, AdmitKeeps, ServerSendKeeps,
       FinishKeeps, RespondKeeps, IgnoreKeeps, EngineStopsKeeps
  <1>4. CASE UNCHANGED vars
    <2>1. UNCHANGED <<gateways, up, backlog, gone, loop, tables, pending, engine, halted, wild,
                      socketOf, published>>
      BY <1>4 DEF vars, network, tables, engine, faults
    <2>. QED  BY <2>1, Untouched, GroupsNext
  <1>. QED  BY <1>1, <1>2, <1>3, <1>4 DEF Next, Quiet

LEMMA SessionInvariant == Spec => []SessionInv
  BY InitIsSession, NextKeepsSession, PTL DEF Spec

\* Every variable keeps the type of its declaration in the code, however many clients,
\* connections and requests there are and whatever is lost or goes astray.
THEOREM SessionTypeCorrect == Spec => []TypeOK
  <1>1. SessionInv => TypeOK
    BY DEF SessionInv
  <1>. QED  BY <1>1, SessionInvariant, PTL

\* OrderServer::Run never meets "Can't send response to a null socket" for a request
\* that a client has made.
THEOREM ResponsesHaveASocket == Spec => []NoNullSocket
  <1>1. SessionInv => NoNullSocket
    BY DEF SessionInv
  <1>. QED  BY <1>1, SessionInvariant, PTL

-----------------------------------------------------------------------------
(* The gap                                                                 *)

Gap == \A id \in ClientIds : IsLost(id) => IsLost(id)' /\ expectedReq'[id] = expectedReq[id]

Elements(seq) == {seq[i] : i \in 1 .. Len(seq)}

\* The frames of a connection that the server has not handled yet.
Arriving(k) == Elements(up[k]) \cup IF AtSocket /\ Current = k THEN Elements(inbox) ELSE {}

LEMMA ElementsOfConcat ==
    ASSUME NEW S, NEW s \in Seq(S), NEW t \in Seq(S)
    PROVE  Elements(s \o t) = Elements(s) \cup Elements(t)
  <1>1. /\ Len(s) \in Nat /\ Len(t) \in Nat /\ Len(s \o t) = Len(s) + Len(t)
        /\ \A i \in 1 .. Len(s) + Len(t) :
              (s \o t)[i] = IF i <= Len(s) THEN s[i] ELSE t[i - Len(s)]
    BY ConcatProperties, LenProperties
  <1>2. ASSUME NEW i \in 1 .. Len(s \o t) PROVE (s \o t)[i] \in Elements(s) \cup Elements(t)
    BY <1>1 DEF Elements
  <1>3. ASSUME NEW i \in 1 .. Len(s) PROVE s[i] \in Elements(s \o t)
    <2>1. i \in 1 .. Len(s \o t) /\ (s \o t)[i] = s[i]
      BY <1>1
    <2>. QED  BY <2>1 DEF Elements
  <1>4. ASSUME NEW i \in 1 .. Len(t) PROVE t[i] \in Elements(s \o t)
    <2>1. Len(s) + i \in 1 .. Len(s \o t) /\ (s \o t)[Len(s) + i] = t[i]
      BY <1>1
    <2>. QED  BY <2>1, Zenon DEF Elements
  <1>. QED  BY <1>2, <1>3, <1>4 DEF Elements

LEMMA ElementsOfPart ==
    ASSUME NEW S, NEW seq \in Seq(S), NEW a \in Nat, NEW b \in Nat, a >= 1, b <= Len(seq)
    PROVE  Elements(SubSeq(seq, a, b)) \subseteq Elements(seq)
  <1>1. Len(seq) \in Nat /\ \A i \in a .. b : seq[i] \in S
    BY LenProperties, ElementOfSeq
  <1>2. /\ Len(SubSeq(seq, a, b)) = IF a <= b THEN b - a + 1 ELSE 0
        /\ \A i \in 1 .. b - a + 1 : SubSeq(seq, a, b)[i] = seq[a + i - 1]
    BY <1>1, SubSeqProperties
  <1>3. ASSUME NEW i \in 1 .. Len(SubSeq(seq, a, b)) PROVE SubSeq(seq, a, b)[i] \in Elements(seq)
    <2>1. a + i - 1 \in 1 .. Len(seq) /\ SubSeq(seq, a, b)[i] = seq[a + i - 1]
      BY <1>1, <1>2
    <2>. QED  BY <2>1, Zenon DEF Elements
  <1>. QED  BY <1>3 DEF Elements

LEMMA ElementsOfTail ==
    ASSUME NEW S, NEW seq \in Seq(S), seq # <<>>
    PROVE  Elements(Tail(seq)) \subseteq Elements(seq)
  <1>1. /\ Len(seq) \in Nat /\ Len(Tail(seq)) = Len(seq) - 1
        /\ \A i \in 1 .. Len(Tail(seq)) : Tail(seq)[i] = seq[i + 1]
    BY HeadTailProperties, LenProperties
  <1>2. ASSUME NEW i \in 1 .. Len(Tail(seq)) PROVE Tail(seq)[i] \in Elements(seq)
    <2>1. i + 1 \in 1 .. Len(seq) /\ Tail(seq)[i] = seq[i + 1]
      BY <1>1
    <2>. QED  BY <2>1, Zenon DEF Elements
  <1>. QED  BY <1>2 DEF Elements

LEMMA ElementsOfNothing == Elements(<<>>) = {}
  BY EmptySeq DEF Elements

\* Whatever is sent of a buffer whose numbers begin at first, and torn, has these numbers.
LEMMA SentIsNew ==
    ASSUME NEW buffer \in Seq(Frames), NEW n \in 0 .. Len(buffer), NEW torn \in BOOLEAN,
           torn => n < Len(buffer), NEW first \in Nat,
           \A i \in 1 .. Len(buffer) : buffer[i].n >= first
    PROVE  \A f \in Elements(Sent(buffer, n, torn)) : f.n >= first
  <1>1. Len(buffer) \in Nat /\ n \in Nat /\ SubSeq(buffer, 1, n) \in Seq(Frames)
    BY LenProperties, PartOf
  <1>2. \A f \in Elements(SubSeq(buffer, 1, n)) : f.n >= first
    <2>1. Elements(SubSeq(buffer, 1, n)) \subseteq Elements(buffer)
      BY <1>1, ElementsOfPart
    <2>. QED  BY <2>1 DEF Elements
  <1>3. CASE torn
    <2>1. n + 1 \in 1 .. Len(buffer) /\ buffer[n + 1] \in Frames
      BY <1>1, <1>3, ElementOfSeq
    <2>2. Torn(buffer[n + 1]) \in Frames /\ Torn(buffer[n + 1]).n >= first
      BY <2>1 DEF Frames, Wire, Torn
    <2>3. /\ <<Torn(buffer[n + 1])>> \in Seq(Frames)
          /\ Elements(<<Torn(buffer[n + 1])>>) = {Torn(buffer[n + 1])}
      BY <2>2 DEF Elements
    <2>4. Elements(Sent(buffer, n, torn)) =
             Elements(SubSeq(buffer, 1, n)) \cup Elements(<<Torn(buffer[n + 1])>>)
      <3>. DEFINE head == SubSeq(buffer, 1, n)
                  part == <<Torn(buffer[n + 1])>>
      <3>1. Sent(buffer, n, torn) = head \o part /\ head \in Seq(Frames) /\ part \in Seq(Frames)
        BY <1>1, <1>3, <2>3 DEF Sent
      <3>. HIDE DEF head, part
      <3>2. Elements(head \o part) = Elements(head) \cup Elements(part)
        BY <3>1, ElementsOfConcat
      <3>. QED  BY <3>1, <3>2 DEF head, part
    <2>. QED  BY <1>2, <2>2, <2>3, <2>4
  <1>4. CASE ~torn
    BY <1>1, <1>2, <1>4, EmptySeq, ConcatEmptySeq DEF Sent
  <1>. QED  BY <1>3, <1>4

\* A gateway counts upwards, so no number comes a second time.
LEMMA SendIsNew ==
    ASSUME SessionInv, NEW j \in Conns, NEW m \in 1 .. 2,
           NEW ids \in [1 .. m -> ClientIds \cup {Beyond}], GatewaySend(j, ids), NEW k \in Conns
    PROVE  /\ out'[k] >= out[k]
           /\ \A f \in Arriving(k)' : f \in Arriving(k) \/ f.n >= out[k]
  <1>. DEFINE buffer == [i \in 1 .. Len(ids) |-> [id |-> ids[i], n |-> out[j] + i - 1]]
  <1>1. GatewaysOK /\ UpOK
    BY Groups
  <1>2. Len(ids) \in Nat /\ \A i \in 1 .. Len(ids) : ids[i] \in ClientIds \cup {Beyond}
    <2>1. m \in Nat
      OBVIOUS
    <2>2. ids \in Seq(ClientIds \cup {Beyond})
      BY <2>1, SeqDef
    <2>. QED  BY <2>2, LenProperties, ElementOfSeq
  <1>3. buffer \in Seq(Frames) /\ Len(buffer) = Len(ids)
        /\ \A i \in 1 .. Len(buffer) : buffer[i].n >= out[j]
    <2>1. \A i \in 1 .. Len(ids) : [id |-> ids[i], n |-> out[j] + i - 1] \in Frames
      <3>. SUFFICES ASSUME NEW i \in 1 .. Len(ids)
                    PROVE  [id |-> ids[i], n |-> out[j] + i - 1] \in Frames
        OBVIOUS
      <3>1. out[j] + i - 1 \in Nat
        BY <1>1 DEF GatewaysOK
      <3>. QED  BY <1>2, <3>1 DEF Frames, Wire
    <2>2. buffer \in [1 .. Len(ids) -> Frames]
      BY <2>1
    <2>3. \A i \in 1 .. Len(ids) : buffer[i].n >= out[j]
      BY <1>1, <1>2 DEF GatewaysOK
    <2> DEFINE n == Len(ids)
    <2>4. n \in Nat /\ buffer \in [1 .. n -> Frames] /\ \A i \in 1 .. n : buffer[i].n >= out[j]
      BY <1>2, <2>2, <2>3
    <2>. HIDE DEF n, buffer
    <2>5. buffer \in Seq(Frames)
      BY <2>4, SeqDef
    <2>6. Len(buffer) = n
      BY <2>4, <2>5, LenProperties
    <2>. QED  BY <2>4, <2>5, <2>6 DEF n
  <1>4. PICK n \in 0 .. Len(buffer), torn \in BOOLEAN :
            /\ torn => n < Len(buffer)
            /\ up' = [up EXCEPT ![j] = @ \o Sent(buffer, n, torn)]
    BY <1>3, Zenon DEF GatewaySend
  <1>. HIDE DEF buffer
  <1>5. \A f \in Elements(Sent(buffer, n, torn)) : f.n >= out[j]
    BY <1>1, <1>3, <1>4, SentIsNew DEF GatewaysOK
  <1>6. Elements(up[j] \o Sent(buffer, n, torn)) = Elements(up[j]) \cup Elements(Sent(buffer, n, torn))
    <2>1. Sent(buffer, n, torn) \in Seq(Frames)
      BY <1>3, <1>4, SentIsFrames
    <2>. QED  BY <1>1, <2>1, ElementsOfConcat DEF UpOK
  <1>7. UNCHANGED <<turn, receiveSockets, inbox>>
    BY DEF GatewaySend, loop
  <1>8. out'[k] >= out[k]
    BY <1>1, <1>2 DEF GatewaySend, GatewaysOK
  <1>9. CASE k = j
    <2>1. up'[k] = up[j] \o Sent(buffer, n, torn)
      BY <1>1, <1>4, <1>9 DEF UpOK
    <2>2. Arriving(k)' = Elements(up'[k]) \cup IF AtSocket /\ Current = k THEN Elements(inbox) ELSE {}
      BY <1>7 DEF Arriving, AtSocket, Current, Elements
    <2>3. Arriving(k)' = Arriving(k) \cup Elements(Sent(buffer, n, torn))
      BY <1>6, <1>9, <2>1, <2>2 DEF Arriving
    <2>. QED  BY <1>5, <1>8, <1>9, <2>3
  <1>10. CASE k # j
    <2>1. up'[k] = up[k]
      BY <1>1, <1>4, <1>10 DEF UpOK
    <2>2. Arriving(k)' = Arriving(k)
      BY <1>7, <2>1 DEF Arriving, AtSocket, Current, Elements
    <2>. QED  BY <1>8, <2>2
  <1>. QED  BY <1>9, <1>10

LEMMA ReadIsOld ==
    ASSUME SessionInv, Read, NEW k \in Conns
    PROVE  Arriving(k)' \subseteq Arriving(k)
  <1>1. UpOK /\ LoopOK
    BY Groups
  <1>2. AtSocket /\ Current \in Conns
    BY <1>1, ElementOfSeq DEF Read, LoopOK, AtSocket, Current
  <1>3. PICK n \in 1 .. Len(up[Current]) :
            /\ inbox' = SubSeq(up[Current], 1, n)
            /\ up' = [up EXCEPT ![Current] = SubSeq(@, n + 1, Len(@))]
    BY DEF Read
  <1>4. up[Current] \in Seq(Frames) /\ Len(up[Current]) \in Nat /\ n \in Nat
    BY <1>1, <1>2, LenProperties DEF UpOK
  <1>5. /\ Elements(SubSeq(up[Current], 1, n)) \subseteq Elements(up[Current])
        /\ Elements(SubSeq(up[Current], n + 1, Len(up[Current]))) \subseteq Elements(up[Current])
    BY <1>3, <1>4, ElementsOfPart
  <1>6. UNCHANGED <<turn, receiveSockets>>
    BY DEF Read
  <1>7. CASE k = Current
    <2>1. up'[k] = SubSeq(up[Current], n + 1, Len(up[Current]))
      BY <1>1, <1>2, <1>3, <1>7 DEF UpOK
    <2>3. Arriving(k)' \subseteq Elements(up'[k]) \cup Elements(inbox')
      BY DEF Arriving, Elements
    <2>4. Elements(up[Current]) \subseteq Arriving(k)
      BY <1>7 DEF Arriving
    <2>. QED  BY <1>3, <1>5, <2>1, <2>3, <2>4
  <1>8. CASE k # Current
    <2>1. up'[k] = up[k]
      BY <1>1, <1>2, <1>3, <1>8 DEF UpOK
    <2>2. ~(AtSocket' /\ Current' = k)
      BY <1>6, <1>8 DEF Current
    <2>3. Arriving(k)' = Elements(up[k])
      BY <2>1, <2>2 DEF Arriving, Elements
    <2>. QED  BY <2>3 DEF Arriving
  <1>. QED  BY <1>7, <1>8

\* A frame that is handled arrives no more.
LEMMA HandledIsOld ==
    ASSUME SessionInv, NextFrame, UNCHANGED <<up, receiveSockets, turn>>, NEW k \in Conns
    PROVE  Arriving(k)' \subseteq Arriving(k)
  <1>1. LoopOK
    BY Groups
  <1>2. inbox' = Tail(inbox) /\ Elements(Tail(inbox)) \subseteq Elements(inbox)
    BY <1>1, ElementsOfTail DEF LoopOK, NextFrame
  <1>3. Elements(inbox') \subseteq Elements(inbox)
    BY <1>2
  <1>4. (AtSocket' <=> AtSocket) /\ Current' = Current /\ up' = up
    BY DEF AtSocket, Current
  <1>5. Arriving(k)' = Elements(up[k]) \cup IF AtSocket /\ Current = k THEN Elements(inbox') ELSE {}
    BY <1>4 DEF Arriving, Elements
  <1>. QED  BY <1>3, <1>5 DEF Arriving

\* Nor does the server come back to frames when it goes on.
LEMMA TurnIsOld ==
    ASSUME SessionInv, Poll \/ ServerSend \/ Finish, NEW k \in Conns
    PROVE  Arriving(k)' \subseteq Arriving(k)
  <1>1. LoopOK
    BY Groups
  <1>2. Len(receiveSockets) \in Nat
    BY <1>1, LenProperties DEF LoopOK
  <1>3. inbox = <<>>
    <2>1. CASE ServerSend
      BY <2>1 DEF ServerSend
    <2>2. CASE Poll \/ Finish
      <3>1. ~AtSocket
        BY <1>2, <2>2 DEF AtSocket, Poll, AtResponses, Finish, AtFinish
      <3>. QED  BY <1>1, <3>1 DEF LoopOK, FramesAreTheCurrents
    <2>. QED  BY <2>1, <2>2
  <1>4. inbox' = <<>> /\ up' = up
    BY <1>3 DEF Poll, ServerSend, Finish, network
  <1>5. Elements(inbox') = {}
    BY <1>4, ElementsOfNothing
  <1>6. Arriving(k)' = Elements(up[k])
    BY <1>4, <1>5 DEF Arriving, Elements
  <1>. QED  BY <1>6 DEF Arriving

LEMMA NothingComesAgain ==
    ASSUME SessionInv, [Next]_vars, NEW k \in Conns
    PROVE  /\ out'[k] >= out[k]
           /\ \A f \in Arriving(k)' : f \in Arriving(k) \/ f.n >= out[k]
  <1>1. GatewaysOK
    BY Groups
  <1>2. CASE UNCHANGED <<out, up, receiveSockets, turn, inbox>>
    <2>1. Arriving(k)' = Arriving(k)
      BY <1>2 DEF Arriving, AtSocket, Current, Elements
    <2>. QED  BY <1>1, <1>2, <2>1 DEF GatewaysOK
  <1>3. ASSUME NEW j \in Conns, NEW m \in 1 .. 2, NEW ids \in [1 .. m -> ClientIds \cup {Beyond}],
               GatewaySend(j, ids)
        PROVE  /\ out'[k] >= out[k]
               /\ \A f \in Arriving(k)' : f \in Arriving(k) \/ f.n >= out[k]
    BY <1>3, SendIsNew
  <1>4. CASE Read \/ CannotHandle \/ Refuse \/ Admit \/ Poll \/ ServerSend \/ Finish
    <2>1. UNCHANGED out
      BY <1>4 DEF Read, CannotHandle, Refuse, Admit, Poll, ServerSend, Finish, gateways
    <2>2. CASE CannotHandle \/ Refuse \/ Admit
      <3>1. NextFrame /\ UNCHANGED <<up, receiveSockets, turn>>
        BY <2>2 DEF CannotHandle, Refuse, Admit, network
      <3>. QED  BY <1>1, <2>1, <3>1, HandledIsOld DEF GatewaysOK
    <2>3. CASE Read
      BY <1>1, <2>1, <2>3, ReadIsOld DEF GatewaysOK
    <2>4. CASE Poll \/ ServerSend \/ Finish
      BY <1>1, <2>1, <2>4, TurnIsOld DEF GatewaysOK
    <2>. QED  BY <1>4, <2>2, <2>3, <2>4
  <1>5. CASE \/ \E j \in Conns : Connect(j) \/ GatewayReceive(j) \/ Leave(j)
             \/ Respond \/ Ignore \/ EngineStops
    <2>1. UNCHANGED <<out, up, receiveSockets, turn, inbox>>
      BY <1>5 DEF Connect, GatewayReceive, Leave, Respond, Ignore, EngineStops, gateways, loop, network
    <2>. QED  BY <1>2, <2>1
  <1>6. CASE UNCHANGED vars
    BY <1>2, <1>6 DEF vars, gateways, network, loop
  <1>. QED  BY <1>3, <1>4, <1>5, <1>6 DEF Next

Arrives ==
    \A id \in ClientIds, k \in Conns : socketOf[id] = k =>
        (OnItsWay(id) <=> \E f \in Arriving(k) : f.id = id /\ f.n = expectedReq[id])

LEMMA OnItsWayArrives == SessionInv => Arrives
  <1>. SUFFICES ASSUME SessionInv, NEW id \in ClientIds, NEW k \in Conns, socketOf[id] = k
                PROVE  OnItsWay(id) <=> \E f \in Arriving(k) : f.id = id /\ f.n = expectedReq[id]
    BY DEF Arrives
  <1>. DEFINE taken == IF AtSocket /\ Current = k THEN inbox ELSE <<>>
              frames == up[k] \o taken
  <1>1. up[k] \in Seq(Frames) /\ taken \in Seq(Frames)
    BY Groups, EmptySeq DEF UpOK, LoopOK
  <1>2. Elements(frames) = Arriving(k)
    <2>1. Arriving(k) = Elements(up[k]) \cup Elements(taken)
      BY ElementsOfNothing DEF Arriving
    <2>. HIDE DEF taken
    <2>2. Elements(frames) = Elements(up[k]) \cup Elements(taken)
      BY <1>1, ElementsOfConcat
    <2>. QED  BY <2>1, <2>2
  <1>3. OnItsWay(id) <=> \E i \in 1 .. Len(frames) : frames[i].id = id /\ frames[i].n = expectedReq[id]
    BY DEF OnItsWay
  <1>. HIDE DEF frames
  <1>. QED  BY <1>2, <1>3 DEF Elements

LEMMA OnItsWayArrivesNext == SessionInv' => Arrives'
  BY OnItsWayArrives, PTL

\* The frame a number is expected for is on its way, if it is what the server handles.
LEMMA ExpectedIsOnItsWay ==
    ASSUME SessionInv, Admit, IsLost(Frame.id)
    PROVE  FALSE
  <1>. DEFINE id == Frame.id
  <1>1. AtSocket /\ inbox # <<>> /\ inbox \in Seq(Frames) /\ Current \in Conns /\ id \in ClientIds
    <2>1. LoopOK
      BY Groups
    <2>2. AtSocket /\ Current \in Conns
      BY FrameIsTaken DEF Admit
    <2>. QED  BY <2>1, <2>2 DEF Admit, NextFrame, LoopOK
  <1>2. socketOf[id] = Current /\ Frame.n = expectedReq[id]
    BY DEF Admit, IsNext, IsLost
  <1>3. Frame \in Arriving(Current)
    <2>1. 1 \in 1 .. Len(inbox) /\ Frame = inbox[1]
      BY <1>1, TailKeeps DEF Frame
    <2>. QED  BY <1>1, <2>1 DEF Arriving, Elements
  <1>. HIDE DEF id
  <1>4. OnItsWay(id)
    BY <1>1, <1>2, <1>3, OnItsWayArrives DEF Arrives, id
  <1>. QED  BY <1>4 DEF IsLost, id

LEMMA StepsLeaveTheGap == SessionInv /\ [Next]_vars => Gap
  <1>. SUFFICES ASSUME SessionInv, [Next]_vars, NEW id \in ClientIds, IsLost(id)
                PROVE  IsLost(id)' /\ expectedReq'[id] = expectedReq[id]
    BY DEF Gap
  <1>1. TablesOK /\ GatewaysOK
    BY Groups
  <1>2. PICK k \in Conns : k = socketOf[id]
    BY <1>1 DEF TablesOK, IsLost
  <1>3. k # None
    BY NamesAssumption
  <1>4. expectedReq'[id] = expectedReq[id]
    <2>1. CASE Admit
      <3>1. Frame.id # id
        BY <2>1, ExpectedIsOnItsWay
      <3>. QED  BY <1>1, <2>1, <3>1 DEF Admit, TablesOK
    <2>2. CASE ~Admit
      <3>1. UNCHANGED expectedReq
        BY <2>2 DEF Next, Connect, GatewaySend, GatewayReceive, Leave, Poll, Read, CannotHandle,
                    Refuse, ServerSend, Finish, Respond, Ignore, EngineStops, vars, tables
      <3>. QED  BY <3>1
    <2>. QED  BY <2>1, <2>2
  <1>5. socketOf'[id] = k
    <2>1. CASE Refuse \/ Admit
      <3>1. Bind
        BY <2>1 DEF Refuse, Admit
      <3>. QED  BY <1>1, <1>2, <1>3, <3>1 DEF Bind, TablesOK
    <2>2. CASE ~(Refuse \/ Admit)
      <3>1. UNCHANGED socketOf
        BY <2>2 DEF Next, Connect, GatewaySend, GatewayReceive, Leave, Poll, Read, CannotHandle,
                    ServerSend, Finish, Respond, Ignore, EngineStops, vars, tables
      <3>. QED  BY <1>2, <3>1
    <2>. QED  BY <2>1, <2>2
  <1>6. /\ out'[k] >= out[k]
        /\ \A f \in Arriving(k)' : f \in Arriving(k) \/ f.n >= out[k]
    BY NothingComesAgain
  <1>7. /\ out[k] > expectedReq[id] /\ ~OnItsWay(id)
        /\ out[k] \in Nat /\ expectedReq[id] \in Nat
    BY <1>1, <1>2 DEF IsLost, GatewaysOK, TablesOK
  <1>8. ~OnItsWay(id)'
    <2>1. SessionInv'
      BY NextKeepsSession
    <2>2. OnItsWay(id)' <=> \E f \in Arriving(k)' : f.id = id /\ f.n = expectedReq'[id]
      BY <1>5, <2>1, OnItsWayArrivesNext DEF Arrives
    <2>3. ~ \E f \in Arriving(k) : f.id = id /\ f.n = expectedReq[id]
      BY <1>2, <1>7, OnItsWayArrives DEF Arrives
    <2>4. ASSUME NEW f \in Arriving(k)', f.id = id, f.n = expectedReq[id] PROVE FALSE
      <3>1. f \in Arriving(k) \/ f.n >= out[k]
        BY <1>6
      <3>2. f \notin Arriving(k)
        BY <2>3, <2>4
      <3>. QED  BY <1>7, <2>4, <3>1, <3>2
    <2>. QED  BY <1>4, <2>2, <2>4
  <1>9. out'[k] > expectedReq'[id]
    <2>1. out'[k] \in Nat
      <3>1. SessionInv'
        BY NextKeepsSession
      <3>. QED  BY <3>1 DEF SessionInv, TypeOK
    <2>. QED  BY <1>4, <1>6, <1>7, <2>1
  <1>. QED  BY <1>3, <1>4, <1>5, <1>8, <1>9 DEF IsLost

\* Once a request of a client has been lost on the way, OrderServer::RecvCallback refuses
\* every later one of that client: the number it waits for never comes.
THEOREM LostRequestIsFinal == Spec => GapIsForever
  <1>1. SessionInv /\ [Next]_vars => Gap
    BY StepsLeaveTheGap
  <1>2. Spec => [][Gap]_vars
    BY <1>1, SessionInvariant, PTL DEF Spec
  <1>. QED  BY <1>2 DEF GapIsForever, Gap
-----------------------------------------------------------------------------
(* The order of the requests                                               *)

\* No connection is accepted twice.
OnceEach ==
    /\ \A i, j \in 1 .. Len(receiveSockets) : receiveSockets[i] = receiveSockets[j] => i = j
    /\ \A i, j \in 1 .. Len(backlog) : backlog[i] = backlog[j] => i = j
    /\ \A i \in 1 .. Len(receiveSockets), j \in 1 .. Len(backlog) : receiveSockets[i] # backlog[j]

\* What is read in a round has a time, and is published at the end of it.
ReadsAreTimed == inbox # <<>> => rxTime > 0 /\ recv

\* The requests of a client that wait to be sorted.
Waiting(id) == {i \in 1 .. Len(pending) : pending[i].of.id = id /\ pending[i].of.conn # None}

\* They were read in this round, at one time, from a socket whose turn it was or is.
ReadAt(i) == \E s \in 1 .. Len(receiveSockets) :
                /\ s <= turn /\ receiveSockets[s] = pending[i].of.conn
                /\ s = turn => pending[i].time = rxTime /\ rxTime > 0
WaitingIsOfThisRound ==
    \A id \in ClientIds : \A i \in Waiting(id) :
        /\ recv /\ turn <= Len(receiveSockets) + 1 /\ ReadAt(i)
        /\ \A j \in Waiting(id) : pending[i].time = pending[j].time

\* The requests of a client come from its socket, with numbers below the next one that
\* the server expects, ...
NumbersAreExpected ==
    \A id \in ClientIds :
        /\ expectedReq[id] >= 1
        /\ \A i \in Taken(id) : /\ published[i].n \in 1 .. expectedReq[id] - 1
                                /\ published[i].conn = socketOf[id]
        /\ \A i \in Waiting(id) : /\ pending[i].of.n \in 1 .. expectedReq[id] - 1
                                  /\ pending[i].of.conn = socketOf[id]

\* ... none of these is missing, ...
HasTaken(id, n) == \E i \in Taken(id) : published[i].n = n
HasWaiting(id, n) == \E i \in Waiting(id) : pending[i].of.n = n
NoneIsMissing ==
    \A id \in ClientIds :
        /\ \A i \in Taken(id) : \A n \in 1 .. published[i].n : HasTaken(id, n)
        /\ Running => \A n \in 1 .. expectedReq[id] - 1 : HasTaken(id, n) \/ HasWaiting(id, n)

\* ... and they wait in their order, after those that were published.
InTheirOrder ==
    \A id \in ClientIds :
        /\ \A i \in Waiting(id) :
              /\ \A j \in Taken(id) : published[j].n < pending[i].of.n
              /\ \A j \in Waiting(id) : i < j => pending[i].of.n < pending[j].of.n
        /\ ~shuffled => \A i, j \in Taken(id) : i < j => published[i].n < published[j].n

OrderInv == /\ OnceEach /\ ReadsAreTimed /\ WaitingIsOfThisRound
            /\ NumbersAreExpected /\ NoneIsMissing /\ InTheirOrder

LEMMA OrderUntouched ==
    ASSUME OrderInv
    PROVE  /\ UNCHANGED <<receiveSockets, backlog>> => OnceEach'
           /\ UNCHANGED <<inbox, rxTime, recv>> => ReadsAreTimed'
           /\ UNCHANGED <<receiveSockets, turn, rxTime, recv, pending>> => WaitingIsOfThisRound'
           /\ UNCHANGED <<published, pending, socketOf, expectedReq>> => NumbersAreExpected'
           /\ UNCHANGED <<published, pending, expectedReq>> /\ (Running' => Running) => NoneIsMissing'
           /\ UNCHANGED <<published, pending, shuffled>> => InTheirOrder'
  <1>1. UNCHANGED <<receiveSockets, backlog>> => OnceEach'
    BY DEF OrderInv, OnceEach
  <1>2. UNCHANGED <<inbox, rxTime, recv>> => ReadsAreTimed'
    BY DEF OrderInv, ReadsAreTimed
  <1>3. UNCHANGED <<receiveSockets, turn, rxTime, recv, pending>> => WaitingIsOfThisRound'
    BY DEF OrderInv, WaitingIsOfThisRound, Waiting, ReadAt
  <1>4. UNCHANGED <<published, pending, socketOf, expectedReq>> => NumbersAreExpected'
    BY DEF OrderInv, NumbersAreExpected, Waiting, Taken
  <1>5. UNCHANGED <<published, pending, expectedReq>> /\ (Running' => Running) => NoneIsMissing'
    BY DEF OrderInv, NoneIsMissing, Waiting, Taken, HasTaken, HasWaiting
  <1>6. UNCHANGED <<published, pending, shuffled>> => InTheirOrder'
    BY DEF OrderInv, InTheirOrder, Waiting, Taken
  <1>. QED  BY <1>1, <1>2, <1>3, <1>4, <1>5, <1>6

LEMMA InitIsOrder == Init => OrderInv
  <1>. SUFFICES ASSUME Init PROVE OrderInv
    OBVIOUS
  <1>1. /\ \A i \in 1 .. Len(<<>>) : FALSE
        /\ \A id : Taken(id) = {}
    BY EmptySeq DEF Init, Taken
  <1>2. \A id : Waiting(id) = {}
    <2>1. CASE pending = <<>>
      BY <2>1, EmptySeq DEF Waiting
    <2>2. CASE pending # <<>>
      <3>1. PICK id \in ClientIds : pending = <<[time |-> 0, of |-> Request([id |-> id, n |-> 0], None)]>>
        BY <2>2 DEF Init
      <3>2. Len(pending) = 1 /\ pending[1].of.conn = None
        BY <3>1 DEF Request
      <3>. QED  BY <3>2 DEF Waiting
    <2>. QED  BY <2>1, <2>2
  <1>3. OnceEach /\ ReadsAreTimed
    BY <1>1 DEF Init, OnceEach, ReadsAreTimed
  <1>4. WaitingIsOfThisRound /\ NumbersAreExpected /\ NoneIsMissing /\ InTheirOrder
    BY <1>1, <1>2 DEF Init, WaitingIsOfThisRound, NumbersAreExpected, NoneIsMissing, InTheirOrder
  <1>. QED  BY <1>3, <1>4 DEF OrderInv

\* A process connects once.
LEMMA ConnectKeepsOrder ==
    ASSUME SessionInv, OrderInv, NEW k \in Conns, Connect(k)
    PROVE  OrderInv'
  <1>1. OnceEach'
    <2>1. BacklogOK
      BY Groups
    <2>2. CASE backlog' = backlog
      BY <2>2, OrderUntouched DEF Connect, loop
    <2>3. CASE backlog' = Append(backlog, k)
      <3>1. /\ Len(backlog) \in Nat /\ Len(backlog') = Len(backlog) + 1
            /\ \A i \in 1 .. Len(backlog) : backlog'[i] = backlog[i]
            /\ backlog'[Len(backlog) + 1] = k
        BY <2>1, <2>3, AppendProperties, LenProperties DEF BacklogOK
      <3>2. \A j \in 1 .. Len(backlog') : j \in 1 .. Len(backlog) \/ j = Len(backlog) + 1
        BY <3>1
      <3>3. /\ \A i \in 1 .. Len(receiveSockets) : receiveSockets[i] # k
            /\ \A i \in 1 .. Len(backlog) : backlog[i] # k
        BY DEF Connect, Connected, Accepted
      <3>4. receiveSockets' = receiveSockets
        BY DEF Connect, loop
      <3>. QED  BY <3>1, <3>2, <3>3, <3>4 DEF OrderInv, OnceEach
    <2>. QED  BY <2>2, <2>3 DEF Connect
  <1>2. UNCHANGED <<inbox, rxTime, recv, receiveSockets, turn, pending, published, socketOf, expectedReq,
                    shuffled, halted>>
    BY DEF Connect, loop, tables, engine, faults
  <1>. QED  BY <1>1, <1>2, OrderUntouched DEF OrderInv, Running

LEMMA PollKeepsOrder ==
    ASSUME SessionInv, OrderInv, Poll
    PROVE  OrderInv'
  <1>1. BacklogOK /\ LoopOK
    BY Groups
  <1>2. Len(receiveSockets) \in Nat /\ turn = Len(receiveSockets) + 2
    BY <1>1, LenProperties DEF LoopOK, Poll, AtResponses
  <1>3. UNCHANGED <<pending, published, inbox, rxTime, socketOf, expectedReq, shuffled, halted>>
    BY DEF Poll, tables, engine, faults
  <1>4. OnceEach'
    <2>1. /\ Len(backlog) \in Nat /\ Len(receiveSockets') = Len(receiveSockets) + Len(backlog)
          /\ \A i \in 1 .. Len(receiveSockets) + Len(backlog) : receiveSockets'[i] =
                IF i <= Len(receiveSockets) THEN receiveSockets[i] ELSE backlog[i - Len(receiveSockets)]
      BY <1>1, ConcatProperties, LenProperties DEF LoopOK, BacklogOK, Poll
    <2>2. ASSUME NEW i \in 1 .. Len(receiveSockets'), NEW j \in 1 .. Len(receiveSockets'),
                 receiveSockets'[i] = receiveSockets'[j], i < j
          PROVE  FALSE
      <3>1. CASE j <= Len(receiveSockets)
        BY <1>2, <2>1, <2>2, <3>1 DEF OrderInv, OnceEach
      <3>2. CASE i > Len(receiveSockets)
        <4>1. /\ i - Len(receiveSockets) \in 1 .. Len(backlog) /\ j - Len(receiveSockets) \in 1 .. Len(backlog)
              /\ backlog[i - Len(receiveSockets)] = backlog[j - Len(receiveSockets)]
          BY <1>2, <2>1, <2>2, <3>2
        <4>2. i - Len(receiveSockets) = j - Len(receiveSockets)
          BY <4>1 DEF OrderInv, OnceEach
        <4>. QED  BY <1>2, <2>2, <4>2
      <3>3. CASE i <= Len(receiveSockets) /\ j > Len(receiveSockets)
        <4>1. /\ i \in 1 .. Len(receiveSockets) /\ j - Len(receiveSockets) \in 1 .. Len(backlog)
              /\ receiveSockets[i] = backlog[j - Len(receiveSockets)]
          BY <1>2, <2>1, <2>2, <3>3
        <4>. QED  BY <4>1 DEF OrderInv, OnceEach
      <3>. QED  BY <1>2, <2>1, <3>1, <3>2, <3>3
    <2>3. \A i, j \in 1 .. Len(receiveSockets') : receiveSockets'[i] = receiveSockets'[j] => i = j
      <3>1. \A i, j \in 1 .. Len(receiveSockets') : i < j \/ j < i \/ i = j
        OBVIOUS
      <3>. QED  BY <2>2, <3>1
    <2>4. Len(backlog') = 0
      BY EmptySeq DEF Poll
    <2>. QED  BY <2>3, <2>4 DEF OnceEach
  <1>5. ReadsAreTimed'
    BY <1>1, <1>2, <1>3 DEF LoopOK, FramesAreTheCurrents, AtSocket, ReadsAreTimed
  <1>6. WaitingIsOfThisRound'
    <2>1. \A id \in ClientIds : Waiting(id) = {}
      BY <1>2 DEF OrderInv, WaitingIsOfThisRound
    <2>. QED  BY <1>3, <2>1 DEF WaitingIsOfThisRound, Waiting
  <1>. QED  BY <1>3, <1>4, <1>5, <1>6, OrderUntouched DEF OrderInv, Running

LEMMA ReadKeepsOrder ==
    ASSUME SessionInv, OrderInv, Read
    PROVE  OrderInv'
  <1>1. PICK time \in Times : rxTime' = time + 1
    BY DEF Read
  <1>2. time \in Nat /\ rxTime = 0 /\ recv' = TRUE
    BY SizesAssumption DEF Read
  <1>3. UNCHANGED <<pending, published, socketOf, expectedReq, shuffled, halted, turn, receiveSockets, backlog>>
    BY DEF Read, tables, engine, faults
  <1>4. ReadsAreTimed'
    BY <1>1, <1>2 DEF ReadsAreTimed
  <1>5. WaitingIsOfThisRound'
    <2>. SUFFICES ASSUME NEW id \in ClientIds, NEW i \in Waiting(id)
                  PROVE  /\ turn <= Len(receiveSockets) + 1 /\ ReadAt(i)'
                         /\ \A j \in Waiting(id) : pending[i].time = pending[j].time
      BY <1>2, <1>3 DEF WaitingIsOfThisRound, Waiting
    <2>1. /\ turn <= Len(receiveSockets) + 1 /\ ReadAt(i)
          /\ \A j \in Waiting(id) : pending[i].time = pending[j].time
      BY DEF OrderInv, WaitingIsOfThisRound
    <2>. QED  BY <1>2, <1>3, <2>1 DEF ReadAt
  <1>. QED  BY <1>3, <1>4, <1>5, OrderUntouched DEF OrderInv, Running

LEMMA ServerSendKeepsOrder ==
    ASSUME SessionInv, OrderInv, Running, ServerSend
    PROVE  OrderInv'
  <1>1. LoopOK /\ AtSocket /\ inbox = <<>> /\ turn' = turn + 1 /\ rxTime' = 0
    BY Groups DEF ServerSend
  <1>2. Len(receiveSockets) \in Nat /\ turn \in 1 .. Len(receiveSockets)
    BY <1>1, LenProperties DEF LoopOK, AtSocket
  <1>3. UNCHANGED <<pending, published, socketOf, expectedReq, shuffled, receiveSockets, backlog, inbox, recv>>
    BY DEF ServerSend, tables, engine
  <1>4. ReadsAreTimed'
    BY <1>1, <1>3 DEF ReadsAreTimed
  <1>5. WaitingIsOfThisRound'
    <2>. SUFFICES ASSUME NEW id \in ClientIds, NEW i \in Waiting(id)
                  PROVE  /\ recv /\ turn + 1 <= Len(receiveSockets) + 1 /\ ReadAt(i)'
                         /\ \A j \in Waiting(id) : pending[i].time = pending[j].time
      BY <1>1, <1>3 DEF WaitingIsOfThisRound, Waiting
    <2>1. /\ recv /\ ReadAt(i)
          /\ \A j \in Waiting(id) : pending[i].time = pending[j].time
      BY DEF OrderInv, WaitingIsOfThisRound
    <2>2. ReadAt(i)'
      <3>1. PICK s \in 1 .. Len(receiveSockets) :
                s <= turn /\ receiveSockets[s] = pending[i].of.conn
        BY <2>1 DEF ReadAt
      <3>2. s <= turn + 1 /\ s # turn + 1
        BY <1>2, <3>1
      <3>. QED  BY <1>1, <1>3, <3>1, <3>2 DEF ReadAt
    <2>. QED  BY <1>2, <2>1, <2>2
  <1>. QED  BY <1>3, <1>4, <1>5, OrderUntouched DEF OrderInv

\* A frame is taken from the inbox.
LEMMA FrameIsTimed ==
    ASSUME OrderInv, NextFrame, UNCHANGED <<rxTime, recv>>
    PROVE  rxTime > 0 /\ recv /\ ReadsAreTimed'
  BY DEF OrderInv, ReadsAreTimed, NextFrame

\* The socket of a client stays.
LEMMA BoundStays ==
    ASSUME SessionInv, Bind, Frame.id \in ClientIds
    PROVE  \A id \in ClientIds : socketOf[id] # None => socketOf'[id] = socketOf[id]
  BY Groups DEF TablesOK, Bind

\* So its requests are still of its socket.
LEMMA BoundRequests ==
    ASSUME SessionInv, OrderInv,
           \A id \in ClientIds : socketOf[id] # None => socketOf'[id] = socketOf[id], NEW id \in ClientIds
    PROVE  /\ \A i \in Taken(id) : published[i].conn = socketOf'[id]
           /\ \A i \in Waiting(id) : pending[i].of.conn = socketOf'[id]
  BY DEF OrderInv, NumbersAreExpected, Taken, Waiting

LEMMA RefuseKeepsOrder ==
    ASSUME SessionInv, OrderInv, Refuse
    PROVE  OrderInv'
  <1>1. UNCHANGED <<pending, published, expectedReq, shuffled, halted, receiveSockets, backlog, turn, rxTime, recv>>
    BY DEF Refuse, network, engine, faults
  <1>2. ReadsAreTimed'
    BY <1>1, FrameIsTimed DEF Refuse
  <1>3. NumbersAreExpected'
    <2>1. \A id \in ClientIds : socketOf[id] # None => socketOf'[id] = socketOf[id]
      BY BoundStays DEF Refuse
    <2>2. \A id \in ClientIds : Taken(id)' = Taken(id) /\ Waiting(id)' = Waiting(id)
      BY <1>1 DEF Taken, Waiting
    <2>. QED  BY <1>1, <2>1, <2>2, BoundRequests DEF OrderInv, NumbersAreExpected
  <1>. QED  BY <1>1, <1>2, <1>3, OrderUntouched DEF OrderInv, Running

\* What a request that is not admitted leaves, and one that is, which joins those that
\* wait at the end.
LEMMA AdmitKeepsOrder ==
    ASSUME SessionInv, OrderInv, Running, Admit
    PROVE  OrderInv'
  <1>. PICK id \in ClientIds : id = Frame.id
    BY DEF Admit
  <1>. PICK num : num = Frame.n
    OBVIOUS
  <1>. DEFINE m == Len(pending) + 1
  <1>1. /\ LoopOK /\ TablesOK /\ PendingOK /\ AtSocket /\ Current \in Conns /\ Current # None
        /\ num = expectedReq[id] /\ socketOf[id] \in {None, Current}
    <2>1. AtSocket /\ Current \in Conns
      BY FrameIsTaken DEF Admit
    <2>. QED  BY <2>1, Groups, NamesAssumption DEF Admit, IsNext
  <1>2. /\ rxTime > 0 /\ recv /\ ReadsAreTimed'
        /\ turn \in 1 .. Len(receiveSockets) /\ Len(receiveSockets) \in Nat
    BY <1>1, FrameIsTimed, LenProperties DEF Admit, AtSocket, LoopOK
  <1>3. /\ \A c \in ClientIds : socketOf[c] # None => socketOf'[c] = socketOf[c]
        /\ socketOf'[id] = Current
    <2>1. Bind
      BY DEF Admit
    <2>. QED  BY <1>1, <2>1, BoundStays DEF Bind, TablesOK
  <1>4. /\ expectedReq'[id] = expectedReq[id] + 1 /\ expectedReq[id] \in Nat
        /\ \A c \in ClientIds : c # id => expectedReq'[c] = expectedReq[c]
        /\ \A c \in ClientIds : expectedReq[c] >= 1 /\ expectedReq[c] \in Nat
    <2>1. expectedReq \in [ClientIds -> Nat] /\ \A c \in ClientIds : expectedReq[c] >= 1
      BY <1>1 DEF TablesOK, OrderInv, NumbersAreExpected
    <2>2. expectedReq' = [expectedReq EXCEPT ![id] = expectedReq[id] + 1]
      BY <1>1, Zenon DEF Admit
    <2>. QED  BY <1>1, <2>1, <2>2
  <1>5. UNCHANGED <<published, shuffled, receiveSockets, backlog, turn, rxTime, recv>>
    BY DEF Admit, network, engine
  <1>6. \A c \in ClientIds : Taken(c)' = Taken(c)
    BY <1>5 DEF Taken
  <1>. DEFINE entry == [time |-> rxTime, of |-> Request(Frame, Current)]
  <1>7. CASE pending' = pending /\ halted' = "too many pending"
    <2>1. \A c \in ClientIds : Waiting(c)' = Waiting(c)
      BY <1>7 DEF Waiting
    <2>2. WaitingIsOfThisRound'
      BY <1>5, <1>7, OrderUntouched
    <2>3. InTheirOrder'
      BY <1>5, <1>7, OrderUntouched
    <2>4. NumbersAreExpected'
      <3>. SUFFICES ASSUME NEW c \in ClientIds
                    PROVE  /\ expectedReq'[c] >= 1
                           /\ \A i \in Taken(c) : /\ published[i].n \in 1 .. expectedReq'[c] - 1
                                                  /\ published[i].conn = socketOf'[c]
                           /\ \A i \in Waiting(c) : /\ pending[i].of.n \in 1 .. expectedReq'[c] - 1
                                                    /\ pending[i].of.conn = socketOf'[c]
        BY <1>5, <1>6, <1>7, <2>1 DEF NumbersAreExpected
      <3>1. expectedReq'[c] >= expectedReq[c] /\ expectedReq'[c] \in Nat
        BY <1>4
      <3>2. /\ \A i \in Taken(c) : published[i].conn = socketOf'[c]
            /\ \A i \in Waiting(c) : pending[i].of.conn = socketOf'[c]
        BY <1>3, BoundRequests
      <3>3. /\ expectedReq[c] >= 1 /\ expectedReq[c] \in Nat
            /\ \A i \in Taken(c) : published[i].n \in 1 .. expectedReq[c] - 1
            /\ \A i \in Waiting(c) : pending[i].of.n \in 1 .. expectedReq[c] - 1
        BY <1>4 DEF OrderInv, NumbersAreExpected
      <3>. QED  BY <3>1, <3>2, <3>3
    <2>5. NoneIsMissing'
      <3>1. ~Running'
        BY <1>7 DEF Running
      <3>. QED  BY <1>5, <1>6, <3>1 DEF OrderInv, NoneIsMissing, HasTaken
    <2>. QED  BY <1>2, <1>5, <2>2, <2>3, <2>4, <2>5, OrderUntouched DEF OrderInv
  <1>8. CASE pending' = Append(pending, entry) /\ halted' = halted
    <2>1. /\ Len(pending) \in Nat /\ Len(pending') = m /\ pending'[m] = entry
          /\ \A i \in 1 .. Len(pending) : pending'[i] = pending[i]
      <3>1. entry \in [time : Nat, of : MERequests]
        BY <1>1, <1>4 DEF LoopOK, Request, MERequests
      <3>. HIDE DEF entry
      <3>. QED  BY <1>1, <1>8, <3>1, AppendProperties, LenProperties DEF PendingOK
    <2>2. /\ entry.time = rxTime /\ entry.of.id = id /\ entry.of.n = num
          /\ entry.of.conn = Current
      BY <1>1 DEF Request
    <2>. HIDE DEF entry
    <2>3. /\ \A c \in ClientIds : c # id => Waiting(c)' = Waiting(c)
          /\ Waiting(id)' = Waiting(id) \cup {m} /\ \A i \in Waiting(id) : i < m
          /\ \A c \in ClientIds : \A i \in Waiting(c) : pending'[i] = pending[i]
      <3>1. \A i \in 1 .. Len(pending') : i \in 1 .. Len(pending) \/ i = m
        BY <2>1
      <3>2. 1 .. Len(pending) \subseteq 1 .. Len(pending') /\ m \in 1 .. Len(pending')
        BY <2>1
      <3>3. \A c \in ClientIds : \A i \in Waiting(c) : pending'[i] = pending[i] /\ i < m
        BY <2>1 DEF Waiting
      <3>4. ASSUME NEW c \in ClientIds, c # id PROVE Waiting(c)' = Waiting(c)
        BY <2>1, <2>2, <3>1, <3>2, <3>4 DEF Waiting
      <3>5. Waiting(id)' = Waiting(id) \cup {m}
        BY <1>1, <2>1, <2>2, <3>1, <3>2 DEF Waiting
      <3>. QED  BY <1>1, <3>3, <3>4, <3>5
    <2>. HIDE DEF m
    <2>4. \A i \in Waiting(id) : pending[i].time = rxTime
      <3>. SUFFICES ASSUME NEW i \in Waiting(id) PROVE pending[i].time = rxTime
        OBVIOUS
      <3>1. pending[i].of.conn = Current
        BY <1>1 DEF OrderInv, NumbersAreExpected, Waiting
      <3>2. PICK s \in 1 .. Len(receiveSockets) :
                /\ receiveSockets[s] = pending[i].of.conn
                /\ s = turn => pending[i].time = rxTime
        BY <1>1 DEF OrderInv, WaitingIsOfThisRound, ReadAt
      <3>3. s = turn
        BY <1>2, <3>1, <3>2 DEF Current, OrderInv, OnceEach
      <3>. QED  BY <3>2, <3>3
    <2>5. WaitingIsOfThisRound'
      <3>. SUFFICES ASSUME NEW c \in ClientIds, NEW i \in Waiting(c)'
                    PROVE  /\ turn <= Len(receiveSockets) + 1 /\ ReadAt(i)'
                           /\ \A j \in Waiting(c)' : pending'[i].time = pending'[j].time
        BY <1>2, <1>5 DEF WaitingIsOfThisRound
      <3>1. turn <= Len(receiveSockets) + 1
        BY <1>2
      <3>2. CASE c # id
        <4>1. i \in Waiting(c) /\ pending'[i] = pending[i]
          BY <2>3, <3>2
        <4>2. /\ ReadAt(i) /\ \A j \in Waiting(c) : pending[i].time = pending[j].time
          BY <4>1 DEF OrderInv, WaitingIsOfThisRound
        <4>. QED  BY <1>5, <2>3, <3>1, <3>2, <4>1, <4>2 DEF ReadAt
      <3>3. CASE c = id
        <4>1. \A j \in Waiting(id)' : pending'[j].time = rxTime
          BY <1>1, <2>1, <2>2, <2>3, <2>4
        <4>2. ReadAt(i)'
          <5>1. CASE i = m
            BY <1>2, <1>5, <2>1, <2>2, <5>1 DEF ReadAt, Current
          <5>2. CASE i \in Waiting(id)
            BY <1>1, <1>5, <2>3, <5>2 DEF OrderInv, WaitingIsOfThisRound, ReadAt
          <5>. QED  BY <2>3, <3>3, <5>1, <5>2
        <4>. QED  BY <3>1, <3>3, <4>1, <4>2
      <3>. QED  BY <3>2, <3>3
    <2>6. \A c \in ClientIds :
             /\ \A i \in Taken(c) : published[i].n \in 1 .. expectedReq[c] - 1
             /\ \A i \in Waiting(c) : pending[i].of.n \in 1 .. expectedReq[c] - 1
      BY DEF OrderInv, NumbersAreExpected
    <2>7. NumbersAreExpected'
      <3>. SUFFICES ASSUME NEW c \in ClientIds
                    PROVE  /\ expectedReq'[c] >= 1
                           /\ \A i \in Taken(c) : /\ published[i].n \in 1 .. expectedReq'[c] - 1
                                                  /\ published[i].conn = socketOf'[c]
                           /\ \A i \in Waiting(c)' : /\ pending'[i].of.n \in 1 .. expectedReq'[c] - 1
                                                     /\ pending'[i].of.conn = socketOf'[c]
        BY <1>5, <1>6 DEF NumbersAreExpected
      <3>1. expectedReq'[c] >= expectedReq[c] /\ expectedReq'[c] \in Nat /\ expectedReq[c] \in Nat
            /\ expectedReq[c] >= 1
        BY <1>4
      <3>2. /\ \A i \in Taken(c) : published[i].conn = socketOf'[c]
            /\ \A i \in Waiting(c) : pending[i].of.conn = socketOf'[c]
        BY <1>3, BoundRequests
      <3>3. ASSUME NEW i \in Waiting(c)'
            PROVE  pending'[i].of.n \in 1 .. expectedReq'[c] - 1 /\ pending'[i].of.conn = socketOf'[c]
        <4>1. CASE i \in Waiting(c)
          BY <2>3, <2>6, <3>1, <3>2, <4>1
        <4>2. CASE i = m /\ c = id
          BY <1>1, <1>3, <1>4, <2>1, <2>2, <3>1, <4>2
        <4>. QED  BY <2>3, <4>1, <4>2
      <3>. QED  BY <2>6, <3>1, <3>2, <3>3
    <2>8. NoneIsMissing'
      <3>. SUFFICES ASSUME NEW c \in ClientIds
                    PROVE  /\ \A i \in Taken(c) : \A n \in 1 .. published[i].n : HasTaken(c, n)
                           /\ \A n \in 1 .. expectedReq'[c] - 1 : HasTaken(c, n) \/ HasWaiting(c, n)'
        BY <1>5, <1>6 DEF NoneIsMissing, HasTaken
      <3>1. /\ \A i \in Taken(c) : \A n \in 1 .. published[i].n : HasTaken(c, n)
            /\ \A n \in 1 .. expectedReq[c] - 1 : HasTaken(c, n) \/ HasWaiting(c, n)
        BY DEF OrderInv, NoneIsMissing
      <3>2. \A n : HasWaiting(c, n) => HasWaiting(c, n)'
        BY <2>3 DEF HasWaiting
      <3>3. CASE c = id
        <4>1. HasWaiting(id, num)'
          BY <2>1, <2>2, <2>3 DEF HasWaiting
        <4>2. \A n \in 1 .. expectedReq'[id] - 1 : n \in 1 .. expectedReq[id] - 1 \/ n = num
          BY <1>1, <1>4
        <4>. QED  BY <3>1, <3>2, <3>3, <4>1, <4>2
      <3>4. CASE c # id
        BY <1>4, <3>1, <3>2, <3>4
      <3>. QED  BY <3>3, <3>4
    <2>9. InTheirOrder'
      <3>. SUFFICES ASSUME NEW c \in ClientIds, NEW i \in Waiting(c)'
                    PROVE  /\ \A j \in Taken(c) : published[j].n < pending'[i].of.n
                           /\ \A j \in Waiting(c)' : i < j => pending'[i].of.n < pending'[j].of.n
        BY <1>5, <1>6 DEF OrderInv, InTheirOrder
      <3>1. \A k \in Waiting(c) :
               /\ \A j \in Taken(c) : published[j].n < pending[k].of.n
               /\ \A j \in Waiting(c) : k < j => pending[k].of.n < pending[j].of.n
        BY DEF OrderInv, InTheirOrder
      <3>2. CASE c # id
        BY <2>3, <3>1, <3>2
      <3>3. CASE c = id
        <4>1. /\ \A j \in Taken(id) : published[j].n < num
              /\ \A j \in Waiting(id) : pending[j].of.n < num
          BY <1>1, <1>4, <2>6
        <4>2. pending'[m].of.n = num
          BY <2>1, <2>2
        <4>3. \A j \in Waiting(id) : ~(m < j) /\ j # m
          BY <2>1, <2>3 DEF m, Waiting
        <4>4. CASE i = m
          BY <2>1, <2>3, <3>3, <4>1, <4>2, <4>3, <4>4 DEF m
        <4>5. CASE i # m
          BY <2>3, <3>1, <3>3, <4>1, <4>2, <4>5
        <4>. QED  BY <4>4, <4>5
      <3>. QED  BY <3>2, <3>3
    <2>. QED  BY <1>2, <1>5, <2>5, <2>7, <2>8, <2>9, OrderUntouched DEF OrderInv
  <1>9. \/ pending' = pending /\ halted' = "too many pending"
        \/ pending' = Append(pending, entry) /\ halted' = halted
    BY DEF Admit
  <1>. QED  BY <1>7, <1>8, <1>9

\* A batch moves what waits to the end of what was published; one that is short enough
\* keeps the order of entries of the same time.
BatchOf(p) == [i \in 1 .. Len(pending) |-> pending[p[i]].of]
Moves(p) ==
    /\ Len(published) \in Nat /\ Len(pending) \in Nat
    /\ \A id \in ClientIds :
          /\ \A i \in Taken(id) : i \in Taken(id)' /\ published'[i] = published[i] /\ i <= Len(published)
          /\ \A w \in Waiting(id) : \E i \in Taken(id)' : published'[i] = pending[w].of
          /\ \A i \in Taken(id)' :
                \/ i \in Taken(id) /\ published'[i] = published[i]
                \/ /\ i - Len(published) \in 1 .. Len(pending) /\ p[i - Len(published)] \in Waiting(id)
                   /\ published'[i] = pending[p[i - Len(published)]].of

LEMMA BatchMoves ==
    ASSUME SessionInv, NEW p \in Bijection(1 .. Len(pending), 1 .. Len(pending)),
           published' = published \o BatchOf(p)
    PROVE  Moves(p)
  <1>. DEFINE L == Len(published)
              n == Len(pending)
              batch == BatchOf(p)
  <1>1. published \in Seq(MERequests) /\ pending \in Seq([time : Nat, of : MERequests])
    BY Groups DEF PendingOK, EngineOK
  <1>2. L \in Nat /\ n \in Nat
    BY <1>1, LenProperties
  <1>3. batch \in Seq(MERequests) /\ Len(batch) = n
    BY <1>1, Batch DEF BatchOf
  <1>4. /\ p \in [1 .. n -> 1 .. n] /\ \A w \in 1 .. n : \E j \in 1 .. n : p[j] = w
        /\ \A j \in 1 .. n : batch[j] = pending[p[j]].of
    BY DEF Bijection, Injection, Surjection, IsInjective, BatchOf
  <1>5. /\ Len(published') = L + n
        /\ \A i \in 1 .. L + n : published'[i] = IF i <= L THEN published[i] ELSE batch[i - L]
    <2>1. published' = published \o batch
      OBVIOUS
    <2>. HIDE DEF batch, n
    <2>2. /\ Len(published \o batch) = Len(published) + Len(batch)
          /\ \A i \in 1 .. Len(published) + Len(batch) : (published \o batch)[i] =
                IF i <= Len(published) THEN published[i] ELSE batch[i - Len(published)]
      BY <1>1, <1>3, ConcatProperties, Zenon
    <2>. QED  BY <1>3, <2>1, <2>2, Zenon
  <1>. HIDE DEF batch, L, n
  <1>6. /\ \A i \in 1 .. L : i \in 1 .. L + n /\ published'[i] = published[i]
        /\ \A j \in 1 .. n : L + j \in 1 .. L + n /\ published'[L + j] = batch[j]
        /\ \A i \in 1 .. L + n : i \in 1 .. L \/ (i - L \in 1 .. n /\ published'[i] = batch[i - L])
    <2>1. \A i \in 1 .. L + n : i <= L => published'[i] = published[i]
      BY <1>5, Zenon
    <2>2. \A i \in 1 .. L + n : ~(i <= L) => published'[i] = batch[i - L]
      BY <1>5, Zenon
    <2>3. ASSUME NEW i \in 1 .. L PROVE i \in 1 .. L + n /\ published'[i] = published[i]
      <3>1. i \in 1 .. L + n /\ i <= L
        BY <1>2
      <3>. QED  BY <2>1, <3>1, Zenon
    <2>4. ASSUME NEW i \in 1 .. L + n, i \notin 1 .. L
          PROVE  i - L \in 1 .. n /\ published'[i] = batch[i - L]
      <3>1. i - L \in 1 .. n /\ ~(i <= L)
        BY <1>2, <2>4
      <3>. QED  BY <2>2, <3>1, Zenon
    <2>5. ASSUME NEW j \in 1 .. n PROVE L + j \in 1 .. L + n /\ published'[L + j] = batch[j]
      <3>. DEFINE i == L + j
      <3>1. i \in 1 .. L + n /\ ~(i <= L) /\ i - L = j
        BY <1>2
      <3>. HIDE DEF i
      <3>2. published'[i] = batch[i - L]
        BY <2>2, <3>1, Zenon
      <3>3. published'[i] = batch[j]
        BY <3>1, <3>2, Zenon
      <3>. QED  BY <3>1, <3>3 DEF i
    <2>6. \A i \in 1 .. L + n : i \in 1 .. L \/ (i - L \in 1 .. n /\ published'[i] = batch[i - L])
      BY <2>4, Zenon
    <2>7. \A j \in 1 .. n : L + j \in 1 .. L + n /\ published'[L + j] = batch[j]
      BY <2>5, Zenon
    <2>8. \A i \in 1 .. L : i \in 1 .. L + n /\ published'[i] = published[i]
      BY <2>3, Zenon
    <2>. QED  BY <2>6, <2>7, <2>8, Zenon
  <1>7. ASSUME NEW id \in ClientIds, NEW i \in Taken(id)
        PROVE  i \in Taken(id)' /\ published'[i] = published[i] /\ i <= Len(published)
    BY <1>2, <1>5, <1>6 DEF Taken, L
  <1>8. ASSUME NEW id \in ClientIds, NEW w \in Waiting(id)
        PROVE  \E i \in Taken(id)' : published'[i] = pending[w].of
    <2>1. w \in 1 .. n /\ pending[w].of.id = id /\ pending[w].of.conn # None
      BY DEF Waiting, n
    <2>2. PICK j \in 1 .. n : p[j] = w
      BY <1>4, <2>1
    <2>3. L + j \in 1 .. L + n /\ published'[L + j] = pending[w].of
      BY <1>4, <1>6, <2>2
    <2>. QED  BY <1>5, <2>1, <2>3 DEF Taken
  <1>9. ASSUME NEW id \in ClientIds, NEW i \in Taken(id)'
        PROVE  \/ i \in Taken(id) /\ published'[i] = published[i]
               \/ /\ i - L \in 1 .. n /\ p[i - L] \in Waiting(id)
                  /\ published'[i] = pending[p[i - L]].of
    <2>1. i \in 1 .. L + n /\ published'[i].id = id /\ published'[i].conn # None
      BY <1>5 DEF Taken
    <2>2. CASE i \in 1 .. L
      BY <1>6, <2>1, <2>2 DEF Taken, L
    <2>3. CASE i - L \in 1 .. n /\ published'[i] = batch[i - L]
      <3>1. published'[i] = pending[p[i - L]].of /\ p[i - L] \in 1 .. n
        BY <1>4, <2>3
      <3>. QED  BY <2>1, <2>3, <3>1 DEF Waiting, n
    <2>. QED  BY <1>6, <2>1, <2>2, <2>3
  <1>. QED  BY <1>2, <1>7, <1>8, <1>9 DEF Moves, L, n

LEMMA FinishKeepsOrder ==
    ASSUME SessionInv, OrderInv, Running, Finish
    PROVE  OrderInv'
  <1>1. LoopOK /\ inbox = <<>> /\ AtFinish
    <2>1. LoopOK /\ AtFinish
      BY Groups DEF Finish
    <2>. QED  BY <2>1, LenProperties DEF LoopOK, FramesAreTheCurrents, AtSocket, AtFinish
  <1>2. UNCHANGED <<socketOf, expectedReq, receiveSockets, backlog, inbox, rxTime, recv, halted>>
    BY DEF Finish, network, tables
  <1>3. ReadsAreTimed'
    BY <1>1, <1>2 DEF ReadsAreTimed
  <1>4. CASE ~recv
    <2>1. UNCHANGED <<published, pending, shuffled>>
      BY <1>4 DEF Finish
    <2>2. \A id \in ClientIds : Waiting(id) = {}
      BY <1>4 DEF OrderInv, WaitingIsOfThisRound
    <2>3. WaitingIsOfThisRound'
      BY <2>1, <2>2 DEF WaitingIsOfThisRound, Waiting
    <2>. QED  BY <1>2, <1>3, <2>1, <2>3, OrderUntouched DEF OrderInv, Running
  <1>5. CASE recv
    <2>1. PICK p \in Bijection(1 .. Len(pending), 1 .. Len(pending)) :
              /\ \A i, j \in 1 .. Len(pending) : i < j => Kept(pending, p[i], p[j])
              /\ published' = published \o BatchOf(p)
      BY <1>5 DEF Finish, SequenceAndPublish, BatchOf
    <2>2. pending' = <<>> /\ shuffled' = (shuffled \/ Len(pending) > StableSort)
      BY <1>5 DEF Finish, SequenceAndPublish
    <2>. DEFINE L == Len(published)
    <2>3. Moves(p)
      BY <2>1, BatchMoves
    <2>4. \A id : Waiting(id)' = {}
      BY <2>2, EmptySeq DEF Waiting
    <2>5. WaitingIsOfThisRound'
      BY <2>4 DEF WaitingIsOfThisRound
    <2>6. NumbersAreExpected'
      <3>1. \A id \in ClientIds :
               /\ expectedReq[id] >= 1
               /\ \A i \in Taken(id) : /\ published[i].n \in 1 .. expectedReq[id] - 1
                                       /\ published[i].conn = socketOf[id]
               /\ \A i \in Waiting(id) : /\ pending[i].of.n \in 1 .. expectedReq[id] - 1
                                         /\ pending[i].of.conn = socketOf[id]
        BY DEF OrderInv, NumbersAreExpected
      <3>2. ASSUME NEW id \in ClientIds, NEW i \in Taken(id)'
            PROVE  published'[i].n \in 1 .. expectedReq[id] - 1 /\ published'[i].conn = socketOf[id]
        BY <2>3, <3>1 DEF Moves
      <3>. QED  BY <1>2, <2>4, <3>1, <3>2 DEF NumbersAreExpected
    <2>7. NoneIsMissing'
      <3>1. ASSUME NEW id \in ClientIds, NEW n PROVE HasTaken(id, n) \/ HasWaiting(id, n) => HasTaken(id, n)'
        BY <2>3 DEF Moves, HasTaken, HasWaiting
      <3>2. \A id \in ClientIds : \A n \in 1 .. expectedReq[id] - 1 : HasTaken(id, n)'
        BY <3>1 DEF OrderInv, NoneIsMissing
      <3>3. ASSUME NEW id \in ClientIds, NEW i \in Taken(id)', NEW n \in 1 .. published'[i].n
            PROVE  HasTaken(id, n)'
        <4>1. published'[i].n \in 1 .. expectedReq[id] - 1
          BY <1>2, <2>6 DEF NumbersAreExpected
        <4>2. expectedReq[id] \in Nat
          BY Groups DEF TablesOK
        <4>3. n \in 1 .. expectedReq[id] - 1
          BY <4>1, <4>2
        <4>. QED  BY <3>2, <4>3
      <3>. QED  BY <1>2, <3>2, <3>3 DEF NoneIsMissing
    <2>8. InTheirOrder'
      <3>. SUFFICES ASSUME ~shuffled', NEW id \in ClientIds,
                           NEW i \in Taken(id)', NEW j \in Taken(id)', i < j
                    PROVE  published'[i].n < published'[j].n
        BY <2>4 DEF InTheirOrder
      <3>1. /\ \A a \in Waiting(id) :
                  /\ \A b \in Taken(id) : published[b].n < pending[a].of.n
                  /\ \A b \in Waiting(id) : a < b => pending[a].of.n < pending[b].of.n
            /\ \A a, b \in Taken(id) : a < b => published[a].n < published[b].n
        BY <2>2 DEF OrderInv, InTheirOrder
      <3>2. L \in Nat /\ Len(pending) \in Nat /\ Len(pending) <= StableSort /\ StableSort \in Nat
        <4>1. ~(Len(pending) > StableSort)
          BY <2>2, Zenon
        <4>. QED  BY <2>3, <4>1, SizesAssumption DEF Moves
      <3>. HIDE DEF L
      <3>3. /\ \/ i \in Taken(id) /\ i <= L /\ published'[i] = published[i]
               \/ /\ i - L \in 1 .. Len(pending) /\ p[i - L] \in Waiting(id)
                  /\ published'[i] = pending[p[i - L]].of
            /\ \/ j \in Taken(id) /\ j <= L /\ published'[j] = published[j]
               \/ /\ j - L \in 1 .. Len(pending) /\ p[j - L] \in Waiting(id)
                  /\ published'[j] = pending[p[j - L]].of
        BY <2>3 DEF Moves, L
      <3>4. CASE i \in Taken(id) /\ published'[i] = published[i] /\ i <= L
        <4>1. CASE j \in Taken(id) /\ published'[j] = published[j]
          BY <3>1, <3>4, <4>1
        <4>2. CASE p[j - L] \in Waiting(id) /\ published'[j] = pending[p[j - L]].of
          BY <3>1, <3>4, <4>2
        <4>. QED  BY <3>3, <4>1, <4>2
      <3>5. CASE i - L \in 1 .. Len(pending) /\ p[i - L] \in Waiting(id)
                 /\ published'[i] = pending[p[i - L]].of
        <4>0. i \in Int /\ j \in Int
          BY DEF Taken
        <4>1. j - L \in 1 .. Len(pending) /\ p[j - L] \in Waiting(id)
              /\ published'[j] = pending[p[j - L]].of
          BY <3>2, <3>3, <3>5, <4>0
        <4>2. i - L < j - L
          BY <3>2, <4>0
        <4>3. Kept(pending, p[i - L], p[j - L])
          BY <2>1, <3>5, <4>1, <4>2
        <4>4. pending[p[i - L]].time = pending[p[j - L]].time
          BY <3>5, <4>1 DEF OrderInv, WaitingIsOfThisRound
        <4>5. pending[p[i - L]].time \in Nat
          <5>1. p[i - L] \in 1 .. Len(pending) /\ PendingOK
            BY <3>5, Groups DEF Waiting
          <5>2. pending[p[i - L]] \in [time : Nat, of : MERequests]
            BY <5>1, ElementOfSeq DEF PendingOK
          <5>. QED  BY <5>2
        <4>6. p[i - L] < p[j - L]
          BY <3>2, <4>3, <4>4, <4>5 DEF Kept
        <4>. QED  BY <3>1, <3>5, <4>1, <4>6
      <3>. QED  BY <3>3, <3>4, <3>5
    <2>9. OnceEach'
      BY <1>2, OrderUntouched
    <2>. QED  BY <1>3, <2>5, <2>6, <2>7, <2>8, <2>9 DEF OrderInv
  <1>. QED  BY <1>4, <1>5

LEMMA NextKeepsOrder == SessionInv /\ OrderInv /\ [Next]_vars => OrderInv'
  <1>. SUFFICES ASSUME SessionInv, OrderInv, [Next]_vars PROVE OrderInv'
    OBVIOUS
  <1>1. ASSUME NEW k \in Conns, Connect(k) PROVE OrderInv'
    BY <1>1, ConnectKeepsOrder
  <1>2. CASE Running /\ (Poll \/ Read \/ Refuse \/ Admit \/ ServerSend \/ Finish)
    BY <1>2, PollKeepsOrder, ReadKeepsOrder, RefuseKeepsOrder, AdmitKeepsOrder, ServerSendKeepsOrder,
       FinishKeepsOrder
  <1>3. CASE CannotHandle
    <2>1. UNCHANGED <<receiveSockets, backlog, turn, rxTime, recv, pending, published, socketOf,
                      expectedReq, shuffled>>
      BY <1>3 DEF CannotHandle, network, tables, engine
    <2>2. ReadsAreTimed' /\ ~Running'
      BY <1>3, <2>1, FrameIsTimed DEF CannotHandle, Running
    <2>. QED  BY <2>1, <2>2, OrderUntouched DEF OrderInv
  <1>4. CASE \/ \E k \in Conns : \E m \in 1 .. 2 : \E ids \in [1 .. m -> ClientIds \cup {Beyond}] :
                   GatewaySend(k, ids)
             \/ \E k \in Conns : Running /\ GatewayReceive(k)
             \/ \E k \in Conns : Leave(k)
             \/ Running /\ (Respond \/ Ignore \/ EngineStops)
             \/ UNCHANGED vars
    <2>1. /\ UNCHANGED <<loop, backlog, pending, published, socketOf, expectedReq, shuffled>>
          /\ Running' => Running
      BY <1>4 DEF GatewaySend, GatewayReceive, Leave, Respond, Ignore, EngineStops, vars, network,
                  tables, engine, faults, Running
    <2>. QED  BY <2>1, OrderUntouched DEF OrderInv, loop
  <1>. QED  BY <1>1, <1>2, <1>3, <1>4 DEF Next, Quiet

LEMMA OrderInvariant == Spec => []OrderInv
  BY InitIsOrder, NextKeepsOrder, SessionInvariant, PTL DEF Spec

\* FIFOSequencer gives the engine the requests of a client in the order of their numbers,
\* none missing and none twice, all from one socket, as long as std::sort is stable.
THEOREM RequestsStayInOrder == Spec => []RequestsInOrder
  <1>1. OrderInv /\ SessionInv => RequestsInOrder
    <2>. SUFFICES ASSUME OrderInv, SessionInv, ~shuffled, NEW id \in ClientIds, NEW i \in Taken(id)
                  PROVE  /\ published[i].n >= 1 /\ published[i].conn = socketOf[id]
                         /\ \A j \in Taken(id) : i < j => published[i].n < published[j].n
                         /\ \A n \in 1 .. published[i].n : \E j \in Taken(id) : published[j].n = n
      BY DEF RequestsInOrder
    <2>1. published[i].n >= 1 /\ published[i].conn = socketOf[id]
      BY Groups DEF OrderInv, NumbersAreExpected, TablesOK
    <2>2. \A j \in Taken(id) : i < j => published[i].n < published[j].n
      BY DEF OrderInv, InTheirOrder
    <2>3. \A n \in 1 .. published[i].n : \E j \in Taken(id) : published[j].n = n
      BY DEF OrderInv, NoneIsMissing, HasTaken
    <2>. QED  BY <2>1, <2>2, <2>3
  <1>. QED  BY <1>1, OrderInvariant, SessionInvariant, PTL

-----------------------------------------------------------------------------
(* The answers                                                             *)

\* How many of the first p requests are of a client, and not ignored.
Those(id, p) == {i \in (1 .. p) \ ignored : published[i].id = id}
Upto(id, p) == Cardinality(Those(id, p))

LEMMA ThoseAreFinite ==
    ASSUME NEW id, NEW p \in Nat
    PROVE  IsFiniteSet(Those(id, p)) /\ Upto(id, p) \in Nat
  <1>1. IsFiniteSet(1 .. p)
    BY FS_Interval
  <1>2. Those(id, p) \subseteq 1 .. p
    BY DEF Those
  <1>3. IsFiniteSet(Those(id, p))
    BY <1>1, <1>2, FS_Subset
  <1>. QED  BY <1>3, FS_CardinalityType DEF Upto

LEMMA UptoNothing == ASSUME NEW id PROVE Upto(id, 0) = 0
  <1>1. Those(id, 0) = {}
    BY DEF Those
  <1>. QED  BY <1>1, FS_EmptySet DEF Upto

LEMMA UptoNext ==
    ASSUME NEW id, NEW p \in Nat
    PROVE  Upto(id, p + 1) = IF published[p + 1].id = id /\ p + 1 \notin ignored
                             THEN Upto(id, p) + 1 ELSE Upto(id, p)
  <1>1. IsFiniteSet(Those(id, p)) /\ p + 1 \notin Those(id, p)
    <2>1. p + 1 \notin 1 .. p
      OBVIOUS
    <2>2. p + 1 \notin Those(id, p)
      BY <2>1, Zenon DEF Those
    <2>. QED  BY <2>2, ThoseAreFinite
  <1>2. \A i \in 1 .. p + 1 : i \in 1 .. p \/ i = p + 1
    OBVIOUS
  <1>3. 1 .. p \subseteq 1 .. p + 1 /\ p + 1 \in 1 .. p + 1
    OBVIOUS
  <1>4. CASE published[p + 1].id = id /\ p + 1 \notin ignored
    <2>1. Those(id, p + 1) = Those(id, p) \cup {p + 1}
      BY <1>2, <1>3, <1>4 DEF Those
    <2>. QED  BY <1>1, <1>4, <2>1, FS_AddElement DEF Upto
  <1>5. CASE ~(published[p + 1].id = id /\ p + 1 \notin ignored)
    <2>1. Those(id, p + 1) = Those(id, p)
      BY <1>2, <1>3, <1>5 DEF Those
    <2>. QED  BY <1>5, <2>1 DEF Upto
  <1>. QED  BY <1>4, <1>5

\* Each request of a client is one more.
LEMMA UptoGrows ==
    ASSUME NEW id, NEW p \in Nat, NEW q \in Nat, p < q, published[q].id = id, q \notin ignored
    PROVE  Upto(id, p) < Upto(id, q)
  <1>1. /\ IsFiniteSet(Those(id, p)) /\ IsFiniteSet(Those(id, q))
        /\ Upto(id, p) \in Nat /\ Upto(id, q) \in Nat
    BY ThoseAreFinite
  <1>2. q \notin Those(id, p) /\ Those(id, p) \cup {q} \subseteq Those(id, q)
    BY DEF Those
  <1>3. /\ IsFiniteSet(Those(id, p) \cup {q})
        /\ Cardinality(Those(id, p) \cup {q}) = Cardinality(Those(id, p)) + 1
    BY <1>1, <1>2, FS_AddElement
  <1>4. Cardinality(Those(id, p) \cup {q}) <= Cardinality(Those(id, q))
    BY <1>1, <1>2, FS_Subset
  <1>. QED  BY <1>1, <1>3, <1>4 DEF Upto

\* So two of the same count are the same.
LEMMA UptoIsOnce ==
    ASSUME NEW id, NEW p \in Nat, NEW q \in Nat, published[p].id = id, published[q].id = id,
           p \notin ignored, q \notin ignored
    PROVE  /\ Upto(id, p) = Upto(id, q) => p = q
           /\ Upto(id, p) < Upto(id, q) => p < q
  <1>1. Upto(id, p) \in Nat /\ Upto(id, q) \in Nat
    BY ThoseAreFinite
  <1>2. p < q => Upto(id, p) < Upto(id, q)
    BY UptoGrows
  <1>3. q < p => Upto(id, q) < Upto(id, p)
    BY UptoGrows
  <1>. QED  BY <1>1, <1>2, <1>3

Responses == [id : ClientIds \cup {Fragment}, n : Nat, of : Nat]
AnswerStreams == /\ sendServer \in [Conns -> Seq(Responses)]
                 /\ down \in [Conns -> Seq(Responses)]
                 /\ delivered \in [Conns -> Seq(Nat)]

\* A response carries the number of its request among the answered ones of the client, and
\* is on the way to the client's socket.
IsAnswer(r, k) == /\ r.of \in (1 .. returned) \ ignored /\ published[r.of].id = r.id
                  /\ r.n = Upto(r.id, r.of) /\ r.id \in ClientIds /\ socketOf[r.id] = k

AnswersAreCounted == \A id \in ClientIds : nextResp[id] = Upto(id, returned) + 1

AnswersWait == \A k \in Conns : \A i \in 1 .. Len(sendServer[k]) : IsAnswer(sendServer[k][i], k)

AnswersArrive ==
    \A k \in Conns : \A i \in 1 .. Len(down[k]) :
        down[k][i].id = Fragment \/ IsAnswer(down[k][i], k)

\* A gateway has handed on as many as it has counted, the one of each number.
IsHandedOn(k, j, p) == /\ p \in (1 .. returned) \ ignored /\ published[p].id = own[k]
                       /\ Upto(own[k], p) = j /\ socketOf[own[k]] = k
AnswersAreHandedOn ==
    \A k \in Conns :
        /\ expectedResp[k] = Len(delivered[k]) + 1
        /\ \A j \in 1 .. Len(delivered[k]) : IsHandedOn(k, j, delivered[k][j])

\* Only an entry that nobody has written has no socket.
AllAreWritten ==
    ~wild => /\ \A i \in 1 .. Len(published) : published[i].conn # None
             /\ \A i \in 1 .. Len(pending) : pending[i].of.conn # None

AnswerInv == /\ AnswerStreams /\ AnswersAreCounted /\ AnswersWait /\ AnswersArrive
             /\ AnswersAreHandedOn /\ AllAreWritten

LEMMA InitIsAnswer == Init => AnswerInv
  <1>. SUFFICES ASSUME Init PROVE AnswerInv
    OBVIOUS
  <1>1. AnswerStreams
    BY EmptySeq DEF Init, AnswerStreams
  <1>2. AnswersAreCounted
    BY UptoNothing DEF Init, AnswersAreCounted
  <1>3. AnswersWait /\ AnswersArrive
    BY EmptySeq DEF Init, AnswersWait, AnswersArrive
  <1>4. AnswersAreHandedOn
    BY EmptySeq DEF Init, AnswersAreHandedOn
  <1>5. AllAreWritten
    <2>1. wild \/ (pending = <<>> /\ published = <<>>)
      BY Zenon DEF Init
    <2>. QED  BY <2>1, EmptySeq DEF AllAreWritten
  <1>. QED  BY <1>1, <1>2, <1>3, <1>4, <1>5 DEF AnswerInv

\* What was published stays, what was returned stays returned, and a socket stays bound.
Stays == /\ Len(published') \in Nat /\ Len(published) <= Len(published')
         /\ \A i \in 1 .. Len(published) : published'[i] = published[i]
         /\ returned' \in Nat /\ returned <= returned' /\ returned <= Len(published)
         /\ \A i \in 1 .. returned : i \in ignored' <=> i \in ignored
         /\ \A id \in ClientIds : socketOf[id] # None => socketOf'[id] = socketOf[id]
         /\ own' = own

LEMMA EverythingStays == SessionInv /\ [Next]_vars => Stays
  <1>. SUFFICES ASSUME SessionInv, [Next]_vars PROVE Stays
    OBVIOUS
  <1>1. /\ EngineOK /\ TablesOK /\ LoopOK /\ returned \in Nat /\ returned <= Len(published)
        /\ Len(published) \in Nat
    BY Groups, LenProperties DEF EngineOK
  <1>2. own' = own
    BY DEF Next, Connect, GatewaySend, GatewayReceive, Leave, Poll, Read, CannotHandle, Refuse, Admit,
           ServerSend, Finish, Respond, Ignore, EngineStops, vars, gateways
  <1>3. \A id \in ClientIds : socketOf[id] # None => socketOf'[id] = socketOf[id]
    <2>1. CASE Refuse \/ Admit
      BY <2>1, BoundStays DEF Refuse, Admit
    <2>2. CASE ~(Refuse \/ Admit)
      <3>1. UNCHANGED socketOf
        BY <2>2 DEF Next, Connect, GatewaySend, GatewayReceive, Leave, Poll, Read, CannotHandle,
                    ServerSend, Finish, Respond, Ignore, EngineStops, vars, tables
      <3>. QED  BY <3>1
    <2>. QED  BY <2>1, <2>2
  <1>6. \A i \in 1 .. returned : i \in ignored' <=> i \in ignored
    <2>1. ignored' = ignored \/ ignored' = ignored \cup {returned + 1}
      BY DEF Next, Connect, GatewaySend, GatewayReceive, Leave, Poll, Read, CannotHandle, Refuse, Admit,
             ServerSend, Finish, Respond, Ignore, EngineStops, vars, engine
    <2>2. returned + 1 \notin 1 .. returned
      BY <1>1
    <2>. QED  BY <2>1, <2>2
  <1>4. returned' \in {returned, returned + 1}
    BY DEF Next, Connect, GatewaySend, GatewayReceive, Leave, Poll, Read, CannotHandle, Refuse, Admit,
           ServerSend, Finish, Respond, Ignore, EngineStops, vars, engine
  <1>5. /\ Len(published') \in Nat /\ Len(published) <= Len(published')
        /\ \A i \in 1 .. Len(published) : published'[i] = published[i]
    <2>1. CASE published' = published
      BY <1>1, <2>1
    <2>2. CASE Finish /\ recv
      <3>1. PICK p \in Bijection(1 .. Len(pending), 1 .. Len(pending)) : published' = published \o BatchOf(p)
        BY <2>2 DEF Finish, SequenceAndPublish, BatchOf
      <3>2. BatchOf(p) \in Seq(MERequests)
        BY Groups, Batch DEF PendingOK, BatchOf
      <3>3. published \in Seq(MERequests)
        BY <1>1 DEF EngineOK
      <3>4. Len(BatchOf(p)) \in Nat
        BY <3>2, LenProperties
      <3>5. /\ Len(published') = Len(published) + Len(BatchOf(p))
            /\ \A i \in 1 .. Len(published) + Len(BatchOf(p)) : published'[i] =
                  IF i <= Len(published) THEN published[i] ELSE BatchOf(p)[i - Len(published)]
        BY <3>1, <3>2, <3>3, ConcatProperties, Zenon
      <3>. QED  BY <1>1, <3>4, <3>5
    <2>3. published' = published \/ (Finish /\ recv)
      BY DEF Next, Connect, GatewaySend, GatewayReceive, Leave, Poll, Read, CannotHandle, Refuse, Admit,
             ServerSend, Finish, Respond, Ignore, EngineStops, vars, engine
    <2>. QED  BY <2>1, <2>2, <2>3
  <1>. QED  BY <1>1, <1>2, <1>3, <1>4, <1>5, <1>6 DEF Stays

\* So counts, answers and what was handed on stay what they are.
LEMMA UptoStays ==
    ASSUME Stays, NEW id, NEW p \in 0 .. returned, Len(published) \in Nat, returned \in Nat
    PROVE  Upto(id, p)' = Upto(id, p)
  <1>1. \A i \in 1 .. p : published'[i] = published[i] /\ (i \in ignored' <=> i \in ignored)
    BY DEF Stays
  <1>2. Those(id, p)' = Those(id, p)
    BY <1>1 DEF Those
  <1>. QED  BY <1>2 DEF Upto

LEMMA AnswerStays ==
    ASSUME SessionInv, Stays, NEW k \in Conns, NEW r, IsAnswer(r, k)
    PROVE  IsAnswer(r, k)'
  <1>1. Len(published) \in Nat /\ returned \in Nat /\ k # None
    BY Groups, LenProperties, NamesAssumption DEF EngineOK
  <1>2. /\ r.of \in 0 .. returned /\ r.of \in 1 .. Len(published)
        /\ r.of \in (1 .. returned') \ ignored'
    BY <1>1 DEF IsAnswer, Stays
  <1>3. Upto(r.id, r.of)' = Upto(r.id, r.of)
    BY <1>1, <1>2, UptoStays
  <1>. QED  BY <1>1, <1>2, <1>3 DEF IsAnswer, Stays

LEMMA HandedOnStays ==
    ASSUME SessionInv, Stays, NEW k \in Conns, NEW j, NEW p, IsHandedOn(k, j, p)
    PROVE  IsHandedOn(k, j, p)'
  <1>1. Len(published) \in Nat /\ returned \in Nat /\ k # None /\ own[k] \in ClientIds /\ own' = own
    BY Groups, LenProperties, NamesAssumption DEF EngineOK, GatewaysOK, Stays
  <1>2. p \in 0 .. returned /\ p \in 1 .. Len(published) /\ p \in (1 .. returned') \ ignored'
    BY <1>1 DEF IsHandedOn, Stays
  <1>. PICK id \in ClientIds : id = own[k]
    BY <1>1
  <1>3. Upto(id, p)' = Upto(id, p)
    BY <1>1, <1>2, UptoStays
  <1>. QED  BY <1>1, <1>2, <1>3 DEF IsHandedOn, Stays

LEMMA AnswersUntouched ==
    ASSUME SessionInv, AnswerInv, Stays
    PROVE  /\ UNCHANGED sendServer => AnswersWait'
           /\ UNCHANGED down => AnswersArrive'
           /\ UNCHANGED <<expectedResp, delivered>> => AnswersAreHandedOn'
           /\ UNCHANGED <<nextResp, returned>> => AnswersAreCounted'
           /\ UNCHANGED <<sendServer, down, delivered>> => AnswerStreams'
           /\ UNCHANGED <<pending, published, wild>> => AllAreWritten'
  <1>1. UNCHANGED sendServer => AnswersWait'
    BY AnswerStays DEF AnswerInv, AnswersWait
  <1>2. UNCHANGED down => AnswersArrive'
    BY AnswerStays DEF AnswerInv, AnswersArrive
  <1>3. UNCHANGED <<expectedResp, delivered>> => AnswersAreHandedOn'
    BY HandedOnStays DEF AnswerInv, AnswersAreHandedOn
  <1>4. UNCHANGED <<nextResp, returned>> => AnswersAreCounted'
    <2>. SUFFICES ASSUME UNCHANGED <<nextResp, returned>>, NEW id \in ClientIds
                  PROVE  nextResp[id] = Upto(id, returned)' + 1
      BY DEF AnswersAreCounted
    <2>1. Len(published) \in Nat /\ returned \in Nat /\ returned \in 0 .. returned
      BY Groups, LenProperties DEF EngineOK
    <2>. PICK p \in 0 .. returned : p = returned
      BY <2>1
    <2>2. Upto(id, p)' = Upto(id, p)
      BY <2>1, UptoStays
    <2>. QED  BY <2>2 DEF AnswerInv, AnswersAreCounted
  <1>5. UNCHANGED <<sendServer, down, delivered>> => AnswerStreams'
    BY DEF AnswerInv, AnswerStreams
  <1>6. UNCHANGED <<pending, published, wild>> => AllAreWritten'
    <2>. SUFFICES ASSUME pending' = pending, published' = published, wild' = wild PROVE AllAreWritten'
      OBVIOUS
    <2>. QED  BY Zenon DEF AnswerInv, AllAreWritten
  <1>. QED  BY <1>1, <1>2, <1>3, <1>4, <1>5, <1>6

\* What is sent of a buffer is from the buffer, or torn.
LEMMA SentIsAnswers ==
    ASSUME NEW buffer \in Seq(Responses), NEW n \in 0 .. Len(buffer), NEW torn \in BOOLEAN,
           torn => n < Len(buffer)
    PROVE  /\ Sent(buffer, n, torn) \in Seq(Responses)
           /\ \A i \in 1 .. Len(Sent(buffer, n, torn)) :
                 \/ Sent(buffer, n, torn)[i].id = Fragment
                 \/ \E j \in 1 .. Len(buffer) : Sent(buffer, n, torn)[i] = buffer[j]
  <1>. DEFINE head == SubSeq(buffer, 1, n)
  <1>1. /\ Len(buffer) \in Nat /\ n \in Nat /\ head \in Seq(Responses) /\ Len(head) = n
        /\ \A i \in 1 .. n : i \in 1 .. Len(buffer) /\ head[i] = buffer[i]
    <2>1. Len(buffer) \in Nat /\ n \in Nat /\ \A i \in 1 .. n : i \in 1 .. Len(buffer) /\ buffer[i] \in Responses
      BY LenProperties, ElementOfSeq
    <2>. QED  BY <2>1, SubSeqProperties
  <1>2. CASE torn
    <2>. DEFINE last == Torn(buffer[n + 1])
    <2>1. buffer[n + 1] \in Responses
      BY <1>1, <1>2, ElementOfSeq
    <2>2. last \in Responses /\ last.id = Fragment
      BY <2>1 DEF Responses, Torn
    <2>3. Sent(buffer, n, torn) = Append(head, last)
      <3>. HIDE DEF last
      <3>1. head \o <<last>> = Append(head, last)
        <4>. HIDE DEF head
        <4>. QED  BY <1>1, <2>2, AppendIsConcat
      <3>. QED  BY <1>2, <3>1 DEF Sent, last
    <2>. HIDE DEF head, last
    <2>4. /\ Append(head, last) \in Seq(Responses) /\ Len(Append(head, last)) = n + 1
          /\ \A i \in 1 .. n : Append(head, last)[i] = head[i]
          /\ Append(head, last)[n + 1] = last
      BY <1>1, <2>2, AppendProperties
    <2>5. \A i \in 1 .. n + 1 : i \in 1 .. n \/ i = n + 1
      BY <1>1
    <2>. QED  BY <1>1, <2>2, <2>3, <2>4, <2>5
  <1>3. CASE ~torn
    <2>1. Sent(buffer, n, torn) = head
      BY <1>1, <1>3, ConcatEmptySeq DEF Sent
    <2>. HIDE DEF head
    <2>. QED  BY <1>1, <2>1
  <1>. QED  BY <1>2, <1>3

LEMMA ServerSendKeepsAnswers ==
    ASSUME SessionInv, AnswerInv, Stays, ServerSend
    PROVE  AnswerInv'
  <1>1. LoopOK /\ AtSocket /\ AnswerStreams /\ AnswersWait /\ AnswersArrive
    BY Groups DEF ServerSend, AnswerInv
  <1>. PICK k \in Conns : k = Current
    BY <1>1, ElementOfSeq DEF LoopOK, AtSocket, Current
  <1>. DEFINE buffer == sendServer[k]
  <1>2. /\ sendServer' = [sendServer EXCEPT ![k] = <<>>]
        /\ UNCHANGED <<expectedResp, delivered, nextResp, returned, pending, published, wild>>
    BY DEF ServerSend, gateways, tables, engine
  <1>3. /\ sendServer' \in [Conns -> Seq(Responses)] /\ sendServer'[k] = <<>>
        /\ \A j \in Conns : j # k => sendServer'[j] = sendServer[j]
    BY <1>1, <1>2, EmptySeq DEF AnswerStreams
  <1>4. AnswersWait'
    <2>. SUFFICES ASSUME NEW j \in Conns, NEW i \in 1 .. Len(sendServer'[j])
                  PROVE  IsAnswer(sendServer[j][i], j)' /\ sendServer'[j] = sendServer[j]
      BY DEF AnswersWait
    <2>1. j # k
      BY <1>3, EmptySeq
    <2>2. sendServer'[j] = sendServer[j] /\ IsAnswer(sendServer[j][i], j)
      BY <1>1, <1>3, <2>1 DEF AnswersWait
    <2>. QED  BY <2>2, AnswerStays
  <1>5. down' \in [Conns -> Seq(Responses)] /\ AnswersArrive'
    <2>1. CASE down' = down
      BY <1>1, <2>1, AnswersUntouched DEF AnswerStreams
    <2>2. CASE down' # down
      <3>1. PICK n \in 0 .. Len(buffer), torn \in BOOLEAN :
                /\ torn => n < Len(buffer)
                /\ down' = [down EXCEPT ![k] = @ \o Sent(buffer, n, torn)]
        BY <2>2 DEF ServerSend
      <3>. DEFINE sent == Sent(buffer, n, torn)
      <3>2. /\ sent \in Seq(Responses)
            /\ \A i \in 1 .. Len(sent) : \/ sent[i].id = Fragment
                                         \/ \E j \in 1 .. Len(buffer) : sent[i] = buffer[j]
        BY <1>1, <3>1, SentIsAnswers DEF AnswerStreams
      <3>3. down' = [down EXCEPT ![k] = @ \o sent]
        BY <3>1
      <3>. HIDE DEF sent
      <3>4. /\ down[k] \o sent \in Seq(Responses) /\ Len(down[k]) \in Nat /\ Len(sent) \in Nat
            /\ Len(down[k] \o sent) = Len(down[k]) + Len(sent)
            /\ \A i \in 1 .. Len(down[k]) + Len(sent) : (down[k] \o sent)[i] =
                  IF i <= Len(down[k]) THEN down[k][i] ELSE sent[i - Len(down[k])]
        BY <1>1, <3>2, ConcatProperties, LenProperties DEF AnswerStreams
      <3>5. /\ down' \in [Conns -> Seq(Responses)] /\ down'[k] = down[k] \o sent
            /\ \A j \in Conns : j # k => down'[j] = down[j]
        BY <1>1, <3>3, <3>4 DEF AnswerStreams
      <3>6. ASSUME NEW j \in Conns, NEW i \in 1 .. Len(down'[j])
            PROVE  down'[j][i].id = Fragment \/ IsAnswer(down[j][i], j)'
        <4>1. CASE j # k \/ i <= Len(down[k])
          <5>1. i \in 1 .. Len(down[j]) /\ down'[j][i] = down[j][i]
            BY <3>4, <3>5, <4>1
          <5>2. down[j][i].id = Fragment \/ IsAnswer(down[j][i], j)
            BY <1>1, <5>1 DEF AnswersArrive
          <5>. QED  BY <5>1, <5>2, AnswerStays
        <4>2. CASE j = k /\ i > Len(down[k])
          <5>1. i - Len(down[k]) \in 1 .. Len(sent) /\ down'[k][i] = sent[i - Len(down[k])]
            BY <3>4, <3>5, <4>2
          <5>2. CASE sent[i - Len(down[k])].id = Fragment
            BY <4>2, <5>1, <5>2
          <5>3. CASE sent[i - Len(down[k])].id # Fragment
            <6>1. PICK h \in 1 .. Len(buffer) : sent[i - Len(down[k])] = buffer[h]
              BY <3>2, <5>1, <5>3
            <6>2. IsAnswer(buffer[h], k)
              BY <1>1 DEF AnswersWait
            <6>. QED  BY <4>2, <5>1, <6>1, <6>2, AnswerStays
          <5>. QED  BY <5>2, <5>3
        <4>. QED  BY <4>1, <4>2
      <3>. QED  BY <3>5, <3>6 DEF AnswersArrive
    <2>. QED  BY <2>1, <2>2
  <1>6. AnswerStreams'
    BY <1>1, <1>2, <1>3, <1>5 DEF AnswerStreams
  <1>. QED  BY <1>2, <1>4, <1>5, <1>6, AnswersUntouched DEF AnswerInv

LEMMA RespondKeepsAnswers ==
    ASSUME SessionInv, AnswerInv, Stays, Running, Respond, socketOf[Answering.id] # None
    PROVE  AnswerInv'
  <1>1. /\ TablesOK /\ EngineOK /\ AnswerStreams /\ AnswersWait /\ AnswersAreCounted
        /\ Len(published) \in Nat /\ returned \in Nat
    BY Groups, LenProperties DEF AnswerInv, EngineOK
  <1>2. returned + 1 \in (1 .. Len(published)) \ ignored /\ Answering \in MERequests
    <2>1. returned + 1 \in (1 .. Len(published)) \ ignored
      BY WorkingOn DEF Respond
    <2>. QED  BY <1>1, <2>1, ElementOfSeq DEF EngineOK, Answering
  <1>. PICK id \in ClientIds : id = Answering.id
    BY <1>2 DEF MERequests
  <1>. PICK k \in Conns : k = socketOf[id]
    BY <1>1 DEF TablesOK
  <1>. PICK r : r = Response
    OBVIOUS
  <1>. PICK q \in (1 .. Len(published)) \ ignored : q = returned + 1
    BY <1>2
  <1>3. /\ r.id = id /\ r.n = nextResp[id] /\ r.of = q /\ published[q].id = id
        /\ r \in Responses
    BY <1>1 DEF Response, Answering, Responses, TablesOK
  <1>4. /\ sendServer' = [sendServer EXCEPT ![k] = Append(@, r)]
        /\ nextResp' = [nextResp EXCEPT ![id] = @ + 1] /\ returned' = q
        /\ UNCHANGED <<expectedResp, delivered, down, pending, published, ignored, wild, socketOf>>
    BY DEF Respond, gateways, network
  <1>5. Upto(id, q) = Upto(id, returned) + 1 /\ Upto(id, returned) \in Nat
    BY <1>1, <1>3, UptoNext, ThoseAreFinite
  <1>6. \A c \in ClientIds, p \in 0 .. Len(published) : Upto(c, p)' = Upto(c, p)
    BY <1>4 DEF Upto, Those
  <1>7. AnswersAreCounted'
    <2>. SUFFICES ASSUME NEW c \in ClientIds PROVE nextResp'[c] = Upto(c, q)' + 1
      BY <1>4 DEF AnswersAreCounted
    <2>1. Upto(c, q)' = Upto(c, q)
      BY <1>6
    <2>2. nextResp[c] = Upto(c, returned) + 1 /\ nextResp[c] \in Nat
      BY <1>1 DEF AnswersAreCounted, TablesOK
    <2>3. CASE c = id
      BY <1>1, <1>4, <1>5, <2>1, <2>2, <2>3 DEF TablesOK
    <2>4. CASE c # id
      <3>1. published[q].id # c
        BY <1>3, <2>4
      <3>2. Upto(c, q) = Upto(c, returned)
        BY <1>1, <3>1, UptoNext
      <3>. QED  BY <1>1, <1>4, <2>1, <2>2, <2>4, <3>2 DEF TablesOK
    <2>. QED  BY <2>3, <2>4
  <1>8. IsAnswer(r, k)'
    <2>1. r.n = Upto(id, q)' /\ q \in (1 .. returned') \ ignored'
      BY <1>1, <1>3, <1>4, <1>5, <1>6 DEF AnswersAreCounted
    <2>. QED  BY <1>3, <1>4, <2>1 DEF IsAnswer
  <1>9. sendServer' \in [Conns -> Seq(Responses)] /\ AnswersWait'
    <2>1. /\ Append(sendServer[k], r) \in Seq(Responses) /\ Len(sendServer[k]) \in Nat
          /\ Len(Append(sendServer[k], r)) = Len(sendServer[k]) + 1
          /\ \A i \in 1 .. Len(sendServer[k]) : Append(sendServer[k], r)[i] = sendServer[k][i]
          /\ Append(sendServer[k], r)[Len(sendServer[k]) + 1] = r
      BY <1>1, <1>3, AppendProperties, LenProperties DEF AnswerStreams
    <2>2. /\ sendServer' \in [Conns -> Seq(Responses)] /\ sendServer'[k] = Append(sendServer[k], r)
          /\ \A j \in Conns : j # k => sendServer'[j] = sendServer[j]
      BY <1>1, <1>4, <2>1 DEF AnswerStreams
    <2>3. ASSUME NEW j \in Conns, NEW i \in 1 .. Len(sendServer'[j])
          PROVE  IsAnswer(sendServer[j][i], j)'
      <3>1. CASE i \in 1 .. Len(sendServer[j]) /\ sendServer'[j][i] = sendServer[j][i]
        <4>1. IsAnswer(sendServer[j][i], j)
          BY <1>1, <3>1 DEF AnswersWait
        <4>. QED  BY <3>1, <4>1, AnswerStays
      <3>2. CASE j = k /\ sendServer'[k][i] = r
        BY <1>8, <3>2
      <3>3. \/ i \in 1 .. Len(sendServer[j]) /\ sendServer'[j][i] = sendServer[j][i]
            \/ j = k /\ sendServer'[k][i] = r
        <4>1. CASE j # k
          BY <2>2, <4>1
        <4>2. CASE j = k
          <5>1. i \in 1 .. Len(Append(sendServer[k], r)) /\ sendServer'[k] = Append(sendServer[k], r)
            BY <2>2, <4>2
          <5>2. i \in 1 .. Len(sendServer[k]) \/ i = Len(sendServer[k]) + 1
            BY <2>1, <5>1
          <5>. QED  BY <2>1, <4>2, <5>1, <5>2
        <4>. QED  BY <4>1, <4>2
      <3>. QED  BY <3>1, <3>2, <3>3
    <2>. QED  BY <2>2, <2>3 DEF AnswersWait
  <1>10. AnswerStreams'
    BY <1>1, <1>4, <1>9 DEF AnswerStreams
  <1>. QED  BY <1>4, <1>7, <1>9, <1>10, AnswersUntouched DEF AnswerInv

\* A request without an answer counts for none.
LEMMA IgnoreKeepsAnswers ==
    ASSUME SessionInv, AnswerInv, Stays, Ignore
    PROVE  AnswerInv'
  <1>1. /\ Len(published) \in Nat /\ returned \in Nat /\ AnswersAreCounted
        /\ ignored \subseteq 1 .. returned
    BY Groups, LenProperties DEF AnswerInv, EngineOK
  <1>2. /\ UNCHANGED <<sendServer, down, expectedResp, delivered, nextResp, pending, published, wild>>
        /\ returned' = returned + 1 /\ ignored' = ignored \cup {returned + 1}
    BY DEF Ignore, gateways, network, tables, faults
  <1>3. AnswersAreCounted'
    <2>. SUFFICES ASSUME NEW c \in ClientIds PROVE Upto(c, returned)' = Upto(c, returned)
      BY <1>1, <1>2 DEF AnswersAreCounted
    <2>1. (1 .. returned') \ ignored' = (1 .. returned) \ ignored
      BY <1>1, <1>2
    <2>. QED  BY <1>2, <2>1 DEF Upto, Those
  <1>. QED  BY <1>2, <1>3, AnswersUntouched DEF AnswerInv

LEMMA GatewayReceiveKeepsAnswers ==
    ASSUME SessionInv, AnswerInv, Stays, NEW k \in Conns, GatewayReceive(k)
    PROVE  AnswerInv'
  <1>1. GatewaysOK /\ AnswerStreams /\ AnswersArrive /\ AnswersAreHandedOn
    BY Groups DEF AnswerInv
  <1>2. /\ down' = [down EXCEPT ![k] = Tail(@)] /\ down[k] # <<>>
        /\ UNCHANGED <<sendServer, nextResp, returned, pending, published, wild>>
    BY DEF GatewayReceive, tables, engine
  <1>3. /\ Len(down[k]) \in Nat /\ Tail(down[k]) \in Seq(Responses) /\ Len(Tail(down[k])) = Len(down[k]) - 1
        /\ \A i \in 1 .. Len(Tail(down[k])) : Tail(down[k])[i] = down[k][i + 1]
        /\ Head(down[k]) = down[k][1] /\ 1 \in 1 .. Len(down[k])
    BY <1>1, <1>2, HeadTailProperties, LenProperties, TailKeeps DEF AnswerStreams
  <1>4. /\ down' \in [Conns -> Seq(Responses)] /\ down'[k] = Tail(down[k])
        /\ \A j \in Conns : j # k => down'[j] = down[j]
    BY <1>1, <1>2, <1>3 DEF AnswerStreams
  <1>5. AnswersArrive'
    <2>. SUFFICES ASSUME NEW j \in Conns, NEW i \in 1 .. Len(down'[j])
                  PROVE  down'[j][i].id = Fragment \/ IsAnswer(down[j][i], j)'
      BY DEF AnswersArrive
    <2>1. PICK h \in 1 .. Len(down[j]) : down'[j][i] = down[j][h]
      <3>1. CASE j = k
        <4>1. i + 1 \in 1 .. Len(down[k]) /\ down'[k][i] = down[k][i + 1]
          BY <1>3, <1>4, <3>1
        <4>. QED  BY <3>1, <4>1
      <3>2. CASE j # k
        BY <1>4, <3>2
      <3>. QED  BY <3>1, <3>2
    <2>2. down[j][h].id = Fragment \/ IsAnswer(down[j][h], j)
      BY <1>1 DEF AnswersArrive
    <2>. QED  BY <2>1, <2>2, AnswerStays
  <1>6. CASE ~IsExpected(k, Head(down[k]))
    <2>1. UNCHANGED <<expectedResp, delivered>>
      BY <1>6 DEF GatewayReceive
    <2>2. AnswerStreams'
      BY <1>1, <1>2, <1>4, <2>1 DEF AnswerStreams
    <2>. QED  BY <1>2, <1>5, <2>1, <2>2, AnswersUntouched DEF AnswerInv
  <1>7. CASE IsExpected(k, Head(down[k]))
    <2>. PICK r : r = Head(down[k])
      OBVIOUS
    <2>1. /\ expectedResp' = [expectedResp EXCEPT ![k] = @ + 1]
          /\ delivered' = [delivered EXCEPT ![k] = Append(@, r.of)]
          /\ r.id = own[k] /\ r.n = expectedResp[k]
      BY <1>7 DEF GatewayReceive, IsExpected
    <2>2. own[k] \in ClientIds /\ Fragment \notin ClientIds
      BY <1>1, NamesAssumption DEF GatewaysOK
    <2>3. IsAnswer(r, k)
      BY <1>1, <1>3, <2>1, <2>2 DEF AnswersArrive
    <2>4. Len(published) \in Nat /\ returned \in Nat /\ returned <= Len(published)
      BY Groups, LenProperties DEF EngineOK
    <2>5. r.of \in Nat /\ IsHandedOn(k, Len(delivered[k]) + 1, r.of)
      <3>1. r.of \in (1 .. returned) \ ignored /\ r.of \in Nat
        BY <2>3, <2>4 DEF IsAnswer
      <3>2. published[r.of].id = own[k] /\ socketOf[own[k]] = k /\ Upto(own[k], r.of) = r.n
        BY <2>1, <2>3, Zenon DEF IsAnswer
      <3>3. r.n = Len(delivered[k]) + 1
        BY <1>1, <2>1 DEF AnswersAreHandedOn
      <3>. QED  BY <3>1, <3>2, <3>3, Zenon DEF IsHandedOn
    <2>6. /\ Append(delivered[k], r.of) \in Seq(Nat) /\ Len(delivered[k]) \in Nat
          /\ Len(Append(delivered[k], r.of)) = Len(delivered[k]) + 1
          /\ \A i \in 1 .. Len(delivered[k]) : Append(delivered[k], r.of)[i] = delivered[k][i]
          /\ Append(delivered[k], r.of)[Len(delivered[k]) + 1] = r.of
      BY <1>1, <2>5, AppendProperties, LenProperties DEF AnswerStreams
    <2>7. /\ delivered' \in [Conns -> Seq(Nat)] /\ delivered'[k] = Append(delivered[k], r.of)
          /\ \A j \in Conns : j # k => delivered'[j] = delivered[j] /\ expectedResp'[j] = expectedResp[j]
          /\ expectedResp'[k] = expectedResp[k] + 1
      BY <1>1, <2>1, <2>6 DEF AnswerStreams, GatewaysOK
    <2>8. AnswersAreHandedOn'
      <3>1. ASSUME NEW j \in Conns, NEW i \in 1 .. Len(delivered'[j])
            PROVE  IsHandedOn(j, i, delivered[j][i])'
        <4>1. CASE i \in 1 .. Len(delivered[j]) /\ delivered'[j][i] = delivered[j][i]
          <5>1. IsHandedOn(j, i, delivered[j][i])
            BY <1>1, <4>1 DEF AnswersAreHandedOn
          <5>. QED  BY <4>1, <5>1, HandedOnStays
        <4>2. CASE j = k /\ i = Len(delivered[k]) + 1 /\ delivered'[k][i] = r.of
          <5>1. IsHandedOn(k, i, r.of)
            BY <2>5, <4>2
          <5>. QED  BY <4>2, <5>1, HandedOnStays
        <4>3. \/ i \in 1 .. Len(delivered[j]) /\ delivered'[j][i] = delivered[j][i]
              \/ j = k /\ i = Len(delivered[k]) + 1 /\ delivered'[k][i] = r.of
          <5>1. CASE j # k
            BY <2>7, <5>1
          <5>2. CASE j = k
            <6>1. i \in 1 .. Len(Append(delivered[k], r.of)) /\ delivered'[k] = Append(delivered[k], r.of)
              BY <2>7, <5>2
            <6>2. i \in 1 .. Len(delivered[k]) \/ i = Len(delivered[k]) + 1
              BY <2>6, <6>1
            <6>. QED  BY <2>6, <5>2, <6>1, <6>2
          <5>. QED  BY <5>1, <5>2
        <4>. QED  BY <4>1, <4>2, <4>3
      <3>2. \A j \in Conns : expectedResp'[j] = Len(delivered'[j]) + 1
        BY <1>1, <2>6, <2>7 DEF AnswersAreHandedOn
      <3>. QED  BY <3>1, <3>2 DEF AnswersAreHandedOn
    <2>9. AnswerStreams'
      BY <1>1, <1>2, <1>4, <2>7 DEF AnswerStreams
    <2>. QED  BY <1>2, <1>5, <2>8, <2>9, AnswersUntouched DEF AnswerInv
  <1>. QED  BY <1>6, <1>7

LEMMA AdmitKeepsAnswers ==
    ASSUME SessionInv, AnswerInv, Stays, Admit
    PROVE  AnswerInv'
  <1>1. /\ UNCHANGED <<sendServer, down, expectedResp, delivered, nextResp, returned, published, wild>>
        /\ \/ pending' = pending
           \/ pending' = Append(pending, [time |-> rxTime, of |-> Request(Frame, Current)])
    BY DEF Admit, gateways, network, engine
  <1>2. AllAreWritten'
    <2>. DEFINE entry == [time |-> rxTime, of |-> Request(Frame, Current)]
    <2>1. LoopOK /\ PendingOK /\ Current # None /\ Current \in Conns /\ Frame \in Frames /\ Frame.id \in ClientIds
      BY Groups, FrameIsTaken, NamesAssumption DEF Admit
    <2>2. entry \in [time : Nat, of : MERequests] /\ entry.of.conn # None
      BY <2>1 DEF LoopOK, Frames, Wire, Request, MERequests
    <2>. HIDE DEF entry
    <2>3. CASE pending' = pending
      BY <1>1, <2>3, AnswersUntouched
    <2>4. CASE pending' = Append(pending, entry)
      <3>1. /\ Len(pending) \in Nat /\ Len(pending') = Len(pending) + 1
            /\ \A i \in 1 .. Len(pending) : pending'[i] = pending[i]
            /\ pending'[Len(pending) + 1] = entry
        BY <2>1, <2>2, <2>4, AppendProperties, LenProperties DEF PendingOK
      <3>2. \A i \in 1 .. Len(pending') : i \in 1 .. Len(pending) \/ i = Len(pending) + 1
        BY <3>1
      <3>. SUFFICES ASSUME ~wild
                    PROVE  /\ \A i \in 1 .. Len(published) : published[i].conn # None
                           /\ \A i \in 1 .. Len(pending') : pending'[i].of.conn # None
        BY <1>1, Zenon DEF AllAreWritten
      <3>3. /\ \A i \in 1 .. Len(published) : published[i].conn # None
            /\ \A i \in 1 .. Len(pending) : pending[i].of.conn # None
        BY DEF AnswerInv, AllAreWritten
      <3>. QED  BY <2>2, <3>1, <3>2, <3>3
    <2>. QED  BY <1>1, <2>3, <2>4 DEF entry
  <1>. QED  BY <1>1, <1>2, AnswersUntouched DEF AnswerInv

LEMMA FinishKeepsAnswers ==
    ASSUME SessionInv, AnswerInv, Stays, Finish
    PROVE  AnswerInv'
  <1>1. UNCHANGED <<sendServer, down, expectedResp, delivered, nextResp, returned, wild>>
    BY DEF Finish, gateways, network, tables
  <1>2. AllAreWritten'
    <2>1. CASE ~recv
      BY <1>1, <2>1, AnswersUntouched DEF Finish
    <2>2. CASE recv
      <3>1. PICK p \in Bijection(1 .. Len(pending), 1 .. Len(pending)) : published' = published \o BatchOf(p)
        BY <2>2 DEF Finish, SequenceAndPublish, BatchOf
      <3>2. pending' = <<>>
        BY <2>2 DEF Finish, SequenceAndPublish
      <3>3. Moves(p)
        BY <3>1, BatchMoves
      <3>9. \A i \in 1 .. Len(pending') : pending'[i].of.conn # None
        BY <3>2, EmptySeq
      <3>. SUFFICES ASSUME ~wild, NEW i \in 1 .. Len(published') PROVE published'[i].conn # None
        BY <1>1, <3>9, Zenon DEF AllAreWritten
      <3>4. /\ \A j \in 1 .. Len(published) : published[j].conn # None
            /\ \A j \in 1 .. Len(pending) : pending[j].of.conn # None
        BY DEF AnswerInv, AllAreWritten
      <3>5. /\ BatchOf(p) \in Seq(MERequests) /\ Len(BatchOf(p)) = Len(pending)
            /\ \A j \in 1 .. Len(BatchOf(p)) : \E h \in 1 .. Len(pending) : BatchOf(p)[j] = pending[h].of
        BY Groups, Batch DEF PendingOK, BatchOf
      <3>6. CASE i <= Len(published)
        BY <3>4, <3>6 DEF Stays
      <3>7. CASE i > Len(published)
        <4>1. /\ Len(published) \in Nat /\ Len(BatchOf(p)) \in Nat
              /\ published \in Seq(MERequests)
          BY <3>5, Groups, LenProperties DEF EngineOK
        <4>2. /\ Len(published') = Len(published) + Len(BatchOf(p))
              /\ \A j \in 1 .. Len(published) + Len(BatchOf(p)) : published'[j] =
                    IF j <= Len(published) THEN published[j] ELSE BatchOf(p)[j - Len(published)]
          <5>1. BatchOf(p) \in Seq(MERequests)
            BY <3>5
          <5>2. published \in Seq(MERequests)
            BY <4>1
          <5>. QED  BY <3>1, <5>1, <5>2, ConcatProperties, Zenon
        <4>3. i - Len(published) \in 1 .. Len(BatchOf(p)) /\ published'[i] = BatchOf(p)[i - Len(published)]
          BY <3>7, <4>1, <4>2
        <4>. QED  BY <3>4, <3>5, <4>3
      <3>8. Len(published) \in Nat
        BY Groups, LenProperties DEF EngineOK
      <3>. QED  BY <3>6, <3>7, <3>8
    <2>. QED  BY <2>1, <2>2
  <1>. QED  BY <1>1, <1>2, AnswersUntouched DEF AnswerInv

LEMMA NextKeepsAnswers == SessionInv /\ AnswerInv /\ [Next]_vars => AnswerInv'
  <1>. SUFFICES ASSUME SessionInv, AnswerInv, [Next]_vars PROVE AnswerInv'
    OBVIOUS
  <1>. Stays
    BY EverythingStays
  <1>1. ASSUME NEW k \in Conns, GatewayReceive(k) PROVE AnswerInv'
    BY <1>1, GatewayReceiveKeepsAnswers
  <1>2. CASE Admit \/ ServerSend \/ Finish \/ Ignore
    BY <1>2, AdmitKeepsAnswers, ServerSendKeepsAnswers, FinishKeepsAnswers, IgnoreKeepsAnswers
  <1>3. CASE Running /\ Respond
    <2>1. CASE socketOf[Answering.id] # None
      BY <1>3, <2>1, RespondKeepsAnswers
    <2>2. CASE socketOf[Answering.id] = None
      <3>1. UNCHANGED <<sendServer, down, expectedResp, delivered, nextResp, returned, pending, published, wild>>
        BY <1>3, <2>2 DEF Respond, gateways, network
      <3>. QED  BY <3>1, AnswersUntouched DEF AnswerInv
    <2>. QED  BY <2>1, <2>2
  <1>4. CASE \/ \E k \in Conns : Connect(k) \/ Leave(k)
             \/ \E k \in Conns : \E m \in 1 .. 2 : \E ids \in [1 .. m -> ClientIds \cup {Beyond}] :
                   GatewaySend(k, ids)
             \/ Poll \/ Read \/ CannotHandle \/ Refuse \/ EngineStops
             \/ UNCHANGED vars
    <2>1. UNCHANGED <<sendServer, down, expectedResp, delivered, nextResp, returned, pending, published, wild>>
      BY <1>4 DEF Connect, Leave, GatewaySend, Poll, Read, CannotHandle, Refuse, EngineStops, vars,
                  gateways, network, tables, engine, faults
    <2>. QED  BY <2>1, AnswersUntouched DEF AnswerInv
  <1>. QED  BY <1>1, <1>2, <1>3, <1>4 DEF Next, Quiet

LEMMA AnswerInvariant == Spec => []AnswerInv
  BY InitIsAnswer, NextKeepsAnswers, SessionInvariant, PTL DEF Spec

\* A gateway hands its trade engine the answers to the requests of its own client, in the
\* order these were published and none missing but those of requests the engine ignores,
\* whatever the sockets lose or cut short.
THEOREM AnswersAreTheClients == Spec => []AnswersReachTheirClient
  <1>1. SessionInv /\ OrderInv /\ AnswerInv => AnswersReachTheirClient
    <2>. SUFFICES ASSUME SessionInv, OrderInv, AnswerInv, ~wild, NEW k \in Conns, NEW j \in 1 .. Len(delivered[k])
                  PROVE  /\ delivered[k][j] \in OwnRequests(k) \ ignored
                         /\ {delivered[k][h] : h \in 1 .. j - 1} =
                               {i \in OwnRequests(k) \ ignored : i < delivered[k][j]}
      BY DEF AnswersReachTheirClient
    <2>. DEFINE id == own[k]
    <2>1. id \in ClientIds /\ Len(delivered[k]) \in Nat
      BY Groups, LenProperties DEF GatewaysOK, AnswerInv, AnswerStreams
    <2>2. \A h \in 1 .. Len(delivered[k]) :
             /\ delivered[k][h] \in (1 .. Len(published)) \ ignored
             /\ published[delivered[k][h]].id = id
             /\ Upto(id, delivered[k][h]) = h /\ socketOf[id] = k
      <3>1. returned \in Nat /\ returned <= Len(published) /\ Len(published) \in Nat
        BY Groups, LenProperties DEF EngineOK
      <3>2. \A h \in 1 .. Len(delivered[k]) : IsHandedOn(k, h, delivered[k][h])
        BY DEF AnswerInv, AnswersAreHandedOn
      <3>. QED  BY <3>1, <3>2 DEF IsHandedOn
    <2>3. \A i \in 1 .. Len(published) : published[i].conn # None
      BY DEF AnswerInv, AllAreWritten
    <2>4. ASSUME NEW i \in 1 .. Len(published), published[i].id = id PROVE published[i].conn = k
      <3>1. i \in Taken(id) /\ socketOf[id] = k
        BY <2>2, <2>3, <2>4 DEF Taken
      <3>. QED  BY <2>1, <3>1 DEF OrderInv, NumbersAreExpected
    <2>5. /\ OwnRequests(k) = {i \in 1 .. Len(published) : published[i].id = id}
          /\ \A h \in 1 .. Len(delivered[k]) : delivered[k][h] \in OwnRequests(k) \ ignored
      BY <2>2, <2>4 DEF OwnRequests
    <2>. HIDE DEF id
    <2>6. ASSUME NEW h \in 1 .. j - 1 PROVE delivered[k][h] < delivered[k][j]
      <3>1. h \in 1 .. Len(delivered[k]) /\ h < j
        BY <2>1
      <3>. PICK p \in (1 .. Len(published)) \ ignored, q \in (1 .. Len(published)) \ ignored : p = delivered[k][h] /\ q = delivered[k][j]
        BY <2>2, <3>1
      <3>2. /\ published[p].id = id /\ published[q].id = id
            /\ Upto(id, p) = h /\ Upto(id, q) = j /\ p \in Nat /\ q \in Nat
        BY <2>2, <3>1
      <3>3. Upto(id, p) < Upto(id, q)
        BY <3>1, <3>2
      <3>4. p < q
        BY <3>2, <3>3, UptoIsOnce
      <3>. QED  BY <3>4
    <2>7. ASSUME NEW i \in OwnRequests(k) \ ignored, i < delivered[k][j] PROVE \E h \in 1 .. j - 1 : delivered[k][h] = i
      <3>1. i \in 1 .. Len(published) /\ published[i].id = id /\ i \notin ignored
        BY <2>5, <2>7
      <3>2. Upto(id, i) \in Nat /\ Upto(id, i) > 0
        <4>1. i \in Nat /\ 0 < i
          BY <3>1
        <4>2. Upto(id, i) \in Nat /\ Upto(id, 0) = 0
          BY <4>1, ThoseAreFinite, UptoNothing
        <4>3. Upto(id, 0) < Upto(id, i)
          BY <3>1, <4>1, UptoGrows
        <4>. QED  BY <4>2, <4>3
      <3>5. Upto(id, i) < j
        <4>. PICK q \in (1 .. Len(published)) \ ignored : q = delivered[k][j]
          BY <2>2
        <4>1. i \in Nat /\ q \in Nat /\ i < q /\ published[q].id = id /\ Upto(id, q) = j
          BY <2>2, <2>7, <3>1
        <4>2. Upto(id, i) < Upto(id, q)
          BY <4>1, UptoGrows
        <4>. QED  BY <4>1, <4>2
      <3>3. Upto(id, i) \in 1 .. j - 1 /\ Upto(id, i) \in 1 .. Len(delivered[k])
        BY <2>1, <3>2, <3>5
      <3>4. delivered[k][Upto(id, i)] = i
        BY <2>2, <3>1, <3>3, UptoIsOnce
      <3>. QED  BY <3>3, <3>4
    <2>8. \A h \in 1 .. j - 1 : h \in 1 .. Len(delivered[k])
      BY <2>1
    <2>9. {delivered[k][h] : h \in 1 .. j - 1} \subseteq {i \in OwnRequests(k) \ ignored : i < delivered[k][j]}
      BY <2>5, <2>6, <2>8
    <2>10. {i \in OwnRequests(k) \ ignored : i < delivered[k][j]} \subseteq {delivered[k][h] : h \in 1 .. j - 1}
      BY <2>7
    <2>11. delivered[k][j] \in OwnRequests(k) \ ignored
      BY <2>5
    <2>. QED  BY <2>9, <2>10, <2>11
  <1>. QED  BY <1>1, SessionInvariant, OrderInvariant, AnswerInvariant, PTL
=============================================================================
