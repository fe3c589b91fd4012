--------------------------- MODULE LifecycleProof ---------------------------
(***************************************************************************)
(* Lifecycle, for every set of tickers and every bound on the queues.  The  *)
(* invariant says where in its text each actor is, and what must have been  *)
(* done for it to be there.                                                 *)
(***************************************************************************)
EXTENDS Lifecycle, SequenceTheorems, TLAPS

\* The steps of a text from the p-th on, and what those before it did.
From(text, p) == SubSeq(text, p, Len(text))
Did(text, op, p) == {text[k][2] : k \in {j \in 1 .. p - 1 : text[j][1] = op}}

TestFirst == << <<"test", "main">> >>
Dies(a) == todo[a] \in {<< <<"test", "main">>, <<"die", "main">> >>, << <<"die", "main">> >>}

\* A thread that no destructor has to wait for any more.
Settled(t) == thread[t] = "joined" \/ (t = "engine" /\ t \notin handles)

(* The exchange. *)

\* Main is in ExchangeMain, or about to enter the handler from there.
Prepares(p) ==
    /\ todo["main"] \in {From(ExchangeMain, p), TestFirst \o From(ExchangeMain, p)}
    /\ \A t \in Exchange : thread[t] = "none" <=> t \notin Did(ExchangeMain, "spawn", p)
    /\ p <= 10 => /\ objects = Did(ExchangeMain, "new", p)
                  /\ handles = Did(ExchangeMain, "assign", p)
                  /\ ~destroying
                  /\ \A t \in Threads : todo[t] = <<>>

\* An actor is in the handler, at the i-th step.
Deletes(a, i) ==
    /\ todo[a] = From(Interrupted, i)
    /\ \A k \in 2 .. i - 1 : Interrupted[k][2] \notin objects

\* The destructor that the step before the i-th calls, and an actor at its j-th step.
Destruction(i) == Destructor(Interrupted[i - 1][2])

Destroys(a, i, j) ==
    /\ j \in 1 .. Len(Destruction(i))
    /\ todo[a] = From(Destruction(i), j) \o From(Interrupted, i)
    /\ \A k \in 2 .. i - 2 : Interrupted[k][2] \notin objects
    /\ \A m \in 1 .. j - 1 : Destruction(i)[m][1] = "join" => Settled(Destruction(i)[m][2])

Handles(a) == \/ Dies(a)
              \/ \E i \in 1 .. 5 : Deletes(a, i)
              \/ \E i \in 3 .. 5 : \E j \in 1 .. 5 : Destroys(a, i, j)

ExchangeInv ==
    /\ Handles("main") \/ \E p \in 1 .. 12 : Prepares(p)
    /\ \A t \in Threads : todo[t] = <<>> \/ Handles(t)
    /\ thread["server"] \in {"none", "announced"} => \A t \in Threads : todo[t] = <<>>
    /\ thread["server"] # "none" => "engine" \in handles \/ thread["engine"] = "joined"
    /\ \A t \in failed \cap Threads : thread[t] = "failed" /\ t \in Exchange
    /\ failed \cap Threads # {} => thread["server"] # "none"

(* The trading program. *)
Proceeds(p) ==
    /\ todo["main"] = From(TradingMain, p)
    /\ \A t \in Trading : thread[t] = "none" <=> t \notin Did(TradingMain, "spawn", p)
    /\ objects = Did(TradingMain, "new", p)
    /\ p > 13 => thread["tradeEngine"] = "joined"

Deadends(j) ==
    /\ todo["main"] = From(Destructor("tradeEngine"), j) \o From(TradingMain, 20)
    /\ thread["tradeEngine"] = "joined"

TradingInv ==
    /\ \/ todo["main"] = << <<"die", "main">> >>
       \/ \E p \in 1 .. 19 : Proceeds(p)
       \/ \E j \in 1 .. 3 : Deadends(j)
    /\ \A t \in Threads : todo[t] = <<>>
    /\ thread["server"] = "none"

TypeInv ==
    /\ TypeOK
    /\ responses \in Nat /\ updates \in Nat
    /\ looping => thread["tradeEngine"] = "running"
    /\ todo = [a \in Actors |-> todo[a]]

LifeInv ==
    /\ TypeInv
    /\ program = "exchange" => ExchangeInv
    /\ program = "trading" => TradingInv
    /\ NoThreadOutlivesItsObject
    /\ SuccessMeansNoFailure

-----------------------------------------------------------------------------
(* The texts.                                                               *)

Ops == {"new", "spawn", "assign", "flag", "join", "free", "delete", "drain", "print",
        "silence", "sleep", "claim", "test", "exit", "die"}
Step == Ops \X Actors

LEMMA FromStep ==
    ASSUME NEW text \in Seq(Step), NEW p \in 1 .. Len(text)
    PROVE  /\ From(text, p) \in Seq(Step) /\ From(text, p) # <<>>
           /\ Head(From(text, p)) = text[p]
           /\ Tail(From(text, p)) = From(text, p + 1)
  <1>1. From(text, p) \in Seq(Step) /\ Len(From(text, p)) = Len(text) - p + 1
        /\ \A k \in 1 .. Len(text) - p + 1 : From(text, p)[k] = text[p + k - 1]
    BY SubSeqProperties DEF From
  <1>2. From(text, p + 1) \in Seq(Step) /\ Len(From(text, p + 1)) = Len(text) - p
        /\ \A k \in 1 .. Len(text) - p : From(text, p + 1)[k] = text[p + k]
    BY SubSeqProperties DEF From
  <1>3. From(text, p) # <<>> /\ Head(From(text, p)) = text[p]
    BY <1>1
  <1>4. Tail(From(text, p)) \in Seq(Step) /\ Len(Tail(From(text, p))) = Len(text) - p
        /\ \A k \in 1 .. Len(text) - p : Tail(From(text, p))[k] = From(text, p)[k + 1]
    BY <1>1, <1>3, HeadTailProperties
  <1>5. \A k \in 1 .. Len(text) - p : Tail(From(text, p))[k] = From(text, p + 1)[k]
    <2>. TAKE k \in 1 .. Len(text) - p
    <2>1. From(text, p)[k + 1] = text[p + (k + 1) - 1]
      BY <1>1
    <2>. QED  BY <1>2, <1>4, <2>1
  <1>. QED  BY <1>1, <1>2, <1>3, <1>4, <1>5, SeqEqual

LEMMA FromEnds ==
    ASSUME NEW text \in Seq(Step)
    PROVE  From(text, 1) = text /\ From(text, Len(text) + 1) = <<>>
  BY SubSeqProperties, SeqEqual DEF From

LEMMA FromThen ==
    ASSUME NEW text \in Seq(Step), NEW p \in 1 .. Len(text), NEW rest \in Seq(Step)
    PROVE  /\ From(text, p) \o rest # <<>>
           /\ Head(From(text, p) \o rest) = text[p]
           /\ Tail(From(text, p) \o rest) = From(text, p + 1) \o rest
  <1>1. /\ From(text, p) \in Seq(Step) /\ From(text, p) # <<>>
        /\ Head(From(text, p)) = text[p] /\ Tail(From(text, p)) = From(text, p + 1)
    BY FromStep
  <1>. PICK s \in Seq(Step) : s = From(text, p)
    BY <1>1
  <1>2. s \o rest # <<>> /\ Head(s \o rest) = Head(s) /\ Tail(s \o rest) = Tail(s) \o rest
    BY <1>1
  <1>. QED  BY <1>1, <1>2

LEMMA OneBefore ==
    ASSUME NEW s \in Step, NEW rest \in Seq(Step)
    PROVE  <<s>> \o rest # <<>> /\ Head(<<s>> \o rest) = s /\ Tail(<<s>> \o rest) = rest
  OBVIOUS

LEMMA OneAfterAnother ==
    ASSUME NEW s \in Seq(Step), NEW t \in Seq(Step), NEW both, both = s \o t
    PROVE  /\ both \in Seq(Step) /\ Len(both) = Len(s) + Len(t)
           /\ \A k \in 1 .. Len(s) : both[k] = s[k]
           /\ \A k \in 1 .. Len(t) : both[Len(s) + k] = t[k]
  BY ConcatProperties

LEMMA DidOneMore ==
    ASSUME NEW text, NEW op, NEW p \in Nat \ {0}
    PROVE  Did(text, op, p + 1) =
             Did(text, op, p) \cup (IF text[p][1] = op THEN {text[p][2]} ELSE {})
  <1>1. 1 .. p + 1 - 1 = (1 .. p - 1) \cup {p}
    OBVIOUS
  <1>. QED  BY <1>1 DEF Did

LEMMA StartSteps ==
    ASSUME NEW c \in Threads
    PROVE  /\ Start(c) \in Seq(Step) /\ Len(Start(c)) = 2
           /\ Start(c)[1] = <<"spawn", c>> /\ Start(c)[2] = <<"assign", c>>
  BY DEF Start, Step, Ops, Actors

LEMMA MakeSteps ==
    ASSUME NEW c \in Threads
    PROVE  /\ Make(c) \in Seq(Step) /\ Len(Make(c)) = 3
           /\ Make(c)[1] = <<"new", c>> /\ Make(c)[2] = <<"spawn", c>>
           /\ Make(c)[3] = <<"assign", c>>
  BY DEF Make, Start, Step, Ops, Actors

LEMMA JoinSteps ==
    ASSUME NEW c \in Threads
    PROVE  /\ Join(c) \in Seq(Step) /\ Len(Join(c)) = 2
           /\ Join(c)[1] = <<"flag", c>> /\ Join(c)[2] = <<"join", c>>
  BY DEF Join, Step, Ops, Actors

LEMMA ExchangeText ==
    /\ ExchangeMain \in Seq(Step) /\ Len(ExchangeMain) = 12
    /\ ExchangeMain[1] = <<"new", "engine">> /\ ExchangeMain[2] = <<"spawn", "engine">>
    /\ ExchangeMain[3] = <<"assign", "engine">>
    /\ ExchangeMain[4] = <<"new", "publisher">> /\ ExchangeMain[5] = <<"spawn", "publisher">>
    /\ ExchangeMain[6] = <<"assign", "publisher">>
    /\ ExchangeMain[7] = <<"spawn", "synthesizer">> /\ ExchangeMain[8] = <<"assign", "synthesizer">>
    /\ ExchangeMain[9] = <<"new", "server">> /\ ExchangeMain[10] = <<"spawn", "server">>
    /\ ExchangeMain[11] = <<"assign", "server">> /\ ExchangeMain[12] = <<"sleep", "main">>
  <1>0. PICK sleep : sleep = << <<"sleep", "main">> >>
    OBVIOUS
  <1>1. sleep \in Seq(Step) /\ Len(sleep) = 1 /\ sleep[1] = <<"sleep", "main">>
    BY <1>0 DEF Step, Ops, Actors
  <1>00. PICK m1, m2, m3, m4 : m1 = Make("engine") /\ m2 = Make("publisher")
                             /\ m3 = Start("synthesizer") /\ m4 = Make("server")
    OBVIOUS
  <1>2. /\ m1 \in Seq(Step) /\ Len(m1) = 3 /\ m1[1] = <<"new", "engine">>
        /\ m1[2] = <<"spawn", "engine">> /\ m1[3] = <<"assign", "engine">>
    BY <1>00, MakeSteps DEF Threads, Exchange
  <1>3. /\ m2 \in Seq(Step) /\ Len(m2) = 3 /\ m2[1] = <<"new", "publisher">>
        /\ m2[2] = <<"spawn", "publisher">> /\ m2[3] = <<"assign", "publisher">>
    BY <1>00, MakeSteps DEF Threads, Exchange
  <1>4. /\ m3 \in Seq(Step) /\ Len(m3) = 2
        /\ m3[1] = <<"spawn", "synthesizer">> /\ m3[2] = <<"assign", "synthesizer">>
    BY <1>00, StartSteps DEF Threads, Exchange
  <1>5. /\ m4 \in Seq(Step) /\ Len(m4) = 3 /\ m4[1] = <<"new", "server">>
        /\ m4[2] = <<"spawn", "server">> /\ m4[3] = <<"assign", "server">>
    BY <1>00, MakeSteps DEF Threads, Exchange
  <1>6. PICK a2 : a2 = m1 \o m2
    OBVIOUS
  <1>7. /\ a2 \in Seq(Step) /\ Len(a2) = Len(m1) + Len(m2)
        /\ \A k \in 1 .. Len(m1) : a2[k] = m1[k]
        /\ \A k \in 1 .. Len(m2) : a2[Len(m1) + k] = m2[k]
    <2>1. m1 \in Seq(Step) /\ m2 \in Seq(Step)
      BY <1>2, <1>3, <1>6
    <2>2. a2 = m1 \o m2
      BY <1>2, <1>3, <1>6
    <2>. QED  BY <2>1, <2>2, OneAfterAnother
  <1>8. /\ a2 \in Seq(Step) /\ Len(a2) = 6 /\ \A k \in 1 .. 3 : a2[k] = m1[k]
        /\ a2[4] = m2[1] /\ a2[5] = m2[2] /\ a2[6] = m2[3]
    BY <1>2, <1>3, <1>7
  <1>9. PICK a3 : a3 = a2 \o m3
    OBVIOUS
  <1>10. /\ a3 \in Seq(Step) /\ Len(a3) = Len(a2) + Len(m3)
         /\ \A k \in 1 .. Len(a2) : a3[k] = a2[k]
         /\ \A k \in 1 .. Len(m3) : a3[Len(a2) + k] = m3[k]
    <2>1. a2 \in Seq(Step) /\ m3 \in Seq(Step)
      BY <1>8, <1>4, <1>9
    <2>2. a3 = a2 \o m3
      BY <1>8, <1>4, <1>9
    <2>. QED  BY <2>1, <2>2, OneAfterAnother
  <1>11. /\ a3 \in Seq(Step) /\ Len(a3) = 8 /\ \A k \in 1 .. 6 : a3[k] = a2[k]
         /\ a3[7] = m3[1] /\ a3[8] = m3[2]
    BY <1>8, <1>4, <1>10
  <1>12. PICK a4 : a4 = a3 \o m4
    OBVIOUS
  <1>13. /\ a4 \in Seq(Step) /\ Len(a4) = Len(a3) + Len(m4)
         /\ \A k \in 1 .. Len(a3) : a4[k] = a3[k]
         /\ \A k \in 1 .. Len(m4) : a4[Len(a3) + k] = m4[k]
    <2>1. a3 \in Seq(Step) /\ m4 \in Seq(Step)
      BY <1>11, <1>5, <1>12
    <2>2. a4 = a3 \o m4
      BY <1>11, <1>5, <1>12
    <2>. QED  BY <2>1, <2>2, OneAfterAnother
  <1>14. /\ a4 \in Seq(Step) /\ Len(a4) = 11 /\ \A k \in 1 .. 8 : a4[k] = a3[k]
         /\ a4[9] = m4[1] /\ a4[10] = m4[2] /\ a4[11] = m4[3]
    BY <1>11, <1>5, <1>13
  <1>15. PICK a5 : a5 = a4 \o sleep
    OBVIOUS
  <1>16. /\ a5 \in Seq(Step) /\ Len(a5) = Len(a4) + Len(sleep)
         /\ \A k \in 1 .. Len(a4) : a5[k] = a4[k]
         /\ \A k \in 1 .. Len(sleep) : a5[Len(a4) + k] = sleep[k]
    <2>1. a4 \in Seq(Step) /\ sleep \in Seq(Step)
      BY <1>14, <1>1, <1>15
    <2>2. a5 = a4 \o sleep
      BY <1>14, <1>1, <1>15
    <2>. QED  BY <2>1, <2>2, OneAfterAnother
  <1>17. /\ a5 \in Seq(Step) /\ Len(a5) = 12 /\ \A k \in 1 .. 11 : a5[k] = a4[k]
         /\ a5[12] = sleep[1]
    BY <1>14, <1>1, <1>16, SMTT(30)
  <1>18. ExchangeMain = a5
    BY <1>0, <1>00, <1>6, <1>9, <1>12, <1>15, Zenon DEF ExchangeMain
  <1>. QED  BY <1>1, <1>2, <1>3, <1>4, <1>5, <1>8, <1>11, <1>14, <1>17, <1>18

LEMMA InterruptedText ==
    /\ Interrupted \in Seq(Step) /\ Len(Interrupted) = 5
    /\ Interrupted[1] = <<"claim", "main">> /\ Interrupted[2] = <<"delete", "publisher">>
    /\ Interrupted[3] = <<"delete", "server">> /\ Interrupted[4] = <<"delete", "engine">>
    /\ Interrupted[5] = <<"exit", "main">>
  BY DEF Interrupted, Step, Ops, Actors, Threads, Exchange

LEMMA FreeStep ==
    ASSUME NEW c \in Threads
    PROVE  << <<"free", c>> >> \in Seq(Step) /\ Len(<< <<"free", c>> >>) = 1
           /\ << <<"free", c>> >>[1] = <<"free", c>>
  BY DEF Step, Ops, Actors

LEMMA PlainDestructor ==
    ASSUME NEW c \in {"server", "engine"}
    PROVE  /\ Destructor(c) \in Seq(Step) /\ Len(Destructor(c)) = 3
           /\ Destructor(c)[1] = <<"flag", c>> /\ Destructor(c)[2] = <<"join", c>>
           /\ Destructor(c)[3] = <<"free", c>>
  <1>1. PICK j, f, d : j = Join(c) /\ f = << <<"free", c>> >> /\ d = j \o f
    OBVIOUS
  <1>2. Destructor(c) = d
    BY <1>1 DEF Destructor, Stop
  <1>3. /\ j \in Seq(Step) /\ Len(j) = 2 /\ j[1] = <<"flag", c>> /\ j[2] = <<"join", c>>
        /\ f \in Seq(Step) /\ Len(f) = 1 /\ f[1] = <<"free", c>>
    BY <1>1, JoinSteps, FreeStep DEF Threads, Exchange
  <1>4. /\ d \in Seq(Step) /\ Len(d) = Len(j) + Len(f)
        /\ \A k \in 1 .. Len(j) : d[k] = j[k]
        /\ \A k \in 1 .. Len(f) : d[Len(j) + k] = f[k]
    <2>1. j \in Seq(Step) /\ f \in Seq(Step)
      BY <1>1, <1>3
    <2>2. d = j \o f
      BY <1>1, <1>3
    <2>. QED  BY <2>1, <2>2, OneAfterAnother
  <1>5. /\ d \in Seq(Step) /\ Len(d) = 3 /\ d[1] = j[1] /\ d[2] = j[2] /\ d[3] = f[1]
    BY <1>3, <1>4
  <1>. QED  BY <1>2, <1>3, <1>5

LEMMA PublisherDestructor ==
    /\ Destructor("publisher") \in Seq(Step) /\ Len(Destructor("publisher")) = 5
    /\ Destructor("publisher")[1] = <<"flag", "publisher">>
    /\ Destructor("publisher")[2] = <<"join", "publisher">>
    /\ Destructor("publisher")[3] = <<"flag", "synthesizer">>
    /\ Destructor("publisher")[4] = <<"join", "synthesizer">>
    /\ Destructor("publisher")[5] = <<"free", "publisher">>
  <1>1. PICK j, l, f, b, d : /\ j = Join("publisher") /\ l = Join("synthesizer")
                            /\ f = << <<"free", "publisher">> >>
                            /\ b = j \o l /\ d = b \o f
    OBVIOUS
  <1>2. Destructor("publisher") = d
    BY <1>1 DEF Destructor, Stop
  <1>3. /\ j \in Seq(Step) /\ Len(j) = 2
        /\ j[1] = <<"flag", "publisher">> /\ j[2] = <<"join", "publisher">>
        /\ l \in Seq(Step) /\ Len(l) = 2
        /\ l[1] = <<"flag", "synthesizer">> /\ l[2] = <<"join", "synthesizer">>
        /\ f \in Seq(Step) /\ Len(f) = 1 /\ f[1] = <<"free", "publisher">>
    BY <1>1, JoinSteps, FreeStep DEF Threads, Exchange
  <1>4. /\ b \in Seq(Step) /\ Len(b) = Len(j) + Len(l)
        /\ \A i \in 1 .. Len(j) : b[i] = j[i]
        /\ \A i \in 1 .. Len(l) : b[Len(j) + i] = l[i]
    <2>1. j \in Seq(Step) /\ l \in Seq(Step)
      BY <1>1, <1>3
    <2>2. b = j \o l
      BY <1>1, <1>3
    <2>. QED  BY <2>1, <2>2, OneAfterAnother
  <1>5. /\ b \in Seq(Step) /\ Len(b) = 4
        /\ b[1] = j[1] /\ b[2] = j[2] /\ b[3] = l[1] /\ b[4] = l[2]
    BY <1>3, <1>4
  <1>6. /\ d \in Seq(Step) /\ Len(d) = Len(b) + Len(f)
        /\ \A i \in 1 .. Len(b) : d[i] = b[i]
        /\ \A i \in 1 .. Len(f) : d[Len(b) + i] = f[i]
    <2>1. b \in Seq(Step) /\ f \in Seq(Step)
      BY <1>1, <1>3, <1>5
    <2>2. d = b \o f
      BY <1>1, <1>3, <1>5
    <2>. QED  BY <2>1, <2>2, OneAfterAnother
  <1>7. /\ d \in Seq(Step) /\ Len(d) = 5 /\ \A i \in 1 .. 4 : d[i] = b[i]
        /\ d[5] = f[1]
    BY <1>3, <1>5, <1>6
  <1>. QED  BY <1>2, <1>3, <1>5, <1>7

LEMMA DidNow ==
    ASSUME NEW text, NEW p \in Nat \ {0}
    PROVE  /\ Did(text, text[p][1], p + 1) = Did(text, text[p][1], p) \cup {text[p][2]}
           /\ \A other : other # text[p][1] => Did(text, other, p + 1) = Did(text, other, p)
  <1>. DEFINE op == text[p][1]
  <1>1. ASSUME NEW any
        PROVE  Did(text, any, p + 1) =
                 Did(text, any, p) \cup (IF text[p][1] = any THEN {text[p][2]} ELSE {})
    BY DidOneMore, Zenon
  <1>2. Did(text, op, p + 1) = Did(text, op, p) \cup {text[p][2]}
    BY <1>1
  <1>3. ASSUME NEW other, other # op
        PROVE  Did(text, other, p + 1) = Did(text, other, p)
    <2>1. Did(text, other, p + 1) = Did(text, other, p) \cup {}
      BY <1>1, <1>3
    <2>. QED  BY <2>1
  <1>. QED  BY <1>2, <1>3

LEMMA TradeEngineStop ==
    /\ Stop("tradeEngine") \in Seq(Step) /\ Len(Stop("tradeEngine")) = 4
    /\ Stop("tradeEngine")[1] = <<"drain", "tradeEngine">>
    /\ Stop("tradeEngine")[2] = <<"flag", "tradeEngine">>
    /\ Stop("tradeEngine")[3] = <<"join", "tradeEngine">>
    /\ Stop("tradeEngine")[4] = <<"print", "tradeEngine">>
  <1>1. PICK d, j, r :
           /\ d = << <<"drain", "tradeEngine">> >>
           /\ j = Join("tradeEngine")
           /\ r = << <<"print", "tradeEngine">> >>
    OBVIOUS
  <1>2. /\ d \in Seq(Step) /\ Len(d) = 1
        /\ d[1] = <<"drain", "tradeEngine">>
    BY <1>1 DEF Step, Ops, Actors, Threads, Trading
  <1>3. /\ j \in Seq(Step) /\ Len(j) = 2
        /\ j[1] = <<"flag", "tradeEngine">> /\ j[2] = <<"join", "tradeEngine">>
    BY <1>1, JoinSteps DEF Threads, Trading
  <1>4. /\ r \in Seq(Step) /\ Len(r) = 1
        /\ r[1] = <<"print", "tradeEngine">>
    BY <1>1 DEF Step, Ops, Actors, Threads, Trading
  <1>5. PICK a2 : a2 = d \o j
    OBVIOUS
  <1>6. /\ a2 \in Seq(Step) /\ Len(a2) = Len(d) + Len(j)
        /\ \A k \in 1 .. Len(d) : a2[k] = d[k]
        /\ \A k \in 1 .. Len(j) : a2[Len(d) + k] = j[k]
    <2>1. d \in Seq(Step) /\ j \in Seq(Step)
      BY <1>2, <1>3
    <2>. QED  BY <1>5, <2>1, OneAfterAnother
  <1>7. /\ a2 \in Seq(Step) /\ Len(a2) = 3 /\ \A k \in 1 .. 1 : a2[k] = d[k]
        /\ a2[2] = j[1] /\ a2[3] = j[2]
    BY <1>2, <1>3, <1>6
  <1>8. PICK a3 : a3 = a2 \o r
    OBVIOUS
  <1>9. /\ a3 \in Seq(Step) /\ Len(a3) = Len(a2) + Len(r)
        /\ \A k \in 1 .. Len(a2) : a3[k] = a2[k]
        /\ \A k \in 1 .. Len(r) : a3[Len(a2) + k] = r[k]
    <2>1. a2 \in Seq(Step) /\ r \in Seq(Step)
      BY <1>7, <1>4
    <2>. QED  BY <1>8, <2>1, OneAfterAnother
  <1>10. /\ a3 \in Seq(Step) /\ Len(a3) = 4 /\ \A k \in 1 .. 3 : a3[k] = a2[k]
         /\ a3[4] = r[1]
    BY <1>7, <1>4, <1>9
  <1>11. Stop("tradeEngine") = a3
    BY <1>1, <1>5, <1>8, Zenon DEF Stop
  <1>. QED  BY <1>2, <1>3, <1>4, <1>7, <1>10, <1>11

LEMMA TradeEngineDestructor ==
    /\ Destructor("tradeEngine") \in Seq(Step) /\ Len(Destructor("tradeEngine")) = 5
    /\ Destructor("tradeEngine")[1] = <<"drain", "tradeEngine">>
    /\ Destructor("tradeEngine")[2] = <<"flag", "tradeEngine">>
    /\ Destructor("tradeEngine")[3] = <<"join", "tradeEngine">>
  <1>1. PICK s, f :
           /\ s = Stop("tradeEngine")
           /\ f = << <<"free", "tradeEngine">> >>
    OBVIOUS
  <1>2. /\ s \in Seq(Step) /\ Len(s) = 4
        /\ s[1] = <<"drain", "tradeEngine">> /\ s[2] = <<"flag", "tradeEngine">>
        /\ s[3] = <<"join", "tradeEngine">> /\ s[4] = <<"print", "tradeEngine">>
    BY <1>1, TradeEngineStop
  <1>3. /\ f \in Seq(Step) /\ Len(f) = 1
        /\ f[1] = <<"free", "tradeEngine">>
    BY <1>1 DEF Step, Ops, Actors, Threads, Trading
  <1>4. PICK a2 : a2 = s \o f
    OBVIOUS
  <1>5. /\ a2 \in Seq(Step) /\ Len(a2) = Len(s) + Len(f)
        /\ \A k \in 1 .. Len(s) : a2[k] = s[k]
        /\ \A k \in 1 .. Len(f) : a2[Len(s) + k] = f[k]
    <2>1. s \in Seq(Step) /\ f \in Seq(Step)
      BY <1>2, <1>3
    <2>. QED  BY <1>4, <2>1, OneAfterAnother
  <1>6. /\ a2 \in Seq(Step) /\ Len(a2) = 5 /\ \A k \in 1 .. 4 : a2[k] = s[k]
        /\ a2[5] = f[1]
    BY <1>2, <1>3, <1>5
  <1>7. Destructor("tradeEngine") = a2
    BY <1>1, <1>4, Zenon DEF Destructor
  <1>. QED  BY <1>2, <1>3, <1>6, <1>7

LEMMA TradingText ==
    /\ TradingMain \in Seq(Step) /\ Len(TradingMain) = 22
    /\ TradingMain[1] = <<"new", "tradeEngine">>
    /\ TradingMain[2] = <<"spawn", "tradeEngine">>
    /\ TradingMain[3] = <<"assign", "tradeEngine">>
    /\ TradingMain[4] = <<"new", "gateway">>
    /\ TradingMain[5] = <<"spawn", "gateway">>
    /\ TradingMain[6] = <<"assign", "gateway">>
    /\ TradingMain[7] = <<"new", "consumer">>
    /\ TradingMain[8] = <<"spawn", "consumer">>
    /\ TradingMain[9] = <<"assign", "consumer">>
    /\ TradingMain[10] = <<"silence", "main">>
    /\ TradingMain[11] = <<"drain", "tradeEngine">>
    /\ TradingMain[12] = <<"flag", "tradeEngine">>
    /\ TradingMain[13] = <<"join", "tradeEngine">>
    /\ TradingMain[14] = <<"print", "tradeEngine">>
    /\ TradingMain[15] = <<"flag", "consumer">>
    /\ TradingMain[16] = <<"join", "consumer">>
    /\ TradingMain[17] = <<"flag", "gateway">>
    /\ TradingMain[18] = <<"join", "gateway">>
    /\ TradingMain[19] = <<"delete", "tradeEngine">>
  <1>1. PICK m1, m2, m3, m4, s1, s2, s3, m5 :
           /\ m1 = Make("tradeEngine")
           /\ m2 = Make("gateway")
           /\ m3 = Make("consumer")
           /\ m4 = << <<"silence", "main">> >>
           /\ s1 = Stop("tradeEngine")
           /\ s2 = Stop("consumer")
           /\ s3 = Stop("gateway")
           /\ m5 = << <<"delete", "tradeEngine">>, <<"delete", "consumer">>,
                      <<"delete", "gateway">>, <<"exit", "main">> >>
    OBVIOUS
  <1>2. /\ m1 \in Seq(Step) /\ Len(m1) = 3
        /\ m1[1] = <<"new", "tradeEngine">> /\ m1[2] = <<"spawn", "tradeEngine">>
        /\ m1[3] = <<"assign", "tradeEngine">>
    BY <1>1, MakeSteps DEF Threads, Trading
  <1>3. /\ m2 \in Seq(Step) /\ Len(m2) = 3
        /\ m2[1] = <<"new", "gateway">> /\ m2[2] = <<"spawn", "gateway">>
        /\ m2[3] = <<"assign", "gateway">>
    BY <1>1, MakeSteps DEF Threads, Trading
  <1>4. /\ m3 \in Seq(Step) /\ Len(m3) = 3
        /\ m3[1] = <<"new", "consumer">> /\ m3[2] = <<"spawn", "consumer">>
        /\ m3[3] = <<"assign", "consumer">>
    BY <1>1, MakeSteps DEF Threads, Trading
  <1>5. /\ m4 \in Seq(Step) /\ Len(m4) = 1
        /\ m4[1] = <<"silence", "main">>
    BY <1>1 DEF Step, Ops, Actors
  <1>6. /\ s1 \in Seq(Step) /\ Len(s1) = 4
        /\ s1[1] = <<"drain", "tradeEngine">> /\ s1[2] = <<"flag", "tradeEngine">>
        /\ s1[3] = <<"join", "tradeEngine">> /\ s1[4] = <<"print", "tradeEngine">>
    BY <1>1, TradeEngineStop
  <1>7. /\ s2 \in Seq(Step) /\ Len(s2) = 2
        /\ s2[1] = <<"flag", "consumer">> /\ s2[2] = <<"join", "consumer">>
    BY <1>1, JoinSteps DEF Stop, Threads, Trading
  <1>8. /\ s3 \in Seq(Step) /\ Len(s3) = 2
        /\ s3[1] = <<"flag", "gateway">> /\ s3[2] = <<"join", "gateway">>
    BY <1>1, JoinSteps DEF Stop, Threads, Trading
  <1>9. /\ m5 \in Seq(Step) /\ Len(m5) = 4
        /\ m5[1] = <<"delete", "tradeEngine">> /\ m5[2] = <<"delete", "consumer">>
        /\ m5[3] = <<"delete", "gateway">> /\ m5[4] = <<"exit", "main">>
    BY <1>1 DEF Step, Ops, Actors, Threads, Trading
  <1>10. PICK a2 : a2 = m1 \o m2
    OBVIOUS
  <1>11. /\ a2 \in Seq(Step) /\ Len(a2) = Len(m1) + Len(m2)
         /\ \A k \in 1 .. Len(m1) : a2[k] = m1[k]
         /\ \A k \in 1 .. Len(m2) : a2[Len(m1) + k] = m2[k]
    <2>1. m1 \in Seq(Step) /\ m2 \in Seq(Step)
      BY <1>2, <1>3
    <2>. QED  BY <1>10, <2>1, OneAfterAnother
  <1>12. /\ a2 \in Seq(Step) /\ Len(a2) = 6 /\ \A k \in 1 .. 3 : a2[k] = m1[k]
         /\ a2[4] = m2[1] /\ a2[5] = m2[2] /\ a2[6] = m2[3]
    BY <1>2, <1>3, <1>11
  <1>13. PICK a3 : a3 = a2 \o m3
    OBVIOUS
  <1>14. /\ a3 \in Seq(Step) /\ Len(a3) = Len(a2) + Len(m3)
         /\ \A k \in 1 .. Len(a2) : a3[k] = a2[k]
         /\ \A k \in 1 .. Len(m3) : a3[Len(a2) + k] = m3[k]
    <2>1. a2 \in Seq(Step) /\ m3 \in Seq(Step)
      BY <1>12, <1>4
    <2>. QED  BY <1>13, <2>1, OneAfterAnother
  <1>15. /\ a3 \in Seq(Step) /\ Len(a3) = 9 /\ \A k \in 1 .. 6 : a3[k] = a2[k]
         /\ a3[7] = m3[1] /\ a3[8] = m3[2] /\ a3[9] = m3[3]
    BY <1>12, <1>4, <1>14
  <1>16. PICK a4 : a4 = a3 \o m4
    OBVIOUS
  <1>17. /\ a4 \in Seq(Step) /\ Len(a4) = Len(a3) + Len(m4)
         /\ \A k \in 1 .. Len(a3) : a4[k] = a3[k]
         /\ \A k \in 1 .. Len(m4) : a4[Len(a3) + k] = m4[k]
    <2>1. a3 \in Seq(Step) /\ m4 \in Seq(Step)
      BY <1>15, <1>5
    <2>. QED  BY <1>16, <2>1, OneAfterAnother
  <1>18. /\ a4 \in Seq(Step) /\ Len(a4) = 10 /\ \A k \in 1 .. 9 : a4[k] = a3[k]
         /\ a4[10] = m4[1]
    BY <1>15, <1>5, <1>17
  <1>19. PICK a5 : a5 = a4 \o s1
    OBVIOUS
  <1>20. /\ a5 \in Seq(Step) /\ Len(a5) = Len(a4) + Len(s1)
         /\ \A k \in 1 .. Len(a4) : a5[k] = a4[k]
         /\ \A k \in 1 .. Len(s1) : a5[Len(a4) + k] = s1[k]
    <2>1. a4 \in Seq(Step) /\ s1 \in Seq(Step)
      BY <1>18, <1>6
    <2>. QED  BY <1>19, <2>1, OneAfterAnother
  <1>21. /\ a5 \in Seq(Step) /\ Len(a5) = 14 /\ \A k \in 1 .. 10 : a5[k] = a4[k]
         /\ a5[11] = s1[1] /\ a5[12] = s1[2] /\ a5[13] = s1[3] /\ a5[14] = s1[4]
    BY <1>18, <1>6, <1>20
  <1>22. PICK a6 : a6 = a5 \o s2
    OBVIOUS
  <1>23. /\ a6 \in Seq(Step) /\ Len(a6) = Len(a5) + Len(s2)
         /\ \A k \in 1 .. Len(a5) : a6[k] = a5[k]
         /\ \A k \in 1 .. Len(s2) : a6[Len(a5) + k] = s2[k]
    <2>1. a5 \in Seq(Step) /\ s2 \in Seq(Step)
      BY <1>21, <1>7
    <2>. QED  BY <1>22, <2>1, OneAfterAnother
  <1>24. /\ a6 \in Seq(Step) /\ Len(a6) = 16 /\ \A k \in 1 .. 14 : a6[k] = a5[k]
         /\ a6[15] = s2[1] /\ a6[16] = s2[2]
    BY <1>21, <1>7, <1>23
  <1>25. PICK a7 : a7 = a6 \o s3
    OBVIOUS
  <1>26. /\ a7 \in Seq(Step) /\ Len(a7) = Len(a6) + Len(s3)
         /\ \A k \in 1 .. Len(a6) : a7[k] = a6[k]
         /\ \A k \in 1 .. Len(s3) : a7[Len(a6) + k] = s3[k]
    <2>1. a6 \in Seq(Step) /\ s3 \in Seq(Step)
      BY <1>24, <1>8
    <2>. QED  BY <1>25, <2>1, OneAfterAnother
  <1>27. /\ a7 \in Seq(Step) /\ Len(a7) = 18 /\ \A k \in 1 .. 16 : a7[k] = a6[k]
         /\ a7[17] = s3[1] /\ a7[18] = s3[2]
    BY <1>24, <1>8, <1>26, SMTT(30)
  <1>28. PICK a8 : a8 = a7 \o m5
    OBVIOUS
  <1>29. /\ a8 \in Seq(Step) /\ Len(a8) = Len(a7) + Len(m5)
         /\ \A k \in 1 .. Len(a7) : a8[k] = a7[k]
         /\ \A k \in 1 .. Len(m5) : a8[Len(a7) + k] = m5[k]
    <2>1. a7 \in Seq(Step) /\ m5 \in Seq(Step)
      BY <1>27, <1>9
    <2>. QED  BY <1>28, <2>1, OneAfterAnother
  <1>30. /\ a8 \in Seq(Step) /\ Len(a8) = 22 /\ \A k \in 1 .. 18 : a8[k] = a7[k]
         /\ a8[19] = m5[1] /\ a8[20] = m5[2] /\ a8[21] = m5[3] /\ a8[22] = m5[4]
    BY <1>27, <1>9, <1>29, SMTT(30)
  <1>31. TradingMain = a8
    BY <1>1, <1>10, <1>13, <1>16, <1>19, <1>22, <1>25, <1>28, Zenon DEF TradingMain
  <1>32. \A k \in 1 .. 16 : a8[k] = a6[k]
    BY <1>27, <1>30, SMTT(30)
  <1>33. \A k \in 1 .. 10 : a8[k] = a4[k]
    BY <1>21, <1>24, <1>32, SMTT(30)
  <1>34. \A k \in 1 .. 6 : a8[k] = a2[k]
    BY <1>15, <1>18, <1>33
  <1>35. /\ a8[1] = m1[1] /\ a8[2] = m1[2] /\ a8[3] = m1[3]
         /\ a8[4] = m2[1] /\ a8[5] = m2[2] /\ a8[6] = m2[3]
    BY <1>12, <1>34
  <1>36. /\ a8[7] = m3[1] /\ a8[8] = m3[2] /\ a8[9] = m3[3] /\ a8[10] = m4[1]
    BY <1>15, <1>18, <1>33
  <1>37. /\ a8[11] = s1[1] /\ a8[12] = s1[2] /\ a8[13] = s1[3] /\ a8[14] = s1[4]
         /\ a8[15] = s2[1] /\ a8[16] = s2[2]
    BY <1>21, <1>24, <1>32, SMTT(30)
  <1>38. /\ a8[17] = s3[1] /\ a8[18] = s3[2] /\ a8[19] = m5[1]
    BY <1>27, <1>30, SMTT(30)
  <1>39. a8 \in Seq(Step) /\ Len(a8) = 22
    BY <1>30
  <1>. QED  BY <1>2, <1>3, <1>4, <1>5, <1>6, <1>7, <1>8, <1>9, <1>31, <1>35, <1>36, <1>37,
               <1>38, <1>39

-----------------------------------------------------------------------------
(* The order in the texts.                                                  *)

LEMMA Done ==
    ASSUME NEW text, NEW p \in Nat, NEW k \in Nat, 0 < k, k < p
    PROVE  text[k][2] \in Did(text, text[k][1], p)
  <1>1. k \in 1 .. p - 1
    OBVIOUS
  <1>. QED  BY <1>1 DEF Did

LEMMA ExchangeSteps ==
    ASSUME NEW p \in 1 .. 12
    PROVE  /\ ExchangeMain[p][1] \in {"new", "spawn", "assign", "sleep"}
           /\ ExchangeMain[p][1] = "sleep" <=> p = 12
           /\ ExchangeMain[p][1] = "new" => p < 10
           /\ ExchangeMain[p][1] = "spawn" => p <= 10 /\ ExchangeMain[p][2] \in Exchange
           /\ ExchangeMain[p][1] = "spawn" /\ ExchangeMain[p][2] = "server" => p = 10
           /\ ExchangeMain[p][1] # "sleep" => ExchangeMain[p][2] \in Threads
           /\ ExchangeMain[p][1] = "assign" => p <= 10 \/ ExchangeMain[p][2] = "server"
  <1>. PICK step : step = ExchangeMain[p]
    OBVIOUS
  <1>1. \/ p = 1 /\ step = <<"new", "engine">>
        \/ p = 2 /\ step = <<"spawn", "engine">>
        \/ p = 3 /\ step = <<"assign", "engine">>
        \/ p = 4 /\ step = <<"new", "publisher">>
        \/ p = 5 /\ step = <<"spawn", "publisher">>
        \/ p = 6 /\ step = <<"assign", "publisher">>
        \/ p = 7 /\ step = <<"spawn", "synthesizer">>
        \/ p = 8 /\ step = <<"assign", "synthesizer">>
        \/ p = 9 /\ step = <<"new", "server">>
        \/ p = 10 /\ step = <<"spawn", "server">>
        \/ p = 11 /\ step = <<"assign", "server">>
        \/ p = 12 /\ step = <<"sleep", "main">>
    BY ExchangeText
  <1>2. step[1] = "sleep" <=> p = 12
    BY <1>1
  <1>. QED  BY <1>1, <1>2 DEF Threads, Exchange

\* A component is made before its thread is started, each thread once, and the
\* engine's handle is stored before the server's thread is started.
LEMMA ExchangeOrder ==
    ASSUME NEW p \in 1 .. 12
    PROVE  /\ "server" \in Did(ExchangeMain, "spawn", p) <=> p > 10
           /\ p > 10 => Exchange \subseteq Did(ExchangeMain, "spawn", p)
           /\ ExchangeMain[p][1] = "spawn" =>
                /\ ExchangeMain[p][2] \notin Did(ExchangeMain, "spawn", p)
                /\ Owner(ExchangeMain[p][2]) \in Did(ExchangeMain, "new", p)
           /\ p >= 10 => "engine" \in Did(ExchangeMain, "assign", p)
  <1>. DEFINE op(k) == ExchangeMain[k][1]
              who(k) == ExchangeMain[k][2]
  <1>1. \A k \in 1 .. 12 : op(k) = "spawn" /\ who(k) = "server" => k = 10
    BY ExchangeSteps
  <1>2. "server" \in Did(ExchangeMain, "spawn", p) <=> p > 10
    <2>1. p > 10 => who(10) \in Did(ExchangeMain, op(10), p)
      BY Done
    <2>. QED  BY <1>1, <2>1, ExchangeText DEF Did
  <1>3. p > 10 => Exchange \subseteq Did(ExchangeMain, "spawn", p)
    <2>1. p > 10 => \A k \in {2, 5, 7, 10} : who(k) \in Did(ExchangeMain, op(k), p)
      BY Done
    <2>. QED  BY <2>1, ExchangeText DEF Exchange
  <1>4. p >= 10 => "engine" \in Did(ExchangeMain, "assign", p)
    <2>1. p >= 10 => who(3) \in Did(ExchangeMain, op(3), p)
      BY Done
    <2>. QED  BY <2>1, ExchangeText
  <1>5. op(p) = "spawn" => p \in {2, 5, 7, 10}
    BY ExchangeText
  <1>6. op(p) = "spawn" => who(p) \notin Did(ExchangeMain, "spawn", p)
    <2>1. \A k \in 1 .. 12 : op(k) = "spawn" => k \in {2, 5, 7, 10}
      BY ExchangeText
    <2>2. \A k, l \in {2, 5, 7, 10} : who(k) = who(l) => k = l
      BY ExchangeText
    <2>. QED  BY <2>1, <2>2 DEF Did
  <1>7. ASSUME op(p) = "spawn" PROVE Owner(who(p)) \in Did(ExchangeMain, "new", p)
    <2>1. \A k \in {1, 4, 9} : k < p => who(k) \in Did(ExchangeMain, op(k), p)
      BY Done
    <2>. QED  BY <1>5, <1>7, <2>1, ExchangeText DEF Owner
  <1>. QED  BY <1>2, <1>3, <1>4, <1>6, <1>7

LEMMA TradingAt ==
    ASSUME NEW p \in 1 .. 19, NEW step, step = TradingMain[p]
    PROVE  \/ p = 1 /\ step = <<"new", "tradeEngine">>
           \/ p = 2 /\ step = <<"spawn", "tradeEngine">>
           \/ p = 3 /\ step = <<"assign", "tradeEngine">>
           \/ p = 4 /\ step = <<"new", "gateway">>
           \/ p = 5 /\ step = <<"spawn", "gateway">>
           \/ p = 6 /\ step = <<"assign", "gateway">>
           \/ p = 7 /\ step = <<"new", "consumer">>
           \/ p = 8 /\ step = <<"spawn", "consumer">>
           \/ p = 9 /\ step = <<"assign", "consumer">>
           \/ p = 10 /\ step = <<"silence", "main">>
           \/ p = 11 /\ step = <<"drain", "tradeEngine">>
           \/ p = 12 /\ step = <<"flag", "tradeEngine">>
           \/ p = 13 /\ step = <<"join", "tradeEngine">>
           \/ p = 14 /\ step = <<"print", "tradeEngine">>
           \/ p = 15 /\ step = <<"flag", "consumer">>
           \/ p = 16 /\ step = <<"join", "consumer">>
           \/ p = 17 /\ step = <<"flag", "gateway">>
           \/ p = 18 /\ step = <<"join", "gateway">>
           \/ p = 19 /\ step = <<"delete", "tradeEngine">>
  <1>1. p <= 6 \/ (p > 6 /\ p <= 12) \/ p > 12
    OBVIOUS
  <1>2. CASE p <= 6
    <2>1. p = 1 \/ p = 2 \/ p = 3 \/ p = 4 \/ p = 5 \/ p = 6
      BY <1>2
    <2>. QED  BY <2>1, TradingText
  <1>3. CASE p > 6 /\ p <= 12
    <2>1. p = 7 \/ p = 8 \/ p = 9 \/ p = 10 \/ p = 11 \/ p = 12
      BY <1>3
    <2>. QED  BY <2>1, TradingText
  <1>4. CASE p > 12
    <2>1. p = 13 \/ p = 14 \/ p = 15 \/ p = 16 \/ p = 17 \/ p = 18 \/ p = 19
      BY <1>4
    <2>. QED  BY <2>1, TradingText
  <1>. QED  BY <1>1, <1>2, <1>3, <1>4

LEMMA TradingSteps ==
    ASSUME NEW p \in 1 .. 19
    PROVE  /\ TradingMain[p][1] \in {"new", "spawn", "assign", "silence", "drain", "flag", "join",
                                     "print", "delete"}
           /\ TradingMain[p][1] = "delete" <=> p = 19
           /\ TradingMain[p][1] = "new" => p < 10
           /\ TradingMain[p][1] # "silence" => TradingMain[p][2] \in Trading
           /\ TradingMain[p][1] = "join" => p >= 13
           /\ TradingMain[p][1] = "join" /\ TradingMain[p][2] = "tradeEngine" => p = 13
           /\ p = 13 => TradingMain[p] = <<"join", "tradeEngine">>
           /\ p = 19 => TradingMain[p] = <<"delete", "tradeEngine">>
  <1>. PICK step : step = TradingMain[p]
    OBVIOUS
  <1>1. \/ p = 1 /\ step = <<"new", "tradeEngine">>
        \/ p = 2 /\ step = <<"spawn", "tradeEngine">>
        \/ p = 3 /\ step = <<"assign", "tradeEngine">>
        \/ p = 4 /\ step = <<"new", "gateway">>
        \/ p = 5 /\ step = <<"spawn", "gateway">>
        \/ p = 6 /\ step = <<"assign", "gateway">>
        \/ p = 7 /\ step = <<"new", "consumer">>
        \/ p = 8 /\ step = <<"spawn", "consumer">>
        \/ p = 9 /\ step = <<"assign", "consumer">>
        \/ p = 10 /\ step = <<"silence", "main">>
        \/ p = 11 /\ step = <<"drain", "tradeEngine">>
        \/ p = 12 /\ step = <<"flag", "tradeEngine">>
        \/ p = 13 /\ step = <<"join", "tradeEngine">>
        \/ p = 14 /\ step = <<"print", "tradeEngine">>
        \/ p = 15 /\ step = <<"flag", "consumer">>
        \/ p = 16 /\ step = <<"join", "consumer">>
        \/ p = 17 /\ step = <<"flag", "gateway">>
        \/ p = 18 /\ step = <<"join", "gateway">>
        \/ p = 19 /\ step = <<"delete", "tradeEngine">>
    BY TradingAt
  <1>2. step[1] = "delete" <=> p = 19
    BY <1>1
  <1>. QED  BY <1>1, <1>2 DEF Trading

LEMMA TradingOrder ==
    ASSUME NEW p \in 1 .. 19
    PROVE  /\ TradingMain[p][1] = "spawn" =>
                /\ TradingMain[p][2] \notin Did(TradingMain, "spawn", p)
                /\ TradingMain[p][2] \in Did(TradingMain, "new", p)
           /\ p > 13 => "tradeEngine" \in Did(TradingMain, "new", p)
           /\ p > 12 => Trading \subseteq Did(TradingMain, "spawn", p)
  <1>. DEFINE op(k) == TradingMain[k][1]
              who(k) == TradingMain[k][2]
  <1>1. \A k \in 1 .. 19 : op(k) = "spawn" => k \in {2, 5, 8}
    <2>. TAKE k \in 1 .. 19
    <2>. PICK step : step = TradingMain[k]
      OBVIOUS
    <2>1. step[1] = "spawn" => k \in {2, 5, 8}
      BY TradingAt
    <2>. QED  BY <2>1
  <1>2. op(p) = "spawn" => who(p) \notin Did(TradingMain, "spawn", p)
    <2>1. \A k, l \in {2, 5, 8} : who(k) = who(l) => k = l
      BY TradingText, SMTT(30)
    <2>2. \A k \in 1 .. p - 1 : k \in 1 .. 19 /\ k # p
      OBVIOUS
    <2>. QED  BY <1>1, <2>1, <2>2 DEF Did
  <1>3. ASSUME op(p) = "spawn" PROVE who(p) \in Did(TradingMain, "new", p)
    <2>1. \A k \in {1, 4, 7} : k < p => who(k) \in Did(TradingMain, op(k), p)
      BY Done
    <2>. QED  BY <1>1, <1>3, <2>1, TradingText, SMTT(30)
  <1>4. p > 13 => who(1) \in Did(TradingMain, op(1), p)
    BY Done
  <1>5. p > 12 => \A k \in {2, 5, 8} : who(k) \in Did(TradingMain, op(k), p)
    BY Done
  <1>6. p > 12 => Trading \subseteq Did(TradingMain, "spawn", p)
    BY <1>5, TradingText DEF Trading
  <1>. QED  BY <1>2, <1>3, <1>4, <1>6, TradingText

\* A destructor frees its component last, and before that it has joined each thread
\* the component owns.
LEMMA DestructorSteps ==
    ASSUME NEW c \in {"publisher", "server", "engine"}, NEW j \in 1 .. Len(Destructor(c))
    PROVE  /\ Destructor(c) \in Seq(Step) /\ Len(Destructor(c)) \in 3 .. 5
           /\ Destructor(c)[j][1] \in {"flag", "join", "free"}
           /\ Destructor(c)[j][2] \in Exchange /\ Owner(Destructor(c)[j][2]) = c
           /\ Destructor(c)[j][1] = "free" =>
                /\ j = Len(Destructor(c)) /\ Destructor(c)[j][2] = c
                /\ \A t \in Threads : Owner(t) = c =>
                      \E m \in 1 .. j - 1 : Destructor(c)[m] = <<"join", t>>
           /\ j = Len(Destructor(c)) => Destructor(c)[j][1] = "free"
  <1>1. CASE c = "publisher"
    <2>. DEFINE steps == Destructor("publisher")
    <2>1. Len(steps) = 5 /\ steps \in Seq(Step)
      BY PublisherDestructor
    <2>0. j \in 1 .. 5
      BY <1>1, PublisherDestructor
    <2>2. \/ j = 1 /\ steps[j] = <<"flag", "publisher">>
          \/ j = 2 /\ steps[j] = <<"join", "publisher">>
          \/ j = 3 /\ steps[j] = <<"flag", "synthesizer">>
          \/ j = 4 /\ steps[j] = <<"join", "synthesizer">>
          \/ j = 5 /\ steps[j] = <<"free", "publisher">>
      BY <2>0, PublisherDestructor
    <2>3. /\ \A t \in Threads : Owner(t) = "publisher" => t \in {"publisher", "synthesizer"}
          /\ Owner("publisher") = "publisher" /\ Owner("synthesizer") = "publisher"
      BY DEF Owner
    <2>4. steps[j][1] = "free" => j = 5 /\ steps[j][2] = "publisher"
      BY <2>2
    <2>5. /\ 2 \in 1 .. 5 - 1 /\ steps[2] = <<"join", "publisher">>
          /\ 4 \in 1 .. 5 - 1 /\ steps[4] = <<"join", "synthesizer">>
      BY PublisherDestructor
    <2>6. /\ steps[j][1] \in {"flag", "join", "free"}
          /\ steps[j][2] \in {"publisher", "synthesizer"}
          /\ j = 5 => steps[j][1] = "free"
      BY <2>2
    <2>7. steps[j][1] = "free" => \A t \in Threads : Owner(t) = "publisher" =>
             \E m \in 1 .. j - 1 : steps[m] = <<"join", t>>
      BY <2>3, <2>4, <2>5
    <2>8. steps[j][2] \in Exchange /\ Owner(steps[j][2]) = "publisher"
      BY <2>3, <2>6 DEF Exchange
    <2>9. j = Len(steps) => steps[j][1] = "free"
      BY <2>1, <2>6
    <2>11. Len(steps) \in 3 .. 5
      BY <2>1
    <2>10. steps[j][1] = "free" => j = Len(steps) /\ steps[j][2] = "publisher"
      BY <2>1, <2>4
    <2>. QED  BY <1>1, <2>1, <2>6, <2>7, <2>8, <2>9, <2>10, <2>11, Zenon
  <1>2. CASE c \in {"server", "engine"}
    <2>. DEFINE steps == Destructor(c)
    <2>1. Len(steps) = 3 /\ steps \in Seq(Step) /\ 2 \in 1 .. 3 - 1 /\ steps[2] = <<"join", c>>
      BY <1>2, PlainDestructor
    <2>0. j \in 1 .. 3
      BY <2>1
    <2>2. \/ j = 1 /\ steps[j] = <<"flag", c>>
          \/ j = 2 /\ steps[j] = <<"join", c>>
          \/ j = 3 /\ steps[j] = <<"free", c>>
      BY <2>0, <1>2, PlainDestructor
    <2>3. (\A t \in Threads : Owner(t) = c => t = c) /\ Owner(c) = c
      BY <1>2 DEF Owner
    <2>4. steps[j][1] = "free" => j = 3 /\ steps[j][2] = c
      BY <2>2
    <2>5. /\ steps[j][1] \in {"flag", "join", "free"} /\ steps[j][2] = c
          /\ j = 3 => steps[j][1] = "free"
      BY <2>2
    <2>. QED  BY <1>2, <2>1, <2>3, <2>4, <2>5 DEF Exchange
  <1>. QED  BY <1>1, <1>2

-----------------------------------------------------------------------------
(* Where an actor is.                                                       *)

LEMMA AtDies ==
    ASSUME NEW a \in Actors, Dies(a)
    PROVE  /\ todo[a] # <<>> /\ Head(todo[a]) \in {<<"test", "main">>, <<"die", "main">>}
           /\ Head(todo[a]) = <<"test", "main">> => Tail(todo[a]) = << <<"die", "main">> >>
  <1>. PICK test, die : test = <<"test", "main">> /\ die = <<"die", "main">>
    OBVIOUS
  <1>1. test # die
    OBVIOUS
  <1>2. todo[a] = <<test, die>> \/ todo[a] = <<die>>
    BY DEF Dies
  <1>3. Head(<<test, die>>) = test /\ Tail(<<test, die>>) = <<die>> /\ <<test, die>> # <<>>
        /\ Head(<<die>>) = die /\ <<die>> # <<>>
    OBVIOUS
  <1>. QED  BY <1>1, <1>2, <1>3

LEMMA AtPrepares ==
    ASSUME NEW p \in 1 .. 12, Prepares(p)
    PROVE  /\ todo["main"] # <<>>
           /\ \/ /\ Head(todo["main"]) = ExchangeMain[p]
                 /\ Tail(todo["main"]) = From(ExchangeMain, p + 1)
                 /\ todo["main"] = From(ExchangeMain, p)
              \/ /\ Head(todo["main"]) = <<"test", "main">>
                 /\ Tail(todo["main"]) = From(ExchangeMain, p)
  <1>. PICK text : text = ExchangeMain
    OBVIOUS
  <1>1. text \in Seq(Step) /\ Len(text) = 12
    BY ExchangeText
  <1>2. /\ From(text, p) \in Seq(Step) /\ From(text, p) # <<>>
        /\ Head(From(text, p)) = text[p] /\ Tail(From(text, p)) = From(text, p + 1)
    BY <1>1, FromStep
  <1>3. <<"test", "main">> \in Step
    BY DEF Step, Ops, Actors
  <1>4. /\ TestFirst \o From(text, p) # <<>>
        /\ Head(TestFirst \o From(text, p)) = <<"test", "main">>
        /\ Tail(TestFirst \o From(text, p)) = From(text, p)
    BY <1>2, <1>3, OneBefore DEF TestFirst
  <1>5. todo["main"] \in {From(text, p), TestFirst \o From(text, p)}
    BY DEF Prepares
  <1>. QED  BY <1>2, <1>4, <1>5

LEMMA AtDeletes ==
    ASSUME NEW a \in Actors, NEW i \in 1 .. 5, Deletes(a, i)
    PROVE  /\ todo[a] # <<>> /\ Head(todo[a]) = Interrupted[i]
           /\ Tail(todo[a]) = From(Interrupted, i + 1)
  BY InterruptedText, FromStep DEF Deletes

LEMMA Destroyed ==
    ASSUME NEW i \in 3 .. 5
    PROVE  /\ Interrupted[i - 1][2] \in {"publisher", "server", "engine"}
           /\ From(Interrupted, i) \in Seq(Step)
  <1>1. i - 1 \in {2, 3, 4} /\ i \in 1 .. Len(Interrupted)
    BY InterruptedText
  <1>2. Interrupted[i - 1][2] \in {"publisher", "server", "engine"}
    BY <1>1, InterruptedText
  <1>3. Interrupted \in Seq(Step)
    BY InterruptedText
  <1>4. From(Interrupted, i) \in Seq(Step)
    BY <1>1, <1>3, FromStep, Zenon
  <1>. QED  BY <1>2, <1>4

LEMMA DestructionSteps ==
    ASSUME NEW i \in 3 .. 5, NEW j \in 1 .. Len(Destruction(i))
    PROVE  /\ Destruction(i) \in Seq(Step) /\ Len(Destruction(i)) \in 3 .. 5
           /\ Destruction(i)[j][1] \in {"flag", "join", "free"}
           /\ Destruction(i)[j][2] \in Exchange
           /\ Owner(Destruction(i)[j][2]) = Interrupted[i - 1][2]
           /\ Destruction(i)[j][1] = "free" =>
                /\ j = Len(Destruction(i)) /\ Destruction(i)[j][2] = Interrupted[i - 1][2]
                /\ \A t \in Threads : Owner(t) = Interrupted[i - 1][2] =>
                      \E m \in 1 .. j - 1 : Destruction(i)[m] = <<"join", t>>
           /\ j = Len(Destruction(i)) => Destruction(i)[j][1] = "free"
  <1>. PICK c \in {"publisher", "server", "engine"} : c = Interrupted[i - 1][2]
    BY Destroyed
  <1>1. Destruction(i) = Destructor(c)
    BY DEF Destruction
  <1>2. j \in 1 .. Len(Destructor(c))
    BY <1>1
  <1>3. /\ Destructor(c) \in Seq(Step) /\ Len(Destructor(c)) \in 3 .. 5
        /\ Destructor(c)[j][1] \in {"flag", "join", "free"}
        /\ Destructor(c)[j][2] \in Exchange /\ Owner(Destructor(c)[j][2]) = c
        /\ Destructor(c)[j][1] = "free" =>
              /\ j = Len(Destructor(c)) /\ Destructor(c)[j][2] = c
              /\ \A t \in Threads : Owner(t) = c =>
                    \E m \in 1 .. j - 1 : Destructor(c)[m] = <<"join", t>>
        /\ j = Len(Destructor(c)) => Destructor(c)[j][1] = "free"
    BY <1>2, DestructorSteps, Zenon
  <1>. QED  BY <1>1, <1>3

LEMMA AtDestroys ==
    ASSUME NEW a \in Actors, NEW i \in 3 .. 5, NEW j, Destroys(a, i, j)
    PROVE  /\ j \in 1 .. Len(Destruction(i))
           /\ todo[a] # <<>> /\ Head(todo[a]) = Destruction(i)[j]
           /\ Tail(todo[a]) = From(Destruction(i), j + 1) \o From(Interrupted, i)
  <1>1. j \in 1 .. Len(Destruction(i)) /\ todo[a] = From(Destruction(i), j) \o From(Interrupted, i)
    BY DEF Destroys
  <1>2. Destruction(i) \in Seq(Step) /\ From(Interrupted, i) \in Seq(Step)
    BY <1>1, Destroyed, DestructionSteps
  <1>. PICK text, rest : text = Destruction(i) /\ rest = From(Interrupted, i)
    OBVIOUS
  <1>3. text \in Seq(Step) /\ rest \in Seq(Step) /\ j \in 1 .. Len(text)
    BY <1>1, <1>2
  <1>4. /\ From(text, j) \o rest # <<>> /\ Head(From(text, j) \o rest) = text[j]
        /\ Tail(From(text, j) \o rest) = From(text, j + 1) \o rest
    BY <1>3, FromThen, ZenonT(30)
  <1>. QED  BY <1>1, <1>4

LEMMA AtDestructor ==
    ASSUME NEW a \in Actors, NEW i \in 3 .. 5, NEW j, Destroys(a, i, j)
    PROVE  j \in 1 .. Len(Destruction(i)) /\ Head(todo[a]) = Destruction(i)[j]
  BY AtDestroys, ZenonT(30)

\* An actor of the exchange is in the handler, or main in its own text.
LEMMA InExchange ==
    ASSUME ExchangeInv, NEW a \in Actors, todo[a] # <<>>
    PROVE  \/ Handles(a)
           \/ a = "main" /\ \E p \in 1 .. 12 : Prepares(p)
  BY DEF ExchangeInv, Actors

\* The steps of the handler.
LEMMA InHandler ==
    ASSUME ExchangeInv, NEW a \in Actors, todo[a] # <<>>, NEW op, op = Head(todo[a])[1],
           op \in {"claim", "delete", "exit", "flag", "join", "free"}
    PROVE  \/ \E i \in 1 .. 5 : Deletes(a, i) /\ op = Interrupted[i][1]
           \/ \E i \in 3 .. 5 : \E j \in 1 .. 5 :
                Destroys(a, i, j) /\ op = Destruction(i)[j][1]
  <1>1. CASE Dies(a)
    BY <1>1, AtDies
  <1>2. ASSUME a = "main", NEW p \in 1 .. 12, Prepares(p) PROVE FALSE
    <2>1. Head(todo[a])[1] \in {"new", "spawn", "assign", "sleep", "test"}
      <3>1. \/ Head(todo["main"]) = ExchangeMain[p]
            \/ Head(todo["main"]) = <<"test", "main">>
        BY <1>2, AtPrepares, Zenon
      <3>. QED  BY <1>2, <3>1, ExchangeSteps
    <2>. QED  BY <2>1
  <1>3. CASE \E i \in 1 .. 5 : Deletes(a, i)
    BY <1>3, AtDeletes
  <1>4. CASE \E i \in 3 .. 5 : \E j \in 1 .. 5 : Destroys(a, i, j)
    BY <1>4, AtDestructor
  <1>. QED  BY <1>1, <1>2, <1>3, <1>4, InExchange DEF Handles

LEMMA AtDelete ==
    ASSUME ExchangeInv, NEW a \in Actors, Busy(a, "delete")
    PROVE  \E i \in 2 .. 4 : /\ Deletes(a, i) /\ Subject(a) = Interrupted[i][2]
                             /\ Tail(todo[a]) = From(Interrupted, i + 1)
  <1>1. todo[a] # <<>> /\ Head(todo[a])[1] = "delete"
    BY DEF Busy
  <1>2. \A i \in 1 .. 5 : Interrupted[i][1] = "delete" => i \in 2 .. 4
    BY InterruptedText
  <1>3. \A i \in 3 .. 5 : \A j \in 1 .. 5 : Destroys(a, i, j) =>
           Destruction(i)[j][1] # "delete"
    <2>. TAKE i \in 3 .. 5, j \in 1 .. 5
    <2>. HAVE Destroys(a, i, j)
    <2>1. Destruction(i)[j][1] \in {"flag", "join", "free"}
      BY DestructionSteps, Zenon DEF Destroys
    <2>. QED  BY <2>1
  <1>4. PICK i \in 2 .. 4 : Deletes(a, i)
    BY <1>1, <1>2, <1>3, InHandler, SMTT(30)
  <1>. QED  BY <1>4, AtDeletes DEF Subject

LEMMA AtClaimOrExit ==
    ASSUME ExchangeInv, NEW a \in Actors
    PROVE  /\ Busy(a, "claim") => Deletes(a, 1) /\ Tail(todo[a]) = From(Interrupted, 2)
           /\ Busy(a, "exit") => Deletes(a, 5)
  <1>1. \A i \in 1 .. 5 : /\ Interrupted[i][1] = "claim" => i = 1
                          /\ Interrupted[i][1] = "exit" => i = 5
    BY InterruptedText
  <1>2. \A i \in 3 .. 5 : \A j \in 1 .. 5 : Destroys(a, i, j) =>
           Destruction(i)[j][1] \notin {"claim", "exit"}
    <2>. TAKE i \in 3 .. 5, j \in 1 .. 5
    <2>. HAVE Destroys(a, i, j)
    <2>1. Destruction(i)[j][1] \in {"flag", "join", "free"}
      BY DestructionSteps, Zenon DEF Destroys
    <2>. QED  BY <2>1
  <1>3. Busy(a, "claim") => Deletes(a, 1)
    BY <1>1, <1>2, InHandler DEF Busy
  <1>4. Busy(a, "exit") => Deletes(a, 5)
    BY <1>1, <1>2, InHandler DEF Busy
  <1>. QED  BY <1>3, <1>4, AtDeletes

LEMMA InDestructor ==
    ASSUME ExchangeInv, NEW a \in Actors, NEW op \in {"flag", "join", "free"}, Busy(a, op)
    PROVE  \E i \in 3 .. 5 : \E j \in 1 .. 5 :
              /\ Destroys(a, i, j) /\ Head(todo[a]) = Destruction(i)[j]
              /\ Tail(todo[a]) = From(Destruction(i), j + 1)
                                   \o From(Interrupted, i)
  <1>1. todo[a] # <<>> /\ Head(todo[a])[1] = op
    BY DEF Busy
  <1>2. \A i \in 1 .. 5 : Interrupted[i][1] \notin {"flag", "join", "free"}
    BY InterruptedText
  <1>3. PICK i \in 3 .. 5 : \E j \in 1 .. 5 : Destroys(a, i, j)
    BY <1>1, <1>2, InHandler
  <1>4. PICK j \in 1 .. 5 : Destroys(a, i, j)
    BY <1>3
  <1>. QED  BY <1>4, AtDestroys

LEMMA AtTest ==
    ASSUME ExchangeInv, NEW a \in Actors, Busy(a, "test")
    PROVE  \/ Tail(todo[a]) = << <<"die", "main">> >>
           \/ a = "main" /\ \E p \in 1 .. 12 : /\ Prepares(p)
                                               /\ Tail(todo[a]) = From(ExchangeMain, p)
  <1>1. todo[a] # <<>> /\ Head(todo[a])[1] = "test"
    BY DEF Busy
  <1>2. CASE Dies(a)
    BY <1>1, <1>2, AtDies
  <1>3. CASE a = "main" /\ \E p \in 1 .. 12 : Prepares(p)
    BY <1>1, <1>3, AtPrepares, ExchangeSteps
  <1>4. CASE \E i \in 1 .. 5 : Deletes(a, i)
    <2>1. \A i \in 1 .. 5 : Interrupted[i][1] # "test"
      BY InterruptedText
    <2>. QED  BY <1>1, <1>4, <2>1, AtDeletes
  <1>5. ASSUME NEW i \in 3 .. 5, NEW j \in 1 .. 5, Destroys(a, i, j) PROVE FALSE
    <2>1. j \in 1 .. Len(Destruction(i)) /\ Head(todo[a]) = Destruction(i)[j]
      BY <1>5, AtDestructor, Zenon
    <2>2. Destruction(i)[j][1] \in {"flag", "join", "free"}
      BY <2>1, DestructionSteps, Zenon
    <2>3. Destruction(i)[j][1] # "test"
      BY <2>2
    <2>. QED  BY <1>1, <2>1, <2>3, Zenon
  <1>6. Handles(a) \/ (a = "main" /\ \E p \in 1 .. 12 : Prepares(p))
    BY <1>1, InExchange
  <1>. QED  BY <1>2, <1>3, <1>4, <1>5, <1>6, Zenon DEF Handles

\* Main in ExchangeMain, outside the handler.
LEMMA InMain ==
    ASSUME ExchangeInv, NEW op \in {"new", "spawn", "assign", "sleep"}, Busy("main", op)
    PROVE  \E p \in 1 .. 12 : /\ Prepares(p) /\ Head(todo["main"]) = ExchangeMain[p]
                              /\ todo["main"] = From(ExchangeMain, p)
                              /\ Tail(todo["main"]) = From(ExchangeMain, p + 1)
  <1>1. todo["main"] # <<>> /\ Head(todo["main"])[1] = op /\ "main" \in Actors
    BY DEF Busy, Actors
  <1>2. ~Dies("main")
    BY <1>1, AtDies
  <1>3. ~\E i \in 1 .. 5 : Deletes("main", i)
    <2>1. \A i \in 1 .. 5 : Interrupted[i][1] \notin {"new", "spawn", "assign", "sleep"}
      BY InterruptedText
    <2>. QED  BY <1>1, <2>1, AtDeletes
  <1>4. ASSUME NEW i \in 3 .. 5, NEW j \in 1 .. 5, Destroys("main", i, j) PROVE FALSE
    <2>1. /\ j \in 1 .. Len(Destruction(i))
          /\ Head(todo["main"]) = Destruction(i)[j]
      BY <1>1, <1>4, AtDestructor, Zenon
    <2>2. Destruction(i)[j][1] \in {"flag", "join", "free"}
      BY <2>1, DestructionSteps, Zenon
    <2>3. Destruction(i)[j][1] # op
      BY <2>2
    <2>. QED  BY <1>1, <2>1, <2>3, Zenon
  <1>5. Handles("main") \/ \E p \in 1 .. 12 : Prepares(p)
    BY <1>1, InExchange
  <1>6. PICK p \in 1 .. 12 : Prepares(p)
    BY <1>2, <1>3, <1>4, <1>5, Zenon DEF Handles
  <1>7. Head(todo["main"]) # <<"test", "main">>
    BY <1>1
  <1>. QED  BY <1>6, <1>7, AtPrepares

\* Main of the trading program, and nobody else, has something to do.
LEMMA InTrading ==
    ASSUME TradingInv, NEW a \in Actors, NEW op, Busy(a, op)
    PROVE  /\ a = "main"
           /\ \/ op = "die"
              \/ \E p \in 1 .. 19 :
                   /\ Proceeds(p) /\ Head(todo["main"]) = TradingMain[p]
                   /\ Tail(todo["main"]) = From(TradingMain, p + 1)
                   /\ op = TradingMain[p][1]
              \/ \E j \in 1 .. 3 :
                   /\ Deadends(j) /\ Head(todo["main"]) = Destructor("tradeEngine")[j]
                   /\ Tail(todo["main"]) =
                        From(Destructor("tradeEngine"), j + 1) \o From(TradingMain, 20)
                   /\ op = Destructor("tradeEngine")[j][1]
  <1>1. a = "main" /\ Head(todo["main"])[1] = op
    BY DEF TradingInv, Busy, Actors
  <1>2. CASE todo["main"] = << <<"die", "main">> >>
    BY <1>1, <1>2
  <1>3. ASSUME NEW p \in 1 .. 19, Proceeds(p)
        PROVE  /\ Head(todo["main"]) = TradingMain[p]
               /\ Tail(todo["main"]) = From(TradingMain, p + 1)
    <2>. PICK text : text = TradingMain
      OBVIOUS
    <2>1. text \in Seq(Step) /\ p \in 1 .. Len(text)
      BY TradingText
    <2>2. Head(From(text, p)) = text[p] /\ Tail(From(text, p)) = From(text, p + 1)
      BY <2>1, FromStep, Zenon
    <2>. QED  BY <1>3, <2>2 DEF Proceeds
  <1>4. ASSUME NEW j \in 1 .. 3, Deadends(j)
        PROVE  /\ Head(todo["main"]) = Destructor("tradeEngine")[j]
               /\ Tail(todo["main"]) =
                    From(Destructor("tradeEngine"), j + 1) \o From(TradingMain, 20)
    <2>. PICK text, rest : text = Destructor("tradeEngine") /\ rest = From(TradingMain, 20)
      OBVIOUS
    <2>1. text \in Seq(Step) /\ j \in 1 .. Len(text)
      BY TradeEngineDestructor
    <2>2. rest \in Seq(Step)
      <3>1. TradingMain \in Seq(Step) /\ 20 \in 1 .. Len(TradingMain)
        BY TradingText
      <3>. QED  BY <3>1, FromStep, Zenon
    <2>3. /\ Head(From(text, j) \o rest) = text[j]
          /\ Tail(From(text, j) \o rest) = From(text, j + 1) \o rest
      BY <2>1, <2>2, FromThen, ZenonT(30)
    <2>. QED  BY <1>4, <2>3 DEF Deadends
  <1>5. CASE \E p \in 1 .. 19 : Proceeds(p)
    <2>. PICK p \in 1 .. 19 : Proceeds(p)
      BY <1>5
    <2>1. /\ Head(todo["main"]) = TradingMain[p]
          /\ Tail(todo["main"]) = From(TradingMain, p + 1)
      BY <1>3
    <2>. QED  BY <1>1, <2>1, Zenon
  <1>6. CASE \E j \in 1 .. 3 : Deadends(j)
    <2>. PICK j \in 1 .. 3 : Deadends(j)
      BY <1>6
    <2>1. /\ Head(todo["main"]) = Destructor("tradeEngine")[j]
          /\ Tail(todo["main"]) =
               From(Destructor("tradeEngine"), j + 1) \o From(TradingMain, 20)
      BY <1>4
    <2>. QED  BY <1>1, <2>1, Zenon
  <1>. QED  BY <1>2, <1>5, <1>6, Zenon DEF TradingInv

LEMMA DeadendSteps ==
    ASSUME NEW j \in 1 .. 3, NEW step, step = Destructor("tradeEngine")[j]
    PROVE  /\ step[1] \in {"drain", "flag", "join"} /\ step[2] = "tradeEngine"
           /\ step[1] = "join" <=> j = 3
  <1>1. \/ j = 1 /\ step = <<"drain", "tradeEngine">>
        \/ j = 2 /\ step = <<"flag", "tradeEngine">>
        \/ j = 3 /\ step = <<"join", "tradeEngine">>
    BY TradeEngineDestructor
  <1>. QED  BY <1>1

\* In the trading program main never gets to these.
LEMMA NotInTrading ==
    ASSUME TradingInv, NEW a \in Actors, NEW op, Busy(a, op)
    PROVE  op \notin {"test", "claim", "free", "exit", "sleep"}
  <1>1. \A p \in 1 .. 19 : TradingMain[p][1] \notin {"test", "claim", "free", "exit", "sleep"}
    BY TradingSteps
  <1>2. \A j \in 1 .. 3 :
           Destructor("tradeEngine")[j][1] \notin {"test", "claim", "free", "exit", "sleep"}
    BY DeadendSteps
  <1>. QED  BY <1>1, <1>2, InTrading

\* What the steps of the texts are about.
LEMMA Subjects ==
    ASSUME LifeInv, NEW a \in Actors, NEW op, Busy(a, op),
           \/ a = "main" /\ op \in {"new", "spawn", "assign"}
           \/ op \in {"flag", "join", "free"}
    PROVE  Subject(a) \in Threads
  <1>1. CASE program = "exchange" /\ op \in {"flag", "join", "free"}
    <2>1. PICK i \in 3 .. 5, j \in 1 .. 5 : Destroys(a, i, j) /\ Head(todo[a]) = Destruction(i)[j]
      BY <1>1, InDestructor DEF LifeInv
    <2>2. Destruction(i)[j][2] \in Exchange
      BY <2>1, DestructionSteps, Zenon DEF Destroys
    <2>. QED  BY <2>1, <2>2 DEF Subject, Threads
  <1>2. CASE program = "exchange" /\ op \in {"new", "spawn", "assign"}
    <2>1. PICK p \in 1 .. 12 : Head(todo["main"]) = ExchangeMain[p]
      BY <1>2, InMain DEF LifeInv
    <2>2. a = "main" /\ Head(todo[a])[1] = op
      BY <1>2 DEF Busy
    <2>. QED  BY <1>2, <2>1, <2>2, ExchangeSteps DEF Subject
  <1>3. CASE program = "trading"
    <2>1. \/ \E p \in 1 .. 19 : Head(todo["main"]) = TradingMain[p] /\ op = TradingMain[p][1]
          \/ \E j \in 1 .. 3 : Head(todo["main"]) = Destructor("tradeEngine")[j]
      BY <1>3, InTrading DEF LifeInv
    <2>2. \A p \in 1 .. 19 : TradingMain[p][1] # "silence" => TradingMain[p][2] \in Trading
      BY TradingSteps
    <2>3. \A j \in 1 .. 3 : Destructor("tradeEngine")[j][2] = "tradeEngine"
      BY DeadendSteps
    <2>4. a = "main"
      BY <1>3, InTrading DEF LifeInv
    <2>. QED  BY <2>1, <2>2, <2>3, <2>4 DEF Subject, Threads, Trading
  <1>. QED  BY <1>1, <1>2, <1>3 DEF LifeInv, TypeInv, TypeOK

\* Main spawns the threads of components that it has made, once each.
LEMMA SpawnsNew ==
    ASSUME LifeInv, Busy("main", "spawn")
    PROVE  /\ Subject("main") \in Threads /\ thread[Subject("main")] = "none"
           /\ Owner(Subject("main")) \in objects
  <1>1. "main" \in Actors /\ Head(todo["main"])[1] = "spawn"
    BY DEF Actors, Busy
  <1>2. CASE program = "exchange"
    <2>1. PICK p \in 1 .. 12 : Prepares(p) /\ Head(todo["main"]) = ExchangeMain[p]
      BY <1>2, InMain DEF LifeInv
    <2>2. ExchangeMain[p][1] = "spawn"
      BY <1>1, <2>1
    <2>3. p <= 10 /\ ExchangeMain[p][2] \in Exchange
      BY <2>2, ExchangeSteps
    <2>4. /\ ExchangeMain[p][2] \notin Did(ExchangeMain, "spawn", p)
          /\ Owner(ExchangeMain[p][2]) \in Did(ExchangeMain, "new", p)
      BY <2>2, ExchangeOrder
    <2>. QED  BY <2>1, <2>3, <2>4 DEF Prepares, Subject, Threads
  <1>3. CASE program = "trading"
    <2>1. PICK p \in 1 .. 19 : Proceeds(p) /\ Head(todo["main"]) = TradingMain[p]
                               /\ TradingMain[p][1] = "spawn"
      <3>1. \A j \in 1 .. 3 : Destructor("tradeEngine")[j][1] # "spawn"
        BY DeadendSteps
      <3>. QED  BY <1>1, <1>3, <3>1, InTrading DEF LifeInv
    <2>2. TradingMain[p][2] \in Trading
      BY <2>1, TradingSteps
    <2>3. /\ TradingMain[p][2] \notin Did(TradingMain, "spawn", p)
          /\ TradingMain[p][2] \in Did(TradingMain, "new", p)
      BY <2>1, TradingOrder
    <2>4. Owner(TradingMain[p][2]) = TradingMain[p][2]
      BY <2>2 DEF Owner, Trading
    <2>. QED  BY <2>1, <2>2, <2>3, <2>4 DEF Proceeds, Subject, Threads
  <1>. QED  BY <1>2, <1>3 DEF LifeInv, TypeInv, TypeOK

-----------------------------------------------------------------------------
(* Types.                                                                   *)

LEMMA Moved ==
    ASSUME TypeInv, NEW a \in Actors, NEW steps, todo' = [todo EXCEPT ![a] = steps]
    PROVE  /\ todo' = [b \in Actors |-> todo'[b]]
           /\ todo'[a] = steps
           /\ \A b \in Actors : b # a => todo'[b] = todo[b]
  <1>1. DOMAIN todo = Actors
    BY DEF TypeInv
  <1>. QED  BY <1>1

\* Threads go on, or none does.
Advances ==
    /\ thread' = [t \in Threads |-> thread'[t]]
    /\ \A t \in Threads :
          \/ thread'[t] = thread[t]
          \/ /\ thread[t] \in {"announced", "running"}
             /\ thread'[t] \in {"running", "stuck", "done", "failed"}
             /\ t = "tradeEngine" => ~looping

LEMMA TodoFunction == LifeInv /\ [Next]_vars => todo' = [a \in Actors |-> todo'[a]]
  <1>. SUFFICES ASSUME LifeInv, [Next]_vars PROVE todo' = [a \in Actors |-> todo'[a]]
    OBVIOUS
  <1>1. TypeInv /\ "main" \in Actors /\ Exchange \subseteq Actors
    BY DEF LifeInv, Actors, Threads
  <1>2. CASE todo' = todo
    BY <1>1, <1>2 DEF TypeInv
  <1>3. ASSUME NEW a \in Actors, NEW steps, Do(a, steps)
        PROVE  todo' = [b \in Actors |-> todo'[b]]
    BY <1>1, <1>3, Moved DEF Do
  <1>4. ASSUME NEW a \in Actors, Continue(a) PROVE \E steps : Do(a, steps)
    BY <1>4 DEF Continue, Do
  <1>5. todo' = todo \/ \E a \in Actors : Continue(a) \/ \E steps : Do(a, steps)
    <2>1. ASSUME NEW t \in Threads, Enter(t) \/ Leave(t) \/ Spin(t) PROVE todo' = todo
      BY <2>1 DEF Enter, Leave, Spin
    <2>2. ASSUME NEW t \in Exchange, Fail(t) PROVE \E steps : Do(t, steps)
      BY <2>2, Zenon DEF Fail
    <2>3. ASSUME New \/ Spawn \/ Assign \/ Drain \/ Silence PROVE Continue("main")
      BY <2>3, Zenon DEF New, Spawn, Assign, Drain, Silence
    <2>4. ASSUME MainFails \/ Interrupt PROVE \E steps : Do("main", steps)
      BY <2>4, Zenon DEF MainFails, Interrupt
    <2>5. ASSUME NEW a \in Actors,
                 Test(a) \/ Claim(a) \/ Delete(a) \/ Free(a) \/ Flag(a)
          PROVE  Continue(a) \/ \E steps : Do(a, steps)
      BY <2>5, Zenon DEF Test, Claim, Delete, Free, Flag
    <2>6. ASSUME NEW a \in Actors, JoinThread(a) PROVE todo' = todo \/ Continue(a)
      BY <2>6, Zenon DEF JoinThread
    <2>7. ASSUME PrintPositions PROVE todo' = todo \/ Continue("main")
      BY <2>7, Zenon DEF PrintPositions
    <2>8. ASSUME NEW a \in Actors, Exit(a) \/ Die(a) PROVE todo' = todo
      BY <2>8, Zenon DEF Exit, Die
    <2>9. ASSUME Produce \/ TakeResponse \/ TakeUpdate \/ UNCHANGED vars
          PROVE  todo' = todo
      BY <2>9, Zenon DEF Produce, TakeResponse, TakeUpdate, vars
    <2>. QED  BY <1>1, <2>1, <2>2, <2>3, <2>4, <2>5, <2>6, <2>7, <2>8, <2>9, Zenon DEF Next
  <1>. QED  BY <1>2, <1>3, <1>4, <1>5, Zenon

LEMMA Advancing ==
    ASSUME LifeInv,
           \/ thread' = thread
           \/ \E t \in Threads : Enter(t) \/ Leave(t) \/ Spin(t)
           \/ \E t \in Exchange : Fail(t)
    PROVE  Advances
  <1>0. thread = [t \in Threads |-> thread[t]]
    BY DEF LifeInv, TypeInv, TypeOK
  <1>1. CASE thread' = thread
    BY <1>0, <1>1 DEF Advances
  <1>2. ASSUME NEW t \in Threads, Enter(t) \/ Leave(t) \/ Spin(t) PROVE Advances
    BY <1>0, <1>2 DEF Enter, Leave, Spin, Advances, LifeInv, TypeInv
  <1>3. ASSUME NEW t \in Exchange, Fail(t) PROVE Advances
    BY <1>0, <1>3 DEF Fail, Advances, Exchange
  <1>. QED  BY <1>1, <1>2, <1>3

\* Otherwise main spawns a new thread, or one is joined.
LEMMA ThreadSteps ==
    ASSUME LifeInv, [Next]_vars
    PROVE  \/ Advances
           \/ /\ Spawn /\ Subject("main") \in Threads
              /\ thread' = [thread EXCEPT ![Subject("main")] = "announced"]
           \/ \E a \in Actors : \E t \in Threads :
                 /\ JoinThread(a) /\ t = Subject(a) /\ thread[t] = "done" /\ a # t
                 /\ ~Freed(a) /\ t \in handles
                 /\ thread' = [thread EXCEPT ![t] = "joined"]
                 /\ handles' = IF Guarded(t) THEN handles \ {t} ELSE handles
                 /\ Continue(a) /\ UNCHANGED ended
  <1>5. ASSUME Spawn
        PROVE  /\ Subject("main") \in Threads
               /\ thread' = [thread EXCEPT ![Subject("main")] = "announced"]
    BY <1>5, SpawnsNew DEF Spawn
  <1>6. ASSUME NEW a \in Actors, JoinThread(a)
        PROVE  \/ thread' = thread
               \/ /\ Subject(a) \in Threads /\ thread[Subject(a)] = "done" /\ a # Subject(a)
                  /\ ~Freed(a) /\ Subject(a) \in handles
                  /\ thread' = [thread EXCEPT ![Subject(a)] = "joined"]
                  /\ handles' = IF Guarded(Subject(a)) THEN handles \ {Subject(a)} ELSE handles
                  /\ Continue(a) /\ UNCHANGED ended
    <2>1. Busy(a, "join")
      BY <1>6 DEF JoinThread
    <2>2. Subject(a) \in Threads
      BY <2>1, Subjects
    <2>. QED  BY <1>6, <2>2, Zenon DEF JoinThread
  <1>7. ASSUME NEW a \in Actors,
               Test(a) \/ Claim(a) \/ Delete(a) \/ Free(a) \/ Flag(a) \/ Exit(a) \/ Die(a)
        PROVE  thread' = thread
    BY <1>7, Zenon DEF Test, Claim, Delete, Free, Flag, Exit, Die
  <1>8. ASSUME \/ New \/ MainFails \/ Assign \/ Drain \/ Silence \/ PrintPositions \/ Interrupt
               \/ Produce \/ TakeResponse \/ TakeUpdate \/ UNCHANGED vars
        PROVE  thread' = thread
    BY <1>8, Zenon DEF New, MainFails, Assign, Drain, Silence, PrintPositions, Interrupt,
                       Produce, TakeResponse, TakeUpdate, vars
  <1>. QED  BY <1>5, <1>6, <1>7, <1>8, Advancing, Zenon DEF Next

LEMMA LoopGoesOn ==
    ASSUME LifeInv, [Next]_vars
    PROVE  /\ looping' => thread'["tradeEngine"] = "running"
           /\ looping => /\ thread'["tradeEngine"] = thread["tradeEngine"]
                         /\ quoted' = quoted /\ looping'
  <1>1. looping => thread["tradeEngine"] = "running"
    BY DEF LifeInv, TypeInv
  <1>2. \/ UNCHANGED <<looping, quoted>>
        \/ TakeResponse
        \/ TakeUpdate /\ ~looping /\ looping' = looping
    <2>1. ASSUME NEW t \in Threads, Enter(t) \/ Leave(t) \/ Spin(t) \/ Fail(t)
          PROVE  UNCHANGED <<looping, quoted>>
      BY <2>1, Zenon DEF Enter, Leave, Spin, Fail, queues
    <2>2. ASSUME NEW a \in Actors,
                 Test(a) \/ Claim(a) \/ Delete(a) \/ Free(a) \/ Flag(a) \/ JoinThread(a)
                   \/ Exit(a) \/ Die(a)
          PROVE  UNCHANGED <<looping, quoted>>
      BY <2>2, Zenon DEF Test, Claim, Delete, Free, Flag, JoinThread, Exit, Die, queues
    <2>3. ASSUME \/ New \/ MainFails \/ Spawn \/ Assign \/ Drain \/ Silence \/ PrintPositions
                 \/ Interrupt \/ Produce \/ UNCHANGED vars
          PROVE  UNCHANGED <<looping, quoted>>
      BY <2>3, Zenon DEF New, MainFails, Spawn, Assign, Drain, Silence, PrintPositions,
                         Interrupt, Produce, vars, queues
    <2>4. ASSUME TakeUpdate PROVE ~looping /\ looping' = looping
      BY <2>4 DEF TakeUpdate
    <2>5. Exchange \subseteq Threads
      BY DEF Threads
    <2>. QED  BY <2>1, <2>2, <2>3, <2>4, <2>5, Zenon DEF Next
  <1>3. CASE Advances
    <2>1. looping => thread'["tradeEngine"] = thread["tradeEngine"]
      BY <1>3 DEF Advances, Threads, Trading
    <2>2. TakeResponse => /\ thread["tradeEngine"] = "running" /\ thread' = thread
                          /\ quoted' = quoted /\ (looping => looping')
      BY DEF TakeResponse, AfterLastResponse
    <2>. QED  BY <1>1, <1>2, <2>1, <2>2
  <1>4. CASE /\ Spawn /\ Subject("main") \in Threads
             /\ thread' = [thread EXCEPT ![Subject("main")] = "announced"]
    <2>1. thread[Subject("main")] = "none" /\ UNCHANGED <<looping, quoted>>
      BY <1>4, SpawnsNew DEF Spawn, queues
    <2>. QED  BY <1>1, <1>4, <2>1
  <1>5. CASE \E a \in Actors : \E t \in Threads :
                /\ JoinThread(a) /\ thread[t] = "done"
                /\ thread' = [thread EXCEPT ![t] = "joined"]
    <2>1. PICK a \in Actors, t \in Threads :
             /\ JoinThread(a) /\ thread[t] = "done"
             /\ thread' = [thread EXCEPT ![t] = "joined"]
      BY <1>5
    <2>2. UNCHANGED <<looping, quoted>> /\ (looping => t # "tradeEngine")
      BY <1>1, <2>1 DEF JoinThread, queues
    <2>. QED  BY <1>1, <2>1, <2>2
  <1>. QED  BY <1>3, <1>4, <1>5, ThreadSteps, Zenon

LEMMA SameProgram ==
    ASSUME [Next]_vars
    PROVE  program' = program
  <1>1. ASSUME NEW t \in Threads, Enter(t) \/ Leave(t) \/ Spin(t) \/ Fail(t) PROVE program' = program
    BY <1>1, Zenon DEF Enter, Leave, Spin, Fail
  <1>2. ASSUME NEW a \in Actors,
               Test(a) \/ Claim(a) \/ Delete(a) \/ Free(a) \/ Flag(a) \/ JoinThread(a)
                 \/ Exit(a) \/ Die(a)
        PROVE  program' = program
    BY <1>2, Zenon DEF Test, Claim, Delete, Free, Flag, JoinThread, Exit, Die
  <1>3. ASSUME \/ New \/ MainFails \/ Spawn \/ Assign \/ Drain \/ Silence \/ PrintPositions
               \/ Interrupt \/ Produce \/ TakeResponse \/ TakeUpdate \/ UNCHANGED vars
        PROVE  program' = program
    BY <1>3, Zenon DEF New, MainFails, Spawn, Assign, Drain, Silence, PrintPositions, Interrupt,
                       Produce, TakeResponse, TakeUpdate, vars
  <1>4. Exchange \subseteq Threads
    BY DEF Threads
  <1>. QED  BY <1>1, <1>2, <1>3, <1>4, Zenon DEF Next

\* The rest of the type invariant.
LEMMA TypesStay ==
    ASSUME BoundAssumption, LifeInv, [Next]_vars
    PROVE  TypeInv'
  <1>0. TypeInv
    BY DEF LifeInv
  <1>1. todo' = [a \in Actors |-> todo'[a]]
    BY TodoFunction
  <1>2. looping' => thread'["tradeEngine"] = "running"
    BY LoopGoesOn
  <1>3. thread' \in [Threads -> States]
    <2>1. thread \in [Threads -> States]
      BY <1>0 DEF TypeInv, TypeOK
    <2>2. CASE Advances
      BY <2>1, <2>2 DEF Advances, States
    <2>3. ASSUME NEW t \in Threads, NEW s \in {"announced", "joined"},
                 thread' = [thread EXCEPT ![t] = s]
          PROVE  thread' \in [Threads -> States]
      BY <2>1, <2>3 DEF States
    <2>. QED  BY <2>2, <2>3, ThreadSteps
  <1>4. /\ program' = program
        /\ objects' \subseteq Threads /\ handles' \subseteq Threads
        /\ stopping' \subseteq Threads /\ destroying' \in BOOLEAN /\ looping' \in BOOLEAN
        /\ failed' \subseteq Actors /\ quoted' \subseteq Tickers
        /\ ended' \in {"no", "success", "aborted", "crashed"}
        /\ responses' \in Nat /\ updates' \in Nat /\ responses' + updates' \in 0 .. MaxItems
    <2>. DEFINE Typed == /\ program' = program
                         /\ objects' \subseteq Threads /\ handles' \subseteq Threads
                         /\ stopping' \subseteq Threads /\ destroying' \in BOOLEAN
                         /\ looping' \in BOOLEAN
                         /\ failed' \subseteq Actors /\ quoted' \subseteq Tickers
                         /\ ended' \in {"no", "success", "aborted", "crashed"}
                         /\ responses' \in Nat /\ updates' \in Nat
                         /\ responses' + updates' \in 0 .. MaxItems
    <2>0. /\ objects \subseteq Threads /\ handles \subseteq Threads
          /\ stopping \subseteq Threads /\ destroying \in BOOLEAN /\ looping \in BOOLEAN
          /\ failed \subseteq Actors /\ quoted \subseteq Tickers
          /\ ended \in {"no", "success", "aborted", "crashed"}
          /\ responses \in Nat /\ updates \in Nat /\ responses + updates \in 0 .. MaxItems
      BY <1>0 DEF TypeInv, TypeOK
    <2>1. ASSUME UNCHANGED <<program, objects, handles, stopping, destroying, failed, queues>>,
                 ended' \in {ended, "success", "aborted", "crashed", "no"}
          PROVE  Typed
      BY <2>0, <2>1 DEF queues
    <2>2. ASSUME NEW t \in Threads, Enter(t) \/ Leave(t) \/ Spin(t) PROVE Typed
      BY <2>1, <2>2 DEF Enter, Leave, Spin, End
    <2>3. ASSUME NEW t \in Exchange, Fail(t) PROVE Typed
      BY <2>0, <2>3 DEF Fail, queues, Actors, Threads
    <2>4. ASSUME NEW a \in Actors, Busy(a, "free") \/ Busy(a, "flag") \/ Busy(a, "join")
          PROVE  Subject(a) \in Threads
      BY <2>4, Subjects
    <2>5. ASSUME Busy("main", "new") \/ Busy("main", "spawn") \/ Busy("main", "assign")
          PROVE  Subject("main") \in Threads
      BY <2>5, Subjects DEF Actors
    <2>6. ASSUME New PROVE Typed
      BY <2>0, <2>5, <2>6 DEF New, queues
    <2>7. ASSUME Assign PROVE Typed
      BY <2>0, <2>5, <2>7 DEF Assign, queues
    <2>8. ASSUME MainFails PROVE Typed
      BY <2>0, <2>8 DEF MainFails, queues, Actors
    <2>9. ASSUME \/ Spawn \/ Interrupt \/ Drain \/ Silence \/ PrintPositions
                 \/ UNCHANGED vars
          PROVE  Typed
      BY <2>1, <2>9, Zenon DEF Spawn, Interrupt, Drain, Silence, PrintPositions, vars, End
    <2>10. ASSUME NEW a \in Actors, Test(a) \/ Exit(a) \/ Die(a) \/ Delete(a) PROVE Typed
      BY <2>1, <2>10 DEF Test, Exit, Die, Delete, End
    <2>11. ASSUME NEW a \in Actors, Claim(a) PROVE Typed
      BY <2>0, <2>11 DEF Claim, queues
    <2>12. ASSUME NEW a \in Actors, Free(a) PROVE Typed
      BY <2>0, <2>12 DEF Free, End, queues
    <2>13. ASSUME NEW a \in Actors, Flag(a) PROVE Typed
      BY <2>0, <2>4, <2>13 DEF Flag, End, queues
    <2>14. ASSUME NEW a \in Actors, JoinThread(a) PROVE Typed
      <3>1. handles' \subseteq handles /\ ended' \in {ended, "aborted", "crashed"}
        BY <2>14 DEF JoinThread, End
      <3>. QED  BY <2>0, <2>14, <3>1 DEF JoinThread, queues
    <2>15. ASSUME Produce PROVE Typed
      BY <2>0, <2>15, BoundAssumption DEF Produce, BoundAssumption
    <2>16. ASSUME TakeResponse PROVE Typed
      <3>1. CASE responses > 0 /\ responses' = responses - 1 /\ looping' = TRUE /\ UNCHANGED ended
        BY <2>0, <2>16, <3>1 DEF TakeResponse
      <3>2. CASE AfterLastResponse
        BY <2>0, <2>16, <3>2 DEF TakeResponse, AfterLastResponse, End
      <3>. QED  BY <2>16, <3>1, <3>2 DEF TakeResponse
    <2>17. ASSUME TakeUpdate PROVE Typed
      BY <2>0, <2>17 DEF TakeUpdate
    <2>18. Typed
      BY <2>2, <2>3, <2>6, <2>7, <2>8, <2>9, <2>10, <2>11, <2>12, <2>13, <2>14, <2>15, <2>16,
         <2>17, Zenon DEF Next
    <2>. QED  BY <2>18
  <1>. QED  BY <1>0, <1>1, <1>2, <1>3, <1>4 DEF TypeInv, TypeOK

-----------------------------------------------------------------------------
(* The exchange.                                                            *)

\* Nothing is made, spawned or stored, and what has been joined stays so.
Calm ==
    /\ objects' \subseteq objects
    /\ \A t \in Threads : /\ thread'[t] = "none" <=> thread[t] = "none"
                          /\ thread[t] = "joined" => thread'[t] = "joined"
                          /\ thread[t] = "failed" => thread'[t] = "failed"
    /\ thread'["server"] = "announced" => thread["server"] = "announced"
    /\ "engine" \in handles' => "engine" \in handles
    /\ "engine" \in handles => "engine" \in handles' \/ thread'["engine"] = "joined"

LEMMA CalmAdvances ==
    ASSUME Advances, objects' \subseteq objects, handles' = handles
    PROVE  Calm
  BY DEF Advances, Calm, Threads, Exchange

LEMMA HandlerStays ==
    ASSUME NEW b \in Actors, Handles(b), todo'[b] = todo[b], Calm
    PROVE  Handles(b)'
  <1>1. CASE Dies(b)
    BY <1>1 DEF Dies, Handles
  <1>2. ASSUME NEW i \in 1 .. 5, Deletes(b, i) PROVE Handles(b)'
    <2>1. Deletes(b, i)'
      BY <1>2 DEF Deletes, Calm
    <2>. QED  BY <2>1 DEF Handles
  <1>3. ASSUME NEW i \in 3 .. 5, NEW j \in 1 .. 5, Destroys(b, i, j) PROVE Handles(b)'
    <2>1. \A t \in Threads : Settled(t) => Settled(t)'
      BY DEF Settled, Calm
    <2>2. \A m \in 1 .. j - 1 : Destruction(i)[m][2] \in Threads
      <3>1. j \in 1 .. Len(Destruction(i))
        BY <1>3 DEF Destroys
      <3>2. \A m \in 1 .. j - 1 : m \in 1 .. Len(Destruction(i))
        <4>1. Len(Destruction(i)) \in 3 .. 5
          BY <3>1, DestructionSteps, Zenon
        <4>. QED  BY <3>1, <4>1
      <3>3. \A m \in 1 .. Len(Destruction(i)) : Destruction(i)[m][2] \in Exchange
        BY DestructionSteps, Zenon
      <3>. QED  BY <3>2, <3>3 DEF Threads
    <2>3. Destroys(b, i, j)'
      BY <1>3, <2>1, <2>2 DEF Destroys, Calm
    <2>. QED  BY <2>3 DEF Handles
  <1>. QED  BY <1>1, <1>2, <1>3 DEF Handles

LEMMA MainStays ==
    ASSUME NEW p \in 1 .. 12, Prepares(p), todo'["main"] = todo["main"], Calm,
           \/ thread["server"] # "none"
           \/ UNCHANGED <<objects, handles, destroying, todo>>
    PROVE  Prepares(p)'
  <1>1. thread["server"] # "none" => p > 10
    BY ExchangeOrder DEF Prepares, Exchange
  <1>. QED  BY <1>1 DEF Prepares, Calm, Threads

\* One actor goes on in the handler, or main in its own text.
LEMMA ExchangeGoesOn ==
    ASSUME ExchangeInv, Calm, NEW a \in Actors,
           \A b \in Actors : b # a => todo'[b] = todo[b],
           a = "main" \/ thread["server"] \notin {"none", "announced"},
           Handles(a)' \/ (a = "main" /\ \E p \in 1 .. 12 : Prepares(p)'),
           \A t \in failed' \cap Threads :
              \/ t \in failed
              \/ t \in Exchange /\ thread'[t] = "failed" /\ thread["server"] # "none"
    PROVE  ExchangeInv'
  <1>0. /\ "server" \in Threads /\ "engine" \in Threads
        /\ Threads \subseteq Actors /\ "main" \notin Threads /\ "main" \in Actors
    BY DEF Actors, Threads, Exchange, Trading
  <1>1. Handles("main")' \/ \E p \in 1 .. 12 : Prepares(p)'
    <2>1. CASE a # "main" /\ Handles("main")
      BY <1>0, <2>1, HandlerStays
    <2>2. ASSUME a # "main", NEW p \in 1 .. 12, Prepares(p) PROVE Prepares(p)'
      BY <1>0, <2>2, MainStays
    <2>. QED  BY <2>1, <2>2 DEF ExchangeInv
  <1>2. \A t \in Threads : todo'[t] = <<>> \/ Handles(t)'
    <2>. TAKE t \in Threads
    <2>1. CASE t = a
      BY <1>0, <2>1
    <2>2. CASE t # a /\ todo[t] = <<>>
      BY <1>0, <2>2
    <2>3. CASE t # a /\ Handles(t)
      BY <1>0, <2>3, HandlerStays
    <2>. QED  BY <2>1, <2>2, <2>3 DEF ExchangeInv
  <1>3. thread'["server"] \in {"none", "announced"} => \A t \in Threads : todo'[t] = <<>>
    BY <1>0 DEF ExchangeInv, Calm
  <1>4. thread'["server"] # "none" => "engine" \in handles' \/ thread'["engine"] = "joined"
    BY <1>0 DEF ExchangeInv, Calm
  <1>5. \A t \in failed' \cap Threads : thread'[t] = "failed" /\ t \in Exchange
    BY DEF ExchangeInv, Calm
  <1>6. failed' \cap Threads # {} => thread'["server"] # "none"
    BY <1>0 DEF ExchangeInv, Calm
  <1>. QED  BY <1>1, <1>2, <1>3, <1>4, <1>5, <1>6 DEF ExchangeInv

LEMMA ExchangeWaits ==
    ASSUME ExchangeInv, Advances, UNCHANGED <<todo, objects, handles, destroying, failed>>
    PROVE  ExchangeInv'
  <1>1. Calm
    BY CalmAdvances
  <1>2. "main" \in Actors
    BY DEF Actors
  <1>3. CASE Handles("main")
    <2>1. Handles("main")'
      BY <1>1, <1>2, <1>3, HandlerStays
    <2>. QED  BY <1>1, <1>2, <2>1, ExchangeGoesOn
  <1>4. ASSUME NEW p \in 1 .. 12, Prepares(p) PROVE ExchangeInv'
    <2>1. Prepares(p)'
      BY <1>1, <1>4, MainStays
    <2>. QED  BY <1>1, <1>2, <2>1, ExchangeGoesOn
  <1>. QED  BY <1>3, <1>4 DEF ExchangeInv

\* The handler runs in a component thread only when the order server runs.
LEMMA WhoMoves ==
    ASSUME ExchangeInv, NEW a \in Actors, NEW op, Busy(a, op)
    PROVE  /\ a = "main" \/ thread["server"] \notin {"none", "announced"}
           /\ op \notin {"drain", "print", "silence"}
  <1>1. todo[a] # <<>> /\ Head(todo[a])[1] = op
    BY DEF Busy
  <1>2. a = "main" \/ thread["server"] \notin {"none", "announced"}
    BY <1>1 DEF ExchangeInv, Actors
  <1>3. ASSUME op \in {"drain", "print", "silence"} PROVE FALSE
    <2>1. CASE Dies(a)
      BY <1>1, <1>3, <2>1, AtDies
    <2>2. ASSUME NEW i \in 1 .. 5, Deletes(a, i) PROVE FALSE
      <3>1. Interrupted[i][1] \notin {"drain", "print", "silence"}
        BY InterruptedText
      <3>2. Head(todo[a]) = Interrupted[i]
        BY <2>2, AtDeletes, Zenon
      <3>. QED  BY <1>1, <1>3, <3>1, <3>2
    <2>3. ASSUME NEW i \in 3 .. 5, NEW j \in 1 .. 5, Destroys(a, i, j) PROVE FALSE
      <3>1. j \in 1 .. Len(Destruction(i)) /\ Head(todo[a]) = Destruction(i)[j]
        BY <2>3, AtDestructor, Zenon
      <3>2. Destruction(i)[j][1] \in {"flag", "join", "free"}
        BY <3>1, DestructionSteps, Zenon
      <3>3. Destruction(i)[j][1] # op
        BY <1>3, <3>2
      <3>. QED  BY <1>1, <3>1, <3>3, Zenon
    <2>4. ASSUME a = "main", NEW p \in 1 .. 12, Prepares(p) PROVE FALSE
      <3>1. \/ Head(todo["main"]) = ExchangeMain[p]
            \/ Head(todo["main"]) = <<"test", "main">>
        BY <2>4, AtPrepares, Zenon
      <3>2. ExchangeMain[p][1] \notin {"drain", "print", "silence"}
        BY ExchangeSteps
      <3>. QED  BY <1>1, <1>3, <2>4, <3>1, <3>2
    <2>. QED  BY <1>1, <2>1, <2>2, <2>3, <2>4, InExchange, Zenon DEF Handles
  <1>. QED  BY <1>2, <1>3

\* The steps of the handler, one by one.
LEMMA TestGoesOn ==
    ASSUME LifeInv, program = "exchange", NEW a \in Actors, Test(a)
    PROVE  ExchangeInv'
  <1>0. /\ ExchangeInv /\ TypeInv /\ Busy(a, "test")
        /\ UNCHANGED <<objects, thread, handles, destroying, failed>>
        /\ IF destroying THEN Continue(a) ELSE Do(a, Interrupted)
    BY DEF LifeInv, Test
  <1>1. Calm
    BY <1>0, Advancing, CalmAdvances
  <1>2. CASE ~destroying
    <2>1. todo'[a] = Interrupted /\ \A b \in Actors : b # a => todo'[b] = todo[b]
      BY <1>0, <1>2, Moved DEF Do
    <2>2. Deletes(a, 1)'
      BY <2>1, InterruptedText, FromEnds DEF Deletes
    <2>. QED  BY <1>0, <1>1, <2>1, <2>2, WhoMoves, ExchangeGoesOn DEF Handles
  <1>3. CASE destroying
    <2>1. todo'[a] = Tail(todo[a]) /\ \A b \in Actors : b # a => todo'[b] = todo[b]
      BY <1>0, <1>3, Moved DEF Continue
    <2>2. CASE Tail(todo[a]) = << <<"die", "main">> >>
      <3>1. Handles(a)'
        BY <2>1, <2>2 DEF Handles, Dies
      <3>. QED  BY <1>0, <1>1, <2>1, <3>1, WhoMoves, ExchangeGoesOn
    <2>3. ASSUME a = "main", NEW p \in 1 .. 12, Prepares(p), Tail(todo[a]) = From(ExchangeMain, p)
          PROVE  ExchangeInv'
      <3>1. Prepares(p)'
        BY <1>0, <1>3, <2>1, <2>3 DEF Prepares
      <3>. QED  BY <1>0, <1>1, <2>1, <2>3, <3>1, ExchangeGoesOn
    <2>. QED  BY <1>0, <2>2, <2>3, AtTest, Zenon
  <1>. QED  BY <1>2, <1>3

LEMMA ClaimGoesOn ==
    ASSUME LifeInv, program = "exchange", NEW a \in Actors, Claim(a)
    PROVE  ExchangeInv'
  <1>0. /\ ExchangeInv /\ TypeInv /\ Busy(a, "claim")
        /\ UNCHANGED <<objects, thread, handles, failed>>
        /\ todo' = [todo EXCEPT ![a] = Tail(todo[a])]
    BY DEF LifeInv, Claim, Continue
  <1>1. Calm
    BY <1>0, Advancing, CalmAdvances
  <1>2. todo'[a] = Tail(todo[a]) /\ \A b \in Actors : b # a => todo'[b] = todo[b]
    BY <1>0, Moved
  <1>3. Deletes(a, 2)'
    <2>1. Tail(todo[a]) = From(Interrupted, 2)
      BY <1>0, AtClaimOrExit, Zenon
    <2>. QED  BY <1>2, <2>1 DEF Deletes
  <1>. QED  BY <1>0, <1>1, <1>2, <1>3, WhoMoves, ExchangeGoesOn DEF Handles

LEMMA DeleteGoesOn ==
    ASSUME LifeInv, program = "exchange", NEW a \in Actors, Delete(a)
    PROVE  ExchangeInv'
  <1>0. /\ ExchangeInv /\ TypeInv /\ Busy(a, "delete")
        /\ UNCHANGED <<objects, thread, handles, failed>>
        /\ \/ Do(a, Destructor(Subject(a)) \o Tail(todo[a]))
           \/ Subject(a) \notin objects /\ Continue(a)
    BY DEF LifeInv, Delete
  <1>1. Calm
    BY <1>0, Advancing, CalmAdvances
  <1>2. PICK i \in 2 .. 4 : /\ Deletes(a, i) /\ Subject(a) = Interrupted[i][2]
                            /\ Tail(todo[a]) = From(Interrupted, i + 1)
    BY <1>0, AtDelete
  <1>3. CASE Subject(a) \notin objects /\ Continue(a)
    <2>1. todo'[a] = Tail(todo[a]) /\ \A b \in Actors : b # a => todo'[b] = todo[b]
      BY <1>0, <1>3, Moved DEF Continue
    <2>2. Deletes(a, i + 1)' /\ i + 1 \in 1 .. 5
      BY <1>0, <1>2, <1>3, <2>1 DEF Deletes
    <2>. QED  BY <1>0, <1>1, <2>1, <2>2, WhoMoves, ExchangeGoesOn DEF Handles
  <1>4. CASE Do(a, Destructor(Subject(a)) \o Tail(todo[a]))
    <2>. DEFINE steps == Destruction(i + 1)
    <2>1. /\ todo'[a] = steps \o From(Interrupted, i + 1)
          /\ \A b \in Actors : b # a => todo'[b] = todo[b]
      <3>1. steps = Destructor(Subject(a))
        BY <1>2 DEF Destruction
      <3>2. Do(a, steps \o From(Interrupted, i + 1))
        BY <1>0, <1>2, <1>4, <3>1, Zenon
      <3>. PICK text : text = steps \o From(Interrupted, i + 1)
        OBVIOUS
      <3>3. todo' = [todo EXCEPT ![a] = text]
        BY <3>2 DEF Do
      <3>. QED  BY <1>0, <3>3, Moved
    <2>2. i + 1 \in 3 .. 5 /\ (i + 1) - 1 = i
      OBVIOUS
    <2>3. steps \in Seq(Step) /\ 1 \in 1 .. Len(steps)
      <3>1. \A c \in {"publisher", "server", "engine"} : 1 \in 1 .. Len(Destructor(c))
        BY PlainDestructor, PublisherDestructor
      <3>2. Interrupted[i][2] \in {"publisher", "server", "engine"}
        BY InterruptedText
      <3>3. 1 \in 1 .. Len(steps)
        BY <2>2, <3>1, <3>2 DEF Destruction
      <3>. QED  BY <2>2, <3>3, DestructionSteps, Zenon
    <2>4. From(steps, 1) = steps
      BY <2>3, FromEnds, Zenon
    <2>5. Destroys(a, i + 1, 1)'
      <3>1. todo'[a] = From(steps, 1) \o From(Interrupted, i + 1)
        BY <2>1, <2>4
      <3>2. \A k \in 2 .. (i + 1) - 2 : Interrupted[k][2] \notin objects'
        BY <1>0, <1>2 DEF Deletes
      <3>3. \A m \in 1 .. 1 - 1 : FALSE
        OBVIOUS
      <3>. QED  BY <2>3, <3>1, <3>2, <3>3, Zenon DEF Destroys
    <2>6. Handles(a)'
      BY <2>2, <2>5 DEF Handles
    <2>. QED  BY <1>0, <1>1, <2>1, <2>6, WhoMoves, ExchangeGoesOn
  <1>. QED  BY <1>0, <1>3, <1>4

\* The next step of a destructor.
LEMMA NextOfDestructor ==
    ASSUME NEW a \in Actors, NEW i \in 3 .. 5, NEW j \in 1 .. 5, Destroys(a, i, j), Calm,
           Destruction(i)[j][1] # "free",
           Destruction(i)[j][1] = "join" => Settled(Destruction(i)[j][2])',
           todo'[a] = From(Destruction(i), j + 1) \o From(Interrupted, i)
    PROVE  Handles(a)'
  <1>. PICK steps : steps = Destruction(i)
    OBVIOUS
  <1>1. /\ j \in 1 .. Len(steps) /\ Len(steps) \in 3 .. 5
        /\ \A m \in 1 .. Len(steps) : steps[m][2] \in Exchange
        /\ j = Len(steps) => steps[j][1] = "free"
    <2>1. j \in 1 .. Len(Destruction(i))
      BY DEF Destroys
    <2>2. /\ Len(Destruction(i)) \in 3 .. 5
          /\ j = Len(Destruction(i)) => Destruction(i)[j][1] = "free"
      BY <2>1, DestructionSteps, Zenon
    <2>3. \A m \in 1 .. Len(Destruction(i)) : Destruction(i)[m][2] \in Exchange
      BY DestructionSteps, Zenon
    <2>. QED  BY <2>1, <2>2, <2>3
  <1>2. j + 1 \in 1 .. Len(steps) /\ j + 1 \in 1 .. 5
    BY <1>1
  <1>3. \A m \in 1 .. j : steps[m][1] = "join" => Settled(steps[m][2])'
    <2>1. \A t \in Threads : Settled(t) => Settled(t)'
      BY DEF Settled, Calm
    <2>2. \A m \in 1 .. j - 1 : m \in 1 .. Len(steps) /\ steps[m][2] \in Threads
      BY <1>1 DEF Threads
    <2>3. \A m \in 1 .. j - 1 : steps[m][1] = "join" => Settled(steps[m][2])
      BY DEF Destroys
    <2>. QED  BY <2>1, <2>2, <2>3
  <1>4. \A k \in 2 .. i - 2 : Interrupted[k][2] \notin objects'
    BY DEF Destroys, Calm
  <1>5. Destroys(a, i, j + 1)'
    BY <1>2, <1>3, <1>4, SMTT(30) DEF Destroys
  <1>. QED  BY <1>2, <1>5 DEF Handles

LEMMA FlagGoesOn ==
    ASSUME LifeInv, program = "exchange", NEW a \in Actors, Flag(a)
    PROVE  ExchangeInv'
  <1>0. /\ ExchangeInv /\ TypeInv /\ Busy(a, "flag")
        /\ UNCHANGED <<objects, thread, handles, failed>>
        /\ todo' = [todo EXCEPT ![a] = Tail(todo[a])]
    BY DEF LifeInv, Flag, Continue
  <1>1. Calm
    BY <1>0, Advancing, CalmAdvances
  <1>2. todo'[a] = Tail(todo[a]) /\ \A b \in Actors : b # a => todo'[b] = todo[b]
    BY <1>0, Moved
  <1>3. PICK i \in 3 .. 5, j \in 1 .. 5 :
           /\ Destroys(a, i, j) /\ Head(todo[a]) = Destruction(i)[j]
           /\ Tail(todo[a]) = From(Destruction(i), j + 1) \o From(Interrupted, i)
    BY <1>0, InDestructor
  <1>4. Destruction(i)[j][1] = "flag"
    BY <1>0, <1>3 DEF Busy
  <1>5. Handles(a)'
    BY <1>1, <1>2, <1>3, <1>4, NextOfDestructor
  <1>. QED  BY <1>0, <1>1, <1>2, <1>5, WhoMoves, ExchangeGoesOn

LEMMA FreeGoesOn ==
    ASSUME LifeInv, program = "exchange", NEW a \in Actors, Free(a)
    PROVE  ExchangeInv'
  <1>0. /\ ExchangeInv /\ TypeInv /\ Busy(a, "free")
        /\ UNCHANGED <<thread, handles, failed>> /\ objects' = objects \ {Subject(a)}
        /\ todo' = [todo EXCEPT ![a] = Tail(todo[a])]
    BY DEF LifeInv, Free, Continue
  <1>1. Calm
    BY <1>0, Advancing, CalmAdvances
  <1>2. todo'[a] = Tail(todo[a]) /\ \A b \in Actors : b # a => todo'[b] = todo[b]
    BY <1>0, Moved
  <1>3. PICK i \in 3 .. 5, j \in 1 .. 5 :
           /\ Destroys(a, i, j) /\ Head(todo[a]) = Destruction(i)[j]
           /\ Tail(todo[a]) = From(Destruction(i), j + 1) \o From(Interrupted, i)
    BY <1>0, InDestructor
  <1>. PICK steps, rest : steps = Destruction(i) /\ rest = From(Interrupted, i)
    OBVIOUS
  <1>4. steps[j][1] = "free"
    BY <1>0, <1>3 DEF Busy
  <1>5. j \in 1 .. Len(steps)
    BY <1>3 DEF Destroys
  <1>6. j = Len(steps) /\ steps[j][2] = Interrupted[i - 1][2] /\ steps \in Seq(Step)
    <2>1. j \in 1 .. Len(Destruction(i)) /\ Destruction(i)[j][1] = "free"
      BY <1>4, <1>5
    <2>2. /\ j = Len(Destruction(i)) /\ Destruction(i)[j][2] = Interrupted[i - 1][2]
          /\ Destruction(i) \in Seq(Step)
      BY <2>1, DestructionSteps, Zenon
    <2>. QED  BY <2>2
  <1>7. todo'[a] = From(Interrupted, i)
    <2>1. From(steps, j + 1) = <<>>
      BY <1>6, FromEnds, Zenon
    <2>2. rest \in Seq(Step)
      BY Destroyed
    <2>3. <<>> \o rest = rest
      BY <2>2
    <2>. QED  BY <1>2, <1>3, <2>1, <2>3
  <1>8. \A k \in 2 .. i - 1 : Interrupted[k][2] \notin objects'
    <2>1. Subject(a) = Interrupted[i - 1][2]
      BY <1>3, <1>6 DEF Subject
    <2>. QED  BY <1>0, <1>3, <2>1 DEF Destroys
  <1>9. Deletes(a, i)'
    BY <1>7, <1>8 DEF Deletes
  <1>. QED  BY <1>0, <1>1, <1>2, <1>9, WhoMoves, ExchangeGoesOn DEF Handles

LEMMA JoinGoesOn ==
    ASSUME LifeInv, program = "exchange", NEW a \in Actors, JoinThread(a)
    PROVE  ExchangeInv'
  <1>. PICK t : t = Subject(a)
    OBVIOUS
  <1>0. /\ ExchangeInv /\ TypeInv /\ Busy(a, "join") /\ t \in Threads
        /\ UNCHANGED <<objects, destroying, failed>>
    BY Subjects DEF LifeInv, JoinThread
  <1>1. CASE UNCHANGED <<todo, thread, handles>>
    BY <1>0, <1>1, Advancing, ExchangeWaits
  <1>2. ASSUME Continue(a), Calm, Settled(t)' PROVE ExchangeInv'
    <2>1. todo'[a] = Tail(todo[a]) /\ \A b \in Actors : b # a => todo'[b] = todo[b]
      BY <1>0, <1>2, Moved DEF Continue
    <2>2. PICK i \in 3 .. 5, j \in 1 .. 5 :
             /\ Destroys(a, i, j) /\ Head(todo[a]) = Destruction(i)[j]
             /\ Tail(todo[a]) = From(Destruction(i), j + 1) \o From(Interrupted, i)
      BY <1>0, InDestructor
    <2>3. Destruction(i)[j][1] = "join" /\ Destruction(i)[j][2] = t
      BY <1>0, <2>2 DEF Busy, Subject
    <2>4. /\ Destruction(i)[j][1] # "free" /\ Settled(Destruction(i)[j][2])'
          /\ todo'[a] = From(Destruction(i), j + 1) \o From(Interrupted, i)
      BY <1>2, <2>1, <2>2, <2>3
    <2>5. Handles(a)'
      BY <1>2, <2>2, <2>4, NextOfDestructor, Zenon
    <2>. QED  BY <1>0, <1>2, <2>1, <2>5, WhoMoves, ExchangeGoesOn
  <1>3. CASE /\ Continue(a) /\ thread[t] = "done" /\ thread' = [thread EXCEPT ![t] = "joined"]
             /\ handles' = IF Guarded(t) THEN handles \ {t} ELSE handles
    <2>0. thread = [s \in Threads |-> thread[s]]
      BY <1>0 DEF TypeInv, TypeOK
    <2>1. /\ thread'[t] = "joined"
          /\ \A s \in Threads : s # t => thread'[s] = thread[s]
      BY <1>0, <1>3, <2>0
    <2>2. Calm
      <3>1. "engine" \in handles' => "engine" \in handles
        BY <1>3
      <3>2. "engine" \in handles => "engine" \in handles' \/ thread'["engine"] = "joined"
        BY <1>3, <2>1 DEF Guarded
      <3>. QED  BY <1>0, <1>3, <2>1, <3>1, <3>2 DEF Calm, Threads, Exchange
    <2>3. Settled(t)'
      BY <2>1 DEF Settled
    <2>. QED  BY <1>2, <1>3, <2>2, <2>3
  <1>4. CASE Continue(a) /\ Guarded(t) /\ t \notin handles /\ UNCHANGED <<thread, handles>>
    <2>1. Calm
      BY <1>0, <1>4, Advancing, CalmAdvances
    <2>2. Settled(t)'
      BY <1>4 DEF Settled, Guarded
    <2>. QED  BY <1>2, <1>4, <2>1, <2>2
  <1>. QED  BY <1>1, <1>3, <1>4, Zenon DEF JoinThread

\* A failed check, or a signal.
LEMMA FailGoesOn ==
    ASSUME LifeInv, program = "exchange", NEW t \in Exchange, Fail(t)
    PROVE  ExchangeInv'
  <1>0. /\ ExchangeInv /\ TypeInv /\ t \in Actors /\ t \in Threads
        /\ UNCHANGED <<program, objects, handles>>
        /\ thread["server"] \notin {"none", "announced"}
        /\ failed' = failed \cup {t} /\ todo' = [todo EXCEPT ![t] = Abort]
    BY DEF LifeInv, Fail, Do, Actors, Threads
  <1>1. Calm
    BY <1>0, Advancing, CalmAdvances
  <1>2. todo'[t] = Abort /\ \A b \in Actors : b # t => todo'[b] = todo[b]
    BY <1>0, Moved
  <1>3. Handles(t)'
    BY <1>2 DEF Abort, Handles, Dies
  <1>4. thread'[t] = "failed"
    BY <1>0 DEF Fail, TypeInv, TypeOK
  <1>. QED  BY <1>0, <1>1, <1>2, <1>3, <1>4, ExchangeGoesOn

LEMMA MainFailsGoesOn ==
    ASSUME LifeInv, program = "exchange", MainFails
    PROVE  ExchangeInv'
  <1>0. /\ ExchangeInv /\ TypeInv /\ "main" \in Actors /\ "main" \notin Threads
        /\ UNCHANGED <<program, objects, thread, handles>>
        /\ failed' = failed \cup {"main"} /\ todo' = [todo EXCEPT !["main"] = Abort]
    BY DEF LifeInv, MainFails, Do, Actors, Threads, Exchange, Trading
  <1>1. Calm
    BY <1>0, Advancing, CalmAdvances
  <1>2. todo'["main"] = Abort /\ \A b \in Actors : b # "main" => todo'[b] = todo[b]
    BY <1>0, Moved
  <1>3. Handles("main")'
    BY <1>2 DEF Abort, Handles, Dies
  <1>. QED  BY <1>0, <1>1, <1>2, <1>3, ExchangeGoesOn

LEMMA InterruptGoesOn ==
    ASSUME LifeInv, program = "exchange", Interrupt
    PROVE  ExchangeInv'
  <1>0. /\ ExchangeInv /\ TypeInv /\ "main" \in Actors /\ "main" \notin Threads
        /\ UNCHANGED <<objects, thread, handles, destroying, failed>>
    BY DEF LifeInv, Interrupt, Actors, Threads, Exchange, Trading
  <1>1. Calm
    BY <1>0, Advancing, CalmAdvances
  <1>2. PICK p \in 1 .. 12 : Prepares(p) /\ todo["main"] = From(ExchangeMain, p)
    BY <1>0, InMain DEF Interrupt
  <1>. PICK text : text = TestFirst \o From(ExchangeMain, p)
    OBVIOUS
  <1>3. todo' = [todo EXCEPT !["main"] = text]
    BY <1>2 DEF Interrupt, Do, TestFirst
  <1>4. todo'["main"] = text /\ \A b \in Actors : b # "main" => todo'[b] = todo[b]
    BY <1>0, <1>3, Moved
  <1>5. Prepares(p)'
    <2>1. todo'["main"] = TestFirst \o From(ExchangeMain, p)
      BY <1>4
    <2>2. \A t \in Threads : todo'[t] = todo[t]
      BY <1>0, <1>4 DEF Actors
    <2>. QED  BY <1>0, <1>2, <2>1, <2>2 DEF Prepares
  <1>. QED  BY <1>0, <1>1, <1>4, <1>5, ExchangeGoesOn

\* Main in its own text.
LEMMA MainGoesOn ==
    ASSUME LifeInv, program = "exchange", NEW p \in 1 .. 11, Prepares(p),
           todo["main"] = From(ExchangeMain, p), Continue("main"),
           Tail(todo["main"]) = From(ExchangeMain, p + 1),
           \A t \in Exchange :
              thread'[t] = "none" <=> t \notin Did(ExchangeMain, "spawn", p + 1),
           p <= 9 => /\ objects' = Did(ExchangeMain, "new", p + 1)
                     /\ handles' = Did(ExchangeMain, "assign", p + 1)
                     /\ ~destroying',
           p <= 10 \/ Calm,
           thread'["server"] # "none" => "engine" \in handles' \/ thread'["engine"] = "joined",
           \A t \in Threads : thread[t] = "failed" => thread'[t] = "failed",
           thread'["server"] = "announced" => thread["server"] = "announced" \/ p = 10,
           UNCHANGED failed
    PROVE  ExchangeInv'
  <1>0. /\ ExchangeInv /\ TypeInv /\ "main" \in Actors /\ "main" \notin Threads
        /\ Threads \subseteq Actors /\ "server" \in Exchange /\ "server" \in Threads
        /\ Exchange \subseteq Threads
    BY DEF LifeInv, Actors, Threads, Exchange, Trading
  <1>1. /\ todo'["main"] = From(ExchangeMain, p + 1)
        /\ \A b \in Actors : b # "main" => todo'[b] = todo[b]
    BY <1>0, Moved DEF Continue
  <1>2. \A t \in Threads : todo'[t] = todo[t]
    BY <1>0, <1>1
  <1>3. Prepares(p + 1)' /\ p + 1 \in 1 .. 12
    <2>1. p + 1 <= 10 => \A t \in Threads : todo'[t] = <<>>
      BY <1>2 DEF Prepares
    <2>. QED  BY <1>1, <2>1 DEF Prepares
  <1>4. \A t \in Threads : todo'[t] = <<>> \/ Handles(t)'
    <2>1. CASE p <= 10
      BY <1>2, <2>1 DEF Prepares
    <2>2. CASE Calm
      BY <1>0, <1>2, <2>2, HandlerStays DEF ExchangeInv
    <2>. QED  BY <2>1, <2>2
  <1>5. thread'["server"] \in {"none", "announced"} => \A t \in Threads : todo'[t] = <<>>
    <2>1. CASE p <= 10
      BY <1>2, <2>1 DEF Prepares
    <2>2. CASE p = 11 /\ Calm
      BY <1>0, <1>2, <2>2 DEF Calm, ExchangeInv
    <2>. QED  BY <2>1, <2>2
  <1>6. failed' \cap Threads # {} => thread'["server"] # "none"
    <2>1. thread["server"] # "none" => thread'["server"] # "none"
      <3>1. thread["server"] # "none" => p > 10
        BY <1>0, ExchangeOrder DEF Prepares
      <3>. QED  BY <1>0, <3>1 DEF Calm
    <2>. QED  BY <1>0, <2>1 DEF ExchangeInv
  <1>7. \A t \in failed' \cap Threads : thread'[t] = "failed" /\ t \in Exchange
    BY <1>0 DEF ExchangeInv
  <1>. QED  BY <1>3, <1>4, <1>5, <1>6, <1>7 DEF ExchangeInv

LEMMA NewGoesOn ==
    ASSUME LifeInv, program = "exchange", New
    PROVE  ExchangeInv'
  <1>0. /\ ExchangeInv /\ Busy("main", "new") /\ Continue("main")
        /\ objects' = objects \cup {Subject("main")}
        /\ UNCHANGED <<thread, handles, destroying, failed>>
    BY DEF LifeInv, New
  <1>1. PICK p \in 1 .. 12 : /\ Prepares(p) /\ Head(todo["main"]) = ExchangeMain[p]
                             /\ todo["main"] = From(ExchangeMain, p)
                             /\ Tail(todo["main"]) = From(ExchangeMain, p + 1)
    BY <1>0, InMain
  <1>2. ExchangeMain[p][1] = "new" /\ ExchangeMain[p][2] = Subject("main")
    BY <1>0, <1>1 DEF Busy, Subject
  <1>3. p < 10
    BY <1>2, ExchangeSteps
  <1>4. /\ Did(ExchangeMain, "new", p + 1) = Did(ExchangeMain, "new", p) \cup {Subject("main")}
        /\ Did(ExchangeMain, "spawn", p + 1) = Did(ExchangeMain, "spawn", p)
        /\ Did(ExchangeMain, "assign", p + 1) = Did(ExchangeMain, "assign", p)
    <2>1. "new" # "spawn" /\ "new" # "assign"
      OBVIOUS
    <2>2. p \in Nat \ {0}
      OBVIOUS
    <2>3. /\ Did(ExchangeMain, ExchangeMain[p][1], p + 1) =
               Did(ExchangeMain, ExchangeMain[p][1], p) \cup {ExchangeMain[p][2]}
          /\ \A other : other # ExchangeMain[p][1] =>
               Did(ExchangeMain, other, p + 1) = Did(ExchangeMain, other, p)
      BY <2>2, DidNow, Zenon
    <2>. QED  BY <1>2, <2>1, <2>3
  <1>5. /\ \A t \in Exchange : thread'[t] = "none" <=> t \notin Did(ExchangeMain, "spawn", p + 1)
        /\ objects' = Did(ExchangeMain, "new", p + 1)
        /\ handles' = Did(ExchangeMain, "assign", p + 1) /\ ~destroying'
    BY <1>0, <1>1, <1>3, <1>4 DEF Prepares
  <1>6. /\ p \in 1 .. 11 /\ p <= 10
        /\ thread'["server"] # "none" => "engine" \in handles' \/ thread'["engine"] = "joined"
        /\ \A t \in Threads : thread[t] = "failed" => thread'[t] = "failed"
        /\ thread'["server"] = "announced" => thread["server"] = "announced"
    BY <1>0, <1>3 DEF ExchangeInv
  <1>. QED  BY <1>0, <1>1, <1>5, <1>6, MainGoesOn, Zenon

LEMMA SpawnGoesOn ==
    ASSUME LifeInv, program = "exchange", Spawn
    PROVE  ExchangeInv'
  <1>0. /\ ExchangeInv /\ Busy("main", "spawn") /\ Continue("main")
        /\ UNCHANGED <<objects, handles, destroying, failed>>
        /\ thread = [t \in Threads |-> thread[t]]
        /\ thread' = [thread EXCEPT ![Subject("main")] = "announced"]
    BY DEF LifeInv, TypeInv, TypeOK, Spawn
  <1>1. PICK p \in 1 .. 12 : /\ Prepares(p) /\ Head(todo["main"]) = ExchangeMain[p]
                             /\ todo["main"] = From(ExchangeMain, p)
                             /\ Tail(todo["main"]) = From(ExchangeMain, p + 1)
    BY <1>0, InMain
  <1>. PICK t : t = Subject("main")
    OBVIOUS
  <1>2. /\ ExchangeMain[p][1] = "spawn" /\ ExchangeMain[p][2] = t
        /\ t \in Threads /\ thread[t] = "none" /\ t \in Exchange
    BY <1>0, <1>1, SpawnsNew, ExchangeSteps DEF Busy, Subject
  <1>3. /\ p <= 10 /\ (t = "server" => p = 10)
        /\ p = 10 => "engine" \in Did(ExchangeMain, "assign", p)
    BY <1>2, ExchangeSteps, ExchangeOrder
  <1>4. /\ Did(ExchangeMain, "new", p + 1) = Did(ExchangeMain, "new", p)
        /\ Did(ExchangeMain, "spawn", p + 1) = Did(ExchangeMain, "spawn", p) \cup {t}
        /\ Did(ExchangeMain, "assign", p + 1) = Did(ExchangeMain, "assign", p)
    <2>1. "new" # "spawn" /\ "spawn" # "assign" /\ p \in Nat \ {0}
      OBVIOUS
    <2>2. /\ Did(ExchangeMain, ExchangeMain[p][1], p + 1) =
               Did(ExchangeMain, ExchangeMain[p][1], p) \cup {ExchangeMain[p][2]}
          /\ \A other : other # ExchangeMain[p][1] =>
               Did(ExchangeMain, other, p + 1) = Did(ExchangeMain, other, p)
      BY <2>1, DidNow, Zenon
    <2>. QED  BY <1>2, <2>1, <2>2
  <1>5. thread'[t] = "announced" /\ \A s \in Threads : s # t => thread'[s] = thread[s]
    BY <1>0, <1>2
  <1>6. /\ p \in 1 .. 11 /\ (p <= 10 \/ Calm)
        /\ \A s \in Exchange : thread'[s] = "none" <=> s \notin Did(ExchangeMain, "spawn", p + 1)
        /\ p <= 9 => /\ objects' = Did(ExchangeMain, "new", p + 1)
                     /\ handles' = Did(ExchangeMain, "assign", p + 1) /\ ~destroying'
    <2>1. \A s \in Exchange : thread'[s] = "none" <=> s \notin Did(ExchangeMain, "spawn", p + 1)
      BY <1>1, <1>4, <1>5 DEF Prepares, Threads
    <2>. QED  BY <1>0, <1>1, <1>3, <1>4, <2>1 DEF Prepares
  <1>7. /\ thread'["server"] # "none" => "engine" \in handles' \/ thread'["engine"] = "joined"
        /\ \A s \in Threads : thread[s] = "failed" => thread'[s] = "failed"
        /\ thread'["server"] = "announced" => thread["server"] = "announced" \/ p = 10
    <2>1. "server" \in Threads /\ "engine" \in Threads
      BY DEF Threads, Exchange
    <2>2. CASE t = "server"
      <3>1. "engine" \in handles'
        BY <1>0, <1>1, <1>3, <2>2 DEF Prepares
      <3>. QED  BY <1>2, <1>3, <1>5, <2>2, <3>1
    <2>3. CASE t # "server"
      BY <1>0, <1>2, <1>5, <2>1, <2>3 DEF ExchangeInv
    <2>. QED  BY <2>2, <2>3
  <1>. QED  BY <1>0, <1>1, <1>6, <1>7, MainGoesOn, Zenon

LEMMA AssignGoesOn ==
    ASSUME LifeInv, program = "exchange", Assign
    PROVE  ExchangeInv'
  <1>0. /\ ExchangeInv /\ Busy("main", "assign") /\ Continue("main")
        /\ handles' = handles \cup {Subject("main")}
        /\ UNCHANGED <<objects, thread, destroying, failed>>
    BY DEF LifeInv, Assign
  <1>1. PICK p \in 1 .. 12 : /\ Prepares(p) /\ Head(todo["main"]) = ExchangeMain[p]
                             /\ todo["main"] = From(ExchangeMain, p)
                             /\ Tail(todo["main"]) = From(ExchangeMain, p + 1)
    BY <1>0, InMain
  <1>. PICK t : t = Subject("main")
    OBVIOUS
  <1>2. ExchangeMain[p][1] = "assign" /\ ExchangeMain[p][2] = t
    BY <1>0, <1>1 DEF Busy, Subject
  <1>3. p \in 1 .. 11 /\ (p <= 10 \/ t = "server")
    BY <1>2, ExchangeSteps
  <1>4. /\ Did(ExchangeMain, "new", p + 1) = Did(ExchangeMain, "new", p)
        /\ Did(ExchangeMain, "spawn", p + 1) = Did(ExchangeMain, "spawn", p)
        /\ Did(ExchangeMain, "assign", p + 1) = Did(ExchangeMain, "assign", p) \cup {t}
    <2>1. "new" # "assign" /\ "spawn" # "assign" /\ p \in Nat \ {0}
      OBVIOUS
    <2>2. /\ Did(ExchangeMain, ExchangeMain[p][1], p + 1) =
               Did(ExchangeMain, ExchangeMain[p][1], p) \cup {ExchangeMain[p][2]}
          /\ \A other : other # ExchangeMain[p][1] =>
               Did(ExchangeMain, other, p + 1) = Did(ExchangeMain, other, p)
      BY <2>1, DidNow, Zenon
    <2>. QED  BY <1>2, <2>1, <2>2
  <1>5. p <= 10 \/ Calm
    BY <1>0, <1>3 DEF Calm
  <1>6. /\ \A s \in Exchange : thread'[s] = "none" <=> s \notin Did(ExchangeMain, "spawn", p + 1)
        /\ p <= 9 => /\ objects' = Did(ExchangeMain, "new", p + 1)
                     /\ handles' = Did(ExchangeMain, "assign", p + 1) /\ ~destroying'
    BY <1>0, <1>1, <1>4 DEF Prepares
  <1>7. /\ thread'["server"] # "none" => "engine" \in handles' \/ thread'["engine"] = "joined"
        /\ \A s \in Threads : thread[s] = "failed" => thread'[s] = "failed"
        /\ thread'["server"] = "announced" => thread["server"] = "announced"
    BY <1>0 DEF ExchangeInv
  <1>. QED  BY <1>0, <1>1, <1>3, <1>5, <1>6, <1>7, MainGoesOn, Zenon

LEMMA ExchangeStays ==
    ASSUME LifeInv, program = "exchange", [Next]_vars
    PROVE  ExchangeInv'
  <1>0. ExchangeInv
    BY DEF LifeInv
  <1>1. ASSUME NEW t \in Threads, Enter(t) \/ Leave(t) \/ Spin(t) PROVE ExchangeInv'
    <2>1. UNCHANGED <<todo, objects, handles, destroying, failed>>
      BY <1>1, Zenon DEF Enter, Leave, Spin
    <2>. QED  BY <1>0, <1>1, <2>1, Advancing, ExchangeWaits
  <1>2. ASSUME Produce \/ TakeResponse \/ TakeUpdate \/ UNCHANGED vars
        PROVE  ExchangeInv'
    <2>1. UNCHANGED <<todo, objects, handles, destroying, failed, thread>>
      BY <1>2, Zenon DEF Produce, TakeResponse, TakeUpdate, vars
    <2>. QED  BY <1>0, <2>1, Advancing, ExchangeWaits
  <1>3. ASSUME NEW a \in Actors, Exit(a) \/ Die(a) PROVE ExchangeInv'
    <2>1. UNCHANGED <<todo, objects, handles, destroying, failed, thread>>
      BY <1>3, Zenon DEF Exit, Die
    <2>. QED  BY <1>0, <2>1, Advancing, ExchangeWaits
  <1>4. ASSUME Drain \/ PrintPositions \/ Silence PROVE FALSE
    <2>1. \E op \in {"drain", "print", "silence"} : Busy("main", op)
      BY <1>4 DEF Drain, PrintPositions, Silence
    <2>. QED  BY <1>0, <2>1, WhoMoves DEF Actors
  <1>. QED  BY <1>1, <1>2, <1>3, <1>4, TestGoesOn, ClaimGoesOn, DeleteGoesOn, FlagGoesOn,
               FreeGoesOn, JoinGoesOn, FailGoesOn, MainFailsGoesOn, InterruptGoesOn, NewGoesOn,
               SpawnGoesOn, AssignGoesOn, Zenon DEF Next

-----------------------------------------------------------------------------
(* The trading program.                                                     *)

LEMMA TradingWaits ==
    ASSUME TradingInv, Advances, UNCHANGED <<todo, objects>>
    PROVE  TradingInv'
  <1>1. /\ \A t \in Threads : thread'[t] = "none" <=> thread[t] = "none"
        /\ thread["tradeEngine"] = "joined" => thread'["tradeEngine"] = "joined"
    BY DEF Advances, Threads, Trading
  <1>2. ASSUME NEW p \in 1 .. 19, Proceeds(p) PROVE Proceeds(p)'
    BY <1>1, <1>2 DEF Proceeds, Threads
  <1>3. ASSUME NEW j \in 1 .. 3, Deadends(j) PROVE Deadends(j)'
    BY <1>1, <1>3 DEF Deadends
  <1>4. thread'["server"] = "none" /\ \A t \in Threads : todo'[t] = <<>>
    BY <1>1 DEF TradingInv, Threads, Exchange
  <1>. QED  BY <1>2, <1>3, <1>4 DEF TradingInv

\* Main takes the next step of its text.
LEMMA TradingGoesOn ==
    ASSUME LifeInv, program = "trading", NEW p \in 1 .. 18, Proceeds(p), Continue("main"),
           Tail(todo["main"]) = From(TradingMain, p + 1),
           \A t \in Trading : thread'[t] = "none" <=> t \notin Did(TradingMain, "spawn", p + 1),
           objects' = Did(TradingMain, "new", p + 1),
           p >= 13 => thread'["tradeEngine"] = "joined",
           thread'["server"] = "none"
    PROVE  TradingInv'
  <1>0. /\ TradingInv /\ TypeInv /\ "main" \in Actors /\ "main" \notin Threads
        /\ Threads \subseteq Actors
    BY DEF LifeInv, Actors, Threads, Exchange, Trading
  <1>1. /\ todo'["main"] = From(TradingMain, p + 1)
        /\ \A b \in Actors : b # "main" => todo'[b] = todo[b]
    BY <1>0, Moved DEF Continue
  <1>2. Proceeds(p + 1)' /\ p + 1 \in 1 .. 19
    BY <1>1 DEF Proceeds
  <1>3. \A t \in Threads : todo'[t] = <<>>
    BY <1>0, <1>1 DEF TradingInv
  <1>. QED  BY <1>2, <1>3 DEF TradingInv

\* What the texts do not mention between the p-th step and the next has not changed.
LEMMA SameDid ==
    ASSUME NEW p \in 1 .. 19, TradingMain[p][1] \notin {"new", "spawn"}
    PROVE  /\ Did(TradingMain, "new", p + 1) = Did(TradingMain, "new", p)
           /\ Did(TradingMain, "spawn", p + 1) = Did(TradingMain, "spawn", p)
  <1>1. p \in Nat \ {0}
    OBVIOUS
  <1>2. \A other : other # TradingMain[p][1] =>
           Did(TradingMain, other, p + 1) = Did(TradingMain, other, p)
    BY <1>1, DidNow, Zenon
  <1>. QED  BY <1>2

LEMMA AtProceeds ==
    ASSUME TradingInv, NEW op, Busy("main", op), op \notin {"die", "drain", "flag", "join"}
    PROVE  \E p \in 1 .. 19 : /\ Proceeds(p) /\ Head(todo["main"]) = TradingMain[p]
                              /\ Tail(todo["main"]) = From(TradingMain, p + 1)
                              /\ op = TradingMain[p][1]
  <1>1. \A j \in 1 .. 3 : Destructor("tradeEngine")[j][1] \in {"drain", "flag", "join"}
    BY DeadendSteps
  <1>2. "main" \in Actors
    BY DEF Actors
  <1>3. \/ op = "die"
        \/ \E p \in 1 .. 19 : /\ Proceeds(p) /\ Head(todo["main"]) = TradingMain[p]
                               /\ Tail(todo["main"]) = From(TradingMain, p + 1)
                               /\ op = TradingMain[p][1]
        \/ \E j \in 1 .. 3 : op = Destructor("tradeEngine")[j][1]
    BY <1>2, InTrading, Zenon
  <1>. QED  BY <1>1, <1>3

\* Steps that change neither the threads nor the components.
LEMMA QuietGoesOn ==
    ASSUME LifeInv, program = "trading", NEW op \in {"assign", "drain", "flag", "print", "silence"},
           Busy("main", op), Continue("main"), UNCHANGED <<thread, objects>>
    PROVE  TradingInv'
  <1>0. TradingInv /\ TypeInv /\ "main" \in Actors /\ thread["server"] = "none"
    BY DEF LifeInv, Actors, TradingInv
  <1>1. ASSUME NEW p \in 1 .. 19, Proceeds(p), Tail(todo["main"]) = From(TradingMain, p + 1),
               op = TradingMain[p][1]
        PROVE  TradingInv'
    <2>1. p # 19 /\ p # 13
      BY <1>1, TradingSteps
    <2>2. /\ Did(TradingMain, "new", p + 1) = Did(TradingMain, "new", p)
          /\ Did(TradingMain, "spawn", p + 1) = Did(TradingMain, "spawn", p)
      BY <1>1, SameDid
    <2>3. /\ \A t \in Trading : thread'[t] = "none" <=> t \notin Did(TradingMain, "spawn", p + 1)
          /\ objects' = Did(TradingMain, "new", p + 1)
          /\ p >= 13 => thread'["tradeEngine"] = "joined"
          /\ thread'["server"] = "none" /\ p \in 1 .. 18
      BY <1>0, <1>1, <2>1, <2>2 DEF Proceeds
    <2>. QED  BY <1>1, <2>3, TradingGoesOn, Zenon
  <1>2. ASSUME NEW j \in 1 .. 3, Deadends(j), op = Destructor("tradeEngine")[j][1],
               Tail(todo["main"]) =
                 From(Destructor("tradeEngine"), j + 1) \o From(TradingMain, 20)
        PROVE  TradingInv'
    <2>1. j + 1 \in 1 .. 3
      BY <1>2, DeadendSteps
    <2>2. todo'["main"] = Tail(todo["main"]) /\ \A b \in Actors : b # "main" => todo'[b] = todo[b]
      BY <1>0, Moved DEF Continue
    <2>3. Deadends(j + 1)'
      BY <1>2, <2>2 DEF Deadends
    <2>4. \A t \in Threads : todo'[t] = <<>>
      BY <1>0, <2>2 DEF TradingInv, Actors, Threads, Exchange, Trading
    <2>. QED  BY <1>0, <2>1, <2>3, <2>4 DEF TradingInv
  <1>. QED  BY <1>0, <1>1, <1>2, InTrading

LEMMA TradingNew ==
    ASSUME LifeInv, program = "trading", New
    PROVE  TradingInv'
  <1>0. /\ TradingInv /\ Busy("main", "new") /\ Continue("main") /\ UNCHANGED thread
        /\ objects' = objects \cup {Subject("main")} /\ thread["server"] = "none"
    BY DEF LifeInv, New, TradingInv
  <1>1. PICK p \in 1 .. 19 : /\ Proceeds(p) /\ Head(todo["main"]) = TradingMain[p]
                             /\ Tail(todo["main"]) = From(TradingMain, p + 1)
                             /\ TradingMain[p][1] = "new"
    BY <1>0, AtProceeds
  <1>2. p < 10 /\ TradingMain[p][2] = Subject("main")
    BY <1>1, TradingSteps DEF Subject
  <1>3. /\ Did(TradingMain, "new", p + 1) = Did(TradingMain, "new", p) \cup {Subject("main")}
        /\ Did(TradingMain, "spawn", p + 1) = Did(TradingMain, "spawn", p)
    <2>1. "new" # "spawn" /\ p \in Nat \ {0}
      OBVIOUS
    <2>2. /\ Did(TradingMain, TradingMain[p][1], p + 1) =
               Did(TradingMain, TradingMain[p][1], p) \cup {TradingMain[p][2]}
          /\ \A other : other # TradingMain[p][1] =>
               Did(TradingMain, other, p + 1) = Did(TradingMain, other, p)
      BY <2>1, DidNow, Zenon
    <2>. QED  BY <1>1, <1>2, <2>1, <2>2
  <1>4. /\ \A t \in Trading : thread'[t] = "none" <=> t \notin Did(TradingMain, "spawn", p + 1)
        /\ objects' = Did(TradingMain, "new", p + 1)
        /\ p >= 13 => thread'["tradeEngine"] = "joined"
        /\ thread'["server"] = "none" /\ p \in 1 .. 18
    BY <1>0, <1>1, <1>2, <1>3 DEF Proceeds
  <1>. QED  BY <1>0, <1>1, <1>4, TradingGoesOn, Zenon

LEMMA TradingSpawn ==
    ASSUME LifeInv, program = "trading", Spawn
    PROVE  TradingInv'
  <1>0. /\ TradingInv /\ Busy("main", "spawn") /\ Continue("main") /\ UNCHANGED objects
        /\ thread = [t \in Threads |-> thread[t]] /\ thread["server"] = "none"
        /\ thread' = [thread EXCEPT ![Subject("main")] = "announced"]
    BY DEF LifeInv, TypeInv, TypeOK, Spawn, TradingInv
  <1>1. PICK p \in 1 .. 19 : /\ Proceeds(p) /\ Head(todo["main"]) = TradingMain[p]
                             /\ Tail(todo["main"]) = From(TradingMain, p + 1)
                             /\ TradingMain[p][1] = "spawn"
    BY <1>0, AtProceeds
  <1>. PICK t : t = Subject("main")
    OBVIOUS
  <1>2. /\ TradingMain[p][2] = t /\ t \in Trading /\ p # 19
        /\ ~(p >= 13)
    <2>1. TradingMain[p][2] = t /\ t \in Trading /\ p # 19
      BY <1>1, TradingSteps DEF Subject
    <2>2. p > 12 => Trading \subseteq Did(TradingMain, "spawn", p)
      BY TradingOrder
    <2>3. t \notin Did(TradingMain, "spawn", p)
      BY <1>1, <2>1, TradingOrder
    <2>. QED  BY <2>1, <2>2, <2>3
  <1>3. /\ Did(TradingMain, "new", p + 1) = Did(TradingMain, "new", p)
        /\ Did(TradingMain, "spawn", p + 1) = Did(TradingMain, "spawn", p) \cup {t}
    <2>1. "new" # "spawn" /\ p \in Nat \ {0}
      OBVIOUS
    <2>2. /\ Did(TradingMain, TradingMain[p][1], p + 1) =
               Did(TradingMain, TradingMain[p][1], p) \cup {TradingMain[p][2]}
          /\ \A other : other # TradingMain[p][1] =>
               Did(TradingMain, other, p + 1) = Did(TradingMain, other, p)
      BY <2>1, DidNow, Zenon
    <2>. QED  BY <1>1, <1>2, <2>1, <2>2
  <1>4. /\ thread'[t] = "announced" /\ t \in Threads /\ t # "server" /\ "server" \in Threads
        /\ \A s \in Threads : s # t => thread'[s] = thread[s]
    BY <1>0, <1>2 DEF Threads, Trading, Exchange
  <1>5. \A s \in Trading : thread'[s] = "none" <=> s \notin Did(TradingMain, "spawn", p + 1)
    BY <1>1, <1>3, <1>4 DEF Proceeds, Threads
  <1>6. /\ objects' = Did(TradingMain, "new", p + 1)
        /\ p >= 13 => thread'["tradeEngine"] = "joined"
        /\ thread'["server"] = "none" /\ p \in 1 .. 18
    BY <1>0, <1>1, <1>2, <1>3, <1>4 DEF Proceeds
  <1>. QED  BY <1>0, <1>1, <1>5, <1>6, TradingGoesOn, Zenon

LEMMA TradingJoin ==
    ASSUME LifeInv, program = "trading", NEW a \in Actors, JoinThread(a)
    PROVE  TradingInv'
  <1>. PICK t : t = Subject(a)
    OBVIOUS
  <1>0. /\ TradingInv /\ TypeInv /\ Busy(a, "join") /\ UNCHANGED objects
        /\ thread = [s \in Threads |-> thread[s]] /\ thread["server"] = "none"
    BY DEF LifeInv, TypeInv, TypeOK, JoinThread, TradingInv
  <1>1. CASE UNCHANGED <<todo, thread, handles>>
    BY <1>0, <1>1, Advancing, TradingWaits
  <1>. PICK op : op = "join"
    OBVIOUS
  <1>2. /\ a = "main"
        /\ \/ op = "die"
           \/ \E p \in 1 .. 19 : /\ Proceeds(p) /\ Head(todo["main"]) = TradingMain[p]
                                  /\ Tail(todo["main"]) = From(TradingMain, p + 1)
                                  /\ op = TradingMain[p][1]
           \/ \E j \in 1 .. 3 :
                  Deadends(j) /\ Head(todo["main"]) = Destructor("tradeEngine")[j]
    <2>1. Busy(a, op)
      BY <1>0
    <2>. QED  BY <1>0, <2>1, InTrading, Zenon
  <1>3. a = "main" /\ t \in Trading
    <2>1. a = "main"
      BY <1>2
    <2>2. \/ \E p \in 1 .. 19 : Head(todo["main"]) = TradingMain[p] /\ "join" = TradingMain[p][1]
          \/ \E j \in 1 .. 3 : Head(todo["main"]) = Destructor("tradeEngine")[j]
      BY <1>2
    <2>3. \A p \in 1 .. 19 : TradingMain[p][1] = "join" => TradingMain[p][2] \in Trading
      BY TradingSteps
    <2>4. \A j \in 1 .. 3 : Destructor("tradeEngine")[j][2] \in Trading
      BY DeadendSteps DEF Trading
    <2>. QED  BY <2>1, <2>2, <2>3, <2>4 DEF Subject
  <1>4. ASSUME Continue(a), thread[t] = "done", thread' = [thread EXCEPT ![t] = "joined"]
        PROVE  TradingInv'
    <2>1. /\ thread'[t] = "joined" /\ t # "server" /\ "server" \in Threads
          /\ \A s \in Threads : s # t => thread'[s] = thread[s]
      BY <1>0, <1>3, <1>4 DEF Threads, Trading, Exchange
    <2>2. PICK p \in 1 .. 19 : /\ Proceeds(p) /\ Head(todo["main"]) = TradingMain[p]
                               /\ Tail(todo["main"]) = From(TradingMain, p + 1)
                               /\ TradingMain[p][1] = "join"
      <3>1. ASSUME NEW j \in 1 .. 3, Deadends(j), Head(todo["main"]) = Destructor("tradeEngine")[j]
            PROVE  FALSE
        <4>1. Destructor("tradeEngine")[j][2] = "tradeEngine"
          BY DeadendSteps
        <4>. QED  BY <1>3, <1>4, <3>1, <4>1 DEF Deadends, Subject
      <3>. QED  BY <1>2, <3>1
    <2>3. p \in 13 .. 18 /\ (p = 13 => t = "tradeEngine")
      <3>1. TradingMain[p][2] = t
        BY <1>3, <2>2 DEF Subject
      <3>2. p >= 13 /\ p # 19 /\ (p = 13 => TradingMain[p] = <<"join", "tradeEngine">>)
        BY <2>2, TradingSteps
      <3>. QED  BY <3>1, <3>2
    <2>4. /\ Did(TradingMain, "new", p + 1) = Did(TradingMain, "new", p)
          /\ Did(TradingMain, "spawn", p + 1) = Did(TradingMain, "spawn", p)
      BY <2>2, SameDid
    <2>5. \A s \in Trading : thread'[s] = "none" <=> s \notin Did(TradingMain, "spawn", p + 1)
      BY <1>3, <1>4, <2>1, <2>2, <2>4 DEF Proceeds, Threads
    <2>6. /\ objects' = Did(TradingMain, "new", p + 1)
          /\ thread'["server"] = "none" /\ p \in 1 .. 18
      BY <1>0, <2>1, <2>2, <2>3, <2>4 DEF Proceeds
    <2>7. p >= 13 => thread'["tradeEngine"] = "joined"
      BY <2>1, <2>2, <2>3 DEF Proceeds, Threads, Trading
    <2>. QED  BY <1>3, <1>4, <2>2, <2>5, <2>6, <2>7, TradingGoesOn, Zenon
  <1>5. ~Guarded(t)
    BY <1>3 DEF Guarded, Trading
  <1>. QED  BY <1>1, <1>4, <1>5, Zenon DEF JoinThread

\* The destructor of the trade engine is as far as main gets.
LEMMA TradingDelete ==
    ASSUME LifeInv, program = "trading", NEW a \in Actors, Delete(a)
    PROVE  TradingInv'
  <1>0. /\ TradingInv /\ TypeInv /\ Busy(a, "delete") /\ UNCHANGED <<objects, thread>>
        /\ thread["server"] = "none"
        /\ \/ Do(a, Destructor(Subject(a)) \o Tail(todo[a]))
           \/ Subject(a) \notin objects /\ Continue(a)
    BY DEF LifeInv, Delete, TradingInv
  <1>1. a = "main"
    BY <1>0, InTrading, Zenon
  <1>2. PICK p \in 1 .. 19 : /\ Proceeds(p) /\ Head(todo["main"]) = TradingMain[p]
                             /\ Tail(todo["main"]) = From(TradingMain, p + 1)
                             /\ TradingMain[p][1] = "delete"
    BY <1>0, <1>1, AtProceeds
  <1>3. p = 19 /\ Subject("main") = "tradeEngine"
    BY <1>2, TradingSteps DEF Subject
  <1>4. "tradeEngine" \in objects /\ thread["tradeEngine"] = "joined"
    BY <1>2, <1>3, TradingOrder DEF Proceeds
  <1>. PICK text, rest : text = Destructor("tradeEngine") /\ rest = From(TradingMain, 20)
    OBVIOUS
  <1>5. Do("main", text \o rest)
    <2>1. Tail(todo["main"]) = rest
      BY <1>2, <1>3
    <2>. QED  BY <1>0, <1>1, <1>3, <1>4, <2>1
  <1>6. todo'["main"] = text \o rest /\ \A b \in Actors : b # "main" => todo'[b] = todo[b]
    <2>. PICK steps : steps = text \o rest
      OBVIOUS
    <2>1. todo' = [todo EXCEPT !["main"] = steps] /\ "main" \in Actors
      BY <1>5 DEF Do, Actors
    <2>. QED  BY <1>0, <2>1, Moved
  <1>7. From(text, 1) = text
    BY TradeEngineDestructor, FromEnds
  <1>8. Deadends(1)'
    BY <1>0, <1>4, <1>6, <1>7 DEF Deadends
  <1>9. \A t \in Threads : todo'[t] = <<>>
    BY <1>0, <1>6 DEF TradingInv, Actors, Threads, Exchange, Trading
  <1>. QED  BY <1>0, <1>8, <1>9 DEF TradingInv

LEMMA TradingStays ==
    ASSUME LifeInv, program = "trading", [Next]_vars
    PROVE  TradingInv'
  <1>0. TradingInv /\ TypeInv /\ thread["server"] = "none" /\ "main" \in Actors
    BY DEF LifeInv, TradingInv, Actors
  <1>1. ASSUME NEW t \in Threads, Enter(t) \/ Leave(t) \/ Spin(t) PROVE TradingInv'
    <2>1. UNCHANGED <<todo, objects>>
      BY <1>1, Zenon DEF Enter, Leave, Spin
    <2>. QED  BY <1>0, <1>1, <2>1, Advancing, TradingWaits
  <1>2. ASSUME Produce \/ TakeResponse \/ TakeUpdate \/ UNCHANGED vars PROVE TradingInv'
    <2>1. UNCHANGED <<todo, objects, thread>>
      BY <1>2, Zenon DEF Produce, TakeResponse, TakeUpdate, vars
    <2>. QED  BY <1>0, <2>1, Advancing, TradingWaits
  <1>3. ASSUME NEW a \in Actors, Die(a) PROVE TradingInv'
    <2>1. UNCHANGED <<todo, objects, thread>>
      BY <1>3, Zenon DEF Die
    <2>. QED  BY <1>0, <2>1, Advancing, TradingWaits
  <1>4. ASSUME NEW a \in Actors, Test(a) \/ Claim(a) \/ Free(a) \/ Exit(a) PROVE FALSE
    <2>1. \E op \in {"test", "claim", "free", "exit"} : Busy(a, op)
      BY <1>4 DEF Test, Claim, Free, Exit
    <2>. QED  BY <1>0, <2>1, NotInTrading
  <1>5. ASSUME Interrupt \/ \E t \in Exchange : Fail(t) PROVE FALSE
    BY <1>0, <1>5 DEF Interrupt, Fail
  <1>6. ASSUME MainFails PROVE TradingInv'
    <2>1. todo' = [todo EXCEPT !["main"] = << <<"die", "main">> >>] /\ UNCHANGED <<thread, objects>>
      BY <1>6 DEF MainFails, Do, Abort
    <2>2. /\ todo'["main"] = << <<"die", "main">> >>
          /\ \A b \in Actors : b # "main" => todo'[b] = todo[b]
      BY <1>0, <2>1, Moved
    <2>. QED  BY <1>0, <2>1, <2>2 DEF TradingInv, Actors, Threads, Exchange, Trading
  <1>7. ASSUME Assign \/ Drain \/ Silence PROVE TradingInv'
    <2>1. /\ \E op \in {"assign", "drain", "silence"} : Busy("main", op)
          /\ Continue("main") /\ UNCHANGED <<thread, objects>>
      <3>1. Drain => Busy("main", "drain") /\ Continue("main") /\ UNCHANGED <<thread, objects>>
        BY DEF Drain
      <3>2. Assign => Busy("main", "assign") /\ Continue("main") /\ UNCHANGED <<thread, objects>>
        BY DEF Assign
      <3>3. Silence => Busy("main", "silence") /\ Continue("main") /\ UNCHANGED <<thread, objects>>
        BY DEF Silence
      <3>. QED  BY <1>7, <3>1, <3>2, <3>3
    <2>. QED  BY <2>1, QuietGoesOn
  <1>8. ASSUME PrintPositions PROVE TradingInv'
    <2>1. CASE Continue("main")
      BY <1>8, <2>1, QuietGoesOn DEF PrintPositions
    <2>2. CASE UNCHANGED todo
      BY <1>0, <1>8, <2>2, Advancing, TradingWaits DEF PrintPositions
    <2>. QED  BY <1>8, <2>1, <2>2 DEF PrintPositions
  <1>9. ASSUME NEW a \in Actors, Flag(a) PROVE TradingInv'
    <2>1. Busy(a, "flag") /\ Continue(a) /\ UNCHANGED <<thread, objects>>
      BY <1>9 DEF Flag
    <2>2. a = "main"
      BY <1>0, <2>1, InTrading, Zenon
    <2>. QED  BY <2>1, <2>2, QuietGoesOn
  <1>. QED  BY <1>1, <1>2, <1>3, <1>4, <1>5, <1>6, <1>7, <1>8, <1>9, TradingNew, TradingSpawn,
               TradingJoin, TradingDelete, Zenon DEF Next

-----------------------------------------------------------------------------
(* What the invariant is for.                                               *)

\* Before a component is freed its threads have been waited for.
LEMMA AtFree ==
    ASSUME ExchangeInv, NEW a \in Actors, Busy(a, "free")
    PROVE  \A t \in Threads : Owner(t) = Subject(a) => Settled(t)
  <1>1. PICK i \in 3 .. 5, j \in 1 .. 5 :
           Destroys(a, i, j) /\ Head(todo[a]) = Destruction(i)[j]
    BY InDestructor
  <1>2. Destruction(i)[j][1] = "free" /\ Destruction(i)[j][2] = Subject(a)
    BY <1>1 DEF Busy, Subject
  <1>3. j \in 1 .. Len(Destruction(i))
    BY <1>1 DEF Destroys
  <1>4. /\ Destruction(i)[j][2] = Interrupted[i - 1][2]
        /\ \A t \in Threads : Owner(t) = Interrupted[i - 1][2] =>
              \E m \in 1 .. j - 1 : Destruction(i)[m] = <<"join", t>>
    BY <1>2, <1>3, DestructionSteps, Zenon
  <1>5. ASSUME NEW t \in Threads, Owner(t) = Subject(a) PROVE Settled(t)
    <2>1. PICK m \in 1 .. j - 1 : Destruction(i)[m] = <<"join", t>>
      BY <1>2, <1>4, <1>5
    <2>2. Destruction(i)[m][1] = "join" /\ Destruction(i)[m][2] = t
      BY <2>1
    <2>. QED  BY <1>1, <2>2 DEF Destroys
  <1>. QED  BY <1>5

LEMMA NoThreadOutlivesStays ==
    ASSUME LifeInv, [Next]_vars
    PROVE  NoThreadOutlivesItsObject'
  <1>0. /\ NoThreadOutlivesItsObject /\ TypeInv /\ "main" \in Actors
        /\ thread = [t \in Threads |-> thread[t]]
    BY DEF LifeInv, Actors, TypeInv, TypeOK
  <1>1. ASSUME Advances, objects \subseteq objects', handles' = handles
        PROVE  NoThreadOutlivesItsObject'
    <2>1. \A t \in Threads : Live(t)' => Live(t)
      BY <1>1 DEF Advances, Live, States
    <2>. QED  BY <1>0, <1>1, <2>1 DEF NoThreadOutlivesItsObject
  <1>2. ASSUME NEW t \in Threads, Enter(t) \/ Leave(t) \/ Spin(t) \/ (t \in Exchange /\ Fail(t))
        PROVE  NoThreadOutlivesItsObject'
    <2>1. UNCHANGED <<objects, handles>>
      BY <1>2, Zenon DEF Enter, Leave, Spin, Fail
    <2>. QED  BY <1>1, <1>2, <2>1, Advancing
  <1>3. ASSUME \/ MainFails \/ Drain \/ Silence \/ PrintPositions \/ Interrupt
               \/ Produce \/ TakeResponse \/ TakeUpdate \/ UNCHANGED vars
        PROVE  NoThreadOutlivesItsObject'
    <2>1. UNCHANGED <<objects, handles, thread>>
      BY <1>3, Zenon DEF MainFails, Drain, Silence, PrintPositions, Interrupt,
                         Produce, TakeResponse, TakeUpdate, vars
    <2>. QED  BY <1>1, <2>1, Advancing
  <1>4. ASSUME NEW a \in Actors,
               Test(a) \/ Claim(a) \/ Delete(a) \/ Flag(a) \/ Exit(a) \/ Die(a)
        PROVE  NoThreadOutlivesItsObject'
    <2>1. UNCHANGED <<objects, handles, thread>>
      BY <1>4, Zenon DEF Test, Claim, Delete, Flag, Exit, Die
    <2>. QED  BY <1>1, <2>1, Advancing
  <1>5. ASSUME New PROVE NoThreadOutlivesItsObject'
    <2>1. objects \subseteq objects' /\ UNCHANGED <<handles, thread>>
      BY <1>5 DEF New
    <2>. QED  BY <1>1, <2>1, Advancing
  <1>6. ASSUME Spawn PROVE NoThreadOutlivesItsObject'
    <2>. PICK t : t = Subject("main")
      OBVIOUS
    <2>1. t \in Threads /\ thread[t] = "none" /\ Owner(t) \in objects
      BY <1>6, SpawnsNew DEF Spawn
    <2>2. UNCHANGED <<objects, handles>> /\ \A s \in Threads : s # t => thread'[s] = thread[s]
      BY <1>0, <1>6 DEF Spawn
    <2>. QED  BY <1>0, <2>1, <2>2 DEF NoThreadOutlivesItsObject, Live
  <1>7. ASSUME Assign PROVE NoThreadOutlivesItsObject'
    <2>. PICK t : t = Subject("main")
      OBVIOUS
    <2>1. /\ Busy("main", "assign") /\ handles' = handles \cup {t}
          /\ UNCHANGED <<objects, thread>>
      BY <1>7 DEF Assign
    <2>2. t = "engine" => "engine" \in objects
      <3>1. CASE program = "exchange"
        <4>1. PICK p \in 1 .. 12 : Prepares(p) /\ Head(todo["main"]) = ExchangeMain[p]
          BY <2>1, <3>1, InMain DEF LifeInv
        <4>2. ExchangeMain[p][1] = "assign" /\ ExchangeMain[p][2] = t
          BY <2>1, <4>1 DEF Busy, Subject
        <4>3. t = "engine" => p = 3
          BY <4>2, ExchangeText
        <4>4. p = 3 => ExchangeMain[1][2] \in Did(ExchangeMain, ExchangeMain[1][1], p)
          BY Done
        <4>. QED  BY <4>1, <4>3, <4>4, ExchangeText DEF Prepares
      <3>2. CASE program = "trading"
        <4>1. PICK p \in 1 .. 19 : /\ Head(todo["main"]) = TradingMain[p]
                                   /\ TradingMain[p][1] = "assign"
          BY <2>1, <3>2, AtProceeds DEF LifeInv
        <4>2. TradingMain[p][2] \in Trading
          BY <4>1, TradingSteps
        <4>. QED  BY <4>1, <4>2 DEF Subject, Trading
      <3>. QED  BY <1>0, <3>1, <3>2 DEF TypeInv, TypeOK
    <2>3. Owner("engine") = "engine"
      BY DEF Owner
    <2>. QED  BY <1>0, <2>1, <2>2, <2>3 DEF NoThreadOutlivesItsObject, Live
  <1>8. ASSUME NEW a \in Actors, Free(a) PROVE NoThreadOutlivesItsObject'
    <2>1. /\ Busy(a, "free") /\ objects' = objects \ {Subject(a)}
          /\ UNCHANGED <<handles, thread>>
      BY <1>8 DEF Free
    <2>2. program = "exchange"
      BY <1>0, <2>1, NotInTrading DEF LifeInv, TypeInv, TypeOK
    <2>3. \A t \in Threads : Owner(t) = Subject(a) => Settled(t)
      BY <2>1, <2>2, AtFree DEF LifeInv
    <2>. QED  BY <1>0, <2>1, <2>3 DEF NoThreadOutlivesItsObject, Live, Settled
  <1>9. ASSUME NEW a \in Actors, JoinThread(a) PROVE NoThreadOutlivesItsObject'
    <2>. PICK t : t = Subject(a)
      OBVIOUS
    <2>1. UNCHANGED objects
      BY <1>9 DEF JoinThread
    <2>2. CASE UNCHANGED <<thread, handles>>
      BY <1>1, <2>1, <2>2, Advancing
    <2>3. CASE /\ thread' = [thread EXCEPT ![t] = "joined"]
               /\ handles' = IF Guarded(t) THEN handles \ {t} ELSE handles
      <3>1. \A s \in Threads : Live(s)' => s # t /\ thread'[s] = thread[s]
        BY <1>0, <2>3 DEF Live
      <3>2. handles' \subseteq handles
        BY <2>3
      <3>. QED  BY <1>0, <2>1, <3>1, <3>2 DEF NoThreadOutlivesItsObject, Live
    <2>. QED  BY <1>9, <2>2, <2>3, Zenon DEF JoinThread
  <1>10. Exchange \subseteq Threads
    BY DEF Threads
  <1>. QED  BY <1>2, <1>3, <1>4, <1>5, <1>6, <1>7, <1>8, <1>9, <1>10, Zenon DEF Next

\* The handler exits when the three components are gone, and a thread whose check has
\* failed keeps its component.
LEMMA ExitIsClean ==
    ASSUME LifeInv, NEW a \in Actors, Busy(a, "exit")
    PROVE  program = "exchange" /\ failed \subseteq {"main"}
  <1>1. program = "exchange"
    BY NotInTrading DEF LifeInv, TypeInv, TypeOK
  <1>2. Deletes(a, 5)
    BY <1>1, AtClaimOrExit DEF LifeInv
  <1>3. {"publisher", "server", "engine"} \cap objects = {}
    <2>1. \A k \in {2, 3, 4} : Interrupted[k][2] \notin objects
      BY <1>2 DEF Deletes
    <2>. QED  BY <2>1, InterruptedText
  <1>4. ASSUME NEW t \in failed \cap Threads PROVE FALSE
    <2>1. /\ t \in Exchange /\ thread[t] = "failed"
          /\ "engine" \in handles \/ thread["engine"] = "joined"
      BY <1>1, <1>4 DEF LifeInv, ExchangeInv
    <2>2. Owner(t) \notin objects
      BY <1>3, <2>1 DEF Owner, Exchange
    <2>3. t = "engine" /\ t \notin handles
      BY <1>4, <2>1, <2>2 DEF LifeInv, NoThreadOutlivesItsObject, Live, States
    <2>. QED  BY <2>1, <2>3
  <1>. QED  BY <1>1, <1>4 DEF LifeInv, TypeInv, TypeOK, Actors

LEMMA SuccessStays ==
    ASSUME LifeInv, [Next]_vars
    PROVE  SuccessMeansNoFailure'
  <1>0. SuccessMeansNoFailure
    BY DEF LifeInv
  <1>1. \/ ended' # "success"
        \/ UNCHANGED vars
        \/ \E a \in Actors : Exit(a)
    <2>1. ASSUME NEW t \in Threads, Enter(t) \/ Leave(t) \/ Spin(t) \/ Fail(t) PROVE ended' # "success"
      BY <2>1 DEF Enter, Leave, Spin, Fail, Running, End
    <2>2. ASSUME NEW a \in Actors,
                 Test(a) \/ Claim(a) \/ Delete(a) \/ Free(a) \/ Flag(a) \/ Die(a)
          PROVE  ended' # "success"
      BY <2>2 DEF Test, Claim, Delete, Free, Flag, Die, Busy, Running, End
    <2>3. ASSUME NEW a \in Actors, JoinThread(a) PROVE ended' # "success"
      <3>1. ended = "no" /\ ended' \in {ended, "aborted", "crashed"}
        BY <2>3 DEF JoinThread, Busy, Running, End
      <3>. QED  BY <3>1
    <2>4. ASSUME \/ New \/ MainFails \/ Spawn \/ Assign \/ Drain \/ Silence \/ PrintPositions
                 \/ Interrupt
          PROVE  ended' # "success"
      BY <2>4 DEF New, MainFails, Spawn, Assign, Drain, Silence, PrintPositions, Interrupt,
                  Busy, Running, End
    <2>5. ASSUME Produce \/ TakeResponse \/ TakeUpdate PROVE ended' # "success"
      BY <2>5 DEF Produce, TakeResponse, TakeUpdate, AfterLastResponse, Running, End
    <2>6. Exchange \subseteq Threads
      BY DEF Threads
    <2>. QED  BY <2>1, <2>2, <2>3, <2>4, <2>5, <2>6, Zenon DEF Next
  <1>2. ASSUME NEW a \in Actors, Exit(a) PROVE SuccessMeansNoFailure'
    <2>1. Busy(a, "exit") /\ UNCHANGED <<program, failed>>
      BY <1>2 DEF Exit
    <2>. QED  BY <2>1, ExitIsClean DEF SuccessMeansNoFailure
  <1>3. CASE UNCHANGED vars
    BY <1>0, <1>3 DEF SuccessMeansNoFailure, vars
  <1>. QED  BY <1>1, <1>2, <1>3 DEF SuccessMeansNoFailure

LEMMA StartsRight == BoundAssumption /\ Init => LifeInv
  <1>. SUFFICES ASSUME BoundAssumption, Init PROVE LifeInv
    OBVIOUS
  <1>1. TypeInv
    <2>. PICK steps : steps = [a \in Actors |-> IF a # "main" THEN <<>>
                                               ELSE IF program = "exchange" THEN ExchangeMain
                                               ELSE TradingMain]
      OBVIOUS
    <2>1. todo = steps /\ steps = [a \in Actors |-> steps[a]]
      BY DEF Init
    <2>2. thread \in [Threads -> States]
      BY DEF Init, States
    <2>3. responses + updates \in 0 .. MaxItems
      BY DEF Init, BoundAssumption
    <2>. QED  BY <2>1, <2>2, <2>3 DEF Init, TypeInv, TypeOK
  <1>2. "main" \in Actors /\ \A t \in Threads : t \in Actors /\ t # "main"
    BY DEF Actors, Threads, Exchange, Trading
  <1>3. \A t \in Threads : todo[t] = <<>> /\ thread[t] = "none"
    BY <1>2 DEF Init
  <1>4. \A text, op : Did(text, op, 1) = {}
    BY DEF Did
  <1>5. ASSUME program = "exchange" PROVE ExchangeInv
    <2>1. todo["main"] = ExchangeMain
      BY <1>2, <1>5 DEF Init
    <2>2. From(ExchangeMain, 1) = ExchangeMain
      BY ExchangeText, FromEnds
    <2>3. Prepares(1)
      BY <1>3, <1>4, <2>1, <2>2 DEF Prepares, Init, Threads
    <2>. QED  BY <1>3, <2>3 DEF ExchangeInv, Init, Threads, Exchange
  <1>6. ASSUME program = "trading" PROVE TradingInv
    <2>1. todo["main"] = TradingMain
      BY <1>2, <1>6 DEF Init
    <2>2. From(TradingMain, 1) = TradingMain
      BY TradingText, FromEnds
    <2>3. Proceeds(1)
      BY <1>3, <1>4, <2>1, <2>2 DEF Proceeds, Init, Threads
    <2>. QED  BY <1>3, <2>3 DEF TradingInv, Threads, Exchange
  <1>7. NoThreadOutlivesItsObject
    BY <1>3 DEF NoThreadOutlivesItsObject, Live
  <1>8. SuccessMeansNoFailure
    BY DEF Init, SuccessMeansNoFailure
  <1>. QED  BY <1>1, <1>5, <1>6, <1>7, <1>8 DEF LifeInv

LEMMA LifeStays == BoundAssumption /\ LifeInv /\ [Next]_vars => LifeInv'
  <1>. SUFFICES ASSUME BoundAssumption, LifeInv, [Next]_vars PROVE LifeInv'
    OBVIOUS
  <1>1. TypeInv'
    BY TypesStay
  <1>2. program' = program
    BY SameProgram
  <1>3. (program = "exchange")' => ExchangeInv'
    BY <1>2, ExchangeStays
  <1>4. (program = "trading")' => TradingInv'
    BY <1>2, TradingStays
  <1>. QED  BY <1>1, <1>3, <1>4, NoThreadOutlivesStays, SuccessStays DEF LifeInv

\* Every actor is where the invariant says: main in its own text, with the components and
\* threads that the steps before have made; or in the handler, with each component deleted
\* so far gone, once its threads have been joined; or on the way to abort.
THEOREM LifeInvariant == Spec => []LifeInv
  BY StartsRight, LifeStays, BoundAssumption, PTL DEF Spec

\* The variables of both programs keep their types.
THEOREM LifecycleTypes == Spec => []TypeOK
  <1>1. LifeInv => TypeOK
    BY DEF LifeInv, TypeInv
  <1>. QED  BY <1>1, LifeInvariant, PTL

\* Whichever threads run the signal handler, and wherever in main the signal comes, a
\* component is only freed when its threads have ended, unless it is the matching engine
\* and Start has not stored the handle that its Stop asks for.
THEOREM ThreadsEndFirst == Spec => []NoThreadOutlivesItsObject
  <1>1. LifeInv => NoThreadOutlivesItsObject
    BY DEF LifeInv
  <1>. QED  BY <1>1, LifeInvariant, PTL

\* Neither program says EXIT_SUCCESS after a check has failed in a component thread, and
\* trading/main.cpp never says it.
THEOREM SuccessIsClean == Spec => []SuccessMeansNoFailure
  <1>1. LifeInv => SuccessMeansNoFailure
    BY DEF LifeInv
  <1>. QED  BY <1>1, LifeInvariant, PTL

\* The trade engine never gets out of its loop over responses: it does not see
\* mShouldStop, and no market update reaches its positions.
THEOREM NoWayOutOfTheLoop == Spec => FirstResponseIsTheLast
  <1>1. LifeInv /\ [Next]_vars =>
          [looping => /\ thread'["tradeEngine"] = thread["tradeEngine"]
                      /\ quoted' = quoted /\ looping']_vars
    BY LoopGoesOn
  <1>. QED  BY <1>1, LifeInvariant, PTL DEF Spec, FirstResponseIsTheLast
=============================================================================
