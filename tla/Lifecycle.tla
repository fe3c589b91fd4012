----------------------------- MODULE Lifecycle -----------------------------
(***************************************************************************)
(* Start and end of the two programs: exchange/main.cpp with its signal      *)
(* handler, trading/main.cpp, CreateAndStartThread, and the constructors,     *)
(* Start, Stop and destructors of the components.                            *)
(*                                                                           *)
(* What an actor still has to do is a sequence of steps.  The actors are the  *)
(* main threads, and the component threads that run the signal handler.      *)
(* Loggers and their threads are left out.                                   *)
(***************************************************************************)
EXTENDS Integers, Sequences

CONSTANTS
    Tickers,        \* the tickers of the trade engine
    MaxItems        \* bound: responses and market updates waiting in the queues

ASSUME BoundAssumption == MaxItems \in Nat /\ Tickers # {}

VARIABLES
    program,        \* which of the two runs
    todo,           \* what each actor still has to do
    objects,        \* components that exist
    thread,         \* state of the thread of each component
    handles,        \* threads whose mRunningThread is set
    stopping,       \* threads whose mShouldStop is set
    destroying,     \* gStartDestroying
    failed,         \* threads in which a check has failed
    responses, updates,     \* numbers of entries in the trade engine's queues
    looping,        \* the trade engine is in its loop over responses
    quoted,         \* tickers whose PositionInfo has a bbo
    ended           \* "no", or how the process has ended

queues == <<responses, updates, looping, quoted>>
vars == <<program, todo, objects, thread, handles, stopping, destroying, failed, queues, ended>>

Exchange == {"engine", "publisher", "synthesizer", "server"}
Trading == {"tradeEngine", "gateway", "consumer"}
Threads == Exchange \cup Trading
Actors == Threads \cup {"main"}

\* The publisher makes, starts and stops the synthesizer.
Owner(t) == IF t = "synthesizer" THEN "publisher" ELSE t

-----------------------------------------------------------------------------
(* What main, the handler and the destructors do.                          *)

Start(t) == << <<"spawn", t>>, <<"assign", t>> >>
Make(c) == << <<"new", c>> >> \o Start(c)
Join(t) == << <<"flag", t>>, <<"join", t>> >>

\* (The ...Slip definitions are plausible mistakes: see "Mutants" in README.md.)
StopUnflaggedSlip(c) ==
    IF c = "tradeEngine" THEN << <<"drain", c>> >> \o Join(c) \o << <<"print", c>> >>
    ELSE << <<"join", c>> >>

Stop(c) == CASE c = "publisher" -> Join("publisher") \o Join("synthesizer")
             [] c = "tradeEngine" -> << <<"drain", c>> >> \o Join(c) \o << <<"print", c>> >>
             [] OTHER -> Join(c)

\* A destructor calls Stop, whether or not it has been called before.
DestructorSlip(c) == << <<"free", c>> >>

Destructor(c) == Stop(c) \o << <<"free", c>> >>

ExchangeMain == Make("engine") \o Make("publisher") \o Start("synthesizer") \o Make("server")
    \o << <<"sleep", "main">> >>

TradingMain ==
    Make("tradeEngine") \o Make("gateway") \o Make("consumer") \o << <<"silence", "main">> >>
    \o Stop("tradeEngine") \o Stop("consumer") \o Stop("gateway")
    \o << <<"delete", "tradeEngine">>, <<"delete", "consumer">>, <<"delete", "gateway">>,
          <<"exit", "main">> >>

\* InterruptHandler after its test of gStartDestroying.
Interrupted == << <<"claim", "main">>, <<"delete", "publisher">>, <<"delete", "server">>,
                  <<"delete", "engine">>, <<"exit", "main">> >>

\* A failed CHECK_FATAL or assert raises SIGABRT, and the process ends when a handler
\* returns from it.  The trading process has no handler.
Abort == IF program = "exchange" THEN << <<"test", "main">>, <<"die", "main">> >>
         ELSE << <<"die", "main">> >>

Init == /\ program \in {"exchange", "trading"}
        /\ todo = [a \in Actors |-> IF a # "main" THEN <<>>
                                    ELSE IF program = "exchange" THEN ExchangeMain
                                    ELSE TradingMain]
        /\ objects = {} /\ handles = {} /\ stopping = {} /\ failed = {}
        /\ thread = [t \in Threads |-> "none"]
        /\ destroying = FALSE
        /\ responses = 0 /\ updates = 0 /\ looping = FALSE /\ quoted = {}
        /\ ended = "no"

-----------------------------------------------------------------------------
Running == ended = "no"
Busy(a, op) == Running /\ todo[a] # <<>> /\ Head(todo[a])[1] = op
Subject(a) == Head(todo[a])[2]
Continue(a) == todo' = [todo EXCEPT ![a] = Tail(@)]
Do(a, steps) == todo' = [todo EXCEPT ![a] = steps]
End(how) == ended' = how

\* A constructor or Start may fail on main's thread.
New == /\ Busy("main", "new")
       /\ Continue("main") /\ objects' = objects \cup {Subject("main")}
       /\ UNCHANGED <<program, thread, handles, stopping, destroying, failed, queues, ended>>

MainFails == /\ Busy("main", "new") \/ Busy("main", "spawn")
             /\ Do("main", Abort) /\ failed' = failed \cup {"main"}
             /\ UNCHANGED <<program, objects, thread, handles, stopping, destroying, queues,
                            ended>>

\* CreateAndStartThread waits for the thread to announce itself and returns, and its
\* caller stores the handle.
Spawn == /\ Busy("main", "spawn")
         /\ Continue("main") /\ thread' = [thread EXCEPT ![Subject("main")] = "announced"]
         /\ UNCHANGED <<program, objects, handles, stopping, destroying, failed, queues, ended>>

Assign == /\ Busy("main", "assign")
          /\ Continue("main") /\ handles' = handles \cup {Subject("main")}
          /\ UNCHANGED <<program, objects, thread, stopping, destroying, failed, queues, ended>>

\* The thread then calls a function that is in the frames of these two, which may be
\* gone by now.
Enter(t) == /\ Running /\ thread[t] = "announced"
            /\ \/ thread' = [thread EXCEPT ![t] = "running"] /\ UNCHANGED ended
               \/ t \in handles /\ End("crashed") /\ UNCHANGED thread
            /\ UNCHANGED <<program, todo, objects, handles, stopping, destroying, failed, queues>>

\* Run returns when mShouldStop is seen.
Leave(t) == /\ Running /\ thread[t] = "running" /\ t \in stopping
            /\ t = "tradeEngine" => ~looping /\ responses = 0 /\ updates = 0
            /\ thread' = [thread EXCEPT ![t] = "done"]
            /\ UNCHANGED <<program, todo, objects, handles, stopping, destroying, failed, queues,
                           ended>>

\* The matching loop may spin for ever (see MEOrderBook), and so does the Allocate that takes
\* the last block of a pool (see MemoryPool): the books and the synthesizer have such.
Spin(t) == /\ Running /\ thread[t] = "running"
           /\ \/ t \in {"engine", "synthesizer"} /\ thread["server"] \notin {"none", "announced"}
              \/ t = "tradeEngine" /\ ~looping /\ updates > 0
           /\ thread' = [thread EXCEPT ![t] = "stuck"]
           /\ UNCHANGED <<program, todo, objects, handles, stopping, destroying, failed, queues,
                          ended>>

\* A check fails in a component thread of the exchange; nothing reaches the others
\* before the order server runs.
Fail(t) == /\ Running /\ thread[t] = "running" /\ thread["server"] \notin {"none", "announced"}
           /\ thread' = [thread EXCEPT ![t] = "failed"] /\ failed' = failed \cup {t}
           /\ Do(t, Abort)
           /\ UNCHANGED <<program, objects, handles, stopping, destroying, queues, ended>>

\* SIGINT goes to the main thread, wherever it is outside the handler.
Interrupt == /\ program = "exchange"
             /\ \E op \in {"new", "spawn", "assign", "sleep"} : Busy("main", op)
             /\ Do("main", << <<"test", "main">> >> \o todo["main"])
             /\ UNCHANGED <<program, objects, thread, handles, stopping, destroying, failed,
                            queues, ended>>

\* gStartDestroying is read here and set in Claim.
Test(a) == /\ Busy(a, "test")
           /\ IF destroying THEN Continue(a) ELSE Do(a, Interrupted)
           /\ UNCHANGED <<program, objects, thread, handles, stopping, destroying, failed,
                          queues, ended>>

Claim(a) == /\ Busy(a, "claim")
            /\ Continue(a) /\ destroying' = TRUE
            /\ UNCHANGED <<program, objects, thread, handles, stopping, failed, queues, ended>>

\* Another actor has deleted the object and may not have made its pointer null yet.
Dangles(a) == \E b \in Actors : b # a /\ todo[b] = Tail(todo[a])

\* The handler deletes what is not null.  The destructor of the trade engine first
\* deletes the pointers to its strategies, which have no value unless it made them.
Delete(a) ==
    /\ Busy(a, "delete")
    /\ \/ /\ Subject(a) \in objects \/ Dangles(a)
          /\ Do(a, Destructor(Subject(a)) \o Tail(todo[a]))
       \/ Subject(a) \notin objects /\ Continue(a)
    /\ IF Subject(a) = "tradeEngine" THEN ended' \in {"no", "crashed"} ELSE UNCHANGED ended
    /\ UNCHANGED <<program, objects, thread, handles, stopping, destroying, failed, queues>>

\* Two actors may be in a destructor, and one is done first.
Freed(a) == Owner(Subject(a)) \notin objects

Free(a) == /\ Busy(a, "free")
           /\ IF Freed(a) THEN End("crashed") ELSE UNCHANGED ended
           /\ Continue(a) /\ objects' = objects \ {Subject(a)}
           /\ UNCHANGED <<program, thread, handles, stopping, destroying, failed, queues>>

Flag(a) == /\ Busy(a, "flag")
           /\ IF Freed(a) THEN End("crashed") ELSE UNCHANGED ended
           /\ Continue(a) /\ stopping' = stopping \cup {Subject(a)}
           /\ UNCHANGED <<program, objects, thread, handles, destroying, failed, queues>>

\* Only MatchingEngine::Stop asks whether there is a thread to join.
GuardedSlip(t) == TRUE

Guarded(t) == t = "engine"

JoinThread(a) ==
    /\ Busy(a, "join")
    /\ LET t == Subject(a)
       IN  \/ /\ Freed(a) \/ (t \notin handles /\ ~Guarded(t))
              /\ End("crashed") /\ UNCHANGED <<todo, thread, handles>>
           \/ /\ ~Freed(a) /\ t \in handles
              /\ t = a \/ (thread[t] = "joined" /\ ~Guarded(t))
              /\ End("aborted") /\ UNCHANGED <<todo, thread, handles>>
           \/ /\ ~Freed(a) /\ t \in handles /\ t # a /\ thread[t] = "done"
              /\ Continue(a) /\ thread' = [thread EXCEPT ![t] = "joined"]
              /\ handles' = IF Guarded(t) THEN handles \ {t} ELSE handles
              /\ UNCHANGED ended
           \/ /\ ~Freed(a) /\ Guarded(t) /\ t \notin handles
              /\ Continue(a) /\ UNCHANGED <<thread, handles, ended>>
    /\ UNCHANGED <<program, objects, stopping, destroying, failed, queues>>

\* TradeEngine::Stop first waits for both queues to be empty, and last logs the
\* positions, with the bid and ask behind the pointer of every ticker.
Drain == /\ Busy("main", "drain") /\ responses = 0 /\ updates = 0
         /\ Continue("main")
         /\ UNCHANGED <<program, objects, thread, handles, stopping, destroying, failed, queues,
                        ended>>

PrintPositions ==
    /\ Busy("main", "print")
    /\ IF quoted = Tickers THEN Continue("main") /\ UNCHANGED ended
       ELSE End("crashed") /\ UNCHANGED todo
    /\ UNCHANGED <<program, objects, thread, handles, stopping, destroying, failed, queues>>

\* Main has seen no event for a minute.
Silence == /\ Busy("main", "silence") /\ Continue("main")
           /\ UNCHANGED <<program, objects, thread, handles, stopping, destroying, failed,
                          queues, ended>>

Exit(a) == /\ Busy(a, "exit") /\ End("success")
           /\ UNCHANGED <<program, todo, objects, thread, handles, stopping, destroying, failed,
                          queues>>

Die(a) == /\ Busy(a, "die") /\ End("aborted")
          /\ UNCHANGED <<program, todo, objects, thread, handles, stopping, destroying, failed,
                         queues>>

-----------------------------------------------------------------------------
(* The threads of the trading process.                                     *)

Produce == /\ Running /\ responses + updates < MaxItems
           /\ \/ thread["gateway"] = "running"
                 /\ responses' = responses + 1 /\ UNCHANGED updates
              \/ thread["consumer"] = "running"
                 /\ updates' = updates + 1 /\ UNCHANGED responses
           /\ UNCHANGED <<program, todo, objects, thread, handles, stopping, destroying, failed,
                          looping, quoted, ended>>

\* The loop over responses never fetches the next one: it goes on with the first until
\* the queue is empty, where the assertion of UpdateReadIndex fails.
RefetchSlip == looping' = FALSE /\ UNCHANGED <<responses, ended>>

NoAssertSlip == responses' = responses - 1 /\ UNCHANGED <<looping, ended>>

AfterLastResponse == End("aborted") /\ UNCHANGED <<responses, looping>>

TakeResponse ==
    /\ Running /\ thread["tradeEngine"] = "running"
    /\ \/ responses > 0 /\ responses' = responses - 1 /\ looping' = TRUE /\ UNCHANGED ended
       \/ responses = 0 /\ looping /\ AfterLastResponse
    /\ UNCHANGED <<program, todo, objects, thread, handles, stopping, destroying, failed,
                   updates, quoted>>

\* A trade gives its ticker no bbo, and an update may be the end of the process (see
\* MarketOrderBook).
TakeUpdate ==
    /\ Running /\ thread["tradeEngine"] = "running" /\ ~looping /\ updates > 0
    /\ updates' = updates - 1
    /\ \E ticker \in Tickers : quoted' \in {quoted, quoted \cup {ticker}}
    /\ ended' \in {"no", "crashed"}
    /\ UNCHANGED <<program, todo, objects, thread, handles, stopping, destroying, failed,
                   responses, looping>>

-----------------------------------------------------------------------------
MainStep == New \/ Spawn \/ Assign \/ Drain \/ PrintPositions \/ Silence
HandlerStep(a) == Test(a) \/ Claim(a) \/ Delete(a) \/ Free(a) \/ Flag(a) \/ JoinThread(a)
                  \/ Exit(a) \/ Die(a)

Next == \/ New \/ MainFails \/ Spawn \/ Assign
        \/ \E t \in Threads : Enter(t)
        \/ \E t \in Threads : Leave(t)
        \/ \E t \in Threads : Spin(t)
        \/ \E t \in Exchange : Fail(t)
        \/ Interrupt
        \/ \E a \in Actors : Test(a)
        \/ \E a \in Actors : Claim(a)
        \/ \E a \in Actors : Delete(a)
        \/ \E a \in Actors : Free(a)
        \/ \E a \in Actors : Flag(a)
        \/ \E a \in Actors : JoinThread(a)
        \/ Drain \/ PrintPositions \/ Silence
        \/ \E a \in Actors : Exit(a)
        \/ \E a \in Actors : Die(a)
        \/ Produce \/ TakeResponse \/ TakeUpdate

\* Every thread is scheduled.
Fairness == /\ WF_vars(MainStep)
            /\ \A a \in Actors : WF_vars(HandlerStep(a))
            /\ \A t \in Threads : WF_vars(Enter(t)) /\ WF_vars(Leave(t))
            /\ WF_vars(TakeResponse \/ TakeUpdate)

Spec == Init /\ [][Next]_vars /\ Fairness

-----------------------------------------------------------------------------
States == {"none", "announced", "running", "stuck", "failed", "done", "joined"}
Live(t) == thread[t] \in States \ {"none", "joined"}

TypeOK ==
    /\ program \in {"exchange", "trading"}
    /\ objects \subseteq Threads /\ handles \subseteq Threads /\ stopping \subseteq Threads
    /\ thread \in [Threads -> States]
    /\ destroying \in BOOLEAN /\ looping \in BOOLEAN
    /\ failed \subseteq Actors
    /\ responses + updates \in 0 .. MaxItems /\ quoted \subseteq Tickers
    /\ ended \in {"no", "success", "aborted", "crashed"}

\* No component is destroyed under its own thread, but the matching engine, whose Stop
\* takes a handle that Start has not stored yet for no thread.
NoThreadOutlivesItsObject ==
    \A t \in Threads : Live(t) /\ Owner(t) \notin objects => t = "engine" /\ t \notin handles

\* EXIT_SUCCESS means that no check failed in a component thread, whatever the handler
\* destroys and whatever signal comes meanwhile; and it is never the trading process's,
\* whose destructors join threads that have been joined.
SuccessMeansNoFailure == ended = "success" => program = "exchange" /\ failed \subseteq {"main"}

\* Once the trade engine has begun with a response, it takes no market update any more
\* and does not stop either.
FirstResponseIsTheLast ==
    [][looping => /\ thread'["tradeEngine"] = thread["tradeEngine"]
                  /\ quoted' = quoted /\ looping']_vars

\* Once the handler has begun to destroy, the exchange ends, unless the matching engine or
\* the synthesizer spins; once the trade engine has been joined, the trading process ends,
\* unless the other threads have put something into its queues since.
EndingEnds ==
    /\ destroying ~> \/ ended # "no"
                     \/ thread["engine"] = "stuck" \/ thread["synthesizer"] = "stuck"
    /\ thread["tradeEngine"] = "joined" ~> ended # "no" \/ responses > 0 \/ updates > 0
=============================================================================
