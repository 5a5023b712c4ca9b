--------------------------- MODULE LifecycleProofs ---------------------------
(* Theorems about Lifecycle, for every set of requests and every timing. *)
EXTENDS Lifecycle, TLAPS

-----------------------------------------------------------------------------
(* Every variable keeps its type.  (All of Lifecycle's steps.) *)
THEOREM TypeCorrect == Spec => []TypeOK
<1> USE DEF TypeOK
<1>1. Init => TypeOK
  <2> SUFFICES ASSUME Init PROVE TypeOK
    OBVIOUS
  <2>1. main \in MainPcs
    BY DEF Init, MainPcs, StartPcs
  <2>2. budget \in 0 .. Timeout /\ nap \in 0 .. Pause /\ sigs \in 0 .. SignalBuffer /\ sent \in 0 .. 2
    BY TimingAssumption DEF Init, SignalBuffer
  <2>3. enabled \subseteq Servers /\ flags \subseteq {"unhealthy", "unready", "debug"}
    BY DEF Init
  <2> QED
    BY <2>1, <2>2, <2>3 DEF Init
<1>2. TypeOK /\ [Next]_vars => TypeOK'
  <2> SUFFICES ASSUME TypeOK, [Next]_vars PROVE TypeOK'
    OBVIOUS
  <2> USE TimingAssumption, TargetAssumption
  <2>0. ASSUME NEW how \in {"clean", "fatal", "second_signal", "signal", "panic"}, Die(how)
        PROVE  TypeOK'
    BY <2>0 DEF Die, config, signal, timers
  <2>1. CASE StartUp
    <3>1. ASSUME NEW s \in Servers, NEW from, NEW to \in MainPcs, Spawn(s, from, to)
          PROVE  TypeOK'
      BY <3>1 DEF Spawn, Goto, config, signal, timers, work
    <3>2. CASE GrpcPortTaken
      BY <3>2, <2>0 DEF GrpcPortTaken
    <3>3. CASE SetHealthy
      BY <3>3 DEF SetHealthy, Goto, config, signal, timers, work, MainPcs, StartPcs
    <3>4. CASE SetReady
      BY <3>4 DEF SetReady, Goto, config, signal, timers, work, MainPcs, StartPcs
    <3>5. CASE ArmSignals
      BY <3>5 DEF ArmSignals, Goto, config, timers, work, MainPcs, StartPcs
    <3> QED
      BY <2>1, <3>1, <3>2, <3>3, <3>4, <3>5 DEF StartUp, Servers, MainPcs, StartPcs
  <2>2. CASE Graceful
    <3>1. CASE ReceiveStop
      BY <3>1 DEF ReceiveStop, Goto, config, signal, work, MainPcs
    <3>2. CASE DropHealthy
      BY <3>2 DEF DropHealthy, Goto, config, signal, timers, work, MainPcs
    <3>3. CASE DropReady
      BY <3>3 DEF DropReady, Goto, config, signal, work, MainPcs
    <3>4. CASE WakeUp
      BY <3>4 DEF WakeUp, Goto, config, signal, timers, work, MainPcs, ClosePcs
    <3>5. ASSUME NEW s \in Servers, NEW from, NEW wait \in MainPcs, NEW next \in MainPcs,
                 CloseListener(s, from, wait, next)
          PROVE  TypeOK'
      BY <3>5 DEF CloseListener, config, signal, timers, work
    <3>6. ASSUME NEW done, NEW from, NEW to \in MainPcs, Drained(done, from, to)
          PROVE  TypeOK'
      BY <3>6 DEF Drained, Goto, config, signal, timers, work
    <3>7. CASE Return
      BY <3>7, <2>0 DEF Return
    <3> QED
      BY <2>2, <3>1, <3>2, <3>3, <3>4, <3>5, <3>6, <3>7
         DEF Graceful, Servers, MainPcs, ClosePcs
  <2>3. CASE TakeFirst
    BY <2>3 DEF TakeFirst, config, timers, work, SignalBuffer
  <2>4. CASE TakeSecond
    BY <2>4, <2>0 DEF TakeSecond
  <2>5. ASSUME NEW s \in Servers, Serve(s)
        PROVE  TypeOK'
    BY <2>5 DEF Serve, config, signal, timers, work
  <2>6. ASSUME NEW s \in Servers, ServerCrash(s)
        PROVE  TypeOK'
    BY <2>6, <2>0 DEF ServerCrash
  <2>7. CASE LateGrpcServe
    BY <2>7, <2>0 DEF LateGrpcServe
  <2>8. ASSUME NEW r \in Requests, Accept(r) \/ Answer(r)
        PROVE  TypeOK'
    BY <2>8 DEF Accept, Answer, config, signal, timers
  <2>9. ASSUME NEW r \in Requests, NEW v \in {0, 1}, SetReadiness(r, v)
        PROVE  TypeOK'
    BY <2>9 DEF SetReadiness, config, signal, timers
  <2>10. ASSUME NEW r \in Requests, PanicRoute(r)
         PROVE  TypeOK'
    BY <2>10, <2>0 DEF PanicRoute
  <2>11. CASE Signal
    <3>1. CASE Die("signal")
      BY <3>1, <2>0
    <3>2. CASE ~Die("signal")
      <4>1. sigs' \in 0 .. SignalBuffer /\ sent' \in 0 .. 2
        BY <2>11, <3>2 DEF Signal, SignalBuffer
      <4> QED
        BY <4>1, <2>11, <3>2 DEF Signal, config, timers, work
    <3> QED
      BY <3>1, <3>2
  <2>12. CASE Tick
    BY <2>12 DEF Tick, Countdown, config, signal, work
  <2>13. CASE UNCHANGED vars
    BY <2>13 DEF vars, config, signal, timers, work
  <2> HIDE DEF TypeOK
  <2> QED
    BY <2>1, <2>2, <2>3, <2>4, <2>5, <2>6, <2>7, <2>8, <2>9, <2>10, <2>11, <2>12, <2>13
       DEF Next, MainStep, HandlerStep, ServerStep, ClientStep, Clock
<1> QED
  BY <1>1, <1>2, PTL DEF Spec

-----------------------------------------------------------------------------
(***************************************************************************)
(* The drain argument.  Graceful closes the servers one after the other,   *)
(* so the invariant is read off main's program counter: behind the close   *)
(* of a server no request of it can enter, behind its wait none is left    *)
(* that the wait covers, except what the expired budget gave up.           *)
(***************************************************************************)
PastClose == [grpc  |-> {"wait_grpc", "stop_http", "wait_http", "stop_https", "wait_https", "returned"},
              http  |-> {"wait_http", "stop_https", "wait_https", "returned"},
              https |-> {"wait_https", "returned"}]
PastWait  == [grpc  |-> {"stop_http", "wait_http", "stop_https", "wait_https", "returned"},
              http  |-> {"stop_https", "wait_https", "returned"},
              https |-> {"returned"}]

DisabledStayOff == \A s \in Servers \ enabled : lis[s] = "off"
ClosedForGood   == \A s \in Servers : s \in enabled /\ main \in PastClose[s] => lis[s] \in {"closed", "late"}
NoneClosedYet   == main \in StartPcs => \A s \in Servers : lis[s] \notin {"closed", "late"}
OffIsEmpty      == \A r \in open : lis[Target[r]] # "off"
RpcsDrained     == main \in PastWait["grpc"] => ~Busy("grpc")
HttpDrained     == \A s \in {"http", "https"} : main \in PastWait[s] /\ budget > 0 => ~Busy(s)

\* The promises to RPCs and to plain requests hold because of this invariant, which every
\* step of the process preserves: Graceful leaves nothing behind at a server it has passed.
DrainInv ==
  /\ DisabledStayOff
  /\ Running => ClosedForGood /\ NoneClosedYet /\ OffIsEmpty /\ RpcsDrained /\ HttpDrained
  /\ RpcsOutliveShutdown
  /\ PlainRequestsGetTheTimeout

\* The process starts ready, with no request under way.
LEMMA DrainInit == Init => DrainInv
  BY DEF Init, DrainInv, DisabledStayOff, ClosedForGood, NoneClosedYet, OffIsEmpty, RpcsDrained, HttpDrained,
         RpcsOutliveShutdown, PlainRequestsGetTheTimeout, Running, PastClose, PastWait, Servers

\* The process ends while the invariant holds: nothing is left to preserve but
\* the two promises, and only a clean exit is bound by them.
LEMMA DrainDie ==
  ASSUME TypeOK, DrainInv, Running, NEW how, how # "none", Die(how),
         how = "clean" => main = "returned"
  PROVE  DrainInv'
<1>1. DisabledStayOff'
  BY DEF Die, config, DrainInv, DisabledStayOff, TypeOK
<1>2. ~Running'
  BY DEF Die, Running
<1>3. RpcsOutliveShutdown'
  BY HijackedAssumption DEF Die, DrainInv, RpcsDrained, PastWait, Busy, RpcsOutliveShutdown, TypeOK
<1>4. PlainRequestsGetTheTimeout'
  <2> SUFFICES ASSUME how = "clean", NEW r \in open, Plain(r), budget # 0 PROVE FALSE
    BY DEF Die, timers, PlainRequestsGetTheTimeout, Plain
  <2>1. budget > 0
    BY TimingAssumption DEF TypeOK
  <2>2. Target[r] \in {"http", "https"}
    BY TargetAssumption DEF Plain, TypeOK, Servers
  <2>3. main \in PastWait[Target[r]]
    BY <2>2 DEF PastWait
  <2> QED
    BY <2>1, <2>2, <2>3 DEF DrainInv, HttpDrained, Busy, Plain
<1> QED
  BY <1>1, <1>2, <1>3, <1>4 DEF DrainInv

\* A step that moves neither main, the listeners nor the exit code, lets no request in
\* and does not refill the budget.
LEMMA DrainQuiet ==
  ASSUME TypeOK, DrainInv, Running,
         UNCHANGED <<main, lis, enabled, exit, dropped>>,
         open' \subseteq open, budget' \in Nat, budget' <= budget
  PROVE  DrainInv'
  BY TimingAssumption
     DEF TypeOK, DrainInv, DisabledStayOff, ClosedForGood, NoneClosedYet, OffIsEmpty, RpcsDrained, HttpDrained, Busy,
         RpcsOutliveShutdown, PlainRequestsGetTheTimeout, Running

\* Every step keeps the invariant of the drain.
LEMMA DrainNext == TypeOK /\ DrainInv /\ [Next]_vars => DrainInv'
<1> SUFFICES ASSUME TypeOK, DrainInv, [Next]_vars PROVE DrainInv'
  OBVIOUS
<1> USE TargetAssumption
<1>0. ASSUME Running, NEW how \in {"fatal", "second_signal", "signal", "panic"}, Die(how)
      PROVE  DrainInv'
  BY <1>0, DrainDie
<1>1. CASE Running /\ StartUp
  <2>1. ASSUME NEW s \in Servers, NEW from \in StartPcs, NEW to \in StartPcs, Spawn(s, from, to)
        PROVE  DrainInv'
    <3>1. DisabledStayOff'
      BY <2>1 DEF Spawn, config, TypeOK, DrainInv, DisabledStayOff
    <3>2. main' \in StartPcs
      BY <2>1 DEF Spawn, Goto
    <3>3. OffIsEmpty'
      BY <1>1, <2>1 DEF Spawn, work, TypeOK, DrainInv, OffIsEmpty
    <3>4. (ClosedForGood /\ RpcsDrained /\ HttpDrained)'
      BY <3>2 DEF ClosedForGood, RpcsDrained, HttpDrained, PastClose, PastWait, StartPcs, Servers
    <3>5. NoneClosedYet'
      BY <1>1, <2>1 DEF Spawn, Goto, TypeOK, DrainInv, NoneClosedYet
    <3> QED
      BY <1>1, <2>1, <3>1, <3>3, <3>4, <3>5
         DEF DrainInv, Spawn, work, Running, RpcsOutliveShutdown, PlainRequestsGetTheTimeout
  <2>2. ASSUME main \in StartPcs, main' \in StartPcs \cup {"serve"}, UNCHANGED <<lis, enabled, exit, open, dropped>>
        PROVE  DrainInv'
    <3>1. (ClosedForGood /\ NoneClosedYet /\ RpcsDrained /\ HttpDrained)'
      BY <1>1, <2>2 DEF DrainInv, ClosedForGood, NoneClosedYet, RpcsDrained, HttpDrained, PastClose, PastWait, StartPcs, Servers
    <3> QED
      BY <1>1, <2>2, <3>1 DEF DrainInv, DisabledStayOff, OffIsEmpty, Running,
                              RpcsOutliveShutdown, PlainRequestsGetTheTimeout
  <2> QED
    BY <1>0, <1>1, <2>1, <2>2
       DEF StartUp, GrpcPortTaken, SetHealthy, SetReady, ArmSignals, Goto, StartPcs, Servers, config, work
<1>2. CASE Running /\ Graceful
  <2>1. ASSUME main' \in {"drop_healthy", "drop_ready", "pause", "stop_grpc"},
               UNCHANGED <<lis, enabled, exit, open, dropped>>
        PROVE  DrainInv'
    <3>1. (ClosedForGood /\ NoneClosedYet /\ RpcsDrained /\ HttpDrained)'
      BY <2>1 DEF ClosedForGood, NoneClosedYet, RpcsDrained, HttpDrained, PastClose, PastWait, StartPcs, Servers, TypeOK
    <3> QED
      BY <1>2, <2>1, <3>1 DEF DrainInv, DisabledStayOff, OffIsEmpty, Running,
                              RpcsOutliveShutdown, PlainRequestsGetTheTimeout
  <2>2. CASE CloseListener("grpc", "stop_grpc", "wait_grpc", "stop_http")
    <3>1. \A r \in open : Target[r] = "grpc" => "grpc" \in enabled
      BY <1>2 DEF DrainInv, DisabledStayOff, OffIsEmpty, TypeOK, Servers
    <3>2. DisabledStayOff' /\ OffIsEmpty'
      BY <1>2, <2>2 DEF CloseListener, config, work, TypeOK, DrainInv, DisabledStayOff, OffIsEmpty, Servers
    <3>3. (ClosedForGood /\ NoneClosedYet)'
      BY <1>2, <2>2 DEF CloseListener, config, TypeOK, DrainInv, DisabledStayOff, ClosedForGood,
                        NoneClosedYet, StartPcs, PastClose, Servers
    <3>4. (RpcsDrained /\ HttpDrained)'
      BY <2>2, <3>1 DEF CloseListener, work, RpcsDrained, HttpDrained, PastWait, Busy
    <3> QED
      BY <1>2, <2>2, <3>2, <3>3, <3>4
         DEF CloseListener, work, DrainInv, Running, RpcsOutliveShutdown, PlainRequestsGetTheTimeout
  <2>3. CASE Drained(RpcsDone, "wait_grpc", "stop_http")
    <3>1. (ClosedForGood /\ NoneClosedYet /\ RpcsDrained /\ HttpDrained)'
      BY <1>2, <2>3 DEF Drained, Goto, RpcsDone, config, work, timers, DrainInv, ClosedForGood, NoneClosedYet, RpcsDrained,
                        HttpDrained, StartPcs, PastClose, PastWait, Busy, Servers
    <3> QED
      BY <1>2, <2>3, <3>1 DEF Drained, config, work, DrainInv, DisabledStayOff, OffIsEmpty, Running,
                              RpcsOutliveShutdown, PlainRequestsGetTheTimeout
  <2>4. ASSUME NEW s \in {"http", "https"}, NEW from, NEW wait, NEW next,
               <<s, from, wait, next>> \in {<<"http", "stop_http", "wait_http", "stop_https">>,
                                            <<"https", "stop_https", "wait_https", "returned">>},
               CloseListener(s, from, wait, next)
        PROVE  DrainInv'
    <3>1. \A r \in open : Target[r] \in enabled
      BY <1>2 DEF DrainInv, DisabledStayOff, OffIsEmpty, TypeOK
    <3>2. DisabledStayOff' /\ OffIsEmpty'
      BY <1>2, <2>4 DEF CloseListener, config, work, TypeOK, DrainInv, DisabledStayOff, OffIsEmpty, Servers
    <3>3. (ClosedForGood /\ NoneClosedYet)'
      BY <1>2, <2>4 DEF CloseListener, config, TypeOK, DrainInv, DisabledStayOff, ClosedForGood,
                        NoneClosedYet, StartPcs, PastClose, Servers
    <3>4. RpcsDrained'
      BY <1>2, <2>4 DEF CloseListener, work, DrainInv, RpcsDrained, PastWait, Busy
    <3>5. HttpDrained'
      BY <1>2, <2>4, <3>1 DEF CloseListener, work, timers, DrainInv, HttpDrained, PastWait, Busy
    <3> QED
      BY <1>2, <2>4, <3>2, <3>3, <3>4, <3>5
         DEF CloseListener, work, DrainInv, Running, RpcsOutliveShutdown, PlainRequestsGetTheTimeout
  <2>5. ASSUME NEW s \in {"http", "https"}, NEW from, NEW to,
               <<s, from, to>> \in {<<"http", "wait_http", "stop_https">>,
                                    <<"https", "wait_https", "returned">>},
               Drained(HttpDone(s), from, to)
        PROVE  DrainInv'
    <3>1. (ClosedForGood /\ NoneClosedYet /\ RpcsDrained /\ HttpDrained)'
      BY <1>2, <2>5 DEF Drained, Goto, HttpDone, config, work, timers, DrainInv, ClosedForGood, NoneClosedYet, RpcsDrained,
                        HttpDrained, StartPcs, PastClose, PastWait, Busy, Servers
    <3> QED
      BY <1>2, <2>5, <3>1 DEF Drained, config, work, DrainInv, DisabledStayOff, OffIsEmpty, Running,
                              RpcsOutliveShutdown, PlainRequestsGetTheTimeout
  <2>6. CASE Return
    BY <1>2, <2>6, DrainDie DEF Return
  <2> QED
    BY <1>2, <2>1, <2>2, <2>3, <2>4, <2>5, <2>6
       DEF Graceful, ReceiveStop, DropHealthy, DropReady, WakeUp, Goto, config, work
<1>3. CASE Running /\ TakeFirst
  BY <1>3, DrainQuiet DEF TakeFirst, config, timers, work, TypeOK
<1>4. CASE Running /\ TakeSecond
  BY <1>0, <1>4 DEF TakeSecond
<1>5. ASSUME Running, NEW s \in Servers, Serve(s)
      PROVE  DrainInv'
  <2>1. main \notin PastClose[s] /\ s \in enabled
    BY <1>5 DEF Serve, DrainInv, ClosedForGood, DisabledStayOff
  <2> QED
    BY <1>5, <2>1 DEF Serve, config, timers, work, TypeOK, DrainInv, DisabledStayOff, ClosedForGood,
         NoneClosedYet, OffIsEmpty, RpcsDrained, HttpDrained, Busy, Running, RpcsOutliveShutdown, PlainRequestsGetTheTimeout
<1>6. ASSUME Running, NEW s \in Servers, ServerCrash(s)
      PROVE  DrainInv'
  BY <1>0, <1>6 DEF ServerCrash
<1>7. CASE Running /\ LateGrpcServe
  BY <1>0, <1>7 DEF LateGrpcServe
<1>8. ASSUME Running, NEW r \in Requests, Accept(r)
      PROVE  DrainInv'
  <2>1. \A s \in Servers : main \in PastWait[s] => main \in PastClose[s]
    BY DEF PastWait, PastClose, Servers
  <2>2. main \notin PastWait[Target[r]]
    BY <1>8, <2>1 DEF Accept, DrainInv, ClosedForGood, DisabledStayOff
  <2> QED
    BY <1>8, <2>2 DEF Accept, config, timers, DrainInv, DisabledStayOff, ClosedForGood, NoneClosedYet, OffIsEmpty,
         RpcsDrained, HttpDrained, Busy, Running, RpcsOutliveShutdown, PlainRequestsGetTheTimeout
<1>9. ASSUME Running, NEW r \in Requests, Answer(r)
      PROVE  DrainInv'
  BY <1>9, DrainQuiet DEF Answer, config, timers, TypeOK
<1>10. ASSUME Running, NEW r \in Requests, NEW v \in {0, 1}, SetReadiness(r, v)
       PROVE  DrainInv'
  BY <1>10, DrainQuiet DEF SetReadiness, config, timers, TypeOK
<1>11. ASSUME Running, NEW r \in Requests, PanicRoute(r)
       PROVE  DrainInv'
  BY <1>0, <1>11 DEF PanicRoute
<1>12. CASE Running /\ Signal
  <2>1. CASE Die("signal")
    BY <1>0, <1>12, <2>1
  <2>2. CASE ~Die("signal")
    BY <1>12, <2>2, DrainQuiet DEF Signal, config, timers, work, TypeOK
  <2> QED
    BY <2>1, <2>2
<1>13. CASE Running /\ Tick
  <2>1. budget' \in Nat /\ budget' <= budget
    BY <1>13, TimingAssumption DEF Tick, Countdown, TypeOK
  <2> QED
    BY <1>13, <2>1, DrainQuiet DEF Tick, config, work
<1>14. CASE UNCHANGED vars
  BY <1>14 DEF vars, config, timers, work, DrainInv, DisabledStayOff, ClosedForGood, NoneClosedYet, OffIsEmpty,
       RpcsDrained, HttpDrained, Busy, Running, RpcsOutliveShutdown, PlainRequestsGetTheTimeout
<1> QED
  BY <1>1, <1>2, <1>3, <1>4, <1>5, <1>6, <1>7, <1>8, <1>9, <1>10, <1>11, <1>12, <1>13, <1>14
     DEF Next, MainStep, HandlerStep, ServerStep, ClientStep, Clock

\* The invariant behind the two promises, for every set of requests and every timing.
THEOREM DrainCorrect == Spec => []DrainInv
<1>1. Init => DrainInv
  BY DrainInit
<1>2. TypeOK /\ DrainInv /\ [Next]_vars => DrainInv'
  BY DrainNext
<1> QED
  BY <1>1, <1>2, TypeCorrect, PTL DEF Spec

\* main.go returns from Graceful without having cut off an RPC.
THEOREM RpcsSafe == Spec => []RpcsOutliveShutdown
<1>1. DrainInv => RpcsOutliveShutdown
  BY DEF DrainInv
<1> QED
  BY <1>1, DrainCorrect, PTL

\* main.go cuts off a plain HTTP request only when the shutdown timeout is used up.
THEOREM PlainRequestsSafe == Spec => []PlainRequestsGetTheTimeout
<1>1. DrainInv => PlainRequestsGetTheTimeout
  BY DEF DrainInv
<1> QED
  BY <1>1, DrainCorrect, PTL

-----------------------------------------------------------------------------
(* The process keeps the contract: every step of Lifecycle is a step of    *)
(* GracefulService or changes nothing it can see.                          *)

\* A start of the process is a start of the abstract service.
LEMMA ContractInit == Init => Contract!Init
  BY DEF Init, Contract!Init, ContractMode, Before, ShutOutNow, StartPcs

\* A step that the contract cannot see.
LEMMA ContractStutter ==
  ASSUME UNCHANGED <<ContractMode, open, dropped, ShutOutNow, main \notin Before /\ budget = 0>>
  PROVE  [Contract!Next]_(Contract!cvars)
  BY DEF Contract!cvars

\* An end that is not orderly is an abort.
LEMMA ContractAbort ==
  ASSUME TypeOK, Running, NEW how \in {"fatal", "second_signal", "signal", "panic"}, Die(how)
  PROVE  Contract!Abort
<1>1. ContractMode \in {"up", "closing"} /\ ContractMode' = "aborted"
  BY DEF ContractMode, Die, Running
<1>2. ShutOutNow \subseteq ShutOutNow' /\ ShutOutNow' \subseteq Requests
  BY TargetAssumption DEF ShutOutNow, Die, config, TypeOK
<1>3. UNCHANGED <<main, budget>> /\ dropped' = open /\ open' = {}
  BY DEF Die, timers
<1> QED
  BY <1>1, <1>2, <1>3 DEF Contract!Abort, Contract!Alive, Contract!End

\* Returning from Graceful is the orderly end.
LEMMA ContractReturn ==
  ASSUME TypeOK, DrainInv, Running, Return
  PROVE  Contract!OrderlyEnd
<1>1. ContractMode = "closing" /\ ContractMode' = "done"
  BY DEF ContractMode, Return, Die, Running, Before, StartPcs
<1>2. ShutOutNow = Requests
  BY TargetAssumption
     DEF ShutOutNow, Return, DrainInv, ClosedForGood, PastClose, Servers
<1>3. ShutOutNow \subseteq ShutOutNow' /\ ShutOutNow' \subseteq Requests
  BY TargetAssumption DEF ShutOutNow, Return, Die, config, TypeOK
<1>4. open \cap {r \in Requests : Target[r] = "grpc"} = {}
  BY HijackedAssumption DEF Return, DrainInv, RpcsDrained, PastWait, Busy
<1>5. budget = 0 \/ open \cap {r \in Requests : Plain(r)} = {}
  <2> SUFFICES ASSUME budget # 0, NEW r \in open, Plain(r) PROVE FALSE
    OBVIOUS
  <2>1. budget > 0 /\ Target[r] \in {"http", "https"}
    BY TimingAssumption, TargetAssumption DEF Plain, TypeOK, Servers
  <2> QED
    BY <2>1 DEF Return, DrainInv, HttpDrained, PastWait, Busy, Plain
<1>6. main \notin Before /\ UNCHANGED <<main, budget>> /\ dropped' = open /\ open' = {}
  BY DEF Return, Die, timers, Before, StartPcs
<1> QED
  BY <1>1, <1>2, <1>3, <1>4, <1>5, <1>6 DEF Contract!OrderlyEnd, Contract!End

\* A step of the process is a step of the abstract service or none.
LEMMA ContractNext ==
  TypeOK /\ DrainInv /\ [Next]_vars => [Contract!Next]_(Contract!cvars)
<1> SUFFICES ASSUME TypeOK, DrainInv, [Next]_vars PROVE [Contract!Next]_(Contract!cvars)
  OBVIOUS
<1>0. ASSUME Running, NEW how \in {"fatal", "second_signal", "signal", "panic"}, Die(how)
      PROVE  [Contract!Next]_(Contract!cvars)
  BY <1>0, ContractAbort DEF Contract!Next
<1>s. ASSUME UNCHANGED <<exit, open, dropped, lis, enabled>>, (main' \in Before) = (main \in Before),
             main' \in Before \/ budget' = budget
      PROVE  [Contract!Next]_(Contract!cvars)
  BY <1>s, ContractStutter DEF ContractMode, ShutOutNow
<1>1. CASE Running /\ StartUp
  <2>1. ASSUME NEW s \in Servers, NEW from \in StartPcs, NEW to \in StartPcs, Spawn(s, from, to)
        PROVE  [Contract!Next]_(Contract!cvars)
    <3>1. UNCHANGED ContractMode /\ UNCHANGED <<open, dropped, enabled, exit, budget>>
      BY <2>1 DEF Spawn, Goto, ContractMode, Before, work, config, timers
    <3>2. lis[s] \notin {"closed", "late"}
      BY <1>1, <2>1 DEF Spawn, Goto, DrainInv, NoneClosedYet
    <3>3. UNCHANGED ShutOutNow
      BY <2>1, <3>1, <3>2, TargetAssumption DEF Spawn, ShutOutNow, TypeOK
    <3>4. main \in Before /\ main' \in Before
      BY <2>1 DEF Spawn, Goto, Before
    <3> QED
      BY <3>1, <3>3, <3>4, ContractStutter
  <2> QED
    BY <1>0, <1>s, <1>1, <2>1
       DEF StartUp, GrpcPortTaken, SetHealthy, SetReady, ArmSignals, Goto, StartPcs, Before, Servers,
           config, timers, work
<1>2. CASE Running /\ ReceiveStop
  <2>1. ContractMode = "up" /\ ContractMode' = "closing"
    BY <1>2 DEF ReceiveStop, Goto, ContractMode, Running, Before, StartPcs
  <2>2. UNCHANGED <<open, dropped, ShutOutNow>>
    BY <1>2 DEF ReceiveStop, work, config, ShutOutNow
  <2>3. Contract!Close
    BY <2>1, <2>2 DEF Contract!Close
  <2> QED
    BY <2>3 DEF Contract!Next
<1>3. CASE Running /\ (DropHealthy \/ DropReady \/ WakeUp)
  BY <1>3, <1>s DEF DropHealthy, DropReady, WakeUp, Goto, Before, StartPcs, config, timers, work
<1>4. ASSUME Running, NEW s \in Servers, NEW from \in ClosePcs, NEW wait \in ClosePcs, NEW next \in ClosePcs,
             CloseListener(s, from, wait, next)
      PROVE  [Contract!Next]_(Contract!cvars)
  <2>1. main \notin Before /\ main' \notin Before
    BY <1>4 DEF CloseListener, ClosePcs, Before, StartPcs
  <2>2. UNCHANGED <<open, dropped, enabled, exit, budget>>
    BY <1>4 DEF CloseListener, work, config, timers
  <2>3. ContractMode = "closing" /\ UNCHANGED ContractMode
    BY <1>4, <2>1, <2>2 DEF ContractMode, Running
  <2>4. ShutOutNow \subseteq ShutOutNow' /\ ShutOutNow' \in SUBSET Requests
    BY <1>4, <2>2, TargetAssumption DEF CloseListener, ShutOutNow, TypeOK
  <2>5. Contract!ShutOut
    BY <2>1, <2>2, <2>3, <2>4 DEF Contract!ShutOut
  <2> QED
    BY <2>5 DEF Contract!Next
<1>5. ASSUME NEW done, NEW from \in ClosePcs, NEW to \in ClosePcs, Drained(done, from, to)
      PROVE  [Contract!Next]_(Contract!cvars)
  BY <1>5, <1>s DEF Drained, Goto, ClosePcs, Before, StartPcs, config, timers, work
<1>6. CASE Running /\ Return
  BY <1>6, ContractReturn DEF Contract!Next
<1>7. CASE Running /\ Graceful
  BY <1>7, <1>2, <1>3, <1>4, <1>5, <1>6 DEF Graceful, ClosePcs, Servers
<1>8. CASE Running /\ HandlerStep
  BY <1>8, <1>0, <1>s DEF HandlerStep, TakeFirst, TakeSecond, config, timers, work
<1>9. ASSUME Running, NEW s \in Servers, ServerStep(s)
      PROVE  [Contract!Next]_(Contract!cvars)
  <2>1. CASE Serve(s)
    <3>1. UNCHANGED ContractMode /\ UNCHANGED <<open, dropped, enabled, main, budget>>
      BY <2>1 DEF Serve, ContractMode, work, config, timers
    <3>2. UNCHANGED ShutOutNow
      BY <2>1, <3>1, TargetAssumption DEF Serve, ShutOutNow, TypeOK
    <3> QED
      BY <3>1, <3>2, ContractStutter
  <2> QED
    BY <1>9, <2>1, <1>0 DEF ServerStep, ServerCrash
<1>10. CASE Running /\ LateGrpcServe
  BY <1>10, <1>0 DEF LateGrpcServe
<1>11. ASSUME Running, NEW r \in Requests, ClientStep(r)
       PROVE  [Contract!Next]_(Contract!cvars)
  <2>1. ContractMode \in {"up", "closing"}
    BY <1>11 DEF ContractMode, Running
  <2>2. CASE Accept(r)
    <3>1. r \notin ShutOutNow
      BY <2>2, TargetAssumption DEF Accept, ShutOutNow, DrainInv, DisabledStayOff
    <3>2. UNCHANGED <<ContractMode, dropped, ShutOutNow, main, budget>> /\ open' = open \cup {r}
      BY <2>2 DEF Accept, ContractMode, ShutOutNow, config, timers
    <3>3. Contract!Admit(r)
      BY <2>1, <3>1, <3>2 DEF Contract!Admit, Contract!Alive
    <3> QED
      BY <3>3 DEF Contract!Next
  <2>3. CASE Answer(r) \/ \E v \in {0, 1} : SetReadiness(r, v)
    <3>1. UNCHANGED <<ContractMode, dropped, ShutOutNow, main, budget>> /\ r \in open /\ open' = open \ {r}
      BY <2>3 DEF Answer, SetReadiness, ContractMode, ShutOutNow, config, timers
    <3>2. Contract!Finish(r)
      BY <2>1, <3>1 DEF Contract!Finish, Contract!Alive
    <3> QED
      BY <3>2 DEF Contract!Next
  <2> QED
    BY <1>0, <1>11, <2>2, <2>3 DEF ClientStep, PanicRoute
<1>12. CASE Running /\ Signal
  <2>1. CASE Die("signal")
    BY <1>0, <1>12, <2>1
  <2>2. CASE ~Die("signal")
    BY <1>12, <2>2, <1>s DEF Signal, config, timers, work
  <2> QED
    BY <2>1, <2>2
<1>13. CASE Clock
  <2>1. UNCHANGED <<exit, open, dropped, lis, enabled, main>> /\ Running
    BY <1>13 DEF Clock, Tick, config, work
  <2>2. CASE main \in Before \/ budget' = budget
    BY <2>1, <2>2, <1>s
  <2>3. CASE main \notin Before /\ budget' # 0
    <3>1. budget # 0
      BY <1>13, <2>3, TimingAssumption DEF Clock, Tick, Countdown, TypeOK
    <3> QED
      BY <2>1, <2>3, <3>1, ContractStutter DEF ContractMode, ShutOutNow
  <2>4. CASE main \notin Before /\ budget' = 0
    <3>1. ContractMode = "closing" /\ UNCHANGED <<ContractMode, ShutOutNow>>
      BY <2>1, <2>4 DEF ContractMode, ShutOutNow, Running
    <3>2. Contract!Expire
      BY <2>1, <2>4, <3>1 DEF Contract!Expire
    <3> QED
      BY <3>2 DEF Contract!Next
  <2> QED
    BY <2>2, <2>3, <2>4
<1>14. CASE UNCHANGED vars
  BY <1>14, <1>s DEF vars, config, timers, work
<1> QED
  BY <1>1, <1>7, <1>8, <1>9, <1>10, <1>11, <1>12, <1>13, <1>14
     DEF Next, MainStep, HandlerStep, ServerStep, ClientStep

\* For every set of requests and every timing, a podinfo process keeps the contract
\* of GracefulService.
THEOREM ContractKept == Spec => KeepsContract
<1>1. Init => Contract!Init
  BY ContractInit
<1>2. TypeOK /\ DrainInv /\ [Next]_vars => [Contract!Next]_(Contract!cvars)
  BY ContractNext
<1> QED
  BY <1>1, <1>2, TypeCorrect, DrainCorrect, PTL DEF Spec, KeepsContract, Contract!Spec

-----------------------------------------------------------------------------
(***************************************************************************)
(* The pause.  What is left of the shutdown context is a function of how   *)
(* much of the pause has passed, until the pause is over; from then on the *)
(* context only shrinks, and only where main waits for a server.           *)
(***************************************************************************)
LessOf(a, b) == IF a > b THEN a - b ELSE 0

FlagLowered == main \in {"drop_ready", "pause"} \cup ClosePcs => healthy = 0
NapInPause  == main # "pause" => nap = 0
ContextFull == main \in {"drop_healthy", "drop_ready"} => budget = Timeout
PauseShared == main = "pause" => IF "debug" \in flags THEN nap = 0 /\ budget = Timeout
                                                     ELSE budget = LessOf(Timeout, Pause - nap)
PauseTaken  == main \in ClosePcs /\ "debug" \notin flags => budget <= AfterPause
NothingElse == main = "stop_grpc" \/ (main = "stop_http" /\ "grpc" \notin enabled) => budget >= AfterPause
GrpcWaited  == main = "wait_grpc" => "grpc" \in enabled

PauseInv == /\ FlagLowered /\ NapInPause /\ ContextFull /\ PauseShared
            /\ PauseTaken /\ NothingElse /\ GrpcWaited

\* A step that leaves main and its clocks alone says nothing about the pause.
LEMMA PauseQuiet ==
  ASSUME PauseInv, UNCHANGED <<main, enabled, flags, healthy, nap, budget>>
  PROVE  PauseInv'
  BY DEF PauseInv, FlagLowered, NapInPause, ContextFull, PauseShared, PauseTaken, NothingElse, GrpcWaited

\* Every step keeps the invariant of the pause.
LEMMA PauseNext == TypeOK /\ PauseInv /\ [Next]_vars => PauseInv'
<1> SUFFICES ASSUME TypeOK, PauseInv, [Next]_vars PROVE PauseInv'
  OBVIOUS
<1>t. budget \in Nat /\ nap \in Nat /\ nap <= Pause /\ budget <= Timeout
  BY TimingAssumption DEF TypeOK
<1>0. ASSUME NEW how, Die(how) PROVE PauseInv'
  BY <1>0, PauseQuiet DEF Die, config, timers
<1>1. CASE StartUp
  <2>1. ASSUME NEW s, NEW from \in StartPcs, NEW to \in StartPcs, Spawn(s, from, to)
        PROVE  PauseInv'
    BY <2>1 DEF Spawn, Goto, config, timers, PauseInv, FlagLowered, NapInPause, ContextFull, PauseShared,
                PauseTaken, NothingElse, GrpcWaited, StartPcs, ClosePcs
  <2>2. ASSUME main \in StartPcs, main' \in StartPcs \cup {"serve"}, UNCHANGED <<nap, budget, flags, enabled>>
        PROVE  PauseInv'
    BY <2>2 DEF PauseInv, FlagLowered, NapInPause, ContextFull, PauseShared,
                PauseTaken, NothingElse, GrpcWaited, StartPcs, ClosePcs
  <2> QED
    BY <1>0, <1>1, <2>1, <2>2 DEF StartUp, GrpcPortTaken, SetHealthy, SetReady, ArmSignals, Goto, StartPcs, config, timers
<1>2. CASE Graceful
  <2>1. CASE ReceiveStop \/ DropHealthy
    BY <2>1 DEF ReceiveStop, DropHealthy, Goto, config, timers, PauseInv, FlagLowered, NapInPause, ContextFull,
                PauseShared, PauseTaken, NothingElse, GrpcWaited, ClosePcs
  <2>2. CASE DropReady
    BY <1>t, <2>2, TimingAssumption
       DEF DropReady, Goto, config, PauseInv, FlagLowered, NapInPause, ContextFull,
           PauseShared, PauseTaken, NothingElse, GrpcWaited, ClosePcs, LessOf
  <2>3. CASE WakeUp
    BY <1>t, <2>3, TimingAssumption
       DEF WakeUp, Goto, config, timers, PauseInv, FlagLowered, NapInPause, ContextFull,
           PauseShared, PauseTaken, NothingElse, GrpcWaited, ClosePcs, LessOf, AfterPause
  <2>4. CASE \/ CloseListener("grpc", "stop_grpc", "wait_grpc", "stop_http")
             \/ CloseListener("http", "stop_http", "wait_http", "stop_https")
             \/ CloseListener("https", "stop_https", "wait_https", "returned")
    BY <2>4 DEF CloseListener, config, timers, PauseInv, FlagLowered, NapInPause, ContextFull,
                PauseShared, PauseTaken, NothingElse, GrpcWaited, ClosePcs, AfterPause
  <2>5. CASE \/ Drained(RpcsDone, "wait_grpc", "stop_http")
             \/ Drained(HttpDone("http"), "wait_http", "stop_https")
             \/ Drained(HttpDone("https"), "wait_https", "returned")
    BY <2>5 DEF Drained, Goto, config, timers, PauseInv, FlagLowered, NapInPause, ContextFull,
                PauseShared, PauseTaken, NothingElse, GrpcWaited, ClosePcs, AfterPause
  <2> QED
    BY <1>0, <1>2, <2>1, <2>2, <2>3, <2>4, <2>5 DEF Graceful, Return
<1>3. CASE Tick
  <2>1. main \in {"serve", "pause", "wait_grpc", "wait_http", "wait_https"}
    BY <1>3 DEF Tick, MainReady
  <2>2. CASE main = "pause"
    BY <1>t, <1>3, <2>2, TimingAssumption
       DEF Tick, MainReady, Countdown, config, PauseInv, FlagLowered, NapInPause, ContextFull,
           PauseShared, PauseTaken, NothingElse, GrpcWaited, ClosePcs, LessOf, AfterPause
  <2>3. CASE main # "pause"
    BY <1>t, <1>3, <2>1, <2>3, TimingAssumption
       DEF Tick, Countdown, config, PauseInv, FlagLowered, NapInPause, ContextFull,
           PauseShared, PauseTaken, NothingElse, GrpcWaited, ClosePcs, AfterPause
  <2> QED
    BY <2>2, <2>3
<1>4. CASE Signal
  BY <1>0, <1>4, PauseQuiet DEF Signal, config, timers
<1>5. CASE TakeFirst \/ TakeSecond \/ LateGrpcServe
  BY <1>0, <1>5, PauseQuiet DEF TakeFirst, TakeSecond, LateGrpcServe, config, timers
<1>6. ASSUME NEW s \in Servers, Serve(s) \/ ServerCrash(s) PROVE PauseInv'
  BY <1>0, <1>6, PauseQuiet DEF Serve, ServerCrash, config, timers
<1>7. ASSUME NEW r \in Requests, \/ Accept(r) \/ Answer(r) \/ PanicRoute(r)
                                 \/ \E v \in {0, 1} : SetReadiness(r, v)
      PROVE  PauseInv'
  BY <1>0, <1>7, PauseQuiet DEF Accept, Answer, PanicRoute, SetReadiness, config, timers
<1>8. CASE UNCHANGED vars
  BY <1>8, PauseQuiet DEF vars, config, timers
<1> QED
  BY <1>1, <1>2, <1>3, <1>4, <1>5, <1>6, <1>7, <1>8
     DEF Next, MainStep, HandlerStep, ServerStep, ClientStep, Clock

\* A listener that was accepting is closed, in a process that goes on, only by
\* the statement of Graceful that shuts its server down.
LEMMA OnlyGracefulCloses ==
  ASSUME TypeOK, Next, NEW s \in Servers, lis[s] = "listening", lis'[s] = "closed", exit' = "none"
  PROVE  \/ CloseListener("grpc", "stop_grpc", "wait_grpc", "stop_http") /\ s = "grpc"
         \/ CloseListener("http", "stop_http", "wait_http", "stop_https") /\ s = "http"
         \/ CloseListener("https", "stop_https", "wait_https", "returned") /\ s = "https"
<1>0. ASSUME NEW how \in {"clean", "fatal", "second_signal", "signal", "panic"}, Die(how) PROVE FALSE
  BY <1>0 DEF Die
<1>1. lis' # lis
  OBVIOUS
<1>2. ASSUME NEW q \in Servers, NEW from, NEW to, Spawn(q, from, to) PROVE FALSE
  BY <1>2 DEF Spawn, TypeOK
<1>3. ~StartUp
  BY <1>0, <1>1, <1>2 DEF StartUp, GrpcPortTaken, SetHealthy, SetReady, ArmSignals, Servers
<1>4. ASSUME NEW q \in Servers PROVE ~Serve(q) /\ ~ServerCrash(q)
  BY <1>0 DEF Serve, ServerCrash, TypeOK
<1>5. ~TakeFirst /\ ~TakeSecond /\ ~LateGrpcServe /\ ~Signal /\ ~Tick
  BY <1>0, <1>1 DEF TakeFirst, TakeSecond, LateGrpcServe, Signal, Tick
<1>6. ASSUME NEW r \in Requests PROVE ~ClientStep(r)
  BY <1>0, <1>1 DEF ClientStep, Accept, Answer, PanicRoute, SetReadiness
<1>7. Graceful
  BY <1>3, <1>4, <1>5, <1>6 DEF Next, MainStep, HandlerStep, ServerStep, Clock
<1>8. ~ReceiveStop /\ ~DropHealthy /\ ~DropReady /\ ~WakeUp /\ ~Return
  BY <1>0, <1>1 DEF ReceiveStop, DropHealthy, DropReady, WakeUp, Return
<1>9. ASSUME NEW done, NEW from, NEW to PROVE ~Drained(done, from, to)
  BY <1>1 DEF Drained
<1>10. ASSUME NEW q \in Servers, NEW from, NEW wait, NEW next, CloseListener(q, from, wait, next) PROVE s = q
  BY <1>1, <1>10 DEF CloseListener, TypeOK
<1> QED
  BY <1>7, <1>8, <1>9, <1>10 DEF Graceful, Servers

\* In every run of the process, for every timing, an accepting listener closes only behind
\* the lowered flag and the whole pause; the first HTTP drain has what the pause left.
THEOREM ListenersOutliveThePause == Spec => ClosesAfterThePause
<1>1. Init => PauseInv
  BY DEF Init, PauseInv, FlagLowered, NapInPause, ContextFull, PauseShared, PauseTaken, NothingElse, GrpcWaited, ClosePcs
<1>2. TypeOK /\ PauseInv /\ [Next]_vars => PauseInv'
  BY PauseNext
<1>3. TypeOK /\ PauseInv /\ [Next]_vars =>
        [\A s \in Servers :
           lis[s] = "listening" /\ lis'[s] = "closed" /\ Running' =>
             /\ healthy = 0 /\ nap = 0 /\ main \in ClosePcs
             /\ "debug" \notin flags => budget <= AfterPause
             /\ s = "http" /\ "grpc" \notin enabled => budget >= AfterPause]_vars
  <2> SUFFICES ASSUME TypeOK, PauseInv, Next, NEW s \in Servers,
                      lis[s] = "listening", lis'[s] = "closed", Running'
               PROVE  /\ healthy = 0 /\ nap = 0 /\ main \in ClosePcs
                      /\ "debug" \notin flags => budget <= AfterPause
                      /\ s = "http" /\ "grpc" \notin enabled => budget >= AfterPause
    BY DEF vars
  <2>1. exit' = "none"
    BY DEF Running
  <2>2. \/ main = "stop_grpc" /\ s = "grpc"
        \/ main = "stop_http" /\ s = "http"
        \/ main = "stop_https" /\ s = "https"
    BY <2>1, OnlyGracefulCloses DEF CloseListener
  <2>3. main \in ClosePcs /\ main # "pause"
    BY <2>2 DEF ClosePcs
  <2> QED
    BY <2>2, <2>3 DEF PauseInv, FlagLowered, NapInPause, PauseTaken, NothingElse
<1> QED
  BY <1>1, <1>2, <1>3, TypeCorrect, PTL DEF Spec, ClosesAfterThePause

=============================================================================
