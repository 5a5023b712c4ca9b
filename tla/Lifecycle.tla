------------------------------ MODULE Lifecycle ------------------------------
(***************************************************************************)
(* The life of one podinfo process: start-up of the gRPC, HTTP and HTTPS   *)
(* servers, the healthy and ready flags behind the probes, the signal      *)
(* goroutine, and the graceful shutdown that main runs on the first        *)
(* SIGTERM or SIGINT (cmd/podinfo/main.go, pkg/signals, and ListenAndServe *)
(* of pkg/api/http and pkg/api/grpc).                                      *)
(*                                                                         *)
(* A request is one unit of client work on one server.  An HTTP request    *)
(* whose connection the handler took over (the /ws/echo websocket) is      *)
(* "hijacked": net/http no longer counts it when it shuts down.            *)
(*                                                                         *)
(* The two waits of the shutdown, the context deadline and the pause after *)
(* readiness drops, are countdowns in seconds.  A second passes only while *)
(* main is blocked: what main computes takes no time on that scale.        *)
(***************************************************************************)
EXTENDS Integers, FiniteSets

CONSTANTS
  Requests,   \* the units of client work
  Target,     \* the server each request is addressed to
  Hijacked,   \* the HTTP requests whose connection is hijacked
  Timeout,    \* --server-shutdown-timeout
  Pause       \* the sleep after readiness is lowered

Servers == {"grpc", "http", "https"}

ASSUME TargetAssumption   == Target \in [Requests -> Servers]
ASSUME HijackedAssumption == \A r \in Hijacked : r \in Requests /\ Target[r] # "grpc"
ASSUME TimingAssumption   == Timeout \in Nat /\ Pause \in Nat

VARIABLES
  enabled,    \* servers whose port is configured
  flags,      \* of --unhealthy, --unready, --level=debug, those given
  main,       \* program counter of the main goroutine
  lis,        \* listener of each server
  healthy,    \* pkg/api/http.healthy
  ready,      \* pkg/api/http.ready
  handler,    \* the signal goroutine
  sigs,       \* signals in the channel registered with signal.Notify
  stop,       \* is the stop channel closed?
  budget,     \* seconds left in the shutdown context
  nap,        \* seconds left in the pause
  open,       \* requests accepted and not finished
  dropped,    \* requests cut off by the end of the process
  exit,       \* how the process ended
  sent        \* history: signals sent since the handler was armed, up to 2

config == <<enabled, flags>>
signal == <<handler, sigs, stop, sent>>
timers == <<budget, nap>>
work   == <<open, dropped>>
vars   == <<config, main, lis, healthy, ready, signal, timers, work, exit>>

StartPcs   == {"start_grpc", "start_http", "start_https", "set_healthy", "set_ready", "arm"}
ClosePcs   == {"stop_grpc", "wait_grpc", "stop_http", "wait_http", "stop_https", "wait_https", "returned"}
MainPcs    == StartPcs \cup ClosePcs \cup {"serve", "drop_healthy", "drop_ready", "pause"}
\* Mutant: an almost unbuffered channel.
SignalBuffer_one == 1

SignalBuffer == 2

TypeOK ==
  /\ enabled \subseteq Servers
  /\ flags \subseteq {"unhealthy", "unready", "debug"}
  /\ main \in MainPcs
  /\ lis \in [Servers -> {"off", "starting", "listening", "closed", "late"}]
  /\ healthy \in {0, 1}
  /\ ready \in {0, 1}
  /\ handler \in {"none", "first", "second"}
  /\ sigs \in 0 .. SignalBuffer
  /\ stop \in BOOLEAN
  /\ budget \in 0 .. Timeout
  /\ nap \in 0 .. Pause
  /\ open \subseteq Requests
  /\ dropped \subseteq Requests
  /\ exit \in {"none", "clean", "fatal", "second_signal", "signal", "panic"}
  /\ sent \in 0 .. 2

Init ==
  /\ enabled \in SUBSET Servers
  /\ flags \in SUBSET {"unhealthy", "unready", "debug"}
  /\ main = "start_grpc"
  /\ lis = [s \in Servers |-> "off"]
  /\ healthy = 0 /\ ready = 0
  /\ handler = "none" /\ sigs = 0 /\ stop = FALSE /\ sent = 0
  /\ budget = 0 /\ nap = 0
  /\ open = {} /\ dropped = {}
  /\ exit = "none"

Running == exit = "none"
Exited  == ~Running

-----------------------------------------------------------------------------
(* The end of the process: whatever is still open is cut off. *)

Die(how) ==
  /\ exit' = how
  /\ dropped' = open
  /\ open' = {}
  /\ lis' = [s \in Servers |-> IF lis[s] = "off" THEN "off" ELSE "closed"]
  /\ UNCHANGED <<config, main, healthy, ready, signal, timers>>

-----------------------------------------------------------------------------
(* Start-up, in the order of main() and ListenAndServe(). *)

Goto(from, to) == main = from /\ main' = to

\* The goroutine of an enabled server is started; it has not bound its port yet.
Spawn(s, from, to) ==
  /\ Goto(from, to)
  /\ lis' = IF s \in enabled THEN [lis EXCEPT ![s] = "starting"] ELSE lis
  /\ UNCHANGED <<config, healthy, ready, signal, timers, work, exit>>

\* The gRPC port is bound before its goroutine starts; a failure is fatal.
GrpcPortTaken ==
  /\ main = "start_grpc" /\ "grpc" \in enabled
  /\ Die("fatal")

SetHealthy ==
  /\ Goto("set_healthy", "set_ready")
  /\ healthy' = IF "unhealthy" \in flags THEN healthy ELSE 1
  /\ UNCHANGED <<config, lis, ready, signal, timers, work, exit>>

SetReady ==
  /\ Goto("set_ready", "arm")
  /\ ready' = IF "unready" \in flags THEN ready ELSE 1
  /\ UNCHANGED <<config, lis, healthy, signal, timers, work, exit>>

ArmSignals ==
  /\ Goto("arm", "serve")
  /\ handler' = "first"
  /\ UNCHANGED <<config, lis, healthy, ready, sigs, stop, sent, timers, work, exit>>

StartUp ==
  \/ Spawn("grpc", "start_grpc", "start_http")
  \/ GrpcPortTaken
  \/ Spawn("http", "start_http", "start_https")
  \/ Spawn("https", "start_https", "set_healthy")
  \/ SetHealthy
  \/ SetReady
  \/ ArmSignals

-----------------------------------------------------------------------------
(* The server goroutines. *)

\* Mutant: a server that is told to shut down before it has bound its port binds it all the same.
Serve_after_shutdown(s) ==
  /\ lis[s] \in {"starting", "closed"}
  /\ lis' = [lis EXCEPT ![s] = "listening"]
  /\ UNCHANGED <<config, main, healthy, ready, signal, timers, work, exit>>

\* A server binds (HTTP, HTTPS) and starts to accept.
Serve(s) ==
  /\ lis[s] = "starting"
  /\ lis' = [lis EXCEPT ![s] = "listening"]
  /\ UNCHANGED <<config, main, healthy, ready, signal, timers, work, exit>>

\* The port is taken, or the listener breaks later on.
ServerCrash(s) ==
  /\ lis[s] \in {"starting", "listening"}
  /\ Die("fatal")

\* grpc.Server.Serve entered after GracefulStop returns an error; the goroutine
\* treats every error as fatal, where the HTTP ones except ErrServerClosed.
LateGrpcServe ==
  /\ lis["grpc"] = "late"
  /\ Die("fatal")

-----------------------------------------------------------------------------
(* Clients. *)

Accept(r) ==
  /\ lis[Target[r]] = "listening"
  /\ r \notin open
  /\ open' = open \cup {r}
  /\ UNCHANGED <<config, main, lis, healthy, ready, signal, timers, dropped, exit>>

Answer(r) ==
  /\ r \in open
  /\ open' = open \ {r}
  /\ UNCHANGED <<config, main, lis, healthy, ready, signal, timers, dropped, exit>>

\* Mutant: the flag is counted up and down (AddInt32) where it should be stored.
SetReadiness_adds(r, v) ==
  /\ r \in open /\ Target[r] # "grpc" /\ r \notin Hijacked
  /\ ready' = IF v = 1 THEN ready + 1 ELSE ready - 1
  /\ open' = open \ {r}
  /\ UNCHANGED <<config, main, lis, healthy, signal, timers, dropped, exit>>

\* POST /readyz/enable and POST /readyz/disable store the flag, then answer.
SetReadiness(r, v) ==
  /\ r \in open /\ Target[r] # "grpc" /\ r \notin Hijacked
  /\ ready' = v
  /\ open' = open \ {r}
  /\ UNCHANGED <<config, main, lis, healthy, signal, timers, dropped, exit>>

\* GET /panic and its gRPC counterpart call os.Exit.
PanicRoute(r) ==
  /\ r \in open /\ r \notin Hijacked
  /\ Die("panic")

-----------------------------------------------------------------------------
(* Signals. *)

\* Before signal.Notify the default action ends the process; after it the
\* runtime puts the signal in the channel, or discards it when that is full.
Signal ==
  \/ /\ handler = "none"
     /\ Die("signal")
  \/ /\ handler # "none"
     /\ sigs' = IF sigs < SignalBuffer THEN sigs + 1 ELSE sigs
     /\ sent' = IF sent < 2 THEN sent + 1 ELSE sent
     /\ UNCHANGED <<config, main, lis, healthy, ready, handler, stop, timers, work, exit>>

TakeFirst ==
  /\ handler = "first" /\ sigs > 0
  /\ handler' = "second"
  /\ sigs' = sigs - 1
  /\ stop' = TRUE
  /\ UNCHANGED <<config, main, lis, healthy, ready, sent, timers, work, exit>>

TakeSecond ==
  /\ handler = "second" /\ sigs > 0
  /\ Die("second_signal")

-----------------------------------------------------------------------------
(* Graceful(), the rest of the main goroutine. *)

\* What a server's shutdown waits for: every RPC, but no hijacked connection.
Busy(s) == \E r \in open : Target[r] = s /\ r \notin Hijacked

ReceiveStop ==
  /\ stop
  /\ Goto("serve", "drop_healthy")
  /\ budget' = Timeout
  /\ UNCHANGED <<config, lis, healthy, ready, signal, nap, work, exit>>

DropHealthy ==
  /\ Goto("drop_healthy", "drop_ready")
  /\ healthy' = 0
  /\ UNCHANGED <<config, lis, ready, signal, timers, work, exit>>

\* Mutant: the pause is taken in debug mode only.
DropReady_inverted ==
  /\ Goto("drop_ready", "pause")
  /\ ready' = 0
  /\ nap' = IF "debug" \in flags THEN Pause ELSE 0
  /\ UNCHANGED <<config, lis, healthy, signal, budget, work, exit>>

DropReady ==
  /\ Goto("drop_ready", "pause")
  /\ ready' = 0
  /\ nap' = IF "debug" \in flags THEN 0 ELSE Pause
  /\ UNCHANGED <<config, lis, healthy, signal, budget, work, exit>>

WakeUp ==
  /\ nap = 0
  /\ Goto("pause", "stop_grpc")
  /\ UNCHANGED <<config, lis, healthy, ready, signal, timers, work, exit>>

\* Shutdown and GracefulStop close the listener first.  An HTTP server that has
\* not bound its port yet will never do so; a gRPC one finds out in Serve.
CloseListener(s, from, wait, next) ==
  /\ main = from
  /\ IF s \in enabled
     THEN /\ main' = wait
          /\ lis' = [lis EXCEPT ![s] = IF s = "grpc" /\ @ = "starting"
                                       THEN "late" ELSE "closed"]
     ELSE main' = next /\ UNCHANGED lis
  /\ UNCHANGED <<config, healthy, ready, signal, timers, work, exit>>

\* GracefulStop takes no context: only idleness ends it.
RpcsDone == ~Busy("grpc")

\* Mutants: Close instead of Shutdown; Shutdown with a context that never expires.
HttpDone_at_once(s) == TRUE
HttpDone_without_deadline(s) == ~Busy(s)

\* http.Server.Shutdown(ctx) ends when the server is idle or the context is done.
HttpDone(s) == ~Busy(s) \/ budget = 0

Drained(done, from, to) ==
  /\ done
  /\ Goto(from, to)
  /\ UNCHANGED <<config, lis, healthy, ready, signal, timers, work, exit>>

Return ==
  /\ main = "returned"
  /\ Die("clean")

Graceful ==
  \/ ReceiveStop
  \/ DropHealthy
  \/ DropReady
  \/ WakeUp
  \/ CloseListener("grpc", "stop_grpc", "wait_grpc", "stop_http")
  \/ Drained(RpcsDone, "wait_grpc", "stop_http")
  \/ CloseListener("http", "stop_http", "wait_http", "stop_https")
  \/ Drained(HttpDone("http"), "wait_http", "stop_https")
  \/ CloseListener("https", "stop_https", "wait_https", "returned")
  \/ Drained(HttpDone("https"), "wait_https", "returned")
  \/ Return

-----------------------------------------------------------------------------
(* Time. *)

\* Can the main goroutine go on?
MainReady ==
  CASE main = "serve"      -> stop
    [] main = "pause"      -> nap = 0
    [] main = "wait_grpc"  -> RpcsDone
    [] main = "wait_http"  -> HttpDone("http")
    [] main = "wait_https" -> HttpDone("https")
    [] OTHER               -> TRUE

Countdown(n) == IF n > 0 THEN n - 1 ELSE 0

Tick ==
  /\ ~MainReady
  /\ budget > 0 \/ nap > 0
  /\ budget' = Countdown(budget)
  /\ nap' = Countdown(nap)
  /\ UNCHANGED <<config, main, lis, healthy, ready, signal, work, exit>>

-----------------------------------------------------------------------------
MainStep    == Running /\ (StartUp \/ Graceful)
HandlerStep == Running /\ (TakeFirst \/ TakeSecond)
ServerStep(s) == Running /\ (Serve(s) \/ ServerCrash(s))
ClientStep(r) ==
  /\ Running
  /\ \/ Accept(r)
     \/ Answer(r)
     \/ \E v \in {0, 1} : SetReadiness(r, v)
     \/ PanicRoute(r)
Clock == Running /\ Tick

Next ==
  \/ MainStep
  \/ HandlerStep
  \/ \E s \in Servers : ServerStep(s)
  \/ Running /\ LateGrpcServe
  \/ \E r \in Requests : ClientStep(r)
  \/ Running /\ Signal
  \/ Clock

\* The Go scheduler runs main and the signal goroutine whenever they can run, and
\* time passes.  Nothing is assumed of clients, signals or of how long a request takes.
Fairness == WF_vars(MainStep) /\ WF_vars(HandlerStep) /\ WF_vars(Clock)

Spec == Init /\ [][Next]_vars /\ Fairness

-----------------------------------------------------------------------------
(* Properties. *)

Plain(r) == Target[r] # "grpc" /\ r \notin Hijacked

\* When main returns from Graceful and the process exits by itself, an HTTP or
\* HTTPS request that was still being served is cut off only if the shutdown
\* timeout was used up: httpServer.Shutdown(ctx) and httpsServer.Shutdown(ctx)
\* gave every other one the time to finish.
PlainRequestsGetTheTimeout ==
  exit = "clean" => \A r \in dropped : Plain(r) => budget = 0

\* A process that exits by itself cuts off no RPC, however long it takes:
\* grpcServer.GracefulStop() returns only when none is left, and none is accepted later.
RpcsOutliveShutdown ==
  exit = "clean" => \A r \in dropped : Target[r] # "grpc"

\* The seconds of the context that the pause leaves.
AfterPause == IF Timeout > Pause THEN Timeout - Pause ELSE 0

\* A listener that was accepting is closed by Graceful only after the readiness
\* flag was lowered and, unless the log level is debug, after the whole pause: the
\* balancers get that long to notice.  The pause comes out of the shutdown timeout, and
\* nothing else does before an HTTP listener that no gRPC server precedes is closed.
ClosesAfterThePause ==
  [][\A s \in Servers :
       lis[s] = "listening" /\ lis'[s] = "closed" /\ Running' =>
         /\ healthy = 0 /\ nap = 0 /\ main \in ClosePcs
         /\ "debug" \notin flags => budget <= AfterPause
         /\ s = "http" /\ "grpc" \notin enabled => budget >= AfterPause]_vars

\* Two signals sent after the handler was armed end the process, even while main
\* is blocked in GracefulStop and even if both arrive before the signal goroutine runs:
\* the channel holds two (pkg/signals/signal.go).
TwoSignalsExit == sent = 2 ~> Exited

\* The first signal ends the process, whatever the HTTP clients do, provided
\* GracefulStop is not kept waiting for ever by an RPC that never ends.
RpcsHoldShutdown == main = "wait_grpc" /\ Busy("grpc")
ShutdownCompletes == <>[]~RpcsHoldShutdown => (stop ~> Exited)

-----------------------------------------------------------------------------
\* What the process promises its clients (module GracefulService): "late" is a used-up
\* budget, and a request is shut out when its listener cannot accept any more.
Before == StartPcs \cup {"serve"}
ContractMode ==
  CASE exit = "clean"                       -> "done"
    [] exit \notin {"none", "clean"}        -> "aborted"
    [] exit = "none" /\ main \in Before     -> "up"
    [] exit = "none" /\ main \notin Before  -> "closing"
ShutOutNow == {r \in Requests : lis[Target[r]] \in {"closed", "late"} \/ Target[r] \notin enabled}

Contract == INSTANCE GracefulService WITH
  Patient <- {r \in Requests : Target[r] = "grpc"},
  Bounded <- {r \in Requests : Plain(r)},
  mode    <- ContractMode,
  inside  <- open,
  lost    <- dropped,
  shut    <- ShutOutNow,
  late    <- main \notin Before /\ budget = 0
KeepsContract == Contract!Spec

\* shutdown.go:40 says of the flags it lowers: "all calls to /healthz and /readyz
\* will fail from now on".  The probes answer 200 exactly when their flag is 1.
ProbesFailFromNowOn ==
  main \in {"pause"} \cup ClosePcs => healthy = 0 /\ ready = 0

\* shutdown.go:67 logs the timeout for the gRPC server, and main.go:36 calls it the
\* "server graceful shutdown timeout duration": once it is used up, main is not blocked.
TimeoutBoundsShutdown ==
  Running /\ main \in ClosePcs /\ budget = 0 => MainReady

=============================================================================
