------------------------------ MODULE HttpReply ------------------------------
(***************************************************************************)
(* What a client is answered and what the metrics say of it: the           *)
(* middlewares of registerMiddlewares, the small handlers, the response    *)
(* writer the handlers get, and net/http below it.                         *)
(*                                                                         *)
(* A handler is the set of scripts it can run, a script being the          *)
(* operations on the response writer in their order; a middleware turns    *)
(* the scripts of the next handler into its own.                           *)
(***************************************************************************)
EXTENDS Integers, Sequences, FiniteSets

CONSTANTS
  Requests,       \* the requests served at the same time
  Waits,          \* waits asked of /delay and /chunked, in units of 1000 s
  ServerTimeouts, \* values of --http-server-timeout, in seconds
  DelayBounds     \* values of --random-delay-min and -max, in seconds

\* main refuses to start when the maximum is below the minimum.
DelayAccepted(bounds) == bounds[1] <= bounds[2]

ASSUME ReplyAssumption ==
  /\ IsFiniteSet(Requests)
  /\ Waits \subseteq Nat
  /\ ServerTimeouts \subseteq 1..999
  /\ DelayBounds \subseteq Nat \X Nat /\ \A bounds \in DelayBounds : DelayAccepted(bounds)

Unparsable == -1   \* a path parameter that is missing or too large for an int
Codes == {Unparsable, 0, 100, 101, 404, 999, 1000}

-----------------------------------------------------------------------------
(* Numbers.  Both the nanoseconds of 1000 s and the nanoseconds of a       *)
(* second taken as seconds come in units of 10^12; 2^64 is 18446744 of     *)
(* them.                                                                   *)
Word == 18446744
Int64(n) == LET m == n % Word IN IF 2 * m < Word THEN m ELSE m - Word

\* rand.Intn panics for a bound that is not positive.
Intn(n) == IF n > 0 THEN 0..(n - 1) ELSE {}

-----------------------------------------------------------------------------
(* Operations of a script.                                                 *)
Do(op)         == [op |-> op, arg |-> 0]
WriteHeader(c) == [op |-> "header", arg |-> c]
Write          == Do("write")
Flush          == Do("flush")
Panic          == Do("panic")
\* A sleep either ends before the server's write timeout or it does not.
Sleep(long)    == Do(IF long THEN "sleep past timeout" ELSE "sleep")

\* Marshalling cannot fail for the strings and numbers it is given.
JSONResponse        == <<WriteHeader(200), Write>>
JSONResponseCode(c) == <<WriteHeader(c), Write>>
\* The code goes into the body; the status is 200.
ErrorResponse(code) == <<WriteHeader(200), Write>>

-----------------------------------------------------------------------------
(* Handlers.                                                               *)
versionHandler     == {JSONResponse}
envHandler         == {JSONResponse}
echoHeadersHandler == {JSONResponse}
infoHandler        == {JSONResponse}
swaggerJson        == {<<Write>>}
panicHandler       == {<<Do("exit")>>}

\* The template may be missing, and its execution may fail before or after
\* it has written something.
indexHandler ==
  {<<WriteHeader(500), Write>>, <<Write>>, <<Write, WriteHeader(500), Write>>}

\* Mutant: the error of the conversion is ignored.
statusHandler_ignores_error(code) == {JSONResponseCode(IF code = Unparsable THEN 1000 ELSE code)}

statusHandler(code) ==
  {IF code = Unparsable THEN ErrorResponse(400) ELSE JSONResponseCode(code)}

\* A negative duration does not sleep; a unit is longer than any timeout.
delayHandler(wait) ==
  {IF wait = Unparsable THEN ErrorResponse(400) ELSE <<Sleep(Int64(wait) > 0)>> \o JSONResponse}

\* int(HttpServerTimeout*time.Second)-10: the 10 is far below a unit.
ChunkedBound(timeout) == Int64(timeout * 1000000)

\* Drawn below such a bound and multiplied again, a pause can be any int64.
chunkedHandler(wait, timeout, writer) ==
  LET reply(long) == IF "Flusher" \in writer
                       THEN <<Flush, Sleep(long)>> \o JSONResponse \o <<Flush>>
                       ELSE ErrorResponse(500)
  IN  IF wait # Unparsable               THEN {reply(Int64(wait) > 0)}
      ELSE IF ChunkedBound(timeout) > 0 THEN {reply(TRUE), reply(FALSE)}
      ELSE {<<Panic>>}

\* gorilla/websocket answers 400 or 500, or takes the connection over.
upgrade(writer) ==
  {<<WriteHeader(400), Write>>,
   IF "Hijacker" \in writer THEN <<Do("hijack")>> ELSE <<WriteHeader(500), Write>>}

-----------------------------------------------------------------------------
(* The optional interfaces of a response writer, and the combinations for  *)
(* which the interceptor has a wrapper with just these.                    *)
Optional == {"CloseNotifier", "Flusher", "Hijacker", "Pusher", "ReaderFrom"}

OneOrNone == {{}, {"CloseNotifier"}, {"Flusher"}, {"Hijacker"}, {"Pusher"}, {"ReaderFrom"}}
Pairs ==
  {{"CloseNotifier", "Flusher"}, {"CloseNotifier", "Hijacker"}, {"CloseNotifier", "Pusher"},
   {"CloseNotifier", "ReaderFrom"}, {"Flusher", "Hijacker"}, {"Flusher", "Pusher"},
   {"Flusher", "ReaderFrom"}, {"Hijacker", "Pusher"}, {"Hijacker", "ReaderFrom"}, {"Pusher", "ReaderFrom"}}
\* Written by the two interfaces a wrapper of three lacks.
Triples == {Optional \ pair :
  pair \in {{"Pusher", "ReaderFrom"}, {"Hijacker", "ReaderFrom"}, {"Hijacker", "Pusher"},
           {"Flusher", "ReaderFrom"}, {"Flusher", "Pusher"}, {"Flusher", "Hijacker"},
           {"CloseNotifier", "ReaderFrom"}, {"CloseNotifier", "Pusher"}, {"CloseNotifier", "Hijacker"},
           {"CloseNotifier", "Flusher"}}}
\* Written by the one interface a wrapper of four lacks.
FourOrAll == {Optional \ {i} : i \in {"ReaderFrom", "Pusher", "Hijacker", "Flusher", "CloseNotifier"}} \cup {Optional}

wrappedResponseWriter(writer) ==
  IF writer \in UNION {OneOrNone, Pairs, Triples, FourOrAll} THEN writer ELSE {}

\* What net/http offers on a connection of HTTP/1 and of HTTP/2.
Http1 == {"CloseNotifier", "Flusher", "Hijacker", "ReaderFrom"}
Http2 == {"CloseNotifier", "Flusher", "Pusher"}

-----------------------------------------------------------------------------
(* Middlewares.                                                            *)
Before(ops, next) == {ops \o script : script \in next}

\* Mutant: a request is observed twice.
PrometheusMiddleware_counts_twice(next) ==
  {<<Do("intercept")>> \o script \o <<Do("observe"), Do("observe")>> : script \in next}

PrometheusMiddleware(next) == {<<Do("intercept")>> \o script \o <<Do("observe")>> : script \in next}
\* These two log, and set headers of the request: no reply here depends on it.
LoggingMiddleware(next)    == next
versionMiddleware(next)    == next

RandomDelayMiddleware(bounds, timeout, next) ==
  LET delays == {bounds[1] + n : n \in Intn(bounds[2] - bounds[1])}
  IN  IF delays = {} THEN {<<Panic>>}
      ELSE UNION {Before(<<Sleep(delay >= timeout)>>, next) : delay \in delays}

randomErrorMiddleware(next) == next \cup {<<WriteHeader(code)>> : code \in {500, 400, 409}}

\* Mutant: the metrics are added last and measure only the handler.
registerMiddlewares_error_first(c, handler) ==
  LET measured == PrometheusMiddleware(LoggingMiddleware(versionMiddleware(handler)))
      failing  == IF c.error THEN randomErrorMiddleware(measured) ELSE measured
  IN  IF c.delay = <<>> THEN failing ELSE RandomDelayMiddleware(c.delay, c.timeout, failing)

\* The first one added is the outermost; delay and error are options.
registerMiddlewares(config, handler) ==
  LET failing == IF config.error THEN randomErrorMiddleware(handler) ELSE handler
      delayed == IF config.delay = <<>> THEN failing
                   ELSE RandomDelayMiddleware(config.delay, config.timeout, failing)
  IN  PrometheusMiddleware(LoggingMiddleware(versionMiddleware(delayed)))

-----------------------------------------------------------------------------
VARIABLES
  config,   \* the options of the process
  up,       \* the process lives
  req,      \* the requests: what is left of their script, and what their client and
            \* the interceptor have seen
  counted   \* http_requests_total by status

vars == <<config, up, req, counted>>

Plain  == {"version", "env", "headers", "info", "swagger.json", "index", "ws/echo", "panic", "unrouted"}
Calls  == [route : Plain, arg : {0}] \cup [route : {"status"}, arg : Codes]
            \cup [route : {"delay", "chunked"}, arg : Waits \cup {Unparsable}]
NoCall == [route |-> "none", arg |-> 0]

Statuses == {0, 101, 200, 400, 404, 409, 500, 999}
States   == {"idle", "running", "done", "panicked"}

Fresh == [call |-> NoCall, state |-> "idle", todo |-> <<>>, committed |-> 0, client |-> 0,
          late |-> FALSE, status |-> 200, recorded |-> FALSE]

\* The operations without an argument, and all that a script can hold.
Bare == {"write", "flush", "panic", "exit", "hijack", "intercept", "observe", "sleep", "sleep past timeout"}
Operations == [op : {"header"}, arg : Codes \cup Statuses] \cup [op : Bare, arg : {0}]
Exchange   == [call : Calls \cup {NoCall}, state : States, todo : Seq(Operations), committed : Statuses,
               client : Statuses, late : BOOLEAN, status : Codes \cup Statuses, recorded : BOOLEAN]

TypeOK ==
  /\ up \in BOOLEAN
  /\ req \in [Requests -> Exchange]
  /\ counted \in [Codes \cup Statuses -> 0..Cardinality(Requests)]

Init ==
  /\ config \in [delay : DelayBounds \cup {<<>>}, error : BOOLEAN, timeout : ServerTimeouts]
  /\ up = TRUE
  /\ req = [r \in Requests |-> Fresh]
  /\ counted = [c \in Codes \cup Statuses |-> 0]

Handler(call, writer) ==
  CASE call.route = "status"       -> statusHandler(call.arg)
    [] call.route = "delay"        -> delayHandler(call.arg)
    [] call.route = "chunked"      -> chunkedHandler(call.arg, config.timeout, writer)
    [] call.route = "ws/echo"      -> upgrade(writer)
    [] call.route = "index"        -> indexHandler
    [] call.route = "panic"        -> panicHandler
    [] call.route = "version"      -> versionHandler
    [] call.route = "env"          -> envHandler
    [] call.route = "headers"      -> echoHeadersHandler
    [] call.route = "info"         -> infoHandler
    [] call.route = "swagger.json" -> swaggerJson

\* What the router does not match is answered without any middleware.
Serve(call, writer) ==
  IF call.route = "unrouted" THEN {<<WriteHeader(404), Write>>}
  ELSE registerMiddlewares(config, Handler(call, wrappedResponseWriter(writer)))

Arrive(r) ==
  /\ up /\ req[r].state = "idle"
  /\ \E call \in Calls, writer \in {Http1, Http2} : \E script \in Serve(call, writer) :
       req' = [req EXCEPT ![r].call = call, ![r].todo = script, ![r].state = "running"]
  /\ UNCHANGED <<config, up, counted>>

\* net/http keeps the first final status; a body or a flush makes it 200.
Commit(q, code) == IF q.committed = 0 THEN [q EXCEPT !.committed = code] ELSE q
Deliver(q)      == IF q.late \/ q.client # 0 THEN q ELSE [q EXCEPT !.client = q.committed]

Informational(code) == code \in 100..199 /\ code # 101
Sendable(code)      == code \in 100..999

\* Mutant: the code is not kept.
InterceptHeader_forgets(q, code) == [q EXCEPT !.recorded = TRUE]

\* The interceptor keeps the first status it sees, and passes it on.
InterceptHeader(q, code) ==
  IF q.recorded THEN q ELSE [q EXCEPT !.status = code, !.recorded = TRUE]

Effect(q, op) ==
  CASE op.op = "header" -> LET seen == InterceptHeader(q, op.arg)
                           IN  IF ~Sendable(op.arg) THEN [seen EXCEPT !.state = "panicked"]
                               ELSE IF Informational(op.arg) THEN seen ELSE Commit(seen, op.arg)
    [] op.op = "write"     -> Commit(q, 200)
    [] op.op = "flush"     -> Deliver(Commit(q, 200))
    [] op.op = "hijack"    -> [q EXCEPT !.committed = 101, !.client = 101]
    [] op.op = "panic"     -> [q EXCEPT !.state = "panicked"]
    [] op.op = "sleep past timeout" -> [q EXCEPT !.late = TRUE]
    [] OTHER               -> q

Step(r) ==
  /\ up /\ req[r].state = "running" /\ req[r].todo # <<>>
  /\ LET op == Head(req[r].todo)
     IN  /\ req' = [req EXCEPT ![r] = [Effect(req[r], op) EXCEPT !.todo = Tail(@)]]
         /\ up' = (op.op # "exit")
         /\ counted' = IF op.op = "observe" THEN [counted EXCEPT ![req[r].status] = @ + 1] ELSE counted
  /\ UNCHANGED config

\* net/http completes the reply when the handlers have returned.
Finish(r) ==
  /\ up /\ req[r].state = "running" /\ req[r].todo = <<>>
  /\ req' = [req EXCEPT ![r] = [Deliver(Commit(req[r], 200)) EXCEPT !.state = "done"]]
  /\ UNCHANGED <<config, up, counted>>

Next == \E r \in Requests : Arrive(r) \/ Step(r) \/ Finish(r)
Spec == Init /\ [][Next]_vars

-----------------------------------------------------------------------------
Done(r)   == req[r].state = "done"
Routed(r) == req[r].call.route \notin {"none", "unrouted"}

(* The status in the metrics is the one the client got, except for a       *)
(* websocket (counted as 200), a reply that came too late for the client,  *)
(* an informational status (the final one is not seen by WriteHeader), and *)
(* a page that failed after its first byte.  In particular no failure that *)
(* a client got is counted as a success.                                   *)
MetricTellsTheTruth ==
  \A r \in Requests : (Done(r) /\ Routed(r) /\ req[r].status # req[r].client) =>
    \/ req[r].client = 101 /\ req[r].call.route = "ws/echo"
    \/ req[r].late /\ req[r].client \in {0, 200}
    \/ Informational(req[r].status)
    \/ req[r].call.route = "index" /\ req[r].client = 200

(* Requests that ended well are counted once each, also those a middleware *)
(* answered in place of the handler; a request that panicked is not        *)
(* counted, whatever middleware or handler it panicked in.                 *)
CountedOnce ==
  LET Measured(r) == Routed(r) /\ req[r].state \in {"running", "done"} /\ req[r].todo = <<>>
  IN  \A c \in DOMAIN counted :
        counted[c] = Cardinality({r \in Requests : Measured(r) /\ req[r].status = c})

(* The only requests that panic are /status with a code HTTP cannot send,  *)
(* and /chunked without a wait where the server timeout overflows: neither *)
(* an unparsable parameter nor an option that passed the start-up check    *)
(* ends in a panic, as long as the delay bounds differ.                    *)
OnlyKnownPanics ==
  \A r \in Requests : req[r].state = "panicked" =>
    \/ req[r].call.route = "status" /\ req[r].call.arg \in {0, 1000}
    \/ req[r].call.route = "chunked" /\ req[r].call.arg = Unparsable
    \/ config.delay # <<>> /\ config.delay[1] = config.delay[2]

(* A chunked request gets a partial response before its wait, so its       *)
(* client has a status when the handler ends, in whatever way.             *)
ChunkedStartsAtOnce ==
  \A r \in Requests : (req[r].call.route = "chunked" /\ req[r].state \in {"done", "panicked"})
    => req[r].client = 200
=============================================================================
