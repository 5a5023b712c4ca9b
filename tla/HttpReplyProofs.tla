--------------------------- MODULE HttpReplyProofs ---------------------------
(***************************************************************************)
(* What is proved of replies and of their metrics, for any set of          *)
(* requests, waits, delay bounds and server timeouts: how a request ends,  *)
(* that it is counted once, and under which status.                        *)
(*                                                                         *)
(* The proof is about scripts.  Those of the handlers, and what the        *)
(* middlewares make of them, have the shape that ExchangeInv asks of what  *)
(* is left of a script; an operation takes the first of it away.           *)
(***************************************************************************)
EXTENDS HttpReply, FiniteSetTheorems, SequenceTheorems, TLAPS

KnownPanic(call) ==
  \/ call.route = "status" /\ call.arg \in {0, 1000}
  \/ call.route = "chunked" /\ call.arg = Unparsable
  \/ config.delay # <<>> /\ config.delay[1] = config.delay[2]

IsMeasured(call) == call.route \notin {"none", "unrouted"}

\* An operation of a script that can serve the call.
Possible(op, call) ==
  /\ op.op = "panic" \/ (op.op = "header" /\ ~Sendable(op.arg)) => KnownPanic(call)
  /\ op.op = "hijack" => call.route = "ws/echo"

\* The page may fail after its first byte; any other status that follows a
\* body or a flush is 200.
HeaderFirst(s, call) ==
  \A i, j \in 1..Len(s) : (i < j /\ s[i].op \in {"write", "flush"} /\ s[j].op = "header") =>
    s[j].arg = 200 \/ call.route = "index"

\* A connection that is taken over gets no status from the handler.
HijackOnly(s) == \A i, j \in 1..Len(s) : s[i].op = "hijack" => s[j].op # "header"

Shaped(s, call) ==
  /\ s \in Seq(Operations)
  /\ \A i \in 1..Len(s) : Possible(s[i], call)
  /\ HeaderFirst(s, call) /\ HijackOnly(s)

\* The request is observed at the very end if a route took it.
ObservedLast(s, call) ==
  \A i \in 1..Len(s) : s[i].op = "observe" <=> i = Len(s) /\ IsMeasured(call)

\* The script of a handler, or of one with middlewares inside the metrics'.
Body(s, call) == Shaped(s, call) /\ \A i \in 1..Len(s) : s[i].op # "observe"

-----------------------------------------------------------------------------
(* Scripts.                                                                *)

\* Scripts of up to three operations: their length and elements.
LEMMA Scripts ==
  ASSUME NEW a \in Operations, NEW b \in Operations, NEW c \in Operations
  PROVE  /\ <<a>> \in Seq(Operations) /\ Len(<<a>>) = 1 /\ <<a>>[1] = a
         /\ <<a, b>> \in Seq(Operations) /\ Len(<<a, b>>) = 2 /\ <<a, b>>[1] = a /\ <<a, b>>[2] = b
         /\ /\ <<a, b, c>> \in Seq(Operations) /\ Len(<<a, b, c>>) = 3
            /\ <<a, b, c>>[1] = a /\ <<a, b, c>>[2] = b /\ <<a, b, c>>[3] = c
  OBVIOUS

\* The operations that neither answer nor measure.
Neutral == {"intercept", "sleep", "sleep past timeout"}

\* A body stays one behind a sleep.
LEMMA Prefixed ==
  ASSUME NEW call, NEW a \in Operations, a.op \in Neutral, NEW s, Body(s, call)
  PROVE  Body(<<a>> \o s, call)
<1> DEFINE t == <<a>> \o s
<1>1. <<a>> \in Seq(Operations) /\ Len(<<a>>) = 1 /\ <<a>>[1] = a
  BY Scripts
<1>2. s \in Seq(Operations) /\ Len(s) \in Nat
  BY LenProperties DEF Body, Shaped
<1>3. /\ t \in Seq(Operations) /\ Len(t) = Len(s) + 1
      /\ \A i \in 1..Len(t) : t[i] = IF i <= 1 THEN <<a>>[i] ELSE s[i - 1]
  BY <1>1, <1>2, ConcatProperties
<1> HIDE DEF t
<1>4. ASSUME NEW i \in 1..Len(t) PROVE IF i = 1 THEN t[i] = a ELSE i - 1 \in 1..Len(s) /\ t[i] = s[i - 1]
  BY <1>1, <1>2, <1>3
<1>5. \A i \in 1..Len(t) : Possible(t[i], call) /\ t[i].op # "observe"
  BY <1>4 DEF Body, Shaped, Possible, Neutral
<1>6. HeaderFirst(t, call)
  <2> SUFFICES ASSUME NEW i \in 1..Len(t), NEW j \in 1..Len(t), i < j,
                      t[i].op \in {"write", "flush"}, t[j].op = "header"
               PROVE  t[j].arg = 200 \/ call.route = "index"
    BY DEF HeaderFirst
  <2>1. i # 1 /\ j # 1
    BY <1>2, <1>3, <1>4 DEF Neutral
  <2> QED
    BY <1>2, <1>3, <1>4, <2>1, SMTT(30) DEF Body, Shaped, HeaderFirst
<1>7. HijackOnly(t)
  <2> SUFFICES ASSUME NEW i \in 1..Len(t), NEW j \in 1..Len(t), t[i].op = "hijack", t[j].op = "header"
               PROVE  FALSE
    BY DEF HijackOnly
  <2>1. i # 1 /\ j # 1
    BY <1>4 DEF Neutral
  <2> QED
    BY <1>4, <2>1, ZenonT(60) DEF Body, Shaped, HijackOnly
<1> QED
  BY <1>3, <1>5, <1>6, <1>7 DEF Body, Shaped, t

\* Measured is what the metrics make of a body: observed at its end, and not empty.
LEMMA Measures ==
  ASSUME NEW call, IsMeasured(call), NEW s, Body(s, call)
  PROVE  LET t == <<Do("intercept")>> \o s \o <<Do("observe")>>
         IN  Shaped(t, call) /\ ObservedLast(t, call) /\ t # <<>>
<1> DEFINE u == <<Do("intercept")>> \o s
           b == Do("observe")
           t == u \o <<b>>
<1>0. Do("intercept") \in Operations /\ Do("intercept").op \in Neutral /\ b \in Operations /\ b.op = "observe"
  BY DEF Do, Operations, Bare, Neutral
<1>1. Body(u, call)
  BY <1>0, Prefixed
<1>2. u \in Seq(Operations) /\ Len(u) \in Nat
  BY <1>1, LenProperties DEF Body, Shaped
<1> HIDE DEF u, b
<1>3. <<b>> \in Seq(Operations) /\ Len(<<b>>) = 1 /\ <<b>>[1] = b
  BY <1>0, Scripts
<1>4. /\ t \in Seq(Operations) /\ Len(t) = Len(u) + 1
      /\ \A i \in 1..Len(t) : t[i] = IF i <= Len(u) THEN u[i] ELSE <<b>>[i - Len(u)]
  BY <1>2, <1>3, ConcatProperties
<1> HIDE DEF t
<1>5. ASSUME NEW i \in 1..Len(t)
      PROVE  IF i = Len(t) THEN t[i] = b ELSE i \in 1..Len(u) /\ t[i] = u[i]
  BY <1>2, <1>3, <1>4
<1>6. \A i \in 1..Len(t) : Possible(t[i], call) /\ (t[i].op = "observe" <=> i = Len(t))
  BY <1>0, <1>1, <1>5 DEF Body, Shaped, Possible
<1>7. HeaderFirst(t, call)
  <2> SUFFICES ASSUME NEW i \in 1..Len(t), NEW j \in 1..Len(t), i < j,
                      t[i].op \in {"write", "flush"}, t[j].op = "header"
               PROVE  t[j].arg = 200 \/ call.route = "index"
    BY DEF HeaderFirst
  <2>1. i # Len(t) /\ j # Len(t)
    BY <1>0, <1>5
  <2>2. i \in 1..Len(u) /\ t[i] = u[i] /\ j \in 1..Len(u) /\ t[j] = u[j]
    BY <1>5, <2>1
  <2> QED
    BY <1>1, <2>2 DEF Body, Shaped, HeaderFirst
<1>8. HijackOnly(t)
  <2> SUFFICES ASSUME NEW i \in 1..Len(t), NEW j \in 1..Len(t), t[i].op = "hijack", t[j].op = "header"
               PROVE  FALSE
    BY DEF HijackOnly
  <2>1. i # Len(t) /\ j # Len(t)
    BY <1>0, <1>5
  <2> QED
    BY <1>1, <1>5, <2>1 DEF Body, Shaped, HijackOnly
<1>9. t # <<>>
  BY <1>2, <1>4
<1> QED
  BY <1>4, <1>6, <1>7, <1>8, <1>9 DEF Shaped, ObservedLast, t, u, b

(***************************************************************************)
(* Handlers.                                                               *)
(***************************************************************************)
\* The operations handlers are made of.
LEMMA HandlerOperations ==
  /\ \A c \in Codes \cup Statuses : WriteHeader(c) \in Operations
  /\ Write \in Operations /\ Flush \in Operations /\ Panic \in Operations
  /\ Do("exit") \in Operations /\ Do("hijack") \in Operations
  /\ \A long \in BOOLEAN : Sleep(long) \in Operations /\ Sleep(long).op \in Neutral
  BY DEF WriteHeader, Write, Flush, Panic, Sleep, Do, Operations, Bare, Neutral

\* A script of one operation that answers nothing but a panic we know.
LEMMA Single ==
  ASSUME NEW call, NEW a \in Operations, Possible(a, call), a.op # "observe"
  PROVE  Body(<<a>>, call)
  BY Scripts DEF Body, Shaped, HeaderFirst, HijackOnly

\* A status with a body.
LEMMA StatusThenBody ==
  ASSUME NEW call, NEW c \in Codes \cup Statuses, Possible(WriteHeader(c), call)
  PROVE  Body(<<WriteHeader(c), Write>>, call)
<1>1. WriteHeader(c) \in Operations /\ WriteHeader(c).op = "header"
  BY HandlerOperations DEF WriteHeader
<1>2. Write \in Operations /\ Write.op = "write"
  BY HandlerOperations DEF Write, Do
<1> DEFINE s == <<WriteHeader(c), Write>>
<1>3. s \in Seq(Operations) /\ Len(s) = 2 /\ s[1] = WriteHeader(c) /\ s[2] = Write
  BY <1>1, <1>2, Scripts
<1> HIDE DEF s
<1>4. \A i \in 1..Len(s) : IF i = 1 THEN s[i] = WriteHeader(c) ELSE i = 2 /\ s[i] = Write
  BY <1>3
<1>5. HeaderFirst(s, call) /\ HijackOnly(s)
  BY <1>1, <1>2, <1>3, <1>4 DEF HeaderFirst, HijackOnly
<1>6. \A i \in 1..Len(s) : Possible(s[i], call) /\ s[i].op # "observe"
  BY <1>1, <1>2, <1>4 DEF Possible
<1> QED
  BY <1>3, <1>5, <1>6 DEF Body, Shaped, s

\* A success, and what ErrorResponse makes of an error.
LEMMA Success == \A call : Body(JSONResponse, call) /\ \A code : Body(ErrorResponse(code), call)
<1>1. 200 \in Codes \cup Statuses /\ \A call : Possible(WriteHeader(200), call)
  BY DEF Statuses, Possible, WriteHeader, Sendable
<1> QED
  BY <1>1, StatusThenBody DEF JSONResponse, ErrorResponse
\* A status that HTTP can send is no panic.
LEMMA SendableIsPossible ==
  \A call : \A c \in {101, 200, 400, 404, 409, 500} : c \in Codes \cup Statuses /\ Possible(WriteHeader(c), call)
  BY DEF Statuses, Possible, WriteHeader, Sendable

\* The page, whose template may fail in the middle.
LEMMA IndexScripts ==
  ASSUME NEW call, call.route = "index", NEW s \in indexHandler
  PROVE  Body(s, call)
<1>1. Body(<<WriteHeader(500), Write>>, call)
  BY SendableIsPossible, StatusThenBody
<1>2. Body(<<Write>>, call)
  BY HandlerOperations, Single DEF Possible, Write, Do
<1>3. Body(<<Write, WriteHeader(500), Write>>, call)
  <2> DEFINE t == <<Write, WriteHeader(500), Write>>
  <2>1. /\ Write \in Operations /\ Write.op = "write" /\ WriteHeader(500) \in Operations
        /\ WriteHeader(500).op = "header" /\ Possible(WriteHeader(500), call) /\ Possible(Write, call)
    BY HandlerOperations, SendableIsPossible DEF Write, Do, WriteHeader, Possible
  <2>2. t \in Seq(Operations) /\ Len(t) = 3 /\ t[1] = Write /\ t[2] = WriteHeader(500) /\ t[3] = Write
    BY <2>1, Scripts
  <2> HIDE DEF t
  <2>3. \A i \in 1..Len(t) : t[i] \in {Write, WriteHeader(500)}
    BY <2>2
  <2>4. HeaderFirst(t, call) /\ HijackOnly(t) /\ \A i \in 1..Len(t) : Possible(t[i], call) /\ t[i].op # "observe"
    BY <2>1, <2>3 DEF HeaderFirst, HijackOnly
  <2> QED
    BY <2>2, <2>4 DEF Body, Shaped, t
<1> QED
  BY <1>1, <1>2, <1>3 DEF indexHandler

\* /status: the codes that HTTP cannot send are the known panics.
LEMMA StatusScripts ==
  ASSUME NEW call, call.route = "status", call.arg \in Codes, NEW s \in statusHandler(call.arg)
  PROVE  Body(s, call)
<1>1. CASE call.arg = Unparsable
  BY <1>1, Success DEF statusHandler
<1>2. CASE call.arg # Unparsable
  <2>1. call.arg \in Codes \cup Statuses /\ Possible(WriteHeader(call.arg), call)
    BY <1>2 DEF Possible, WriteHeader, Sendable, KnownPanic, Codes, Unparsable
  <2>2. s = <<WriteHeader(call.arg), Write>>
    BY <1>2 DEF statusHandler, JSONResponseCode
  <2> QED
    BY <2>1, <2>2, StatusThenBody
<1> QED
  BY <1>1, <1>2

\* A body behind a sleep, however long.
LEMMA Slept ==
  ASSUME NEW call, NEW long \in BOOLEAN, NEW s, Body(s, call)
  PROVE  Body(<<Sleep(long)>> \o s, call)
  BY HandlerOperations, Prefixed

\* /delay answers after its sleep.
LEMMA DelayScripts ==
  ASSUME NEW call, NEW s \in delayHandler(call.arg)
  PROVE  Body(s, call)
<1>1. CASE call.arg = Unparsable
  BY <1>1, Success DEF delayHandler
<1>2. CASE call.arg # Unparsable
  <2>1. PICK long \in BOOLEAN : s = <<Sleep(long)>> \o JSONResponse
    BY <1>2 DEF delayHandler, Sleep
  <2> QED
    BY <2>1, Success, Slept
<1> QED
  BY <1>1, <1>2

\* A chunked reply: the flushes commit the status that the handler then sets.
LEMMA ChunkedReply ==
  ASSUME NEW call, NEW long \in BOOLEAN
  PROVE  Body(<<Flush, Sleep(long)>> \o JSONResponse \o <<Flush>>, call)
<1> DEFINE a == <<Flush, Sleep(long)>>
           b == JSONResponse
           c == <<Flush>>
           t == a \o b \o c
<1>1. /\ Flush \in Operations /\ Flush.op = "flush"
      /\ Sleep(long) \in Operations /\ Sleep(long).op \in Neutral
      /\ WriteHeader(200) \in Operations /\ WriteHeader(200).op = "header" /\ WriteHeader(200).arg = 200
      /\ Write \in Operations /\ Write.op = "write"
      /\ 200 \in Statuses
  BY HandlerOperations DEF Flush, Do, WriteHeader, Write, Statuses
<1>2. /\ a \in Seq(Operations) /\ Len(a) = 2 /\ a[1] = Flush /\ a[2] = Sleep(long)
      /\ b \in Seq(Operations) /\ Len(b) = 2 /\ b[1] = WriteHeader(200) /\ b[2] = Write
      /\ c \in Seq(Operations) /\ Len(c) = 1 /\ c[1] = Flush
  BY <1>1, Scripts DEF JSONResponse
<1> HIDE DEF a, b, c
<1>3. /\ a \o b \in Seq(Operations) /\ Len(a \o b) = Len(a) + Len(b)
      /\ \A i \in 1..(Len(a) + Len(b)) : (a \o b)[i] = IF i <= Len(a) THEN a[i] ELSE b[i - Len(a)]
  BY <1>2, ConcatProperties, ZenonT(60)
<1>4. /\ t \in Seq(Operations) /\ Len(t) = 5
      /\ \A i \in 1..5 : t[i] = IF i <= 4 THEN (a \o b)[i] ELSE c[i - 4]
  <2>1. Len(a \o b) = 4
    BY <1>2, <1>3
  <2> QED
    BY <1>2, <1>3, <2>1, ConcatProperties
<1> HIDE DEF t
<1>5. \A i \in 1..Len(t) : t[i] \in {Flush, Sleep(long), WriteHeader(200), Write}
  BY <1>2, <1>3, <1>4
<1>6. /\ \A i \in 1..Len(t) : /\ Possible(t[i], call) /\ t[i].op # "observe"
                              /\ t[i].op # "hijack" /\ (t[i].op = "header" => t[i].arg = 200)
  <2>1. \A o \in {Flush, Sleep(long), WriteHeader(200), Write} :
          /\ Possible(o, call) /\ o.op # "observe" /\ o.op # "hijack"
          /\ o.op = "header" => o.arg = 200
    <3>1. Possible(WriteHeader(200), call)
      BY SendableIsPossible
    <3>2. Possible(Flush, call) /\ Possible(Sleep(long), call) /\ Possible(Write, call)
      BY <1>1 DEF Possible, Neutral
    <3> QED
      BY <1>1, <3>1, <3>2, ZenonT(60) DEF Neutral
  <2> QED
    BY <1>5, <2>1
<1>7. HeaderFirst(t, call) /\ HijackOnly(t)
  BY <1>6 DEF HeaderFirst, HijackOnly
<1> QED
  BY <1>4, <1>6, <1>7 DEF Body, Shaped, t, a, b, c

\* /chunked without a wait may panic in its random number.
LEMMA ChunkedScripts ==
  ASSUME NEW call, call.route = "chunked", NEW timeout, NEW w, NEW s \in chunkedHandler(call.arg, timeout, w)
  PROVE  Body(s, call)
<1> DEFINE reply(long) == IF "Flusher" \in w THEN <<Flush, Sleep(long)>> \o JSONResponse \o <<Flush>>
                                             ELSE ErrorResponse(500)
<1>1. ASSUME NEW long \in BOOLEAN PROVE Body(reply(long), call)
  BY ChunkedReply, Success, ZenonT(60)
<1>2. CASE call.arg # Unparsable
  <2>1. s = reply(TRUE) \/ s = reply(FALSE)
    BY <1>2 DEF chunkedHandler, Sleep
  <2> QED
    BY <1>1, <2>1, ZenonT(60)
<1>3. CASE call.arg = Unparsable
  <2>1. CASE s = reply(TRUE) \/ s = reply(FALSE)
    BY <1>1, <2>1, ZenonT(60)
  <2>2. CASE s = <<Panic>>
    BY <1>3, <2>2, HandlerOperations, Single DEF Possible, KnownPanic, Panic, Do
  <2> QED
    BY <1>3, <2>1, <2>2 DEF chunkedHandler
<1> QED
  BY <1>2, <1>3

\* A websocket that is refused, or taken over.
LEMMA UpgradeScripts ==
  ASSUME NEW call, call.route = "ws/echo", NEW w, NEW s \in upgrade(w)
  PROVE  Body(s, call)
<1>1. \A c \in {400, 500} : Body(<<WriteHeader(c), Write>>, call)
  BY SendableIsPossible, StatusThenBody
<1>2. Body(<<Do("hijack")>>, call)
  BY HandlerOperations, Single DEF Possible, Do
<1> QED
  BY <1>1, <1>2 DEF upgrade

\* Every handler runs a script of the shape.
LEMMA HandlerScripts ==
  ASSUME NEW call \in Calls, call.route # "unrouted", NEW w, NEW s \in Handler(call, w)
  PROVE  Body(s, call)
<1>1. /\ call.route \in Plain \cup {"status", "delay", "chunked"}
      /\ call.route = "status" => call.arg \in Codes
  BY DEF Calls, Plain
<1>2. CASE call.route = "status"
  BY <1>1, <1>2, StatusScripts DEF Handler
<1>3. CASE call.route = "delay"
  BY <1>3, DelayScripts DEF Handler
<1>4. CASE call.route = "chunked"
  BY <1>4, ChunkedScripts DEF Handler
<1>5. CASE call.route = "ws/echo"
  BY <1>5, UpgradeScripts DEF Handler
<1>6. CASE call.route = "index"
  BY <1>6, IndexScripts DEF Handler
<1>7. CASE call.route = "panic"
  <2>1. s = <<Do("exit")>>
    BY <1>7 DEF Handler, panicHandler
  <2> QED
    BY <2>1, HandlerOperations, Single DEF Possible, Do
<1>8. CASE call.route \in {"version", "env", "headers", "info"}
  <2>1. s = JSONResponse
    BY <1>8 DEF Handler, versionHandler, envHandler, echoHeadersHandler, infoHandler
  <2> QED
    BY <2>1, Success
<1>9. CASE call.route = "swagger.json"
  <2>1. s = <<Write>>
    BY <1>9 DEF Handler, swaggerJson
  <2> QED
    BY <2>1, HandlerOperations, Single DEF Possible, Write, Do
<1> QED
  BY <1>1, <1>2, <1>3, <1>4, <1>5, <1>6, <1>7, <1>8, <1>9 DEF Plain
(***************************************************************************)
(* Middlewares.                                                            *)
(***************************************************************************)
Configured == config \in [delay : DelayBounds \cup {<<>>}, error : BOOLEAN, timeout : ServerTimeouts]

\* Random errors end a request with a status of their own.
LEMMA ErrorScripts ==
  ASSUME NEW call, NEW next, \A s \in next : Body(s, call), NEW s \in randomErrorMiddleware(next)
  PROVE  Body(s, call)
<1>1. \A c \in {500, 400, 409} : Body(<<WriteHeader(c)>>, call)
  <2> SUFFICES ASSUME NEW c \in {500, 400, 409} PROVE Body(<<WriteHeader(c)>>, call)
    OBVIOUS
  <2>1. WriteHeader(c) \in Operations /\ Possible(WriteHeader(c), call)
    BY SendableIsPossible, HandlerOperations
  <2>2. WriteHeader(c).op # "observe"
    BY DEF WriteHeader
  <2> QED
    BY <2>1, <2>2, Single
<1> QED
  BY <1>1 DEF randomErrorMiddleware

\* Random delays come before the handler; equal bounds panic in the random number.
LEMMA DelayedScripts ==
  ASSUME NEW call, NEW next, \A s \in next : Body(s, call), Configured, config.delay # <<>>,
         NEW s \in RandomDelayMiddleware(config.delay, config.timeout, next)
  PROVE  Body(s, call)
<1> DEFINE low == config.delay[1]
           high == config.delay[2]
           delays == {low + n : n \in Intn(high - low)}
<1>1. low \in Nat /\ high \in Nat /\ low <= high
  BY ReplyAssumption DEF Configured, DelayAccepted
<1>2. CASE delays = {}
  <2>1. s = <<Panic>>
    BY <1>2 DEF RandomDelayMiddleware
  <2>2. low = high
    <3>1. SUFFICES ASSUME low < high PROVE FALSE
      BY <1>1
    <3>2. 0 \in Intn(high - low)
      BY <1>1, <3>1 DEF Intn
    <3> QED
      BY <1>2, <3>2
  <2> QED
    BY <2>1, <2>2, HandlerOperations, Single DEF Possible, KnownPanic, Panic, Do
<1>3. CASE delays # {}
  <2>1. PICK delay \in delays : s \in Before(<<Sleep(delay >= config.timeout)>>, next)
    BY <1>3 DEF RandomDelayMiddleware
  <2>2. PICK long \in BOOLEAN : s \in Before(<<Sleep(long)>>, next)
    BY <2>1 DEF Sleep
  <2> QED
    BY <2>2, Slept DEF Before
<1> QED
  BY <1>2, <1>3

\* What the router and the middlewares make of a call.
LEMMA ServeScripts ==
  ASSUME Configured, NEW call \in Calls, NEW w, NEW s \in Serve(call, w)
  PROVE  Shaped(s, call) /\ ObservedLast(s, call) /\ (IsMeasured(call) => s # <<>>)
<1>1. CASE call.route = "unrouted"
  <2>1. s = <<WriteHeader(404), Write>>
    BY <1>1 DEF Serve
  <2>2. Body(s, call)
    BY <2>1, SendableIsPossible, StatusThenBody
  <2> QED
    BY <1>1, <2>2 DEF Body, ObservedLast, IsMeasured
<1>2. CASE call.route # "unrouted"
  <2> DEFINE handler == Handler(call, wrappedResponseWriter(w))
             failing == IF config.error THEN randomErrorMiddleware(handler) ELSE handler
             delayed == IF config.delay = <<>> THEN failing
                        ELSE RandomDelayMiddleware(config.delay, config.timeout, failing)
  <2>1. \A t \in handler : Body(t, call)
    BY <1>2, HandlerScripts
  <2>2. s \in PrometheusMiddleware(delayed)
    BY <1>2 DEF Serve, registerMiddlewares, LoggingMiddleware, versionMiddleware
  <2> HIDE DEF handler
  <2>3. \A t \in failing : Body(t, call)
    BY <2>1, ErrorScripts
  <2> HIDE DEF failing
  <2>4. \A t \in delayed : Body(t, call)
    BY <2>3, DelayedScripts
  <2> HIDE DEF delayed
  <2>5. IsMeasured(call)
    BY <1>2 DEF IsMeasured, Calls, Plain
  <2>6. PICK t \in delayed : s = <<Do("intercept")>> \o t \o <<Do("observe")>>
    BY <2>2 DEF PrometheusMiddleware
  <2> QED
    BY <2>4, <2>5, <2>6, Measures
<1> QED
  BY <1>1, <1>2
-----------------------------------------------------------------------------
(***************************************************************************)
(* The exchange of one request.                                            *)
(***************************************************************************)
\* What the rest of a script can still tell the interceptor: a connection is
\* taken over before any status, and a status set after the first is the same,
\* but for the page's.
Settled(q) ==
  \A i \in 1..Len(q.todo) :
    /\ q.todo[i].op = "hijack" => ~q.recorded
    /\ (q.todo[i].op = "header" /\ ~q.recorded /\ q.committed # 0) =>
         q.todo[i].arg = q.committed \/ (q.call.route = "index" /\ q.committed = 200)

\* How the status of the interceptor relates to the one on the connection.
Agrees(q) ==
  IF q.recorded
    THEN \/ Informational(q.status)
         \/ q.committed = q.status /\ q.status # 0
         \/ q.committed = 200 /\ q.call.route = "index"
    ELSE /\ q.status = 200
         /\ q.committed \in {0, 200} \/ (q.committed = 101 /\ q.call.route = "ws/echo")

Answered(q) == q.client \in {0, q.committed}

Idling(q)   == q.state = "idle" => q = Fresh
Called(q)   == q.state # "idle" => q.call \in Calls
Running(q)  == q.state = "running" => Shaped(q.todo, q.call) /\ ObservedLast(q.todo, q.call) /\ Settled(q)
Ended(q)    == q.state = "done" => q.todo = <<>> /\ q.committed # 0 /\ (q.late \/ q.client = q.committed)
Panicked(q) == q.state = "panicked" => KnownPanic(q.call)
Truthful(q) == q.state \in {"running", "done"} => Agrees(q) /\ Answered(q)

ExchangeInv(q) == Idling(q) /\ Called(q) /\ Running(q) /\ Ended(q) /\ Panicked(q) /\ Truthful(q)

\* The rest of a script has its shape, and is empty after the observation only.
LEMMA Rest ==
  ASSUME NEW s, NEW call, Shaped(s, call), ObservedLast(s, call), s # <<>>
  PROVE  /\ Shaped(Tail(s), call) /\ ObservedLast(Tail(s), call)
         /\ Head(s) \in Operations /\ Head(s) = s[1] /\ Possible(Head(s), call)
         /\ Head(s).op = "observe" <=> IsMeasured(call) /\ Tail(s) = <<>>
         /\ Head(s).op \in {"write", "flush"} =>
              \A i \in 1..Len(Tail(s)) : Tail(s)[i].op = "header" => Tail(s)[i].arg = 200 \/ call.route = "index"
         /\ Head(s).op = "hijack" => \A i \in 1..Len(Tail(s)) : Tail(s)[i].op # "header"
         /\ Head(s).op = "header" => \A i \in 1..Len(Tail(s)) : Tail(s)[i].op # "hijack"
         /\ \A i \in 1..Len(Tail(s)) : i + 1 \in 1..Len(s) /\ Tail(s)[i] = s[i + 1]
<1> DEFINE t == Tail(s)
<1>1. s \in Seq(Operations) /\ Len(s) \in Nat \ {0}
  BY EmptySeq DEF Shaped
<1>2. /\ Head(s) \in Operations /\ Head(s) = s[1] /\ t \in Seq(Operations) /\ Len(t) = Len(s) - 1
      /\ \A i \in 1..Len(t) : t[i] = s[i + 1]
  BY <1>1, HeadTailProperties
<1> HIDE DEF t
<1>3. \A i \in 1..Len(t) : i + 1 \in 1..Len(s) /\ t[i] = s[i + 1] /\ (i + 1 = Len(s) <=> i = Len(t))
  BY <1>1, <1>2
<1>4. 1 \in 1..Len(s) /\ \A i \in 1..Len(t) : 1 < i + 1
  BY <1>1
<1>5. t = <<>> <=> Len(s) = 1
  BY <1>1, <1>2, EmptySeq
<1>6. HeaderFirst(t, call)
  <2> SUFFICES ASSUME NEW i \in 1..Len(t), NEW j \in 1..Len(t), i < j,
                      t[i].op \in {"write", "flush"}, t[j].op = "header"
               PROVE  t[j].arg = 200 \/ call.route = "index"
    BY DEF HeaderFirst
  <2>1. i + 1 \in 1..Len(s) /\ j + 1 \in 1..Len(s) /\ i + 1 < j + 1 /\ t[i] = s[i + 1] /\ t[j] = s[j + 1]
    BY <1>3
  <2> QED
    BY <2>1 DEF Shaped, HeaderFirst
<1>7. HijackOnly(t)
  BY <1>3 DEF Shaped, HijackOnly
<1>8. Shaped(t, call)
  BY <1>2, <1>3, <1>6, <1>7 DEF Shaped
<1>9. ObservedLast(t, call)
  BY <1>3 DEF ObservedLast
<1>10. Head(s).op = "observe" <=> IsMeasured(call) /\ t = <<>>
  BY <1>1, <1>2, <1>4, <1>5 DEF ObservedLast
<1>11. Head(s).op \in {"write", "flush"} =>
         \A i \in 1..Len(t) : t[i].op = "header" => t[i].arg = 200 \/ call.route = "index"
  BY <1>2, <1>3, <1>4 DEF Shaped, HeaderFirst
<1>12. /\ Head(s).op = "hijack" => \A i \in 1..Len(t) : t[i].op # "header"
       /\ Head(s).op = "header" => \A i \in 1..Len(t) : t[i].op # "hijack"
  BY <1>2, <1>3, <1>4 DEF Shaped, HijackOnly
<1>13. Possible(Head(s), call)
  BY <1>2, <1>4 DEF Shaped
<1> QED
  BY <1>2, <1>3, <1>8, <1>9, <1>10, <1>11, <1>12, <1>13 DEF t

\* net/http's first status, and the reply that reaches the client.
LEMMA Commits ==
  ASSUME NEW q \in Exchange, NEW c \in Statuses
  PROVE  /\ Commit(q, c) \in Exchange
         /\ Commit(q, c).committed = (IF q.committed = 0 THEN c ELSE q.committed)
         /\ Commit(q, c) = [q EXCEPT !.committed = IF q.committed = 0 THEN c ELSE q.committed]
<1>1. [q EXCEPT !.committed = c] \in Exchange
  BY DEF Exchange
<1> QED
  BY <1>1 DEF Commit, Exchange

\* A reply reaches its client once, unless it is late.
LEMMA Delivers ==
  ASSUME NEW q \in Exchange
  PROVE  /\ Deliver(q) \in Exchange
         /\ Deliver(q).client = (IF q.late \/ q.client # 0 THEN q.client ELSE q.committed)
         /\ Deliver(q) = [q EXCEPT !.client = IF q.late \/ q.client # 0 THEN q.client ELSE q.committed]
<1>1. [q EXCEPT !.client = q.committed] \in Exchange
  BY DEF Exchange
<1> QED
  BY <1>1 DEF Deliver, Exchange

\* Setting a status: the interceptor keeps the first, net/http the first final one.
LEMMA HeaderEffect ==
  ASSUME NEW q \in Exchange, NEW op \in Operations, op.op = "header"
  PROVE  LET e == Effect(q, op)
         IN  /\ e \in Exchange
             /\ e.call = q.call /\ e.todo = q.todo /\ e.client = q.client /\ e.late = q.late
             /\ e.recorded /\ e.status = (IF q.recorded THEN q.status ELSE op.arg)
             /\ e.state = (IF Sendable(op.arg) THEN q.state ELSE "panicked")
             /\ Sendable(op.arg) =>
                  e.committed = (IF ~Informational(op.arg) /\ q.committed = 0 THEN op.arg ELSE q.committed)
<1> DEFINE seen == InterceptHeader(q, op.arg)
<1>0. op.arg \in Codes \cup Statuses
  BY DEF Operations, Bare
<1>1. /\ seen \in Exchange
      /\ seen.call = q.call /\ seen.todo = q.todo /\ seen.client = q.client /\ seen.late = q.late
      /\ seen.state = q.state /\ seen.committed = q.committed
      /\ seen.recorded /\ seen.status = (IF q.recorded THEN q.status ELSE op.arg)
  <2>1. [q EXCEPT !.status = op.arg, !.recorded = TRUE] \in Exchange
    BY <1>0 DEF Exchange
  <2> QED
    BY <2>1 DEF InterceptHeader, Exchange
<1> HIDE DEF seen
<1>2. Effect(q, op) = IF ~Sendable(op.arg) THEN [seen EXCEPT !.state = "panicked"]
                      ELSE IF Informational(op.arg) THEN seen ELSE Commit(seen, op.arg)
  BY DEF Effect, seen
<1>3. CASE ~Sendable(op.arg)
  <2>1. [seen EXCEPT !.state = "panicked"] \in Exchange
    BY <1>1 DEF Exchange, States
  <2> QED
    BY <1>1, <1>2, <1>3, <2>1 DEF Exchange
<1>4. CASE Sendable(op.arg) /\ Informational(op.arg)
  BY <1>1, <1>2, <1>4
<1>5. CASE Sendable(op.arg) /\ ~Informational(op.arg)
  <2>1. op.arg \in Statuses
    BY <1>0, <1>5 DEF Sendable, Informational, Codes, Statuses, Unparsable
  <2> QED
    BY <1>1, <1>2, <1>5, <2>1, Commits DEF Exchange
<1> QED
  BY <1>3, <1>4, <1>5

\* A body or a flush commits the status 200, and a flush sends it.
LEMMA BodyEffect ==
  ASSUME NEW q \in Exchange, NEW op \in Operations, op.op \in {"write", "flush"}
  PROVE  LET e == Effect(q, op)
         IN  /\ e \in Exchange
             /\ e.call = q.call /\ e.todo = q.todo /\ e.state = q.state /\ e.late = q.late
             /\ e.recorded = q.recorded /\ e.status = q.status
             /\ e.committed = (IF q.committed = 0 THEN 200 ELSE q.committed)
             /\ e.client \in {q.client, e.committed}
             /\ q.client # 0 => e.client = q.client
<1> DEFINE m == Commit(q, 200)
<1>1. 200 \in Statuses
  BY DEF Statuses
<1>2. /\ m \in Exchange
      /\ m.call = q.call /\ m.todo = q.todo /\ m.state = q.state /\ m.late = q.late
      /\ m.recorded = q.recorded /\ m.status = q.status /\ m.client = q.client
      /\ m.committed = (IF q.committed = 0 THEN 200 ELSE q.committed)
  BY <1>1, Commits DEF Exchange
<1> HIDE DEF m
<1>3. /\ Deliver(m) \in Exchange
      /\ Deliver(m).call = q.call /\ Deliver(m).todo = q.todo /\ Deliver(m).state = q.state /\ Deliver(m).late = q.late
      /\ Deliver(m).recorded = q.recorded /\ Deliver(m).status = q.status
      /\ Deliver(m).committed = m.committed
      /\ Deliver(m).client = (IF m.late \/ m.client # 0 THEN m.client ELSE m.committed)
  <2> DEFINE v == IF m.late \/ m.client # 0 THEN m.client ELSE m.committed
  <2>1. Deliver(m) \in Exchange /\ Deliver(m) = [m EXCEPT !.client = v] /\ v \in Statuses
    BY <1>2, Delivers DEF Exchange
  <2> HIDE DEF v
  <2>2. /\ Deliver(m).call = m.call /\ Deliver(m).todo = m.todo /\ Deliver(m).state = m.state
        /\ Deliver(m).late = m.late /\ Deliver(m).recorded = m.recorded /\ Deliver(m).status = m.status
        /\ Deliver(m).committed = m.committed /\ Deliver(m).client = v
    BY <1>2, <2>1 DEF Exchange
  <2> QED
    BY <1>2, <2>1, <2>2 DEF v
<1>4. Effect(q, op) = (IF op.op = "write" THEN m ELSE Deliver(m))
  BY DEF Effect, m
<1> QED
  BY <1>2, <1>3, <1>4

\* The other operations.
LEMMA OtherEffect ==
  ASSUME NEW q \in Exchange, NEW op \in Operations, op.op \notin {"header", "write", "flush"}
  PROVE  LET e == Effect(q, op)
         IN  /\ e \in Exchange
             /\ e.call = q.call /\ e.todo = q.todo
             /\ e.recorded = q.recorded /\ e.status = q.status
             /\ e.state = (IF op.op = "panic" THEN "panicked" ELSE q.state)
             /\ op.op = "hijack" => e.committed = 101 /\ e.client = 101
             /\ op.op # "hijack" => e.committed = q.committed /\ e.client = q.client
<1>1. CASE op.op = "hijack"
  <2>1. Effect(q, op) = [q EXCEPT !.committed = 101, !.client = 101]
    BY <1>1 DEF Effect
  <2>2. [q EXCEPT !.committed = 101, !.client = 101] \in Exchange
    <3>1. 101 \in Statuses
      BY DEF Statuses
    <3> QED
      BY <3>1 DEF Exchange
  <2> QED
    BY <1>1, <2>1, <2>2 DEF Exchange
<1>2. CASE op.op = "panic"
  <2>1. Effect(q, op) = [q EXCEPT !.state = "panicked"]
    BY <1>2 DEF Effect
  <2>2. [q EXCEPT !.state = "panicked"] \in Exchange
    BY DEF Exchange, States
  <2> QED
    BY <1>2, <2>1, <2>2 DEF Exchange
<1>3. CASE op.op = "sleep past timeout"
  <2>1. Effect(q, op) = [q EXCEPT !.late = TRUE]
    BY <1>3 DEF Effect
  <2>2. [q EXCEPT !.late = TRUE] \in Exchange
    BY DEF Exchange
  <2> QED
    BY <1>3, <2>1, <2>2 DEF Exchange
<1>4. CASE op.op \notin {"hijack", "panic", "sleep past timeout"}
  <2>1. Effect(q, op) = q
    BY <1>4 DEF Effect
  <2> QED
    BY <1>4, <2>1
<1> QED
  BY <1>1, <1>2, <1>3, <1>4

\* An operation takes itself off the script.
LEMMA TakenOff ==
  ASSUME NEW e \in Exchange, e.todo # <<>>
  PROVE  LET p == [e EXCEPT !.todo = Tail(@)]
         IN  /\ p \in Exchange /\ p.todo = Tail(e.todo)
             /\ p.call = e.call /\ p.state = e.state /\ p.committed = e.committed /\ p.client = e.client
             /\ p.late = e.late /\ p.status = e.status /\ p.recorded = e.recorded
<1>1. Tail(e.todo) \in Seq(Operations)
  BY HeadTailProperties DEF Exchange
<1>2. [e EXCEPT !.todo = Tail(@)] = [e EXCEPT !.todo = Tail(e.todo)]
  BY DEF Exchange
<1>3. [e EXCEPT !.todo = Tail(e.todo)] \in Exchange
  BY <1>1 DEF Exchange
<1> QED
  BY <1>2, <1>3 DEF Exchange

\* An operation keeps the invariant of its exchange; the observation is the
\* last of a measured script, and nothing but it empties one.
LEMMA ExchangeStep ==
  ASSUME NEW q \in Exchange, q.state = "running", q.todo # <<>>, ExchangeInv(q)
  PROVE  LET p == [Effect(q, Head(q.todo)) EXCEPT !.todo = Tail(@)]
         IN  /\ p \in Exchange /\ ExchangeInv(p) /\ p.call = q.call
             /\ IF Head(q.todo).op = "observe"
                  THEN /\ IsMeasured(p.call) /\ p.state = "running" /\ p.todo = <<>>
                       /\ p.status = q.status
                  ELSE ~(IsMeasured(p.call) /\ p.state \in {"running", "done"} /\ p.todo = <<>>)
<1> DEFINE op == Head(q.todo)
           e == Effect(q, op)
           p == [e EXCEPT !.todo = Tail(@)]
           t == Tail(q.todo)
<1>1. Shaped(q.todo, q.call) /\ ObservedLast(q.todo, q.call) /\ Settled(q) /\ Agrees(q) /\ Answered(q) /\ q.call \in Calls
  BY DEF ExchangeInv, Running, Truthful, Called
<1>2. /\ Shaped(t, q.call) /\ ObservedLast(t, q.call)
      /\ op \in Operations /\ op = q.todo[1] /\ Possible(op, q.call)
      /\ op.op = "observe" <=> IsMeasured(q.call) /\ t = <<>>
      /\ op.op \in {"write", "flush"} =>
           \A i \in 1..Len(t) : t[i].op = "header" => t[i].arg = 200 \/ q.call.route = "index"
      /\ op.op = "hijack" => \A i \in 1..Len(t) : t[i].op # "header"
      /\ op.op = "header" => \A i \in 1..Len(t) : t[i].op # "hijack"
      /\ \A i \in 1..Len(t) : i + 1 \in 1..Len(q.todo) /\ t[i] = q.todo[i + 1]
  BY <1>1, Rest
<1>3. 1 \in 1..Len(q.todo)
  BY <1>1, EmptySeq DEF Shaped
<1>4. /\ op.op = "hijack" => ~q.recorded
      /\ (op.op = "header" /\ ~q.recorded /\ q.committed # 0) =>
           op.arg = q.committed \/ (q.call.route = "index" /\ q.committed = 200)
      /\ \A i \in 1..Len(t) :
           /\ t[i].op = "hijack" => ~q.recorded
           /\ (t[i].op = "header" /\ ~q.recorded /\ q.committed # 0) =>
                t[i].arg = q.committed \/ (q.call.route = "index" /\ q.committed = 200)
  BY <1>1, <1>2, <1>3 DEF Settled
<1>5. e \in Exchange /\ e.call = q.call /\ e.todo = q.todo /\ (op.op # "header" => e.status = q.status)
  BY <1>2, HeaderEffect, BodyEffect, OtherEffect
<1>6. e.state = (IF op.op = "panic" \/ (op.op = "header" /\ ~Sendable(op.arg)) THEN "panicked" ELSE "running")
  BY <1>2, HeaderEffect, BodyEffect, OtherEffect
<1>7. /\ p \in Exchange /\ p.todo = t
      /\ p.call = q.call /\ p.state = e.state /\ p.committed = e.committed /\ p.client = e.client
      /\ p.late = e.late /\ p.status = e.status /\ p.recorded = e.recorded
  BY <1>5, TakenOff
<1> HIDE DEF p, t
<1>8. Idling(p) /\ Called(p) /\ Ended(p)
  BY <1>1, <1>6, <1>7 DEF Idling, Called, Ended
<1>9. Panicked(p)
  BY <1>2, <1>6, <1>7 DEF Panicked, Possible
<1>10. ASSUME p.state = "running" PROVE Settled(p) /\ Agrees(p) /\ Answered(p)
  <2>1. CASE op.op = "header"
    <3>1. Sendable(op.arg) /\ op.arg # 0
      <4>1. Sendable(op.arg)
        BY <1>6, <1>7, <1>10, <2>1
      <4>2. \A c : Sendable(c) => c # 0
        BY DEF Sendable
      <4> QED
        BY <4>1, <4>2
    <3>2. /\ p.client = q.client /\ p.recorded /\ p.status = (IF q.recorded THEN q.status ELSE op.arg)
          /\ p.committed = (IF ~Informational(op.arg) /\ q.committed = 0 THEN op.arg ELSE q.committed)
      BY <1>2, <1>7, <2>1, <3>1, HeaderEffect
    <3>3. Settled(p)
      BY <1>2, <1>7, <2>1, <3>2 DEF Settled
    <3>4. Agrees(p)
      BY <1>1, <1>4, <1>7, <2>1, <3>1, <3>2 DEF Agrees
    <3>5. Answered(p)
      BY <1>1, <3>2 DEF Answered
    <3> QED
      BY <3>3, <3>4, <3>5
  <2>2. CASE op.op \in {"write", "flush"}
    <3>1. /\ p.recorded = q.recorded /\ p.status = q.status
          /\ p.committed = (IF q.committed = 0 THEN 200 ELSE q.committed)
          /\ p.client \in {q.client, p.committed} /\ (q.client # 0 => p.client = q.client)
      BY <1>2, <1>7, <2>2, BodyEffect
    <3>2. Settled(p)
      BY <1>2, <1>4, <1>7, <2>2, <3>1 DEF Settled
    <3>3. Agrees(p)
      BY <1>1, <1>7, <3>1 DEF Agrees
    <3>4. Answered(p)
      BY <1>1, <3>1 DEF Answered
    <3> QED
      BY <3>2, <3>3, <3>4
  <2>3. CASE op.op = "hijack"
    <3>1. ~p.recorded /\ p.status = q.status /\ p.committed = 101 /\ p.client = 101 /\ q.call.route = "ws/echo" /\ ~q.recorded
      BY <1>2, <1>4, <1>7, <2>3, OtherEffect DEF Possible
    <3>2. Settled(p)
      BY <1>2, <1>7, <2>3, <3>1 DEF Settled
    <3>3. Agrees(p) /\ Answered(p)
      BY <1>1, <1>7, <3>1 DEF Agrees, Answered
    <3> QED
      BY <3>2, <3>3
  <2>4. CASE op.op \notin {"header", "write", "flush", "hijack"}
    <3>1. p.recorded = q.recorded /\ p.status = q.status /\ p.committed = q.committed /\ p.client = q.client
      BY <1>2, <1>7, <2>4, OtherEffect
    <3>2. Settled(p)
      BY <1>2, <1>4, <1>7, <3>1 DEF Settled
    <3>3. Agrees(p) /\ Answered(p)
      BY <1>1, <1>7, <3>1 DEF Agrees, Answered
    <3> QED
      BY <3>2, <3>3
  <2> QED
    BY <2>1, <2>2, <2>3, <2>4
<1>11. Running(p) /\ Truthful(p)
  BY <1>2, <1>6, <1>7, <1>10 DEF Running, Truthful
<1>12. IF op.op = "observe"
         THEN IsMeasured(p.call) /\ p.state = "running" /\ p.todo = <<>> /\ p.status = q.status
         ELSE ~(IsMeasured(p.call) /\ p.state \in {"running", "done"} /\ p.todo = <<>>)
  BY <1>2, <1>5, <1>6, <1>7
<1> QED
  BY <1>7, <1>8, <1>9, <1>11, <1>12 DEF ExchangeInv, p

\* The state of a request that has not arrived.
LEMMA FreshTyped == Fresh \in Exchange
<1>1. /\ NoCall \in Calls \cup {NoCall} /\ "idle" \in States /\ <<>> \in Seq(Operations)
      /\ 0 \in Statuses /\ 200 \in Codes \cup Statuses
  BY DEF States, Statuses
<1> QED
  BY <1>1, Zenon DEF Fresh, Exchange

\* A new request has a script of the shape ahead of it.
LEMMA ExchangeStarts ==
  ASSUME Configured, NEW call \in Calls, NEW w, NEW script \in Serve(call, w)
  PROVE  LET p == [Fresh EXCEPT !.call = call, !.todo = script, !.state = "running"]
         IN  /\ p \in Exchange /\ ExchangeInv(p)
             /\ ~(IsMeasured(p.call) /\ p.state \in {"running", "done"} /\ p.todo = <<>>)
<1> DEFINE p == [Fresh EXCEPT !.call = call, !.todo = script, !.state = "running"]
<1>1. Shaped(script, call) /\ ObservedLast(script, call) /\ (IsMeasured(call) => script # <<>>)
  BY ServeScripts
<1>2. script \in Seq(Operations) /\ "running" \in States
  BY <1>1 DEF Shaped, States
<1>3. Fresh \in Exchange
  BY FreshTyped
<1>4. /\ p \in Exchange /\ p.call = call /\ p.todo = script /\ p.state = "running"
      /\ p.committed = Fresh.committed /\ p.client = Fresh.client
      /\ p.recorded = Fresh.recorded /\ p.status = Fresh.status
  BY <1>2, <1>3 DEF Exchange
<1> HIDE DEF p
<1>5. /\ p.call = call /\ p.state = "running" /\ p.todo = script /\ p.committed = 0 /\ p.client = 0
      /\ ~p.recorded /\ p.status = 200
  BY <1>4 DEF Fresh
<1>6. Settled(p) /\ Agrees(p) /\ Answered(p)
  BY <1>5 DEF Settled, Agrees, Answered
<1>7. ExchangeInv(p)
  BY <1>1, <1>5, <1>6 DEF ExchangeInv, Idling, Called, Running, Ended, Panicked, Truthful
<1> QED
  BY <1>1, <1>4, <1>5, <1>7 DEF p

\* A reply is completed with the status that was set, or 200.
LEMMA ExchangeEnds ==
  ASSUME NEW q \in Exchange, q.state = "running", q.todo = <<>>, ExchangeInv(q)
  PROVE  LET p == [Deliver(Commit(q, 200)) EXCEPT !.state = "done"]
         IN  /\ p \in Exchange /\ ExchangeInv(p)
             /\ p.call = q.call /\ p.status = q.status /\ p.state = "done" /\ p.todo = <<>>
<1> DEFINE m == Commit(q, 200)
           d == Deliver(m)
           p == [d EXCEPT !.state = "done"]
<1>1. 200 \in Statuses /\ "done" \in States
  BY DEF Statuses, States
<1>2. /\ m \in Exchange
      /\ m.call = q.call /\ m.todo = q.todo /\ m.late = q.late
      /\ m.recorded = q.recorded /\ m.status = q.status /\ m.client = q.client
      /\ m.committed = (IF q.committed = 0 THEN 200 ELSE q.committed)
  BY <1>1, Commits DEF Exchange
<1> HIDE DEF m
<1>3. /\ d \in Exchange
      /\ d.call = m.call /\ d.todo = m.todo /\ d.late = m.late /\ d.recorded = m.recorded
      /\ d.status = m.status /\ d.committed = m.committed
      /\ d.client = (IF m.late \/ m.client # 0 THEN m.client ELSE m.committed)
  <2> DEFINE v == IF m.late \/ m.client # 0 THEN m.client ELSE m.committed
  <2>1. d \in Exchange /\ d = [m EXCEPT !.client = v] /\ v \in Statuses
    BY <1>2, Delivers DEF Exchange
  <2> HIDE DEF v, d
  <2>2. /\ d.call = m.call /\ d.todo = m.todo /\ d.late = m.late /\ d.recorded = m.recorded
        /\ d.status = m.status /\ d.committed = m.committed /\ d.client = v
    BY <1>2, <2>1 DEF Exchange
  <2> QED
    BY <2>1, <2>2 DEF v
<1> HIDE DEF d
<1>4. /\ p \in Exchange
      /\ p.call = q.call /\ p.todo = <<>> /\ p.late = q.late /\ p.recorded = q.recorded
      /\ p.status = q.status /\ p.committed = m.committed /\ p.client = d.client /\ p.state = "done"
  BY <1>1, <1>2, <1>3 DEF Exchange
<1> HIDE DEF p
<1>5. q.call \in Calls /\ Agrees(q) /\ Answered(q)
  BY DEF ExchangeInv, Called, Truthful
<1>6. p.committed # 0 /\ (p.late \/ p.client = p.committed)
  BY <1>2, <1>3, <1>4, <1>5 DEF Answered
<1>7. Agrees(p)
  BY <1>2, <1>4, <1>5 DEF Agrees
<1>8. Answered(p)
  BY <1>2, <1>3, <1>4, <1>5 DEF Answered
<1>9. ExchangeInv(p)
  BY <1>4, <1>5, <1>6, <1>7, <1>8 DEF ExchangeInv, Idling, Called, Running, Ended, Panicked, Truthful
<1> QED
  BY <1>4, <1>9 DEF p, d, m

-----------------------------------------------------------------------------
(***************************************************************************)
(* All requests, and the counters.                                         *)
(***************************************************************************)
\* The requests of f that were measured with a status.
MeasuredAs(f, c) ==
  {r \in Requests : /\ IsMeasured(f[r].call) /\ f[r].state \in {"running", "done"}
                    /\ f[r].todo = <<>> /\ f[r].status = c}

Counted == \A c \in Codes \cup Statuses : counted[c] = Cardinality(MeasuredAs(req, c))

ReplyInv ==
  /\ Configured /\ up \in BOOLEAN
  /\ req \in [Requests -> Exchange] /\ \A r \in Requests : ExchangeInv(req[r])
  /\ counted \in [Codes \cup Statuses -> Nat] /\ Counted

\* As many as were measured, and no more than there are.
LEMMA MeasuredFinite ==
  \A f, c : IsFiniteSet(MeasuredAs(f, c)) /\ Cardinality(MeasuredAs(f, c)) \in 0..Cardinality(Requests)
<1> SUFFICES ASSUME NEW f, NEW c
             PROVE  IsFiniteSet(MeasuredAs(f, c)) /\ Cardinality(MeasuredAs(f, c)) \in 0..Cardinality(Requests)
  OBVIOUS
<1>1. MeasuredAs(f, c) \in SUBSET Requests /\ IsFiniteSet(Requests)
  BY ReplyAssumption DEF MeasuredAs
<1>2. IsFiniteSet(MeasuredAs(f, c)) /\ Cardinality(MeasuredAs(f, c)) <= Cardinality(Requests)
  BY <1>1, FS_Subset
<1>3. Cardinality(MeasuredAs(f, c)) \in Nat /\ Cardinality(Requests) \in Nat
  BY <1>1, <1>2, FS_CardinalityType
<1> QED
  BY <1>2, <1>3

\* No request has arrived at the start.
LEMMA ReplyInitially == Init => ReplyInv
<1> SUFFICES ASSUME Init PROVE ReplyInv
  OBVIOUS
<1>1. Configured /\ up \in BOOLEAN /\ req = [r \in Requests |-> Fresh]
  BY DEF Init, Configured
<1>2. req \in [Requests -> Exchange]
  BY <1>1, FreshTyped
<1>3. ExchangeInv(Fresh)
  BY DEF Fresh, ExchangeInv, Idling, Called, Running, Ended, Panicked, Truthful
<1>4. Counted
  <2>1. \A c : MeasuredAs(req, c) = {}
    BY <1>1 DEF MeasuredAs, Fresh
  <2> QED
    BY <2>1, FS_EmptySet DEF Init, Counted
<1> QED
  BY <1>1, <1>2, <1>3, <1>4 DEF Init, ReplyInv

\* A step of one request that leaves the options alone, and counts what it measures.
LEMMA OneRequest ==
  ASSUME ReplyInv, NEW r \in Requests, NEW p \in Exchange, ExchangeInv(p),
         req' = [req EXCEPT ![r] = p], up' \in BOOLEAN, config' = config,
         \/ /\ counted' = counted
            /\ \A c : MeasuredAs(req', c) = MeasuredAs(req, c)
         \/ /\ counted' = [counted EXCEPT ![p.status] = @ + 1]
            /\ \A c : r \notin MeasuredAs(req, c)
            /\ \A c : MeasuredAs(req', c) = IF c = p.status THEN MeasuredAs(req, c) \cup {r} ELSE MeasuredAs(req, c)
  PROVE  ReplyInv'
<1>1. Configured' /\ (req \in [Requests -> Exchange])'
  BY DEF ReplyInv, Configured
<1>2. \A q : ExchangeInv(q) => ExchangeInv(q)'
  BY DEF ExchangeInv, Idling, Called, Running, Ended, Panicked, Truthful, Shaped, Possible, KnownPanic,
         Settled, Agrees, Answered, ObservedLast, HeaderFirst, HijackOnly
<1>3. \A s \in Requests : req'[s] = IF s = r THEN p ELSE req[s]
  BY DEF ReplyInv
<1>4. \A s \in Requests : ExchangeInv(req'[s])
  BY <1>3 DEF ReplyInv
<1>5. (counted \in [Codes \cup Statuses -> Nat])' /\ Counted'
  <2>0. counted \in [Codes \cup Statuses -> Nat] /\ \A c \in Codes \cup Statuses : counted[c] = Cardinality(MeasuredAs(req, c))
    BY DEF ReplyInv, Counted
  <2>1. CASE counted' = counted /\ \A c : MeasuredAs(req', c) = MeasuredAs(req, c)
    BY <2>0, <2>1 DEF Counted
  <2>2. CASE /\ counted' = [counted EXCEPT ![p.status] = @ + 1]
             /\ \A c : r \notin MeasuredAs(req, c)
             /\ \A c : MeasuredAs(req', c) = IF c = p.status THEN MeasuredAs(req, c) \cup {r} ELSE MeasuredAs(req, c)
    <3>1. \A c : Cardinality(MeasuredAs(req', c)) = Cardinality(MeasuredAs(req, c)) + (IF c = p.status THEN 1 ELSE 0)
      <4> SUFFICES ASSUME NEW c
                   PROVE  Cardinality(MeasuredAs(req', c)) = Cardinality(MeasuredAs(req, c)) + (IF c = p.status THEN 1 ELSE 0)
        OBVIOUS
      <4>1. IsFiniteSet(MeasuredAs(req, c)) /\ Cardinality(MeasuredAs(req, c)) \in Nat
        BY MeasuredFinite, FS_CardinalityType
      <4>2. Cardinality(MeasuredAs(req, c) \cup {r}) = Cardinality(MeasuredAs(req, c)) + 1
        BY <2>2, <4>1, FS_AddElement
      <4>3. CASE c = p.status
        <5>1. MeasuredAs(req', c) = MeasuredAs(req, c) \cup {r}
          BY <2>2, <4>3, Zenon
        <5> QED
          BY <4>2, <4>3, <5>1
      <4>4. CASE c # p.status
        <5>1. MeasuredAs(req', c) = MeasuredAs(req, c)
          BY <2>2, <4>4, Zenon
        <5> QED
          BY <4>1, <4>4, <5>1
      <4> QED
        BY <4>3, <4>4
    <3>2. \A c \in Codes \cup Statuses : counted'[c] = counted[c] + (IF c = p.status THEN 1 ELSE 0)
      BY <2>0, <2>2
    <3>3. counted' \in [Codes \cup Statuses -> Nat]
      <4>1. p.status \in Codes \cup Statuses
        BY DEF Exchange
      <4>2. counted' = [counted EXCEPT ![p.status] = @ + 1]
        BY <2>2
      <4> QED
        BY <2>0, <4>1, <4>2
    <3> QED
      BY <2>0, <3>1, <3>2, <3>3 DEF Counted
  <2> QED
    BY <2>1, <2>2
<1> QED
  BY <1>1, <1>2, <1>4, <1>5 DEF ReplyInv

\* Every step keeps the invariant.
LEMMA ReplyStep == ReplyInv /\ [Next]_vars => ReplyInv'
<1> SUFFICES ASSUME ReplyInv, [Next]_vars PROVE ReplyInv'
  OBVIOUS
<1>0. req \in [Requests -> Exchange] /\ Configured /\ up \in BOOLEAN
  BY DEF ReplyInv
<1>1. ASSUME NEW r \in Requests, Arrive(r) PROVE ReplyInv'
  <2>1. PICK call \in Calls, w \in {Http1, Http2} : \E script \in Serve(call, w) :
          req' = [req EXCEPT ![r].call = call, ![r].todo = script, ![r].state = "running"]
    BY <1>1 DEF Arrive
  <2>2. PICK script \in Serve(call, w) :
          req' = [req EXCEPT ![r].call = call, ![r].todo = script, ![r].state = "running"]
    BY <2>1
  <2>3. req[r] = Fresh
    BY <1>1 DEF Arrive, ReplyInv, ExchangeInv, Idling
  <2> DEFINE p == [Fresh EXCEPT !.call = call, !.todo = script, !.state = "running"]
  <2>4. /\ p \in Exchange /\ ExchangeInv(p)
        /\ ~(IsMeasured(p.call) /\ p.state \in {"running", "done"} /\ p.todo = <<>>)
    BY <1>0, ExchangeStarts
  <2>5. req' = [req EXCEPT ![r] = p]
    BY <1>0, <2>2, <2>3
  <2> HIDE DEF p
  <2>6. \A c : MeasuredAs(req', c) = MeasuredAs(req, c)
    BY <1>0, <2>3, <2>4, <2>5 DEF MeasuredAs, Fresh
  <2> QED
    BY <1>0, <1>1, <2>4, <2>5, <2>6, OneRequest DEF Arrive
<1>2. ASSUME NEW r \in Requests, Step(r) PROVE ReplyInv'
  <2> DEFINE q == req[r]
             op == Head(q.todo)
             p == [Effect(q, op) EXCEPT !.todo = Tail(@)]
  <2>1. /\ q.state = "running" /\ q.todo # <<>> /\ config' = config
        /\ req' = [req EXCEPT ![r] = p] /\ up' = (op.op # "exit")
        /\ counted' = IF op.op = "observe" THEN [counted EXCEPT ![q.status] = @ + 1] ELSE counted
    BY <1>2 DEF Step
  <2>2. q \in Exchange /\ ExchangeInv(q)
    BY <1>0 DEF ReplyInv
  <2>3. /\ p \in Exchange /\ ExchangeInv(p) /\ p.call = q.call
        /\ IF op.op = "observe"
             THEN IsMeasured(p.call) /\ p.state = "running" /\ p.todo = <<>> /\ p.status = q.status
             ELSE ~(IsMeasured(p.call) /\ p.state \in {"running", "done"} /\ p.todo = <<>>)
    BY <2>1, <2>2, ExchangeStep
  <2>4. up' \in BOOLEAN
    BY <2>1
  <2> HIDE DEF p, op
  <2>5. CASE op.op = "observe"
    <3>1. \A c : r \notin MeasuredAs(req, c)
      BY <2>1 DEF MeasuredAs
    <3>2. \A c : MeasuredAs(req', c) = IF c = p.status THEN MeasuredAs(req, c) \cup {r} ELSE MeasuredAs(req, c)
      BY <1>0, <2>1, <2>3, <2>5, <3>1 DEF MeasuredAs
    <3>3. counted' = [counted EXCEPT ![p.status] = @ + 1]
      BY <2>1, <2>3, <2>5
    <3> QED
      BY <2>1, <2>3, <2>4, <3>1, <3>2, <3>3, OneRequest
  <2>6. CASE op.op # "observe"
    <3>1. \A c : MeasuredAs(req', c) = MeasuredAs(req, c)
      BY <1>0, <2>1, <2>3, <2>6 DEF MeasuredAs
    <3>2. counted' = counted
      BY <2>1, <2>6
    <3> QED
      BY <2>1, <2>3, <2>4, <3>1, <3>2, OneRequest
  <2> QED
    BY <2>5, <2>6
<1>3. ASSUME NEW r \in Requests, Finish(r) PROVE ReplyInv'
  <2> DEFINE q == req[r]
             p == [Deliver(Commit(q, 200)) EXCEPT !.state = "done"]
  <2>1. /\ q.state = "running" /\ q.todo = <<>> /\ UNCHANGED <<config, up, counted>>
        /\ req' = [req EXCEPT ![r] = p]
    BY <1>3 DEF Finish
  <2>2. q \in Exchange /\ ExchangeInv(q)
    BY <1>0 DEF ReplyInv
  <2>3. /\ p \in Exchange /\ ExchangeInv(p)
        /\ p.call = q.call /\ p.status = q.status /\ p.state = "done" /\ p.todo = <<>>
    BY <2>1, <2>2, ExchangeEnds
  <2> HIDE DEF p
  <2>4. \A c : MeasuredAs(req', c) = MeasuredAs(req, c)
    BY <1>0, <2>1, <2>3 DEF MeasuredAs
  <2> QED
    BY <1>0, <2>1, <2>3, <2>4, OneRequest
<1>4. CASE UNCHANGED vars
  <2>1. config' = config /\ up' = up /\ req' = req /\ counted' = counted
    BY <1>4 DEF vars
  <2> QED
    BY <2>1 DEF ReplyInv, Configured, Counted, MeasuredAs, ExchangeInv, Idling, Called, Running, Ended, Panicked,
                Truthful, Shaped, Possible, KnownPanic
<1> QED
  BY <1>1, <1>2, <1>3, <1>4 DEF Next

\* The invariant contains what the runs check.
LEMMA ReplyImplies == ReplyInv => TypeOK /\ MetricTellsTheTruth /\ CountedOnce /\ OnlyKnownPanics
<1> SUFFICES ASSUME ReplyInv PROVE TypeOK /\ MetricTellsTheTruth /\ CountedOnce /\ OnlyKnownPanics
  OBVIOUS
<1>1. /\ up \in BOOLEAN /\ req \in [Requests -> Exchange] /\ \A r \in Requests : ExchangeInv(req[r])
      /\ counted \in [Codes \cup Statuses -> Nat]
      /\ \A c \in Codes \cup Statuses : counted[c] = Cardinality(MeasuredAs(req, c))
  BY DEF ReplyInv, Counted
<1>2. TypeOK
  <2>1. counted \in [Codes \cup Statuses -> 0..Cardinality(Requests)]
    BY <1>1, MeasuredFinite
  <2> QED
    BY <1>1, <2>1, Zenon DEF TypeOK
<1>3. MetricTellsTheTruth
  <2> SUFFICES ASSUME NEW r \in Requests, Done(r), req[r].status # req[r].client
               PROVE  \/ req[r].client = 101 /\ req[r].call.route = "ws/echo"
                      \/ req[r].late /\ req[r].client \in {0, 200}
                      \/ Informational(req[r].status)
                      \/ req[r].call.route = "index" /\ req[r].client = 200
    BY DEF MetricTellsTheTruth
  <2> DEFINE q == req[r]
  <2>1. q.committed # 0 /\ (q.late \/ q.client = q.committed) /\ Agrees(q) /\ q.client \in {0, q.committed}
    BY <1>1 DEF Done, ExchangeInv, Ended, Truthful, Answered
  <2> HIDE DEF q
  <2>2. q.status # q.client
    BY DEF q
  <2>3. CASE q.client = 0
    BY <2>1, <2>3 DEF q
  <2>4. CASE q.client # 0 /\ q.client = q.committed
    BY <2>1, <2>2, <2>4 DEF Agrees, q
  <2> QED
    BY <2>1, <2>3, <2>4
<1>4. CountedOnce
  <2>1. \A c : MeasuredAs(req, c) = {r \in Requests : Routed(r) /\ req[r].state \in {"running", "done"}
                                                     /\ req[r].todo = <<>> /\ req[r].status = c}
    BY DEF MeasuredAs, IsMeasured, Routed
  <2>2. DOMAIN counted = Codes \cup Statuses
    BY <1>1
  <2>3. \A c : MeasuredAs(req, c) = {r \in Requests : (Routed(r) /\ req[r].state \in {"running", "done"}
                                                     /\ req[r].todo = <<>>) /\ req[r].status = c}
    BY <2>1
  <2> QED
    BY <1>1, <2>2, <2>3, Zenon DEF CountedOnce
<1>5. OnlyKnownPanics
  BY <1>1 DEF OnlyKnownPanics, ExchangeInv, Panicked, KnownPanic
<1> QED
  BY <1>2, <1>3, <1>4, <1>5

\* The inductive invariant holds in every state.
LEMMA ReplyAlways == Spec => []ReplyInv
  BY ReplyInitially, ReplyStep, PTL DEF Spec

(* No request panics but those we know: neither a parameter nor an option  *)
(* that the start-up check let through ends in a panic otherwise, whatever *)
(* the waits, the delay bounds that differ and the timeouts are.           *)
THEOREM PanicsAreKnown == Spec => []OnlyKnownPanics
  BY ReplyAlways, ReplyImplies, PTL

(* Every measured request is counted once, under the status that the       *)
(* interceptor saw, and none that panicked: for any number of requests.    *)
THEOREM RequestsCountedOnce == Spec => []CountedOnce
  BY ReplyAlways, ReplyImplies, PTL

(* The status counted is the one the client got, but for the exceptions    *)
(* that MetricTellsTheTruth lists.                                         *)
THEOREM MetricsTellTheTruth == Spec => []MetricTellsTheTruth
  BY ReplyAlways, ReplyImplies, PTL
=============================================================================
