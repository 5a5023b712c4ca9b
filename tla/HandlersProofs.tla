--------------------------- MODULE HandlersProofs ---------------------------
(***************************************************************************)
(* Theorems about a websocket session of any length, about a request to    *)
(* /echo with any number of backends, and about the types of the handlers  *)
(* together, the cache included.                                           *)
(***************************************************************************)
EXTENDS MCHandlers, TLAPS

-----------------------------------------------------------------------------
(* The counts bound each other, so the type of echoed needs them. *)
EchoInv == TypeOK /\ WriterHolds /\ EchoesAccountedFor

\* No session has begun at the start.
LEMMA EchoInit == Init => EchoInv
<1> SUFFICES ASSUME Init PROVE EchoInv
  OBVIOUS
<1>1. 0 \in 0 .. MaxMessages
  BY MessagesAssumption
<1>2. TypeOK
  BY <1>1 DEF Init, TypeOK
<1>3. WriterHolds /\ EchoesAccountedFor
  BY DEF Init, WriterHolds, EchoesAccountedFor
<1> QED
  BY <1>2, <1>3 DEF EchoInv

\* Every step of a session keeps the invariant of what it echoed.
LEMMA EchoNext == EchoInv /\ [Next]_vars => EchoInv'
<1> SUFFICES ASSUME EchoInv, [Next]_vars PROVE EchoInv'
  OBVIOUS
<1> USE MessagesAssumption DEF EchoInv, TypeOK, WriterHolds, EchoesAccountedFor
<1>1. CASE Break
  BY <1>1 DEF Break, goroutines
<1>2. CASE ReadMessage
  BY <1>2 DEF ReadMessage
<1>3. CASE HandlerStep
  BY <1>3 DEF HandlerStep, ReadError, CloseDone, CloseConn
<1>4. CASE HandOverEcho
  BY <1>4 DEF HandOverEcho
<1>5. CASE HandOverStatus
  BY <1>5 DEF HandOverStatus
<1>6. CASE ReceiveNil
  BY <1>6 DEF ReceiveNil
<1>7. CASE WriteJSON
  BY <1>7 DEF WriteJSON
<1>8. CASE WriteError
  BY <1>8 DEF WriteError
<1>9. CASE TickerFires \/ SeeDone \/ WgDone
  BY <1>9 DEF TickerFires, SeeDone, WgDone
<1>10. CASE CloserStep
  BY <1>10, ZenonT(60) DEF CloserStep, WgWait, CloseIn
<1>11. CASE UNCHANGED vars
  BY <1>11 DEF vars, goroutines
<1> HIDE DEF EchoInv
<1> QED
  BY <1>1, <1>2, <1>3, <1>4, <1>5, <1>6, <1>7, <1>8, <1>9, <1>10, <1>11
     DEF Next, HandOver, WriterStep

\* Every variable keeps its type, and every message read is accounted for: written,
\* in one of two hands, or lost with a writer that died.
THEOREM EchoesCorrect == Spec => [](TypeOK /\ EchoesAccountedFor)
<1>1. EchoInv => TypeOK /\ EchoesAccountedFor
  BY DEF EchoInv
<1> QED
  BY <1>1, EchoInit, EchoNext, PTL DEF Spec

-----------------------------------------------------------------------------
(* The chain of closes. *)

\* Every step keeps the closing of the channel in its order.
LEMMA ChainNext == CloseChain /\ [Next]_vars => CloseChain'
<1> SUFFICES ASSUME CloseChain, [Next]_vars PROVE CloseChain'
  OBVIOUS
<1> USE DEF CloseChain
<1>1. CASE Break
  BY <1>1 DEF Break, goroutines
<1>2. CASE ReadMessage
  BY <1>2 DEF ReadMessage
<1>3. CASE HandlerStep
  BY <1>3 DEF HandlerStep, ReadError, CloseDone, CloseConn
<1>4. CASE HandOver
  BY <1>4 DEF HandOver, HandOverEcho, HandOverStatus
<1>5. CASE WriterStep
  BY <1>5 DEF WriterStep, ReceiveNil, WriteJSON, WriteError
<1>6. CASE TickerFires \/ SeeDone \/ WgDone
  BY <1>6 DEF TickerFires, SeeDone, WgDone
<1>7. CASE CloserStep
  BY <1>7 DEF CloserStep, WgWait, CloseIn
<1>8. CASE UNCHANGED vars
  BY <1>8 DEF vars, goroutines
<1> QED
  BY <1>1, <1>2, <1>3, <1>4, <1>5, <1>6, <1>7, <1>8 DEF Next

\* echoWsHandler and sendHostWs never send on the channel in after it was closed.
THEOREM ChannelSafe == Spec => []NoSendOnClosedChannel
<1>1. Init => CloseChain
  BY DEF Init, CloseChain
<1>2. CloseChain => NoSendOnClosedChannel
  BY DEF CloseChain, NoSendOnClosedChannel
<1> QED
  BY <1>1, <1>2, ChainNext, PTL DEF Spec

-----------------------------------------------------------------------------
(* The nulls of the session. *)

\* A null is taken from a closed channel only.
NullsFromClosed == (holds = "null" \/ nulls) => inClosed

\* Every step keeps null frames behind the echoes.
LEMMA NullsNext == NullsFromClosed /\ [Next]_vars => NullsFromClosed'
<1> SUFFICES ASSUME NullsFromClosed, [Next]_vars PROVE NullsFromClosed'
  OBVIOUS
<1> USE DEF NullsFromClosed
<1>1. CASE Break \/ ReadMessage \/ HandlerStep
  BY <1>1 DEF Break, ReadMessage, HandlerStep, ReadError, CloseDone, CloseConn, goroutines
<1>2. CASE HandOver
  BY <1>2 DEF HandOver, HandOverEcho, HandOverStatus
<1>3. CASE WriterStep
  BY <1>3 DEF WriterStep, ReceiveNil, WriteJSON, WriteError
<1>4. CASE TickerFires \/ SeeDone \/ WgDone \/ CloserStep
  BY <1>4 DEF TickerFires, SeeDone, WgDone, CloserStep, WgWait, CloseIn
<1>5. CASE UNCHANGED vars
  BY <1>5 DEF vars, goroutines
<1> QED
  BY <1>1, <1>2, <1>3, <1>4, <1>5 DEF Next

\* The client is sent a null only after the read loop ended and sendHostWs signed off.
THEOREM NullsComeLast == Spec => []NullsOnlyAtTheEnd
<1>1. Init => CloseChain /\ NullsFromClosed
  BY DEF Init, CloseChain, NullsFromClosed
<1>2. CloseChain /\ NullsFromClosed => NullsOnlyAtTheEnd
  BY DEF CloseChain, NullsFromClosed, NullsOnlyAtTheEnd
<1> QED
  BY <1>1, <1>2, ChainNext, NullsNext, PTL DEF Spec

-----------------------------------------------------------------------------
(* The fan-out. *)

\* Whatever the goroutines assign to the shared variable, it never carries anybody's
\* cancel; so the context of a call is ended by its own one only.
OwnCancels ==
  /\ captured.cancels = {}
  /\ \A b \in Backends : call[b].seen.cancels = {} /\ call[b].ctx.cancels \subseteq {b}

\* A context is over before its goroutine returns only if it has expired.
OverIsExpired ==
  /\ phase = "read" => \A b \in Backends : call[b].pc = "none"
  /\ \A b \in Backends : call[b].pc # "done" /\ b \in over => b \in expired

FanInv == FanOut!TypeOK /\ OwnCancels /\ OverIsExpired /\ FanOut!CallsAreIsolated

\* No backend has been called at the start.
LEMMA FanInitially == FanOut!Init => FanInv
<1> SUFFICES ASSUME FanOut!Init PROVE FanInv
  OBVIOUS
<1>1. FanOut!Root \in FanOut!Contexts
  BY DEF FanOut!Root, FanOut!Contexts
<1>2. FanOut!TypeOK
  BY <1>1 DEF FanOut!Init, FanOut!TypeOK, FanOut!Call, FanOut!Running, FanOut!Results
<1>3. OwnCancels /\ OverIsExpired /\ FanOut!CallsAreIsolated
  BY DEF FanOut!Init, FanOut!Root, OwnCancels, OverIsExpired, FanOut!CallsAreIsolated
<1> QED
  BY <1>2, <1>3 DEF FanInv

\* A goroutine's step changes some fields of its own call.
LEMMA CallTypes ==
  ASSUME NEW f \in [Backends -> FanOut!Call], NEW b \in Backends,
         NEW pc \in FanOut!Running \cup {"none", "done"}, NEW ctx \in FanOut!Contexts, NEW result \in FanOut!Results
  PROVE  /\ [f EXCEPT ![b].pc = pc] \in [Backends -> FanOut!Call]
         /\ [f EXCEPT ![b].pc = pc, ![b].seen = ctx] \in [Backends -> FanOut!Call]
         /\ [f EXCEPT ![b].pc = pc, ![b].ctx = ctx] \in [Backends -> FanOut!Call]
         /\ [f EXCEPT ![b].pc = pc, ![b].result = result] \in [Backends -> FanOut!Call]
<1>0. f[b] \in FanOut!Call
  OBVIOUS
<1>1. /\ [f[b] EXCEPT !.pc = pc] \in FanOut!Call
      /\ [f[b] EXCEPT !.pc = pc, !.seen = ctx] \in FanOut!Call
      /\ [f[b] EXCEPT !.pc = pc, !.ctx = ctx] \in FanOut!Call
      /\ [f[b] EXCEPT !.pc = pc, !.result = result] \in FanOut!Call
  BY <1>0 DEF FanOut!Call
<1>2. \A t \in FanOut!Call : [f EXCEPT ![b] = t] \in [Backends -> FanOut!Call]
  OBVIOUS
<1>3. /\ [f EXCEPT ![b].pc = pc] = [f EXCEPT ![b] = [f[b] EXCEPT !.pc = pc]]
      /\ [f EXCEPT ![b].pc = pc, ![b].seen = ctx] = [f EXCEPT ![b] = [f[b] EXCEPT !.pc = pc, !.seen = ctx]]
      /\ [f EXCEPT ![b].pc = pc, ![b].ctx = ctx] = [f EXCEPT ![b] = [f[b] EXCEPT !.pc = pc, !.ctx = ctx]]
      /\ [f EXCEPT ![b].pc = pc, ![b].result = result] = [f EXCEPT ![b] = [f[b] EXCEPT !.pc = pc, !.result = result]]
  OBVIOUS
<1> QED
  BY <1>1, <1>2, <1>3

\* The types of the calls, which are inductive.
LEMMA FanTypes == FanOut!TypeOK /\ [FanOut!FanNext]_(FanOut!fanVars) => FanOut!TypeOK'
<1> SUFFICES ASSUME FanOut!TypeOK, [FanOut!FanNext]_(FanOut!fanVars) PROVE FanOut!TypeOK'
  OBVIOUS
<1>t. call \in [Backends -> FanOut!Call] /\ captured \in FanOut!Contexts
  BY DEF FanOut!TypeOK
<1>p. \A pc \in {"none", "load", "store", "derive", "request", "call", "body", "return", "done"} :
        pc \in FanOut!Running \cup {"none", "done"}
  BY DEF FanOut!Running
<1>r. \A result \in {"answer", "error status", "failed", "cancelled"} : result \in FanOut!Results
  BY DEF FanOut!Results
<1>x. \A x \in FanOut!Contexts, b \in Backends :
        /\ [x EXCEPT !.traces = x.traces \cup {b}] \in FanOut!Contexts
        /\ [x EXCEPT !.cancels = x.cancels \cup {b}] \in FanOut!Contexts
  BY DEF FanOut!Contexts
<1>f. \A b \in Backends : call[b] \in FanOut!Call /\ call[b].seen \in FanOut!Contexts /\ call[b].result \in FanOut!Results
  BY <1>t DEF FanOut!Call
<1>1. CASE FanOut!echoHandler
  <2>1. PICK pc \in {"load", "none"} : call' = [b \in Backends |-> [call[b] EXCEPT !.pc = pc]]
    BY <1>1 DEF FanOut!echoHandler
  <2>2. \A b \in Backends : [call[b] EXCEPT !.pc = pc] \in FanOut!Call
    BY <1>t DEF FanOut!Call, FanOut!Running
  <2>3. call' \in [Backends -> FanOut!Call]
    BY <2>1, <2>2
  <2> QED
    BY <1>1, <2>3 DEF FanOut!echoHandler, FanOut!TypeOK
<1>2. CASE FanOut!Reply \/ FanOut!Leave
  BY <1>2 DEF FanOut!Reply, FanOut!Leave, FanOut!TypeOK
<1>3. ASSUME NEW b \in Backends, FanOut!LoadCtx(b) PROVE FanOut!TypeOK'
  <2>1. call' \in [Backends -> FanOut!Call]
    BY <1>3, <1>t, <1>p, <1>f, CallTypes DEF FanOut!LoadCtx
  <2> QED
    BY <1>3, <2>1 DEF FanOut!LoadCtx, FanOut!TypeOK
<1>4. ASSUME NEW b \in Backends, FanOut!StoreCtx(b) PROVE FanOut!TypeOK'
  <2>1. call' \in [Backends -> FanOut!Call]
    BY <1>4, <1>t, <1>p, <1>f, CallTypes DEF FanOut!StoreCtx, FanOut!Go
  <2>2. captured' \in FanOut!Contexts
    BY <1>4, <1>f, <1>x DEF FanOut!StoreCtx
  <2> QED
    BY <1>4, <2>1, <2>2 DEF FanOut!StoreCtx, FanOut!TypeOK
<1>5. ASSUME NEW b \in Backends, FanOut!Derive(b) PROVE FanOut!TypeOK'
  <2>1. call' \in [Backends -> FanOut!Call]
    BY <1>5, <1>t, <1>p, <1>x, <1>f, CallTypes DEF FanOut!Derive
  <2> QED
    BY <1>5, <2>1 DEF FanOut!Derive, FanOut!TypeOK
<1>6. ASSUME NEW b \in Backends, FanOut!NewRequest(b) PROVE FanOut!TypeOK'
  <2>1. call' \in [Backends -> FanOut!Call]
    BY <1>6, <1>t, <1>p, <1>f, CallTypes DEF FanOut!NewRequest, FanOut!Go
  <2> QED
    BY <1>6, <2>1 DEF FanOut!NewRequest, FanOut!TypeOK
<1>7. ASSUME NEW b \in Backends, FanOut!CallBackend(b) \/ FanOut!ReadBody(b) \/ FanOut!Abort(b) PROVE FanOut!TypeOK'
  <2>1. PICK pc \in {"body", "return"}, result \in FanOut!Results :
          call' = [call EXCEPT ![b].pc = pc, ![b].result = result]
    BY <1>7, <1>f, <1>r DEF FanOut!CallBackend, FanOut!ReadBody, FanOut!Abort, FanOut!Slot
  <2>2. call' \in [Backends -> FanOut!Call]
    BY <1>t, <1>p, <2>1, CallTypes
  <2> QED
    BY <1>7, <2>2 DEF FanOut!CallBackend, FanOut!ReadBody, FanOut!Abort, FanOut!TypeOK
<1>8. ASSUME NEW b \in Backends, FanOut!Return(b) PROVE FanOut!TypeOK'
  <2>1. call' \in [Backends -> FanOut!Call]
    BY <1>8, <1>t, <1>p, <1>f, CallTypes DEF FanOut!Return, FanOut!Go
  <2> QED
    BY <1>8, <2>1 DEF FanOut!Return, FanOut!TypeOK
<1>9. ASSUME NEW b \in Backends, FanOut!Expire(b) PROVE FanOut!TypeOK'
  BY <1>9 DEF FanOut!Expire, FanOut!TypeOK
<1>10. CASE UNCHANGED FanOut!fanVars
  BY <1>10 DEF FanOut!fanVars, FanOut!TypeOK
<1> QED
  BY <1>1, <1>2, <1>3, <1>4, <1>5, <1>6, <1>7, <1>8, <1>9, <1>10
     DEF FanOut!FanNext, FanOut!Compute

\* Every step of the fan-out keeps the invariant of its calls.
LEMMA FanStep == FanInv /\ [FanOut!FanNext]_(FanOut!fanVars) => FanInv'
<1> SUFFICES ASSUME FanInv, [FanOut!FanNext]_(FanOut!fanVars) PROVE FanInv'
  OBVIOUS
<1> DEFINE Rest == OwnCancels /\ OverIsExpired /\ FanOut!CallsAreIsolated
<1>0. FanOut!TypeOK /\ FanOut!TypeOK' /\ Rest
  BY FanTypes DEF FanInv
<1> SUFFICES Rest'
  BY <1>0 DEF FanInv
<1>t. call \in [Backends -> FanOut!Call]
  BY <1>0 DEF FanOut!TypeOK
<1> USE DEF OwnCancels, OverIsExpired, FanOut!CallsAreIsolated
<1>1. CASE FanOut!echoHandler
  BY <1>0, <1>1, <1>t, SMTT(30) DEF FanOut!echoHandler, FanOut!Call
<1>2. CASE FanOut!Reply \/ FanOut!Leave
  BY <1>0, <1>2 DEF FanOut!Reply, FanOut!Leave
<1>3. ASSUME NEW b \in Backends, FanOut!LoadCtx(b) PROVE Rest'
  BY <1>0, <1>3, <1>t DEF FanOut!LoadCtx, FanOut!Call
<1>4. ASSUME NEW b \in Backends, FanOut!StoreCtx(b) PROVE Rest'
  BY <1>0, <1>4, <1>t DEF FanOut!StoreCtx, FanOut!Go, FanOut!Call, FanOut!Contexts
<1>5. ASSUME NEW b \in Backends, FanOut!Derive(b) PROVE Rest'
  BY <1>0, <1>5, <1>t DEF FanOut!Derive, FanOut!Call, FanOut!Contexts, FanOut!TypeOK
<1>6. ASSUME NEW b \in Backends, FanOut!NewRequest(b) PROVE Rest'
  BY <1>0, <1>6, <1>t DEF FanOut!NewRequest, FanOut!Go, FanOut!Call
<1>7. ASSUME NEW b \in Backends, FanOut!CallBackend(b) PROVE Rest'
  <2>1. PICK pc \in {"body", "return"}, result \in {call[b].result, "error status", "failed"} :
          call' = [call EXCEPT ![b].pc = pc, ![b].result = result]
    BY <1>7 DEF FanOut!CallBackend, FanOut!Slot
  <2>2. /\ call[b].pc # "done" /\ pc # "done" /\ phase # "read"
        /\ UNCHANGED <<badUrls, phase, captured, over, expired, left>>
    BY <1>0, <1>7, <2>1 DEF FanOut!CallBackend, FanOut!Slot
  <2>3. /\ call'[b].pc = pc /\ call'[b].result = result /\ call'[b].seen = call[b].seen /\ call'[b].ctx = call[b].ctx
        /\ \A c \in Backends \ {b} : call'[c] = call[c]
    <3>1. call' = [call EXCEPT ![b] = [call[b] EXCEPT !.pc = pc, !.result = result]]
      BY <1>t, <2>1
    <3>2. call'[b] = [call[b] EXCEPT !.pc = pc, !.result = result] /\ call[b] \in FanOut!Call
      BY <1>t, <3>1
    <3> QED
      BY <1>t, <3>1, <3>2 DEF FanOut!Call
  <2>4. result = "cancelled" => left \/ b \in expired
    BY <1>0, <2>1
  <2>5. OwnCancels'
    <3>1. \A c \in Backends : call'[c].seen = call[c].seen /\ call'[c].ctx = call[c].ctx
      BY <2>3
    <3> QED
      BY <1>0, <2>2, <3>1
  <2>6. OverIsExpired'
    BY <1>0, <2>2, <2>3
  <2>7. FanOut!CallsAreIsolated'
    BY <1>0, <2>2, <2>3, <2>4
  <2> QED
    BY <2>5, <2>6, <2>7
<1>8. ASSUME NEW b \in Backends, FanOut!ReadBody(b) PROVE Rest'
  BY <1>0, <1>8, <1>t DEF FanOut!ReadBody, FanOut!Slot, FanOut!Call
<1>9. ASSUME NEW b \in Backends, FanOut!Abort(b) PROVE Rest'
  <2>1. left \/ b \in expired
    BY <1>0, <1>9 DEF FanOut!Abort, FanOut!CtxDone
  <2> QED
    BY <1>0, <1>9, <1>t, <2>1 DEF FanOut!Abort, FanOut!Slot, FanOut!Call
<1>10. ASSUME NEW b \in Backends, FanOut!Return(b) PROVE Rest'
  BY <1>0, <1>10, <1>t DEF FanOut!Return, FanOut!Go, FanOut!Call
<1>11. ASSUME NEW b \in Backends, FanOut!Expire(b) PROVE Rest'
  BY <1>0, <1>11, <1>t DEF FanOut!Expire, FanOut!Call
<1>12. CASE UNCHANGED FanOut!fanVars
  BY <1>0, <1>12 DEF FanOut!fanVars
<1> QED
  BY <1>1, <1>2, <1>3, <1>4, <1>5, <1>6, <1>7, <1>8, <1>9, <1>10, <1>11, <1>12
     DEF FanOut!FanNext, FanOut!Compute

(* Although all goroutines assign the variable that the others derive      *)
(* their contexts from, in any order: no call of a backend is cut short    *)
(* but by its own timeout or because the client left.                      *)
THEOREM CallsStayIsolated == MCSpec => []CallsAreIsolated
<1>1. MCInit => FanInv
  BY FanInitially DEF MCInit
<1>2. FanInv /\ [MCNext]_allVars => FanInv'
  <2>1. [MCNext]_allVars => FanOut!FanNext \/ UNCHANGED FanOut!fanVars
    BY DEF MCNext, AsSession, AsFanOut, AsCache, allVars, fanOutVars, FanOut!fanVars
  <2> QED
    BY <2>1, FanStep
<1>3. FanInv => CallsAreIsolated
  BY DEF FanInv, CallsAreIsolated
<1> QED
  BY <1>1, <1>2, <1>3, PTL DEF MCSpec

-----------------------------------------------------------------------------
(* The cache, whose proofs are in RedisCacheProofs: the facts of that      *)
(* module speak of definitions under the name of the instance, which are   *)
(* those of Cache.                                                         *)
CacheFacts == INSTANCE RedisCacheProofs

\* Both instances of FiniteSets have its definitions.
LEMMA SameSizes == /\ \A S : CacheFacts!Cardinality(S) = Cache!Cardinality(S)
                   /\ \A S : CacheFacts!IsFiniteSet(S) <=> IsFiniteSet(S)
<1>1. \A S : CacheFacts!Cardinality(S) = Cache!Cardinality(S)
  BY Zenon DEF CacheFacts!Cardinality, Cache!Cardinality
<1>2. \A S : CacheFacts!IsFiniteSet(S) <=> IsFiniteSet(S)
  BY Zenon DEF CacheFacts!IsFiniteSet, IsFiniteSet
<1> QED
  BY <1>1, <1>2

\* The initial states and the steps of the cache are those that RedisCacheProofs is about ...
LEMMA SameCache == /\ CacheFacts!CacheParameters
                   /\ Cache!Init => CacheFacts!Init
                   /\ [Cache!CacheNext]_(Cache!redisVars) => [CacheFacts!CacheNext]_(CacheFacts!redisVars)
<1>1. CacheFacts!CacheParameters
  BY CacheAssumption, SameSizes DEF CacheFacts!CacheParameters
<1>2. Cache!Init => CacheFacts!Init
  BY DEF Cache!Init, Cache!Fresh, Cache!NoConn, Cache!Clients, Cache!Keys,
         CacheFacts!Init, CacheFacts!Fresh, CacheFacts!NoConn, CacheFacts!Clients, CacheFacts!Keys
<1>3. Cache!CacheNext => CacheFacts!CacheNext
  BY Zenon DEF Cache!CacheNext, Cache!Begin, Cache!Refuse, Cache!Serve, Cache!Get, Cache!Ping,
       Cache!Dial, Cache!Close, Cache!Set, Cache!Delete, Cache!Exists, Cache!Read, Cache!SetVersion,
       Cache!Pass, Cache!Tick, Cache!Stop, Cache!Start, Cache!Evict, Cache!Takes, Cache!OneMore,
       Cache!Asking, Cache!Due, Cache!Found, Cache!Keys, Cache!Forever, Cache!keys, Cache!server,
       Cache!Clients, Cache!Fresh, Cache!Busy, Cache!Alive, Cache!Reply, Cache!Answered, Cache!Doing,
       Cache!Shortened, Cache!NoConn, Cache!VersionTtl, CacheFacts!CacheNext, CacheFacts!Begin,
       CacheFacts!Refuse, CacheFacts!Serve, CacheFacts!Get, CacheFacts!Ping, CacheFacts!Dial,
       CacheFacts!Close, CacheFacts!Set, CacheFacts!Delete, CacheFacts!Exists, CacheFacts!Read,
       CacheFacts!SetVersion, CacheFacts!Pass, CacheFacts!Tick, CacheFacts!Stop, CacheFacts!Start,
       CacheFacts!Evict, CacheFacts!Takes, CacheFacts!OneMore, CacheFacts!Asking, CacheFacts!Due,
       CacheFacts!Found, CacheFacts!Keys, CacheFacts!Forever, CacheFacts!keys, CacheFacts!server,
       CacheFacts!Clients, CacheFacts!Fresh, CacheFacts!Busy, CacheFacts!Alive, CacheFacts!Reply,
       CacheFacts!Answered, CacheFacts!Doing, CacheFacts!Shortened, CacheFacts!NoConn,
       CacheFacts!VersionTtl
<1>4. UNCHANGED Cache!redisVars => UNCHANGED CacheFacts!redisVars
  BY DEF CacheFacts!redisVars, CacheFacts!server, CacheFacts!keys, Cache!redisVars, Cache!server, Cache!keys
<1> QED
  BY <1>1, <1>2, <1>3, <1>4

\* ... and so are the types it proves.
LEMMA CacheTyped == CacheFacts!CacheInv => Cache!TypeOK
<1> SUFFICES ASSUME CacheFacts!TypeOK PROVE Cache!TypeOK
  BY CacheFacts!CacheImplies
<1> QED
  BY SameSizes DEF Cache!TypeOK, Cache!Clients, Cache!Client, Cache!Keys, Cache!Forever,
       CacheFacts!TypeOK, CacheFacts!Clients, CacheFacts!Client, CacheFacts!Keys, CacheFacts!Forever

(* The types of the composition. *)

\* A step of the handlers is a step of one part, and leaves the others alone.
LEMMA StepsOfHandlers ==
  [MCNext]_allVars => /\ [Next]_vars
                      /\ [FanOut!FanNext]_(FanOut!fanVars)
                      /\ [Cache!CacheNext]_(Cache!redisVars)
                      /\ UNCHANGED part
  BY DEF MCNext, AsSession, AsFanOut, AsCache, allVars, fanOutVars, cacheVars,
         FanOut!fanVars, Cache!redisVars, Cache!server, Cache!keys

(* The state of the part at work stays within its types, whatever the      *)
(* order of the goroutines, backends and restarts of Redis: no more echoes *)
(* than messages, and never more than MaxIdle connections at rest.         *)
THEOREM HandlersTyped == MCSpec => []HandlerTypes
<1> DEFINE Parts == part \in {"session", "fan out", "cache"}
           I == Parts /\ EchoInv /\ FanInv /\ CacheFacts!CacheInv
<1>1. MCInit => I
  BY EchoInit, FanInitially, SameCache, CacheFacts!CacheInitially DEF MCInit
<1>2. I /\ [MCNext]_allVars => I'
  BY StepsOfHandlers, EchoNext, FanStep, SameCache, CacheFacts!CacheStep
<1>3. I => HandlerTypes
  BY CacheTyped DEF HandlerTypes, EchoInv, FanInv
<1> QED
  BY <1>1, <1>2, <1>3, PTL DEF MCSpec
=============================================================================
