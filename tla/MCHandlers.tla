------------------------------ MODULE MCHandlers ------------------------------
(***************************************************************************)
(* The handlers that run goroutines or share connections, and what they    *)
(* must bring to an end: a session of /ws/echo, a request to /echo, and    *)
(* requests to /cache while Redis restarts.  They share no state, so part  *)
(* says which of them moves; the others rest in one initial state.         *)
(***************************************************************************)
EXTENDS EchoWs, FiniteSets

CONSTANTS Backends, CacheRequests, Setter, MaxIdle, MaxRestarts

ASSUME CacheAssumption ==
  IsFiniteSet(CacheRequests) /\ Setter \notin CacheRequests /\ MaxIdle \in Nat /\ MaxRestarts \in Nat

VARIABLES
  part,
  badUrls, phase, captured, call, over, expired, left,
  pool, idle, opened, cl, redisUp, epoch, key, ttl, ticked, missed

FanOut == INSTANCE EchoFanOut
Cache  == INSTANCE RedisCache

fanOutVars == <<badUrls, phase, captured, call, over, expired, left>>
cacheVars  == <<pool, idle, opened, cl, redisUp, epoch, key, ttl, ticked, missed>>
allVars    == <<part, vars, fanOutVars, cacheVars>>

MCInit ==
  /\ part \in {"session", "fan out", "cache"}
  /\ Init /\ FanOut!Init /\ Cache!Init
  /\ part # "fan out" => badUrls = {}
  /\ key = "own" /\ (part # "cache" => ~pool /\ redisUp)

AsSession(action) == part = "session" /\ action /\ UNCHANGED <<part, fanOutVars, cacheVars>>
AsFanOut(action)  == part = "fan out" /\ action /\ UNCHANGED <<part, vars, cacheVars>>
AsCache(action)   == part = "cache" /\ action /\ UNCHANGED <<part, vars, fanOutVars>>

MCNext == AsSession(Next) \/ AsFanOut(FanOut!FanNext) \/ AsCache(Cache!CacheNext)

\* The fairness of each component, taken over the variables of them all.
MCFairness ==
  /\ WF_allVars(AsSession(HandlerStep))
  /\ WF_allVars(AsSession(WriterStep))
  /\ SF_allVars(AsSession(HandOverEcho)) /\ SF_allVars(AsSession(HandOverStatus))
  /\ WF_allVars(AsSession(WgDone))
  /\ SF_allVars(AsSession(SeeDone))
  /\ WF_allVars(AsSession(CloserStep))
  /\ WF_allVars(AsFanOut(FanOut!echoHandler)) /\ WF_allVars(AsFanOut(FanOut!Reply))
  /\ \A b \in Backends :
       WF_allVars(AsFanOut(FanOut!Compute(b))) /\ WF_allVars(AsFanOut(FanOut!Expire(b)))
  /\ \A c \in CacheRequests \cup {Setter} : WF_allVars(AsCache(redisUp /\ Cache!Serve(c)))
  /\ WF_allVars(AsCache(Cache!Pass)) /\ WF_allVars(AsCache(Cache!Tick)) /\ WF_allVars(AsCache(Cache!Start))

MCSpec == MCInit /\ [][MCNext]_allVars /\ MCFairness

-----------------------------------------------------------------------------
(* The types of the part at work.                                          *)
HandlerTypes ==
  CASE part = "session" -> TypeOK
    [] part = "fan out" -> FanOut!TypeOK
    [] part = "cache"   -> Cache!TypeOK

(* No backend's call is ended by the end of another one.                   *)
CallsAreIsolated == FanOut!CallsAreIsolated

(* /echo replies whatever the backends do, with every result in its slot.  *)
FanOutCompletes == FanOut!FanOutCompletes

(* Calls of the pool end, and the version comes back after an outage.      *)
CacheRecovers == part = "cache" => Cache!CacheRecovers
=============================================================================
