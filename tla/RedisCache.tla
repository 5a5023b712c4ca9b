------------------------------ MODULE RedisCache ------------------------------
(***************************************************************************)
(* The handlers of /cache/{key}, the goroutine that keeps the version of   *)
(* this instance in Redis, the pool of connections they share              *)
(* (pkg/api/http/cache.go), and Redis itself, which can be out of reach:   *)
(* stopped, and then it has lost its keys, which it does not persist, or   *)
(* only cut off.  Either way its old connections are dead afterwards.      *)
(*                                                                         *)
(* Clients name one key, which may be the one the version is kept under:   *)
(* they share a name space.  Of a key it is known how long it has left, in *)
(* units of 30 s, the period of the ticker.                                *)
(***************************************************************************)
EXTENDS Integers, Sequences, FiniteSets

CONSTANTS
  CacheRequests,   \* requests to /cache/{key}
  Setter,          \* the goroutine that sets the version
  MaxIdle,         \* idle connections the pool keeps, 3 in the code
  MaxRestarts      \* outages of Redis considered

VARIABLES
  pool,      \* a cache server is configured
  idle,      \* the idle connections, the most recent one first
  opened,    \* connections that were dialled and not closed
  cl,        \* the state of each client of the pool
  redisUp, epoch,   \* is Redis in reach, and after how many outages
  key,       \* the key that clients name
  ttl,      \* the time each key has left in Redis, 0 if it is not there
  ticked,    \* the channel of the ticker, which holds one tick
  missed     \* history: the renewals in a row that failed or came late, 2
             \* also for a version that was never set, or that was lost

server == <<redisUp, epoch>>
keys == <<key, ttl, missed>>
redisVars == <<pool, idle, opened, cl, server, keys, ticked>>

Clients == CacheRequests \cup {Setter}
NoConn  == 0   \* also redigo's errorConn, when the dial has failed
Forever == 3   \* a key without an expiry

Keys  == {"own", "hostname"}
Found == ttl[key] > 0

\* outage is history: Redis was out of reach at some time since the call began,
\* until its reply.
Fresh == [pc |-> "idle", op |-> "none", conn |-> NoConn, broken |-> FALSE, reply |-> "none",
          outage |-> FALSE]

Client == [pc : {"idle", "get", "ping", "dial", "do", "close"},
           op : {"none", "SET", "DEL", "EXISTS", "GET", "SETEX"},
           conn : 0..epoch, broken : BOOLEAN,
           reply : {"none", "200", "202", "400", "404", "500", "error"},
           outage : BOOLEAN]

TypeOK ==
  /\ pool \in BOOLEAN /\ redisUp \in BOOLEAN
  /\ epoch \in 1..(MaxRestarts + 1)
  /\ key \in Keys /\ ttl \in [Keys -> 0..Forever]
  /\ ticked \in BOOLEAN /\ missed \in 0..2
  /\ idle \in Seq(1..epoch) /\ Len(idle) <= MaxIdle
  /\ opened \in 0..(MaxIdle + Cardinality(Clients))
  /\ cl \in [Clients -> Client]

\* startCachePool: setVersion runs at once, then with every tick.  Redis may
\* be late, or never come: an address that cannot be parsed is an outage, too.
Init ==
  /\ pool \in BOOLEAN
  /\ idle = <<>> /\ opened = 0
  /\ redisUp \in BOOLEAN /\ epoch = 1 /\ (redisUp \/ epoch <= MaxRestarts)
  /\ key \in Keys /\ ttl = [k \in Keys |-> 0] /\ ticked = FALSE /\ missed = 2
  /\ cl = [c \in Clients |-> IF c = Setter /\ pool THEN [Fresh EXCEPT !.pc = "get", !.op = "SETEX"]
                                                   ELSE Fresh]

Busy(c)  == cl[c].pc # "idle"
Alive(n) == redisUp /\ n = epoch

-----------------------------------------------------------------------------
(* The handlers, up to pool.Get.                                           *)

Begin(c) ==
  /\ c # Setter /\ ~Busy(c) /\ pool
  /\ \E op \in {"SET", "DEL", "EXISTS"} :
       cl' = [cl EXCEPT ![c] = [Fresh EXCEPT !.pc = "get", !.op = op, !.outage = ~redisUp]]
  /\ UNCHANGED <<pool, idle, opened, server, keys, ticked>>

\* No pool, or a body that cannot be read: an error reply, with status 200.
Refuse(c) ==
  /\ c # Setter /\ ~Busy(c)
  /\ cl' = [cl EXCEPT ![c] = [Fresh EXCEPT !.pc = "close", !.reply = "error"]]
  /\ UNCHANGED <<pool, idle, opened, server, keys, ticked>>

-----------------------------------------------------------------------------
(* redigo's pool.                                                          *)

\* Connections that were idle for longer than IdleTimeout are closed first;
\* then the most recent one is taken.
Get(c) ==
  /\ cl[c].pc = "get"
  /\ \E n \in 0..Len(idle) :
       /\ idle' = SubSeq(idle, 2, n)
       /\ opened' = opened - (Len(idle) - n)
       /\ cl' = [cl EXCEPT ![c].pc = IF n > 0 THEN "ping" ELSE "dial",
                           ![c].conn = IF n > 0 THEN idle[1] ELSE NoConn]
  /\ UNCHANGED <<pool, server, keys, ticked>>

\* Mutant: connections are not tested.
Ping_not_configured(c) ==
  /\ cl[c].pc = "ping"
  /\ cl' = [cl EXCEPT ![c].pc = "do"]
  /\ UNCHANGED <<pool, idle, opened, server, keys, ticked>>

\* Mutant: a dead connection stays in the pool.
Ping_keeps_it(c) ==
  /\ cl[c].pc = "ping"
  /\ IF Alive(cl[c].conn)
       THEN cl' = [cl EXCEPT ![c].pc = "do"] /\ UNCHANGED idle
       ELSE cl' = [cl EXCEPT ![c].pc = "get", ![c].conn = NoConn] /\ idle' = <<cl[c].conn>> \o idle
  /\ UNCHANGED <<pool, opened, server, keys, ticked>>

\* TestOnBorrow: a connection that does not answer is closed, the next one tried.
Ping(c) ==
  /\ cl[c].pc = "ping"
  /\ IF Alive(cl[c].conn)
       THEN cl' = [cl EXCEPT ![c].pc = "do"] /\ UNCHANGED opened
       ELSE cl' = [cl EXCEPT ![c].pc = "get", ![c].conn = NoConn] /\ opened' = opened - 1
  /\ UNCHANGED <<pool, idle, server, keys, ticked>>

\* getCacheConn; the pool sets no limit to the connections in use.
Dial(c) ==
  /\ cl[c].pc = "dial"
  /\ opened' = opened + (IF redisUp THEN 1 ELSE 0)
  /\ cl' = [cl EXCEPT ![c].pc = "do", ![c].conn = IF redisUp THEN epoch ELSE NoConn]
  /\ UNCHANGED <<pool, idle, server, keys, ticked>>

\* The pool drops what was used least recently.
Shortened(conns) == IF Len(conns) > MaxIdle THEN SubSeq(conns, 1, MaxIdle) ELSE conns

\* Mutant: the early return for a missing key keeps the connection.
Close_not_deferred(c) ==
  /\ cl[c].pc = "close"
  /\ LET conn == cl[c].conn
         back == conn # NoConn /\ ~cl[c].broken /\ cl[c].reply # "404"
     IN  /\ idle' = (IF back THEN Shortened(<<conn>> \o idle) ELSE idle)
         /\ opened' = (IF back /\ Len(idle) = MaxIdle THEN opened - 1 ELSE opened)
  /\ cl' = [cl EXCEPT ![c] = Fresh]
  /\ UNCHANGED <<pool, server, keys, ticked>>

\* conn.Close: put back, unless the connection has seen an error; beyond
\* MaxIdle the connection used least recently is closed.
Close(c) ==
  /\ cl[c].pc = "close"
  /\ LET conn == cl[c].conn
         back == conn # NoConn /\ ~cl[c].broken
     IN  /\ idle' = (IF back THEN Shortened(<<conn>> \o idle) ELSE idle)
         /\ opened' = (IF conn # NoConn /\ (~back \/ Len(idle) = MaxIdle) THEN opened - 1 ELSE opened)
  /\ cl' = [cl EXCEPT ![c] = Fresh]
  /\ UNCHANGED <<pool, server, keys, ticked>>

-----------------------------------------------------------------------------
(* The commands.                                                           *)

\* Mutant: the version expires after one period.
VersionTtl_30 == 1

VersionTtl == 2   \* EX 60

\* What Redis does with a command.  A SET of a client has no expiry, and takes
\* that of the version away.
Takes(op) ==
  /\ ttl' = CASE op = "SET"   -> [ttl EXCEPT ![key] = Forever]
               [] op = "DEL"   -> [ttl EXCEPT ![key] = 0]
               [] op = "SETEX" -> [ttl EXCEPT !["hostname"] = VersionTtl]
               [] OTHER        -> ttl
  /\ missed' = (IF op = "SETEX" THEN 0
                ELSE IF op \in {"SET", "DEL"} /\ key = "hostname" THEN 2 ELSE missed)

Doing(c, op) == cl[c].pc = "do" /\ cl[c].op = op
Answered(c)  == Alive(cl[c].conn)

\* The call ends with this reply, the connection being broken unless Redis answered.
Reply(c, code) == [cl EXCEPT ![c] = [@ EXCEPT !.pc = "close", !.reply = code, !.broken = ~Answered(c), !.outage = FALSE]]

Set(c) ==
  /\ Doing(c, "SET")
  /\ IF Answered(c) THEN Takes("SET") ELSE UNCHANGED <<ttl, missed>>
  /\ cl' = Reply(c, IF Answered(c) THEN "202" ELSE "error")
  /\ UNCHANGED <<pool, idle, opened, server, key, ticked>>

Delete(c) ==
  /\ Doing(c, "DEL")
  /\ IF Answered(c) THEN Takes("DEL") ELSE UNCHANGED <<ttl, missed>>
  /\ cl' = Reply(c, IF Answered(c) THEN "202" ELSE "400")
  /\ UNCHANGED <<pool, idle, opened, server, key, ticked>>

\* An error is taken for a missing key.
Exists(c) ==
  /\ Doing(c, "EXISTS")
  /\ cl' = IF Answered(c) /\ Found THEN [cl EXCEPT ![c].op = "GET"] ELSE Reply(c, "404")
  /\ UNCHANGED <<pool, idle, opened, server, keys, ticked>>

\* The key may be gone by now; redis.String returns an error for that, too.
Read(c) ==
  /\ Doing(c, "GET")
  /\ cl' = Reply(c, IF Answered(c) /\ Found THEN "200" ELSE "500")
  /\ UNCHANGED <<pool, idle, opened, server, keys, ticked>>

OneMore(n) == IF n < 2 THEN n + 1 ELSE n

SetVersion(c) ==
  /\ Doing(c, "SETEX")
  /\ IF Answered(c) THEN Takes("SETEX") ELSE missed' = OneMore(missed) /\ UNCHANGED ttl
  /\ cl' = Reply(c, "none")
  /\ UNCHANGED <<pool, idle, opened, server, key, ticked>>

-----------------------------------------------------------------------------
(* Time and Redis.                                                         *)

\* A request has asked from the time it wants a connection until its reply.
Asking(c) == cl[c].pc \in {"get", "ping", "dial", "do"}
Due       == ticked \/ Asking(Setter)

\* 30 s pass, however far the last renewal has come: no call has a deadline.
\* A key loses a unit even if it was set in the course of it.
Pass ==
  /\ pool
  /\ ttl' = [k \in Keys |-> IF ttl[k] \in {0, Forever} THEN ttl[k] ELSE ttl[k] - 1]
  /\ ticked' = TRUE
  /\ missed' = (IF Due THEN OneMore(missed) ELSE missed)
  /\ UNCHANGED <<pool, idle, opened, cl, server, key>>

\* The goroutine of startCachePool takes a tick.
Tick ==
  /\ ticked /\ ~Busy(Setter)
  /\ ticked' = FALSE
  /\ cl' = [cl EXCEPT ![Setter] = [Fresh EXCEPT !.pc = "get", !.op = "SETEX"]]
  /\ UNCHANGED <<pool, idle, opened, server, keys>>

\* Redis goes out of reach.  A command under way may have taken effect, though
\* its reply is lost; one such command is considered.
Stop ==
  /\ redisUp /\ epoch <= MaxRestarts
  /\ redisUp' = FALSE
  /\ \/ UNCHANGED <<ttl, missed>>
     \/ \E c \in Clients : cl[c].pc = "do" /\ Answered(c) /\ Takes(cl[c].op)
  /\ cl' = [c \in Clients |-> IF Asking(c) /\ c # Setter THEN [cl[c] EXCEPT !.outage = TRUE] ELSE cl[c]]
  /\ UNCHANGED <<pool, idle, opened, epoch, key, ticked>>

\* It is back, with its keys or, when it had stopped, without.
Start ==
  /\ ~redisUp
  /\ redisUp' = TRUE
  /\ epoch' = epoch + 1
  /\ \/ UNCHANGED <<ttl, missed>>
     \/ ttl' = [k \in Keys |-> 0] /\ missed' = 2
  /\ UNCHANGED <<pool, idle, opened, cl, key, ticked>>

\* maxmemory-policy allkeys-lru.
Evict ==
  /\ \E k \in Keys :
       /\ ttl[k] > 0
       /\ ttl' = [ttl EXCEPT ![k] = 0]
       /\ missed' = (IF k = "hostname" THEN 2 ELSE missed)
  /\ UNCHANGED <<pool, idle, opened, cl, server, key, ticked>>

Serve(c) ==
  \/ Get(c) \/ Ping(c) \/ Dial(c) \/ Close(c)
  \/ Set(c) \/ Delete(c) \/ Exists(c) \/ Read(c) \/ SetVersion(c)

CacheNext ==
  \/ \E c \in Clients : Begin(c) \/ Refuse(c) \/ Serve(c)
  \/ Pass \/ Tick \/ Stop \/ Start \/ Evict

\* A call returns if Redis is in reach: what waits for a dead connection hears
\* of it from TCP, at the latest from its keepalive.  Time passes, and Redis
\* comes back.
CacheFairness ==
  /\ \A c \in Clients : WF_redisVars(redisUp /\ Serve(c))
  /\ WF_redisVars(Pass) /\ WF_redisVars(Tick) /\ WF_redisVars(Start)

CacheSpec == Init /\ [][CacheNext]_redisVars /\ CacheFairness

-----------------------------------------------------------------------------
(* The handlers are a KeyService, of a key that the instance may set, too. *)
(* EXISTS and the GET after it are one question.                           *)
Question(c) == IF ~Asking(c) THEN "none" ELSE IF cl[c].op = "GET" THEN "EXISTS" ELSE cl[c].op

Promise == INSTANCE KeyService WITH
  Requests <- CacheRequests,
  up       <- redisUp,
  held     <- Found,
  others   <- key = "hostname",
  waiting  <- [c \in CacheRequests |-> Question(c)],
  answer   <- [c \in CacheRequests |-> cl[c].reply],
  excused  <- {c \in CacheRequests : Asking(c) /\ cl[c].outage}

(* Every request takes effect at one instant and is told what it did then, *)
(* or fails because Redis was out of reach during it: through connections  *)
(* that died in the pool, several requests at once, the two commands of a  *)
(* read, and renewals of the very key that a request deletes.              *)
ServesAtomically == Promise!Spec

(* No connection leaks, on no way out of a handler: what is open is idle   *)
(* in the pool or in the hands of one client, and at rest at most MaxIdle  *)
(* connections are left of a burst.                                        *)
ConnectionsAccountedFor ==
  /\ opened = Len(idle) + Cardinality({c \in Clients : cl[c].conn # NoConn})
  /\ (\A c \in Clients : ~Busy(c)) => opened <= MaxIdle

(* Once set, the version stays in Redis even if a renewal hangs or fails,  *)
(* until the next one is due, unless Redis loses it or a client deletes or *)
(* overwrites it.                                                          *)
VersionKeyStays == missed = 0 \/ (missed = 1 /\ ~Due) => ttl["hostname"] > 0

(* Every call ends, also when all idle connections are dead, and after an  *)
(* outage, an eviction or a late start of Redis the version comes back.    *)
CacheRecovers ==
  /\ \A c \in Clients : Busy(c) ~> ~Busy(c)
  /\ pool ~> ttl["hostname"] > 0
=============================================================================
