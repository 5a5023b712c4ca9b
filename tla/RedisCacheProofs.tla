-------------------------- MODULE RedisCacheProofs --------------------------
(***************************************************************************)
(* What is proved of the cache of Redis connections, for any number of     *)
(* requests, idle connections and restarts.  The modules that compose the  *)
(* cache with other parts instantiate this one and cite its facts.         *)
(***************************************************************************)
EXTENDS RedisCache, FiniteSetTheorems, SequenceTheorems, TLAPS

\* What the code makes of the constants: finitely many requests, a goroutine, and numbers.
CacheParameters ==
  IsFiniteSet(CacheRequests) /\ Setter \notin CacheRequests /\ MaxIdle \in Nat /\ MaxRestarts \in Nat

CacheTypes ==
  /\ CacheParameters
  /\ pool \in BOOLEAN /\ redisUp \in BOOLEAN /\ ticked \in BOOLEAN
  /\ epoch \in 1..(MaxRestarts + 1)
  /\ key \in Keys /\ ttl \in [Keys -> 0..3] /\ missed \in 0..2
  /\ idle \in Seq(1..epoch) /\ Len(idle) <= MaxIdle /\ opened \in Int
  /\ cl \in [Clients -> Client]
  /\ ~redisUp => epoch <= MaxRestarts

\* What a step does to a client, and to the calls of the others.
Call(c, pc, op, conn, reply) ==
  cl'[c].pc = pc /\ cl'[c].op = op /\ cl'[c].conn = conn /\ cl'[c].reply = reply
Remembers(c) == cl[c].outage => cl'[c].outage
Same(c)      == Call(c, cl[c].pc, cl[c].op, cl[c].conn, cl[c].reply) /\ Remembers(c)
Moves(c)     == /\ cl' \in [Clients -> Client]
                /\ \A d \in Clients \ {c} : cl'[d] = cl[d]

\* Others are not concerned by the step of one client.
LEMMA OthersSame ==
  ASSUME NEW c, Moves(c)
  PROVE  \A d \in Clients \ {c} : Same(d)
  BY DEF Moves, Same, Call, Remembers

\* Connections are numbered by the life of Redis they belong to, from 1 on.
LEMMA Epochs == CacheTypes => 0 \in 0..epoch /\ epoch \in 1..epoch /\ epoch \in Nat /\ NoConn = 0
  BY DEF CacheTypes, CacheParameters, NoConn

\* Assigning a well-formed call to one client leaves the others alone.
LEMMA Put ==
  ASSUME CacheTypes, NEW c \in Clients, NEW t \in Client, cl' = [cl EXCEPT ![c] = t]
  PROVE  Moves(c) /\ cl'[c] = t
<1>1. \A d \in Clients \ {c} : cl'[d] = cl[d]
  BY DEF CacheTypes
<1> QED
  BY <1>1 DEF CacheTypes, Moves

\* A call that a handler or the ticker begins is well formed ...
LEMMA NewCall ==
  ASSUME CacheTypes,
         NEW op \in {"none", "SET", "DEL", "EXISTS", "SETEX"}, NEW outage \in BOOLEAN
  PROVE  [Fresh EXCEPT !.pc = "get", !.op = op, !.outage = outage] \in Client
  BY Epochs DEF Client, Fresh, NoConn

\* ... and so are the client at rest, the ticker's call and the early error reply.
LEMMA FreshCalls ==
  ASSUME CacheTypes
  PROVE  /\ Fresh \in Client
         /\ [Fresh EXCEPT !.pc = "get", !.op = "SETEX"] \in Client
         /\ [Fresh EXCEPT !.pc = "close", !.reply = "error"] \in Client
  BY Epochs DEF Client, Fresh, NoConn

\* ... and what the pool or EXISTS makes of a call ...
LEMMA NextState ==
  ASSUME CacheTypes, NEW s \in Client,
         NEW pc \in {"get", "ping", "dial", "do"}, NEW conn \in 0..epoch
  PROVE  /\ [s EXCEPT !.pc = pc, !.conn = conn] \in Client
         /\ [s EXCEPT !.pc = pc] \in Client
         /\ [s EXCEPT !.op = "GET"] \in Client
  BY DEF Client

\* ... and a call that got its reply.
LEMMA Replied ==
  ASSUME NEW s \in Client, NEW code \in {"none", "200", "202", "400", "404", "500", "error"}, NEW broken \in BOOLEAN
  PROVE  [s EXCEPT !.pc = "close", !.reply = code, !.broken = broken, !.outage = FALSE] \in Client
  BY DEF Client

\* What each action does, field by field: a handler begins its call, ...
LEMMA BeginEffect ==
  ASSUME CacheTypes, NEW c \in Clients, Begin(c)
  PROVE  /\ Moves(c)
         /\ \E op \in {"SET", "DEL", "EXISTS"} : Call(c, "get", op, NoConn, "none")
         /\ (~redisUp => cl'[c].outage)
<1>1. PICK op \in {"SET", "DEL", "EXISTS"} :
        cl' = [cl EXCEPT ![c] = [Fresh EXCEPT !.pc = "get", !.op = op, !.outage = ~redisUp]]
  BY DEF Begin
<1> DEFINE t == [Fresh EXCEPT !.pc = "get", !.op = op, !.outage = ~redisUp]
<1>2. op \in {"none", "SET", "DEL", "EXISTS", "SETEX"} /\ (~redisUp) \in BOOLEAN
  OBVIOUS
<1>3. t \in Client
  BY <1>2, NewCall, Zenon
<1>4. /\ t.pc = "get" /\ t.op = op /\ t.conn = NoConn /\ t.reply = "none"
      /\ t.outage = ~redisUp
  BY DEF Fresh
<1> HIDE DEF t
<1>5. Moves(c) /\ cl'[c] = t
  BY <1>1, <1>3, Put DEF t
<1> QED
  BY <1>4, <1>5 DEF Call

\* ... or replies with an error at once;
LEMMA RefuseEffect ==
  ASSUME CacheTypes, NEW c \in Clients, Refuse(c)
  PROVE  Moves(c) /\ Call(c, "close", "none", NoConn, "error")
<1>1. Moves(c) /\ cl'[c] = [Fresh EXCEPT !.pc = "close", !.reply = "error"]
  BY FreshCalls, Put DEF Refuse
<1> QED
  BY <1>1 DEF Call, Fresh

\* Get hands out the most recent idle connection that is left, or none;
LEMMA GetEffect ==
  ASSUME CacheTypes, NEW c \in Clients, Get(c)
  PROVE  /\ Moves(c) /\ Remembers(c)
         /\ \E n \in 0..Len(idle) :
              /\ idle' = SubSeq(idle, 2, n) /\ opened' = opened - (Len(idle) - n)
              /\ IF n > 0 THEN Call(c, "ping", cl[c].op, idle[1], cl[c].reply)
                          ELSE Call(c, "dial", cl[c].op, NoConn, cl[c].reply)
<1>0. cl[c] \in Client
  BY DEF CacheTypes
<1>1. PICK n \in 0..Len(idle) :
       /\ idle' = SubSeq(idle, 2, n) /\ opened' = opened - (Len(idle) - n)
       /\ cl' = [cl EXCEPT ![c].pc = IF n > 0 THEN "ping" ELSE "dial",
                           ![c].conn = IF n > 0 THEN idle[1] ELSE NoConn]
  BY DEF Get
<1> DEFINE q == IF n > 0 THEN "ping" ELSE "dial"
           k == IF n > 0 THEN idle[1] ELSE NoConn
<1>2. q \in {"get", "ping", "dial", "do"} /\ k \in 0..epoch
  BY Epochs DEF CacheTypes
<1>3. cl' = [cl EXCEPT ![c] = [cl[c] EXCEPT !.pc = q, !.conn = k]]
  BY <1>1 DEF CacheTypes
<1> HIDE DEF q, k
<1>4. Moves(c) /\ cl'[c] = [cl[c] EXCEPT !.pc = q, !.conn = k]
  BY <1>0, <1>2, <1>3, NextState, Put
<1>5. Call(c, q, cl[c].op, k, cl[c].reply) /\ Remembers(c)
  BY <1>0, <1>4 DEF Call, Remembers, Client
<1> QED
  BY <1>1, <1>4, <1>5 DEF q, k

\* Ping keeps a connection that answers and closes any other;
LEMMA PingEffect ==
  ASSUME CacheTypes, NEW c \in Clients, Ping(c)
  PROVE  /\ Moves(c) /\ Remembers(c)
         /\ IF Alive(cl[c].conn)
              THEN Call(c, "do", cl[c].op, cl[c].conn, cl[c].reply) /\ opened' = opened
              ELSE Call(c, "get", cl[c].op, NoConn, cl[c].reply) /\ opened' = opened - 1
<1>0. cl[c] \in Client
  BY DEF CacheTypes
<1>1. CASE Alive(cl[c].conn)
  <2>1. cl' = [cl EXCEPT ![c] = [cl[c] EXCEPT !.pc = "do"]] /\ opened' = opened
    BY <1>1 DEF Ping, CacheTypes
  <2>2. Moves(c) /\ cl'[c] = [cl[c] EXCEPT !.pc = "do"]
    BY <1>0, <2>1, NextState, Put, Epochs
  <2> QED
    BY <1>0, <1>1, <2>1, <2>2 DEF Call, Remembers, Client
<1>2. CASE ~Alive(cl[c].conn)
  <2>1. cl' = [cl EXCEPT ![c] = [cl[c] EXCEPT !.pc = "get", !.conn = NoConn]] /\ opened' = opened - 1
    BY <1>2 DEF Ping, CacheTypes
  <2>2. Moves(c) /\ cl'[c] = [cl[c] EXCEPT !.pc = "get", !.conn = NoConn]
    BY <1>0, <2>1, NextState, Put, Epochs
  <2>3. Call(c, "get", cl[c].op, NoConn, cl[c].reply) /\ Remembers(c)
    BY <1>0, <2>2 DEF Call, Remembers, Client
  <2> QED
    BY <1>2, <2>1, <2>2, <2>3
<1> QED
  BY <1>1, <1>2

\* Dial opens a connection if Redis is up;
LEMMA DialEffect ==
  ASSUME CacheTypes, NEW c \in Clients, Dial(c)
  PROVE  /\ Moves(c) /\ Remembers(c)
         /\ IF redisUp THEN Call(c, "do", cl[c].op, epoch, cl[c].reply) /\ opened' = opened + 1
                       ELSE Call(c, "do", cl[c].op, NoConn, cl[c].reply) /\ opened' = opened
<1>0. cl[c] \in Client
  BY DEF CacheTypes
<1> DEFINE k == IF redisUp THEN epoch ELSE NoConn
<1>1. k \in 0..epoch
  BY Epochs
<1>2. cl' = [cl EXCEPT ![c] = [cl[c] EXCEPT !.pc = "do", !.conn = k]]
  BY DEF Dial, CacheTypes
<1> HIDE DEF k
<1>3. Moves(c) /\ cl'[c] = [cl[c] EXCEPT !.pc = "do", !.conn = k]
  BY <1>0, <1>1, <1>2, NextState, Put
<1>4. Call(c, "do", cl[c].op, k, cl[c].reply) /\ Remembers(c)
  BY <1>0, <1>3 DEF Call, Remembers, Client
<1>5. opened' = opened + (IF redisUp THEN 1 ELSE 0)
  BY DEF Dial
<1> QED
  BY <1>3, <1>4, <1>5 DEF k, CacheTypes

\* Close puts the connection back or closes it.
LEMMA CloseEffect ==
  ASSUME CacheTypes, NEW c \in Clients, Close(c)
  PROVE  /\ Moves(c) /\ Call(c, "idle", "none", NoConn, "none")
         /\ LET back == cl[c].conn # NoConn /\ ~cl[c].broken
            IN  /\ idle' = (IF back THEN Shortened(<<cl[c].conn>> \o idle) ELSE idle)
                /\ opened' = (IF cl[c].conn # NoConn /\ (~back \/ Len(idle) = MaxIdle) THEN opened - 1 ELSE opened)
<1>1. Moves(c) /\ cl'[c] = Fresh
  BY FreshCalls, Put DEF Close
<1>2. Call(c, "idle", "none", NoConn, "none")
  BY <1>1 DEF Call, Fresh
<1> QED
  BY <1>1, <1>2 DEF Close

\* A reply ends the command and changes nothing else that counts.
LEMMA ReplyEffect ==
  ASSUME CacheTypes, NEW c \in Clients, NEW code \in {"none", "200", "202", "400", "404", "500", "error"},
         cl' = Reply(c, code)
  PROVE  Moves(c) /\ Call(c, "close", cl[c].op, cl[c].conn, code)
<1>0. cl[c] \in Client
  BY DEF CacheTypes
<1> DEFINE b == ~Answered(c)
           t == [cl[c] EXCEPT !.pc = "close", !.reply = code, !.broken = b, !.outage = FALSE]
<1>1. b \in BOOLEAN
  OBVIOUS
<1>2. cl' = [cl EXCEPT ![c] = t]
  BY <1>0 DEF Reply, CacheTypes
<1> HIDE DEF b
<1>3. t \in Client
  BY <1>0, <1>1, Replied
<1>4. t.pc = "close" /\ t.op = cl[c].op /\ t.conn = cl[c].conn /\ t.reply = code
  BY <1>0 DEF Client
<1> HIDE DEF t
<1>5. Moves(c) /\ cl'[c] = t
  BY <1>2, <1>3, Put
<1> QED
  BY <1>4, <1>5 DEF Call

\* A command ends the call with a reply, or leads EXISTS on to GET.
Commands(c) ==
  Set(c) \/ Delete(c) \/ Exists(c) \/ Read(c) \/ SetVersion(c)

Ends(c, code) == Call(c, "close", cl[c].op, cl[c].conn, code)

\* What a command makes of the keys: only the setter's counts as a renewal, and a
\* client that names the key of the version spoils it.
LEMMA TakesEffect ==
  ASSUME CacheTypes, NEW op, Takes(op)
  PROVE  /\ ttl' \in [Keys -> 0..3] /\ missed' \in 0..2
         /\ op = "SETEX" => ttl'["hostname"] = 2 /\ missed' = 0
         /\ op # "SETEX" => missed' = 2 \/ (missed' = missed /\ ttl'["hostname"] = ttl["hostname"])
         /\ op = "SET" => ttl'[key] > 0
         /\ op = "DEL" => ttl'[key] = 0
         /\ op = "SETEX" => ttl'[key] = ttl[key] \/ (key = "hostname" /\ ttl'[key] > 0)
         /\ op \notin {"SET", "DEL", "SETEX"} => ttl' = ttl /\ missed' = missed
<1>1. "hostname" \in Keys /\ key \in Keys /\ ttl \in [Keys -> 0..3] /\ missed \in 0..2
  BY DEF CacheTypes, Keys
<1>2. CASE op = "SET"
  BY <1>1, <1>2 DEF Takes, Forever
<1>3. CASE op = "DEL"
  BY <1>1, <1>3 DEF Takes
<1>4. CASE op = "SETEX"
  BY <1>1, <1>4 DEF Takes, VersionTtl
<1>5. CASE op \notin {"SET", "DEL", "SETEX"}
  BY <1>1, <1>5 DEF Takes
<1> QED
  BY <1>2, <1>3, <1>4, <1>5

\* Each command ends with its reply, but for EXISTS, which may lead on to GET.
LEMMA CommandEffect ==
  ASSUME CacheTypes, NEW c \in Clients, Commands(c)
  PROVE  /\ Moves(c) /\ cl[c].pc = "do"
         /\ \/ cl[c].op = "SET" /\ Ends(c, IF Answered(c) THEN "202" ELSE "error")
                                /\ IF Answered(c) THEN Takes("SET") ELSE UNCHANGED <<ttl, missed>>
            \/ cl[c].op = "DEL" /\ Ends(c, IF Answered(c) THEN "202" ELSE "400")
                                /\ IF Answered(c) THEN Takes("DEL") ELSE UNCHANGED <<ttl, missed>>
            \/ cl[c].op = "EXISTS" /\ ~(Answered(c) /\ Found) /\ Ends(c, "404") /\ UNCHANGED <<ttl, missed>>
            \/ cl[c].op = "EXISTS" /\ Call(c, "do", "GET", cl[c].conn, cl[c].reply) /\ Remembers(c) /\ UNCHANGED <<ttl, missed>>
            \/ cl[c].op = "GET" /\ Ends(c, IF Answered(c) /\ Found THEN "200" ELSE "500") /\ UNCHANGED <<ttl, missed>>
            \/ cl[c].op = "SETEX" /\ Ends(c, "none")
                                  /\ IF Answered(c) THEN Takes("SETEX") ELSE missed' = OneMore(missed) /\ UNCHANGED ttl
         /\ UNCHANGED <<pool, idle, opened, redisUp, epoch, key, ticked>>
<1> USE DEF Ends, Doing
<1>0. cl[c] \in Client
  BY DEF CacheTypes
<1>1. CASE Set(c)
  <2>1. Moves(c) /\ Ends(c, IF Answered(c) THEN "202" ELSE "error")
    BY <1>1, ReplyEffect DEF Set
  <2> QED
    BY <1>1, <2>1, Zenon DEF Set, server
<1>2. CASE Delete(c)
  <2>1. Moves(c) /\ Ends(c, IF Answered(c) THEN "202" ELSE "400")
    BY <1>2, ReplyEffect DEF Delete
  <2> QED
    BY <1>2, <2>1, Zenon DEF Delete, server
<1>3. CASE Exists(c)
  <2>1. CASE Answered(c) /\ Found
    <3>1. cl' = [cl EXCEPT ![c] = [cl[c] EXCEPT !.op = "GET"]]
      BY <1>3, <2>1 DEF Exists, CacheTypes
    <3>2. Moves(c) /\ cl'[c] = [cl[c] EXCEPT !.op = "GET"]
      <4>1. [cl[c] EXCEPT !.op = "GET"] \in Client
        BY <1>0 DEF Client
      <4> QED
        BY <3>1, <4>1, Put
    <3>3. cl[c].pc = "do" /\ Call(c, "do", "GET", cl[c].conn, cl[c].reply) /\ Remembers(c)
      BY <1>0, <1>3, <3>2 DEF Call, Remembers, Client, Exists
    <3> QED
      BY <1>3, <3>2, <3>3, Zenon DEF Exists, server, keys
  <2>2. CASE ~(Answered(c) /\ Found)
    <3>1. Moves(c) /\ Ends(c, "404")
      BY <1>3, <2>2, ReplyEffect DEF Exists
    <3> QED
      BY <1>3, <2>2, <3>1, Zenon DEF Exists, server, keys
  <2> QED
    BY <2>1, <2>2
<1>4. CASE Read(c)
  <2>1. Moves(c) /\ Ends(c, IF Answered(c) /\ Found THEN "200" ELSE "500")
    BY <1>4, ReplyEffect DEF Read
  <2> QED
    BY <1>4, <2>1, Zenon DEF Read, server, keys
<1>5. CASE SetVersion(c)
  <2>1. Moves(c) /\ Ends(c, "none")
    BY <1>5, ReplyEffect DEF SetVersion
  <2> QED
    BY <1>5, <2>1, Zenon DEF SetVersion, server
<1> QED
  BY <1>1, <1>2, <1>3, <1>4, <1>5, Zenon DEF Commands

\* A tick makes the setter start over.
LEMMA TickEffect ==
  ASSUME CacheTypes, Tick
  PROVE  Moves(Setter) /\ Call(Setter, "get", "SETEX", NoConn, "none")
<1>1. Setter \in Clients
  BY DEF Clients
<1>2. Moves(Setter) /\ cl'[Setter] = [Fresh EXCEPT !.pc = "get", !.op = "SETEX"]
  BY <1>1, FreshCalls, Put DEF Tick
<1> QED
  BY <1>2 DEF Call, Fresh

\* When Redis goes out of reach, the requests under way note it.
LEMMA StopEffect ==
  ASSUME CacheTypes, Stop
  PROVE  /\ cl' \in [Clients -> Client]
         /\ \A c \in Clients : Same(c)
         /\ \A c \in Clients \ {Setter} : Asking(c) => cl'[c].outage
<1>1. cl' = [c \in Clients |-> IF Asking(c) /\ c # Setter THEN [cl[c] EXCEPT !.outage = TRUE] ELSE cl[c]]
  BY DEF Stop
<1>2. \A c \in Clients : cl[c] \in Client
  BY DEF CacheTypes
<1>3. \A c \in Clients : [cl[c] EXCEPT !.outage = TRUE] \in Client
  BY <1>2 DEF Client
<1> QED
  BY <1>1, <1>2, <1>3 DEF Same, Call, Remembers, Client

\* The clients that have a connection.
Held == {c \in Clients : cl[c].conn # NoConn}

\* Which states of a call have a connection.
ConnStates == \A c \in Clients :
  /\ cl[c].pc \in {"idle", "get", "dial"} => cl[c].conn = NoConn
  /\ cl[c].pc = "ping" => cl[c].conn # NoConn

Balance == opened = Len(idle) + Cardinality(Held)

\* Only the setter sets the version, and it replies to nobody.
Roles == /\ cl[Setter].op \in {"none", "SETEX"} /\ cl[Setter].reply = "none"
         /\ \A c \in Clients \ {Setter} : cl[c].op # "SETEX"

\* What a request that has no reply yet knows of Redis.
Aware == \A c \in Clients \ {Setter} : Asking(c) =>
  /\ ~redisUp => cl[c].outage
  /\ cl[c].pc = "do" => Alive(cl[c].conn) \/ cl[c].outage

\* A version that was renewed in time has two units left until the next renewal
\* is due, and one until that one is late; with one renewal missed it has one
\* until the next is due.
InTime ==
  /\ missed = 0 => ttl["hostname"] > 0
  /\ missed = 0 /\ ~Due => ttl["hostname"] > 1
  /\ missed = 1 /\ ~Due => ttl["hostname"] > 0

CacheInv == CacheTypes /\ ConnStates /\ Balance /\ Roles /\ Aware /\ InTime

\* The goroutine that sets the version is a client of the pool ...
LEMMA SetterIsClient == Setter \in Clients
  BY DEF Clients

\* A client holds at most one connection.
LEMMA HeldFinite ==
  ASSUME CacheParameters
  PROVE  IsFiniteSet(Held) /\ Cardinality(Held) \in Nat /\ Cardinality(Held) <= Cardinality(Clients)
<1>1. IsFiniteSet(Clients)
  BY FS_AddElement DEF Clients, CacheParameters
<1>2. Held \in SUBSET Clients
  BY DEF Held
<1> QED
  BY <1>1, <1>2, FS_Subset, FS_CardinalityType

\* The number of connections in use is that of the clients that have one: it
\* stays when nobody takes or gives back one, ...
LEMMA HeldStays ==
  ASSUME \A c \in Clients : cl'[c].conn # NoConn <=> cl[c].conn # NoConn
  PROVE  Cardinality(Held)' = Cardinality(Held)
<1>1. Held' = Held
  BY DEF Held, NoConn
<1> QED
  BY <1>1

\* ... grows by one when one client takes one, ...
LEMMA HeldMore ==
  ASSUME CacheParameters, NEW c \in Clients, Moves(c), cl[c].conn = NoConn, cl'[c].conn # NoConn
  PROVE  Cardinality(Held)' = Cardinality(Held) + 1
<1>1. Held' = Held \cup {c} /\ c \notin Held
  BY DEF Held, Moves, Same, Call, NoConn
<1> QED
  BY <1>1, HeldFinite, FS_AddElement

\* ... shrinks by one when one client gives one back, ...
LEMMA HeldLess ==
  ASSUME CacheParameters, NEW c \in Clients, Moves(c), cl[c].conn # NoConn, cl'[c].conn = NoConn
  PROVE  Cardinality(Held)' = Cardinality(Held) - 1
<1>1. Held' = Held \ {c} /\ c \in Held
  BY DEF Held, Moves, Same, Call, NoConn
<1> QED
  BY <1>1, HeldFinite, FS_RemoveElement

\* ... and stays when the one client that moves keeps what it has.
LEMMA HeldKept ==
  ASSUME NEW c \in Clients, Moves(c), cl'[c].conn # NoConn <=> cl[c].conn # NoConn
  PROVE  Cardinality(Held)' = Cardinality(Held)
<1>1. \A d \in Clients : cl'[d].conn # NoConn <=> cl[d].conn # NoConn
  BY DEF Moves, Same, Call
<1> QED
  BY <1>1, HeldStays

\* The pool is empty at the start.
LEMMA CacheInitially == CacheParameters /\ Init => CacheInv
<1> SUFFICES ASSUME CacheParameters, Init PROVE CacheInv
  OBVIOUS
<1>1. \A c \in Clients : cl[c].conn = 0 /\ cl[c].reply = "none" /\ cl[c].pc \in {"idle", "get"}
        /\ (c # Setter => cl[c].pc = "idle" /\ cl[c].op = "none")
  BY DEF Init, Fresh, NoConn
<1>2. cl[Setter].op \in {"none", "SETEX"}
  BY SetterIsClient DEF Init, Fresh
<1>3. CacheTypes
  <2>1. /\ 1 \in 1..(MaxRestarts + 1) /\ epoch = 1 /\ 0 \in 0..1 /\ <<>> \in Seq(1..1) /\ Len(<<>>) <= MaxIdle
        /\ 0 \in Int /\ 2 \in 0..2
    BY DEF CacheParameters, Init
  <2>2. Fresh \in Client /\ [Fresh EXCEPT !.pc = "get", !.op = "SETEX"] \in Client
    BY <2>1 DEF Client, Fresh, NoConn
  <2>3. cl \in [Clients -> Client]
    BY <2>2 DEF Init
  <2>4. ttl \in [Keys -> 0..3]
    BY DEF Init
  <2>5. ticked \in BOOLEAN
    BY Zenon DEF Init
  <2> QED
    BY <2>1, <2>3, <2>4, <2>5, Zenon DEF Init, CacheTypes
<1>4. Balance
  <2>1. Held = {}
    BY <1>1 DEF Held, NoConn
  <2> QED
    BY <2>1, FS_EmptySet DEF Balance, Init
<1>5. ConnStates
  BY <1>1 DEF ConnStates, NoConn
<1>6. Roles /\ Aware
  <2>1. \A c \in CacheRequests : c \in Clients
    BY DEF Clients
  <2> QED
    BY <1>1, <1>2, <2>1, SetterIsClient DEF Roles, Aware, Asking
<1>7. InTime
  BY DEF InTime, Init
<1> QED
  BY <1>3, <1>4, <1>5, <1>6, <1>7 DEF CacheInv

CallInv == ConnStates /\ Roles /\ Aware /\ InTime

\* ... and so is every request.
LEMMA RequestsAreClients == \A c \in CacheRequests : c \in Clients
  BY DEF Clients

\* Every action keeps the invariant of the cache.
LEMMA BeginStep ==
  ASSUME CacheInv, NEW c \in Clients, Begin(c)
  PROVE  CacheInv'
<1>i. CacheParameters /\ CacheTypes /\ Balance /\ CallInv
  BY DEF CacheInv, CacheTypes, CallInv
<1>e. Moves(c) /\ (\E op \in {"SET", "DEL", "EXISTS"} : Call(c, "get", op, NoConn, "none"))
      /\ (~redisUp => cl'[c].outage)
  BY <1>i, BeginEffect
<1>u. UNCHANGED <<pool, idle, opened, redisUp, epoch, key, ttl, missed, ticked>> /\ c # Setter /\ cl[c].pc = "idle"
  BY DEF Begin, Busy, server, keys
<1>1. CacheTypes'
  BY <1>i, <1>e, <1>u DEF CacheTypes, Moves, Client
<1>2. Balance'
  BY <1>i, <1>e, <1>u, HeldKept DEF Balance, CallInv, ConnStates, Call
<1>3. CallInv'
  <2>1. ConnStates'
    BY <1>i, <1>e, <1>u, SetterIsClient, RequestsAreClients DEF CallInv, CacheTypes, ConnStates, Call, Same, Moves, Remembers
  <2>2. Roles'
    BY <1>i, <1>e, <1>u, SetterIsClient, RequestsAreClients DEF CallInv, CacheTypes, Roles, Call, Same, Moves, Remembers
  <2>3. Aware'
    BY <1>i, <1>e, <1>u, SetterIsClient, RequestsAreClients DEF CallInv, CacheTypes, Aware, Asking, Alive, Call, Same, Moves, Remembers
  <2>4. InTime'
    BY <1>i, <1>e, <1>u, SetterIsClient, RequestsAreClients DEF CallInv, CacheTypes, InTime, Due, Asking, Call, Same, Moves, Remembers
  <2> QED
    BY <2>1, <2>2, <2>3, <2>4 DEF CallInv
<1> QED
  BY <1>1, <1>2, <1>3 DEF CacheInv, CallInv

\* A refused request never had a connection.
LEMMA RefuseStep ==
  ASSUME CacheInv, NEW c \in Clients, Refuse(c)
  PROVE  CacheInv'
<1>i. CacheParameters /\ CacheTypes /\ Balance /\ CallInv
  BY DEF CacheInv, CacheTypes, CallInv
<1>e. Moves(c) /\ Call(c, "close", "none", NoConn, "error")
  BY <1>i, RefuseEffect
<1>u. UNCHANGED <<pool, idle, opened, redisUp, epoch, key, ttl, missed, ticked>> /\ c # Setter /\ cl[c].pc = "idle"
  BY DEF Refuse, Busy, server, keys
<1>1. CacheTypes'
  BY <1>i, <1>e, <1>u DEF CacheTypes, Moves, Client
<1>2. Balance'
  BY <1>i, <1>e, <1>u, HeldKept DEF Balance, CallInv, ConnStates, Call
<1>3. CallInv'
  <2>1. ConnStates'
    BY <1>i, <1>e, <1>u, SetterIsClient, RequestsAreClients DEF CallInv, CacheTypes, ConnStates, Call, Same, Moves, Remembers
  <2>2. Roles'
    BY <1>i, <1>e, <1>u, SetterIsClient, RequestsAreClients DEF CallInv, CacheTypes, Roles, Call, Same, Moves, Remembers
  <2>3. Aware'
    BY <1>i, <1>e, <1>u, SetterIsClient, RequestsAreClients DEF CallInv, CacheTypes, Aware, Asking, Alive, Call, Same, Moves, Remembers
  <2>4. InTime'
    BY <1>i, <1>e, <1>u, SetterIsClient, RequestsAreClients DEF CallInv, CacheTypes, InTime, Due, Asking, Call, Same, Moves, Remembers
  <2> QED
    BY <2>1, <2>2, <2>3, <2>4 DEF CallInv
<1> QED
  BY <1>1, <1>2, <1>3 DEF CacheInv, CallInv

\* In the pool a call keeps what it asks for and what it knows.
LEMMA PoolStep ==
  ASSUME CacheTypes, CallInv, NEW c \in Clients, NEW pc, NEW conn,
         Moves(c), Remembers(c), Call(c, pc, cl[c].op, conn, cl[c].reply),
         UNCHANGED <<redisUp, epoch, key, ttl, missed, ticked>>,
         cl[c].pc \in {"get", "ping", "dial"}, pc \in {"get", "ping", "dial", "do"},
         pc \in {"get", "dial"} => conn = NoConn,
         pc = "ping" => conn # NoConn,
         pc = "do" => Alive(conn) \/ ~redisUp
  PROVE  CallInv'
<1>1. ConnStates'
  BY DEF CallInv, ConnStates, Call, Same, Moves, NoConn
<1>2. Roles'
  BY SetterIsClient DEF CallInv, Roles, Call, Same, Moves
<1>3. Aware'
  BY DEF CallInv, Aware, Asking, Alive, Call, Same, Moves, Remembers
<1>4. InTime'
  BY SetterIsClient DEF CallInv, InTime, Due, Asking, Call, Same, Moves
<1> QED
  BY <1>1, <1>2, <1>3, <1>4 DEF CallInv

\* The idle list without its first connection and those behind the n-th.
LEMMA TailInSet ==
  ASSUME NEW S, NEW s, NEW n \in Nat, \A i \in 2..n : s[i] \in S
  PROVE  SubSeq(s, 2, n) \in Seq(S) /\ Len(SubSeq(s, 2, n)) = (IF 2 <= n THEN n - 2 + 1 ELSE 0)
  BY SubSeqProperties

\* Connections that Get drops for their age leave the sum at once.
LEMMA GetStep ==
  ASSUME CacheInv, NEW c \in Clients, Get(c)
  PROVE  CacheInv'
<1>i. CacheParameters /\ CacheTypes /\ Balance /\ CallInv
  BY DEF CacheInv, CacheTypes, CallInv
<1>e. PICK n \in 0..Len(idle) :
        /\ Moves(c) /\ Remembers(c)
        /\ idle' = SubSeq(idle, 2, n) /\ opened' = opened - (Len(idle) - n)
        /\ IF n > 0 THEN Call(c, "ping", cl[c].op, idle[1], cl[c].reply)
                    ELSE Call(c, "dial", cl[c].op, NoConn, cl[c].reply)
  BY <1>i, GetEffect
<1>u. UNCHANGED <<pool, redisUp, epoch, key, ttl, missed, ticked>> /\ cl[c].pc = "get"
  BY DEF Get, server, keys
<1>n. cl[c].conn = NoConn
  BY <1>i, <1>u DEF CallInv, ConnStates
<1>s. Len(idle) \in Nat /\ n \in Nat /\ n <= Len(idle) /\ \A i \in 1..Len(idle) : idle[i] \in 1..epoch
  BY <1>i DEF CacheTypes
<1>q. idle' \in Seq(1..epoch) /\ Len(idle') = (IF n > 0 THEN n - 1 ELSE 0)
  <2>1. \A i \in 2..n : idle[i] \in 1..epoch
    BY <1>s
  <2>2. SubSeq(idle, 2, n) \in Seq(1..epoch) /\ Len(SubSeq(idle, 2, n)) = (IF 2 <= n THEN n - 2 + 1 ELSE 0)
    BY <1>s, <2>1, TailInSet
  <2>3. idle' = SubSeq(idle, 2, n)
    BY <1>e
  <2>4. (IF 2 <= n THEN n - 2 + 1 ELSE 0) = (IF n > 0 THEN n - 1 ELSE 0)
    BY <1>s
  <2> QED
    BY <2>2, <2>3, <2>4, Zenon
<1>k. n > 0 => idle[1] # NoConn
  BY <1>s DEF NoConn
<1>1. CacheTypes'
  <2>1. Len(idle') <= MaxIdle /\ opened' \in Int
    BY <1>i, <1>e, <1>s, <1>q DEF CacheTypes, CacheParameters
  <2>2. cl' \in [Clients -> Client]'
    BY <1>e, <1>u DEF Moves, Client
  <2> QED
    BY <1>i, <1>u, <1>q, <2>1, <2>2 DEF CacheTypes
<1>2. Balance'
  <2>1. CASE n > 0
    <3>1. Cardinality(Held)' = Cardinality(Held) + 1
      BY <1>i, <1>e, <1>n, <1>k, <2>1, HeldMore DEF Call
    <3>2. opened' = opened - (Len(idle) - n) /\ Len(idle') = n - 1 /\ opened = Len(idle) + Cardinality(Held)
      BY <1>i, <1>e, <1>q, <2>1 DEF Balance
    <3>3. opened' = Len(idle') + (Cardinality(Held) + 1)
      BY <1>i, <1>s, <3>2, HeldFinite
    <3> QED
      BY <3>1, <3>3 DEF Balance
  <2>2. CASE n = 0
    <3>1. Cardinality(Held)' = Cardinality(Held)
      BY <1>e, <1>n, <2>2, HeldKept DEF Call
    <3> QED
      BY <1>i, <1>e, <1>s, <1>q, <2>2, <3>1, HeldFinite DEF Balance
  <2> QED
    BY <1>s, <2>1, <2>2
<1>m. CacheTypes /\ CallInv /\ Moves(c) /\ Remembers(c) /\ UNCHANGED <<redisUp, epoch, key, ttl, missed, ticked>>
  BY <1>i, <1>e, <1>u
<1>3. CallInv'
  <2>1. CASE n > 0
    <3>1. Call(c, "ping", cl[c].op, idle[1], cl[c].reply) /\ idle[1] # NoConn
      BY <1>e, <1>k, <2>1
    <3>2. /\ cl[c].pc \in {"get", "ping", "dial"} /\ "ping" \in {"get", "ping", "dial", "do"}
          /\ ("ping" \in {"get", "dial"} => idle[1] = NoConn)
          /\ ("ping" = "ping" => idle[1] # NoConn)
          /\ ("ping" = "do" => Alive(idle[1]) \/ ~redisUp)
      BY <1>u, <3>1
    <3> QED
      BY <1>m, <3>1, <3>2, PoolStep, Zenon
  <2>2. CASE n = 0
    <3>1. Call(c, "dial", cl[c].op, NoConn, cl[c].reply)
      BY <1>e, <2>2
    <3>2. /\ cl[c].pc \in {"get", "ping", "dial"} /\ "dial" \in {"get", "ping", "dial", "do"}
          /\ ("dial" \in {"get", "dial"} => NoConn = NoConn)
          /\ ("dial" = "ping" => NoConn # NoConn)
          /\ ("dial" = "do" => Alive(NoConn) \/ ~redisUp)
      BY <1>u
    <3> QED
      BY <1>m, <3>1, <3>2, PoolStep, Zenon
  <2> QED
    BY <1>s, <2>1, <2>2
<1> QED
  BY <1>1, <1>2, <1>3 DEF CacheInv, CallInv

\* A dead connection is neither idle nor in use any more.
LEMMA PingStep ==
  ASSUME CacheInv, NEW c \in Clients, Ping(c)
  PROVE  CacheInv'
<1>i. CacheParameters /\ CacheTypes /\ Balance /\ CallInv
  BY DEF CacheInv, CacheTypes, CallInv
<1>e. /\ Moves(c) /\ Remembers(c)
      /\ IF Alive(cl[c].conn)
              THEN Call(c, "do", cl[c].op, cl[c].conn, cl[c].reply) /\ opened' = opened
              ELSE Call(c, "get", cl[c].op, NoConn, cl[c].reply) /\ opened' = opened - 1
  BY <1>i, PingEffect
<1>u. UNCHANGED <<pool, idle, redisUp, epoch, key, ttl, missed, ticked>> /\ cl[c].pc = "ping"
  BY DEF Ping, server, keys
<1>n. cl[c].conn # NoConn
  BY <1>i, <1>u DEF CallInv, ConnStates
<1>1. CacheTypes'
  <2>1. opened' \in Int
    BY <1>i, <1>e DEF CacheTypes
  <2> QED
    BY <1>i, <1>e, <1>u, <2>1 DEF CacheTypes, Moves, Client
<1>2. Balance'
  <2>1. CASE Alive(cl[c].conn)
    BY <1>i, <1>e, <1>u, <2>1, HeldKept DEF Balance, Call
  <2>2. CASE ~Alive(cl[c].conn)
    <3>1. Cardinality(Held)' = Cardinality(Held) - 1
      BY <1>i, <1>e, <1>n, <2>2, HeldLess DEF Call
    <3>2. Len(idle) \in Nat
      BY <1>i DEF CacheTypes
    <3> QED
      BY <1>i, <1>e, <1>u, <2>2, <3>1, <3>2, HeldFinite DEF Balance
  <2> QED
    BY <2>1, <2>2
<1>m. CacheTypes /\ CallInv /\ Moves(c) /\ Remembers(c) /\ UNCHANGED <<redisUp, epoch, key, ttl, missed, ticked>>
  BY <1>i, <1>e, <1>u
<1>3. CallInv'
  <2>1. CASE Alive(cl[c].conn)
    <3>1. Call(c, "do", cl[c].op, cl[c].conn, cl[c].reply)
      BY <1>e, <2>1
    <3>2. /\ cl[c].pc \in {"get", "ping", "dial"} /\ "do" \in {"get", "ping", "dial", "do"}
          /\ ("do" \in {"get", "dial"} => cl[c].conn = NoConn)
          /\ ("do" = "ping" => cl[c].conn # NoConn)
          /\ ("do" = "do" => Alive(cl[c].conn) \/ ~redisUp)
      BY <1>u, <2>1
    <3> QED
      BY <1>m, <3>1, <3>2, PoolStep, Zenon
  <2>2. CASE ~Alive(cl[c].conn)
    <3>1. Call(c, "get", cl[c].op, NoConn, cl[c].reply)
      BY <1>e, <2>2
    <3>2. /\ cl[c].pc \in {"get", "ping", "dial"} /\ "get" \in {"get", "ping", "dial", "do"}
          /\ ("get" \in {"get", "dial"} => NoConn = NoConn)
          /\ ("get" = "ping" => NoConn # NoConn)
          /\ ("get" = "do" => Alive(NoConn) \/ ~redisUp)
      BY <1>u
    <3> QED
      BY <1>m, <3>1, <3>2, PoolStep, Zenon
  <2> QED
    BY <2>1, <2>2
<1> QED
  BY <1>1, <1>2, <1>3 DEF CacheInv, CallInv

\* A new connection is in use from the start, and a failed dial has none.
LEMMA DialStep ==
  ASSUME CacheInv, NEW c \in Clients, Dial(c)
  PROVE  CacheInv'
<1>i. CacheParameters /\ CacheTypes /\ Balance /\ CallInv
  BY DEF CacheInv, CacheTypes, CallInv
<1>e. /\ Moves(c) /\ Remembers(c)
      /\ IF redisUp THEN Call(c, "do", cl[c].op, epoch, cl[c].reply) /\ opened' = opened + 1
                    ELSE Call(c, "do", cl[c].op, NoConn, cl[c].reply) /\ opened' = opened
  BY <1>i, DialEffect
<1>u. UNCHANGED <<pool, idle, redisUp, epoch, key, ttl, missed, ticked>> /\ cl[c].pc = "dial"
  BY DEF Dial, server, keys
<1>n. cl[c].conn = NoConn /\ epoch # NoConn
  BY <1>i, <1>u, Epochs DEF CallInv, ConnStates
<1>1. CacheTypes'
  <2>1. opened' \in Int
    BY <1>i, <1>e DEF CacheTypes
  <2> QED
    BY <1>i, <1>e, <1>u, <2>1 DEF CacheTypes, Moves, Client
<1>2. Balance'
  <2>1. CASE redisUp
    <3>1. Cardinality(Held)' = Cardinality(Held) + 1
      BY <1>i, <1>e, <1>n, <2>1, HeldMore DEF Call
    <3>2. Len(idle) \in Nat
      BY <1>i DEF CacheTypes
    <3> QED
      BY <1>i, <1>e, <1>u, <2>1, <3>1, <3>2, HeldFinite DEF Balance
  <2>2. CASE ~redisUp
    BY <1>i, <1>e, <1>u, <1>n, <2>2, HeldKept DEF Balance, Call
  <2> QED
    BY <2>1, <2>2
<1>m. CacheTypes /\ CallInv /\ Moves(c) /\ Remembers(c) /\ UNCHANGED <<redisUp, epoch, key, ttl, missed, ticked>>
  BY <1>i, <1>e, <1>u
<1>3. CallInv'
  <2>1. CASE redisUp
    <3>1. Call(c, "do", cl[c].op, epoch, cl[c].reply)
      BY <1>e, <2>1
    <3>2. /\ cl[c].pc \in {"get", "ping", "dial"} /\ "do" \in {"get", "ping", "dial", "do"}
          /\ ("do" \in {"get", "dial"} => epoch = NoConn)
          /\ ("do" = "ping" => epoch # NoConn)
          /\ ("do" = "do" => Alive(epoch) \/ ~redisUp)
      BY <1>u, <2>1 DEF Alive
    <3> QED
      BY <1>m, <3>1, <3>2, PoolStep, Zenon
  <2>2. CASE ~redisUp
    <3>1. Call(c, "do", cl[c].op, NoConn, cl[c].reply)
      BY <1>e, <2>2
    <3>2. /\ cl[c].pc \in {"get", "ping", "dial"} /\ "do" \in {"get", "ping", "dial", "do"}
          /\ ("do" \in {"get", "dial"} => NoConn = NoConn)
          /\ ("do" = "ping" => NoConn # NoConn)
          /\ ("do" = "do" => Alive(NoConn) \/ ~redisUp)
      BY <1>u, <2>2
    <3> QED
      BY <1>m, <3>1, <3>2, PoolStep, Zenon
  <2> QED
    BY <2>1, <2>2
<1> QED
  BY <1>1, <1>2, <1>3 DEF CacheInv, CallInv

\* Whatever Close does with the connection, the sum of idle and used ones is right.
LEMMA CloseStep ==
  ASSUME CacheInv, NEW c \in Clients, Close(c)
  PROVE  CacheInv'
<1> DEFINE conn == cl[c].conn
           back == conn # NoConn /\ ~cl[c].broken
<1>i. CacheParameters /\ CacheTypes /\ Balance /\ CallInv
  BY DEF CacheInv, CacheTypes, CallInv
<1>e. /\ Moves(c) /\ Call(c, "idle", "none", NoConn, "none")
      /\ idle' = (IF back THEN Shortened(<<conn>> \o idle) ELSE idle)
      /\ opened' = (IF conn # NoConn /\ (~back \/ Len(idle) = MaxIdle) THEN opened - 1 ELSE opened)
  BY <1>i, CloseEffect
<1>u. UNCHANGED <<pool, redisUp, epoch, key, ttl, missed, ticked>> /\ cl[c].pc = "close"
  BY DEF Close, server, keys
<1>s. Len(idle) \in Nat /\ Len(idle) <= MaxIdle /\ MaxIdle \in Nat /\ idle \in Seq(1..epoch) /\ opened \in Int
  BY <1>i DEF CacheTypes, CacheParameters
<1>c. conn \in 0..epoch
  BY <1>i DEF CacheTypes, Client
<1>q. /\ idle' \in Seq(1..epoch)
      /\ Len(idle') = IF back /\ Len(idle) < MaxIdle THEN Len(idle) + 1 ELSE Len(idle)
  <2>1. CASE back
    <3> DEFINE more == <<conn>> \o idle
    <3>1. conn \in 1..epoch
      BY <1>c, <2>1, Epochs, <1>i
    <3>2. <<conn>> \in Seq(1..epoch) /\ Len(<<conn>>) = 1
      BY <3>1
    <3>3. more \in Seq(1..epoch) /\ Len(more) = 1 + Len(idle)
      BY <1>s, <3>2, ConcatProperties
    <3>4. idle' = Shortened(more)
      BY <1>e, <2>1
    <3> HIDE DEF more
    <3>5. CASE Len(idle) < MaxIdle
      <4>1. idle' = more
        BY <1>s, <3>3, <3>4, <3>5 DEF Shortened
      <4> QED
        BY <2>1, <3>3, <3>5, <4>1
    <3>6. CASE Len(idle) = MaxIdle
      <4>1. idle' = SubSeq(more, 1, MaxIdle)
        BY <1>s, <3>3, <3>4, <3>6 DEF Shortened
      <4>2. \A i \in 1..MaxIdle : more[i] \in 1..epoch
        <5>1. more \in [1..Len(more) -> 1..epoch]
          BY <3>3, LenProperties
        <5>2. \A i \in 1..MaxIdle : i \in 1..Len(more)
          BY <1>s, <3>3, <3>6
        <5> QED
          BY <5>1, <5>2
      <4>3. idle' \in Seq(1..epoch) /\ Len(idle') = MaxIdle
        BY <1>s, <4>1, <4>2, SubSeqProperties
      <4> QED
        BY <2>1, <3>6, <4>3
    <3> QED
      BY <1>s, <3>5, <3>6
  <2>2. CASE ~back
    BY <1>e, <1>s, <2>2
  <2> QED
    BY <2>1, <2>2
<1>1. CacheTypes'
  <2>1. Len(idle') <= MaxIdle /\ opened' \in Int
    BY <1>e, <1>s, <1>q
  <2>2. cl' \in [Clients -> Client]'
    BY <1>e, <1>u DEF Moves, Client
  <2> QED
    BY <1>i, <1>u, <1>q, <2>1, <2>2 DEF CacheTypes
<1>2. Balance'
  <2>1. CASE conn = NoConn
    <3>1. Cardinality(Held)' = Cardinality(Held)
      BY <1>e, <2>1, HeldKept DEF Call
    <3> QED
      BY <1>i, <1>e, <1>q, <2>1, <3>1 DEF Balance
  <2>2. CASE conn # NoConn
    <3>1. Cardinality(Held)' = Cardinality(Held) - 1
      BY <1>i, <1>e, <2>2, HeldLess DEF Call
    <3> QED
      BY <1>i, <1>e, <1>q, <1>s, <2>2, <3>1, HeldFinite DEF Balance
  <2> QED
    BY <2>1, <2>2
<1>3. CallInv'
  <2>1. ConnStates'
    BY <1>i, <1>e, <1>u DEF CallInv, ConnStates, Call, Same, Moves, NoConn
  <2>2. Roles'
    BY <1>i, <1>e, SetterIsClient DEF CallInv, Roles, Call, Same, Moves
  <2>3. Aware'
    BY <1>i, <1>e, <1>u DEF CallInv, Aware, Asking, Alive, Call, Same, Moves, Remembers
  <2>4. InTime'
    BY <1>i, <1>e, <1>u, SetterIsClient DEF CallInv, InTime, Due, Asking, Call, Same, Moves
  <2> QED
    BY <2>1, <2>2, <2>3, <2>4 DEF CallInv
<1> QED
  BY <1>1, <1>2, <1>3 DEF CacheInv, CallInv

\* Only the setter's command ends a renewal, and only its own success makes the
\* version current again.
LEMMA CommandStep ==
  ASSUME CacheInv, NEW c \in Clients, Commands(c)
  PROVE  CacheInv'
<1>i. CacheParameters /\ CacheTypes /\ Balance /\ CallInv
  BY DEF CacheInv, CacheTypes, CallInv
<1>e. /\ Moves(c) /\ cl[c].pc = "do"
      /\ UNCHANGED <<pool, idle, opened, redisUp, epoch, key, ticked>>
  BY <1>i, CommandEffect, Zenon
<1>d. \/ cl[c].op # "SETEX" /\ \E op : op # "SETEX" /\ Takes(op)
      \/ cl[c].op # "SETEX" /\ UNCHANGED <<ttl, missed>>
      \/ cl[c].op = "SETEX" /\ Takes("SETEX")
      \/ cl[c].op = "SETEX" /\ missed' = OneMore(missed) /\ UNCHANGED ttl
  <2>1. "SET" # "SETEX" /\ "DEL" # "SETEX" /\ "EXISTS" # "SETEX" /\ "GET" # "SETEX"
    OBVIOUS
  <2> QED
    BY <1>i, <2>1, CommandEffect, Zenon
<1>m. /\ cl'[c].conn = cl[c].conn /\ cl'[c].pc \in {"close", "do"}
      /\ cl'[c].pc = "do" => cl[c].op = "EXISTS" /\ Remembers(c)
  BY <1>i, CommandEffect DEF Ends, Call
<1>o. cl'[c].op = cl[c].op \/ (cl[c].op = "EXISTS" /\ cl'[c].op = "GET")
  BY <1>i, CommandEffect DEF Ends, Call
<1>r. cl[c].op = "SETEX" => cl'[c].reply = "none"
  BY <1>i, CommandEffect DEF Ends, Call
<1>t. ttl \in [Keys -> 0..3] /\ missed \in 0..2
  BY <1>i DEF CacheTypes
<1>1. CacheTypes'
  <2>1. ttl' \in [Keys -> 0..3] /\ missed' \in 0..2
    <3>1. ASSUME NEW op, Takes(op) PROVE ttl' \in [Keys -> 0..3] /\ missed' \in 0..2
      BY <1>i, <3>1, TakesEffect
    <3>2. OneMore(missed) \in 0..2
      BY <1>t DEF OneMore
    <3> QED
      BY <1>d, <1>t, <3>1, <3>2
  <2>2. cl' \in [Clients -> Client]'
    BY <1>e DEF Moves, Client
  <2> QED
    BY <2>1, <2>2, <1>i, <1>e DEF CacheTypes
<1>2. Balance'
  BY <1>i, <1>e, <1>m, HeldKept DEF Balance
<1>3. CallInv'
  <2>1. ConnStates'
    BY <1>i, <1>e, <1>m DEF CallInv, ConnStates, Moves, NoConn
  <2>2. Roles'
    <3>1. CASE c = Setter
      <4>1. cl[c].op = "SETEX"
        <5>1. cl[c].op # "none"
          BY <1>i, CommandEffect
        <5> QED
          BY <1>i, <3>1, <5>1 DEF CallInv, Roles
      <4> QED
        BY <1>i, <1>e, <1>o, <1>r, <3>1, <4>1 DEF CallInv, Roles, Moves
    <3>2. CASE c # Setter
      BY <1>i, <1>e, <1>o, <3>2, SetterIsClient DEF CallInv, Roles, Moves
    <3> QED
      BY <3>1, <3>2
  <2>3. Aware'
    <3>1. ASSUME NEW d \in Clients \ {Setter}, Asking(d)'
          PROVE  Asking(d) /\ (cl[d].outage => cl'[d].outage) /\ cl'[d].conn = cl[d].conn /\ cl'[d].pc = cl[d].pc
      BY <3>1, <1>e, <1>m DEF Asking, Moves, Remembers
    <3> QED
      BY <3>1, <1>i, <1>e DEF CallInv, Aware, Alive
  <2>4. InTime'
    <3>1. CASE cl[c].op = "SETEX" /\ Takes("SETEX")
      <4>1. ttl'["hostname"] = 2 /\ missed' = 0
        BY <1>i, <3>1, TakesEffect
      <4> QED
        BY <4>1 DEF InTime
    <3>2. CASE cl[c].op = "SETEX" /\ missed' = OneMore(missed) /\ UNCHANGED ttl
      <4>1. c = Setter
        BY <1>i, <3>2 DEF CallInv, Roles
      <4>2. missed' = IF missed < 2 THEN missed + 1 ELSE missed
        BY <3>2 DEF OneMore
      <4>3. missed = 0 => ttl["hostname"] > 0
        BY <1>i DEF CallInv, InTime
      <4>4. missed' # 0 /\ (missed' = 1 => missed = 0)
        BY <1>t, <4>2
      <4> QED
        BY <3>2, <4>3, <4>4 DEF InTime
    <3>3. ASSUME cl[c].op # "SETEX", missed' = 2 \/ (missed' = missed /\ ttl'["hostname"] = ttl["hostname"])
          PROVE  InTime'
      <4>1. c # Setter
        <5>1. cl[c].op # "none"
          BY <1>i, CommandEffect
        <5> QED
          BY <1>i, <3>3, <5>1 DEF CallInv, Roles
      <4>2. Due' <=> Due
        BY <1>e, <4>1, SetterIsClient DEF Due, Asking, Moves
      <4> QED
        BY <1>i, <3>3, <4>2 DEF CallInv, InTime
    <3>4. CASE cl[c].op # "SETEX" /\ \E op : op # "SETEX" /\ Takes(op)
      BY <1>i, <3>3, <3>4, TakesEffect
    <3> QED
      BY <1>d, <3>1, <3>2, <3>3, <3>4
  <2> QED
    BY <2>1, <2>2, <2>3, <2>4 DEF CallInv
<1> QED
  BY <1>1, <1>2, <1>3 DEF CacheInv, CallInv

\* A tick turns a renewal that is due into one under way.
LEMMA TickStep ==
  ASSUME CacheInv, Tick
  PROVE  CacheInv'
<1>i. CacheParameters /\ CacheTypes /\ Balance /\ CallInv
  BY DEF CacheInv, CacheTypes, CallInv
<1>e. Moves(Setter) /\ Call(Setter, "get", "SETEX", NoConn, "none")
  BY <1>i, TickEffect
<1>u. UNCHANGED <<pool, idle, opened, redisUp, epoch, key, ttl, missed>> /\ cl[Setter].pc = "idle" /\ ticked' = FALSE
  BY DEF Tick, Busy, server, keys
<1>1. CacheTypes'
  BY <1>i, <1>e, <1>u DEF CacheTypes, Moves, Client
<1>2. Balance'
  BY <1>i, <1>e, <1>u, SetterIsClient, HeldKept DEF Balance, CallInv, ConnStates, Call
<1>3. CallInv'
  <2>1. ConnStates'
    BY <1>i, <1>e, SetterIsClient DEF CallInv, ConnStates, Call, Moves, NoConn
  <2>2. Roles'
    BY <1>i, <1>e DEF CallInv, Roles, Call, Moves
  <2>3. Aware'
    BY <1>i, <1>e, <1>u DEF CallInv, Aware, Asking, Alive, Moves
  <2>4. InTime'
    BY <1>i, <1>e, <1>u DEF CallInv, InTime, Due, Asking, Call
  <2> QED
    BY <2>1, <2>2, <2>3, <2>4 DEF CallInv
<1> QED
  BY <1>1, <1>2, <1>3 DEF CacheInv, CallInv

\* What leaves the calls alone keeps what is known of them, as long as the same
\* connections are alive.
LEMMA CallsStay ==
  ASSUME CacheInv, UNCHANGED <<cl, redisUp, epoch>>
  PROVE  ConnStates' /\ Roles' /\ Aware'
  BY DEF CacheInv, ConnStates, Roles, Aware, Asking, Alive, NoConn

\* Each period makes a renewal due and takes one unit from the version, which a
\* renewal in time had left with two.
LEMMA PassStep ==
  ASSUME CacheInv, Pass
  PROVE  CacheInv'
<1>i. CacheParameters /\ CacheTypes /\ Balance /\ CallInv
  BY DEF CacheInv, CacheTypes, CallInv
<1>u. UNCHANGED <<pool, idle, opened, cl, redisUp, epoch, key>> /\ ticked' = TRUE
  BY DEF Pass, server
<1>t. ttl \in [Keys -> 0..3] /\ missed \in 0..2 /\ "hostname" \in Keys
  BY <1>i DEF CacheTypes, Keys
<1>d. /\ ttl' = [k \in Keys |-> IF ttl[k] \in {0, 3} THEN ttl[k] ELSE ttl[k] - 1]
      /\ missed' = (IF Due THEN OneMore(missed) ELSE missed)
  BY DEF Pass, Forever
<1>1. CacheTypes'
  <2>1. ttl' \in [Keys -> 0..3] /\ missed' \in 0..2
    BY <1>d, <1>t DEF OneMore
  <2>2. cl' \in [Clients -> Client]'
    BY <1>i, <1>u DEF CacheTypes, Client
  <2> QED
    BY <1>i, <1>u, <2>1, <2>2 DEF CacheTypes
<1>2. Balance'
  BY <1>i, <1>u, HeldStays DEF Balance
<1>3. InTime'
  <2>1. Due'
    BY <1>u DEF Due
  <2>2. missed' = 0 => missed = 0 /\ ~Due
    BY <1>d, <1>t DEF OneMore
  <2>3. missed = 0 /\ ~Due => ttl["hostname"] > 1
    BY <1>i DEF CallInv, InTime
  <2>4. ttl["hostname"] > 1 => ttl'["hostname"] > 0
    BY <1>d, <1>t
  <2> QED
    BY <2>1, <2>2, <2>3, <2>4 DEF InTime
<1> QED
  BY <1>u, <1>1, <1>2, <1>3, CallsStay DEF CacheInv

\* When Redis goes out of reach, a renewal under way may still have counted.
LEMMA StopStep ==
  ASSUME CacheInv, Stop
  PROVE  CacheInv'
<1>i. CacheParameters /\ CacheTypes /\ Balance /\ CallInv
  BY DEF CacheInv, CacheTypes, CallInv
<1>u. UNCHANGED <<pool, idle, opened, epoch, key, ticked>> /\ epoch <= MaxRestarts /\ redisUp' = FALSE
  BY DEF Stop
<1>e. /\ cl' \in [Clients -> Client]
      /\ \A c \in Clients : Same(c)
      /\ \A c \in Clients \ {Setter} : Asking(c) => cl'[c].outage
  BY <1>i, StopEffect
<1>d. UNCHANGED <<ttl, missed>> \/ \E op : Takes(op)
  BY DEF Stop
<1>t. ttl \in [Keys -> 0..3] /\ missed \in 0..2
  BY <1>i DEF CacheTypes
<1>1. CacheTypes'
  <2>1. ttl' \in [Keys -> 0..3] /\ missed' \in 0..2
    BY <1>d, <1>t, <1>i, TakesEffect
  <2>2. cl' \in [Clients -> Client]'
    BY <1>u, <1>e DEF Client
  <2> QED
    BY <1>i, <1>u, <2>1, <2>2 DEF CacheTypes
<1>2. Balance'
  BY <1>i, <1>e, <1>u, HeldStays DEF Balance, Same, Call
<1>3. CallInv'
  <2>1. ConnStates'
    BY <1>i, <1>e DEF CallInv, ConnStates, Same, Call, NoConn
  <2>2. Roles'
    BY <1>i, <1>e, SetterIsClient DEF CallInv, Roles, Same, Call
  <2>3. Aware'
    BY <1>e DEF Aware, Asking, Same, Call
  <2>4. InTime'
    <3>1. Due' <=> Due
      BY <1>u, <1>e, SetterIsClient DEF Due, Asking, Same, Call
    <3>2. \/ missed' = 2 \/ (missed' = missed /\ ttl'["hostname"] = ttl["hostname"])
          \/ missed' = 0 /\ ttl'["hostname"] = 2
      BY <1>d, <1>i, TakesEffect
    <3> QED
      BY <1>i, <3>1, <3>2 DEF CallInv, InTime
  <2> QED
    BY <2>1, <2>2, <2>3, <2>4 DEF CallInv
<1> QED
  BY <1>1, <1>2, <1>3 DEF CacheInv, CallInv

\* A key that is evicted leaves no claim to the version behind.
LEMMA EvictStep ==
  ASSUME CacheInv, Evict
  PROVE  CacheInv'
<1>i. CacheParameters /\ CacheTypes /\ Balance /\ CallInv
  BY DEF CacheInv, CacheTypes, CallInv
<1>u. UNCHANGED <<pool, idle, opened, cl, redisUp, epoch, key, ticked>>
  BY DEF Evict, server
<1>d. PICK k \in Keys : ttl' = [ttl EXCEPT ![k] = 0] /\ missed' = (IF k = "hostname" THEN 2 ELSE missed)
  BY DEF Evict
<1>t. ttl \in [Keys -> 0..3] /\ missed \in 0..2 /\ "hostname" \in Keys
  BY <1>i DEF CacheTypes, Keys
<1>1. CacheTypes'
  <2>1. ttl' \in [Keys -> 0..3] /\ missed' \in 0..2
    BY <1>d, <1>t
  <2>2. cl' \in [Clients -> Client]'
    BY <1>i, <1>u DEF CacheTypes, Client
  <2> QED
    BY <1>i, <1>u, <2>1, <2>2 DEF CacheTypes
<1>2. Balance'
  BY <1>i, <1>u, HeldStays DEF Balance
<1>3. InTime'
  <2>1. Due' <=> Due
    BY <1>u DEF Due, Asking
  <2>2. missed' = 2 \/ (missed' = missed /\ ttl'["hostname"] = ttl["hostname"])
    BY <1>d, <1>t
  <2> QED
    BY <1>i, <2>1, <2>2 DEF CallInv, InTime
<1> QED
  BY <1>u, <1>1, <1>2, <1>3, CallsStay DEF CacheInv

\* Redis comes back with a new number, so that no old connection is alive.
LEMMA StartStep ==
  ASSUME CacheInv, Start
  PROVE  CacheInv'
<1>i. CacheParameters /\ CacheTypes /\ Balance /\ CallInv
  BY DEF CacheInv, CacheTypes, CallInv
<1>u. UNCHANGED <<pool, idle, opened, cl, key, ticked>> /\ ~redisUp /\ redisUp' = TRUE /\ epoch' = epoch + 1
  BY DEF Start
<1>d. UNCHANGED <<ttl, missed>> \/ (ttl' = [k \in Keys |-> 0] /\ missed' = 2)
  BY DEF Start
<1>1. CacheTypes'
  <2>1. epoch' \in 1..(MaxRestarts + 1) /\ 0..epoch \subseteq 0..epoch' /\ 1..epoch \subseteq 1..epoch'
    BY <1>i, <1>u DEF CacheTypes, CacheParameters
  <2>2. idle' \in Seq(1..epoch') /\ Len(idle') <= MaxIdle
    <3>1. idle \in Seq(1..epoch) /\ Len(idle) <= MaxIdle
      BY <1>i DEF CacheTypes
    <3>2. idle \in Seq(1..epoch')
      BY <2>1, <3>1, SeqMonotonic
    <3> QED
      BY <1>u, <3>1, <3>2
  <2>3. cl' \in [Clients -> Client]'
    <3>1. Client \subseteq Client'
      BY <2>1 DEF Client
    <3> QED
      BY <1>i, <1>u, <3>1 DEF CacheTypes
  <2>4. ttl' \in [Keys -> 0..3] /\ missed' \in 0..2
    BY <1>i, <1>d DEF CacheTypes
  <2> QED
    BY <1>i, <1>u, <2>1, <2>2, <2>3, <2>4 DEF CacheTypes
<1>2. Balance'
  BY <1>i, <1>u, HeldStays DEF Balance
<1>3. CallInv'
  <2>1. ConnStates' /\ Roles'
    BY <1>i, <1>u DEF CallInv, ConnStates, Roles, NoConn
  <2>2. Aware'
    BY <1>i, <1>u DEF CallInv, Aware, Asking, Alive
  <2>3. InTime'
    BY <1>i, <1>u, <1>d DEF CallInv, InTime, Due, Asking
  <2> QED
    BY <2>1, <2>2, <2>3 DEF CallInv
<1> QED
  BY <1>1, <1>2, <1>3 DEF CacheInv, CallInv

\* Every step of the cache keeps its invariant.
LEMMA CacheStep == CacheInv /\ [CacheNext]_(redisVars) => CacheInv'
<1> SUFFICES ASSUME CacheInv, [CacheNext]_(redisVars) PROVE CacheInv'
  OBVIOUS
<1>1. CASE CacheNext
  <2>1. ASSUME NEW c \in Clients, Begin(c) \/ Refuse(c) \/ Serve(c) PROVE CacheInv'
    BY <2>1, BeginStep, RefuseStep, GetStep, PingStep, DialStep, CloseStep, CommandStep, Zenon DEF Serve, Commands
  <2>2. CASE Pass \/ Tick \/ Stop \/ Start \/ Evict
    BY <2>2, PassStep, TickStep, StopStep, StartStep, EvictStep, Zenon
  <2> QED
    BY <1>1, <2>1, <2>2, Zenon DEF CacheNext
<1>2. CASE UNCHANGED redisVars
  <2>u. UNCHANGED <<pool, idle, opened, cl, redisUp, epoch, key, ttl, missed, ticked>>
    BY <1>2 DEF redisVars, server, keys
  <2>1. CacheTypes'
    BY <2>u DEF CacheInv, CacheTypes, Client
  <2>2. Balance'
    BY <2>u, HeldStays DEF CacheInv, Balance
  <2>3. ConnStates' /\ Roles' /\ Aware'
    BY <2>u, CallsStay
  <2>4. InTime'
    BY <2>u DEF CacheInv, InTime, Due, Asking
  <2> QED
    BY <2>1, <2>2, <2>3, <2>4 DEF CacheInv
<1> QED
  BY <1>1, <1>2

\* The invariant contains what the runs check.
LEMMA CacheImplies ==
  CacheInv => TypeOK /\ ConnectionsAccountedFor /\ VersionKeyStays
<1> SUFFICES ASSUME CacheInv
             PROVE  TypeOK /\ ConnectionsAccountedFor /\ VersionKeyStays
  OBVIOUS
<1>s. Len(idle) \in Nat /\ Len(idle) <= MaxIdle /\ MaxIdle \in Nat
  BY DEF CacheInv, CacheTypes, CacheParameters
<1>p. CacheParameters
  BY DEF CacheInv, CacheTypes
<1>b. opened = Len(idle) + Cardinality(Held)
  BY DEF CacheInv, Balance
<1>1. TypeOK
  <2>1. opened \in 0..(MaxIdle + Cardinality(Clients))
    <3>1. Cardinality(Clients) \in Nat
      BY FS_AddElement, FS_CardinalityType DEF Clients, CacheInv, CacheTypes, CacheParameters
    <3> QED
      BY <1>s, <1>b, <1>p, <3>1, HeldFinite
  <2> QED
    BY <2>1, Zenon DEF CacheInv, CacheTypes, TypeOK, Forever
<1>2. ConnectionsAccountedFor
  <2>1. ASSUME \A c \in Clients : ~Busy(c) PROVE opened <= MaxIdle
    <3>1. Held = {}
      BY <2>1 DEF Held, CacheInv, ConnStates, Busy
    <3>2. Cardinality(Held) = 0
      BY <3>1, FS_EmptySet
    <3> QED
      BY <1>s, <1>b, <3>2
  <2> QED
    BY <1>b, <2>1, Zenon DEF ConnectionsAccountedFor, Held
<1>3. VersionKeyStays
  BY DEF CacheInv, InTime, VersionKeyStays
<1> QED
  BY <1>1, <1>2, <1>3

-----------------------------------------------------------------------------
(***************************************************************************)
(* The refinement of KeyService.                                           *)
(***************************************************************************)
\* What a request is asked for, and that it has no reply before it asks.
Asked ==
  \A c \in CacheRequests :
    /\ cl[c].pc = "idle" => cl[c].reply = "none"
    /\ Asking(c) => cl[c].op \in {"SET", "DEL", "EXISTS", "GET"}

ServiceInv == CacheInv /\ Asked

\* What KeyService sees of a call.
Unmoved(d) == /\ cl'[d].pc = cl[d].pc /\ cl'[d].op = cl[d].op /\ cl'[d].reply = cl[d].reply
              /\ cl'[d].outage <=> cl[d].outage

\* The step of one client is nothing to the calls of the others.
LEMMA OthersUnmoved ==
  ASSUME CacheTypes, NEW c \in Clients, Begin(c) \/ Refuse(c) \/ Serve(c), NEW d \in Clients \ {c}
  PROVE  Unmoved(d)
<1>1. cl'[d] = cl[d]
  BY DEF Begin, Refuse, Serve, Get, Ping, Dial, Close, Set, Delete, Exists, Read, SetVersion, Reply, CacheTypes
<1> QED
  BY <1>1 DEF Unmoved

\* On its way to a command, and from EXISTS to GET, a request keeps its question.
LEMMA QuestionKept ==
  ASSUME ServiceInv, NEW c \in CacheRequests,
         Get(c) \/ Ping(c) \/ Dial(c) \/ (Exists(c) /\ Answered(c) /\ Found)
  PROVE  /\ Question(c)' = Question(c) /\ cl'[c].reply = cl[c].reply
         /\ Asking(c) /\ Asking(c)' /\ (cl'[c].outage <=> cl[c].outage)
<1>1. c \in Clients /\ cl[c] \in Client /\ CacheTypes
  BY RequestsAreClients DEF ServiceInv, CacheInv, CacheTypes
<1>2. CASE Get(c) \/ Ping(c) \/ Dial(c)
  <2>1. PICK pc \in {"get", "ping", "dial", "do"} :
          \E conn : cl' = [cl EXCEPT ![c] = [cl[c] EXCEPT !.pc = pc, !.conn = conn]]
    <3>1. CASE Get(c)
      <4>1. PICK n \in 0..Len(idle) : cl' = [cl EXCEPT ![c].pc = IF n > 0 THEN "ping" ELSE "dial",
                                                       ![c].conn = IF n > 0 THEN idle[1] ELSE NoConn]
        BY <3>1 DEF Get
      <4> DEFINE q == IF n > 0 THEN "ping" ELSE "dial"
                 k == IF n > 0 THEN idle[1] ELSE NoConn
      <4>2. cl' = [cl EXCEPT ![c] = [cl[c] EXCEPT !.pc = q, !.conn = k]]
        BY <4>1, <1>1 DEF CacheTypes
      <4>3. q \in {"get", "ping", "dial", "do"}
        OBVIOUS
      <4> HIDE DEF q, k
      <4> QED
        BY <4>2, <4>3
    <3>2. CASE Ping(c)
      <4>1. CASE Alive(cl[c].conn)
        <5>1. cl' = [cl EXCEPT ![c] = [cl[c] EXCEPT !.pc = "do", !.conn = cl[c].conn]]
          BY <3>2, <4>1, <1>1 DEF Ping, CacheTypes, Client
        <5> QED
          BY <5>1
      <4>2. CASE ~Alive(cl[c].conn)
        BY <3>2, <4>2, <1>1 DEF Ping, CacheTypes
      <4> QED
        BY <4>1, <4>2
    <3>3. CASE Dial(c)
      BY <3>3, <1>1 DEF Dial, CacheTypes
    <3> QED
      BY <1>2, <3>1, <3>2, <3>3
  <2>2. PICK conn : cl'[c] = [cl[c] EXCEPT !.pc = pc, !.conn = conn]
    BY <1>1, <2>1 DEF CacheTypes
  <2>3. cl'[c].pc = pc /\ cl'[c].op = cl[c].op /\ cl'[c].reply = cl[c].reply /\ cl'[c].outage = cl[c].outage
    BY <1>1, <2>2 DEF Client
  <2>4. Asking(c)
    BY <1>2 DEF Get, Ping, Dial, Asking
  <2> QED
    BY <2>3, <2>4 DEF Question, Asking
<1>3. CASE Exists(c) /\ Answered(c) /\ Found
  <2>1. cl'[c] = [cl[c] EXCEPT !.op = "GET"]
    BY <1>1, <1>3 DEF Exists, CacheTypes
  <2>2. cl'[c].pc = cl[c].pc /\ cl'[c].op = "GET" /\ cl'[c].reply = cl[c].reply /\ cl'[c].outage = cl[c].outage
    BY <1>1, <2>1 DEF Client
  <2> QED
    BY <1>3, <2>2 DEF Question, Asking, Exists, Doing
<1> QED
  BY <1>2, <1>3

\* What does not move is not seen ...
LEMMA Unseen ==
  ASSUME \A d \in CacheRequests : /\ Question(d)' = Question(d) /\ cl'[d].reply = cl[d].reply
                                  /\ (Asking(d)' /\ cl'[d].outage) <=> (Asking(d) /\ cl[d].outage),
         UNCHANGED <<redisUp, key>>, Found' <=> Found
  PROVE  UNCHANGED Promise!kvars
<1>1. Found' = Found
  BY DEF Found
<1> QED
  BY <1>1 DEF Promise!kvars

\* A step that leaves the keys alone changes nothing of what is found in Redis.
LEMMA KeysStay ==
  ASSUME UNCHANGED <<key, ttl>>
  PROVE  Found' <=> Found
  BY DEF Found

\* ... and the end of a call is the answer that was told.
LEMMA Told ==
  ASSUME NEW c \in CacheRequests, NEW code, cl'[c].pc = "close", cl'[c].reply = code,
         \A d \in CacheRequests \ {c} : Unmoved(d)
  PROVE  Promise!Tell(c, code)
<1> DEFINE W == [d \in CacheRequests |-> Question(d)]
           A == [d \in CacheRequests |-> cl[d].reply]
<1>1. W' = [W EXCEPT ![c] = "none"]
  BY DEF Question, Asking, Unmoved
<1>2. A' = [A EXCEPT ![c] = code]
  BY DEF Unmoved
<1>3. {d \in CacheRequests : Asking(d) /\ cl[d].outage}' = {d \in CacheRequests : Asking(d) /\ cl[d].outage} \ {c}
  BY DEF Asking, Unmoved
<1> QED
  BY <1>1, <1>2, <1>3 DEF Promise!Tell

\* A request begins with a question and without a reply, and keeps both in mind.
LEMMA AskedStep == ServiceInv /\ [CacheNext]_redisVars => Asked'
<1> SUFFICES ASSUME ServiceInv, [CacheNext]_redisVars PROVE Asked'
  OBVIOUS
<1>i. CacheTypes /\ Asked /\ \A d \in CacheRequests : d \in Clients /\ d # Setter
  BY RequestsAreClients DEF ServiceInv, CacheInv, CacheTypes, CacheParameters
<1>k. ASSUME \A d \in CacheRequests : cl'[d].pc = cl[d].pc /\ cl'[d].op = cl[d].op /\ cl'[d].reply = cl[d].reply
      PROVE  Asked'
  BY <1>i, <1>k DEF Asked, Asking
<1>1. ASSUME NEW c \in Clients, Begin(c) \/ Refuse(c) \/ Serve(c)
      PROVE  Asked'
  <2>1. \A d \in CacheRequests \ {c} : cl'[d].pc = cl[d].pc /\ cl'[d].op = cl[d].op /\ cl'[d].reply = cl[d].reply
    BY <1>i, <1>1, OthersUnmoved DEF Unmoved
  <2>2. CASE c = Setter
    BY <1>i, <1>k, <2>1, <2>2
  <2>3. CASE c # Setter
    <3>0. c \in CacheRequests
      BY <1>1, <2>3 DEF Clients
    <3>i. /\ cl[c].pc = "idle" => cl[c].reply = "none"
          /\ Asking(c) => cl[c].op \in {"SET", "DEL", "EXISTS", "GET"}
      BY <1>i, <3>0 DEF Asked
    <3>s. ASSUME /\ cl'[c].pc = "idle" => cl'[c].reply = "none"
                 /\ Asking(c)' => cl'[c].op \in {"SET", "DEL", "EXISTS", "GET"}
          PROVE  Asked'
      BY <1>i, <2>1, <3>s DEF Asked, Asking
    <3>1. CASE Begin(c)
      BY <1>i, <3>1, <3>s, BeginEffect DEF Call, Asking
    <3>2. CASE Refuse(c)
      BY <1>i, <3>2, <3>s, RefuseEffect DEF Call, Asking
    <3>3. CASE Get(c)
      <4>1. PICK n \in 0..Len(idle) : IF n > 0 THEN Call(c, "ping", cl[c].op, idle[1], cl[c].reply)
                                               ELSE Call(c, "dial", cl[c].op, NoConn, cl[c].reply)
        BY <1>i, <3>3, GetEffect
      <4>2. cl[c].pc = "get"
        BY <3>3 DEF Get
      <4> QED
        BY <3>i, <3>s, <4>1, <4>2 DEF Call, Asking
    <3>4. CASE Ping(c)
      <4>1. cl[c].pc = "ping"
        BY <3>4 DEF Ping
      <4> QED
        BY <1>i, <3>i, <3>4, <3>s, <4>1, PingEffect DEF Call, Asking
    <3>5. CASE Dial(c)
      <4>1. cl[c].pc = "dial"
        BY <3>5 DEF Dial
      <4> QED
        BY <1>i, <3>i, <3>5, <3>s, <4>1, DialEffect DEF Call, Asking
    <3>6. CASE Close(c)
      BY <1>i, <3>6, <3>s, CloseEffect DEF Call, Asking
    <3>7. CASE Commands(c)
      <4>1. cl'[c].pc = "close" \/ (cl'[c].pc = "do" /\ cl'[c].op = "GET")
        BY <1>i, <3>7, CommandEffect DEF Ends, Call
      <4> QED
        BY <3>s, <4>1 DEF Asking
    <3> QED
      BY <1>1, <3>1, <3>2, <3>3, <3>4, <3>5, <3>6, <3>7 DEF Serve, Commands
  <2> QED
    BY <2>2, <2>3
<1>2. CASE Tick
  <2>1. \A d \in CacheRequests : cl'[d] = cl[d]
    BY <1>i, <1>2, TickEffect DEF Moves
  <2> QED
    BY <1>k, <2>1
<1>3. CASE Pass \/ Stop \/ Start \/ Evict
  <2>1. CASE Stop
    BY <1>i, <1>k, <2>1, StopEffect DEF Same, Call
  <2>2. CASE cl' = cl
    BY <1>k, <2>2
  <2> QED
    BY <1>3, <2>1, <2>2 DEF Pass, Start, Evict
<1>4. CASE UNCHANGED redisVars
  BY <1>k, <1>4 DEF redisVars
<1> QED
  BY <1>1, <1>2, <1>3, <1>4, Zenon DEF CacheNext

\* A command is the instant at which a request takes effect, except that EXISTS leads a read
\* on to its GET; over a dead connection it fails, and Redis was down then.
LEMMA CommandServes ==
  ASSUME ServiceInv, NEW c \in CacheRequests, Commands(c)
  PROVE  Promise!Apply(c) \/ Promise!Fail(c) \/ UNCHANGED Promise!kvars
<1>i. CacheTypes /\ c \in Clients /\ c # Setter
  BY RequestsAreClients DEF ServiceInv, CacheInv, CacheTypes, CacheParameters
<1>u. UNCHANGED <<redisUp, epoch, key>> /\ cl[c].pc = "do" /\ Asking(c)
  BY <1>i, CommandEffect DEF Asking
<1>o. \A d \in CacheRequests \ {c} : Unmoved(d)
  BY <1>i, OthersUnmoved, RequestsAreClients DEF Commands, Serve
<1>q. /\ cl[c].op \in {"SET", "DEL"} => Question(c) = cl[c].op
      /\ cl[c].op \in {"EXISTS", "GET"} => Question(c) = "EXISTS"
  BY <1>u DEF Question
<1>w. /\ [d \in CacheRequests |-> Question(d)][c] = Question(c)
      /\ ~Answered(c) => c \in {d \in CacheRequests : Asking(d) /\ cl[d].outage}
  BY <1>i, <1>u DEF ServiceInv, CacheInv, Aware, Answered
<1>a. Answered(c) => redisUp
  BY DEF Answered, Alive
<1>f. /\ Takes("SET") => Found' = TRUE
      /\ Takes("DEL") => Found' = FALSE
      /\ UNCHANGED ttl => Found' = Found
  BY <1>i, <1>u, TakesEffect DEF Found
<1>h. UNCHANGED (key = "hostname")
  BY <1>u
<1>e. \A code : Ends(c, code) => Promise!Tell(c, code)
  BY <1>o, Told DEF Ends, Call
<1>1. CASE Set(c)
  <2>0. cl[c].op = "SET"
    BY <1>1 DEF Set, Doing
  <2>1. IF Answered(c) THEN Promise!Tell(c, "202") /\ Found' = TRUE
                       ELSE Promise!Tell(c, "error") /\ Found' = Found
    BY <1>1, <1>i, <2>0, <1>e, <1>f, CommandEffect DEF Commands
  <2> QED
    BY <1>a, <1>h, <1>q, <1>u, <1>w, <2>0, <2>1 DEF Promise!Apply, Promise!Fail
<1>2. CASE Delete(c)
  <2>0. cl[c].op = "DEL"
    BY <1>2 DEF Delete, Doing
  <2>1. IF Answered(c) THEN Promise!Tell(c, "202") /\ Found' = FALSE
                       ELSE Promise!Tell(c, "400") /\ Found' = Found
    BY <1>2, <1>i, <2>0, <1>e, <1>f, CommandEffect DEF Commands
  <2> QED
    BY <1>a, <1>h, <1>q, <1>u, <1>w, <2>0, <2>1 DEF Promise!Apply, Promise!Fail
<1>3. CASE Exists(c)
  <2>0. cl[c].op = "EXISTS" /\ Found' = Found
    BY <1>3, <1>f DEF Exists, Doing, keys
  <2>1. CASE Answered(c) /\ Found
    <3>1. /\ Question(c)' = Question(c) /\ cl'[c].reply = cl[c].reply
          /\ Asking(c)' /\ (cl'[c].outage <=> cl[c].outage)
      BY <1>3, <2>1, QuestionKept
    <3>2. \A d \in CacheRequests \ {c} :
            /\ Question(d)' = Question(d) /\ cl'[d].reply = cl[d].reply
            /\ (Asking(d)' /\ cl'[d].outage) <=> (Asking(d) /\ cl[d].outage)
      BY <1>o DEF Unmoved, Question, Asking
    <3> QED
      BY <1>u, <2>0, <3>1, <3>2, Unseen
  <2>2. CASE ~(Answered(c) /\ Found)
    <3>1. Promise!Tell(c, "404")
      <4>1. cl' = Reply(c, "404")
        BY <1>3, <2>2 DEF Exists
      <4> QED
        BY <4>1, <1>e, <1>i, ReplyEffect DEF Ends
    <3> QED
      BY <1>a, <1>h, <1>q, <1>u, <1>w, <2>0, <2>2, <3>1 DEF Promise!Apply, Promise!Fail
  <2> QED
    BY <2>1, <2>2
<1>4. CASE Read(c)
  <2>0. cl[c].op = "GET" /\ Found' = Found
    BY <1>4, <1>f DEF Read, Doing, keys
  <2>1. Ends(c, IF Answered(c) /\ Found THEN "200" ELSE "500")
    <3>1. cl' = Reply(c, IF Answered(c) /\ Found THEN "200" ELSE "500")
      BY <1>4 DEF Read
    <3> QED
      BY <3>1, <1>i, ReplyEffect DEF Ends
  <2>2. CASE Answered(c) /\ Found
    <3>1. Promise!Tell(c, "200")
      BY <1>e, <2>1, <2>2
    <3> QED
      BY <1>a, <1>h, <1>q, <1>u, <1>w, <2>0, <2>2, <3>1 DEF Promise!Apply
  <2>3. CASE ~(Answered(c) /\ Found)
    <3>1. Promise!Tell(c, "500")
      BY <1>e, <2>1, <2>3
    <3> QED
      BY <1>a, <1>h, <1>q, <1>u, <1>w, <2>0, <2>3, <3>1 DEF Promise!Apply, Promise!Fail
  <2> QED
    BY <2>2, <2>3
<1>5. CASE SetVersion(c)
  BY <1>i, <1>5 DEF SetVersion, Doing, ServiceInv, CacheInv, Roles
<1> QED
  BY <1>1, <1>2, <1>3, <1>4, <1>5 DEF Commands

\* A request begins, is refused, or is forgotten once it has its reply.
LEMMA HandlerServes ==
  ASSUME ServiceInv, NEW c \in CacheRequests, Begin(c) \/ Refuse(c) \/ Close(c)
  PROVE  Promise!Ask(c) \/ Promise!Decline(c) \/ Promise!Forget(c)
<1> DEFINE W == [d \in CacheRequests |-> Question(d)]
           A == [d \in CacheRequests |-> cl[d].reply]
           X == {d \in CacheRequests : Asking(d) /\ cl[d].outage}
<1>i. CacheTypes /\ c \in Clients /\ cl[c].pc \in {"idle", "close"} /\ (cl[c].pc = "idle" => cl[c].reply = "none")
  BY RequestsAreClients DEF ServiceInv, CacheInv, Asked, Begin, Refuse, Close, Busy
<1>u. UNCHANGED <<redisUp, key, ttl>>
  BY DEF Begin, Refuse, Close, server, keys
<1>f. Found' = Found /\ UNCHANGED (key = "hostname")
  BY <1>u DEF Found
<1>o. \A d \in CacheRequests \ {c} : Unmoved(d)
  BY <1>i, OthersUnmoved, RequestsAreClients DEF Serve
<1>w. W[c] = "none" /\ A[c] = cl[c].reply /\ c \notin X
  BY <1>i DEF Question, Asking
<1>1. CASE Begin(c)
  <2>1. PICK op \in {"SET", "DEL", "EXISTS"} :
          cl' = [cl EXCEPT ![c] = [Fresh EXCEPT !.pc = "get", !.op = op, !.outage = ~redisUp]]
    BY <1>1 DEF Begin
  <2>2. cl'[c].pc = "get" /\ cl'[c].op = op /\ cl'[c].reply = "none" /\ cl'[c].outage = ~redisUp
    BY <1>i, <2>1 DEF CacheTypes, Fresh
  <2>3. W' = [W EXCEPT ![c] = op]
    <3>1. Question(c)' = op
      BY <2>2 DEF Question, Asking
    <3>2. \A d \in CacheRequests \ {c} : Question(d)' = Question(d)
      BY <1>o DEF Question, Asking, Unmoved
    <3> QED
      BY <3>1, <3>2
  <2>4. A' = A
    BY <1>i, <1>o, <1>1, <2>2 DEF Unmoved, Begin, Busy
  <2>5. X' = X \cup (IF redisUp THEN {} ELSE {c})
    BY <1>o, <1>w, <2>2 DEF Asking, Unmoved
  <2>6. cl[c].pc = "idle"
    BY <1>1 DEF Begin, Busy
  <2> HIDE DEF W, A, X
  <2>7. Promise!Ask(c)
    BY <1>f, <1>i, <1>u, <1>w, <2>3, <2>4, <2>5, <2>6 DEF Promise!Ask, Promise!Idle, W, A, X
  <2> QED
    BY <2>7
<1>2. CASE Refuse(c)
  <2>1. cl'[c].pc = "close" /\ cl'[c].reply = "error" /\ cl[c].pc = "idle"
    BY <1>i, <1>2, RefuseEffect DEF Call, Refuse, Busy
  <2>2. W' = W /\ X' = X
    BY <1>o, <2>1 DEF Question, Asking, Unmoved
  <2>3. A' = [A EXCEPT ![c] = "error"]
    BY <1>o, <2>1 DEF Unmoved
  <2> QED
    BY <1>f, <1>i, <1>u, <1>w, <2>1, <2>2, <2>3 DEF Promise!Decline, Promise!Idle
<1>3. CASE Close(c)
  <2>1. cl'[c].pc = "idle" /\ cl'[c].reply = "none" /\ cl[c].pc = "close"
    BY <1>i, <1>3, CloseEffect DEF Call, Close
  <2>2. W' = W /\ X' = X
    BY <1>o, <2>1 DEF Question, Asking, Unmoved
  <2>3. A' = [A EXCEPT ![c] = "none"]
    BY <1>o, <2>1 DEF Unmoved
  <2> QED
    BY <1>f, <1>u, <2>2, <2>3 DEF Promise!Forget
<1> QED
  BY <1>1, <1>2, <1>3

\* Redis goes out of reach, possibly with a command done whose reply is lost; it
\* comes back, evicts a key, or lets one expire.
LEMMA RedisServes ==
  ASSUME ServiceInv, Stop \/ Start \/ Evict \/ Pass
  PROVE  [Promise!Next]_(Promise!kvars)
<1>i. /\ CacheTypes /\ \A d \in CacheRequests : d \in Clients /\ d # Setter /\ cl[d] \in Client
      /\ \A d \in CacheRequests : Asking(d) => cl[d].op \in {"SET", "DEL", "EXISTS", "GET"}
  BY RequestsAreClients DEF ServiceInv, CacheInv, CacheTypes, CacheParameters, Asked
<1>k. UNCHANGED key /\ UNCHANGED (key = "hostname")
  BY DEF Stop, Start, Evict, Pass
<1>c. ASSUME cl' = cl
      PROVE  /\ \A d \in CacheRequests : /\ Question(d)' = Question(d) /\ cl'[d].reply = cl[d].reply
                                          /\ (Asking(d)' /\ cl'[d].outage) <=> (Asking(d) /\ cl[d].outage)
             /\ UNCHANGED <<[d \in CacheRequests |-> Question(d)], [d \in CacheRequests |-> cl[d].reply],
                            {d \in CacheRequests : Asking(d) /\ cl[d].outage}>>
  BY <1>c DEF Question, Asking
<1>1. CASE Stop
  <2>1. redisUp /\ ~redisUp' /\ (UNCHANGED <<ttl, missed>> \/ \E c \in Clients : cl[c].pc = "do" /\ Takes(cl[c].op))
    BY <1>1 DEF Stop
  <2>2. \A d \in CacheRequests : /\ cl'[d].pc = cl[d].pc /\ cl'[d].op = cl[d].op /\ cl'[d].reply = cl[d].reply
                                 /\ Asking(d) => cl'[d].outage
    BY <1>1, <1>i, StopEffect DEF Same, Call
  <2>3. \A d \in CacheRequests : /\ Question(d)' = Question(d) /\ (Asking(d)' <=> Asking(d))
                                 /\ Asking(d) <=> Question(d) # "none"
    BY <1>i, <2>2 DEF Question, Asking
  <2>4. /\ UNCHANGED <<[d \in CacheRequests |-> Question(d)], [d \in CacheRequests |-> cl[d].reply]>>
        /\ {d \in CacheRequests : Asking(d) /\ cl[d].outage}' =
             {d \in CacheRequests : [e \in CacheRequests |-> Question(e)][d] # "none"}
    BY <2>2, <2>3
  <2>5. \/ Found' = Found
        \/ Found' = FALSE /\ \E d \in CacheRequests : [e \in CacheRequests |-> Question(e)][d] = "DEL"
        \/ Found' = TRUE /\ (key = "hostname" \/ \E d \in CacheRequests : [e \in CacheRequests |-> Question(e)][d] = "SET")
    <3>1. CASE UNCHANGED ttl
      BY <1>k, <3>1 DEF Found
    <3>2. ASSUME NEW c \in Clients, cl[c].pc = "do", Takes(cl[c].op)
          PROVE  \/ Found' = Found
                 \/ Found' = FALSE /\ \E d \in CacheRequests : Question(d) = "DEL"
                 \/ Found' = TRUE /\ (key = "hostname" \/ \E d \in CacheRequests : Question(d) = "SET")
      <4>1. CASE cl[c].op \in {"SET", "DEL"}
        <5>1. c \in CacheRequests
          BY <4>1 DEF ServiceInv, CacheInv, Roles, Clients
        <5>2. Question(c) = cl[c].op
          BY <3>2, <4>1 DEF Question, Asking
        <5> QED
          BY <1>i, <1>k, <3>2, <4>1, <5>1, <5>2, TakesEffect DEF Found
      <4>2. CASE cl[c].op = "SETEX"
        BY <1>i, <1>k, <3>2, <4>2, TakesEffect DEF Found
      <4>3. CASE cl[c].op \notin {"SET", "DEL", "SETEX"}
        <5>1. ttl' = ttl
          BY <1>i, <3>2, <4>3, TakesEffect
        <5> QED
          BY <1>k, <5>1 DEF Found
      <4> QED
        BY <4>1, <4>2, <4>3
    <3>3. \A d \in CacheRequests : [e \in CacheRequests |-> Question(e)][d] = Question(d)
      OBVIOUS
    <3> QED
      BY <2>1, <3>1, <3>2, <3>3
  <2>6. Promise!GoDown
    BY <1>k, <2>1, <2>4, <2>5, Zenon DEF Promise!GoDown
  <2> QED
    BY <2>6 DEF Promise!Next
<1>2. CASE Start
  <2>1. ~redisUp /\ redisUp' /\ cl' = cl /\ (UNCHANGED ttl \/ ttl' = [k \in Keys |-> 0])
    BY <1>2 DEF Start
  <2>2. Found' = Found \/ Found' = FALSE
    BY <1>i, <1>k, <2>1 DEF Found, CacheTypes
  <2>3. Promise!ComeUp
    BY <1>c, <1>k, <2>1, <2>2, Zenon DEF Promise!ComeUp
  <2> QED
    BY <2>3 DEF Promise!Next
<1>3. CASE Evict \/ Pass
  <2>1. redisUp' = redisUp /\ cl' = cl
    BY <1>3 DEF Evict, Pass, server
  <2>2. CASE ~Found'
    <3>1. Promise!Lose
      BY <1>c, <1>k, <2>1, <2>2, Zenon DEF Promise!Lose
    <3> QED
      BY <3>1 DEF Promise!Next
  <2>3. CASE Found'
    <3>1. Found
      <4>1. ttl \in [Keys -> 0..3] /\ key \in Keys
        BY <1>i DEF CacheTypes
      <4>2. CASE Evict
        <5>1. PICK k \in Keys : ttl' = [ttl EXCEPT ![k] = 0]
          BY <4>2 DEF Evict
        <5> QED
          BY <1>k, <2>3, <4>1, <5>1 DEF Found
      <4>3. CASE Pass
        <5>1. ttl'[key] = IF ttl[key] \in {0, Forever} THEN ttl[key] ELSE ttl[key] - 1
          BY <4>1, <4>3 DEF Pass
        <5> QED
          BY <1>k, <2>3, <4>1, <5>1 DEF Found
      <4> QED
        BY <1>3, <4>2, <4>3
    <3> QED
      BY <1>c, <1>k, <2>1, <2>3, <3>1, Unseen
  <2> QED
    BY <2>2, <2>3
<1> QED
  BY <1>1, <1>2, <1>3

\* Every step of the cache is a step of the service, or is not seen by those who ask.
LEMMA ServiceStep == ServiceInv /\ [CacheNext]_redisVars => [Promise!Next]_(Promise!kvars)
<1> SUFFICES ASSUME ServiceInv, [CacheNext]_redisVars PROVE [Promise!Next]_(Promise!kvars)
  OBVIOUS
<1>i. CacheTypes /\ \A d \in CacheRequests : d \in Clients /\ d # Setter
  BY RequestsAreClients DEF ServiceInv, CacheInv, CacheTypes, CacheParameters
<1>1. ASSUME NEW c \in Clients, Begin(c) \/ Refuse(c) \/ Serve(c)
      PROVE  [Promise!Next]_(Promise!kvars)
  <2>o. \A d \in CacheRequests \ {c} :
          /\ Question(d)' = Question(d) /\ cl'[d].reply = cl[d].reply
          /\ (Asking(d)' /\ cl'[d].outage) <=> (Asking(d) /\ cl[d].outage)
    BY <1>i, <1>1, OthersUnmoved DEF Unmoved, Question, Asking
  <2>1. CASE c = Setter
    <3>1. ~Begin(c) /\ ~Refuse(c)
      BY <2>1 DEF Begin, Refuse
    <3>2. ~Set(c) /\ ~Delete(c)
      BY <2>1 DEF ServiceInv, CacheInv, Roles, Set, Delete, Doing
    <3>3. UNCHANGED <<redisUp, key>>
      BY <1>1, <3>1, <3>2 DEF Serve, Get, Ping, Dial, Close, Exists, Read, SetVersion, server, keys
    <3>4. CASE UNCHANGED ttl
      BY <1>i, <2>1, <2>o, <3>3, <3>4, KeysStay, Unseen
    <3>5. CASE SetVersion(c) /\ Answered(c)
      <4>1. Takes("SETEX") /\ redisUp
        BY <3>5 DEF SetVersion, Answered, Alive
      <4>2. ttl'[key] = ttl[key] \/ (key = "hostname" /\ ttl'[key] > 0)
        BY <1>i, <4>1, TakesEffect
      <4>3. CASE ttl'[key] = ttl[key]
        <5>1. Found' <=> Found
          BY <3>3, <4>3 DEF Found
        <5> QED
          BY <1>i, <2>1, <2>o, <3>3, <5>1, Unseen
      <4>4. CASE key = "hostname" /\ ttl'[key] > 0
        <5>1. /\ UNCHANGED <<[d \in CacheRequests |-> Question(d)], [d \in CacheRequests |-> cl[d].reply],
                             {d \in CacheRequests : Asking(d) /\ cl[d].outage}>>
              /\ UNCHANGED <<redisUp, (key = "hostname")>> /\ Found'
          BY <1>i, <2>1, <2>o, <3>3, <4>4 DEF Found
        <5>2. Promise!Provide
          BY <4>1, <4>4, <5>1, Zenon DEF Promise!Provide
        <5> QED
          BY <5>2 DEF Promise!Next
      <4> QED
        BY <4>2, <4>3, <4>4
    <3> QED
      BY <1>1, <3>1, <3>2, <3>4, <3>5, Zenon DEF Serve, Get, Ping, Dial, Close, Exists, Read, SetVersion, keys
  <2>2. CASE c \in CacheRequests
    <3>1. CASE Commands(c)
      BY <2>2, <3>1, CommandServes DEF Promise!Next
    <3>2. CASE Begin(c) \/ Refuse(c) \/ Close(c)
      BY <2>2, <3>2, HandlerServes DEF Promise!Next
    <3>3. CASE Get(c) \/ Ping(c) \/ Dial(c)
      <4>1. UNCHANGED <<redisUp, key, ttl>>
        BY <3>3 DEF Get, Ping, Dial, server, keys
      <4> QED
        BY <2>2, <2>o, <3>3, <4>1, KeysStay, QuestionKept, Unseen
    <3> QED
      BY <1>1, <3>1, <3>2, <3>3 DEF Serve, Commands
  <2> QED
    BY <2>1, <2>2 DEF Clients
<1>2. CASE Tick
  <2>1. \A d \in CacheRequests : cl'[d] = cl[d]
    BY <1>i, <1>2 DEF Tick, CacheTypes
  <2>2. UNCHANGED <<redisUp, key, ttl>>
    BY <1>2 DEF Tick, server, keys
  <2> QED
    BY <2>1, <2>2, KeysStay, Unseen DEF Question, Asking
<1>3. CASE Pass \/ Stop \/ Start \/ Evict
  BY <1>3, RedisServes
<1>4. CASE UNCHANGED redisVars
  BY <1>4, KeysStay, Unseen DEF redisVars, server, keys, Question, Asking
<1> QED
  BY <1>1, <1>2, <1>3, <1>4, Zenon DEF CacheNext

\* Nothing has been asked at the start.
LEMMA ServiceInitially == CacheParameters /\ Init => ServiceInv /\ Promise!Init
<1> SUFFICES ASSUME CacheParameters, Init PROVE ServiceInv /\ Promise!Init
  OBVIOUS
<1>1. \A c \in CacheRequests : cl[c] = Fresh
  BY DEF Init, Clients, CacheParameters
<1>2. Asked
  BY <1>1 DEF Asked, Asking, Fresh
<1>3. \A c \in CacheRequests : ~Asking(c) /\ Question(c) = "none" /\ cl[c].reply = "none"
  BY <1>1 DEF Question, Asking, Fresh
<1>4. redisUp \in BOOLEAN /\ Found = FALSE /\ (key = "hostname") \in BOOLEAN
  BY DEF Init, Found
<1>5. [c \in CacheRequests |-> Question(c)] = [c \in CacheRequests |-> "none"]
  BY <1>3
<1>6. [c \in CacheRequests |-> cl[c].reply] = [c \in CacheRequests |-> "none"]
  BY <1>3
<1>7. {c \in CacheRequests : Asking(c) /\ cl[c].outage} = {}
  BY <1>3
<1>8. Promise!Init
  BY <1>4, <1>5, <1>6, <1>7, Zenon DEF Promise!Init
<1> QED
  BY <1>2, <1>8, CacheInitially DEF ServiceInv

\* The invariant of the service is that of the cache, and what is asked.
LEMMA ServiceKept == ServiceInv /\ [CacheNext]_redisVars => ServiceInv'
  BY CacheStep, AskedStep DEF ServiceInv

(* The handlers are an atomic service of one key, though a read is two     *)
(* commands, connections die in the pool, and any number of requests share *)
(* them.                                                                   *)
THEOREM CacheServesAtomically ==
  ASSUME CacheParameters
  PROVE  CacheSpec => ServesAtomically
<1>1. Init => ServiceInv /\ Promise!Init
  BY ServiceInitially
<1>2. ServiceInv /\ [CacheNext]_redisVars => ServiceInv' /\ [Promise!Next]_(Promise!kvars)
  BY ServiceKept, ServiceStep
<1> QED
  BY <1>1, <1>2, PTL DEF CacheSpec, ServesAtomically, Promise!Spec

(* No connection leaks, and the version outlasts a renewal that hangs or   *)
(* fails, through any interleaving of the clients with each other and with *)
(* outages, evictions and the passing of time.                             *)
THEOREM CacheCorrect ==
  ASSUME CacheParameters
  PROVE  CacheSpec => [](TypeOK /\ ConnectionsAccountedFor /\ VersionKeyStays)
<1>1. Init => CacheInv
  BY CacheInitially
<1>2. CacheInv /\ [CacheNext]_redisVars => CacheInv'
  BY CacheStep
<1>3. CacheInv => TypeOK /\ ConnectionsAccountedFor /\ VersionKeyStays
  BY CacheImplies
<1> QED
  BY <1>1, <1>2, <1>3, PTL DEF CacheSpec
=============================================================================
