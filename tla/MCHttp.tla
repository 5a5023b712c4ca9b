-------------------------------- MODULE MCHttp --------------------------------
(***************************************************************************)
(* What the HTTP server does with requests, for TLC: the router, the small *)
(* handlers behind their middlewares, and the handlers of /cache, /store   *)
(* and /token.  These share no state, so one run explores them one at a    *)
(* time: part says which, and the others rest in an initial state.         *)
(***************************************************************************)
EXTENDS HttpReply, TLC

CONSTANTS r1, r2, Uris, CacheRequests, Setter, MaxIdle, MaxRestarts,
          Uploads, Downloads, Size, Starts, MaxTime

ASSUME CacheAssumption ==
  IsFiniteSet(CacheRequests) /\ Setter \notin CacheRequests /\ MaxIdle \in Nat /\ MaxRestarts \in Nat
ASSUME FilesAssumption == Size \in Nat
ASSUME TokensAssumption == Starts \subseteq Nat /\ MaxTime \in Nat

\* Bounds that can exceed the shortest server timeout, and equal ones, which
\* the check at start-up lets through.
SomeDelays == {<<4, 6>>, <<2, 2>>}

\* Every option alone, and random delays together with random errors; the
\* timeout of 5 s is one that a delay can exceed.
SomeConfigs ==
  [delay : {<<>>}, error : {FALSE}, timeout : ServerTimeouts]
    \cup [delay : {<<>>, <<4, 6>>}, error : {TRUE}, timeout : {5}]
    \cup [delay : {<<2, 2>>}, error : {FALSE}, timeout : {5}]

\* Nothing tells the two requests apart.
Symmetric == Permutations({r1, r2})

VARIABLES
  part,
  request, at, mismatch, outcome, label,
  pool, idle, opened, cl, redisUp, epoch, key, ttl, ticked, missed,
  exists, size, good, alive, wr, rd, torn, stored,
  now, token, sent, http, grpc

Router == INSTANCE Routes
Cache  == INSTANCE RedisCache
Files  == INSTANCE Store
Jwt    == INSTANCE Tokens

routerVars == <<request, at, mismatch, outcome, label>>
cacheVars  == <<pool, idle, opened, cl, redisUp, epoch, key, ttl, ticked, missed>>
fileVars   == <<exists, size, good, alive, wr, rd, torn, stored>>
jwtVars    == <<now, token, sent, http, grpc>>
allVars    == <<part, vars, routerVars, cacheVars, fileVars, jwtVars>>

\* Two requests share a key while time stands still; one at a time does while it
\* passes, and then the key may be that of the version.
CacheParts == {"cache", "version"}
OneAtATime == \A c, d \in CacheRequests : Cache!Busy(c) /\ Cache!Busy(d) => c = d

MCInit ==
  /\ part \in {"router", "reply", "files", "jwt"} \cup CacheParts
  /\ Cache!Init
  /\ part \notin CacheParts => ~pool /\ redisUp
  /\ part # "version" => key = "own"
  /\ Init /\ config \in SomeConfigs
  /\ part # "reply" => config = CHOOSE c \in [delay : {<<>>}, error : BOOLEAN, timeout : ServerTimeouts] : TRUE
  /\ Router!Init
  /\ part # "router" => request = CHOOSE q \in Router!Arrivals : TRUE
  /\ Files!Init /\ Jwt!Init

MCNext ==
  /\ UNCHANGED part
  /\ \/ part = "reply" /\ Next /\ UNCHANGED <<routerVars, cacheVars, fileVars, jwtVars>>
     \/ part = "router" /\ Router!Next /\ UNCHANGED <<vars, cacheVars, fileVars, jwtVars>>
     \/ /\ part \in CacheParts /\ Cache!CacheNext
        /\ part = "cache" => ~ticked'
        /\ part = "version" => OneAtATime'
        /\ UNCHANGED <<vars, routerVars, fileVars, jwtVars>>
     \/ part = "files" /\ Files!StoreNext /\ UNCHANGED <<vars, routerVars, cacheVars, jwtVars>>
     \/ part = "jwt" /\ Jwt!TokenNext /\ UNCHANGED <<vars, routerVars, cacheVars, fileVars>>

MCSpec == MCInit /\ [][MCNext]_allVars

-----------------------------------------------------------------------------
(* The types of the part at work.                                          *)
HttpTypes ==
  CASE part = "reply"  -> TypeOK
    [] part = "router" -> Router!TypeOK
    [] part = "files"  -> Files!TypeOK
    [] part = "jwt"    -> Jwt!TypeOK
    [] OTHER           -> Cache!TypeOK

(* Every documented operation but one reaches the handler that documents   *)
(* it, and only browsers get the page at /.                                *)
DocumentedOperationsReachTheirHandler ==
  part = "router" => Router!DocumentedOperationsReachTheirHandler

(* The labels of measured requests are the routes' own, whatever clients   *)
(* write.                                                                  *)
LabelsAreBounded == part = "router" => Router!LabelsAreBounded

(* A cache request takes effect at one instant, or fails for an outage.    *)
ServesAtomically == Cache!ServesAtomically

(* Connections to Redis are idle or in use, and none leaks.                *)
ConnectionsAccountedFor == part \in CacheParts => Cache!ConnectionsAccountedFor

(* The version of an instance outlasts a renewal that hangs or fails.      *)
VersionKeyStays == part \in CacheParts => Cache!VersionKeyStays

(* Downloads are whole unless an upload of the same content disturbs them. *)
DownloadsAreWhole == part = "files" => Files!DownloadsAreWhole

(* A token is accepted for its minute and no longer, by both servers.      *)
TokensLastAMinute == Jwt!TokensLastAMinute
=============================================================================
