------------------------------- MODULE Routes -------------------------------
(***************************************************************************)
(* The router of the HTTP server: the routes in the order in which         *)
(* registerHandlers adds them, the match that gorilla/mux makes of a       *)
(* request, the label under which the request is measured, and the         *)
(* operations that the API document served at /swagger.json promises.      *)
(*                                                                         *)
(* The path of a request is named by the pattern it satisfies: no path     *)
(* satisfies two different patterns of this table.                         *)
(***************************************************************************)
EXTENDS Naturals, Sequences

CONSTANT Uris   \* request URIs as the client wrote them, parameters included

Methods == {"GET", "POST", "PUT", "DELETE", "HEAD"}

Route(path, methods, handler, agent, name, label) ==
  [path |-> path, methods |-> methods, handler |-> handler, agent |-> agent, name |-> name, label |-> label]

On(path, methods, handler)          == Route(path, methods, handler, "", "", path)
ForBrowsers(path, methods, handler) == Route(path, methods, handler, "Mozilla", "", path)
Named(name, path, methods, handler) == Route(path, methods, handler, "", name, name)

OperationalRoutes ==
  <<On("/metrics", Methods, "metrics"), On("/debug/pprof/", Methods, "pprof"),
    ForBrowsers("/", {"GET"}, "index"),
    On("/", {"GET"}, "info"), On("/version", {"GET"}, "version"),
    On("/echo", Methods, "echo"), On("/echo/", Methods, "echo"),
    On("/env", {"GET", "POST"}, "env"), On("/headers", {"GET", "POST"}, "headers"),
    Named("delay", "/delay/{wait}", {"GET"}, "delay"),
    On("/healthz", {"GET"}, "healthz"), On("/readyz", {"GET"}, "readyz"),
    On("/readyz/enable", {"POST"}, "enableReady"), On("/readyz/disable", {"POST"}, "disableReady"),
    On("/panic", {"GET"}, "panic"),
    Named("status", "/status/{code}", {"GET", "POST", "PUT"}, "status")>>

DataRoutes ==
  <<On("/store", {"POST", "PUT"}, "storeWrite"), Named("store", "/store/{hash}", {"GET"}, "storeRead"),
    On("/cache/{key}", {"POST", "PUT"}, "cacheWrite"), On("/cache/{key}", {"DELETE"}, "cacheDelete"),
    Named("cache", "/cache/{key}", {"GET"}, "cacheRead"),
    On("/configs", {"GET"}, "configRead"), On("/token", {"POST"}, "tokenGenerate"),
    On("/token/validate", {"GET"}, "tokenValidate"), On("/api/info", {"GET"}, "info"),
    On("/api/echo", Methods, "echo"), On("/api/echo/", Methods, "echo"),
    On("/ws/echo", Methods, "echoWs"), On("/chunked", Methods, "chunked"),
    On("/chunked/{wait}", Methods, "chunked"), On("/swagger/", Methods, "swagger"),
    On("/swagger.json", Methods, "swaggerJson")>>

\* Mutant: info comes before index.
registerHandlers_info_first ==
  LET r == OperationalRoutes IN [r EXCEPT ![3] = r[4], ![4] = r[3]] \o DataRoutes

registerHandlers == OperationalRoutes \o DataRoutes

Routed == 1..Len(registerHandlers)
Paths  == {registerHandlers[i].path : i \in Routed}
Arrivals == [path : Paths \cup {"/unknown"}, method : Methods, browser : BOOLEAN, uri : Uris]

(***************************************************************************)
(* urlToLabel lowers the case, turns every run of other characters into    *)
(* one underscore and trims them, so that only these patterns share a      *)
(* label with another pattern or with a route name.                        *)
(***************************************************************************)
urlToLabel(path) ==
  CASE path \in {"/echo", "/echo/"} -> "echo"
    [] path \in {"/api/echo", "/api/echo/"} -> "api_echo"
    [] path = "/store" -> "store"
    [] path = "/" -> "root"
    [] OTHER -> path

\* Mutant: the path of the request is the label.
getRouteName_uri(route, req) == IF route.name # "" THEN route.name ELSE req.uri

\* The name of the matched route, else its template.
getRouteName(route, request) ==
  IF route.name # "" THEN route.name ELSE urlToLabel(route.label)

-----------------------------------------------------------------------------
VARIABLES
  request,   \* the request being dispatched
  at,        \* the next route to try
  mismatch,  \* a route with this path but other methods was seen
  outcome,   \* the handler that got the request, or why none did
  label      \* the path label of the request's metrics, "" if it has none

vars == <<request, at, mismatch, outcome, label>>

NotFound == "404 page not found"
NotAllowed == "405 method not allowed"
Handlers == {registerHandlers[i].handler : i \in Routed}
Labels == {urlToLabel(registerHandlers[i].label) : i \in Routed} \cup {"delay", "status", "cache"}

TypeOK ==
  /\ request \in Arrivals
  /\ at \in 1..(Len(registerHandlers) + 1)
  /\ mismatch \in BOOLEAN
  /\ outcome \in Handlers \cup {NotFound, NotAllowed, "open"}

Init ==
  /\ request \in Arrivals
  /\ at = 1
  /\ mismatch = FALSE
  /\ outcome = "open"
  /\ label = ""

\* Path and headers are compared before the method.
Fits(route) == route.path = request.path /\ (route.agent = "Mozilla" => request.browser)

TakeRoute ==
  /\ outcome = "open" /\ at \in Routed
  /\ LET route == registerHandlers[at]
     IN  /\ Fits(route) /\ request.method \in route.methods
         /\ outcome' = route.handler
         /\ label' = getRouteName(route, request)
  /\ UNCHANGED <<request, at, mismatch>>

SkipRoute ==
  /\ outcome = "open" /\ at \in Routed
  /\ LET route == registerHandlers[at]
     IN  /\ ~(Fits(route) /\ request.method \in route.methods)
         /\ mismatch' = (mismatch \/ Fits(route))
  /\ at' = at + 1
  /\ UNCHANGED <<request, outcome, label>>

\* No middleware runs for a request without a route.
NoRoute ==
  /\ outcome = "open" /\ at \notin Routed
  /\ outcome' = (IF mismatch THEN NotAllowed ELSE NotFound)
  /\ UNCHANGED <<request, at, mismatch, label>>

Next == TakeRoute \/ SkipRoute \/ NoRoute
Spec == Init /\ [][Next]_vars

-----------------------------------------------------------------------------
(* The document: path, method and handler that carries the annotation.     *)
DocumentedEcho ==
  {<<"/", "GET", {"index", "info"}>>, <<"/api/echo", "POST", {"echo"}>>, <<"/api/info", "GET", {"info"}>>}

DocumentedCache ==
  {<<"/cache/{key}", "GET", {"cacheRead"}>>, <<"/cache/{key}", "POST", {"cacheWrite"}>>,
   <<"/cache/{key}", "DELETE", {"cacheDelete"}>>, <<"/chunked/{wait}", "GET", {"chunked"}>>,
   <<"/delay/{wait}", "GET", {"delay"}>>}

DocumentedProbes ==
  {<<"/env", "GET", {"env"}>>, <<"/headers", "GET", {"headers"}>>, <<"/healthz", "GET", {"healthz"}>>,
   <<"/metrics", "GET", {"metrics"}>>, <<"/panic", "GET", {"panic"}>>, <<"/readyz", "GET", {"readyz"}>>}

DocumentedFlags ==
  {<<"/readyz/disable", "POST", {"disableReady"}>>, <<"/readyz/enable", "POST", {"enableReady"}>>,
   <<"/status/{code}", "GET", {"status"}>>, <<"/store", "POST", {"storeWrite"}>>,
   <<"/store/{hash}", "GET", {"storeRead"}>>}

DocumentedTokens ==
  {<<"/token", "POST", {"tokenGenerate"}>>, <<"/token/validate", "POST", {"tokenValidate"}>>,
   <<"/version", "GET", {"version"}>>, <<"/ws/echo", "POST", {"echoWs"}>>}

Documented ==
  UNION {DocumentedEcho, DocumentedCache, DocumentedProbes, DocumentedFlags, DocumentedTokens}

Reaches(operation) ==
  (outcome # "open" /\ request.path = operation[1] /\ request.method = operation[2])
     => outcome \in operation[3]

-----------------------------------------------------------------------------
(* Every documented operation but POST /token/validate reaches the handler *)
(* that documents it, whatever was registered before it: /, /cache/{key}   *)
(* and /store depend on the order and the methods of several routes.  The  *)
(* page and the JSON answer share GET /: only a browser gets the page.     *)
DocumentedOperationsReachTheirHandler ==
  /\ (request.path = "/" /\ outcome \in {"index", "info"}) => ((outcome = "index") <=> request.browser)
  /\ \A operation \in Documented \ {<<"/token/validate", "POST", {"tokenValidate"}>>} :
       Reaches(operation)

(* The label of a measured request is one of the routes' own, never taken  *)
(* from what the client wrote, so the number of time series is bounded;    *)
(* requests that no route takes are not measured at all.                   *)
LabelsAreBounded ==
  /\ label \in Labels \cup {""}
  /\ outcome # "open" => ((label # "") <=> outcome \in Handlers)
=============================================================================
