----------------------------- MODULE MCLifecycle -----------------------------
(* Instances of Lifecycle for TLC. *)
EXTENDS Lifecycle, TLC

CONSTANTS rpc, get, tls, ws

\* A unary RPC, a plain request on each HTTP server, and a websocket on HTTP.
MCRequests == {rpc, get, tls, ws}
MCTarget   == (rpc :> "grpc") @@ (get :> "http") @@ (tls :> "https") @@ (ws :> "http")
=============================================================================
