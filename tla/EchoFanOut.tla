------------------------------ MODULE EchoFanOut ------------------------------
(***************************************************************************)
(* One request to /echo (pkg/api/http/echo.go): its body goes to every     *)
(* backend at once, a goroutine each, and the reply is the list of what    *)
(* they got.                                                               *)
(*                                                                         *)
(* All goroutines assign the captured variable ctx, which is a data race,  *)
(* and then declare their own.  Every value of ctx has the same dynamic    *)
(* type, so that a read yields one of the values written, never parts of   *)
(* two.  A context is abstracted to the goroutines whose client trace it   *)
(* carries and those whose cancel or timeout ends it.                      *)
(***************************************************************************)
EXTENDS Naturals, FiniteSets

CONSTANT Backends   \* the values of --backend-url

VARIABLES
  badUrls,   \* the backends for which no request can be made
  phase,     \* of echoHandler: read, wait, replied, echoed, or refused
  captured,  \* the context in the variable ctx of echoHandler
  call,      \* the goroutine of each backend
  over,      \* goroutines whose own context has expired or was cancelled
  expired,   \* history: those whose timeout has passed
  left       \* the client has left, which ends the context of the request

fanVars == <<badUrls, phase, captured, call, over, expired, left>>

Contexts == [traces : SUBSET Backends, cancels : SUBSET Backends]
Root     == [traces |-> {}, cancels |-> {}]
Results  == {"", "answer", "error status", "failed", "cancelled"}
Running  == {"load", "store", "derive", "request", "call", "body", "return"}

Call == [pc : Running \cup {"none", "done"}, seen : Contexts, ctx : Contexts, result : Results, of : Backends]

TypeOK ==
  /\ badUrls \subseteq Backends
  /\ phase \in {"read", "wait", "replied", "echoed", "refused"}
  /\ captured \in Contexts
  /\ call \in [Backends -> Call]
  /\ over \subseteq Backends /\ expired \subseteq over /\ left \in BOOLEAN

Init ==
  /\ badUrls \in SUBSET Backends
  /\ phase = "read" /\ captured = Root /\ over = {} /\ expired = {} /\ left = FALSE
  /\ call = [b \in Backends |-> [pc |-> "none", seen |-> Root, ctx |-> Root, result |-> "", of |-> b]]

Go(b, from, to) == call[b].pc = from /\ call' = [call EXCEPT ![b].pc = to]

-----------------------------------------------------------------------------
\* The body is read, or not; without backends it is the reply.
echoHandler ==
  /\ phase = "read"
  /\ phase' \in {"refused", IF Backends = {} THEN "echoed" ELSE "wait"}
  /\ call' = [b \in Backends |-> [call[b] EXCEPT !.pc = IF phase' = "wait" THEN "load" ELSE "none"]]
  /\ UNCHANGED <<badUrls, captured, over, expired, left>>

\* The assignment of ctx reads and writes the captured variable.
LoadCtx(b) ==
  /\ call[b].pc = "load"
  /\ call' = [call EXCEPT ![b].pc = "store", ![b].seen = captured]
  /\ UNCHANGED <<badUrls, phase, captured, over, expired, left>>

StoreCtx(b) ==
  /\ Go(b, "store", "derive")
  /\ captured' = [call[b].seen EXCEPT !.traces = @ \cup {b}]
  /\ UNCHANGED <<badUrls, phase, over, expired, left>>

\* Mutant: ctx, cancel = WithTimeout(ctx), an assignment instead of a declaration.
Derive_assigns(b) ==
  /\ call[b].pc = "derive"
  /\ captured' = [captured EXCEPT !.cancels = @ \cup {b}]
  /\ call' = [call EXCEPT ![b].pc = "request", ![b].ctx = captured']
  /\ UNCHANGED <<badUrls, phase, over, expired, left>>

\* ctx, cancel := WithTimeout(ctx): from whatever the variable holds by now.
Derive(b) ==
  /\ call[b].pc = "derive"
  /\ call' = [call EXCEPT ![b].pc = "request", ![b].ctx = [captured EXCEPT !.cancels = @ \cup {b}]]
  /\ UNCHANGED <<badUrls, phase, captured, over, expired, left>>

NewRequest(b) ==
  /\ Go(b, "request", IF b \in badUrls THEN "return" ELSE "call")
  /\ UNCHANGED <<badUrls, phase, captured, over, expired, left>>

CtxDone(b) == left \/ call[b].ctx.cancels \cap over # {}

\* What the call ends with goes to the goroutine's own slot.
Slot(b, from, to, result) ==
  /\ call[b].pc = from
  /\ call' = [call EXCEPT ![b].pc = to, ![b].result = result]

\* The backend answers, with success or an error status, or cannot be reached.
CallBackend(b) ==
  /\ \/ Slot(b, "call", "body", call[b].result)
     \/ \E result \in {"error status", "failed"} : Slot(b, "call", "return", result)
  /\ UNCHANGED <<badUrls, phase, captured, over, expired, left>>

ReadBody(b) ==
  /\ \E result \in {"answer", "failed"} : Slot(b, "body", "return", result)
  /\ UNCHANGED <<badUrls, phase, captured, over, expired, left>>

\* The call, or the read of the body, ends with the error of its context.
Abort(b) ==
  /\ call[b].pc \in {"call", "body"} /\ CtxDone(b)
  /\ Slot(b, call[b].pc, "return", "cancelled")
  /\ UNCHANGED <<badUrls, phase, captured, over, expired, left>>

\* The deferred calls: cancel, then wg.Done.
Return(b) ==
  /\ Go(b, "return", "done")
  /\ over' = over \cup {b}
  /\ UNCHANGED <<badUrls, phase, captured, expired, left>>

Reply ==
  /\ phase = "wait" /\ \A b \in Backends : call[b].pc = "done"
  /\ phase' = "replied"
  /\ UNCHANGED <<badUrls, captured, call, over, expired, left>>

-----------------------------------------------------------------------------
\* Mutant: there is no timeout.
Expire_never(b) == FALSE /\ UNCHANGED fanVars

\* --http-client-timeout after the context was made.
Expire(b) ==
  /\ call[b].pc \in {"request", "call", "body"} /\ b \notin over
  /\ over' = over \cup {b} /\ expired' = expired \cup {b}
  /\ UNCHANGED <<badUrls, phase, captured, call, left>>

Leave ==
  /\ phase = "wait" /\ ~left /\ left' = TRUE
  /\ UNCHANGED <<badUrls, phase, captured, call, over, expired>>

Compute(b) == LoadCtx(b) \/ StoreCtx(b) \/ Derive(b) \/ NewRequest(b) \/ Abort(b) \/ Return(b)

FanNext ==
  \/ echoHandler \/ Reply \/ Leave
  \/ \E b \in Backends : Compute(b) \/ CallBackend(b) \/ ReadBody(b) \/ Expire(b)

\* Goroutines run, timers fire; a backend owes no answer, nor its body.
FanFairness ==
  /\ WF_fanVars(echoHandler) /\ WF_fanVars(Reply)
  /\ \A b \in Backends : WF_fanVars(Compute(b)) /\ WF_fanVars(Expire(b))

FanSpec == Init /\ [][FanNext]_fanVars /\ FanFairness

-----------------------------------------------------------------------------
(* A call is cut short only by its own timeout or because the client left: *)
(* although every goroutine overwrites the context that the others derive  *)
(* theirs from, no end of one call ends another one.                       *)
CallsAreIsolated ==
  \A b \in Backends : call[b].result = "cancelled" => left \/ b \in expired

(* The request is replied to even if no backend ever answers, and not      *)
(* before every slot but those of unusable URLs has its result.            *)
FanOutCompletes ==
  (phase = "wait") ~> /\ phase = "replied"
                      /\ \A b \in Backends : call[b].pc = "done" /\ (call[b].result = "" <=> b \in badUrls)
=============================================================================
