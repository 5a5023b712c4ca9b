----------------------------- MODULE PodcliCheck -----------------------------
(***************************************************************************)
(* podcli check http, tcp, grpc and cert: the retry loops, what counts as  *)
(* success, and the exit code a script or a probe acts on.                 *)
(***************************************************************************)
EXTENDS Integers

CONSTANT MaxRetries   \* the largest --retry considered

ASSUME RetriesAssumption == MaxRetries \in Nat

VARIABLES
  kind,      \* the command
  retry,     \* --retry
  address,   \* an address was given
  n,         \* the loop variable: the attempt now
  pc,        \* where the command is
  exit,      \* its exit code, Running while it runs
  attempts,  \* attempts that were made
  waited,    \* the attempts before which the delay was slept
  answer,    \* the last answer of the target
  open       \* gRPC connections that were dialled and not closed; those of HTTP
             \* are in the hands of http.DefaultClient and its pool

vars == <<kind, retry, address, n, pc, exit, attempts, waited, answer, open>>

Running == -1
Loops   == {"http", "tcp", "grpc"}

\* HTTP answers by class; "refused" is every failed dial, call or timeout.
Answers ==
  [http |-> {"2xx", "3xx", "4xx", "5xx", "refused", "bad request"},
   tcp  |-> {"connected", "refused"},
   grpc |-> {"SERVING", "NOT_SERVING", "UNKNOWN", "unimplemented", "refused", "dial error"},
   cert |-> {"valid", "expired", "refused", "no handshake"}]

AnAnswer  == UNION {Answers[k] : k \in DOMAIN Answers}
AnyAnswer == AnAnswer \cup {"none"}

TypeOK ==
  /\ kind \in DOMAIN Answers /\ address \in BOOLEAN
  /\ retry \in -1..MaxRetries /\ n \in 0..(MaxRetries + 1)
  /\ pc \in {"start", "head", "attempt", "dialled", "end"}
  /\ exit \in {Running, 0, 1}
  /\ attempts \in 0..(MaxRetries + 1) /\ waited \subseteq 0..MaxRetries
  /\ answer \in AnyAnswer
  /\ open \in 0..(MaxRetries + 1)

Init ==
  /\ kind \in DOMAIN Answers /\ retry \in -1..MaxRetries /\ address \in BOOLEAN
  /\ n = 0 /\ pc = "start" /\ exit = Running
  /\ attempts = 0 /\ waited = {} /\ answer = "none" /\ open = 0

Exit(code) == pc' = "end" /\ exit' = code

\* An error that RunE returns: main prints it and exits with 1.
UsageError ==
  /\ pc = "start"
  /\ (kind \in Loops /\ retry < 0) \/ ~address
  /\ Exit(1)
  /\ UNCHANGED <<kind, retry, address, n, attempts, waited, answer, open>>

Start ==
  /\ pc = "start" /\ address /\ (kind \in Loops => retry >= 0)
  /\ pc' = (IF kind \in Loops THEN "head" ELSE "attempt")
  /\ UNCHANGED <<kind, retry, address, n, exit, attempts, waited, answer, open>>

\* The delay is slept unless n is 1.
SleepsBefore(i) == i # 1

\* Mutant: one attempt too many.
LoopHead_one_more ==
  /\ pc = "head" /\ n <= retry + 1
  /\ waited' = (IF SleepsBefore(n) THEN waited \cup {n} ELSE waited)
  /\ pc' = "attempt"
  /\ UNCHANGED <<kind, retry, address, n, exit, attempts, answer, open>>

LoopHead ==
  /\ pc = "head" /\ n <= retry
  /\ waited' = (IF SleepsBefore(n) THEN waited \cup {n} ELSE waited)
  /\ pc' = "attempt"
  /\ UNCHANGED <<kind, retry, address, n, exit, attempts, answer, open>>

\* Mutant: the command returns nil after its retries.
LoopEnd_returns_nil ==
  /\ pc = "head" /\ n > retry
  /\ Exit(0)
  /\ UNCHANGED <<kind, retry, address, n, attempts, waited, answer, open>>

LoopEnd ==
  /\ pc = "head" /\ n > retry
  /\ Exit(1)
  /\ UNCHANGED <<kind, retry, address, n, attempts, waited, answer, open>>

Try(a)   == attempts' = attempts + 1 /\ answer' = a
Continue == n' = n + 1 /\ pc' = "head" /\ UNCHANGED exit

\* Redirects that are not followed to a 2xx are a success too.
HttpSucceeds(a) == a \in {"2xx", "3xx"}

runCheck ==
  /\ kind = "http" /\ pc = "attempt"
  /\ \E a \in Answers.http :
       /\ Try(a)
       /\ \/ a = "bad request" /\ Exit(1) /\ UNCHANGED n
          \/ HttpSucceeds(a) /\ Exit(0) /\ UNCHANGED n
          \/ a # "bad request" /\ ~HttpSucceeds(a) /\ Continue
  /\ UNCHANGED <<kind, retry, address, waited, open>>

\* Mutant: the dial has no timeout.
runCheckTCP_without_timeout ==
  /\ kind = "tcp" /\ pc = "attempt"
  /\ \/ Try("connected") /\ Exit(0) /\ UNCHANGED n
     \/ pc' = "dialled" /\ UNCHANGED <<n, exit, attempts, answer>>
  /\ UNCHANGED <<kind, retry, address, waited, open>>

runCheckTCP ==
  /\ kind = "tcp" /\ pc = "attempt"
  /\ \E a \in Answers.tcp :
       /\ Try(a)
       /\ \/ a = "refused" /\ Continue
          \/ a = "connected" /\ Exit(0) /\ UNCHANGED n
  /\ UNCHANGED <<kind, retry, address, waited, open>>

\* grpc.Dial does not connect; a connection it made is closed on success only.
GrpcDial ==
  /\ kind = "grpc" /\ pc = "attempt"
  /\ \/ Try("dial error") /\ Continue /\ UNCHANGED open
     \/ pc' = "dialled" /\ open' = open + 1 /\ UNCHANGED <<n, exit, attempts, answer>>
  /\ UNCHANGED <<kind, retry, address, waited>>

GrpcFails(a) == a \in {"refused", "unimplemented"}

\* Mutant: the connection of an attempt stays open.
runCheckgPRC_never_closes ==
  /\ kind = "grpc" /\ pc = "dialled"
  /\ \E a \in Answers.grpc \ {"dial error"} :
       /\ Try(a)
       /\ \/ a = "unimplemented" /\ Exit(1) /\ UNCHANGED n
          \/ a = "refused" /\ Continue
          \/ ~GrpcFails(a) /\ Exit(0) /\ UNCHANGED n
  /\ UNCHANGED <<kind, retry, address, waited, open>>

runCheckgPRC ==
  /\ kind = "grpc" /\ pc = "dialled"
  /\ \E a \in Answers.grpc \ {"dial error"} :
       /\ Try(a)
       /\ \/ a = "unimplemented" /\ Exit(1) /\ UNCHANGED <<n, open>>
          \/ a = "refused" /\ Continue /\ UNCHANGED open
          \/ ~GrpcFails(a) /\ Exit(0) /\ open' = open - 1 /\ UNCHANGED n
  /\ UNCHANGED <<kind, retry, address, waited>>

\* One attempt; a target that accepts and never answers the handshake is
\* waited for without a time limit.
runCheckCert ==
  /\ kind = "cert" /\ pc = "attempt"
  /\ \E a \in Answers.cert : Try(a) /\ Exit(IF a = "valid" THEN 0 ELSE 1)
  /\ UNCHANGED <<kind, retry, address, n, waited, open>>

Loop == UsageError \/ Start \/ LoopHead \/ LoopEnd \/ runCheck \/ runCheckTCP \/ GrpcDial \/ runCheckgPRC
Next == Loop \/ runCheckCert

\* Calls of the loops have a timeout; the handshake has none.
Spec == Init /\ [][Next]_vars /\ WF_vars(Loop)

-----------------------------------------------------------------------------
Success == [http |-> {"2xx", "3xx"}, tcp |-> {"connected"}, cert |-> {"valid"},
            grpc |-> {"SERVING", "NOT_SERVING", "UNKNOWN"}]

(* A check gives up with 1 only when the call was wrong, when the target   *)
(* cannot be checked at all, or after the first attempt and every one of   *)
(* the retries asked for has failed; it exits with 0 at the first success. *)
(* The delay was slept before each attempt but the second.                 *)
VerdictMatchesAttempts ==
  /\ exit = 0 => (answer \in Success[kind] /\ address)
  /\ (exit = 1 /\ kind \in Loops) =>
       \/ attempts = 0 /\ (retry < 0 \/ ~address)
       \/ answer \in {"bad request", "unimplemented"}
       \/ attempts = retry + 1 /\ answer \notin Success[kind] /\ waited = (0..retry) \ {1}
  /\ (answer \in Success[kind]) => exit = 0

(* A gRPC check leaves the connection of each attempt that failed after   *)
(* its dial open, while the next attempts are made, but no more than one   *)
(* of each attempt, and not that of the attempt that succeeded.            *)
ConnectionsHeld ==
  pc = "end" /\ kind = "grpc" => open <= attempts /\ (exit = 0 => open < attempts)

(* Every check but cert ends, whatever the target does.                    *)
CheckEnds == (kind # "cert") ~> (pc = "end")
=============================================================================
