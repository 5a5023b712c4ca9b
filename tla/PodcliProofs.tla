---------------------------- MODULE PodcliProofs ----------------------------
(***************************************************************************)
(* What the exit code of a podcli check stands for, and the connections it *)
(* holds, for any number of retries; the verdict of podcli ws; and that    *)
(* both hold of the process, whichever command the arguments name and      *)
(* however long the user types or the server sends.                        *)
(***************************************************************************)
EXTENDS Podcli, SequenceTheorems, TLAPS

-----------------------------------------------------------------------------
(* The check commands. *)

\* An attempt that failed and was followed by the next turn of the loop.
Failed(a) == a \notin Success[kind] /\ a \notin {"bad request", "unimplemented"}

\* The loop before attempt n: so many have failed, and each left at most one connection.
InLoop(slept) ==
  /\ kind \in Loops /\ address /\ retry >= 0
  /\ attempts = n /\ Failed(answer)
  /\ waited = (0..slept) \ {1}
  /\ open <= (IF kind = "grpc" THEN n ELSE 0)

NothingDone == n = 0 /\ attempts = 0 /\ waited = {} /\ open = 0 /\ answer = "none"

AtStart   == pc = "start" => NothingDone
AtHead    == pc = "head" => InLoop(n - 1) /\ n <= retry + 1
AtAttempt == pc = "attempt" => IF kind = "cert" THEN NothingDone /\ address ELSE InLoop(n) /\ n <= retry
AtDialled == pc = "dialled" =>
  /\ kind = "grpc" /\ address /\ retry >= 0 /\ n <= retry
  /\ attempts = n /\ Failed(answer) /\ waited = (0..n) \ {1}
  /\ open \in 1..(n + 1)
AtEnd     == IF pc = "end" THEN VerdictMatchesAttempts /\ ConnectionsHeld ELSE exit = Running

\* Of the types, what the arithmetic needs.
Numbers ==
  /\ kind \in {"http", "tcp", "grpc", "cert"} /\ address \in BOOLEAN
  /\ retry \in Int /\ n \in Nat /\ attempts \in Nat /\ open \in Nat
  /\ pc \in {"start", "head", "attempt", "dialled", "end"}

CheckInv == Numbers /\ AtStart /\ AtHead /\ AtAttempt /\ AtDialled /\ AtEnd

(* The delays slept before attempt i, when those before are known.         *)
LEMMA Slept == ASSUME NEW i \in Nat, NEW S, S = (0..(i - 1)) \ {1}
               PROVE  (IF SleepsBefore(i) THEN S \cup {i} ELSE S) = (0..i) \ {1}
  BY DEF SleepsBefore

(* The commands by name.                                                   *)
LEMMA Kinds == kind \in DOMAIN Answers => kind \in {"http", "tcp", "grpc", "cert"}
  BY DEF Answers

(* An HTTP answer is a success when the code treats it as one, and only a  *)
(* wrong address ends the loop early.                                      *)
LEMMA HttpAnswers == \A a \in Answers.http :
  /\ a \in Success["http"] <=> HttpSucceeds(a)
  /\ a # "bad request" => a \notin {"bad request", "unimplemented"}
  BY DEF Answers, Success, HttpSucceeds

(* A TCP check succeeds when it connects, and only then.                   *)
LEMMA TcpAnswers == "connected" \in Success["tcp"] /\ "refused" \notin Success["tcp"]
  BY DEF Success

(* A gRPC check succeeds when the call returns; a failed dial is no success. *)
LEMMA GrpcAnswers ==
  /\ \A a \in Answers.grpc \ {"dial error"} : a \in Success["grpc"] <=> ~GrpcFails(a)
  /\ "dial error" \notin Success["grpc"]
  BY DEF Answers, Success, GrpcFails

(* A certificate check succeeds when the certificate is valid, and only then. *)
LEMMA CertAnswers == \A a \in Answers.cert : a \in Success["cert"] <=> a = "valid"
  BY DEF Answers, Success

(* No command takes the absence of an answer for a success.                *)
LEMMA NoAnswer == \A k \in {"http", "tcp", "grpc", "cert"} : "none" \notin Success[k]
  BY DEF Success

(* A check starts with no attempt made and no connection open.             *)
LEMMA CheckInitially == Init => CheckInv
<1> SUFFICES ASSUME Init PROVE CheckInv
  OBVIOUS
<1>1. kind \in {"http", "tcp", "grpc", "cert"}
  BY Kinds DEF Init
<1>2. Numbers
  BY <1>1, RetriesAssumption DEF Init, Numbers
<1>3. AtStart /\ AtHead /\ AtAttempt /\ AtDialled
  BY DEF Init, AtStart, AtHead, AtAttempt, AtDialled, NothingDone
<1>4. AtEnd
  BY DEF Init, AtEnd
<1> QED
  BY <1>2, <1>3, <1>4 DEF CheckInv

(* A failed attempt leads back to the head of the loop with one more turn. *)
LEMMA NextTurn ==
  ASSUME Numbers, NEW a, Failed(a), Try(a), Continue, pc # "start",
         kind \in Loops, address, retry >= 0, attempts = n, n <= retry, waited = (0..n) \ {1},
         UNCHANGED <<kind, retry, address, waited>>, exit = Running,
         open' \in Nat, open' <= (IF kind = "grpc" THEN n + 1 ELSE 0)
  PROVE  CheckInv'
<1>1. n' - 1 = n /\ n' \in Nat
  BY DEF Numbers, Continue
<1>2. Numbers'
  BY <1>1 DEF Numbers, Continue, Try
<1>3. AtHead'
  <2>1. Failed(answer)'
    BY DEF Failed, Try
  <2>2. InLoop(n - 1)'
    BY <1>1, <2>1 DEF InLoop, Numbers, Try, Continue
  <2> QED
    BY <2>2 DEF AtHead, Continue, Numbers
<1>4. (AtStart /\ AtAttempt /\ AtDialled /\ AtEnd)'
  BY DEF AtStart, AtAttempt, AtDialled, AtEnd, Continue
<1> QED
  BY <1>2, <1>3, <1>4 DEF CheckInv

(* The end is reached with the right verdict and connections.              *)
LEMMA Ending ==
  ASSUME Numbers, pc' = "end", UNCHANGED <<kind, retry, address>>,
         n' \in Nat, attempts' \in Nat, open' \in Nat,
         VerdictMatchesAttempts', ConnectionsHeld'
  PROVE  CheckInv'
  BY DEF CheckInv, Numbers, AtStart, AtHead, AtAttempt, AtDialled, AtEnd

(* Every step of a check keeps the clause of the place it reaches.         *)
LEMMA CheckStep == CheckInv /\ [Next]_vars => CheckInv'
<1> SUFFICES ASSUME CheckInv, [Next]_vars PROVE CheckInv'
  OBVIOUS
<1>n. Numbers
  BY DEF CheckInv
<1>r. pc # "end" => exit = Running
  BY DEF CheckInv, AtEnd
<1>1. CASE UsageError
  <2>1. NothingDone
    BY <1>1 DEF UsageError, CheckInv, AtStart
  <2>2. VerdictMatchesAttempts'
    BY <1>1, <1>n, <2>1, NoAnswer DEF UsageError, Exit, NothingDone, VerdictMatchesAttempts, Numbers
  <2>3. ConnectionsHeld'
    BY <1>1, <2>1 DEF UsageError, Exit, NothingDone, ConnectionsHeld
  <2> QED
    BY <1>1, <1>n, <2>2, <2>3, Ending DEF UsageError, Exit, Numbers
<1>2. CASE Start
  <2>1. NothingDone
    BY <1>2 DEF Start, CheckInv, AtStart
  <2>2. Numbers' /\ AtStart' /\ AtDialled' /\ AtEnd'
    BY <1>2, <1>n, <1>r DEF Start, Numbers, AtStart, AtDialled, AtEnd
  <2>3. Failed("none")
    BY <1>n, NoAnswer DEF Failed, Numbers
  <2>4. AtHead'
    BY <1>2, <1>n, <2>1, <2>3 DEF Start, AtHead, InLoop, Failed, NothingDone, Numbers, Loops
  <2>5. AtAttempt'
    BY <1>2, <1>n, <2>1 DEF Start, AtAttempt, NothingDone, Numbers, Loops
  <2> QED
    BY <2>2, <2>4, <2>5 DEF CheckInv
<1>3. CASE LoopHead
  <2>1. InLoop(n - 1) /\ n <= retry
    BY <1>3 DEF LoopHead, CheckInv, AtHead
  <2>2. waited' = (0..n) \ {1}
    BY <1>3, <1>n, <2>1, Slept DEF LoopHead, InLoop, Numbers
  <2>3. AtAttempt'
    BY <1>3, <1>n, <2>1, <2>2 DEF LoopHead, AtAttempt, InLoop, Failed, Loops, Numbers
  <2>4. Numbers' /\ AtStart' /\ AtHead' /\ AtDialled' /\ AtEnd'
    BY <1>3, <1>n, <1>r DEF LoopHead, Numbers, AtStart, AtHead, AtDialled, AtEnd
  <2> QED
    BY <2>3, <2>4 DEF CheckInv
<1>4. CASE LoopEnd
  <2>1. InLoop(n - 1) /\ n = retry + 1
    BY <1>4, <1>n DEF LoopEnd, CheckInv, AtHead, Numbers
  <2>2. n - 1 = retry
    BY <2>1, <1>n DEF Numbers
  <2>3. VerdictMatchesAttempts'
    <3>1. exit' = 1 /\ UNCHANGED <<kind, retry, address, attempts, waited, answer>>
      BY <1>4 DEF LoopEnd, Exit
    <3>2. attempts = retry + 1 /\ waited = (0..retry) \ {1} /\ answer \notin Success[kind]
      BY <2>1, <2>2 DEF InLoop, Failed
    <3>3. exit' # 0
      BY <3>1
    <3>4. attempts' = retry' + 1 /\ waited' = (0..retry') \ {1} /\ answer' \notin Success[kind']
      BY <3>1, <3>2, Zenon
    <3> QED
      BY <3>3, <3>4, Zenon DEF VerdictMatchesAttempts
  <2>4. ConnectionsHeld'
    BY <1>4, <1>n, <2>1 DEF LoopEnd, Exit, ConnectionsHeld, InLoop, Numbers
  <2> QED
    BY <1>4, <1>n, <2>3, <2>4, Ending DEF LoopEnd, Exit, Numbers
<1>5. CASE runCheck
  <2>1. InLoop(n) /\ n <= retry /\ exit = Running
    BY <1>5, <1>r DEF runCheck, CheckInv, AtAttempt
  <2>2. PICK a :
          /\ a \in Answers.http /\ Try(a)
          /\ \/ a = "bad request" /\ Exit(1) /\ UNCHANGED n
             \/ HttpSucceeds(a) /\ Exit(0) /\ UNCHANGED n
             \/ a # "bad request" /\ ~HttpSucceeds(a) /\ Continue
    BY <1>5 DEF runCheck
  <2>3. a \in Success["http"] <=> HttpSucceeds(a)
    BY <2>2, HttpAnswers
  <2>4. kind = "http" /\ UNCHANGED <<kind, retry, address, waited, open>> /\ address
    BY <1>5, <2>1 DEF runCheck, InLoop
  <2>5. CASE a = "bad request" /\ Exit(1) /\ UNCHANGED n
    <3>1. answer' = "bad request" /\ attempts' = attempts + 1
      BY <2>2, <2>5 DEF Try
    <3>2. pc' = "end" /\ exit' = 1 /\ n' = n
      BY <2>5 DEF Exit
    <3>3. answer' \notin Success[kind']
      BY <2>4, <3>1 DEF Success
    <3>4. VerdictMatchesAttempts'
      <4>1. exit' # 0
        BY <3>2
      <4>2. answer' \in {"bad request", "unimplemented"}
        BY <3>1
      <4> QED
        BY <3>3, <4>1, <4>2, Zenon DEF VerdictMatchesAttempts
    <3>5. ConnectionsHeld'
      BY <1>n, <2>1, <2>4, <3>2 DEF ConnectionsHeld, InLoop, Numbers
    <3>6. n' \in Nat /\ open' \in Nat
      BY <1>n, <2>4, <3>2, Zenon DEF Numbers
    <3>7. attempts' \in Nat
      <4>1. attempts \in Nat
        BY <1>n DEF Numbers
      <4>2. attempts' = attempts + 1
        BY <3>1, Zenon
      <4> QED
        BY <4>1, <4>2
    <3> QED
      BY <1>n, <2>4, <3>2, <3>4, <3>5, <3>6, <3>7, Ending, Zenon
  <2>6. CASE HttpSucceeds(a) /\ Exit(0) /\ UNCHANGED n
    <3>1. VerdictMatchesAttempts'
      BY <2>2, <2>3, <2>4, <2>6 DEF VerdictMatchesAttempts, Exit, Try
    <3>2. ConnectionsHeld'
      BY <1>n, <2>1, <2>2, <2>4, <2>6 DEF ConnectionsHeld, InLoop, Exit, Try, Numbers
    <3> QED
      BY <1>n, <2>2, <2>4, <2>6, <3>1, <3>2, Ending DEF Exit, Try, Numbers
  <2>7. CASE a # "bad request" /\ ~HttpSucceeds(a) /\ Continue
    <3>1. Failed(a)
      BY <2>2, <2>3, <2>4, <2>7, HttpAnswers DEF Failed
    <3>2. pc # "start"
      BY <1>5 DEF runCheck
    <3> QED
      BY <1>n, <2>1, <2>2, <2>4, <2>7, <3>1, <3>2, NextTurn DEF InLoop, Numbers
  <2> QED
    BY <2>2, <2>5, <2>6, <2>7
<1>6. CASE runCheckTCP
  <2>1. InLoop(n) /\ n <= retry /\ exit = Running
    BY <1>6, <1>r DEF runCheckTCP, CheckInv, AtAttempt
  <2>2. kind = "tcp" /\ UNCHANGED <<kind, retry, address, waited, open>> /\ address
    BY <1>6, <2>1 DEF runCheckTCP, InLoop
  <2>3. CASE Try("refused") /\ Continue
    <3>1. Failed("refused")
      BY <2>2, TcpAnswers DEF Failed
    <3>2. pc # "start"
      BY <1>6 DEF runCheckTCP
    <3> QED
      BY <1>n, <2>1, <2>2, <2>3, <3>1, <3>2, NextTurn DEF InLoop, Numbers
  <2>4. CASE Try("connected") /\ Exit(0) /\ UNCHANGED n
    <3>1. VerdictMatchesAttempts'
      BY <2>2, <2>4, TcpAnswers DEF VerdictMatchesAttempts, Exit, Try
    <3>2. ConnectionsHeld'
      BY <1>n, <2>1, <2>2, <2>4 DEF ConnectionsHeld, InLoop, Exit, Try, Numbers
    <3> QED
      BY <1>n, <2>2, <2>4, <3>1, <3>2, Ending DEF Exit, Try, Numbers
  <2> QED
    BY <1>6, <2>3, <2>4 DEF runCheckTCP
<1>7. CASE GrpcDial
  <2>1. InLoop(n) /\ n <= retry /\ exit = Running
    BY <1>7, <1>r DEF GrpcDial, CheckInv, AtAttempt
  <2>2. kind = "grpc" /\ UNCHANGED <<kind, retry, address, waited>> /\ address
    BY <1>7, <2>1 DEF GrpcDial, InLoop
  <2>3. CASE Try("dial error") /\ Continue /\ UNCHANGED open
    <3>1. Failed("dial error")
      BY <2>2, GrpcAnswers DEF Failed
    <3>2. pc # "start"
      BY <1>7 DEF GrpcDial
    <3>3. Try("dial error") /\ Continue
      BY <2>3
    <3>4. kind \in Loops /\ retry >= 0 /\ attempts = n /\ waited = (0..n) \ {1}
      BY <2>1 DEF InLoop
    <3>5. open' \in Nat /\ open' <= (IF kind = "grpc" THEN n + 1 ELSE 0)
      <4>1. open \in Nat /\ n \in Nat /\ open <= n
        BY <1>n, <2>1, <2>2 DEF InLoop, Numbers
      <4>2. open <= n + 1
        BY <4>1
      <4>3. open' = open
        BY <2>3, Zenon
      <4> QED
        BY <2>2, <4>1, <4>2, <4>3, Zenon
    <3> QED
      BY <1>n, <2>1, <2>2, <3>1, <3>2, <3>3, <3>4, <3>5, NextTurn
  <2>4. CASE pc' = "dialled" /\ open' = open + 1 /\ UNCHANGED <<n, exit, attempts, answer>>
    <3>1. Numbers' /\ AtStart' /\ AtHead' /\ AtAttempt' /\ AtEnd'
      BY <1>n, <2>1, <2>2, <2>4 DEF Numbers, AtStart, AtHead, AtAttempt, AtEnd
    <3>2. open' \in 1..(n' + 1)
      BY <1>n, <2>1, <2>2, <2>4 DEF InLoop, Numbers
    <3>3. Failed(answer)'
      BY <2>1, <2>2, <2>4 DEF InLoop, Failed
    <3>4. AtDialled'
      BY <2>1, <2>2, <2>4, <3>2, <3>3 DEF AtDialled, InLoop
    <3> QED
      BY <3>1, <3>4 DEF CheckInv
  <2> QED
    BY <1>7, <2>3, <2>4 DEF GrpcDial
<1>8. CASE runCheckgPRC
  <2>1. AtDialled /\ pc = "dialled" /\ exit = Running /\ kind = "grpc"
    BY <1>8, <1>r DEF runCheckgPRC, CheckInv
  <2>2. UNCHANGED <<kind, retry, address, waited>> /\ address
    BY <1>8, <2>1 DEF runCheckgPRC, AtDialled
  <2>3. PICK a :
          /\ a \in Answers.grpc \ {"dial error"} /\ Try(a)
          /\ \/ a = "unimplemented" /\ Exit(1) /\ UNCHANGED <<n, open>>
             \/ a = "refused" /\ Continue /\ UNCHANGED open
             \/ ~GrpcFails(a) /\ Exit(0) /\ open' = open - 1 /\ UNCHANGED n
    BY <1>8 DEF runCheckgPRC
  <2>4. a \in Success["grpc"] <=> ~GrpcFails(a)
    BY <2>3, GrpcAnswers
  <2>5. CASE a = "unimplemented" /\ Exit(1) /\ UNCHANGED <<n, open>>
    <3>1. GrpcFails(a)
      BY <2>5 DEF GrpcFails
    <3>2. VerdictMatchesAttempts'
      BY <2>1, <2>2, <2>3, <2>4, <2>5, <3>1 DEF VerdictMatchesAttempts, Exit, Try
    <3>3. ConnectionsHeld'
      BY <1>n, <2>1, <2>2, <2>3, <2>5 DEF ConnectionsHeld, AtDialled, Exit, Try, Numbers
    <3> QED
      BY <1>n, <2>2, <2>3, <2>5, <3>2, <3>3, Ending DEF Exit, Try, Numbers
  <2>6. CASE a = "refused" /\ Continue /\ UNCHANGED open
    <3>1. GrpcFails(a)
      BY <2>6 DEF GrpcFails
    <3>2. Failed(a)
      BY <2>1, <2>4, <2>6, <3>1 DEF Failed
    <3> QED
      BY <1>n, <2>1, <2>2, <2>3, <2>6, <3>2, NextTurn DEF AtDialled, Numbers, Loops
  <2>7. CASE ~GrpcFails(a) /\ Exit(0) /\ open' = open - 1 /\ UNCHANGED n
    <3>1. answer' = a /\ attempts' = attempts + 1
      BY <2>3 DEF Try
    <3>2. pc' = "end" /\ exit' = 0 /\ n' = n
      BY <2>7 DEF Exit
    <3>3. open' = open - 1
      BY <2>7
    <3>4. open \in 1..(n + 1) /\ attempts = n
      BY <2>1 DEF AtDialled
    <3>5. open' \in Nat /\ open' < attempts'
      <4>1. n \in Nat /\ open \in Nat /\ open \in 1..(n + 1)
        BY <1>n, <3>4 DEF Numbers
      <4>2. open - 1 \in Nat /\ open - 1 < n + 1
        BY <4>1
      <4> QED
        BY <3>1, <3>3, <3>4, <4>2, Zenon
    <3>6. a \in Success["grpc"]
      BY <2>4, <2>7
    <3>7. answer' \in Success[kind']
      BY <2>1, <2>2, <3>1, <3>6
    <3>8. VerdictMatchesAttempts'
      <4>1. exit' # 1
        BY <3>2
      <4> QED
        BY <2>2, <3>2, <3>7, <4>1, Zenon DEF VerdictMatchesAttempts
    <3>9. ConnectionsHeld'
      <4>1. attempts' \in Nat
        <5>1. attempts \in Nat
          BY <1>n DEF Numbers
        <5> QED
          BY <3>1, <5>1
      <4>2. open' <= attempts'
        BY <3>5, <4>1
      <4>3. kind' = "grpc"
        BY <2>1, <2>2, Zenon
      <4> QED
        BY <3>5, <4>2, <4>3, Zenon DEF ConnectionsHeld
    <3>10. n' \in Nat
      BY <1>n, <3>2, Zenon DEF Numbers
    <3>11. attempts' \in Nat
      <4>1. attempts \in Nat
        BY <1>n DEF Numbers
      <4> QED
        BY <3>1, <4>1
    <3> QED
      BY <1>n, <2>2, <3>2, <3>5, <3>8, <3>9, <3>10, <3>11, Ending, Zenon
  <2> QED
    BY <2>3, <2>5, <2>6, <2>7
<1>9. CASE runCheckCert
  <2>1. NothingDone /\ address /\ kind = "cert"
    BY <1>9 DEF runCheckCert, CheckInv, AtAttempt
  <2>2. PICK a \in Answers.cert : Try(a) /\ Exit(IF a = "valid" THEN 0 ELSE 1)
    BY <1>9 DEF runCheckCert
  <2>3. UNCHANGED <<kind, retry, address, n, open>>
    BY <1>9 DEF runCheckCert
  <2>4. VerdictMatchesAttempts'
    BY <2>1, <2>2, <2>3, CertAnswers DEF VerdictMatchesAttempts, Exit, Try, Loops
  <2>5. ConnectionsHeld'
    BY <1>n, <2>1, <2>2, <2>3 DEF ConnectionsHeld, NothingDone, Exit, Try, Numbers
  <2> QED
    BY <1>n, <2>2, <2>3, <2>4, <2>5, Ending DEF Exit, Try, Numbers
<1>10. CASE UNCHANGED vars
  BY <1>10 DEF vars, CheckInv, Numbers, AtStart, AtHead, AtAttempt, AtDialled, AtEnd, NothingDone, InLoop, Failed, VerdictMatchesAttempts, ConnectionsHeld
<1> QED
  BY <1>1, <1>2, <1>3, <1>4, <1>5, <1>6, <1>7, <1>8, <1>9, <1>10 DEF Next, Loop

(* Before the end there is no verdict yet.                                 *)
LEMMA NoVerdictYet == CheckInv => VerdictMatchesAttempts /\ ConnectionsHeld
<1> SUFFICES ASSUME CheckInv PROVE VerdictMatchesAttempts /\ ConnectionsHeld
  OBVIOUS
<1>1. CASE pc = "end"
  BY <1>1 DEF CheckInv, AtEnd
<1>2. CASE pc # "end"
  <2>1. answer \notin Success[kind]
    BY <1>2, NoAnswer DEF CheckInv, Numbers, AtStart, AtHead, AtAttempt, AtDialled, NothingDone, InLoop, Failed
  <2> QED
    BY <1>2, <2>1 DEF CheckInv, AtEnd, Running, VerdictMatchesAttempts, ConnectionsHeld
<1> QED
  BY <1>1, <1>2

(* The counters stay below their bounds, because the loop stops in time.   *)
LEMMA CheckTyped == CheckInv /\ TypeOK /\ [Next]_vars => TypeOK'
<1> SUFFICES ASSUME CheckInv, TypeOK, [Next]_vars PROVE TypeOK'
  OBVIOUS
<1>k. DOMAIN Answers = {"http", "tcp", "grpc", "cert"}
  BY DEF Answers
<1> USE RetriesAssumption
<1>t. /\ kind \in {"http", "tcp", "grpc", "cert"} /\ retry \in -1..MaxRetries /\ n \in 0..(MaxRetries + 1)
      /\ attempts \in 0..(MaxRetries + 1) /\ waited \subseteq 0..MaxRetries
      /\ open \in 0..(MaxRetries + 1) /\ answer \in AnyAnswer /\ address \in BOOLEAN
      /\ pc \in {"start", "head", "attempt", "dialled", "end"} /\ exit \in {Running, 0, 1}
  BY <1>k DEF TypeOK
<1>u. ASSUME kind' \in {"http", "tcp", "grpc", "cert"}, retry' \in -1..MaxRetries, n' \in 0..(MaxRetries + 1),
             attempts' \in 0..(MaxRetries + 1), waited' \subseteq 0..MaxRetries,
             open' \in 0..(MaxRetries + 1), answer' \in AnyAnswer, address' \in BOOLEAN,
             pc' \in {"start", "head", "attempt", "dialled", "end"}, exit' \in {Running, 0, 1}
      PROVE  TypeOK'
  BY <1>k, <1>u DEF TypeOK
<1>n. \A a : a \in Answers.http \cup Answers.tcp \cup Answers.grpc \cup Answers.cert \cup {"dial error"} => a \in AnyAnswer
  <2>1. \A m \in DOMAIN Answers : \A a \in Answers[m] : a \in AnyAnswer
    BY DEF AnyAnswer, AnAnswer
  <2>2. /\ Answers.http = Answers["http"] /\ Answers.tcp = Answers["tcp"]
        /\ Answers.grpc = Answers["grpc"] /\ Answers.cert = Answers["cert"]
        /\ "dial error" \in Answers["grpc"]
    BY DEF Answers
  <2> QED
    BY <1>k, <2>1, <2>2
<1>1. CASE UsageError \/ Start \/ LoopEnd
  BY <1>1, <1>t, <1>u DEF UsageError, Start, LoopEnd, Exit, Loops
<1>2. CASE LoopHead
  BY <1>2, <1>t, <1>u DEF LoopHead
<1>l. pc = "attempt" /\ kind # "cert" => attempts = n /\ n <= retry /\ open <= n
  BY <1>t DEF CheckInv, AtAttempt, InLoop
<1>c. pc = "attempt" /\ kind = "cert" => attempts = 0
  BY DEF CheckInv, AtAttempt, NothingDone
<1>d. pc = "dialled" => attempts = n /\ n <= retry /\ open \in 1..(n + 1)
  BY DEF CheckInv, AtDialled
<1>3. ASSUME runCheck \/ runCheckTCP PROVE TypeOK'
  <2>1. /\ attempts' = attempts + 1 /\ answer' \in AnyAnswer
        /\ n' \in {n, n + 1} /\ pc' \in {"end", "head"} /\ exit' \in {exit, 0, 1}
        /\ UNCHANGED <<kind, retry, address, waited, open>>
        /\ pc = "attempt" /\ kind # "cert"
    BY <1>3, <1>n DEF runCheck, runCheckTCP, Try, Exit, Continue
  <2> QED
    BY <1>t, <1>u, <1>l, <2>1
<1>4. ASSUME GrpcDial PROVE TypeOK'
  <2>1. /\ attempts' \in {attempts, attempts + 1} /\ answer' \in AnyAnswer
        /\ n' \in {n, n + 1} /\ pc' \in {"dialled", "head"} /\ open' \in {open, open + 1}
        /\ UNCHANGED <<kind, retry, address, waited, exit>>
        /\ pc = "attempt" /\ kind # "cert"
    BY <1>4, <1>n, <1>t DEF GrpcDial, Try, Continue
  <2> QED
    BY <1>t, <1>u, <1>l, <2>1
<1>5. ASSUME runCheckgPRC PROVE TypeOK'
  <2>1. /\ attempts' = attempts + 1 /\ answer' \in AnyAnswer
        /\ n' \in {n, n + 1} /\ pc' \in {"end", "head"} /\ exit' \in {exit, 0, 1} /\ open' \in {open, open - 1}
        /\ UNCHANGED <<kind, retry, address, waited>>
        /\ pc = "dialled"
    BY <1>5, <1>n DEF runCheckgPRC, Try, Exit, Continue
  <2> QED
    BY <1>t, <1>u, <1>d, <2>1
<1>6. ASSUME runCheckCert PROVE TypeOK'
  <2>1. /\ attempts' = attempts + 1 /\ answer' \in AnyAnswer
        /\ pc' = "end" /\ exit' \in {0, 1}
        /\ UNCHANGED <<kind, retry, address, waited, n, open>>
        /\ pc = "attempt" /\ kind = "cert"
    BY <1>6, <1>n DEF runCheckCert, Try, Exit
  <2> QED
    BY <1>t, <1>u, <1>c, <2>1
<1>7. CASE UNCHANGED vars
  BY <1>7, <1>t, <1>u DEF vars
<1> QED
  BY <1>1, <1>2, <1>3, <1>4, <1>5, <1>6, <1>7 DEF Next, Loop

(* A check gives up with 1 only after every attempt it was allowed has     *)
(* failed, or for a reason that no retry can mend, and exits with 0 at the *)
(* first success, whatever --retry says.                                   *)
THEOREM VerdictCorrect == Spec => []VerdictMatchesAttempts
<1>1. Spec => []CheckInv
  BY CheckInitially, CheckStep, PTL DEF Spec
<1> QED
  BY <1>1, NoVerdictYet, PTL

(* The connections of a gRPC check are those of attempts that failed after *)
(* their dial, at most one of each, for any number of retries.             *)
THEOREM ConnectionsCorrect == Spec => []ConnectionsHeld
<1>1. Spec => []CheckInv
  BY CheckInitially, CheckStep, PTL DEF Spec
<1> QED
  BY <1>1, NoVerdictYet, PTL

-----------------------------------------------------------------------------
(* The process. *)

\* The check command is as its own proof says, and never starts beside ws.
CommandInv == IF command = "check" THEN CheckInv ELSE pc = "start"

(* A process begins with whichever command its arguments name.             *)
LEMMA CommandInitially == rootCmd => CommandInv
  BY CheckInitially DEF rootCmd, CommandInv, Init

(* A step is one of the command that was named.                            *)
LEMMA CommandStep == CommandInv /\ [Execute]_allVars => CommandInv'
<1> SUFFICES ASSUME CommandInv, [Execute]_allVars PROVE CommandInv'
  OBVIOUS
<1>1. CASE Check
  <2>1. command = "check" /\ command' = command /\ Next
    BY <1>1 DEF Check
  <2>2. CheckInv /\ [Next]_vars
    BY <2>1 DEF CommandInv
  <2>3. CheckInv'
    BY <2>2, CheckStep
  <2> QED
    BY <2>1, <2>3 DEF CommandInv
<1>2. CASE Session
  <2>1. command = "ws" /\ command' = command /\ pc' = pc
    BY <1>2 DEF Session, checkVars
  <2> QED
    BY <2>1 DEF CommandInv
<1>3. CASE UNCHANGED allVars
  <2>1. command' = command /\ pc' = pc /\ UNCHANGED vars
    BY <1>3 DEF allVars, checkVars, vars
  <2>2. CheckInv => CheckInv'
    BY <2>1, CheckStep
  <2> QED
    BY <2>1, <2>2 DEF CommandInv
<1> QED
  BY <1>1, <1>2, <1>3 DEF Execute

(* What the invariant says of a check, and that ws holds no connection of it. *)
LEMMA CommandImplies == CommandInv => CheckVerdict /\ ConnectionsHeld
<1> SUFFICES ASSUME CommandInv PROVE CheckVerdict /\ ConnectionsHeld
  OBVIOUS
<1>1. CASE command = "check"
  BY <1>1, NoVerdictYet DEF CommandInv, CheckVerdict
<1>2. CASE command # "check"
  BY <1>2 DEF CommandInv, CheckVerdict, ConnectionsHeld
<1> QED
  BY <1>1, <1>2

(* podcli check exits with 1 only for a wrong call, for a target that it   *)
(* cannot check, or after the first attempt and all the retries asked for, *)
(* and with 0 at the first success, for every --retry.                     *)
THEOREM CheckVerdictCorrect == PodcliSpec => []CheckVerdict
<1>1. PodcliSpec => []CommandInv
  BY CommandInitially, CommandStep, PTL DEF PodcliSpec
<1> QED
  BY <1>1, CommandImplies, PTL

(* A gRPC check holds at most one connection of each attempt at its end,   *)
(* and none of the attempt that succeeded, for every --retry.              *)
THEOREM ProcessConnectionsCorrect == PodcliSpec => []ConnectionsHeld
<1>1. PodcliSpec => []CommandInv
  BY CommandInitially, CommandStep, PTL DEF PodcliSpec
<1> QED
  BY <1>1, CommandImplies, PTL

-----------------------------------------------------------------------------
(* podcli ws.                                                              *)

\* The goroutines run from the prompt on, the console only until connect returns; the
\* terminal is in raw mode at most inside Readline.
Phases ==
  /\ main \in {"dial", "prompt"} => console = "none" /\ socket = "none" /\ ~closed
  /\ terminal => console = "read"
  /\ console \in {"call", "read", "write", "report"} => main = "wait"
  /\ main = "returned" => (console = "none" /\ socket = "none") \/ console = "ended"
  /\ socket # "none" => main \in {"wait", "returned"}

\* Why the console has given up.
AllIsOut == closed \/ (eof /\ Len(toServer) = typed)
GivenUp  == console \in {"report", "ended"} => AllIsOut

\* Lines and frames are taken one after the other.
InOrder ==
  /\ Len(toServer) <= typed /\ \A i \in 1..Len(toServer) : toServer[i] = i
  /\ console = "write" => line = Len(toServer) + 1 /\ line <= typed
  /\ Len(shown) <= sent /\ \A i \in 1..Len(shown) : shown[i] = i
  /\ socket = "print" => frame = Len(shown) + 1 /\ frame <= sent

WsInv == Ws!TypeOK /\ Phases /\ GivenUp /\ InOrder /\ Ws!SessionVerdict

\* A session starts with nothing typed and nothing received.
LEMMA WsInitially == Ws!Init => WsInv
<1> SUFFICES ASSUME Ws!Init PROVE WsInv
  OBVIOUS
<1> USE SessionAssumption
<1>1. Ws!TypeOK
  <2>1. 0 \in 0..MaxLines /\ 0 \in 0..MaxFrames /\ <<>> \in Seq(1..MaxLines) /\ <<>> \in Seq(1..MaxFrames)
    OBVIOUS
  <2> QED
    BY <2>1 DEF Ws!Init, Ws!TypeOK
<1>2. Phases /\ GivenUp /\ InOrder /\ Ws!SessionVerdict
  BY DEF Ws!Init, Phases, GivenUp, InOrder, Ws!SessionVerdict, Ws!Running
<1> QED
  BY <1>1, <1>2 DEF WsInv

\* A sequence that counts is the one of its length.
LEMMA Counting == ASSUME NEW N \in Nat, NEW s \in Seq(1..N), \A i \in 1..Len(s) : s[i] = i
                  PROVE  s = Ws!Upto(Len(s))
<1>1. s \in [1..Len(s) -> 1..N]
  BY LenProperties
<1> QED
  BY <1>1 DEF Ws!Upto

\* Every step of a session keeps its invariant.
LEMMA WsStep == WsInv /\ [Ws!Next]_(Ws!vars) => WsInv'
<1> SUFFICES ASSUME WsInv, [Ws!Next]_(Ws!vars) PROVE WsInv'
  OBVIOUS
<1> USE SessionAssumption
<1>i. Ws!TypeOK /\ Phases /\ GivenUp /\ InOrder /\ Ws!SessionVerdict
  BY DEF WsInv
<1>s. /\ toServer \in Seq(1..MaxLines) /\ Len(toServer) \in Nat
      /\ shown \in Seq(1..MaxFrames) /\ Len(shown) \in Nat
  BY <1>i, LenProperties DEF Ws!TypeOK
<1>v. exit' = Ws!Running => Ws!SessionVerdict'
  BY DEF Ws!SessionVerdict, Ws!Running
<1>u. CASE Ws!UsageError
  <2>1. Ws!TypeOK' /\ Phases' /\ GivenUp' /\ InOrder'
    BY <1>u, <1>i DEF Ws!UsageError, Ws!peers, Ws!data, Ws!TypeOK, Phases, GivenUp, AllIsOut, InOrder
  <2>2. Ws!SessionVerdict'
    BY <1>u DEF Ws!UsageError, Ws!SessionVerdict
  <2> QED
    BY <2>1, <2>2 DEF WsInv
<1>1. CASE Ws!Dial
  BY <1>1, <1>i, <1>v DEF Ws!Dial, Ws!peers, Ws!data, Ws!Alive, WsInv, Ws!TypeOK, Phases, GivenUp, AllIsOut, InOrder
<1>2. CASE Ws!Prompt
  BY <1>2, <1>i, <1>v DEF Ws!Prompt, Ws!peers, Ws!data, Ws!Alive, WsInv, Ws!TypeOK, Phases, GivenUp, AllIsOut, InOrder
<1>3. CASE Ws!Report
  BY <1>3, <1>i, <1>v DEF Ws!Report, Ws!peers, Ws!data, Ws!Alive, WsInv, Ws!TypeOK, Phases, GivenUp, AllIsOut, InOrder
<1>4. CASE Ws!MainExits
  <2>1. exit' = 0 /\ main = "returned" /\ UNCHANGED <<main, console, socket, terminal, typed, eof, sent, closed, line, frame, toServer, shown>>
    BY <1>4 DEF Ws!MainExits, Ws!peers, Ws!data
  <2>2. Ws!TypeOK' /\ Phases' /\ GivenUp' /\ InOrder'
    BY <2>1, <1>i DEF Ws!TypeOK, Phases, GivenUp, AllIsOut, InOrder
  <2>3. toServer = Ws!Upto(Len(toServer))
    BY <1>i, <1>s, Counting DEF InOrder
  <2>4. Ws!SessionVerdict'
    <3>1. ~terminal
      BY <1>i, <2>1 DEF Phases
    <3>2. socket = "none" \/ closed \/ (eof /\ toServer = Ws!Upto(typed))
      BY <1>i, <2>1, <2>3 DEF Phases, GivenUp, AllIsOut
    <3>3. exit' # 1
      BY <2>1
    <3>4. terminal' = terminal /\ socket' = socket /\ closed' = closed /\ eof' = eof /\ toServer' = toServer /\ typed' = typed
      BY <2>1
    <3> QED
      BY <3>1, <3>2, <3>3, <3>4, Zenon DEF Ws!SessionVerdict, Ws!Upto
  <2> QED
    BY <2>2, <2>4 DEF WsInv
<1>5. CASE Ws!EnterRawMode
  BY <1>5, <1>i, <1>v DEF Ws!EnterRawMode, Ws!peers, Ws!data, Ws!Alive, WsInv, Ws!TypeOK, Phases, GivenUp, AllIsOut, InOrder
<1>6. CASE Ws!Readline
  <2>1. /\ exit' = Ws!Running /\ terminal' = FALSE /\ console = "read" /\ main = "wait"
        /\ UNCHANGED <<main, socket, exit, frame, toServer, shown, typed, eof, sent, closed>>
    BY <1>6, <1>i DEF Ws!Readline, Ws!peers, Ws!Alive, Phases
  <2>2. CASE typed > Len(toServer) /\ console' = "write" /\ line' = Len(toServer) + 1
    <3>1. line' \in 0..MaxLines /\ line' <= typed
      BY <1>i, <1>s, <2>2 DEF Ws!TypeOK
    <3> QED
      BY <1>i, <1>s, <1>v, <2>1, <2>2, <3>1 DEF WsInv, Ws!TypeOK, Phases, GivenUp, InOrder
  <2>3. CASE eof /\ typed = Len(toServer) /\ console' = "report" /\ UNCHANGED line
    BY <1>i, <1>s, <1>v, <2>1, <2>3 DEF WsInv, Ws!TypeOK, Phases, GivenUp, AllIsOut, InOrder
  <2> QED
    BY <1>6, <2>2, <2>3 DEF Ws!Readline
<1>7. CASE Ws!WriteMessage
  <2>1. /\ exit' = Ws!Running /\ main' = "wait" /\ line' = 0 /\ console = "write"
        /\ line = Len(toServer) + 1 /\ line <= typed /\ line \in 1..MaxLines
        /\ UNCHANGED <<main, socket, terminal, exit, frame, shown, typed, eof, sent, closed>>
    BY <1>7, <1>i, <1>s DEF Ws!WriteMessage, Ws!Alive, Ws!peers, Phases, InOrder, Ws!TypeOK
  <2>2. CASE console' = "call" /\ toServer' = Append(toServer, line)
    <3>1. /\ toServer' \in Seq(1..MaxLines) /\ Len(toServer') = Len(toServer) + 1
          /\ \A i \in 1..Len(toServer') : toServer'[i] = i
      BY <1>i, <1>s, <2>1, <2>2 DEF InOrder
    <3>2. InOrder'
      BY <1>i, <2>1, <2>2, <3>1 DEF InOrder
    <3>3. Ws!TypeOK' /\ Phases' /\ GivenUp'
      BY <1>i, <2>1, <2>2, <3>1 DEF Ws!TypeOK, Phases, GivenUp
    <3> QED
      BY <1>v, <2>1, <3>2, <3>3 DEF WsInv
  <2>3. CASE closed /\ console' = "report" /\ UNCHANGED toServer
    BY <1>i, <1>v, <2>1, <2>3 DEF WsInv, Ws!TypeOK, Phases, GivenUp, AllIsOut, InOrder
  <2> QED
    BY <1>7, <2>2, <2>3 DEF Ws!WriteMessage
<1>8. CASE Ws!ReadMessage
  <2>1. frame' = Len(shown) + 1 /\ frame' <= sent /\ frame' \in 0..MaxFrames
    BY <1>8, <1>i, <1>s DEF Ws!ReadMessage, Ws!TypeOK
  <2> QED
    BY <1>8, <1>i, <1>v, <2>1 DEF Ws!ReadMessage, Ws!peers, Ws!Alive, WsInv, Ws!TypeOK, Phases, GivenUp, AllIsOut, InOrder
<1>9. CASE Ws!ShowFrame
  <2>1. /\ shown' = Append(shown, frame) /\ frame = Len(shown) + 1 /\ frame <= sent /\ frame \in 1..MaxFrames
        /\ exit' = Ws!Running /\ socket' = "read" /\ frame' = 0 /\ socket = "print"
        /\ UNCHANGED <<main, console, terminal, exit, line, toServer, typed, eof, sent, closed>>
    BY <1>9, <1>i, <1>s DEF Ws!ShowFrame, Ws!Alive, Ws!peers, InOrder, Ws!TypeOK
  <2>2. /\ shown' \in Seq(1..MaxFrames) /\ Len(shown') = Len(shown) + 1
        /\ \A i \in 1..Len(shown') : shown'[i] = i
    BY <1>i, <1>s, <2>1 DEF InOrder
  <2>3. Ws!TypeOK' /\ Phases' /\ GivenUp'
    BY <1>i, <2>1, <2>2 DEF Ws!TypeOK, Phases, GivenUp, AllIsOut
  <2>4. InOrder'
    BY <1>i, <2>1, <2>2 DEF InOrder
  <2> QED
    BY <1>v, <2>1, <2>3, <2>4 DEF WsInv
<1>10. CASE Ws!ReadFails
  <2>1. /\ exit' = 1 /\ socket' = "ended" /\ closed /\ Len(shown) = sent /\ socket = "read"
        /\ UNCHANGED <<main, console, terminal, line, frame, toServer, shown, typed, eof, sent, closed>>
    BY <1>10 DEF Ws!ReadFails, Ws!peers, Ws!data
  <2>2. Ws!TypeOK' /\ Phases' /\ GivenUp' /\ InOrder'
    BY <2>1, <1>i DEF Ws!TypeOK, Phases, GivenUp, AllIsOut, InOrder
  <2>3. shown = Ws!Upto(sent)
    BY <1>i, <1>s, <2>1, Counting DEF InOrder
  <2>4. Ws!SessionVerdict'
    BY <2>1, <2>3 DEF Ws!SessionVerdict, Ws!Upto
  <2> QED
    BY <2>2, <2>4 DEF WsInv
<1>11. CASE Ws!Type \/ Ws!EndInput \/ Ws!Send \/ Ws!Close
  <2>1. /\ exit' = Ws!Running /\ UNCHANGED <<main, console, socket, terminal, exit, line, frame, toServer, shown>>
        /\ closed' = closed \/ (main = "wait" /\ closed' = TRUE)
        /\ (typed' = typed \/ ~eof) /\ (eof' = eof \/ eof' = TRUE)
        /\ sent <= sent' /\ typed <= typed'
    <3>1. exit' = Ws!Running /\ UNCHANGED <<main, console, socket, terminal, exit, line, frame, toServer, shown>>
      BY <1>11 DEF Ws!Type, Ws!EndInput, Ws!Send, Ws!Close, Ws!data, Ws!Alive
    <3>2. closed' = closed \/ (main = "wait" /\ closed' = TRUE)
      BY <1>11, Zenon DEF Ws!Type, Ws!EndInput, Ws!Send, Ws!Close
    <3>3. (typed' = typed \/ ~eof) /\ (eof' = eof \/ eof' = TRUE)
      BY <1>11, Zenon DEF Ws!Type, Ws!EndInput, Ws!Send, Ws!Close
    <3>4. sent <= sent' /\ typed <= typed'
      BY <1>11, <1>i DEF Ws!Type, Ws!EndInput, Ws!Send, Ws!Close, Ws!TypeOK
    <3> QED
      BY <3>1, <3>2, <3>3, <3>4
  <2>2. typed' \in 0..MaxLines /\ sent' \in 0..MaxFrames /\ eof' \in BOOLEAN /\ closed' \in BOOLEAN
    <3>1. typed' \in 0..MaxLines /\ sent' \in 0..MaxFrames
      BY <1>11, <1>i DEF Ws!Type, Ws!EndInput, Ws!Send, Ws!Close, Ws!TypeOK
    <3>2. (eof' = eof \/ eof' = TRUE) /\ (closed' = closed \/ closed' = TRUE)
      BY <1>11 DEF Ws!Type, Ws!EndInput, Ws!Send, Ws!Close
    <3>3. eof' \in BOOLEAN /\ closed' \in BOOLEAN
      BY <1>i, <3>2, Zenon DEF Ws!TypeOK
    <3> QED
      BY <3>1, <3>3
  <2>3. Ws!TypeOK' /\ Phases'
    BY <1>i, <2>1, <2>2 DEF Ws!TypeOK, Phases
  <2>4. GivenUp'
    BY <1>i, <2>1, <2>2 DEF GivenUp, AllIsOut, Ws!TypeOK
  <2>5. InOrder'
    BY <1>i, <1>s, <2>1, <2>2 DEF Ws!TypeOK, InOrder
  <2> QED
    BY <1>v, <2>1, <2>3, <2>4, <2>5 DEF WsInv
<1>12. CASE UNCHANGED Ws!vars
  BY <1>12, <1>i DEF Ws!vars, WsInv, Ws!TypeOK, Phases, GivenUp, AllIsOut, InOrder, Ws!SessionVerdict, Ws!Upto
<1> QED
  BY <1>u, <1>1, <1>2, <1>3, <1>4, <1>5, <1>6, <1>7, <1>8, <1>9, <1>10, <1>11, <1>12
     DEF Ws!Next, Ws!connect, Ws!readConsole, Ws!readWebsocket

-----------------------------------------------------------------------------
(* The two commands share the exit code only.                              *)

ProcessInv == /\ TypeOK /\ Ws!TypeOK
              /\ command = "check" => CheckInv
              /\ command = "ws" => WsInv

\* A command starts as a check or as a session.
LEMMA ProcessInitially == rootCmd => ProcessInv
<1> SUFFICES ASSUME rootCmd PROVE ProcessInv
  OBVIOUS
<1>1. CheckInv /\ WsInv
  BY CheckInitially, WsInitially DEF rootCmd
<1>2. TypeOK
  <2>1. 0 \in 0..(MaxRetries + 1) /\ {} \subseteq 0..MaxRetries
    BY RetriesAssumption
  <2>2. "none" \in AnyAnswer
    BY DEF AnyAnswer
  <2> QED
    BY <2>1, <2>2 DEF rootCmd, Init, TypeOK
<1> QED
  BY <1>1, <1>2 DEF ProcessInv, WsInv

\* Every step of either keeps what is known of both.
LEMMA ProcessStep == ProcessInv /\ [Execute]_allVars => ProcessInv'
<1> SUFFICES ASSUME ProcessInv, [Execute]_allVars PROVE ProcessInv'
  OBVIOUS
<1>1. CASE Check
  <2>1. command = "check" /\ command' = command /\ Next /\ UNCHANGED wsVars
    BY <1>1 DEF Check
  <2>2. CheckInv' /\ TypeOK'
    BY <2>1, CheckStep, CheckTyped DEF ProcessInv
  <2>3. exit' \in {Ws!Running, 0, 1}
    BY <2>2 DEF TypeOK, Running, Ws!Running
  <2>4. Ws!TypeOK'
    BY <2>1, <2>3, Zenon DEF ProcessInv, Ws!TypeOK, wsVars
  <2> QED
    BY <2>1, <2>2, <2>4 DEF ProcessInv
<1>2. CASE Session
  <2>1. command = "ws" /\ command' = command /\ Ws!Next /\ UNCHANGED checkVars
    BY <1>2 DEF Session
  <2>2. WsInv'
    BY <2>1, WsStep DEF ProcessInv
  <2>3. Ws!TypeOK'
    BY <2>2 DEF WsInv
  <2>4. exit' \in {Running, 0, 1}
    BY <2>3 DEF Ws!TypeOK, Running, Ws!Running
  <2>5. TypeOK'
    BY <2>1, <2>4, Zenon DEF ProcessInv, TypeOK, checkVars
  <2> QED
    BY <2>1, <2>2, <2>3, <2>5 DEF ProcessInv
<1>3. CASE UNCHANGED allVars
  <2>1. UNCHANGED <<command, vars, Ws!vars>>
    BY <1>3 DEF allVars, vars, Ws!vars, checkVars, wsVars
  <2>2. CheckInv => CheckInv'
    BY <2>1, CheckStep
  <2>3. WsInv => WsInv'
    BY <2>1, WsStep
  <2>4. TypeOK'
    BY <2>1 DEF ProcessInv, TypeOK, vars
  <2>5. Ws!TypeOK'
    BY <2>1 DEF ProcessInv, Ws!TypeOK, Ws!vars
  <2> QED
    BY <2>1, <2>2, <2>3, <2>4, <2>5 DEF ProcessInv
<1> QED
  BY <1>1, <1>2, <1>3 DEF Execute

\* The invariant of the process holds in all its states.
LEMMA ProcessAlways == PodcliSpec => []ProcessInv
  BY ProcessInitially, ProcessStep, PTL DEF PodcliSpec

(* podcli ws exits with 1 only for a wrong call, before it dials, or after *)
(* the server closed and every frame that had arrived was shown in order;  *)
(* with 0 it has given the terminal back, and a session whose connection   *)
(* held has sent every line in order: for any number of lines and frames.  *)
THEOREM SessionVerdictCorrect == PodcliSpec => []SessionVerdict
<1>1. ProcessInv => SessionVerdict
  BY DEF ProcessInv, WsInv, SessionVerdict
<1> QED
  BY <1>1, ProcessAlways, PTL

(* The attempts of a check, and the lines and frames of a session, stay    *)
(* within what was asked for.                                              *)
THEOREM CommandsTyped == PodcliSpec => []CommandTypes
<1>1. ProcessInv => CommandTypes
  BY DEF ProcessInv, CommandTypes
<1> QED
  BY <1>1, ProcessAlways, PTL
=============================================================================
