------------------------------ MODULE KeyService ------------------------------
(***************************************************************************)
(* What a store of one key promises to those who ask it.  A request takes  *)
(* effect at one instant between question and answer, and the answer tells *)
(* what it found then; or it fails, which it may do only if the store was  *)
(* down at some time in between.  A change whose request failed may all    *)
(* the same have been made when the store went down.  The store may lose   *)
(* the key at any time, and others may set it.                             *)
(***************************************************************************)
CONSTANT Requests

VARIABLES
  up,        \* the store can be reached
  held,      \* the store holds the key
  waiting,   \* what each request has asked and not been told yet
  answer,    \* the answer each request got, until it is forgotten
  excused,   \* the requests that may fail
  others     \* others than the requests set the key, too

kvars == <<up, held, waiting, answer, excused, others>>

Init ==
  /\ up \in BOOLEAN /\ held = FALSE /\ others \in BOOLEAN
  /\ waiting = [r \in Requests |-> "none"]
  /\ answer = [r \in Requests |-> "none"]
  /\ excused = {}

Idle(r) == waiting[r] = "none" /\ answer[r] = "none"

Ask(r) ==
  /\ Idle(r)
  /\ \E op \in {"SET", "DEL", "EXISTS"} : waiting' = [waiting EXCEPT ![r] = op]
  /\ excused' = excused \cup (IF up THEN {} ELSE {r})
  /\ UNCHANGED <<up, held, answer, others>>

\* Turned away before the store is asked.
Decline(r) ==
  /\ Idle(r)
  /\ answer' = [answer EXCEPT ![r] = "error"]
  /\ UNCHANGED <<up, held, waiting, excused, others>>

Tell(r, code) ==
  /\ waiting' = [waiting EXCEPT ![r] = "none"]
  /\ answer' = [answer EXCEPT ![r] = code]
  /\ excused' = excused \ {r}

Apply(r) ==
  /\ up
  /\ \/ waiting[r] = "SET" /\ held' = TRUE /\ Tell(r, "202")
     \/ waiting[r] = "DEL" /\ held' = FALSE /\ Tell(r, "202")
     \/ waiting[r] = "EXISTS" /\ held' = held
          /\ IF held THEN Tell(r, "200") ELSE Tell(r, "404") \/ Tell(r, "500")
  /\ UNCHANGED <<up, others>>

Fail(r) ==
  /\ r \in excused
  /\ \/ waiting[r] = "SET" /\ Tell(r, "error")
     \/ waiting[r] = "DEL" /\ Tell(r, "400")
     \/ waiting[r] = "EXISTS" /\ (Tell(r, "404") \/ Tell(r, "500"))
  /\ UNCHANGED <<up, held, others>>

Forget(r) ==
  /\ answer' = [answer EXCEPT ![r] = "none"]
  /\ UNCHANGED <<up, held, waiting, excused, others>>

Lose ==
  /\ ~held'
  /\ UNCHANGED <<up, waiting, answer, excused, others>>

Provide ==
  /\ others /\ up /\ held'
  /\ UNCHANGED <<up, waiting, answer, excused, others>>

GoDown ==
  /\ up /\ ~up'
  /\ \/ UNCHANGED held
     \/ held' = FALSE /\ \E r \in Requests : waiting[r] = "DEL"
     \/ held' = TRUE /\ (others \/ \E r \in Requests : waiting[r] = "SET")
  /\ excused' = {r \in Requests : waiting[r] # "none"}
  /\ UNCHANGED <<waiting, answer, others>>

ComeUp ==
  /\ ~up /\ up'
  /\ UNCHANGED held \/ held' = FALSE
  /\ UNCHANGED <<waiting, answer, excused, others>>

Next ==
  \/ Lose \/ Provide \/ GoDown \/ ComeUp
  \/ \E r \in Requests : Forget(r) \/ Ask(r) \/ Decline(r) \/ Apply(r) \/ Fail(r)

Spec == Init /\ [][Next]_kvars

=============================================================================
