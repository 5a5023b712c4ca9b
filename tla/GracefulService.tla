--------------------------- MODULE GracefulService ---------------------------
(***************************************************************************)
(* What a server process that stops gracefully promises its clients.  A    *)
(* request that was let inside either leaves answered or is lost when the  *)
(* process ends.  An orderly end loses no Patient request at all, and      *)
(* loses a Bounded one only when the closing phase has become late.  An    *)
(* abort may lose anything.                                                *)
(***************************************************************************)
CONSTANTS Requests, Patient, Bounded

VARIABLES
  mode,     \* up, closing, done or aborted
  inside,   \* requests being served
  lost,     \* requests cut off by the end
  shut,     \* requests no longer admitted
  late      \* has the closing phase used up its time?

cvars == <<mode, inside, lost, shut, late>>

Init ==
  /\ mode = "up"
  /\ inside = {} /\ lost = {}
  /\ shut \in SUBSET Requests
  /\ late = FALSE

Alive == mode \in {"up", "closing"}

Admit(r) ==
  /\ Alive /\ r \notin shut
  /\ inside' = inside \cup {r}
  /\ UNCHANGED <<mode, lost, shut, late>>

Finish(r) ==
  /\ Alive /\ r \in inside
  /\ inside' = inside \ {r}
  /\ UNCHANGED <<mode, lost, shut, late>>

\* The closing phase begins; it is late at once when it has no time at all.
Close ==
  /\ mode = "up"
  /\ mode' = "closing"
  /\ late' \in BOOLEAN
  /\ UNCHANGED <<inside, lost, shut>>

\* Requests are shut out in the closing phase only, and for good.
ShutOut ==
  /\ mode = "closing"
  /\ shut' \in SUBSET Requests
  /\ shut \subseteq shut'
  /\ UNCHANGED <<mode, inside, lost, late>>

Expire ==
  /\ mode = "closing"
  /\ late' = TRUE
  /\ UNCHANGED <<mode, inside, lost, shut>>

End ==
  /\ lost' = inside
  /\ inside' = {}
  /\ shut \subseteq shut' /\ shut' \subseteq Requests
  /\ UNCHANGED late

OrderlyEnd ==
  /\ mode = "closing" /\ mode' = "done"
  /\ shut = Requests
  /\ inside \cap Patient = {}
  /\ late \/ inside \cap Bounded = {}
  /\ End

Abort ==
  /\ Alive /\ mode' = "aborted"
  /\ End

Next ==
  \/ \E r \in Requests : Admit(r) \/ Finish(r)
  \/ Close
  \/ ShutOut
  \/ Expire
  \/ OrderlyEnd
  \/ Abort

Spec == Init /\ [][Next]_cvars

=============================================================================
