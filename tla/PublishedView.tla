---------------------------- MODULE PublishedView ----------------------------
(***************************************************************************)
(* What a cache of a published volume promises whoever reads it.  Versions *)
(* come out one after the other.  The view of a key is the version whose   *)
(* content is shown, or None.  Content is only replaced by later content   *)
(* that was published, and taken away only when a later version is without *)
(* the key; a settled view is the current version, whole and nothing else. *)
(***************************************************************************)
EXTENDS Integers, Sequences

CONSTANTS Keys, Payload, None

VARIABLES
  current,   \* the last version published
  view,      \* the version of which each key is shown
  settled    \* is the view known to be up to date?

cvars == <<current, view, settled>>

Published == [k \in Keys |-> IF k \in Payload[current] THEN current ELSE None]

Init ==
  /\ current = 1
  /\ view = [k \in Keys |-> None]
  /\ settled = FALSE

Publish ==
  /\ current < Len(Payload)
  /\ current' = current + 1
  /\ settled' = FALSE
  /\ UNCHANGED view

\* Never a version before the one that is shown, which None is below all of.
Replace(k) ==
  /\ ~settled
  /\ \E v \in 1 .. current :
       /\ k \in Payload[v]
       /\ view[k] <= v
       /\ view' = [view EXCEPT ![k] = v]
  /\ UNCHANGED <<current, settled>>

Drop(k) ==
  /\ ~settled
  /\ \E v \in 1 .. current : view[k] < v /\ k \notin Payload[v]
  /\ view' = [view EXCEPT ![k] = None]
  /\ UNCHANGED <<current, settled>>

Settle ==
  /\ view = Published
  /\ settled' = TRUE
  /\ UNCHANGED <<current, view>>

Next ==
  \/ Publish
  \/ \E k \in Keys : Replace(k) \/ Drop(k)
  \/ Settle

Spec == Init /\ [][Next]_cvars

=============================================================================
