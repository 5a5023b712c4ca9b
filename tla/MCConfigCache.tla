---------------------------- MODULE MCConfigCache ----------------------------
(* Instances of ConfigCache for TLC. *)
EXTENDS ConfigCache

CONSTANTS a, b, c

\* A key is added, then another one removed; one stays.
Changing  == <<{a, b}, {a, b, c}, {a, c}>>
\* A key is removed.
Shrinking == <<{a, b}, {a, b}, {a}>>
=============================================================================
