----------------------------- MODULE MCOsTimer -----------------------------
(* Instances of OsTimer for TLC. *)
EXTENDS OsTimer

CONSTANTS c1, c2, c3, e1, e2, e3

\* Slices the task measures, in units of half a second.
Slices == {0, 1, 2}
\* Delays of at least the longest slice, as in the agent (10 s against 1 s).
LongDelays == {2, 4, 5}
=============================================================================
