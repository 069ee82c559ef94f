-------------------------- MODULE MCThreadTurns --------------------------
(* Model values and small instances of ThreadTurns for TLC. *)
EXTENDS ThreadTurns

CONSTANTS m1, m2, c1, r1

MCAbout == [r \in Reminders |-> m1]
=============================================================================
