----------------------------- MODULE MCOutbox -----------------------------
(* Two threads: the posts 1 <- 2 of one, and post 3 of another.  The owner *)
(* sends post 1, which has a dependent, again.                             *)
EXTENDS Outbox, TLC

MCThread == [p \in Posts |-> IF p = 3 THEN "b" ELSE "a"]
MCAfter  == [p \in Posts |-> IF p = 3 THEN 0 ELSE p - 1]
MCGrants == [p \in Posts |-> IF p = 1 THEN 1 ELSE 0]
=============================================================================
