--------------------------- MODULE MCSupervisor ---------------------------
(* Small instances of Supervisor for TLC. *)
EXTENDS Supervisor

CONSTANTS a, b, c, m

MCOf      == [j \in Jobs |-> IF j = 2 THEN b ELSE IF j = 3 THEN c ELSE a]
MCMachine == [w \in Workers |-> m]
MCSlots   == [x \in {m} |-> 2]
MCProcs   == [x \in {m} |-> 1]
MCProcs2  == [x \in {m} |-> 2]
=============================================================================
