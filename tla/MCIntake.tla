------------------------------ MODULE MCIntake ------------------------------
EXTENDS Intake

\* Message 2 is a reply in the thread of message 1; 3 stands for itself.
MCRootOf == [m \in Msgs |-> IF m = 2 THEN 1 ELSE m]
=============================================================================
