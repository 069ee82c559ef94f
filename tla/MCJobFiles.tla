----------------------------- MODULE MCJobFiles -----------------------------
EXTENDS JobFiles

\* Both jobs get the first file, the second job another one as well.
MCWants == [j \in Jobs |-> IF j = 1 THEN <<1>> ELSE <<1, 2>>]
MCTries == [j \in Jobs |-> IF j = 1 THEN 2 ELSE 1]
=============================================================================
