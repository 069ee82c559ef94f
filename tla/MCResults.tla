----------------------------- MODULE MCResults -----------------------------
EXTENDS Results

\* Jobs 1 and 2 are delegated together, job 3 by a driver.
MCGroup == [j \in Jobs |-> IF j = 3 THEN 2 ELSE 1]
=============================================================================
