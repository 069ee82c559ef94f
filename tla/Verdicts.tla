----------------------------- MODULE Verdicts -----------------------------
(***************************************************************************)
(* What the broker promises about each approval request (approvals/mod.rs):*)
(* one verdict, given once and never taken back, and a worker that is told *)
(* an answer is told the verdict.  A worker that left is told nothing.     *)
(***************************************************************************)
CONSTANTS
    Requests,
    Answers    \* what a verdict can be

VARIABLES
    verdict,   \* open, or the verdict of a request
    told       \* none, what its worker was told, or gone

verdictVars == <<verdict, told>>

Init ==
    /\ verdict = [r \in Requests |-> "open"]
    /\ told = [r \in Requests |-> "none"]

\* The owner, the policy, a timeout, a stop or a crash gives the verdict.
Give(r) == verdict[r] = "open" /\ verdict'[r] \in Answers

\* The worker hears it, perhaps at the moment it is given.
Tell(r) == told[r] = "none" /\ verdict'[r] \in Answers /\ told'[r] = verdict'[r]
Leave(r) == told[r] = "none" /\ told'[r] = "gone"

\* A reload or a crash gives many verdicts in one step.
Next ==
    /\ verdict' \in [Requests -> Answers \cup {"open"}]
    /\ told' \in [Requests -> Answers \cup {"none", "gone"}]
    /\ \A r \in Requests :
          /\ Give(r) \/ verdict'[r] = verdict[r]
          /\ Tell(r) \/ Leave(r) \/ told'[r] = told[r]

Spec == Init /\ [][Next]_verdictVars
=============================================================================
