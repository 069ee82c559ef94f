------------------------------ MODULE MCDaemon ------------------------------
(***************************************************************************)
(* Four parts of the daemon that share no state: its life, its processes,  *)
(* the approvals of one configuration and the event feed, whose two        *)
(* readers share only the ledger.  A behaviour follows one of them, the    *)
(* focus; the others stay at rest, so the run explores the state spaces    *)
(* and not their product.                                                  *)
(***************************************************************************)
EXTENDS Service, Calls, Approvals, Feed

VARIABLE focus

MCCapacity == [k \in {"github", "probe"} |-> 1]
MCPolicy == [c \in Configs |-> "ask"]

vars == <<focus, serviceVars, callVars, approvalVars, feedVars>>

Init ==
    /\ focus \in {"service", "calls", "approvals", "driver", "follower"}
    /\ ServiceInit /\ CallsInit /\ ApprovalsInit /\ FeedInit

Next ==
    /\ \/ /\ focus = "service" /\ ServiceNext
          /\ UNCHANGED <<callVars, approvalVars, feedVars>>
       \/ /\ focus = "calls" /\ CallsNext
          /\ UNCHANGED <<serviceVars, approvalVars, feedVars>>
       \/ /\ focus = "approvals" /\ ApprovalsNext
          /\ UNCHANGED <<serviceVars, callVars, feedVars>>
       \/ /\ focus = "driver" /\ FeedNext
          /\ UNCHANGED <<follower, since, printed, serviceVars, callVars, approvalVars>>
       \/ /\ focus = "follower" /\ FeedNext
          /\ UNCHANGED <<driver, saved, outbox, serviceVars, callVars, approvalVars>>
    /\ UNCHANGED focus

\* A part at rest has nothing to do: its fairness asks for no step.
Spec == Init /\ [][Next]_vars /\ ServiceFair /\ CallsFair
=============================================================================
