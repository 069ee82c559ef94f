--------------------------- MODULE MCParentInput ---------------------------
(***************************************************************************)
(* The results a parent is given to report, and the context its calls are  *)
(* shown.  They share no state: a behaviour follows one, the focus, and    *)
(* the other stays at rest.                                                *)
(***************************************************************************)
EXTENDS MCResults, Context

VARIABLE focus

\* With one message the owner and a crash interfere, with two only a crash, and
\* the driver waits until the thread is given to it.  Beside the parent's jobs it
\* queues its own at any time, with one message and neither.
Interference ==
    /\ items # {}
    /\ Cardinality(items) > 1 => owner = MaxOwner
Beside == Cardinality(items) = 1 /\ owner = MaxOwner /\ crashes = MaxCrashes
DriverWaits == thread.driver = "external" \/ \A j \in ByDriver : job'[j] # "none" => job[j] # "none"

InputInit ==
    /\ Init /\ ContextInit
    /\ \/ focus = "results" /\ Interference
       \/ focus = "beside" /\ Beside
       \/ focus = "context" /\ items = {} /\ owner = 0 /\ crashes = 0

InputNext ==
    /\ \/ focus = "results" /\ Next /\ DriverWaits /\ UNCHANGED contextVars
       \/ focus = "beside" /\ Next /\ UNCHANGED contextVars
       \/ focus = "context" /\ ContextNext /\ UNCHANGED vars
    /\ UNCHANGED focus

InputSpec == InputInit /\ [][InputNext]_<<focus, vars, contextVars>>
=============================================================================
