----------------------------- MODULE JobLedger -----------------------------
(***************************************************************************)
(* What the supervisor promises about the rows of a thread's jobs          *)
(* (workers/supervisor.rs), whatever moves them: a pass, a task, a stop, a *)
(* crash.  A job is queued, then started, and its end is final; an attempt *)
(* starts alone in its worker's slot, of a worker that is not stopped; a   *)
(* second attempt follows a first one that failed, and there is no third.  *)
(***************************************************************************)
EXTENDS Naturals

CONSTANTS Workers, Jobs, Of, Machine, Slots

VARIABLES
  status,    \* of each job
  attempt,   \* attempts started of each job
  slot,      \* the slot of each worker, 0 before its first job
  stopped    \* stopped workers

ledgerVars == <<status, attempt, slot, stopped>>

Ended == {"done", "failed", "cancelled", "interrupted"}

Init ==
  /\ status = [j \in Jobs |-> "absent"] /\ attempt = [j \in Jobs |-> 0]
  /\ slot = [w \in Workers |-> 0] /\ stopped \subseteq Workers

Moves(j, from, to) == status[j] = from /\ status'[j] = to
Again(j) == attempt'[j] = attempt[j]

Queue(j) == Moves(j, "absent", "queued") /\ Again(j) /\ Of[j] \notin stopped

\* No other job runs for the worker, or in its slot of the machine.
Alone(j) ==
  \A k \in Jobs \ {j} : status'[k] = "running" =>
    /\ Of[k] # Of[j]
    /\ Machine[Of[k]] = Machine[Of[j]] => slot'[Of[k]] # slot'[Of[j]]

Start(j) ==
  /\ Moves(j, "queued", "running") /\ Of[j] \notin stopped /\ Alone(j)
  /\ attempt'[j] = attempt[j] + 1

\* Only what runs ends, and only a stopped worker's queued job is cancelled.
End(j)    == \E how \in Ended : Moves(j, "running", how) /\ Again(j)
Retry(j)  == Moves(j, "running", "queued") /\ Again(j) /\ attempt[j] = 1
Cancel(j) == Moves(j, "queued", "cancelled") /\ Again(j) /\ Of[j] \in stopped'

\* A worker is bound to a slot of its machine by its first start, for good.
Bind(w) ==
  /\ slot[w] = 0 /\ slot'[w] \in 1..Slots[Machine[w]]
  /\ \E j \in Jobs : Of[j] = w /\ Start(j)

\* A stop or a recovery moves many jobs in one step.
Next ==
  /\ \A j \in Jobs : \/ Queue(j) \/ Start(j) \/ End(j) \/ Retry(j) \/ Cancel(j)
                     \/ status'[j] = status[j] /\ Again(j)
  /\ \A w \in Workers : Bind(w) \/ slot'[w] = slot[w]
  /\ stopped \subseteq stopped' /\ stopped' \subseteq Workers
  /\ status' \in [Jobs -> {"absent", "queued", "running"} \cup Ended]
  /\ attempt' \in [Jobs -> 0..2] /\ slot' \in [Workers -> Nat]

Spec == Init /\ [][Next]_ledgerVars
=============================================================================
