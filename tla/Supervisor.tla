---------------------------- MODULE Supervisor ----------------------------
(***************************************************************************)
(* The worker supervisor (workers/supervisor.rs): the durable jobs of one  *)
(* thread, the tasks that run them, the pool of warm worker processes, and *)
(* the owner's and the parent's controls over them.                        *)
(*                                                                         *)
(* Every supervisor operation holds the state lock, also across its        *)
(* awaits: op is the operation that holds it.  Tasks, the actor's commits  *)
(* and the thread's controls interleave with it.  The store's rows are     *)
(* external and modelled from their use and from tests/supervisor.rs and   *)
(* tests/runtime_flow.rs.                                                  *)
(***************************************************************************)
EXTENDS Naturals, FiniteSets

CONSTANTS
  Workers,
  Jobs,       \* positive numbers, in queueing order
  Of,         \* Of[j]: the worker j is queued for
  Ephemeral,  \* workers retired after one job
  Machine,    \* Machine[w]: where w runs
  Slots,      \* Slots[m]: max_jobs of machine m, one directory each
  Procs,      \* Procs[m]: max_workers, the live processes of machine m
  MaxJobs,    \* limits.max_jobs, over all machines
  MaxControls,\* bound on the owner's and the parent's controls
  MaxFaults   \* bound on unconfirmed closes, stale policies, stops and crashes of the daemon

Machines == {Machine[w] : w \in Workers}

ASSUME SupervisorAssumption ==
  /\ Jobs \subseteq Nat \ {0} /\ IsFiniteSet(Jobs)
  /\ Of \in [Jobs -> Workers] /\ Ephemeral \subseteq Workers /\ IsFiniteSet(Workers)
  /\ Slots \in [Machines -> Nat] /\ Procs \in [Machines -> Nat]
  /\ MaxJobs \in Nat /\ MaxControls \in Nat /\ MaxFaults \in Nat

VARIABLES
  \* durable
  thread,    \* the thread's control
  status,    \* the state of each job
  attempt,   \* attempts started of each job
  slot,      \* the slot each worker is bound to, 0 before its first job
  stopped,   \* stopped workers
  intents,   \* worker controls to reconcile
  \* in memory
  live,      \* the entry of each worker in the process pool
  task,      \* the running task of each job
  op,        \* the operation that holds the state lock
  halting,   \* a pass failed or the daemon was stopped: the service shuts down
  \* the machines
  alive,     \* workers whose process exists
  up, controls, faults,
  \* ghosts
  confirmed, \* workers whose stop was acknowledged
  barred     \* attempts the parent asked to interrupt

rowVars   == <<status, attempt, slot, stopped, intents>>
poolVars  == <<live, task, alive>>
bounds    == <<controls, faults>>
ghosts    == <<confirmed, barred>>
vars == <<thread, rowVars, poolVars, op, halting, up, bounds, ghosts>>

Statuses == {"absent", "queued", "running", "done", "failed", "cancelled", "interrupted"}
Ended    == Statuses \ {"absent", "queued", "running"}
Signals  == {"run", "interrupt", "stop", "shutdown"}
Results  == {"none", "ok", "execution", "refusal", "interrupted"}

\* A job's task: the signal sent, the one it heard (run_task's select), how the
\* backend ended, and whether the close of its process was confirmed.
Tasks == [step: {"none", "prepare", "backend", "settling", "closing", "completing", "over"},
          signal: Signals, heard: Signals, result: Results, closed: BOOLEAN]
NoTask == [step |-> "none", signal |-> "run", heard |-> "run", result |-> "none",
           closed |-> FALSE]
NewTask == [NoTask EXCEPT !.step = "prepare"]

Intents == [kind: {"stop", "close", "interrupt"}, worker: Workers, job: Jobs \cup {0},
            attempt: Nat]

\* schedule's snapshot: the jobs left to look at, the workers with queued work, the
\* stopped workers and the running jobs; claimed is a job between its claim and its
\* task.  stop's worker and the intents it serves, none for the owner's request.
Ops == [kind: {"none", "schedule", "stop", "ack", "close"}, todo: SUBSET Jobs,
        waiting: SUBSET Workers, gone: SUBSET Workers, seen: SUBSET Jobs,
        claimed: SUBSET Jobs, stopping: SUBSET Workers, serves: SUBSET Intents]
NoOp == [kind |-> "none", todo |-> {}, waiting |-> {}, gone |-> {}, seen |-> {},
         claimed |-> {}, stopping |-> {}, serves |-> {}]

TypeOK ==
  /\ thread \in {"active", "paused", "closed"}
  /\ status \in [Jobs -> Statuses] /\ attempt \in [Jobs -> 0..2]
  /\ slot \in [Workers -> Nat] /\ stopped \subseteq Workers /\ intents \subseteq Intents
  /\ live \in [Workers -> {"none", "warm", "outdated", "retiring"}]
  /\ task \in [Jobs -> Tasks] /\ op \in Ops
  /\ alive \subseteq Workers
  /\ up \in BOOLEAN /\ halting \in BOOLEAN
  /\ controls \in 0..MaxControls /\ faults \in 0..MaxFaults
  /\ confirmed \subseteq Workers /\ barred \subseteq Jobs \X Nat

\* A service starts with idle workers, of which some were stopped before.
InitWith(gone) ==
  /\ thread = "active"
  /\ status = [j \in Jobs |-> "absent"] /\ attempt = [j \in Jobs |-> 0]
  /\ slot = [w \in Workers |-> 0] /\ stopped = gone /\ intents = {}
  /\ live = [w \in Workers |-> "none"] /\ task = [j \in Jobs |-> NoTask] /\ op = NoOp
  /\ alive = {} /\ up = TRUE /\ halting = FALSE /\ controls = 0 /\ faults = 0
  /\ confirmed = {} /\ barred = {}

Init == InitWith({})

-----------------------------------------------------------------------------
Control == controls < MaxControls /\ controls' = controls + 1 /\ UNCHANGED faults
Fault   == faults < MaxFaults /\ faults' = faults + 1 /\ UNCHANGED controls

JobsOf(w)  == {j \in Jobs : Of[j] = w}
Engaged(t) == {Of[j] : j \in {k \in Jobs : t[k].step # "none"}}
Free       == op.kind = "none"
Passing    == up /\ ~halting /\ Free

\* stop_worker: the stop and the cancellation of queued work commit together.
Cancelled(S) == [j \in Jobs |-> IF Of[j] \in S /\ status[j] = "queued" THEN "cancelled"
                                ELSE status[j]]

(***************************************************************************)
(* The thread: delegation, the parent's worker controls, owner controls.   *)
(***************************************************************************)

\* No turn of the thread runs while a control of it is pending.
TurnAllowed == up /\ ~halting /\ thread = "active" /\ intents = {}

\* queue_jobs, in the commit of a turn.
Enqueue(j) ==
  /\ TurnAllowed /\ status[j] = "absent" /\ Of[j] \notin stopped
  /\ \A k \in Jobs : k < j => status[k] # "absent" \/ Of[k] \in stopped
  /\ status' = [status EXCEPT ![j] = "queued"]
  /\ UNCHANGED <<thread, attempt, slot, stopped, intents, poolVars, op, halting, up, bounds,
                 ghosts>>

\* The intent of a control: an interrupt is bound to the attempt the parent saw.
IntentOf(kind, w) ==
  LET seen == {j \in JobsOf(w) : kind = "interrupt" /\ status[j] = "running"}
  IN  IF seen = {} THEN [kind |-> kind, worker |-> w, job |-> 0, attempt |-> 0]
      ELSE LET j == CHOOSE k \in seen : TRUE
           IN  [kind |-> kind, worker |-> w, job |-> j, attempt |-> attempt[j]]

\* queue_worker_controls, in the commit of a turn.
ParentControl(kind, w) ==
  LET new == IntentOf(kind, w)
  IN  /\ TurnAllowed /\ Control /\ w \notin stopped
      /\ stopped' = IF kind = "stop" THEN stopped \cup {w} ELSE stopped
      /\ status' = IF kind = "stop" THEN Cancelled({w}) ELSE status
      /\ intents' = intents \cup {new}
      /\ barred' = IF new.job = 0 THEN barred ELSE barred \cup {<<new.job, new.attempt>>}
      /\ UNCHANGED <<thread, attempt, slot, poolVars, op, halting, up, confirmed>>

\* The owner's pause and resume.
Pause ==
  /\ up /\ thread # "closed" /\ Control
  /\ thread' = IF thread = "active" THEN "paused" ELSE "active"
  /\ UNCHANGED <<rowVars, poolVars, op, halting, up, ghosts>>

\* Close, archive and clean persist a stop of every worker with the control.
CloseThread ==
  /\ up /\ thread # "closed" /\ Control
  /\ thread' = "closed"
  /\ intents' = intents \cup {IntentOf("close", w) : w \in Workers \ stopped}
  /\ UNCHANGED <<status, attempt, slot, stopped, poolVars, op, halting, up, ghosts>>

\* Restore waits for the stops and for the workers to be stopped.
Restore ==
  /\ up /\ thread = "closed" /\ Control
  /\ intents = {} /\ stopped = Workers
  /\ thread' = "active"
  /\ UNCHANGED <<rowVars, poolVars, op, halting, up, ghosts>>

-----------------------------------------------------------------------------
(***************************************************************************)
(* Tasks (run_task).                                                       *)
(***************************************************************************)
TaskOnly == UNCHANGED <<thread, attempt, slot, intents, live, op, halting, up, ghosts>>

\* Admission and preparation end, the backend's turn begins.
TaskStart(j) ==
  /\ task[j].step = "prepare" /\ task[j].signal = "run"
  /\ task' = [task EXCEPT ![j].step = "backend"]
  /\ alive' = alive \cup {Of[j]}
  /\ TaskOnly /\ UNCHANGED <<status, stopped, bounds>>

\* The select is biased: a signal that was sent is heard first.  A timeout of the job is
\* an execution failure; only the backend can end well.
TaskEnd(j, result) ==
  /\ task[j].step \in {"prepare", "backend"} /\ task[j].signal = "run"
  /\ result \in {"execution", "refusal"} \/ (result = "ok" /\ task[j].step = "backend")
  /\ task' = [task EXCEPT ![j].step = "closing", ![j].result = result]
  /\ TaskOnly /\ UNCHANGED <<status, stopped, alive, bounds>>

\* A signal: the backend, if it runs, has the grace period to end by itself.
TaskHears(j) ==
  /\ task[j].step \in {"prepare", "backend"} /\ task[j].signal # "run"
  /\ task' = [task EXCEPT
       ![j].heard = task[j].signal,
       ![j].step = IF task[j].step = "backend" /\ task[j].signal # "shutdown"
                   THEN "settling" ELSE "closing",
       ![j].result = "interrupted"]
  /\ TaskOnly /\ UNCHANGED <<status, stopped, alive, bounds>>

TaskSettles(j, result) ==
  /\ task[j].step = "settling"
  /\ task' = [task EXCEPT ![j].step = "closing", ![j].result = result]
  /\ TaskOnly /\ UNCHANGED <<status, stopped, alive, bounds>>

Retires(j) == Of[j] \in Ephemeral \/ task[j].result # "ok" \/ task[j].heard # "run"

\* close_worker: confirmed within the grace period, or the process may live on.
Closes(w, ok) == IF ok THEN alive' = alive \ {w} /\ UNCHANGED bounds
                 ELSE Fault /\ UNCHANGED alive

TaskClose(j, ok) ==
  /\ task[j].step = "closing"
  /\ IF Retires(j) THEN Closes(Of[j], ok) ELSE ok /\ UNCHANGED <<alive, bounds>>
  /\ task' = [task EXCEPT ![j].step = "completing", ![j].closed = Retires(j) /\ ok]
  /\ TaskOnly /\ UNCHANGED <<status, stopped>>

\* complete_job: an execution failure of the first attempt is retried once, if there is
\* a session to resume and no interrupt of that attempt is pending.
Completion(j) ==
  LET t == task[j]
      interrupt == [kind |-> "interrupt", worker |-> Of[j], job |-> j, attempt |-> attempt[j]]
  IN  IF t.heard = "stop" THEN {"cancelled"}
      ELSE IF t.heard # "run" THEN {"interrupted"}
      ELSE IF t.result = "ok" THEN {"done"}
      ELSE IF t.result = "refusal" THEN {"failed"}
      ELSE IF interrupt \in intents THEN {"interrupted"}
      ELSE IF attempt[j] = 1 THEN {"queued", "failed"} ELSE {"failed"}

TaskComplete(j) ==
  /\ task[j].step = "completing"
  /\ \E s \in Completion(j) :
       /\ status' = [status EXCEPT ![j] = s]
       /\ stopped' = IF Of[j] \in Ephemeral /\ s # "queued" THEN stopped \cup {Of[j]} ELSE stopped
  /\ task' = [task EXCEPT ![j].step = "over"]
  /\ TaskOnly /\ UNCHANGED <<alive, bounds>>

TaskStep(j) ==
  \/ TaskStart(j) \/ TaskHears(j) \/ TaskComplete(j)
  \/ \E r \in {"ok", "execution", "refusal"} : TaskEnd(j, r)
  \/ \E r \in {"ok", "execution", "refusal", "interrupted"} : TaskSettles(j, r)
  \/ \E ok \in BOOLEAN : TaskClose(j, ok)

\* A warm process ends by itself (idle timeout) while no job uses it.
IdleExit(w) ==
  /\ w \in alive
  /\ \A j \in JobsOf(w) : task[j].step \in {"none", "prepare", "completing", "over"}
  /\ alive' = alive \ {w}
  /\ UNCHANGED <<thread, rowVars, live, task, op, halting, up, bounds, ghosts>>

-----------------------------------------------------------------------------
(***************************************************************************)
(* reap: finished tasks leave, a retired process leaves the pool only once *)
(* its close was confirmed.  A task whose job is no longer running is      *)
(* awaited.                                                                *)
(***************************************************************************)
Reapable == \A j \in Jobs : task[j].step \in {"none", "over"} \/ status[j] = "running"

Reaped == [j \in Jobs |-> IF task[j].step = "over" THEN NoTask ELSE task[j]]

\* Mutant of Kept: a retired worker leaves the pool although its process may live on.
KeptNever ==
  [w \in Workers |-> IF \E j \in JobsOf(w) : task[j].step = "over" /\ Retires(j) THEN "none"
                     ELSE live[w]]

Kept ==
  LET over(w) == {j \in JobsOf(w) : task[j].step = "over" /\ Retires(j)}
  IN  [w \in Workers |-> IF over(w) = {} THEN live[w]
                         ELSE IF \E j \in over(w) : task[j].closed THEN "none"
                         ELSE IF live[w] = "none" THEN "none" ELSE "retiring"]

Settle ==
  /\ Passing /\ Reapable /\ \E j \in Jobs : task[j].step = "over"
  /\ task' = Reaped /\ live' = Kept
  /\ UNCHANGED <<thread, rowVars, op, halting, alive, up, bounds, ghosts>>

(***************************************************************************)
(* schedule.  The snapshot is taken once; the queued jobs are then looked  *)
(* at in order, with the machine's slots and processes as they are.        *)
(***************************************************************************)
BeginSchedule ==
  /\ Passing /\ Reapable
  /\ \E j \in Jobs : status[j] = "queued"
  /\ task' = Reaped /\ live' = Kept
  /\ LET queued == {j \in Jobs : status[j] = "queued"}
     IN  op' = [NoOp EXCEPT !.kind = "schedule", !.todo = queued,
                            !.waiting = {Of[j] : j \in queued}, !.gone = stopped,
                            !.seen = {j \in Jobs : status[j] = "running"}]
  /\ UNCHANGED <<thread, rowVars, halting, alive, up, bounds, ghosts>>

Scheduling == op.kind = "schedule" /\ op.claimed = {} /\ Cardinality(op.seen) < MaxJobs
Head       == CHOOSE j \in op.todo : \A k \in op.todo : j <= k
Looking(j) == Scheduling /\ op.todo # {} /\ j = Head
NextJob    == op' = [op EXCEPT !.todo = op.todo \ {Head}]

SameMachine(w) == {v \in Workers : Machine[v] = Machine[w]}
SeenOn(w)   == {j \in op.seen : Of[j] \in SameMachine(w)}
BusyWorkers == {Of[j] : j \in op.seen} \cup Engaged(task)

\* The slots a worker may take: its own, or, unbound, a free one with the fewest workers.
SlotsFor(w) ==
  LET free  == (1..Slots[Machine[w]]) \ {slot[Of[j]] : j \in SeenOn(w)}
      load(n) == Cardinality({v \in SameMachine(w) \ stopped : slot[v] = n})
  IN  IF slot[w] \in 1..Slots[Machine[w]] THEN free \cap {slot[w]}
      ELSE {n \in free : \A k \in free : load(n) < load(k) \/ (load(n) = load(k) /\ n <= k)}

Startable(w) ==
  /\ w \notin op.gone \cup BusyWorkers
  /\ Cardinality(SeenOn(w)) < Slots[Machine[w]] /\ SlotsFor(w) # {}

\* The pool entry of w can be used, or there is none.
Usable(w) == live[w] = "none" \/ (live[w] = "warm" /\ w \in alive)

\* Processes that hold a permit of w's machine.
Permits(w) == {v \in SameMachine(w) : live[v] # "none" /\
                  (v \in alive \/ live[v] = "retiring" \/ v \in Engaged(task))}
RoomFor(w) == live[w] # "none" \/ Cardinality(Permits(w)) < Procs[Machine[w]]

\* Mutant of Victims: no process is evicted.
VictimsNever(w) == Permits(w) \ Workers

Victims(w) == Permits(w) \ (Engaged(task) \cup op.waiting)

\* A process whose close was not confirmed may still be in the turn its task dropped.
MayBeBusy(v) == live[v] = "retiring" /\ v \in alive

\* The job waits: its machine is not in the configuration of this pass (bounded as a fault),
\* its worker is busy, or there is no slot, or no idle process to evict.
PassOver(j) ==
  LET w == Of[j]
  IN  /\ Looking(j)
      /\ \/ Fault
         \/ /\ w \notin op.gone /\ UNCHANGED bounds
            /\ \/ ~Startable(w)
               \/ Usable(w) /\ ~RoomFor(w) /\ \A v \in Victims(w) : MayBeBusy(v)
      /\ NextJob
      /\ UNCHANGED <<thread, rowVars, poolVars, halting, up, ghosts>>

\* close_live of v, with the state lock held: unconfirmed, it keeps its permit.
CloseLive(v, ok) ==
  /\ Closes(v, ok)
  /\ live' = [live EXCEPT ![v] = IF ok THEN "none" ELSE "retiring"]

\* A retiring, dead or changed-policy process must be confirmed closed first.
CloseOwn(j, ok) ==
  /\ Looking(j) /\ Startable(Of[j]) /\ ~Usable(Of[j])
  /\ CloseLive(Of[j], ok)
  /\ IF ok THEN UNCHANGED op ELSE NextJob
  /\ UNCHANGED <<thread, rowVars, task, halting, up, ghosts>>

\* Room for the worker's process is made by closing an idle one.
Evict(j, v, ok) ==
  /\ Looking(j) /\ Startable(Of[j]) /\ Usable(Of[j]) /\ ~RoomFor(Of[j])
  /\ v \in Victims(Of[j]) /\ CloseLive(v, ok)
  /\ IF ok THEN UNCHANGED op ELSE NextJob
  /\ UNCHANGED <<thread, rowVars, task, halting, up, ghosts>>

\* claim_job rechecks the row, the thread and its controls; it cancels the job of a
\* stopped worker.
Claimable(j) == status[j] = "queued" /\ thread = "active" /\ intents = {}

Claim(j) ==
  LET w == Of[j]
  IN  /\ Looking(j)
      /\ w \in op.gone \/ (Startable(w) /\ Usable(w) /\ RoomFor(w))
      /\ \/ /\ Claimable(j) /\ w \notin stopped
            /\ status' = [status EXCEPT ![j] = "running"]
            /\ attempt' = [attempt EXCEPT ![j] = @ + 1]
            /\ \E n \in SlotsFor(w) : slot' = [slot EXCEPT ![w] = n]
            /\ op' = [op EXCEPT !.claimed = {j}]
         \/ /\ ~Claimable(j) \/ w \in stopped
            /\ status' = IF w \in stopped THEN Cancelled({w}) ELSE status
            /\ NextJob
            /\ UNCHANGED <<attempt, slot>>
      /\ UNCHANGED <<thread, stopped, intents, poolVars, halting, up, bounds, ghosts>>

\* Mutant of Launch: the snapshot does not learn of the jobs it started.
LaunchUnseen(j) ==
  /\ op.claimed = {j}
  /\ live' = [live EXCEPT ![Of[j]] = IF @ = "none" THEN "warm" ELSE @]
  /\ task' = [task EXCEPT ![j] = NewTask]
  /\ op' = [op EXCEPT !.claimed = {}, !.todo = @ \ {j}]
  /\ UNCHANGED <<thread, rowVars, halting, alive, up, bounds, ghosts>>

\* The claimed job gets its process and its task.
Launch(j) ==
  /\ op.claimed = {j}
  /\ live' = [live EXCEPT ![Of[j]] = IF @ = "none" THEN "warm" ELSE @]
  /\ task' = [task EXCEPT ![j] = NewTask]
  /\ op' = [op EXCEPT !.claimed = {}, !.todo = @ \ {j}, !.seen = @ \cup {j}]
  /\ UNCHANGED <<thread, rowVars, halting, alive, up, bounds, ghosts>>

\* No valid specification, or the factory refused: the claimed job fails.
RefuseJob(j) ==
  /\ op.claimed = {j}
  /\ status' = [status EXCEPT ![j] = "failed"]
  /\ stopped' = IF Of[j] \in Ephemeral THEN stopped \cup {Of[j]} ELSE stopped
  /\ op' = [op EXCEPT !.claimed = {}, !.todo = @ \ {j}]
  /\ UNCHANGED <<thread, attempt, slot, intents, poolVars, halting, up, bounds, ghosts>>

EndSchedule ==
  /\ op.kind = "schedule" /\ op.claimed = {}
  /\ op.todo = {} \/ Cardinality(op.seen) >= MaxJobs
  /\ op' = NoOp
  /\ UNCHANGED <<thread, rowVars, poolVars, halting, up, bounds, ghosts>>

ScheduleStep ==
  \/ EndSchedule
  \/ \E j \in Jobs :
       \/ PassOver(j) \/ Claim(j) \/ Launch(j) \/ RefuseJob(j)
       \/ \E ok \in BOOLEAN : CloseOwn(j, ok) \/ \E v \in Workers : Evict(j, v, ok)

-----------------------------------------------------------------------------
(***************************************************************************)
(* stop and finish_stop, for the owner, for a closed thread and for the    *)
(* parent's intents.                                                       *)
(***************************************************************************)
Signalled(t, w, signal) ==
  [j \in Jobs |-> IF Of[j] = w /\ t[j].step # "none" THEN [t[j] EXCEPT !.signal = signal]
                  ELSE t[j]]

Stopping(w, S) == op' = [NoOp EXCEPT !.kind = "stop", !.stopping = {w}, !.serves = S]

\* stop: the owner's request, and stop_closed_workers for a closed thread's intent.
Stop(w, S) ==
  /\ up /\ Free
  /\ \/ S = {} /\ Control
     \/ S # {} /\ ~halting /\ S \subseteq intents /\ UNCHANGED bounds
        /\ \A i \in S : i.kind = "close" /\ i.worker = w
  /\ stopped' = stopped \cup {w} /\ status' = Cancelled({w})
  /\ task' = Signalled(task, w, "stop") /\ Stopping(w, S)
  /\ UNCHANGED <<thread, attempt, slot, intents, live, alive, halting, up, ghosts>>

\* reconcile_parent_controls, a stop: its durable part is already committed.
ServeStop(i) ==
  /\ Passing /\ Reapable /\ i.kind = "stop"
  /\ task' = Signalled(Reaped, i.worker, "stop") /\ live' = Kept /\ Stopping(i.worker, {i})
  /\ UNCHANGED <<thread, rowVars, alive, halting, up, bounds, ghosts>>

\* Mutant of FinishStop: a task that ended is taken to have closed its process.
FinishStopTrusting(ok) ==
  \E w \in op.stopping :
    LET over == {j \in JobsOf(w) : task[j].step = "over"}
    IN  /\ op.kind = "stop"
        /\ \A j \in JobsOf(w) : task[j].step \in {"none", "over"}
        /\ task' = [j \in Jobs |-> IF j \in over THEN NoTask ELSE task[j]]
        /\ IF live[w] = "none" \/ over # {}
           THEN ok /\ live' = [live EXCEPT ![w] = "none"] /\ UNCHANGED <<alive, bounds>>
           ELSE CloseLive(w, ok)
        /\ op' = IF ok THEN [op EXCEPT !.kind = "ack"] ELSE NoOp
        /\ halting' = (halting \/ (~ok /\ op.serves # {}))
        /\ UNCHANGED <<thread, rowVars, up, ghosts>>

\* finish_stop: the task is awaited, then the process closed if the task did not; a job
\* can end well just before its Stop and leave a warm process.
FinishStop(ok) ==
  \E w \in op.stopping :
    LET over == {j \in JobsOf(w) : task[j].step = "over"}
    IN  /\ op.kind = "stop"
        /\ \A j \in JobsOf(w) : task[j].step \in {"none", "over"}
        /\ task' = [j \in Jobs |-> IF j \in over THEN NoTask ELSE task[j]]
        /\ IF live[w] = "none" \/ \E j \in over : task[j].closed
           THEN ok /\ live' = [live EXCEPT ![w] = "none"] /\ UNCHANGED <<alive, bounds>>
           ELSE CloseLive(w, ok)
        /\ op' = IF ok THEN [op EXCEPT !.kind = "ack"] ELSE NoOp
        /\ halting' = (halting \/ (~ok /\ op.serves # {}))
        /\ UNCHANGED <<thread, rowVars, up, ghosts>>

\* The stop is acknowledged: the intent completes, or the owner's request returns.
\* (For a closed thread the state lock is already free, the pass lock is not.)
AckStop ==
  /\ op.kind = "ack"
  /\ intents' = intents \ op.serves /\ confirmed' = confirmed \cup op.stopping
  /\ op' = NoOp
  /\ UNCHANGED <<thread, status, attempt, slot, stopped, poolVars, halting, up, bounds, barred>>

(***************************************************************************)
(* Interrupts.                                                             *)
(***************************************************************************)

\* interrupt, by the owner, of whatever the worker runs.
OwnerInterrupt(w) ==
  /\ up /\ Free /\ Reapable /\ Control /\ w \in Engaged(Reaped)
  /\ task' = Signalled(Reaped, w, "interrupt") /\ live' = Kept
  /\ UNCHANGED <<thread, rowVars, alive, op, halting, up, ghosts>>

\* The parent's interrupt targets one attempt.  A task's attempt is its row's: a requeued
\* job is not claimed again before its task is reaped.
Target(i) == i.job # 0 /\ attempt[i.job] = i.attempt /\ Reaped[i.job].step # "none"

\* reconcile_parent_controls: the target runs and heard nothing stronger yet.
SignalTarget(i) ==
  /\ Passing /\ Reapable /\ i.kind = "interrupt" /\ Target(i)
  /\ Reaped[i.job].signal = "run"
  /\ task' = [Reaped EXCEPT ![i.job].signal = "interrupt"] /\ live' = Kept
  /\ UNCHANGED <<thread, rowVars, alive, op, halting, up, bounds, ghosts>>

\* Mutant of Release: the intent is released once the signal was sent.
ReleaseEarly(i, ok) ==
  /\ Passing /\ Reapable /\ i.kind = "interrupt" /\ ok
  /\ task' = Reaped /\ live' = Kept
  /\ intents' = intents \ {i}
  /\ UNCHANGED <<thread, status, attempt, slot, stopped, op, up, halting, alive, bounds, ghosts>>

\* The target is over, was superseded or never was: the intent is released once a
\* retiring process of an idle worker is closed.
Release(i, ok) ==
  /\ Passing /\ Reapable /\ i.kind = "interrupt" /\ ~Target(i)
  /\ i.job # 0 => attempt[i.job] # i.attempt \/ status[i.job] # "running"
  /\ task' = Reaped
  /\ LET w == i.worker
     IN  IF i.job # 0 /\ w \notin Engaged(Reaped) /\ Kept[w] = "retiring"
         THEN Closes(w, ok) /\ live' = [Kept EXCEPT ![w] = IF ok THEN "none" ELSE "retiring"]
         ELSE ok /\ live' = Kept /\ UNCHANGED <<alive, bounds>>
  /\ intents' = IF ok THEN intents \ {i} ELSE intents
  /\ halting' = ~ok
  /\ UNCHANGED <<thread, status, attempt, slot, stopped, op, up, ghosts>>

-----------------------------------------------------------------------------
(***************************************************************************)
(* Policy changes, shutdown, crash and restart.                            *)
(***************************************************************************)

\* A reload changes the specification of a warm process, or its session expires.
Outdate(w) ==
  /\ up /\ Free /\ live[w] = "warm" /\ Fault
  /\ live' = [live EXCEPT ![w] = "outdated"]
  /\ UNCHANGED <<thread, rowVars, task, alive, op, halting, up, ghosts>>

\* The daemon is told to stop: the pass is dropped where it stands.
Halt ==
  /\ up /\ ~halting /\ Fault
  /\ halting' = TRUE
  /\ op' = IF op.kind = "schedule" \/ op.serves # {} THEN NoOp ELSE op
  /\ UNCHANGED <<thread, rowVars, poolVars, up, ghosts>>

\* close: every task is told, then awaited.
BeginClose ==
  /\ up /\ halting /\ Free
  /\ op' = [NoOp EXCEPT !.kind = "close"]
  /\ task' = [j \in Jobs |-> IF task[j].step = "none" THEN task[j]
                             ELSE [task[j] EXCEPT !.signal = "shutdown"]]
  /\ UNCHANGED <<thread, rowVars, live, alive, halting, up, bounds, ghosts>>

\* What the process had in memory is gone.
Down ==
  /\ up' = FALSE /\ halting' = FALSE /\ op' = NoOp
  /\ live' = [w \in Workers |-> "none"] /\ task' = [j \in Jobs |-> NoTask]

\* Then every process of the pool is closed, also when one of them fails to.
FinishClose ==
  /\ op.kind = "close"
  /\ \A j \in Jobs : task[j].step \in {"none", "over"}
  /\ \E left \in SUBSET {w \in alive : live[w] # "none"} :
       /\ alive' = {w \in alive : live[w] = "none"} \cup left
       /\ IF left = {} THEN UNCHANGED bounds ELSE Fault
  /\ Down
  /\ UNCHANGED <<thread, rowVars, ghosts>>

Crash ==
  /\ up /\ Fault /\ Down
  /\ UNCHANGED <<thread, rowVars, alive, ghosts>>

\* Mutant of Restart: recovery forgets the running jobs.
RestartForgets ==
  /\ ~up
  /\ up' = TRUE /\ alive' = {}
  /\ UNCHANGED <<thread, rowVars, live, task, op, halting, bounds, ghosts>>

\* recover_jobs.  Processes that survive the daemon are outside the supported model.
Restart ==
  /\ ~up
  /\ up' = TRUE /\ alive' = {}
  /\ status' = [j \in Jobs |-> IF status[j] = "running" THEN "interrupted" ELSE status[j]]
  /\ UNCHANGED <<thread, attempt, slot, stopped, intents, live, task, op, halting, bounds, ghosts>>

-----------------------------------------------------------------------------
StopStep    == AckStop \/ \E ok \in BOOLEAN : FinishStop(ok)
CloseStep   == BeginClose \/ FinishClose
ServeCloses == \E i \in intents : Stop(i.worker, {i})
Reconcile   == \E i \in intents : ServeStop(i) \/ SignalTarget(i)
                                  \/ \E ok \in BOOLEAN : Release(i, ok)

Controls ==
  \/ Pause \/ CloseThread \/ Restore
  \/ \E w \in Workers : Stop(w, {}) \/ OwnerInterrupt(w) \/ ParentControl("stop", w)
                        \/ ParentControl("interrupt", w)

Next ==
  \/ \E j \in Jobs : Enqueue(j) \/ TaskStep(j)
  \/ \E w \in Workers : IdleExit(w) \/ Outdate(w)
  \/ Controls \/ Settle \/ BeginSchedule \/ ScheduleStep
  \/ ServeCloses \/ Reconcile \/ StopStep
  \/ Halt \/ CloseStep \/ Crash \/ Restart

Spec == Init /\ [][Next]_vars

\* Calls of a task and closes have deadlines; the pass visits every stage again and
\* again, and does not find a dropped turn going on each time; the service manager
\* restarts the daemon.
Fairness ==
  /\ \A j \in Jobs : WF_vars(TaskStep(j))
  /\ SF_vars(\E j \in Jobs, v \in Workers, ok \in BOOLEAN : Evict(j, v, ok))
  /\ WF_vars(ScheduleStep) /\ WF_vars(StopStep) /\ WF_vars(CloseStep) /\ WF_vars(Restart)
  /\ SF_vars(BeginSchedule) /\ SF_vars(ServeCloses) /\ SF_vars(Reconcile)

FairSpec == Spec /\ Fairness

-----------------------------------------------------------------------------
(***************************************************************************)
(* Properties.                                                             *)
(***************************************************************************)

\* Process permits are held until termination is confirmed: a machine never runs more
\* worker processes than max_workers, whatever closes fail or processes end by themselves.
ProcessPermits ==
  up => \A m \in Machines : Cardinality({w \in alive : Machine[w] = m}) <= Procs[m]

\* Two running jobs never share a worker, or a machine's slot with its directory and GPUs.
SlotExclusive ==
  \A j, k \in Jobs : (status[j] = "running" /\ status[k] = "running" /\ j # k) =>
     /\ Of[j] # Of[k]
     /\ Machine[Of[j]] = Machine[Of[k]] => slot[Of[j]] # slot[Of[k]]

\* The rows of the jobs keep the promise of JobLedger: among the rest that a stopped
\* worker's job never starts, that a job starts at most twice, alone in the one slot of its
\* worker, and that what a late task says never changes how it ended.
Ledger == INSTANCE JobLedger
ImplementsJobLedger == Ledger!Spec

\* An acknowledged stop is true and stays true: the worker has neither process nor task.
StopConfirmed ==
  \A w \in confirmed : w \in stopped /\ w \notin alive /\ w \notin Engaged(task)

\* While the service runs, a running job is owned by its task, or is being launched, and a
\* task's completion never meets a row someone else ended (complete_job's Stale, and the
\* "worker outcome remains unconfirmed" of reconcile_parent_controls).
TasksOwnJobs ==
  \A j \in Jobs :
    /\ (up /\ ~halting /\ status[j] = "running") =>
         task[j].step \notin {"none", "over"} \/ j \in op.claimed
    /\ task[j].step \notin {"none", "over"} => status[j] = "running"

\* An attempt the parent interrupted is never run again, and its intent stays pending as
\* long as that attempt runs.
InterruptsHold ==
  \A b \in barred :
    /\ attempt[b[1]] = b[2] /\ status[b[1]] # "queued"
    /\ status[b[1]] = "running" =>
         \E i \in intents : i.kind = "interrupt" /\ i.job = b[1] /\ i.attempt = b[2]

\* A parent's or a closed thread's worker control is eventually reconciled, so the turns
\* and admissions that wait for it go on.
ControlsComplete == (intents # {}) ~> (intents = {})

\* A queued job of an active thread eventually ends, or the thread is no longer active.
JobsEnd == \A j \in Jobs : (status[j] = "queued") ~> (status[j] \in Ended \/ thread # "active")
=============================================================================
