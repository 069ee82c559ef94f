-------------------------- MODULE SupervisorProofs --------------------------
(***************************************************************************)
(* The worker supervisor, for any workers, jobs, machines, controls and    *)
(* faults: tasks own their jobs, a slot has one running job, a stop that   *)
(* was acknowledged is true, an interrupted attempt never runs again, the  *)
(* processes of a machine keep to their permits, and the rows implement    *)
(* JobLedger.                                                              *)
(***************************************************************************)
EXTENDS Supervisor, FiniteSetTheorems, TLAPS

USE DEF rowVars, poolVars, bounds, ghosts, TaskOnly

\* A service starts with any workers stopped before.
Running == (\E gone \in SUBSET Workers : InitWith(gone)) /\ [][Next]_vars

\* Controls change rows only; a reaping step lets go of the tasks that are
\* over; a looking step moves on in the queue or makes room in the pool.
RowStep == \/ \E j \in Jobs : Enqueue(j)
           \/ \E w \in Workers : ParentControl("stop", w) \/ ParentControl("interrupt", w)
           \/ Pause \/ CloseThread \/ Restore
ReapStep == \/ Settle \/ BeginSchedule
            \/ \E w \in Workers : OwnerInterrupt(w)
            \/ \E i \in intents : ServeStop(i) \/ SignalTarget(i) \/ \E ok \in BOOLEAN : Release(i, ok)
LookStep == \/ EndSchedule
            \/ \E j \in Jobs : PassOver(j)
            \/ \E j \in Jobs, ok \in BOOLEAN : CloseOwn(j, ok)
            \/ \E j \in Jobs, v \in Workers, ok \in BOOLEAN : Evict(j, v, ok)

\* Every step is one of these.
LEMMA StepCases ==
  ASSUME TypeOK, [Next]_vars
  PROVE  \/ RowStep \/ ReapStep \/ LookStep
         \/ \E j \in Jobs : TaskStep(j)
         \/ \E j \in Jobs : Claim(j) \/ Launch(j) \/ RefuseJob(j)
         \/ \E w \in Workers : IdleExit(w) \/ Outdate(w)
         \/ \E w \in Workers, S \in SUBSET intents : Stop(w, S)
         \/ \E ok \in BOOLEAN : FinishStop(ok)
         \/ AckStop \/ Halt \/ BeginClose \/ FinishClose \/ Crash \/ Restart
         \/ UNCHANGED vars
<1>1. CASE ServeCloses
  <2>1. PICK i \in intents : Stop(i.worker, {i})
    BY <1>1 DEF ServeCloses
  <2>2. i.worker \in Workers /\ {i} \in SUBSET intents
    BY <2>1 DEF TypeOK, Intents
  <2> QED
    BY <2>1, <2>2
<1>2. CASE \E w \in Workers : Stop(w, {})
  BY <1>2
<1>3. CASE ScheduleStep
  BY <1>3 DEF ScheduleStep, LookStep
<1> QED
  BY <1>1, <1>2, <1>3
  DEF Next, Controls, Reconcile, StopStep, CloseStep, RowStep, ReapStep

-----------------------------------------------------------------------------
(***************************************************************************)
(* Types.  An attempt is started at most twice: a job is queued again only *)
(* after its first.                                                        *)
(***************************************************************************)

Attempts == \A j \in Jobs : /\ status[j] = "absent" => attempt[j] = 0
                            /\ status[j] = "queued" => attempt[j] <= 1

Types == TypeOK /\ Attempts

\* A signal changes nothing else of a task.
LEMMA SignalTyped ==
  ASSUME NEW t \in Tasks, NEW s \in Signals
  PROVE  /\ [t EXCEPT !.signal = s] \in Tasks
         /\ [t EXCEPT !.signal = s].step = t.step /\ [t EXCEPT !.signal = s].closed = t.closed
  BY DEF Tasks

\* What the helpers of a step return.
LEMMA HelpersTyped ==
  ASSUME TypeOK
  PROVE  /\ Reaped \in [Jobs -> Tasks]
         /\ Kept \in [Workers -> {"none", "warm", "outdated", "retiring"}]
         /\ \A t \in [Jobs -> Tasks], w \in Workers, s \in Signals : Signalled(t, w, s) \in [Jobs -> Tasks]
         /\ \A S : Cancelled(S) \in [Jobs -> Statuses]
<1>1. Reaped \in [Jobs -> Tasks]
  BY DEF TypeOK, Reaped, NoTask, Tasks, Signals, Results
<1>2. Kept \in [Workers -> {"none", "warm", "outdated", "retiring"}]
  BY DEF TypeOK, Kept
<1>3. ASSUME NEW t \in [Jobs -> Tasks], NEW w \in Workers, NEW s \in Signals
      PROVE  Signalled(t, w, s) \in [Jobs -> Tasks]
  BY DEF Signalled, Tasks
<1>4. \A S : Cancelled(S) \in [Jobs -> Statuses]
  BY DEF Cancelled, TypeOK, Statuses
<1> QED
  BY <1>1, <1>2, <1>3, <1>4

\* The intent of a control names its worker; of an interrupt, the job that was
\* seen running and its attempt.
LEMMA IntentTyped ==
  ASSUME TypeOK, NEW w \in Workers, NEW kind \in {"stop", "close", "interrupt"}
  PROVE  /\ IntentOf(kind, w) \in Intents
         /\ IntentOf(kind, w).kind = kind /\ IntentOf(kind, w).worker = w
         /\ IntentOf(kind, w).job # 0 =>
              /\ kind = "interrupt" /\ IntentOf(kind, w).job \in Jobs /\ Of[IntentOf(kind, w).job] = w
              /\ status[IntentOf(kind, w).job] = "running"
              /\ IntentOf(kind, w).attempt = attempt[IntentOf(kind, w).job]
<1> DEFINE seen == {j \in JobsOf(w) : kind = "interrupt" /\ status[j] = "running"}
<1>1. CASE seen = {}
  BY <1>1 DEF IntentOf, Intents
<1>2. CASE seen # {}
  <2> DEFINE j == CHOOSE k \in seen : TRUE
  <2>1. j \in seen
    BY <1>2
  <2>2. IntentOf(kind, w) = [kind |-> kind, worker |-> w, job |-> j, attempt |-> attempt[j]]
    BY <1>2 DEF IntentOf
  <2>3. j \in Jobs /\ Of[j] = w /\ status[j] = "running" /\ kind = "interrupt" /\ attempt[j] \in Nat
    BY <2>1 DEF JobsOf, TypeOK
  <2> QED
    BY <2>2, <2>3 DEF Intents
<1> QED
  BY <1>1, <1>2

\* What a reaping step does: tasks that are over leave, the rows stay but for
\* interrupts that are released, and the lock is free before it.
LEMMA ReapShape ==
  ASSUME TypeOK, ReapStep
  PROVE  /\ up /\ op.kind = "none" /\ Reapable
         /\ UNCHANGED <<thread, status, attempt, slot, stopped, up, ghosts>>
         /\ task' \in [Jobs -> Tasks] /\ live' \in [Workers -> {"none", "warm", "outdated", "retiring"}]
         /\ \A j \in Jobs : task'[j].step = Reaped[j].step /\ task'[j].closed = Reaped[j].closed
         /\ intents' \subseteq intents /\ alive' \subseteq alive /\ halting' \in BOOLEAN
         /\ controls' \in 0..MaxControls /\ faults' \in 0..MaxFaults
<1> USE HelpersTyped DEF TypeOK, Signals
<1>1. CASE Settle
  BY <1>1 DEF Settle, Passing, Free
<1>2. CASE BeginSchedule
  BY <1>2 DEF BeginSchedule, Passing, Free
<1>3. ASSUME NEW w \in Workers, OwnerInterrupt(w)
      PROVE  /\ task' \in [Jobs -> Tasks] /\ controls' \in 0..MaxControls /\ faults' = faults
             /\ \A j \in Jobs : task'[j].step = Reaped[j].step /\ task'[j].closed = Reaped[j].closed
  <2>1. task' = Signalled(Reaped, w, "interrupt") /\ controls' \in 0..MaxControls /\ faults' = faults
    BY <1>3, SupervisorAssumption DEF OwnerInterrupt, Control
  <2>2. task' \in [Jobs -> Tasks]
    BY <2>1
  <2> QED
    BY <2>1, <2>2 DEF Signalled, Tasks
<1>4. ASSUME NEW i \in intents, ServeStop(i)
      PROVE  /\ task' \in [Jobs -> Tasks]
             /\ \A j \in Jobs : task'[j].step = Reaped[j].step /\ task'[j].closed = Reaped[j].closed
  <2>1. task' = Signalled(Reaped, i.worker, "stop") /\ i.worker \in Workers
    BY <1>4 DEF ServeStop, Intents
  <2>2. task' \in [Jobs -> Tasks]
    BY <2>1
  <2> QED
    BY <2>1, <2>2 DEF Signalled, Tasks
<1>5. ASSUME NEW i \in intents, SignalTarget(i)
      PROVE  /\ task' \in [Jobs -> Tasks]
             /\ \A j \in Jobs : task'[j].step = Reaped[j].step /\ task'[j].closed = Reaped[j].closed
  <2>1. task' = [Reaped EXCEPT ![i.job].signal = "interrupt"] /\ i.job \in Jobs
    BY <1>5 DEF SignalTarget, Target, Intents
  <2>2. task' = [Reaped EXCEPT ![i.job] = [Reaped[i.job] EXCEPT !.signal = "interrupt"]]
    BY <2>1
  <2>3. /\ [Reaped[i.job] EXCEPT !.signal = "interrupt"] \in Tasks
        /\ [Reaped[i.job] EXCEPT !.signal = "interrupt"].step = Reaped[i.job].step
        /\ [Reaped[i.job] EXCEPT !.signal = "interrupt"].closed = Reaped[i.job].closed
    <3>1. Reaped[i.job] \in Tasks /\ "interrupt" \in Signals
      BY <2>1
    <3> QED
      BY <3>1, SignalTyped
  <2> QED
    BY <2>1, <2>2, <2>3
<1>6. ASSUME NEW i \in intents, NEW ok \in BOOLEAN, Release(i, ok)
      PROVE  /\ live' \in [Workers -> {"none", "warm", "outdated", "retiring"}]
             /\ alive' \subseteq alive /\ controls' \in 0..MaxControls /\ faults' \in 0..MaxFaults
  <2>1. i.worker \in Workers
    BY DEF Intents
  <2>2. /\ alive' \subseteq alive
        /\ controls' \in 0..MaxControls /\ faults' \in 0..MaxFaults
    BY <1>6, SupervisorAssumption DEF Release, Closes, Fault
  <2>3. live' = Kept \/ live' = [Kept EXCEPT ![i.worker] = IF ok THEN "none" ELSE "retiring"]
    BY <1>6 DEF Release
  <2> QED
    BY <2>1, <2>2, <2>3
<1>7. ASSUME NEW w \in Workers, OwnerInterrupt(w)
      PROVE  /\ up /\ op.kind = "none" /\ Reapable /\ live' = Kept
             /\ UNCHANGED <<thread, rowVars, alive, op, halting, up, ghosts>>
  BY <1>7 DEF OwnerInterrupt, Free
<1>8. ASSUME NEW i \in intents, ServeStop(i) \/ SignalTarget(i)
      PROVE  /\ up /\ op.kind = "none" /\ Reapable /\ live' = Kept
             /\ UNCHANGED <<thread, rowVars, alive, halting, up, bounds, ghosts>>
  BY <1>8 DEF ServeStop, SignalTarget, Passing, Free
<1>9. ASSUME NEW i \in intents, NEW ok \in BOOLEAN, Release(i, ok)
      PROVE  /\ up /\ op.kind = "none" /\ Reapable /\ task' = Reaped /\ intents' \subseteq intents
             /\ UNCHANGED <<thread, status, attempt, slot, stopped, op, up, ghosts>>
             /\ halting' \in BOOLEAN
  BY <1>9 DEF Release, Passing, Free
<1> QED
  BY <1>1, <1>2, <1>3, <1>4, <1>5, <1>6, <1>7, <1>8, <1>9 DEF ReapStep

\* What a step of a task does: it moves that task, which is not over before,
\* and changes rows only when it completes.
LEMMA TaskShape ==
  ASSUME TypeOK, NEW j \in Jobs, TaskStep(j)
  PROVE  /\ task' \in [Jobs -> Tasks] /\ \A k \in Jobs : k # j => task'[k] = task[k]
         /\ task[j].step \notin {"none", "over"}
         /\ \/ TaskComplete(j) /\ task'[j].step = "over" /\ task'[j].closed = task[j].closed
            \/ task'[j].step \notin {"none", "over"} /\ UNCHANGED <<status, stopped>>
         /\ alive' \subseteq alive \cup {Of[j]}
         /\ UNCHANGED <<thread, attempt, slot, intents, live, op, halting, up, ghosts>>
         /\ controls' \in 0..MaxControls /\ faults' \in 0..MaxFaults
<1> USE DEF TypeOK
<1>t. task[j] \in Tasks
  OBVIOUS
<1>1. CASE TaskStart(j)
  <2>1. task' = [task EXCEPT ![j] = [task[j] EXCEPT !.step = "backend"]]
    BY <1>1 DEF TaskStart
  <2>2. [task[j] EXCEPT !.step = "backend"] \in Tasks
    BY <1>t DEF Tasks
  <2> QED
    BY <1>1, <2>1, <2>2 DEF TaskStart, Tasks
<1>2. ASSUME NEW r \in {"ok", "execution", "refusal", "interrupted"}, TaskEnd(j, r) \/ TaskSettles(j, r)
      PROVE  /\ task' \in [Jobs -> Tasks] /\ \A k \in Jobs : k # j => task'[k] = task[k]
             /\ task[j].step \notin {"none", "over"} /\ task'[j].step = "closing"
  <2>1. task' = [task EXCEPT ![j] = [task[j] EXCEPT !.step = "closing", !.result = r]]
    BY <1>2 DEF TaskEnd, TaskSettles
  <2>2. [task[j] EXCEPT !.step = "closing", !.result = r] \in Tasks
    BY <1>t DEF Tasks, Results
  <2> QED
    BY <1>2, <2>1, <2>2 DEF TaskEnd, TaskSettles, Tasks
<1>3. CASE TaskHears(j)
  <2>1. PICK s \in {"settling", "closing"} :
          task' = [task EXCEPT ![j] = [task[j] EXCEPT !.heard = task[j].signal, !.step = s,
                                                      !.result = "interrupted"]]
    BY <1>3 DEF TaskHears
  <2>2. [task[j] EXCEPT !.heard = task[j].signal, !.step = s, !.result = "interrupted"] \in Tasks
    BY <1>t DEF Tasks, Results
  <2> QED
    BY <1>3, <2>1, <2>2 DEF TaskHears, Tasks
<1>4. ASSUME NEW ok \in BOOLEAN, TaskClose(j, ok)
      PROVE  /\ task' \in [Jobs -> Tasks] /\ \A k \in Jobs : k # j => task'[k] = task[k]
             /\ task[j].step \notin {"none", "over"} /\ task'[j].step = "completing"
             /\ alive' \subseteq alive
             /\ controls' \in 0..MaxControls /\ faults' \in 0..MaxFaults
  <2>1. PICK closed \in BOOLEAN :
          task' = [task EXCEPT ![j] = [task[j] EXCEPT !.step = "completing", !.closed = closed]]
    BY <1>4, Zenon DEF TaskClose
  <2>2. [task[j] EXCEPT !.step = "completing", !.closed = closed] \in Tasks
    BY <1>t DEF Tasks
  <2>3. /\ task[j].step = "closing" /\ alive' \subseteq alive
        /\ controls' \in 0..MaxControls /\ faults' \in 0..MaxFaults
    BY <1>4, SupervisorAssumption DEF TaskClose, Closes, Fault
  <2> QED
    BY <2>1, <2>2, <2>3 DEF Tasks
<1>5. CASE TaskComplete(j)
  <2>1. task' = [task EXCEPT ![j] = [task[j] EXCEPT !.step = "over"]]
    BY <1>5 DEF TaskComplete
  <2>2. [task[j] EXCEPT !.step = "over"] \in Tasks /\ [task[j] EXCEPT !.step = "over"].closed = task[j].closed
    BY <1>t DEF Tasks
  <2>3. task'[j] = [task[j] EXCEPT !.step = "over"] /\ task' \in [Jobs -> Tasks]
        /\ \A k \in Jobs : k # j => task'[k] = task[k]
    BY <2>1, <2>2
  <2>4. task[j].step = "completing" /\ task'[j].step = "over" /\ task'[j].closed = task[j].closed
    BY <1>5, <1>t, <2>2, <2>3 DEF TaskComplete, Tasks
  <2>5. UNCHANGED <<thread, attempt, slot, intents, live, op, halting, up, ghosts, alive, bounds>>
    BY <1>5 DEF TaskComplete
  <2> QED
    BY <1>5, <2>3, <2>4, <2>5
<1>6. ASSUME NEW r \in {"ok", "execution", "refusal", "interrupted"}, TaskEnd(j, r) \/ TaskSettles(j, r)
      PROVE  UNCHANGED <<thread, status, stopped, attempt, slot, intents, live, op, halting, up, ghosts,
                         alive, bounds>>
  BY <1>6 DEF TaskEnd, TaskSettles
<1>7. ASSUME NEW ok \in BOOLEAN, TaskClose(j, ok)
      PROVE  UNCHANGED <<thread, status, stopped, attempt, slot, intents, live, op, halting, up, ghosts>>
  BY <1>7 DEF TaskClose
<1> QED
  BY <1>1, <1>2, <1>3, <1>4, <1>5, <1>6, <1>7 DEF TaskStep

\* What a control of the thread or a delegation does: rows only, and of the
\* jobs it queues new ones or cancels queued ones.
LEMMA RowShape ==
  ASSUME TypeOK, RowStep
  PROVE  /\ UNCHANGED <<attempt, slot, poolVars, op, halting, up, confirmed>>
         /\ thread' \in {"active", "paused", "closed"} /\ status' \in [Jobs -> Statuses]
         /\ stopped \subseteq stopped' /\ stopped' \subseteq Workers
         /\ intents \subseteq intents' /\ intents' \subseteq Intents
         /\ barred' \subseteq Jobs \X Nat
         /\ controls' \in 0..MaxControls /\ faults' = faults
         /\ \A j \in Jobs : \/ status'[j] = status[j]
                            \/ status[j] = "absent" /\ status'[j] = "queued"
                            \/ status[j] = "queued" /\ status'[j] = "cancelled"
<1> USE SupervisorAssumption DEF TypeOK, Control
<1>1. CASE \E j \in Jobs : Enqueue(j)
  BY <1>1 DEF Enqueue, Statuses
<1>2. CASE Pause \/ Restore
  BY <1>2 DEF Pause, Restore
<1>3. CASE CloseThread
  <2>1. {IntentOf("close", w) : w \in Workers \ stopped} \subseteq Intents
    BY IntentTyped
  <2> QED
    BY <1>3, <2>1 DEF CloseThread
<1>4. ASSUME NEW w \in Workers, NEW kind \in {"stop", "interrupt"}, ParentControl(kind, w)
      PROVE  /\ UNCHANGED <<thread, attempt, slot, poolVars, op, halting, up, confirmed>>
             /\ status' \in [Jobs -> Statuses] /\ stopped \subseteq stopped' /\ stopped' \subseteq Workers
             /\ intents \subseteq intents' /\ intents' \subseteq Intents
             /\ barred' \subseteq Jobs \X Nat
             /\ controls' \in 0..MaxControls /\ faults' = faults
             /\ \A j \in Jobs : status'[j] = status[j] \/ (status[j] = "queued" /\ status'[j] = "cancelled")
  <2>1. /\ UNCHANGED <<thread, attempt, slot, poolVars, op, halting, up, confirmed>>
        /\ stopped \subseteq stopped' /\ stopped' \subseteq Workers
        /\ controls' \in 0..MaxControls /\ faults' = faults
        /\ status' = status \/ status' = Cancelled({w})
    BY <1>4 DEF ParentControl
  <2>2. IntentOf(kind, w) \in Intents
    BY IntentTyped
  <2>3. /\ intents' = intents \cup {IntentOf(kind, w)}
        /\ \/ barred' = barred
           \/ /\ IntentOf(kind, w).job # 0
              /\ barred' = barred \cup {<<IntentOf(kind, w).job, IntentOf(kind, w).attempt>>}
    BY <1>4 DEF ParentControl
  <2>4. intents \subseteq intents' /\ intents' \subseteq Intents /\ barred' \subseteq Jobs \X Nat
    BY <2>2, <2>3 DEF Intents
  <2>5. /\ status' \in [Jobs -> Statuses]
        /\ \A j \in Jobs : status'[j] = status[j] \/ (status[j] = "queued" /\ status'[j] = "cancelled")
    BY <2>1, HelpersTyped DEF Cancelled
  <2> QED
    BY <2>1, <2>4, <2>5
<1> QED
  BY <1>1, <1>2, <1>3, <1>4 DEF RowStep

\* What a looking step does: the snapshot moves on or ends, and only the entry
\* of a worker without a task is closed.
LEMMA LookShape ==
  ASSUME TypeOK, LookStep
  PROVE  /\ op.kind = "schedule" /\ op.claimed = {}
         /\ UNCHANGED <<thread, rowVars, task, halting, up, ghosts>>
         /\ op' = NoOp \/ \E S \in SUBSET Jobs : op' = [op EXCEPT !.todo = S]
         /\ live' \in [Workers -> {"none", "warm", "outdated", "retiring"}] /\ alive' \subseteq alive
         /\ controls' \in 0..MaxControls /\ faults' \in 0..MaxFaults
         /\ \A w \in Workers : live'[w] # live[w] =>
              w \notin Engaged(task) /\ (live'[w] = "none" => w \notin alive')
<1>o. op \in Ops /\ op.todo \in SUBSET Jobs /\ op.todo \ {Head} \in SUBSET Jobs
  BY DEF TypeOK, Ops
<1>s. op = [op EXCEPT !.todo = op.todo]
  BY <1>o DEF Ops
<1>1. CASE EndSchedule
  BY <1>1 DEF EndSchedule, TypeOK
<1>2. CASE \E j \in Jobs : PassOver(j)
  <2>1. PICK j \in Jobs : PassOver(j)
    BY <1>2
  <2>2. /\ op.kind = "schedule" /\ op.claimed = {} /\ op' = [op EXCEPT !.todo = op.todo \ {Head}]
        /\ UNCHANGED <<thread, rowVars, poolVars, halting, up, ghosts>>
    BY <2>1 DEF PassOver, Looking, Scheduling, NextJob
  <2>3. controls' \in 0..MaxControls /\ faults' \in 0..MaxFaults
    BY <2>1, SupervisorAssumption DEF PassOver, Fault, bounds, TypeOK
  <2> QED
    BY <1>o, <2>2, <2>3 DEF poolVars, TypeOK
<1>3. ASSUME NEW j \in Jobs, NEW v \in Workers, NEW ok \in BOOLEAN,
             (CloseOwn(j, ok) /\ v = Of[j]) \/ Evict(j, v, ok)
      PROVE  /\ op.kind = "schedule" /\ op.claimed = {}
             /\ UNCHANGED <<thread, rowVars, task, halting, up, ghosts>>
             /\ \E S \in SUBSET Jobs : op' = [op EXCEPT !.todo = S]
             /\ live' \in [Workers -> {"none", "warm", "outdated", "retiring"}] /\ alive' \subseteq alive
             /\ controls' \in 0..MaxControls /\ faults' \in 0..MaxFaults
             /\ \A w \in Workers : live'[w] # live[w] =>
                  w \notin Engaged(task) /\ (live'[w] = "none" => w \notin alive')
  <2>1. /\ op.kind = "schedule" /\ op.claimed = {} /\ CloseLive(v, ok)
        /\ UNCHANGED <<thread, rowVars, task, halting, up, ghosts>>
        /\ op' = op \/ op' = [op EXCEPT !.todo = op.todo \ {Head}]
    BY <1>3 DEF CloseOwn, Evict, Looking, Scheduling, NextJob
  <2>2. v \notin Engaged(task)
    BY <1>3 DEF CloseOwn, Evict, Startable, BusyWorkers, Victims
  <2>3. \E S \in SUBSET Jobs : op' = [op EXCEPT !.todo = S]
    BY <1>o, <1>s, <2>1
  <2>4. /\ live' = [live EXCEPT ![v] = IF ok THEN "none" ELSE "retiring"]
        /\ alive' \subseteq alive /\ (ok => v \notin alive')
        /\ controls' \in 0..MaxControls /\ faults' \in 0..MaxFaults
    BY <2>1, SupervisorAssumption DEF CloseLive, Closes, Fault, TypeOK
  <2>5. /\ live' \in [Workers -> {"none", "warm", "outdated", "retiring"}]
        /\ \A w \in Workers : live'[w] # live[w] => w = v /\ (live'[w] = "none" => w \notin alive')
    BY <2>4 DEF TypeOK
  <2> QED
    BY <2>1, <2>2, <2>3, <2>4, <2>5
<1>4. CASE \E j \in Jobs, ok \in BOOLEAN : CloseOwn(j, ok)
  <2>1. PICK j \in Jobs, ok \in BOOLEAN : CloseOwn(j, ok)
    BY <1>4
  <2>2. Of[j] \in Workers
    BY SupervisorAssumption
  <2> QED
    BY <1>3, <2>1, <2>2
<1> QED
  BY <1>1, <1>2, <1>3, <1>4 DEF LookStep

\* The lock a reaping step may take: for a schedule, with its snapshot, or for
\* the stop of an intent.
LEMMA ReapOp ==
  ASSUME TypeOK, ReapStep
  PROVE  \/ op' = op
         \/ /\ op' \in Ops /\ op'.kind = "schedule" /\ op'.claimed = {}
            /\ op'.stopping = {} /\ op'.serves = {} /\ op'.gone = stopped
            /\ op'.seen = {j \in Jobs : status[j] = "running"}
         \/ /\ op' \in Ops /\ op'.kind = "stop" /\ op'.claimed = {} /\ op'.gone = {}
            /\ \E i \in intents : i.kind = "stop" /\ op'.stopping = {i.worker} /\ op'.serves = {i}
<1>1. CASE BeginSchedule
  <2> DEFINE queued == {j \in Jobs : status[j] = "queued"}
             waiting == {Of[j] : j \in queued}
             seen == {j \in Jobs : status[j] = "running"}
  <2>1. op' = [NoOp EXCEPT !.kind = "schedule", !.todo = queued, !.waiting = waiting,
                           !.gone = stopped, !.seen = seen]
    BY <1>1 DEF BeginSchedule
  <2>2. queued \subseteq Jobs /\ waiting \subseteq Workers /\ stopped \subseteq Workers /\ seen \subseteq Jobs
    BY SupervisorAssumption DEF TypeOK
  <2> HIDE DEF queued, waiting, seen
  <2>3. /\ op' \in Ops /\ op'.kind = "schedule" /\ op'.claimed = {}
        /\ op'.stopping = {} /\ op'.serves = {} /\ op'.gone = stopped /\ op'.seen = seen
    BY <2>1, <2>2 DEF NoOp, Ops
  <2> QED
    BY <2>3 DEF seen
<1>2. ASSUME NEW i \in intents, ServeStop(i)
      PROVE  /\ op' \in Ops /\ op'.kind = "stop" /\ op'.claimed = {} /\ op'.gone = {}
             /\ i.kind = "stop" /\ op'.stopping = {i.worker} /\ op'.serves = {i}
  <2>1. op' = [NoOp EXCEPT !.kind = "stop", !.stopping = {i.worker}, !.serves = {i}] /\ i.kind = "stop"
    BY <1>2 DEF ServeStop, Stopping
  <2>2. {i.worker} \subseteq Workers /\ {i} \subseteq Intents
    BY DEF TypeOK, Intents
  <2> QED
    BY <2>1, <2>2 DEF NoOp, Ops
<1>3. CASE Settle \/ \E w \in Workers : OwnerInterrupt(w)
  BY <1>3 DEF Settle, OwnerInterrupt
<1>4. CASE \E i \in intents : SignalTarget(i) \/ \E ok \in BOOLEAN : Release(i, ok)
  BY <1>4 DEF SignalTarget, Release
<1> QED
  BY <1>1, <1>2, <1>3, <1>4 DEF ReapStep

\* What the two halves of a stop do with the lock.
LEMMA StopOp ==
  ASSUME TypeOK, NEW w \in Workers, NEW S \in SUBSET intents, Stop(w, S)
  PROVE  /\ op.kind = "none" /\ up
         /\ op' \in Ops /\ op'.kind = "stop" /\ op'.claimed = {} /\ op'.gone = {}
         /\ op'.stopping = {w} /\ op'.serves = S /\ (\A i \in S : i.kind = "close")
         /\ stopped' = stopped \cup {w} /\ status' = Cancelled({w}) /\ task' = Signalled(task, w, "stop")
         /\ UNCHANGED <<thread, attempt, slot, intents, live, alive, halting, up, ghosts>>
         /\ controls' \in 0..MaxControls /\ faults' = faults
<1>1. op' = [NoOp EXCEPT !.kind = "stop", !.stopping = {w}, !.serves = S]
  BY DEF Stop, Stopping
<1>2. {w} \subseteq Workers /\ S \subseteq Intents
  BY DEF TypeOK
<1>3. /\ op' \in Ops /\ op'.kind = "stop" /\ op'.claimed = {} /\ op'.gone = {}
      /\ op'.stopping = {w} /\ op'.serves = S
  BY <1>1, <1>2 DEF NoOp, Ops
<1>4. /\ op.kind = "none" /\ up /\ (\A i \in S : i.kind = "close")
      /\ stopped' = stopped \cup {w} /\ status' = Cancelled({w}) /\ task' = Signalled(task, w, "stop")
      /\ UNCHANGED <<thread, attempt, slot, intents, live, alive, halting, up, ghosts>>
      /\ controls' \in 0..MaxControls /\ faults' = faults
  BY SupervisorAssumption DEF Stop, Free, Control, TypeOK
<1> QED
  BY <1>3, <1>4

\* finish_stop lets go of the tasks of its worker, and closes its process
\* unless a task has.
LEMMA FinishShape ==
  ASSUME TypeOK, NEW ok \in BOOLEAN, FinishStop(ok)
  PROVE  \E w \in op.stopping :
           /\ op.kind = "stop" /\ w \in Workers
           /\ task' \in [Jobs -> Tasks]
           /\ \A j \in Jobs : IF Of[j] = w THEN task'[j] \in {task[j], NoTask} /\ task'[j].step = "none"
                            ELSE task'[j] = task[j]
           /\ \A j \in Jobs : Of[j] = w => task[j].step \in {"none", "over"}
           /\ live' \in [Workers -> {"none", "warm", "outdated", "retiring"}]
           /\ \A v \in Workers : v # w => live'[v] = live[v]
           /\ live'[w] = "none" => w \notin alive' \/ live[w] = "none"
                                    \/ \E j \in Jobs : Of[j] = w /\ task[j].closed
           /\ alive' \subseteq alive
           /\ \/ op' = NoOp
              \/ live'[w] = "none" /\ op' \in Ops /\ op' = [op EXCEPT !.kind = "ack"]
           /\ halting => halting'
           /\ halting' \in BOOLEAN /\ controls' \in 0..MaxControls /\ faults' \in 0..MaxFaults
           /\ UNCHANGED <<thread, rowVars, up, ghosts>>
<1>1. PICK w \in op.stopping :
        /\ op.kind = "stop"
        /\ \A j \in JobsOf(w) : task[j].step \in {"none", "over"}
        /\ task' = [j \in Jobs |-> IF j \in {k \in JobsOf(w) : task[k].step = "over"} THEN NoTask ELSE task[j]]
        /\ IF live[w] = "none" \/ \E j \in {k \in JobsOf(w) : task[k].step = "over"} : task[j].closed
           THEN ok /\ live' = [live EXCEPT ![w] = "none"] /\ UNCHANGED <<alive, bounds>>
           ELSE CloseLive(w, ok)
        /\ op' = IF ok THEN [op EXCEPT !.kind = "ack"] ELSE NoOp
        /\ halting' = (halting \/ (~ok /\ op.serves # {}))
        /\ UNCHANGED <<thread, rowVars, up, ghosts>>
  BY Zenon DEF FinishStop
<1>2. w \in Workers /\ op \in Ops /\ [op EXCEPT !.kind = "ack"] \in Ops
  BY DEF TypeOK, Ops
<1>3. /\ \A j \in Jobs : Of[j] = w => task[j].step \in {"none", "over"}
      /\ \A j \in Jobs : IF Of[j] = w THEN task'[j] \in {task[j], NoTask} /\ task'[j].step = "none"
                       ELSE task'[j] = task[j]
  BY <1>1 DEF JobsOf, NoTask
<1>4. task' \in [Jobs -> Tasks]
  BY <1>1 DEF TypeOK, NoTask, Tasks, Signals, Results
<1>5. /\ live' = [live EXCEPT ![w] = "none"] \/ (live' = [live EXCEPT ![w] = "retiring"] /\ ~ok)
      /\ alive' \subseteq alive
      /\ ok => w \notin alive' \/ live[w] = "none" \/ \E j \in Jobs : Of[j] = w /\ task[j].closed
      /\ controls' \in 0..MaxControls /\ faults' \in 0..MaxFaults
  BY <1>1, SupervisorAssumption DEF JobsOf, CloseLive, Closes, Fault, TypeOK
<1>6. live'[w] = "none" => ok
  BY <1>1, <1>2, <1>5 DEF CloseLive, TypeOK
<1>7. /\ live' \in [Workers -> {"none", "warm", "outdated", "retiring"}]
      /\ \A v \in Workers : v # w => live'[v] = live[v]
      /\ ok => live'[w] = "none"
  BY <1>2, <1>5 DEF TypeOK
<1>8. halting' \in BOOLEAN /\ (halting => halting')
  BY <1>1, Zenon DEF TypeOK
<1> QED
  BY <1>1, <1>2, <1>3, <1>4, <1>5, <1>6, <1>7, <1>8

\* Every step keeps the types.
LEMMA TypesStep == Types /\ [Next]_vars => Types'
<1> SUFFICES ASSUME Types, [Next]_vars PROVE Types'
  OBVIOUS
<1>t. TypeOK
  BY DEF Types
<1>o. op \in Ops /\ NoOp \in Ops
  BY DEF Types, TypeOK, Ops, NoOp
<1>w. \A j \in Jobs : Of[j] \in Workers
  BY SupervisorAssumption
<1>1. CASE RowStep
  BY <1>1, <1>t, RowShape DEF Types, TypeOK, Attempts
<1>2. CASE ReapStep
  <2>1. op' \in Ops
    BY <1>2, <1>o, <1>t, ReapOp
  <2> QED
    BY <1>2, <1>t, <2>1, ReapShape DEF Types, TypeOK, Attempts
<1>3. CASE LookStep
  <2>1. op' \in Ops
    <3>1. ASSUME NEW S \in SUBSET Jobs PROVE [op EXCEPT !.todo = S] \in Ops
      BY <1>o DEF Ops
    <3> QED
      BY <1>3, <1>o, <1>t, <3>1, LookShape
  <2> QED
    BY <1>3, <1>t, <2>1, LookShape DEF Types, TypeOK, Attempts
<1>4. ASSUME NEW j \in Jobs, TaskStep(j) PROVE Types'
  <2>1. CASE TaskComplete(j)
    <3>1. PICK s \in Completion(j) :
            /\ status' = [status EXCEPT ![j] = s]
            /\ stopped' = IF Of[j] \in Ephemeral /\ s # "queued" THEN stopped \cup {Of[j]} ELSE stopped
      BY <2>1 DEF TaskComplete
    <3>2. s \in Statuses \ {"absent"} /\ (s = "queued" => attempt[j] = 1)
      BY DEF Completion, Statuses
    <3> QED
      BY <1>4, <1>t, <1>w, <3>1, <3>2, TaskShape DEF Types, TypeOK, Attempts
  <2>2. CASE ~TaskComplete(j)
    BY <1>4, <1>t, <1>w, <2>2, TaskShape DEF Types, TypeOK, Attempts
  <2> QED
    BY <2>1, <2>2
<1>5. ASSUME NEW j \in Jobs, Claim(j) PROVE Types'
  <2>1. CASE Claimable(j) /\ Of[j] \notin stopped
    <3>1. /\ status' = [status EXCEPT ![j] = "running"] /\ attempt' = [attempt EXCEPT ![j] = @ + 1]
          /\ op' = [op EXCEPT !.claimed = {j}] /\ status[j] = "queued"
          /\ UNCHANGED <<thread, stopped, intents, poolVars, halting, up, bounds, ghosts>>
      BY <1>5, <2>1 DEF Claim, Claimable
    <3>2. PICK n \in SlotsFor(Of[j]) : slot' = [slot EXCEPT ![Of[j]] = n]
      BY <1>5, <2>1 DEF Claim
    <3>3. n \in Nat
      BY DEF SlotsFor
    <3>4. slot' \in [Workers -> Nat]
      BY <3>2, <3>3 DEF Types, TypeOK
    <3>5. op' \in Ops
      BY <1>o, <3>1 DEF Ops
    <3>6. status' \in [Jobs -> Statuses] /\ attempt' \in [Jobs -> 0..2] /\ Attempts'
      BY <3>1 DEF Types, TypeOK, Attempts, Statuses
    <3> QED
      BY <3>1, <3>4, <3>5, <3>6 DEF Types, TypeOK
  <2>2. CASE ~(Claimable(j) /\ Of[j] \notin stopped)
    <3>1. /\ status' \in {status, Cancelled({Of[j]})} /\ op' = [op EXCEPT !.todo = op.todo \ {Head}]
          /\ UNCHANGED <<thread, stopped, intents, poolVars, halting, up, bounds, ghosts, attempt, slot>>
      BY <1>5, <2>2 DEF Claim, NextJob
    <3>2. op' \in Ops
      BY <1>o, <3>1 DEF Ops
    <3>3. status \in [Jobs -> Statuses]
      BY <1>t DEF TypeOK
    <3>4. status' \in [Jobs -> Statuses]
      BY <1>t, <3>1, <3>3, HelpersTyped
    <3>5. \A k \in Jobs : status'[k] = status[k] \/ status'[k] = "cancelled"
      BY <3>1 DEF Cancelled
    <3> QED
      BY <3>1, <3>2, <3>4, <3>5 DEF Types, TypeOK, Attempts
  <2> QED
    BY <2>1, <2>2
<1>6. ASSUME NEW j \in Jobs, Launch(j) PROVE Types'
  <2>1. op' \in Ops
    BY <1>6, <1>o DEF Launch, Ops
  <2>2. task' \in [Jobs -> Tasks]
    BY <1>6 DEF Launch, Types, TypeOK, NewTask, NoTask, Tasks, Signals, Results
  <2> QED
    BY <1>6, <1>w, <2>1, <2>2 DEF Launch, Types, TypeOK, Attempts
<1>7. ASSUME NEW j \in Jobs, RefuseJob(j) PROVE Types'
  <2>1. op' \in Ops
    BY <1>7, <1>o DEF RefuseJob, Ops
  <2> QED
    BY <1>7, <1>w, <2>1 DEF RefuseJob, Types, TypeOK, Attempts, Statuses
<1>8. ASSUME NEW w \in Workers, IdleExit(w) \/ Outdate(w) PROVE Types'
  BY <1>8, SupervisorAssumption DEF IdleExit, Outdate, Fault, Types, TypeOK, Attempts
<1>9. ASSUME NEW w \in Workers, NEW S \in SUBSET intents, Stop(w, S) PROVE Types'
  <2>1. task' \in [Jobs -> Tasks] /\ status' \in [Jobs -> Statuses]
    <3>1. task' = Signalled(task, w, "stop") /\ status' = Cancelled({w})
      BY <1>9, <1>t, StopOp
    <3>2. task \in [Jobs -> Tasks] /\ "stop" \in Signals
      BY <1>t DEF TypeOK, Signals
    <3> QED
      BY <1>t, <3>1, <3>2, HelpersTyped
  <2>2. \A j \in Jobs : status'[j] = status[j] \/ (status'[j] = "cancelled")
    BY <1>9, <1>t, StopOp DEF Cancelled
  <2>3. /\ op' \in Ops /\ stopped' = stopped \cup {w}
        /\ UNCHANGED <<thread, attempt, slot, intents, live, alive, halting, up, ghosts>>
        /\ controls' \in 0..MaxControls /\ faults' = faults
    BY <1>9, <1>t, StopOp
  <2> QED
    BY <2>1, <2>2, <2>3 DEF Types, TypeOK, Attempts
<1>10. ASSUME NEW ok \in BOOLEAN, FinishStop(ok) PROVE Types'
  BY <1>10, <1>t, <1>o, FinishShape DEF Types, TypeOK, Attempts
<1>11. CASE AckStop \/ Halt
  <2>1. /\ op' \in {op, NoOp} /\ intents' \subseteq intents /\ halting' \in {halting, TRUE}
        /\ confirmed' \subseteq confirmed \cup op.stopping /\ op.stopping \subseteq Workers
        /\ controls' \in 0..MaxControls /\ faults' \in 0..MaxFaults
        /\ UNCHANGED <<thread, status, attempt, slot, stopped, poolVars, up, barred>>
    <3>1. op.stopping \subseteq Workers
      BY <1>o DEF Ops
    <3>2. CASE AckStop
      BY <1>t, <3>1, <3>2 DEF AckStop, TypeOK
    <3>3. CASE Halt
      BY <1>t, <3>1, <3>3, SupervisorAssumption DEF Halt, Fault, TypeOK
    <3> QED
      BY <1>11, <3>2, <3>3
  <2>2. op' \in Ops
    BY <1>o, <2>1
  <2>3. halting' \in BOOLEAN
    BY <2>1, Zenon DEF Types, TypeOK
  <2> QED
    BY <2>1, <2>2, <2>3 DEF Types, TypeOK, Attempts
<1>12. CASE BeginClose
  <2>1. op' \in Ops
    BY <1>12 DEF BeginClose, NoOp, Ops
  <2>2. task' \in [Jobs -> Tasks]
    BY <1>12, ZenonT(40) DEF BeginClose, Types, TypeOK, Tasks, Signals
  <2> QED
    BY <1>12, <2>1, <2>2 DEF BeginClose, Types, TypeOK, Attempts
<1>13. CASE FinishClose \/ Crash
  <2>1. task' \in [Jobs -> Tasks] /\ live' \in [Workers -> {"none", "warm", "outdated", "retiring"}]
        /\ up' = FALSE /\ halting' = FALSE /\ op' = NoOp
    <3>1. Down
      BY <1>13 DEF FinishClose, Crash
    <3>2. NoTask \in Tasks
      BY DEF NoTask, Tasks, Signals, Results
    <3> QED
      BY <3>1, <3>2 DEF Down
  <2>2. alive' \subseteq Workers /\ controls' \in 0..MaxControls /\ faults' \in 0..MaxFaults
    BY <1>13, SupervisorAssumption DEF FinishClose, Crash, Fault, Types, TypeOK
  <2>3. UNCHANGED <<thread, rowVars, ghosts>>
    BY <1>13 DEF FinishClose, Crash
  <2> QED
    BY <1>o, <2>1, <2>2, <2>3 DEF Types, TypeOK, Attempts
<1>14. CASE Restart
  BY <1>14 DEF Restart, Types, TypeOK, Attempts, Statuses
<1>15. CASE UNCHANGED vars
  BY <1>15 DEF vars, Types, TypeOK, Attempts
<1> QED
  BY <1>1, <1>2, <1>3, <1>4, <1>5, <1>6, <1>7, <1>8, <1>9, <1>10, <1>11, <1>12, <1>13, <1>14,
     <1>15, <1>t, StepCases

\* A service starts well typed.
LEMMA TypesInit ==
  ASSUME NEW gone \in SUBSET Workers, InitWith(gone)
  PROVE  Types
<1>1. NoTask \in Tasks /\ NoOp \in Ops
  BY DEF NoTask, Tasks, Signals, Results, NoOp, Ops
<1>2. Attempts /\ status \in [Jobs -> Statuses] /\ attempt \in [Jobs -> 0..2]
  BY DEF InitWith, Attempts, Statuses
<1>3. task \in [Jobs -> Tasks] /\ op \in Ops /\ slot \in [Workers -> Nat]
      /\ live \in [Workers -> {"none", "warm", "outdated", "retiring"}]
  BY <1>1 DEF InitWith
<1>4. /\ thread = "active" /\ stopped \subseteq Workers /\ intents \subseteq Intents
      /\ alive \subseteq Workers /\ confirmed \subseteq Workers /\ barred \subseteq Jobs \X Nat
      /\ controls \in 0..MaxControls /\ faults \in 0..MaxFaults
  BY SupervisorAssumption DEF InitWith
<1>5. up \in BOOLEAN /\ halting \in BOOLEAN
  BY Zenon DEF InitWith
<1> QED
  BY <1>2, <1>3, <1>4, <1>5 DEF Types, TypeOK

-----------------------------------------------------------------------------
(***************************************************************************)
(* Ownership.  A task that is not over owns a running row; while passes    *)
(* run, a running row has such a task or is between its claim and its      *)
(* launch, and its worker has no other task.  The snapshot of a schedule   *)
(* knows every running row, so a claim takes a free worker and slot.       *)
(***************************************************************************)

Busy(j) == task[j].step \notin {"none", "over"}
Idle(w) == \A j \in Jobs : Of[j] = w => task[j].step = "none"

Owned ==
  /\ \A j \in Jobs : Busy(j) => status[j] = "running"
  /\ \A j \in Jobs : up /\ ~halting /\ status[j] = "running" => Busy(j) \/ j \in op.claimed
  /\ \A j \in op.claimed : status[j] = "running" /\ Idle(Of[j])
  /\ op.kind # "schedule" => op.claimed = {}
  /\ ~up => op = NoOp /\ task = [j \in Jobs |-> NoTask]
  /\ \A j, k \in Jobs : j # k /\ task[j].step # "none" /\ task[k].step # "none" => Of[j] # Of[k]

Snapshot ==
  /\ op.gone \subseteq stopped
  /\ op.kind = "schedule" => \A j \in Jobs : status[j] = "running" => j \in op.seen \cup op.claimed

Rows == Types /\ Owned /\ Snapshot /\ SlotExclusive

\* A worker is engaged when one of its jobs has a task.
LEMMA EngagedIff ==
  ASSUME NEW t, NEW w
  PROVE  w \in Engaged(t) <=> \E j \in Jobs : Of[j] = w /\ t[j].step # "none"
  BY DEF Engaged

\* What the tasks look like after the reaping, and after a stop's signal.
LEMMA StepsAfter ==
  ASSUME TypeOK
  PROVE  /\ \A j \in Jobs : Reaped[j] = IF task[j].step = "over" THEN NoTask ELSE task[j]
         /\ \A w \in Workers, j \in Jobs :
              /\ Signalled(task, w, "stop")[j].step = task[j].step
              /\ Signalled(task, w, "stop")[j].closed = task[j].closed
         /\ NoTask.step = "none" /\ NoTask.closed = FALSE
<1>1. \A j \in Jobs : Reaped[j] = IF task[j].step = "over" THEN NoTask ELSE task[j]
  BY DEF Reaped
<1>2. ASSUME NEW w \in Workers, NEW j \in Jobs
      PROVE  /\ Signalled(task, w, "stop")[j].step = task[j].step
             /\ Signalled(task, w, "stop")[j].closed = task[j].closed
  <2>1. task[j] \in Tasks /\ "stop" \in Signals
    BY DEF TypeOK, Signals
  <2>2. \/ Signalled(task, w, "stop")[j] = task[j]
        \/ Signalled(task, w, "stop")[j] = [task[j] EXCEPT !.signal = "stop"]
    BY Zenon DEF Signalled
  <2> QED
    BY <2>1, <2>2, SignalTyped, ZenonT(40)
<1>3. NoTask.step = "none" /\ NoTask.closed = FALSE
  BY DEF NoTask
<1> QED
  BY <1>1, <1>2, <1>3

\* A claim that succeeds: the worker and the slot are free, by the snapshot.
LEMMA ClaimShape ==
  ASSUME Types, Owned, Snapshot, NEW j \in Jobs, Claim(j)
  PROVE  /\ op.kind = "schedule" /\ op.claimed = {} /\ up
         /\ UNCHANGED <<thread, stopped, intents, poolVars, halting, up, bounds, ghosts>>
         /\ \/ /\ status[j] = "queued" /\ intents = {} /\ Of[j] \notin stopped
               /\ status' = [status EXCEPT ![j] = "running"] /\ attempt' = [attempt EXCEPT ![j] = @ + 1]
               /\ op' = [op EXCEPT !.claimed = {j}]
               /\ Idle(Of[j]) /\ Usable(Of[j]) /\ RoomFor(Of[j])
               /\ \A k \in Jobs : status[k] = "running" => Of[k] # Of[j]
               /\ \E n \in Nat : /\ slot' = [slot EXCEPT ![Of[j]] = n]
                                 /\ \A k \in Jobs : status[k] = "running" /\ Machine[Of[k]] = Machine[Of[j]]
                                      => slot[Of[k]] # n
            \/ /\ \A k \in Jobs : status'[k] = status[k] \/ (status[k] = "queued" /\ status'[k] = "cancelled")
               /\ op' = [op EXCEPT !.todo = op.todo \ {Head}]
               /\ UNCHANGED <<attempt, slot>>
<1>w. \A k \in Jobs : Of[k] \in Workers
  BY SupervisorAssumption
<1>1. /\ op.kind = "schedule" /\ op.claimed = {}
      /\ UNCHANGED <<thread, stopped, intents, poolVars, halting, up, bounds, ghosts>>
  BY DEF Claim, Looking, Scheduling
<1>2. up
  BY <1>1 DEF Owned, NoOp
<1>3. CASE Claimable(j) /\ Of[j] \notin stopped
  <2>1. /\ status[j] = "queued" /\ intents = {}
        /\ status' = [status EXCEPT ![j] = "running"] /\ attempt' = [attempt EXCEPT ![j] = @ + 1]
        /\ op' = [op EXCEPT !.claimed = {j}]
    BY <1>3 DEF Claim, Claimable
  <2>2. Startable(Of[j]) /\ Usable(Of[j]) /\ RoomFor(Of[j])
    BY <1>3 DEF Claim, Snapshot
  <2>3. Of[j] \notin Engaged(task) /\ Of[j] \notin {Of[k] : k \in op.seen}
    BY <2>2 DEF Startable, BusyWorkers
  <2>4. Idle(Of[j])
    BY <2>3, EngagedIff DEF Idle
  <2>5. \A k \in Jobs : status[k] = "running" => k \in op.seen
    BY <1>1 DEF Snapshot
  <2>6. \A k \in Jobs : status[k] = "running" => Of[k] # Of[j]
    BY <2>3, <2>5
  <2>7. PICK n \in SlotsFor(Of[j]) : slot' = [slot EXCEPT ![Of[j]] = n]
    BY <1>3 DEF Claim
  <2>8. n \in 1..Slots[Machine[Of[j]]] /\ n \notin {slot[Of[k]] : k \in SeenOn(Of[j])}
    BY DEF SlotsFor
  <2>9. \A k \in Jobs : status[k] = "running" /\ Machine[Of[k]] = Machine[Of[j]] => slot[Of[k]] # n
    BY <1>w, <2>5, <2>8 DEF SeenOn, SameMachine
  <2>10. n \in Nat
    BY <2>8
  <2> QED
    BY <1>1, <1>2, <1>3, <2>1, <2>2, <2>4, <2>6, <2>7, <2>9, <2>10
<1>4. CASE ~(Claimable(j) /\ Of[j] \notin stopped)
  <2>1. /\ status' \in {status, Cancelled({Of[j]})}
        /\ op' = [op EXCEPT !.todo = op.todo \ {Head}]
        /\ UNCHANGED <<attempt, slot>>
    BY <1>4 DEF Claim, NextJob
  <2>2. \A k \in Jobs : status'[k] = status[k] \/ (status[k] = "queued" /\ status'[k] = "cancelled")
    BY <2>1 DEF Cancelled
  <2> QED
    BY <1>1, <1>2, <2>1, <2>2
<1> QED
  BY <1>3, <1>4

\* Every step keeps ownership, the snapshot and the slots.
LEMMA RowsStep == Rows /\ [Next]_vars => Rows'
<1> SUFFICES ASSUME Rows, [Next]_vars PROVE Owned' /\ Snapshot' /\ SlotExclusive'
  BY TypesStep DEF Rows
<1>t. Types /\ TypeOK /\ Owned /\ Snapshot /\ SlotExclusive
  BY DEF Rows, Types
<1>n. NoOp.claimed = {} /\ NoOp.kind = "none" /\ NoOp.gone = {}
  BY DEF NoOp
<1>o. op \in Ops /\ op.claimed \subseteq Jobs /\ op.seen \subseteq Jobs
  BY <1>t DEF TypeOK, Ops
<1>w. \A k \in Jobs : Of[k] \in Workers
  BY SupervisorAssumption
<1>1. CASE RowStep
  <2>1. /\ UNCHANGED <<slot, task, op, halting, up>> /\ stopped \subseteq stopped'
        /\ \A j \in Jobs : status'[j] = "running" <=> status[j] = "running"
    BY <1>1, <1>t, RowShape
  <2> QED
    BY <1>t, <1>o, <2>1 DEF Owned, Snapshot, SlotExclusive, Busy, Idle
<1>2. CASE ReapStep
  <2>1. /\ up /\ op.kind = "none" /\ UNCHANGED <<slot, status, stopped, up>>
        /\ \A j \in Jobs : task'[j].step = IF task[j].step = "over" THEN "none" ELSE task[j].step
    BY <1>2, <1>t, ReapShape, StepsAfter
  <2>2. halting => halting'
    BY <1>2 DEF ReapStep, Settle, BeginSchedule, OwnerInterrupt, ServeStop, SignalTarget, Release, Passing
  <2>3. op'.claimed = {} /\ op'.gone \subseteq stopped
    BY <1>2, <1>t, <2>1, ReapOp DEF Owned, Snapshot
  <2>4. op'.kind = "schedule" => op'.seen = {j \in Jobs : status[j] = "running"}
    BY <1>2, <1>t, <2>1, ReapOp
  <2>5. Owned'
    BY <1>t, <2>1, <2>2, <2>3 DEF Owned, Busy, Idle
  <2> QED
    BY <1>t, <2>1, <2>3, <2>4, <2>5 DEF Snapshot, SlotExclusive
<1>3. CASE LookStep
  <2>1. /\ op.kind = "schedule" /\ op.claimed = {}
        /\ UNCHANGED <<slot, status, stopped, task, halting, up>>
    BY <1>3, <1>t, LookShape
  <2>2. \/ op' = NoOp
        \/ op'.kind = op.kind /\ op'.claimed = op.claimed /\ op'.seen = op.seen /\ op'.gone = op.gone
    <3>1. ASSUME NEW S, op' = [op EXCEPT !.todo = S]
          PROVE  op'.kind = op.kind /\ op'.claimed = op.claimed /\ op'.seen = op.seen /\ op'.gone = op.gone
      BY <1>o, <3>1 DEF Ops
    <3> QED
      BY <1>3, <1>t, <3>1, LookShape
  <2>3. up
    BY <1>t, <1>n, <2>1 DEF Owned
  <2> QED
    BY <1>t, <1>n, <2>1, <2>2, <2>3 DEF Owned, Snapshot, SlotExclusive, Busy, Idle
<1>4. ASSUME NEW j \in Jobs, TaskStep(j) PROVE Owned' /\ Snapshot' /\ SlotExclusive'
  <2>1. /\ \A k \in Jobs : k # j => task'[k] = task[k]
        /\ task[j].step \notin {"none", "over"} /\ task'[j].step # "none"
        /\ UNCHANGED <<slot, op, halting, up>>
        /\ (TaskComplete(j) /\ task'[j].step = "over")
           \/ (task'[j].step \notin {"none", "over"} /\ UNCHANGED <<status, stopped>>)
    BY <1>4, <1>t, TaskShape
  <2>2. /\ status[j] = "running" /\ j \notin op.claimed /\ stopped \subseteq stopped'
        /\ \A k \in Jobs : k # j => status'[k] = status[k]
        /\ status'[j] = "running" => task'[j].step # "over"
    <3>1. status[j] = "running" /\ j \notin op.claimed
      BY <1>t, <2>1 DEF Owned, Busy, Idle
    <3>2. CASE TaskComplete(j)
      <4>1. PICK s \in Completion(j) : status' = [status EXCEPT ![j] = s]
        BY <3>2 DEF TaskComplete
      <4>2. s # "running"
        BY DEF Completion
      <4>3. stopped \subseteq stopped'
        BY <3>2 DEF TaskComplete
      <4> QED
        BY <1>t, <3>1, <4>1, <4>2, <4>3 DEF TypeOK
    <3> QED
      BY <2>1, <3>1, <3>2
  <2>3. up
    BY <1>t, <2>1, StepsAfter DEF Owned
  <2>4. Owned'
    BY <1>t, <1>o, <2>1, <2>2, <2>3 DEF Owned, Busy, Idle
  <2> QED
    BY <1>t, <1>o, <2>1, <2>2, <2>4 DEF Snapshot, SlotExclusive
<1>5. ASSUME NEW j \in Jobs, Claim(j) PROVE Owned' /\ Snapshot' /\ SlotExclusive'
  <2>1. op.kind = "schedule" /\ op.claimed = {} /\ up /\ UNCHANGED <<stopped, task, halting, up>>
    BY <1>5, <1>t, ClaimShape
  <2>2. CASE UNCHANGED <<attempt, slot>>
    <3>1. /\ \A k \in Jobs : status'[k] = "running" <=> status[k] = "running"
          /\ op' = [op EXCEPT !.todo = op.todo \ {Head}]
      <4>1. attempt'[j] = attempt[j]
        BY <2>2
      <4>2. attempt' # [attempt EXCEPT ![j] = @ + 1]
        BY <1>t, <2>2, <4>1 DEF TypeOK
      <4> QED
        BY <1>5, <1>t, <4>2, ClaimShape
    <3>2. op'.kind = op.kind /\ op'.claimed = op.claimed /\ op'.seen = op.seen /\ op'.gone = op.gone
      BY <1>o, <3>1 DEF Ops
    <3> QED
      BY <1>t, <2>1, <2>2, <3>1, <3>2 DEF Owned, Snapshot, SlotExclusive, Busy, Idle
  <2>3. CASE ~UNCHANGED <<attempt, slot>>
    <3>1. /\ status[j] = "queued"
          /\ status' = [status EXCEPT ![j] = "running"] /\ op' = [op EXCEPT !.claimed = {j}]
          /\ Idle(Of[j])
          /\ \A k \in Jobs : status[k] = "running" => Of[k] # Of[j]
      BY <1>5, <1>t, <2>3, ClaimShape
    <3>2. PICK n \in Nat : /\ slot' = [slot EXCEPT ![Of[j]] = n]
                           /\ \A k \in Jobs : status[k] = "running" /\ Machine[Of[k]] = Machine[Of[j]]
                                => slot[Of[k]] # n
      BY <1>5, <1>t, <2>3, ClaimShape
    <3>3. op'.kind = op.kind /\ op'.claimed = {j} /\ op'.seen = op.seen /\ op'.gone = op.gone
      BY <1>o, <3>1 DEF Ops
    <3>4. status'[j] = "running" /\ \A k \in Jobs : k # j => status'[k] = status[k]
      BY <1>t, <3>1 DEF TypeOK
    <3>5. Owned'
      BY <1>t, <2>1, <3>1, <3>3, <3>4 DEF Owned, Busy, Idle
    <3>6. Snapshot'
      BY <1>t, <2>1, <3>3, <3>4 DEF Snapshot
    <3>7. slot'[Of[j]] = n /\ \A k \in Jobs : Of[k] # Of[j] => slot'[Of[k]] = slot[Of[k]]
      BY <1>t, <1>w, <3>2 DEF TypeOK
    <3>8. SlotExclusive'
      BY <1>t, <3>1, <3>2, <3>4, <3>7 DEF SlotExclusive
    <3> QED
      BY <3>5, <3>6, <3>8
  <2> QED
    BY <2>2, <2>3
<1>6. ASSUME NEW j \in Jobs, Launch(j) PROVE Owned' /\ Snapshot' /\ SlotExclusive'
  <2>1. /\ op.claimed = {j} /\ task' = [task EXCEPT ![j] = NewTask]
        /\ UNCHANGED <<slot, status, stopped, halting, up>>
        /\ op' = [op EXCEPT !.claimed = {}, !.todo = @ \ {j}, !.seen = @ \cup {j}]
    BY <1>6 DEF Launch
  <2>2. op'.kind = op.kind /\ op'.claimed = {} /\ op'.seen = op.seen \cup {j} /\ op'.gone = op.gone
    BY <1>o, <2>1 DEF Ops
  <2>3. NewTask.step = "prepare"
    BY DEF NewTask, NoTask
  <2>4. task'[j].step = "prepare" /\ \A k \in Jobs : k # j => task'[k] = task[k]
    BY <1>t, <2>1, <2>3 DEF TypeOK
  <2>5. up /\ status[j] = "running" /\ Idle(Of[j])
    BY <1>t, <1>n, <2>1 DEF Owned
  <2> QED
    BY <1>t, <2>1, <2>2, <2>4, <2>5 DEF Owned, Snapshot, SlotExclusive, Busy, Idle
<1>7. ASSUME NEW j \in Jobs, RefuseJob(j) PROVE Owned' /\ Snapshot' /\ SlotExclusive'
  <2>1. /\ op.claimed = {j} /\ status' = [status EXCEPT ![j] = "failed"]
        /\ stopped \subseteq stopped' /\ UNCHANGED <<slot, task, halting, up>>
        /\ op' = [op EXCEPT !.claimed = {}, !.todo = @ \ {j}]
    BY <1>7 DEF RefuseJob
  <2>2. op'.kind = op.kind /\ op'.claimed = {} /\ op'.seen = op.seen /\ op'.gone = op.gone
    BY <1>o, <2>1 DEF Ops
  <2>3. status'[j] = "failed" /\ \A k \in Jobs : k # j => status'[k] = status[k]
    BY <1>t, <2>1 DEF TypeOK
  <2>4. up /\ task[j].step = "none"
    BY <1>t, <1>n, <2>1 DEF Owned, Idle
  <2> QED
    BY <1>t, <2>1, <2>2, <2>3, <2>4 DEF Owned, Snapshot, SlotExclusive, Busy, Idle
<1>8. ASSUME NEW w \in Workers, IdleExit(w) \/ Outdate(w) PROVE Owned' /\ Snapshot' /\ SlotExclusive'
  BY <1>8, <1>t DEF IdleExit, Outdate, Owned, Snapshot, SlotExclusive, Busy, Idle
<1>9. ASSUME NEW w \in Workers, NEW S \in SUBSET intents, Stop(w, S)
      PROVE  Owned' /\ Snapshot' /\ SlotExclusive'
  <2>1. /\ op.kind = "none" /\ up /\ op'.kind = "stop" /\ op'.claimed = {} /\ op'.gone = {}
        /\ UNCHANGED <<slot, halting, up>>
        /\ task' = Signalled(task, w, "stop")
    BY <1>9, <1>t, StopOp
  <2>3. \A j \in Jobs : task'[j].step = task[j].step
    BY <1>t, <2>1, StepsAfter
  <2>2. \A j \in Jobs : status'[j] = "running" <=> status[j] = "running"
    BY <1>9, <1>t, StopOp DEF Cancelled
  <2> QED
    BY <1>t, <2>1, <2>2, <2>3 DEF Owned, Snapshot, SlotExclusive, Busy, Idle
<1>10. ASSUME NEW ok \in BOOLEAN, FinishStop(ok) PROVE Owned' /\ Snapshot' /\ SlotExclusive'
  <2>1. PICK w \in op.stopping :
           /\ op.kind = "stop"
           /\ \A j \in Jobs : IF Of[j] = w THEN task'[j] \in {task[j], NoTask} /\ task'[j].step = "none"
                            ELSE task'[j] = task[j]
           /\ \A j \in Jobs : Of[j] = w => task[j].step \in {"none", "over"}
           /\ op' = NoOp \/ op' = [op EXCEPT !.kind = "ack"]
           /\ halting => halting'
           /\ UNCHANGED <<status, slot, stopped, up>>
    BY <1>10, <1>t, FinishShape
  <2>2. op'.kind \in {"none", "ack"} /\ op'.claimed = {} /\ op'.gone \subseteq stopped
    <3>1. CASE op' = [op EXCEPT !.kind = "ack"]
      <4>1. op'.kind = "ack" /\ op'.claimed = op.claimed /\ op'.gone = op.gone
        BY <1>o, <3>1 DEF Ops
      <4> QED
        BY <1>t, <2>1, <4>1 DEF Owned, Snapshot
    <3> QED
      BY <1>n, <2>1, <3>1
  <2>3. up /\ op.claimed = {}
    BY <1>t, <1>n, <2>1 DEF Owned
  <2> QED
    BY <1>t, <2>1, <2>2, <2>3 DEF Owned, Snapshot, SlotExclusive, Busy, Idle
<1>11. CASE AckStop \/ Halt
  <2>1. UNCHANGED <<status, slot, stopped, task, up>>
    BY <1>11 DEF AckStop, Halt
  <2>2. up
    BY <1>11, <1>t, <1>n DEF AckStop, Halt, Owned
  <2>3. CASE AckStop
    <3>1. op' = NoOp /\ op.claimed = {} /\ halting' = halting
      BY <1>t, <2>3 DEF AckStop, Owned
    <3> QED
      BY <1>t, <1>n, <2>1, <2>2, <3>1 DEF Owned, Snapshot, SlotExclusive, Busy, Idle
  <2>4. CASE Halt
    <3>1. (op' = NoOp \/ op' = op) /\ halting' = TRUE
      BY <2>4 DEF Halt
    <3> QED
      BY <1>t, <1>n, <2>1, <2>2, <3>1 DEF Owned, Snapshot, SlotExclusive, Busy, Idle
  <2> QED
    BY <1>11, <2>3, <2>4
<1>12. CASE BeginClose
  <2>1. /\ up /\ halting /\ UNCHANGED <<slot, status, stopped, halting, up>>
        /\ op' = [NoOp EXCEPT !.kind = "close"]
        /\ task' = [j \in Jobs |-> IF task[j].step = "none" THEN task[j]
                                   ELSE [task[j] EXCEPT !.signal = "shutdown"]]
    BY <1>12 DEF BeginClose
  <2>2. op'.claimed = {} /\ op'.kind = "close" /\ op'.gone = {}
    BY <2>1 DEF NoOp
  <2>3. \A j \in Jobs : task'[j].step = task[j].step
    <3>1. \A j \in Jobs : [task[j] EXCEPT !.signal = "shutdown"].step = task[j].step
      BY <1>t, SignalTyped DEF TypeOK, Signals
    <3> QED
      BY <2>1, <3>1
  <2> QED
    BY <1>t, <2>1, <2>2, <2>3 DEF Owned, Snapshot, SlotExclusive, Busy, Idle
<1>13. CASE FinishClose \/ Crash
  <2>1. Down /\ UNCHANGED <<status, slot, stopped>>
    BY <1>13 DEF FinishClose, Crash
  <2>2. \A j \in Jobs : task'[j].step = "none"
    BY <2>1, <1>t, StepsAfter DEF Down
  <2> QED
    BY <1>t, <1>n, <2>1, <2>2 DEF Down, Owned, Snapshot, SlotExclusive, Busy, Idle
<1>14. CASE Restart
  <2>1. /\ op = NoOp /\ UNCHANGED <<slot, stopped, task, op, halting>> /\ up' = TRUE
        /\ task = [j \in Jobs |-> NoTask]
        /\ \A j \in Jobs : status'[j] # "running"
    BY <1>14, <1>t DEF Restart, Owned
  <2>2. \A j \in Jobs : task[j].step = "none"
    BY <2>1, <1>t, StepsAfter
  <2> QED
    BY <1>t, <1>n, <2>1, <2>2 DEF Owned, Snapshot, SlotExclusive, Busy, Idle
<1>15. CASE UNCHANGED vars
  BY <1>15, <1>t DEF vars, Owned, Snapshot, SlotExclusive, Busy, Idle
<1> QED
  BY <1>1, <1>2, <1>3, <1>4, <1>5, <1>6, <1>7, <1>8, <1>9, <1>10, <1>11, <1>12, <1>13, <1>14,
     <1>15, <1>t, StepCases

\* A service that starts runs nothing.
LEMMA RowsInit ==
  ASSUME NEW gone \in SUBSET Workers, InitWith(gone)
  PROVE  Rows
<1>1. \A j \in Jobs : status[j] = "absent" /\ task[j].step = "none"
  BY DEF InitWith, NoTask
<1>2. op = NoOp /\ op.claimed = {} /\ op.gone = {} /\ op.kind = "none" /\ up
  BY DEF InitWith, NoOp
<1> QED
  BY <1>1, <1>2, TypesInit DEF Rows, Owned, Snapshot, SlotExclusive, Busy, Idle

-----------------------------------------------------------------------------
(***************************************************************************)
(* The pool.  A process that exists has an entry while the service is up,  *)
(* so has the worker of a task; a close that a task confirmed is true.     *)
(***************************************************************************)

Pool ==
  /\ up => \A w \in alive : live[w] # "none"
  /\ \A j \in Jobs : task[j].step # "none" => live[Of[j]] # "none"
  /\ \A j \in Jobs : task[j].closed => task[j].step \in {"completing", "over"} /\ Of[j] \notin alive

\* An entry that a reaping step takes from the pool had neither process nor
\* task any more.
LEMMA ReapPool ==
  ASSUME Types, Owned, Pool, ReapStep
  PROVE  /\ \A w \in Workers : live'[w] = "none" => w \notin alive'
         /\ \A j \in Jobs : task'[j].step # "none" => live'[Of[j]] # "none"
<1>t. TypeOK
  BY DEF Types
<1>w. \A j \in Jobs : Of[j] \in Workers
  BY SupervisorAssumption
<1>1. /\ up /\ alive' \subseteq alive
      /\ \A j \in Jobs : task'[j].step = IF task[j].step = "over" THEN "none" ELSE task[j].step
      /\ \A j \in Jobs : task'[j].step = Reaped[j].step
  BY <1>t, ReapShape, StepsAfter
<1>2. ASSUME NEW w \in Workers, Kept[w] = "none"
      PROVE  w \notin alive /\ \A j \in Jobs : Of[j] = w => task'[j].step = "none"
  <2>1. CASE live[w] = "none"
    BY <1>1, <2>1 DEF Pool
  <2>2. CASE live[w] # "none"
    <3>1. PICK k \in JobsOf(w) : task[k].step = "over" /\ task[k].closed
      BY <1>2, <2>2, Zenon DEF Kept
    <3>2. k \in Jobs /\ Of[k] = w
      BY DEF JobsOf
    <3>3. w \notin alive
      BY <3>1, <3>2 DEF Pool
    <3>4. \A j \in Jobs : Of[j] = w /\ j # k => task[j].step = "none"
      BY <3>1, <3>2 DEF Owned
    <3> QED
      BY <1>1, <3>1, <3>2, <3>3, <3>4
  <2> QED
    BY <2>1, <2>2
<1>3. CASE live' = Kept
  BY <1>1, <1>2, <1>3, <1>w
<1>4. CASE live' # Kept
  <2>1. PICK i \in intents, ok \in BOOLEAN : Release(i, ok)
    BY <1>4 DEF ReapStep, Settle, BeginSchedule, OwnerInterrupt, ServeStop, SignalTarget
  <2>2. /\ i.worker \notin Engaged(Reaped) /\ Closes(i.worker, ok)
        /\ live' = [Kept EXCEPT ![i.worker] = IF ok THEN "none" ELSE "retiring"]
    BY <1>4, <2>1 DEF Release
  <2>3. i.worker \in Workers
    BY <1>t DEF TypeOK, Intents
  <2>4. \A j \in Jobs : Of[j] = i.worker => task'[j].step = "none"
    BY <1>1, <2>2, EngagedIff
  <2>5. ok => i.worker \notin alive'
    BY <2>2 DEF Closes
  <2>6. ~ok => live'[i.worker] = "retiring"
    BY <1>t, <2>2, <2>3, HelpersTyped
  <2>7. \A w \in Workers : w # i.worker => live'[w] = Kept[w]
    BY <1>t, <2>2, <2>3, HelpersTyped
  <2> QED
    BY <1>1, <1>2, <1>w, <2>3, <2>4, <2>5, <2>6, <2>7
<1> QED
  BY <1>3, <1>4

\* A task says that its process is closed only after it saw it closed.
LEMMA TaskClosed ==
  ASSUME Types, Pool, NEW j \in Jobs, TaskStep(j)
  PROVE  task'[j].closed => task'[j].step \in {"completing", "over"} /\ Of[j] \notin alive'
<1>t. task \in [Jobs -> Tasks] /\ task[j] \in Tasks
  BY DEF Types, TypeOK
<1>c. task[j].closed => task[j].step \in {"completing", "over"} /\ Of[j] \notin alive
  BY DEF Pool
<1>1. CASE TaskStart(j)
  <2>1. task[j].step = "prepare" /\ task' = [task EXCEPT ![j] = [task[j] EXCEPT !.step = "backend"]]
    BY <1>1 DEF TaskStart
  <2>2. [task[j] EXCEPT !.step = "backend"].closed = task[j].closed
    BY <1>t DEF Tasks
  <2> QED
    BY <1>t, <1>c, <2>1, <2>2
<1>2. ASSUME NEW r, TaskEnd(j, r) \/ TaskSettles(j, r)
      PROVE  ~task'[j].closed
  <2>1. /\ task[j].step \in {"prepare", "backend", "settling"}
        /\ task' = [task EXCEPT ![j] = [task[j] EXCEPT !.step = "closing", !.result = r]]
    BY <1>2 DEF TaskEnd, TaskSettles
  <2>2. [task[j] EXCEPT !.step = "closing", !.result = r].closed = task[j].closed
    BY <1>t DEF Tasks
  <2> QED
    BY <1>t, <1>c, <2>1, <2>2
<1>3. CASE TaskHears(j)
  <2>1. PICK s \in {"settling", "closing"} :
          task' = [task EXCEPT ![j] = [task[j] EXCEPT !.heard = task[j].signal, !.step = s,
                                                      !.result = "interrupted"]]
    BY <1>3 DEF TaskHears
  <2>2. [task[j] EXCEPT !.heard = task[j].signal, !.step = s, !.result = "interrupted"].closed = task[j].closed
    BY <1>t DEF Tasks
  <2>3. task[j].step \in {"prepare", "backend"}
    BY <1>3 DEF TaskHears
  <2> QED
    BY <1>t, <1>c, <2>1, <2>2, <2>3
<1>4. ASSUME NEW ok \in BOOLEAN, TaskClose(j, ok)
      PROVE  task'[j].closed => task'[j].step = "completing" /\ Of[j] \notin alive'
  <2>1. PICK closed \in BOOLEAN :
          /\ task' = [task EXCEPT ![j] = [task[j] EXCEPT !.step = "completing", !.closed = closed]]
          /\ closed <=> Retires(j) /\ ok
    BY <1>4, Zenon DEF TaskClose
  <2>2. /\ [task[j] EXCEPT !.step = "completing", !.closed = closed].closed = closed
        /\ [task[j] EXCEPT !.step = "completing", !.closed = closed].step = "completing"
    BY <1>t DEF Tasks
  <2>3. closed => Of[j] \notin alive'
    BY <1>4, <2>1 DEF TaskClose, Closes
  <2> QED
    BY <1>t, <2>1, <2>2, <2>3
<1>5. CASE TaskComplete(j)
  <2>1. task' = [task EXCEPT ![j] = [task[j] EXCEPT !.step = "over"]] /\ alive' = alive
    BY <1>5 DEF TaskComplete
  <2>2. [task[j] EXCEPT !.step = "over"].closed = task[j].closed /\ [task[j] EXCEPT !.step = "over"].step = "over"
    BY <1>t DEF Tasks
  <2> QED
    BY <1>t, <1>c, <2>1, <2>2
<1> QED
  BY <1>1, <1>2, <1>3, <1>4, <1>5 DEF TaskStep

\* Every step keeps the pool.
LEMMA PoolStep == Rows /\ Pool /\ [Next]_vars => Pool'
<1> SUFFICES ASSUME Rows, Pool, [Next]_vars PROVE Pool'
  OBVIOUS
<1>t. Types /\ TypeOK /\ Owned /\ Snapshot /\ alive \subseteq Workers
  BY DEF Rows, Types, TypeOK
<1>w. \A k \in Jobs : Of[k] \in Workers
  BY SupervisorAssumption
<1>n. NoOp.kind = "none" /\ NoTask.step = "none" /\ ~NoTask.closed /\ NoOp.claimed = {}
  BY DEF NoOp, NoTask
<1>1. CASE RowStep
  BY <1>1, <1>t, RowShape DEF Pool
<1>2. CASE ReapStep
  <2>1. /\ \A w \in Workers : live'[w] = "none" => w \notin alive'
        /\ \A j \in Jobs : task'[j].step # "none" => live'[Of[j]] # "none"
    BY <1>2, <1>t, ReapPool
  <2>2. /\ alive' \subseteq alive
        /\ \A j \in Jobs : task'[j].step = Reaped[j].step /\ task'[j].closed = Reaped[j].closed
    BY <1>2, <1>t, ReapShape
  <2>3. \A j \in Jobs : Reaped[j] = IF task[j].step = "over" THEN NoTask ELSE task[j]
    BY <1>t, StepsAfter
  <2>4. ASSUME NEW j \in Jobs, task'[j].closed
        PROVE  task'[j].step \in {"completing", "over"} /\ Of[j] \notin alive'
    <3>1. task'[j].closed = task[j].closed /\ task'[j].step = task[j].step
      BY <1>n, <2>2, <2>3, <2>4
    <3> QED
      BY <2>2, <2>4, <3>1 DEF Pool
  <2>5. alive' \subseteq Workers
    BY <1>t, <2>2
  <2> QED
    BY <2>1, <2>4, <2>5 DEF Pool
<1>3. CASE LookStep
  <2>1. /\ UNCHANGED <<task, up>> /\ alive' \subseteq alive
        /\ \A w \in Workers : live'[w] # live[w] =>
              w \notin Engaged(task) /\ (live'[w] = "none" => w \notin alive')
    BY <1>3, <1>t, LookShape
  <2>2. \A j \in Jobs : task[j].step # "none" => live'[Of[j]] = live[Of[j]]
    BY <1>w, <2>1, EngagedIff
  <2> QED
    BY <1>t, <2>1, <2>2 DEF Pool
<1>4. ASSUME NEW j \in Jobs, TaskStep(j) PROVE Pool'
  <2>1. /\ \A k \in Jobs : k # j => task'[k] = task[k]
        /\ task[j].step \notin {"none", "over"} /\ alive' \subseteq alive \cup {Of[j]}
        /\ UNCHANGED <<live, up>>
    BY <1>4, <1>t, TaskShape
  <2>2. task'[j].closed => task'[j].step \in {"completing", "over"} /\ Of[j] \notin alive'
    BY <1>4, <1>t, TaskClosed
  <2>3. \A k \in Jobs : k # j /\ task[k].step # "none" => Of[k] # Of[j]
    BY <1>t, <2>1 DEF Owned
  <2>4. \A k \in Jobs : k # j /\ task[k].closed => task[k].step # "none"
    BY DEF Pool
  <2> QED
    BY <2>1, <2>2, <2>3, <2>4 DEF Pool
<1>5. ASSUME NEW j \in Jobs, Claim(j) \/ RefuseJob(j) PROVE Pool'
  BY <1>5 DEF Claim, RefuseJob, Pool
<1>6. ASSUME NEW j \in Jobs, Launch(j) PROVE Pool'
  <2>1. /\ task' = [task EXCEPT ![j] = NewTask] /\ UNCHANGED <<alive, up>>
        /\ live' = [live EXCEPT ![Of[j]] = IF live[Of[j]] = "none" THEN "warm" ELSE live[Of[j]]]
    BY <1>6 DEF Launch
  <2>2. NewTask.step = "prepare" /\ ~NewTask.closed
    BY DEF NewTask, NoTask
  <2>3. /\ \A w \in Workers : live'[w] = live[w] \/ live'[w] # "none"
        /\ live'[Of[j]] # "none"
        /\ ~task'[j].closed /\ \A k \in Jobs : k # j => task'[k] = task[k]
    BY <1>t, <1>w, <2>1, <2>2 DEF TypeOK
  <2> QED
    BY <1>t, <1>w, <2>1, <2>3 DEF Pool
<1>7. ASSUME NEW w \in Workers, IdleExit(w) PROVE Pool'
  BY <1>7 DEF IdleExit, Pool
<1>8. ASSUME NEW w \in Workers, Outdate(w) PROVE Pool'
  <2>1. UNCHANGED <<task, alive, up>> /\ \A v \in Workers : live'[v] = live[v] \/ live'[v] # "none"
    BY <1>8, <1>t DEF Outdate, TypeOK
  <2> QED
    BY <1>t, <1>w, <2>1 DEF Pool
<1>9. ASSUME NEW w \in Workers, NEW S \in SUBSET intents, Stop(w, S) PROVE Pool'
  <2>1. task' = Signalled(task, w, "stop") /\ UNCHANGED <<live, alive, up>>
    BY <1>9, <1>t, StopOp
  <2>2. \A j \in Jobs : task'[j].step = task[j].step /\ task'[j].closed = task[j].closed
    BY <1>t, <2>1, StepsAfter
  <2> QED
    BY <2>1, <2>2 DEF Pool
<1>10. ASSUME NEW ok \in BOOLEAN, FinishStop(ok) PROVE Pool'
  <2>1. PICK w \in op.stopping :
           /\ op.kind = "stop" /\ w \in Workers
           /\ \A j \in Jobs : IF Of[j] = w THEN task'[j] \in {task[j], NoTask} /\ task'[j].step = "none"
                            ELSE task'[j] = task[j]
           /\ \A v \in Workers : v # w => live'[v] = live[v]
           /\ live'[w] = "none" => w \notin alive' \/ live[w] = "none"
                                    \/ \E j \in Jobs : Of[j] = w /\ task[j].closed
           /\ alive' \subseteq alive
           /\ UNCHANGED up
    BY <1>10, <1>t, FinishShape
  <2>2. up
    BY <1>t, <1>n, <2>1 DEF Owned
  <2>3. live'[w] = "none" => w \notin alive'
    BY <2>1, <2>2 DEF Pool
  <2>4. \A j \in Jobs : task'[j].closed => task'[j] = task[j]
    BY <1>n, <2>1
  <2> QED
    BY <1>t, <1>w, <2>1, <2>2, <2>3, <2>4 DEF Pool
<1>11. CASE AckStop \/ Halt
  BY <1>11 DEF AckStop, Halt, Pool
<1>12. CASE BeginClose
  <2>1. /\ UNCHANGED <<live, alive, up>>
        /\ task' = [j \in Jobs |-> IF task[j].step = "none" THEN task[j]
                                   ELSE [task[j] EXCEPT !.signal = "shutdown"]]
    BY <1>12 DEF BeginClose
  <2>2. \A j \in Jobs : task'[j].step = task[j].step /\ task'[j].closed = task[j].closed
    <3>1. \A j \in Jobs : /\ [task[j] EXCEPT !.signal = "shutdown"].step = task[j].step
                          /\ [task[j] EXCEPT !.signal = "shutdown"].closed = task[j].closed
      BY <1>t, SignalTyped DEF TypeOK, Signals
    <3> QED
      BY <2>1, <3>1
  <2> QED
    BY <2>1, <2>2 DEF Pool
<1>13. CASE FinishClose \/ Crash
  <2>1. up' = FALSE /\ task' = [j \in Jobs |-> NoTask]
    BY <1>13 DEF FinishClose, Crash, Down
  <2> QED
    BY <1>n, <2>1 DEF Pool
<1>14. CASE Restart
  BY <1>14 DEF Restart, Pool
<1>15. CASE UNCHANGED vars
  BY <1>15 DEF vars, Pool
<1> QED
  BY <1>1, <1>2, <1>3, <1>4, <1>5, <1>6, <1>7, <1>8, <1>9, <1>10, <1>11, <1>12, <1>13, <1>14,
     <1>15, <1>t, StepCases

-----------------------------------------------------------------------------
(***************************************************************************)
(* Stops.  A stop that is about to be acknowledged is already true; what   *)
(* was acknowledged stays true, since a claim wants a worker that is not   *)
(* stopped.                                                                *)
(***************************************************************************)

Gone(w) == w \in stopped /\ w \notin alive /\ Idle(w)

Stops ==
  /\ \A w \in confirmed : Gone(w)
  /\ \A j \in op.claimed : Of[j] \notin confirmed
  /\ op.stopping \subseteq stopped /\ \A v, w \in op.stopping : v = w
  /\ op.kind = "ack" => \A w \in op.stopping : Gone(w)
  /\ \A i \in intents : i.kind = "stop" => i.worker \in stopped

\* A worker that is gone stays so, but for its launch.
LEMMA GoneStays ==
  ASSUME Rows, [Next]_vars, NEW w \in Workers, Gone(w), \A j \in op.claimed : Of[j] # w
  PROVE  Gone(w)'
<1>t. Types /\ TypeOK /\ Owned /\ Snapshot /\ alive \subseteq Workers
  BY DEF Rows, Types, TypeOK
<1>n. NoTask.step = "none"
  BY DEF NoTask
<1> USE DEF Gone, Idle
<1>1. CASE RowStep
  BY <1>1, <1>t, RowShape
<1>2. CASE ReapStep
  <2>1. /\ alive' \subseteq alive /\ stopped' = stopped
        /\ \A j \in Jobs : task'[j].step = IF task[j].step = "over" THEN "none" ELSE task[j].step
    BY <1>2, <1>t, ReapShape, StepsAfter
  <2> QED
    BY <2>1
<1>3. CASE LookStep
  BY <1>3, <1>t, LookShape
<1>4. ASSUME NEW j \in Jobs, TaskStep(j) PROVE Gone(w)'
  <2>1. /\ \A k \in Jobs : k # j => task'[k] = task[k]
        /\ task[j].step # "none" /\ alive' \subseteq alive \cup {Of[j]}
    BY <1>4, <1>t, TaskShape
  <2>2. stopped \subseteq stopped'
    BY <1>4 DEF TaskStep, TaskStart, TaskHears, TaskComplete, TaskEnd, TaskSettles, TaskClose
  <2> QED
    BY <2>1, <2>2
<1>5. ASSUME NEW j \in Jobs, Claim(j) \/ RefuseJob(j) PROVE Gone(w)'
  BY <1>5 DEF Claim, RefuseJob
<1>6. ASSUME NEW j \in Jobs, Launch(j) PROVE Gone(w)'
  <2>1. Of[j] # w /\ UNCHANGED <<stopped, alive>> /\ task' = [task EXCEPT ![j] = NewTask]
    BY <1>6 DEF Launch
  <2>2. \A k \in Jobs : k # j => task'[k] = task[k]
    BY <1>t, <2>1 DEF TypeOK
  <2> QED
    BY <2>1, <2>2
<1>7. ASSUME NEW v \in Workers, IdleExit(v) \/ Outdate(v) PROVE Gone(w)'
  BY <1>7 DEF IdleExit, Outdate
<1>9. ASSUME NEW v \in Workers, NEW S \in SUBSET intents, Stop(v, S) PROVE Gone(w)'
  <2>1. task' = Signalled(task, v, "stop") /\ stopped \subseteq stopped' /\ UNCHANGED alive
    BY <1>9, <1>t, StopOp
  <2>2. \A j \in Jobs : task'[j].step = task[j].step
    BY <1>t, <2>1, StepsAfter
  <2> QED
    BY <2>1, <2>2
<1>10. ASSUME NEW ok \in BOOLEAN, FinishStop(ok) PROVE Gone(w)'
  <2>1. /\ \A j \in Jobs : task'[j] = task[j] \/ task'[j].step = "none"
        /\ alive' \subseteq alive /\ UNCHANGED stopped
    BY <1>10, <1>t, FinishShape
  <2> QED
    BY <2>1
<1>11. CASE AckStop \/ Halt
  BY <1>11 DEF AckStop, Halt
<1>12. CASE BeginClose
  BY <1>12 DEF BeginClose
<1>13. CASE FinishClose \/ Crash
  <2>1. task' = [j \in Jobs |-> NoTask] /\ alive' \subseteq alive /\ UNCHANGED stopped
    BY <1>13 DEF FinishClose, Crash, Down
  <2> QED
    BY <1>n, <2>1
<1>14. CASE Restart
  BY <1>14 DEF Restart
<1>15. CASE UNCHANGED vars
  BY <1>15 DEF vars
<1> QED
  BY <1>1, <1>2, <1>3, <1>4, <1>5, <1>6, <1>7, <1>9, <1>10, <1>11, <1>12, <1>13, <1>14,
     <1>15, <1>t, StepCases

\* How the lock moves: what a step leaves of claims and stops.
LEMMA LockShape ==
  ASSUME Rows, Stops, [Next]_vars
  PROVE  /\ stopped \subseteq stopped'
         /\ \/ confirmed' = confirmed
            \/ op.kind = "ack" /\ confirmed' = confirmed \cup op.stopping /\ op' = NoOp
         /\ \A j \in op'.claimed : j \in op.claimed \/ (Of[j] \notin stopped /\ confirmed' = confirmed)
         /\ op'.stopping \subseteq stopped' /\ \A v, w \in op'.stopping : v = w
         /\ op'.kind = "ack" => (op.kind = "ack" /\ op' = op) \/ \E ok \in BOOLEAN : FinishStop(ok)
<1>t. Types /\ TypeOK /\ Owned /\ Snapshot
  BY DEF Rows, Types
<1>o. op \in Ops
  BY <1>t DEF TypeOK
<1>n. NoOp.claimed = {} /\ NoOp.stopping = {} /\ NoOp.kind = "none"
  BY DEF NoOp
<1>1. CASE RowStep
  BY <1>1, <1>t, RowShape DEF Stops
<1>2. CASE ReapStep
  <2>1. UNCHANGED <<stopped, ghosts>> /\ op.kind = "none"
    BY <1>2, <1>t, ReapShape
  <2>2. \/ op' = op
        \/ op'.kind = "schedule" /\ op'.claimed = {} /\ op'.stopping = {}
        \/ /\ op'.kind = "stop" /\ op'.claimed = {}
           /\ \E i \in intents : i.kind = "stop" /\ op'.stopping = {i.worker}
    BY <1>2, <1>t, ReapOp
  <2> QED
    BY <2>1, <2>2 DEF Stops
<1>3. CASE LookStep
  <2>1. op.kind = "schedule" /\ UNCHANGED <<stopped, ghosts>>
    BY <1>3, <1>t, LookShape
  <2>2. \/ op' = NoOp
        \/ op'.kind = op.kind /\ op'.claimed = op.claimed /\ op'.stopping = op.stopping
    <3>1. ASSUME NEW S, op' = [op EXCEPT !.todo = S]
          PROVE  op'.kind = op.kind /\ op'.claimed = op.claimed /\ op'.stopping = op.stopping
      BY <1>o, <3>1 DEF Ops
    <3> QED
      BY <1>3, <1>t, <3>1, LookShape
  <2> QED
    BY <1>n, <2>1, <2>2 DEF Stops
<1>4. ASSUME NEW j \in Jobs, TaskStep(j) PROVE UNCHANGED <<op, ghosts>> /\ stopped \subseteq stopped'
  BY <1>4 DEF TaskStep, TaskStart, TaskHears, TaskComplete, TaskEnd, TaskSettles, TaskClose
<1>5. ASSUME NEW j \in Jobs, Claim(j)
      PROVE  /\ UNCHANGED <<stopped, ghosts>> /\ op'.kind = "schedule" /\ op'.stopping = op.stopping
             /\ \A k \in op'.claimed : k \in op.claimed \/ Of[k] \notin stopped
  <2>1. op.kind = "schedule" /\ UNCHANGED <<stopped, ghosts>>
    BY <1>5, <1>t, ClaimShape
  <2>2. \/ op' = [op EXCEPT !.claimed = {j}] /\ Of[j] \notin stopped
        \/ op' = [op EXCEPT !.todo = op.todo \ {Head}]
    BY <1>5, <1>t, ClaimShape
  <2> QED
    BY <1>o, <2>1, <2>2 DEF Ops
<1>6. ASSUME NEW j \in Jobs, Launch(j) \/ RefuseJob(j)
      PROVE  /\ UNCHANGED ghosts /\ stopped \subseteq stopped' /\ op'.kind = "schedule"
             /\ op'.claimed = {} /\ op'.stopping = op.stopping
  <2>1. /\ UNCHANGED ghosts /\ stopped \subseteq stopped' /\ op.claimed = {j}
        /\ \/ op' = [op EXCEPT !.claimed = {}, !.todo = op.todo \ {j}]
           \/ op' = [op EXCEPT !.claimed = {}, !.todo = op.todo \ {j}, !.seen = op.seen \cup {j}]
    BY <1>6 DEF Launch, RefuseJob
  <2>2. op.kind = "schedule"
    BY <1>t, <2>1 DEF Owned
  <2> QED
    BY <1>o, <2>1, <2>2 DEF Ops
<1>7. ASSUME NEW w \in Workers, IdleExit(w) \/ Outdate(w) PROVE UNCHANGED <<op, stopped, ghosts>>
  BY <1>7 DEF IdleExit, Outdate
<1>9. ASSUME NEW w \in Workers, NEW S \in SUBSET intents, Stop(w, S)
      PROVE  /\ UNCHANGED ghosts /\ stopped' = stopped \cup {w}
             /\ op'.kind = "stop" /\ op'.claimed = {} /\ op'.stopping = {w}
  BY <1>9, <1>t, StopOp
<1>10. ASSUME NEW ok \in BOOLEAN, FinishStop(ok)
       PROVE  /\ UNCHANGED <<stopped, ghosts>>
              /\ op' = NoOp \/ (op'.stopping = op.stopping /\ op'.claimed = op.claimed)
  <2>1. UNCHANGED <<stopped, ghosts>> /\ (op' = NoOp \/ op' = [op EXCEPT !.kind = "ack"])
    BY <1>10, <1>t, FinishShape
  <2> QED
    BY <1>o, <2>1 DEF Ops
<1>11. CASE AckStop
  BY <1>11, <1>n DEF AckStop
<1>12. CASE Halt \/ BeginClose \/ FinishClose \/ Crash \/ Restart
  <2>1. UNCHANGED <<stopped, ghosts>>
    BY <1>12 DEF Halt, BeginClose, FinishClose, Crash, Restart
  <2>2. op' = op \/ (op'.claimed = {} /\ op'.stopping = {} /\ op'.kind # "ack")
    BY <1>12 DEF Halt, BeginClose, FinishClose, Crash, Restart, Down, NoOp
  <2> QED
    BY <2>1, <2>2 DEF Stops
<1>15. CASE UNCHANGED vars
  BY <1>15 DEF vars, Stops
<1>a. CASE \E j \in Jobs : TaskStep(j) \/ Claim(j) \/ Launch(j) \/ RefuseJob(j)
  BY <1>a, <1>4, <1>5, <1>6 DEF Stops
<1>b. CASE \E w \in Workers : IdleExit(w) \/ Outdate(w)
  BY <1>b, <1>7 DEF Stops
<1>c. CASE \E w \in Workers, S \in SUBSET intents : Stop(w, S)
  BY <1>c, <1>9 DEF Stops
<1>d. CASE \E ok \in BOOLEAN : FinishStop(ok)
  <2>1. PICK ok \in BOOLEAN : FinishStop(ok)
    BY <1>d
  <2>2. UNCHANGED <<stopped, ghosts>> /\ (op' = NoOp \/ (op'.stopping = op.stopping /\ op'.claimed = op.claimed))
    BY <1>10, <2>1
  <2> QED
    BY <1>d, <1>n, <2>2 DEF Stops
<1> QED
  BY <1>1, <1>2, <1>3, <1>11, <1>12, <1>15, <1>a, <1>b, <1>c, <1>d, <1>t, StepCases

\* Every step keeps what was stopped stopped.
LEMMA StopsStep == Rows /\ Pool /\ Stops /\ [Next]_vars => Stops'
<1> SUFFICES ASSUME Rows, Pool, Stops, [Next]_vars PROVE Stops'
  OBVIOUS
<1>t. Types /\ TypeOK /\ Owned /\ op \in Ops /\ op.stopping \subseteq Workers /\ confirmed \subseteq Workers
  BY DEF Rows, Types, TypeOK, Ops
<1>l. /\ stopped \subseteq stopped'
      /\ \/ confirmed' = confirmed
         \/ op.kind = "ack" /\ confirmed' = confirmed \cup op.stopping /\ op' = NoOp
      /\ \A j \in op'.claimed : j \in op.claimed \/ (Of[j] \notin stopped /\ confirmed' = confirmed)
      /\ op'.stopping \subseteq stopped' /\ \A v, w \in op'.stopping : v = w
      /\ op'.kind = "ack" => (op.kind = "ack" /\ op' = op) \/ \E ok \in BOOLEAN : FinishStop(ok)
  BY LockShape
<1>n. NoOp.claimed = {}
  BY DEF NoOp
<1>1. \A w \in confirmed : Gone(w)'
  BY <1>t, GoneStays DEF Stops
<1>2. op.kind = "ack" => \A w \in op.stopping : Gone(w)'
  <2>1. op.kind = "ack" => op.claimed = {}
    BY <1>t DEF Owned
  <2> QED
    BY <1>t, <2>1, GoneStays DEF Stops
<1>3. \A w \in confirmed' : Gone(w)'
  BY <1>1, <1>2, <1>l
<1>4. \A j \in op'.claimed : Of[j] \notin confirmed'
  BY <1>l, <1>n DEF Stops, Gone
<1>5. ASSUME NEW ok \in BOOLEAN, FinishStop(ok), op'.kind = "ack" PROVE \A w \in op'.stopping : Gone(w)'
  <2>1. PICK w \in op.stopping :
           /\ op.kind = "stop" /\ w \in Workers
           /\ \A j \in Jobs : IF Of[j] = w THEN task'[j] \in {task[j], NoTask} /\ task'[j].step = "none"
                            ELSE task'[j] = task[j]
           /\ \/ op' = NoOp
              \/ live'[w] = "none" /\ op' \in Ops /\ op' = [op EXCEPT !.kind = "ack"]
           /\ UNCHANGED <<up, stopped>>
    BY <1>5, <1>t, FinishShape
  <2>2. live'[w] = "none" /\ op'.stopping = op.stopping
    BY <1>5, <1>t, <2>1 DEF Ops, NoOp
  <2>3. up
    BY <1>t, <2>1 DEF Owned, NoOp
  <2>4. Pool'
    BY PoolStep
  <2>5. w \notin alive'
    BY <2>1, <2>2, <2>3, <2>4 DEF Pool
  <2>6. Gone(w)'
    BY <2>1, <2>5 DEF Stops, Gone, Idle
  <2> QED
    BY <2>1, <2>2, <2>6 DEF Stops
<1>6. op'.kind = "ack" => \A w \in op'.stopping : Gone(w)'
  BY <1>2, <1>5, <1>l
<1>7. \A i \in intents' : i.kind = "stop" => i.worker \in stopped'
  <2>1. CASE intents' \subseteq intents
    BY <1>l, <2>1 DEF Stops
  <2>2. CASE \E w \in Workers : ParentControl("stop", w) \/ ParentControl("interrupt", w)
    <3>1. PICK w \in Workers, kind \in {"stop", "interrupt"} : ParentControl(kind, w)
      BY <2>2
    <3>2. intents' = intents \cup {IntentOf(kind, w)} /\ (kind = "stop" => w \in stopped')
      BY <3>1 DEF ParentControl
    <3>3. IntentOf(kind, w).kind = kind /\ IntentOf(kind, w).worker = w
      BY <1>t, <3>1, IntentTyped
    <3> QED
      BY <1>l, <3>2, <3>3 DEF Stops
  <2>3. CASE CloseThread
    <3>1. \A w \in Workers : IntentOf("close", w).kind = "close"
      BY <1>t, IntentTyped
    <3> QED
      BY <1>l, <2>3, <3>1 DEF CloseThread, Stops
  <2>4. CASE RowStep
    BY <2>1, <2>2, <2>3, <2>4 DEF RowStep, Enqueue, Pause, Restore
  <2>5. CASE ReapStep
    BY <1>t, <2>1, <2>5, ReapShape
  <2>6. CASE LookStep
    BY <1>t, <2>1, <2>6, LookShape
  <2>7. CASE \E j \in Jobs : TaskStep(j)
    BY <1>t, <2>1, <2>7, TaskShape
  <2>8. CASE \E w \in Workers, S \in SUBSET intents : Stop(w, S)
    BY <1>t, <2>1, <2>8, StopOp
  <2>9. CASE \E ok \in BOOLEAN : FinishStop(ok)
    BY <1>t, <2>1, <2>9, FinishShape
  <2>10. CASE \E j \in Jobs : Claim(j) \/ Launch(j) \/ RefuseJob(j)
    BY <2>1, <2>10 DEF Claim, Launch, RefuseJob
  <2>11. CASE \E w \in Workers : IdleExit(w) \/ Outdate(w)
    BY <2>1, <2>11 DEF IdleExit, Outdate
  <2>12. CASE AckStop \/ Halt \/ BeginClose \/ FinishClose \/ Crash \/ Restart \/ UNCHANGED vars
    BY <2>1, <2>12 DEF AckStop, Halt, BeginClose, FinishClose, Crash, Restart, vars
  <2> QED
    BY <1>t, <2>4, <2>5, <2>6, <2>7, <2>8, <2>9, <2>10, <2>11, <2>12, StepCases
<1> QED
  BY <1>3, <1>4, <1>6, <1>7, <1>l DEF Stops

-----------------------------------------------------------------------------
(***************************************************************************)
(* Interrupts.  The intent of an interrupt names its worker's job, no stop *)
(* serves it, and it is released only when its attempt runs no more; as    *)
(* long as it is pending, complete_job does not queue the job again.       *)
(***************************************************************************)

Barred ==
  /\ \A i \in intents : i.job # 0 => i.kind = "interrupt" /\ i.worker = Of[i.job]
  /\ \A i \in op.serves : i.kind # "interrupt"
  /\ \A b \in barred : status[b[1]] # "absent"
  /\ InterruptsHold

\* A reaping step releases an interrupt only when its attempt runs no more.
LEMMA ReapIntents ==
  ASSUME TypeOK, ReapStep
  PROVE  \A i \in intents \ intents' : i.job # 0 => attempt[i.job] # i.attempt \/ status[i.job] # "running"
<1>1. CASE \E i \in intents, ok \in BOOLEAN : Release(i, ok)
  BY <1>1 DEF Release
<1>2. CASE ~\E i \in intents, ok \in BOOLEAN : Release(i, ok)
  BY <1>2 DEF ReapStep, Settle, BeginSchedule, OwnerInterrupt, ServeStop, SignalTarget
<1> QED
  BY <1>1, <1>2

\* The lock serves no interrupt.
LEMMA ServesShape ==
  ASSUME Rows, Barred, [Next]_vars
  PROVE  \A i \in op'.serves : i.kind # "interrupt"
<1>t. Types /\ TypeOK /\ Owned /\ Snapshot
  BY DEF Rows, Types
<1>o. op \in Ops
  BY <1>t DEF TypeOK
<1>n. NoOp.serves = {}
  BY DEF NoOp
<1>a. op'.serves \subseteq op.serves => \A i \in op'.serves : i.kind # "interrupt"
  BY DEF Barred
<1>1. CASE RowStep
  BY <1>1, <1>t, <1>a, RowShape
<1>2. CASE ReapStep
  <2>1. \/ op' = op \/ op'.serves = {}
        \/ \E i \in intents : i.kind = "stop" /\ op'.serves = {i}
    BY <1>2, <1>t, ReapOp
  <2> QED
    BY <1>a, <2>1
<1>3. CASE LookStep
  <2>1. ASSUME NEW S, op' = [op EXCEPT !.todo = S] PROVE op'.serves = op.serves
    BY <1>o, <2>1 DEF Ops
  <2> QED
    BY <1>3, <1>t, <1>n, <1>a, <2>1, LookShape
<1>4. CASE \E j \in Jobs : TaskStep(j)
  BY <1>4, <1>t, <1>a, TaskShape
<1>5. ASSUME NEW j \in Jobs, Claim(j) \/ Launch(j) \/ RefuseJob(j) PROVE op'.serves = op.serves
  <2>1. \/ op' = [op EXCEPT !.claimed = {j}] \/ op' = [op EXCEPT !.todo = op.todo \ {Head}]
        \/ op' = [op EXCEPT !.claimed = {}, !.todo = op.todo \ {j}]
        \/ op' = [op EXCEPT !.claimed = {}, !.todo = op.todo \ {j}, !.seen = op.seen \cup {j}]
    BY <1>5 DEF Claim, NextJob, Launch, RefuseJob
  <2> QED
    BY <1>o, <2>1 DEF Ops
<1>6. CASE \E w \in Workers : IdleExit(w) \/ Outdate(w)
  BY <1>6, <1>a DEF IdleExit, Outdate
<1>7. CASE \E w \in Workers, S \in SUBSET intents : Stop(w, S)
  <2>1. PICK w \in Workers, S \in SUBSET intents : Stop(w, S)
    BY <1>7
  <2>2. op'.serves = S /\ \A i \in S : i.kind = "close"
    BY <1>t, <2>1, StopOp
  <2> QED
    BY <2>2
<1>8. CASE \E ok \in BOOLEAN : FinishStop(ok)
  <2>1. op' = NoOp \/ op' = [op EXCEPT !.kind = "ack"]
    BY <1>8, <1>t, FinishShape
  <2>2. op' = NoOp \/ op'.serves = op.serves
    BY <1>o, <2>1 DEF Ops
  <2> QED
    BY <1>n, <1>a, <2>2
<1>9. CASE AckStop \/ Halt \/ BeginClose \/ FinishClose \/ Crash \/ Restart \/ UNCHANGED vars
  <2>1. op' = op \/ op'.serves = {}
    BY <1>9, <1>n DEF AckStop, Halt, BeginClose, FinishClose, Crash, Restart, Down, vars, NoOp
  <2> QED
    BY <1>a, <2>1
<1> QED
  BY <1>1, <1>2, <1>3, <1>4, <1>a, <1>5, <1>6, <1>7, <1>8, <1>9, <1>t, StepCases

\* A step that starts no attempt, bars none, queues no barred job and keeps
\* the interrupts of running attempts.
LEMMA BarredFrame ==
  ASSUME Types, Barred, barred' = barred,
         intents' \subseteq intents, \A i \in op'.serves : i.kind # "interrupt",
         \A b \in barred : /\ attempt'[b[1]] = attempt[b[1]] /\ status'[b[1]] \notin {"queued", "absent"}
                           /\ status'[b[1]] = "running" => status[b[1]] = "running",
         \A i \in intents \ intents' :
           i.kind = "interrupt" /\ i.job # 0 => attempt[i.job] # i.attempt \/ status[i.job] # "running"
  PROVE  Barred'
<1>1. \A b \in barred : b[1] \in Jobs /\ b[1] # 0
  BY SupervisorAssumption DEF Types, TypeOK
<1>2. ASSUME NEW b \in barred, status'[b[1]] = "running"
      PROVE  \E i \in intents' : i.kind = "interrupt" /\ i.job = b[1] /\ i.attempt = b[2]
  <2>1. PICK i \in intents : i.kind = "interrupt" /\ i.job = b[1] /\ i.attempt = b[2]
    BY <1>2 DEF Barred, InterruptsHold
  <2>2. attempt[b[1]] = b[2] /\ status[b[1]] = "running"
    BY <1>2 DEF Barred, InterruptsHold
  <2>3. i \in intents'
    BY <1>1, <2>1, <2>2
  <2> QED
    BY <2>1, <2>3
<1>3. InterruptsHold'
  BY <1>2 DEF Barred, InterruptsHold
<1> QED
  BY <1>3 DEF Barred

\* Every step keeps the interrupts.
LEMMA BarredStep == Rows /\ Barred /\ [Next]_vars => Barred'
<1> SUFFICES ASSUME Rows, Barred, [Next]_vars PROVE Barred'
  OBVIOUS
<1>t. Types /\ TypeOK /\ Owned /\ Snapshot
  BY DEF Rows, Types
<1>s. \A i \in op'.serves : i.kind # "interrupt"
  BY ServesShape
<1>b. \A b \in barred : b[1] \in Jobs /\ b[1] # 0 /\ attempt[b[1]] = b[2] /\ status[b[1]] \notin {"queued", "absent"}
  BY <1>t, SupervisorAssumption DEF TypeOK, Barred, InterruptsHold
<1>1. CASE RowStep
  <2>1. /\ UNCHANGED attempt /\ intents \subseteq intents'
        /\ \A j \in Jobs : status[j] \notin {"queued", "absent"} => status'[j] = status[j]
    BY <1>1, <1>t, RowShape
  <2>2. ASSUME barred' = barred, \A i \in intents' \ intents : i.job # 0 => i.kind = "interrupt" /\ i.worker = Of[i.job]
        PROVE  Barred'
    <3>1. InterruptsHold'
      BY <1>b, <2>1, <2>2 DEF Barred, InterruptsHold
    <3> QED
      BY <1>b, <1>s, <2>1, <2>2, <3>1 DEF Barred
  <2>3. ASSUME NEW w \in Workers, NEW kind \in {"stop", "interrupt"}, ParentControl(kind, w) PROVE Barred'
    <3> DEFINE new == IntentOf(kind, w)
    <3>1. /\ intents' = intents \cup {new}
          /\ barred' = IF new.job = 0 THEN barred ELSE barred \cup {<<new.job, new.attempt>>}
      BY <2>3 DEF ParentControl
    <3>2. /\ new.kind = kind /\ new.worker = w
          /\ new.job # 0 => /\ kind = "interrupt" /\ new.job \in Jobs /\ Of[new.job] = w
                            /\ status[new.job] = "running" /\ new.attempt = attempt[new.job]
      BY <1>t, IntentTyped
    <3> HIDE DEF new
    <3>3. \A i \in intents' \ intents : i.job # 0 => i.kind = "interrupt" /\ i.worker = Of[i.job]
      BY <3>1, <3>2
    <3>4. CASE new.job = 0
      BY <2>2, <3>1, <3>3, <3>4
    <3>5. CASE new.job # 0
      <4>1. ASSUME NEW b \in barred'
            PROVE  /\ attempt'[b[1]] = b[2] /\ status'[b[1]] \notin {"queued", "absent"}
                   /\ status'[b[1]] = "running" =>
                        \E i \in intents' : i.kind = "interrupt" /\ i.job = b[1] /\ i.attempt = b[2]
        <5>1. CASE b \in barred
          BY <1>b, <2>1, <5>1 DEF Barred, InterruptsHold
        <5>2. CASE b = <<new.job, new.attempt>>
          <6>1. b[1] = new.job /\ b[2] = new.attempt /\ new \in intents'
            BY <3>1, <5>2
          <6> QED
            BY <2>1, <3>2, <3>5, <6>1
        <5> QED
          BY <3>1, <3>5, <5>1, <5>2
      <4> QED
        BY <1>s, <3>1, <3>3, <4>1 DEF Barred, InterruptsHold
    <3> QED
      BY <3>4, <3>5
  <2>4. CASE CloseThread
    <3>1. \A w \in Workers : IntentOf("close", w).job = 0
      BY <1>t, IntentTyped
    <3>2. barred' = barred /\ intents' = intents \cup {IntentOf("close", w) : w \in Workers \ stopped}
      BY <2>4 DEF CloseThread
    <3> QED
      BY <2>2, <3>1, <3>2
  <2>5. CASE Pause \/ Restore \/ \E j \in Jobs : Enqueue(j)
    <3>1. barred' = barred /\ intents' = intents
      BY <2>5 DEF Pause, Restore, Enqueue
    <3> QED
      BY <2>2, <3>1
  <2> QED
    BY <1>1, <2>3, <2>4, <2>5 DEF RowStep
<1>2. CASE ReapStep
  <2>1. UNCHANGED <<status, attempt, barred>> /\ intents' \subseteq intents
    BY <1>2, <1>t, ReapShape
  <2> QED
    BY <1>2, <1>t, <1>s, <1>b, <2>1, ReapIntents, BarredFrame
<1>3. CASE LookStep
  <2>1. UNCHANGED <<status, attempt, barred, intents>>
    BY <1>3, <1>t, LookShape
  <2> QED
    BY <1>t, <1>s, <1>b, <2>1, BarredFrame
<1>4. ASSUME NEW j \in Jobs, TaskStep(j) PROVE Barred'
  <2>1. UNCHANGED <<attempt, barred, intents>> /\ (TaskComplete(j) \/ UNCHANGED status)
        /\ task[j].step \notin {"none", "over"}
    BY <1>4, <1>t, TaskShape
  <2>2. CASE UNCHANGED status
    BY <1>t, <1>s, <1>b, <2>1, <2>2, BarredFrame
  <2>3. CASE TaskComplete(j)
    <3>1. PICK s \in Completion(j) : status' = [status EXCEPT ![j] = s]
      BY <2>3 DEF TaskComplete
    <3>2. s \notin {"running", "absent"}
      BY DEF Completion
    <3>3. status[j] = "running"
      BY <1>t, <2>1 DEF Owned, Busy
    <3>4. ASSUME NEW b \in barred, b[1] = j PROVE s # "queued"
      <4>1. PICK i \in intents : i.kind = "interrupt" /\ i.job = j /\ i.attempt = attempt[j]
        BY <1>b, <3>3, <3>4 DEF Barred, InterruptsHold
      <4>2. i \in Intents /\ i.worker = Of[j]
        BY <1>t, <1>b, <3>4, <4>1 DEF TypeOK, Barred
      <4>3. i = [kind |-> "interrupt", worker |-> Of[j], job |-> j, attempt |-> attempt[j]]
        BY <4>1, <4>2 DEF Intents
      <4> QED
        BY <4>1, <4>3 DEF Completion
    <3>5. \A b \in barred : status'[b[1]] \notin {"queued", "absent"}
                            /\ (status'[b[1]] = "running" => status[b[1]] = "running")
      BY <1>t, <1>b, <3>1, <3>2, <3>4 DEF TypeOK
    <3> QED
      BY <1>t, <1>s, <1>b, <2>1, <3>5, BarredFrame
  <2> QED
    BY <2>1, <2>2, <2>3
<1>5. ASSUME NEW j \in Jobs, Claim(j) PROVE Barred'
  <2>1. UNCHANGED <<intents, barred>>
    BY <1>5, <1>t, ClaimShape
  <2>2. \A k \in Jobs : status[k] # "queued" => status'[k] = status[k] /\ attempt'[k] = attempt[k]
    <3>1. CASE UNCHANGED attempt
      <4>1. \A k \in Jobs : status'[k] = status[k] \/ status[k] = "queued"
        BY <1>5, <1>t, ClaimShape DEF TypeOK
      <4> QED
        BY <3>1, <4>1
    <3>2. CASE ~UNCHANGED attempt
      <4>1. /\ status[j] = "queued"
            /\ status' = [status EXCEPT ![j] = "running"] /\ attempt' = [attempt EXCEPT ![j] = attempt[j] + 1]
        BY <1>5, <1>t, <3>2, ClaimShape
      <4> QED
        BY <1>t, <4>1 DEF TypeOK
    <3> QED
      BY <3>1, <3>2
  <2> QED
    BY <1>t, <1>s, <1>b, <2>1, <2>2, BarredFrame
<1>6. ASSUME NEW j \in Jobs, Launch(j) PROVE Barred'
  BY <1>6, <1>t, <1>s, <1>b, BarredFrame DEF Launch
<1>7. ASSUME NEW j \in Jobs, RefuseJob(j) PROVE Barred'
  <2>1. UNCHANGED <<intents, attempt, barred>> /\ status' = [status EXCEPT ![j] = "failed"]
    BY <1>7 DEF RefuseJob
  <2>2. \A k \in Jobs : status'[k] = status[k] \/ status'[k] = "failed"
    BY <1>t, <2>1 DEF TypeOK
  <2> QED
    BY <1>t, <1>s, <1>b, <2>1, <2>2, BarredFrame
<1>8. CASE \E w \in Workers : IdleExit(w) \/ Outdate(w)
  <2>1. UNCHANGED <<status, attempt, barred, intents>>
    BY <1>8 DEF IdleExit, Outdate
  <2> QED
    BY <1>t, <1>s, <1>b, <2>1, BarredFrame
<1>9. ASSUME NEW w \in Workers, NEW S \in SUBSET intents, Stop(w, S) PROVE Barred'
  <2>1. UNCHANGED <<attempt, barred, intents>> /\ status' = Cancelled({w})
    BY <1>9, <1>t, StopOp
  <2>2. \A k \in Jobs : status[k] # "queued" => status'[k] = status[k]
    BY <2>1 DEF Cancelled
  <2> QED
    BY <1>t, <1>s, <1>b, <2>1, <2>2, BarredFrame
<1>10. CASE \E ok \in BOOLEAN : FinishStop(ok)
  <2>1. UNCHANGED <<status, attempt, barred, intents>>
    BY <1>10, <1>t, FinishShape
  <2> QED
    BY <1>t, <1>s, <1>b, <2>1, BarredFrame
<1>11. CASE AckStop
  <2>1. UNCHANGED <<status, attempt, barred>> /\ intents' = intents \ op.serves
    BY <1>11 DEF AckStop
  <2>2. \A i \in intents \ intents' : i.kind # "interrupt"
    BY <2>1 DEF Barred
  <2> QED
    BY <1>t, <1>s, <1>b, <2>1, <2>2, BarredFrame
<1>12. CASE Halt \/ BeginClose \/ FinishClose \/ Crash \/ UNCHANGED vars
  <2>1. UNCHANGED <<status, attempt, barred, intents>>
    BY <1>12 DEF Halt, BeginClose, FinishClose, Crash, vars
  <2> QED
    BY <1>t, <1>s, <1>b, <2>1, BarredFrame
<1>13. CASE Restart
  <2>1. UNCHANGED <<attempt, barred, intents>>
        /\ \A k \in Jobs : status'[k] = IF status[k] = "running" THEN "interrupted" ELSE status[k]
    BY <1>13 DEF Restart
  <2> QED
    BY <1>t, <1>s, <1>b, <2>1, BarredFrame
<1> QED
  BY <1>1, <1>2, <1>3, <1>4, <1>5, <1>6, <1>7, <1>8, <1>9, <1>10, <1>11, <1>12, <1>13,
     <1>t, StepCases

-----------------------------------------------------------------------------
(***************************************************************************)
(* Permits.  A worker uses its machine from the claim of a job until its   *)
(* process is seen gone and its tasks are reaped.  Only a claim adds to    *)
(* the users, and the permits it counts cover all of them.                 *)
(***************************************************************************)

Using(w) == w \in alive \/ ~Idle(w) \/ \E j \in op.claimed : Of[j] = w
Used(m)  == {w \in Workers : Machine[w] = m /\ Using(w)}

Permitted == up => \A m \in Machines : Cardinality(Used(m)) <= Procs[m]

\* A step that adds no user keeps to the permits.
LEMMA FewerUsers ==
  ASSUME Permitted, up, \A w \in Workers : Using(w)' => Using(w)
  PROVE  Permitted'
<1>1. ASSUME NEW m \in Machines PROVE Cardinality(Used(m)') <= Procs[m]
  <2>1. Used(m)' \subseteq Used(m) /\ Used(m) \subseteq Workers
    BY DEF Used
  <2>2. IsFiniteSet(Used(m)) /\ IsFiniteSet(Workers)
    BY <2>1, FS_Subset, SupervisorAssumption
  <2>3. Cardinality(Used(m)') <= Cardinality(Used(m))
    BY <2>1, <2>2, FS_Subset
  <2>4. Cardinality(Used(m)') \in Nat /\ Cardinality(Used(m)) \in Nat /\ Procs[m] \in Nat
    BY <2>1, <2>2, FS_Subset, FS_CardinalityType, SupervisorAssumption
  <2> QED
    BY <2>3, <2>4 DEF Permitted
<1> QED
  BY <1>1 DEF Permitted

\* Every step keeps to the permits.
LEMMA PermittedStep == Rows /\ Pool /\ Permitted /\ [Next]_vars => Permitted'
<1> SUFFICES ASSUME Rows, Pool, Permitted, [Next]_vars PROVE Permitted'
  OBVIOUS
<1>t. Types /\ TypeOK /\ Owned /\ Snapshot
  BY DEF Rows, Types
<1>o. op \in Ops
  BY <1>t DEF TypeOK
<1>w. \A k \in Jobs : Of[k] \in Workers
  BY SupervisorAssumption
<1>n. NoOp.claimed = {} /\ NoOp.kind = "none" /\ NoTask.step = "none"
  BY DEF NoOp, NoTask
<1>1. CASE RowStep
  <2>1. UNCHANGED <<task, alive, op, up>>
    BY <1>1, <1>t, RowShape
  <2>2. \A w \in Workers : Using(w)' => Using(w)
    BY <2>1 DEF Using, Idle
  <2> QED
    BY <2>1, <2>2, FewerUsers DEF Permitted
<1>2. CASE ReapStep
  <2>1. /\ up /\ op.kind = "none" /\ alive' \subseteq alive
        /\ \A j \in Jobs : task'[j].step = IF task[j].step = "over" THEN "none" ELSE task[j].step
    BY <1>2, <1>t, ReapShape, StepsAfter
  <2>2. op'.claimed = {}
    BY <1>2, <1>t, <2>1, ReapOp DEF Owned
  <2>3. \A w \in Workers : Using(w)' => Using(w)
    BY <2>1, <2>2 DEF Using, Idle
  <2> QED
    BY <2>1, <2>3, FewerUsers
<1>3. CASE LookStep
  <2>1. op.kind = "schedule" /\ op.claimed = {} /\ UNCHANGED task /\ alive' \subseteq alive
    BY <1>3, <1>t, LookShape
  <2>2. op'.claimed = {}
    <3>1. ASSUME NEW S, op' = [op EXCEPT !.todo = S] PROVE op'.claimed = op.claimed
      BY <1>o, <3>1 DEF Ops
    <3> QED
      BY <1>3, <1>t, <1>n, <2>1, <3>1, LookShape
  <2>3. up
    BY <1>t, <1>n, <2>1 DEF Owned
  <2>4. \A w \in Workers : Using(w)' => Using(w)
    BY <2>1, <2>2 DEF Using, Idle
  <2> QED
    BY <2>3, <2>4, FewerUsers
<1>4. ASSUME NEW j \in Jobs, TaskStep(j) PROVE Permitted'
  <2>1. /\ \A k \in Jobs : k # j => task'[k] = task[k]
        /\ task[j].step # "none" /\ alive' \subseteq alive \cup {Of[j]} /\ UNCHANGED op
    BY <1>4, <1>t, TaskShape
  <2>2. up
    BY <1>t, <1>n, <2>1 DEF Owned
  <2>3. \A w \in Workers : Using(w)' => Using(w)
    BY <2>1 DEF Using, Idle
  <2> QED
    BY <2>2, <2>3, FewerUsers
<1>5. ASSUME NEW j \in Jobs, Claim(j) PROVE Permitted'
  <2> DEFINE w == Of[j]
  <2>0. w \in Workers
    BY <1>w
  <2>1. op.kind = "schedule" /\ op.claimed = {} /\ up /\ UNCHANGED <<task, alive, up>>
    BY <1>5, <1>t, ClaimShape
  <2>2. op'.claimed \subseteq {j} /\ (op'.claimed # {} => Usable(w) /\ RoomFor(w) /\ Idle(w))
    <3>1. \/ op' = [op EXCEPT !.claimed = {j}] /\ Usable(w) /\ RoomFor(w) /\ Idle(w)
          \/ op' = [op EXCEPT !.todo = op.todo \ {Head}]
      BY <1>5, <1>t, ClaimShape
    <3>2. (op'.claimed = {j} /\ Usable(w) /\ RoomFor(w) /\ Idle(w)) \/ op'.claimed = op.claimed
      BY <1>o, <3>1 DEF Ops
    <3> QED
      BY <2>1, <3>2
  <2> HIDE DEF w
  <2>3. \A v \in Workers : v # w => (Using(v)' => Using(v))
    BY <2>1, <2>2 DEF Using, Idle, w
  <2>4. CASE Using(w)' => Using(w)
    BY <2>1, <2>3, <2>4, FewerUsers
  <2>5. CASE Using(w)' /\ ~Using(w)
    <3>1. Usable(w) /\ RoomFor(w) /\ w \notin alive
      BY <2>1, <2>2, <2>5 DEF Using, Idle
    <3>2. live[w] = "none" /\ Cardinality(Permits(w)) < Procs[Machine[w]]
      BY <3>1 DEF Usable, RoomFor
    <3>3. Used(Machine[w]) \subseteq Permits(w)
      <4>1. ASSUME NEW v \in Workers, Machine[v] = Machine[w], Using(v) PROVE v \in Permits(w)
        <5>1. v \in alive \/ v \in Engaged(task)
          BY <2>1, <4>1, EngagedIff DEF Using, Idle
        <5>2. live[v] # "none"
          BY <2>1, <5>1, EngagedIff DEF Pool
        <5> QED
          BY <4>1, <5>1, <5>2 DEF Permits, SameMachine
      <4> QED
        BY <4>1 DEF Used
    <3>4. Permits(w) \subseteq Workers /\ w \notin Permits(w)
      BY <3>2 DEF Permits, SameMachine
    <3>5. IsFiniteSet(Permits(w)) /\ Cardinality(Permits(w)) \in Nat
      BY <3>4, FS_Subset, FS_CardinalityType, SupervisorAssumption
    <3>6. Used(Machine[w])' \subseteq Permits(w) \cup {w}
      BY <2>3, <3>3 DEF Used
    <3>7. IsFiniteSet(Permits(w) \cup {w}) /\ Cardinality(Permits(w) \cup {w}) = Cardinality(Permits(w)) + 1
      BY <3>4, <3>5, FS_AddElement
    <3>8. Cardinality(Used(Machine[w])') <= Cardinality(Permits(w) \cup {w})
      BY <3>6, <3>7, FS_Subset
    <3>9. Cardinality(Used(Machine[w])') <= Procs[Machine[w]]
      <4>1. Cardinality(Used(Machine[w])') \in Nat
        BY <3>6, <3>7, FS_Subset, FS_CardinalityType
      <4>2. Procs[Machine[w]] \in Nat
        BY <2>0, SupervisorAssumption DEF Machines
      <4> QED
        BY <3>2, <3>5, <3>7, <3>8, <4>1, <4>2
    <3>10. ASSUME NEW m \in Machines, m # Machine[w] PROVE Cardinality(Used(m)') <= Procs[m]
      <4>1. Used(m)' \subseteq Used(m) /\ Used(m) \subseteq Workers
        BY <2>3, <3>10 DEF Used
      <4>2. IsFiniteSet(Used(m)) /\ Cardinality(Used(m)') <= Cardinality(Used(m))
        BY <4>1, FS_Subset, SupervisorAssumption
      <4>3. Cardinality(Used(m)') \in Nat /\ Cardinality(Used(m)) \in Nat /\ Procs[m] \in Nat
        BY <4>1, <4>2, FS_Subset, FS_CardinalityType, SupervisorAssumption
      <4> QED
        BY <2>1, <4>2, <4>3 DEF Permitted
    <3> QED
      BY <3>9, <3>10 DEF Permitted
  <2> QED
    BY <2>4, <2>5
<1>6. ASSUME NEW j \in Jobs, Launch(j) PROVE Permitted'
  <2>1. /\ op.claimed = {j} /\ UNCHANGED alive /\ task' = [task EXCEPT ![j] = NewTask]
        /\ op' = [op EXCEPT !.claimed = {}, !.todo = op.todo \ {j}, !.seen = op.seen \cup {j}]
    BY <1>6 DEF Launch
  <2>2. op'.claimed = {} /\ \A k \in Jobs : k # j => task'[k] = task[k]
    BY <1>o, <1>t, <2>1 DEF Ops, TypeOK
  <2>3. up
    BY <1>t, <1>n, <2>1 DEF Owned
  <2>4. \A w \in Workers : Using(w)' => Using(w)
    BY <2>1, <2>2 DEF Using, Idle
  <2> QED
    BY <2>3, <2>4, FewerUsers
<1>7. ASSUME NEW j \in Jobs, RefuseJob(j) PROVE Permitted'
  <2>1. /\ op.claimed = {j} /\ UNCHANGED <<alive, task>> /\ op' = [op EXCEPT !.claimed = {}, !.todo = op.todo \ {j}]
    BY <1>7 DEF RefuseJob
  <2>2. op'.claimed = {}
    BY <1>o, <2>1 DEF Ops
  <2>3. up
    BY <1>t, <1>n, <2>1 DEF Owned
  <2>4. \A w \in Workers : Using(w)' => Using(w)
    BY <2>1, <2>2 DEF Using, Idle
  <2> QED
    BY <2>3, <2>4, FewerUsers
<1>8. ASSUME NEW w \in Workers, IdleExit(w) \/ Outdate(w) PROVE Permitted'
  <2>1. UNCHANGED <<task, op, up>> /\ alive' \subseteq alive
    BY <1>8 DEF IdleExit, Outdate
  <2>2. \A v \in Workers : Using(v)' => Using(v)
    BY <2>1 DEF Using, Idle
  <2> QED
    BY <2>1, <2>2, FewerUsers DEF Permitted
<1>9. ASSUME NEW w \in Workers, NEW S \in SUBSET intents, Stop(w, S) PROVE Permitted'
  <2>1. task' = Signalled(task, w, "stop") /\ up /\ UNCHANGED alive /\ op'.claimed = {}
    BY <1>9, <1>t, StopOp
  <2>2. \A j \in Jobs : task'[j].step = task[j].step
    BY <1>t, <2>1, StepsAfter
  <2>3. \A v \in Workers : Using(v)' => Using(v)
    BY <2>1, <2>2 DEF Using, Idle
  <2> QED
    BY <2>1, <2>3, FewerUsers
<1>10. ASSUME NEW ok \in BOOLEAN, FinishStop(ok) PROVE Permitted'
  <2>1. /\ op.kind = "stop" /\ alive' \subseteq alive
        /\ \A j \in Jobs : task'[j] = task[j] \/ task'[j].step = "none"
        /\ op' = NoOp \/ op' = [op EXCEPT !.kind = "ack"]
    BY <1>10, <1>t, FinishShape
  <2>2. op'.claimed = {}
    BY <1>t, <1>o, <1>n, <2>1 DEF Ops, Owned
  <2>3. up
    BY <1>t, <1>n, <2>1 DEF Owned
  <2>4. \A w \in Workers : Using(w)' => Using(w)
    BY <2>1, <2>2 DEF Using, Idle
  <2> QED
    BY <2>3, <2>4, FewerUsers
<1>11. CASE AckStop \/ Halt
  <2>1. UNCHANGED <<task, alive, up>> /\ (op' = op \/ op' = NoOp)
    BY <1>11 DEF AckStop, Halt
  <2>2. \A w \in Workers : Using(w)' => Using(w)
    BY <1>n, <2>1 DEF Using, Idle
  <2> QED
    BY <2>1, <2>2, FewerUsers DEF Permitted
<1>12. CASE BeginClose
  <2>1. /\ up /\ UNCHANGED alive /\ op' = [NoOp EXCEPT !.kind = "close"]
        /\ \A j \in Jobs : task[j].step = "none" => task'[j] = task[j]
    BY <1>12 DEF BeginClose
  <2>2. op'.claimed = {}
    BY <2>1 DEF NoOp
  <2>3. \A w \in Workers : Using(w)' => Using(w)
    BY <2>1, <2>2 DEF Using, Idle
  <2> QED
    BY <2>1, <2>3, FewerUsers
<1>13. CASE FinishClose \/ Crash
  BY <1>13 DEF FinishClose, Crash, Down, Permitted
<1>14. CASE Restart
  <2>1. alive' = {} /\ op' = NoOp /\ task' = [j \in Jobs |-> NoTask]
    BY <1>14, <1>t DEF Restart, Owned
  <2>2. \A m : Used(m)' = {}
    BY <1>n, <2>1 DEF Used, Using, Idle
  <2>3. \A m \in Machines : Cardinality(Used(m)') <= Procs[m]
    BY <2>2, FS_EmptySet, SupervisorAssumption
  <2> QED
    BY <2>3 DEF Permitted
<1>15. CASE UNCHANGED vars
  <2>1. UNCHANGED <<task, alive, op, up>>
    BY <1>15 DEF vars
  <2>2. \A w \in Workers : Using(w)' => Using(w)
    BY <2>1 DEF Using, Idle
  <2> QED
    BY <2>1, <2>2, FewerUsers DEF Permitted
<1> QED
  BY <1>1, <1>2, <1>3, <1>4, <1>5, <1>6, <1>7, <1>8, <1>9, <1>10, <1>11, <1>12, <1>13, <1>14,
     <1>15, <1>t, StepCases

-----------------------------------------------------------------------------
(***************************************************************************)
(* The theorems.                                                           *)
(***************************************************************************)

SupervisorInv == Rows /\ Pool /\ Stops /\ Barred /\ Permitted

\* The inductive invariant holds in every state of a running service.
LEMMA SupervisorHolds == Running => []SupervisorInv
<1>1. ASSUME NEW gone \in SUBSET Workers, InitWith(gone) PROVE SupervisorInv
  <2>1. op.claimed = {} /\ op.stopping = {} /\ op.serves = {} /\ op.kind = "none"
    BY <1>1 DEF InitWith, NoOp
  <2>2. /\ \A j \in Jobs : task[j].step = "none" /\ ~task[j].closed
        /\ alive = {} /\ confirmed = {} /\ barred = {} /\ intents = {}
    BY <1>1 DEF InitWith, NoTask
  <2>3. Rows
    BY <1>1, RowsInit
  <2>4. Pool /\ Stops /\ Barred
    BY <2>1, <2>2 DEF Pool, Stops, Barred, InterruptsHold
  <2>5. \A m : Used(m) = {}
    BY <2>1, <2>2 DEF Used, Using, Idle
  <2>6. Permitted
    BY <2>5, FS_EmptySet, SupervisorAssumption DEF Permitted
  <2> QED
    BY <2>3, <2>4, <2>6 DEF SupervisorInv
<1>2. SupervisorInv /\ [Next]_vars => SupervisorInv'
  BY RowsStep, PoolStep, StopsStep, BarredStep, PermittedStep DEF SupervisorInv
<1>3. (\E gone \in SUBSET Workers : InitWith(gone)) => SupervisorInv
  BY <1>1
<1> QED
  BY <1>2, <1>3, PTL DEF Running

-----------------------------------------------------------------------------
(***************************************************************************)
(* The rows keep the promise of JobLedger.  The invariant above says why:  *)
(* a task that completes has its running row, and no snapshot is too old.  *)
(***************************************************************************)

\* A worker's slot is one of its machine's.
Bound == \A w \in Workers : slot[w] = 0 \/ slot[w] \in 1..Slots[Machine[w]]

\* How a step that starts no job may move a row.
Settles(j) ==
  \/ status'[j] = status[j]
  \/ status[j] = "absent" /\ status'[j] = "queued" /\ Of[j] \notin stopped
  \/ status[j] = "running" /\ status'[j] \in Ended
  \/ status[j] = "running" /\ status'[j] = "queued" /\ attempt[j] = 1
  \/ status[j] = "queued" /\ status'[j] = "cancelled" /\ Of[j] \in stopped'

\* The types of the ledger's rows are the supervisor's.
LEMMA LedgerTypes ==
  ASSUME Types, Types'
  PROVE  /\ status' \in [Jobs -> {"absent", "queued", "running"} \cup Ledger!Ended]
         /\ attempt' \in [Jobs -> 0..2] /\ slot' \in [Workers -> Nat] /\ stopped' \subseteq Workers
         /\ Ended = Ledger!Ended
  BY DEF Types, TypeOK, Statuses, Ended, Ledger!Ended

\* Such a step, of however many jobs at once, is one of the ledger's.
LEMMA SettlesImplement ==
  ASSUME Types, Types', UNCHANGED <<attempt, slot>>, stopped \subseteq stopped', \A j \in Jobs : Settles(j)
  PROVE  Ledger!Next
<1>1. ASSUME NEW j \in Jobs
      PROVE  \/ Ledger!Queue(j) \/ Ledger!End(j) \/ Ledger!Retry(j) \/ Ledger!Cancel(j)
             \/ status'[j] = status[j] /\ Ledger!Again(j)
  BY LedgerTypes DEF Settles, Ledger!Queue, Ledger!End, Ledger!Retry, Ledger!Cancel, Ledger!Moves,
                     Ledger!Again
<1> QED
  BY <1>1, LedgerTypes DEF Ledger!Next

\* A stop cancels the queued jobs of its worker and no other.
LEMMA CancelledSettles ==
  ASSUME NEW S, S \subseteq stopped', status' \in {status, Cancelled(S)}, DOMAIN status = Jobs,
         NEW j \in Jobs
  PROVE  Settles(j)
  BY DEF Cancelled, Settles

\* A claim that succeeds starts the job alone in its worker's slot.
LEMMA ClaimStarts ==
  ASSUME Rows, Rows', Bound, NEW j \in Jobs, Claim(j), attempt' # attempt
  PROVE  Ledger!Next /\ Bound'
<1>t. /\ status \in [Jobs -> Statuses] /\ attempt \in [Jobs -> 0..2] /\ slot \in [Workers -> Nat]
      /\ Of[j] \in Workers /\ Types /\ Types' /\ Owned /\ Snapshot /\ SlotExclusive'
  BY SupervisorAssumption DEF Rows, Types, TypeOK
<1>1. /\ status[j] = "queued" /\ Of[j] \notin stopped /\ stopped' = stopped
      /\ status' = [status EXCEPT ![j] = "running"] /\ attempt' = [attempt EXCEPT ![j] = @ + 1]
  BY <1>t, ClaimShape
<1>2. PICK n \in SlotsFor(Of[j]) : slot' = [slot EXCEPT ![Of[j]] = n]
  BY <1>1 DEF Claim
<1>3. n \in 1..Slots[Machine[Of[j]]] /\ (slot[Of[j]] \in 1..Slots[Machine[Of[j]]] => n = slot[Of[j]])
  BY DEF SlotsFor
<1>4. /\ slot[Of[j]] # 0 => slot' = slot
      /\ slot'[Of[j]] = n /\ \A w \in Workers : w # Of[j] => slot'[w] = slot[w]
  BY <1>t, <1>2, <1>3 DEF Bound
<1>5. Bound'
  BY <1>3, <1>4 DEF Bound
<1>6. Ledger!Start(j)
  <2>1. Ledger!Alone(j)
    BY <1>t, <1>1 DEF SlotExclusive, Ledger!Alone
  <2> QED
    BY <1>t, <1>1, <2>1 DEF Ledger!Start, Ledger!Moves
<1>7. \A k \in Jobs : k # j => status'[k] = status[k] /\ Ledger!Again(k)
  BY <1>t, <1>1 DEF Ledger!Again
<1>8. \A w \in Workers : Ledger!Bind(w) \/ slot'[w] = slot[w]
  BY <1>3, <1>4, <1>6 DEF Ledger!Bind
<1> QED
  BY <1>t, <1>1, <1>5, <1>6, <1>7, <1>8, LedgerTypes DEF Ledger!Next

\* Every step of the supervisor is one of the ledger's, or leaves its rows.
LEMMA LedgerStep ==
  ASSUME Rows, Rows', Bound, [Next]_vars
  PROVE  [Ledger!Next]_(Ledger!ledgerVars) /\ Bound'
<1>t. /\ Types /\ Types' /\ TypeOK /\ Owned /\ Snapshot /\ DOMAIN status = Jobs
      /\ \A j \in Jobs : Of[j] \in Workers
  BY SupervisorAssumption DEF Rows, Types, TypeOK
<1>q. ASSUME UNCHANGED rowVars PROVE [Ledger!Next]_(Ledger!ledgerVars) /\ Bound'
  BY <1>q DEF Bound, Ledger!ledgerVars
<1>s. ASSUME UNCHANGED <<attempt, slot>>, stopped \subseteq stopped', \A j \in Jobs : Settles(j)
      PROVE  [Ledger!Next]_(Ledger!ledgerVars) /\ Bound'
  BY <1>s, <1>t, SettlesImplement DEF Bound
<1>1. CASE RowStep
  <2>1. UNCHANGED <<attempt, slot>> /\ stopped \subseteq stopped'
    BY <1>1, <1>t, RowShape
  <2>2. ASSUME NEW k \in Jobs, Enqueue(k) PROVE \A j \in Jobs : Settles(j)
    BY <2>2, <1>t DEF Enqueue, Settles
  <2>3. ASSUME NEW w \in Workers, ParentControl("stop", w) \/ ParentControl("interrupt", w)
        PROVE  \A j \in Jobs : Settles(j)
    <3>1. \/ status' = status
          \/ {w} \subseteq stopped' /\ status' = Cancelled({w})
      BY <2>3 DEF ParentControl
    <3>2. CASE status' = status
      BY <3>2 DEF Settles
    <3>3. CASE {w} \subseteq stopped' /\ status' = Cancelled({w})
      BY <1>t, <3>3, CancelledSettles
    <3> QED
      BY <3>1, <3>2, <3>3
  <2>4. ASSUME Pause \/ CloseThread \/ Restore PROVE \A j \in Jobs : Settles(j)
    BY <2>4 DEF Pause, CloseThread, Restore, Settles
  <2> QED
    BY <1>1, <1>s, <2>1, <2>2, <2>3, <2>4 DEF RowStep
<1>2. CASE ReapStep
  <2>1. UNCHANGED <<status, attempt, slot, stopped>>
    BY <1>2, <1>t, ReapShape
  <2> QED
    BY <2>1 DEF Bound, Ledger!ledgerVars
<1>3. CASE LookStep
  BY <1>3, <1>t, <1>q, LookShape
<1>4. ASSUME NEW j \in Jobs, TaskStep(j) PROVE [Ledger!Next]_(Ledger!ledgerVars) /\ Bound'
  <2>1. UNCHANGED <<attempt, slot>> /\ task[j].step \notin {"none", "over"}
    BY <1>4, <1>t, TaskShape
  <2>2. status[j] = "running"
    BY <1>t, <2>1 DEF Owned, Busy
  <2>3. CASE TaskComplete(j)
    <3>1. PICK s \in Completion(j) :
            /\ status' = [status EXCEPT ![j] = s]
            /\ stopped' = IF Of[j] \in Ephemeral /\ s # "queued" THEN stopped \cup {Of[j]} ELSE stopped
      BY <2>3 DEF TaskComplete
    <3>2. s \in Ended \/ (s = "queued" /\ attempt[j] = 1)
      BY DEF Completion, Statuses, Ended
    <3>3. stopped \subseteq stopped' /\ \A k \in Jobs : Settles(k)
      BY <1>t, <2>2, <3>1, <3>2 DEF Settles
    <3> QED
      BY <1>s, <2>1, <3>3
  <2>4. CASE UNCHANGED <<status, stopped>>
    BY <2>1, <2>4 DEF Bound, Ledger!ledgerVars
  <2> QED
    BY <1>4, <1>t, <2>3, <2>4, TaskShape
<1>5. ASSUME NEW j \in Jobs, Claim(j) PROVE [Ledger!Next]_(Ledger!ledgerVars) /\ Bound'
  <2>1. CASE attempt' # attempt
    BY <1>5, <2>1, ClaimStarts
  <2>2. CASE attempt' = attempt
    <3>1. status' \in {status, Cancelled({Of[j]})} /\ UNCHANGED <<slot, stopped>>
          /\ (status' # status => Of[j] \in stopped)
      <4>1. Claimable(j) /\ Of[j] \notin stopped => attempt'[j] = attempt[j] + 1 /\ attempt[j] \in Nat
        BY <1>5, <1>t DEF Claim, Claimable, TypeOK
      <4>2. ~(Claimable(j) /\ Of[j] \notin stopped)
        BY <2>2, <4>1
      <4> QED
        BY <1>5, <4>2 DEF Claim
    <3>2. \A k \in Jobs : Settles(k)
      <4>1. CASE status' = status
        BY <4>1 DEF Settles
      <4>2. CASE status' # status
        BY <1>t, <3>1, <4>2, CancelledSettles
      <4> QED
        BY <4>1, <4>2
    <3> QED
      BY <1>s, <2>2, <3>1, <3>2
  <2> QED
    BY <2>1, <2>2
<1>6. ASSUME NEW j \in Jobs, RefuseJob(j) PROVE [Ledger!Next]_(Ledger!ledgerVars) /\ Bound'
  <2>1. /\ UNCHANGED <<attempt, slot>> /\ stopped \subseteq stopped' /\ op.claimed = {j}
        /\ status' = [status EXCEPT ![j] = "failed"]
    BY <1>6 DEF RefuseJob
  <2>2. status[j] = "running"
    BY <1>t, <2>1 DEF Owned
  <2>3. \A k \in Jobs : Settles(k)
    BY <1>t, <2>1, <2>2 DEF Settles, Ended, Statuses
  <2> QED
    BY <1>s, <2>1, <2>3
<1>7. ASSUME NEW w \in Workers, NEW S \in SUBSET intents, Stop(w, S)
      PROVE  [Ledger!Next]_(Ledger!ledgerVars) /\ Bound'
  <2>1. stopped' = stopped \cup {w} /\ status' = Cancelled({w}) /\ UNCHANGED <<attempt, slot>>
    BY <1>7 DEF Stop
  <2>2. {w} \subseteq stopped'
    BY <2>1
  <2>3. \A k \in Jobs : Settles(k)
    BY <1>t, <2>1, <2>2, CancelledSettles
  <2> QED
    BY <1>s, <2>1, <2>3
<1>8. CASE Restart
  <2>1. \A k \in Jobs : Settles(k)
    BY <1>8 DEF Restart, Settles, Ended, Statuses
  <2> QED
    BY <1>8, <1>s, <2>1 DEF Restart
<1>9. CASE \/ \E j \in Jobs : Launch(j)
           \/ \E w \in Workers : IdleExit(w) \/ Outdate(w)
           \/ \E ok \in BOOLEAN : FinishStop(ok)
           \/ Halt \/ BeginClose \/ FinishClose \/ Crash \/ UNCHANGED vars
  <2>1. ASSUME NEW ok \in BOOLEAN, FinishStop(ok) PROVE UNCHANGED rowVars
    BY <2>1 DEF FinishStop
  <2>2. ASSUME NEW j \in Jobs, Launch(j) PROVE UNCHANGED rowVars
    BY <2>2 DEF Launch
  <2>4. ASSUME NEW w \in Workers, IdleExit(w) \/ Outdate(w) PROVE UNCHANGED rowVars
    BY <2>4 DEF IdleExit, Outdate
  <2>3. ASSUME Halt \/ BeginClose \/ FinishClose \/ Crash \/ UNCHANGED vars PROVE UNCHANGED rowVars
    BY <2>3 DEF Halt, BeginClose, FinishClose, Crash, vars
  <2> QED
    BY <1>9, <1>q, <2>1, <2>2, <2>3, <2>4
<1>10. CASE AckStop
  BY <1>10 DEF AckStop, Bound, Ledger!ledgerVars
<1> QED
  BY <1>1, <1>2, <1>3, <1>4, <1>5, <1>6, <1>7, <1>8, <1>9, <1>10, <1>t, StepCases

\* The rows keep the promise of JobLedger, whatever pass, task, stop, crash or
\* recovery moves them: no late completion, claim or retry breaks a job's life.
THEOREM SupervisorImplementsJobLedger == Running => ImplementsJobLedger
<1>1. ASSUME NEW gone \in SUBSET Workers, InitWith(gone) PROVE Ledger!Init /\ Bound
  BY <1>1 DEF InitWith, Ledger!Init, Bound
<1>2. (\E gone \in SUBSET Workers : InitWith(gone)) => Ledger!Init /\ Bound
  BY <1>1
<1>3. SupervisorInv => Rows
  BY DEF SupervisorInv
<1>4. Rows /\ Rows' /\ Bound /\ [Next]_vars => [Ledger!Next]_(Ledger!ledgerVars) /\ Bound'
  BY LedgerStep
<1> QED
  BY <1>2, <1>3, <1>4, SupervisorHolds, PTL DEF Running, ImplementsJobLedger, Ledger!Spec

\* What a job ended as is never rewritten, and no job of a stopped worker
\* starts, whatever was under way when it ended or when the stop came.
THEOREM EndsAreFinal ==
  Running => [][\A j \in Jobs : /\ status[j] \in Ended => status'[j] = status[j]
                                /\ Of[j] \in stopped /\ status'[j] = "running" => status[j] = "running"]_vars
<1> DEFINE Final == \A j \in Jobs : /\ status[j] \in Ended => status'[j] = status[j]
                                    /\ Of[j] \in stopped /\ status'[j] = "running" => status[j] = "running"
<1>1. Ledger!Next => Final
  <2>1. ASSUME Ledger!Next, NEW j \in Jobs
        PROVE  /\ status[j] \in Ended => status'[j] = status[j]
               /\ Of[j] \in stopped /\ status'[j] = "running" => status[j] = "running"
    <3>1. \/ Ledger!Queue(j) \/ Ledger!Start(j) \/ Ledger!End(j) \/ Ledger!Retry(j) \/ Ledger!Cancel(j)
          \/ status'[j] = status[j]
      BY <2>1 DEF Ledger!Next
    <3> QED
      BY <3>1 DEF Ledger!Queue, Ledger!Start, Ledger!End, Ledger!Retry, Ledger!Cancel, Ledger!Moves,
                  Ledger!Ended, Ended, Statuses
  <2> QED
    BY <2>1
<1>2. UNCHANGED Ledger!ledgerVars => Final
  BY DEF Ledger!ledgerVars
<1>3. [Ledger!Next]_(Ledger!ledgerVars) => [Final]_vars
  BY <1>1, <1>2
<1> HIDE DEF Final
<1>4. Running => [][Final]_vars
  BY <1>3, SupervisorImplementsJobLedger, PTL DEF ImplementsJobLedger, Ledger!Spec
<1> QED
  BY <1>4 DEF Final

\* Tasks own their jobs: complete_job never meets a row that someone else
\* ended, and while passes run a running row has its task or its launch.
THEOREM TasksAlwaysOwn == Running => []TasksOwnJobs
<1>1. SupervisorInv => TasksOwnJobs
  BY DEF SupervisorInv, Rows, Owned, Busy, TasksOwnJobs
<1> QED
  BY <1>1, SupervisorHolds, PTL

\* Two running jobs never share a worker, or a slot of a machine.
THEOREM SlotsAlwaysExclusive == Running => []SlotExclusive
<1>1. SupervisorInv => SlotExclusive
  BY DEF SupervisorInv, Rows
<1> QED
  BY <1>1, SupervisorHolds, PTL

\* An acknowledged stop is true and stays true.
THEOREM StopsAlwaysConfirmed == Running => []StopConfirmed
<1>1. SupervisorInv => StopConfirmed
  BY EngagedIff DEF SupervisorInv, Stops, Gone, Idle, StopConfirmed
<1> QED
  BY <1>1, SupervisorHolds, PTL

\* An attempt the parent interrupted is never run again, and its intent stays
\* pending as long as that attempt runs.
THEOREM InterruptsAlwaysHold == Running => []InterruptsHold
<1>1. SupervisorInv => InterruptsHold
  BY DEF SupervisorInv, Barred
<1> QED
  BY <1>1, SupervisorHolds, PTL

\* A machine never runs more worker processes than max_workers.
THEOREM PermitsAlwaysKept == Running => []ProcessPermits
<1>1. ASSUME SupervisorInv PROVE ProcessPermits
  <2>1. SUFFICES ASSUME up, NEW m \in Machines
                 PROVE  Cardinality({w \in alive : Machine[w] = m}) <= Procs[m]
    BY DEF ProcessPermits
  <2>2. {w \in alive : Machine[w] = m} \subseteq Used(m) /\ Used(m) \subseteq Workers
    BY <1>1 DEF SupervisorInv, Rows, Types, TypeOK, Used, Using
  <2>3. /\ IsFiniteSet(Used(m))
        /\ Cardinality({w \in alive : Machine[w] = m}) <= Cardinality(Used(m))
        /\ Cardinality({w \in alive : Machine[w] = m}) \in Nat /\ Cardinality(Used(m)) \in Nat
    BY <2>2, FS_Subset, FS_CardinalityType, SupervisorAssumption
  <2>4. Cardinality(Used(m)) <= Procs[m] /\ Procs[m] \in Nat
    BY <1>1, <2>1, SupervisorAssumption DEF SupervisorInv, Permitted
  <2> QED
    BY <2>3, <2>4
<1> QED
  BY <1>1, SupervisorHolds, PTL

\* The specification, in which no worker was stopped before, is a special case.
THEOREM SpecRuns == Spec => Running
  BY DEF Spec, Init, Running

=============================================================================
