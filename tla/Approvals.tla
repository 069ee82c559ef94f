------------------------------ MODULE Approvals ------------------------------
(***************************************************************************)
(* The broker between a worker that asks and the owner who decides         *)
(* (approvals/mod.rs).  Each request has a task of its own, which stores   *)
(* the request under the policy in force and polls its row until someone   *)
(* settles it: the owner, the timeout, a stopped worker, a reload.         *)
(*                                                                         *)
(* A configuration is a number, its policy is Policy[c].  The broker's     *)
(* mutex is held across awaits, so it is part of the state.                *)
(***************************************************************************)
EXTENDS Naturals, FiniteSets

CONSTANTS
    Requests,   \* approval requests of the workers
    Configs,    \* configurations, numbered
    Policy,     \* per configuration: ask, allow, deny, or gone (no workspace)
    Permits     \* capacity of the broker

ASSUME ApprovalConstants ==
    /\ Configs \subseteq Nat
    /\ "free" \notin Requests /\ "reload" \notin Requests
    /\ Policy \in [Configs -> {"ask", "allow", "deny", "gone"}]
    /\ Permits \in Nat

VARIABLES
    task,    \* the broker task of a request, or what it awaits
    row,     \* the stored approval
    under,   \* the configuration a row was stored under
    heard,   \* what the worker was told; gone when it stopped listening, lost when
             \* the task failed and its no is nobody's verdict
    late,    \* requests past their deadline
    config,  \* the broker's configuration
    mutex    \* who holds the broker's configuration: free, reload or a request

approvalVars == <<task, row, under, heard, late, config, mutex>>

Tasks == {"none", "locking", "storing", "polling", "expiring", "ended"}
Rows == {"none", "pending", "once", "session", "denied", "expired", "cancelled"}
Decisions == {"once", "session", "denied"}

Live == {r \in Requests : task[r] \notin {"none", "ended"}}

\* settle_approval and its kin: only a pending row is settled, once.
Settled(set, status) ==
    [r \in Requests |-> IF r \in set /\ row[r] = "pending" THEN status ELSE row[r]]

\* The answer a settled row stands for.
Answer(status) == IF status \in {"once", "session"} THEN status ELSE "denied"

\* A caller that went away hears nothing.
Hears(r, answer) == [heard EXCEPT ![r] = IF @ = "none" THEN answer ELSE @]

Ended(r) == [task EXCEPT ![r] = "ended"]

ApprovalsInit ==
    /\ task = [r \in Requests |-> "none"]
    /\ row = [r \in Requests |-> "none"]
    /\ under = [r \in Requests |-> 0]
    /\ heard = [r \in Requests |-> "none"]
    /\ late = {}
    /\ config = 0
    /\ mutex = "free"

-----------------------------------------------------------------------------
(* The worker's side.                                                      *)

\* Broker::request: without a permit the answer is no; otherwise the task
\* holds the permit until it ends.
Ask(r) ==
    /\ task[r] = "none"
    /\ \/ /\ Cardinality(Live) < Permits
          /\ task' = [task EXCEPT ![r] = "locking"]
          /\ UNCHANGED heard
       \/ /\ Cardinality(Live) >= Permits
          /\ task' = Ended(r)
          /\ heard' = Hears(r, "denied")
    /\ UNCHANGED <<row, under, late, config, mutex>>

\* The job ends or is interrupted while its request is open.
CallerGoes(r) ==
    /\ r \in Live /\ heard[r] = "none"
    /\ heard' = [heard EXCEPT ![r] = "gone"]
    /\ UNCHANGED <<task, row, under, late, config, mutex>>

\* Broker::cancel, from the task of a worker that is stopped or retired.
CancelWorker(r) ==
    /\ row[r] = "pending"
    /\ row' = Settled({r}, "cancelled")
    /\ UNCHANGED <<task, under, heard, late, config, mutex>>

-----------------------------------------------------------------------------
(* Broker::run.                                                            *)

\* The policy is read under the mutex, which is kept until the row is stored.
ReadPolicyUnlocked(r) ==
    /\ task[r] = "locking"
    /\ task' = [task EXCEPT ![r] = "storing"]
    /\ under' = [under EXCEPT ![r] = config]
    /\ UNCHANGED <<row, heard, late, config, mutex>>
ReadPolicy(r) ==
    /\ task[r] = "locking" /\ mutex = "free"
    /\ \/ /\ Policy[config] = "gone"
          /\ task' = Ended(r)
          /\ heard' = Hears(r, "denied")
          /\ UNCHANGED <<under, mutex>>
       \/ /\ Policy[config] # "gone"
          /\ task' = [task EXCEPT ![r] = "storing"]
          /\ under' = [under EXCEPT ![r] = config]
          /\ mutex' = r
          /\ UNCHANGED heard
    /\ UNCHANGED <<row, late, config>>

\* begin_approval stores the request, answered at once when the policy does.
Store(r) ==
    /\ task[r] = "storing"
    /\ mutex' = IF mutex = r THEN "free" ELSE mutex
    /\ \/ /\ Policy[under[r]] = "ask"
          /\ row' = [row EXCEPT ![r] = "pending"]
          /\ task' = [task EXCEPT ![r] = "polling"]
          /\ UNCHANGED heard
       \/ /\ Policy[under[r]] # "ask"
          /\ row' = [row EXCEPT ![r] = IF Policy[under[r]] = "allow" THEN "once" ELSE "denied"]
          /\ task' = Ended(r)
          /\ heard' = Hears(r, row'[r])
    /\ UNCHANGED <<under, late, config>>

Deadline(r) ==
    /\ row[r] = "pending" /\ r \notin late
    /\ late' = late \cup {r}
    /\ UNCHANGED <<task, row, under, heard, config, mutex>>

\* One round of the loop: a caller that left, a settled row, a deadline.
PollEndsLate(r) ==
    /\ task[r] = "polling"
    /\ \/ /\ row[r] # "pending"
          /\ heard' = Hears(r, Answer(row[r]))
       \/ /\ row[r] = "pending" /\ r \in late
          /\ heard' = Hears(r, "denied")
    /\ task' = Ended(r)
    /\ UNCHANGED <<row, under, late, config, mutex>>
Poll(r) ==
    /\ task[r] = "polling"
    /\ \/ /\ heard[r] = "gone"
          /\ row' = Settled({r}, "cancelled")
          /\ task' = Ended(r)
          /\ UNCHANGED heard
       \/ /\ heard[r] # "gone" /\ row[r] # "pending"
          /\ heard' = Hears(r, Answer(row[r]))
          /\ task' = Ended(r)
          /\ UNCHANGED row
       \/ /\ heard[r] # "gone" /\ row[r] = "pending" /\ r \in late
          /\ task' = [task EXCEPT ![r] = "expiring"]
          /\ UNCHANGED <<row, heard>>
    /\ UNCHANGED <<under, late, config, mutex>>

\* The row was read as pending; the owner may have decided since, and then
\* the next round answers with that decision.
ExpireAnswers(r) ==
    /\ task[r] = "expiring"
    /\ row' = Settled({r}, "expired")
    /\ heard' = Hears(r, "denied")
    /\ task' = Ended(r)
    /\ UNCHANGED <<under, late, config, mutex>>
Expire(r) ==
    /\ task[r] = "expiring"
    /\ row' = Settled({r}, "expired")
    /\ task' = [task EXCEPT ![r] = "polling"]
    /\ UNCHANGED <<under, heard, late, config, mutex>>

\* A transaction fails and ends the task: the worker's reply is dropped, which
\* it takes for a no.  A stored row stays as it is.
TaskFails(r) ==
    /\ task[r] \in {"storing", "polling", "expiring"}
    /\ task' = Ended(r)
    /\ heard' = [heard EXCEPT ![r] = "lost"]
    /\ mutex' = IF mutex = r THEN "free" ELSE mutex
    /\ UNCHANGED <<row, under, late, config>>

-----------------------------------------------------------------------------
(* The owner's side.                                                       *)

\* Broker::decide takes the mutex for its transaction.
Decide(r, decision) ==
    /\ mutex = "free" /\ row[r] = "pending"
    /\ row' = Settled({r}, decision)
    /\ UNCHANGED <<task, under, heard, late, config, mutex>>

\* Broker::reconfigure: lock, cancel what the old policy left open, replace.
ReloadLock ==
    /\ mutex = "free"
    /\ mutex' = "reload"
    /\ UNCHANGED <<task, row, under, heard, late, config>>
ReloadCancel ==
    /\ row' = Settled(Requests, "cancelled")
    /\ UNCHANGED <<task, under, heard, late, config, mutex>>
ReloadSwap(c) ==
    /\ config' = c
    /\ mutex' = "free"
    /\ UNCHANGED <<task, row, under, heard, late>>

\* A crash ends the tasks; recover_jobs settles the rows of the jobs it
\* interrupts, and the broker starts with the configuration just loaded.
BrokerRestart(c) ==
    /\ row' = Settled(Requests, "cancelled")
    /\ task' = [r \in Requests |-> IF r \in Live THEN "ended" ELSE task[r]]
    /\ heard' = [r \in Requests |-> IF r \in Live THEN "gone" ELSE heard[r]]
    /\ config' = c
    /\ mutex' = "free"
    /\ UNCHANGED <<under, late>>

RequestStep(r) == ReadPolicy(r) \/ Store(r) \/ Poll(r) \/ Expire(r) \/ Deadline(r)

\* The life of the requests under one configuration.
ApprovalsNext ==
    \E r \in Requests :
       \/ Ask(r) \/ CallerGoes(r) \/ CancelWorker(r) \/ RequestStep(r) \/ TaskFails(r)
       \/ \E d \in Decisions : Decide(r, d)

-----------------------------------------------------------------------------
(* Properties.                                                             *)

ApprovalsTypeOK ==
    /\ task \in [Requests -> Tasks] /\ row \in [Requests -> Rows]
    /\ under \in [Requests -> Configs]
    /\ heard \in [Requests -> Decisions \cup {"none", "gone", "lost"}]
    /\ late \subseteq Requests /\ config \in Configs
    /\ mutex \in Requests \cup {"free", "reload"}

\* The worker hears the decision the store committed, whichever of the owner,
\* the timer, a stop or a reload came first ("Read that committed result on
\* the next pass" in Broker::run).
HeardIsCommitted ==
    \A r \in Requests :
        heard[r] \in Decisions /\ row[r] # "none" => heard[r] = Answer(row[r]) /\ row[r] # "pending"

\* The broker keeps the promise of Verdicts: a request's verdict is the answer
\* its settled row stands for, or the refusal of a request that got no row.  A
\* worker whose task failed was told none.
Verdict ==
    [r \in Requests |->
        IF row[r] \notin {"none", "pending"} THEN Answer(row[r])
        ELSE IF heard[r] \in Decisions THEN heard[r] ELSE "open"]
Told == [r \in Requests |-> IF heard[r] = "lost" THEN "gone" ELSE heard[r]]
Promise == INSTANCE Verdicts WITH verdict <- Verdict, told <- Told, Answers <- Decisions
ImplementsVerdicts == Promise!Spec

\* No request waits under a policy that was replaced: the broker's mutex
\* orders the store of a request and the reload (Broker::run, reconfigure).
NoStalePolicy ==
    \A r \in Requests : row[r] = "pending" => under[r] = config

=============================================================================
