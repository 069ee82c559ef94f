------------------------------- MODULE Calls -------------------------------
(***************************************************************************)
(* The subprocesses behind a parent call, a GitHub read and the probe of a *)
(* confined worker: exec/process.rs, with the login gate of parent/mod.rs, *)
(* the permits and the pause of github/client.rs and the probe permit of   *)
(* workers/jsonl.rs.                                                       *)
(*                                                                         *)
(* A caller may be dropped at any await.  A task of its own, the owner,    *)
(* survives it until the process is terminated, and keeps the permit.      *)
(***************************************************************************)
EXTENDS Naturals, FiniteSets

CONSTANTS
    Calls,
    Capacity,    \* per kind: how many processes run at once
    MaxTroubles  \* bound on failed starts and records, contentions, limits and
                 \* stuck processes

ASSUME CallConstants ==
    Capacity \in [{"github", "probe"} -> Nat] /\ MaxTroubles \in Nat

VARIABLES
    kind,      \* parent, github or probe
    stage,     \* where the caller is
    outcome,   \* what the process said
    permits,   \* the calls that hold a permit, or whose owner does
    owner,     \* the owner task
    leader,    \* the process: none, alive or exited
    heirs,     \* the calls whose process left children alive in its group
    killed,    \* the groups that were sent SIGKILL
    reaped,    \* Process::terminated
    open,      \* the login gate
    probing,   \* who holds the gate's probe: at most one call
    paused,    \* GitHub is paused by a rate limit
    troubles

processVars == <<owner, leader, heirs, killed, reaped>>
callVars == <<kind, stage, outcome, permits, processVars, open, probing, paused, troubles>>

Trouble == troubles < MaxTroubles /\ troubles' = troubles + 1
Step(c, to) == stage' = [stage EXCEPT ![c] = to]
Owner(c, to) == owner' = [owner EXCEPT ![c] = to]
Pooled(c) == kind[c] # "parent"
Says(c, what) == outcome' = [outcome EXCEPT ![c] = what]

-----------------------------------------------------------------------------
(* Before the process.                                                     *)

Request(c) ==
    /\ stage[c] = "none"
    /\ \E k \in {"parent"} \cup DOMAIN Capacity : kind' = [kind EXCEPT ![c] = k]
    /\ Step(c, "waiting")
    /\ UNCHANGED <<outcome, permits, processVars, open, probing, paused, troubles>>

\* LoginGate::enter, first look: an open gate lets everyone pass.
ReachGate(c) ==
    /\ stage[c] = "waiting" /\ kind[c] = "parent"
    /\ Step(c, IF open THEN "ready" ELSE "queued")
    /\ UNCHANGED <<kind, outcome, permits, processVars, open, probing, paused, troubles>>

\* The probe is free: look again, and go alone while the gate is closed.
TakeProbe(c) ==
    /\ stage[c] = "queued" /\ probing = {}
    /\ Step(c, "ready")
    /\ probing' = IF open THEN {} ELSE {c}
    /\ UNCHANGED <<kind, outcome, permits, processVars, open, paused, troubles>>

\* LOGIN_WAIT passes: the call goes without the gate.
WaitedOut(c) ==
    /\ stage[c] = "queued" /\ probing # {}
    /\ Step(c, "ready")
    /\ UNCHANGED <<kind, outcome, permits, processVars, open, probing, paused, troubles>>

\* Gh::run and SystemLauncher::admit: a permit, then for GitHub the
\* transaction that reads the pause.
TakePermit(c) ==
    /\ stage[c] = "waiting" /\ Pooled(c)
    /\ Cardinality({d \in permits : kind[d] = kind[c]}) < Capacity[kind[c]]
    /\ permits' = permits \cup {c}
    /\ Step(c, "permitted")
    /\ UNCHANGED <<kind, outcome, processVars, open, probing, paused, troubles>>

Admit(c) ==
    /\ stage[c] = "permitted"
    /\ \/ /\ kind[c] = "github" /\ paused
          /\ permits' = permits \ {c}
          /\ Step(c, "ended")
          /\ Says(c, "limited")
       \/ /\ ~(kind[c] = "github" /\ paused)
          /\ Step(c, "ready")
          /\ UNCHANGED <<permits, outcome>>
    /\ UNCHANGED <<kind, processVars, open, probing, paused, troubles>>

\* The call is not recorded: a parent's preparation, GitHub's transaction and
\* result, or the probe's command failed.  GitHub's pause stays as it was.
RecordFails(c) ==
    /\ \/ stage[c] = "waiting" /\ ~Pooled(c)
       \/ stage[c] = "permitted"
       \/ stage[c] = "returned" /\ kind[c] = "github"
    /\ Trouble
    /\ permits' = IF stage[c] = "permitted" THEN permits \ {c} ELSE permits
    /\ Step(c, "ended")
    /\ Says(c, "failed")
    /\ UNCHANGED <<kind, processVars, open, probing, paused>>

\* Process::start, and the owner task that takes the permit over.
Launch(c) ==
    /\ stage[c] = "ready"
    /\ \/ /\ Step(c, "running")
          /\ Owner(c, "communicating")
          /\ leader' = [leader EXCEPT ![c] = "alive"]
          /\ UNCHANGED <<outcome, permits, troubles>>
       \/ /\ Trouble
          /\ permits' = permits \ {c}
          /\ Step(c, "returned")
          /\ Says(c, "failed")
          /\ UNCHANGED <<owner, leader>>
    /\ UNCHANGED <<kind, heirs, killed, reaped, open, probing, paused>>

\* The caller's future is dropped: a stop, or a sweep that is cancelled.  A
\* process keeps its permit; a probe is given back without settling the gate.
CancelCall(c) ==
    /\ stage[c] \notin {"none", "ended", "gone"}
    /\ Step(c, "gone")
    /\ permits' = IF owner[c] = "none" THEN permits \ {c} ELSE permits
    /\ probing' = probing \ {c}
    /\ UNCHANGED <<kind, outcome, processVars, open, paused, troubles>>

-----------------------------------------------------------------------------
(* The process group.                                                      *)

Fork(c) ==
    /\ leader[c] = "alive" /\ c \notin killed \cup heirs
    /\ heirs' = heirs \cup {c}
    /\ UNCHANGED <<kind, stage, outcome, permits, owner, leader, killed, reaped, open, probing, paused,
                   troubles>>

LeaderExits(c) ==
    /\ leader[c] = "alive"
    /\ leader' = [leader EXCEPT ![c] = "exited"]
    /\ UNCHANGED <<kind, stage, outcome, permits, owner, heirs, killed, reaped, open, probing, paused,
                   troubles>>

HeirsExit(c) ==
    /\ c \in heirs
    /\ heirs' = heirs \ {c}
    /\ UNCHANGED <<kind, stage, outcome, permits, owner, leader, killed, reaped, open, probing, paused,
                   troubles>>

-----------------------------------------------------------------------------
(* The owner task of run_command.                                          *)

\* The caller is gone, the deadline passed, or the output is too long.
GiveUpProcess(c) ==
    /\ owner[c] = "communicating"
    /\ Owner(c, "terminating")
    /\ Says(c, "failed")
    /\ UNCHANGED <<kind, stage, permits, leader, heirs, killed, reaped, open, probing, paused, troubles>>

\* Process::wait: the exit of the leader kills what is left of its group.
ReapOnly(c) ==
    /\ owner[c] = "communicating" /\ leader[c] = "exited" /\ c \notin reaped
    /\ reaped' = reaped \cup {c}
    /\ UNCHANGED <<kind, stage, outcome, permits, owner, leader, heirs, killed, open, probing, paused,
                   troubles>>
Reap(c) ==
    /\ owner[c] = "communicating" /\ leader[c] = "exited" /\ c \notin reaped
    /\ killed' = killed \cup {c}
    /\ reaped' = reaped \cup {c}
    /\ UNCHANGED <<kind, stage, outcome, permits, owner, leader, heirs, open, probing, paused, troubles>>

\* The pipes end with the group: the output is complete.
Communicated(c) ==
    /\ owner[c] = "communicating" /\ c \in reaped /\ c \notin heirs
    /\ Owner(c, "terminating")
    /\ \/ Says(c, "answered") /\ UNCHANGED troubles
       \/ /\ Trouble
          /\ \E what \in {"contended", "limited", "failed"} :
                /\ what = "contended" => kind[c] = "parent"
                /\ Says(c, what)
    /\ UNCHANGED <<kind, stage, permits, leader, heirs, killed, reaped, open, probing, paused>>

\* Process::terminate: nothing is left to do for a reaped process; otherwise
\* SIGTERM, a grace and SIGKILL.
TerminateKindly(c) ==
    /\ owner[c] = "terminating"
    /\ c \in reaped \/ leader[c] = "exited"
    /\ Owner(c, "finished")
    /\ UNCHANGED <<kind, stage, outcome, permits, leader, heirs, killed, reaped, open, probing, paused,
                   troubles>>
Terminate(c) ==
    /\ owner[c] = "terminating"
    /\ \/ /\ c \in reaped
          /\ Owner(c, "finished")
          /\ UNCHANGED killed
       \/ /\ c \notin reaped
          /\ killed' = killed \cup {c}
          /\ Owner(c, "confirming")
    /\ UNCHANGED <<kind, stage, outcome, permits, leader, heirs, reaped, open, probing, paused, troubles>>

\* The leader is reaped, or its termination remains unconfirmed and dropping
\* the process kills the group once more.
Confirm(c) ==
    /\ owner[c] = "confirming"
    /\ \/ /\ leader[c] = "exited"
          /\ reaped' = reaped \cup {c}
          /\ UNCHANGED <<outcome, troubles>>
       \/ /\ leader[c] = "alive" /\ Trouble
          /\ Says(c, "failed")
          /\ UNCHANGED reaped
    /\ Owner(c, "finished")
    /\ UNCHANGED <<kind, stage, permits, leader, heirs, killed, open, probing, paused>>

\* The task ends: the permit is free and a caller that still waits hears.
OwnerEnds(c) ==
    /\ owner[c] = "finished"
    /\ Owner(c, "ended")
    /\ permits' = permits \ {c}
    /\ stage' = [stage EXCEPT ![c] = IF @ = "running" THEN "returned" ELSE @]
    /\ UNCHANGED <<kind, outcome, leader, heirs, killed, reaped, open, probing, paused, troubles>>

-----------------------------------------------------------------------------
(* After the process.                                                      *)

\* LoginGate::settle, then the probe is dropped; GitHub's result is recorded
\* with its pause.
SettleCall(c) ==
    /\ stage[c] = "returned"
    /\ Step(c, "ended")
    /\ open' = IF kind[c] = "parent" THEN outcome[c] # "contended" ELSE open
    /\ probing' = probing \ {c}
    /\ paused' = (paused \/ (kind[c] = "github" /\ outcome[c] = "limited"))
    /\ UNCHANGED <<kind, outcome, permits, processVars, troubles>>

PauseEnds ==
    /\ paused
    /\ paused' = FALSE
    /\ UNCHANGED <<kind, stage, outcome, permits, processVars, open, probing, troubles>>

-----------------------------------------------------------------------------
CallsInit ==
    /\ kind = [c \in Calls |-> "parent"]
    /\ stage = [c \in Calls |-> "none"] /\ outcome = [c \in Calls |-> "none"]
    /\ permits = {} /\ owner = [c \in Calls |-> "none"] /\ leader = [c \in Calls |-> "none"]
    /\ heirs = {} /\ killed = {} /\ reaped = {}
    /\ open = FALSE /\ probing = {} /\ paused = FALSE /\ troubles = 0

CallerStep(c) == ReachGate(c) \/ TakeProbe(c) \/ WaitedOut(c) \/ Admit(c) \/ Launch(c)
                 \/ SettleCall(c)
OwnerStep(c) == GiveUpProcess(c) \/ Reap(c) \/ Communicated(c) \/ Terminate(c) \/ Confirm(c)
                \/ OwnerEnds(c)
GroupDies(c) == c \in killed /\ (LeaderExits(c) \/ HeirsExit(c))

CallsNext ==
    \/ \E c \in Calls : \/ Request(c) \/ TakePermit(c) \/ CallerStep(c) \/ OwnerStep(c)
                        \/ CancelCall(c) \/ RecordFails(c) \/ Fork(c) \/ LeaderExits(c) \/ HeirsExit(c)
    \/ PauseEnds

\* Callers and owners run, deadlines pass, and SIGKILL ends a process.  A
\* permit that is freed again and again reaches a waiting call: the
\* semaphore's queue is fair.
CallsFair ==
    \A c \in Calls :
        /\ WF_callVars(CallerStep(c)) /\ WF_callVars(OwnerStep(c))
        /\ WF_callVars(GroupDies(c)) /\ SF_callVars(TakePermit(c))

CallsSpec == CallsInit /\ [][CallsNext]_callVars /\ CallsFair

-----------------------------------------------------------------------------
(* Properties.                                                             *)

\* The processes of a kind that were not killed never exceed its permits,
\* their children and the processes of dropped callers included (run_command:
\* "Queued work cannot reuse capacity while termination is pending").
Runs(c) == (leader[c] = "alive" \/ c \in heirs) /\ c \notin killed
GroupsBounded ==
    \A k \in DOMAIN Capacity :
        Cardinality({c \in Calls : kind[c] = k /\ Runs(c)}) =< Capacity[k]

\* Every call ends and leaves no process behind, whichever of the gate, the
\* permit, a hanging process, a forgotten child and a dropped caller it meets.
CallsEnd ==
    \A c \in Calls :
        stage[c] # "none" ~>
            /\ stage[c] \in {"ended", "gone"} /\ c \notin probing /\ c \notin permits
            /\ leader[c] # "alive" /\ c \notin heirs

=============================================================================
