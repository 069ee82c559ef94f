----------------------------- MODULE ConfigEdit -----------------------------
(***************************************************************************)
(* Editing the configuration while the daemon runs (threads/runtime.rs,    *)
(* threads/configuration.rs, config/editor.rs).  A live edit is prepared   *)
(* on the loaded file, journalled, renamed into place and adopted by the   *)
(* supervisor and the broker of Approvals; `fridica setup` edits the same  *)
(* file offline under the same lock file, and the owner's own editor takes *)
(* no lock.  A file's content is its number.                               *)
(***************************************************************************)
EXTENDS Approvals

CONSTANTS MaxContent, MaxFaults

ASSUME ConfigConstants ==
    MaxContent \in Nat /\ MaxFaults \in Nat /\ Configs = 0 .. MaxContent

VARIABLES
    disk,      \* the content of the file
    written,   \* how many contents were written
    author,    \* who wrote each content
    edits,     \* per Fridica writer: its step, the base it read, its content
    fileLock,  \* who holds the edit lock file
    journal,   \* the pending intent, or NoEdit
    loaded,    \* the runtime's snapshot
    inUse,     \* the supervisor's configuration
    up,        \* the daemon: up, stopped, loading, or refusing to start
    pass,      \* who holds the pass lock: free, sweep, edit or close
    state,     \* who holds the supervisor's state lock: free, edit, control
    faults

editVars == <<disk, written, author, edits, fileLock, journal, loaded, inUse, up, pass,
              state, faults>>
vars == <<approvalVars, editVars>>

Writers == {"live", "setup"}
NoEdit == [before |-> 0, after |-> 0]
Steps == {"idle", "prepare", "intent", "lock", "check", "rename", "adopt",
          "broker", "swap", "snapshot", "complete"}

At(w, step) == edits[w].at = step
Goto(w, step) == edits' = [edits EXCEPT ![w].at = step]

ConfigInit ==
    /\ ApprovalsInit
    /\ disk = 0 /\ written = 0 /\ author = [c \in Configs |-> "owner"]
    /\ edits = [w \in Writers |-> [at |-> "idle", base |-> 0, new |-> 0]]
    /\ fileLock = "free" /\ journal = NoEdit
    /\ loaded = 0 /\ inUse = 0 /\ up = "up" /\ pass = "free" /\ state = "free"
    /\ faults = 0

Fault == faults < MaxFaults /\ faults' = faults + 1

\* The owner's editor writes the file, at any moment.
OwnerEdit ==
    /\ Fault /\ written < MaxContent
    /\ written' = written + 1
    /\ disk' = written + 1
    /\ UNCHANGED <<approvalVars, author, edits, fileLock, journal, loaded, inUse, up, pass, state>>

-----------------------------------------------------------------------------
(* editor::replace, for the live edit and for `fridica setup`.             *)

\* try_lock_exclusive: another holder refuses the edit after twenty tries.
\* The live edit then leaves its intent to the next pass.
LockFileShared(w) ==
    /\ At(w, "lock")
    /\ Goto(w, "check")
    /\ UNCHANGED <<approvalVars, disk, written, author, fileLock, journal, loaded, inUse, up,
                   pass, state, faults>>
LockFile(w) ==
    /\ At(w, "lock")
    /\ \/ /\ fileLock = "free"
          /\ fileLock' = w
          /\ Goto(w, "check")
          /\ UNCHANGED pass
       \/ /\ fileLock # "free"
          /\ Goto(w, "idle")
          /\ pass' = IF w = "live" THEN "free" ELSE pass
          /\ UNCHANGED fileLock
    /\ UNCHANGED <<approvalVars, disk, written, author, journal, loaded, inUse, up, state, faults>>

\* The file must still be the one the edit was prepared on.
CheckNothing(w) ==
    /\ At(w, "check")
    /\ Goto(w, "rename")
    /\ UNCHANGED <<approvalVars, disk, written, author, fileLock, journal, loaded, inUse, up,
                   pass, state, faults>>
CheckFile(w) ==
    /\ At(w, "check")
    /\ \/ /\ disk = edits[w].base
          /\ Goto(w, "rename")
          /\ UNCHANGED <<fileLock, pass>>
       \/ /\ disk # edits[w].base
          /\ Goto(w, "idle")
          /\ fileLock' = "free"
          /\ pass' = IF w = "live" THEN "free" ELSE pass
    /\ UNCHANGED <<approvalVars, disk, written, author, journal, loaded, inUse, up, state, faults>>

Rename(w) ==
    /\ At(w, "rename")
    /\ disk' = edits[w].new
    /\ author' = [author EXCEPT ![edits[w].new] = w]
    /\ fileLock' = "free"
    /\ Goto(w, IF w = "live" THEN "adopt" ELSE "idle")
    /\ UNCHANGED <<approvalVars, written, journal, loaded, inUse, up, pass, state, faults>>

\* Draft::open reads the file; discovery and the owner's answers take time
\* before Draft::apply replaces it.
OpenDraft ==
    /\ At("setup", "idle") /\ written < MaxContent
    /\ written' = written + 1
    /\ edits' = [edits EXCEPT !["setup"] = [at |-> "lock", base |-> disk, new |-> written + 1]]
    /\ UNCHANGED <<approvalVars, disk, author, fileLock, journal, loaded, inUse, up, pass,
                   state, faults>>

-----------------------------------------------------------------------------
(* Runtime::update_configuration and the reconciliation of a pass.  Both   *)
(* hold the pass lock from their first step to their last.                 *)

\* The daemon's next pass, or the owner's PATCH: reconcile what is pending
\* before anything else.
TakePass(who) ==
    /\ up = "up" /\ pass = "free"
    /\ pass' = who
    /\ edits' = [edits EXCEPT !["live"] = [at |-> "adopt", base |-> 0, new |-> 0]]
    /\ UNCHANGED <<approvalVars, disk, written, author, fileLock, journal, loaded, inUse, up,
                   state, faults>>

\* A pass that cannot reconcile stops the service; an edit is answered 409.
BailHolding ==
    /\ Goto("live", "idle")
    /\ UNCHANGED <<pass, up>>
Bail ==
    /\ Goto("live", "idle")
    /\ pass' = "free"
    /\ up' = IF pass = "sweep" THEN "stopped" ELSE up

\* reconcile_configuration: nothing pending; the rename never happened; the
\* file is neither version; or it is the edit, to be adopted.
Reconcile ==
    /\ At("live", "adopt")
    /\ \/ /\ journal = NoEdit
          /\ Goto("live", IF pass = "edit" /\ edits["live"].new = 0 THEN "prepare" ELSE "complete")
          /\ UNCHANGED <<journal, up, pass>>
       \/ /\ journal # NoEdit
          /\ disk = journal.before /\ loaded = journal.before
          /\ journal' = NoEdit
          /\ UNCHANGED <<edits, up, pass>>
       \/ /\ journal # NoEdit
          /\ ~(disk = journal.before /\ loaded = journal.before)
          /\ disk # journal.after
          /\ Bail
          /\ UNCHANGED journal
       \/ /\ journal # NoEdit
          /\ disk = journal.after
          /\ Goto("live", IF loaded = journal.after THEN "complete" ELSE "broker")
          /\ UNCHANGED <<journal, up, pass>>
    /\ UNCHANGED <<approvalVars, disk, written, author, fileLock, loaded, inUse, state, faults>>

\* Supervisor::reconfigure takes the state lock, then the broker's mutex.
AdoptLock ==
    /\ At("live", "broker") /\ state = "free"
    /\ state' = "edit"
    /\ ReloadLock
    /\ UNCHANGED <<disk, written, author, edits, fileLock, journal, loaded, inUse, up, pass, faults>>

\* cancel_pending_approvals; its failure refuses the reload.
AdoptCancel ==
    /\ At("live", "broker") /\ mutex = "reload"
    /\ \/ /\ ReloadCancel
          /\ Goto("live", "swap")
          /\ UNCHANGED <<state, pass, up, faults>>
       \/ /\ Fault
          /\ mutex' = "free"
          /\ Bail
          /\ state' = "free"
          /\ UNCHANGED <<task, row, under, heard, late, config>>
    /\ UNCHANGED <<disk, written, author, fileLock, journal, loaded, inUse>>

\* The broker and the supervisor, under the state lock; then the snapshot.
\* The file was loaded before the locks: its content is the intent's.
AdoptSwap ==
    /\ At("live", "swap")
    /\ ReloadSwap(journal.after)
    /\ inUse' = journal.after
    /\ state' = "free"
    /\ Goto("live", "snapshot")
    /\ UNCHANGED <<disk, written, author, fileLock, journal, loaded, up, pass, faults>>
AdoptSnapshot ==
    /\ At("live", "snapshot")
    /\ loaded' = journal.after
    /\ Goto("live", "complete")
    /\ UNCHANGED <<approvalVars, disk, written, author, fileLock, journal, inUse, up, pass,
                   state, faults>>

\* complete_configuration_edit, and the end of the pass or of the edit.
Complete ==
    /\ At("live", "complete")
    /\ journal' = NoEdit
    /\ edits' = [edits EXCEPT !["live"] = [at |-> "idle", base |-> 0, new |-> 0]]
    /\ pass' = "free"
    /\ UNCHANGED <<approvalVars, disk, written, author, fileLock, loaded, inUse, up, state, faults>>

\* Prepared::new: the file must be the one loaded; the new content is built.
Prepare ==
    /\ At("live", "prepare")
    /\ \/ /\ disk = loaded /\ written < MaxContent
          /\ written' = written + 1
          /\ edits' = [edits EXCEPT !["live"] = [at |-> "intent", base |-> loaded, new |-> written + 1]]
          /\ UNCHANGED pass
       \/ /\ disk # loaded \/ written = MaxContent
          /\ Goto("live", "idle")
          /\ pass' = "free"
          /\ UNCHANGED written
    /\ UNCHANGED <<approvalVars, disk, author, fileLock, journal, loaded, inUse, up, state, faults>>

\* configuration::replace records the intent before the file is touched.
IntentSkipped ==
    /\ At("live", "intent")
    /\ Goto("live", "lock")
    /\ UNCHANGED <<approvalVars, disk, written, author, fileLock, journal, loaded, inUse, up,
                   pass, state, faults>>
Intent ==
    /\ At("live", "intent")
    /\ journal' = [before |-> edits["live"].base, after |-> edits["live"].new]
    /\ Goto("live", "lock")
    /\ UNCHANGED <<approvalVars, disk, written, author, fileLock, loaded, inUse, up, pass,
                   state, faults>>

-----------------------------------------------------------------------------
(* Other holders of the two locks.                                         *)

\* worker_control and the supervisor's own steps hold the state lock.
ControlLocks ==
    /\ up = "up" /\ state = "free"
    /\ state' = "control"
    /\ UNCHANGED <<approvalVars, disk, written, author, edits, fileLock, journal, loaded, inUse,
                   up, pass, faults>>
ControlEnds ==
    /\ state = "control"
    /\ state' = "free"
    /\ UNCHANGED <<approvalVars, disk, written, author, edits, fileLock, journal, loaded, inUse,
                   up, pass, faults>>

\* Runtime::close waits for the pass lock and the state lock.
Close ==
    /\ up = "up" /\ pass = "free" /\ state = "free"
    /\ Fault
    /\ up' = "stopped"
    /\ UNCHANGED <<approvalVars, disk, written, author, edits, fileLock, journal, loaded, inUse,
                   pass, state>>

\* The process dies; locks and unfinished edits of the daemon go with it.
Crash ==
    /\ up = "up" /\ Fault
    /\ up' = "stopped"
    /\ edits' = [edits EXCEPT !["live"] = [at |-> "idle", base |-> 0, new |-> 0]]
    /\ fileLock' = IF fileLock = "live" THEN "free" ELSE fileLock
    /\ pass' = "free" /\ state' = "free"
    /\ UNCHANGED <<approvalVars, disk, written, author, journal, loaded, inUse>>

\* A start loads the file and builds its adapters from it.
LoadFile ==
    /\ up \in {"stopped", "refused"}
    /\ up' = "loading"
    /\ loaded' = disk
    /\ UNCHANGED <<approvalVars, disk, written, author, edits, fileLock, journal, inUse, pass,
                   state, faults>>

\* recover_startup: an unrenamed edit is abandoned, a renamed one adopted from
\* exactly the file that was loaded; anything else refuses the start.
Verified(content) == disk = content /\ content \in {journal.before, journal.after}
RecoverStartup ==
    /\ up = "loading"
    /\ \/ /\ journal = NoEdit \/ Verified(loaded)
          /\ journal' = NoEdit
          /\ inUse' = loaded
          /\ up' = "up"
          /\ BrokerRestart(loaded)
       \/ /\ journal # NoEdit /\ ~Verified(loaded)
          /\ up' = "refused"
          /\ UNCHANGED <<approvalVars, journal, inUse>>
    /\ edits' = [edits EXCEPT !["live"] = [at |-> "idle", base |-> 0, new |-> 0]]
    /\ UNCHANGED <<disk, written, author, fileLock, loaded, pass, state, faults>>

-----------------------------------------------------------------------------
EditStep == Reconcile \/ AdoptLock \/ AdoptCancel \/ AdoptSwap \/ AdoptSnapshot \/ Complete
            \/ Prepare \/ Intent \/ LockFile("live") \/ CheckFile("live") \/ Rename("live")

ApprovalStep == up = "up" /\ ApprovalsNext /\ UNCHANGED editVars

Next ==
    \/ OwnerEdit \/ OpenDraft
    \/ LockFile("setup") \/ CheckFile("setup") \/ Rename("setup")
    \/ TakePass("sweep") \/ TakePass("edit")
    \/ EditStep
    \/ ControlLocks \/ ControlEnds \/ Close \/ Crash \/ LoadFile \/ RecoverStartup
    \/ ApprovalStep

\* The daemon's own steps are fair: its awaits are transactions and locks.
\* The owner decides nothing by fairness; deadlines pass.
Fairness ==
    /\ WF_vars(EditStep) /\ WF_vars(ControlEnds) /\ SF_vars(AdoptLock)
    /\ \A r \in Requests : WF_vars(up = "up" /\ RequestStep(r) /\ UNCHANGED editVars)
    /\ WF_vars(LoadFile) /\ WF_vars(RecoverStartup)

Spec == ConfigInit /\ [][Next]_vars /\ Fairness

-----------------------------------------------------------------------------
(* Properties.                                                             *)

TypeOK ==
    /\ ApprovalsTypeOK
    /\ disk \in Configs /\ written \in Configs /\ loaded \in Configs /\ inUse \in Configs
    /\ edits \in [Writers -> [at : Steps, base : Configs, new : Configs]]
    /\ fileLock \in Writers \cup {"free"}
    /\ journal \in [before : Configs, after : Configs]
    /\ up \in {"up", "stopped", "loading", "refused"}
    /\ pass \in {"free", "sweep", "edit"} /\ state \in {"free", "edit", "control"}

\* Whenever no edit or pass is under way, the runtime, the supervisor and the
\* broker work with one configuration (Runtime::reconcile_configuration).
ConfigAgrees == up = "up" /\ pass = "free" => loaded = inUse /\ inUse = config

\* An edit that reached the disk is loaded, or the journal has it for the next
\* pass or start, whenever the daemon dies or an adoption fails
\* (configuration::replace and recover_startup).
EditsJournalled ==
    author[disk] = "live" => loaded = disk \/ journal.after = disk

\* Neither Fridica writer replaces a file the other wrote after the edit was
\* prepared ("refused, not clobbered" in Prepared::commit).
NeverClobbers ==
    [][\A w \in Writers : Rename(w) /\ author[disk] \in Writers => disk = edits[w].base]_vars

\* Edits, passes and controls release their locks: nobody waits for ever on
\* the pass lock, the state lock and the broker's mutex.
LocksReleased ==
    (pass # "free" \/ mutex # "free") ~> ((pass = "free" /\ mutex = "free") \/ up # "up")

\* A request's task ends and returns its permit, and its row is settled, also
\* when its caller went away or nobody ever decides, as long as the daemon runs
\* (the loop of Broker::run).  A row whose task failed waits for a stop of its
\* worker, a reload or a start.
RequestsEnd ==
    \A r \in Requests :
        /\ (r \in Live) ~> (r \notin Live \/ up # "up")
        /\ (row[r] = "pending") ~> (row[r] # "pending" \/ heard[r] = "lost" \/ up # "up")
=============================================================================
