------------------------------ MODULE JobFiles ------------------------------
(***************************************************************************)
(* What a job gets before its worker starts (ScopedJobIo of                *)
(* workers/fetch.rs): its attached files, downloaded and placed in the     *)
(* data_in folder that all slots of the workspace share                    *)
(* (workers/inputs.rs), and a fetched repository (exec/fetch.rs).          *)
(*                                                                         *)
(* An attempt is <<job, number>>.  Three things outlive the future that    *)
(* waits for them: the blocking thread of place_local, the remote script   *)
(* of place_remote, and the task that settles a fetch's intent.  A file    *)
(* has the same name in every job.  Storage failures are left out.         *)
(***************************************************************************)
EXTENDS Naturals, Sequences

CONSTANTS
    Jobs,
    Wants,        \* the files of each job, in order
    Fetching,     \* the jobs that fetch a repository
    Tries,        \* how often each job may be tried
    MaxMisfits    \* bound on controls, timeouts, failed steps and crashes

ASSUME JobFilesConstants ==
    /\ Fetching \subseteq Jobs
    /\ Tries \in [Jobs -> Nat] /\ MaxMisfits \in Nat
    /\ \A j \in Jobs : Len(Wants[j]) \in Nat \ {0} /\ DOMAIN Wants[j] = 1 .. Len(Wants[j])

Attempts == UNION {{<<j, n>> : n \in 1 .. Tries[j]} : j \in Jobs}
Wanted(j) == {Wants[j][k] : k \in DOMAIN Wants[j]}
Attached == UNION {Wanted(j) : j \in Jobs}

VARIABLES
    transport,  \* the workspace's machine: local or ssh
    status,     \* the job's row: queued, running, ended or done
    number,     \* its attempts so far
    wanted,     \* no control came since it was queued
    caller,     \* per attempt: where ScopedJobIo::prepare is
    place,      \* per attempt: the placement's step and file
    dataIn,     \* the folder data_in: absent, open or closed for writing
    folder,     \* per file: its folder in data_in
    target,     \* per file: the placed file
    part,       \* per file: the remote script's .part file
    fetcher,    \* per attempt: the task of ScopedJobIo::fetch
    helper,     \* per attempt: the fetch helper: none, alive, ending or gone
    result,     \* per attempt: the fetcher's result
    intent,     \* per attempt: the repo_fetch record: none, open or closed
    repos,      \* the destinations that exist
    misfits

fsVars == <<dataIn, folder, target, part>>
fetchVars == <<fetcher, helper, result, intent, repos>>
jobRow == <<status, number, wanted>>
filesVars == <<transport, jobRow, caller, place, fsVars, fetchVars, misfits>>

Nothing == [state |-> "absent"]
Written(p) == [state |-> "partial", by |-> p, sealed |-> FALSE]
Misfit == misfits < MaxMisfits /\ misfits' = misfits + 1
Current(p) == status[p[1]] = "running" /\ number[p[1]] = p[2]

Goes(p, to) == caller' = [caller EXCEPT ![p] = to]
Ends(p, how) == Goes(p, "ended") /\ status' = [status EXCEPT ![p[1]] = how]

-----------------------------------------------------------------------------
(* The job: claimed, controlled, dropped and tried again.                  *)

ClaimJob(j) ==
    /\ status[j] = "queued"
    /\ status' = [status EXCEPT ![j] = "running"]
    /\ number' = [number EXCEPT ![j] = @ + 1]
    /\ Goes(<<j, number[j] + 1>>, "files")
    /\ UNCHANGED <<transport, wanted, place, fsVars, fetchVars, misfits>>

\* A pause or a stop is in the store before the task is told.
ControlJob(j) ==
    /\ status[j] = "running" /\ wanted[j]
    /\ Misfit
    /\ wanted' = [wanted EXCEPT ![j] = FALSE]
    /\ UNCHANGED <<transport, status, number, caller, place, fsVars, fetchVars>>

\* run_task drops its operation: the control arrived, or the job's time is up.
DropOperation(p) ==
    /\ Current(p)
    /\ \/ ~wanted[p[1]] /\ UNCHANGED misfits
       \/ Misfit
    /\ Ends(p, "ended")
    /\ UNCHANGED <<transport, number, wanted, place, fsVars, fetchVars>>

RetryJob(j) ==
    /\ status[j] = "ended" /\ number[j] < Tries[j]
    /\ status' = [status EXCEPT ![j] = "queued"]
    /\ wanted' = [wanted EXCEPT ![j] = TRUE]
    /\ UNCHANGED <<transport, number, caller, place, fsVars, fetchVars, misfits>>

-----------------------------------------------------------------------------
(* ScopedJobIo::files.                                                     *)

\* Every file is downloaded before the first is placed.
Download(p) ==
    /\ Current(p) /\ caller[p] = "files"
    /\ \/ /\ Goes(p, "placing")
          /\ place' = [place EXCEPT ![p] = [at |-> "start", k |-> 1]]
          /\ UNCHANGED <<status, misfits>>
       \/ /\ Misfit   \* unknown in the thread, too large, or not downloaded
          /\ Ends(p, "ended")
          /\ UNCHANGED place
    /\ UNCHANGED <<transport, number, wanted, fsVars, fetchVars>>

\* The placement's result is recorded; its failure fails the job.
Placed(p) ==
    /\ Current(p) /\ caller[p] = "placing"
    /\ \/ place[p].at = "done" /\ Goes(p, "placed") /\ UNCHANGED status
       \/ place[p].at = "failed" /\ Ends(p, "ended")
    /\ UNCHANGED <<transport, number, wanted, place, fsVars, fetchVars, misfits>>

-----------------------------------------------------------------------------
(* place_local and the script of place_remote, file by file.  Another      *)
(* placement may change the folders' modes and the file between any two    *)
(* steps.                                                                  *)

File(p) == Wants[p[1]][place[p].k]
PlaceAt(p, step) == place[p].at = step
PlaceGo(p, step) == place' = [place EXCEPT ![p].at = step]
Remote == transport = "ssh"
Abandoned(p) == caller[p] = "ended"

\* data_in is created or made writable; the remote script does so per file.
OpenDataIn(p) ==
    /\ PlaceAt(p, "start")
    /\ dataIn' = "open"
    /\ PlaceGo(p, "folder")
    /\ UNCHANGED <<transport, jobRow, caller, folder, target, part, fetchVars, misfits>>

OpenFolder(p) ==
    /\ PlaceAt(p, "folder")
    /\ \/ /\ folder[File(p)] # "absent" \/ dataIn = "open"
          /\ folder' = [folder EXCEPT ![File(p)] = "open"]
          /\ PlaceGo(p, "clear")
       \/ /\ folder[File(p)] = "absent" /\ dataIn = "closed"
          /\ PlaceGo(p, "failed")
          /\ UNCHANGED folder
    /\ UNCHANGED <<transport, jobRow, caller, dataIn, target, part, fetchVars, misfits>>

\* The earlier copy is removed; only rm -f tolerates a folder closed again.
ClearTarget(p) ==
    /\ PlaceAt(p, "clear")
    /\ \/ /\ folder[File(p)] = "open" \/ target[File(p)] = Nothing
          /\ target' = [target EXCEPT ![File(p)] = Nothing]
          /\ PlaceGo(p, "create")
       \/ /\ folder[File(p)] = "closed" /\ target[File(p)] # Nothing
          /\ PlaceGo(p, IF Remote THEN "create" ELSE "failed")
          /\ UNCHANGED target
    /\ UNCHANGED <<transport, jobRow, caller, dataIn, folder, part, fetchVars, misfits>>

\* fs::copy opens the target itself, `cat` the .part file.  A dropped future
\* has deleted the downloaded source.
MayCreate(p, file) ==
    IF file = Nothing THEN folder[File(p)] = "open" ELSE ~file.sealed
CreateTarget(p) ==
    /\ PlaceAt(p, "create")
    /\ LET file == IF Remote THEN part[File(p)] ELSE target[File(p)]
       IN  \/ /\ MayCreate(p, file) /\ (Abandoned(p) => Remote)
              /\ IF Remote THEN part' = [part EXCEPT ![File(p)] = Written(p)] /\ UNCHANGED target
                           ELSE target' = [target EXCEPT ![File(p)] = Written(p)] /\ UNCHANGED part
              /\ PlaceGo(p, "copy")
           \/ /\ ~(MayCreate(p, file) /\ (Abandoned(p) => Remote))
              /\ PlaceGo(p, "failed")
              /\ UNCHANGED <<target, part>>
    /\ UNCHANGED <<transport, jobRow, caller, dataIn, folder, fetchVars, misfits>>

\* The last writer of a file completes it, wherever it was moved to.
Completed(p, file) ==
    IF file # Nothing /\ file.by = p THEN [file EXCEPT !.state = "whole"] ELSE file
CopyData(p) ==
    /\ PlaceAt(p, "copy")
    /\ \/ /\ ~(Remote /\ Abandoned(p))
          /\ target' = [target EXCEPT ![File(p)] = Completed(p, @)]
          /\ part' = [part EXCEPT ![File(p)] = Completed(p, @)]
          /\ PlaceGo(p, IF Remote THEN "move" ELSE "seal")
          /\ UNCHANGED misfits
       \/ /\ Remote /\ Abandoned(p)   \* the stream ends early and `cat` succeeds
          /\ PlaceGo(p, "move")
          /\ UNCHANGED <<target, part, misfits>>
       \/ /\ Misfit
          /\ PlaceGo(p, "failed")
          /\ UNCHANGED <<target, part>>
    /\ UNCHANGED <<transport, jobRow, caller, dataIn, folder, fetchVars>>

MovePart(p) ==
    /\ PlaceAt(p, "move")
    /\ \/ /\ part[File(p)] # Nothing /\ folder[File(p)] = "open"
          /\ target' = [target EXCEPT ![File(p)] = part[File(p)]]
          /\ part' = [part EXCEPT ![File(p)] = Nothing]
          /\ PlaceGo(p, "seal")
       \/ /\ ~(part[File(p)] # Nothing /\ folder[File(p)] = "open")
          /\ PlaceGo(p, "failed")
          /\ UNCHANGED <<target, part>>
    /\ UNCHANGED <<transport, jobRow, caller, dataIn, folder, fetchVars, misfits>>

\* The file is made read-only; the remote script closes the folders with it
\* and the next file has a connection of its own.
NextFile(p) ==
    LET last == place[p].k = Len(Wants[p[1]])
        more == [at |-> IF Remote THEN "start" ELSE "folder", k |-> place[p].k + 1]
        step == CASE ~last /\ ~(Remote /\ Abandoned(p)) -> more
                  [] ~last /\ Remote /\ Abandoned(p) -> [place[p] EXCEPT !.at = "failed"]
                  [] last -> [place[p] EXCEPT !.at = IF Remote THEN "done" ELSE "close"]
    IN  place' = [place EXCEPT ![p] = step]
SealTarget(p) ==
    /\ PlaceAt(p, "seal")
    /\ \/ /\ target[File(p)] # Nothing
          /\ target' = [target EXCEPT ![File(p)].sealed = TRUE]
          /\ folder' = [folder EXCEPT ![File(p)] = IF Remote THEN "closed" ELSE @]
          /\ dataIn' = IF Remote THEN "closed" ELSE dataIn
          /\ NextFile(p)
       \/ /\ target[File(p)] = Nothing
          /\ PlaceGo(p, "failed")
          /\ UNCHANGED <<target, folder, dataIn>>
    /\ UNCHANGED <<transport, jobRow, caller, part, fetchVars, misfits>>

CloseFolders(p) ==
    /\ PlaceAt(p, "close")
    /\ folder' = [f \in Attached |-> IF f \in Wanted(p[1]) THEN "closed" ELSE folder[f]]
    /\ dataIn' = "closed"
    /\ PlaceGo(p, "done")
    /\ UNCHANGED <<transport, jobRow, caller, target, part, fetchVars, misfits>>

-----------------------------------------------------------------------------
(* ScopedJobIo::fetch and run.                                             *)

\* request: the destination is the attempt's own.
Leaf(p) == p

\* begin_fetch and finish_fetch ask whether the attempt is still wanted.
Active(p) == Current(p) /\ wanted[p[1]]

\* A refused request ends the job; otherwise a task of its own runs.
PrepareFetch(p) ==
    /\ Current(p) /\ caller[p] = "placed"
    /\ \/ /\ p[1] \notin Fetching
          /\ Goes(p, "running")
          /\ UNCHANGED <<status, fetcher, misfits>>
       \/ /\ p[1] \in Fetching
          /\ Goes(p, "fetching")
          /\ fetcher' = [fetcher EXCEPT ![p] = "begin"]
          /\ UNCHANGED <<status, misfits>>
       \/ /\ p[1] \in Fetching /\ Misfit
          /\ Ends(p, "ended")
          /\ UNCHANGED fetcher
    /\ UNCHANGED <<transport, number, wanted, place, fsVars, helper, result, intent, repos>>

\* The intent precedes the helper, which a dropped caller never starts.
BeginFetch(p) ==
    /\ fetcher[p] = "begin"
    /\ \/ /\ Active(p)
          /\ intent' = [intent EXCEPT ![p] = "open"]
          /\ IF Abandoned(p)
             THEN /\ fetcher' = [fetcher EXCEPT ![p] = "finish"]
                  /\ result' = [result EXCEPT ![p] = "failed"]
                  /\ UNCHANGED helper
             ELSE /\ fetcher' = [fetcher EXCEPT ![p] = "helping"]
                  /\ helper' = [helper EXCEPT ![p] = "alive"]
                  /\ UNCHANGED result
       \/ /\ ~Active(p)
          /\ fetcher' = [fetcher EXCEPT ![p] = "sent"]
          /\ result' = [result EXCEPT ![p] = "failed"]
          /\ UNCHANGED <<intent, helper>>
    /\ UNCHANGED <<transport, jobRow, caller, place, fsVars, repos, misfits>>

\* The helper publishes into a new directory, or fails and perhaps leaves one.
Publish(p) == Leaf(p) \notin repos /\ repos' = repos \cup {Leaf(p)}
HelperEnds(p) ==
    /\ helper[p] \in {"alive", "ending"}
    /\ helper' = [helper EXCEPT ![p] = "gone"]
    /\ \/ /\ Publish(p)
          /\ result' = [result EXCEPT ![p] = IF helper[p] = "alive" THEN "ok" ELSE @]
          /\ UNCHANGED misfits
       \/ /\ helper[p] = "ending" \/ Leaf(p) \in repos
          /\ result' = [result EXCEPT ![p] = IF helper[p] = "alive" THEN "failed" ELSE @]
          /\ UNCHANGED <<repos, misfits>>
       \/ /\ helper[p] = "alive" /\ Misfit
          /\ result' = [result EXCEPT ![p] = "failed"]
          /\ repos' \in {repos, repos \cup {Leaf(p)}}
    /\ fetcher' = [fetcher EXCEPT ![p] = IF @ = "helping" THEN "finish" ELSE @]
    /\ UNCHANGED <<transport, jobRow, caller, place, fsVars, intent>>

\* The caller is dropped: the helper's stdin closes.
CancelFetch(p) ==
    /\ fetcher[p] = "helping" /\ Abandoned(p)
    /\ fetcher' = [fetcher EXCEPT ![p] = "finish"]
    /\ helper' = [helper EXCEPT ![p] = "ending"]
    /\ result' = [result EXCEPT ![p] = "failed"]
    /\ UNCHANGED <<transport, jobRow, caller, place, fsVars, intent, repos, misfits>>

\* The intent is completed whoever still listens.
FinishInline(p) ==
    /\ fetcher[p] = "finish" /\ ~Abandoned(p)
    /\ intent' = [intent EXCEPT ![p] = "closed"]
    /\ fetcher' = [fetcher EXCEPT ![p] = "sent"]
    /\ result' = [result EXCEPT ![p] = IF Active(p) THEN @ ELSE "failed"]
    /\ UNCHANGED <<transport, jobRow, caller, place, fsVars, helper, repos, misfits>>
FinishFetch(p) ==
    /\ fetcher[p] = "finish"
    /\ intent' = [intent EXCEPT ![p] = "closed"]
    /\ fetcher' = [fetcher EXCEPT ![p] = "sent"]
    /\ result' = [result EXCEPT ![p] = IF Active(p) THEN @ ELSE "failed"]
    /\ UNCHANGED <<transport, jobRow, caller, place, fsVars, helper, repos, misfits>>

HearFetch(p) ==
    /\ Current(p) /\ caller[p] = "fetching" /\ fetcher[p] = "sent"
    /\ \/ result[p] = "ok" /\ Goes(p, "running") /\ UNCHANGED status
       \/ result[p] = "failed" /\ Ends(p, "ended")
    /\ UNCHANGED <<transport, number, wanted, place, fsVars, fetchVars, misfits>>

-----------------------------------------------------------------------------
(* The worker, and the daemon's death.                                     *)

WorkerEnds(p) ==
    /\ Current(p) /\ caller[p] = "running"
    /\ Ends(p, "done")
    /\ UNCHANGED <<transport, number, wanted, place, fsVars, fetchVars, misfits>>

\* Threads and tasks die with the daemon; a remote script and a helper notice
\* later.  Recovery ends the running jobs.
DaemonDies ==
    /\ Misfit
    /\ status' = [j \in Jobs |-> IF status[j] = "running" THEN "ended" ELSE status[j]]
    /\ caller' = [p \in Attempts |-> IF caller[p] = "none" THEN "none" ELSE "ended"]
    /\ place' = [p \in Attempts |-> IF ~Remote /\ place[p].at \notin {"none", "done"}
                                    THEN [place[p] EXCEPT !.at = "failed"] ELSE place[p]]
    /\ fetcher' = [p \in Attempts |-> "none"]
    /\ helper' = [p \in Attempts |-> IF helper[p] = "alive" THEN "ending" ELSE helper[p]]
    /\ UNCHANGED <<transport, number, wanted, fsVars, result, intent, repos>>

-----------------------------------------------------------------------------
FilesInit ==
    /\ transport \in {"local", "ssh"}
    /\ status = [j \in Jobs |-> "queued"] /\ number = [j \in Jobs |-> 0]
    /\ wanted = [j \in Jobs |-> TRUE]
    /\ caller = [p \in Attempts |-> "none"]
    /\ place = [p \in Attempts |-> [at |-> "none", k |-> 1]]
    /\ dataIn = "absent" /\ folder = [f \in Attached |-> "absent"]
    /\ target = [f \in Attached |-> Nothing] /\ part = [f \in Attached |-> Nothing]
    /\ fetcher = [p \in Attempts |-> "none"] /\ helper = [p \in Attempts |-> "none"]
    /\ result = [p \in Attempts |-> "none"] /\ intent = [p \in Attempts |-> "none"]
    /\ repos = {} /\ misfits = 0

PlaceStep(p) == OpenDataIn(p) \/ OpenFolder(p) \/ ClearTarget(p) \/ CreateTarget(p)
                \/ CopyData(p) \/ MovePart(p) \/ SealTarget(p) \/ CloseFolders(p)
TaskStep(p) == BeginFetch(p) \/ CancelFetch(p) \/ FinishFetch(p)

FilesNext ==
    \/ \E j \in Jobs : ClaimJob(j) \/ ControlJob(j) \/ RetryJob(j)
    \/ \E p \in Attempts : \/ DropOperation(p) \/ Download(p) \/ Placed(p) \/ PlaceStep(p)
                           \/ PrepareFetch(p) \/ TaskStep(p) \/ HelperEnds(p) \/ HearFetch(p)
                           \/ WorkerEnds(p)
    \/ DaemonDies

\* The runtime runs its tasks, and a helper ends by its own deadline.
FilesFair == \A p \in Attempts : WF_filesVars(TaskStep(p)) /\ WF_filesVars(HelperEnds(p))

FilesSpec == FilesInit /\ [][FilesNext]_filesVars /\ FilesFair

-----------------------------------------------------------------------------
(* Properties.                                                             *)

\* A worker never runs believing it has a file it does not, as the comment on
\* ScopedJobIo::files says.  The code does not keep this: all slots share
\* data_in, and another placement of the same file takes it away.
HasItsFiles ==
    \A p \in Attempts : caller[p] = "running" => \A f \in Wanted(p[1]) : target[f].state = "whole"

\* A recorded intent to fetch is completed even when the job is stopped, times
\* out or is retried meanwhile, unless the daemon dies (ScopedJobIo::run).
IntentsSettle ==
    []<>(\A p \in Attempts : intent[p] = "open" => fetcher[p] = "none")

=============================================================================
