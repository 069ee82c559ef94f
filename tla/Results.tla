------------------------------ MODULE Results ------------------------------
(***************************************************************************)
(* What a thread tells Slack about its workers: progress notes while they  *)
(* run (workers/progress.rs, threads/progress.rs), one report per group of *)
(* jobs (threads/results.rs), a debrief of a finished discussion           *)
(* (threads/debrief.rs), and the jobs of an external driver                *)
(* (threads/external.rs).                                                  *)
(*                                                                         *)
(* ThreadTurns has the claim, the ceilings and the failures of a turn.     *)
(* Here a turn is two steps, the load of its snapshot and the transaction  *)
(* that ends it; the parent is read between them.  The outbox is the       *)
(* sequence of queued posts.                                               *)
(***************************************************************************)
EXTENDS Integers, Sequences, FiniteSets

CONSTANTS
    Jobs,        \* jobs, numbered
    Group,       \* the join group of each job
    OnMessage,   \* the groups the parent's answers to a message may delegate
    ByDriver,    \* the jobs a driver may delegate, each its own group
    Files,       \* the jobs whose deliverable is a file
    Messages,    \* messages that may wait for an answer, numbered
    Noisy,       \* the jobs whose workers write progress notes
    Retried,     \* the jobs that get a second attempt
    MaxLines, MaxOwner, MaxCrashes

ASSUME ResultConstants ==
    /\ Jobs \subseteq Nat \ {0} /\ Messages \subseteq Nat
    /\ Files \subseteq Jobs /\ Noisy \subseteq Jobs /\ Retried \subseteq Jobs /\ ByDriver \subseteq Jobs
    /\ \A j \in ByDriver, i \in Jobs : Group[i] = Group[j] => i = j
    /\ {MaxLines, MaxOwner, MaxCrashes} \subseteq Nat

VARIABLES
    job,       \* the status of each job
    attempt,   \* its attempts
    reported,  \* the jobs whose results count as reported
    file,      \* the complete lines of the attempt's progress file
    offset,    \* how many of them the tracker read
    notes,     \* the progress notes recorded for a job
    items,     \* the thread's pending inbox
    turn,      \* the turn under way
    thread,    \* the thread's row
    posts,     \* what was queued in the outbox, in order
    owner,     \* what the owner did, for the bound
    crashes

jobVars == <<job, attempt, file, offset, notes>>
vars == <<jobVars, reported, items, turn, thread, posts, owner, crashes>>

Active == {"queued", "running"}
Ended == {"done", "failed", "interrupted"}
Item(kind, ref, seq, of, version) ==
    [kind |-> kind, ref |-> ref, seq |-> seq, of |-> of, version |-> version]
Wake(j) == Item("result", j, 0, 0, 0)
NoTurn == [step |-> "idle"]

\* A queued post: its kind, the item it is for, the jobs it is about and the
\* turn it belongs to.
NewPost(kind, key, jobs, n) == [kind |-> kind, key |-> key, jobs |-> jobs, turn |-> n]

Mates(j) == {i \in Jobs : Group[i] = Group[j] /\ job[i] # "none"}

-----------------------------------------------------------------------------
(* Workers.  The supervisor's own steps are in Supervisor.                 *)

Start(j) ==
    /\ job[j] = "queued"
    /\ job' = [job EXCEPT ![j] = "running"]
    /\ attempt' = [attempt EXCEPT ![j] = @ + 1]
    /\ file' = [file EXCEPT ![j] = 0]
    /\ offset' = [offset EXCEPT ![j] = 0]
    /\ UNCHANGED <<notes, reported, items, turn, thread, posts, owner, crashes>>

\* The worker appends a line to its progress file, or rewrites the file.
WriteLine(j) ==
    /\ job[j] = "running" /\ j \in Noisy
    /\ \E n \in 0 .. MaxLines : n # file[j] /\ file' = [file EXCEPT ![j] = n]
    /\ UNCHANGED <<job, attempt, offset, notes, reported, items, turn, thread, posts, owner, crashes>>

\* Tracker::take: only complete lines past the offset are new, and a file that
\* shrank is read from its new end.
Take(j) == [fresh |-> file[j] > offset[j], offset |-> file[j]]

\* poll_progress: a new note is recorded and wakes the thread.
PollProgress(j) ==
    /\ job[j] = "running" /\ notes[j] < MaxLines
    /\ file[j] # offset[j]
    /\ offset' = [offset EXCEPT ![j] = Take(j).offset]
    /\ \/ /\ Take(j).fresh
          /\ notes' = [notes EXCEPT ![j] = @ + 1]
          /\ items' = items \cup {Item("progress", j, notes[j] + 1, attempt[j], 0)}
       \/ /\ ~Take(j).fresh
          /\ UNCHANGED <<notes, items>>
    /\ UNCHANGED <<job, attempt, file, reported, turn, thread, posts, owner, crashes>>

\* complete_job: an attempt ends with a result that wakes the thread, or is
\* tried again.
Complete(j) ==
    /\ job[j] = "running"
    /\ \/ \E status \in {"done", "failed"} :
             /\ job' = [job EXCEPT ![j] = status]
             /\ items' = items \cup {Wake(j)}
       \/ /\ j \in Retried /\ attempt[j] = 1
          /\ job' = [job EXCEPT ![j] = "queued"]
          /\ UNCHANGED items
    /\ UNCHANGED <<attempt, file, offset, notes, reported, turn, thread, posts, owner, crashes>>

-----------------------------------------------------------------------------
(* The load of a turn.                                                     *)

\* results::load: the rows of the job's group that were not reported, and
\* whether any of its jobs still works.
LoadAll(j) == [rows |-> {<<i, job[i]>> : i \in Mates(j)},
               pending |-> \E i \in Mates(j) : job[i] \in Active]
LoadEager(j) == [rows |-> {<<i, job[i]>> : i \in Mates(j) \ reported}, pending |-> FALSE]
Load(j) == [rows |-> {<<i, job[i]>> : i \in Mates(j) \ reported},
            pending |-> \E i \in Mates(j) : job[i] \in Active]

RowJobs(rows) == {r[1] : r \in rows}

\* The oldest kinds of work are not ordered: the actor takes any item.
LoadTurn(item) ==
    /\ turn = NoTurn /\ item \in items
    /\ items' = items \ {item}
    /\ turn' = [step |-> "loaded", item |-> item, thread |-> thread,
                snapshot |-> IF item.kind = "result" THEN Load(item.ref)
                             ELSE [rows |-> {}, pending |-> FALSE]]
    /\ UNCHANGED <<jobVars, reported, thread, posts, owner, crashes>>

\* The version fence of every settlement, and what a stale one does.
Current == thread.version = turn.thread.version
Return(item) == items' = items \cup {item}

\* A turn that ends with nothing said: it is consumed, or waits a minute.
Settle(kept) ==
    /\ turn' = NoTurn
    /\ IF Current /\ ~kept THEN UNCHANGED items ELSE Return(turn.item)
    /\ UNCHANGED <<jobVars, thread, posts, owner, crashes>>

\* A thread that is not active keeps its results for later and drops the rest.
SettleInactiveDrops == /\ turn # NoTurn /\ turn.thread.control # "active"
                       /\ Settle(FALSE)
                       /\ UNCHANGED reported
SettleInactive == /\ turn # NoTurn /\ turn.thread.control # "active"
                  /\ Settle(turn.item.kind = "result")
                  /\ UNCHANGED reported

OnResult == turn # NoTurn /\ turn.thread.control = "active" /\ turn.item.kind = "result"

\* settle_external: the driver reads the result itself.
SettleExternal ==
    /\ OnResult /\ turn.thread.driver = "external"
    /\ Settle(FALSE)
    /\ reported' = reported \cup
          IF Current THEN {r[1] : r \in {x \in turn.snapshot.rows : x[2] \in Ended}} ELSE {}

\* The group still works, or another result's turn reported it.
SettleObserved ==
    /\ OnResult /\ turn.thread.driver = "parent"
    /\ turn.snapshot.pending \/ turn.snapshot.rows = {}
    /\ Settle(FALSE)
    /\ UNCHANGED reported

-----------------------------------------------------------------------------
(* The commit of a turn.                                                   *)

\* results::direct: one finished job reports without the parent, unless the
\* discussion is blocked.
Direct ==
    /\ Cardinality(Mates(turn.item.ref)) = 1
    /\ <<turn.item.ref, "done">> \in turn.snapshot.rows
    /\ turn.thread.status # "blocked"

\* The reply and behind it the files of file deliverables
\* (results::attachments).
Replies(kind, rows) ==
    LET n == thread.turns + 1
        post == NewPost(kind, turn.item, RowJobs(rows), n)
    IN  <<post>> \o (IF RowJobs(rows) \cap Files = {} THEN <<>>
                     ELSE <<NewPost("upload", turn.item, RowJobs(rows) \cap Files, n)>>)

\* close_turn and debrief::enqueue: a finished discussion asks for a debrief
\* of exactly this turn and version.
CloseTurn(status, finished) ==
    LET working == \E i \in Jobs : job'[i] \in Active
        debrief == Item("debrief", 0, 0, thread.turns + 1, thread.version)
    IN  /\ thread' = [thread EXCEPT !.turns = @ + 1,
              !.status = IF working /\ status # "blocked" THEN "working" ELSE status]
        /\ items' = items \cup IF finished /\ status = "complete" THEN {debrief} ELSE {}

Queue(set) == job' = [j \in Jobs |-> IF j \in set THEN "queued" ELSE job[j]]

\* A turn whose snapshot is stale goes back to the inbox: another version,
\* changed notes, or a result that joined the group meanwhile.
StaleTurn ==
    /\ turn # NoTurn /\ turn.thread.control = "active"
    /\ turn.item.kind \in {"result", "message"}
    /\ \/ ~Current
       \/ thread.notes # turn.thread.notes
       \/ turn.item.kind = "result" /\ Load(turn.item.ref).rows # turn.snapshot.rows
    /\ turn' = NoTurn
    /\ Return(turn.item)
    /\ UNCHANGED <<jobVars, reported, thread, posts, owner, crashes>>

FreshTurn ==
    /\ Current
    /\ thread.notes = turn.thread.notes
    /\ turn.item.kind = "result" => Load(turn.item.ref).rows = turn.snapshot.rows

\* A report: posted as it is, written by the parent, or settled by it with
\* nothing to post.  The reported rows are marked in the same transaction.
CommitReport ==
    /\ OnResult /\ turn.thread.driver = "parent"
    /\ ~turn.snapshot.pending /\ turn.snapshot.rows # {}
    /\ FreshTurn
    /\ reported' = reported \cup RowJobs(turn.snapshot.rows)
    /\ turn' = NoTurn
    /\ UNCHANGED job
    /\ \/ /\ Direct
          /\ posts' = posts \o Replies("report", turn.snapshot.rows)
          /\ CloseTurn("complete", FALSE)
       \/ /\ \E status \in {"complete", "blocked"}, finished \in BOOLEAN :
                CloseTurn(status, finished)
          /\ posts' = posts \o Replies("report", turn.snapshot.rows)
       \/ /\ CloseTurn(turn.thread.status, FALSE)
          /\ UNCHANGED posts
    /\ UNCHANGED <<attempt, file, offset, notes, owner, crashes>>

\* An answer to a message, which may delegate a group of jobs.
CommitAnswer ==
    /\ turn # NoTurn /\ turn.thread.control = "active" /\ turn.item.kind = "message"
    /\ FreshTurn
    /\ turn' = NoTurn
    /\ \E status \in {"complete", "blocked"}, finished \in BOOLEAN :
       \E groups \in {{}} \cup {{g} : g \in OnMessage} :
          /\ groups # {} => ~finished /\ status = "complete" /\ turn.thread.driver = "parent"
          /\ \A j \in Jobs : Group[j] \in groups => job[j] = "none"
          /\ Queue({j \in Jobs : Group[j] \in groups})
          /\ CloseTurn(status, finished)
    /\ posts' = posts \o Replies("reply", {})
    /\ UNCHANGED <<attempt, file, offset, notes, reported, owner, crashes>>

-----------------------------------------------------------------------------
(* progress::handle and debrief::handle.                                   *)

\* Only a note of the attempt that still runs is news.
NewsAnyway(item) == TRUE
News(item) == job[item.ref] = "running" /\ attempt[item.ref] = item.of

HandleProgress ==
    /\ turn # NoTurn /\ turn.thread.control = "active" /\ turn.item.kind = "progress"
    /\ turn' = NoTurn
    /\ posts' = IF thread.control = "active" /\ News(turn.item)
                THEN Append(posts, NewPost("progress", turn.item, {turn.item.ref}, 0))
                ELSE posts
    /\ UNCHANGED <<jobVars, reported, items, thread, owner, crashes>>

\* The debrief is due while its turn is the thread's last and no control came.
DueAtLoad(row, item) == row.status = "complete" /\ item.of > row.debriefed
Due(row, item) ==
    /\ row.status = "complete"
    /\ item.version = row.version
    /\ item.of = row.turns
    /\ item.of > row.debriefed

OnDebrief == turn # NoTurn /\ turn.thread.control = "active" /\ turn.item.kind = "debrief"

DebriefSuperseded ==
    /\ OnDebrief /\ ~Due(turn.thread, turn.item)
    /\ Settle(FALSE)
    /\ UNCHANGED reported

\* A usage limit or a lost login: the debrief waits and is tried again.
DebriefLater ==
    /\ OnDebrief /\ Due(turn.thread, turn.item)
    /\ Settle(TRUE)
    /\ UNCHANGED reported

\* The debrief is posted behind its reply, or is unavailable; a stale one is
\* consumed.
DebriefEnds ==
    /\ OnDebrief /\ Due(turn.thread, turn.item)
    /\ turn' = NoTurn
    /\ \/ /\ Due(thread, turn.item) /\ thread.notes = turn.thread.notes
          /\ \/ /\ posts' = Append(posts, NewPost("debrief", turn.item, {}, turn.item.of))
                /\ thread' = [thread EXCEPT !.debriefed = turn.item.of]
             \/ UNCHANGED <<posts, thread>>
       \/ /\ ~Due(thread, turn.item) \/ thread.notes # turn.thread.notes
          /\ UNCHANGED <<posts, thread>>
    /\ UNCHANGED <<jobVars, reported, items, owner, crashes>>

-----------------------------------------------------------------------------
(* Everyone else.                                                          *)

\* The owner's controls bump the version; an edit of the notes their revision.
Owner(change) ==
    /\ owner < MaxOwner
    /\ owner' = owner + 1
    /\ \/ /\ change \in {"active", "paused", "closed"}
          /\ change # thread.control /\ thread.control # "closed"
          /\ thread' = [thread EXCEPT !.control = change, !.version = @ + 1]
       \/ /\ change = "driver"
          /\ thread' = [thread EXCEPT !.version = @ + 1,
                !.driver = IF @ = "parent" THEN "external" ELSE "parent"]
       \/ /\ change = "notes"
          /\ thread' = [thread EXCEPT !.notes = @ + 1]
    /\ UNCHANGED <<jobVars, reported, items, turn, posts, crashes>>

\* external::delegate: one job in a group of its own, whoever drives the thread; a
\* closed thread refuses.
Delegate(j) ==
    /\ j \in ByDriver /\ job[j] = "none" /\ thread.control # "closed"
    /\ Queue({j})
    /\ UNCHANGED <<attempt, file, offset, notes, reported, items, turn, thread, posts, owner, crashes>>

\* The daemon dies and starts: the claimed item is pending again and running
\* jobs are interrupted, which wakes the thread.
Crash ==
    /\ crashes < MaxCrashes
    /\ crashes' = crashes + 1
    /\ turn' = NoTurn
    /\ job' = [j \in Jobs |-> IF job[j] = "running" THEN "interrupted" ELSE job[j]]
    /\ items' = items \cup {Wake(j) : j \in {i \in Jobs : job[i] = "running"}}
                      \cup (IF turn = NoTurn THEN {} ELSE {turn.item})
    /\ UNCHANGED <<attempt, file, offset, notes, reported, thread, posts, owner>>

-----------------------------------------------------------------------------
\* A thread with some of the messages; the counters start at what the bounds leave.
Init ==
    /\ job = [j \in Jobs |-> "none"]
    /\ attempt = [j \in Jobs |-> 0]
    /\ file = [j \in Jobs |-> 0] /\ offset = [j \in Jobs |-> 0] /\ notes = [j \in Jobs |-> 0]
    /\ reported = {} /\ turn = NoTurn
    /\ \E come \in SUBSET Messages : items = {Item("message", m, 0, 0, 0) : m \in come}
    /\ thread = [version |-> 0, turns |-> 0, status |-> "new", control |-> "active",
                 driver |-> "parent", notes |-> 0, debriefed |-> 0]
    /\ posts = <<>> /\ owner \in 0 .. MaxOwner /\ crashes \in 0 .. MaxCrashes

EndTurn == SettleInactive \/ SettleExternal \/ SettleObserved \/ StaleTurn \/ CommitReport
           \/ CommitAnswer \/ HandleProgress \/ DebriefSuperseded \/ DebriefEnds

Next ==
    \/ \E j \in Jobs : Start(j) \/ WriteLine(j) \/ PollProgress(j) \/ Complete(j) \/ Delegate(j)
    \/ \E change \in {"active", "paused", "closed", "driver", "notes"} : Owner(change)
    \/ \E item \in items : LoadTurn(item)
    \/ EndTurn \/ DebriefLater
    \/ Crash

Spec == Init /\ [][Next]_vars

-----------------------------------------------------------------------------
(* Properties.                                                             *)

TypeOK ==
    /\ job \in [Jobs -> {"none"} \cup Active \cup Ended]
    /\ attempt \in [Jobs -> 0..2]
    /\ reported \subseteq {j \in Jobs : job[j] \in Ended}
    /\ file \in [Jobs -> 0..MaxLines] /\ offset \in [Jobs -> 0..MaxLines]
    /\ thread.status \in {"new", "complete", "blocked", "working"}

Before(i, k) == i \in DOMAIN posts /\ k \in DOMAIN posts /\ i < k
Reports(i) == posts[i].kind = "report"

\* A group's results are reported together and once: no job is in two reports,
\* and a report of one job of a group is a report of all that were not already
\* given to a driver (results::load and mark_reported in the actor's commit).
ReportedTogether ==
    \A i \in DOMAIN posts : Reports(i) =>
        /\ \A k \in DOMAIN posts : Reports(k) /\ k # i => posts[i].jobs \cap posts[k].jobs = {}
        /\ \A j \in posts[i].jobs, mate \in Jobs :
              Group[mate] = Group[j] => job[mate] \in Ended /\ mate \in reported

\* A note is posted once and only while its job runs, so every note stands
\* before the report of its job (progress::handle, Tracker::take).
NotesPrecedeReport ==
    \A i, k \in DOMAIN posts :
        posts[k].kind = "progress" /\ i < k =>
            /\ ~(Reports(i) /\ posts[k].jobs \subseteq posts[i].jobs)
            /\ posts[i].key # posts[k].key

\* A debrief closes the discussion as it stands: it follows its reply with no
\* turn's post between them, and no turn is debriefed twice (debrief::handle).
DebriefIsLast ==
    \A k \in DOMAIN posts : posts[k].kind = "debrief" =>
        /\ \E i \in 1 .. k-1 : posts[i].turn = posts[k].turn /\ posts[i].kind \in {"reply", "report"}
        /\ \A i \in 1 .. k-1 : posts[i].turn =< posts[k].turn /\ posts[i].key # posts[k].key

\* No result is stranded: as long as a finished job is not reported, its group
\* still works or has an item that will be read, however completions, loads,
\* settlements of a paused thread and crashes interleave (results::load, the
\* settlements of the actor).
NoResultStranded ==
    \A j \in Jobs : job[j] \in Ended /\ j \notin reported =>
        \E i \in Mates(j) : \/ job[i] \in Active
                            \/ Wake(i) \in items
                            \/ turn # NoTurn /\ turn.item = Wake(i)

=============================================================================
