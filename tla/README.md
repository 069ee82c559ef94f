# A TLA+ model of fridica

fridica is a daemon that stands in for its owner on Slack. It keeps every
message, obligation, job and post as a row of an SQLite store, asks a parent
model what to do about them, delegates work to worker processes and posts the
answers. The code modelled here is `src/`; the crates `fridica_core`,
`fridica_store_sqlite`, `fridica_slack` and `fridica_agent` are dependencies and
are modelled from how `src/` and its tests use them (marked external in
`PROJECT.json`). One `store.transact` is one atomic transaction, so it is one
step of a model; everything between two transactions may interleave.

## Inventory

| Part | State | Operations | Hard behaviour | What makes it correct |
|---|---|---|---|---|
| Conversation actor (`threads/actor.rs`, `attention/`, `threads/controls.rs`) | inbox rows, thread control and version, reservations, obligations, the turn's snapshot | claim, load, triage, reserve, decide, commit, settle; pause, resume, instruct, retry, restore, close, clean | long awaits between snapshot and commit; controls, edits, messages and crashes in between | stale turns have no effect; no input is lost silently; obligations follow deliveries |
| Outbox (`threads/dispatcher.rs`, `slack/web.rs`) | post rows, batch, attempt, retry counters | ready, claim, check, send, finish, retry, recover | timeouts that may still publish, crash while sending, rate limits, ordered dependents | at most one copy per authorisation, order, bounded attempts |
| Supervisor (`workers/supervisor.rs`) | jobs, workers, slots, warm processes, tasks, control intents | schedule, stop, interrupt, reconcile, settle, close | tasks and controls under a lock held across awaits; closes that are not confirmed | process and slot limits, exact interrupts, true acknowledgements |
| Results, progress and debriefs (`threads/results.rs`, `debrief.rs`, `progress.rs`) | result groups, notes, debrief rows | group, report, note, debrief | results joining a group during a turn, notes behind a report | reported once, together, never stranded |
| Parent context (`parent/attachments.rs`, `github/links.rs`) | the shown context, a cache shared by all threads | decide, repair, read | reads of several threads through one cache | a repair sees what its decide saw; ages are true |
| Slack intake (`slack/receiver.rs`, `catchup.rs`, `attention/backfill.rs`) | envelopes, the channel's watermark | receive, acknowledge, catch up, backfill | redelivery, truncated pages, concurrent passes | no message lost silently or worked on twice |
| Approvals (`approvals/mod.rs`) | approval rows, permits, policy | request, decide, expire, cancel, reconfigure | decision against expiry and reload | one decision, the committed one |
| Configuration (`config/editor.rs`, `threads/configuration.rs`, `threads/runtime.rs`) | file, fingerprint, edit lock, journal | prepare, replace, adopt, recover | edit against edit, crash at the rename | no lost edit, no clobbered file |
| Job files (`workers/inputs.rs`, `workers/fetch.rs`, `exec/fetch.rs`) | `data_in`, fetch intents | download, place, fetch, collect | work that outlives its caller | intents settle |
| Service (`threads/service.rs`, `control/server.rs`) | coordinator, socket, connections | start, serve, drain, stop | shutdown order, two daemons on one path | every stop ends, the socket has its owner |
| Processes (`exec/process.rs`, `parent/mod.rs`, `github/client.rs`) | child groups, permits, login gate | run, limit, kill | dropped callers, stuck groups | bounded groups, every call ends |
| Event feed (`control/events.rs`, `threads/external.rs`) | ledger cursor | page, follow, act | lost answers, dying readers | each event is acted on once |
| Machines, doctor, dashboard, command line | none shared | read-only or I/O | - | - |

Parts interact through the store (actor commits queue posts, jobs and worker
intents; deliveries and completions queue inbox items), through `Runtime::pass`,
which runs settle, stops, reconcile, sweep, reconcile, drain and schedule in that
order under one lock, and through signals to tasks. `PROJECT.json` lists every
part and every hazard with its line.

## Modules

Four short modules say what a part promises and nothing of how: `Obligations`,
`PostLedger`, `JobLedger` and `Verdicts`. The detailed modules implement them.

`Obligations` is the promise of the attention ledger: an obligation to answer
ends once and for good, it is answered only by a delivery, and while an answer
may still arrive only the owner takes it back. `ThreadTurns` models one thread. Its durable variables are the thread row
(`control`, `version`, `driver`, `notes`, `review`), the inbox rows (`inbox`,
`attempts`, `later`, `reread`, `owned`), the reservation and reply row of each
item and the obligation of each message; `turn` is the local state of
`Actor::handle`. The turn's steps are the points between its transactions and
awaits: `Claim`, `Load`, `ReadDriver`, the early settlements, `AskTriage`,
`Reserve`, `Repair`, `Commit` with its three early exits, and `FailTurn` for
`Actor::step`'s error path. Each owner control is one action.
`ThreadTurns!ImplementsObligations` is the refinement: an obligation's answers
are the posts linked to its message (`AnswersOf`).

`PostLedger` is the promise of the outbox: a post is published at most once for
its first sending and once for each time the owner sends it again, and a
row says `sent` only if a copy exists. `Outbox` models the dispatcher: `drain`
is the state of `drain_checked` (its batch is a snapshot), Slack serves a
request before (`Reach`) or after (`LatePublish`) the sender gave up on it.
`Outbox!ImplementsLedger` is the refinement.

`JobLedger` is the promise about the job rows: a job is queued, started and
ended for good, an attempt starts alone in its worker's one slot and never of a
stopped worker, and a second attempt follows only a first one that failed.
`Supervisor` models jobs, tasks and warm processes of one thread's workers.
`op` is the operation that holds the state lock, with the locals of `schedule`
or `finish_stop`; `live` is the pool, `alive` the processes that really exist.
A close may go unconfirmed, a warm process may exit by itself, and a stop of
the daemon drops the pass wherever it is. `Supervisor!ImplementsJobLedger` is the
refinement.

`Results` models what a thread tells Slack about its workers: progress notes,
one report per group of jobs, debriefs. A turn is its two ends, the load of a
snapshot and the transaction that settles it; everything else interleaves
between them. The outbox is the sequence of queued posts.

`Context` models what a parent call is shown besides the thread: files, linked
messages and the GitHub state, read through one cache with an expiry and a time
limit. A pull request's state is its version, and `replaced` remembers when a
version ceased to be true.

`Intake` models one channel: envelopes delivered once or more, the intake
transaction, catch-up passes of several services with their fenced watermark,
truncated listings, the gap that a second truncated pass gives up with a note,
and the backfill. `since` is where the daemon's promise to read begins.

`Verdicts` is the promise of the broker: one verdict per request, never taken
back, and a worker is told that verdict or nothing. `Approvals` models the
broker between a worker that asks and the owner who decides
(`Approvals!ImplementsVerdicts`). `ConfigEdit` extends it with the configuration file: live edits, the
offline setup and the owner's own editor, the journal, and the adoption by
supervisor and broker under their locks.

`JobFiles` models the placement of attached files and the fetch helper, with
the three things that outlive the future waiting for them.

`Service` models daemons that share a socket path, from the bind to the drain
and the close. An inode number is free again when its file is neither linked
nor listened on, and the guard's comparison and its unlink
(`control/server.rs:144-147`) are two steps, so a late guard may mistake a
successor's socket for its own, or remove one that was bound in between. Only
the lock file prevents that, and it can be deleted. `SocketOwned` therefore
excludes two histories: `swept`, a listener whose socket file was deleted from
outside, and `beside`, one bound while another server drained.
`LockKeepsSocket` proves that `beside` stays empty while nobody deletes the
lock file. `Calls` models the subprocesses with their permits, deadlines and
group kills, and the login gate, also when a call's start cannot be recorded
(`RecordFails`); `Feed` the event feed with its two kinds of reader. A post of a
driver with a known `client_id` queues nothing, whether it is answered as a
repeat or, with other content, as a conflict.
The objects of a page are a set with an order (`Before`: by record, a record's
event first), and a reader takes the first of what is left of its page.

Each component's proofs are in a module of their own: `ThreadTurnsProofs`,
`OutboxProofs`, `SupervisorProofs`, `ResultsProofs`, `ContextProofs`,
`IntakeProofs`, `ConfigProofs` (Approvals, ConfigEdit and JobFiles) and
`DaemonProofs` (Service, Calls and Feed). The `MC` modules give the constants small values. Where one
run follows several instances or several parts that share no state, a variable
`scene` or `focus`, chosen in the initial state and never changed, says which
one the behaviour follows; TLC then explores the sum of their state spaces and
not the product. `MCTurnsScenes` and `MCSupervisorScenes` are instances of one
module, `MCParentInput` (Results alone or beside a driver's job, Context),
`MCWorkspace` (ConfigEdit, JobFiles) and `MCDaemon` (Service, Calls, Approvals,
the driver and the follower of Feed) put parts side by side.

### Assumptions about code outside `src/`

* The thread: a settlement whose version is stale returns an item that is
  still processing; `return_turn` marks the item as reread; `resume_message`
  requeues the latest message or leaves it; `answer_queued` accepts obligations
  that are open or deferred, or awaiting with every delivery failed; cleaning
  drops pending and processing items, releases unattached reservations and
  closes the obligations (docs/v0.4-implementation-status.md:655-665).
* The outbox: five rate-limited tries (tests/outbox.rs:178; `Tries` in the
  model), posts of a thread in order, `finish_delivery` blocks what waits for a
  dead post, recovery turns an interrupted send into an uncertain one.
* The supervisor: `claim_job` rechecks the row, the thread and pending controls
  and cancels the job of a stopped worker; `complete_job` retries an execution
  failure once when there is a session, unless an interrupt of that attempt is
  pending; an ephemeral worker is stopped with its job. Closing a thread queues a stop
  for each worker not yet stopped. Worker processes
  do not survive the daemon (docs/v0.4-implementation-status.md:654).
* The limits of the machines are those of one configuration. A reload that
  lowers `max_workers` closes nothing by itself, so `ProcessPermits` speaks of the
  limit in force when the processes were started. A machine that is missing from
  a pass's configuration is a counted fault: the pass skips its jobs
  (`PassOver`), as it does when the processes that could make room are busy with
  a turn that was dropped.
* "Closed" stands for closed and archived, and only the owner's authority
  reaches the controls.
* Slack lists a channel's history newest first and numbers messages upwards;
  what it lists is read at one instant of a pass.

## Runs

| Run | Shows | Bounds |
|---|---|---|
| `turns` | stale turns have no effect, a clean is final, no item is left claimed; obligations are ended by deliveries and for good, an uncertain answer is not regenerated, the third failure drops visibly | two scenes: a mention with three controls and an edit or a fault, enough for a control before, during and after each await; a mention and its reminder with three faults and no control |
| `turns_liveness` | every input settles | two scenes: a message and an instruction with a control and a fault; two messages, one arriving in the other's call, with neither |
| `turns_ceiling` | a disagreement with the documentation, below | one message, one control, one fault |
| `outbox` | dependents follow, no stale attempt, the ledger, every post settles | a chain of two posts and a post of another thread, two tries, a grant of the first post, an edit, a crash |
| `supervisor` | permits, the job ledger, true stops, exact interrupts, owned jobs | two scenes: three workers with a job each, two slots, two processes and a fault; one worker with two jobs, three controls and a fault |
| `supervisor_liveness` | controls are reconciled and jobs end | two workers with a job each, one ephemeral, one process, two controls or one and a fault |
| `parent_input` | results are reported together, once, after their notes and never stranded, a debrief stands last; a repair sees what its decide saw, an age is honest | Results: a group of two jobs and a driver's job, one noisy and retried, one message with an owner's step and a crash, or two messages with a crash, the driver starting its job once it has the thread; one message with neither, the driver starting its job at any time. Context: two threads, one link, a cache of 3, reads of 1, times to 3, one new version, one upset |
| `intake` | a message is worked on once, none is lost silently, every one is accounted for at last | an imported or missed root and one more message, a reply to it or a second root; the daemon's service and a rival; times to 3, a window of 1 capped at 2, an overlap of 1, one fault |
| `workspace` | no stale policy, one committed verdict, no lost or clobbered edit, requests and locks end, fetch intents settle | three contents of the file, one request, one permit, two faults; two jobs sharing a file, one fetching and tried twice, one misfit |
| `job_files` | a disagreement with a comment, below | as the second part of `workspace` |
| `daemon` | the socket has its owner, stops end; groups are bounded, calls end; a driver acts once | two daemons, two operations, two inode numbers, one mishap; two calls, one permit of a kind, one trouble; two approvals, one permit; a ledger of three records, one loss |
| `feed_resume` | a disagreement with the help text, below | the feed of `daemon` |

The bounds cap the events from outside. They are small because the instances
grow by an order of magnitude with each further event; the mutant of every
property is found within them, which shows that they reach the case the property
is about, not that larger instances hold. For the properties with a theorem the
proof has no such bound. `Tries = 2` is the first number at which "retry" and
"exhausted" differ. Deadlock is not checked: a thread, an outbox, a pool and a
stopped daemon may all have nothing left to do.

`turns_ceiling` fails: docs/v0.4-implementation-status.md:599-600 says that the
owner's resume bypasses the non-owner reply ceilings, but `reserve`
(`attention/mod.rs:191`) is not fenced by the thread's version, so a turn loaded
before the resume can defer the item the resume requeued. The item is answered
later, when the hourly ceiling allows. `OnlyStaleTurnsDefer` proves that this is
the only way: a turn that read the item after the resume never defers it.

`job_files` fails: the comment at `workers/fetch.rs:120` says that a worker never
runs believing it has a file it does not. All slots of a workspace share
`data_in`, and a second job with the same attached file removes and rewrites it
while the first job's worker runs. `UndisturbedHasItsFiles` proves that this is
the only way: unless another attempt's placement removes, rewrites or replaces
one of its files while it is placed or works, a worker has its files, through
any failures, dropped placements and crashes.

`feed_resume` fails: `control/cli.rs:190` says that `--since` resumes after a
cursor with no gap or repeat. A record that projects to two objects gives both
the same cursor, so a follower interrupted between the two lines misses the second.
`UninterruptedHasNoGap` proves that a follower that is never resumed from a
printed line's cursor misses and repeats nothing, and `DriverActsOnce` that a
driver, which saves the page's `next`, acts on everything once.

Met while modelling and without a run: the login gate is settled as "not
refreshing" also after a failed call (`parent/mod.rs:71`); the `before` of a
`slack_catchup_gap` note may lie below the real end of the gap; the log reader's
final drain reads one page of 500 lines; the owner's own editor may write
between the fingerprint check and the rename, since it takes no lock; replies in
dormant threads are read by catch-up only as far as their root is still listed;
concurrent placements can fail each other, because each closes `data_in` when it
is done; when the lock file is deleted while its holder drains, a successor can
bind and lose its socket to the late guard (`control/server.rs:144-147`, 363-377),
by a reused inode number or between the guard's two calls; of two concurrent GitHub reads the older may fill the cache last, which
the age's tolerance of one read limit covers, and errors are cached as long as
states.

## Fairness

* Turns: `Actor::step` is run again and again by the manager's sweep and parent
  calls have timeouts: `WF(TurnStep)`, and `SF(Claim(i))` because other items are
  claimed in between. Times pass: `WF(Wake)`. The service manager restarts the
  daemon: `WF(Restart)`.
* Outbox: the drain runs in every pass: `WF(DrainStep)`.
* Supervisor: tasks and closes have deadlines: `WF(TaskStep(j))`, and `WF` of the
  steps of a lock's holder. The pass visits each stage of the supervisor in
  turn, but the lock is taken in between: `SF` of `BeginSchedule`, `ServeCloses`
  and `Reconcile`. A process whose turn was dropped is busy only until its close,
  so not in every pass: `SF` of `Evict`.
* Intake: the passes of the daemon's own history loop, whose awaits have
  deadlines. Rival services owe nothing.
* Configuration and approvals: the daemon's own steps (transactions and locks),
  deadlines of requests, the load and recovery of a start; `SF` of taking the
  supervisor's lock, whose queue is fair.
* Job files: tasks run, and a fetch helper ends by its own deadline.
* Service: every wait of the coordinator and of the drain has a timeout; the
  loops end once they are told to stop. Operations and clients owe nothing.
* Calls: callers and owner tasks run, SIGKILL ends a group, and the semaphore's
  queue is fair: `SF(TakePermit)`.

Nothing is assumed of the owner, of Slack, of idle exits or of the parent's
answers.

## Proofs

The theorems hold for all values of the constants that satisfy the named
assumptions of the modules: any sets of messages, items, posts, workers, jobs,
machines, threads, links, services, requests, daemons and calls, and any
bounds. The assumptions say what the constants are (numbers, functions between
the sets, finite sets where a limit counts them) and no more, with these
exceptions, which the code gives: a post comes after an earlier one (`After[p] <
p`), jobs and posts are numbered in queueing order, a driver's job is a group of
its own, a root is its own root, and the overlap (60 s) and the recent window
(900 s) are not longer than the window (3600 s), nor that than its cap
(`slack/catchup.rs:19-22`).

Every invariant, every action property and every refinement that a passing run
checks is stated by a theorem, and each of the three disagreements by one that
says which step of the code is the only way to it. The invariants are proved by
inductive strengthenings.

* **ThreadTurns.** `TypeCorrect` needs that a running turn has an item.
  `FreshDecisions` and `DriverOwns` follow from `Fenced`: the version counts
  every control (the ghost `epoch`), a snapshot's version is never ahead, and a
  snapshot with the current version read the current driver. `ClaimsOwned`,
  `VisibleDrops` and `WipedStaysInert` follow from `Housekept`: no turn survives
  a crash, only the turn in hand is processing, wiped items stay dropped,
  dropped items have a signal or were wiped. `NoSecondAnswers`,
  `AnswersAreDelivered` (a theorem no run needs to check, the refinement says
  more) and `ThreadImplementsObligations` follow from `Accounted`: which posts
  and obligations may be linked. `OnlyStaleTurnsDefer` follows from
  `OwnerFenced`: a resume is what makes a message's item the owner's, and it
  bumps the version, so a turn with the current version knows the owner's items.
* **Outbox.** `NoStaleAttempts` from `Sound`: the post in hand is the only one
  being sent and has the attempt the dispatcher remembers.
  `OutboxImplementsLedger` from `Kept`: copies and requests that may still be
  served together stay within one plus the grants (`Quota`), and a sent row has
  a copy (`Witnessed`). `RowsTellTruth` says the same of the rows for the owner,
  from `Kept` and `Delivered`. `AttemptsBounded` from `Metered`. `DependentsAlwaysFollow`
  from `Behind`: a post that was published, may still be published late, or is
  being sent has a delivered predecessor; it rests on the recheck in
  `claim_post` and on the fact that no step takes "sent" back.
* **Supervisor.** One invariant, `SupervisorInv`, for all theorems. `Rows`: a
  task at work has a running row, and while passes run a running row has a task
  or a launch (`Owned`); the snapshot a schedule works on names every row that
  runs (`Snapshot`), although commits and completions interleave with it, which
  is why the slot chosen from it is free. `Pool`: every existing process is in
  the pool while the daemon is up. `Stops`: what is acknowledged is gone and
  stays gone. `Barred`: a pending interrupt is released only when its attempt no
  longer runs. `Permitted`: the workers in use on a machine, those with a
  process, a task or a launch, are within its permits, also between the claim
  of a job and its start. `SupervisorImplementsJobLedger`: a claim is a start of
  the ledger, since the invariant makes the chosen slot free, and whatever else a
  step does to the rows, of one job or of many in a stop or a recovery, is the
  ledger's (`Settles`). `EndsAreFinal` and `SlotsAlwaysExclusive` are about the
  same rows. The theorems are about `Running`, which starts with any workers
  already stopped; `SpecRuns` says that `Spec` is such a start.
* **Results.** `Base`: types; a group's jobs are created together (`Whole`); a
  pending result item is the wake of an ended job (`Awake`); the rows of a turn's
  snapshot are the mates of its item, finished unless the snapshot says pending
  (`Shown`). `NeverStranded` adds `Loaded`: a job that ended while the turn was
  reading is in the snapshot as ended or has its own wake, and a snapshot marked
  pending has a mate at work or a wake. This is the case a test hardly reaches:
  the last result of a group arriving between load and settlement.
  `AlwaysTogether` uses that groups are whole and that a commit marks the
  group it reported. `NotesAlwaysPrecede` and `DebriefAlwaysLast` rest on
  `Story`: pending notes were recorded and a loaded one left the inbox
  (`Noted`), a debrief item has its reply posted (`Owing`), posts carry turns
  not beyond the thread's, and notes are numbered upwards, so that a posted one
  never returns (`Written`).
* **Context.** `ContextInv`: a read that has not answered began at most the read
  limit ago (`Timely`), a state in hand was true at most its age and one read
  ago (`Honest`), an entry of the cache at most one read before it was stored
  (`Fresh`), and what a decide was shown is kept under its key until the turn
  ends (`Remembered`).
* **Intake.** `AlwaysArrivesOnce` from `OnceInv`: a row, its work and its
  obligation are created together. `NeverLostSilently` from `LossInv`: how far
  back a pass reads (`Reaches`: to the cap, to the mark less the overlap, or to
  where the promise begins), that a complete pass holds every root of its
  window posted before it began less the overlap (`ReadAll`), and that without a
  mark the window is whole and the promise begins behind stored messages
  (`Unmarked`). The maxima of the code are taken over bounded sets of numbers;
  that they exist is the lemma `MaxOf`, from the well-foundedness of `<`.
  `WatermarkAdvances` (the mark never goes back and is never lost) adds
  `Timely`: a pass knows no mark later than its own time, so the fence suffices.
* **Approvals and configuration.** `BrokerImplementsVerdicts` from `Committed`: a
  request without a row was not stored, and an answered request is over with
  the row's answer; `WorkersHearCommitted` is its statement about states. `PolicyNeverStale` from `Guarded`: a store under way has the
  mutex and the current configuration, and a reload about to swap has the mutex
  and left nothing pending. `WritersNeverClobber` (an action property) and
  `EditsNeverForgotten` from `Held`, `Authored`, `Unclobbered` and `Journalled`:
  who holds the locks, who wrote which content, and where an edit is recorded at
  each step of its life.
* **Job files.** `UndisturbedHasItsFiles` is about one attempt and from
  `FilesOf`: while its job waits for it, the files before the one being placed
  are whole, the one being placed is in the state its step needs (`Placing`),
  and the steps of other placements keep a file they do not take (`Stays`). It
  needs no condition on what the attempt itself does. `FetchesInOrder` from
  `FetchInv`.
* **Daemon.** `SocketAlwaysOwned` from `SocketInv`: listeners have different
  inodes, between a daemon's probe and its bind nobody answers at the path
  (`Probed`), and a guard that remembers the number of a listener which is not
  its own has `beside` on its account (`Unmistaken`). `LockKeepsSocket` adds
  `Held`: while no step takes the lock file from its holder (`LockStays`), whoever
  listens, drains or still has its guard holds the lock file at the path, so
  nothing is bound beside it and a listener loses its socket only to someone who
  deletes that file. `GroupsAlwaysBounded`
  from `CallsInv`: a group that was not killed is covered by a permit, its
  caller's or its owner task's, and the permits of a kind are within its
  capacity. `NothingLeaks` adds who holds what: a permit or the probe belongs to
  a call whose caller or owner task is still at work. `StopsInOrder` from
  `StopInv`: what the control server holds in each phase of the daemon (`Quiet`).
* **Feed.** A reader's list is a gapless beginning of the feed (`Gapless`), and
  what it has and its page together are everything behind its cursor (`Reader`).
  For the driver every step keeps that, also the loss of its unsaved page
  (`DriverActsOnce`, `PostsAlwaysInOrder`); for the follower every step but a
  resume does (`UninterruptedHasNoGap`).

Only model-checked is liveness under fairness, which the prover does not reach:
`EveryInputSettles`, `EveryPostSettles`, `ControlsComplete`, `JobsEnd`,
`EveryMessageAccounted`, `RequestsEnd`, `LocksReleased`, `IntentsSettle`,
`StopEnds`, `CallsEnd`. The refinements are of the abstract specifications'
initial states and steps; those state no fairness.

## Not modelled

Wording, prompts, encoding and layout; storage errors that stop the service,
which a crash covers (those that the code survives are steps: `TaskFails` and a
lost cancellation of the broker, whose `run` and `cancel` swallow theirs,
`approvals/mod.rs:205`, 212-216; a link or a start that cannot be recorded in
`Context` and `Calls`; a failed start in `Service`); the archive; the websocket protocol and the JSON messages
of the worker backends; parsing and validation of the configuration; read-only
parts (views, doctor, machine probes, dashboard). In `ThreadTurns`, handoffs,
linked threads and refused posts as inputs of a turn; worker results are inputs
in `Results`. In `Results`, the owner's edits of a note's text are steps of the
owner without content. In `Service`, deletion of the socket while a daemon
starts. In `Supervisor`, forked sessions and changes of the limits. In `Intake`
the gap of a note reaches to the pass's own time and not to the first message it
read (`slack/catchup.rs:131`), so what the note leaves open at its end is not seen.
In `Calls`, the fallback for a group that may not be signalled. In
`JobFiles`, the folders are closed in one step and a file has the same name in
every job.

## Plan

1. Done: the modules, the runs and the proofs above; every invariant, action
   property and refinement of a passing run has a theorem.
2. Next: abstract specifications of `Results` (a report per group, after its
   notes) and of `Intake` (a message is worked on or noted), whose promises are
   stated as invariants now.
3. Linked threads and handoffs as inputs of a turn; parsing of the
   configuration stays out.
