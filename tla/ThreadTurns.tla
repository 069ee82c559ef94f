---------------------------- MODULE ThreadTurns ----------------------------
(***************************************************************************)
(* One Slack thread of the daemon: its durable inbox, the serial actor     *)
(* that turns inbox items into replies (threads/actor.rs), the owner's     *)
(* controls (threads/controls.rs), reply reservations and obligations      *)
(* (attention/mod.rs).                                                     *)
(*                                                                         *)
(* A store transaction is one step.  The actor's turn is several: it       *)
(* claims an item, loads a snapshot, reads the driver, asks the parent     *)
(* model (an await during which anything may happen) and commits.  Owner   *)
(* controls, new messages, deliveries and crashes interleave with it.      *)
(*                                                                         *)
(* The clock is abstracted: later[i] says that not_before is in the        *)
(* future, armed[m] that an obligation's due time is.                      *)
(***************************************************************************)
EXTENDS Naturals, FiniteSets

CONSTANTS
  Messages,      \* Slack messages of the thread, each one inbox item
  Mentions,      \* the messages that mention the owner (not sent by the owner)
  Instructions,  \* owner instructions, by client ID
  Reminders,     \* obligation_due items
  About,         \* About[r]: the message whose obligation r reminds of
  NoItem,        \* no inbox item
  MaxControls,   \* bound on the owner's controls and driver changes
  MaxEdits,      \* bound on note changes, dispositions and posts sent again
  MaxFaults      \* bound on crashes, failed calls and deliveries, and deferrals

Items == Messages \cup Instructions \cup Reminders

ASSUME InboxAssumption ==
  /\ Mentions \subseteq Messages
  /\ About \in [Reminders -> Messages]
  /\ NoItem \notin Items
  /\ Messages \cap Instructions = {}
  /\ Messages \cap Reminders = {}
  /\ Instructions \cap Reminders = {}

ASSUME BoundAssumption ==
  /\ MaxControls \in Nat
  /\ MaxEdits \in Nat
  /\ MaxFaults \in Nat

VARIABLES
  control,    \* the thread's control
  version,    \* the thread's version, bumped by every control
  driver,     \* who starts the thread's work
  notes,      \* the revision of the thread's task notes
  review,     \* a failed parent call left the thread for owner review
  failed,     \* the item of the last decision, when that decision failed
  inbox,      \* the state of each inbox item
  attempts,   \* failed attempts at each item
  later,      \* the item may not be claimed yet
  reread,     \* the item was returned once already
  owned,      \* the item was requeued by the owner (owner_trigger)
  res,        \* the reply reservation of each item
  post,       \* the outbox row "<id>:reply" of each item
  links,      \* the obligations that row answers
  ask,        \* the obligation each message opened
  armed,      \* the obligation's due time is in the future
  signals,    \* items a failure signal was opened for
  delegated,  \* items whose turn queued worker jobs
  turn,       \* the actor's running turn
  up,         \* the daemon is running
  edits, faults, \* bounded choices of the owner and the environment so far
  epoch,      \* ghost: how many controls the owner has applied
  wiped,      \* ghost: items discarded by clean and not requeued since
  resent      \* ghost: items whose post the owner sent again

threadVars == <<control, version, driver, notes, review, failed>>
itemVars   == <<inbox, attempts, later, reread, owned>>
replyVars  == <<res, post, links>>
askVars    == <<ask, armed>>
effectVars == <<signals, delegated>>
envVars    == <<up, edits, faults>>
ghostVars  == <<epoch, wiped, resent>>
vars == <<threadVars, itemVars, replyVars, askVars, effectVars, turn, envVars, ghostVars>>

\* "closed" stands for closed and archived, which differ in name only.
Controls     == {"active", "paused", "closed", "cleaned"}
Terminal     == {"closed", "cleaned"}
ItemStates   == {"absent", "pending", "processing", "done", "dropped"}
Reservations == {"none", "reserved", "released", "sent"}
PostStates   == {"none", "pending", "sent", "failed", "ambiguous"}
AskStates    == {"none", "open", "deferred", "awaiting_delivery", "answered",
                 "declined", "expired", "owner_closed"}
Steps == {"idle", "claimed", "loaded", "ready", "triaging", "admit", "deciding", "erring"}

(***************************************************************************)
(* The actor's request: what load read, in one transaction.  known are the *)
(* obligations a decision may name, due says that the item's own           *)
(* obligation is still due, owner that the turn is the owner's.  epoch is  *)
(* a ghost copy.                                                           *)
(***************************************************************************)
Turns == [step: Steps, item: Items \cup {NoItem}, version: Nat, control: Controls,
          external: BOOLEAN, notes: Nat, review: BOOLEAN, seen: SUBSET Messages,
          known: SUBSET Messages, due: BOOLEAN, owner: BOOLEAN, repair: BOOLEAN,
          triaged: BOOLEAN, epoch: Nat]

Idle == [step |-> "idle", item |-> NoItem, version |-> 0, control |-> "active",
         external |-> FALSE, notes |-> 0, review |-> FALSE, seen |-> {},
         known |-> {}, due |-> FALSE, owner |-> FALSE, repair |-> FALSE,
         triaged |-> FALSE, epoch |-> 0]

TypeOK ==
  /\ control \in Controls /\ driver \in {"parent", "external"}
  /\ version \in Nat /\ notes \in Nat /\ epoch \in Nat
  /\ review \in BOOLEAN /\ up \in BOOLEAN
  /\ failed \in Items \cup {NoItem}
  /\ inbox \in [Items -> ItemStates]
  /\ attempts \in [Items -> 0..3]
  /\ later \in [Items -> BOOLEAN]
  /\ reread \in [Items -> BOOLEAN]
  /\ owned \in [Items -> BOOLEAN]
  /\ res \in [Items -> Reservations]
  /\ post \in [Items -> PostStates]
  /\ links \in [Items -> SUBSET Messages]
  /\ ask \in [Messages -> AskStates]
  /\ armed \in [Messages -> BOOLEAN]
  /\ signals \subseteq Items /\ delegated \subseteq Items /\ wiped \subseteq Items
  /\ resent \subseteq Items
  /\ turn \in Turns
  /\ edits \in Nat /\ faults \in Nat

Init ==
  /\ control = "active" /\ version = 0 /\ driver = "parent"
  /\ notes = 0 /\ review = FALSE /\ failed = NoItem
  /\ inbox = [i \in Items |-> "absent"]
  /\ attempts = [i \in Items |-> 0]
  /\ later = [i \in Items |-> FALSE]
  /\ reread = [i \in Items |-> FALSE]
  /\ owned = [i \in Items |-> FALSE]
  /\ res = [i \in Items |-> "none"]
  /\ post = [i \in Items |-> "none"]
  /\ links = [i \in Items |-> {}]
  /\ ask = [m \in Messages |-> "none"]
  /\ armed = [m \in Messages |-> FALSE]
  /\ signals = {} /\ delegated = {}
  /\ turn = Idle
  /\ up = TRUE /\ edits = 0 /\ faults = 0
  /\ epoch = 0 /\ wiped = {} /\ resent = {}

-----------------------------------------------------------------------------
Edit  == edits < MaxEdits /\ edits' = edits + 1
Fault == faults < MaxFaults /\ faults' = faults + 1

(***************************************************************************)
(* Intake and the attention sweep.                                         *)
(***************************************************************************)

Arrived == {m \in Messages : inbox[m] # "absent"}

Outstanding == {m \in Messages : ask[m] \in {"open", "deferred"}}

\* Every delivery of an answer to m definitely failed; an ambiguous one has not.
AllFailed(m) ==
  LET answers == {i \in Items : m \in links[i]}
  IN  answers # {} /\ \A i \in answers : post[i] = "failed"

\* Mutant of Known: an answer on its way may be answered again.
KnownAwaiting == {m \in Messages : ask[m] \in {"open", "deferred", "awaiting_delivery"}}

\* The obligations a decision may answer, decline or defer.
Known == Outstanding \cup {m \in Messages : ask[m] = "awaiting_delivery" /\ AllFailed(m)}

\* A message is stored with its inbox row and, for a mention, its obligation.
\* A redelivered message is already kept and changes nothing.
Intake(m) ==
  /\ up /\ inbox[m] = "absent"
  /\ inbox' = [inbox EXCEPT ![m] = "pending"]
  /\ ask' = IF m \in Mentions THEN [ask EXCEPT ![m] = "open"] ELSE ask
  /\ armed' = IF m \in Mentions THEN [armed EXCEPT ![m] = TRUE] ELSE armed
  /\ UNCHANGED <<threadVars, attempts, later, reread, owned, replyVars, effectVars, turn,
                 envVars, ghostVars>>

\* The sweep queues one reminder when an outstanding obligation falls due.
QueueDue(r) ==
  /\ up /\ inbox[r] = "absent"
  /\ About[r] \in Outstanding /\ armed[About[r]]
  /\ inbox' = [inbox EXCEPT ![r] = "pending"]
  /\ armed' = [armed EXCEPT ![About[r]] = FALSE]
  /\ UNCHANGED <<threadVars, attempts, later, reread, owned, replyVars, ask, effectVars,
                 turn, envVars, ghostVars>>

\* not_before passes.
Wake(i) ==
  /\ later[i] /\ inbox[i] = "pending"
  /\ later' = [later EXCEPT ![i] = FALSE]
  /\ UNCHANGED <<threadVars, inbox, attempts, reread, owned, replyVars, askVars,
                 effectVars, turn, envVars, ghostVars>>

-----------------------------------------------------------------------------
(***************************************************************************)
(* The actor's turn.                                                       *)
(***************************************************************************)

Claim(i) ==
  /\ up /\ turn.step = "idle"
  /\ inbox[i] = "pending" /\ ~later[i]
  /\ \A j \in Items : inbox[j] # "processing"
  /\ inbox' = [inbox EXCEPT ![i] = "processing"]
  /\ turn' = [Idle EXCEPT !.step = "claimed", !.item = i]
  /\ UNCHANGED <<threadVars, attempts, later, reread, owned, replyVars, askVars,
                 effectVars, envVars, ghostVars>>

\* The whole request is read in one transaction.
Load ==
  /\ turn.step = "claimed"
  /\ turn' = [turn EXCEPT
       !.step = "loaded", !.version = version, !.control = control, !.notes = notes,
       !.review = review, !.seen = Arrived, !.known = Known,
       !.due = /\ turn.item \in Reminders
               /\ About[turn.item] \in Outstanding
               /\ ~armed[About[turn.item]],
       !.owner = turn.item \in Instructions \/ owned[turn.item],
       !.epoch = epoch]
  /\ UNCHANGED <<threadVars, itemVars, replyVars, askVars, effectVars, envVars, ghostVars>>

\* The driver is read in a later transaction than the rest of the input.
ReadDriver ==
  /\ turn.step = "loaded"
  /\ turn' = [turn EXCEPT !.step = "ready", !.external = (driver = "external")]
  /\ UNCHANGED <<threadVars, itemVars, replyVars, askVars, effectVars, envVars, ghostVars>>

\* Mutant of Fresh: the item's state is checked, the version is not.
FreshByState == inbox[turn.item] = "processing"

\* The fence of every settlement: same thread version, item still claimed.
Fresh == version = turn.version /\ inbox[turn.item] = "processing"

\* Mutant of Unclaim: a stale settlement changes nothing at all.
UnclaimNothing(i) == inbox

\* A stale settlement puts a claimed item back and leaves any other alone.
Unclaim(i) == IF inbox[i] = "processing" THEN [inbox EXCEPT ![i] = "pending"] ELSE inbox

\* A reservation no post is attached to is given back.
Release(i) == IF res[i] = "reserved" /\ post[i] = "none"
              THEN [res EXCEPT ![i] = "released"] ELSE res

\* settle, settle_triage and settle_external: the item is finished unanswered.
Observe ==
  /\ turn' = Idle
  /\ IF Fresh
     THEN /\ inbox' = [inbox EXCEPT ![turn.item] = "done"]
          /\ res' = Release(turn.item)
     ELSE /\ inbox' = Unclaim(turn.item)
          /\ UNCHANGED res
  /\ UNCHANGED <<threadVars, attempts, later, reread, owned, post, links, askVars,
                 effectVars, envVars, ghostVars>>

\* settle with a time, retry_turn: the item waits for another turn.
Postpone ==
  /\ turn' = Idle
  /\ IF Fresh
     THEN /\ inbox' = [inbox EXCEPT ![turn.item] = "pending"]
          /\ later' = [later EXCEPT ![turn.item] = TRUE]
     ELSE /\ inbox' = Unclaim(turn.item)
          /\ UNCHANGED later
  /\ UNCHANGED <<threadVars, attempts, reread, owned, replyVars, askVars, effectVars,
                 up, edits, ghostVars>>

\* A thread that is not active, a message the gate does not let through (or
\* one an external driver handles), a reminder no longer due.
SettleQuietly ==
  /\ turn.step = "ready"
  /\ \/ turn.control # "active"
     \/ turn.item \in Messages
     \/ turn.item \in Reminders /\ ~turn.due
  /\ Observe

\* A reminder in a thread waiting for owner review.
SettleForReview ==
  /\ turn.step = "ready" /\ turn.control = "active"
  /\ turn.item \in Reminders /\ turn.due /\ turn.review
  /\ Postpone
  /\ UNCHANGED faults

\* The gate, or the item's kind, asks for a decision at once.
Proceed ==
  /\ turn.step = "ready" /\ turn.control = "active"
  /\ turn.item \in Reminders => turn.due /\ ~turn.review
  /\ turn' = [turn EXCEPT !.step = "admit"]
  /\ UNCHANGED <<threadVars, itemVars, replyVars, askVars, effectVars, envVars, ghostVars>>

\* The gate asks for a triage call first.
AskTriage ==
  /\ turn.step = "ready" /\ turn.control = "active" /\ turn.item \in Messages
  /\ turn' = [turn EXCEPT !.step = "triaging"]
  /\ UNCHANGED <<threadVars, itemVars, replyVars, askVars, effectVars, envVars, ghostVars>>

\* Triage says observe or ignore, or respond to a turn that is stale by now.
TriageQuiet ==
  /\ turn.step = "triaging"
  /\ Observe

\* Triage says respond and the turn is still live.
TriageRespond ==
  /\ turn.step = "triaging" /\ Fresh
  /\ turn' = [turn EXCEPT !.step = "admit", !.triaged = TRUE]
  /\ UNCHANGED <<threadVars, itemVars, replyVars, askVars, effectVars, envVars, ghostVars>>

\* A usage limit or a contended login: the turn is redone later.
RetryLater ==
  /\ turn.step \in {"triaging", "deciding"}
  /\ Fault
  /\ Postpone

Admissible == /\ control = "active"
              /\ inbox[turn.item] \in {"pending", "processing"}
              /\ res[turn.item] # "sent"

\* reserve: an hourly ceiling defers the item; the owner's own turns are exempt.
ReserveDeferred ==
  /\ turn.step = "admit" /\ Admissible
  /\ res[turn.item] # "reserved" /\ ~turn.owner
  /\ Fault
  /\ inbox' = [inbox EXCEPT ![turn.item] = "pending"]
  /\ later' = [later EXCEPT ![turn.item] = TRUE]
  /\ turn' = Idle
  /\ UNCHANGED <<threadVars, attempts, reread, owned, replyVars, askVars, effectVars,
                 up, edits, ghostVars>>

Reserve ==
  /\ turn.step = "admit" /\ Admissible
  /\ res' = [res EXCEPT ![turn.item] = "reserved"]
  /\ turn' = [turn EXCEPT !.step = "deciding"]
  /\ UNCHANGED <<threadVars, itemVars, post, links, askVars, effectVars, envVars, ghostVars>>

\* reserve refuses: the thread is no longer active, the item is closed or replied.
ReserveRefused ==
  /\ turn.step = "admit" /\ ~Admissible
  /\ turn' = [turn EXCEPT !.step = "erring"]
  /\ UNCHANGED <<threadVars, itemVars, replyVars, askVars, effectVars, envVars, ghostVars>>

\* The parent's answer fails validation: one repair call.
Repair ==
  /\ turn.step = "deciding" /\ ~turn.repair
  /\ turn' = [turn EXCEPT !.repair = TRUE]
  /\ UNCHANGED <<threadVars, itemVars, replyVars, askVars, effectVars, envVars, ghostVars>>

\* Recording the call failed: nothing may be applied.
CallFails ==
  /\ turn.step \in {"triaging", "deciding"}
  /\ Fault
  /\ turn' = [turn EXCEPT !.step = "erring"]
  /\ UNCHANGED <<threadVars, itemVars, replyVars, askVars, effectVars, up, edits, ghostVars>>

\* Mutant of FailTurn: a late error is recorded whatever became of the item.
FailTurnUnchecked ==
  /\ turn.step = "erring"
  /\ turn' = Idle
  /\ signals' = signals \cup {turn.item}
  /\ UNCHANGED <<threadVars, itemVars, replyVars, askVars, delegated, envVars, ghostVars>>

\* Mutant of FailTurn: the item is dropped one attempt early.
FailTurnEarly ==
  /\ turn.step = "erring" /\ inbox[turn.item] = "processing"
  /\ turn' = Idle
  /\ inbox' = [inbox EXCEPT ![turn.item] =
                 IF attempts[turn.item] >= 1 THEN "dropped" ELSE "pending"]
  /\ attempts' = [attempts EXCEPT ![turn.item] = @ + 1]
  /\ signals' = signals \cup {turn.item}
  /\ UNCHANGED <<threadVars, later, reread, owned, replyVars, askVars, delegated, envVars,
                 ghostVars>>

\* The error of a turn is recorded only while the item is still claimed.
FailTurn ==
  /\ turn.step = "erring"
  /\ turn' = Idle
  /\ IF inbox[turn.item] = "processing"
     THEN /\ inbox' = [inbox EXCEPT ![turn.item] =
                         IF attempts[turn.item] >= 2 THEN "dropped" ELSE "pending"]
          /\ attempts' = [attempts EXCEPT ![turn.item] = IF @ >= 2 THEN 3 ELSE @ + 1]
          /\ later' = [later EXCEPT ![turn.item] = TRUE]
          /\ signals' = signals \cup {turn.item}
     ELSE UNCHANGED <<inbox, attempts, later, signals>>
  /\ UNCHANGED <<threadVars, reread, owned, replyVars, askVars, delegated, envVars, ghostVars>>

-----------------------------------------------------------------------------
(***************************************************************************)
(* The commit of a decision.  reply is a substantive answer, notice a      *)
(* blocked notice (it answers nothing), silent posts nothing (or a reply   *)
(* suppressed as a duplicate), muted is a suppressed blocked notice, and   *)
(* stand_in is the blocked decision put in place of a parent that failed   *)
(* or stayed invalid after repair.                                         *)
(***************************************************************************)
Replies == {"reply", "notice"}

Decisions ==
  {d \in [kind: {"reply", "notice", "silent", "muted", "stand_in"}, answers: SUBSET turn.known,
          declines: SUBSET turn.known, defers: SUBSET turn.known,
          delegates: BOOLEAN, asks: BOOLEAN, notes: BOOLEAN] :
     /\ d.answers \cap (d.declines \cup d.defers) = {}
     /\ d.declines \cap d.defers = {}
     /\ d.kind # "reply" => d.answers = {}
     /\ d.delegates => ~turn.external /\ d.kind # "muted"
     /\ d.kind = "stand_in" => /\ d.declines = {} /\ d.defers = {}
                               /\ ~d.delegates /\ ~d.asks /\ ~d.notes}

\* What makes the decision stale: a control, an edit of the notes, or a message
\* that arrived during the call, the last one only once per item.
Current ==
  /\ Fresh
  /\ control = "active"
  /\ notes = turn.notes
  /\ Arrived \subseteq turn.seen \/ reread[turn.item]

\* return_turn marks the item so that later arrivals do not return it again.
CommitStale ==
  /\ turn.step = "deciding" /\ ~Current
  /\ turn' = Idle
  /\ inbox' = Unclaim(turn.item)
  /\ reread' = IF inbox[turn.item] = "processing"
               THEN [reread EXCEPT ![turn.item] = TRUE] ELSE reread
  /\ UNCHANGED <<threadVars, attempts, later, owned, replyVars, askVars, effectVars,
                 envVars, ghostVars>>

\* Another thread of the channel spoke unasked within the cooldown.
CommitCooling ==
  /\ turn.step = "deciding" /\ Current /\ turn.triaged
  /\ Fault
  /\ turn' = Idle
  /\ inbox' = [inbox EXCEPT ![turn.item] = "pending"]
  /\ later' = [later EXCEPT ![turn.item] = TRUE]
  /\ UNCHANGED <<threadVars, attempts, reread, owned, replyVars, askVars, effectVars,
                 up, edits, ghostVars>>

\* A reply is queued once: with a post already attached the old one stands.
Queues(d) == d.kind \in Replies /\ post[turn.item] = "none"

\* The reservation is spent, or an obligation the decision names was closed or
\* is being answered meanwhile: the whole transaction is discarded.
Conflict(d) ==
  \/ d.kind \in Replies /\ res[turn.item] # "reserved"
  \/ Queues(d) /\ ~(d.answers \subseteq Known)
  \/ ~(d.declines \cup d.defers \subseteq Known)

CommitConflict ==
  /\ turn.step = "deciding" /\ Current
  /\ \E d \in Decisions : Conflict(d)
  /\ turn' = [turn EXCEPT !.step = "erring"]
  /\ UNCHANGED <<threadVars, itemVars, replyVars, askVars, effectVars, envVars, ghostVars>>

\* Mutant of Disposed: an obligation is met when its answer is queued.
DisposedWhenQueued(d) ==
  [m \in Messages |-> IF Queues(d) /\ m \in d.answers THEN "answered" ELSE ask[m]]

\* The obligations after the decision's dispositions, extracted ask and answers.
Disposed(d) ==
  [m \in Messages |->
     IF Queues(d) /\ m \in d.answers THEN "awaiting_delivery"
     ELSE IF m \in d.declines THEN "declined"
     ELSE IF m \in d.defers THEN "deferred"
     ELSE IF d.asks /\ m = turn.item /\ ask[m] = "none" THEN "open"
     ELSE ask[m]]

Rearmed(d) ==
  [m \in Messages |-> \/ m \in d.defers
                      \/ d.asks /\ m = turn.item /\ ask[m] = "none"
                      \/ armed[m]]

Commit(d) ==
  /\ turn.step = "deciding" /\ Current /\ ~Conflict(d)
  /\ turn' = Idle
  /\ inbox' = [inbox EXCEPT ![turn.item] = "done"]
  /\ IF Queues(d)
     THEN /\ post' = [post EXCEPT ![turn.item] = "pending"]
          /\ links' = [links EXCEPT ![turn.item] = d.answers]
          /\ UNCHANGED res
     ELSE /\ res' = Release(turn.item)
          /\ UNCHANGED <<post, links>>
  /\ ask' = Disposed(d)
  /\ armed' = Rearmed(d)
  /\ delegated' = IF d.delegates THEN delegated \cup {turn.item} ELSE delegated
  /\ review' = IF d.kind \in {"notice", "muted"} THEN review ELSE d.kind = "stand_in"
  /\ failed' = IF d.kind = "stand_in" THEN turn.item ELSE NoItem
  /\ IF d.notes THEN Edit /\ notes' = notes + 1 ELSE UNCHANGED <<edits, notes>>
  /\ UNCHANGED <<control, version, driver, attempts, later, reread, owned, signals,
                 up, faults, ghostVars>>

-----------------------------------------------------------------------------
(***************************************************************************)
(* The owner.  Every control is one transaction that bumps the version.    *)
(***************************************************************************)

\* set_control
SetControl(c) ==
  /\ up /\ epoch < MaxControls
  /\ control' = c
  /\ version' = version + 1
  /\ epoch' = epoch + 1

Pause ==
  /\ control \notin Terminal
  /\ SetControl("paused")
  /\ UNCHANGED <<driver, notes, review, failed, itemVars, replyVars, askVars, effectVars,
                 turn, envVars, wiped, resent>>

\* The items the owner asks for again, claimable at once.
Requeued(S) == /\ inbox' = [i \in Items |-> IF i \in S THEN "pending" ELSE inbox[i]]
               /\ later' = [i \in Items |-> later[i] /\ i \notin S]
               /\ wiped' = wiped \ S

\* Resume replays the latest message that has no durable work yet, as the owner's.
Resume ==
  /\ control \notin Terminal
  /\ SetControl("active")
  /\ \E S \in {{}} \cup {{m} : m \in Arrived \ delegated} :
       /\ Requeued(S)
       /\ owned' = [i \in Items |-> owned[i] \/ i \in S]
  /\ UNCHANGED <<driver, notes, review, failed, attempts, reread, replyVars, askVars,
                 effectVars, turn, envVars, resent>>

\* An instruction resumes the thread; its client ID makes a repeat a no-op.
Instruct(c) ==
  /\ control \notin Terminal /\ inbox[c] = "absent"
  /\ SetControl("active")
  /\ inbox' = [inbox EXCEPT ![c] = "pending"]
  /\ UNCHANGED <<driver, notes, review, failed, attempts, later, reread, owned, replyVars,
                 askVars, effectVars, turn, envVars, wiped, resent>>

\* Retry requeues, once, the item whose decision failed last.
Retry ==
  /\ control = "active" /\ failed # NoItem
  /\ SetControl("active")
  /\ Requeued({failed})
  /\ failed' = NoItem
  /\ UNCHANGED <<driver, notes, review, attempts, reread, owned, replyVars, askVars,
                 effectVars, turn, envVars, resent>>

\* Restore replays nothing.  It may also be refused while workers stop, which
\* is the supervisor's state.
Restore ==
  /\ SetControl("active")
  /\ UNCHANGED <<driver, notes, review, failed, itemVars, replyVars, askVars, effectVars,
                 turn, envVars, wiped, resent>>

Close ==
  /\ SetControl("closed")
  /\ UNCHANGED <<driver, notes, review, failed, itemVars, replyVars, askVars, effectVars,
                 turn, envVars, wiped, resent>>

\* Clean discards unfinished input, closes obligations and gives reservations back.
Clean ==
  LET discarded == {i \in Items : inbox[i] \in {"pending", "processing"}} IN
  /\ SetControl("cleaned")
  /\ inbox' = [i \in Items |-> IF i \in discarded THEN "dropped" ELSE inbox[i]]
  /\ res' = [i \in Items |-> IF res[i] = "reserved" /\ post[i] = "none"
                             THEN "released" ELSE res[i]]
  /\ ask' = [m \in Messages |-> IF ask[m] \in {"open", "deferred", "awaiting_delivery"}
                                THEN "owner_closed" ELSE ask[m]]
  /\ failed' = NoItem
  /\ wiped' = wiped \cup discarded
  /\ UNCHANGED <<driver, notes, review, attempts, later, reread, owned, post, links, armed,
                 effectVars, turn, envVars, resent>>

\* Mutant of SetDriver: a driver change leaves the version alone.
SetDriverQuietly ==
  /\ up /\ epoch < MaxControls
  /\ driver' = IF driver = "parent" THEN "external" ELSE "parent"
  /\ epoch' = epoch + 1
  /\ UNCHANGED <<control, version, notes, review, failed, itemVars, replyVars, askVars,
                 effectVars, turn, envVars, wiped, resent>>

\* The driver route of the control API also bumps the version.
SetDriver ==
  /\ up /\ epoch < MaxControls
  /\ driver' = IF driver = "parent" THEN "external" ELSE "parent"
  /\ version' = version + 1
  /\ epoch' = epoch + 1
  /\ UNCHANGED <<control, notes, review, failed, itemVars, replyVars, askVars, effectVars,
                 turn, envVars, wiped, resent>>

\* An edit of the notes bumps their revision, not the thread's version.
EditNotes ==
  /\ up /\ Edit
  /\ notes' = notes + 1
  /\ UNCHANGED <<control, version, driver, review, failed, itemVars, replyVars, askVars,
                 effectVars, turn, up, faults, ghostVars>>

\* A disposition through the control API; only closing may overtake a delivery.
Dispose(m) ==
  /\ up /\ Edit
  /\ \/ /\ m \in Outstanding
        /\ \E s \in {"declined", "deferred", "expired", "owner_closed"} :
             /\ ask' = [ask EXCEPT ![m] = s]
             /\ armed' = [armed EXCEPT ![m] = @ \/ s = "deferred"]
     \/ /\ ask[m] = "awaiting_delivery"
        /\ ask' = [ask EXCEPT ![m] = "owner_closed"]
        /\ UNCHANGED armed
  /\ UNCHANGED <<threadVars, itemVars, replyVars, effectVars, turn, up, faults, ghostVars>>

-----------------------------------------------------------------------------
(***************************************************************************)
(* Delivery, as the thread sees it (Outbox models the attempts), and the   *)
(* daemon's crashes.                                                       *)
(***************************************************************************)

\* Mutant of Delivered: the reservation takes the post's vocabulary.
DeliveredMislabelled(i) ==
  /\ up /\ post[i] = "pending"
  /\ post' = [post EXCEPT ![i] = "sent"]
  /\ res' = [res EXCEPT ![i] = "delivered"]
  /\ UNCHANGED <<threadVars, itemVars, links, askVars, effectVars, turn, envVars, ghostVars>>

\* confirm_post: the obligations the post answers are met.
Delivered(i) ==
  /\ up /\ post[i] = "pending"
  /\ post' = [post EXCEPT ![i] = "sent"]
  /\ res' = [res EXCEPT ![i] = "sent"]
  /\ ask' = [m \in Messages |-> IF m \in links[i] /\ ask[m] = "awaiting_delivery"
                                THEN "answered" ELSE ask[m]]
  /\ UNCHANGED <<threadVars, itemVars, links, armed, effectVars, turn, envVars, ghostVars>>

\* A refusal is definite; a timeout, a 5xx or a crash while sending is not.
Undelivered(i) ==
  /\ post[i] = "pending" /\ Fault
  /\ \E s \in {"failed", "ambiguous"} : post' = [post EXCEPT ![i] = s]
  /\ UNCHANGED <<threadVars, itemVars, res, links, askVars, effectVars, turn, up, edits,
                 ghostVars>>

\* Only the owner sends a failed or ambiguous post again.
RequeuePost(i) ==
  /\ up /\ post[i] \in {"failed", "ambiguous"} /\ Edit
  /\ post' = [post EXCEPT ![i] = "pending"]
  /\ resent' = resent \cup {i}
  /\ UNCHANGED <<threadVars, itemVars, res, links, askVars, effectVars, turn, up, faults,
                 epoch, wiped>>

Crash ==
  /\ up /\ Fault
  /\ up' = FALSE
  /\ turn' = Idle
  /\ UNCHANGED <<threadVars, itemVars, replyVars, askVars, effectVars, edits, ghostVars>>

\* Startup recovery returns claimed items; reservations stay with them.
Restart ==
  /\ ~up
  /\ up' = TRUE
  /\ inbox' = [i \in Items |-> IF inbox[i] = "processing" THEN "pending" ELSE inbox[i]]
  /\ UNCHANGED <<threadVars, attempts, later, reread, owned, replyVars, askVars, effectVars,
                 turn, edits, faults, ghostVars>>

-----------------------------------------------------------------------------
TurnStep ==
  \/ Load \/ ReadDriver
  \/ SettleQuietly \/ SettleForReview \/ Proceed \/ AskTriage
  \/ TriageQuiet \/ TriageRespond \/ RetryLater
  \/ ReserveDeferred \/ Reserve \/ ReserveRefused
  \/ Repair \/ CallFails \/ FailTurn
  \/ CommitStale \/ CommitCooling \/ CommitConflict
  \/ \E d \in Decisions : Commit(d)

OwnerStep ==
  \/ Pause \/ Resume \/ Retry \/ Restore \/ Close \/ Clean \/ SetDriver \/ EditNotes
  \/ \E c \in Instructions : Instruct(c)
  \/ \E m \in Messages : Dispose(m)
  \/ \E i \in Items : RequeuePost(i)

WorldStep ==
  \/ \E m \in Messages : Intake(m)
  \/ \E r \in Reminders : QueueDue(r)
  \/ \E i \in Items : Wake(i) \/ Delivered(i) \/ Undelivered(i)
  \/ Crash \/ Restart

Next ==
  \/ \E i \in Items : Claim(i)
  \/ TurnStep
  \/ OwnerStep
  \/ WorldStep

Spec == Init /\ [][Next]_vars

(***************************************************************************)
(* Fairness: a parent call always ends (it has a timeout) and the manager  *)
(* sweeps every pass, so a running turn moves and a claimable item is      *)
(* claimed; not_before passes; a crashed daemon is started again.  Nothing *)
(* is assumed of the owner, of Slack or of what the parent answers.        *)
(***************************************************************************)
Fairness ==
  /\ WF_vars(TurnStep)
  /\ \A i \in Items : SF_vars(Claim(i)) /\ WF_vars(Wake(i))
  /\ WF_vars(Restart)

FairSpec == Spec /\ Fairness
-----------------------------------------------------------------------------
(***************************************************************************)
(* Properties.                                                             *)
(***************************************************************************)

\* While the daemon runs, a claimed item is the running turn's item: no exit of
\* the actor, stale or failed, and no restart leaves an item claimed forever
\* (actor.rs step, settle, commit; recover).
ClaimOwned ==
  up => \A i \in Items : inbox[i] = "processing" => turn.step # "idle" /\ turn.item = i

\* An obligation counts as answered only when a post that answers it was
\* delivered, and one awaiting delivery has an answer on its way or waiting for
\* the owner: it is never lost between the outbox and the attention view
\* (queue_answer_tx, confirm_post, disposition).
AnswersMatchDelivery ==
  \A m \in Messages :
    /\ ask[m] = "answered" => \E i \in Items : m \in links[i] /\ post[i] = "sent"
    /\ ask[m] = "awaiting_delivery" =>
         \E i \in Items : m \in links[i] /\ post[i] \in {"pending", "failed", "ambiguous"}

\* The obligations keep the promise of Obligations: what ended stays ended under every
\* late decision and delivery, and is answered only by a delivery.
AnswersOf == [m \in Messages |-> {post[i] : i \in {j \in Items : m \in links[j]}}]
Attention == INSTANCE Obligations WITH answers <- AnswersOf
ImplementsObligations == Attention!Spec

\* An item is discarded only by clean, or after three failures with a signal
\* that shows the loss to the owner (step's error path).
DropsAreVisible ==
  \A i \in Items : inbox[i] = "dropped" => i \in wiped \/ (attempts[i] = 3 /\ i \in signals)

\* A turn finishes an item, or queues a post, only if no control was applied and
\* the notes did not change since its input was read: a late observation cannot
\* consume an item the owner has just resumed, and a late decision cannot post
\* in a paused, closed or cleaned thread (the version fences of settle and commit).
FreshDecision ==
  [][\A i \in Items :
       /\ inbox[i] # "done" /\ inbox'[i] = "done" => turn.item = i /\ turn.epoch = epoch
       /\ post[i] = "none" /\ post'[i] # "none" =>
            /\ turn.item = i /\ turn.epoch = epoch /\ turn.notes = notes
            /\ control = "active"]_vars

\* What clean discarded stays discarded until the owner asks for it again: no
\* running turn finishes it, requeues it, posts for it, delegates for it or
\* raises a failure signal for it (wipe, return_turn, the late-error check).
WipedIsInert ==
  [][\A i \in wiped \cap wiped' :
       /\ inbox'[i] = "dropped"
       /\ post[i] = "none" => post'[i] = "none"
       /\ i \in signals' => i \in signals
       /\ i \in delegated' => i \in delegated]_vars

\* No answer is queued for an obligation while an earlier answer to it is queued
\* or of unknown fate, unless the owner sent that one again by hand: reminders and
\* new messages cannot regenerate an uncertain answer (validate, answer_queued).
NoSecondAnswer ==
  [][\A i, j \in Items : \A m \in links'[i] \ links[i] :
       m \in links[j] => post[j] \in {"failed", "sent"} \/ j \in resent]_vars

\* A turn never delegates in a thread whose work belongs to an external driver,
\* although the driver is read after the rest of the input (handle).
DriverOwnsWork ==
  [][delegated' # delegated => driver = "parent"]_vars

\* docs/v0.4-implementation-status.md:599 says that the owner's resume "bypasses
\* non-owner reply ceilings": an item the owner requeued, ready to be claimed, is
\* never put off.
ResumeBypassesCeilings ==
  [][\A i \in Items : owned[i] /\ inbox[i] = "pending" /\ ~later[i] => ~later'[i]]_vars

\* Every message and instruction is settled: handled, observed or dropped.
EveryInputSettles ==
  \A i \in Messages \cup Instructions :
    inbox[i] = "pending" ~> inbox[i] \in {"done", "dropped"}
=============================================================================
