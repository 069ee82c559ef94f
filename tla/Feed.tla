-------------------------------- MODULE Feed --------------------------------
(***************************************************************************)
(* The event feed: the ledger's projection (control/events.rs), the page   *)
(* requests of GET /events (control/api.rs), `fridica events --follow`     *)
(* (control/cli.rs), and an external driver that posts for what it reads   *)
(* (threads/external.rs).                                                  *)
(*                                                                         *)
(* A record's cursor is its place in the ledger.  Answers can be lost and  *)
(* both readers can die at any moment; what they keep is their cursor.     *)
(***************************************************************************)
EXTENDS Integers, Sequences, FiniteSets

CONSTANTS
    Arrivals,   \* Slack messages
    Peers,      \* those another Fridica posted
    PageLimit,  \* records scanned per request
    MaxLedger, MaxLosses

ASSUME FeedConstants ==
    /\ Peers \subseteq Arrivals
    /\ PageLimit \in Nat \ {0} /\ MaxLedger \in Nat /\ MaxLosses \in Nat

VARIABLES
    ledger,    \* replay_events, in order
    outbox,    \* the driver's queued posts: key and the event each is about
    driver,    \* the driver's page, or idle
    saved,     \* the cursor the driver keeps
    follower,  \* the follower's page
    since,     \* the cursor it started from or reached
    printed,   \* the lines it printed
    losses

feedVars == <<ledger, outbox, driver, saved, follower, since, printed, losses>>

NoPage == [events |-> {}, next |-> -1]
Lost == losses < MaxLosses /\ losses' = losses + 1

-----------------------------------------------------------------------------
(* events.rs.                                                              *)

\* Slack may deliver a message again, and history catch-up under an event ID of
\* its own: the ledger has each arrival.  Records that mean nothing to a watcher
\* are "silent", the feed's own calls too.
Record(what, m) ==
    /\ Len(ledger) < MaxLedger
    /\ ledger' = Append(ledger, [what |-> what, of |-> m])
    /\ UNCHANGED <<outbox, driver, saved, follower, since, printed, losses>>

\* The message's row keeps the event ID and the time of its first arrival.  A
\* repeat is told by them, unless its own ID has no row.
Arrival(i) == ledger[i].what \in {"intake", "catchup"}
SameMessage(k, i) == Arrival(k) /\ Arrival(i) /\ ledger[k].of = ledger[i].of
Earliest(i) == Arrival(i) /\ \A k \in 1 .. i-1 : ~SameMessage(k, i)
Unkept(i) == \E k \in 1 .. i-1 : Earliest(k) /\ SameMessage(k, i) /\ ledger[k] # ledger[i]
First(i) == Earliest(i) \/ Unkept(i)

\* project: the event of a record, if it is one.
Event(i) ==
    CASE ledger[i].what = "completion" -> {"job"}
      [] Arrival(i) /\ First(i) -> {"message"}
      [] OTHER -> {}

\* project_all: a record's event, then what goes with it, under one cursor.
Extra(i) ==
    CASE ledger[i].what = "completion" -> {"job_result"}
      [] Arrival(i) /\ First(i) /\ ledger[i].of \in Peers -> {"peer_post"}
      [] OTHER -> {}
Project(i) == Event(i) \cup Extra(i)
Parts == {"job", "message", "job_result", "peer_post"}
Leads == {"job", "message"}

\* The objects of the records after `from`, up to `to`, and their order.
Objects(from, to) == {o \in [cursor : from+1 .. to, part : Parts] : o.part \in Project(o.cursor)}
Before(a, b) ==
    \/ a.cursor < b.cursor
    \/ a.cursor = b.cursor /\ a.part \in Leads /\ b.part \notin Leads
Heads(page) == {o \in page.events : \A p \in page.events : p = o \/ Before(o, p)}
Drop(page, o) == [page EXCEPT !.events = @ \ {o}]

\* events::read: at most a page of records; next is the last one scanned.
Scanned(after) == IF after + PageLimit < Len(ledger) THEN after + PageLimit ELSE Len(ledger)
Read(after) == [events |-> Objects(after, Scanned(after)), next |-> Scanned(after)]

-----------------------------------------------------------------------------
(* The driver.  It acts on a page, then keeps the page's `next`.           *)

DriverAsks ==
    /\ driver = NoPage /\ saved < Len(ledger)
    /\ \/ driver' = Read(saved) /\ UNCHANGED losses
       \/ Lost /\ UNCHANGED driver
    /\ UNCHANGED <<ledger, outbox, saved, follower, since, printed>>

\* external::post with a client ID: a repeated key finds its row, or is refused
\* as a conflict when the thread has turned since; it queues nothing either way.
QueuePostFresh(e) == Append(outbox, e)
QueuePost(e) == IF \E i \in DOMAIN outbox : outbox[i] = e THEN outbox ELSE Append(outbox, e)

\* A post whose answer is lost is sent again.
DriverPosts ==
    /\ driver # NoPage
    /\ \E o \in Heads(driver) :
          /\ outbox' = QueuePost(o)
          /\ \/ driver' = Drop(driver, o) /\ UNCHANGED losses
             \/ Lost /\ UNCHANGED driver
    /\ UNCHANGED <<ledger, saved, follower, since, printed>>

DriverSaves ==
    /\ driver # NoPage /\ driver.events = {}
    /\ saved' = driver.next
    /\ driver' = NoPage
    /\ UNCHANGED <<ledger, outbox, follower, since, printed, losses>>

DriverDies ==
    /\ driver # NoPage /\ Lost
    /\ driver' = NoPage
    /\ UNCHANGED <<ledger, outbox, saved, follower, since, printed>>

-----------------------------------------------------------------------------
(* `fridica events --follow`: Commands::events.                            *)

FollowerAsks ==
    /\ follower = NoPage /\ since < Len(ledger)
    /\ follower' = Read(since)
    /\ UNCHANGED <<ledger, outbox, driver, saved, since, printed, losses>>

FollowerPrints ==
    /\ follower # NoPage
    /\ \E o \in Heads(follower) :
          /\ printed' = Append(printed, o)
          /\ follower' = Drop(follower, o)
    /\ UNCHANGED <<ledger, outbox, driver, saved, since, losses>>

FollowerTurns ==
    /\ follower # NoPage /\ follower.events = {}
    /\ since' = follower.next
    /\ follower' = NoPage
    /\ UNCHANGED <<ledger, outbox, driver, saved, printed, losses>>

\* The follower is interrupted; the next one resumes after the cursor of the
\* last line.
FollowerResumes ==
    /\ printed # <<>> /\ Lost
    /\ since' = printed[Len(printed)].cursor
    /\ follower' = NoPage
    /\ UNCHANGED <<ledger, outbox, driver, saved, printed>>

-----------------------------------------------------------------------------
FeedInit ==
    /\ ledger = <<>> /\ outbox = <<>> /\ printed = <<>>
    /\ driver = NoPage /\ follower = NoPage
    /\ saved = 0 /\ since = 0 /\ losses = 0

FeedNext ==
    \/ Record("silent", 0) \/ Record("completion", Len(ledger))
    \/ \E m \in Arrivals : Record("intake", m) \/ Record("catchup", m)
    \/ DriverAsks \/ DriverPosts \/ DriverSaves \/ DriverDies
    \/ FollowerAsks \/ FollowerPrints \/ FollowerTurns \/ FollowerResumes

FeedSpec == FeedInit /\ [][FeedNext]_feedVars

-----------------------------------------------------------------------------
(* Properties.                                                             *)

\* A driver that keeps `next` and repeats its client IDs acts on every event
\* behind its cursor, once, and on a message once, however often Slack
\* delivered it under the ID it keeps, answers were lost or the driver died
\* (events::read, external::post).  A delivery under another ID is an event of
\* its own.
SameEvent(a, b) ==
    \/ a = b
    \/ a.part = b.part /\ ledger[a.cursor] = ledger[b.cursor] /\ ~Unkept(a.cursor)
ActsOnce ==
    /\ \A o \in Objects(0, saved) : \E i \in DOMAIN outbox : outbox[i] = o
    /\ \A i, k \in DOMAIN outbox : SameEvent(outbox[i], outbox[k]) => i = k

\* "--since resumes after one with no gap or repeat" (control/cli.rs): a line
\* is printed once and after everything before it in the feed.
Printed(e) == \E i \in DOMAIN printed : printed[i] = e
NoGapOrRepeat ==
    \A i \in DOMAIN printed :
        /\ \A k \in DOMAIN printed : printed[k] = printed[i] => k = i
        /\ \A o \in Objects(0, printed[i].cursor - 1) : Printed(o)

=============================================================================
