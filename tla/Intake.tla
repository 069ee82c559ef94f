------------------------------- MODULE Intake -------------------------------
(***************************************************************************)
(* How a channel's Slack messages reach the store.  Socket Mode delivers   *)
(* an envelope, perhaps more than once, and is acknowledged after the      *)
(* transaction (slack/receiver.rs).  Catch-up passes reread the history    *)
(* behind a durable watermark (slack/catchup.rs), scheduled by the history *)
(* loop of threads/service.rs.  Both end in attention::intake_tx.          *)
(*                                                                         *)
(* Times are integers.  One channel is modelled: channels share nothing    *)
(* but the pass.  A pass is its three awaits: start, the pages, and the    *)
(* commit; the pages of a pass are read at one instant.                    *)
(***************************************************************************)
EXTENDS Integers, FiniteSets, FiniteSetsExt

CONSTANTS
    Msgs,         \* the messages people may post
    RootOf,       \* the root of each message's thread; a root is its own
    Mentions,     \* those that mention the owner
    Unsupported,  \* those normalize() has no message for
    Waiting,      \* the roots whose thread waits for an answer
    Services,     \* catch-up services
    Rivals,       \* those besides the daemon's own, with a bounded number of passes
    Migrated,     \* messages an imported database holds, without obligations
    Clients,      \* the client ids of the owner's backfill requests
    Window, Recent, MaxWindow, Overlap, Day,
    MaxTime, MaxPosts, MaxFaults

ASSUME IntakeConstants ==
    /\ RootOf \in [Msgs -> Msgs]
    /\ \A m \in Msgs : RootOf[RootOf[m]] = RootOf[m]
    /\ Mentions \subseteq Msgs /\ Unsupported \subseteq Msgs /\ Migrated \subseteq Msgs
    /\ {Window, Recent, MaxWindow, Overlap, Day, MaxTime, MaxPosts, MaxFaults} \subseteq Nat
    /\ Rivals \subseteq Services
    /\ Overlap =< Window /\ Recent =< Window /\ Window =< MaxWindow

VARIABLES
    clock,
    sent,      \* the timestamp Slack gave a message, 0 before it is posted
    kept,      \* the messages the store holds
    inbox,     \* how often a message was queued as work
    mention,   \* whether a mention has its obligation
    notes,     \* health notes: unsupported mentions and refused threads
    mark,      \* catchup_mark, 0 when there is none
    truncated, \* truncated_passes
    gaps,      \* the messages in windows given up with slack_catchup_gap
    pass,      \* per service: the pass in flight
    window,    \* per service: the window of its next pass
    prior,     \* the messages stored before this daemon started
    applied,   \* the backfill requests that were applied
    since,     \* nothing posted from here on is lost silently (history variable)
    faults

store == <<kept, inbox, mention, notes, mark, truncated, gaps>>
vars == <<clock, sent, store, pass, window, prior, applied, since, faults>>

Idle == [at |-> "idle"]
Roots == {m \in Msgs : RootOf[m] = m}
Posted == {m \in Msgs : sent[m] # 0}

-----------------------------------------------------------------------------
(* Slack and the clock.                                                    *)

Tick == /\ clock < MaxTime
        /\ clock' = clock + 1
        /\ UNCHANGED <<sent, store, pass, window, prior, applied, since, faults>>

\* A message's timestamp is Slack's, which may lag the daemon's clock by less
\* than the overlap.
Post(m) ==
    /\ sent[m] = 0 /\ Cardinality(Posted \ Migrated) < MaxPosts
    /\ RootOf[m] # m => sent[RootOf[m]] # 0
    /\ \E ts \in {clock, clock - Overlap} :
          /\ ts >= Max({1, sent[RootOf[m]]})
          /\ sent' = [sent EXCEPT ![m] = ts]
    /\ UNCHANGED <<clock, store, pass, window, prior, applied, since, faults>>

-----------------------------------------------------------------------------
(* intake_tx.                                                              *)

\* keep_message stores one row per (workspace, channel, timestamp).
KeepMessageByEventId(read) == read
KeepMessage(read) == read \ kept

\* Work for the actor: everything live, and of the history what is recent,
\* mentions the owner or answers a waiting thread.
IsWorkUnmentioned(m, cutoff) == sent[m] >= cutoff \/ RootOf[m] \in Waiting
IsWork(m, cutoff) ==
    \/ sent[m] >= cutoff
    \/ m \in Mentions
    \/ RootOf[m] \in Waiting

\* intake_tx for a batch: store the new ones, queue the work, open the
\* obligations.
IntakeTx(read, cutoff) ==
    LET new  == KeepMessage(read)
        work == {m \in new : IsWork(m, cutoff)}
    IN  /\ kept' = kept \cup new
        /\ inbox' = [m \in Msgs |-> inbox[m] + IF m \in work THEN 1 ELSE 0]
        /\ mention' = [m \in Msgs |->
               mention[m] \/ m \in work \cap Mentions]

-----------------------------------------------------------------------------
(* Receiver::receive: one transaction, then the acknowledgement.  Slack    *)
(* may deliver a message any number of times, in a new envelope each time  *)
(* an acknowledgement is lost, or never when the daemon is not connected.  *)

Receive(m) ==
    /\ m \in Posted
    /\ IntakeTx({m} \ Unsupported, -MaxTime)
    /\ notes' = notes \cup ({m} \cap Unsupported \cap Mentions)
    /\ UNCHANGED <<clock, sent, mark, truncated, gaps, pass, window, prior, applied, since, faults>>

-----------------------------------------------------------------------------
(* Catchup::run.                                                           *)

\* latest_message_ts: the newest message stored before the daemon started.
LatestAny == Max({0} \cup {sent[m] : m \in kept})
Latest == Max({0} \cup {sent[m] : m \in prior})

\* The window of a pass: back to the mark or the latest message, with the
\* overlap, at least `window`, at most MaxWindow.
Oldest(w) ==
    LET from == IF mark # 0 THEN mark ELSE Latest
        back == IF from = 0 THEN clock - w ELSE Min({clock - w, from - Overlap})
    IN  Max({back, clock - MaxWindow})

Begin(s) ==
    /\ pass[s].at = "idle"
    /\ s \in Rivals => faults < MaxFaults
    /\ faults' = faults + (IF s \in Rivals THEN 1 ELSE 0)
    /\ pass' = [pass EXCEPT ![s] =
          [at |-> "reading", now |-> clock, oldest |-> Oldest(window[s]), mark |-> mark,
           roots |-> {r \in Roots : \E m \in kept : RootOf[m] = r}]]
    /\ UNCHANGED <<clock, sent, store, window, prior, applied, since>>

\* history_loop: the next pass rereads a whole Window after a failure or a
\* truncated one, and only Recent otherwise.
Schedule(s, complete) ==
    /\ pass' = [pass EXCEPT ![s] = Idle]
    /\ window' = [window EXCEPT ![s] = IF complete THEN Recent ELSE Window]

\* A refused channel, a timeout, a broken page or too much data ends the pass
\* with the watermark as it was.
FetchFails(s) ==
    /\ pass[s].at = "reading"
    /\ faults < MaxFaults
    /\ faults' = faults + 1
    /\ Schedule(s, FALSE)
    /\ UNCHANGED <<clock, sent, store, prior, applied, since>>

\* recent: the channel's history newest first, down to `cut`, then the threads
\* of the known roots and of the roots just found.
Visible(p) == {m \in Posted : sent[m] >= p.oldest}
Found(p, cut) == {m \in Visible(p) \cap Roots : sent[m] >= cut}
Listed(p, cut) == p.roots \cup {r \in Found(p, cut) : \E m \in Posted : RootOf[m] = r /\ m # r}
Pages(p, cut, skipped) ==
    Found(p, cut) \cup {m \in Visible(p) \ Roots : RootOf[m] \in Listed(p, cut) \ skipped}

\* A truncated listing ends early; a thread Slack refuses is skipped and does
\* not make the pass incomplete.
Fetch(s) ==
    LET p == pass[s]
    IN  /\ p.at = "reading"
        /\ \E cut \in {p.oldest} \cup {sent[m] + 1 : m \in Visible(p) \cap Roots} :
           \E refused \in SUBSET Listed(p, cut), short \in SUBSET Listed(p, cut) :
              /\ refused \cap short = {}
              /\ refused # {} => faults < MaxFaults
              /\ faults' = faults + (IF refused # {} THEN 1 ELSE 0)
              /\ pass' = [pass EXCEPT ![s] =
                    [at |-> "read", now |-> p.now, oldest |-> p.oldest, mark |-> p.mark,
                     read |-> Pages(p, cut, refused \cup short), refused |-> refused,
                     complete |-> cut = p.oldest /\ short = {}]]
        /\ UNCHANGED <<clock, sent, store, window, prior, applied, since>>

\* The fence: the watermark is still the one the pass started from.
Fenced(p) == mark = p.mark

\* The watermark a pass leaves: a truncated pass keeps it once, the second
\* gives the rest up.
RunsForgotten == 1
Runs == truncated + 1
GiveUp(runs) == runs >= 2

NextMarkAlways(p, runs) == p.now
NextMark(p, runs) ==
    IF p.complete \/ GiveUp(runs) THEN p.now
    ELSE IF p.mark # 0 THEN p.mark ELSE p.oldest + Overlap

\* The commit of a pass.  A mark that moved meanwhile aborts the transaction.
CommitPass(s) ==
    LET p == pass[s]
        runs == Runs
    IN  /\ p.at = "read"
        /\ \/ /\ Fenced(p)
              /\ IntakeTx(p.read \ Unsupported, p.now - Day)
              /\ notes' = notes \cup p.refused \cup (p.read \cap Unsupported \cap Mentions)
              /\ mark' = NextMark(p, runs)
              /\ truncated' = IF p.complete \/ GiveUp(runs) THEN 0 ELSE runs
              /\ gaps' = IF ~p.complete /\ GiveUp(runs)
                         THEN gaps \cup {m \in Posted : sent[m] \in p.oldest .. p.now} ELSE gaps
              /\ Schedule(s, p.complete)
              /\ since' = IF mark = 0 /\ Latest = 0 THEN Max({since, p.oldest})
                          ELSE Max({since, p.now - MaxWindow})
           \/ /\ ~Fenced(p)
              /\ Schedule(s, FALSE)
              /\ UNCHANGED <<store, since>>
        /\ UNCHANGED <<clock, sent, prior, applied, faults>>

-----------------------------------------------------------------------------
(* The daemon dies and starts again; Slack keeps its unacknowledged        *)
(* envelopes.  Without a mark the new daemon catches up from the newest    *)
(* message an earlier one stored.                                          *)
Restart ==
    /\ faults < MaxFaults
    /\ faults' = faults + 1
    /\ pass' = [s \in Services |-> Idle]
    /\ window' = [s \in Services |-> Window]
    /\ prior' = kept
    /\ since' = IF mark = 0 THEN Max({since} \cup {sent[m] : m \in kept})
                ELSE since
    /\ UNCHANGED <<clock, sent, store, applied>>

\* backfill::run with apply: the owner opens the stored mentions of a range
\* that have no obligation yet.  A repeated client id changes nothing.
Backfill(client, from, until) ==
    /\ client \notin applied
    /\ from < until /\ until =< clock
    /\ applied' = applied \cup {client}
    /\ mention' = [m \in Msgs |->
          mention[m] \/ (m \in kept \cap Mentions /\ sent[m] \in from..until)]
    /\ UNCHANGED <<clock, sent, kept, inbox, notes, mark, truncated, gaps,
                   pass, window, prior, since, faults>>

-----------------------------------------------------------------------------
Init ==
    /\ clock = 1 /\ since = 1 /\ faults = 0
    /\ kept \in {{}, Migrated} /\ prior = kept
    /\ sent = [m \in Msgs |-> IF m \in Migrated THEN 1 ELSE 0]
    /\ applied = {}
    /\ inbox = [m \in Msgs |-> 0]
    /\ mention = [m \in Msgs |-> FALSE]
    /\ notes = {} /\ gaps = {}
    /\ mark = 0 /\ truncated = 0
    /\ pass = [s \in Services |-> Idle]
    /\ window = [s \in Services |-> Window]

PassStep(s) == Begin(s) \/ Fetch(s) \/ CommitPass(s)

Next ==
    \/ Tick
    \/ \E m \in Msgs : Post(m) \/ Receive(m)
    \/ \E s \in Services : PassStep(s) \/ FetchFails(s)
    \/ Restart
    \/ \E c \in Clients : Backfill(c, 0, clock)

\* The daemon's passes run for ever and their awaits have deadlines.  Slack
\* and the rivals owe nothing.
Fairness == \A s \in Services \ Rivals : WF_vars(PassStep(s))

Spec == Init /\ [][Next]_vars /\ Fairness

-----------------------------------------------------------------------------
(* Properties.                                                             *)

TypeOK ==
    /\ clock \in 1..MaxTime /\ since \in 1..MaxTime
    /\ sent \in [Msgs -> 0..MaxTime]
    /\ prior \subseteq kept /\ kept \subseteq Posted
    /\ inbox \in [Msgs -> Nat] /\ mention \in [Msgs -> BOOLEAN]
    /\ notes \subseteq Msgs
    /\ mark \in 0..MaxTime /\ truncated \in 0..1
    /\ window \in [Services -> {Window, Recent}]

\* A message is worked on once, however often Socket Mode and catch-up deliver
\* it, and one that mentions the owner is always worked on and has its
\* obligation, also when catch-up finds it after a day (intake_tx).
ArrivesOnce ==
    \A m \in Msgs :
        /\ inbox[m] =< 1
        /\ m \in (kept \cap Mentions) \ Migrated => inbox[m] = 1 /\ mention[m]

\* What the watermark passed is stored, noted, or in a window given up with a
\* note.  Only the seven days' cap and an empty store lift the promise
\* (Catchup::start and the commit of Catchup::run).
Accounted(m) == m \in kept \cup notes \cup gaps \cup (Unsupported \ Mentions)

NoSilentLoss ==
    \A m \in Posted \cap Roots :
        sent[m] >= since /\ sent[m] < mark - Overlap => Accounted(m)

\* Again and again every message the daemon promises to read is accounted for,
\* although envelopes are lost, passes fail and listings are truncated.
EveryMessageAccounted ==
    []<>(\A m \in Posted \cap Roots : sent[m] < since \/ Accounted(m))

=============================================================================
