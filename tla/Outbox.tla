------------------------------ MODULE Outbox ------------------------------
(***************************************************************************)
(* The durable outbox and the dispatcher that drains it into Slack         *)
(* (threads/dispatcher.rs, slack/web.rs).  Posts are numbered in the order *)
(* they are queued.  One drain runs at a time, inside the runtime's pass.  *)
(*                                                                         *)
(* A request to Slack is not a transaction: it may be published before the *)
(* dispatcher hears of it, after the dispatcher stopped waiting, or never. *)
(* The effects of the outbox rows are the store's (an external crate); they*)
(* are modelled from their use here and from tests/outbox.rs.              *)
(***************************************************************************)
EXTENDS Naturals, FiniteSets

CONSTANTS
  Posts,      \* 1..N, in queueing order
  Thread,     \* Thread[p]: the thread p is posted to
  After,      \* After[p]: the post that must be delivered first, or 0
  Rewritable, \* replies and reports of ordinary turns (not uploads or rewrites)
  Limit,      \* posts attempted in one drain
  Tries,      \* rate-limited attempts before a post fails (5 in the store)
  MaxGrants,  \* MaxGrants[p]: bound on the times the owner sends p again
  MaxEdits,   \* bound on the deny list becoming unreadable or readable again
  MaxCrashes  \* bound on crashes

ASSUME OutboxAssumption ==
  /\ Posts \subseteq Nat \ {0}
  /\ After \in [Posts -> Posts \cup {0}]
  /\ \A p \in Posts : After[p] < p
  /\ Rewritable \subseteq Posts
  /\ Limit \in Nat \ {0} /\ Tries \in Nat \ {0}
  /\ MaxGrants \in [Posts -> Nat] /\ MaxEdits \in Nat /\ MaxCrashes \in Nat

VARIABLES
  state,    \* the state of each outbox row
  attempt,  \* attempts made at each post
  spent,    \* rate-limited attempts since the owner last sent it again
  later,    \* a rate limit put the post off
  grants,   \* how often the owner sent it again
  rewrites, \* refused posts whose rewrite turn was queued
  copies,   \* how often the post appeared in Slack
  limbo,    \* abandoned requests Slack may still publish
  drain,    \* the dispatcher's drain
  readable, \* the owner's deny list can be read
  edits, crashes, up

rowVars   == <<state, attempt, spent, later, grants, rewrites>>
slackVars == <<copies, limbo>>
envVars   == <<readable, edits, crashes, up>>
vars == <<rowVars, slackVars, drain, envVars>>

RowStates == {"absent", "pending", "sending", "sent", "failed", "ambiguous", "blocked"}
Outcomes  == {"none", "sent", "limited", "rejected", "refused", "ambiguous"}

\* The drain's locals: the posts left of the batch, the claimed post and attempt,
\* whether Slack published it, the outcome to record.
Drains == [step: {"idle", "fetch", "batch", "claimed", "sending", "finishing"},
           batch: SUBSET Posts, post: Posts \cup {0}, attempt: Nat, reached: BOOLEAN,
           outcome: Outcomes, attempted: Nat, progressed: BOOLEAN]

Resting == [step |-> "idle", batch |-> {}, post |-> 0, attempt |-> 0, reached |-> FALSE,
            outcome |-> "none", attempted |-> 0, progressed |-> FALSE]

TypeOK ==
  /\ state \in [Posts -> RowStates]
  /\ attempt \in [Posts -> Nat] /\ spent \in [Posts -> 0..Tries]
  /\ later \in [Posts -> BOOLEAN] /\ grants \in [Posts -> Nat]
  /\ rewrites \subseteq Rewritable
  /\ copies \in [Posts -> Nat] /\ limbo \in [Posts -> Nat]
  /\ drain \in Drains
  /\ readable \in BOOLEAN /\ up \in BOOLEAN /\ edits \in Nat /\ crashes \in Nat

Init ==
  /\ state = [p \in Posts |-> "absent"]
  /\ attempt = [p \in Posts |-> 0] /\ spent = [p \in Posts |-> 0]
  /\ later = [p \in Posts |-> FALSE] /\ grants = [p \in Posts |-> 0]
  /\ rewrites = {}
  /\ copies = [p \in Posts |-> 0] /\ limbo = [p \in Posts |-> 0]
  /\ drain = Resting
  /\ readable = TRUE /\ up = TRUE /\ edits = 0 /\ crashes = 0

-----------------------------------------------------------------------------
Undelivered == {"failed", "ambiguous"}

\* below[q]: q waits, directly or not, for p.
Descendants(p) ==
  LET below[q \in Posts] == /\ After[q] # 0
                            /\ After[q] = p \/ below[After[q]]
  IN  {q \in Posts : below[q]}

\* p gets state s; when p will not be delivered, what waits for it is blocked.
Settled(p, s) ==
  [q \in Posts |-> IF q = p THEN s
                   ELSE IF /\ s \in Undelivered /\ state[q] = "pending"
                           /\ q \in Descendants(p)
                        THEN "blocked" ELSE state[q]]

\* queue_post: a post behind one that will not be delivered starts blocked.
Enqueue(p) ==
  /\ up /\ state[p] = "absent"
  /\ \A q \in Posts : q < p => state[q] # "absent"
  /\ state' = [state EXCEPT ![p] =
                 IF After[p] # 0 /\ state[After[p]] \in Undelivered \cup {"blocked"}
                 THEN "blocked" ELSE "pending"]
  /\ UNCHANGED <<attempt, spent, later, grants, rewrites, slackVars, drain, envVars>>

\* Mutant of Ready: what a post comes after is not looked at.
ReadyUnordered(p) == state[p] = "pending" /\ ~later[p]

\* A post is ready when what it comes after was delivered and nothing earlier in
\* its thread is still to be delivered.
Ready(p) ==
  /\ state[p] = "pending" /\ ~later[p]
  /\ After[p] # 0 => state[After[p]] = "sent"
  /\ \A q \in Posts : q < p /\ Thread[q] = Thread[p] => state[q] \notin {"pending", "sending"}

-----------------------------------------------------------------------------
(***************************************************************************)
(* drain_checked.                                                          *)
(***************************************************************************)

\* An unreadable deny list holds every post back.
StartDrain ==
  /\ up /\ readable /\ drain.step = "idle"
  /\ drain' = [Resting EXCEPT !.step = "fetch", !.progressed = TRUE]
  /\ UNCHANGED <<rowVars, slackVars, envVars>>

\* ready_posts: the next batch, or the end of the drain.
Fetch ==
  /\ drain.step = "fetch"
  /\ LET ready == {p \in Posts : Ready(p)}
         first == {p \in ready :
                     Cardinality({q \in ready : q < p}) < Limit - drain.attempted}
     IN  drain' = IF drain.progressed /\ drain.attempted < Limit /\ first # {}
                  THEN [drain EXCEPT !.step = "batch", !.batch = first, !.progressed = FALSE]
                  ELSE Resting
  /\ UNCHANGED <<rowVars, slackVars, envVars>>

\* claim_post checks again that the post is ready, and numbers the attempt.
Claim(p) ==
  /\ drain.step = "batch" /\ p \in drain.batch
  /\ \A q \in drain.batch : p <= q
  /\ IF Ready(p)
     THEN /\ state' = [state EXCEPT ![p] = "sending"]
          /\ attempt' = [attempt EXCEPT ![p] = @ + 1]
          /\ drain' = [drain EXCEPT !.step = "claimed", !.batch = @ \ {p}, !.post = p,
                                    !.attempt = attempt[p] + 1, !.reached = FALSE,
                                    !.attempted = @ + 1]
     ELSE /\ drain' = [drain EXCEPT !.batch = @ \ {p}]
          /\ UNCHANGED <<state, attempt>>
  /\ UNCHANGED <<spent, later, grants, rewrites, slackVars, envVars>>

EndBatch ==
  /\ drain.step = "batch" /\ drain.batch = {}
  /\ drain' = [drain EXCEPT !.step = "fetch"]
  /\ UNCHANGED <<rowVars, slackVars, envVars>>

\* The egress gate refuses the text: nothing is sent.
Refuse ==
  /\ drain.step = "claimed"
  /\ drain' = [drain EXCEPT !.step = "finishing", !.outcome = "refused"]
  /\ UNCHANGED <<rowVars, slackVars, envVars>>

Send ==
  /\ drain.step = "claimed"
  /\ drain' = [drain EXCEPT !.step = "sending"]
  /\ UNCHANGED <<rowVars, slackVars, envVars>>

\* Slack publishes the request under way.
Reach ==
  /\ drain.step = "sending" /\ ~drain.reached
  /\ copies' = [copies EXCEPT ![drain.post] = @ + 1]
  /\ drain' = [drain EXCEPT !.reached = TRUE]
  /\ UNCHANGED <<rowVars, limbo, envVars>>

\* The request under way is abandoned and Slack may still publish it.
Abandoned == IF drain.step = "sending" /\ ~drain.reached
             THEN [limbo EXCEPT ![drain.post] = @ + 1] ELSE limbo

\* Slack's definite answer.
Answer ==
  /\ drain.step = "sending"
  /\ \E o \in IF drain.reached THEN {"sent"} ELSE {"limited", "rejected"} :
       drain' = [drain EXCEPT !.step = "finishing", !.outcome = o]
  /\ UNCHANGED <<rowVars, slackVars, envVars>>

\* Mutant of NoAnswer: a timed-out request counts as rate limited.
NoAnswerRetried ==
  /\ drain.step = "sending"
  /\ limbo' = Abandoned
  /\ drain' = [drain EXCEPT !.step = "finishing", !.outcome = "limited"]
  /\ UNCHANGED <<rowVars, copies, envVars>>

\* A timeout, a 5xx, a dropped connection, an answer that cannot be read.
NoAnswer ==
  /\ drain.step = "sending"
  /\ limbo' = Abandoned
  /\ drain' = [drain EXCEPT !.step = "finishing", !.outcome = "ambiguous"]
  /\ UNCHANGED <<rowVars, copies, envVars>>

\* Slack publishes an abandoned request after all.
LatePublish(p) ==
  /\ limbo[p] > 0
  /\ limbo' = [limbo EXCEPT ![p] = @ - 1]
  /\ copies' = [copies EXCEPT ![p] = @ + 1]
  /\ UNCHANGED <<rowVars, drain, envVars>>

\* Mutant of Exhausted: one attempt too many.
ExhaustedLate(p) == spent[p] >= Tries

\* This rate-limited attempt was the last one.
Exhausted(p) == spent[p] + 1 >= Tries

\* finish_delivery: the outcome is recorded for the attempt that was claimed.
Finish ==
  LET p == drain.post IN
  /\ drain.step = "finishing"
  /\ drain' = [drain EXCEPT !.step = "batch", !.outcome = "none",
                            !.progressed = @ \/ drain.outcome = "sent"]
  /\ state' = Settled(p, CASE drain.outcome = "sent" -> "sent"
                           [] drain.outcome = "ambiguous" -> "ambiguous"
                           [] drain.outcome = "limited" /\ ~Exhausted(p) -> "pending"
                           [] OTHER -> "failed")
  /\ spent' = [spent EXCEPT ![p] = IF drain.outcome = "limited" THEN @ + 1 ELSE @]
  /\ later' = [later EXCEPT ![p] = drain.outcome = "limited" /\ ~Exhausted(p)]
  /\ rewrites' = IF drain.outcome = "refused" /\ p \in Rewritable
                 THEN rewrites \cup {p} ELSE rewrites
  /\ UNCHANGED <<attempt, grants, slackVars, envVars>>

\* retry_after passes.
Wake(p) ==
  /\ later[p]
  /\ later' = [later EXCEPT ![p] = FALSE]
  /\ UNCHANGED <<state, attempt, spent, grants, rewrites, slackVars, drain, envVars>>

-----------------------------------------------------------------------------
\* retry_post: only the owner sends a failed or ambiguous post again; what waited
\* for it waits again.
Requeue(p) ==
  /\ up /\ state[p] \in Undelivered /\ grants[p] < MaxGrants[p]
  /\ state' = [q \in Posts |-> IF q = p \/ (state[q] = "blocked" /\ q \in Descendants(p))
                               THEN "pending" ELSE state[q]]
  /\ grants' = [grants EXCEPT ![p] = @ + 1]
  /\ spent' = [spent EXCEPT ![p] = 0]
  /\ UNCHANGED <<attempt, later, rewrites, slackVars, drain, envVars>>

EditDenyList ==
  /\ edits < MaxEdits
  /\ edits' = edits + 1
  /\ readable' = ~readable
  /\ UNCHANGED <<rowVars, slackVars, drain, crashes, up>>

\* A crash, a stop of the service, or an error of the drain (which stops it).
Crash ==
  /\ up /\ crashes < MaxCrashes
  /\ crashes' = crashes + 1
  /\ up' = FALSE
  /\ limbo' = Abandoned
  /\ drain' = Resting
  /\ UNCHANGED <<rowVars, copies, readable, edits>>

\* Mutant of Restart: nobody looks at the interrupted sends.
RestartForgets ==
  /\ ~up /\ up' = TRUE
  /\ UNCHANGED <<rowVars, slackVars, drain, readable, edits, crashes>>

\* Startup recovery: a post that was being sent may have been sent.
Restart ==
  /\ ~up /\ up' = TRUE
  /\ state' = IF \E p \in Posts : state[p] = "sending"
              THEN Settled(CHOOSE p \in Posts : state[p] = "sending", "ambiguous")
              ELSE state
  /\ UNCHANGED <<attempt, spent, later, grants, rewrites, slackVars, drain, readable, edits,
                 crashes>>

-----------------------------------------------------------------------------
DrainStep ==
  \/ StartDrain \/ Fetch \/ EndBatch
  \/ \E p \in Posts : Claim(p)
  \/ Refuse \/ Send \/ Answer \/ NoAnswer \/ Finish

Next ==
  \/ DrainStep
  \/ Reach
  \/ \E p \in Posts : Enqueue(p) \/ LatePublish(p) \/ Wake(p) \/ Requeue(p)
  \/ EditDenyList \/ Crash \/ Restart

Spec == Init /\ [][Next]_vars

(***************************************************************************)
(* Fairness: the service runs a pass, and so a drain, again and again; a   *)
(* request ends by itself or by its timeout; retry_after passes; a stopped *)
(* daemon is started again.  Slack owes nothing.                           *)
(***************************************************************************)
FairSpec == /\ Spec /\ WF_vars(DrainStep) /\ WF_vars(Restart)
            /\ \A p \in Posts : WF_vars(Wake(p))
-----------------------------------------------------------------------------
(***************************************************************************)
(* Properties.                                                             *)
(***************************************************************************)

\* What the ledger says of a row: blocked and claimed posts are still queued.
StatusOf(s) == CASE s = "absent" -> "none"
                 [] s \in {"pending", "sending", "blocked"} -> "queued"
                 [] s = "sent" -> "delivered"
                 [] OTHER -> s

LedgerStatus == [p \in Posts |-> StatusOf(state[p])]

Ledger == INSTANCE PostLedger WITH status <- LedgerStatus

\* The outbox implements the ledger: through timeouts, crashes, rate limits and
\* requests published late, a post appears in Slack at most once more than the
\* owner sent it again, and is delivered only if it is there (drain_checked,
\* Delivery for SlackClient, recovery).
ImplementsLedger == Ledger!Spec

\* The drain records an outcome only for the attempt it claimed, so the bail on a
\* stale attempt, which would stop the service, is never reached; and one post at
\* most is being sent, even across a restart.
NoStaleAttempt ==
  /\ drain.step \in {"claimed", "sending", "finishing"} =>
       up /\ state[drain.post] = "sending" /\ attempt[drain.post] = drain.attempt
  /\ \A p, q \in Posts : state[p] = "sending" /\ state[q] = "sending" => p = q

\* A post is in Slack only if what it comes after was delivered before.
DependentsFollow ==
  \A p \in Posts : copies[p] > 0 /\ After[p] # 0 => state[After[p]] = "sent"

\* Rate limits are retried a bounded number of times for each grant of the owner.
BoundedAttempts == \A p \in Posts : attempt[p] <= Tries * (1 + grants[p])

\* Every queued post ends delivered or visibly stuck, unless the deny list cannot
\* be read.
EveryPostSettles ==
  \A p \in Posts : state[p] \in {"pending", "sending"} ~>
    (state[p] \in {"sent", "failed", "ambiguous", "blocked"} \/ ~readable)
=============================================================================
