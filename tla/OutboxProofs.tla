--------------------------- MODULE OutboxProofs ---------------------------
(***************************************************************************)
(* The outbox implements PostLedger, for any posts, threads, dependencies  *)
(* and bounds.  The heart of it is Quota: the copies in Slack, the         *)
(* abandoned requests that may still become copies and the request under   *)
(* way never outnumber the owner's grants by more than one, and by none    *)
(* while the post may be claimed again.  From it follows what a row tells  *)
(* the owner of Slack.                                                     *)
(***************************************************************************)
EXTENDS Outbox, TLAPS

USE DEF rowVars, slackVars, envVars

InHand == drain.step \in {"claimed", "sending", "finishing"}

\* The post in hand is the one being sent, while the daemon is up.
Exclusive ==
  /\ drain.step # "idle" => up
  /\ InHand => up /\ drain.post \in Posts /\ attempt[drain.post] = drain.attempt
  /\ InHand => state[drain.post] = "sending"
  /\ \A p \in Posts : state[p] = "sending" /\ up => InHand /\ drain.post = p
  /\ \A p, q \in Posts : state[p] = "sending" /\ state[q] = "sending" => p = q

\* Only a failed post has used up its rate-limited attempts.
Budget == \A p \in Posts : state[p] # "failed" => spent[p] < Tries

\* The idle drain is a drain.
LEMMA RestingTyped == Resting \in Drains
  BY DEF Resting, Drains, Outcomes

\* An empty outbox is well typed.
LEMMA TypeInit == Init => TypeOK
  BY RestingTyped, OutboxAssumption DEF Init, TypeOK, RowStates

\* Settling a post keeps the row states.
LEMMA SettledTyped ==
  ASSUME TypeOK, NEW p \in Posts, NEW s \in RowStates
  PROVE  Settled(p, s) \in [Posts -> RowStates]
  BY DEF TypeOK, Settled, RowStates

\* The state finish_delivery records is a row state other than "sending".
Verdict == CASE drain.outcome = "sent" -> "sent"
             [] drain.outcome = "ambiguous" -> "ambiguous"
             [] drain.outcome = "limited" /\ ~Exhausted(drain.post) -> "pending"
             [] OTHER -> "failed"

\* Whatever the sender answers, finish_delivery settles the row.
LEMMA VerdictTyped == Verdict \in {"sent", "ambiguous", "pending", "failed"}
  BY DEF Verdict

\* An abandoned request is counted once.
LEMMA AbandonedTyped ==
  ASSUME TypeOK, Exclusive
  PROVE  Abandoned \in [Posts -> Nat]
  BY DEF TypeOK, Exclusive, InHand, Abandoned

\* Every step keeps the type of the drain.
LEMMA DrainTyped == TypeOK /\ Exclusive /\ [Next]_vars => drain' \in Drains
<1> SUFFICES ASSUME TypeOK, Exclusive, [Next]_vars PROVE drain' \in Drains
  OBVIOUS
<1>0. drain \in Drains /\ attempt \in [Posts -> Nat]
  BY DEF TypeOK
<1>1. CASE StartDrain
  <2>1. drain' = [Resting EXCEPT !.step = "fetch", !.progressed = TRUE]
    BY <1>1 DEF StartDrain
  <2> QED
    BY <2>1, RestingTyped DEF Drains
<1>2. CASE Fetch
  BY <1>0, <1>2, RestingTyped DEF Fetch, Drains
<1>3. ASSUME NEW p \in Posts, Claim(p) PROVE drain' \in Drains
  <2>1. CASE Ready(p)
    <3>1. drain' = [drain EXCEPT !.step = "claimed", !.batch = @ \ {p}, !.post = p,
                                 !.attempt = attempt[p] + 1, !.reached = FALSE,
                                 !.attempted = @ + 1]
      BY <1>3, <2>1 DEF Claim
    <3>2. attempt[p] + 1 \in Nat /\ drain.attempted + 1 \in Nat
      BY <1>0 DEF Drains
    <3> QED
      BY <1>0, <3>1, <3>2 DEF Drains
  <2>2. CASE ~Ready(p)
    BY <1>0, <1>3, <2>2 DEF Claim, Drains
  <2> QED
    BY <2>1, <2>2
<1>4. CASE EndBatch \/ Refuse \/ Send \/ Answer \/ NoAnswer
  <2>1. \E s \in {"fetch", "finishing", "sending"}, o \in Outcomes :
           drain' = [drain EXCEPT !.step = s] \/ drain' = [drain EXCEPT !.step = s, !.outcome = o]
    <3>1. CASE EndBatch \/ Send
      BY <3>1 DEF EndBatch, Send, Outcomes
    <3>2. CASE Refuse \/ NoAnswer
      BY <3>2 DEF Refuse, NoAnswer, Outcomes
    <3>3. CASE Answer
      BY <3>3 DEF Answer, Outcomes
    <3> QED
      BY <1>4, <3>1, <3>2, <3>3
  <2>2. PICK s \in {"fetch", "finishing", "sending"}, o \in Outcomes :
           drain' = [drain EXCEPT !.step = s] \/ drain' = [drain EXCEPT !.step = s, !.outcome = o]
    BY <2>1
  <2>3. CASE drain' = [drain EXCEPT !.step = s]
    BY <1>0, <2>3 DEF Drains
  <2>4. CASE drain' = [drain EXCEPT !.step = s, !.outcome = o]
    BY <1>0, <2>4 DEF Drains
  <2> QED
    BY <2>2, <2>3, <2>4
<1>5. CASE Reach
  BY <1>0, <1>5 DEF Reach, Drains
<1>6. CASE Finish
  <2>1. PICK b \in BOOLEAN : b = (drain.progressed \/ drain.outcome = "sent")
    OBVIOUS
  <2>2. drain' = [drain EXCEPT !.step = "batch", !.outcome = "none", !.progressed = b]
    BY <1>6, <2>1 DEF Finish
  <2> QED
    BY <1>0, <2>2 DEF Drains, Outcomes
<1>7. CASE Crash
  BY <1>7, RestingTyped DEF Crash
<1>8. CASE EditDenyList \/ Restart \/ UNCHANGED vars
  BY <1>0, <1>8 DEF EditDenyList, Restart, vars
<1>9. ASSUME NEW p \in Posts, Enqueue(p) \/ LatePublish(p) \/ Wake(p) \/ Requeue(p)
      PROVE  drain' \in Drains
  BY <1>0, <1>9 DEF Enqueue, LatePublish, Wake, Requeue
<1> QED
  BY <1>1, <1>2, <1>3, <1>4, <1>5, <1>6, <1>7, <1>8, <1>9 DEF Next, DrainStep

\* Every step keeps the types of the rows and of what Slack holds.
LEMMA TypeStep == TypeOK /\ Exclusive /\ Budget /\ [Next]_vars => TypeOK'
<1> SUFFICES ASSUME TypeOK, Exclusive, Budget, [Next]_vars PROVE TypeOK'
  OBVIOUS
<1>d. drain' \in Drains
  BY DrainTyped
<1> USE OutboxAssumption DEF TypeOK
<1>1. CASE StartDrain \/ Fetch \/ EndBatch \/ Refuse \/ Send \/ Answer \/ UNCHANGED vars
  BY <1>1, <1>d DEF StartDrain, Fetch, EndBatch, Refuse, Send, Answer, vars
<1>2. ASSUME NEW p \in Posts, Claim(p) PROVE TypeOK'
  BY <1>2, <1>d DEF Claim, RowStates
<1>3. CASE NoAnswer
  BY <1>3, <1>d, AbandonedTyped DEF NoAnswer
<1>4. CASE Reach
  BY <1>4, <1>d DEF Reach, Exclusive, InHand
<1>5. CASE Finish
  <2>1. drain.post \in Posts /\ spent[drain.post] < Tries
    BY <1>5 DEF Finish, Exclusive, InHand, Budget
  <2>2. state' = Settled(drain.post, Verdict)
    BY <1>5 DEF Finish, Verdict
  <2>3. state' \in [Posts -> RowStates]
    BY <2>1, <2>2, VerdictTyped, SettledTyped DEF RowStates
  <2>4. spent' \in [Posts -> 0..Tries]
    BY <1>5, <2>1 DEF Finish
  <2>5. PICK b \in BOOLEAN : b = (drain.outcome = "limited" /\ ~Exhausted(drain.post))
    OBVIOUS
  <2>6. later' = [later EXCEPT ![drain.post] = b]
    BY <1>5, <2>5 DEF Finish
  <2>7. later' \in [Posts -> BOOLEAN]
    BY <2>6
  <2>8. rewrites' \subseteq Rewritable
    BY <1>5 DEF Finish
  <2> QED
    BY <1>5, <1>d, <2>3, <2>4, <2>7, <2>8 DEF Finish
<1>6. CASE EditDenyList
  BY <1>6, <1>d DEF EditDenyList
<1>7. CASE Crash
  <2>1. limbo' \in [Posts -> Nat] /\ crashes' \in Nat
    BY <1>7, AbandonedTyped DEF Crash
  <2>2. up' \in BOOLEAN
    BY <1>7 DEF Crash
  <2> QED
    BY <1>7, <1>d, <2>1, <2>2 DEF Crash
<1>8. CASE Restart
  <2>1. state' \in [Posts -> RowStates]
    BY <1>8, SettledTyped DEF Restart, RowStates
  <2> QED
    BY <1>8, <1>d, <2>1 DEF Restart
<1>9. ASSUME NEW p \in Posts, Enqueue(p) \/ LatePublish(p) \/ Wake(p) \/ Requeue(p)
      PROVE  TypeOK'
  <2>1. CASE Enqueue(p)
    BY <1>d, <2>1 DEF Enqueue, RowStates
  <2>2. CASE LatePublish(p)
    BY <1>d, <2>2 DEF LatePublish
  <2>3. CASE Wake(p)
    BY <1>d, <2>3 DEF Wake
  <2>4. CASE Requeue(p)
    BY <1>d, <2>4 DEF Requeue, RowStates
  <2> QED
    BY <1>9, <2>1, <2>2, <2>3, <2>4
<1> QED
  BY <1>1, <1>2, <1>3, <1>4, <1>5, <1>6, <1>7, <1>8, <1>9 DEF Next, DrainStep

-----------------------------------------------------------------------------
\* Nothing is in hand in an empty outbox.
LEMMA ExclusiveInit == Init => Exclusive /\ Budget
  BY OutboxAssumption DEF Init, Exclusive, Budget, InHand, Resting

\* A post that is being sent after Settled(p, s) was being sent before, and is not p.
LEMMA SettledSending ==
  ASSUME TypeOK, NEW p \in Posts, NEW s, s # "sending",
         NEW q \in Posts, Settled(p, s)[q] = "sending"
  PROVE  q # p /\ state[q] = "sending"
  BY DEF Settled

\* Between two posts the drain has nothing in hand.
LEMMA BetweenPosts ==
  ASSUME TypeOK, StartDrain \/ Fetch \/ EndBatch
  PROVE  drain'.step \in {"idle", "fetch", "batch"}
<1>1. CASE StartDrain
  BY <1>1 DEF StartDrain, Resting
<1>2. CASE Fetch
  BY <1>2 DEF Fetch, Resting, TypeOK, Drains
<1>3. CASE EndBatch
  BY <1>3 DEF EndBatch, TypeOK, Drains
<1> QED
  BY <1>1, <1>2, <1>3

\* Every step keeps the post in hand the only one being sent.
LEMMA ExclusiveStep == TypeOK /\ Exclusive /\ [Next]_vars => Exclusive'
<1> SUFFICES ASSUME TypeOK, Exclusive, [Next]_vars PROVE Exclusive'
  OBVIOUS
<1> USE DEF Exclusive, InHand
<1>1. CASE StartDrain \/ Fetch \/ EndBatch
  <2>1. ~InHand /\ up
    BY <1>1 DEF StartDrain, Fetch, EndBatch
  <2>2. drain'.step \in {"idle", "fetch", "batch"}
    BY <1>1, BetweenPosts
  <2>3. state' = state /\ up' = up
    BY <1>1 DEF StartDrain, Fetch, EndBatch
  <2> QED
    BY <2>1, <2>2, <2>3
<1>2. ASSUME NEW p \in Posts, Claim(p) PROVE Exclusive'
  <2>0. up /\ ~InHand /\ \A q \in Posts : state[q] # "sending"
    BY <1>2 DEF Claim
  <2>1. CASE Ready(p)
    <3>1. drain'.step = "claimed" /\ drain'.post = p /\ drain'.attempt = attempt[p] + 1
      BY <1>2, <2>1, ZenonT(40) DEF Claim, TypeOK, Drains
    <3> QED
      BY <1>2, <2>0, <2>1, <3>1 DEF Claim, TypeOK
  <2>2. CASE ~Ready(p)
    BY <1>2, <2>0, <2>2 DEF Claim, TypeOK, Drains
  <2> QED
    BY <2>1, <2>2
<1>3. CASE Refuse \/ Send \/ Answer \/ NoAnswer \/ Reach
  <2>1. /\ InHand /\ drain'.step \in {"claimed", "sending", "finishing"}
        /\ drain'.post = drain.post /\ drain'.attempt = drain.attempt
    BY <1>3, ZenonT(40) DEF Refuse, Send, Answer, NoAnswer, Reach, TypeOK, Drains
  <2>2. state' = state /\ attempt' = attempt /\ up' = up
    BY <1>3 DEF Refuse, Send, Answer, NoAnswer, Reach
  <2> QED
    BY <2>1, <2>2
<1>4. CASE Finish
  <2>1. drain.post \in Posts /\ state' = Settled(drain.post, Verdict) /\ Verdict # "sending"
    BY <1>4, VerdictTyped DEF Finish, Verdict
  <2>2. \A q \in Posts : state'[q] # "sending"
    BY <1>4, <2>1, SettledSending DEF Finish
  <2>3. drain'.step = "batch" /\ up'
    BY <1>4 DEF Finish, TypeOK, Drains
  <2> QED
    BY <2>2, <2>3
<1>5. CASE EditDenyList \/ UNCHANGED vars
  BY <1>5 DEF EditDenyList, vars
<1>6. CASE Crash
  BY <1>6 DEF Crash, Resting
<1>7. CASE Restart
  <2>1. ~InHand' /\ up'
    BY <1>7 DEF Restart
  <2>2. \A q \in Posts : state'[q] # "sending"
    BY <1>7, SettledSending DEF Restart
  <2> QED
    BY <2>1, <2>2
<1>8. ASSUME NEW p \in Posts, Enqueue(p) \/ LatePublish(p) \/ Wake(p) \/ Requeue(p)
      PROVE  Exclusive'
  BY <1>8 DEF Enqueue, LatePublish, Wake, Requeue, Undelivered, TypeOK
<1> QED
  BY <1>1, <1>2, <1>3, <1>4, <1>5, <1>6, <1>7, <1>8 DEF Next, DrainStep

\* Every step keeps the budget: the last rate-limited attempt fails the post.
LEMMA BudgetStep == TypeOK /\ Exclusive /\ Budget /\ [Next]_vars => Budget'
<1> SUFFICES ASSUME TypeOK, Exclusive, Budget, [Next]_vars PROVE Budget'
  OBVIOUS
<1> USE OutboxAssumption DEF TypeOK, Budget
<1>1. CASE StartDrain \/ Fetch \/ EndBatch \/ Refuse \/ Send \/ Answer \/ NoAnswer \/ Reach
           \/ EditDenyList \/ Crash \/ UNCHANGED vars
  BY <1>1 DEF StartDrain, Fetch, EndBatch, Refuse, Send, Answer, NoAnswer, Reach, EditDenyList,
              Crash, vars
<1>2. ASSUME NEW p \in Posts, Claim(p) PROVE Budget'
  BY <1>2 DEF Claim, Ready
<1>3. CASE Finish
  <2>1. drain.post \in Posts /\ state[drain.post] = "sending"
    BY <1>3 DEF Finish, Exclusive, InHand
  <2>2. SUFFICES ASSUME NEW q \in Posts, state'[q] # "failed" PROVE spent'[q] < Tries
    OBVIOUS
  <2>3. CASE q # drain.post
    BY <1>3, <2>1, <2>2, <2>3 DEF Finish, Settled
  <2>4. CASE q = drain.post
    BY <1>3, <2>1, <2>2, <2>4 DEF Finish, Settled, Exhausted
  <2> QED
    BY <2>3, <2>4
<1>4. CASE Restart
  BY <1>4 DEF Restart, Settled
<1>5. ASSUME NEW p \in Posts, Enqueue(p) \/ LatePublish(p) \/ Wake(p) \/ Requeue(p)
      PROVE  Budget'
  BY <1>5 DEF Enqueue, LatePublish, Wake, Requeue, Undelivered
<1> QED
  BY <1>1, <1>2, <1>3, <1>4, <1>5 DEF Next, DrainStep

Sound == TypeOK /\ Exclusive /\ Budget

\* Types, the post in hand and the budget hold together in every reachable state.
LEMMA SoundAlways == Spec => []Sound
<1>1. Init => Sound
  BY TypeInit, ExclusiveInit DEF Sound
<1>2. Sound /\ [Next]_vars => Sound'
  BY TypeStep, ExclusiveStep, BudgetStep DEF Sound
<1> QED
  BY <1>1, <1>2, PTL DEF Spec

\* The outbox's rows, the dispatcher's locals and the retry counter stay within
\* their ranges, whatever the order of answers, crashes and retries.
THEOREM OutboxTyped == Spec => []TypeOK
  BY SoundAlways, PTL DEF Sound

\* finish_delivery never meets a stale attempt, and one post at most is being sent.
THEOREM NoStaleAttempts == Spec => []NoStaleAttempt
<1>1. Sound => NoStaleAttempt
  BY DEF Sound, Exclusive, InHand, NoStaleAttempt
<1> QED
  BY <1>1, SoundAlways, PTL

-----------------------------------------------------------------------------
(***************************************************************************)
(* The quota.                                                              *)
(***************************************************************************)
Flying(p) == IF drain.step = "sending" /\ ~drain.reached /\ drain.post = p THEN 1 ELSE 0

\* The post's last grant is used, or being used.
Used(p) ==
  \/ state[p] \in {"sent", "ambiguous"}
  \/ state[p] = "sending" /\ \/ ~up
                             \/ drain.step = "sending"
                             \/ drain.step = "finishing" /\ drain.outcome \in {"sent", "ambiguous"}

Allowed(p) == IF Used(p) THEN grants[p] + 1 ELSE grants[p]

Quota ==
  \A p \in Posts : copies[p] + limbo[p] + Flying(p) <= Allowed(p)

\* An outcome "sent" is recorded only for a post that Slack published, and a post
\* that was never queued was never sent again.
Witnessed ==
  /\ drain.step = "claimed" => ~drain.reached
  /\ drain.step = "sending" /\ drain.reached => copies[drain.post] >= 1
  /\ drain.step = "finishing" /\ drain.outcome = "sent" => copies[drain.post] >= 1
  /\ \A p \in Posts : state[p] = "absent" => grants[p] = 0

\* Nothing was published before anything was queued.
LEMMA QuotaInit == Init => Quota /\ Witnessed
  BY DEF Init, Quota, Witnessed, Flying, Used, Allowed, Resting

\* Every step keeps the quota.
LEMMA QuotaStep == Sound /\ Quota /\ [Next]_vars => Quota'
<1> SUFFICES ASSUME Sound, Quota, [Next]_vars, NEW q \in Posts
             PROVE  (copies[q] + limbo[q] + Flying(q) <= Allowed(q))'
  BY DEF Quota
<1>q. copies[q] + limbo[q] + Flying(q) <= Allowed(q)
  BY DEF Quota
<1>t. copies[q] \in Nat /\ limbo[q] \in Nat /\ grants[q] \in Nat /\ drain \in Drains
  BY DEF Sound, TypeOK
<1>e. Exclusive
  BY DEF Sound
<1> USE DEF Flying, Allowed, Used
<1>1. CASE StartDrain \/ EndBatch
  <2>1. ~InHand /\ drain'.step \in {"fetch", "batch"} /\ state[q] # "sending"
    BY <1>1, <1>t, <1>e DEF StartDrain, EndBatch, Resting, Exclusive, InHand, Drains
  <2> QED
    BY <1>1, <1>q, <1>t, <2>1 DEF StartDrain, EndBatch, InHand
<1>2. CASE Fetch
  <2>1. ~InHand /\ drain'.step \in {"idle", "batch"} /\ state[q] # "sending"
    BY <1>2, <1>t, <1>e DEF Fetch, Resting, Exclusive, InHand, Drains
  <2> QED
    BY <1>2, <1>q, <1>t, <2>1 DEF Fetch, InHand
<1>3. ASSUME NEW p \in Posts, Claim(p) PROVE (copies[q] + limbo[q] + Flying(q) <= Allowed(q))'
  <2>1. up /\ up' /\ state[q] # "sending" /\ drain'.step \in {"claimed", "batch"}
    BY <1>3, <1>t, <1>e, ZenonT(40) DEF Claim, Exclusive, InHand, Drains
  <2>2. state'[q] = state[q] \/ (state[q] = "pending" /\ state'[q] = "sending")
    BY <1>3 DEF Claim, Ready, Sound, TypeOK
  <2> QED
    BY <1>3, <1>q, <1>t, <2>1, <2>2 DEF Claim
<1>4. CASE Refuse \/ Send \/ Answer
  <2>1. up /\ (state[q] = "sending" => drain.post = q)
    BY <1>4, <1>e DEF Refuse, Send, Answer, Exclusive, InHand
  <2>2. CASE Refuse
    BY <1>q, <1>t, <2>1, <2>2 DEF Refuse, Drains
  <2>3. CASE Send
    BY <1>e, <1>q, <1>t, <2>1, <2>3 DEF Send, Exclusive, InHand, Drains
  <2>4. CASE Answer
    BY <1>e, <1>q, <1>t, <2>1, <2>4 DEF Answer, Exclusive, InHand, Drains
  <2> QED
    BY <1>4, <2>2, <2>3, <2>4
<1>5. CASE NoAnswer
  <2>1. up /\ drain.post \in Posts /\ (state[q] = "sending" <=> drain.post = q)
    BY <1>5, <1>e DEF NoAnswer, Exclusive, InHand
  <2>2. limbo'[q] = limbo[q] + Flying(q)
    BY <1>5, <1>t, <2>1 DEF NoAnswer, Abandoned, Sound, TypeOK
  <2>3. drain'.step = "finishing" /\ drain'.outcome = "ambiguous"
    BY <1>5, <1>t DEF NoAnswer, Drains
  <2> QED
    BY <1>5, <1>q, <1>t, <2>1, <2>2, <2>3 DEF NoAnswer
<1>6. CASE Reach
  <2>1. up /\ drain.post \in Posts /\ (state[q] = "sending" <=> drain.post = q)
    BY <1>6, <1>e DEF Reach, Exclusive, InHand
  <2>2. drain'.step = "sending" /\ drain'.reached /\ drain'.post = drain.post
    BY <1>6, <1>t DEF Reach, Drains
  <2>3. copies'[q] = copies[q] + Flying(q)
    BY <1>6, <2>1 DEF Reach, Sound, TypeOK
  <2> QED
    BY <1>6, <1>q, <1>t, <2>1, <2>2, <2>3 DEF Reach
<1>7. CASE Finish
  <2>1. up /\ drain.post \in Posts /\ (state[q] = "sending" <=> drain.post = q)
    BY <1>7, <1>e DEF Finish, Exclusive, InHand
  <2>2. drain'.step = "batch" /\ state' = Settled(drain.post, Verdict)
    BY <1>7, <1>t DEF Finish, Drains, Verdict
  <2>3. CASE q = drain.post
    <3>1. state'[q] = Verdict
      BY <2>2, <2>3 DEF Settled
    <3> QED
      BY <1>7, <1>q, <1>t, <2>1, <2>2, <2>3, <3>1 DEF Finish, Verdict
  <2>4. CASE q # drain.post
    <3>1. state'[q] = state[q] \/ (state[q] = "pending" /\ state'[q] = "blocked")
      BY <2>2, <2>4 DEF Settled
    <3> QED
      BY <1>7, <1>q, <1>t, <2>1, <2>2, <2>4, <3>1 DEF Finish
  <2> QED
    BY <2>3, <2>4
<1>8. CASE Crash
  <2>1. limbo'[q] = limbo[q] + Flying(q)
    BY <1>8, <1>t, <1>e DEF Crash, Abandoned, Exclusive, InHand, Sound, TypeOK
  <2>2. drain'.step = "idle" /\ ~up'
    BY <1>8 DEF Crash, Resting
  <2>3. Flying(q) = 1 => state[q] = "sending"
    BY <1>e DEF Exclusive, InHand
  <2> QED
    BY <1>8, <1>q, <1>t, <2>1, <2>2, <2>3 DEF Crash
<1>9. CASE Restart
  <2>1. drain.step = "idle" /\ drain' = drain
    BY <1>9, <1>e DEF Restart, Exclusive
  <2>2. \/ state'[q] = state[q] /\ state[q] # "sending"
        \/ state[q] = "sending" /\ state'[q] = "ambiguous"
        \/ state[q] = "pending" /\ state'[q] = "blocked"
    BY <1>9, <1>e DEF Restart, Settled, Exclusive
  <2> QED
    BY <1>9, <1>q, <1>t, <2>1, <2>2 DEF Restart
<1>10. CASE EditDenyList \/ UNCHANGED vars
  BY <1>10, <1>q DEF EditDenyList, vars
<1>11. ASSUME NEW p \in Posts, Enqueue(p) \/ LatePublish(p) \/ Wake(p) \/ Requeue(p)
       PROVE  (copies[q] + limbo[q] + Flying(q) <= Allowed(q))'
  <2>1. CASE Enqueue(p)
    BY <1>q, <1>t, <2>1 DEF Enqueue, Sound, TypeOK
  <2>2. CASE LatePublish(p)
    BY <1>q, <1>t, <2>2 DEF LatePublish, Sound, TypeOK
  <2>3. CASE Wake(p)
    BY <1>q, <1>t, <2>3 DEF Wake
  <2>4. CASE Requeue(p)
    BY <1>q, <1>t, <2>4 DEF Requeue, Undelivered, Sound, TypeOK
  <2> QED
    BY <1>11, <2>1, <2>2, <2>3, <2>4
<1> QED
  BY <1>1, <1>2, <1>3, <1>4, <1>5, <1>6, <1>7, <1>8, <1>9, <1>10, <1>11 DEF Next, DrainStep

\* Every step keeps the witnesses.
LEMMA WitnessedStep == Sound /\ Witnessed /\ [Next]_vars => Witnessed'
<1> SUFFICES ASSUME Sound, Witnessed, [Next]_vars PROVE Witnessed'
  OBVIOUS
<1>t. drain \in Drains /\ copies \in [Posts -> Nat] /\ grants \in [Posts -> Nat]
  BY DEF Sound, TypeOK
<1>e. Exclusive
  BY DEF Sound
<1> USE DEF Witnessed
<1>1. CASE StartDrain \/ Fetch \/ EndBatch
  <2>1. drain'.step \in {"idle", "fetch", "batch"}
    BY <1>1, BetweenPosts DEF Sound
  <2> QED
    BY <1>1, <2>1 DEF StartDrain, Fetch, EndBatch
<1>2. ASSUME NEW p \in Posts, Claim(p) PROVE Witnessed'
  <2>1. drain'.step \in {"claimed", "batch"} /\ (drain'.step = "claimed" => ~drain'.reached)
    BY <1>2, <1>t, ZenonT(40) DEF Claim, Drains
  <2> QED
    BY <1>2, <2>1 DEF Claim, Ready, Sound, TypeOK
<1>3. CASE Refuse
  BY <1>3, <1>t DEF Refuse, Drains
<1>4. CASE Send
  <2>1. ~drain.reached
    BY <1>4 DEF Send
  <2> QED
    BY <1>4, <1>t, <2>1 DEF Send, Drains
<1>5. CASE Answer \/ NoAnswer
  BY <1>5, <1>t DEF Answer, NoAnswer, Drains
<1>6. CASE Reach
  BY <1>6, <1>t, <1>e DEF Reach, Drains, Exclusive, InHand
<1>7. CASE Finish
  <2>1. drain'.step = "batch"
    BY <1>7, <1>t DEF Finish, Drains
  <2>2. ASSUME NEW q \in Posts, state'[q] = "absent" PROVE state[q] = "absent"
    BY <1>7, <2>2, VerdictTyped DEF Finish, Verdict, Settled
  <2> QED
    BY <1>7, <2>1, <2>2 DEF Finish
<1>8. CASE Crash
  BY <1>8 DEF Crash, Resting
<1>9. CASE Restart
  BY <1>9, <1>e DEF Restart, Settled, Exclusive
<1>10. CASE EditDenyList \/ UNCHANGED vars
  BY <1>10 DEF EditDenyList, vars
<1>11. ASSUME NEW p \in Posts, Enqueue(p) \/ LatePublish(p) \/ Wake(p) \/ Requeue(p)
       PROVE  Witnessed'
  <2>1. CASE Enqueue(p)
    BY <2>1 DEF Enqueue, Sound, TypeOK
  <2>2. CASE LatePublish(p)
    BY <1>t, <1>e, <2>2 DEF LatePublish, Exclusive, InHand
  <2>3. CASE Wake(p)
    BY <2>3 DEF Wake
  <2>4. CASE Requeue(p)
    BY <1>t, <2>4 DEF Requeue, Undelivered, Sound, TypeOK
  <2> QED
    BY <1>11, <2>1, <2>2, <2>3, <2>4
<1> QED
  BY <1>1, <1>2, <1>3, <1>4, <1>5, <1>6, <1>7, <1>8, <1>9, <1>10, <1>11 DEF Next, DrainStep

Kept == Sound /\ Quota /\ Witnessed

\* Sound, the quota and the witnesses hold in every reachable state.
LEMMA KeptAlways == Spec => []Kept
<1>1. Init => Kept
  BY TypeInit, ExclusiveInit, QuotaInit DEF Kept, Sound
<1>2. Kept /\ [Next]_vars => Kept'
  BY TypeStep, ExclusiveStep, BudgetStep, QuotaStep, WitnessedStep DEF Kept, Sound
<1> QED
  BY <1>1, <1>2, PTL DEF Spec

-----------------------------------------------------------------------------
(***************************************************************************)
(* The refinement.                                                         *)
(***************************************************************************)

\* An empty outbox is an empty ledger.
LEMMA LedgerInit == Init => Ledger!Init
  BY DEF Init, Ledger!Init, LedgerStatus, StatusOf

\* A step that changes neither what the ledger says of a post nor what Slack holds
\* is a stutter of the ledger.
LEMMA LedgerStutters ==
  ASSUME \A q \in Posts : StatusOf(state'[q]) = StatusOf(state[q]), UNCHANGED <<copies, grants>>
  PROVE  UNCHANGED Ledger!ledgerVars
  BY DEF Ledger!ledgerVars, LedgerStatus

\* A post that is settled changes its status to what was recorded, and no other
\* post's status changes: what waited for it stays queued, if only blocked.
LEMMA SettledStatus ==
  ASSUME NEW p \in Posts, NEW s, state' = Settled(p, s)
  PROVE  LedgerStatus' = [LedgerStatus EXCEPT ![p] = StatusOf(s)]
<1>1. StatusOf(state'[p]) = StatusOf(s)
  BY DEF Settled
<1>2. ASSUME NEW q \in Posts, q # p PROVE StatusOf(state'[q]) = StatusOf(state[q])
  BY <1>2 DEF Settled, StatusOf
<1> QED
  BY <1>1, <1>2 DEF LedgerStatus

\* Every step of the outbox is a step of the ledger, or a stutter.
LEMMA LedgerStep == Kept /\ [Next]_vars => [Ledger!Next]_(Ledger!ledgerVars)
<1> SUFFICES ASSUME Kept, [Next]_vars PROVE Ledger!Next \/ UNCHANGED Ledger!ledgerVars
  OBVIOUS
<1>t. TypeOK /\ Exclusive /\ Quota /\ Witnessed
  BY DEF Kept, Sound
<1>1. CASE StartDrain \/ Fetch \/ EndBatch \/ Refuse \/ Send \/ Answer \/ NoAnswer
           \/ EditDenyList \/ Crash \/ UNCHANGED vars
  <2>1. UNCHANGED <<state, copies, grants>>
    BY <1>1 DEF StartDrain, Fetch, EndBatch, Refuse, Send, Answer, NoAnswer, EditDenyList,
                Crash, vars
  <2> QED
    BY <2>1, LedgerStutters
<1>2. ASSUME NEW p \in Posts, Claim(p) PROVE UNCHANGED Ledger!ledgerVars
  <2>1. \A q \in Posts : StatusOf(state'[q]) = StatusOf(state[q])
    BY <1>2, <1>t DEF Claim, Ready, StatusOf, TypeOK
  <2> QED
    BY <1>2, <2>1, LedgerStutters DEF Claim
<1>3. CASE Reach
  <2>1. drain.post \in Posts /\ state[drain.post] = "sending"
    BY <1>3, <1>t DEF Reach, Exclusive, InHand
  <2>2. copies[drain.post] + limbo[drain.post] + 1 <= grants[drain.post] + 1
    BY <1>3, <1>t, <2>1 DEF Reach, Quota, Flying, Allowed, Used, TypeOK
  <2>3. copies[drain.post] <= grants[drain.post]
    BY <1>t, <2>1, <2>2 DEF TypeOK
  <2>4. LedgerStatus[drain.post] # "none" /\ LedgerStatus' = LedgerStatus
    BY <1>3, <2>1 DEF Reach, LedgerStatus, StatusOf
  <2>5. Ledger!Publish(drain.post)
    BY <1>3, <2>3, <2>4 DEF Reach, Ledger!Publish
  <2> QED
    BY <2>1, <2>5 DEF Ledger!Next
<1>4. CASE Finish
  <2> DEFINE p == drain.post
  <2>1. p \in Posts /\ state[p] = "sending" /\ UNCHANGED <<copies, grants>>
    BY <1>4, <1>t DEF Finish, Exclusive, InHand
  <2>2. LedgerStatus[p] = "queued"
    BY <2>1 DEF LedgerStatus, StatusOf
  <2>3. LedgerStatus' = [LedgerStatus EXCEPT ![p] = StatusOf(Verdict)]
    BY <1>4, <2>1, SettledStatus DEF Finish, Verdict
  <2>4. CASE drain.outcome = "sent"
    <3>1. StatusOf(Verdict) = "delivered" /\ copies[p] >= 1
      BY <1>4, <1>t, <2>4 DEF Finish, Witnessed, Verdict, StatusOf
    <3>2. Ledger!Confirm(p)
      BY <2>1, <2>2, <2>3, <3>1 DEF Ledger!Confirm
    <3> QED
      BY <2>1, <3>2 DEF Ledger!Next
  <2>5. CASE drain.outcome # "sent"
    <3>1. StatusOf(Verdict) \in {"failed", "ambiguous", "queued"}
      BY <2>5 DEF Verdict, StatusOf
    <3>2. CASE StatusOf(Verdict) = "queued"
      BY <2>1, <2>2, <2>3, <3>2 DEF Ledger!ledgerVars, LedgerStatus
    <3>3. CASE StatusOf(Verdict) \in {"failed", "ambiguous"}
      <4>1. Ledger!GiveUp(p)
        BY <2>1, <2>2, <2>3, <3>3 DEF Ledger!GiveUp
      <4> QED
        BY <2>1, <4>1 DEF Ledger!Next
    <3> QED
      BY <3>1, <3>2, <3>3
  <2> QED
    BY <2>4, <2>5
<1>5. CASE Restart
  <2>1. CASE \E p \in Posts : state[p] = "sending"
    <3>1. PICK p \in Posts : state[p] = "sending" /\ state' = Settled(p, "ambiguous")
      BY <1>5, <2>1 DEF Restart
    <3>2. LedgerStatus' = [LedgerStatus EXCEPT ![p] = "ambiguous"] /\ LedgerStatus[p] = "queued"
      BY <3>1, SettledStatus DEF LedgerStatus, StatusOf
    <3>3. Ledger!GiveUp(p)
      BY <1>5, <3>2 DEF Restart, Ledger!GiveUp
    <3> QED
      BY <3>3 DEF Ledger!Next
  <2>2. CASE ~ \E p \in Posts : state[p] = "sending"
    BY <1>5, <2>2, LedgerStutters DEF Restart
  <2> QED
    BY <2>1, <2>2
<1>6. ASSUME NEW p \in Posts, Enqueue(p) PROVE Ledger!Next
  <2>1. LedgerStatus[p] = "none" /\ LedgerStatus' = [LedgerStatus EXCEPT ![p] = "queued"]
    BY <1>6, <1>t DEF Enqueue, LedgerStatus, StatusOf, TypeOK
  <2>2. Ledger!Queue(p)
    BY <1>6, <2>1 DEF Enqueue, Ledger!Queue
  <2> QED
    BY <2>2 DEF Ledger!Next
<1>7. ASSUME NEW p \in Posts, LatePublish(p) PROVE Ledger!Next
  <2>1. copies[p] \in Nat /\ limbo[p] \in Nat /\ limbo[p] > 0 /\ grants[p] \in Nat
    BY <1>7, <1>t DEF LatePublish, TypeOK
  <2>2. copies[p] + limbo[p] + Flying(p) <= Allowed(p) /\ Flying(p) \in Nat
    BY <1>t DEF Quota, Flying
  <2>3. Allowed(p) \in Nat /\ Allowed(p) <= grants[p] + 1
    BY <2>1 DEF Allowed
  <2>4. copies[p] <= grants[p]
    BY <2>1, <2>2, <2>3
  <2>5. state[p] # "absent"
    <3>1. SUFFICES ASSUME state[p] = "absent" PROVE FALSE
      OBVIOUS
    <3>2. grants[p] = 0 /\ Allowed(p) = 0
      BY <1>t, <3>1 DEF Witnessed, Allowed, Used
    <3> QED
      BY <2>1, <2>2, <3>2
  <2>6. LedgerStatus[p] # "none" /\ LedgerStatus' = LedgerStatus
    BY <1>7, <1>t, <2>5 DEF LatePublish, LedgerStatus, StatusOf, TypeOK, RowStates
  <2>7. Ledger!Publish(p)
    BY <1>7, <2>4, <2>6 DEF LatePublish, Ledger!Publish
  <2> QED
    BY <2>7 DEF Ledger!Next
<1>8. ASSUME NEW p \in Posts, Wake(p) PROVE UNCHANGED Ledger!ledgerVars
  BY <1>8, LedgerStutters DEF Wake
<1>9. ASSUME NEW p \in Posts, Requeue(p) PROVE Ledger!Next
  <2>1. LedgerStatus[p] \in {"failed", "ambiguous"}
    BY <1>9 DEF Requeue, Undelivered, LedgerStatus, StatusOf
  <2>2. LedgerStatus' = [LedgerStatus EXCEPT ![p] = "queued"]
    BY <1>9, <1>t DEF Requeue, LedgerStatus, StatusOf, TypeOK
  <2>3. Ledger!Resend(p)
    BY <1>9, <2>1, <2>2 DEF Requeue, Ledger!Resend
  <2> QED
    BY <2>3 DEF Ledger!Next
<1> QED
  BY <1>1, <1>2, <1>3, <1>4, <1>5, <1>6, <1>7, <1>8, <1>9 DEF Next, DrainStep

\* The outbox implements the ledger, for any posts, threads and dependencies and any
\* number of crashes, grants and deny-list edits: no post is published twice unless
\* the owner sent it again, and none is reported delivered that Slack never saw.
THEOREM OutboxImplementsLedger == Spec => ImplementsLedger
<1>1. Init /\ [][Next]_vars /\ []Kept => Ledger!Init /\ [][Ledger!Next]_(Ledger!ledgerVars)
  BY LedgerInit, LedgerStep, PTL
<1> QED
  BY <1>1, KeptAlways, PTL DEF Spec, ImplementsLedger, Ledger!Spec

\* What a row tells the owner of Slack.
TellsTruth(p) ==
  /\ copies[p] + limbo[p] <= 1 + grants[p]
  /\ state[p] \in {"pending", "blocked", "failed"} => copies[p] + limbo[p] <= grants[p]
  /\ state[p] = "sent" => copies[p] >= 1

Delivered == \A p \in Posts : state[p] = "sent" => copies[p] >= 1

\* A delivery is recorded only by finish_delivery, for a post that Slack published,
\* and copies stay.
LEMMA DeliveredStep == Kept /\ Delivered /\ [Next]_vars => Delivered'
<1> SUFFICES ASSUME Kept, Delivered, [Next]_vars, NEW q \in Posts, state'[q] = "sent"
             PROVE  copies'[q] >= 1
  BY DEF Delivered
<1>t. TypeOK /\ Exclusive /\ Witnessed
  BY DEF Kept, Sound
<1>c. copies[q] \in Nat /\ (state[q] = "sent" => copies[q] >= 1)
  BY <1>t DEF TypeOK, Delivered
<1>1. CASE StartDrain \/ Fetch \/ EndBatch \/ Refuse \/ Send \/ Answer \/ NoAnswer
           \/ EditDenyList \/ Crash \/ UNCHANGED vars
  <2>1. Fetch => UNCHANGED <<state, copies>>
    BY Zenon DEF Fetch
  <2>2. UNCHANGED vars => UNCHANGED <<state, copies>>
    BY Zenon DEF vars
  <2>3. StartDrain \/ EndBatch \/ Refuse \/ Send \/ Answer \/ NoAnswer \/ EditDenyList \/ Crash
          => UNCHANGED <<state, copies>>
    BY Zenon DEF StartDrain, EndBatch, Refuse, Send, Answer, NoAnswer, EditDenyList, Crash
  <2>4. UNCHANGED <<state, copies>>
    BY <1>1, <2>1, <2>2, <2>3
  <2> QED
    BY <1>c, <2>4
<1>2. ASSUME NEW p \in Posts, Claim(p) PROVE copies'[q] >= 1
  BY <1>2, <1>c, <1>t DEF Claim, Ready, TypeOK
<1>3. CASE Reach
  <2>1. UNCHANGED state /\ copies'[q] \in {copies[q], copies[q] + 1}
    BY <1>3, <1>t DEF Reach, TypeOK
  <2> QED
    BY <1>c, <2>1
<1>4. CASE Finish
  <2>1. state' = Settled(drain.post, Verdict) /\ UNCHANGED copies
    BY <1>4 DEF Finish, Verdict
  <2>2. CASE q = drain.post
    <3>1. drain.step = "finishing" /\ drain.outcome = "sent"
      BY <1>4, <2>1, <2>2 DEF Finish, Settled, Verdict
    <3> QED
      BY <1>t, <2>1, <2>2, <3>1 DEF Witnessed
  <2>3. CASE q # drain.post
    BY <1>c, <2>1, <2>3 DEF Settled
  <2> QED
    BY <2>2, <2>3
<1>5. CASE Restart
  <2>1. state[q] = "sent" /\ UNCHANGED copies
    BY <1>5 DEF Restart, Settled
  <2> QED
    BY <1>c, <2>1
<1>6. ASSUME NEW p \in Posts, Enqueue(p) \/ Wake(p) \/ Requeue(p) PROVE copies'[q] >= 1
  BY <1>6, <1>c, <1>t DEF Enqueue, Wake, Requeue, TypeOK
<1>7. ASSUME NEW p \in Posts, LatePublish(p) PROVE copies'[q] >= 1
  BY <1>7, <1>c, <1>t DEF LatePublish, TypeOK
<1> QED
  BY <1>1, <1>2, <1>3, <1>4, <1>5, <1>6, <1>7 DEF Next, DrainStep

\* The rows tell the truth: a post has one copy and one more at most for each time
\* the owner sent it again, the abandoned requests that Slack may still serve
\* counted; one that failed, waits or is blocked has not even the first unless it
\* was sent again; one that was delivered has a copy (drain_checked,
\* finish_delivery, recover_deliveries).
THEOREM RowsTellTruth == Spec => [](\A p \in Posts : TellsTruth(p))
<1>1. Kept /\ Delivered => \A p \in Posts : TellsTruth(p)
  <2> SUFFICES ASSUME Kept, Delivered, NEW p \in Posts PROVE TellsTruth(p)
    OBVIOUS
  <2>1. copies[p] \in Nat /\ limbo[p] \in Nat /\ grants[p] \in Nat
    BY DEF Kept, Sound, TypeOK
  <2>2. copies[p] + limbo[p] + Flying(p) <= Allowed(p) /\ Flying(p) \in Nat
    BY DEF Kept, Quota, Flying
  <2>3. Allowed(p) \in {grants[p], grants[p] + 1}
        /\ (state[p] \in {"pending", "blocked", "failed"} => Allowed(p) = grants[p])
    BY DEF Allowed, Used
  <2> QED
    BY <2>1, <2>2, <2>3 DEF TellsTruth, Delivered
<1>2. Init => Delivered
  BY DEF Init, Delivered
<1> QED
  BY <1>1, <1>2, DeliveredStep, KeptAlways, PTL DEF Spec

-----------------------------------------------------------------------------
(***************************************************************************)
(* The attempts.                                                           *)
(***************************************************************************)

\* An attempt that was not put off by a rate limit ends the post's turn, so it is
\* counted once per grant.
Metered ==
  \A p \in Posts :
    attempt[p] <= Tries * grants[p] + IF state[p] \in {"absent", "pending", "blocked"} \/ spent[p] = Tries
                                      THEN spent[p] ELSE spent[p] + 1

\* Every step keeps the meter.
LEMMA MeteredStep == Sound /\ Metered /\ [Next]_vars => Metered'
<1> SUFFICES ASSUME Sound, Metered, [Next]_vars PROVE Metered'
  OBVIOUS
<1>t. TypeOK /\ Exclusive /\ Budget /\ Tries \in Nat \ {0}
  BY OutboxAssumption DEF Sound
<1>p. \A q \in Posts : Tries * grants[q] \in Nat
  BY <1>t DEF TypeOK
<1> USE DEF Metered
<1>1. CASE StartDrain \/ Fetch \/ EndBatch \/ Refuse \/ Send \/ Answer \/ NoAnswer \/ Reach
           \/ EditDenyList \/ Crash \/ UNCHANGED vars
  BY <1>1 DEF StartDrain, Fetch, EndBatch, Refuse, Send, Answer, NoAnswer, Reach, EditDenyList,
              Crash, vars
<1>2. ASSUME NEW p \in Posts, Claim(p) PROVE Metered'
  <2>1. SUFFICES ASSUME Ready(p), NEW q \in Posts, q = p
                 PROVE  attempt'[q] <= Tries * grants[q] + (spent[q] + 1)
    BY <1>2, <1>t DEF Claim, TypeOK, Budget, Ready
  <2>2. attempt'[q] = attempt[q] + 1 /\ attempt[q] <= Tries * grants[q] + spent[q]
    BY <1>2, <1>t, <2>1 DEF Claim, Ready, TypeOK
  <2> QED
    BY <1>p, <1>t, <2>1, <2>2 DEF TypeOK
<1>3. CASE Finish
  <2>1. drain.post \in Posts /\ state[drain.post] = "sending" /\ spent[drain.post] < Tries
    BY <1>3, <1>t DEF Finish, Exclusive, InHand, Budget
  <2>2. SUFFICES ASSUME NEW q \in Posts
                 PROVE  attempt[q] <= Tries * grants[q] +
                          IF state'[q] \in {"absent", "pending", "blocked"} \/ spent'[q] = Tries
                          THEN spent'[q] ELSE spent'[q] + 1
    BY <1>3 DEF Finish
  <2>3. CASE q # drain.post
    <3>1. spent'[q] = spent[q] /\ (state'[q] = state[q] \/ state[q] = "pending")
      BY <1>3, <1>t, <2>1, <2>3 DEF Finish, Settled, TypeOK
    <3>2. attempt[q] \in Nat /\ spent[q] \in Nat
      BY <1>t DEF TypeOK
    <3> QED
      BY <1>p, <1>t, <3>1, <3>2
  <2>4. CASE q = drain.post
    <3>1. attempt[q] <= Tries * grants[q] + (spent[q] + 1)
      BY <1>t, <2>1, <2>4 DEF TypeOK
    <3>2. spent'[q] = IF drain.outcome = "limited" THEN spent[q] + 1 ELSE spent[q]
      BY <1>3, <1>t, <2>4 DEF Finish, TypeOK
    <3>3. drain.outcome # "limited" => state'[q] \in {"sent", "ambiguous", "failed"}
      BY <1>3, <2>1, <2>4 DEF Finish, Settled
    <3>4. drain.outcome = "limited" => state'[q] = "pending" \/ spent'[q] = Tries
      BY <1>3, <1>t, <2>1, <2>4, <3>2 DEF Finish, Settled, Exhausted, TypeOK
    <3> QED
      BY <1>p, <1>t, <2>1, <2>4, <3>1, <3>2, <3>3, <3>4 DEF TypeOK
  <2> QED
    BY <2>3, <2>4
<1>4. CASE Restart
  <2>1. ASSUME NEW q \in Posts
        PROVE  \/ state'[q] = state[q]
               \/ state[q] = "sending" /\ state'[q] = "ambiguous"
               \/ state[q] = "pending" /\ state'[q] = "blocked"
    BY <1>4 DEF Restart, Settled
  <2> QED
    BY <1>4, <2>1 DEF Restart
<1>5. ASSUME NEW p \in Posts, Enqueue(p) \/ LatePublish(p) \/ Wake(p) PROVE Metered'
  BY <1>5, <1>t DEF Enqueue, LatePublish, Wake, TypeOK
<1>6. ASSUME NEW p \in Posts, Requeue(p) PROVE Metered'
  <2>1. SUFFICES ASSUME NEW q \in Posts
                 PROVE  attempt[q] <= Tries * grants'[q] +
                          IF state'[q] \in {"absent", "pending", "blocked"} \/ spent'[q] = Tries
                          THEN spent'[q] ELSE spent'[q] + 1
    BY <1>6 DEF Requeue
  <2>2. CASE q # p
    <3>1. grants'[q] = grants[q] /\ spent'[q] = spent[q]
      BY <1>6, <1>t, <2>2 DEF Requeue, TypeOK
    <3>2. state'[q] = state[q] \/ (state[q] = "blocked" /\ state'[q] = "pending")
      BY <1>6, <2>2 DEF Requeue
    <3> QED
      BY <3>1, <3>2
  <2>3. CASE q = p
    <3>1. grants'[q] = grants[q] + 1 /\ spent'[q] = 0 /\ state'[q] = "pending"
      BY <1>6, <1>t, <2>3 DEF Requeue, TypeOK
    <3>2. attempt[q] <= Tries * grants[q] + Tries
      <4>1. spent[q] \in 0..Tries /\ attempt[q] \in Nat
        BY <1>t DEF TypeOK
      <4> QED
        BY <1>p, <1>t, <4>1
    <3>3. Tries * (grants[q] + 1) = Tries * grants[q] + Tries
      BY <1>t DEF TypeOK
    <3> QED
      BY <1>p, <1>t, <3>1, <3>2, <3>3 DEF TypeOK
  <2> QED
    BY <2>2, <2>3
<1> QED
  BY <1>1, <1>2, <1>3, <1>4, <1>5, <1>6 DEF Next, DrainStep

\* A post is attempted at most Tries times for the first sending and for each time the
\* owner sends it again, however the rate limits, crashes and retries fall.
THEOREM AttemptsBounded == Spec => []BoundedAttempts
<1>1. Init => Metered
  BY OutboxAssumption DEF Init, Metered
<1>2. Sound /\ Metered => BoundedAttempts
  <2> SUFFICES ASSUME Sound, Metered, NEW p \in Posts
               PROVE  attempt[p] <= Tries * (1 + grants[p])
    BY DEF BoundedAttempts
  <2>1. Tries \in Nat /\ grants[p] \in Nat /\ attempt[p] \in Nat /\ spent[p] \in 0..Tries
    BY OutboxAssumption DEF Sound, TypeOK
  <2>2. Tries * (1 + grants[p]) = Tries * grants[p] + Tries /\ Tries * grants[p] \in Nat
    BY <2>1
  <2> QED
    BY <2>1, <2>2 DEF Metered
<1> QED
  BY <1>1, <1>2, SoundAlways, MeteredStep, PTL DEF Spec
-----------------------------------------------------------------------------
(***************************************************************************)
(* The order of dependent posts.                                           *)
(***************************************************************************)

\* What was sent, may still be published or is being sent has nothing left to
\* wait for.
Behind ==
  \A p \in Posts :
    /\ After[p] # 0
    /\ copies[p] > 0 \/ limbo[p] > 0 \/ state[p] = "sending"
    => state[After[p]] = "sent"

\* A delivered post stays delivered: neither a settlement of another post nor a
\* retry nor recovery touches its row.
LEMMA SentStays ==
  ASSUME Sound, [Next]_vars, NEW q \in Posts, state[q] = "sent"
  PROVE  state'[q] = "sent"
<1> USE DEF Sound, TypeOK
<1>1. CASE StartDrain \/ Fetch \/ EndBatch \/ Refuse \/ Send \/ Answer \/ NoAnswer \/ Reach
           \/ EditDenyList \/ Crash \/ UNCHANGED vars
  <2>1. state' = state
    BY <1>1 DEF StartDrain, Fetch, EndBatch, Refuse, Send, Answer, NoAnswer, Reach,
                EditDenyList, Crash, vars
  <2> QED
    BY <2>1
<1>2. ASSUME NEW p \in Posts, Claim(p) PROVE state'[q] = "sent"
  BY <1>2 DEF Claim, Ready
<1>3. CASE Finish
  <2>1. q # drain.post
    BY <1>3 DEF Finish, Exclusive, InHand
  <2>2. state' = Settled(drain.post, Verdict)
    BY <1>3 DEF Finish, Verdict
  <2> QED
    BY <2>1, <2>2 DEF Settled
<1>4. CASE Restart
  <2>1. CASE \E p \in Posts : state[p] = "sending"
    <3> DEFINE c == CHOOSE p \in Posts : state[p] = "sending"
    <3>1. c \in Posts /\ state[c] = "sending" /\ state' = Settled(c, "ambiguous")
      BY <1>4, <2>1 DEF Restart
    <3> QED
      BY <3>1 DEF Settled
  <2> QED
    BY <1>4, <2>1 DEF Restart
<1>5. ASSUME NEW p \in Posts, Enqueue(p) \/ LatePublish(p) \/ Wake(p) \/ Requeue(p)
      PROVE  state'[q] = "sent"
  BY <1>5 DEF Enqueue, LatePublish, Wake, Requeue, Undelivered
<1> QED
  BY <1>1, <1>2, <1>3, <1>4, <1>5 DEF Next, DrainStep

\* What a step adds to Slack, to the abandoned requests or to the posts being
\* sent is a post that was already being sent, or one that was ready.
LEMMA NewlySent ==
  ASSUME Sound, [Next]_vars, NEW p \in Posts,
         copies'[p] > 0 \/ limbo'[p] > 0 \/ state'[p] = "sending"
  PROVE  copies[p] > 0 \/ limbo[p] > 0 \/ state[p] = "sending" \/ Ready(p)
<1> USE DEF Sound, TypeOK
<1>1. CASE StartDrain \/ Fetch \/ EndBatch \/ Refuse \/ Send \/ Answer \/ EditDenyList
           \/ UNCHANGED vars
  <2>1. state' = state /\ copies' = copies /\ limbo' = limbo
    BY <1>1 DEF StartDrain, Fetch, EndBatch, Refuse, Send, Answer, EditDenyList, vars
  <2> QED
    BY <2>1
<1>2. ASSUME NEW q \in Posts, Claim(q)
      PROVE  copies[p] > 0 \/ limbo[p] > 0 \/ state[p] = "sending" \/ Ready(p)
  BY <1>2 DEF Claim
<1>3. CASE Finish
  <2>1. state' = Settled(drain.post, Verdict) /\ Verdict # "sending" /\ drain.post \in Posts
    BY <1>3, VerdictTyped DEF Finish, Verdict, Exclusive, InHand
  <2> QED
    BY <1>3, <2>1 DEF Finish, Settled
<1>4. CASE Restart
  BY <1>4, SettledSending DEF Restart
<1>5. CASE NoAnswer \/ Crash \/ Reach
  BY <1>5 DEF NoAnswer, Crash, Reach, Abandoned, Exclusive, InHand
<1>6. ASSUME NEW q \in Posts, Enqueue(q) \/ LatePublish(q) \/ Wake(q) \/ Requeue(q)
      PROVE  copies[p] > 0 \/ limbo[p] > 0 \/ state[p] = "sending" \/ Ready(p)
  BY <1>6 DEF Enqueue, LatePublish, Wake, Requeue
<1> QED
  BY <1>1, <1>2, <1>3, <1>4, <1>5, <1>6 DEF Next, DrainStep

\* A post appears in Slack only after the one it comes after was delivered, for
\* any chains of posts, failures, late publications and crashes: claim_post
\* checks the row again, and a delivered row never changes.
THEOREM DependentsAlwaysFollow == Spec => []DependentsFollow
<1>1. Init => Behind
  BY DEF Init, Behind
<1>2. Sound /\ Behind /\ [Next]_vars => Behind'
  <2> SUFFICES ASSUME Sound, Behind, [Next]_vars, NEW p \in Posts, After[p] # 0,
                      copies'[p] > 0 \/ limbo'[p] > 0 \/ state'[p] = "sending"
               PROVE  state'[After[p]] = "sent"
    BY DEF Behind
  <2>1. After[p] \in Posts
    BY OutboxAssumption
  <2>2. state[After[p]] = "sent"
    BY NewlySent DEF Behind, Ready
  <2> QED
    BY <2>1, <2>2, SentStays
<1>3. Sound /\ Behind => DependentsFollow
  BY DEF Behind, DependentsFollow
<1> QED
  BY <1>1, <1>2, <1>3, SoundAlways, PTL DEF Spec

=============================================================================
