------------------------- MODULE ThreadTurnsProofs -------------------------
(***************************************************************************)
(* Proofs about ThreadTurns for any sets of messages, instructions and     *)
(* reminders and any bounds.  Four inductive invariants: TypeOK with Busy, *)
(* Fenced (the version fence), Housekept (the inbox) and Accounted (the    *)
(* obligations and the posts that answer them); from them that a thread    *)
(* implements Obligations; and, over the steps, who may put off an item    *)
(* that the owner requeued.                                                *)
(***************************************************************************)
EXTENDS ThreadTurns, TLAPS

USE DEF threadVars, itemVars, replyVars, askVars, effectVars, envVars, ghostVars

\* A running turn has an item.
Busy == turn.step # "idle" => turn.item \in Items

\* The idle turn is a turn.
LEMMA IdleTyped == Idle \in Turns
  BY DEF Idle, Turns, Controls, Steps

\* The store of a fresh thread is well typed.
LEMMA TypeInit == Init => TypeOK
<1> SUFFICES ASSUME Init PROVE TypeOK
  OBVIOUS
<1> USE DEF Init
<1>1. /\ control \in Controls /\ driver \in {"parent", "external"}
      /\ version \in Nat /\ notes \in Nat /\ epoch \in Nat /\ edits \in Nat /\ faults \in Nat
      /\ review \in BOOLEAN /\ up \in BOOLEAN /\ failed \in Items \cup {NoItem}
  BY DEF Controls
<1>2. /\ inbox \in [Items -> ItemStates] /\ attempts \in [Items -> 0..3]
      /\ res \in [Items -> Reservations] /\ post \in [Items -> PostStates]
      /\ links \in [Items -> SUBSET Messages] /\ ask \in [Messages -> AskStates]
  BY DEF ItemStates, Reservations, PostStates, AskStates
<1>3. /\ later \in [Items -> BOOLEAN] /\ reread \in [Items -> BOOLEAN]
      /\ owned \in [Items -> BOOLEAN] /\ armed \in [Messages -> BOOLEAN]
  OBVIOUS
<1>4. /\ signals \subseteq Items /\ delegated \subseteq Items /\ wiped \subseteq Items
      /\ resent \subseteq Items /\ turn \in Turns
  BY IdleTyped
<1> QED
  BY <1>1, <1>2, <1>3, <1>4 DEF TypeOK

\* Counting a fault keeps the counter a number.
LEMMA FaultTyped == TypeOK /\ Fault => faults' \in Nat
  BY DEF TypeOK, Fault

\* Counting an edit keeps the counter a number.
LEMMA EditTyped == TypeOK /\ Edit => edits' \in Nat
  BY DEF TypeOK, Edit

\* Every step keeps the types; Busy is needed where an item is recorded.
LEMMA TypeStep == TypeOK /\ Busy /\ [Next]_vars => TypeOK'
<1> SUFFICES ASSUME TypeOK, Busy, [Next]_vars PROVE TypeOK'
  OBVIOUS
<1> USE DEF TypeOK, Controls, ItemStates, Reservations, PostStates, AskStates
<1>1. CASE Load
  <2>2. Arrived \in SUBSET Messages /\ Known \in SUBSET Messages
    BY DEF Arrived, Known, Outstanding
  <2>3. PICK due \in BOOLEAN, owner \in BOOLEAN :
           turn' = [turn EXCEPT
             !.step = "loaded", !.version = version, !.control = control, !.notes = notes,
             !.review = review, !.seen = Arrived, !.known = Known, !.due = due,
             !.owner = owner, !.epoch = epoch]
    BY <1>1 DEF Load
  <2>4. turn' \in Turns
    <3> HIDE DEF TypeOK, Known, Arrived, Controls
    <3>1. /\ turn \in Turns /\ version \in Nat /\ control \in Controls /\ notes \in Nat
          /\ review \in BOOLEAN /\ epoch \in Nat
      BY DEF TypeOK
    <3> DEFINE read == [turn EXCEPT !.step = "loaded", !.version = version, !.control = control,
                                    !.notes = notes, !.review = review, !.epoch = epoch]
    <3>2. read \in Turns
      BY <3>1 DEF Turns, Steps
    <3>3. turn' = [read EXCEPT !.seen = Arrived, !.known = Known, !.due = due, !.owner = owner]
      BY <2>3, <3>1 DEF Turns
    <3> HIDE DEF read
    <3> QED
      BY <2>2, <3>2, <3>3 DEF Turns
  <2> QED
    BY <1>1, <2>4 DEF Load
<1>2. CASE ReadDriver
  <2>1. turn' = [turn EXCEPT !.step = "ready", !.external = (driver = "external")]
    BY <1>2 DEF ReadDriver
  <2>2. turn' \in Turns
    BY <2>1 DEF Turns, Steps
  <2> QED
    BY <1>2, <2>2 DEF ReadDriver
<1>3. CASE SettleQuietly
  BY <1>3, IdleTyped DEF SettleQuietly, Observe, Fresh, Unclaim, Release
<1>4. CASE SettleForReview
  BY <1>4, IdleTyped DEF SettleForReview, Postpone, Fresh, Unclaim
<1>5. CASE Proceed
  BY <1>5 DEF Proceed, Turns, Steps
<1>6. CASE AskTriage
  BY <1>6 DEF AskTriage, Turns, Steps
<1>7. CASE TriageQuiet
  BY <1>7, IdleTyped DEF TriageQuiet, Observe, Fresh, Unclaim, Release
<1>8. CASE TriageRespond
  BY <1>8 DEF TriageRespond, Turns, Steps
<1>9. CASE RetryLater
  BY <1>9, IdleTyped, FaultTyped DEF RetryLater, Postpone, Fresh, Unclaim
<1>10. CASE ReserveDeferred
  BY <1>10, IdleTyped, FaultTyped DEF ReserveDeferred, Admissible
<1>11. CASE Reserve
  BY <1>11 DEF Reserve, Admissible, Turns, Steps
<1>12. CASE ReserveRefused
  BY <1>12 DEF ReserveRefused, Turns, Steps
<1>13. CASE Repair
  BY <1>13 DEF Repair, Turns, Steps
<1>14. CASE CallFails
  BY <1>14, FaultTyped DEF CallFails, Turns, Steps
<1>15. CASE FailTurn
  <2>1. CASE inbox[turn.item] = "processing"
    <3>1. inbox' \in [Items -> ItemStates] /\ later' \in [Items -> BOOLEAN]
      BY <1>15, <2>1, ZenonT(40) DEF FailTurn
    <3>2. attempts' \in [Items -> 0..3]
      BY <1>15, <2>1 DEF FailTurn
    <3>3. turn.item \in Items
      BY <1>15 DEF FailTurn, Busy
    <3> QED
      BY <1>15, <2>1, <3>1, <3>2, <3>3, IdleTyped DEF FailTurn
  <2>2. CASE inbox[turn.item] # "processing"
    BY <1>15, <2>2, IdleTyped DEF FailTurn
  <2> QED
    BY <2>1, <2>2
<1>16. CASE CommitStale
  BY <1>16, IdleTyped DEF CommitStale, Unclaim
<1>17. CASE CommitCooling
  BY <1>17, IdleTyped, FaultTyped DEF CommitCooling, Current, Fresh
<1>18. CASE CommitConflict
  BY <1>18 DEF CommitConflict, Turns, Steps
<1>19. CASE Pause
  BY <1>19 DEF Pause, SetControl
<1>20. CASE Resume
  BY <1>20 DEF Resume, SetControl, Requeued, Arrived
<1>21. CASE Retry
  BY <1>21 DEF Retry, SetControl, Requeued
<1>22. CASE Restore
  BY <1>22 DEF Restore, SetControl
<1>23. CASE Close
  BY <1>23 DEF Close, SetControl
<1>24. CASE Clean
  BY <1>24 DEF Clean, SetControl
<1>25. CASE SetDriver
  BY <1>25 DEF SetDriver
<1>26. CASE EditNotes
  BY <1>26, EditTyped DEF EditNotes
<1>27. CASE Crash
  BY <1>27, IdleTyped, FaultTyped DEF Crash
<1>28. CASE Restart
  BY <1>28 DEF Restart
<1>29. ASSUME NEW i \in Items, Claim(i) PROVE TypeOK'
  <2>1. turn' = [Idle EXCEPT !.step = "claimed", !.item = i]
    BY <1>29 DEF Claim
  <2>2. turn' \in Turns
    BY <2>1, IdleTyped DEF Turns, Steps
  <2> QED
    BY <1>29, <2>2 DEF Claim
<1>30. ASSUME NEW i \in Items, Wake(i) PROVE TypeOK'
  BY <1>30 DEF Wake
<1>31. ASSUME NEW i \in Items, Delivered(i) PROVE TypeOK'
  BY <1>31 DEF Delivered
<1>32. ASSUME NEW i \in Items, Undelivered(i) PROVE TypeOK'
  BY <1>32, FaultTyped DEF Undelivered
<1>33. ASSUME NEW i \in Items, RequeuePost(i) PROVE TypeOK'
  BY <1>33, EditTyped DEF RequeuePost
<1>34. ASSUME NEW m \in Messages, Intake(m) PROVE TypeOK'
  BY <1>34 DEF Intake, Items
<1>35. ASSUME NEW m \in Messages, Dispose(m) PROVE TypeOK'
  <2>1. ask' \in [Messages -> AskStates]
    BY <1>35 DEF Dispose
  <2>2. armed' \in [Messages -> BOOLEAN]
    BY <1>35 DEF Dispose
  <2> QED
    BY <1>35, <2>1, <2>2, EditTyped DEF Dispose
<1>36. ASSUME NEW r \in Reminders, QueueDue(r) PROVE TypeOK'
  BY <1>36 DEF QueueDue, Items
<1>37. ASSUME NEW c \in Instructions, Instruct(c) PROVE TypeOK'
  BY <1>37 DEF Instruct, SetControl, Items
<1>38. ASSUME NEW d \in Decisions, Commit(d) PROVE TypeOK'
  <2>1. turn.known \subseteq Messages /\ turn.item \in Items
    BY <1>38 DEF Turns, Busy, Commit
  <2>8. d.answers \subseteq turn.known
    BY DEF Decisions
  <2>2. /\ post' \in [Items -> PostStates] /\ res' \in [Items -> Reservations]
        /\ links' \in [Items -> SUBSET Messages]
    BY <1>38, <2>1, <2>8 DEF Commit, Release
  <2>3. ask' \in [Messages -> AskStates]
    BY <1>38 DEF Commit, Disposed
  <2>4. armed' \in [Messages -> BOOLEAN]
    BY <1>38 DEF Commit, Rearmed
  <2>5. /\ inbox' \in [Items -> ItemStates] /\ review' \in BOOLEAN
        /\ failed' \in Items \cup {NoItem} /\ turn' \in Turns
    BY <1>38, <2>1, IdleTyped DEF Commit
  <2>6. notes' \in Nat /\ edits' \in Nat
    BY <1>38, EditTyped DEF Commit
  <2>7. delegated' \subseteq Items
    BY <1>38, <2>1 DEF Commit
  <2> QED
    BY <1>38, <2>2, <2>3, <2>4, <2>5, <2>6, <2>7 DEF Commit
<1>39. CASE UNCHANGED vars
  BY <1>39 DEF vars
<1> QED
  BY <1>1, <1>2, <1>3, <1>4, <1>5, <1>6, <1>7, <1>8, <1>9, <1>10, <1>11, <1>12, <1>13, <1>14, <1>15, <1>16, <1>17, <1>18, <1>19, <1>20, <1>21, <1>22, <1>23, <1>24, <1>25, <1>26, <1>27, <1>28, <1>29, <1>30, <1>31, <1>32, <1>33, <1>34, <1>35, <1>36, <1>37, <1>38, <1>39 DEF Next, TurnStep, OwnerStep, WorldStep

-----------------------------------------------------------------------------
(***************************************************************************)
(* How a step moves the turn.                                              *)
(***************************************************************************)

\* The driver has been read.
Briefed == turn.step \notin {"idle", "claimed", "loaded"}

\* A step inside the turn that keeps what the turn has read.
Advance ==
  /\ Briefed /\ Briefed'
  /\ turn'.item = turn.item /\ turn'.version = turn.version
  /\ turn'.epoch = turn.epoch /\ turn'.external = turn.external /\ turn'.owner = turn.owner

\* A step starts the turn, reads its input, advances it, ends it or leaves it alone.
LEMMA TurnMoves ==
  ASSUME TypeOK, [Next]_vars
  PROVE  \/ turn' = turn \/ turn' = Idle \/ Advance
         \/ Load \/ ReadDriver \/ \E i \in Items : Claim(i)
<1> USE DEF TypeOK
<1>1. CASE SettleQuietly \/ TriageQuiet
  BY <1>1 DEF SettleQuietly, TriageQuiet, Observe
<1>2. CASE SettleForReview \/ RetryLater
  BY <1>2 DEF SettleForReview, RetryLater, Postpone
<1>3. CASE Proceed \/ AskTriage \/ TriageRespond \/ Reserve \/ ReserveRefused
  BY <1>3, ZenonT(40) DEF Proceed, AskTriage, TriageRespond, Reserve, ReserveRefused, Advance, Briefed, Turns
<1>4. CASE Repair \/ CallFails \/ CommitConflict
  BY <1>4 DEF Repair, CallFails, CommitConflict, Advance, Briefed, Turns
<1>5. CASE ReserveDeferred \/ FailTurn \/ CommitStale \/ CommitCooling \/ Crash
  BY <1>5 DEF ReserveDeferred, FailTurn, CommitStale, CommitCooling, Crash
<1>6. ASSUME NEW d \in Decisions, Commit(d) PROVE turn' = Idle
  BY <1>6 DEF Commit
<1>7. CASE OwnerStep
  BY <1>7 DEF OwnerStep, Pause, Resume, Retry, Restore, Close, Clean, SetDriver, EditNotes,
     Instruct, Dispose, RequeuePost
<1>8. CASE WorldStep
  BY <1>8, <1>5 DEF WorldStep, Intake, QueueDue, Wake, Delivered, Undelivered, Restart
<1>9. CASE UNCHANGED vars
  BY <1>9 DEF vars
<1> QED
  BY <1>1, <1>2, <1>3, <1>4, <1>5, <1>6, <1>7, <1>8, <1>9 DEF Next, TurnStep

\* Every step keeps Busy.
LEMMA BusyStep == TypeOK /\ Busy /\ [Next]_vars => Busy'
<1> SUFFICES ASSUME TypeOK, Busy, [Next]_vars PROVE Busy'
  OBVIOUS
<1>1. CASE turn' = turn
  BY <1>1 DEF Busy
<1>2. CASE turn' = Idle
  BY <1>2 DEF Busy, Idle
<1>3. CASE Advance
  BY <1>3 DEF Busy, Advance, Briefed
<1>4. CASE Load \/ ReadDriver
  BY <1>4, ZenonT(40) DEF Busy, Load, ReadDriver, TypeOK, Turns
<1>5. ASSUME NEW i \in Items, Claim(i) PROVE Busy'
  BY <1>5 DEF Busy, Claim, Idle
<1> QED
  BY <1>1, <1>2, <1>3, <1>4, <1>5, TurnMoves

\* Every variable of the specification keeps its type (the store's columns and
\* the actor's request stay within their domains).
THEOREM TypeCorrect == Spec => []TypeOK
<1>1. Init => TypeOK /\ Busy
  BY TypeInit DEF Init, Busy, Idle
<1>2. TypeOK /\ Busy /\ [Next]_vars => (TypeOK /\ Busy)'
  BY TypeStep, BusyStep
<1> QED
  BY <1>1, <1>2, PTL DEF Spec

-----------------------------------------------------------------------------
(***************************************************************************)
(* The version fence.  A turn's version is the epoch in which it was read, *)
(* and a turn that read an old driver has an old version.                  *)
(***************************************************************************)
Stamped == version = epoch /\ turn.version = turn.epoch /\ turn.version <= version

DriverFenced == Briefed /\ turn.version = version => turn.external = (driver = "external")

Fenced == TypeOK /\ Busy /\ Stamped /\ DriverFenced

\* Only the owner's controls change the version or the driver, the turn apart.
LEMMA ControlMoves ==
  ASSUME TypeOK, [Next]_vars
  PROVE  \/ version' = version /\ epoch' = epoch /\ driver' = driver
         \/ version' = version + 1 /\ epoch' = epoch + 1 /\ turn' = turn
<1>1. CASE SettleQuietly \/ TriageQuiet \/ SettleForReview \/ RetryLater
  BY <1>1 DEF SettleQuietly, TriageQuiet, Observe, SettleForReview, RetryLater, Postpone
<1>2. CASE Load \/ ReadDriver \/ Proceed \/ AskTriage \/ TriageRespond \/ Reserve \/ ReserveRefused
  BY <1>2 DEF Load, ReadDriver, Proceed, AskTriage, TriageRespond, Reserve, ReserveRefused
<1>3. CASE Repair \/ CallFails \/ CommitConflict \/ ReserveDeferred \/ FailTurn
  BY <1>3 DEF Repair, CallFails, CommitConflict, ReserveDeferred, FailTurn
<1>4. CASE CommitStale \/ CommitCooling
  BY <1>4 DEF CommitStale, CommitCooling
<1>5. ASSUME NEW d \in Decisions, Commit(d) PROVE version' = version /\ epoch' = epoch /\ driver' = driver
  BY <1>5 DEF Commit
<1>6. CASE OwnerStep
  BY <1>6 DEF OwnerStep, SetControl, Pause, Resume, Retry, Restore, Close, Clean, SetDriver,
     EditNotes, Instruct, Dispose, RequeuePost
<1>7. CASE WorldStep
  BY <1>7 DEF WorldStep, Intake, QueueDue, Wake, Delivered, Undelivered, Crash, Restart
<1>8. ASSUME NEW i \in Items, Claim(i) PROVE version' = version /\ epoch' = epoch /\ driver' = driver
  BY <1>8 DEF Claim
<1>9. CASE UNCHANGED vars
  BY <1>9 DEF vars
<1> QED
  BY <1>1, <1>2, <1>3, <1>4, <1>5, <1>6, <1>7, <1>8, <1>9 DEF Next, TurnStep

\* The fence holds of a fresh thread.
LEMMA FencedInit == Init => Fenced
  BY TypeInit DEF Init, Fenced, Busy, Stamped, DriverFenced, Briefed, Idle

\* Every step keeps the fence: a control moves the version past every turn's.
LEMMA FencedStep == Fenced /\ [Next]_vars => Fenced'
<1> SUFFICES ASSUME Fenced, [Next]_vars PROVE Fenced'
  OBVIOUS
<1>1. TypeOK /\ TypeOK' /\ Busy'
  BY TypeStep, BusyStep DEF Fenced
<1>2. /\ version \in Nat /\ epoch \in Nat /\ turn.version \in Nat /\ turn \in Turns
  BY <1>1 DEF TypeOK, Turns
<1>3. CASE version' = version + 1 /\ epoch' = epoch + 1 /\ turn' = turn
  BY <1>1, <1>2, <1>3 DEF Fenced, Stamped, DriverFenced, Briefed
<1>4. CASE version' = version /\ epoch' = epoch /\ driver' = driver
  <2>1. CASE turn' = turn
    BY <1>1, <1>4, <2>1 DEF Fenced, Stamped, DriverFenced, Briefed
  <2>2. CASE turn' = Idle
    BY <1>1, <1>2, <1>4, <2>2 DEF Fenced, Stamped, DriverFenced, Briefed, Idle
  <2>3. CASE Advance
    BY <1>1, <1>4, <2>3 DEF Fenced, Stamped, DriverFenced, Advance
  <2>4. CASE Load
    BY <1>1, <1>2, <1>4, <2>4 DEF Fenced, Stamped, DriverFenced, Briefed, Load, Turns
  <2>5. CASE ReadDriver
    <3>1. /\ turn'.version = turn.version /\ turn'.epoch = turn.epoch
          /\ turn'.external = (driver = "external")
      BY <1>2, <2>5 DEF ReadDriver, Turns
    <3> QED
      BY <1>1, <1>4, <3>1 DEF Fenced, Stamped, DriverFenced
  <2>6. ASSUME NEW i \in Items, Claim(i) PROVE Fenced'
    BY <1>1, <1>2, <1>4, <2>6 DEF Fenced, Stamped, DriverFenced, Briefed, Claim, Idle
  <2> QED
    BY <1>1, <2>1, <2>2, <2>3, <2>4, <2>5, <2>6, TurnMoves
<1> QED
  BY <1>1, <1>3, <1>4, ControlMoves

\* The fence holds in every reachable state.
LEMMA FencedAlways == Spec => []Fenced
  BY FencedInit, FencedStep, PTL DEF Spec

\* A turn finishes an item or queues a post only in the epoch in which it read
\* its input: the version fences of settle and commit are enough.
THEOREM FreshDecisions == Spec => FreshDecision
<1> DEFINE Finishes(i) == inbox[i] # "done" /\ inbox'[i] = "done"
           Posts(i)    == post[i] = "none" /\ post'[i] # "none"
           Dated(i) ==
             /\ Finishes(i) => turn.item = i /\ turn.epoch = epoch
             /\ Posts(i) => /\ turn.item = i /\ turn.epoch = epoch /\ turn.notes = notes
                            /\ control = "active"
<1>1. ASSUME Fenced, Next, NEW i \in Items PROVE Dated(i)
  <2> USE <1>1 DEF Fenced, Stamped, TypeOK
  <2>1. CASE SettleQuietly \/ TriageQuiet
    BY <2>1 DEF SettleQuietly, TriageQuiet, Observe, Fresh, Unclaim
  <2>2. CASE SettleForReview \/ RetryLater
    BY <2>2 DEF SettleForReview, RetryLater, Postpone, Unclaim
  <2>3. CASE \/ Load \/ ReadDriver \/ Proceed \/ AskTriage \/ TriageRespond \/ Reserve
             \/ ReserveRefused \/ Repair \/ CallFails \/ CommitConflict
    BY <2>3 DEF Load, ReadDriver, Proceed, AskTriage, TriageRespond, Reserve, ReserveRefused,
       Repair, CallFails, CommitConflict
  <2>4. CASE ReserveDeferred \/ FailTurn \/ CommitStale \/ CommitCooling
    BY <2>4 DEF ReserveDeferred, FailTurn, CommitStale, CommitCooling, Unclaim
  <2>5. ASSUME NEW d \in Decisions, Commit(d) PROVE Dated(i)
    BY <2>5 DEF Commit, Current, Fresh
  <2>6. CASE OwnerStep
    <3>1. CASE Pause \/ Restore \/ Close \/ SetDriver \/ EditNotes
      BY <3>1 DEF Pause, Restore, Close, SetDriver, EditNotes
    <3>2. CASE Resume \/ Retry \/ Clean
      BY <3>2 DEF Resume, Retry, Clean, Requeued
    <3>3. ASSUME NEW c \in Instructions, Instruct(c) PROVE Dated(i)
      BY <3>3 DEF Instruct
    <3>4. ASSUME NEW m \in Messages, Dispose(m) PROVE Dated(i)
      BY <3>4 DEF Dispose
    <3>5. ASSUME NEW j \in Items, RequeuePost(j) PROVE Dated(i)
      BY <3>5 DEF RequeuePost
    <3> QED
      BY <2>6, <3>1, <3>2, <3>3, <3>4, <3>5 DEF OwnerStep
  <2>7. CASE WorldStep
    BY <2>7 DEF WorldStep, Intake, QueueDue, Wake, Delivered, Undelivered, Crash, Restart
  <2>8. ASSUME NEW j \in Items, Claim(j) PROVE Dated(i)
    BY <2>8 DEF Claim
  <2> QED
    BY <2>1, <2>2, <2>3, <2>4, <2>5, <2>6, <2>7, <2>8 DEF Next, TurnStep
<1>2. Fenced /\ [Next]_vars => [\A i \in Items : Dated(i)]_vars
  BY <1>1
<1> QED
  BY <1>2, FencedAlways, PTL DEF Spec, FreshDecision

\* A turn delegates work only while the thread is the parent's, although it reads
\* the driver in a later transaction than the rest of its input.
THEOREM DriverOwns == Spec => DriverOwnsWork
<1>1. ASSUME Fenced, Next, delegated' # delegated PROVE driver = "parent"
  <2> USE <1>1 DEF Fenced, Stamped, TypeOK
  <2>1. PICK d \in Decisions : Commit(d)
    <3>1. CASE SettleQuietly \/ TriageQuiet \/ SettleForReview \/ RetryLater
      BY <3>1 DEF SettleQuietly, TriageQuiet, Observe, SettleForReview, RetryLater, Postpone
    <3>2. CASE \/ Load \/ ReadDriver \/ Proceed \/ AskTriage \/ TriageRespond \/ Reserve
               \/ ReserveRefused \/ Repair \/ CallFails \/ CommitConflict
      BY <3>2 DEF Load, ReadDriver, Proceed, AskTriage, TriageRespond, Reserve, ReserveRefused,
         Repair, CallFails, CommitConflict
    <3>3. CASE ReserveDeferred \/ FailTurn \/ CommitStale \/ CommitCooling
      BY <3>3 DEF ReserveDeferred, FailTurn, CommitStale, CommitCooling
    <3>4. CASE OwnerStep
      BY <3>4 DEF OwnerStep, Pause, Resume, Retry, Restore, Close, Clean, SetDriver, EditNotes,
         Instruct, Dispose, RequeuePost
    <3>5. CASE WorldStep
      BY <3>5 DEF WorldStep, Intake, QueueDue, Wake, Delivered, Undelivered, Crash, Restart
    <3>6. ~ \E i \in Items : Claim(i)
      BY DEF Claim
    <3> QED
      BY <3>1, <3>2, <3>3, <3>4, <3>5, <3>6 DEF Next, TurnStep
  <2>2. d.delegates
    BY <2>1 DEF Commit
  <2>3. ~turn.external
    BY <2>2 DEF Decisions
  <2>4. Briefed /\ turn.version = version
    BY <2>1 DEF Commit, Current, Fresh, Briefed
  <2> QED
    BY <2>3, <2>4 DEF DriverFenced
<1>2. Fenced /\ [Next]_vars => [delegated' # delegated => driver = "parent"]_vars
  BY <1>1
<1> QED
  BY <1>2, FencedAlways, PTL DEF Spec, DriverOwnsWork

-----------------------------------------------------------------------------
(***************************************************************************)
(* The inbox.  A claimed item belongs to the running turn, which needs the *)
(* daemon up; what clean discarded is not claimable.                       *)
(***************************************************************************)
DownIdle == ~up => turn.step = "idle"

WipedDropped == \A i \in wiped : inbox[i] = "dropped"

Housekept == TypeOK /\ Busy /\ DownIdle /\ ClaimOwned /\ WipedDropped /\ DropsAreVisible

\* The inbox invariant holds of a fresh thread.
LEMMA HousekeptInit == Init => Housekept
  BY TypeInit DEF Init, Housekept, Busy, DownIdle, ClaimOwned, WipedDropped, DropsAreVisible, Idle

\* Every step keeps the inbox invariant.
LEMMA HousekeptStep == Housekept /\ [Next]_vars => Housekept'
<1> SUFFICES ASSUME Housekept, [Next]_vars
             PROVE  (DownIdle /\ ClaimOwned /\ WipedDropped /\ DropsAreVisible)'
  BY TypeStep, BusyStep DEF Housekept
<1> DEFINE Goal == (DownIdle /\ ClaimOwned /\ WipedDropped /\ DropsAreVisible)'
<1> USE DEF Housekept, TypeOK, Busy, DownIdle, ClaimOwned, WipedDropped, DropsAreVisible
<1>1. CASE SettleQuietly \/ TriageQuiet
  BY <1>1 DEF SettleQuietly, TriageQuiet, Observe, Fresh, Unclaim, Idle
<1>2. CASE SettleForReview \/ RetryLater
  BY <1>2 DEF SettleForReview, RetryLater, Postpone, Fresh, Unclaim, Idle
<1>3. CASE \/ Load \/ ReadDriver \/ Proceed \/ AskTriage \/ TriageRespond \/ Reserve
           \/ ReserveRefused
  <2>1. turn.step # "idle" /\ turn'.step # "idle" /\ turn'.item = turn.item
    <3>1. CASE Load
      BY <3>1 DEF Load, Turns
    <3>2. CASE ReadDriver
      BY <3>2 DEF ReadDriver, Turns
    <3>3. CASE Proceed \/ AskTriage
      BY <3>3 DEF Proceed, AskTriage, Turns
    <3>4. CASE TriageRespond
      BY <3>4 DEF TriageRespond, Turns
    <3>5. CASE Reserve \/ ReserveRefused
      BY <3>5 DEF Reserve, ReserveRefused, Turns
    <3> QED
      BY <1>3, <3>1, <3>2, <3>3, <3>4, <3>5
  <2>2. UNCHANGED <<inbox, up, wiped, attempts, signals>>
    BY <1>3 DEF Load, ReadDriver, Proceed, AskTriage, TriageRespond, Reserve, ReserveRefused
  <2> QED
    BY <2>1, <2>2
<1>4. CASE Repair \/ CallFails \/ CommitConflict
  BY <1>4 DEF Repair, CallFails, CommitConflict, Turns
<1>5. CASE ReserveDeferred
  BY <1>5 DEF ReserveDeferred, Admissible, Idle
<1>6. CASE FailTurn
  BY <1>6 DEF FailTurn, Idle
<1>7. CASE CommitStale
  BY <1>7 DEF CommitStale, Unclaim, Idle
<1>8. CASE CommitCooling
  BY <1>8 DEF CommitCooling, Current, Fresh, Idle
<1>9. ASSUME NEW d \in Decisions, Commit(d) PROVE Goal
  BY <1>9 DEF Commit, Current, Fresh, Idle
<1>10. CASE Pause \/ Restore \/ Close \/ SetDriver \/ EditNotes
  BY <1>10 DEF Pause, Restore, Close, SetDriver, EditNotes, SetControl
<1>11. CASE Resume
  BY <1>11 DEF Resume, Requeued, SetControl
<1>12. CASE Retry
  BY <1>12 DEF Retry, Requeued, SetControl
<1>13. CASE Clean
  BY <1>13 DEF Clean, SetControl
<1>14. ASSUME NEW c \in Instructions, Instruct(c) PROVE Goal
  BY <1>14 DEF Instruct, SetControl, Items
<1>15. ASSUME NEW m \in Messages, Dispose(m) PROVE Goal
  BY <1>15 DEF Dispose
<1>16. ASSUME NEW i \in Items, RequeuePost(i) \/ Delivered(i) \/ Undelivered(i) \/ Wake(i) PROVE Goal
  BY <1>16 DEF RequeuePost, Delivered, Undelivered, Wake
<1>17. ASSUME NEW m \in Messages, Intake(m) PROVE Goal
  BY <1>17 DEF Intake, Items
<1>18. ASSUME NEW r \in Reminders, QueueDue(r) PROVE Goal
  BY <1>18 DEF QueueDue, Items
<1>19. CASE Crash
  BY <1>19 DEF Crash, Idle
<1>20. CASE Restart
  BY <1>20 DEF Restart
<1>21. ASSUME NEW i \in Items, Claim(i) PROVE Goal
  BY <1>21 DEF Claim, Idle
<1>22. CASE UNCHANGED vars
  BY <1>22 DEF vars
<1> QED
  BY <1>1, <1>2, <1>3, <1>4, <1>5, <1>6, <1>7, <1>8, <1>9, <1>10, <1>11, <1>12, <1>13, <1>14,
     <1>15, <1>16, <1>17, <1>18, <1>19, <1>20, <1>21, <1>22
  DEF Next, TurnStep, OwnerStep, WorldStep

\* The inbox invariant holds in every reachable state.
LEMMA HousekeptAlways == Spec => []Housekept
  BY HousekeptInit, HousekeptStep, PTL DEF Spec

\* No exit of a turn, however stale or failed, and no crash followed by recovery
\* leaves an item claimed that no turn owns.
THEOREM ClaimsOwned == Spec => []ClaimOwned
  BY HousekeptAlways, PTL DEF Housekept

\* An item is lost only by the owner's clean or visibly, after three attempts.
THEOREM VisibleDrops == Spec => []DropsAreVisible
  BY HousekeptAlways, PTL DEF Housekept

\* What clean discarded stays inert: a turn that was running when the owner
\* cleaned the thread neither finishes, requeues nor answers the item, delegates
\* for it or raises a signal about it.
THEOREM WipedStaysInert == Spec => WipedIsInert
<1> DEFINE Inert(i) == /\ inbox'[i] = "dropped"
                       /\ post[i] = "none" => post'[i] = "none"
                       /\ i \in signals' => i \in signals
                       /\ i \in delegated' => i \in delegated
<1>1. ASSUME Housekept, Housekept', Next, NEW i \in wiped \cap wiped' PROVE Inert(i)
  <2> USE <1>1 DEF Housekept, TypeOK
  <2>1. i \in Items /\ inbox[i] = "dropped" /\ inbox'[i] = "dropped"
    BY DEF WipedDropped
  <2>2. post[i] = "none" => post'[i] = "none"
    <3>1. CASE \/ SettleQuietly \/ TriageQuiet \/ SettleForReview \/ RetryLater
               \/ Load \/ ReadDriver \/ Proceed \/ AskTriage \/ TriageRespond \/ Reserve
               \/ ReserveRefused \/ Repair \/ CallFails \/ CommitConflict
               \/ ReserveDeferred \/ FailTurn \/ CommitStale \/ CommitCooling
      BY <3>1 DEF SettleQuietly, TriageQuiet, Observe, SettleForReview, RetryLater, Postpone,
         Load, ReadDriver, Proceed, AskTriage, TriageRespond, Reserve, ReserveRefused,
         Repair, CallFails, CommitConflict, ReserveDeferred, FailTurn, CommitStale, CommitCooling
    <3>2. ASSUME NEW d \in Decisions, Commit(d), post[i] = "none" PROVE post'[i] = "none"
      BY <2>1, <3>2 DEF Commit, Current, Fresh
    <3>3. CASE OwnerStep
      BY <2>1, <3>3 DEF OwnerStep, Pause, Resume, Retry, Restore, Close, Clean, SetDriver,
         EditNotes, Instruct, Dispose, RequeuePost
    <3>4. CASE WorldStep
      BY <2>1, <3>4 DEF WorldStep, Intake, QueueDue, Wake, Delivered, Undelivered, Crash, Restart
    <3>5. ASSUME NEW j \in Items, Claim(j), post[i] = "none" PROVE post'[i] = "none"
      BY <3>5 DEF Claim
    <3> QED
      BY <3>1, <3>2, <3>3, <3>4, <3>5 DEF Next, TurnStep
  <2>3. (i \in signals' => i \in signals) /\ (i \in delegated' => i \in delegated)
    <3>1. CASE \/ SettleQuietly \/ TriageQuiet \/ SettleForReview \/ RetryLater
               \/ Load \/ ReadDriver \/ Proceed \/ AskTriage \/ TriageRespond \/ Reserve
               \/ ReserveRefused \/ Repair \/ CallFails \/ CommitConflict
               \/ ReserveDeferred \/ CommitStale \/ CommitCooling
      BY <3>1 DEF SettleQuietly, TriageQuiet, Observe, SettleForReview, RetryLater, Postpone,
         Load, ReadDriver, Proceed, AskTriage, TriageRespond, Reserve, ReserveRefused,
         Repair, CallFails, CommitConflict, ReserveDeferred, CommitStale, CommitCooling
    <3>2. CASE FailTurn
      BY <2>1, <3>2 DEF FailTurn
    <3>3. ASSUME NEW d \in Decisions, Commit(d)
          PROVE  (i \in signals' => i \in signals) /\ (i \in delegated' => i \in delegated)
      BY <2>1, <3>3 DEF Commit, Current, Fresh
    <3>4. CASE OwnerStep
      BY <3>4 DEF OwnerStep, Pause, Resume, Retry, Restore, Close, Clean, SetDriver, EditNotes,
         Instruct, Dispose, RequeuePost
    <3>5. CASE WorldStep
      BY <3>5 DEF WorldStep, Intake, QueueDue, Wake, Delivered, Undelivered, Crash, Restart
    <3>6. ASSUME NEW j \in Items, Claim(j)
          PROVE  (i \in signals' => i \in signals) /\ (i \in delegated' => i \in delegated)
      BY <3>6 DEF Claim
    <3> QED
      BY <3>1, <3>2, <3>3, <3>4, <3>5, <3>6 DEF Next, TurnStep
  <2> QED
    BY <2>1, <2>2, <2>3
<1>2. Housekept /\ Housekept' /\ [Next]_vars => [\A i \in wiped \cap wiped' : Inert(i)]_vars
  BY <1>1
<1> QED
  BY <1>2, HousekeptAlways, PTL DEF Spec, WipedIsInert

-----------------------------------------------------------------------------
(***************************************************************************)
(* Obligations and the posts that answer them.                             *)
(***************************************************************************)
LinksPosted   == \A i \in Items : post[i] = "none" => links[i] = {}
AbsentUnasked == \A m \in Messages : inbox[m] = "absent" => ask[m] = "none"
UnaskedFree   == \A m \in Messages : ask[m] = "none" => \A i \in Items : m \notin links[i]

\* An outstanding obligation has no live answer, except one the owner sent again.
OldAnswers ==
  \A m \in Messages, j \in Items :
    ask[m] \in {"open", "deferred"} /\ m \in links[j] => post[j] \in {"failed", "sent"} \/ j \in resent

Accounted == LinksPosted /\ AbsentUnasked /\ UnaskedFree /\ OldAnswers /\ AnswersMatchDelivery

\* The obligations of a fresh thread are accounted for.
LEMMA AccountedInit == Init => Accounted
  BY DEF Init, Accounted, LinksPosted, AbsentUnasked, UnaskedFree, OldAnswers,
     AnswersMatchDelivery, Items

\* Every step keeps obligations and posts accounted for.
LEMMA AccountedStep == Housekept /\ Accounted /\ [Next]_vars => Accounted'
<1> SUFFICES ASSUME Housekept, Accounted, [Next]_vars PROVE Accounted'
  OBVIOUS
<1> USE DEF Accounted, LinksPosted, AbsentUnasked, UnaskedFree, OldAnswers,
        AnswersMatchDelivery, Housekept, TypeOK
<1>0. Messages \subseteq Items /\ Instructions \subseteq Items /\ Reminders \subseteq Items
  BY DEF Items
<1>1. CASE SettleQuietly \/ TriageQuiet
  BY <1>0, <1>1 DEF SettleQuietly, TriageQuiet, Observe, Unclaim
<1>2. CASE SettleForReview \/ RetryLater
  BY <1>0, <1>2 DEF SettleForReview, RetryLater, Postpone, Unclaim
<1>3. CASE \/ Load \/ ReadDriver \/ Proceed \/ AskTriage \/ TriageRespond \/ Reserve
           \/ ReserveRefused \/ Repair \/ CallFails \/ CommitConflict
  BY <1>3 DEF Load, ReadDriver, Proceed, AskTriage, TriageRespond, Reserve, ReserveRefused,
     Repair, CallFails, CommitConflict
<1>4. CASE ReserveDeferred \/ FailTurn
  BY <1>0, <1>4 DEF ReserveDeferred, FailTurn
<1>5. CASE CommitStale \/ CommitCooling
  BY <1>0, <1>5 DEF CommitStale, CommitCooling, Unclaim
<1>6. ASSUME NEW d \in Decisions, Commit(d) PROVE Accounted'
  <2>1. turn.item \in Items /\ inbox[turn.item] = "processing"
    BY <1>6 DEF Commit, Busy, Current, Fresh
  <2>2. /\ d.declines \cup d.defers \subseteq Known
        /\ Queues(d) => d.answers \subseteq Known
        /\ d.answers \cap (d.declines \cup d.defers) = {}
    BY <1>6 DEF Commit, Conflict, Decisions
  <2>3. \A m \in Known : /\ ask[m] \in {"open", "deferred", "awaiting_delivery"}
                         /\ ask[m] = "awaiting_delivery" =>
                              \A j \in Items : m \in links[j] => post[j] = "failed"
    BY DEF Known, Outstanding, AllFailed
  <2>4. /\ ask' = Disposed(d) /\ inbox' = [inbox EXCEPT ![turn.item] = "done"]
        /\ resent' = resent
    BY <1>6 DEF Commit
  <2>5. AbsentUnasked'
    BY <1>0, <2>1, <2>2, <2>3, <2>4 DEF Disposed
  <2>6. CASE Queues(d)
    <3>1. /\ post[turn.item] = "none"
          /\ post' = [post EXCEPT ![turn.item] = "pending"]
          /\ links' = [links EXCEPT ![turn.item] = d.answers]
      BY <1>6, <2>6 DEF Commit, Queues
    <3>2. LinksPosted'
      BY <2>1, <3>1
    <3>3. UnaskedFree'
      BY <2>1, <2>2, <2>3, <2>4, <2>6, <3>1 DEF Disposed
    <3>4. OldAnswers'
      BY <2>1, <2>2, <2>3, <2>4, <2>6, <3>1 DEF Disposed
    <3>5. AnswersMatchDelivery'
      BY <2>1, <2>2, <2>3, <2>4, <2>6, <3>1 DEF Disposed
    <3> QED
      BY <2>5, <3>2, <3>3, <3>4, <3>5
  <2>7. CASE ~Queues(d)
    <3>1. post' = post /\ links' = links
      BY <1>6, <2>7 DEF Commit
    <3> QED
      BY <2>2, <2>3, <2>4, <2>5, <2>7, <3>1 DEF Disposed
  <2> QED
    BY <2>6, <2>7
<1>7. CASE Pause \/ Restore \/ Close \/ SetDriver \/ EditNotes
  BY <1>7 DEF Pause, Restore, Close, SetDriver, EditNotes
<1>8. CASE Resume
  BY <1>0, <1>8 DEF Resume, Requeued, Arrived
<1>9. CASE Retry
  <2>1. failed \in Items /\ \A i \in Items : inbox'[i] = "absent" => inbox[i] = "absent"
    BY <1>9 DEF Retry, Requeued
  <2> QED
    BY <1>0, <1>9, <2>1 DEF Retry
<1>10. CASE Clean
  <2>1. UNCHANGED <<post, links, resent>>
    BY <1>10 DEF Clean
  <2>2. \A i \in Items : inbox'[i] = "absent" => inbox[i] = "absent"
    BY <1>10 DEF Clean
  <2>3. ask' = [m \in Messages |-> IF ask[m] \in {"open", "deferred", "awaiting_delivery"}
                                   THEN "owner_closed" ELSE ask[m]]
    BY <1>10 DEF Clean
  <2> QED
    BY <1>0, <2>1, <2>2, <2>3
<1>11. ASSUME NEW c \in Instructions, Instruct(c) PROVE Accounted'
  BY <1>0, <1>11 DEF Instruct
<1>12. ASSUME NEW m \in Messages, Dispose(m) PROVE Accounted'
  BY <1>0, <1>12 DEF Dispose, Outstanding
<1>13. ASSUME NEW i \in Items, RequeuePost(i) PROVE Accounted'
  BY <1>13 DEF RequeuePost
<1>14. ASSUME NEW i \in Items, Delivered(i) PROVE Accounted'
  BY <1>14 DEF Delivered
<1>15. ASSUME NEW i \in Items, Undelivered(i) PROVE Accounted'
  BY <1>15 DEF Undelivered
<1>16. ASSUME NEW m \in Messages, Intake(m) PROVE Accounted'
  BY <1>0, <1>16 DEF Intake
<1>17. ASSUME NEW r \in Reminders, QueueDue(r) PROVE Accounted'
  BY <1>0, <1>17 DEF QueueDue
<1>18. CASE Crash \/ Restart
  BY <1>0, <1>18 DEF Crash, Restart
<1>19. ASSUME NEW i \in Items, Claim(i) \/ Wake(i) PROVE Accounted'
  BY <1>0, <1>19 DEF Claim, Wake
<1>20. CASE UNCHANGED vars
  BY <1>20 DEF vars
<1> QED
  BY <1>1, <1>2, <1>3, <1>4, <1>5, <1>6, <1>7, <1>8, <1>9, <1>10, <1>11, <1>12, <1>13, <1>14,
     <1>15, <1>16, <1>17, <1>18, <1>19, <1>20
  DEF Next, TurnStep, OwnerStep, WorldStep

\* Obligations and posts are accounted for in every reachable state.
LEMMA AccountedAlways == Spec => []Accounted
  BY AccountedInit, AccountedStep, HousekeptAlways, PTL DEF Spec

\* An obligation is answered only by a delivered post, and one that awaits
\* delivery has a post that may still be delivered or sent again.
THEOREM AnswersAreDelivered == Spec => []AnswersMatchDelivery
  BY AccountedAlways, PTL DEF Accounted

\* While an answer to an obligation is queued or of unknown fate, no turn queues
\* another one, unless the owner sent the first again by hand.
THEOREM NoSecondAnswers == Spec => NoSecondAnswer
<1> DEFINE Single(i, j) ==
             \A m \in links'[i] \ links[i] :
               m \in links[j] => post[j] \in {"failed", "sent"} \/ j \in resent
<1>1. ASSUME Housekept, Accounted, Next, NEW i \in Items, NEW j \in Items PROVE Single(i, j)
  <2> USE <1>1 DEF Housekept, TypeOK
  <2>1. CASE ~ \E d \in Decisions : Commit(d)
    <3>1. links' = links
      <4>1. CASE OwnerStep
        BY <4>1 DEF OwnerStep, Pause, Resume, Retry, Restore, Close, Clean, SetDriver, EditNotes,
           Instruct, Dispose, RequeuePost
      <4>2. CASE WorldStep
        BY <4>2 DEF WorldStep, Intake, QueueDue, Wake, Delivered, Undelivered, Crash, Restart
      <4>3. CASE TurnStep
        BY <2>1, <4>3 DEF TurnStep, SettleQuietly, TriageQuiet, Observe, SettleForReview,
           RetryLater, Postpone, Load, ReadDriver, Proceed, AskTriage, TriageRespond, Reserve,
           ReserveRefused, Repair, CallFails, CommitConflict, ReserveDeferred, FailTurn,
           CommitStale, CommitCooling
      <4>4. CASE \E k \in Items : Claim(k)
        BY <4>4 DEF Claim
      <4> QED
        BY <4>1, <4>2, <4>3, <4>4 DEF Next
    <3> QED
      BY <3>1
  <2>2. ASSUME NEW d \in Decisions, Commit(d) PROVE Single(i, j)
    <3>1. CASE Queues(d) /\ i = turn.item
      <4>1. links'[i] = d.answers /\ d.answers \subseteq Known
        BY <2>2, <3>1 DEF Commit, Conflict
      <4> QED
        BY <4>1 DEF Known, Outstanding, AllFailed, Accounted, OldAnswers
    <3>2. CASE ~(Queues(d) /\ i = turn.item)
      BY <2>2, <3>2 DEF Commit
    <3> QED
      BY <3>1, <3>2
  <2> QED
    BY <2>1, <2>2
<1>2. Housekept /\ Accounted /\ [Next]_vars => [\A i, j \in Items : Single(i, j)]_vars
  BY <1>1
<1> QED
  BY <1>2, HousekeptAlways, AccountedAlways, PTL DEF Spec, NoSecondAnswer
-----------------------------------------------------------------------------
(***************************************************************************)
(* The thread implements Obligations.                                      *)
(***************************************************************************)

\* Nothing is on its way to the obligation of m.
Unanswered(m) == ask[m] \in {"open", "deferred"} \/ (ask[m] = "awaiting_delivery" /\ AllFailed(m))

\* What a step may do with an obligation and its posts.
AskMoves(m) ==
  \/ ask'[m] = ask[m]
  \/ ask[m] = "none" /\ ask'[m] = "open"
  \/ /\ Unanswered(m) /\ ask'[m] = "awaiting_delivery"
     /\ \E i \in Items : m \in links'[i] /\ post'[i] = "pending"
  \/ Unanswered(m) /\ ask'[m] \in {"deferred", "declined", "expired"}
  \/ /\ ask[m] = "awaiting_delivery" /\ ask'[m] = "answered"
     /\ \E i \in Items : m \in links'[i] /\ post'[i] = "sent"
  \/ ask[m] \in {"open", "deferred", "awaiting_delivery"} /\ ask'[m] = "owner_closed"

PostsKept == \A i \in Items : links[i] \subseteq links'[i] /\ (post[i] = "sent" => post'[i] = "sent")

\* The fates of a message's answers, by post.
LEMMA AnswersAre ==
  ASSUME NEW m \in Messages
  PROVE  \A s : s \in AnswersOf[m] <=> \E i \in Items : m \in links[i] /\ post[i] = s
  BY DEF AnswersOf

\* A message whose answers all failed is one nothing is on its way to.
LEMMA UnansweredIs ==
  ASSUME NEW m \in Messages, Unanswered(m)
  PROVE  Attention!Unanswered(m)
<1>1. ASSUME AllFailed(m) PROVE AnswersOf[m] = {"failed"}
  BY <1>1, AnswersAre DEF AllFailed
<1> QED
  BY <1>1 DEF Unanswered, Attention!Unanswered

\* Such a step is one of Obligations.
LEMMA MovesAreAttention ==
  ASSUME TypeOK, TypeOK', Accounted, Accounted', PostsKept, \A m \in Messages : AskMoves(m)
  PROVE  Attention!Next
<1>1. ask' \in [Messages -> Attention!States]
  BY DEF TypeOK, AskStates, Attention!States, Attention!Ended
<1>2. ASSUME NEW m \in Messages PROVE AnswersOf'[m] \subseteq Attention!Fates
  <2>1. \A s : s \in AnswersOf'[m] => \E i \in Items : m \in links'[i] /\ post'[i] = s
    BY DEF AnswersOf
  <2>2. \A i \in Items : m \in links'[i] => post'[i] \in Attention!Fates
    BY DEF TypeOK, PostStates, Accounted, LinksPosted, Attention!Fates
  <2> QED
    BY <2>1, <2>2
<1>3. AnswersOf' \in [Messages -> SUBSET Attention!Fates]
  BY <1>2 DEF AnswersOf
<1>4. ASSUME NEW m \in Messages
      PROVE  /\ \/ Attention!Open(m) \/ Attention!Queue(m) \/ Attention!Dismiss(m) \/ Attention!Meet(m)
                \/ Attention!Close(m) \/ ask'[m] = ask[m]
             /\ Attention!Keeps(m)
  <2>1. \A s : s \in AnswersOf'[m] <=> \E i \in Items : m \in links'[i] /\ post'[i] = s
    BY DEF AnswersOf
  <2>2. "sent" \in AnswersOf[m] => "sent" \in AnswersOf'[m]
    BY <2>1, AnswersAre DEF PostsKept
  <2>3. ask'[m] = "awaiting_delivery" => AnswersOf'[m] \ {"sent"} # {}
    BY <2>1 DEF Accounted, AnswersMatchDelivery
  <2>4. AskMoves(m)
    OBVIOUS
  <2> QED
    BY <2>1, <2>2, <2>3, <2>4, UnansweredIs
    DEF AskMoves, Attention!Open, Attention!Queue, Attention!Dismiss, Attention!Meet, Attention!Close,
        Attention!Becomes, Attention!Keeps
<1> QED
  BY <1>1, <1>3, <1>4 DEF Attention!Next

\* Every step moves obligations so.
LEMMA ObligationsMove ==
  ASSUME Housekept, Accounted, [Next]_vars
  PROVE  PostsKept /\ \A m \in Messages : AskMoves(m)
<1> USE DEF Housekept, TypeOK
<1>0. Messages \subseteq Items
  BY DEF Items
<1>q. ASSUME UNCHANGED <<ask, post, links>> PROVE PostsKept /\ \A m \in Messages : AskMoves(m)
  BY <1>q DEF PostsKept, AskMoves
<1>1. CASE SettleQuietly \/ TriageQuiet \/ SettleForReview \/ RetryLater
  BY <1>q, <1>1 DEF SettleQuietly, TriageQuiet, Observe, SettleForReview, RetryLater, Postpone
<1>2. CASE \/ Load \/ ReadDriver \/ Proceed \/ AskTriage \/ TriageRespond \/ Reserve
           \/ ReserveRefused \/ Repair \/ CallFails \/ CommitConflict
  BY <1>q, <1>2 DEF Load, ReadDriver, Proceed, AskTriage, TriageRespond, Reserve, ReserveRefused,
     Repair, CallFails, CommitConflict
<1>3. CASE ReserveDeferred \/ FailTurn \/ CommitStale \/ CommitCooling
  BY <1>q, <1>3 DEF ReserveDeferred, FailTurn, CommitStale, CommitCooling
<1>4. ASSUME NEW d \in Decisions, Commit(d) PROVE PostsKept /\ \A m \in Messages : AskMoves(m)
  <2>1. turn.item \in Items
    BY <1>4 DEF Commit, Busy
  <2>2. d.declines \cup d.defers \subseteq Known /\ (Queues(d) => d.answers \subseteq Known)
    BY <1>4 DEF Commit, Conflict
  <2>3. \A m \in Known : Unanswered(m)
    BY DEF Known, Outstanding, Unanswered
  <2>4. ask' = Disposed(d)
    BY <1>4 DEF Commit
  <2>5. CASE Queues(d)
    <3>1. /\ post[turn.item] = "none"
          /\ post' = [post EXCEPT ![turn.item] = "pending"]
          /\ links' = [links EXCEPT ![turn.item] = d.answers]
      BY <1>4, <2>5 DEF Commit, Queues
    <3>2. PostsKept
      BY <2>1, <3>1 DEF PostsKept, Accounted, LinksPosted
    <3>3. \A m \in d.answers : m \in links'[turn.item] /\ post'[turn.item] = "pending"
      BY <2>1, <3>1
    <3>4. ASSUME NEW m \in Messages PROVE AskMoves(m)
      BY <2>1, <2>2, <2>3, <2>4, <3>3 DEF Disposed, AskMoves
    <3> QED
      BY <3>2, <3>4
  <2>6. CASE ~Queues(d)
    <3>1. post' = post /\ links' = links
      BY <1>4, <2>6 DEF Commit
    <3>2. ASSUME NEW m \in Messages PROVE AskMoves(m)
      BY <2>2, <2>3, <2>4, <2>6 DEF Disposed, AskMoves
    <3> QED
      BY <3>1, <3>2 DEF PostsKept
  <2> QED
    BY <2>5, <2>6
<1>5. CASE Pause \/ Restore \/ Close \/ SetDriver \/ EditNotes \/ Resume \/ Retry
  BY <1>q, <1>5 DEF Pause, Restore, Close, SetDriver, EditNotes, Resume, Retry
<1>6. CASE Clean
  BY <1>6 DEF Clean, PostsKept, AskMoves
<1>7. ASSUME NEW c \in Instructions, Instruct(c) PROVE UNCHANGED <<ask, post, links>>
  BY <1>7 DEF Instruct
<1>8. ASSUME NEW m \in Messages, Dispose(m) PROVE PostsKept /\ \A n \in Messages : AskMoves(n)
  BY <1>8 DEF Dispose, Outstanding, PostsKept, AskMoves, Unanswered
<1>9. ASSUME NEW i \in Items, RequeuePost(i) \/ Undelivered(i)
      PROVE  PostsKept /\ \A m \in Messages : AskMoves(m)
  BY <1>9 DEF RequeuePost, Undelivered, PostsKept, AskMoves
<1>10. ASSUME NEW i \in Items, Delivered(i) PROVE PostsKept /\ \A m \in Messages : AskMoves(m)
  BY <1>10 DEF Delivered, PostsKept, AskMoves
<1>11. ASSUME NEW m \in Messages, Intake(m) PROVE PostsKept /\ \A n \in Messages : AskMoves(n)
  BY <1>11 DEF Intake, Accounted, AbsentUnasked, PostsKept, AskMoves
<1>12. ASSUME NEW r \in Reminders, QueueDue(r) PROVE UNCHANGED <<ask, post, links>>
  BY <1>12 DEF QueueDue
<1>13. ASSUME NEW i \in Items, Claim(i) \/ Wake(i) PROVE UNCHANGED <<ask, post, links>>
  BY <1>13 DEF Claim, Wake
<1>14. CASE Crash \/ Restart \/ UNCHANGED vars
  BY <1>q, <1>14 DEF Crash, Restart, vars
<1> QED
  BY <1>q, <1>1, <1>2, <1>3, <1>4, <1>5, <1>6, <1>7, <1>8, <1>9, <1>10, <1>11, <1>12, <1>13, <1>14
  DEF Next, TurnStep, OwnerStep, WorldStep

\* Under every late decision, reminder, delivery, control and crash an obligation
\* ends once and for good, and is answered only by a delivery.
THEOREM ThreadImplementsObligations == Spec => ImplementsObligations
<1>1. Init => Attention!Init
  <2>1. ASSUME Init PROVE AnswersOf = [m \in Messages |-> {}]
    <3>1. ASSUME NEW m \in Messages PROVE {post[i] : i \in {j \in Items : m \in links[j]}} = {}
      BY <2>1 DEF Init
    <3> QED
      BY <3>1 DEF AnswersOf
  <2> QED
    BY <2>1 DEF Init, Attention!Init
<1>2. ASSUME Housekept, Housekept', Accounted, Accounted', [Next]_vars PROVE Attention!Next
  BY <1>2, ObligationsMove, MovesAreAttention DEF Housekept
<1>3. Housekept /\ Housekept' /\ Accounted /\ Accounted' /\ [Next]_vars
        => [Attention!Next]_(Attention!obligationVars)
  BY <1>2
<1> QED
  BY <1>1, <1>3, HousekeptAlways, AccountedAlways, PTL DEF Spec, ImplementsObligations, Attention!Spec

-----------------------------------------------------------------------------
(***************************************************************************)
(* The reply ceilings.  Resume marks an item as the owner's and bumps the  *)
(* version, so only a turn read before it can take it for someone else's.  *)
(***************************************************************************)
OwnerFenced ==
  turn.step \notin {"idle", "claimed"} /\ turn.version = version =>
    turn.owner = (turn.item \in Instructions \/ owned[turn.item])

\* Only resume makes an item the owner's, and resume is a control.
LEMMA OwnedMoves ==
  ASSUME TypeOK, [Next]_vars, version' = version
  PROVE  owned' = owned
<1> USE DEF TypeOK
<1>1. CASE SettleQuietly \/ TriageQuiet \/ SettleForReview \/ RetryLater
  BY <1>1 DEF SettleQuietly, TriageQuiet, Observe, SettleForReview, RetryLater, Postpone
<1>2. CASE Load \/ ReadDriver \/ Proceed \/ AskTriage \/ TriageRespond \/ Reserve \/ ReserveRefused
  BY <1>2 DEF Load, ReadDriver, Proceed, AskTriage, TriageRespond, Reserve, ReserveRefused
<1>3. CASE Repair \/ CallFails \/ CommitConflict \/ ReserveDeferred \/ FailTurn
  BY <1>3 DEF Repair, CallFails, CommitConflict, ReserveDeferred, FailTurn
<1>4. CASE CommitStale \/ CommitCooling
  BY <1>4 DEF CommitStale, CommitCooling
<1>5. ASSUME NEW d \in Decisions, Commit(d) PROVE owned' = owned
  BY <1>5 DEF Commit
<1>6. CASE OwnerStep
  BY <1>6 DEF OwnerStep, SetControl, Pause, Resume, Retry, Restore, Close, Clean, SetDriver,
     EditNotes, Instruct, Dispose, RequeuePost
<1>7. CASE WorldStep
  BY <1>7 DEF WorldStep, Intake, QueueDue, Wake, Delivered, Undelivered, Crash, Restart
<1>8. ASSUME NEW i \in Items, Claim(i) PROVE owned' = owned
  BY <1>8 DEF Claim
<1>9. CASE UNCHANGED vars
  BY <1>9 DEF vars
<1> QED
  BY <1>1, <1>2, <1>3, <1>4, <1>5, <1>6, <1>7, <1>8, <1>9 DEF Next, TurnStep

\* Every step keeps the fence.
LEMMA OwnerFencedStep == Fenced /\ OwnerFenced /\ [Next]_vars => OwnerFenced'
<1> SUFFICES ASSUME Fenced, OwnerFenced, [Next]_vars PROVE OwnerFenced'
  OBVIOUS
<1>1. /\ TypeOK /\ version \in Nat /\ turn.version \in Nat /\ turn \in Turns /\ turn.version <= version
  BY DEF Fenced, Stamped, TypeOK, Turns
<1>2. CASE version' = version + 1 /\ turn' = turn
  BY <1>1, <1>2 DEF OwnerFenced
<1>3. CASE version' = version
  <2>1. owned' = owned
    BY <1>1, <1>3, OwnedMoves
  <2>2. CASE turn' = turn
    BY <1>3, <2>1, <2>2 DEF OwnerFenced
  <2>3. CASE turn' = Idle
    BY <2>3 DEF OwnerFenced, Idle
  <2>4. CASE Advance
    BY <1>3, <2>1, <2>4 DEF OwnerFenced, Advance, Briefed
  <2>5. CASE Load
    BY <1>1, <1>3, <2>1, <2>5 DEF OwnerFenced, Load, Turns
  <2>6. CASE ReadDriver
    BY <1>1, <1>3, <2>1, <2>6 DEF OwnerFenced, ReadDriver, Turns
  <2>7. ASSUME NEW i \in Items, Claim(i) PROVE OwnerFenced'
    BY <2>7 DEF OwnerFenced, Claim, Idle
  <2> QED
    BY <1>1, <2>2, <2>3, <2>4, <2>5, <2>6, <2>7, TurnMoves
<1> QED
  BY <1>1, <1>2, <1>3, ControlMoves

\* ResumeBypassesCeilings fails in one way only: what puts off an item the owner
\* requeued is a turn of that item whose input was read before the requeue
\* (reserve's deferral is not fenced by the version).
THEOREM OnlyStaleTurnsDefer ==
  Spec => [][\A i \in Items : owned[i] /\ inbox[i] = "pending" /\ ~later[i] =>
               ~later'[i] \/ (turn.item = i /\ turn.version # version)]_vars
<1> DEFINE Ready(i) == owned[i] /\ inbox[i] = "pending" /\ ~later[i]
           Stale(i) == turn.item = i /\ turn.version # version
<1>1. ASSUME Fenced, OwnerFenced, Next, NEW i \in Items, Ready(i) PROVE ~later'[i] \/ Stale(i)
  <2> USE <1>1 DEF Fenced, TypeOK
  <2>1. CASE SettleQuietly \/ TriageQuiet
    BY <2>1 DEF SettleQuietly, TriageQuiet, Observe
  <2>2. CASE SettleForReview \/ RetryLater
    BY <2>2 DEF SettleForReview, RetryLater, Postpone, Fresh
  <2>3. CASE \/ Load \/ ReadDriver \/ Proceed \/ AskTriage \/ TriageRespond \/ Reserve
             \/ ReserveRefused \/ Repair \/ CallFails \/ CommitConflict
    BY <2>3 DEF Load, ReadDriver, Proceed, AskTriage, TriageRespond, Reserve, ReserveRefused,
       Repair, CallFails, CommitConflict
  <2>4. CASE ReserveDeferred
    <3>1. turn.step = "admit" /\ ~turn.owner /\ later' = [later EXCEPT ![turn.item] = TRUE]
      BY <2>4 DEF ReserveDeferred
    <3>2. turn.version = version => ~owned[turn.item]
      BY <3>1 DEF OwnerFenced
    <3> QED
      BY <3>1, <3>2
  <2>5. CASE FailTurn \/ CommitStale \/ CommitCooling
    BY <2>5 DEF FailTurn, CommitStale, CommitCooling, Current, Fresh
  <2>6. ASSUME NEW d \in Decisions, Commit(d) PROVE later' = later
    BY <2>6 DEF Commit
  <2>7. CASE OwnerStep
    <3>1. CASE Resume \/ Retry
      BY <3>1 DEF Resume, Retry, Requeued
    <3>2. ASSUME Pause \/ Restore \/ Close \/ SetDriver \/ EditNotes \/ Clean PROVE later' = later
      BY <3>2 DEF Pause, Restore, Close, SetDriver, EditNotes, Clean
    <3>3. ASSUME NEW c \in Instructions, Instruct(c) PROVE later' = later
      BY <3>3 DEF Instruct
    <3>4. ASSUME NEW m \in Messages, Dispose(m) PROVE later' = later
      BY <3>4 DEF Dispose
    <3>5. ASSUME NEW j \in Items, RequeuePost(j) PROVE later' = later
      BY <3>5 DEF RequeuePost
    <3> QED
      BY <2>7, <3>1, <3>2, <3>3, <3>4, <3>5 DEF OwnerStep
  <2>8. CASE WorldStep
    BY <2>8 DEF WorldStep, Intake, QueueDue, Wake, Delivered, Undelivered, Crash, Restart
  <2>9. ASSUME NEW j \in Items, Claim(j) PROVE later' = later
    BY <2>9 DEF Claim
  <2> QED
    BY <2>1, <2>2, <2>3, <2>4, <2>5, <2>6, <2>7, <2>8, <2>9 DEF Next, TurnStep
<1>2. Fenced /\ OwnerFenced /\ [Next]_vars => [\A i \in Items : Ready(i) => ~later'[i] \/ Stale(i)]_vars
  BY <1>1
<1>3. Init => OwnerFenced
  BY DEF Init, OwnerFenced, Idle
<1> QED
  BY <1>2, <1>3, FencedAlways, OwnerFencedStep, PTL DEF Spec

=============================================================================
