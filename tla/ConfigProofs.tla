---------------------------- MODULE ConfigProofs ----------------------------
(***************************************************************************)
(* Approvals, configuration edits and job files, for any requests,         *)
(* permits, contents, files and faults.  The broker implements Verdicts,   *)
(* no request waits under a replaced policy, an edit on the disk is never  *)
(* forgotten, no Fridica writer overwrites the other, and a job has its    *)
(* files while it runs unless the placement of another one takes them.     *)
(***************************************************************************)
EXTENDS ConfigEdit, JobFiles, TLAPS

USE DEF approvalVars, editVars

Edit == [at : Steps, base : Configs, new : Configs]

\* The steps of the two modules, sorted by what they touch.
FileSteps(w) == LockFile(w) \/ CheckFile(w) \/ Rename(w)
LockSteps == ControlLocks \/ ControlEnds \/ Close \/ Crash
RequestSteps(r) == \/ Ask(r) \/ CallerGoes(r) \/ CancelWorker(r) \/ RequestStep(r) \/ TaskFails(r)
                   \/ \E d \in Decisions : Decide(r, d)

\* Every step is one of these.
LEMMA StepCases ==
  ASSUME [Next]_vars
  PROVE  \/ OwnerEdit \/ OpenDraft
         \/ \E w \in Writers : FileSteps(w)
         \/ \E who \in {"sweep", "edit"} : TakePass(who)
         \/ Reconcile \/ AdoptLock \/ AdoptCancel \/ AdoptSwap \/ AdoptSnapshot \/ Complete
         \/ Prepare \/ Intent \/ LockSteps \/ LoadFile \/ RecoverStartup
         \/ (\E r \in Requests : RequestSteps(r)) /\ up = "up" /\ UNCHANGED editVars
         \/ UNCHANGED vars
  BY DEF Next, EditStep, ApprovalStep, ApprovalsNext, FileSteps, LockSteps, RequestSteps, Writers

-----------------------------------------------------------------------------
(***************************************************************************)
(* Types.                                                                  *)
(***************************************************************************)

FileTypes ==
  /\ disk \in Configs /\ written \in Configs /\ loaded \in Configs /\ inUse \in Configs
  /\ author \in [Configs -> Writers \cup {"owner"}]
  /\ edits \in [Writers -> Edit]
  /\ fileLock \in Writers \cup {"free"}
  /\ journal \in [before : Configs, after : Configs]
  /\ up \in {"up", "stopped", "loading", "refused"}
  /\ pass \in {"free", "sweep", "edit"} /\ state \in {"free", "edit", "control"}

Types == ApprovalsTypeOK /\ FileTypes

\* Moving a writer on changes its step only.
LEMMA GotoTyped ==
  ASSUME edits \in [Writers -> Edit], NEW w \in Writers, NEW step \in Steps, Goto(w, step)
  PROVE  /\ edits' \in [Writers -> Edit]
         /\ edits'[w].at = step /\ edits'[w].base = edits[w].base /\ edits'[w].new = edits[w].new
         /\ \A v \in Writers : v # w => edits'[v] = edits[v]
  BY DEF Goto, Edit

\* Replacing a writer's edit.
LEMMA EditTyped ==
  ASSUME edits \in [Writers -> Edit], NEW w \in Writers, NEW step \in Steps,
         NEW base \in Configs, NEW new \in Configs,
         edits' = [edits EXCEPT ![w] = [at |-> step, base |-> base, new |-> new]]
  PROVE  /\ edits' \in [Writers -> Edit]
         /\ edits'[w].at = step /\ edits'[w].base = base /\ edits'[w].new = new
         /\ \A v \in Writers : v # w => edits'[v] = edits[v]
  BY DEF Edit

\* A settlement keeps the rows.
LEMMA SettledTyped ==
  ASSUME ApprovalsTypeOK, NEW S, NEW s \in Rows
  PROVE  Settled(S, s) \in [Requests -> Rows]
  BY DEF ApprovalsTypeOK, Settled

\* Every step of a request keeps the types of the broker.
LEMMA RequestTyped ==
  ASSUME ApprovalsTypeOK, NEW r \in Requests, RequestSteps(r)
  PROVE  ApprovalsTypeOK'
<1> USE DEF ApprovalsTypeOK, Tasks, Rows, Decisions
<1>1. CASE Ask(r)
  BY <1>1 DEF Ask, Ended, Hears
<1>2. CASE CallerGoes(r)
  BY <1>2 DEF CallerGoes
<1>3. CASE CancelWorker(r)
  BY <1>3, SettledTyped DEF CancelWorker
<1>4. CASE ReadPolicy(r)
  BY <1>4 DEF ReadPolicy, Ended, Hears
<1>5. CASE Store(r)
  BY <1>5 DEF Store, Ended, Hears
<1>6. CASE Poll(r)
  BY <1>6, SettledTyped DEF Poll, Ended, Hears, Answer
<1>7. CASE Expire(r)
  BY <1>7, SettledTyped DEF Expire
<1>8. CASE Deadline(r)
  BY <1>8 DEF Deadline
<1>9. ASSUME NEW d \in Decisions, Decide(r, d) PROVE ApprovalsTypeOK'
  BY <1>9, SettledTyped DEF Decide
<1>10. CASE TaskFails(r)
  BY <1>10 DEF TaskFails, Ended
<1> QED
  BY <1>1, <1>2, <1>3, <1>4, <1>5, <1>6, <1>7, <1>8, <1>9, <1>10 DEF RequestSteps, RequestStep

\* Every step keeps the types.
LEMMA TypesStep == Types /\ [Next]_vars => Types'
<1> SUFFICES ASSUME Types, [Next]_vars PROVE Types'
  OBVIOUS
<1>c. /\ Configs = 0 .. MaxContent /\ MaxContent \in Nat /\ 0 \in Configs
      /\ \A n \in Configs : n < MaxContent => n + 1 \in Configs
  BY ConfigConstants
<1> USE DEF Types, FileTypes
<1>1. CASE OwnerEdit
  BY <1>1, <1>c DEF OwnerEdit, ApprovalsTypeOK
<1>2. CASE OpenDraft
  <2>1. edits' \in [Writers -> Edit]
    BY <1>2, <1>c, EditTyped DEF OpenDraft, Writers, Steps
  <2> QED
    BY <1>2, <1>c, <2>1 DEF OpenDraft, ApprovalsTypeOK
<1>3. ASSUME NEW w \in Writers, FileSteps(w) PROVE Types'
  <2>1. edits' \in [Writers -> Edit]
    BY <1>3, GotoTyped DEF FileSteps, LockFile, CheckFile, Rename, Steps
  <2>2. /\ disk' \in Configs /\ author' \in [Configs -> Writers \cup {"owner"}]
    BY <1>3 DEF FileSteps, LockFile, CheckFile, Rename, Edit
  <2> QED
    BY <1>3, <2>1, <2>2 DEF FileSteps, LockFile, CheckFile, Rename, ApprovalsTypeOK
<1>4. ASSUME NEW who \in {"sweep", "edit"}, TakePass(who) PROVE Types'
  <2>1. edits' \in [Writers -> Edit]
    BY <1>4, <1>c, EditTyped DEF TakePass, Writers, Steps
  <2> QED
    BY <1>4, <2>1 DEF TakePass, ApprovalsTypeOK
<1>5. CASE Reconcile
  <2>1. edits' \in [Writers -> Edit]
    BY <1>5, GotoTyped DEF Reconcile, Bail, Writers, Steps
  <2>2. journal' \in [before : Configs, after : Configs]
    BY <1>5, <1>c DEF Reconcile, Bail, NoEdit
  <2>3. up' \in {"up", "stopped", "loading", "refused"} /\ pass' \in {"free", "sweep", "edit"}
    BY <1>5 DEF Reconcile, Bail
  <2>4. ApprovalsTypeOK'
    BY <1>5 DEF Reconcile, ApprovalsTypeOK
  <2> QED
    BY <1>5, <2>1, <2>2, <2>3, <2>4 DEF Reconcile
<1>6. CASE AdoptLock
  BY <1>6 DEF AdoptLock, ReloadLock, ApprovalsTypeOK
<1>7. CASE AdoptCancel
  <2>1. edits' \in [Writers -> Edit]
    BY <1>7, GotoTyped DEF AdoptCancel, Bail, Writers, Steps
  <2>2. ApprovalsTypeOK'
    <3>1. /\ task' = task /\ under' = under /\ heard' = heard /\ late' = late /\ config' = config
          /\ row' \in {row, Settled(Requests, "cancelled")} /\ mutex' \in {mutex, "free"}
      BY <1>7 DEF AdoptCancel, ReloadCancel
    <3>2. Settled(Requests, "cancelled") \in [Requests -> Rows]
      BY SettledTyped DEF Rows
    <3> QED
      BY <3>1, <3>2 DEF ApprovalsTypeOK
  <2> QED
    BY <1>7, <2>1, <2>2 DEF AdoptCancel, Bail
<1>8. CASE AdoptSwap \/ AdoptSnapshot
  <2>1. edits' \in [Writers -> Edit]
    BY <1>8, GotoTyped DEF AdoptSwap, AdoptSnapshot, Writers, Steps
  <2> QED
    BY <1>8, <2>1 DEF AdoptSwap, AdoptSnapshot, ReloadSwap, ApprovalsTypeOK
<1>9. CASE Complete
  <2>1. edits' \in [Writers -> Edit]
    BY <1>9, <1>c, EditTyped DEF Complete, Writers, Steps
  <2> QED
    BY <1>9, <1>c, <2>1 DEF Complete, NoEdit, ApprovalsTypeOK
<1>10. CASE Prepare
  <2>1. CASE disk = loaded /\ written < MaxContent
    <3>1. edits' \in [Writers -> Edit]
      BY <1>10, <1>c, <2>1, EditTyped DEF Prepare, Writers, Steps
    <3> QED
      BY <1>10, <1>c, <2>1, <3>1 DEF Prepare, ApprovalsTypeOK
  <2>2. CASE ~(disk = loaded /\ written < MaxContent)
    <3>1. edits' \in [Writers -> Edit]
      BY <1>10, <1>c, <2>2, GotoTyped DEF Prepare, Writers, Steps
    <3> QED
      BY <1>10, <1>c, <2>2, <3>1 DEF Prepare, ApprovalsTypeOK
  <2> QED
    BY <2>1, <2>2
<1>11. CASE Intent
  <2>1. edits' \in [Writers -> Edit]
    BY <1>11, GotoTyped DEF Intent, Writers, Steps
  <2> QED
    BY <1>11, <2>1 DEF Intent, Edit, Writers, ApprovalsTypeOK
<1>12. CASE LockSteps
  <2>1. edits' \in [Writers -> Edit]
    BY <1>12, <1>c, EditTyped DEF LockSteps, ControlLocks, ControlEnds, Close, Crash, Writers, Steps
  <2> QED
    BY <1>12, <2>1 DEF LockSteps, ControlLocks, ControlEnds, Close, Crash, ApprovalsTypeOK
<1>13. CASE LoadFile
  BY <1>13 DEF LoadFile, ApprovalsTypeOK
<1>14. CASE RecoverStartup
  <2>1. edits' \in [Writers -> Edit]
    BY <1>14, <1>c, EditTyped DEF RecoverStartup, Writers, Steps
  <2>2. ApprovalsTypeOK'
    BY <1>14, SettledTyped DEF RecoverStartup, BrokerRestart, ApprovalsTypeOK, Rows, Tasks, Live
  <2> QED
    BY <1>14, <1>c, <2>1, <2>2 DEF RecoverStartup, NoEdit
<1>15. ASSUME NEW r \in Requests, RequestSteps(r), UNCHANGED editVars PROVE Types'
  BY <1>15, RequestTyped
<1>16. CASE UNCHANGED vars
  BY <1>16 DEF vars, ApprovalsTypeOK
<1> QED
  BY <1>1, <1>2, <1>3, <1>4, <1>5, <1>6, <1>7, <1>8, <1>9, <1>10, <1>11, <1>12, <1>13, <1>14,
     <1>15, <1>16, StepCases

\* The initial configuration is well typed.
LEMMA TypesInit == ConfigInit => Types
  BY ConfigConstants DEF ConfigInit, ApprovalsInit, Types, FileTypes, ApprovalsTypeOK, NoEdit,
     Edit, Steps, Tasks, Rows, Writers

-----------------------------------------------------------------------------
(***************************************************************************)
(* Approvals.                                                              *)
(***************************************************************************)

\* A request without a row has not been stored; an answered one is over, and
\* its answer is the row's.
Committed ==
  \A r \in Requests :
    /\ task[r] \in {"none", "locking", "storing"} => row[r] = "none"
    /\ heard[r] \in Decisions \cup {"lost"} => task[r] = "ended"
    /\ heard[r] \in Decisions /\ row[r] # "none" =>
         heard[r] = Answer(row[r]) /\ row[r] # "pending"

\* The mutex orders stores and reloads: a store under way has it, and a reload
\* about to swap has it and left nothing pending.
Guarded ==
  /\ \A r \in Requests : task[r] = "storing" => mutex = r /\ under[r] = config
  /\ \A r \in Requests : row[r] = "pending" => under[r] = config
  /\ At("live", "swap") => mutex = "reload" /\ \A r \in Requests : row[r] # "pending"

\* Every step of a request keeps the answers true.
LEMMA CommittedRequest ==
  ASSUME ApprovalsTypeOK, Committed, NEW r \in Requests, RequestSteps(r)
  PROVE  Committed'
<1> USE DEF ApprovalsTypeOK, Committed, Decisions
<1>1. CASE Ask(r)
  BY <1>1 DEF Ask, Ended, Hears
<1>2. CASE CallerGoes(r)
  BY <1>2 DEF CallerGoes
<1>3. CASE CancelWorker(r)
  BY <1>3 DEF CancelWorker, Settled, Answer
<1>4. CASE ReadPolicy(r)
  BY <1>4 DEF ReadPolicy, Ended, Hears
<1>5. CASE Store(r)
  BY <1>5 DEF Store, Ended, Hears, Answer
<1>6. CASE Poll(r)
  BY <1>6 DEF Poll, Ended, Hears, Answer, Settled
<1>7. CASE Expire(r)
  BY <1>7 DEF Expire, Settled, Answer
<1>8. CASE Deadline(r)
  BY <1>8 DEF Deadline
<1>9. ASSUME NEW d \in Decisions, Decide(r, d) PROVE Committed'
  BY <1>9 DEF Decide, Settled, Answer
<1>10. CASE TaskFails(r)
  BY <1>10 DEF TaskFails, Ended
<1> QED
  BY <1>1, <1>2, <1>3, <1>4, <1>5, <1>6, <1>7, <1>8, <1>9, <1>10 DEF RequestSteps, RequestStep

\* Every step keeps the answers true.
LEMMA CommittedStep == Types /\ Committed /\ [Next]_vars => Committed'
<1> SUFFICES ASSUME Types, Committed, [Next]_vars PROVE Committed'
  OBVIOUS
<1> USE DEF Types, ApprovalsTypeOK
<1>1. CASE \/ OwnerEdit \/ OpenDraft \/ (\E w \in Writers : FileSteps(w))
           \/ (\E who \in {"sweep", "edit"} : TakePass(who)) \/ Reconcile \/ AdoptLock
           \/ AdoptSwap \/ AdoptSnapshot \/ Complete \/ Prepare \/ Intent \/ LockSteps
           \/ LoadFile \/ UNCHANGED vars
  <2>1. task' = task /\ row' = row /\ heard' = heard
    BY <1>1 DEF OwnerEdit, OpenDraft, FileSteps, LockFile, CheckFile, Rename, TakePass, Reconcile,
                AdoptLock, ReloadLock, AdoptSwap, ReloadSwap, AdoptSnapshot, Complete, Prepare, Intent,
                LockSteps, ControlLocks, ControlEnds, Close, Crash, LoadFile, vars
  <2> QED
    BY <2>1 DEF Committed
<1>2. CASE AdoptCancel
  <2>1. task' = task /\ heard' = heard /\ (row' = row \/ row' = Settled(Requests, "cancelled"))
    BY <1>2 DEF AdoptCancel, ReloadCancel
  <2> QED
    BY <2>1 DEF Committed, Settled, Answer
<1>3. CASE RecoverStartup
  <2>1. CASE BrokerRestart(loaded)
    BY <2>1 DEF BrokerRestart, Committed, Settled, Answer, Live, Decisions
  <2>2. CASE ~BrokerRestart(loaded)
    BY <1>3, <2>2 DEF RecoverStartup, Committed
  <2> QED
    BY <2>1, <2>2
<1>4. ASSUME NEW r \in Requests, RequestSteps(r) PROVE Committed'
  BY <1>4, CommittedRequest
<1> QED
  BY <1>1, <1>2, <1>3, <1>4, StepCases

\* Every step of a request keeps the mutex's order.
LEMMA GuardedRequest ==
  ASSUME ApprovalsTypeOK, Committed, Guarded, NEW r \in Requests, RequestSteps(r), edits' = edits
  PROVE  Guarded'
<1> USE ApprovalConstants DEF ApprovalsTypeOK, Guarded, Committed, At
<1>1. CASE Ask(r)
  BY <1>1 DEF Ask, Ended
<1>2. CASE CallerGoes(r)
  BY <1>2 DEF CallerGoes
<1>3. CASE CancelWorker(r)
  BY <1>3 DEF CancelWorker, Settled
<1>4. CASE ReadPolicy(r)
  BY <1>4 DEF ReadPolicy, Ended
<1>5. CASE Store(r)
  BY <1>5 DEF Store, Ended
<1>6. CASE Poll(r)
  BY <1>6 DEF Poll, Ended, Settled
<1>7. CASE Expire(r)
  BY <1>7 DEF Expire, Settled
<1>8. CASE Deadline(r)
  BY <1>8 DEF Deadline
<1>9. ASSUME NEW d \in Decisions, Decide(r, d) PROVE Guarded'
  BY <1>9 DEF Decide, Settled, Decisions
<1>10. CASE TaskFails(r)
  BY <1>10 DEF TaskFails, Ended
<1> QED
  BY <1>1, <1>2, <1>3, <1>4, <1>5, <1>6, <1>7, <1>8, <1>9, <1>10 DEF RequestSteps, RequestStep

\* Every step keeps the mutex's order.
LEMMA GuardedStep == Types /\ Committed /\ Guarded /\ [Next]_vars => Guarded'
<1> SUFFICES ASSUME Types, Committed, Guarded, [Next]_vars PROVE Guarded'
  OBVIOUS
<1>t. edits \in [Writers -> Edit] /\ "live" \in Writers
  BY DEF Types, FileTypes, Writers
<1> USE ApprovalConstants DEF Types, ApprovalsTypeOK
<1>1. CASE \/ OwnerEdit \/ OpenDraft \/ (\E w \in Writers : FileSteps(w))
           \/ (\E who \in {"sweep", "edit"} : TakePass(who)) \/ Reconcile
           \/ AdoptSnapshot \/ Complete \/ Prepare \/ Intent \/ LockSteps \/ LoadFile
           \/ UNCHANGED vars
  <2>1. task' = task /\ row' = row /\ under' = under /\ config' = config /\ mutex' = mutex
    BY <1>1 DEF OwnerEdit, OpenDraft, FileSteps, LockFile, CheckFile, Rename, TakePass, Reconcile,
                AdoptSnapshot, Complete, Prepare, Intent, LockSteps, ControlLocks, ControlEnds, Close, Crash,
                LoadFile, vars
  <2>2. At("live", "swap")' => At("live", "swap")
    <3>1. CASE OwnerEdit \/ LoadFile \/ UNCHANGED vars
      BY <3>1 DEF OwnerEdit, LoadFile, vars, At
    <3>2. CASE \/ OpenDraft \/ (\E who \in {"sweep", "edit"} : TakePass(who)) \/ Complete
      BY <3>2, <1>t DEF OpenDraft, TakePass, Complete, At, Writers
    <3>3. ASSUME NEW w \in Writers, FileSteps(w) PROVE At("live", "swap")' => At("live", "swap")
      BY <3>3, <1>t, GotoTyped DEF FileSteps, LockFile, CheckFile, Rename, At, Steps
    <3>4. CASE Reconcile \/ AdoptSnapshot \/ Intent
      BY <3>4, <1>t, GotoTyped DEF Reconcile, Bail, AdoptSnapshot, Intent, At, Steps
    <3>5. CASE Prepare
      BY <3>5, <1>t, GotoTyped DEF Prepare, At, Steps
    <3>6. CASE LockSteps
      BY <3>6, <1>t DEF LockSteps, ControlLocks, ControlEnds, Close, Crash, At
    <3> QED
      BY <1>1, <3>1, <3>2, <3>3, <3>4, <3>5, <3>6
  <2> QED
    BY <2>1, <2>2 DEF Guarded
<1>2. CASE AdoptLock
  <2>1. /\ mutex = "free" /\ mutex' = "reload" /\ task' = task /\ row' = row /\ under' = under
        /\ config' = config /\ ~At("live", "swap")'
    BY <1>2 DEF AdoptLock, ReloadLock, At
  <2> QED
    BY <2>1 DEF Guarded
<1>3. CASE AdoptCancel
  <2>1. task' = task /\ under' = under /\ config' = config /\ mutex = "reload"
    BY <1>3 DEF AdoptCancel, ReloadCancel
  <2>2. CASE ReloadCancel
    BY <2>1, <2>2 DEF Guarded, ReloadCancel, Settled
  <2>3. CASE ~ReloadCancel
    <3>1. row' = row /\ Goto("live", "idle")
      BY <1>3, <2>3 DEF AdoptCancel, Bail
    <3>2. ~At("live", "swap")'
      BY <1>t, <3>1, GotoTyped DEF At, Steps
    <3> QED
      BY <2>1, <3>1, <3>2 DEF Guarded
  <2> QED
    BY <2>2, <2>3
<1>4. CASE AdoptSwap
  <2>1. ~At("live", "swap")'
    BY <1>4, <1>t, GotoTyped DEF AdoptSwap, At, Steps
  <2> QED
    BY <1>4, <2>1 DEF AdoptSwap, ReloadSwap, Guarded
<1>5. CASE RecoverStartup
  <2>1. ~At("live", "swap")'
    BY <1>5, <1>t DEF RecoverStartup, At
  <2>2. CASE BrokerRestart(loaded)
    BY <2>1, <2>2 DEF BrokerRestart, Guarded, Settled, Live
  <2>3. CASE ~BrokerRestart(loaded)
    BY <1>5, <2>1, <2>3 DEF RecoverStartup, Guarded
  <2> QED
    BY <2>2, <2>3
<1>6. ASSUME NEW r \in Requests, RequestSteps(r), UNCHANGED editVars PROVE Guarded'
  BY <1>6, GuardedRequest
<1> QED
  BY <1>1, <1>2, <1>3, <1>4, <1>5, <1>6, StepCases

\* The worker hears the decision the store committed, whichever of the owner,
\* the timer, a stop, a reload or a crash came first (Broker::run).
THEOREM WorkersHearCommitted == Spec => []HeardIsCommitted
<1>1. ConfigInit => Committed
  BY DEF ConfigInit, ApprovalsInit, Committed, Decisions
<1>2. Committed => HeardIsCommitted
  BY DEF Committed, HeardIsCommitted
<1> QED
  BY <1>1, <1>2, TypesInit, TypesStep, CommittedStep, PTL DEF Spec

\* No request waits under a policy that was replaced, for any interleaving of
\* stores and reloads: the broker's mutex is kept across the store and the
\* reload (Broker::run, Broker::reconfigure).
THEOREM PolicyNeverStale == Spec => []NoStalePolicy
<1>1. ConfigInit => Committed /\ Guarded
  BY DEF ConfigInit, ApprovalsInit, Committed, Guarded, Decisions, At, Writers
<1>2. Guarded => NoStalePolicy
  BY DEF Guarded, NoStalePolicy
<1> QED
  BY <1>1, <1>2, TypesInit, TypesStep, CommittedStep, GuardedStep, PTL DEF Spec

-----------------------------------------------------------------------------
(***************************************************************************)
(* The broker implements Verdicts.  A step of one request changes its own  *)
(* verdict at most; a reload and a restart give a verdict to each pending  *)
(* request at once.                                                        *)
(***************************************************************************)

\* The verdict of one request.
VerdictOf(stored, answer) ==
  IF stored \notin {"none", "pending"} THEN Answer(stored)
  ELSE IF answer \in Decisions THEN answer ELSE "open"
ToldOf(answer) == IF answer = "lost" THEN "gone" ELSE answer
LEMMA VerdictIs ==
  /\ Verdict = [r \in Requests |-> VerdictOf(row[r], heard[r])]
  /\ Verdict' = [r \in Requests |-> VerdictOf(row'[r], heard'[r])]
BY DEF Verdict, VerdictOf

\* What a step may do to a row and to what its worker hears: a row is settled
\* once, and the worker is told the row, told no without one, or gone.
Moves(r) ==
  /\ \/ row'[r] = row[r]
     \/ row[r] = "pending" /\ row'[r] # "none"
     \/ row[r] = "none" /\ heard[r] \notin Decisions
  /\ \/ heard'[r] = heard[r]
     \/ heard[r] = "none" /\ heard'[r] = "gone"
     \/ heard[r] \in {"none", "gone"} /\ heard'[r] = "lost"
     \/ /\ heard[r] = "none" /\ row'[r] \notin {"none", "pending"}
        /\ heard'[r] = Answer(row'[r])
     \/ heard[r] = "none" /\ row'[r] = "none" /\ heard'[r] = "denied"

\* Steps that move every request so are steps of the promise.
LEMMA MovesImplement ==
  ASSUME Types, Types', Committed, \A r \in Requests : Moves(r)
  PROVE  Promise!Next
<1>1. ASSUME NEW r \in Requests
      PROVE  /\ VerdictOf(row[r], heard[r]) \in Decisions \cup {"open"}
             /\ VerdictOf(row'[r], heard'[r]) \in Decisions \cup {"open"}
             /\ Told'[r] \in Decisions \cup {"none", "gone"}
             /\ Told[r] = ToldOf(heard[r]) /\ Told'[r] = ToldOf(heard'[r])
  BY DEF Types, ApprovalsTypeOK, VerdictOf, Told, ToldOf, Answer, Decisions, Rows
<1>2. /\ Verdict' \in [Requests -> Decisions \cup {"open"}]
      /\ Told' \in [Requests -> Decisions \cup {"none", "gone"}]
  BY <1>1, VerdictIs DEF Types, ApprovalsTypeOK, Told
<1>3. ASSUME NEW r \in Requests
      PROVE  /\ Promise!Give(r) \/ Verdict'[r] = Verdict[r]
             /\ Promise!Tell(r) \/ Promise!Leave(r) \/ Told'[r] = Told[r]
  <2>1. /\ row[r] \in Rows /\ row'[r] \in Rows /\ heard[r] \in Decisions \cup {"none", "gone", "lost"}
        /\ Told[r] = ToldOf(heard[r]) /\ Told'[r] = ToldOf(heard'[r])
        /\ heard[r] \in Decisions /\ row[r] # "none" => row[r] # "pending"
        /\ heard[r] \in Decisions /\ row[r] # "none" => heard[r] = Answer(row[r])
        /\ Verdict[r] = VerdictOf(row[r], heard[r]) /\ Verdict'[r] = VerdictOf(row'[r], heard'[r])
        /\ VerdictOf(row'[r], heard'[r]) \in Decisions \cup {"open"}
    BY <1>1, VerdictIs DEF Types, ApprovalsTypeOK, Committed
  <2>2. Moves(r)
    OBVIOUS
  <2>3. Promise!Give(r) \/ Verdict'[r] = Verdict[r]
    BY <2>1, <2>2 DEF Moves, VerdictOf, Promise!Give, Decisions, Rows
  <2>4. Promise!Tell(r) \/ Promise!Leave(r) \/ Told'[r] = Told[r]
    BY <2>1, <2>2 DEF Moves, VerdictOf, ToldOf, Promise!Tell, Promise!Leave, Decisions, Rows, Answer
  <2> QED
    BY <2>3, <2>4
<1> QED
  BY <1>2, <1>3 DEF Promise!Next

\* A step of a request moves it, and no other.
LEMMA RequestMoves ==
  ASSUME ApprovalsTypeOK, Committed, NEW r \in Requests, RequestSteps(r)
  PROVE  \A s \in Requests : Moves(s)
<1> USE DEF ApprovalsTypeOK, Moves, Committed, Decisions
<1>1. CASE Ask(r)
  BY <1>1 DEF Ask, Ended, Hears
<1>2. CASE CallerGoes(r)
  BY <1>2 DEF CallerGoes
<1>3. CASE CancelWorker(r)
  BY <1>3 DEF CancelWorker, Settled
<1>4. CASE ReadPolicy(r)
  BY <1>4 DEF ReadPolicy, Ended, Hears
<1>5. CASE Store(r)
  BY <1>5 DEF Store, Ended, Hears, Answer
<1>6. CASE Poll(r)
  BY <1>6 DEF Poll, Ended, Hears, Settled, Answer
<1>7. CASE Expire(r)
  BY <1>7 DEF Expire, Settled
<1>8. CASE Deadline(r)
  BY <1>8 DEF Deadline
<1>9. ASSUME NEW d \in Decisions, Decide(r, d) PROVE \A s \in Requests : Moves(s)
  BY <1>9 DEF Decide, Settled
<1>10. CASE TaskFails(r)
  BY <1>10 DEF TaskFails, Ended
<1> QED
  BY <1>1, <1>2, <1>3, <1>4, <1>5, <1>6, <1>7, <1>8, <1>9, <1>10 DEF RequestSteps, RequestStep

\* Every step is one of the promise or leaves it unchanged.
LEMMA ImplementsStep ==
  Types /\ Types' /\ Committed /\ [Next]_vars => [Promise!Next]_(Promise!verdictVars)
<1> SUFFICES ASSUME Types, Types', Committed, [Next]_vars
             PROVE  Promise!Next \/ UNCHANGED <<Verdict, Told>>
  BY DEF Promise!verdictVars
<1>1. CASE \/ OwnerEdit \/ OpenDraft \/ (\E w \in Writers : FileSteps(w))
           \/ (\E who \in {"sweep", "edit"} : TakePass(who)) \/ Reconcile \/ AdoptLock
           \/ AdoptSwap \/ AdoptSnapshot \/ Complete \/ Prepare \/ Intent \/ LockSteps
           \/ LoadFile \/ UNCHANGED vars
  <2>1. row' = row /\ heard' = heard
    BY <1>1 DEF OwnerEdit, OpenDraft, FileSteps, LockFile, CheckFile, Rename, TakePass, Reconcile,
                AdoptLock, ReloadLock, AdoptSwap, ReloadSwap, AdoptSnapshot, Complete, Prepare, Intent,
                LockSteps, ControlLocks, ControlEnds, Close, Crash, LoadFile, vars
  <2> QED
    BY <2>1 DEF Verdict, Told
<1>2. CASE AdoptCancel
  <2>1. heard' = heard /\ (row' = row \/ row' = Settled(Requests, "cancelled"))
    BY <1>2 DEF AdoptCancel, ReloadCancel
  <2>2. \A r \in Requests : Moves(r)
    BY <2>1 DEF Moves, Settled, Types, ApprovalsTypeOK
  <2> QED
    BY <2>2, MovesImplement
<1>3. CASE RecoverStartup
  <2>1. CASE BrokerRestart(loaded)
    <3>1. /\ row' = Settled(Requests, "cancelled")
          /\ heard' = [r \in Requests |-> IF r \in Live THEN "gone" ELSE heard[r]]
      BY <2>1 DEF BrokerRestart
    <3>2. \A r \in Live : heard[r] \in {"none", "gone"}
      BY DEF Live, Committed, Types, ApprovalsTypeOK
    <3>3. \A r \in Requests : Moves(r)
      BY <3>1, <3>2 DEF Moves, Settled, Types, ApprovalsTypeOK
    <3> QED
      BY <3>3, MovesImplement
  <2>2. CASE ~BrokerRestart(loaded)
    <3>1. row' = row /\ heard' = heard
      BY <1>3, <2>2 DEF RecoverStartup
    <3> QED
      BY <3>1 DEF Verdict, Told
  <2> QED
    BY <2>1, <2>2
<1>4. ASSUME NEW r \in Requests, RequestSteps(r) PROVE Promise!Next
  BY <1>4, RequestMoves, MovesImplement DEF Types
<1> QED
  BY <1>1, <1>2, <1>3, <1>4, StepCases

\* The broker gives each request one verdict, never takes it back, and tells a
\* worker that verdict or nothing, for any requests, reloads and crashes
\* (Broker::run, Broker::decide, Broker::reconfigure).
THEOREM BrokerImplementsVerdicts == Spec => ImplementsVerdicts
<1>1. ConfigInit => Committed
  BY DEF ConfigInit, ApprovalsInit, Committed, Decisions
<1>2. ConfigInit => Promise!Init
  BY DEF ConfigInit, ApprovalsInit, Promise!Init, Verdict, Told, Decisions
<1> QED
  BY <1>1, <1>2, TypesInit, TypesStep, CommittedStep, ImplementsStep, PTL
     DEF Spec, ImplementsVerdicts, Promise!Spec

-----------------------------------------------------------------------------
(***************************************************************************)
(* The file.  An invariant in four parts: who holds what, who wrote what,  *)
(* what a writer about to rename knows, and where a live edit is recorded. *)
(***************************************************************************)

LiveAt(steps) == edits["live"].at \in steps

\* A live edit holds the pass lock, which a stopped daemon has not; a writer
\* past the lock file holds it.
Held ==
  /\ pass = "free" => LiveAt({"idle"})
  /\ up # "up" => pass = "free"
  /\ \A w \in Writers : edits[w].at \in {"check", "rename"} => fileLock = w

\* Contents not yet written are the owner's to come; an edit's content was
\* written when the edit was prepared.
Authored ==
  /\ author[0] = "owner"
  /\ \A c \in Configs : c > written => author[c] = "owner"
  /\ \A w \in Writers :
       edits[w].at \in {"intent", "lock", "check", "rename"} => edits[w].new \in 1 .. written

\* Between the check and the rename only the owner's editor writes the file.
Unclobbered ==
  \A w \in Writers : At(w, "rename") /\ author[disk] \in Writers => disk = edits[w].base

\* Before the intent is recorded, and before it is cleared, a live edit on the
\* disk is the loaded one; while one is adopted, it is the journal's.
Journalled ==
  /\ EditsJournalled
  /\ LiveAt({"lock", "check", "rename"}) => journal.after = edits["live"].new
  /\ LiveAt({"prepare", "intent", "lock", "check", "rename", "complete"}) /\ author[disk] = "live"
       => loaded = disk
  /\ LiveAt({"broker", "swap", "snapshot"}) /\ author[disk] = "live" => disk = journal.after

\* The steps that leave both writers where they are.
Resting == \/ OwnerEdit \/ LoadFile \/ ControlLocks \/ ControlEnds \/ Close \/ AdoptLock
           \/ (\E r \in Requests : RequestSteps(r)) /\ up = "up" /\ UNCHANGED editVars
           \/ UNCHANGED vars

\* Every step rests, or is one of these.
LEMMA WriterCases ==
  ASSUME [Next]_vars
  PROVE  \/ Resting \/ OpenDraft \/ (\E w \in Writers : FileSteps(w))
         \/ (\E who \in {"sweep", "edit"} : TakePass(who))
         \/ Reconcile \/ AdoptCancel \/ AdoptSwap \/ AdoptSnapshot \/ Complete \/ Prepare
         \/ Intent \/ Crash \/ RecoverStartup
  BY StepCases DEF Resting, LockSteps

\* Every step keeps the locks in order.
LEMMA HeldStep == Types /\ Held /\ [Next]_vars => Held'
<1> SUFFICES ASSUME Types, Held, [Next]_vars PROVE Held'
  OBVIOUS
<1>t. edits \in [Writers -> Edit] /\ Writers = {"live", "setup"}
  BY DEF Types, FileTypes, Writers
<1>1. CASE Resting
  <2>1. edits' = edits /\ fileLock' = fileLock /\ pass' = pass /\ (up' = up \/ pass = "free")
    BY <1>1 DEF Resting, OwnerEdit, LoadFile, ControlLocks, ControlEnds, Close, AdoptLock, vars, Held
  <2> QED
    BY <2>1 DEF Held, LiveAt
<1>2. CASE OpenDraft
  <2>1. /\ edits'["live"] = edits["live"] /\ edits'["setup"].at = "lock"
        /\ pass' = pass /\ up' = up /\ fileLock' = fileLock
    BY <1>2, <1>t DEF OpenDraft
  <2> QED
    BY <1>t, <2>1 DEF Held, LiveAt
<1>3. ASSUME NEW w \in Writers, LockFile(w) PROVE Held'
  <2>1. CASE fileLock = "free"
    <3>1. /\ edits'[w].at = "check" /\ \A v \in Writers : v # w => edits'[v] = edits[v]
          /\ fileLock' = w /\ pass' = pass /\ up' = up /\ edits[w].at = "lock"
      BY <1>3, <1>t, <2>1, GotoTyped DEF LockFile, Steps, At
    <3> QED
      BY <1>t, <2>1, <3>1 DEF Held, LiveAt
  <2>2. CASE fileLock # "free"
    <3>1. /\ edits'[w].at = "idle" /\ \A v \in Writers : v # w => edits'[v] = edits[v]
          /\ fileLock' = fileLock /\ up' = up /\ pass' = IF w = "live" THEN "free" ELSE pass
      BY <1>3, <1>t, <2>2, GotoTyped DEF LockFile, Steps
    <3> QED
      BY <1>t, <3>1 DEF Held, LiveAt
  <2> QED
    BY <2>1, <2>2
<1>4. ASSUME NEW w \in Writers, CheckFile(w) PROVE Held'
  <2>1. /\ edits'[w].at \in {"idle", "rename"} /\ \A v \in Writers : v # w => edits'[v] = edits[v]
        /\ up' = up /\ edits[w].at = "check"
        /\ edits'[w].at = "rename" => fileLock' = fileLock /\ pass' = pass
        /\ edits'[w].at = "idle" => fileLock' = "free" /\ pass' = IF w = "live" THEN "free" ELSE pass
    BY <1>4, <1>t, GotoTyped DEF CheckFile, Steps, At
  <2> QED
    BY <1>t, <2>1 DEF Held, LiveAt
<1>5. ASSUME NEW w \in Writers, Rename(w) PROVE Held'
  <2>1. /\ edits'[w].at = IF w = "live" THEN "adopt" ELSE "idle"
        /\ \A v \in Writers : v # w => edits'[v] = edits[v]
        /\ up' = up /\ pass' = pass /\ edits[w].at = "rename" /\ fileLock' = "free"
    BY <1>5, <1>t, GotoTyped DEF Rename, Steps, At
  <2> QED
    BY <1>t, <2>1 DEF Held, LiveAt
<1>6. ASSUME NEW who \in {"sweep", "edit"}, TakePass(who) PROVE Held'
  <2>1. /\ edits'["live"].at = "adopt" /\ edits'["setup"] = edits["setup"]
        /\ up = "up" /\ up' = up /\ pass' # "free" /\ fileLock' = fileLock
    BY <1>6, <1>t DEF TakePass
  <2> QED
    BY <1>t, <2>1 DEF Held, LiveAt
<1>7. CASE Reconcile \/ AdoptCancel
  <2>1. edits["live"].at \in {"adopt", "broker"} /\ fileLock' = fileLock
    BY <1>7 DEF Reconcile, AdoptCancel, At
  <2>2. /\ edits'["setup"] = edits["setup"]
        /\ \/ edits'["live"].at \in {"adopt", "prepare", "complete", "broker", "swap"}
              /\ pass' = pass /\ up' = up
           \/ edits'["live"].at = "idle" /\ pass' = "free"
    BY <1>7, <1>t, <2>1, GotoTyped DEF Reconcile, AdoptCancel, Bail, Steps
  <2> QED
    BY <1>t, <2>1, <2>2 DEF Held, LiveAt
<1>8. CASE AdoptSwap \/ AdoptSnapshot \/ Intent
  <2>1. /\ edits["live"].at \in {"swap", "snapshot", "intent"}
        /\ edits'["live"].at \in {"snapshot", "complete", "lock"}
        /\ edits'["setup"] = edits["setup"] /\ fileLock' = fileLock /\ pass' = pass /\ up' = up
    BY <1>8, <1>t, GotoTyped DEF AdoptSwap, AdoptSnapshot, Intent, Steps, At
  <2> QED
    BY <1>t, <2>1 DEF Held, LiveAt
<1>9. CASE Complete \/ Crash \/ RecoverStartup
  <2>1. /\ edits'["live"].at = "idle" /\ edits'["setup"] = edits["setup"]
        /\ pass' = "free" \/ (pass' = pass /\ up # "up")
        /\ fileLock' = fileLock \/ (fileLock' = "free" /\ fileLock = "live")
    BY <1>9, <1>t DEF Complete, Crash, RecoverStartup
  <2> QED
    BY <1>t, <2>1 DEF Held, LiveAt
<1>10. CASE Prepare
  <2>1. /\ edits["live"].at = "prepare" /\ edits'["setup"] = edits["setup"]
        /\ up' = up /\ fileLock' = fileLock
        /\ \/ edits'["live"].at = "intent" /\ pass' = pass
           \/ edits'["live"].at = "idle" /\ pass' = "free"
    BY <1>10, <1>t, GotoTyped DEF Prepare, Steps, At
  <2> QED
    BY <1>t, <2>1 DEF Held, LiveAt
<1> QED
  BY <1>1, <1>2, <1>3, <1>4, <1>5, <1>6, <1>7, <1>8, <1>9, <1>10, WriterCases DEF FileSteps

\* Every step keeps the authors.
LEMMA AuthoredStep == Types /\ Authored /\ [Next]_vars => Authored'
<1> SUFFICES ASSUME Types, Authored, [Next]_vars PROVE Authored'
  OBVIOUS
<1>t. edits \in [Writers -> Edit] /\ Writers = {"live", "setup"}
  BY DEF Types, FileTypes, Writers
<1>c. Configs = 0 .. MaxContent /\ MaxContent \in Nat /\ written \in 0 .. MaxContent
  BY ConfigConstants DEF Types, FileTypes
<1>a. author \in [Configs -> Writers \cup {"owner"}]
  BY DEF Types, FileTypes
<1>1. CASE Resting
  <2>1. edits' = edits /\ author' = author /\ written' \in {written, written + 1}
    BY <1>1 DEF Resting, OwnerEdit, LoadFile, ControlLocks, ControlEnds, Close, AdoptLock, vars
  <2> QED
    BY <1>c, <1>t, <2>1 DEF Authored, Edit
<1>2. CASE OpenDraft
  <2>1. /\ edits'["live"] = edits["live"] /\ edits'["setup"].new = written + 1
        /\ written' = written + 1 /\ author' = author
    BY <1>2, <1>t DEF OpenDraft
  <2> QED
    BY <1>c, <1>t, <2>1 DEF Authored, Edit
<1>3. ASSUME NEW w \in Writers, LockFile(w) \/ CheckFile(w) PROVE Authored'
  <2>1. /\ edits'[w].new = edits[w].new /\ edits[w].at \in {"lock", "check"}
        /\ \A v \in Writers : v # w => edits'[v] = edits[v]
        /\ written' = written /\ author' = author
    BY <1>3, <1>t, GotoTyped DEF LockFile, CheckFile, Steps, At
  <2> QED
    BY <1>c, <1>t, <2>1 DEF Authored
<1>4. ASSUME NEW w \in Writers, Rename(w) PROVE Authored'
  <2>1. /\ edits'[w].at \in {"adopt", "idle"} /\ edits[w].at = "rename"
        /\ \A v \in Writers : v # w => edits'[v] = edits[v]
        /\ written' = written /\ author' = [author EXCEPT ![edits[w].new] = w]
    BY <1>4, <1>t, GotoTyped DEF Rename, Steps, At
  <2>2. edits[w].new \in 1 .. written
    BY <2>1 DEF Authored
  <2>3. author'[0] = "owner" /\ \A c \in Configs : c > written => author'[c] = "owner"
    BY <1>a, <1>c, <2>1, <2>2 DEF Authored
  <2> QED
    BY <1>t, <2>1, <2>3 DEF Authored
<1>5. CASE Prepare
  <2>1. /\ edits'["setup"] = edits["setup"] /\ author' = author
        /\ \/ edits'["live"].at = "idle" /\ written' = written
           \/ edits'["live"].new = written + 1 /\ written' = written + 1
    BY <1>5, <1>t, GotoTyped DEF Prepare, Steps
  <2> QED
    BY <1>c, <1>t, <2>1 DEF Authored, Edit
<1>6. CASE Intent
  <2>1. /\ edits'["setup"] = edits["setup"] /\ author' = author /\ written' = written
        /\ edits["live"].at = "intent" /\ edits'["live"].new = edits["live"].new
    BY <1>6, <1>t, GotoTyped DEF Intent, Steps, At
  <2> QED
    BY <1>t, <2>1 DEF Authored
<1>7. CASE \/ (\E who \in {"sweep", "edit"} : TakePass(who)) \/ Reconcile \/ AdoptCancel \/ AdoptSwap
           \/ AdoptSnapshot \/ Complete \/ Crash \/ RecoverStartup
  <2>1. author' = author /\ written' = written
    BY <1>7 DEF TakePass, Reconcile, AdoptCancel, AdoptSwap, AdoptSnapshot, Complete, Crash,
                RecoverStartup
  <2>2. edits'["setup"] = edits["setup"] /\ edits'["live"].at \notin {"intent", "lock", "check", "rename"}
    <3>1. CASE \/ (\E who \in {"sweep", "edit"} : TakePass(who))
               \/ Complete \/ Crash \/ RecoverStartup
      BY <3>1, <1>t DEF TakePass, Complete, Crash, RecoverStartup
    <3>2. CASE Reconcile
      BY <3>2, <1>t, GotoTyped DEF Reconcile, Bail, Steps, At
    <3>3. CASE AdoptCancel \/ AdoptSwap \/ AdoptSnapshot
      BY <3>3, <1>t, GotoTyped DEF AdoptCancel, AdoptSwap, AdoptSnapshot, Bail, Steps, At
    <3> QED
      BY <1>7, <3>1, <3>2, <3>3
  <2> QED
    BY <1>t, <2>1, <2>2 DEF Authored
<1> QED
  BY <1>1, <1>2, <1>3, <1>4, <1>5, <1>6, <1>7, WriterCases DEF FileSteps

\* Every step keeps what a writer about to rename knows.
LEMMA UnclobberedStep == Types /\ Held /\ Authored /\ Unclobbered /\ [Next]_vars => Unclobbered'
<1> SUFFICES ASSUME Types, Held, Authored, Unclobbered, [Next]_vars PROVE Unclobbered'
  OBVIOUS
<1>t. edits \in [Writers -> Edit] /\ Writers = {"live", "setup"} /\ "owner" \notin Writers
  BY DEF Types, FileTypes, Writers
<1>1. CASE OwnerEdit
  <2>1. disk' = written + 1 /\ author' = author /\ edits' = edits /\ author[written + 1] = "owner"
    BY <1>1, ConfigConstants DEF OwnerEdit, Authored, Types, FileTypes
  <2> QED
    BY <1>t, <2>1 DEF Unclobbered
<1>2. CASE Resting /\ ~OwnerEdit
  <2>1. disk' = disk /\ author' = author /\ edits' = edits
    BY <1>2 DEF Resting, LoadFile, ControlLocks, ControlEnds, Close, AdoptLock, vars
  <2> QED
    BY <2>1 DEF Unclobbered, At
<1>3. ASSUME NEW w \in Writers, Rename(w) PROVE Unclobbered'
  <2>1. /\ edits'[w].at # "rename" /\ edits[w].at = "rename"
        /\ \A v \in Writers : v # w => edits'[v] = edits[v]
    BY <1>3, <1>t, GotoTyped DEF Rename, Steps, At
  <2>2. \A v \in Writers : v # w => edits'[v].at # "rename"
    BY <2>1 DEF Held
  <2> QED
    BY <2>1, <2>2 DEF Unclobbered, At
<1>4. ASSUME NEW w \in Writers, LockFile(w) \/ CheckFile(w) PROVE Unclobbered'
  <2>1. /\ disk' = disk /\ author' = author /\ edits'[w].base = edits[w].base
        /\ edits'[w].at = "rename" => disk = edits[w].base
        /\ \A v \in Writers : v # w => edits'[v] = edits[v]
    BY <1>4, <1>t, GotoTyped DEF LockFile, CheckFile, Steps
  <2> QED
    BY <1>t, <2>1 DEF Unclobbered, At
<1>5. CASE OpenDraft
  <2>1. /\ disk' = disk /\ author' = author /\ edits'["setup"].at # "rename"
        /\ edits'["live"] = edits["live"]
    BY <1>5, <1>t DEF OpenDraft
  <2> QED
    BY <1>t, <2>1 DEF Unclobbered, At
<1>6. CASE \/ (\E who \in {"sweep", "edit"} : TakePass(who)) \/ Reconcile \/ AdoptCancel \/ AdoptSwap
           \/ AdoptSnapshot \/ Complete \/ Crash \/ RecoverStartup \/ Prepare \/ Intent
  <2>1. author' = author /\ disk' = disk
    BY <1>6 DEF TakePass, Reconcile, AdoptCancel, AdoptSwap, AdoptSnapshot, Complete, Crash,
                RecoverStartup, Prepare, Intent
  <2>2. edits'["setup"] = edits["setup"] /\ edits'["live"].at # "rename"
    <3>1. CASE \/ (\E who \in {"sweep", "edit"} : TakePass(who))
               \/ Complete \/ Crash \/ RecoverStartup
      BY <3>1, <1>t DEF TakePass, Complete, Crash, RecoverStartup
    <3>2. CASE Reconcile
      BY <3>2, <1>t, GotoTyped DEF Reconcile, Bail, Steps, At
    <3>3. CASE AdoptCancel \/ AdoptSwap \/ AdoptSnapshot \/ Intent
      BY <3>3, <1>t, GotoTyped DEF AdoptCancel, AdoptSwap, AdoptSnapshot, Intent, Bail, Steps, At
    <3>4. CASE Prepare
      BY <3>4, <1>t, GotoTyped DEF Prepare, Steps
    <3> QED
      BY <1>6, <3>1, <3>2, <3>3, <3>4
  <2> QED
    BY <1>t, <2>1, <2>2 DEF Unclobbered, At
<1> QED
  BY <1>1, <1>2, <1>3, <1>4, <1>5, <1>6, WriterCases DEF FileSteps

\* Neither Fridica writer replaces a file the other wrote after the edit was
\* prepared: the lock file is held from the check to the rename ("refused, not
\* clobbered", Prepared::commit).  The owner's own editor takes no lock.
THEOREM WritersNeverClobber == Spec => NeverClobbers
<1>1. ConfigInit => Held /\ Authored /\ Unclobbered
  BY ConfigConstants DEF ConfigInit, Held, Authored, Unclobbered, LiveAt, At, Writers
<1>2. Unclobbered => \A w \in Writers : Rename(w) /\ author[disk] \in Writers => disk = edits[w].base
  BY DEF Unclobbered, Rename
<1> QED
  BY <1>1, <1>2, TypesInit, TypesStep, HeldStep, AuthoredStep, UnclobberedStep, PTL
  DEF Spec, NeverClobbers

\* Every step keeps a live edit loaded or journalled.
LEMMA JournalledStep == Types /\ Held /\ Authored /\ Journalled /\ [Next]_vars => Journalled'
<1> SUFFICES ASSUME Types, Held, Authored, Journalled, [Next]_vars PROVE Journalled'
  OBVIOUS
<1>t. edits \in [Writers -> Edit] /\ Writers = {"live", "setup"}
  BY DEF Types, FileTypes, Writers
<1>a. /\ author \in [Configs -> Writers \cup {"owner"}] /\ disk \in Configs
      /\ \A w \in Writers : edits[w].new \in Configs
  BY <1>t DEF Types, FileTypes, Edit
<1>n. NoEdit.after = 0 /\ author[0] # "live"
  BY DEF NoEdit, Authored
<1>1. CASE OwnerEdit
  <2>1. disk' = written + 1 /\ author' = author /\ author[written + 1] # "live"
        /\ edits' = edits /\ journal' = journal
    BY <1>1, ConfigConstants DEF OwnerEdit, Authored, Types, FileTypes
  <2> QED
    BY <2>1 DEF Journalled, EditsJournalled, LiveAt
<1>2. CASE Resting /\ ~OwnerEdit /\ ~LoadFile
  <2>1. disk' = disk /\ author' = author /\ edits' = edits /\ journal' = journal /\ loaded' = loaded
    BY <1>2 DEF Resting, ControlLocks, ControlEnds, Close, AdoptLock, vars
  <2> QED
    BY <2>1 DEF Journalled, EditsJournalled, LiveAt
<1>3. CASE LoadFile
  <2>1. /\ disk' = disk /\ author' = author /\ edits' = edits /\ loaded' = disk
        /\ edits["live"].at = "idle"
    BY <1>3 DEF LoadFile, Held, LiveAt
  <2> QED
    BY <2>1 DEF Journalled, EditsJournalled, LiveAt
<1>4. CASE OpenDraft
  <2>1. /\ disk' = disk /\ author' = author /\ journal' = journal /\ loaded' = loaded
        /\ edits'["live"] = edits["live"]
    BY <1>4, <1>t DEF OpenDraft
  <2> QED
    BY <2>1 DEF Journalled, EditsJournalled, LiveAt
<1>5. ASSUME NEW w \in Writers, LockFile(w) \/ CheckFile(w) PROVE Journalled'
  <2>1. /\ disk' = disk /\ author' = author /\ journal' = journal /\ loaded' = loaded
        /\ edits'[w].new = edits[w].new /\ edits[w].at \in {"lock", "check"}
        /\ edits'[w].at \in {"check", "rename", "idle"}
        /\ \A v \in Writers : v # w => edits'[v] = edits[v]
    BY <1>5, <1>t, GotoTyped DEF LockFile, CheckFile, Steps, At
  <2> QED
    BY <1>t, <2>1 DEF Journalled, EditsJournalled, LiveAt
<1>6. CASE Rename("live")
  <2>1. /\ disk' = edits["live"].new /\ journal' = journal
        /\ edits["live"].at = "rename" /\ edits'["live"].at = "adopt"
    BY <1>6, <1>t, GotoTyped DEF Rename, Steps, At
  <2> QED
    BY <2>1 DEF Journalled, EditsJournalled, LiveAt
<1>7. CASE Rename("setup")
  <2>1. /\ disk' = edits["setup"].new /\ author' = [author EXCEPT ![edits["setup"].new] = "setup"]
        /\ journal' = journal /\ edits'["live"] = edits["live"]
    BY <1>7, <1>t, GotoTyped DEF Rename, Steps
  <2>2. author'[disk'] # "live"
    BY <1>t, <1>a, <2>1
  <2> QED
    BY <2>1, <2>2 DEF Journalled, EditsJournalled, LiveAt
<1>8. ASSUME NEW who \in {"sweep", "edit"}, TakePass(who) PROVE Journalled'
  <2>1. /\ disk' = disk /\ author' = author /\ journal' = journal /\ loaded' = loaded
        /\ edits'["live"].at = "adopt"
    BY <1>8, <1>t DEF TakePass
  <2> QED
    BY <2>1 DEF Journalled, EditsJournalled, LiveAt
<1>9. CASE Reconcile
  <2>f. disk' = disk /\ author' = author /\ loaded' = loaded
    BY <1>9 DEF Reconcile
  <2>1. CASE journal = NoEdit
    <3>1. author[disk] = "live" => loaded = disk
      BY <1>n, <2>1 DEF Journalled, EditsJournalled
    <3>2. journal' = journal /\ edits'["live"].at \in {"prepare", "complete"}
      BY <1>9, <1>t, <2>1, GotoTyped DEF Reconcile, Steps
    <3> QED
      BY <2>f, <3>1, <3>2 DEF Journalled, EditsJournalled, LiveAt
  <2>2. CASE journal # NoEdit /\ disk = journal.before /\ loaded = journal.before
    <3>1. edits'["live"].at \in {"adopt", "complete", "broker"}
      BY <1>9, <1>t, <2>2, GotoTyped DEF Reconcile, Steps, At
    <3>2. edits'["live"].at = "broker" => disk = journal.after /\ journal' = journal
      BY <1>9, <1>t, <2>2, GotoTyped DEF Reconcile, Steps, At
    <3> QED
      BY <2>2, <2>f, <3>1, <3>2 DEF Journalled, EditsJournalled, LiveAt
  <2>3. CASE journal # NoEdit /\ ~(disk = journal.before /\ loaded = journal.before)
    <3>1. /\ journal' = journal /\ edits'["live"].at \in {"idle", "complete", "broker"}
          /\ edits'["live"].at = "complete" => loaded = disk
          /\ edits'["live"].at = "broker" => disk = journal.after
      BY <1>9, <1>t, <2>3, GotoTyped DEF Reconcile, Bail, Steps
    <3> QED
      BY <2>f, <3>1 DEF Journalled, EditsJournalled, LiveAt
  <2> QED
    BY <2>1, <2>2, <2>3
<1>10. CASE AdoptCancel
  <2>1. /\ disk' = disk /\ author' = author /\ journal' = journal /\ loaded' = loaded
        /\ edits["live"].at = "broker" /\ edits'["live"].at \in {"swap", "idle"}
    BY <1>10, <1>t, GotoTyped DEF AdoptCancel, Bail, Steps, At
  <2> QED
    BY <2>1 DEF Journalled, EditsJournalled, LiveAt
<1>11. CASE AdoptSwap
  <2>1. /\ disk' = disk /\ author' = author /\ journal' = journal /\ loaded' = loaded
        /\ edits["live"].at = "swap" /\ edits'["live"].at = "snapshot"
    BY <1>11, <1>t, GotoTyped DEF AdoptSwap, Steps, At
  <2> QED
    BY <2>1 DEF Journalled, EditsJournalled, LiveAt
<1>17. CASE AdoptSnapshot
  <2>1. /\ disk' = disk /\ author' = author /\ journal' = journal /\ loaded' = journal.after
        /\ edits["live"].at = "snapshot" /\ edits'["live"].at = "complete"
    BY <1>17, <1>t, GotoTyped DEF AdoptSnapshot, Steps, At
  <2> QED
    BY <2>1 DEF Journalled, EditsJournalled, LiveAt
<1>12. CASE Complete
  <2>1. /\ disk' = disk /\ author' = author /\ loaded' = loaded
        /\ edits["live"].at = "complete" /\ edits'["live"].at = "idle"
    BY <1>12, <1>t DEF Complete, At
  <2> QED
    BY <2>1 DEF Journalled, EditsJournalled, LiveAt
<1>13. CASE Prepare
  <2>1. /\ disk' = disk /\ author' = author /\ loaded' = loaded /\ journal' = journal
        /\ edits["live"].at = "prepare" /\ edits'["live"].at \in {"idle", "intent"}
    BY <1>13, <1>t, GotoTyped DEF Prepare, Steps, At
  <2> QED
    BY <2>1 DEF Journalled, EditsJournalled, LiveAt
<1>14. CASE Intent
  <2>1. /\ disk' = disk /\ author' = author /\ loaded' = loaded
        /\ journal'.after = edits["live"].new /\ edits'["live"].new = edits["live"].new
        /\ edits["live"].at = "intent" /\ edits'["live"].at = "lock"
    BY <1>14, <1>t, GotoTyped DEF Intent, Steps, At
  <2> QED
    BY <2>1 DEF Journalled, EditsJournalled, LiveAt
<1>15. CASE Crash
  <2>1. /\ disk' = disk /\ author' = author /\ loaded' = loaded /\ journal' = journal
        /\ edits'["live"].at = "idle"
    BY <1>15, <1>t DEF Crash
  <2> QED
    BY <2>1 DEF Journalled, EditsJournalled, LiveAt
<1>16. CASE RecoverStartup
  <2>1. /\ disk' = disk /\ author' = author /\ loaded' = loaded /\ edits'["live"].at = "idle"
        /\ journal' = journal \/ journal = NoEdit \/ disk = loaded
    BY <1>16, <1>t DEF RecoverStartup, Verified
  <2> QED
    BY <1>n, <2>1 DEF Journalled, EditsJournalled, LiveAt
<1> QED
  BY <1>1, <1>2, <1>3, <1>4, <1>5, <1>6, <1>7, <1>8, <1>9, <1>10, <1>11, <1>12, <1>13, <1>14,
     <1>15, <1>16, <1>17, <1>t, WriterCases DEF FileSteps

\* A live edit that reached the disk is loaded, or the journal has it for the
\* next pass or start, wherever the daemon dies or an adoption fails
\* (configuration::replace, recover_startup).
THEOREM EditsNeverForgotten == Spec => []EditsJournalled
<1>1. ConfigInit => Held /\ Authored /\ Journalled
  BY ConfigConstants DEF ConfigInit, Held, Authored, Journalled, EditsJournalled, LiveAt, Writers
<1>2. Journalled => EditsJournalled
  BY DEF Journalled
<1> QED
  BY <1>1, <1>2, TypesInit, TypesStep, HeldStep, AuthoredStep, JournalledStep, PTL DEF Spec

-----------------------------------------------------------------------------
(***************************************************************************)
(* The files of a job.  HasItsFiles fails because placements share         *)
(* data_in; without a placement that takes its files an attempt has them.  *)
(***************************************************************************)

Callers == {"none", "files", "placing", "placed", "fetching", "running", "ended"}
Places == {"none", "start", "folder", "clear", "create", "copy", "move", "seal", "close", "done", "failed"}
Copies == {Nothing} \cup [state : {"partial", "whole"}, by : Attempts, sealed : BOOLEAN]

PlaceTypes ==
  /\ number \in [Jobs -> Nat]
  /\ caller \in [Attempts -> Callers] /\ place \in [Attempts -> [at : Places, k : Nat]]
  /\ \A p \in Attempts : place[p].k \in DOMAIN Wants[p[1]]
  /\ target \in [Attached -> Copies] /\ part \in [Attached -> Copies]

\* The steps of a placement that take its file away, write it anew or replace it.
Takes(q) == ClearTarget(q) \/ CreateTarget(q) \/ MovePart(q)

\* From its placement until its worker ends, no other attempt takes a file of p.
Undisturbed(p) ==
  caller[p] \in {"placing", "placed", "fetching", "running"} =>
     \A q \in Attempts \ {p} : Takes(q) => File(q) \notin Wanted(p[1])

Whole(f) == target[f] # Nothing /\ target[f].state = "whole"

\* What is in place at each step of p's placement, while its job waits for it.
Placing(p) ==
  /\ \A i \in 1 .. place[p].k-1 : Wants[p[1]][i] # File(p) => Whole(Wants[p[1]][i])
  /\ PlaceAt(p, "copy") =>
       LET file == IF Remote THEN part[File(p)] ELSE target[File(p)]
       IN  file # Nothing /\ file.by = p
  /\ PlaceAt(p, "move") => part[File(p)] # Nothing /\ part[File(p)].state = "whole"
  /\ PlaceAt(p, "seal") => Whole(File(p))
  /\ place[p].at \in {"close", "done"} => \A f \in Wanted(p[1]) : Whole(f)
FilesOf(p) ==
  /\ number[p[1]] < p[2] => caller[p] = "none"
  /\ caller[p] \in {"none", "files"} => PlaceAt(p, "none")
  /\ caller[p] = "placing" => Placing(p)
  /\ caller[p] \in {"placed", "fetching", "running"} =>
        PlaceAt(p, "done") /\ \A f \in Wanted(p[1]) : Whole(f)

\* An attempt is a job and a number, its files are listed.
LEMMA AttemptIs ==
  ASSUME NEW p \in Attempts
  PROVE  /\ p[1] \in Jobs /\ p[2] \in Nat /\ p = <<p[1], p[2]>>
         /\ DOMAIN Wants[p[1]] = 1 .. Len(Wants[p[1]]) /\ Len(Wants[p[1]]) \in Nat \ {0}
         /\ \A i \in DOMAIN Wants[p[1]] : Wants[p[1]][i] \in Wanted(p[1])
         /\ Wanted(p[1]) \subseteq Attached
         /\ \A f \in Wanted(p[1]) : \E i \in DOMAIN Wants[p[1]] : f = Wants[p[1]][i]
<1>1. PICK j \in Jobs : \E n \in 1 .. Tries[j] : p = <<j, n>>
  BY DEF Attempts
<1>2. Tries[j] \in Nat
  BY JobFilesConstants
<1> QED
  BY <1>1, <1>2, JobFilesConstants DEF Wanted, Attached

\* The placed files are typed: every step keeps the types.
LEMMA PlaceTypesStep == PlaceTypes /\ [FilesNext]_filesVars => PlaceTypes'
<1> SUFFICES ASSUME PlaceTypes, [FilesNext]_filesVars PROVE PlaceTypes'
  OBVIOUS
<1> USE DEF PlaceTypes, jobRow, fsVars, fetchVars
<1>1. ASSUME NEW p \in Attempts, NEW c \in Callers, caller' = [caller EXCEPT ![p] = c]
      PROVE  caller' \in [Attempts -> Callers]
  BY <1>1
<1>2. ASSUME NEW j \in Jobs, ClaimJob(j) \/ ControlJob(j) \/ RetryJob(j) PROVE PlaceTypes'
  <2>1. caller' \in [Attempts -> Callers]
    BY <1>2 DEF ClaimJob, ControlJob, RetryJob, Goes, Callers
  <2>2. number' \in [Jobs -> Nat]
    BY <1>2 DEF ClaimJob, ControlJob, RetryJob
  <2> QED
    BY <1>2, <2>1, <2>2 DEF ClaimJob, ControlJob, RetryJob
<1>3. ASSUME NEW p \in Attempts, DropOperation(p) \/ Placed(p) \/ PrepareFetch(p) \/ HearFetch(p) \/ WorkerEnds(p)
      PROVE  PlaceTypes'
  <2>1. caller' \in [Attempts -> Callers]
    BY <1>3 DEF DropOperation, Placed, PrepareFetch, HearFetch, WorkerEnds, Goes, Ends, Callers
  <2> QED
    BY <1>3, <2>1 DEF DropOperation, Placed, PrepareFetch, HearFetch, WorkerEnds
<1>4. ASSUME NEW p \in Attempts, Download(p) PROVE PlaceTypes'
  <2>1. caller' \in [Attempts -> Callers]
    BY <1>4 DEF Download, Goes, Ends, Callers
  <2>2. 1 \in DOMAIN Wants[p[1]]
    BY AttemptIs
  <2> QED
    BY <1>4, <2>1, <2>2 DEF Download, Places
<1>5. ASSUME NEW p \in Attempts, PlaceStep(p) PROVE PlaceTypes'
  <2>1. File(p) \in Attached /\ place[p].k \in DOMAIN Wants[p[1]]
    BY AttemptIs DEF File
  <2>2. Written(p) \in Copies
    BY DEF Written, Copies
  <2>3. /\ number' = number /\ caller' = caller
    BY <1>5 DEF PlaceStep, OpenDataIn, OpenFolder, ClearTarget, CreateTarget, CopyData, MovePart, SealTarget, CloseFolders
  <2>4. ASSUME NEW step \in Places, PlaceGo(p, step)
        PROVE  place' \in [Attempts -> [at : Places, k : Nat]]
               /\ \A q \in Attempts : place'[q].k \in DOMAIN Wants[q[1]]
    BY <2>4, <2>1 DEF PlaceGo
  <2>5. CASE OpenDataIn(p) \/ OpenFolder(p) \/ CloseFolders(p)
    BY <2>5, <2>3, <2>4 DEF OpenDataIn, OpenFolder, CloseFolders, Places
  <2>6. CASE ClearTarget(p)
    <3>1. target' \in [Attached -> Copies] /\ part' = part
      BY <2>6, <2>1 DEF ClearTarget, Copies
    <3> QED
      BY <2>6, <3>1, <2>3, <2>4 DEF ClearTarget, Places
  <2>7. CASE CreateTarget(p)
    <3>1. target' \in [Attached -> Copies] /\ part' \in [Attached -> Copies]
      BY <2>7, <2>1, <2>2 DEF CreateTarget
    <3> QED
      BY <2>7, <3>1, <2>3, <2>4 DEF CreateTarget, Places
  <2>8. CASE CopyData(p)
    <3>1. \A c \in Copies : Completed(p, c) \in Copies
      BY DEF Completed, Copies, Nothing
    <3>2. target' \in [Attached -> Copies] /\ part' \in [Attached -> Copies]
      BY <2>8, <2>1, <3>1 DEF CopyData
    <3> QED
      BY <2>8, <3>2, <2>3, <2>4 DEF CopyData, Places
  <2>9. CASE MovePart(p)
    <3>1. target' \in [Attached -> Copies] /\ part' \in [Attached -> Copies]
      BY <2>9, <2>1 DEF MovePart, Copies
    <3> QED
      BY <2>9, <3>1, <2>3, <2>4 DEF MovePart, Places
  <2>10. CASE SealTarget(p)
    <3>1. target' \in [Attached -> Copies] /\ part' = part
      <4>1. target[File(p)] # Nothing => [target[File(p)] EXCEPT !.sealed = TRUE] \in Copies
        BY <2>1, ZenonT(40) DEF Copies
      <4> QED
        BY <2>10, <2>1, <4>1, ZenonT(40) DEF SealTarget
    <3>2. ASSUME NextFile(p)
          PROVE  place' \in [Attempts -> [at : Places, k : Nat]]
                 /\ \A q \in Attempts : place'[q].k \in DOMAIN Wants[q[1]]
      <4>1. place[p].k # Len(Wants[p[1]]) => place[p].k + 1 \in DOMAIN Wants[p[1]] /\ place[p].k + 1 \in Nat
        BY <2>1, AttemptIs
      <4> DEFINE more == [at |-> IF Remote THEN "start" ELSE "folder", k |-> place[p].k + 1]
      <4>2. CASE place[p].k # Len(Wants[p[1]]) /\ ~(Remote /\ Abandoned(p))
        <5>1. place' = [place EXCEPT ![p] = more]
          BY <3>2, <4>2 DEF NextFile
        <5>2. more \in [at : Places, k : Nat] /\ more.k \in DOMAIN Wants[p[1]]
          BY <4>1, <4>2 DEF Places
        <5> QED
          BY <5>1, <5>2
      <4>3. CASE ~(place[p].k # Len(Wants[p[1]]) /\ ~(Remote /\ Abandoned(p)))
        <5>1. \E step \in Places : place' = [place EXCEPT ![p] = [place[p] EXCEPT !.at = step]]
          BY <3>2, <4>3 DEF NextFile, Places
        <5> QED
          BY <5>1, <2>1
      <4> QED
        BY <4>2, <4>3
    <3> QED
      BY <2>10, <3>1, <3>2, <2>3, <2>4 DEF SealTarget, Places
  <2> QED
    BY <1>5, <2>5, <2>6, <2>7, <2>8, <2>9, <2>10 DEF PlaceStep
<1>6. ASSUME NEW p \in Attempts, TaskStep(p) \/ HelperEnds(p) PROVE PlaceTypes'
  BY <1>6 DEF TaskStep, BeginFetch, CancelFetch, FinishFetch, HelperEnds
<1>7. CASE DaemonDies
  BY <1>7 DEF DaemonDies, Callers, Places
<1>8. CASE UNCHANGED filesVars
  BY <1>8 DEF filesVars
<1> QED
  BY <1>2, <1>3, <1>4, <1>5, <1>6, <1>7, <1>8 DEF FilesNext

\* Steps that leave an attempt and its files alone keep what it has.
LEMMA FilesQuiet ==
  ASSUME PlaceTypes, NEW p \in Attempts, FilesOf(p),
         transport' = transport, caller'[p] = caller[p], place'[p] = place[p],
         number'[p[1]] = number[p[1]],
         \A f \in Wanted(p[1]) : target'[f] = target[f] /\ part'[f] = part[f]
  PROVE  FilesOf(p)'
<1>1. /\ place[p].k \in DOMAIN Wants[p[1]] /\ File(p) \in Wanted(p[1]) /\ File(p)' = File(p)
      /\ \A i \in 1 .. place[p].k-1 : Wants[p[1]][i] \in Wanted(p[1])
  <2>1. place[p].k \in 1 .. Len(Wants[p[1]]) /\ Len(Wants[p[1]]) \in Nat
    BY AttemptIs DEF PlaceTypes
  <2>2. \A i \in 1 .. Len(Wants[p[1]]) : Wants[p[1]][i] \in Wanted(p[1])
    BY AttemptIs
  <2> QED
    BY <2>1, <2>2, AttemptIs DEF File
<1>2. \A f \in Wanted(p[1]) : Whole(f)' <=> Whole(f)
  BY DEF Whole
<1>3. (Placing(p) => Placing(p)') /\ (PlaceAt(p, "none") <=> PlaceAt(p, "none")')
      /\ (PlaceAt(p, "done") <=> PlaceAt(p, "done")')
  BY <1>1, <1>2 DEF Placing, PlaceAt, Remote
<1> QED
  BY <1>2, <1>3 DEF FilesOf

\* A file that is there stays there, of the same writer and as whole.
Stays(c, d) == c # Nothing => d # Nothing /\ d.by = c.by /\ (c.state = "whole" => d.state = "whole")

\* Only the three taking steps harm a file: the others complete or seal it.
LEMMA FilesStay ==
  ASSUME PlaceTypes, NEW q \in Attempts, PlaceStep(q), NEW f \in Attached, Takes(q) => f # File(q)
  PROVE  Stays(target[f], target'[f]) /\ Stays(part[f], part'[f])
<1>1. ASSUME target'[f] = target[f], part'[f] = part[f] PROVE Stays(target[f], target'[f]) /\ Stays(part[f], part'[f])
  BY <1>1 DEF Stays
<1>2. ASSUME NEW c \in Copies
      PROVE  /\ Stays(c, c) /\ Stays(c, Completed(q, c))
             /\ c # Nothing => Stays(c, [c EXCEPT !.sealed = TRUE])
  BY <1>2 DEF Copies, Completed, Stays, Nothing
<1>3. target[f] \in Copies /\ part[f] \in Copies /\ DOMAIN target = Attached /\ DOMAIN part = Attached
  BY DEF PlaceTypes
<1>4. CASE OpenDataIn(q) \/ OpenFolder(q) \/ CloseFolders(q)
  BY <1>1, <1>4 DEF OpenDataIn, OpenFolder, CloseFolders
<1>5. CASE Takes(q)
  BY <1>1, <1>5 DEF Takes, ClearTarget, CreateTarget, MovePart, PlaceTypes
<1>6. CASE CopyData(q)
  <2>1. /\ target'[f] \in {target[f], Completed(q, target[f])}
        /\ part'[f] \in {part[f], Completed(q, part[f])}
    BY <1>6 DEF CopyData, PlaceTypes
  <2> QED
    BY <1>2, <1>3, <2>1
<1>7. CASE SealTarget(q)
  <2>1. /\ part' = part
        /\ \/ target' = target
           \/ target[File(q)] # Nothing /\ target' = [target EXCEPT ![File(q)].sealed = TRUE]
    BY <1>7 DEF SealTarget
  <2>2. \/ target'[f] = target[f]
        \/ target[f] # Nothing /\ target'[f] = [target[f] EXCEPT !.sealed = TRUE]
    BY <1>3, <2>1
  <2> QED
    BY <1>2, <1>3, <2>1, <2>2
<1> QED
  BY <1>4, <1>5, <1>6, <1>7 DEF PlaceStep, Takes

\* The placements of others leave an undisturbed attempt what it has.
LEMMA OthersPlace ==
  ASSUME PlaceTypes, NEW p \in Attempts, NEW q \in Attempts, q # p,
         FilesOf(p), Undisturbed(p), PlaceStep(q)
  PROVE  FilesOf(p)'
<1>1. transport' = transport /\ number' = number /\ caller' = caller /\ place'[p] = place[p]
  <2>1. ASSUME NEW step, PlaceGo(q, step) PROVE place'[p] = place[p]
    BY <2>1 DEF PlaceGo, PlaceTypes
  <2>2. NextFile(q) => place'[p] = place[p]
    BY DEF NextFile, PlaceTypes
  <2>3. CASE OpenDataIn(q) \/ OpenFolder(q) \/ CloseFolders(q)
    BY <2>1, <2>3 DEF OpenDataIn, OpenFolder, CloseFolders, jobRow
  <2>4. CASE ClearTarget(q) \/ CreateTarget(q)
    BY <2>1, <2>4 DEF ClearTarget, CreateTarget, jobRow
  <2>5. CASE CopyData(q) \/ MovePart(q)
    BY <2>1, <2>5 DEF CopyData, MovePart, jobRow
  <2>6. CASE SealTarget(q)
    BY <2>1, <2>2, <2>6 DEF SealTarget, jobRow
  <2> QED
    BY <2>3, <2>4, <2>5, <2>6 DEF PlaceStep
<1>2. File(p)' = File(p) /\ File(p) \in Wanted(p[1]) /\ Remote' = Remote
  BY <1>1, AttemptIs DEF File, Remote, PlaceTypes
<1>3. CASE caller[p] \notin {"placing", "placed", "fetching", "running"}
  BY <1>1, <1>3 DEF FilesOf, PlaceAt
<1>4. CASE caller[p] \in {"placing", "placed", "fetching", "running"}
  <2>1. \A f \in Wanted(p[1]) : Stays(target[f], target'[f]) /\ Stays(part[f], part'[f])
    <3>1. TAKE f \in Wanted(p[1])
    <3>2. f \in Attached /\ (Takes(q) => f # File(q))
      BY <1>4, AttemptIs DEF Undisturbed
    <3> QED
      BY <3>2, FilesStay
  <2>2. \A f \in Wanted(p[1]) : Whole(f) => Whole(f)'
    BY <2>1 DEF Whole, Stays
  <2>3. Placing(p) => Placing(p)'
    <3>1. \A i \in 1 .. place[p].k-1 : Wants[p[1]][i] \in Wanted(p[1])
      <4>1. place[p].k \in 1 .. Len(Wants[p[1]]) /\ Len(Wants[p[1]]) \in Nat
        BY AttemptIs DEF PlaceTypes
      <4>2. \A i \in 1 .. Len(Wants[p[1]]) : Wants[p[1]][i] \in Wanted(p[1])
        BY AttemptIs
      <4> QED
        BY <4>1, <4>2
    <3>2. PlaceAt(p, "copy") /\ Placing(p) =>
            LET file == IF Remote THEN part'[File(p)] ELSE target'[File(p)]
            IN  file # Nothing /\ file.by = p
      BY <1>2, <2>1 DEF Placing, Stays
    <3>3. PlaceAt(p, "move") /\ Placing(p) => part'[File(p)] # Nothing /\ part'[File(p)].state = "whole"
      BY <1>2, <2>1 DEF Placing, Stays
    <3> QED
      BY <1>1, <1>2, <2>2, <3>1, <3>2, <3>3 DEF Placing, PlaceAt
  <2> QED
    BY <1>1, <1>4, <2>2, <2>3 DEF FilesOf, PlaceAt
<1> QED
  BY <1>3, <1>4

\* An attempt's own placement brings its files in place, in order.
LEMMA OwnPlacement ==
  ASSUME PlaceTypes, PlaceTypes', NEW p \in Attempts, FilesOf(p), PlaceStep(p)
  PROVE  FilesOf(p)'
<1> DEFINE w == Wants[p[1]]
           k == place[p].k
<1>1. /\ caller' = caller /\ number' = number /\ transport' = transport
      /\ ~PlaceAt(p, "none") /\ ~PlaceAt(p, "done")
  BY DEF PlaceStep, OpenDataIn, OpenFolder, ClearTarget, CreateTarget, CopyData, MovePart, SealTarget,
         CloseFolders, jobRow, PlaceAt
<1>2. CASE caller[p] # "placing"
  BY <1>1, <1>2 DEF FilesOf, PlaceTypes, Callers
<1>3. CASE caller[p] = "placing"
  <2>1. Placing(p) /\ ~Abandoned(p)
    BY <1>3 DEF FilesOf, Abandoned
  <2>2. /\ k \in 1 .. Len(w) /\ Len(w) \in Nat /\ File(p) = w[k] /\ File(p) \in Attached
        /\ \A i \in 1 .. Len(w) : w[i] \in Attached
        /\ \A f \in Wanted(p[1]) : \E i \in 1 .. Len(w) : f = w[i]
        /\ place[p] \in [at : Places, k : Nat]
    BY AttemptIs DEF PlaceTypes, File
  <2>3. SUFFICES Placing(p)'
    BY <1>1, <1>3 DEF FilesOf
  <2>4. ASSUME NEW step, PlaceGo(p, step)
        PROVE  place'[p] = [place[p] EXCEPT !.at = step] /\ place'[p].k = k /\ place'[p].at = step
               /\ File(p)' = File(p)
    BY <2>4 DEF PlaceGo, PlaceTypes, File
  <2>11. ASSUME place'[p].k = k, File(p)' = File(p), \A f \in Attached : f # File(p) => target'[f] = target[f]
         PROVE  \A i \in 1 .. place'[p].k-1 : Wants[p[1]][i] # File(p)' => Whole(Wants[p[1]][i])'
    <3>1. TAKE i \in 1 .. place'[p].k-1
    <3>2. i \in 1 .. k-1 /\ i \in 1 .. Len(w)
      BY <2>2, <2>11
    <3>3. w[i] # File(p) => Whole(w[i]) /\ target'[w[i]] = target[w[i]]
      BY <2>1, <2>2, <2>11, <3>2 DEF Placing
    <3> QED
      BY <2>11, <3>3 DEF Whole
  <2>5. CASE OpenDataIn(p) \/ OpenFolder(p)
    <3>1. /\ target' = target /\ place'[p].k = k /\ File(p)' = File(p)
          /\ place'[p].at \in {"folder", "clear", "failed"}
      BY <2>4, <2>5 DEF OpenDataIn, OpenFolder
    <3> QED
      BY <2>1, <3>1 DEF Placing, PlaceAt, Whole
  <2>6. CASE ClearTarget(p) \/ CreateTarget(p)
    <3>1. /\ place'[p].k = k /\ File(p)' = File(p) /\ place'[p].at \in {"create", "failed", "copy"}
          /\ \A f \in Attached : f # File(p) => target'[f] = target[f]
      BY <2>4, <2>6 DEF ClearTarget, CreateTarget, PlaceTypes
    <3>2. place'[p].at = "copy" =>
            /\ Remote => part'[File(p)] = Written(p)
            /\ ~Remote => target'[File(p)] = Written(p)
      <4>1. CASE ClearTarget(p)
        <5>1. PICK step \in {"create", "failed"} : PlaceGo(p, step)
          BY <4>1 DEF ClearTarget
        <5>2. place'[p].at = step
          BY <5>1, <2>4
        <5> QED
          BY <5>2
      <4>2. CASE CreateTarget(p)
        <5>1. \/ PlaceGo(p, "failed")
              \/ IF Remote THEN part' = [part EXCEPT ![File(p)] = Written(p)]
                           ELSE target' = [target EXCEPT ![File(p)] = Written(p)]
          BY <4>2 DEF CreateTarget
        <5>2. CASE PlaceGo(p, "failed")
          <6>1. place'[p].at = "failed"
            BY <2>4, <5>2
          <6> QED
            BY <6>1
        <5> QED
          BY <2>2, <5>1, <5>2 DEF PlaceTypes
      <4> QED
        BY <2>6, <4>1, <4>2
    <3>3. Written(p) # Nothing /\ Written(p).by = p
      BY DEF Written, Nothing
    <3> QED
      BY <1>1, <2>11, <3>1, <3>2, <3>3 DEF Placing, PlaceAt, Remote
  <2>7. CASE CopyData(p)
    <3>1. /\ place'[p].k = k /\ File(p)' = File(p) /\ place'[p].at \in {"move", "seal", "failed"}
          /\ \A f \in Attached : f # File(p) => target'[f] = target[f]
          /\ place'[p].at # "failed" =>
                /\ place'[p].at = IF Remote THEN "move" ELSE "seal"
                /\ target'[File(p)] = Completed(p, target[File(p)])
                /\ part'[File(p)] = Completed(p, part[File(p)])
      BY <2>1, <2>2, <2>4, <2>7 DEF CopyData, PlaceTypes
    <3>2. PlaceAt(p, "copy")
      BY <2>7 DEF CopyData
    <3>3. ASSUME NEW c \in Copies, c # Nothing, c.by = p
          PROVE  Completed(p, c) # Nothing /\ Completed(p, c).state = "whole"
      BY <3>3 DEF Completed, Copies, Nothing
    <3>4. target[File(p)] \in Copies /\ part[File(p)] \in Copies
      BY <2>2 DEF PlaceTypes
    <3>5. /\ place'[p].at = "move" => part'[File(p)] # Nothing /\ part'[File(p)].state = "whole"
          /\ place'[p].at = "seal" => target'[File(p)] # Nothing /\ target'[File(p)].state = "whole"
      BY <2>1, <3>1, <3>2, <3>3, <3>4 DEF Placing
    <3> QED
      BY <2>11, <3>1, <3>5 DEF Placing, PlaceAt, Whole
  <2>8. CASE MovePart(p)
    <3>1. /\ place'[p].k = k /\ File(p)' = File(p) /\ place'[p].at \in {"seal", "failed"}
          /\ \A f \in Attached : f # File(p) => target'[f] = target[f]
          /\ place'[p].at = "seal" => target'[File(p)] = part[File(p)]
      <4>1. /\ \A f \in Attached : f # File(p) => target'[f] = target[f]
            /\ \/ PlaceGo(p, "seal") /\ target'[File(p)] = part[File(p)]
               \/ PlaceGo(p, "failed")
        BY <2>2, <2>8 DEF MovePart, PlaceTypes
      <4>2. PICK step \in {"seal", "failed"} :
               PlaceGo(p, step) /\ (step = "seal" => target'[File(p)] = part[File(p)])
        BY <4>1
      <4> QED
        BY <4>1, <4>2, <2>4
    <3>2. PlaceAt(p, "move")
      BY <2>8 DEF MovePart
    <3>3. place'[p].at = "seal" => target'[File(p)] # Nothing /\ target'[File(p)].state = "whole"
      BY <2>1, <3>1, <3>2 DEF Placing
    <3> QED
      BY <2>11, <3>1, <3>3 DEF Placing, PlaceAt, Whole
  <2>9. CASE SealTarget(p)
    <3>1. PlaceAt(p, "seal")
      BY <2>9 DEF SealTarget
    <3>2. CASE target[File(p)] # Nothing
      <4>1. target' = [target EXCEPT ![File(p)].sealed = TRUE] /\ NextFile(p)
        BY <2>9, <3>2 DEF SealTarget
      <4>2. \A f \in Attached : Whole(f) => Whole(f)'
        <5>1. ASSUME NEW c \in Copies, c # Nothing
              PROVE  [c EXCEPT !.sealed = TRUE] # Nothing /\ [c EXCEPT !.sealed = TRUE].state = c.state
          BY <5>1 DEF Copies, Nothing
        <5>2. \A f \in Attached : target[f] \in Copies /\ target'[f] = IF f = File(p) THEN [target[f] EXCEPT !.sealed = TRUE] ELSE target[f]
          BY <4>1, <2>2 DEF PlaceTypes
        <5> QED
          BY <5>1, <5>2 DEF Whole
      <4>3. \A i \in 1 .. k : Whole(w[i])'
        BY <2>1, <2>2, <3>1, <4>2 DEF Placing
      <4>4. CASE k = Len(w)
        <5>1. place'[p].k = k /\ place'[p].at \in {"done", "close"}
          BY <4>1, <4>4, <2>2 DEF NextFile, PlaceTypes
        <5> QED
          BY <2>2, <4>3, <4>4, <5>1 DEF Placing, PlaceAt
      <4>5. CASE k # Len(w)
        <5>1. place'[p].k = k + 1 /\ place'[p].at \in {"start", "folder"}
          BY <4>1, <4>5, <2>1, <2>2 DEF NextFile, PlaceTypes
        <5>2. \A i \in 1 .. place'[p].k-1 : Whole(w[i])'
          BY <2>2, <4>3, <5>1
        <5> QED
          BY <5>1, <5>2 DEF Placing, PlaceAt
      <4> QED
        BY <4>4, <4>5
    <3>3. CASE target[File(p)] = Nothing
      BY <3>1, <3>3, <2>1 DEF Placing, Whole
    <3> QED
      BY <3>2, <3>3
  <2>10. CASE CloseFolders(p)
    <3>1. target' = target /\ place'[p].k = k /\ place'[p].at = "done" /\ PlaceAt(p, "close") /\ File(p)' = File(p)
      BY <2>4, <2>10 DEF CloseFolders
    <3> QED
      BY <2>1, <3>1 DEF Placing, PlaceAt, Whole
  <2> QED
    BY <2>5, <2>6, <2>7, <2>8, <2>9, <2>10 DEF PlaceStep
<1> QED
  BY <1>2, <1>3 DEF FilesOf

\* Every step keeps what an undisturbed attempt has.
LEMMA FilesStep ==
  ASSUME NEW p \in Attempts
  PROVE  PlaceTypes /\ FilesOf(p) /\ [FilesNext]_filesVars /\ [Undisturbed(p)]_filesVars
            => PlaceTypes' /\ FilesOf(p)'
<1> SUFFICES ASSUME PlaceTypes, FilesOf(p), [FilesNext]_filesVars, [Undisturbed(p)]_filesVars, PlaceTypes'
             PROVE  FilesOf(p)'
  BY PlaceTypesStep
<1>a. p[1] \in Jobs /\ p[2] \in Nat /\ p = <<p[1], p[2]>>
  BY AttemptIs
<1>1. ASSUME caller'[p] = "ended", number'[p[1]] = number[p[1]], ~(number[p[1]] < p[2]) PROVE FilesOf(p)'
  BY <1>1 DEF FilesOf
<1>2. ASSUME NEW q \in Attempts, NEW how, Ends(q, how), Current(q), number' = number,
             place' = place, target' = target, part' = part, transport' = transport
      PROVE  FilesOf(p)'
  <2>1. CASE q = p
    <3>1. caller'[p] = "ended" /\ number[p[1]] = p[2]
      BY <1>2, <2>1 DEF Ends, Goes, Current, PlaceTypes
    <3> QED
      BY <1>1, <1>2, <1>a, <3>1
  <2>2. CASE q # p
    <3>1. caller'[p] = caller[p]
      BY <1>2, <2>2 DEF Ends, Goes, PlaceTypes
    <3> QED
      BY <1>2, <3>1, FilesQuiet
  <2> QED
    BY <2>1, <2>2
<1>3. ASSUME NEW q \in Attempts, NEW to \in Callers, Goes(q, to), Current(q), number' = number, place' = place,
             target' = target, part' = part, transport' = transport,
             to \in {"placed", "fetching", "running"},
             caller[q] \in {"placed", "fetching", "running"} \/ (caller[q] = "placing" /\ PlaceAt(q, "done"))
      PROVE  FilesOf(p)'
  <2>1. CASE q = p
    <3>1. caller'[p] = to /\ number[p[1]] = p[2]
      BY <1>3, <2>1 DEF Goes, Current, PlaceTypes
    <3>2. PlaceAt(p, "done") /\ \A f \in Wanted(p[1]) : Whole(f)
      BY <1>3, <2>1 DEF FilesOf, Placing, PlaceAt
    <3> QED
      BY <1>3, <1>a, <3>1, <3>2 DEF FilesOf, PlaceAt, Whole
  <2>2. CASE q # p
    <3>1. caller'[p] = caller[p]
      BY <1>3, <2>2 DEF Goes, PlaceTypes
    <3> QED
      BY <1>3, <3>1, FilesQuiet
  <2> QED
    BY <2>1, <2>2
<1>4. ASSUME NEW j \in Jobs, ClaimJob(j) PROVE FilesOf(p)'
  <2>1. /\ number' = [number EXCEPT ![j] = @ + 1] /\ caller' = [caller EXCEPT ![<<j, number[j] + 1>>] = "files"]
        /\ transport' = transport /\ place' = place /\ target' = target /\ part' = part
    BY <1>4 DEF ClaimJob, Goes, fsVars
  <2>2. CASE p = <<j, number[j] + 1>>
    <3>1. /\ p[1] = j /\ p[2] = number[j] + 1 /\ number[j] \in Nat /\ number'[j] = number[j] + 1
          /\ caller'[p] = "files"
      BY <2>1, <2>2, <1>4 DEF PlaceTypes
    <3>2. PlaceAt(p, "none")'
      BY <2>1, <3>1 DEF FilesOf, PlaceAt
    <3> QED
      BY <3>1, <3>2 DEF FilesOf
  <2>3. CASE p # <<j, number[j] + 1>>
    <3>1. caller'[p] = caller[p]
      BY <2>1, <2>3 DEF PlaceTypes
    <3>2. CASE p[1] # j
      <4>1. number'[p[1]] = number[p[1]]
        BY <1>a, <2>1, <3>2 DEF PlaceTypes
      <4> QED
        BY <2>1, <3>1, <4>1, FilesQuiet
    <3>3. CASE p[1] = j
      <4>1. number[j] \in Nat /\ number'[j] = number[j] + 1 /\ (number'[j] < p[2] => number[j] < p[2])
        BY <1>a, <2>1, <1>4 DEF PlaceTypes
      <4>2. /\ PlaceAt(p, "none") <=> PlaceAt(p, "none")'
            /\ PlaceAt(p, "done") <=> PlaceAt(p, "done")'
            /\ Placing(p) <=> Placing(p)'
            /\ \A f \in Wanted(p[1]) : Whole(f) <=> Whole(f)'
        BY <2>1 DEF PlaceAt, Placing, Whole, File, Remote
      <4> QED
        BY <3>1, <3>3, <4>1, <4>2 DEF FilesOf
    <3> QED
      BY <3>2, <3>3
  <2> QED
    BY <2>2, <2>3
<1>5. ASSUME NEW j \in Jobs, ControlJob(j) \/ RetryJob(j) PROVE FilesOf(p)'
  BY <1>5, FilesQuiet DEF ControlJob, RetryJob, fsVars
<1>6. ASSUME NEW q \in Attempts, DropOperation(q) PROVE FilesOf(p)'
  BY <1>2, <1>6 DEF DropOperation, fsVars
<1>7. ASSUME NEW q \in Attempts, Download(q) PROVE FilesOf(p)'
  <2>1. CASE q = p
    <3>1. /\ number' = number /\ number[p[1]] = p[2] /\ target' = target
          /\ \/ caller'[p] = "ended"
             \/ caller'[p] = "placing" /\ place'[p] = [at |-> "start", k |-> 1]
      BY <1>7, <2>1 DEF Download, Goes, Ends, Current, PlaceTypes, fsVars
    <3>2. CASE caller'[p] = "ended"
      BY <1>1, <1>a, <3>1, <3>2
    <3>3. CASE caller'[p] = "placing" /\ place'[p] = [at |-> "start", k |-> 1]
      <4>1. Placing(p)'
        BY <3>3 DEF Placing, PlaceAt
      <4> QED
        BY <1>a, <3>1, <3>3, <4>1 DEF FilesOf
    <3> QED
      BY <3>1, <3>2, <3>3
  <2>2. CASE q # p
    <3>1. /\ number' = number /\ target' = target /\ part' = part /\ transport' = transport
          /\ caller'[p] = caller[p] /\ place'[p] = place[p]
      BY <1>7, <2>2 DEF Download, Goes, Ends, PlaceTypes, fsVars
    <3> QED
      BY <3>1, FilesQuiet
  <2> QED
    BY <2>1, <2>2
<1>8. ASSUME NEW q \in Attempts, Placed(q) PROVE FilesOf(p)'
  <2>1. /\ number' = number /\ place' = place /\ target' = target /\ part' = part /\ transport' = transport
        /\ Current(q) /\ caller[q] = "placing"
        /\ \/ PlaceAt(q, "done") /\ Goes(q, "placed")
           \/ Ends(q, "ended")
    BY <1>8 DEF Placed, fsVars, PlaceAt
  <2> QED
    BY <2>1, <1>2, <1>3 DEF Callers
<1>9. ASSUME NEW q \in Attempts, PrepareFetch(q) \/ HearFetch(q) PROVE FilesOf(p)'
  <2>1. /\ number' = number /\ place' = place /\ target' = target /\ part' = part /\ transport' = transport
        /\ Current(q) /\ caller[q] \in {"placed", "fetching"}
        /\ \/ Goes(q, "running")
           \/ Goes(q, "fetching")
           \/ Ends(q, "ended")
    BY <1>9 DEF PrepareFetch, HearFetch, fsVars
  <2>2. CASE Ends(q, "ended")
    BY <2>1, <2>2, <1>2
  <2>3. ASSUME NEW to \in {"running", "fetching"}, Goes(q, to) PROVE FilesOf(p)'
    <3>1. to \in Callers
      BY DEF Callers
    <3> QED
      BY <2>1, <2>3, <3>1, <1>3
  <2> QED
    BY <2>1, <2>2, <2>3
<1>10. ASSUME NEW q \in Attempts, WorkerEnds(q) PROVE FilesOf(p)'
  BY <1>2, <1>10 DEF WorkerEnds, fsVars
<1>14. ASSUME UNCHANGED filesVars PROVE FilesOf(p)'
  BY <1>14, FilesQuiet DEF filesVars, jobRow, fsVars
<1>11. ASSUME NEW q \in Attempts, PlaceStep(q) PROVE FilesOf(p)'
  <2>1. CASE q = p
    BY <1>11, <2>1, OwnPlacement
  <2>2. CASE q # p
    <3>1. Undisturbed(p) \/ UNCHANGED filesVars
      OBVIOUS
    <3> QED
      BY <1>11, <1>14, <2>2, <3>1, OthersPlace
  <2> QED
    BY <2>1, <2>2
<1>12. ASSUME NEW q \in Attempts, TaskStep(q) \/ HelperEnds(q) PROVE FilesOf(p)'
  BY <1>12, FilesQuiet DEF TaskStep, BeginFetch, CancelFetch, FinishFetch, HelperEnds, jobRow, fsVars
<1>13. CASE DaemonDies
  <2>1. /\ number' = number /\ caller'[p] = (IF caller[p] = "none" THEN "none" ELSE "ended")
        /\ place[p].at = "none" => place'[p] = place[p]
    BY <1>13 DEF DaemonDies, PlaceTypes
  <2>2. CASE caller[p] = "none"
    BY <2>1, <2>2 DEF FilesOf, PlaceAt
  <2>3. CASE caller[p] # "none"
    BY <2>1, <2>3 DEF FilesOf
  <2> QED
    BY <2>2, <2>3
<1> QED
  BY <1>4, <1>5, <1>6, <1>7, <1>8, <1>9, <1>10, <1>11, <1>12, <1>13, <1>14 DEF FilesNext

\* HasItsFiles fails in one way only: while an attempt is placed or works, the
\* placement of another one, perhaps an earlier one of the same job that was dropped,
\* removes, rewrites or replaces a file of it.  Without such a step a worker has its
\* files, for any failures, folders closed by others, dropped placements and crashes
\* (ScopedJobIo::files, place_local, place_remote).
THEOREM UndisturbedHasItsFiles ==
  ASSUME NEW p \in Attempts
  PROVE  FilesSpec /\ [][Undisturbed(p)]_filesVars
           => [](caller[p] = "running" => \A f \in Wanted(p[1]) : target[f].state = "whole")
<1>1. FilesInit => PlaceTypes /\ FilesOf(p)
  <2>1. \A q \in Attempts : 1 \in DOMAIN Wants[q[1]]
    BY AttemptIs
  <2> QED
    BY <2>1, AttemptIs DEF FilesInit, PlaceTypes, FilesOf, PlaceAt, Callers, Places, Copies
<1>2. FilesOf(p) => (caller[p] = "running" => \A f \in Wanted(p[1]) : target[f].state = "whole")
  BY DEF FilesOf, Whole
<1> QED
  BY <1>1, <1>2, FilesStep, PTL DEF FilesSpec

\* A fetch.  Its intent precedes the helper and whatever the helper leaves,
\* a result that is good has its repository, and only a good one is run on.
FetchTypes ==
  /\ caller \in [Attempts -> Callers] /\ helper \in [Attempts -> {"none", "alive", "ending", "gone"}]
  /\ intent \in [Attempts -> {"none", "open", "closed"}] /\ result \in [Attempts -> {"none", "ok", "failed"}]
  /\ fetcher \in [Attempts -> {"none", "begin", "helping", "finish", "sent"}]
FetchAnnounced == \A p \in Attempts : helper[p] # "none" \/ Leaf(p) \in repos => intent[p] # "none"
FetchedRepository ==
  \A p \in Attempts : caller[p] = "running" /\ p[1] \in Fetching => Leaf(p) \in repos
FetchInv ==
  /\ FetchTypes /\ FetchAnnounced /\ FetchedRepository
  /\ \A p \in Attempts : /\ result[p] = "ok" => Leaf(p) \in repos
                         /\ fetcher[p] = "helping" => intent[p] # "none"

\* Every step keeps the order of a fetch.
LEMMA FetchStep == FetchInv /\ [FilesNext]_filesVars => FetchInv'
<1> SUFFICES ASSUME FetchInv, [FilesNext]_filesVars PROVE FetchInv'
  OBVIOUS
<1> USE DEF FetchInv, FetchTypes, FetchAnnounced, FetchedRepository, Leaf, fetchVars
<1>0. ASSUME NEW p \in Attempts, NEW c \in Callers,
             Goes(p, c), c = "running" => p[1] \notin Fetching \/ result[p] = "ok",
             UNCHANGED fetchVars
      PROVE  FetchInv'
  BY <1>0 DEF Goes
<1>1. ASSUME NEW j \in Jobs, ClaimJob(j) PROVE FetchInv'
  <2>1. UNCHANGED fetchVars /\ caller' = [caller EXCEPT ![<<j, number[j] + 1>>] = "files"]
    BY <1>1 DEF ClaimJob, Goes
  <2> QED
    BY <2>1 DEF Callers
<1>2. ASSUME NEW j \in Jobs, ControlJob(j) \/ RetryJob(j) PROVE FetchInv'
  BY <1>2 DEF ControlJob, RetryJob
<1>3. ASSUME NEW p \in Attempts, DropOperation(p) \/ Download(p) \/ Placed(p) \/ HearFetch(p) \/ WorkerEnds(p)
      PROVE  FetchInv'
  <2>1. UNCHANGED fetchVars
    BY <1>3 DEF DropOperation, Download, Placed, HearFetch, WorkerEnds
  <2>2. \E c \in Callers : Goes(p, c) /\ (c = "running" => result[p] = "ok")
    BY <1>3 DEF DropOperation, Download, Placed, HearFetch, WorkerEnds, Ends, Callers
  <2> QED
    BY <2>1, <2>2, <1>0
<1>4. ASSUME NEW p \in Attempts, PrepareFetch(p) PROVE FetchInv'
  <2>1. /\ UNCHANGED <<helper, result, intent, repos>>
        /\ fetcher' = fetcher \/ fetcher' = [fetcher EXCEPT ![p] = "begin"]
    BY <1>4 DEF PrepareFetch
  <2>2. \E c \in Callers : Goes(p, c) /\ (c = "running" => p[1] \notin Fetching)
    BY <1>4 DEF PrepareFetch, Ends, Callers
  <2>3. /\ fetcher' \in [Attempts -> {"none", "begin", "helping", "finish", "sent"}]
        /\ \A q \in Attempts : fetcher'[q] = "helping" => fetcher[q] = "helping"
    BY <2>1
  <2>4. /\ caller' \in [Attempts -> Callers]
        /\ \A q \in Attempts : caller'[q] = "running" => caller[q] = "running" \/ q[1] \notin Fetching
    BY <2>2 DEF Goes
  <2> QED
    BY <2>1, <2>3, <2>4
<1>5. ASSUME NEW p \in Attempts, PlaceStep(p) PROVE FetchInv'
  <2>1. caller' = caller /\ helper' = helper /\ result' = result /\ intent' = intent
        /\ repos' = repos /\ fetcher' = fetcher
    BY <1>5 DEF PlaceStep, OpenDataIn, OpenFolder, ClearTarget, CreateTarget, CopyData, MovePart,
                SealTarget, CloseFolders
  <2> QED
    BY <2>1
<1>6. ASSUME NEW p \in Attempts, TaskStep(p) PROVE FetchInv'
  <2>1. CASE BeginFetch(p)
    <3>1. CASE Active(p)
      BY <2>1, <3>1 DEF BeginFetch
    <3>2. CASE ~Active(p)
      BY <2>1, <3>2 DEF BeginFetch
    <3> QED
      BY <3>1, <3>2
  <2>2. CASE CancelFetch(p)
    BY <2>2 DEF CancelFetch
  <2>3. CASE FinishFetch(p)
    BY <2>3 DEF FinishFetch
  <2> QED
    BY <1>6, <2>1, <2>2, <2>3 DEF TaskStep
<1>7. ASSUME NEW p \in Attempts, HelperEnds(p) PROVE FetchInv'
  <2>1. /\ caller' = caller /\ intent' = intent /\ intent[p] # "none"
        /\ repos \subseteq repos' /\ repos' \subseteq repos \cup {p}
        /\ helper' = [helper EXCEPT ![p] = "gone"]
        /\ fetcher' = [fetcher EXCEPT ![p] = IF @ = "helping" THEN "finish" ELSE @]
    BY <1>7 DEF HelperEnds, Publish
  <2>2. /\ result' \in [Attempts -> {"none", "ok", "failed"}]
        /\ \A q \in Attempts : q # p => result'[q] = result[q]
        /\ result'[p] = "ok" => p \in repos' \/ result[p] = "ok"
    BY <1>7 DEF HelperEnds, Publish
  <2> QED
    BY <2>1, <2>2
<1>8. CASE DaemonDies
  BY <1>8 DEF DaemonDies, Callers
<1>9. CASE UNCHANGED filesVars
  BY <1>9 DEF filesVars
<1> QED
  BY <1>1, <1>2, <1>3, <1>4, <1>5, <1>6, <1>7, <1>8, <1>9 DEF FilesNext

\* The intent to fetch is recorded before anything the fetch does outside the
\* daemon, so that no repository is left that nothing knows of; and a worker
\* never runs on a repository that was not fetched (ScopedJobIo::fetch, run).
THEOREM FetchesInOrder == FilesSpec => [](FetchAnnounced /\ FetchedRepository)
<1>1. FilesInit => FetchInv
  BY DEF FilesInit, FetchInv, FetchTypes, FetchAnnounced, FetchedRepository, Callers
<1>2. FetchInv => FetchAnnounced /\ FetchedRepository
  BY DEF FetchInv
<1> QED
  BY <1>1, <1>2, FetchStep, PTL DEF FilesSpec

=============================================================================
