---------------------------- MODULE ResultsProofs ----------------------------
(***************************************************************************)
(* What a thread tells Slack about its workers, for any jobs, groups,      *)
(* messages, notes, controls and crashes: no result is stranded, a group   *)
(* is reported together and once, notes stand before reports and a debrief *)
(* closes the discussion.                                                  *)
(***************************************************************************)
EXTENDS Results, SequenceTheorems, TLAPS

USE DEF jobVars

-----------------------------------------------------------------------------
(* Types.                                                                  *)

Statuses == {"none"} \cup Active \cup Ended
ItemSet == [kind: {"message", "result", "progress", "debrief"}, ref: Nat, seq: Nat, of: Nat,
            version: Nat]
ThreadRows == [version: Nat, turns: Nat, status: {"new", "complete", "blocked", "working"},
               control: {"active", "paused", "closed"}, driver: {"parent", "external"},
               notes: Nat, debriefed: Nat]
Snapshots == [rows: SUBSET (Jobs \X Statuses), pending: BOOLEAN]
Turns == [step: {"loaded"}, item: ItemSet, thread: ThreadRows, snapshot: Snapshots]
PostSet == [kind: {"reply", "report", "upload", "progress", "debrief"}, key: ItemSet,
            jobs: SUBSET Jobs, turn: Nat]

Typed ==
    /\ job \in [Jobs -> Statuses] /\ attempt \in [Jobs -> Nat]
    /\ file \in [Jobs -> Nat] /\ offset \in [Jobs -> Nat] /\ notes \in [Jobs -> Nat]
    /\ reported \subseteq {j \in Jobs : job[j] \in Ended}
    /\ items \subseteq ItemSet
    /\ turn = NoTurn \/ turn \in Turns
    /\ thread \in ThreadRows
    /\ posts \in Seq(PostSet)

\* An item of the inbox.
LEMMA ItemTyped ==
    ASSUME NEW kind \in {"message", "result", "progress", "debrief"}, NEW ref \in Nat, NEW seq \in Nat,
           NEW of \in Nat, NEW version \in Nat
    PROVE  /\ Item(kind, ref, seq, of, version) \in ItemSet
           /\ Item(kind, ref, seq, of, version).kind = kind /\ Item(kind, ref, seq, of, version).ref = ref
           /\ Item(kind, ref, seq, of, version).seq = seq /\ Item(kind, ref, seq, of, version).of = of
  BY DEF Item, ItemSet

\* The item that wakes a thread for a result.
LEMMA WakeTyped ==
    ASSUME NEW j \in Jobs
    PROVE  Wake(j) \in ItemSet /\ Wake(j).kind = "result" /\ Wake(j).ref = j
<1>1. j \in Nat
  BY ResultConstants
<1> QED
  BY <1>1, ItemTyped DEF Wake

\* The steps that end a turn with nothing said.
QuietEnd == SettleInactive \/ SettleExternal \/ SettleObserved \/ StaleTurn \/ DebriefSuperseded \/ DebriefLater

\* What they do: the item of the turn goes back, or a result was given to the
\* driver, or its group is still at work or already reported.
LEMMA QuietShape ==
    ASSUME Typed, QuietEnd
    PROVE  /\ turn \in Turns /\ turn' = NoTurn /\ UNCHANGED <<jobVars, thread, posts, owner, crashes>>
           /\ items' = items \/ items' = items \cup {turn.item}
           /\ reported \subseteq reported' /\ reported' \subseteq reported \cup RowJobs(turn.snapshot.rows)
           /\ \/ items' = items \cup {turn.item} /\ reported' = reported
              \/ turn.item.kind # "result" /\ reported' = reported
              \/ turn.item.kind = "result" /\ reported' = reported \cup
                    {r[1] : r \in {x \in turn.snapshot.rows : x[2] \in Ended}}
              \/ /\ turn.item.kind = "result" /\ reported' = reported
                 /\ turn.snapshot.pending \/ turn.snapshot.rows = {}
<1> USE DEF Settle, Return, RowJobs
<1>t. turn # NoTurn => turn \in Turns
  BY DEF Typed
<1>1. CASE SettleInactive
  BY <1>1, <1>t DEF SettleInactive
<1>2. CASE SettleExternal
  BY <1>2, <1>t DEF SettleExternal, OnResult
<1>3. CASE SettleObserved
  BY <1>3, <1>t DEF SettleObserved, OnResult
<1>4. CASE StaleTurn
  BY <1>4, <1>t DEF StaleTurn
<1>5. CASE DebriefSuperseded \/ DebriefLater
  BY <1>5, <1>t DEF DebriefSuperseded, DebriefLater, OnDebrief
<1> QED
  BY <1>1, <1>2, <1>3, <1>4, <1>5 DEF QuietEnd

\* What is queued in the outbox is added at its end.
Added(first, rest) ==
    /\ posts' \in Seq(PostSet)
    /\ Len(posts') \in {Len(posts) + 1, Len(posts) + 2}
    /\ \A i \in 1 .. Len(posts) : posts'[i] = posts[i]
    /\ posts'[Len(posts) + 1] = first
    /\ \A i \in DOMAIN posts' : i > Len(posts) + 1 => posts'[i] = rest

\* One post.
LEMMA AppendAdds ==
    ASSUME Typed, NEW p \in PostSet, posts' = Append(posts, p)
    PROVE  Added(p, p) /\ Len(posts') = Len(posts) + 1
  BY DEF Typed, Added

\* One or two elements.
LEMMA OneOrTwo ==
    ASSUME NEW S, NEW a \in S, NEW b \in S
    PROVE  /\ <<a>> \o <<>> \in Seq(S) /\ Len(<<a>> \o <<>>) = 1 /\ (<<a>> \o <<>>)[1] = a
           /\ <<a>> \o <<b>> \in Seq(S) /\ Len(<<a>> \o <<b>>) = 2
           /\ (<<a>> \o <<b>>)[1] = a /\ (<<a>> \o <<b>>)[2] = b
<1>1. /\ <<a>> \in Seq(S) /\ Len(<<a>>) = 1 /\ <<a>>[1] = a
      /\ <<b>> \in Seq(S) /\ Len(<<b>>) = 1 /\ <<b>>[1] = b
  OBVIOUS
<1>2. <<a>> \o <<>> = <<a>>
  BY <1>1, ConcatEmptySeq
<1>3. /\ <<a>> \o <<b>> \in Seq(S) /\ Len(<<a>> \o <<b>>) = 1 + 1
      /\ \A i \in 1 .. 1 + 1 : (<<a>> \o <<b>>)[i] = IF i =< 1 THEN <<a>>[i] ELSE <<b>>[i - 1]
  <2>1. PICK x \in Seq(S) : x = <<a>> /\ Len(x) = 1
    BY <1>1
  <2>2. PICK y \in Seq(S) : y = <<b>> /\ Len(y) = 1
    BY <1>1
  <2>3. /\ x \o y \in Seq(S) /\ Len(x \o y) = Len(x) + Len(y)
        /\ \A i \in 1 .. Len(x) + Len(y) : (x \o y)[i] = IF i =< Len(x) THEN x[i] ELSE y[i - Len(x)]
    BY ConcatProperties
  <2> QED
    BY <2>1, <2>2, <2>3, Zenon
<1>4. (<<a>> \o <<b>>)[1] = a /\ (<<a>> \o <<b>>)[2] = b
  <2> DEFINE c == <<a>> \o <<b>>
  <2>1. \A i \in 1 .. 2 : c[i] = IF i =< 1 THEN <<a>>[i] ELSE <<b>>[i - 1]
    BY <1>3
  <2> HIDE DEF c
  <2>2. c[1] = <<a>>[1] /\ c[2] = <<b>>[1]
    BY <2>1
  <2> QED
    BY <2>2, <1>1 DEF c
<1> QED
  BY <1>1, <1>2, <1>3, <1>4

\* A sequence behind another.
LEMMA Joined ==
    ASSUME NEW S, NEW s \in Seq(S), NEW t \in Seq(S)
    PROVE  /\ s \o t \in Seq(S) /\ Len(s \o t) = Len(s) + Len(t)
           /\ \A i \in 1 .. Len(s) : (s \o t)[i] = s[i]
           /\ \A i \in 1 .. Len(t) : (s \o t)[Len(s) + i] = t[i]
  BY ConcatProperties, LenProperties

\* The posts of a turn: the reply, perhaps with files behind it.
LEMMA RepliesAdd ==
    ASSUME Typed, turn \in Turns, NEW kind \in {"reply", "report"},
           NEW rows \in SUBSET (Jobs \X Statuses), posts' = posts \o Replies(kind, rows)
    PROVE  \E first, rest \in PostSet :
             /\ Added(first, rest) /\ first.kind = kind /\ rest.kind = "upload"
             /\ first.key = turn.item /\ rest.key = turn.item /\ first.jobs = RowJobs(rows)
             /\ first.turn = thread.turns + 1 /\ rest.turn = thread.turns + 1
<1> DEFINE first == NewPost(kind, turn.item, RowJobs(rows), thread.turns + 1)
           rest == NewPost("upload", turn.item, RowJobs(rows) \cap Files, thread.turns + 1)
<1>1. RowJobs(rows) \subseteq Jobs /\ thread.turns + 1 \in Nat /\ turn.item \in ItemSet
  BY DEF RowJobs, Typed, ThreadRows, Turns
<1>2. /\ first \in PostSet /\ first.kind = kind /\ first.key = turn.item /\ first.jobs = RowJobs(rows)
      /\ first.turn = thread.turns + 1
  BY <1>1 DEF NewPost, PostSet
<1>3. rest \in PostSet /\ rest.kind = "upload" /\ rest.key = turn.item /\ rest.turn = thread.turns + 1
  BY <1>1 DEF NewPost, PostSet
<1>4. posts' = posts \o (<<first>> \o <<>>) \/ posts' = posts \o (<<first>> \o <<rest>>)
  BY DEF Replies
<1> HIDE DEF first, rest
<1>5. PICK t \in Seq(PostSet) : posts' = posts \o t /\ Len(t) \in {1, 2} /\ t[1] = first
                                 /\ (Len(t) = 2 => t[2] = rest)
  <2> DEFINE one == <<first>> \o <<>>
             two == <<first>> \o <<rest>>
  <2>1. /\ one \in Seq(PostSet) /\ Len(one) = 1 /\ one[1] = first
        /\ two \in Seq(PostSet) /\ Len(two) = 2 /\ two[1] = first /\ two[2] = rest
    BY <1>2, <1>3, OneOrTwo
  <2>2. posts' = posts \o one \/ posts' = posts \o two
    BY <1>4
  <2> HIDE DEF one, two
  <2> QED
    BY <2>1, <2>2
<1>6. /\ posts \in Seq(PostSet) /\ Len(posts) \in Nat
      /\ posts' \in Seq(PostSet) /\ Len(posts') = Len(posts) + Len(t)
      /\ \A i \in 1 .. Len(posts) : posts'[i] = posts[i]
      /\ \A i \in 1 .. Len(t) : posts'[Len(posts) + i] = t[i]
      /\ DOMAIN posts' = 1 .. Len(posts')
  <2>1. posts \in Seq(PostSet) /\ Len(posts) \in Nat
    BY DEF Typed
  <2>2. /\ posts \o t \in Seq(PostSet) /\ Len(posts \o t) = Len(posts) + Len(t)
        /\ \A i \in 1 .. Len(posts) : (posts \o t)[i] = posts[i]
        /\ \A i \in 1 .. Len(t) : (posts \o t)[Len(posts) + i] = t[i]
    BY <2>1, Joined
  <2>3. DOMAIN posts' = 1 .. Len(posts')
    BY <1>5, <2>2, LenProperties
  <2> QED
    BY <1>5, <2>1, <2>2, <2>3
<1>7. posts'[Len(posts) + 1] = first
  BY <1>5, <1>6
<1>8. ASSUME NEW i \in DOMAIN posts', i > Len(posts) + 1
      PROVE  posts'[i] = rest
  <2>1. i = Len(posts) + 2 /\ Len(t) = 2
    BY <1>5, <1>6, <1>8
  <2>2. posts'[Len(posts) + 2] = t[2]
    BY <1>6, <2>1
  <2> QED
    BY <1>5, <2>1, <2>2
<1>9. Added(first, rest)
  BY <1>5, <1>6, <1>7, <1>8 DEF Added
<1> QED
  BY <1>2, <1>3, <1>9

-----------------------------------------------------------------------------
(* The shapes of the steps.                                                *)

\* A job's status as a function.
LEMMA JobSet ==
    ASSUME Typed, NEW j \in Jobs, NEW status \in Statuses, job' = [job EXCEPT ![j] = status]
    PROVE  /\ job' \in [Jobs -> Statuses] /\ job'[j] = status
           /\ \A i \in Jobs : i # j => job'[i] = job[i]
  BY DEF Typed

\* What one of the workers does to its job: a start, a line written, a note
\* recorded, an end or another try.
LEMMA WorkerShape ==
    ASSUME Typed, NEW j \in Jobs, Start(j) \/ WriteLine(j) \/ PollProgress(j) \/ Complete(j)
    PROVE  /\ UNCHANGED <<reported, turn, thread, posts>>
           /\ job' \in [Jobs -> Statuses] /\ attempt' \in [Jobs -> Nat]
           /\ file' \in [Jobs -> Nat] /\ offset' \in [Jobs -> Nat] /\ notes' \in [Jobs -> Nat]
           /\ \A i \in Jobs : i # j => job'[i] = job[i]
           /\ job[j] \in Active
           /\ \/ job'[j] \in Active /\ items' = items /\ notes' = notes
              \/ job'[j] \in Ended /\ items' = items \cup {Wake(j)} /\ notes' = notes
              \/ /\ job' = job /\ items' = items \cup {Item("progress", j, notes[j] + 1, attempt[j], 0)}
                 /\ notes' = [notes EXCEPT ![j] = @ + 1]
<1> USE DEF Active, Ended, Statuses
<1>1. CASE Start(j)
  BY <1>1 DEF Start, Typed
<1>2. CASE WriteLine(j)
  <2>1. PICK n \in 0 .. MaxLines : file' = [file EXCEPT ![j] = n]
    BY <1>2 DEF WriteLine
  <2>2. n \in Nat
    BY ResultConstants
  <2> QED
    BY <1>2, <2>1, <2>2 DEF WriteLine, Typed
<1>3. CASE PollProgress(j)
  <2>1. offset' = [offset EXCEPT ![j] = file[j]]
    BY <1>3 DEF PollProgress, Take
  <2>2. \/ items' = items /\ notes' = notes
        \/ /\ items' = items \cup {Item("progress", j, notes[j] + 1, attempt[j], 0)}
           /\ notes' = [notes EXCEPT ![j] = @ + 1]
    BY <1>3 DEF PollProgress
  <2> QED
    BY <1>3, <2>1, <2>2 DEF PollProgress, Typed
<1>4. CASE Complete(j)
  <2>1. PICK status \in {"queued", "done", "failed"} :
           /\ job' = [job EXCEPT ![j] = status]
           /\ \/ status = "queued" /\ items' = items
              \/ status # "queued" /\ items' = items \cup {Wake(j)}
    BY <1>4 DEF Complete
  <2>2. status \in Statuses
    OBVIOUS
  <2>3. job' \in [Jobs -> Statuses] /\ job'[j] = status /\ \A i \in Jobs : i # j => job'[i] = job[i]
    BY <2>1, <2>2, JobSet
  <2> QED
    BY <1>4, <2>1, <2>3 DEF Complete, Typed
<1> QED
  BY <1>1, <1>2, <1>3, <1>4

\* The row after a turn.
LEMMA RowTyped ==
    ASSUME Typed, NEW status \in {"new", "complete", "blocked", "working"}, NEW finished \in BOOLEAN,
           CloseTurn(status, finished)
    PROVE  /\ thread' \in ThreadRows /\ thread'.turns = thread.turns + 1
           /\ thread'.debriefed = thread.debriefed
           /\ items \subseteq items'
           /\ \A x \in items' : \/ x \in items
                                \/ /\ finished /\ x \in ItemSet /\ x.kind = "debrief"
                                   /\ x.of = thread.turns + 1
<1>1. thread \in ThreadRows /\ thread.turns + 1 \in Nat /\ thread.version \in Nat
  BY DEF Typed, ThreadRows
<1>2. PICK st \in {"new", "complete", "blocked", "working"} :
         thread' = [thread EXCEPT !.turns = thread.turns + 1, !.status = st]
  BY DEF CloseTurn
<1>3. /\ thread' \in ThreadRows /\ thread'.turns = thread.turns + 1
      /\ thread'.debriefed = thread.debriefed
  BY <1>1, <1>2 DEF ThreadRows
<1> DEFINE d == Item("debrief", 0, 0, thread.turns + 1, thread.version)
<1>4. items' = items \cup IF finished /\ status = "complete" THEN {d} ELSE {}
  BY DEF CloseTurn
<1>5. d \in ItemSet /\ d.kind = "debrief" /\ d.of = thread.turns + 1
  <2> DEFINE n == thread.turns + 1
             v == thread.version
  <2>1. n \in Nat /\ v \in Nat
    BY <1>1
  <2> HIDE DEF n, v
  <2>2. Item("debrief", 0, 0, n, v) \in ItemSet /\ Item("debrief", 0, 0, n, v).kind = "debrief"
        /\ Item("debrief", 0, 0, n, v).of = n
    BY <2>1, ItemTyped
  <2> QED
    BY <2>2 DEF n, v
<1> HIDE DEF d
<1> QED
  BY <1>3, <1>4, <1>5

\* A report: the rows of its snapshot are reported, and what it posts and
\* whether it asks for a debrief.
LEMMA ReportShape ==
    ASSUME Typed, CommitReport
    PROVE  /\ turn \in Turns /\ turn.item.kind = "result" /\ turn' = NoTurn
           /\ ~turn.snapshot.pending /\ Load(turn.item.ref).rows = turn.snapshot.rows
           /\ reported' = reported \cup RowJobs(turn.snapshot.rows)
           /\ UNCHANGED jobVars
           /\ thread' \in ThreadRows /\ thread'.turns = thread.turns + 1
           /\ thread'.debriefed = thread.debriefed
           /\ items \subseteq items'
           /\ \/ posts' = posts \o Replies("report", turn.snapshot.rows)
              \/ posts' = posts /\ items' = items
           /\ \A x \in items' : \/ x \in items
                                \/ /\ x \in ItemSet /\ x.kind = "debrief" /\ x.of = thread.turns + 1
                                   /\ posts' = posts \o Replies("report", turn.snapshot.rows)
<1>1. turn \in Turns /\ turn.thread.status \in {"new", "complete", "blocked", "working"}
  BY DEF CommitReport, OnResult, Typed, Turns, ThreadRows
<1>2. \/ /\ posts' = posts \o Replies("report", turn.snapshot.rows)
         /\ \E status \in {"complete", "blocked"}, finished \in BOOLEAN : CloseTurn(status, finished)
      \/ posts' = posts /\ CloseTurn(turn.thread.status, FALSE)
  BY DEF CommitReport
<1>3. CloseTurn(turn.thread.status, FALSE) => items' = items
  BY DEF CloseTurn
<1> QED
  BY <1>1, <1>2, <1>3, RowTyped DEF CommitReport, OnResult, FreshTurn

\* An answer: it may queue jobs that did not exist, whole groups of them.
LEMMA AnswerShape ==
    ASSUME Typed, CommitAnswer
    PROVE  /\ turn \in Turns /\ turn.item.kind = "message" /\ turn' = NoTurn
           /\ \E groups : /\ \A j \in Jobs : Group[j] \in groups => job[j] = "none"
                          /\ job' = [j \in Jobs |-> IF Group[j] \in groups THEN "queued" ELSE job[j]]
           /\ UNCHANGED <<attempt, file, offset, notes, reported>>
           /\ thread' \in ThreadRows /\ thread'.turns = thread.turns + 1
           /\ thread'.debriefed = thread.debriefed
           /\ items \subseteq items'
           /\ posts' = posts \o Replies("reply", {})
           /\ \A x \in items' : \/ x \in items
                                \/ x \in ItemSet /\ x.kind = "debrief" /\ x.of = thread.turns + 1
<1>1. turn \in Turns
  BY DEF CommitAnswer, Typed
<1>2. PICK status \in {"complete", "blocked"}, finished \in BOOLEAN, groups \in {{}} \cup {{g} : g \in OnMessage} :
         /\ \A j \in Jobs : Group[j] \in groups => job[j] = "none"
         /\ Queue({j \in Jobs : Group[j] \in groups})
         /\ CloseTurn(status, finished)
  BY DEF CommitAnswer
<1>3. job' = [j \in Jobs |-> IF Group[j] \in groups THEN "queued" ELSE job[j]]
  BY <1>2 DEF Queue
<1>4. \E gs : /\ \A j \in Jobs : Group[j] \in gs => job[j] = "none"
              /\ job' = [j \in Jobs |-> IF Group[j] \in gs THEN "queued" ELSE job[j]]
  BY <1>2, <1>3
<1>5. /\ thread' \in ThreadRows /\ thread'.turns = thread.turns + 1
      /\ thread'.debriefed = thread.debriefed
      /\ items \subseteq items'
      /\ \A x \in items' : \/ x \in items
                           \/ x \in ItemSet /\ x.kind = "debrief" /\ x.of = thread.turns + 1
  BY <1>2, RowTyped
<1> QED
  BY <1>1, <1>4, <1>5 DEF CommitAnswer

\* A note handled: posted while its job runs, or dropped.
LEMMA ProgressShape ==
    ASSUME Typed, HandleProgress
    PROVE  /\ turn \in Turns /\ turn.item.kind = "progress" /\ turn' = NoTurn
           /\ UNCHANGED <<jobVars, reported, items, thread>>
           /\ \/ posts' = posts
              \/ /\ posts' = Append(posts, NewPost("progress", turn.item, {turn.item.ref}, 0))
                 /\ job[turn.item.ref] = "running"
  BY DEF HandleProgress, News, Typed

\* A debrief ended: posted for the thread's last turn, or given up.
LEMMA DebriefShape ==
    ASSUME Typed, DebriefEnds
    PROVE  /\ turn \in Turns /\ turn.item.kind = "debrief" /\ turn' = NoTurn
           /\ UNCHANGED <<jobVars, reported, items>>
           /\ \/ posts' = posts /\ thread' = thread
              \/ /\ posts' = Append(posts, NewPost("debrief", turn.item, {}, turn.item.of))
                 /\ turn.item.of = thread.turns /\ turn.item.of > thread.debriefed
                 /\ thread' \in ThreadRows /\ thread'.turns = thread.turns
                 /\ thread'.debriefed = turn.item.of
<1>1. turn \in Turns /\ thread \in ThreadRows
  BY DEF DebriefEnds, OnDebrief, Typed
<1>2. turn.item.of \in Nat
  BY <1>1 DEF Turns, ItemSet
<1>3. [thread EXCEPT !.debriefed = turn.item.of] \in ThreadRows
      /\ [thread EXCEPT !.debriefed = turn.item.of].turns = thread.turns
      /\ [thread EXCEPT !.debriefed = turn.item.of].debriefed = turn.item.of
  BY <1>1, <1>2 DEF ThreadRows
<1> QED
  BY <1>1, <1>3 DEF DebriefEnds, OnDebrief, Due

\* The owner touches the thread's row only.
LEMMA OwnerShape ==
    ASSUME Typed, NEW change \in {"active", "paused", "closed", "driver", "notes"}, Owner(change)
    PROVE  /\ UNCHANGED <<jobVars, reported, items, turn, posts>>
           /\ thread' \in ThreadRows /\ thread'.turns = thread.turns
           /\ thread'.debriefed = thread.debriefed
<1>1. thread \in ThreadRows /\ thread.version + 1 \in Nat /\ thread.notes + 1 \in Nat
  BY DEF Typed, ThreadRows
<1>2. \/ change \in {"active", "paused", "closed"}
         /\ thread' = [thread EXCEPT !.control = change, !.version = thread.version + 1]
      \/ \E d \in {"parent", "external"} :
            thread' = [thread EXCEPT !.version = thread.version + 1, !.driver = d]
      \/ thread' = [thread EXCEPT !.notes = thread.notes + 1]
  BY DEF Owner
<1>3. thread' \in ThreadRows /\ thread'.turns = thread.turns /\ thread'.debriefed = thread.debriefed
  BY <1>1, <1>2 DEF ThreadRows
<1> QED
  BY <1>3 DEF Owner

\* The load of a turn.
LEMMA LoadShape ==
    ASSUME Typed, NEW item \in items, LoadTurn(item)
    PROVE  /\ turn = NoTurn /\ turn' \in Turns /\ turn'.item = item /\ items' = items \ {item}
           /\ item.kind = "result" => turn'.snapshot = Load(item.ref)
           /\ UNCHANGED <<jobVars, reported, thread, posts>>
<1>1. item \in ItemSet /\ thread \in ThreadRows /\ job \in [Jobs -> Statuses]
  BY DEF Typed
<1>2. [rows |-> {}, pending |-> FALSE] \in Snapshots
  BY DEF Snapshots
<1>3. Load(item.ref) \in Snapshots
  BY <1>1 DEF Load, Snapshots, Mates
<1>4. PICK shot \in Snapshots :
         /\ turn' = [step |-> "loaded", item |-> item, thread |-> thread, snapshot |-> shot]
         /\ item.kind = "result" => shot = Load(item.ref)
  BY <1>2, <1>3 DEF LoadTurn
<1>5. turn' \in Turns /\ turn'.item = item /\ turn'.snapshot = shot
  BY <1>1, <1>4 DEF Turns
<1> QED
  BY <1>4, <1>5 DEF LoadTurn

\* A delegated job is the only one of its group.
LEMMA DelegateShape ==
    ASSUME Typed, NEW j \in Jobs, Delegate(j)
    PROVE  /\ j \in ByDriver /\ job[j] = "none" /\ job' \in [Jobs -> Statuses] /\ job'[j] = "queued"
           /\ \A i \in Jobs : i # j => job'[i] = job[i]
           /\ UNCHANGED <<attempt, file, offset, notes, reported, items, turn, thread, posts>>
  BY DEF Delegate, Queue, Typed, Statuses, Active

\* A crash: running jobs are interrupted and the claimed item is pending again.
LEMMA CrashShape ==
    ASSUME Typed, Crash
    PROVE  /\ turn' = NoTurn /\ job' \in [Jobs -> Statuses]
           /\ \A j \in Jobs : \/ job[j] # "running" /\ job'[j] = job[j]
                              \/ job[j] = "running" /\ job'[j] = "interrupted" /\ Wake(j) \in items'
           /\ items \subseteq items' /\ (turn # NoTurn => turn.item \in items')
           /\ \A x \in items' : \/ x \in items \/ (turn # NoTurn /\ x = turn.item)
                                \/ \E j \in Jobs : x = Wake(j) /\ job'[j] = "interrupted"
           /\ UNCHANGED <<attempt, file, offset, notes, reported, thread, posts>>
<1>1. job' = [j \in Jobs |-> IF job[j] = "running" THEN "interrupted" ELSE job[j]]
  BY DEF Crash
<1>2. job' \in [Jobs -> Statuses]
  BY <1>1 DEF Typed, Statuses, Ended
<1>3. items' = items \cup {Wake(j) : j \in {i \in Jobs : job[i] = "running"}}
                     \cup (IF turn = NoTurn THEN {} ELSE {turn.item})
  BY DEF Crash
<1>4. \A j \in Jobs : \/ job[j] # "running" /\ job'[j] = job[j]
                      \/ job[j] = "running" /\ job'[j] = "interrupted"
  BY <1>1
<1>5. \A j \in Jobs : job[j] = "running" => Wake(j) \in items'
  BY <1>3
<1>6. ASSUME NEW x \in items'
      PROVE  \/ x \in items \/ (turn # NoTurn /\ x = turn.item)
             \/ \E j \in Jobs : x = Wake(j) /\ job'[j] = "interrupted"
  BY <1>3, <1>4
<1>7. items \subseteq items' /\ (turn # NoTurn => turn.item \in items')
  BY <1>3
<1> QED
  BY <1>2, <1>4, <1>5, <1>6, <1>7 DEF Crash

-----------------------------------------------------------------------------
(* The types, whole groups and the wakes of ended jobs.                    *)

Whole == \A i, j \in Jobs : Group[i] = Group[j] => (job[i] = "none" <=> job[j] = "none")

\* A pending item for a result is the wake of a job that ended, one for a note
\* is of a job.
WakeOK(x) ==
    /\ x.kind = "result" => x.ref \in Jobs /\ x = Wake(x.ref) /\ job[x.ref] \in Ended
    /\ x.kind = "progress" => x.ref \in Jobs
Awake ==
    /\ \A x \in items : WakeOK(x)
    /\ turn # NoTurn => WakeOK(turn.item)

\* The rows that the turn of a result read: jobs of its group, all finished
\* unless the group was still at work.
RowOK(r) ==
    /\ r[1] \in Mates(turn.item.ref)
    /\ r[2] \in Ended => job[r[1]] \in Ended
    /\ ~turn.snapshot.pending => r[2] \in Ended
Shown == turn # NoTurn /\ turn.item.kind = "result" => \A r \in turn.snapshot.rows : RowOK(r)

Base == Typed /\ Whole /\ Awake /\ Shown

\* An ended job stays ended, and what was reported stays reported.
Steady ==
    /\ \A j \in Jobs : job[j] \in Ended => job'[j] \in Ended
    /\ \A j \in Jobs : job[j] # "none" => job'[j] # "none"
    /\ reported \subseteq reported'

\* A thread with messages only, and no jobs, satisfies the base invariant.
LEMMA BaseInit == Init => Base
<1> SUFFICES ASSUME Init PROVE Base
  OBVIOUS
<1>1. PICK come \in SUBSET Messages : items = {Item("message", m, 0, 0, 0) : m \in come}
  BY DEF Init
<1>2. ASSUME NEW m \in come
      PROVE  Item("message", m, 0, 0, 0) \in ItemSet /\ Item("message", m, 0, 0, 0).kind = "message"
  <2>1. m \in Nat
    BY ResultConstants
  <2> QED
    BY <2>1, ItemTyped
<1>3. thread \in ThreadRows
  BY DEF Init, ThreadRows
<1>4. Typed
  <2>1. job \in [Jobs -> Statuses] /\ attempt \in [Jobs -> Nat] /\ file \in [Jobs -> Nat]
        /\ offset \in [Jobs -> Nat] /\ notes \in [Jobs -> Nat]
    BY DEF Init, Statuses
  <2>2. items \subseteq ItemSet
    BY <1>1, <1>2
  <2>3. reported = {} /\ turn = NoTurn /\ posts \in Seq(PostSet)
    BY DEF Init
  <2> QED
    BY <1>3, <2>1, <2>2, <2>3 DEF Typed
<1>5. Whole
  BY DEF Init, Whole
<1>6. Awake
  BY <1>1, <1>2 DEF Init, Awake, WakeOK
<1>7. Shown
  BY DEF Init, Shown
<1> QED
  BY <1>4, <1>5, <1>6, <1>7 DEF Base

\* The jobs of a snapshot that finished.
LEMMA RowsTyped ==
    ASSUME Typed, turn \in Turns
    PROVE  RowJobs(turn.snapshot.rows) \subseteq Jobs /\ turn.snapshot.rows \in SUBSET (Jobs \X Statuses)
           /\ turn.item \in ItemSet /\ turn # NoTurn
  BY DEF RowJobs, Turns, Snapshots, NoTurn

\* The kinds of steps.
LEMMA Cases ==
    ASSUME Next
    PROVE  \/ \E j \in Jobs : Start(j) \/ WriteLine(j) \/ PollProgress(j) \/ Complete(j)
           \/ \E j \in Jobs : Delegate(j)
           \/ \E change \in {"active", "paused", "closed", "driver", "notes"} : Owner(change)
           \/ \E item \in items : LoadTurn(item)
           \/ QuietEnd \/ CommitReport \/ CommitAnswer \/ HandleProgress \/ DebriefEnds \/ Crash
  BY DEF Next, EndTurn, QuietEnd

\* An item stays a wake of an ended job, the wake of a job that ends is one,
\* and items of other kinds are none.
LEMMA WakesKept ==
    ASSUME Steady
    PROVE  /\ \A x : WakeOK(x) => WakeOK(x)'
           /\ \A x : x.kind \notin {"result", "progress"} => WakeOK(x)'
           /\ \A x : x.kind = "progress" /\ x.ref \in Jobs => WakeOK(x)'
           /\ \A j \in Jobs : job'[j] \in Ended => WakeOK(Wake(j))'
<1>1. \A x : WakeOK(x) => WakeOK(x)'
  BY DEF WakeOK, Steady
<1>2. /\ \A x : x.kind \notin {"result", "progress"} => WakeOK(x)'
      /\ \A x : x.kind = "progress" /\ x.ref \in Jobs => WakeOK(x)'
  BY DEF WakeOK
<1>3. ASSUME NEW j \in Jobs, job'[j] \in Ended
      PROVE  WakeOK(Wake(j))'
  <2>1. Wake(j).ref = j /\ Wake(j).kind = "result"
    BY WakeTyped
  <2>2. PICK x : x = Wake(j)
    OBVIOUS
  <2>3. WakeOK(x)'
    BY <1>3, <2>1, <2>2 DEF WakeOK
  <2> QED
    BY <2>2, <2>3
<1> QED
  BY <1>1, <1>2, <1>3

\* The rows a turn read stay right while it is under way.
LEMMA ShownKept ==
    ASSUME Typed, Shown, Steady, turn' = turn \/ turn' = NoTurn, job' \in [Jobs -> Statuses]
    PROVE  Shown'
<1>1. CASE turn' = NoTurn
  BY <1>1 DEF Shown, NoTurn
<1>2. CASE turn' = turn
  <2>1. ASSUME NEW ref PROVE Mates(ref) \subseteq Mates(ref)'
    BY DEF Mates, Steady
  <2>2. ASSUME NEW r, RowOK(r), r[1] \in Jobs PROVE RowOK(r)'
    <3>1. PICK ref : ref = turn.item.ref
      OBVIOUS
    <3>2. r[1] \in Mates(ref)'
      BY <2>1, <2>2, <3>1 DEF RowOK
    <3>3. r[1] \in Mates(turn.item.ref)'
      BY <1>2, <3>1, <3>2
    <3> QED
      BY <1>2, <2>2, <3>3 DEF RowOK, Steady
  <2>3. ASSUME turn # NoTurn, turn.item.kind = "result", NEW r \in turn.snapshot.rows
        PROVE  RowOK(r)'
    <3>1. RowOK(r)
      BY <2>3 DEF Shown
    <3>2. r[1] \in Jobs
      BY <3>1 DEF RowOK, Mates
    <3> QED
      BY <2>2, <3>1, <3>2
  <2> QED
    BY <1>2, <2>3 DEF Shown
<1> QED
  BY <1>1, <1>2

\* Every action keeps the base invariant, and none takes a job or a mark of
\* mark_reported back.
LEMMA BaseStep ==
    ASSUME Base, Next
    PROVE  Base' /\ Steady
<1> USE DEF Base
<1>1. CASE \E j \in Jobs : Start(j) \/ WriteLine(j) \/ PollProgress(j) \/ Complete(j)
  <2>1. PICK j \in Jobs : Start(j) \/ WriteLine(j) \/ PollProgress(j) \/ Complete(j)
    BY <1>1
  <2> DEFINE note == Item("progress", j, notes[j] + 1, attempt[j], 0)
  <2>2. /\ UNCHANGED <<reported, turn, thread, posts>>
        /\ job' \in [Jobs -> Statuses] /\ attempt' \in [Jobs -> Nat]
        /\ file' \in [Jobs -> Nat] /\ offset' \in [Jobs -> Nat] /\ notes' \in [Jobs -> Nat]
        /\ \A i \in Jobs : i # j => job'[i] = job[i]
        /\ job[j] \in Active
        /\ \/ job'[j] \in Active /\ items' = items
           \/ job'[j] \in Ended /\ items' = items \cup {Wake(j)}
           \/ job' = job /\ items' = items \cup {note}
    BY <2>1, WorkerShape
  <2>3. note \in ItemSet /\ note.kind = "progress" /\ note.ref = j
    <3> DEFINE n == notes[j] + 1
               a == attempt[j]
    <3>1. n \in Nat /\ a \in Nat /\ j \in Nat
      BY ResultConstants DEF Typed
    <3> HIDE DEF n, a
    <3>2. /\ Item("progress", j, n, a, 0) \in ItemSet /\ Item("progress", j, n, a, 0).kind = "progress"
          /\ Item("progress", j, n, a, 0).ref = j
      BY <3>1, ItemTyped
    <3> QED
      BY <3>2 DEF n, a
  <2>4. Wake(j) \in ItemSet /\ Wake(j).kind = "result" /\ Wake(j).ref = j
    BY WakeTyped
  <2> HIDE DEF note
  <2>5. Steady
    BY <2>2 DEF Steady, Active, Ended
  <2>6. items' \subseteq ItemSet
    BY <2>2, <2>3, <2>4 DEF Typed
  <2>7. reported' \subseteq {i \in Jobs : job'[i] \in Ended}
    BY <2>2, <2>5 DEF Typed, Steady
  <2>8. Typed'
    BY <2>2, <2>6, <2>7 DEF Typed
  <2>9. job[j] # "none" /\ job'[j] # "none"
    BY <2>2 DEF Active, Ended
  <2>10. Whole'
    BY <2>2, <2>9 DEF Whole
  <2>11. Awake'
    BY <2>2, <2>3, <2>5, WakesKept DEF Awake
  <2>12. Shown'
    BY <2>2, <2>5, ShownKept
  <2> QED
    BY <2>5, <2>8, <2>10, <2>11, <2>12
<1>2. CASE \E j \in Jobs : Delegate(j)
  <2>1. PICK j \in Jobs : Delegate(j)
    BY <1>2
  <2>2. /\ j \in ByDriver /\ job[j] = "none" /\ job' \in [Jobs -> Statuses] /\ job'[j] = "queued"
        /\ \A i \in Jobs : i # j => job'[i] = job[i]
        /\ UNCHANGED <<attempt, file, offset, notes, reported, items, turn, thread, posts>>
    BY <2>1, DelegateShape
  <2>3. Steady
    BY <2>2 DEF Steady, Ended
  <2>4. reported' \subseteq {i \in Jobs : job'[i] \in Ended}
    BY <2>2, <2>3 DEF Typed, Steady
  <2>5. Typed'
    BY <2>2, <2>4 DEF Typed
  <2>6. \A i \in Jobs : Group[i] = Group[j] => i = j
    BY <2>2, ResultConstants
  <2>7. Whole'
    BY <2>2, <2>6 DEF Whole
  <2>8. Awake'
    BY <2>2, <2>3, WakesKept DEF Awake
  <2>9. Shown'
    BY <2>2, <2>3, ShownKept
  <2> QED
    BY <2>3, <2>5, <2>7, <2>8, <2>9
<1>3. CASE \E change \in {"active", "paused", "closed", "driver", "notes"} : Owner(change)
  <2>1. /\ UNCHANGED <<jobVars, reported, items, turn, posts>>
        /\ thread' \in ThreadRows
    BY <1>3, OwnerShape
  <2>2. Typed' /\ Whole' /\ Awake' /\ Steady
    BY <2>1 DEF Typed, Whole, Awake, WakeOK, Steady
  <2>3. Shown'
    BY <2>1, <2>2, ShownKept DEF Typed
  <2> QED
    BY <2>2, <2>3
<1>4. CASE \E item \in items : LoadTurn(item)
  <2>1. PICK item \in items : LoadTurn(item)
    BY <1>4
  <2>2. /\ turn = NoTurn /\ turn' \in Turns /\ turn'.item = item /\ items' = items \ {item}
        /\ item.kind = "result" => turn'.snapshot = Load(item.ref)
        /\ UNCHANGED <<jobVars, reported, thread, posts>>
    BY <2>1, LoadShape
  <2>3. Typed' /\ Whole' /\ Awake' /\ Steady
    BY <2>2 DEF Typed, Whole, Awake, WakeOK, Steady
  <2>4. ASSUME item.kind = "result", NEW r \in turn'.snapshot.rows
        PROVE  RowOK(r)'
    <3>1. turn'.snapshot = Load(item.ref)
      BY <2>2, <2>4
    <3>2. PICK i \in Mates(item.ref) : r = <<i, job[i]>>
      BY <3>1, <2>4 DEF Load
    <3>3. i \in Jobs /\ job[i] \in Statuses /\ job[i] # "none" /\ r[1] = i /\ r[2] = job[i]
      BY <3>2 DEF Mates, Typed
    <3>4. ~turn'.snapshot.pending => job[i] \notin Active
      BY <3>1, <3>2 DEF Load
    <3>5. Mates(turn.item.ref)' = Mates(item.ref)
      BY <2>2 DEF Mates
    <3> QED
      BY <2>2, <3>2, <3>3, <3>4, <3>5 DEF RowOK, Statuses
  <2>5. Shown'
    BY <2>2, <2>4 DEF Shown
  <2> QED
    BY <2>3, <2>5
<1>5. CASE QuietEnd
  <2>1. /\ turn \in Turns /\ turn' = NoTurn /\ UNCHANGED <<jobVars, thread, posts, owner, crashes>>
        /\ items' = items \/ items' = items \cup {turn.item}
        /\ reported \subseteq reported'
        /\ \/ reported' = reported
           \/ turn.item.kind = "result" /\ reported' = reported \cup
                    {r[1] : r \in {x \in turn.snapshot.rows : x[2] \in Ended}}
    BY <1>5, QuietShape
  <2>2. turn.item \in ItemSet /\ turn # NoTurn
    BY <2>1, RowsTyped
  <2>3. Steady
    BY <2>1 DEF Steady
  <2>4. turn.item.kind = "result" =>
           {r[1] : r \in {x \in turn.snapshot.rows : x[2] \in Ended}} \subseteq {j \in Jobs : job[j] \in Ended}
    BY <2>2 DEF Shown, RowOK, Mates
  <2>5. reported' \subseteq {j \in Jobs : job[j] \in Ended}
    BY <2>1, <2>4 DEF Typed
  <2>6. Typed'
    BY <2>1, <2>2, <2>5 DEF Typed
  <2>7. Whole'
    BY <2>1 DEF Whole
  <2>8. Awake'
    BY <2>1, <2>2, <2>3, WakesKept DEF Awake
  <2>9. Shown'
    BY <2>1 DEF Shown
  <2> QED
    BY <2>3, <2>6, <2>7, <2>8, <2>9
<1>6. CASE CommitReport
  <2>1. /\ turn \in Turns /\ turn.item.kind = "result" /\ turn' = NoTurn
        /\ ~turn.snapshot.pending
        /\ reported' = reported \cup RowJobs(turn.snapshot.rows)
        /\ UNCHANGED jobVars
        /\ thread' \in ThreadRows
        /\ \/ posts' = posts \o Replies("report", turn.snapshot.rows)
           \/ posts' = posts
        /\ \A x \in items' : x \in items \/ (x \in ItemSet /\ x.kind = "debrief")
    BY <1>6, ReportShape
  <2>2. turn # NoTurn /\ turn.snapshot.rows \in SUBSET (Jobs \X Statuses)
    BY <2>1, RowsTyped
  <2>3. Steady
    BY <2>1 DEF Steady
  <2>4. RowJobs(turn.snapshot.rows) \subseteq {j \in Jobs : job[j] \in Ended}
    BY <2>1, <2>2 DEF Shown, RowOK, Mates, RowJobs
  <2>5. posts' \in Seq(PostSet)
    <3>1. CASE posts' = posts
      BY <3>1 DEF Typed
    <3>2. CASE posts' = posts \o Replies("report", turn.snapshot.rows)
      BY <3>2, <2>1, <2>2, RepliesAdd DEF Added
    <3> QED
      BY <2>1, <3>1, <3>2
  <2>6. items' \subseteq ItemSet
    BY <2>1 DEF Typed
  <2>7. Typed'
    BY <2>1, <2>4, <2>5, <2>6 DEF Typed
  <2>8. Whole'
    BY <2>1 DEF Whole
  <2>9. Awake'
    BY <2>1, <2>3, WakesKept DEF Awake
  <2>10. Shown'
    BY <2>1 DEF Shown
  <2> QED
    BY <2>3, <2>7, <2>8, <2>9, <2>10
<1>7. CASE CommitAnswer
  <2>1. /\ turn \in Turns /\ turn' = NoTurn
        /\ UNCHANGED <<attempt, file, offset, notes, reported>>
        /\ thread' \in ThreadRows
        /\ posts' = posts \o Replies("reply", {})
        /\ \A x \in items' : x \in items \/ (x \in ItemSet /\ x.kind = "debrief")
    BY <1>7, AnswerShape
  <2>2. PICK groups : /\ \A j \in Jobs : Group[j] \in groups => job[j] = "none"
                      /\ job' = [j \in Jobs |-> IF Group[j] \in groups THEN "queued" ELSE job[j]]
    BY <1>7, AnswerShape
  <2>3. job' \in [Jobs -> Statuses]
    BY <2>2 DEF Typed, Statuses, Active
  <2>4. Steady
    BY <2>1, <2>2 DEF Steady, Ended
  <2>5. reported' \subseteq {i \in Jobs : job'[i] \in Ended}
    BY <2>1, <2>4 DEF Typed, Steady
  <2>6. posts' \in Seq(PostSet)
    BY <2>1, RepliesAdd DEF Added
  <2>7. items' \subseteq ItemSet
    BY <2>1 DEF Typed
  <2>8. Typed'
    BY <2>1, <2>3, <2>5, <2>6, <2>7 DEF Typed
  <2>9. Whole'
    BY <2>2 DEF Whole
  <2>10. Awake'
    BY <2>1, <2>4, WakesKept DEF Awake
  <2>11. Shown'
    BY <2>1 DEF Shown
  <2> QED
    BY <2>4, <2>8, <2>9, <2>10, <2>11
<1>8. CASE HandleProgress
  <2>1. /\ turn \in Turns /\ turn.item.kind = "progress" /\ turn' = NoTurn
        /\ UNCHANGED <<jobVars, reported, items, thread>>
        /\ \/ posts' = posts
           \/ posts' = Append(posts, NewPost("progress", turn.item, {turn.item.ref}, 0))
              /\ job[turn.item.ref] = "running"
    BY <1>8, ProgressShape
  <2>2. turn.item \in ItemSet /\ turn # NoTurn
    BY <2>1, RowsTyped
  <2>3. turn.item.ref \in Jobs
    BY <2>1, <2>2 DEF Awake, WakeOK
  <2>4. NewPost("progress", turn.item, {turn.item.ref}, 0) \in PostSet
    BY <2>2, <2>3 DEF NewPost, PostSet
  <2>5. posts' \in Seq(PostSet)
    <3>1. PICK p \in PostSet : p = NewPost("progress", turn.item, {turn.item.ref}, 0)
      BY <2>4
    <3>2. posts \in Seq(PostSet) /\ Append(posts, p) \in Seq(PostSet)
      BY DEF Typed
    <3> QED
      BY <2>1, <3>1, <3>2
  <2>6. Typed' /\ Whole' /\ Steady
    BY <2>1, <2>5 DEF Typed, Whole, Steady
  <2>7. Awake' /\ Shown'
    BY <2>1, <2>6, WakesKept DEF Awake, Shown
  <2> QED
    BY <2>6, <2>7
<1>9. CASE DebriefEnds
  <2>1. /\ turn \in Turns /\ turn' = NoTurn /\ UNCHANGED <<jobVars, reported, items>>
        /\ thread' \in ThreadRows
        /\ \/ posts' = posts
           \/ posts' = Append(posts, NewPost("debrief", turn.item, {}, turn.item.of))
    BY <1>9, DebriefShape DEF Typed
  <2>2. turn.item \in ItemSet
    BY <2>1, RowsTyped
  <2>3. NewPost("debrief", turn.item, {}, turn.item.of) \in PostSet
    BY <2>2 DEF NewPost, PostSet, ItemSet
  <2>4. posts' \in Seq(PostSet)
    <3>1. PICK p \in PostSet : p = NewPost("debrief", turn.item, {}, turn.item.of)
      BY <2>3
    <3>2. posts \in Seq(PostSet) /\ Append(posts, p) \in Seq(PostSet)
      BY DEF Typed
    <3> QED
      BY <2>1, <3>1, <3>2
  <2>5. Typed' /\ Whole' /\ Steady
    BY <2>1, <2>4 DEF Typed, Whole, Steady
  <2>6. Awake' /\ Shown'
    BY <2>1, <2>5, WakesKept DEF Awake, Shown
  <2> QED
    BY <2>5, <2>6
<1>10. CASE Crash
  <2>1. /\ turn' = NoTurn /\ job' \in [Jobs -> Statuses]
        /\ \A j \in Jobs : \/ job[j] # "running" /\ job'[j] = job[j]
                           \/ job[j] = "running" /\ job'[j] = "interrupted"
        /\ \A x \in items' : \/ x \in items \/ (turn # NoTurn /\ x = turn.item)
                             \/ \E j \in Jobs : x = Wake(j) /\ job'[j] = "interrupted"
        /\ UNCHANGED <<attempt, file, offset, notes, reported, thread, posts>>
    BY <1>10, CrashShape
  <2>2. Steady
    BY <2>1 DEF Steady, Ended
  <2>3. reported' \subseteq {i \in Jobs : job'[i] \in Ended}
    BY <2>1, <2>2 DEF Typed, Steady
  <2>4. items' \subseteq ItemSet
    BY <2>1, WakeTyped, RowsTyped DEF Typed
  <2>5. Typed'
    BY <2>1, <2>3, <2>4 DEF Typed
  <2>6. Whole'
    BY <2>1 DEF Whole
  <2>7. ASSUME NEW x \in items'
        PROVE  WakeOK(x)'
    BY <2>1, <2>2, WakesKept DEF Awake, Ended
  <2>8. Awake'
    BY <2>1, <2>7 DEF Awake
  <2>9. Shown'
    BY <2>1 DEF Shown
  <2> QED
    BY <2>2, <2>5, <2>6, <2>8, <2>9
<1> QED
  BY <1>1, <1>2, <1>3, <1>4, <1>5, <1>6, <1>7, <1>8, <1>9, <1>10, Cases

\* Types, whole groups, wakes and snapshots are right in every state.
THEOREM BaseAlways == Spec => []Base
<1>1. Base /\ [Next]_vars => Base'
  <2> SUFFICES ASSUME Base, [Next]_vars PROVE Base'
    OBVIOUS
  <2>1. CASE Next
    BY <2>1, BaseStep
  <2>2. CASE UNCHANGED vars
    BY <2>2 DEF vars, Base, Typed, Whole, Awake, WakeOK, Shown, RowOK, Mates
  <2> QED
    BY <2>1, <2>2
<1> QED
  BY <1>1, BaseInit, PTL DEF Spec

-----------------------------------------------------------------------------
(* No result is stranded.                                                  *)

\* A job that ended is in the snapshot of the turn, or its own wake is pending;
\* a group that was at work still is, or has a wake.
InSnapshot(i) == \E r \in turn.snapshot.rows : r[1] = i /\ r[2] \in Ended
AtWork(ref) == \E i \in Mates(ref) : job[i] \in Active \/ Wake(i) \in items
Followed(ref) ==
    /\ \A i \in Mates(ref) \ reported : job[i] \in Ended => InSnapshot(i) \/ Wake(i) \in items
    /\ turn.snapshot.pending => AtWork(ref)
Loaded == turn # NoTurn /\ turn.item.kind = "result" => Followed(turn.item.ref)

Stranding == NoResultStranded /\ Loaded

\* The group of a job is the group of its mates.
LEMMA SameMates ==
    ASSUME NEW i \in Jobs, NEW j \in Jobs, i \in Mates(j)
    PROVE  Mates(i) = Mates(j)
  BY DEF Mates

\* A turn under way stays followed when jobs start, end, are tried again or
\* are delegated, and when nothing leaves the inbox.
LEMMA LoadedKept ==
    ASSUME Base, Base', Loaded, Steady, turn' = turn, reported' = reported, items \subseteq items',
           \A i \in Jobs : \/ job'[i] = job[i]
                           \/ job[i] \in Active /\ job'[i] \in Active
                           \/ job[i] \in Active /\ Wake(i) \in items'
                           \/ i \in ByDriver /\ job[i] = "none" /\ job'[i] \notin Ended
    PROVE  Loaded'
<1> SUFFICES ASSUME turn # NoTurn, turn.item.kind = "result"
             PROVE  Followed(turn.item.ref)'
  BY DEF Loaded
<1>1. PICK ref : ref = turn.item.ref
  OBVIOUS
<1>2. ref \in Jobs /\ job[ref] \in Ended /\ Followed(ref)
  BY <1>1 DEF Base, Awake, WakeOK, Loaded
<1>3. ASSUME NEW i \in Jobs, Group[i] = Group[ref], i \in ByDriver
      PROVE  job[i] \in Ended
  BY <1>2, <1>3, ResultConstants
<1>4. \A i \in Jobs : Group[i] = Group[ref] =>
         \/ job'[i] = job[i] \/ (job[i] \in Active /\ job'[i] \in Active)
         \/ (job[i] \in Active /\ Wake(i) \in items')
  BY <1>3 DEF Ended
<1>5. \A i \in Mates(ref)' : i \in Mates(ref)
  BY <1>4 DEF Mates, Active
<1>6. \A i \in Mates(ref) : i \in Mates(ref)'
  BY DEF Mates, Steady
<1>7. ASSUME NEW i \in Mates(ref)', i \notin reported', job'[i] \in Ended
      PROVE  InSnapshot(i)' \/ Wake(i) \in items'
  <2>1. i \in Mates(ref) /\ i \in Jobs /\ Group[i] = Group[ref] /\ i \notin reported
    BY <1>5, <1>7 DEF Mates
  <2>2. CASE job'[i] = job[i]
    <3>1. InSnapshot(i) \/ Wake(i) \in items
      BY <1>2, <1>7, <2>1, <2>2 DEF Followed
    <3> QED
      BY <3>1 DEF InSnapshot
  <2>3. job'[i] # job[i] => Wake(i) \in items'
    BY <1>4, <1>7, <2>1 DEF Active, Ended
  <2> QED
    BY <2>2, <2>3
<1>8. ASSUME turn.snapshot.pending
      PROVE  AtWork(ref)'
  <2>1. PICK i \in Mates(ref) : job[i] \in Active \/ Wake(i) \in items
    BY <1>2, <1>8 DEF Followed, AtWork
  <2>2. i \in Jobs /\ Group[i] = Group[ref] /\ i \in Mates(ref)'
    BY <1>6, <2>1 DEF Mates
  <2>3. job'[i] \in Active \/ Wake(i) \in items'
    BY <1>4, <2>1, <2>2
  <2> QED
    BY <2>2, <2>3 DEF AtWork
<1>9. Followed(ref)'
  BY <1>7, <1>8 DEF Followed
<1> QED
  BY <1>1, <1>9

\* What keeps a result from being stranded.
Held(j) ==
    \E i \in Mates(j) : \/ job[i] \in Active
                        \/ Wake(i) \in items
                        \/ turn # NoTurn /\ turn.item = Wake(i)

\* The same for the results that wait: nothing leaves the inbox, and what the
\* turn held it holds still or it is back.
LEMMA StrandKept ==
    ASSUME Base, NoResultStranded, Steady, reported' = reported, items \subseteq items',
           \/ turn' = turn
           \/ turn # NoTurn /\ turn.item \in items'
           \/ turn # NoTurn /\ turn.item.kind # "result",
           \A i \in Jobs : \/ job'[i] = job[i]
                           \/ job[i] \in Active /\ job'[i] \in Active
                           \/ job[i] \in Active /\ Wake(i) \in items'
                           \/ job[i] = "none" /\ job'[i] \notin Ended
    PROVE  NoResultStranded'
<1> SUFFICES ASSUME NEW j \in Jobs, job'[j] \in Ended, j \notin reported'
             PROVE  Held(j)'
  BY DEF NoResultStranded, Held
<1>1. \A i \in Mates(j) : i \in Mates(j)'
  BY DEF Mates, Steady
<1>2. CASE job[j] \in Ended
  <2>1. PICK i \in Mates(j) : job[i] \in Active \/ Wake(i) \in items \/ (turn # NoTurn /\ turn.item = Wake(i))
    BY <1>2 DEF NoResultStranded
  <2>2. i \in Jobs /\ i \in Mates(j)'
    BY <1>1, <2>1 DEF Mates
  <2>3. CASE job[i] \in Active
    <3>1. job'[i] \in Active \/ Wake(i) \in items'
      BY <2>2, <2>3 DEF Active
    <3> QED
      BY <2>2, <3>1 DEF Held
  <2>4. CASE Wake(i) \in items
    BY <2>2, <2>4 DEF Held
  <2>5. CASE turn # NoTurn /\ turn.item = Wake(i)
    <3>1. turn.item.kind = "result"
      BY <2>2, <2>5, WakeTyped
    <3> QED
      BY <2>2, <2>5, <3>1 DEF Held
  <2> QED
    BY <2>1, <2>3, <2>4, <2>5
<1>3. CASE job[j] \notin Ended
  <2>1. Wake(j) \in items'
    BY <1>3 DEF Active, Ended
  <2>2. j \in Mates(j)'
    BY DEF Mates, Ended
  <2> QED
    BY <2>1, <2>2 DEF Held
<1> QED
  BY <1>2, <1>3

\* A turn of a result that ends without giving its item back reported what its
\* snapshot holds, or its group works on.
LEMMA StrandReported ==
    ASSUME Base, Stranding, Steady, job' = job, items \subseteq items', turn # NoTurn, turn' = NoTurn,
           turn.item.kind = "result",
           \/ \A r \in turn.snapshot.rows : r[2] \in Ended => r[1] \in reported'
           \/ turn.snapshot.pending
    PROVE  NoResultStranded'
<1> SUFFICES ASSUME NEW j \in Jobs, job'[j] \in Ended, j \notin reported'
             PROVE  Held(j)'
  BY DEF NoResultStranded, Held
<1>1. \A i \in Jobs : Mates(i)' = Mates(i)
  BY DEF Mates
<1>2. j \notin reported /\ job[j] \in Ended /\ j \in Mates(j)
  BY DEF Steady, Mates, Ended
<1>3. PICK i \in Mates(j) : job[i] \in Active \/ Wake(i) \in items \/ turn.item = Wake(i)
  BY <1>2 DEF Stranding, NoResultStranded
<1>4. i \in Jobs /\ i \in Mates(j)'
  BY <1>1, <1>3 DEF Mates
<1>5. CASE job[i] \in Active \/ Wake(i) \in items
  BY <1>4, <1>5 DEF Held
<1>6. CASE turn.item = Wake(i)
  <2>1. turn.item.ref = i
    BY <1>4, <1>6, WakeTyped
  <2>2. Mates(i) = Mates(j)
    BY <1>3, <1>4, SameMates
  <2>3. Followed(i)
    BY <2>1 DEF Stranding, Loaded
  <2>4. CASE turn.snapshot.pending
    <3>1. PICK k \in Mates(i) : job[k] \in Active \/ Wake(k) \in items
      BY <2>3, <2>4 DEF Followed, AtWork
    <3> QED
      BY <1>1, <2>2, <3>1 DEF Held
  <2>5. CASE \A r \in turn.snapshot.rows : r[2] \in Ended => r[1] \in reported'
    <3>1. ~InSnapshot(j)
      BY <2>5 DEF InSnapshot
    <3>2. Wake(j) \in items
      BY <1>2, <2>2, <2>3, <3>1 DEF Followed
    <3> QED
      BY <1>1, <1>2, <3>2 DEF Held
  <2> QED
    BY <2>4, <2>5
<1> QED
  BY <1>3, <1>5, <1>6

\* A completion racing the turn that reads its group, and every other action,
\* leaves a wake, a snapshot row or a turn for each result not yet reported.
LEMMA StrandStep ==
    ASSUME Base, Base', Stranding, Steady, Next
    PROVE  Stranding'
<1> USE DEF Stranding
<1>1. CASE \E j \in Jobs : Start(j) \/ WriteLine(j) \/ PollProgress(j) \/ Complete(j)
  <2>1. PICK j \in Jobs : Start(j) \/ WriteLine(j) \/ PollProgress(j) \/ Complete(j)
    BY <1>1
  <2>2. /\ UNCHANGED <<reported, turn>>
        /\ \A i \in Jobs : i # j => job'[i] = job[i]
        /\ job[j] \in Active /\ items \subseteq items'
        /\ job'[j] \in Active \/ (job'[j] \in Ended /\ Wake(j) \in items') \/ job' = job
    BY <2>1, WorkerShape DEF Base
  <2>3. \A i \in Jobs : \/ job'[i] = job[i]
                        \/ job[i] \in Active /\ job'[i] \in Active
                        \/ job[i] \in Active /\ Wake(i) \in items'
    BY <2>2
  <2> QED
    BY <2>2, <2>3, LoadedKept, StrandKept
<1>2. CASE \E j \in Jobs : Delegate(j)
  <2>1. PICK j \in Jobs : Delegate(j)
    BY <1>2
  <2>2. /\ j \in ByDriver /\ job[j] = "none" /\ job'[j] = "queued"
        /\ \A i \in Jobs : i # j => job'[i] = job[i]
        /\ UNCHANGED <<reported, items, turn>>
    BY <2>1, DelegateShape DEF Base
  <2>3. \A i \in Jobs : \/ job'[i] = job[i]
                        \/ i \in ByDriver /\ job[i] = "none" /\ job'[i] \notin Ended
    BY <2>2 DEF Ended
  <2> QED
    BY <2>2, <2>3, LoadedKept, StrandKept
<1>3. CASE \E change \in {"active", "paused", "closed", "driver", "notes"} : Owner(change)
  <2>1. UNCHANGED <<jobVars, reported, items, turn>>
    BY <1>3, OwnerShape DEF Base
  <2> QED
    BY <2>1, LoadedKept, StrandKept
<1>4. CASE \E item \in items : LoadTurn(item)
  <2>1. PICK item \in items : LoadTurn(item)
    BY <1>4
  <2>2. /\ turn = NoTurn /\ turn' \in Turns /\ turn'.item = item /\ items' = items \ {item}
        /\ item.kind = "result" => turn'.snapshot = Load(item.ref)
        /\ UNCHANGED <<jobVars, reported>> /\ turn' # NoTurn
    BY <2>1, LoadShape DEF Base, NoTurn, Turns
  <2>3. \A j \in Jobs : Mates(j)' = Mates(j)
    BY <2>2 DEF Mates
  <2>4. NoResultStranded'
    BY <2>2, <2>3 DEF NoResultStranded
  <2>5. ASSUME item.kind = "result" PROVE Followed(item.ref)'
    <3>1. PICK ref \in Jobs : ref = item.ref
      BY <2>5 DEF Base, Awake, WakeOK
    <3>2. /\ turn'.snapshot.rows = {<<i, job[i]>> : i \in Mates(ref) \ reported}
          /\ turn'.snapshot.pending => \E i \in Mates(ref) : job[i] \in Active
      BY <2>2, <2>5, <3>1 DEF Load
    <3>3. ASSUME NEW i \in Mates(ref), i \notin reported, job[i] \in Ended
          PROVE  InSnapshot(i)'
      <4>1. <<i, job[i]>> \in turn'.snapshot.rows
        BY <3>2, <3>3
      <4>2. PICK r \in turn'.snapshot.rows : r = <<i, job[i]>>
        BY <4>1
      <4> QED
        BY <3>3, <4>2 DEF InSnapshot
    <3>4. turn'.snapshot.pending => AtWork(ref)'
      BY <2>2, <2>3, <3>2 DEF AtWork
    <3>5. Followed(ref)'
      BY <2>2, <2>3, <3>3, <3>4 DEF Followed
    <3> QED
      BY <3>1, <3>5
  <2>6. Loaded'
    BY <2>2, <2>5 DEF Loaded
  <2> QED
    BY <2>4, <2>6
<1>5. CASE QuietEnd
  <2>1. /\ turn \in Turns /\ turn' = NoTurn /\ UNCHANGED <<jobVars, thread, posts, owner, crashes>>
        /\ items \subseteq items'
        /\ \/ turn.item \in items' /\ reported' = reported
           \/ turn.item.kind # "result" /\ reported' = reported
           \/ turn.item.kind = "result" /\ reported' = reported \cup
                 {r[1] : r \in {x \in turn.snapshot.rows : x[2] \in Ended}}
           \/ turn.item.kind = "result" /\ turn.snapshot.pending
           \/ turn.item.kind = "result" /\ turn.snapshot.rows = {}
    BY <1>5, QuietShape DEF Base
  <2>2. turn # NoTurn
    BY <2>1, RowsTyped DEF Base
  <2>3. Loaded'
    BY <2>1 DEF Loaded
  <2>4. CASE turn.item \in items' /\ reported' = reported
    BY <2>1, <2>2, <2>3, <2>4, StrandKept
  <2>5. CASE turn.item.kind # "result" /\ reported' = reported
    BY <2>1, <2>2, <2>3, <2>5, StrandKept
  <2>6. CASE turn.item.kind = "result" /\ turn.snapshot.pending
    BY <2>1, <2>2, <2>3, <2>6, StrandReported
  <2>7. CASE turn.item.kind = "result" /\ turn.snapshot.rows = {}
    BY <2>1, <2>2, <2>3, <2>7, StrandReported
  <2>8. CASE turn.item.kind = "result" /\ reported' = reported \cup
                 {r[1] : r \in {x \in turn.snapshot.rows : x[2] \in Ended}}
    <3>1. \A r \in turn.snapshot.rows : r[2] \in Ended => r[1] \in reported'
      BY <2>8
    <3> QED
      BY <2>1, <2>2, <2>3, <2>8, <3>1, StrandReported
  <2> QED
    BY <2>1, <2>4, <2>5, <2>6, <2>7, <2>8
<1>6. CASE CommitReport
  <2>1. /\ turn \in Turns /\ turn.item.kind = "result" /\ turn' = NoTurn
        /\ reported' = reported \cup RowJobs(turn.snapshot.rows)
        /\ UNCHANGED jobVars /\ items \subseteq items'
    BY <1>6, ReportShape DEF Base
  <2>2. turn # NoTurn
    BY <2>1, RowsTyped DEF Base
  <2>3. \A r \in turn.snapshot.rows : r[2] \in Ended => r[1] \in reported'
    BY <2>1 DEF RowJobs
  <2>4. Loaded'
    BY <2>1 DEF Loaded
  <2> QED
    BY <2>1, <2>2, <2>3, <2>4, StrandReported
<1>7. CASE CommitAnswer
  <2>1. /\ turn \in Turns /\ turn.item.kind = "message" /\ turn' = NoTurn
        /\ reported' = reported /\ items \subseteq items'
    BY <1>7, AnswerShape DEF Base
  <2>2. PICK groups : /\ \A j \in Jobs : Group[j] \in groups => job[j] = "none"
                      /\ job' = [j \in Jobs |-> IF Group[j] \in groups THEN "queued" ELSE job[j]]
    BY <1>7, AnswerShape DEF Base
  <2>3. turn # NoTurn
    BY <2>1, RowsTyped DEF Base
  <2>4. \A i \in Jobs : \/ job'[i] = job[i]
                        \/ job[i] = "none" /\ job'[i] \notin Ended
    BY <2>2 DEF Ended
  <2>5. Loaded'
    BY <2>1 DEF Loaded
  <2> QED
    BY <2>1, <2>3, <2>4, <2>5, StrandKept
<1>8. CASE HandleProgress \/ DebriefEnds
  <2>1. /\ turn \in Turns /\ turn.item.kind # "result" /\ turn' = NoTurn
        /\ UNCHANGED <<jobVars, reported, items>>
    BY <1>8, ProgressShape, DebriefShape DEF Base
  <2>2. turn # NoTurn
    BY <2>1, RowsTyped DEF Base
  <2>3. Loaded'
    BY <2>1 DEF Loaded
  <2> QED
    BY <2>1, <2>2, <2>3, StrandKept
<1>9. CASE Crash
  <2>1. /\ turn' = NoTurn
        /\ \A j \in Jobs : \/ job[j] # "running" /\ job'[j] = job[j]
                           \/ job[j] = "running" /\ Wake(j) \in items'
        /\ items \subseteq items' /\ (turn # NoTurn => turn.item \in items')
        /\ reported' = reported
    BY <1>9, CrashShape DEF Base
  <2>2. \A i \in Jobs : \/ job'[i] = job[i]
                        \/ job[i] \in Active /\ Wake(i) \in items'
    BY <2>1 DEF Active
  <2>3. turn' = turn \/ (turn # NoTurn /\ turn.item \in items')
    BY <2>1
  <2>4. Loaded'
    BY <2>1 DEF Loaded
  <2> QED
    BY <2>1, <2>2, <2>3, <2>4, StrandKept
<1> QED
  BY <1>1, <1>2, <1>3, <1>4, <1>5, <1>6, <1>7, <1>8, <1>9, Cases

\* No finished job is forgotten: until its result is reported its group works,
\* has a wake in the inbox, or is being read, whatever the order of the
\* completions, loads, settlements, controls and crashes (results::load, the
\* settlements of the actor).
THEOREM NeverStranded == Spec => []NoResultStranded
<1>1. Init => Stranding
  BY DEF Init, Stranding, NoResultStranded, Loaded, Ended
<1>2. Base /\ Base' /\ Stranding /\ [Next]_vars => Stranding'
  <2> SUFFICES ASSUME Base, Base', Stranding, [Next]_vars PROVE Stranding'
    OBVIOUS
  <2>1. CASE Next
    BY <2>1, BaseStep, StrandStep
  <2>2. CASE UNCHANGED vars
    BY <2>2 DEF vars, Stranding, NoResultStranded, Loaded, Followed, InSnapshot, AtWork, Mates
  <2> QED
    BY <2>1, <2>2
<1>3. Stranding => NoResultStranded
  BY DEF Stranding
<1> QED
  BY <1>1, <1>2, <1>3, BaseAlways, PTL DEF Spec

-----------------------------------------------------------------------------
(* Reported together.                                                      *)

\* The posts after an addition: the old ones, the first new one, the rest.
LEMMA OldOrNew ==
    ASSUME Typed, NEW first, NEW rest, Added(first, rest)
    PROVE  /\ DOMAIN posts = 1 .. Len(posts) /\ Len(posts) \in Nat
           /\ DOMAIN posts' = 1 .. Len(posts') /\ Len(posts') \in Nat /\ Len(posts) < Len(posts')
           /\ posts'[Len(posts) + 1] = first /\ Len(posts) + 1 \in DOMAIN posts'
           /\ \A i \in DOMAIN posts : i \in DOMAIN posts' /\ posts'[i] = posts[i]
           /\ \A i \in DOMAIN posts' :
                 \/ i \in DOMAIN posts /\ posts'[i] = posts[i]
                 \/ i = Len(posts) + 1 /\ posts'[i] = first
                 \/ i > Len(posts) + 1 /\ posts'[i] = rest
<1>1. posts \in Seq(PostSet) /\ posts' \in Seq(PostSet)
  BY DEF Typed, Added
<1>2. /\ DOMAIN posts = 1 .. Len(posts) /\ Len(posts) \in Nat
      /\ DOMAIN posts' = 1 .. Len(posts') /\ Len(posts') \in Nat
  BY <1>1, LenProperties
<1>3. PICK n \in Nat : n = Len(posts)
  BY <1>2
<1>4. PICK m \in Nat : m = Len(posts')
  BY <1>2
<1>5. PICK old : old = DOMAIN posts /\ old = 1 .. n
  BY <1>2, <1>3
<1>6. PICK new : new = DOMAIN posts' /\ new = 1 .. m
  BY <1>2, <1>4
<1>7. m = n + 1 \/ m = n + 2
  BY <1>3, <1>4 DEF Added
<1>8. /\ n < m /\ n + 1 \in new /\ (\A i \in old : i \in new)
      /\ \A i \in new : i \in old \/ i = n + 1 \/ i > n + 1
  BY <1>5, <1>6, <1>7
<1>9. /\ \A i \in old : posts'[i] = posts[i]
      /\ posts'[n + 1] = first
      /\ \A i \in new : i > n + 1 => posts'[i] = rest
  BY <1>3, <1>5, <1>6 DEF Added
<1> QED
  BY <1>2, <1>3, <1>4, <1>5, <1>6, <1>8, <1>9

\* One post more.
LEMMA AtTheEnd ==
    ASSUME Typed, NEW p, Added(p, p), Len(posts') = Len(posts) + 1
    PROVE  /\ \A i \in DOMAIN posts' : \/ i \in DOMAIN posts /\ posts'[i] = posts[i]
                                       \/ i = Len(posts) + 1 /\ posts'[i] = p
           /\ DOMAIN posts' = 1 .. Len(posts) + 1
<1>1. /\ DOMAIN posts' = 1 .. Len(posts') /\ Len(posts) \in Nat
      /\ \A i \in DOMAIN posts' :
                 \/ i \in DOMAIN posts /\ posts'[i] = posts[i]
                 \/ i = Len(posts) + 1 /\ posts'[i] = p
                 \/ i > Len(posts) + 1 /\ posts'[i] = p
  BY OldOrNew
<1>2. PICK n \in Nat : n = Len(posts) /\ DOMAIN posts' = 1 .. n + 1
  BY <1>1
<1>3. \A i \in 1 .. n + 1 : ~(i > n + 1)
  OBVIOUS
<1> QED
  BY <1>1, <1>2, <1>3

\* What a step queues in the outbox.
Queued ==
    \/ posts' = posts
    \/ /\ CommitReport
       /\ \E first, rest \in PostSet :
             /\ Added(first, rest) /\ first.kind = "report" /\ rest.kind = "upload"
             /\ first.key = turn.item /\ rest.key = turn.item
             /\ first.jobs = RowJobs(turn.snapshot.rows)
             /\ first.turn = thread.turns + 1 /\ rest.turn = thread.turns + 1
    \/ /\ CommitAnswer
       /\ \E first, rest \in PostSet :
             /\ Added(first, rest) /\ first.kind = "reply" /\ rest.kind = "upload"
             /\ first.key = turn.item /\ rest.key = turn.item
             /\ first.turn = thread.turns + 1 /\ rest.turn = thread.turns + 1
    \/ /\ HandleProgress /\ job[turn.item.ref] = "running" /\ turn.item.ref \in Jobs
       /\ \E p \in PostSet : /\ Added(p, p) /\ Len(posts') = Len(posts) + 1 /\ p.kind = "progress" /\ p.key = turn.item
                             /\ p.jobs = {turn.item.ref} /\ p.turn = 0
    \/ /\ DebriefEnds /\ turn.item.of = thread.turns /\ turn.item.of > thread.debriefed
       /\ thread'.turns = thread.turns /\ thread'.debriefed = turn.item.of
       /\ \E p \in PostSet : /\ Added(p, p) /\ Len(posts') = Len(posts) + 1 /\ p.kind = "debrief" /\ p.key = turn.item
                             /\ p.turn = turn.item.of

\* The posts an action queues: none, or those of the turn's commit at the end
\* of the outbox.
LEMMA QueuedStep ==
    ASSUME Base, Next
    PROVE  Queued
<1> USE DEF Base
<1>1. CASE \E j \in Jobs : Start(j) \/ WriteLine(j) \/ PollProgress(j) \/ Complete(j)
  BY <1>1, WorkerShape DEF Queued
<1>2. CASE \E j \in Jobs : Delegate(j)
  BY <1>2, DelegateShape DEF Queued
<1>3. CASE \E change \in {"active", "paused", "closed", "driver", "notes"} : Owner(change)
  BY <1>3, OwnerShape DEF Queued
<1>4. CASE \E item \in items : LoadTurn(item)
  BY <1>4, LoadShape DEF Queued
<1>5. CASE QuietEnd
  BY <1>5, QuietShape DEF Queued
<1>6. CASE CommitReport
  <2>1. turn \in Turns /\ (posts' = posts \/ posts' = posts \o Replies("report", turn.snapshot.rows))
    BY <1>6, ReportShape
  <2>2. turn.snapshot.rows \in SUBSET (Jobs \X Statuses)
    BY <2>1, RowsTyped
  <2>3. CASE posts' = posts \o Replies("report", turn.snapshot.rows)
    BY <1>6, <2>1, <2>2, <2>3, RepliesAdd DEF Queued
  <2> QED
    BY <2>1, <2>3 DEF Queued
<1>7. CASE CommitAnswer
  <2>1. turn \in Turns /\ posts' = posts \o Replies("reply", {})
    BY <1>7, AnswerShape
  <2> QED
    BY <1>7, <2>1, RepliesAdd DEF Queued
<1>8. CASE HandleProgress
  <2>1. /\ turn \in Turns /\ turn.item.kind = "progress"
        /\ \/ posts' = posts
           \/ /\ posts' = Append(posts, NewPost("progress", turn.item, {turn.item.ref}, 0))
              /\ job[turn.item.ref] = "running"
    BY <1>8, ProgressShape
  <2>2. turn.item \in ItemSet /\ turn # NoTurn
    BY <2>1, RowsTyped
  <2>3. turn.item.ref \in Jobs
    BY <2>1, <2>2 DEF Awake, WakeOK
  <2>4. PICK p : p = NewPost("progress", turn.item, {turn.item.ref}, 0)
    OBVIOUS
  <2>5. /\ p \in PostSet /\ p.kind = "progress" /\ p.key = turn.item
        /\ p.jobs = {turn.item.ref} /\ p.turn = 0
    BY <2>2, <2>3, <2>4 DEF NewPost, PostSet
  <2>6. posts' = Append(posts, p) => Added(p, p) /\ Len(posts') = Len(posts) + 1
    BY <2>5, AppendAdds
  <2> QED
    BY <1>8, <2>1, <2>3, <2>4, <2>5, <2>6 DEF Queued
<1>9. CASE DebriefEnds
  <2>1. /\ turn \in Turns
        /\ \/ posts' = posts
           \/ /\ posts' = Append(posts, NewPost("debrief", turn.item, {}, turn.item.of))
              /\ turn.item.of = thread.turns /\ turn.item.of > thread.debriefed
              /\ thread'.turns = thread.turns /\ thread'.debriefed = turn.item.of
    BY <1>9, DebriefShape
  <2>2. turn.item \in ItemSet
    BY <2>1, RowsTyped
  <2>3. PICK p : p = NewPost("debrief", turn.item, {}, turn.item.of)
    OBVIOUS
  <2>4. p \in PostSet /\ p.kind = "debrief" /\ p.key = turn.item /\ p.turn = turn.item.of
    BY <2>2, <2>3 DEF NewPost, PostSet, ItemSet
  <2>5. posts' = Append(posts, p) => Added(p, p) /\ Len(posts') = Len(posts) + 1
    BY <2>4, AppendAdds
  <2> QED
    BY <1>9, <2>1, <2>3, <2>4, <2>5 DEF Queued
<1>10. CASE Crash
  BY <1>10, CrashShape DEF Queued
<1> QED
  BY <1>1, <1>2, <1>3, <1>4, <1>5, <1>6, <1>7, <1>8, <1>9, <1>10, Cases

\* Without a new report the old ones stay together.
LEMMA TogetherKept ==
    ASSUME Base, Steady, ReportedTogether,
           \A i \in DOMAIN posts' : posts'[i].kind = "report" => i \in DOMAIN posts /\ posts'[i] = posts[i]
    PROVE  ReportedTogether'
<1>1. \A j \in Jobs : job[j] \in Ended => job'[j] \in Ended
  BY DEF Steady
<1>2. reported \subseteq reported'
  BY DEF Steady
<1> QED
  BY <1>1, <1>2 DEF ReportedTogether, Reports

\* A group is reported together and once: the commit reads the group again,
\* and reports all of it that was not reported.
LEMMA TogetherStep ==
    ASSUME Base, Steady, ReportedTogether, Next
    PROVE  ReportedTogether'
<1>1. Queued
  BY QueuedStep
<1>2. CASE posts' = posts
  BY <1>2, TogetherKept
<1>3. CASE \E first, rest \in PostSet :
              Added(first, rest) /\ first.kind # "report" /\ rest.kind # "report"
  <2>1. PICK first, rest \in PostSet :
              Added(first, rest) /\ first.kind # "report" /\ rest.kind # "report"
    BY <1>3
  <2>2. \A i \in DOMAIN posts' : posts'[i].kind = "report" => i \in DOMAIN posts /\ posts'[i] = posts[i]
    BY <2>1, OldOrNew DEF Base
  <2> QED
    BY <2>2, TogetherKept
<1>4. CASE /\ CommitReport
           /\ \E first, rest \in PostSet :
                 /\ Added(first, rest) /\ first.kind = "report" /\ rest.kind = "upload"
                 /\ first.jobs = RowJobs(turn.snapshot.rows)
  <2>1. PICK first, rest \in PostSet :
                 /\ Added(first, rest) /\ first.kind = "report" /\ rest.kind = "upload"
                 /\ first.jobs = RowJobs(turn.snapshot.rows)
    BY <1>4
  <2>2. /\ turn \in Turns /\ turn.item.kind = "result" /\ ~turn.snapshot.pending
        /\ Load(turn.item.ref).rows = turn.snapshot.rows
        /\ reported' = reported \cup RowJobs(turn.snapshot.rows)
        /\ job' = job
    BY <1>4, ReportShape DEF Base
  <2>3. turn # NoTurn
    BY <2>2, RowsTyped DEF Base
  <2>4. PICK ref \in Jobs : ref = turn.item.ref /\ job[ref] \in Ended
    BY <2>2, <2>3 DEF Base, Awake, WakeOK
  <2>5. turn.snapshot.rows = {<<i, job[i]>> : i \in Mates(ref) \ reported}
    BY <2>2, <2>4 DEF Load
  <2>6. first.jobs = Mates(ref) \ reported
    <3>1. \A i \in Mates(ref) \ reported : i \in RowJobs(turn.snapshot.rows)
      <4>1. TAKE i \in Mates(ref) \ reported
      <4>2. PICK r \in turn.snapshot.rows : r = <<i, job[i]>>
        BY <2>5
      <4> QED
        BY <4>2 DEF RowJobs
    <3>2. \A r \in turn.snapshot.rows : r[1] \in Mates(ref) \ reported
      BY <2>5
    <3> QED
      BY <2>1, <3>1, <3>2 DEF RowJobs
  <2>7. \A i \in Mates(ref) \ reported : job[i] \in Ended
    <3>1. TAKE i \in Mates(ref) \ reported
    <3>2. PICK r \in turn.snapshot.rows : r = <<i, job[i]>>
      BY <2>5
    <3> QED
      BY <2>2, <2>3, <3>2 DEF Base, Shown, RowOK
  <2>8. ASSUME NEW i \in DOMAIN posts, posts[i].kind = "report"
        PROVE  posts[i].jobs \subseteq reported
    <3>1. posts \in Seq(PostSet)
      BY DEF Base, Typed
    <3>2. posts[i] \in PostSet
      BY <3>1
    <3>3. posts[i].jobs \subseteq Jobs
      BY <3>2 DEF PostSet
    <3> QED
      BY <2>8, <3>3 DEF ReportedTogether, Reports
  <2>9. ASSUME NEW j \in first.jobs, NEW mate \in Jobs, Group[mate] = Group[j]
        PROVE  job'[mate] \in Ended /\ mate \in reported'
    <3>1. j \in Jobs /\ job[j] # "none" /\ Group[j] = Group[ref]
      BY <2>6 DEF Mates
    <3>2. job[mate] # "none"
      BY <2>9, <3>1 DEF Base, Whole
    <3>3. mate \in Mates(ref)
      BY <2>9, <3>1, <3>2 DEF Mates
    <3>4. mate \in reported \/ mate \in first.jobs
      BY <2>6, <3>3
    <3>5. mate \in reported => job[mate] \in Ended
      BY DEF Base, Typed
    <3> QED
      BY <2>1, <2>2, <2>6, <2>7, <3>4, <3>5
  <2>10. \A i \in DOMAIN posts' : posts'[i].kind = "report" =>
            \/ i \in DOMAIN posts /\ posts'[i] = posts[i]
            \/ i = Len(posts) + 1 /\ posts'[i] = first
    BY <2>1, OldOrNew DEF Base
  <2>11. ASSUME NEW i \in DOMAIN posts', Reports(i)', NEW k \in DOMAIN posts', Reports(k)', k # i
         PROVE  posts'[i].jobs \cap posts'[k].jobs = {}
    <3>1. CASE i \in DOMAIN posts /\ posts'[i] = posts[i] /\ k \in DOMAIN posts /\ posts'[k] = posts[k]
      BY <2>11, <3>1 DEF ReportedTogether, Reports
    <3>2. CASE i \in DOMAIN posts /\ posts'[i] = posts[i] /\ posts'[k] = first
      BY <2>6, <2>8, <2>11, <3>2 DEF Reports
    <3>3. CASE k \in DOMAIN posts /\ posts'[k] = posts[k] /\ posts'[i] = first
      BY <2>6, <2>8, <2>11, <3>3 DEF Reports
    <3> QED
      BY <2>10, <2>11, <3>1, <3>2, <3>3 DEF Reports
  <2>12. ASSUME NEW i \in DOMAIN posts', Reports(i)', NEW j \in posts'[i].jobs, NEW mate \in Jobs,
                Group[mate] = Group[j]
         PROVE  job'[mate] \in Ended /\ mate \in reported'
    <3>1. CASE i \in DOMAIN posts /\ posts'[i] = posts[i]
      BY <2>2, <2>12, <3>1 DEF ReportedTogether, Reports
    <3>2. CASE posts'[i] = first
      BY <2>9, <2>12, <3>2
    <3> QED
      BY <2>10, <2>12, <3>1, <3>2 DEF Reports
  <2> QED
    BY <2>11, <2>12 DEF ReportedTogether
<1> QED
  BY <1>1, <1>2, <1>3, <1>4 DEF Queued

\* No job is in two reports, and a report of one job of a group comes when all
\* of the group finished and counts all of it as reported (results::load and
\* mark_reported in the actor's commit).
THEOREM AlwaysTogether == Spec => []ReportedTogether
<1>1. Init => ReportedTogether
  BY DEF Init, ReportedTogether
<1>2. Base /\ ReportedTogether /\ [Next]_vars => ReportedTogether'
  <2> SUFFICES ASSUME Base, ReportedTogether, [Next]_vars PROVE ReportedTogether'
    OBVIOUS
  <2>1. CASE Next
    BY <2>1, BaseStep, TogetherStep
  <2>2. CASE UNCHANGED vars
    BY <2>2 DEF vars, ReportedTogether, Reports
  <2> QED
    BY <2>1, <2>2
<1> QED
  BY <1>1, <1>2, BaseAlways, PTL DEF Spec

-----------------------------------------------------------------------------
(* Notes before reports, a debrief at the end.                             *)

\* A pending note was recorded, and a note that is being handled is pending no
\* more.
NoteOK(x) == x.kind = "progress" => x.seq =< notes[x.ref]
Noted ==
    /\ \A x \in items : NoteOK(x)
    /\ turn # NoTurn => NoteOK(turn.item)
    /\ turn # NoTurn /\ turn.item.kind = "progress" => turn.item \notin items

\* A note that was posted is gone for good.
KeyOK(k) ==
    k.kind = "progress" => /\ k.ref \in Jobs /\ k.seq =< notes[k.ref]
                           /\ k \notin items
                           /\ turn # NoTurn => turn.item # k

\* What the inbox may gain, lose and hand to a turn.
FreshNote(x) == x.ref \in Jobs /\ x.seq = notes[x.ref] + 1 /\ notes'[x.ref] = notes[x.ref] + 1
Inbox ==
    /\ \A j \in Jobs : notes[j] =< notes'[j]
    /\ \A x \in items' : x.kind = "progress" =>
          \/ x \in items \/ FreshNote(x)
          \/ turn # NoTurn /\ x = turn.item /\ turn' = NoTurn
    /\ turn' = NoTurn \/ turn' = turn \/ (turn = NoTurn /\ turn'.item \in items /\ turn'.item \notin items')

\* The inbox items an action adds, takes or returns: a wake of an ended job, a
\* note, a debrief, an arrival, the claim and the settlement of a turn.
LEMMA InboxStep ==
    ASSUME Base, Next
    PROVE  Inbox
<1> USE DEF Base
<1>n. \A j \in Jobs : notes[j] \in Nat
  BY DEF Typed
<1>m. notes' = notes => \A j \in Jobs : notes[j] =< notes'[j]
  BY <1>n
<1>w. \A j \in Jobs : Wake(j).kind # "progress"
  BY WakeTyped
<1>1. CASE \E j \in Jobs : Start(j) \/ WriteLine(j) \/ PollProgress(j) \/ Complete(j)
  <2>1. PICK j \in Jobs : Start(j) \/ WriteLine(j) \/ PollProgress(j) \/ Complete(j)
    BY <1>1
  <2>2. PICK note : note = Item("progress", j, notes[j] + 1, attempt[j], 0)
    OBVIOUS
  <2>3. /\ turn' = turn
        /\ \/ items' = items /\ notes' = notes
           \/ items' = items \cup {Wake(j)} /\ notes' = notes
           \/ items' = items \cup {note} /\ notes' = [notes EXCEPT ![j] = @ + 1]
    BY <2>1, <2>2, WorkerShape
  <2>4. CASE items' = items /\ notes' = notes
    BY <1>m, <2>3, <2>4 DEF Inbox
  <2>5. CASE items' = items \cup {Wake(j)} /\ notes' = notes
    BY <1>m, <1>w, <2>3, <2>5 DEF Inbox
  <2>6. CASE items' = items \cup {note} /\ notes' = [notes EXCEPT ![j] = @ + 1]
    <3>1. note.ref = j /\ note.seq = notes[j] + 1
      BY <2>2 DEF Item
    <3>2. notes'[j] = notes[j] + 1 /\ \A i \in Jobs : notes[i] =< notes'[i]
      BY <1>n, <2>6 DEF Typed
    <3>3. FreshNote(note)
      BY <3>1, <3>2 DEF FreshNote
    <3> QED
      BY <2>3, <2>6, <3>2, <3>3 DEF Inbox
  <2> QED
    BY <2>3, <2>4, <2>5, <2>6
<1>2. CASE \E j \in Jobs : Delegate(j)
  BY <1>2, <1>m, DelegateShape DEF Inbox
<1>3. CASE \E change \in {"active", "paused", "closed", "driver", "notes"} : Owner(change)
  BY <1>3, <1>m, OwnerShape DEF Inbox
<1>4. CASE \E item \in items : LoadTurn(item)
  BY <1>4, <1>m, LoadShape DEF Inbox
<1>5. CASE QuietEnd
  <2>1. /\ turn \in Turns /\ turn' = NoTurn /\ notes' = notes
        /\ items' = items \/ items' = items \cup {turn.item}
    BY <1>5, QuietShape
  <2>2. turn # NoTurn
    BY <2>1, RowsTyped
  <2> QED
    BY <1>m, <2>1, <2>2 DEF Inbox
<1>6. CASE CommitReport
  <2>1. /\ turn' = NoTurn /\ notes' = notes
        /\ \A x \in items' : x \in items \/ x.kind = "debrief"
    BY <1>6, ReportShape
  <2> QED
    BY <1>m, <2>1 DEF Inbox
<1>7. CASE CommitAnswer
  <2>1. /\ turn' = NoTurn /\ notes' = notes
        /\ \A x \in items' : x \in items \/ x.kind = "debrief"
    BY <1>7, AnswerShape
  <2> QED
    BY <1>m, <2>1 DEF Inbox
<1>8. CASE HandleProgress \/ DebriefEnds
  <2>1. turn' = NoTurn /\ notes' = notes /\ items' = items
    BY <1>8, ProgressShape, DebriefShape
  <2> QED
    BY <1>m, <2>1 DEF Inbox
<1>9. CASE Crash
  <2>1. /\ turn' = NoTurn /\ notes' = notes
        /\ \A x \in items' : \/ x \in items \/ (turn # NoTurn /\ x = turn.item)
                             \/ \E j \in Jobs : x = Wake(j)
    BY <1>9, CrashShape
  <2> QED
    BY <1>m, <1>w, <2>1 DEF Inbox
<1> QED
  BY <1>1, <1>2, <1>3, <1>4, <1>5, <1>6, <1>7, <1>8, <1>9, Cases

\* Notes are numbered upwards, so an old one never comes back.
LEMMA NotesKept ==
    ASSUME Base, Base', Noted, Inbox
    PROVE  Noted' /\ \A k \in ItemSet : KeyOK(k) => KeyOK(k)'
<1>1. \A j \in Jobs : notes[j] \in Nat /\ notes'[j] \in Nat /\ notes[j] =< notes'[j]
  BY DEF Base, Typed, Inbox
<1>2. \A x \in ItemSet : x.seq \in Nat
  BY DEF ItemSet
<1>3. /\ items \subseteq ItemSet /\ items' \subseteq ItemSet
      /\ turn # NoTurn => turn.item \in ItemSet
      /\ turn' # NoTurn => turn'.item \in ItemSet
  BY DEF Base, Typed, Turns
<1>4. /\ \A x \in items : x.kind = "progress" => x.ref \in Jobs
      /\ turn # NoTurn /\ turn.item.kind = "progress" => turn.item.ref \in Jobs
  BY DEF Base, Awake, WakeOK
<1>5. ASSUME NEW x \in ItemSet, NoteOK(x), x.kind = "progress" => x.ref \in Jobs
      PROVE  NoteOK(x)'
  <2>1. CASE x.kind # "progress"
    BY <2>1 DEF NoteOK
  <2>2. CASE x.kind = "progress"
    <3>1. x.ref \in Jobs /\ x.seq \in Nat /\ x.seq =< notes[x.ref]
      BY <1>2, <1>5, <2>2 DEF NoteOK
    <3>2. x.seq =< notes'[x.ref]
      BY <1>1, <3>1
    <3> QED
      BY <3>2 DEF NoteOK
  <2> QED
    BY <2>1, <2>2
<1>6. ASSUME NEW x, FreshNote(x)
      PROVE  NoteOK(x)' /\ ~(x.seq =< notes[x.ref])
  BY <1>1, <1>6 DEF FreshNote, NoteOK
<1>7. ASSUME NEW x \in items' PROVE NoteOK(x)'
  <2>1. CASE x.kind # "progress"
    BY <2>1 DEF NoteOK
  <2>2. CASE FreshNote(x)
    BY <1>6, <2>2
  <2>3. CASE x \in items
    BY <1>3, <1>4, <1>5, <2>3 DEF Noted
  <2>4. CASE turn # NoTurn /\ x = turn.item
    BY <1>3, <1>4, <1>5, <2>4 DEF Noted
  <2> QED
    BY <2>1, <2>2, <2>3, <2>4 DEF Inbox
<1>8. ASSUME turn' # NoTurn
      PROVE  NoteOK(turn.item)' /\ (turn'.item.kind = "progress" => turn'.item \notin items')
  <2>1. CASE turn = NoTurn /\ turn'.item \in items /\ turn'.item \notin items'
    <3>1. PICK x \in items : x = turn'.item
      BY <2>1
    <3>2. NoteOK(x)'
      BY <1>3, <1>4, <1>5 DEF Noted
    <3> QED
      BY <2>1, <3>1, <3>2 DEF NoteOK
  <2>2. CASE turn' = turn
    <3>1. PICK x \in ItemSet : x = turn.item
      BY <1>3, <1>8, <2>2
    <3>2. NoteOK(x) /\ (x.kind = "progress" => x.ref \in Jobs)
      BY <1>4, <1>8, <2>2, <3>1 DEF Noted
    <3>3. NoteOK(x)'
      BY <1>5, <3>2
    <3>4. x.kind = "progress" => x \notin items'
      BY <1>6, <1>8, <2>2, <3>1, <3>2 DEF Inbox, Noted, NoteOK
    <3> QED
      BY <2>2, <3>1, <3>3, <3>4 DEF NoteOK
  <2> QED
    BY <1>8, <2>1, <2>2 DEF Inbox
<1>9. ASSUME NEW k \in ItemSet, KeyOK(k)
      PROVE  KeyOK(k)'
  <2> SUFFICES ASSUME k.kind = "progress"
               PROVE  /\ k.ref \in Jobs /\ k.seq =< notes'[k.ref]
                      /\ k \notin items'
                      /\ turn' # NoTurn => turn'.item # k
    BY DEF KeyOK
  <2>1. /\ k.ref \in Jobs /\ k.seq =< notes[k.ref] /\ k.seq \in Nat /\ k \notin items
        /\ turn # NoTurn => turn.item # k
    BY <1>2, <1>9 DEF KeyOK
  <2>2. k.seq =< notes'[k.ref]
    BY <1>1, <2>1
  <2>3. k \notin items'
    BY <1>6, <2>1 DEF Inbox
  <2>4. turn' # NoTurn => turn'.item # k
    BY <2>1 DEF Inbox
  <2> QED
    BY <2>1, <2>2, <2>3, <2>4
<1> QED
  BY <1>7, <1>8, <1>9 DEF Noted

\* A debrief is asked for behind the reply it is about.
Answered(n) == \E i \in DOMAIN posts : posts[i].turn = n /\ posts[i].kind \in {"reply", "report"}
Owing ==
    /\ \A x \in items : x.kind = "debrief" => Answered(x.of)
    /\ turn # NoTurn /\ turn.item.kind = "debrief" => Answered(turn.item.of)

\* A post is of the kind of the item it is for, and of a turn that was taken.
PostOK(p) ==
    /\ p.kind = "progress" <=> p.key.kind = "progress"
    /\ p.kind = "debrief" <=> p.key.kind = "debrief"
    /\ KeyOK(p.key)
    /\ p.turn =< thread.turns
    /\ p.kind = "debrief" => p.key.of =< thread.debriefed
Written == \A i \in DOMAIN posts : PostOK(posts[i])

Story == Noted /\ Owing /\ Written

\* The thread's row counts upwards.
LEMMA RowGrows ==
    ASSUME Base, Next
    PROVE  /\ thread.turns \in Nat /\ thread'.turns \in Nat /\ thread.turns =< thread'.turns
           /\ thread.debriefed \in Nat /\ thread'.debriefed \in Nat /\ thread.debriefed =< thread'.debriefed
           /\ CommitReport \/ CommitAnswer => thread'.turns = thread.turns + 1
<1> USE DEF Base
<1>1. Base' /\ thread \in ThreadRows /\ thread' \in ThreadRows
  BY BaseStep DEF Typed
<1>2. /\ thread.turns \in Nat /\ thread'.turns \in Nat
      /\ thread.debriefed \in Nat /\ thread'.debriefed \in Nat
  BY <1>1 DEF ThreadRows
<1>3. CommitReport \/ CommitAnswer => thread'.turns = thread.turns + 1 /\ thread'.debriefed = thread.debriefed
  BY ReportShape, AnswerShape
<1>4. CASE CommitReport \/ CommitAnswer
  BY <1>2, <1>3, <1>4
<1>5. CASE DebriefEnds
  <2>1. /\ turn \in Turns
        /\ \/ thread' = thread
           \/ thread'.turns = thread.turns /\ thread'.debriefed = turn.item.of /\ turn.item.of > thread.debriefed
    BY <1>5, DebriefShape
  <2> QED
    BY <1>2, <1>3, <2>1
<1>6. CASE \E change \in {"active", "paused", "closed", "driver", "notes"} : Owner(change)
  <2>1. thread'.turns = thread.turns /\ thread'.debriefed = thread.debriefed
    BY <1>6, OwnerShape
  <2> QED
    BY <1>2, <1>3, <2>1
<1>7. thread' = thread => thread.turns =< thread'.turns /\ thread.debriefed =< thread'.debriefed
  BY <1>2
<1>8. CASE \E j \in Jobs : Start(j) \/ WriteLine(j) \/ PollProgress(j) \/ Complete(j)
  BY <1>2, <1>3, <1>7, <1>8, WorkerShape
<1>9. CASE \E j \in Jobs : Delegate(j)
  BY <1>2, <1>3, <1>7, <1>9, DelegateShape
<1>10. CASE \E item \in items : LoadTurn(item)
  BY <1>2, <1>3, <1>7, <1>10, LoadShape
<1>11. CASE QuietEnd \/ HandleProgress \/ Crash
  BY <1>2, <1>3, <1>7, <1>11, QuietShape, ProgressShape, CrashShape
<1> QED
  BY <1>4, <1>5, <1>6, <1>8, <1>9, <1>10, <1>11, Cases

\* An old post stays what it is, and a new one is of its item's kind.
LEMMA PostsTyped ==
    ASSUME Base
    PROVE  /\ DOMAIN posts = 1 .. Len(posts) /\ Len(posts) \in Nat
           /\ \A i \in DOMAIN posts : /\ posts[i] \in PostSet /\ posts[i].key \in ItemSet
                                      /\ posts[i].turn \in Nat /\ posts[i].key.of \in Nat
<1>1. posts \in Seq(PostSet)
  BY DEF Base, Typed
<1>2. DOMAIN posts = 1 .. Len(posts) /\ Len(posts) \in Nat /\ \A i \in DOMAIN posts : posts[i] \in PostSet
  BY <1>1, LenProperties
<1> QED
  BY <1>2 DEF PostSet, ItemSet

\* A reply with its files answers the turn.
LEMMA ReplyAnswers ==
    ASSUME Base, turn \in Turns, NEW kind \in {"reply", "report"},
           NEW rows \in SUBSET (Jobs \X Statuses), posts' = posts \o Replies(kind, rows),
           NEW n, n = thread.turns + 1
    PROVE  Answered(n)'
<1>t. Typed
  BY DEF Base
<1>r. \E first, rest \in PostSet :
             /\ Added(first, rest) /\ first.kind = kind /\ rest.kind = "upload"
             /\ first.key = turn.item /\ rest.key = turn.item /\ first.jobs = RowJobs(rows)
             /\ first.turn = thread.turns + 1 /\ rest.turn = thread.turns + 1
  BY <1>t, RepliesAdd, ZenonT(40)
<1>1. PICK first, rest \in PostSet :
         Added(first, rest) /\ first.kind = kind /\ first.turn = n
  BY <1>r
<1>2. posts'[Len(posts) + 1] = first /\ Len(posts) + 1 \in DOMAIN posts'
  BY <1>1, OldOrNew DEF Base
<1>3. PICK i \in DOMAIN posts' : posts'[i] = first
  BY <1>2
<1>4. posts'[i].turn = n /\ posts'[i].kind \in {"reply", "report"}
  BY <1>1, <1>3
<1> QED
  BY <1>3, <1>4 DEF Answered

\* A debrief that a step asks for is of the turn it answers.
LEMMA AskedStep ==
    ASSUME Base, Next, NEW x \in items', x.kind = "debrief"
    PROVE  \/ x \in items
           \/ turn # NoTurn /\ x = turn.item
           \/ Answered(x.of)'
<1> USE DEF Base
<1>1. CASE \E j \in Jobs : Start(j) \/ WriteLine(j) \/ PollProgress(j) \/ Complete(j)
  <2>1. PICK j \in Jobs : Start(j) \/ WriteLine(j) \/ PollProgress(j) \/ Complete(j)
    BY <1>1
  <2>2. x \in items \/ x = Wake(j) \/ x = Item("progress", j, notes[j] + 1, attempt[j], 0)
    BY <2>1, WorkerShape
  <2>3. Wake(j).kind # "debrief" /\ Item("progress", j, notes[j] + 1, attempt[j], 0).kind # "debrief"
    BY DEF Wake, Item
  <2> QED
    BY <2>2, <2>3
<1>2. CASE \E j \in Jobs : Delegate(j)
  BY <1>2, DelegateShape
<1>3. CASE \E change \in {"active", "paused", "closed", "driver", "notes"} : Owner(change)
  BY <1>3, OwnerShape
<1>4. CASE \E item \in items : LoadTurn(item)
  BY <1>4, LoadShape
<1>5. CASE QuietEnd
  <2>1. turn \in Turns /\ (items' = items \/ items' = items \cup {turn.item})
    BY <1>5, QuietShape
  <2>2. turn # NoTurn
    BY <2>1, RowsTyped
  <2> QED
    BY <2>1, <2>2
<1>6. CASE CommitReport
  <2>1. /\ turn \in Turns
        /\ x \in items \/ (x.of = thread.turns + 1 /\ posts' = posts \o Replies("report", turn.snapshot.rows))
    BY <1>6, ReportShape
  <2>2. PICK rows \in SUBSET (Jobs \X Statuses) : rows = turn.snapshot.rows
    BY <2>1, RowsTyped
  <2>3. PICK n : n = x.of
    OBVIOUS
  <2>4. x \in items \/ Answered(n)'
    BY <2>1, <2>2, <2>3, ReplyAnswers
  <2> QED
    BY <2>3, <2>4
<1>7. CASE CommitAnswer
  <2>1. turn \in Turns /\ (x \in items \/ x.of = thread.turns + 1) /\ posts' = posts \o Replies("reply", {})
    BY <1>7, AnswerShape
  <2>2. PICK n : n = x.of
    OBVIOUS
  <2>3. x \in items \/ Answered(n)'
    BY <2>1, <2>2, ReplyAnswers
  <2> QED
    BY <2>2, <2>3
<1>8. CASE HandleProgress \/ DebriefEnds
  BY <1>8, ProgressShape, DebriefShape
<1>9. CASE Crash
  <2>1. \/ x \in items \/ (turn # NoTurn /\ x = turn.item)
        \/ \E j \in Jobs : x = Wake(j)
    BY <1>9, CrashShape
  <2>2. \A j \in Jobs : Wake(j).kind # "debrief"
    BY WakeTyped
  <2> QED
    BY <2>1, <2>2
<1> QED
  BY <1>1, <1>2, <1>3, <1>4, <1>5, <1>6, <1>7, <1>8, <1>9, Cases

\* Every action keeps the numbering of notes, turns and debriefs.
LEMMA StoryStep ==
    ASSUME Base, Base', Story, Next
    PROVE  Story'
<1> USE DEF Story
<1>1. Queued /\ Inbox
  BY QueuedStep, InboxStep
<1>2. Noted' /\ \A k \in ItemSet : KeyOK(k) => KeyOK(k)'
  BY <1>1, NotesKept
<1>3. /\ thread.turns \in Nat /\ thread'.turns \in Nat /\ thread.turns =< thread'.turns
      /\ thread.debriefed \in Nat /\ thread'.debriefed \in Nat /\ thread.debriefed =< thread'.debriefed
      /\ CommitReport \/ CommitAnswer => thread'.turns = thread.turns + 1
  BY RowGrows
<1>4. ASSUME NEW p \in PostSet, PostOK(p)
      PROVE  PostOK(p)'
  <2>1. p.key \in ItemSet /\ p.turn \in Nat /\ p.key.of \in Nat
    BY DEF PostSet, ItemSet
  <2>2. PICK k \in ItemSet : k = p.key
    BY <2>1
  <2>3. KeyOK(k)'
    BY <1>2, <1>4, <2>2 DEF PostOK
  <2>4. KeyOK(p.key)'
    BY <2>2, <2>3
  <2>5. p.turn =< thread'.turns /\ (p.kind = "debrief" => p.key.of =< thread'.debriefed)
    BY <1>3, <1>4, <2>1 DEF PostOK
  <2> QED
    BY <1>4, <2>4, <2>5 DEF PostOK
<1>5. posts' = posts \/ \E first, rest \in PostSet : Added(first, rest)
  BY <1>1 DEF Queued
<1>6. \A i \in DOMAIN posts : i \in DOMAIN posts' /\ posts'[i] = posts[i]
  BY <1>5, OldOrNew DEF Base
<1>7. ASSUME NEW n, Answered(n) PROVE Answered(n)'
  BY <1>6, <1>7 DEF Answered
<1>8. Owing'
  <2>1. ASSUME NEW x \in items', x.kind = "debrief" PROVE Answered(x.of)'
    <3>1. PICK n : n = x.of
      OBVIOUS
    <3>2. (x \in items \/ (turn # NoTurn /\ x = turn.item)) => Answered(n)
      BY <2>1, <3>1 DEF Owing
    <3>3. Answered(n)'
      BY <1>7, <2>1, <3>1, <3>2, AskedStep
    <3> QED
      BY <3>1, <3>3
  <2>2. ASSUME turn' # NoTurn, turn'.item.kind = "debrief" PROVE Answered(turn.item.of)'
    <3>1. PICK n : n = turn'.item.of
      OBVIOUS
    <3>2. (turn' = turn \/ turn'.item \in items) /\ turn' # NoTurn
      BY <1>1, <2>2 DEF Inbox
    <3>3. Answered(n)
      BY <2>2, <3>1, <3>2 DEF Owing
    <3>4. Answered(n)'
      BY <1>7, <3>3
    <3> QED
      BY <3>1, <3>4
  <2> QED
    BY <2>1, <2>2 DEF Owing
<1>9. ASSUME NEW i \in DOMAIN posts'
      PROVE  PostOK(posts[i])'
  <2>1. CASE i \in DOMAIN posts
    <3>1. PICK p \in PostSet : p = posts[i] /\ PostOK(p)
      BY <2>1, PostsTyped DEF Written
    <3>2. PostOK(p)' /\ p = posts'[i]
      BY <1>4, <1>6, <2>1, <3>1
    <3> QED
      BY <3>2
  <2>2. CASE i \notin DOMAIN posts
    <3>1. CASE /\ CommitReport \/ CommitAnswer
               /\ \E first, rest \in PostSet :
                     /\ Added(first, rest) /\ first.kind \in {"report", "reply"} /\ rest.kind = "upload"
                     /\ first.key = turn.item /\ rest.key = turn.item
                     /\ first.turn = thread.turns + 1 /\ rest.turn = thread.turns + 1
      <4>1. PICK first, rest \in PostSet :
                     /\ Added(first, rest) /\ first.kind \in {"report", "reply"} /\ rest.kind = "upload"
                     /\ first.key = turn.item /\ rest.key = turn.item
                     /\ first.turn = thread.turns + 1 /\ rest.turn = thread.turns + 1
        BY <3>1
      <4>2. posts'[i] = first \/ posts'[i] = rest
        BY <1>9, <2>2, <4>1, OldOrNew DEF Base
      <4>3. PICK p \in PostSet : /\ p = posts'[i] /\ p.kind \in {"report", "reply", "upload"}
                                 /\ p.key = turn.item /\ p.turn = thread.turns + 1
        BY <4>1, <4>2
      <4>4. turn.item.kind \in {"result", "message"}
        BY <3>1, ReportShape, AnswerShape DEF Base
      <4>5. KeyOK(p.key)'
        BY <4>3, <4>4 DEF KeyOK
      <4>6. p.turn =< thread'.turns
        BY <1>3, <3>1, <4>3
      <4>7. PostOK(p)'
        BY <4>3, <4>4, <4>5, <4>6 DEF PostOK
      <4> QED
        BY <4>3, <4>7
    <3>2. CASE /\ HandleProgress /\ turn.item.ref \in Jobs
               /\ \E p \in PostSet : Added(p, p) /\ p.kind = "progress" /\ p.key = turn.item /\ p.turn = 0
      <4>1. PICK p \in PostSet : Added(p, p) /\ p.kind = "progress" /\ p.key = turn.item /\ p.turn = 0
        BY <3>2
      <4>2. posts'[i] = p
        BY <1>9, <2>2, <4>1, OldOrNew DEF Base
      <4>3. turn \in Turns /\ turn.item.kind = "progress" /\ turn' = NoTurn /\ UNCHANGED <<jobVars, items>>
        BY <3>2, ProgressShape DEF Base
      <4>4. turn # NoTurn
        BY <4>3, RowsTyped DEF Base
      <4>5. turn.item.seq =< notes[turn.item.ref] /\ turn.item \notin items
        BY <4>3, <4>4 DEF Noted, NoteOK
      <4>6. KeyOK(p.key)'
        BY <3>2, <4>1, <4>3, <4>5 DEF KeyOK
      <4>7. p.turn =< thread'.turns
        BY <1>3, <4>1
      <4>8. PostOK(p)'
        BY <4>1, <4>3, <4>6, <4>7 DEF PostOK
      <4> QED
        BY <4>2, <4>8
    <3>3. CASE /\ DebriefEnds /\ turn.item.of = thread.turns
               /\ thread'.turns = thread.turns /\ thread'.debriefed = turn.item.of
               /\ \E p \in PostSet : /\ Added(p, p) /\ p.kind = "debrief" /\ p.key = turn.item
                                     /\ p.turn = turn.item.of
      <4>1. PICK p \in PostSet : /\ Added(p, p) /\ p.kind = "debrief" /\ p.key = turn.item
                                 /\ p.turn = turn.item.of
        BY <3>3
      <4>2. posts'[i] = p
        BY <1>9, <2>2, <4>1, OldOrNew DEF Base
      <4>3. turn.item.kind = "debrief"
        BY <3>3, DebriefShape DEF Base
      <4>4. KeyOK(p.key)'
        BY <4>1, <4>3 DEF KeyOK
      <4>5. p.turn =< thread'.turns /\ p.key.of =< thread'.debriefed
        BY <1>3, <3>3, <4>1
      <4>6. PostOK(p)'
        BY <4>1, <4>3, <4>4, <4>5 DEF PostOK
      <4> QED
        BY <4>2, <4>6
    <3>4. CASE posts' = posts
      BY <1>9, <2>2, <3>4
    <3> QED
      BY <1>1, <3>1, <3>2, <3>3, <3>4 DEF Queued
  <2> QED
    BY <2>1, <2>2
<1> QED
  BY <1>2, <1>8, <1>9 DEF Written

\* A note is posted while its job runs, so it is in no report yet, and it was
\* not posted before.
LEMMA PrecedeStep ==
    ASSUME Base, Story, ReportedTogether, NotesPrecedeReport, Next
    PROVE  NotesPrecedeReport'
<1>1. Queued
  BY QueuedStep
<1>2. ASSUME \A i \in DOMAIN posts' : posts'[i].kind = "progress" => i \in DOMAIN posts,
             \A i \in DOMAIN posts : posts'[i] = posts[i]
      PROVE  NotesPrecedeReport'
  <2> SUFFICES ASSUME NEW i \in DOMAIN posts', NEW k \in DOMAIN posts',
                      posts'[k].kind = "progress", i < k
               PROVE  /\ ~(posts'[i].kind = "report" /\ posts'[k].jobs \subseteq posts'[i].jobs)
                      /\ posts'[i].key # posts'[k].key
    BY DEF NotesPrecedeReport, Reports
  <2>1. k \in DOMAIN posts
    BY <1>2
  <2>2. i \in Nat /\ i > 0
    <3>1. posts' = posts \/ \E first, rest \in PostSet : Added(first, rest)
      BY <1>1 DEF Queued
    <3> QED
      BY <3>1, PostsTyped, OldOrNew DEF Base
  <2>3. i \in DOMAIN posts
    BY <2>1, <2>2, PostsTyped
  <2> QED
    BY <1>2, <2>1, <2>3 DEF NotesPrecedeReport, Reports
<1>3. CASE posts' = posts
  BY <1>2, <1>3
<1>4. CASE \E first, rest \in PostSet :
              Added(first, rest) /\ first.kind # "progress" /\ rest.kind # "progress"
  <2>1. PICK first, rest \in PostSet :
              Added(first, rest) /\ first.kind # "progress" /\ rest.kind # "progress"
    BY <1>4
  <2>2. /\ \A i \in DOMAIN posts' : posts'[i].kind = "progress" => i \in DOMAIN posts
        /\ \A i \in DOMAIN posts : posts'[i] = posts[i]
    BY <2>1, OldOrNew DEF Base
  <2> QED
    BY <1>2, <2>2
<1>5. CASE /\ HandleProgress /\ job[turn.item.ref] = "running" /\ turn.item.ref \in Jobs
           /\ \E p \in PostSet : /\ Added(p, p) /\ Len(posts') = Len(posts) + 1 /\ p.kind = "progress" /\ p.key = turn.item
                                 /\ p.jobs = {turn.item.ref} /\ p.turn = 0
  <2>1. PICK p \in PostSet : /\ Added(p, p) /\ Len(posts') = Len(posts) + 1 /\ p.kind = "progress" /\ p.key = turn.item
                             /\ p.jobs = {turn.item.ref}
    BY <1>5
  <2>2. turn \in Turns /\ turn.item.kind = "progress"
    BY <1>5, ProgressShape DEF Base
  <2>3. turn # NoTurn
    BY <2>2, RowsTyped DEF Base
  <2>4. ASSUME NEW i \in DOMAIN posts, posts[i].kind = "report"
        PROVE  turn.item.ref \notin posts[i].jobs
    <3>1. \A j \in posts[i].jobs, mate \in Jobs : Group[mate] = Group[j] => job[mate] \in Ended
      BY <2>4 DEF ReportedTogether, Reports
    <3> QED
      BY <1>5, <3>1 DEF Ended
  <2>5. ASSUME NEW i \in DOMAIN posts
        PROVE  posts[i].key # turn.item
    <3>1. KeyOK(posts[i].key)
      BY DEF Story, Written, PostOK
    <3> QED
      BY <2>2, <2>3, <3>1 DEF KeyOK
  <2>6. ASSUME NEW i \in DOMAIN posts'
        PROVE  \/ i \in DOMAIN posts /\ posts'[i] = posts[i]
               \/ i = Len(posts) + 1 /\ posts'[i] = p
    BY <2>1, AtTheEnd DEF Base
  <2>7. ASSUME NEW i \in DOMAIN posts', NEW k \in DOMAIN posts',
               posts'[k].kind = "progress", i < k
        PROVE  /\ ~(posts'[i].kind = "report" /\ posts'[k].jobs \subseteq posts'[i].jobs)
               /\ posts'[i].key # posts'[k].key
    <3>1. CASE k \in DOMAIN posts /\ posts'[k] = posts[k]
      <4>1. i \in DOMAIN posts /\ posts'[i] = posts[i]
        BY <2>6, <2>7, <3>1, PostsTyped
      <4> QED
        BY <2>7, <3>1, <4>1 DEF NotesPrecedeReport, Reports
    <3>2. CASE k = Len(posts) + 1 /\ posts'[k] = p
      <4>1. i \in DOMAIN posts /\ posts'[i] = posts[i]
        BY <2>6, <2>7, <3>2, PostsTyped
      <4> QED
        BY <2>1, <2>4, <2>5, <3>2, <4>1
    <3> QED
      BY <2>6, <3>1, <3>2
  <2> QED
    BY <2>7 DEF NotesPrecedeReport, Reports
<1> QED
  BY <1>1, <1>3, <1>4, <1>5 DEF Queued

\* A debrief is posted while its turn is the thread's last, behind the reply it
\* is about, and its turn was not debriefed.
Closes(k) ==
    /\ \E i \in 1 .. k-1 : posts[i].turn = posts[k].turn /\ posts[i].kind \in {"reply", "report"}
    /\ \A i \in 1 .. k-1 : posts[i].turn =< posts[k].turn /\ posts[i].key # posts[k].key

\* A commit that queues a report or a debrief queues it behind the posts that
\* the debrief is about.
LEMMA LastStep ==
    ASSUME Base, Story, DebriefIsLast, Next
    PROVE  DebriefIsLast'
<1>1. Queued
  BY QueuedStep
<1>2. posts' = posts \/ \E first, rest \in PostSet : Added(first, rest)
  BY <1>1 DEF Queued
<1>3. \A i \in DOMAIN posts : posts'[i] = posts[i]
  BY <1>2, OldOrNew DEF Base
<1>4. ASSUME NEW k \in DOMAIN posts, posts[k].kind = "debrief"
      PROVE  Closes(k)'
  <2>1. Closes(k)
    BY <1>4 DEF DebriefIsLast, Closes
  <2>2. \A i \in 1 .. k-1 : i \in DOMAIN posts
    BY PostsTyped
  <2>3. /\ \A i \in 1 .. k-1 : posts'[i] = posts[i]
        /\ posts'[k] = posts[k]
    BY <1>3, <2>2
  <2> QED
    BY <2>1, <2>3 DEF Closes
<1>5. ASSUME \A i \in DOMAIN posts' : posts'[i].kind = "debrief" => i \in DOMAIN posts
      PROVE  DebriefIsLast'
  <2>1. ASSUME NEW k \in DOMAIN posts', posts'[k].kind = "debrief" PROVE Closes(k)'
    BY <1>3, <1>4, <1>5, <2>1
  <2> QED
    BY <2>1 DEF DebriefIsLast, Closes
<1>6. CASE posts' = posts
  BY <1>5, <1>6
<1>7. CASE \E first, rest \in PostSet :
              Added(first, rest) /\ first.kind # "debrief" /\ rest.kind # "debrief"
  <2>1. PICK first, rest \in PostSet :
              Added(first, rest) /\ first.kind # "debrief" /\ rest.kind # "debrief"
    BY <1>7
  <2>2. \A i \in DOMAIN posts' : posts'[i].kind = "debrief" => i \in DOMAIN posts
    BY <2>1, OldOrNew DEF Base
  <2> QED
    BY <1>5, <2>2
<1>8. CASE /\ DebriefEnds /\ turn.item.of = thread.turns /\ turn.item.of > thread.debriefed
           /\ \E p \in PostSet : /\ Added(p, p) /\ Len(posts') = Len(posts) + 1 /\ p.kind = "debrief"
                                 /\ p.key = turn.item /\ p.turn = turn.item.of
  <2>1. PICK p \in PostSet : /\ Added(p, p) /\ Len(posts') = Len(posts) + 1 /\ p.kind = "debrief"
                             /\ p.key = turn.item /\ p.turn = turn.item.of
    BY <1>8
  <2>2. turn \in Turns /\ turn.item.kind = "debrief"
    BY <1>8, DebriefShape DEF Base
  <2>3. turn # NoTurn /\ turn.item \in ItemSet /\ turn.item.of \in Nat
    BY <2>2, RowsTyped DEF Base, ItemSet
  <2>4. Answered(turn.item.of)
    BY <2>2, <2>3 DEF Story, Owing
  <2>5. thread.debriefed \in Nat /\ thread.turns \in Nat
    BY RowGrows
  <2>6. ASSUME NEW i \in DOMAIN posts
        PROVE  posts[i].turn =< p.turn /\ posts[i].key # p.key
    <3>1. PostOK(posts[i])
      BY DEF Story, Written
    <3>2. posts[i].key.of \in Nat /\ posts[i].turn \in Nat
      BY PostsTyped
    <3>3. posts[i].turn =< p.turn
      BY <1>8, <2>1, <3>1 DEF PostOK
    <3>4. CASE posts[i].kind = "debrief"
      <4>1. posts[i].key.of =< thread.debriefed
        BY <3>1, <3>4 DEF PostOK
      <4>2. posts[i].key.of # turn.item.of
        BY <1>8, <2>3, <2>5, <3>2, <4>1
      <4> QED
        BY <2>1, <3>3, <4>2
    <3>5. CASE posts[i].kind # "debrief"
      <4>1. posts[i].key.kind # "debrief"
        BY <3>1, <3>5 DEF PostOK
      <4> QED
        BY <2>1, <2>2, <3>3, <4>1
    <3> QED
      BY <3>4, <3>5
  <2>7. PICK n \in Nat : n = Len(posts) /\ DOMAIN posts = 1 .. n
    BY PostsTyped
  <2>8. \A i \in DOMAIN posts' : \/ i \in DOMAIN posts
                                 \/ i = n + 1 /\ posts'[i] = p
    BY <2>1, <2>7, AtTheEnd DEF Base
  <2>9. ASSUME NEW k, k = n + 1, posts'[k] = p
        PROVE  Closes(k)'
    <3>1. 1 .. k-1 = DOMAIN posts
      BY <2>7, <2>9
    <3>2. PICK i \in DOMAIN posts : posts[i].turn = turn.item.of /\ posts[i].kind \in {"reply", "report"}
      BY <2>4 DEF Answered
    <3>3. posts'[i].turn = posts'[k].turn /\ posts'[i].kind \in {"reply", "report"} /\ i \in 1 .. k-1
      BY <1>3, <2>1, <2>9, <3>1, <3>2
    <3>4. \A j \in 1 .. k-1 : posts'[j].turn =< posts'[k].turn /\ posts'[j].key # posts'[k].key
      BY <1>3, <2>6, <2>9, <3>1
    <3> QED
      BY <3>3, <3>4 DEF Closes
  <2>10. ASSUME NEW k \in DOMAIN posts', posts'[k].kind = "debrief"
         PROVE  Closes(k)'
    BY <1>3, <1>4, <2>8, <2>9, <2>10
  <2> QED
    BY <2>10 DEF DebriefIsLast, Closes
<1> QED
  BY <1>1, <1>6, <1>7, <1>8 DEF Queued

\* The inbox, the posts and what they are about agree in every state.
LEMMA StoryAlways == Spec => []Story
<1>1. Init => Story
  <2> SUFFICES ASSUME Init PROVE Story
    OBVIOUS
  <2>1. PICK come \in SUBSET Messages : items = {Item("message", m, 0, 0, 0) : m \in come}
    BY DEF Init
  <2>2. \A x \in items : x.kind = "message"
    BY <2>1 DEF Item
  <2>3. turn = NoTurn /\ posts = <<>>
    BY DEF Init
  <2> QED
    BY <2>2, <2>3 DEF Story, Noted, NoteOK, Owing, Written
<1>2. Base /\ Base' /\ Story /\ [Next]_vars => Story'
  <2> SUFFICES ASSUME Base, Base', Story, [Next]_vars PROVE Story'
    OBVIOUS
  <2>1. CASE Next
    BY <2>1, StoryStep
  <2>2. CASE UNCHANGED vars
    BY <2>2 DEF vars, Story, Noted, NoteOK, Owing, Answered, Written, PostOK, KeyOK
  <2> QED
    BY <2>1, <2>2
<1> QED
  BY <1>1, <1>2, BaseAlways, PTL DEF Spec

\* Every note stands before the report of its job and is posted once, although
\* jobs end, are tried again and crash while notes wait in the inbox
\* (progress::handle, Tracker::take).
THEOREM NotesAlwaysPrecede == Spec => []NotesPrecedeReport
<1>1. Init => NotesPrecedeReport
  BY DEF Init, NotesPrecedeReport
<1>2. Base /\ Story /\ ReportedTogether /\ NotesPrecedeReport /\ [Next]_vars => NotesPrecedeReport'
  <2> SUFFICES ASSUME Base, Story, ReportedTogether, NotesPrecedeReport, [Next]_vars
               PROVE  NotesPrecedeReport'
    OBVIOUS
  <2>1. CASE Next
    BY <2>1, PrecedeStep
  <2>2. CASE UNCHANGED vars
    BY <2>2 DEF vars, NotesPrecedeReport, Reports
  <2> QED
    BY <2>1, <2>2
<1> QED
  BY <1>1, <1>2, BaseAlways, StoryAlways, AlwaysTogether, PTL DEF Spec

\* A debrief follows its reply with no later turn's post before it, and no
\* turn is debriefed twice, whatever the owner and the workers do while the
\* debrief is written (debrief::handle, close_turn).
THEOREM DebriefAlwaysLast == Spec => []DebriefIsLast
<1>1. Init => DebriefIsLast
  BY DEF Init, DebriefIsLast
<1>2. Base /\ Story /\ DebriefIsLast /\ [Next]_vars => DebriefIsLast'
  <2> SUFFICES ASSUME Base, Story, DebriefIsLast, [Next]_vars
               PROVE  DebriefIsLast'
    OBVIOUS
  <2>1. CASE Next
    BY <2>1, LastStep
  <2>2. CASE UNCHANGED vars
    BY <2>2 DEF vars, DebriefIsLast
  <2> QED
    BY <2>1, <2>2
<1> QED
  BY <1>1, <1>2, BaseAlways, StoryAlways, PTL DEF Spec

=============================================================================
