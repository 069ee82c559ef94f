--------------------------- MODULE ContextProofs ---------------------------
(***************************************************************************)
(* What parent calls are shown, for any number of threads and links, any   *)
(* cache and read limits and any length of a run: a repair sees what its   *)
(* decide saw, and a quoted state is as old as it says.                    *)
(***************************************************************************)
EXTENDS Context, Integers, TLAPS

-----------------------------------------------------------------------------
(* Types.                                                                  *)

Values == {<<"none">>, <<"error">>, <<"timeout">>, <<"unrecorded">>}
          \cup {<<"pull", v>> : v \in 0 .. MaxVersion}
Marks == {"none", "read", "unrecorded"}
States == [step: {"lookup", "fetch", "rest", "have"}, value: Values, age: Nat, when: Nat]
ReadSet == [files: Marks, linked: Marks, github: States]
Contexts == [files: Marks, linked: Marks, value: Values, age: Nat]
Requests == [at: {"idle", "reading", "deciding", "repair", "repairing", "done"},
             version: 0 .. MaxUpsets, link: Links \cup {0}, since: Nat, read: ReadSet,
             shown: Contexts, context: Contexts]
Entries == [expiry: Nat, value: Values]

\* Every new version of a session is an upset.
Counted ==
    /\ version \in [Threads -> Nat] /\ upsets \in 0 .. MaxUpsets
    /\ \A t \in Threads : version[t] <= upsets

ContextTypes ==
    /\ clock \in Nat
    /\ pull \in [Links -> 0 .. MaxVersion]
    /\ replaced \in [Links -> [0 .. MaxVersion -> Nat]]
    /\ cache \in [Links -> Entries]
    /\ request \in [Threads -> Requests]
    /\ kept \in [Keys -> Contexts]
    /\ Counted

\* The state of a pull request is tagged with its version.
LEMMA PullTyped ==
    ASSUME NEW v \in Values, v[1] = "pull"
    PROVE  v[2] \in 0 .. MaxVersion
<1>1. v # <<"none">> /\ v # <<"error">> /\ v # <<"timeout">> /\ v # <<"unrecorded">>
  OBVIOUS
<1>2. PICK n \in 0 .. MaxVersion : v = <<"pull", n>>
  BY <1>1 DEF Values
<1> QED
  BY <1>2

\* The records a step starts from.
LEMMA RestTyped ==
    /\ Idle \in Requests /\ [Idle EXCEPT !.at = "done"] \in Requests
    /\ NoRead \in ReadSet /\ Unread \in States /\ NoContext \in Contexts /\ NoEntry \in Entries
    /\ Idle.at = "idle" /\ Idle.read = NoRead /\ Idle.since = 0
    /\ [Idle EXCEPT !.at = "done"].at = "done" /\ [Idle EXCEPT !.at = "done"].read = NoRead
    /\ [Idle EXCEPT !.at = "done"].since = 0
    /\ NoRead.github.step = "lookup"
<1>1. <<"none">> \in Values
  BY DEF Values
<1>2. NoContext \in Contexts /\ Unread \in States /\ NoEntry \in Entries
  BY <1>1 DEF NoContext, Contexts, Unread, States, NoEntry, Entries, Marks
<1>3. NoRead \in ReadSet /\ NoRead.github = Unread /\ Unread.step = "lookup"
  BY <1>2 DEF NoRead, ReadSet, Marks, Unread
<1>4. Idle \in Requests /\ [Idle EXCEPT !.at = "done"] \in Requests
  BY <1>2, <1>3, ContextConstants DEF Idle, Requests
<1>5. /\ Idle.at = "idle" /\ Idle.read = NoRead /\ Idle.since = 0
      /\ [Idle EXCEPT !.at = "done"].at = "done" /\ [Idle EXCEPT !.at = "done"].read = NoRead
      /\ [Idle EXCEPT !.at = "done"].since = 0
  BY DEF Idle
<1> QED
  BY <1>2, <1>3, <1>4, <1>5

\* A read of GitHub changes nothing else of the request.
LEMMA ReadsTyped ==
    ASSUME ContextTypes, NEW t \in Threads, NEW g \in States, Reads(t, g)
    PROVE  \E r \in Requests :
             /\ request' = [request EXCEPT ![t] = r]
             /\ r.read.github = g /\ r.at = request[t].at /\ r.link = request[t].link
             /\ r.since = request[t].since /\ r.version = request[t].version
             /\ r.shown = request[t].shown /\ r.context = request[t].context
<1> DEFINE q == request[t]
           d == [q.read EXCEPT !.github = g]
           r == [q EXCEPT !.read = d]
<1>1. q \in Requests /\ q.read \in ReadSet
  BY DEF ContextTypes, Requests
<1>2. request' = [request EXCEPT ![t] = r]
  BY DEF Reads
<1> HIDE DEF q
<1>3. d \in ReadSet /\ d.github = g
  BY <1>1 DEF ReadSet
<1> HIDE DEF d
<1>4. /\ r \in Requests /\ r.read = d /\ r.at = q.at /\ r.link = q.link /\ r.since = q.since
      /\ r.version = q.version /\ r.shown = q.shown /\ r.context = q.context
  BY <1>1, <1>3 DEF Requests
<1> QED
  BY <1>2, <1>3, <1>4 DEF q

-----------------------------------------------------------------------------
(***************************************************************************)
(* The invariant.  A read that is under way is no older than the limit, so *)
(* the version it got was replaced, if at all, after it began; the entry   *)
(* of the cache is at most one read older than its expiry says.  What a    *)
(* decide was shown is kept under its key until the turn ends: the key     *)
(* names the thread, which has one turn at a time.                         *)
(***************************************************************************)

Dated(l, v, time) == v = pull[l] \/ replaced[l][v] + ReadLimit >= time

Timely(r) ==
    /\ r.since <= clock
    /\ r.at = "reading" /\ r.read.github.step # "have" => clock <= r.since + ReadLimit
    /\ r.at # "reading" => r.read = NoRead
    /\ r.at \notin {"idle", "done"} => r.link \in Links

Honest(r) ==
    LET g == r.read.github
    IN  /\ g.step = "rest" /\ g.value[1] = "pull" => Dated(r.link, g.value[2], r.since + ReadLimit)
        /\ g.step = "have" => g.when <= clock
        /\ g.step = "have" /\ g.value[1] = "pull" /\ g.value[2] # pull[r.link] =>
              replaced[r.link][g.value[2]] + g.age + ReadLimit >= g.when

Remembered(t, r) ==
    /\ r.at \in {"deciding", "repair", "repairing"} => kept[<<t, r.version, r.link>>] = r.shown
    /\ r.at = "repairing" => r.context = r.shown

Fresh(l) ==
    LET e == cache[l]
    IN  /\ e.expiry <= clock + CacheSeconds
        /\ e.value[1] = "pull" => Dated(l, e.value[2], e.expiry - CacheSeconds)

Sound(t, r) == Timely(r) /\ Honest(r) /\ Remembered(t, r)

ContextInv ==
    /\ ContextTypes
    /\ \A t \in Threads : Sound(t, request[t])
    /\ \A l \in Links : Fresh(l)

\* The requests of other threads do not move.
LEMMA ThreadMoves ==
    ASSUME ContextInv, NEW t \in Threads, NEW r \in Requests,
           request' = [request EXCEPT ![t] = r], UNCHANGED <<clock, pull, replaced>>, Counted',
           cache' \in [Links -> Entries], \A l \in Links : Fresh(l)',
           kept' \in [Keys -> Contexts], \A k \in Keys : k[1] # t => kept'[k] = kept[k],
           Sound(t, r)'
    PROVE  ContextInv'
<1>1. ContextTypes'
  <2>2. request' \in [Threads -> Requests]
    BY DEF ContextInv, ContextTypes
  <2> QED
    BY <2>2 DEF ContextInv, ContextTypes
<1>2. ASSUME NEW u \in Threads PROVE Sound(u, request[u])'
  <2>1. CASE u = t
    <3>1. request'[u] = r
      BY <2>1 DEF ContextInv, ContextTypes
    <3> QED
      BY <2>1, <3>1 DEF Sound, Timely, Honest, Remembered, Dated
  <2>2. CASE u # t
    <3>1. request'[u] = request[u] /\ Sound(u, request[u]) /\ request[u] \in Requests
      BY <2>2 DEF ContextInv, ContextTypes
    <3>2. Timely(request[u])' /\ Honest(request[u])'
      BY <3>1 DEF Sound, Timely, Honest, Dated
    <3>3. request[u].at \in {"deciding", "repair", "repairing"} =>
             <<u, request[u].version, request[u].link>> \in Keys
      BY <3>1 DEF Sound, Timely, Keys, Requests
    <3>4. <<u, request[u].version, request[u].link>>[1] = u
      OBVIOUS
    <3>5. Remembered(u, request[u])'
      BY <2>2, <3>1, <3>3, <3>4 DEF Sound, Remembered
    <3> QED
      BY <3>2, <3>5 DEF Sound
  <2> QED
    BY <2>1, <2>2
<1> QED
  BY <1>1, <1>2 DEF ContextInv

\* A cache that is left alone stays fresh as long as the clock and GitHub stand.
LEMMA CacheStays ==
    ASSUME ContextInv, UNCHANGED <<clock, pull, replaced, cache>>
    PROVE  cache' \in [Links -> Entries] /\ \A l \in Links : Fresh(l)'
  BY DEF ContextInv, ContextTypes, Fresh, Dated

\* A request at rest is sound.
LEMMA RestSound ==
    ASSUME ContextInv, NEW t \in Threads, clock' = clock
    PROVE  Sound(t, Idle)' /\ Sound(t, [Idle EXCEPT !.at = "done"])'
<1>1. clock' \in Nat
  BY DEF ContextInv, ContextTypes
<1> QED
  BY <1>1, RestTyped DEF Sound, Timely, Honest, Remembered

\* A step of a read of GitHub: what it got must be dated honestly.
LEMMA ReadMoves ==
    ASSUME ContextInv, NEW t \in Threads, NEW g \in States, Reads(t, g),
           At(t, "reading"), request[t].read.github.step # "have",
           UNCHANGED <<clock, pull, replaced, kept>>, Counted',
           cache' \in [Links -> Entries], \A l \in Links : Fresh(l)',
           g.step = "rest" /\ g.value[1] = "pull" =>
              Dated(request[t].link, g.value[2], request[t].since + ReadLimit),
           g.step = "have" => g.when <= clock,
           g.step = "have" /\ g.value[1] = "pull" /\ g.value[2] # pull[request[t].link] =>
              replaced[request[t].link][g.value[2]] + g.age + ReadLimit >= g.when
    PROVE  ContextInv'
<1>t. ContextTypes /\ Sound(t, request[t])
  BY DEF ContextInv
<1>1. PICK r \in Requests :
         /\ request' = [request EXCEPT ![t] = r]
         /\ r.read.github = g /\ r.at = request[t].at /\ r.link = request[t].link
         /\ r.since = request[t].since /\ r.version = request[t].version
         /\ r.shown = request[t].shown /\ r.context = request[t].context
  BY <1>t, ReadsTyped
<1>2. r.at = "reading"
  BY <1>1 DEF At
<1>3. Timely(r)'
  BY <1>t, <1>1, <1>2 DEF Sound, Timely, At
<1>4. Honest(r)'
  BY <1>1, <1>2 DEF Honest, Dated
<1>5. Remembered(t, r)'
  BY <1>2 DEF Remembered
<1>6. Sound(t, r)'
  BY <1>3, <1>4, <1>5 DEF Sound
<1>7. kept' \in [Keys -> Contexts] /\ \A k \in Keys : k[1] # t => kept'[k] = kept[k]
  BY <1>t DEF ContextTypes
<1> QED
  BY <1>1, <1>6, <1>7, ThreadMoves

\* An upset counts.
LEMMA UpsetCounts ==
    ASSUME ContextTypes, version' = version, UNCHANGED upsets \/ Upset
    PROVE  Counted'
<1>1. upsets \in Nat /\ upsets' \in 0 .. MaxUpsets /\ upsets <= upsets'
  BY ContextConstants DEF ContextTypes, Counted, Upset
<1>2. \A t \in Threads : version[t] \in Nat /\ version[t] <= upsets
  BY DEF ContextTypes, Counted
<1> QED
  BY <1>1, <1>2 DEF ContextTypes, Counted

\* What is read from GitHub, or given up, as a state.
LEMMA FetchedTyped ==
    ASSUME ContextTypes, NEW v \in Values
    PROVE  /\ Fetched(v) \in States /\ Fetched(v).step = "have" /\ Fetched(v).value = v
           /\ Fetched(v).age = 0 /\ Fetched(v).when = clock
  BY DEF ContextTypes, Fetched, States

\* A read that goes on.
LEMMA UnreadTyped ==
    ASSUME NEW v \in Values
    PROVE  /\ [Unread EXCEPT !.step = "rest", !.value = v] \in States
           /\ [Unread EXCEPT !.step = "rest", !.value = v].step = "rest"
           /\ [Unread EXCEPT !.step = "rest", !.value = v].value = v
           /\ [Unread EXCEPT !.step = "fetch"] \in States
           /\ [Unread EXCEPT !.step = "fetch"].step = "fetch"
  BY RestTyped DEF States, Unread

\* The steps of a read keep the invariant.
LEMMA ReadStep ==
    ASSUME ContextInv, NEW t \in Threads, LookUp(t) \/ FetchPull(t) \/ KeepState(t) \/ GiveUpRead(t)
    PROVE  ContextInv'
<1>t. /\ ContextTypes /\ Sound(t, request[t]) /\ request[t] \in Requests
      /\ request[t].since \in Nat /\ clock \in Nat /\ ReadLimit \in Nat /\ CacheSeconds \in Nat
  BY ContextConstants DEF ContextInv, ContextTypes, Requests
<1>u. UNCHANGED <<clock, pull, replaced, version, kept>> /\ At(t, "reading")
  BY DEF LookUp, FetchPull, KeepState, GiveUpRead, Reading, Late
<1>l. request[t].link \in Links /\ Fresh(request[t].link)
  BY <1>t, <1>u DEF ContextInv, Sound, Timely, At
<1>h. request[t].read.github.step # "have"
  BY DEF LookUp, FetchPull, KeepState, GiveUpRead, Reading, Late
<1>c. clock <= request[t].since + ReadLimit /\ request[t].since <= clock
  BY <1>t, <1>u, <1>h DEF Sound, Timely, At
<1>p. Counted'
  <2>1. UNCHANGED upsets \/ Upset
    BY DEF LookUp, FetchPull, KeepState, GiveUpRead
  <2> QED
    BY <1>t, <1>u, <2>1, UpsetCounts
<1>e. /\ <<"error">> \in Values /\ <<"timeout">> \in Values /\ <<"unrecorded">> \in Values
      /\ \A v \in 0 .. MaxVersion : <<"pull", v>> \in Values
  BY DEF Values
<1>i. PICK l \in Links : l = request[t].link
  BY <1>l
<1>1. CASE LookUp(t)
  <2> DEFINE e == cache[l]
  <2>0. UNCHANGED cache /\ e \in Entries
    BY <1>1, <1>t, <1>l, <1>i DEF LookUp, ContextTypes
  <2>1. CASE e.expiry > clock /\ Reads(t, Quoted(e))
    <3> DEFINE g == [Fetched(e.value) EXCEPT !.age = clock - (e.expiry - CacheSeconds)]
    <3>1. Reads(t, g)
      BY <2>1 DEF Quoted
    <3>2. e.expiry \in Nat /\ e.value \in Values /\ e.expiry <= clock + CacheSeconds
      BY <1>l, <1>i, <2>0 DEF Entries, Fresh
    <3>3. clock - (e.expiry - CacheSeconds) \in Nat
      BY <1>t, <3>2
    <3>4. /\ g \in States /\ g.step = "have" /\ g.value = e.value /\ g.when = clock
          /\ g.age = clock - (e.expiry - CacheSeconds)
      BY <1>t, <3>2, <3>3, FetchedTyped DEF States
    <3> HIDE DEF g
    <3>5. ASSUME g.value[1] = "pull", g.value[2] # pull[l]
          PROVE  replaced[l][g.value[2]] + g.age + ReadLimit >= g.when
      <4>1. g.value[2] \in 0 .. MaxVersion
        BY <3>2, <3>4, <3>5, PullTyped
      <4>2. replaced[l][g.value[2]] \in Nat
        BY <1>t, <1>l, <1>i, <4>1 DEF ContextTypes
      <4>3. replaced[l][g.value[2]] + ReadLimit >= e.expiry - CacheSeconds
        BY <1>l, <1>i, <3>4, <3>5 DEF Fresh, Dated
      <4> QED
        BY <1>t, <3>2, <3>4, <4>2, <4>3
    <3>6. cache' \in [Links -> Entries] /\ \A m \in Links : Fresh(m)'
      BY <1>u, <2>0, CacheStays
    <3> QED
      BY <1>t, <1>u, <1>h, <1>i, <1>p, <3>1, <3>4, <3>5, <3>6, ReadMoves
  <2>2. CASE Reads(t, [Unread EXCEPT !.step = "fetch"])
    <3>2. [Unread EXCEPT !.step = "fetch"] \in States /\ [Unread EXCEPT !.step = "fetch"].step = "fetch"
      BY <1>e, UnreadTyped
    <3>3. cache' \in [Links -> Entries] /\ \A m \in Links : Fresh(m)'
      BY <1>u, <2>0, CacheStays
    <3> QED
      BY <1>t, <1>u, <1>h, <1>i, <1>p, <2>2, <3>2, <3>3, ReadMoves
  <2>3. CASE Reads(t, Fetched(<<"unrecorded">>))
    <3>0. <<"unrecorded">> \in Values /\ <<"unrecorded">>[1] = "unrecorded"
      BY <1>e
    <3>1. /\ Fetched(<<"unrecorded">>) \in States /\ Fetched(<<"unrecorded">>).step = "have"
          /\ Fetched(<<"unrecorded">>).value[1] = "unrecorded" /\ Fetched(<<"unrecorded">>).when = clock
      BY <1>t, <3>0, FetchedTyped
    <3>2. cache' \in [Links -> Entries] /\ \A m \in Links : Fresh(m)'
      BY <1>u, <2>0, CacheStays
    <3> QED
      BY <1>t, <1>u, <1>h, <1>i, <1>p, <2>3, <3>1, <3>2, ReadMoves
  <2>4. \/ e.expiry > clock /\ Reads(t, Quoted(e))
        \/ Reads(t, [Unread EXCEPT !.step = "fetch"])
        \/ Reads(t, Fetched(<<"unrecorded">>))
    BY <1>1, <1>i DEF LookUp
  <2> QED
    BY <2>1, <2>2, <2>3, <2>4
<1>2. CASE FetchPull(t)
  <2>0. cache' \in [Links -> Entries] /\ \A m \in Links : Fresh(m)'
    BY <1>2, <1>u, CacheStays DEF FetchPull
  <2>1. ASSUME NEW v \in {<<"error">>, <<"pull", pull[l]>>}, Reads(t, [Unread EXCEPT !.step = "rest", !.value = v])
        PROVE  ContextInv'
    <3> DEFINE g == [Unread EXCEPT !.step = "rest", !.value = v]
    <3>1. v \in Values
      BY <1>e, <1>t, <1>l, <1>i DEF ContextTypes
    <3>2. g \in States /\ g.step = "rest" /\ g.value = v
      BY <3>1, UnreadTyped
    <3> HIDE DEF g
    <3>3. v[1] = "pull" => v[2] = pull[l]
      OBVIOUS
    <3>4. Reads(t, g)
      BY <2>1 DEF g
    <3> QED
      BY <1>t, <1>u, <1>h, <1>i, <1>p, <2>0, <3>2, <3>3, <3>4, ReadMoves DEF Dated
  <2>2. CASE Reads(t, Fetched(<<"unrecorded">>))
    <3>0. <<"unrecorded">> \in Values /\ <<"unrecorded">>[1] = "unrecorded"
      BY <1>e
    <3>1. /\ Fetched(<<"unrecorded">>) \in States /\ Fetched(<<"unrecorded">>).step = "have"
          /\ Fetched(<<"unrecorded">>).value[1] = "unrecorded" /\ Fetched(<<"unrecorded">>).when = clock
      BY <1>t, <3>0, FetchedTyped
    <3> QED
      BY <1>t, <1>u, <1>h, <1>i, <1>p, <2>0, <2>2, <3>1, ReadMoves
  <2> QED
    BY <1>2, <1>i, <2>1, <2>2 DEF FetchPull
<1>3. CASE KeepState(t)
  <2> DEFINE v == request[t].read.github.value
             g == Fetched(v)
             e == [expiry |-> clock + CacheSeconds, value |-> v]
  <2>1. v \in Values /\ request[t].read.github.step = "rest"
    BY <1>3, <1>t DEF KeepState, Reading, Requests, ReadSet, States
  <2>2. Reads(t, g) /\ cache' = [cache EXCEPT ![l] = e]
    BY <1>3, <1>i DEF KeepState
  <2>3. v[1] = "pull" => Dated(l, v[2], request[t].since + ReadLimit)
    BY <1>t, <1>i, <2>1 DEF Sound, Honest
  <2>4. g \in States /\ g.step = "have" /\ g.value = v /\ g.age = 0 /\ g.when = clock
    BY <1>t, <2>1, FetchedTyped
  <2>5. e \in Entries /\ e.expiry = clock + CacheSeconds /\ e.value = v
    BY <1>t, <2>1 DEF Entries
  <2> HIDE DEF v, g, e
  <2>6. v[1] = "pull" /\ v[2] # pull[l] => replaced[l][v[2]] \in Nat /\ replaced[l][v[2]] + ReadLimit >= clock
    <3>1. v[1] = "pull" => v[2] \in 0 .. MaxVersion
      BY <2>1, PullTyped
    <3>2. v[1] = "pull" => replaced[l][v[2]] \in Nat
      BY <1>t, <1>l, <1>i, <3>1 DEF ContextTypes
    <3> QED
      BY <1>t, <1>c, <2>3, <3>2 DEF Dated
  <2>7. cache' \in [Links -> Entries] /\ cache'[l] = e /\ \A m \in Links : m # l => cache'[m] = cache[m]
    BY <1>t, <1>l, <1>i, <2>2, <2>5 DEF ContextTypes
  <2>8. Fresh(l)'
    <3>1. cache'[l].expiry = clock + CacheSeconds /\ cache'[l].value = v
      BY <2>5, <2>7
    <3>2. clock + CacheSeconds - CacheSeconds = clock
      BY <1>t
    <3>3. v[1] = "pull" => Dated(l, v[2], clock)
      BY <2>6 DEF Dated
    <3> QED
      BY <1>t, <1>u, <3>1, <3>2, <3>3 DEF Fresh, Dated
  <2>9. \A m \in Links : Fresh(m)'
    BY <1>u, <2>7, <2>8 DEF ContextInv, Fresh, Dated
  <2>10. g.value[1] = "pull" /\ g.value[2] # pull[l] => replaced[l][g.value[2]] + g.age + ReadLimit >= g.when
    BY <1>t, <2>4, <2>6
  <2> QED
    BY <1>t, <1>u, <1>h, <1>i, <1>p, <2>2, <2>4, <2>7, <2>9, <2>10, ReadMoves
<1>4. CASE GiveUpRead(t)
  <2>1. Reads(t, Fetched(<<"timeout">>)) /\ UNCHANGED cache
    BY <1>4 DEF GiveUpRead
  <2>0. <<"timeout">> \in Values /\ <<"timeout">>[1] = "timeout"
    BY <1>e
  <2>2. /\ Fetched(<<"timeout">>) \in States /\ Fetched(<<"timeout">>).step = "have"
        /\ Fetched(<<"timeout">>).value[1] = "timeout" /\ Fetched(<<"timeout">>).when = clock
    BY <1>t, <2>0, FetchedTyped
  <2>3. cache' \in [Links -> Entries] /\ \A m \in Links : Fresh(m)'
    BY <1>u, <2>1, CacheStays
  <2> QED
    BY <1>t, <1>u, <1>h, <1>i, <1>p, <2>1, <2>2, <2>3, ReadMoves
<1> QED
  BY <1>1, <1>2, <1>3, <1>4

\* The other steps of a turn keep the invariant.
LEMMA TurnStep ==
    ASSUME ContextInv, NEW t \in Threads,
           \/ Begin(t) \/ ReadFiles(t) \/ ReadLinked(t) \/ Snapshot(t) \/ Answered(t)
           \/ PrepareRepair(t) \/ DropCall(t) \/ CannotPrepare(t) \/ NewInput(t)
    PROVE  ContextInv'
<1>t. /\ ContextTypes /\ Sound(t, request[t]) /\ request[t] \in Requests /\ clock \in Nat
      /\ request[t].read \in ReadSet /\ ReadLimit \in Nat /\ kept \in [Keys -> Contexts]
  BY ContextConstants DEF ContextInv, ContextTypes, Requests
<1>u. UNCHANGED <<clock, pull, replaced, cache>>
  BY DEF Begin, ReadFiles, ReadLinked, Snapshot, Answered, PrepareRepair, DropCall, CannotPrepare, NewInput
<1>c. cache' \in [Links -> Entries] /\ \A m \in Links : Fresh(m)'
  BY <1>u, CacheStays
<1>p. ~NewInput(t) => Counted'
  <2>1. ~NewInput(t) => version' = version /\ (UNCHANGED upsets \/ Upset)
    BY DEF Begin, ReadFiles, ReadLinked, Snapshot, Answered, PrepareRepair, DropCall, CannotPrepare
  <2> QED
    BY <1>t, <2>1, UpsetCounts
<1>k. kept' = kept => kept' \in [Keys -> Contexts] /\ \A k \in Keys : k[1] # t => kept'[k] = kept[k]
  BY <1>t
<1>r. Sound(t, Idle)' /\ Sound(t, [Idle EXCEPT !.at = "done"])'
  BY <1>u, RestSound
<1>n. NewInput(t) => version' # version
  BY <1>t DEF NewInput, ContextTypes, Counted
<1>1. CASE Begin(t)
  <2>1. PICK l \in Links : request' = [request EXCEPT ![t] = [Idle EXCEPT !.at = "reading",
                              !.version = version[t], !.link = l, !.since = clock]]
    BY <1>1 DEF Begin
  <2> DEFINE r == [Idle EXCEPT !.at = "reading", !.version = version[t], !.link = l, !.since = clock]
  <2>2. version[t] \in 0 .. MaxUpsets
    BY <1>t, ContextConstants DEF ContextTypes, Counted
  <2>3. r \in Requests /\ r.at = "reading" /\ r.link = l /\ r.since = clock /\ r.read = Idle.read
    BY <1>t, <2>2, RestTyped DEF Requests
  <2>4. ~NewInput(t) /\ kept' = kept
    BY <1>1, <1>n DEF Begin
  <2>5. PICK q \in Requests : /\ request' = [request EXCEPT ![t] = q]
                              /\ q.at = "reading" /\ q.link = l /\ q.since = clock /\ q.read = NoRead
    BY <2>1, <2>3, RestTyped
  <2>6. Sound(t, q)'
    BY <1>t, <1>u, <2>5, RestTyped DEF Sound, Timely, Honest, Remembered
  <2> QED
    BY <1>u, <1>c, <1>p, <1>k, <2>4, <2>5, <2>6, ThreadMoves
<1>2. CASE ReadFiles(t) \/ ReadLinked(t)
  <2>1. PICK m \in Marks : \/ request' = [request EXCEPT ![t] = [request[t] EXCEPT !.read =
                                            [request[t].read EXCEPT !.files = m]]]
                           \/ request' = [request EXCEPT ![t] = [request[t] EXCEPT !.read =
                                            [request[t].read EXCEPT !.linked = m]]]
    BY <1>2 DEF ReadFiles, ReadLinked, Marks
  <2>2. PICK d \in ReadSet : /\ request' = [request EXCEPT ![t] = [request[t] EXCEPT !.read = d]]
                             /\ d.github = request[t].read.github
    BY <1>t, <2>1 DEF ReadSet
  <2> DEFINE r == [request[t] EXCEPT !.read = d]
  <2>3. /\ r \in Requests /\ r.at = request[t].at /\ r.link = request[t].link /\ r.since = request[t].since
        /\ r.read = d
    BY <1>t DEF Requests
  <2>4. request[t].at = "reading" /\ ~NewInput(t) /\ kept' = kept
    BY <1>2, <1>n DEF ReadFiles, ReadLinked, At
  <2>5. PICK q \in Requests : /\ request' = [request EXCEPT ![t] = q]
                              /\ q.at = request[t].at /\ q.link = request[t].link
                              /\ q.since = request[t].since /\ q.read = d
    BY <2>2, <2>3
  <2>6. Sound(t, q)'
    BY <1>t, <1>u, <2>2, <2>4, <2>5 DEF Sound, Timely, Honest, Dated, Remembered
  <2> QED
    BY <1>u, <1>c, <1>p, <1>k, <2>4, <2>5, <2>6, ThreadMoves
<1>3. CASE Snapshot(t)
  <2> DEFINE d == request[t].read
             c == [files |-> d.files, linked |-> d.linked, value |-> d.github.value, age |-> d.github.age]
             r == [request[t] EXCEPT !.at = "deciding", !.since = 0, !.read = NoRead, !.shown = c, !.context = c]
  <2>1. c \in Contexts
    BY <1>t DEF ReadSet, States, Contexts
  <2>2. ~NewInput(t) /\ request[t].at = "reading"
    BY <1>3, <1>n DEF Snapshot, Reading, At
  <2>3. CASE request' = [request EXCEPT ![t] = Idle] /\ kept' = kept
    BY <1>u, <1>c, <1>p, <1>k, <1>r, <2>2, <2>3, RestTyped, ThreadMoves
  <2>4. CASE request' = [request EXCEPT ![t] = r] /\ kept' = [kept EXCEPT ![Key(t)] = c]
    <3>1. Key(t) \in Keys
      BY <1>t, <2>2 DEF Key, Keys, Sound, Timely, Requests
    <3>2. kept' \in [Keys -> Contexts] /\ kept'[Key(t)] = c
      BY <1>t, <2>1, <2>4, <3>1
    <3>3. \A k \in Keys : k[1] # t => kept'[k] = kept[k]
      <4>1. Key(t)[1] = t
        BY DEF Key
      <4> QED
        BY <1>t, <2>4, <3>1, <4>1
    <3> HIDE DEF c
    <3>4. /\ r \in Requests /\ r.at = "deciding" /\ r.since = 0 /\ r.read = NoRead /\ r.shown = c
          /\ r.version = request[t].version /\ r.link = request[t].link
      BY <1>t, <2>1, RestTyped DEF Requests
    <3>5. PICK q \in Requests : /\ request' = [request EXCEPT ![t] = q]
                                /\ q.at = "deciding" /\ q.since = 0 /\ q.read = NoRead /\ q.shown = c
                                /\ q.version = request[t].version /\ q.link = request[t].link
      BY <2>4, <3>4
    <3>6. kept'[<<t, q.version, q.link>>] = q.shown
      BY <3>2, <3>5 DEF Key
    <3>7. Sound(t, q)'
      BY <1>t, <1>u, <2>2, <3>5, <3>6, RestTyped DEF Sound, Timely, Honest, Remembered
    <3> QED
      BY <1>u, <1>c, <1>p, <2>2, <3>2, <3>3, <3>5, <3>7, ThreadMoves
  <2> QED
    BY <1>3, <2>3, <2>4 DEF Snapshot, Persist
<1>4. CASE Answered(t) \/ DropCall(t) \/ CannotPrepare(t) \/ PrepareRepair(t)
  <2>1. kept' = kept /\ ~NewInput(t)
    BY <1>4, <1>n DEF Answered, DropCall, CannotPrepare, PrepareRepair
  <2>2. CASE request' = [request EXCEPT ![t] = Idle] \/ request' = [request EXCEPT ![t] = [Idle EXCEPT !.at = "done"]]
    BY <1>u, <1>c, <1>p, <1>k, <1>r, <2>1, <2>2, RestTyped, ThreadMoves
  <2>3. CASE At(t, "deciding") /\ request' = [request EXCEPT ![t] = [request[t] EXCEPT !.at = "repair"]]
    <3> DEFINE r == [request[t] EXCEPT !.at = "repair"]
    <3>1. /\ r \in Requests /\ r.at = "repair" /\ r.since = request[t].since /\ r.read = request[t].read
          /\ r.shown = request[t].shown /\ r.version = request[t].version /\ r.link = request[t].link
      BY <1>t DEF Requests
    <3>2. PICK q \in Requests :
             /\ request' = [request EXCEPT ![t] = q]
             /\ q.at = "repair" /\ q.since = request[t].since /\ q.read = request[t].read
             /\ q.shown = request[t].shown /\ q.version = request[t].version /\ q.link = request[t].link
      BY <2>3, <3>1
    <3>3. Sound(t, q)'
      BY <1>t, <1>u, <2>1, <2>3, <3>2, RestTyped DEF Sound, Timely, Honest, Remembered, At
    <3> QED
      BY <1>u, <1>c, <1>p, <1>k, <2>1, <3>2, <3>3, ThreadMoves
  <2>4. CASE /\ At(t, "repair")
             /\ request' = [request EXCEPT ![t] = [request[t] EXCEPT !.at = "repairing", !.context = kept[Key(t)]]]
    <3>1. kept[Key(t)] = request[t].shown /\ request[t].shown \in Contexts
      BY <1>t, <2>4 DEF Sound, Remembered, At, Key, Requests
    <3> DEFINE s == request[t].shown
               r == [request[t] EXCEPT !.at = "repairing", !.context = s]
    <3>2. request' = [request EXCEPT ![t] = r]
      BY <2>4, <3>1
    <3> HIDE DEF s
    <3>3. /\ r \in Requests /\ r.at = "repairing" /\ r.since = request[t].since /\ r.read = request[t].read
          /\ r.shown = request[t].shown /\ r.version = request[t].version /\ r.link = request[t].link
          /\ r.context = s
      BY <1>t, <3>1 DEF Requests, s
    <3>4. PICK q \in Requests :
             /\ request' = [request EXCEPT ![t] = q]
             /\ q.at = "repairing" /\ q.since = request[t].since /\ q.read = request[t].read
             /\ q.shown = request[t].shown /\ q.version = request[t].version /\ q.link = request[t].link
             /\ q.context = request[t].shown
      BY <3>2, <3>3 DEF s
    <3>5. Sound(t, q)'
      BY <1>t, <1>u, <2>1, <2>4, <3>4, RestTyped DEF Sound, Timely, Honest, Remembered, At
    <3> QED
      BY <1>u, <1>c, <1>p, <1>k, <2>1, <3>4, <3>5, ThreadMoves
  <2> QED
    BY <1>4, <2>2, <2>3, <2>4 DEF Answered, DropCall, CannotPrepare, PrepareRepair
<1>5. CASE NewInput(t)
  <2>1. /\ kept' = kept /\ version' = [version EXCEPT ![t] = version[t] + 1] /\ Upset
        /\ \/ request' = [request EXCEPT ![t] = Idle]
           \/ request' = [request EXCEPT ![t] = request[t]]
    BY <1>5 DEF NewInput
  <2>2. Counted'
    <3>1. /\ upsets \in Nat /\ upsets' = upsets + 1 /\ upsets' \in 0 .. MaxUpsets
          /\ \A u \in Threads : version[u] \in Nat /\ version[u] <= upsets
      BY <1>t, <2>1, ContextConstants DEF ContextTypes, Counted, Upset
    <3>2. \A u \in Threads : version'[u] = version[u] \/ version'[u] = version[u] + 1
      BY <1>t, <2>1 DEF ContextTypes, Counted
    <3>3. version' \in [Threads -> Nat]
      BY <1>t, <2>1 DEF ContextTypes, Counted
    <3> QED
      BY <3>1, <3>2, <3>3 DEF Counted
  <2>3. Sound(t, request[t]) => \A r : r = request[t] => Sound(t, r)'
    BY <1>u, <2>1 DEF Sound, Timely, Honest, Dated, Remembered
  <2> QED
    BY <1>t, <1>u, <1>c, <1>k, <1>r, <2>1, <2>2, <2>3, RestTyped, ThreadMoves
<1> QED
  BY <1>1, <1>2, <1>3, <1>4, <1>5

-----------------------------------------------------------------------------
(* Every step, and the theorems.                                           *)

\* GitHub replaces a version now: whatever shows that version was read before.
LEMMA GithubStep ==
    ASSUME ContextInv, NEW l \in Links, GithubChanges(l)
    PROVE  ContextInv'
<1>t. /\ ContextTypes /\ clock \in Nat /\ ReadLimit \in Nat /\ CacheSeconds \in Nat
      /\ pull \in [Links -> 0 .. MaxVersion] /\ replaced \in [Links -> [0 .. MaxVersion -> Nat]]
  BY ContextConstants DEF ContextInv, ContextTypes
<1>1. /\ pull[l] < MaxVersion /\ pull' = [pull EXCEPT ![l] = pull[l] + 1]
      /\ replaced' = [replaced EXCEPT ![l] = [replaced[l] EXCEPT ![pull[l]] = clock]]
      /\ UNCHANGED <<clock, cache, request, kept, version, upsets>>
  BY DEF GithubChanges
<1>2. /\ pull' \in [Links -> 0 .. MaxVersion] /\ replaced' \in [Links -> [0 .. MaxVersion -> Nat]]
      /\ pull'[l] # pull[l] /\ replaced'[l][pull[l]] = clock
      /\ \A v \in 0 .. MaxVersion : v # pull[l] => replaced'[l][v] = replaced[l][v]
      /\ \A m \in Links : m # l => pull'[m] = pull[m] /\ replaced'[m] = replaced[m]
  <2> DEFINE old == replaced[l]
             at == pull[l]
             row == [old EXCEPT ![at] = clock]
  <2>1. at \in 0 .. MaxVersion /\ at + 1 \in 0 .. MaxVersion /\ at + 1 # at /\ old \in [0 .. MaxVersion -> Nat]
    BY <1>t, <1>1, ContextConstants
  <2>2. /\ row \in [0 .. MaxVersion -> Nat] /\ row[at] = clock
        /\ \A v \in 0 .. MaxVersion : v # at => row[v] = old[v]
    <3> HIDE DEF old, at
    <3> QED
      BY <1>t, <2>1
  <2>3. replaced' = [replaced EXCEPT ![l] = row]
    BY <1>1
  <2> HIDE DEF row
  <2>4. /\ pull' \in [Links -> 0 .. MaxVersion] /\ pull'[l] = pull[l] + 1
        /\ \A m \in Links : m # l => pull'[m] = pull[m]
    BY <1>t, <1>1, <2>1
  <2>5. /\ replaced' \in [Links -> [0 .. MaxVersion -> Nat]] /\ replaced'[l] = row
        /\ \A m \in Links : m # l => replaced'[m] = replaced[m]
    BY <1>t, <2>2, <2>3
  <2> QED
    BY <2>1, <2>2, <2>4, <2>5
<1>3. ContextTypes'
  BY <1>t, <1>1, <1>2 DEF ContextTypes, Counted
<1>4. ASSUME NEW m \in Links, NEW v \in 0 .. MaxVersion, NEW time \in Int, Dated(m, v, time),
             time <= clock + ReadLimit
      PROVE  Dated(m, v, time)'
  <2>1. CASE m = l /\ v = pull[l]
    <3>1. replaced'[m][v] + ReadLimit >= time
      BY <1>t, <1>2, <1>4, <2>1
    <3> QED
      BY <3>1 DEF Dated
  <2>2. CASE ~(m = l /\ v = pull[l])
    <3>1. replaced'[m][v] = replaced[m][v]
      BY <1>2, <2>2
    <3>2. v = pull[m] => v = pull'[m]
      BY <1>2, <2>2
    <3> QED
      BY <1>4, <3>1, <3>2 DEF Dated
  <2> QED
    BY <2>1, <2>2
<1>5. ASSUME NEW m \in Links PROVE Fresh(m)'
  <2>1. cache[m] \in Entries /\ Fresh(m)
    BY <1>t DEF ContextInv, ContextTypes
  <2>2. cache[m].value \in Values /\ cache[m].expiry \in Nat /\ cache[m].expiry <= clock + CacheSeconds
    BY <2>1 DEF Entries, Fresh
  <2>3. cache[m].value[1] = "pull" => cache[m].value[2] \in 0 .. MaxVersion
    BY <2>2, PullTyped
  <2>4. cache[m].expiry - CacheSeconds \in Int /\ cache[m].expiry - CacheSeconds <= clock + ReadLimit
    BY <1>t, <2>2
  <2>5. cache[m].value[1] = "pull" => Dated(m, cache[m].value[2], cache[m].expiry - CacheSeconds)'
    <3>1. SUFFICES ASSUME cache[m].value[1] = "pull"
                   PROVE  Dated(m, cache[m].value[2], cache[m].expiry - CacheSeconds)'
      OBVIOUS
    <3>2. PICK v \in 0 .. MaxVersion, time \in Int : v = cache[m].value[2] /\ time = cache[m].expiry - CacheSeconds
      BY <2>3, <2>4, <3>1
    <3>3. Dated(m, v, time)'
      BY <1>4, <2>1, <2>4, <3>1, <3>2 DEF Fresh
    <3> QED
      BY <1>1, <3>2, <3>3 DEF Dated
  <2> QED
    BY <1>1, <2>2, <2>5 DEF Fresh
<1>6. ASSUME NEW t \in Threads PROVE Sound(t, request[t])'
  <2> DEFINE r == request[t]
             g == r.read.github
  <2>1. r \in Requests /\ Sound(t, r) /\ g \in States /\ r.since \in Nat
    BY <1>t DEF ContextInv, ContextTypes, Requests, ReadSet
  <2>2. Timely(r)' /\ Remembered(t, r)'
    BY <1>1, <2>1 DEF Sound, Timely, Remembered
  <2>3. g.value[1] = "pull" => g.value[2] \in 0 .. MaxVersion
    BY <2>1, PullTyped DEF States
  <2>4. g.step # "lookup" => r.link \in Links
    BY <2>1, RestTyped DEF Sound, Timely
  <2>5. g.step = "rest" /\ g.value[1] = "pull" => Dated(r.link, g.value[2], r.since + ReadLimit)'
    <3>1. SUFFICES ASSUME g.step = "rest", g.value[1] = "pull"
                   PROVE  Dated(r.link, g.value[2], r.since + ReadLimit)'
      OBVIOUS
    <3>0. r.link \in Links /\ g.value[2] \in 0 .. MaxVersion /\ r.since + ReadLimit \in Int
      BY <1>t, <2>1, <2>3, <2>4, <3>1
    <3>2. PICK m \in Links, v \in 0 .. MaxVersion, time \in Int :
             m = r.link /\ v = g.value[2] /\ time = r.since + ReadLimit
      BY <3>0, Zenon
    <3>6. PICK since \in Nat : since = r.since /\ since <= clock
      BY <2>1 DEF Sound, Timely
    <3>3. time <= clock + ReadLimit
      BY <1>t, <3>2, <3>6
    <3>4. Dated(m, v, time)
      BY <2>1, <3>1, <3>2 DEF Sound, Honest
    <3>5. Dated(m, v, time)'
      BY <1>4, <3>3, <3>4
    <3> QED
      BY <1>1, <3>2, <3>5 DEF Dated
  <2>6. ASSUME g.step = "have", g.value[1] = "pull", g.value[2] # pull'[r.link]
        PROVE  replaced'[r.link][g.value[2]] + g.age + ReadLimit >= g.when
    <3>1. g.when <= clock /\ g.when \in Nat /\ g.age \in Nat
      BY <2>1, <2>6 DEF Sound, Honest, States
    <3>2. r.link \in Links /\ g.value[2] \in 0 .. MaxVersion
      BY <2>3, <2>4, <2>6
    <3>3. CASE r.link = l /\ g.value[2] = pull[l]
      <4>1. replaced'[r.link][g.value[2]] = clock
        BY <1>2, <3>3
      <4>2. PICK age \in Nat, when \in Nat : age = g.age /\ when = g.when /\ when <= clock
        BY <3>1
      <4>n. clock \in Nat /\ ReadLimit \in Nat /\ when <= clock
        BY <1>t, <4>2
      <4>3. clock + age + ReadLimit >= when
        BY <4>n
      <4> QED
        BY <4>1, <4>2, <4>3
    <3>4. CASE ~(r.link = l /\ g.value[2] = pull[l])
      <4>1. replaced'[r.link][g.value[2]] = replaced[r.link][g.value[2]]
        BY <1>2, <3>2, <3>4
      <4>2. g.value[2] # pull[r.link]
        BY <1>2, <2>6, <3>2, <3>4
      <4>3. replaced[r.link][g.value[2]] + g.age + ReadLimit >= g.when
        BY <2>1, <2>6, <4>2 DEF Sound, Honest
      <4> QED
        BY <4>1, <4>3
    <3> QED
      BY <3>3, <3>4
  <2>7. g.step = "have" => g.when <= clock
    BY <2>1 DEF Sound, Honest
  <2>8. Honest(r)'
    BY <1>1, <2>5, <2>6, <2>7 DEF Honest
  <2> QED
    BY <2>2, <2>8 DEF Sound
<1> QED
  BY <1>3, <1>5, <1>6 DEF ContextInv

\* A restart forgets the turns and the cache; time alone makes nothing late.
LEMMA RestStep ==
    ASSUME ContextInv, DaemonRestarts \/ Tick \/ UNCHANGED contextVars
    PROVE  ContextInv'
<1>t. /\ ContextTypes /\ clock \in Nat /\ ReadLimit \in Nat /\ CacheSeconds \in Nat
      /\ \A t \in Threads : request[t] \in Requests /\ Sound(t, request[t])
      /\ \A l \in Links : Fresh(l) /\ cache[l] \in Entries
  BY ContextConstants DEF ContextInv, ContextTypes
<1>1. CASE DaemonRestarts
  <2>1. /\ request' = [t \in Threads |-> IF At(t, "done") THEN request[t] ELSE Idle]
        /\ cache' = [l \in Links |-> NoEntry] /\ UNCHANGED <<clock, pull, replaced, kept, version>> /\ Upset
    BY <1>1 DEF DaemonRestarts
  <2>2. Counted'
    BY <1>t, <2>1, UpsetCounts
  <2>3. ContextTypes'
    BY <1>t, <2>1, <2>2, RestTyped DEF ContextTypes
  <2>4. ASSUME NEW t \in Threads PROVE Sound(t, request[t])'
    <3>1. CASE At(t, "done")
      <4>1. request'[t] = request[t]
        BY <2>1, <3>1
      <4> QED
        BY <1>t, <2>1, <4>1 DEF Sound, Timely, Honest, Dated, Remembered
    <3>2. CASE ~At(t, "done")
      <4>1. request'[t] = Idle
        BY <2>1, <3>2
      <4>2. Sound(t, Idle)'
        BY <2>1, RestSound
      <4> QED
        BY <4>1, <4>2 DEF Sound, Timely, Honest, Dated, Remembered
    <3> QED
      BY <3>1, <3>2
  <2>5. \A l \in Links : Fresh(l)'
    <3>1. NoEntry.expiry = 0 /\ NoEntry.value = <<"none">> /\ <<"none">>[1] = "none"
      BY DEF NoEntry
    <3>2. \A l \in Links : cache'[l] = NoEntry
      BY <2>1
    <3> QED
      BY <1>t, <2>1, <3>1, <3>2 DEF Fresh
  <2> QED
    BY <2>3, <2>4, <2>5 DEF ContextInv
<1>2. CASE Tick
  <2>1. /\ clock' = clock + 1 /\ \A t \in Threads : ~Late(t)
        /\ UNCHANGED <<pull, replaced, cache, request, kept, version, upsets>>
    BY <1>2 DEF Tick
  <2>2. ContextTypes'
    BY <1>t, <2>1 DEF ContextTypes, Counted
  <2>3. ASSUME NEW t \in Threads PROVE Sound(t, request[t])'
    <3>1. request[t].since \in Nat /\ request[t].read.github.when \in Nat
      BY <1>t DEF Requests, ReadSet, States
    <3>2. Timely(request[t])'
      BY <1>t, <2>1, <3>1 DEF Sound, Timely, Late, At
    <3>3. Honest(request[t])'
      BY <1>t, <2>1, <3>1 DEF Sound, Honest, Dated
    <3>4. Remembered(t, request[t])'
      BY <1>t, <2>1 DEF Sound, Remembered
    <3> QED
      BY <3>2, <3>3, <3>4 DEF Sound
  <2>4. ASSUME NEW l \in Links PROVE Fresh(l)'
    <3>1. cache[l].expiry \in Nat
      BY <1>t DEF Entries
    <3>2. cache[l].expiry <= clock' + CacheSeconds
      BY <1>t, <2>1, <3>1 DEF Fresh
    <3> QED
      BY <1>t, <2>1, <3>2 DEF Fresh, Dated
  <2> QED
    BY <2>2, <2>3, <2>4 DEF ContextInv
<1>3. CASE UNCHANGED contextVars
  BY <1>3 DEF contextVars, ContextInv, ContextTypes, Counted, Sound, Timely, Honest, Dated, Remembered, Fresh
<1> QED
  BY <1>1, <1>2, <1>3

\* The invariant holds in every state.
LEMMA ContextHolds == ContextSpec => []ContextInv
<1>1. ContextInit => ContextInv
  <2> SUFFICES ASSUME ContextInit PROVE ContextInv
    OBVIOUS
  <2>1. ContextTypes
    BY RestTyped, ContextConstants DEF ContextInit, ContextTypes, Counted
  <2>2. ASSUME NEW t \in Threads PROVE Sound(t, request[t])
    <3>1. request[t] = Idle /\ clock = 0
      BY DEF ContextInit
    <3>2. /\ request[t].at = "idle" /\ request[t].read = NoRead /\ request[t].since = 0
          /\ request[t].read.github.step = "lookup"
      BY <3>1, RestTyped
    <3>3. Timely(request[t])
      BY <3>1, <3>2 DEF Timely
    <3> QED
      BY <3>2, <3>3 DEF Sound, Honest, Remembered
  <2>4. NoEntry.expiry = 0 /\ NoEntry.value = <<"none">> /\ <<"none">>[1] = "none"
    BY DEF NoEntry
  <2>5. \A l \in Links : Fresh(l)
    BY <2>4, ContextConstants DEF ContextInit, Fresh
  <2> QED
    BY <2>1, <2>2, <2>5 DEF ContextInv
<1>2. ContextInv /\ [ContextNext]_contextVars => ContextInv'
  BY ReadStep, TurnStep, GithubStep, RestStep DEF ContextNext
<1> QED
  BY <1>1, <1>2, PTL DEF ContextSpec

\* A repair is shown exactly what its own decide was shown.
THEOREM RepairAlwaysSeesDecide == ContextSpec => []RepairSeesDecide
<1>1. ContextInv => RepairSeesDecide
  BY DEF ContextInv, Sound, Remembered, RepairSeesDecide, At
<1> QED
  BY <1>1, ContextHolds, PTL

\* What a decide is shown with an age was the truth at most that long ago, up
\* to the length of one read.
THEOREM AgeAlwaysHonest == ContextSpec => []AgeIsHonest
<1>1. ContextInv => AgeIsHonest
  BY DEF ContextInv, Sound, Honest, AgeIsHonest
<1> QED
  BY <1>1, ContextHolds, PTL

=============================================================================
