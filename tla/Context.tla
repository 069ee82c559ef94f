------------------------------ MODULE Context ------------------------------
(***************************************************************************)
(* What a parent call is shown besides the stored thread                   *)
(* (WithAttachments of parent/attachments.rs): attached files, linked      *)
(* messages and the GitHub state behind links, which the turns of all      *)
(* threads read through one cache (Links of github/links.rs).  A decide    *)
(* keeps what it was shown under a key of its input, a repair reuses it.   *)
(*                                                                         *)
(* A thread has one turn at a time.  A turn's text has one link, and a     *)
(* pull request's state is its version.  Left out: configuration reloads   *)
(* (a running turn keeps its adapters) and the eviction of the oldest of   *)
(* 256 cached links, which are then read again.                            *)
(***************************************************************************)
EXTENDS Naturals

CONSTANTS
    Threads,
    Links,
    CacheSeconds,  \* github.cache_seconds
    ReadLimit,     \* seconds a decide waits for GitHub: 20 in the code
    MaxTime, MaxVersion, MaxUpsets

ASSUME ContextConstants ==
    /\ CacheSeconds \in Nat /\ ReadLimit \in Nat \ {0}
    /\ MaxTime \in Nat /\ MaxVersion \in Nat /\ MaxUpsets \in Nat

VARIABLES
    clock,
    pull,      \* per link: the version on GitHub
    replaced,  \* per link and version: when the next one replaced it
    cache,     \* Cache::items: per link the expiry and the value
    limited,   \* Cache::paused_until
    request,   \* per thread: the ParentRequest of the running turn
    kept,      \* per input key: the latest recorded context
    version,   \* per thread: the session's version
    upsets     \* failures, drops, deaths and new input so far

contextVars == <<clock, pull, replaced, cache, limited, request, kept, version, upsets>>

Upset == upsets < MaxUpsets /\ upsets' = upsets + 1

Unread == [step |-> "lookup", value |-> <<"none">>, age |-> 0, when |-> 0]
NoEntry == [expiry |-> 0, value |-> <<"none">>]
NoRead == [files |-> "none", linked |-> "none", github |-> Unread]
NoContext == [files |-> "none", linked |-> "none", value |-> <<"none">>, age |-> 0]
Idle == [at |-> "idle", version |-> 0, link |-> 0, since |-> 0,
         read |-> NoRead, shown |-> NoContext, context |-> NoContext]

Keys == Threads \X (0 .. MaxUpsets) \X Links
Key(t) == <<t, request[t].version, request[t].link>>
At(t, where) == request[t].at = where
Reading(t, step) == At(t, "reading") /\ request[t].read.github.step = step
Reads(t, state) == request' = [request EXCEPT ![t].read.github = state]

-----------------------------------------------------------------------------
(* A decide prepares its context.                                          *)

\* The call is recorded; then three reads run side by side.
Begin(t) ==
    /\ At(t, "idle")
    /\ \E l \in Links :
          request' = [request EXCEPT ![t] = [Idle EXCEPT !.at = "reading", !.version = version[t],
                                                   !.link = l, !.since = clock]]
    /\ UNCHANGED <<clock, pull, replaced, cache, limited, kept, version, upsets>>

\* A call that cannot be prepared: its record or the lookup of its context fails, the
\* channel is no longer configured.  The turn is tried again, or ends blocked.
CannotPrepare(t) ==
    /\ At(t, "idle") \/ At(t, "repair")
    /\ Upset
    /\ \/ request' = [request EXCEPT ![t] = Idle]
       \/ request' = [request EXCEPT ![t] = [Idle EXCEPT !.at = "done"]]
    /\ UNCHANGED <<clock, pull, replaced, cache, limited, kept, version>>

\* files::read: a file that is too much, too late or unreadable is noted in its
\* view; only a failed recording is an error.
ReadFiles(t) ==
    /\ At(t, "reading") /\ request[t].read.files = "none"
    /\ \/ request' = [request EXCEPT ![t].read.files = "read"] /\ UNCHANGED upsets
       \/ request' = [request EXCEPT ![t].read.files = "unrecorded"] /\ Upset
    /\ UNCHANGED <<clock, pull, replaced, cache, limited, kept, version>>

\* links::read likewise.  It shares nothing with files::read: their order is fixed.
ReadLinked(t) ==
    /\ At(t, "reading") /\ request[t].read.files # "none" /\ request[t].read.linked = "none"
    /\ \/ request' = [request EXCEPT ![t].read.linked = "read"] /\ UNCHANGED upsets
       \/ request' = [request EXCEPT ![t].read.linked = "unrecorded"] /\ Upset
    /\ UNCHANGED <<clock, pull, replaced, cache, limited, kept, version>>

-----------------------------------------------------------------------------
(* Links::state: the cache, or a fetch.                                    *)

Fetched(value) == [step |-> "have", value |-> value, age |-> 0, when |-> clock]

\* A cached state is quoted with its age.
QuotedLive(e) == Fetched(e.value)
Quoted(e) == [Fetched(e.value) EXCEPT !.age = clock - (e.expiry - CacheSeconds)]

\* No hit is used unrecorded.
LookUp(t) ==
    LET e == cache[request[t].link]
    IN  /\ Reading(t, "lookup")
        /\ \/ /\ Reads(t, IF e.expiry > clock THEN Quoted(e) ELSE [Unread EXCEPT !.step = "fetch"])
              /\ UNCHANGED upsets
           \/ e.expiry > clock /\ Reads(t, Fetched(<<"unrecorded">>)) /\ Upset
        /\ UNCHANGED <<clock, pull, replaced, cache, limited, kept, version>>

\* Links::get for the pull request, perhaps again until its mergeable state is
\* known; a rate limit pauses all readers.
FetchPull(t) ==
    LET got(v) == Reads(t, [Unread EXCEPT !.step = "rest", !.value = v])
    IN  /\ Reading(t, "fetch")
        /\ \/ /\ limited > clock
              /\ got(<<"error">>) /\ UNCHANGED <<limited, upsets>>
           \/ /\ limited <= clock
              /\ got(<<"pull", pull[request[t].link]>>) /\ UNCHANGED <<limited, upsets>>
           \/ /\ limited <= clock /\ Upset
              /\ \/ got(<<"error">>) /\ limited' \in {limited, clock + 1}
                 \/ Reads(t, Fetched(<<"unrecorded">>)) /\ UNCHANGED limited
        /\ UNCHANGED <<clock, pull, replaced, cache, kept, version>>

\* The head's tree, distance, checks and reviews are optional; the state, or
\* the error in its place, is cached.
KeepState(t) ==
    LET value == request[t].read.github.value
    IN  /\ Reading(t, "rest")
        /\ cache' = [cache EXCEPT ![request[t].link] =
                        [expiry |-> clock + CacheSeconds, value |-> value]]
        /\ Reads(t, Fetched(value))
        /\ UNCHANGED <<clock, pull, replaced, limited, kept, version, upsets>>

\* The decide's own limit on the GitHub read drops it.
Late(t) == At(t, "reading") /\ request[t].read.github.step # "have"
           /\ clock >= request[t].since + ReadLimit
GiveUpRead(t) ==
    /\ Late(t)
    /\ Reads(t, Fetched(<<"timeout">>))
    /\ UNCHANGED <<clock, pull, replaced, cache, limited, kept, version, upsets>>

-----------------------------------------------------------------------------
(* The snapshot, the call and its repair.                                  *)

PersistOnce(k, c) == [kept EXCEPT ![k] = IF @ = NoContext THEN c ELSE @]
Persist(k, c) == [kept EXCEPT ![k] = c]

\* No model call uses an unrecorded context: a failed recording fails the turn.
Snapshot(t) ==
    LET r == request[t].read
        c == [files |-> r.files, linked |-> r.linked, value |-> r.github.value,
              age |-> r.github.age]
    IN  /\ Reading(t, "have") /\ r.linked # "none"
        /\ IF "unrecorded" \in {c.files, c.linked, c.value[1]}
           THEN request' = [request EXCEPT ![t] = Idle] /\ UNCHANGED kept
           ELSE /\ kept' = Persist(Key(t), c)
                /\ request' = [request EXCEPT ![t] = [@ EXCEPT !.at = "deciding", !.since = 0,
                                            !.read = NoRead, !.shown = c, !.context = c]]
        /\ UNCHANGED <<clock, pull, replaced, cache, limited, version, upsets>>

\* Actor::handle: an invalid decision is repaired once; a usage limit or a
\* lost login redoes the whole turn later.
Answered(t) ==
    /\ At(t, "deciding") \/ At(t, "repairing")
    /\ \/ request' = [request EXCEPT ![t] = [Idle EXCEPT !.at = "done"]] /\ UNCHANGED upsets
       \/ request' = [request EXCEPT ![t] = Idle] /\ Upset
       \/ /\ At(t, "deciding")
          /\ request' = [request EXCEPT ![t].at = "repair"]
          /\ UNCHANGED upsets
    /\ UNCHANGED <<clock, pull, replaced, cache, limited, kept, version>>

\* A repair looks its context up by the same key; without one the turn fails.
PrepareRepair(t) ==
    /\ At(t, "repair")
    /\ request' = [request EXCEPT ![t] = IF kept[Key(t)] = NoContext THEN Idle
                                   ELSE [@ EXCEPT !.at = "repairing", !.context = kept[Key(t)]]]
    /\ UNCHANGED <<clock, pull, replaced, cache, limited, kept, version, upsets>>

\* Actor::call drops a call that takes too long: the turn ends blocked.
DropCall(t) ==
    /\ request[t].at \notin {"idle", "done"} /\ Upset
    /\ request' = [request EXCEPT ![t] = [Idle EXCEPT !.at = "done"]]
    /\ UNCHANGED <<clock, pull, replaced, cache, limited, kept, version>>

-----------------------------------------------------------------------------
(* Around it.                                                              *)

\* A message or a control: a running turn keeps the version it loaded.
NewInput(t) ==
    /\ Upset
    /\ version' = [version EXCEPT ![t] = @ + 1]
    /\ request' = [request EXCEPT ![t] = IF At(t, "done") THEN Idle ELSE @]
    /\ UNCHANGED <<clock, pull, replaced, cache, limited, kept>>

GithubChanges(l) ==
    /\ pull[l] < MaxVersion
    /\ pull' = [pull EXCEPT ![l] = @ + 1]
    /\ replaced' = [replaced EXCEPT ![l][pull[l]] = clock]
    /\ UNCHANGED <<clock, cache, limited, request, kept, version, upsets>>

\* Records outlive the daemon, the cache does not.
DaemonRestarts ==
    /\ Upset
    /\ request' = [t \in Threads |-> IF At(t, "done") THEN request[t] ELSE Idle]
    /\ cache' = [l \in Links |-> NoEntry] /\ limited' = 0
    /\ UNCHANGED <<clock, pull, replaced, kept, version>>

\* A timeout that is due is taken before more time passes.
Tick ==
    /\ clock < MaxTime /\ \A t \in Threads : ~Late(t)
    /\ clock' = clock + 1
    /\ UNCHANGED <<pull, replaced, cache, limited, request, kept, version, upsets>>

-----------------------------------------------------------------------------
ContextInit ==
    /\ clock = 0 /\ pull = [l \in Links |-> 0]
    /\ replaced = [l \in Links |-> [v \in 0 .. MaxVersion |-> 0]]
    /\ cache = [l \in Links |-> NoEntry] /\ limited = 0
    /\ request = [t \in Threads |-> Idle]
    /\ kept = [k \in Keys |-> NoContext]
    /\ version = [t \in Threads |-> 0] /\ upsets = 0

ContextNext ==
    \/ \E t \in Threads :
          \/ Begin(t) \/ CannotPrepare(t) \/ ReadFiles(t) \/ ReadLinked(t) \/ LookUp(t) \/ FetchPull(t)
          \/ KeepState(t) \/ GiveUpRead(t) \/ Snapshot(t) \/ Answered(t)
          \/ PrepareRepair(t) \/ DropCall(t) \/ NewInput(t)
    \/ \E l \in Links : GithubChanges(l)
    \/ DaemonRestarts \/ Tick

ContextSpec == ContextInit /\ [][ContextNext]_contextVars

-----------------------------------------------------------------------------
(* Properties.                                                             *)

\* A repair is shown exactly what its own decide was shown, although GitHub,
\* the files and the cache have changed since, and although an earlier turn
\* on the same input recorded another context (WithAttachments::prepare:
\* "reuse snapshots for repair").
RepairSeesDecide ==
    \A t \in Threads : At(t, "repairing") => request[t].context = request[t].shown

\* A state is "quoted as of when it was read, never as live": what a decide is
\* shown with an age was the truth on GitHub at most that long ago, up to the
\* length of one read, whichever of two concurrent fetches filled the cache
\* last (Links::state).
AgeIsHonest ==
    \A t \in Threads :
        LET g == request[t].read.github
            l == request[t].link
        IN  g.step = "have" /\ g.value[1] = "pull" =>
                \/ g.value[2] = pull[l]
                \/ replaced[l][g.value[2]] + g.age + ReadLimit >= g.when

=============================================================================
