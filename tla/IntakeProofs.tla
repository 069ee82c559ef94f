---------------------------- MODULE IntakeProofs ----------------------------
(***************************************************************************)
(* For any messages, threads, services and windows: a message is worked on *)
(* once however often it is delivered, what the watermark passed is        *)
(* accounted for, and the watermark never goes back.                       *)
(***************************************************************************)
EXTENDS Intake, WellFoundedInduction, TLAPS

-----------------------------------------------------------------------------
(* The largest and the smallest of a set of numbers.                       *)

\* A set of numbers has a smallest one.
LEMMA SmallestIn ==
    ASSUME NEW T \in SUBSET Nat, T # {}
    PROVE  \E x \in T : \A y \in T : x =< y
<1> DEFINE R == OpToRel(<, Nat)
<1>1. IsWellFoundedOn(R, Nat)
  BY NatLessThanWellFounded
<1>2. \A x, y \in Nat : y < x => <<y, x>> \in R
  BY DEF OpToRel
<1> HIDE DEF R
<1>3. PICK x \in T : \A y \in T : ~(<<y, x>> \in R)
  BY <1>1, WFMin
<1>4. ASSUME NEW y \in T PROVE x =< y
  <2>1. x \in Nat /\ y \in Nat
    OBVIOUS
  <2>2. ~(y < x)
    BY <1>2, <1>3, <2>1
  <2> QED
    BY <2>1, <2>2
<1> QED
  BY <1>4

\* A bounded set of numbers has a largest one, and Max is it.
LEMMA MaxOf ==
    ASSUME NEW T \in SUBSET Nat, T # {}, NEW bound \in Nat, \A x \in T : x =< bound
    PROVE  Max(T) \in T /\ \A y \in T : Max(T) >= y
<1> DEFINE below == {bound - x : x \in T}
<1>1. below \subseteq Nat /\ below # {}
  OBVIOUS
<1>2. PICK d \in below : \A y \in below : d =< y
  BY <1>1, SmallestIn
<1>3. PICK x \in T : d = bound - x
  OBVIOUS
<1>4. \A y \in T : x >= y
  <2>1. TAKE y \in T
  <2>2. bound - y \in below
    OBVIOUS
  <2>3. bound - x =< bound - y
    BY <1>2, <1>3, <2>2
  <2> QED
    BY <2>3
<1>5. \E z \in T : \A y \in T : z >= y
  BY <1>4
<1> QED
  BY <1>5 DEF Max

\* The larger and the smaller of two.
LEMMA OfTwo ==
    ASSUME NEW a \in Int, NEW b \in Int
    PROVE  /\ Max({a, b}) \in {a, b} /\ Max({a, b}) >= a /\ Max({a, b}) >= b
           /\ Min({a, b}) \in {a, b} /\ Min({a, b}) =< a /\ Min({a, b}) =< b
<1>1. \E z \in {a, b} : \A y \in {a, b} : z >= y
  BY a >= b \/ b >= a
<1>2. \E z \in {a, b} : \A y \in {a, b} : z =< y
  BY a >= b \/ b >= a
<1>3. Max({a, b}) \in {a, b} /\ \A y \in {a, b} : Max({a, b}) >= y
  BY <1>1 DEF Max
<1>4. Min({a, b}) \in {a, b} /\ \A y \in {a, b} : Min({a, b}) =< y
  BY <1>2 DEF Min
<1> QED
  BY <1>3, <1>4

-----------------------------------------------------------------------------
(* Worked on once.                                                         *)

Safe == Init /\ [][Next]_vars

\* What was queued is stored, and a stored mention was queued with its
\* obligation.
Once(m) ==
    /\ inbox[m] =< 1
    /\ inbox[m] = 1 => m \in kept
    /\ m \in (kept \cap Mentions) \ Migrated => inbox[m] = 1 /\ mention[m]
OnceInv ==
    /\ inbox \in [Msgs -> Nat] /\ mention \in [Msgs -> BOOLEAN]
    /\ \A m \in Msgs : Once(m)

\* A batch queues only what is new, and of that every mention.
LEMMA IntakeOnce ==
    ASSUME OnceInv, NEW read, NEW cutoff, IntakeTx(read, cutoff)
    PROVE  OnceInv'
<1> DEFINE work == {m \in read \ kept : IsWork(m, cutoff)}
<1>1. /\ kept' = kept \cup (read \ kept)
      /\ inbox' = [m \in Msgs |-> inbox[m] + IF m \in work THEN 1 ELSE 0]
      /\ mention' = [m \in Msgs |-> mention[m] \/ m \in work \cap Mentions]
  BY DEF IntakeTx, KeepMessage
<1>2. \A m \in (read \ kept) \cap Mentions : m \in work
  BY DEF IsWork
<1>3. \A m \in work : m \in read /\ m \notin kept
  OBVIOUS
<1> HIDE DEF work
<1>4. inbox' \in [Msgs -> Nat]
  BY <1>1 DEF OnceInv
<1>5. mention' \in [Msgs -> BOOLEAN]
  BY <1>1, Zenon
<1>6. ASSUME NEW m \in Msgs PROVE Once(m)'
  <2>1. inbox[m] \in Nat /\ Once(m)
    BY DEF OnceInv
  <2>2. CASE m \in work
    <3>1. inbox[m] = 0
      BY <1>3, <2>1, <2>2 DEF Once
    <3>2. inbox'[m] = 1 /\ m \in kept'
      BY <1>1, <1>3, <2>2, <3>1
    <3>3. m \in Mentions => mention'[m]
      BY <1>1, <2>2, Zenon
    <3> QED
      BY <3>2, <3>3 DEF Once
  <2>3. CASE m \notin work
    <3>1. inbox'[m] = inbox[m]
      BY <1>1, <2>1, <2>3
    <3>2. mention[m] => mention'[m]
      BY <1>1, Zenon
    <3>3. m \in kept' /\ m \in Mentions => m \in kept
      BY <1>1, <1>2, <2>3
    <3>4. m \in kept => m \in kept'
      BY <1>1
    <3> QED
      BY <2>1, <3>1, <3>2, <3>3, <3>4 DEF Once
  <2> QED
    BY <2>2, <2>3
<1> QED
  BY <1>4, <1>5, <1>6 DEF OnceInv

\* A message is worked on once however often it is delivered, and a mention
\* always, with its obligation (intake_tx).
THEOREM AlwaysArrivesOnce == Spec => []ArrivesOnce
<1>1. Init => OnceInv
  <2> SUFFICES ASSUME Init PROVE OnceInv
    OBVIOUS
  <2>1. inbox \in [Msgs -> Nat] /\ (kept = {} \/ kept = Migrated) /\ \A m \in Msgs : inbox[m] = 0
    BY DEF Init
  <2>2. mention \in [Msgs -> BOOLEAN]
    BY Zenon DEF Init
  <2> QED
    BY <2>1, <2>2 DEF OnceInv, Once
<1>2. OnceInv /\ [Next]_vars => OnceInv'
  <2> SUFFICES ASSUME OnceInv, [Next]_vars PROVE OnceInv'
    OBVIOUS
  <2>1. ASSUME UNCHANGED <<kept, inbox, mention>> PROVE OnceInv'
    BY <2>1 DEF OnceInv, Once
  <2>2. CASE Tick
    BY <2>1, <2>2 DEF Tick, store
  <2>3. CASE \E m \in Msgs : Post(m)
    BY <2>1, <2>3 DEF Post, store
  <2>4. CASE \E m \in Msgs : Receive(m)
    BY <2>4, IntakeOnce DEF Receive
  <2>5. CASE \E s \in Services : Begin(s) \/ Fetch(s) \/ FetchFails(s)
    BY <2>1, <2>5 DEF Begin, Fetch, FetchFails, store
  <2>6. CASE \E s \in Services : CommitPass(s)
    <3>1. PICK s \in Services : CommitPass(s)
      BY <2>6
    <3>2. IntakeTx(pass[s].read \ Unsupported, pass[s].now - Day) \/ UNCHANGED <<kept, inbox, mention>>
      BY <3>1 DEF CommitPass, store
    <3> QED
      BY <2>1, <3>2, IntakeOnce
  <2>7. CASE Restart
    BY <2>1, <2>7 DEF Restart, store
  <2>8. CASE \E c \in Clients : Backfill(c, 0, clock)
    <3>1. /\ UNCHANGED <<kept, inbox>>
          /\ mention' = [m \in Msgs |->
                mention[m] \/ (m \in kept \cap Mentions /\ sent[m] \in 0 .. clock)]
      BY <2>8 DEF Backfill
    <3>2. mention' \in [Msgs -> BOOLEAN] /\ \A m \in Msgs : mention[m] => mention'[m]
      BY <3>1, Zenon
    <3> QED
      BY <3>1, <3>2 DEF OnceInv, Once
  <2>9. CASE UNCHANGED vars
    BY <2>1, <2>9 DEF vars, store
  <2> QED
    BY <2>2, <2>3, <2>4, <2>5, <2>6, <2>7, <2>8, <2>9 DEF Next, PassStep
<1>3. OnceInv => ArrivesOnce
  BY DEF OnceInv, Once, ArrivesOnce
<1>4. Spec => Safe
  BY DEF Spec, Safe
<1> QED
  BY <1>1, <1>2, <1>3, <1>4, PTL DEF Safe

-----------------------------------------------------------------------------
(* Nothing is lost behind the watermark.                                   *)

Readings == [at: {"reading"}, now: Nat, oldest: Int, mark: Int, roots: SUBSET Msgs]
Reads == [at: {"read"}, now: Nat, oldest: Int, mark: Int, read: SUBSET Msgs,
          refused: SUBSET Msgs, complete: BOOLEAN]
Passes == {Idle} \cup Readings \cup Reads

\* How far back a pass reads: to the cap, to the mark, or to where the promise
\* begins; with neither mark nor messages the promise begins with the pass.
Reaches(p) ==
    \/ p.oldest =< p.now - MaxWindow
    \/ p.mark # 0 /\ p.oldest =< p.mark - Overlap
    \/ p.mark = 0 /\ p.oldest =< since
    \/ p.mark = 0 /\ prior = {}

\* A complete pass holds every root of its window that was posted before it
\* began, less the overlap.
Reading(p) ==
    /\ p.now >= 1 /\ p.now =< clock
    /\ Reaches(p)
    /\ p.mark = 0 => p.oldest + Overlap =< p.now
ReadAll(p) ==
    /\ p.read \subseteq Posted
    /\ p.complete => \A m \in Posted \cap Roots :
          p.oldest =< sent[m] /\ sent[m] < p.now - Overlap => m \in p.read
PassOK(p) == /\ p.at # "idle" => Reading(p)
             /\ p.at = "read" => ReadAll(p)

Typed ==
    /\ clock \in Nat /\ clock >= 1 /\ since \in Nat
    /\ sent \in [Msgs -> Nat] /\ \A m \in Msgs : sent[m] =< clock
    /\ kept \subseteq Posted /\ prior \subseteq kept
    /\ mark \in Int /\ mark =< clock
    /\ pass \in [Services -> Passes] /\ window \in [Services -> {Window, Recent}]

\* Without a mark the window is the whole one and the promise begins behind
\* what an earlier daemon stored.
Unmarked ==
    mark = 0 => /\ \A s \in Services : window[s] = Window
                /\ \A m \in prior : sent[m] =< since

LossInv == Typed /\ Unmarked /\ (\A s \in Services : PassOK(pass[s])) /\ NoSilentLoss

\* A pass in flight stays right while others post, deliver and commit.
LEMMA PassKept ==
    ASSUME Typed, NEW p \in Passes, PassOK(p), prior' = prior, clock' \in Nat, clock =< clock',
           since' \in Nat, since =< since', sent' \in [Msgs -> Nat],
           \A m \in Msgs : sent'[m] = sent[m] \/ (sent[m] = 0 /\ sent'[m] # 0 /\ sent'[m] >= clock - Overlap)
    PROVE  PassOK(p)'
<1>1. CASE p.at = "idle"
  BY <1>1 DEF PassOK
<1>2. CASE p.at # "idle"
  <2>1. p.now \in Nat /\ p.oldest \in Int /\ p.mark \in Int
    BY <1>2 DEF Passes, Idle, Readings, Reads
  <2>2. clock \in Nat /\ since \in Nat /\ Overlap \in Nat
    BY IntakeConstants DEF Typed
  <2>3. Reading(p)
    BY <1>2 DEF PassOK
  <2>4. Reaches(p)'
    <3>1. p.oldest =< since => p.oldest =< since'
      BY <2>1, <2>2
    <3> QED
      BY <2>3, <3>1 DEF Reading, Reaches
  <2>5. p.now =< clock /\ p.now =< clock'
    BY <2>1, <2>2, <2>3 DEF Reading
  <2>6. Reading(p)'
    BY <2>3, <2>4, <2>5 DEF Reading
  <2>7. ASSUME p.at = "read" PROVE ReadAll(p)'
    <3>1. ReadAll(p)
      BY <2>7 DEF PassOK
    <3>2. \A m \in Posted : m \in Posted' /\ sent'[m] = sent[m]
      BY DEF Posted
    <3>3. p.read \subseteq Posted'
      BY <3>1, <3>2 DEF ReadAll
    <3>4. ASSUME p.complete, NEW m \in Posted' \cap Roots, p.oldest =< sent'[m], sent'[m] < p.now - Overlap
          PROVE  m \in p.read
      <4>1. m \in Msgs /\ sent'[m] # 0 /\ sent'[m] \in Nat /\ sent[m] \in Nat
        BY <3>4 DEF Posted, Typed
      <4>2. ~(sent'[m] >= clock - Overlap)
        BY <2>1, <2>2, <2>5, <3>4, <4>1
      <4>3. sent'[m] = sent[m] /\ m \in Posted
        BY <4>1, <4>2 DEF Posted
      <4> QED
        BY <3>1, <3>4, <4>3 DEF ReadAll
    <3>5. Roots' = Roots
      BY DEF Roots
    <3> QED
      BY <3>3, <3>4, <3>5 DEF ReadAll
  <2> QED
    BY <2>6, <2>7 DEF PassOK
<1> QED
  BY <1>1, <1>2

\* What was accounted for stays so.
LEMMA LossKept ==
    ASSUME Typed, NoSilentLoss, kept \subseteq kept', notes \subseteq notes', gaps \subseteq gaps',
           mark' = mark, since' \in Nat, since =< since', sent' \in [Msgs -> Nat],
           \A m \in Msgs : sent'[m] = sent[m] \/ (sent[m] = 0 /\ sent'[m] # 0 /\ sent'[m] >= clock - Overlap)
    PROVE  NoSilentLoss'
<1> SUFFICES ASSUME NEW m \in Posted' \cap Roots, sent'[m] >= since', sent'[m] < mark - Overlap
             PROVE  Accounted(m)'
  BY DEF NoSilentLoss, Roots
<1>1. /\ m \in Msgs /\ sent'[m] # 0 /\ sent'[m] \in Nat /\ sent[m] \in Nat /\ clock \in Nat
      /\ mark \in Int /\ mark =< clock /\ Overlap \in Nat /\ since \in Nat
  BY IntakeConstants DEF Posted, Typed
<1>2. ~(sent'[m] >= clock - Overlap)
  BY <1>1
<1>3. sent'[m] = sent[m] /\ m \in Posted
  BY <1>1, <1>2 DEF Posted
<1>4. sent[m] >= since /\ sent[m] < mark - Overlap
  BY <1>1, <1>3
<1>5. Accounted(m)
  BY <1>3, <1>4 DEF NoSilentLoss
<1> QED
  BY <1>5 DEF Accounted

\* The newest message of an earlier daemon.
LEMMA LatestOf ==
    ASSUME Typed
    PROVE  /\ Latest \in Nat
           /\ Latest # 0 => \E m \in prior : Latest = sent[m]
           /\ Latest = 0 => prior = {}
<1> DEFINE T == {0} \cup {sent[m] : m \in prior}
<1>1. prior \subseteq Msgs /\ \A m \in prior : sent[m] # 0 /\ sent[m] \in Nat /\ sent[m] =< clock
  BY DEF Typed, Posted
<1>2. T \in SUBSET Nat /\ T # {} /\ clock \in Nat /\ \A x \in T : x =< clock
  BY <1>1 DEF Typed
<1>3. 0 \in T /\ \A m \in prior : sent[m] \in T
  OBVIOUS
<1>4. \A x \in T : x = 0 \/ \E m \in prior : x = sent[m]
  OBVIOUS
<1>5. Latest = Max(T)
  BY DEF Latest
<1> HIDE DEF T
<1>6. Max(T) \in T /\ \A y \in T : Max(T) >= y
  BY <1>2, MaxOf
<1>7. PICK x \in T : x = Latest /\ \A y \in T : x >= y
  BY <1>5, <1>6
<1>8. x \in Nat /\ (x # 0 => \E m \in prior : x = sent[m])
  BY <1>2, <1>4
<1>9. ASSUME NEW m \in prior, x = 0 PROVE FALSE
  <2>1. sent[m] \in T /\ sent[m] \in Nat /\ sent[m] # 0
    BY <1>1, <1>3
  <2>2. x >= sent[m]
    BY <1>7, <2>1
  <2> QED
    BY <1>9, <2>1, <2>2
<1> QED
  BY <1>7, <1>8, <1>9

\* Where a pass begins to read.
LEMMA OldestOf ==
    ASSUME Typed, Unmarked, NEW s \in Services
    PROVE  /\ Oldest(window[s]) \in Int
           /\ \/ Oldest(window[s]) =< clock - MaxWindow
              \/ mark # 0 /\ Oldest(window[s]) =< mark - Overlap
              \/ mark = 0 /\ Oldest(window[s]) =< since
              \/ mark = 0 /\ prior = {}
           /\ mark = 0 => Oldest(window[s]) + Overlap =< clock
<1> DEFINE w == window[s]
           from == IF mark # 0 THEN mark ELSE Latest
           back == IF from = 0 THEN clock - w ELSE Min({clock - w, from - Overlap})
           cap == clock - MaxWindow
<1>1. /\ w \in Nat /\ Overlap \in Nat /\ MaxWindow \in Nat /\ w =< MaxWindow /\ Window \in Nat
      /\ Overlap =< Window /\ (mark = 0 => w = Window) /\ clock \in Nat /\ mark \in Int /\ since \in Nat
  <2>1. /\ Overlap \in Nat /\ MaxWindow \in Nat /\ Window \in Nat /\ Recent \in Nat
        /\ Overlap =< Window /\ Recent =< Window /\ Window =< MaxWindow
    BY IntakeConstants
  <2>2. w = Window \/ w = Recent
    BY DEF Typed
  <2>3. w \in Nat /\ w =< MaxWindow
    BY <2>1, <2>2
  <2> QED
    BY <2>1, <2>3 DEF Typed, Unmarked
<1>2. /\ Latest \in Nat /\ (mark = 0 /\ Latest # 0 => Latest =< since) /\ (Latest = 0 => prior = {})
  BY LatestOf DEF Unmarked
<1>3. from \in Int /\ clock - w \in Int /\ from - Overlap \in Int /\ cap \in Int
  BY <1>1, <1>2
<1> HIDE DEF w, from
<1>4. /\ Min({clock - w, from - Overlap}) \in {clock - w, from - Overlap}
      /\ Min({clock - w, from - Overlap}) =< clock - w /\ Min({clock - w, from - Overlap}) =< from - Overlap
  BY <1>3, OfTwo
<1>5. /\ back \in Int /\ back =< clock - w
      /\ from # 0 => back =< from - Overlap
  BY <1>1, <1>3, <1>4
<1>6. Oldest(w) = Max({back, cap})
  BY DEF Oldest, from
<1> HIDE DEF back, cap
<1>7. Oldest(w) \in {back, cap}
  BY <1>3, <1>5, <1>6, OfTwo
<1>8. mark # 0 => from = mark
  BY DEF from
<1>9. mark = 0 => from = Latest
  BY DEF from
<1>10. CASE Oldest(w) = cap
  BY <1>1, <1>3, <1>10 DEF cap, w
<1>11. CASE Oldest(w) = back /\ mark # 0
  BY <1>1, <1>5, <1>8, <1>11 DEF w
<1>12. CASE Oldest(w) = back /\ mark = 0
  <2>1. Latest = 0 => prior = {}
    BY <1>2
  <2>2. Latest # 0 => back =< since
    BY <1>1, <1>2, <1>5, <1>9, <1>12
  <2>3. back + Overlap =< clock
    BY <1>1, <1>5, <1>12
  <2> QED
    BY <1>5, <1>12, <2>1, <2>2, <2>3 DEF w
<1> QED
  BY <1>7, <1>10, <1>11, <1>12

\* A step that leaves the store's progress alone.
LEMMA QuietLoss ==
    ASSUME LossInv, UNCHANGED <<clock, sent, kept, notes, mark, gaps, prior, since>>,
           pass' \in [Services -> Passes], window' \in [Services -> {Window, Recent}],
           mark = 0 => \A s \in Services : window'[s] = Window,
           \A s \in Services : PassOK(pass'[s])
    PROVE  LossInv'
<1> USE DEF LossInv
<1>1. Typed'
  BY DEF Typed, Posted
<1>2. Unmarked'
  BY DEF Unmarked
<1>3. ASSUME NEW p, PassOK(p) PROVE PassOK(p)'
  BY <1>3 DEF PassOK, Reading, Reaches, ReadAll, Posted
<1>4. \A s \in Services : PassOK(pass[s])'
  <2>1. TAKE s \in Services
  <2>2. PICK p : p = pass'[s]
    OBVIOUS
  <2>3. PassOK(p)'
    BY <1>3, <2>2
  <2> QED
    BY <2>2, <2>3
<1>5. NoSilentLoss'
  BY DEF NoSilentLoss, Accounted, Posted
<1> QED
  BY <1>1, <1>2, <1>4, <1>5

\* A step that posts, stores or lets time pass.
LEMMA LiveLoss ==
    ASSUME LossInv, UNCHANGED <<pass, window, mark, prior, since, gaps>>, notes \subseteq notes',
           kept \subseteq kept', kept' \subseteq Posted', clock' \in Nat, clock =< clock',
           sent' \in [Msgs -> Nat], \A m \in Msgs : sent'[m] =< clock',
           \A m \in Msgs : sent'[m] = sent[m] \/ (sent[m] = 0 /\ sent'[m] # 0 /\ sent'[m] >= clock - Overlap)
    PROVE  LossInv'
<1> USE DEF LossInv
<1>0. mark \in Int /\ mark =< clock /\ clock \in Nat /\ clock >= 1 /\ since \in Nat
  BY DEF Typed
<1>1. Typed'
  <2>1. mark' =< clock' /\ clock' >= 1
    BY <1>0
  <2> QED
    BY <2>1 DEF Typed
<1>2. Unmarked'
  <2>1. \A m \in prior : sent'[m] = sent[m]
    BY DEF Typed, Posted
  <2> QED
    BY <2>1 DEF Unmarked
<1>3. \A s \in Services : PassOK(pass[s])'
  <2>1. TAKE s \in Services
  <2>2. PICK p \in Passes : p = pass[s]
    BY DEF Typed
  <2>3. PassOK(p)
    BY <2>2
  <2>4. since' \in Nat /\ since =< since'
    BY <1>0
  <2>5. PassOK(p)'
    BY <2>3, <2>4, PassKept
  <2> QED
    BY <2>2, <2>5
<1>4. NoSilentLoss'
  <2>1. since' \in Nat /\ since =< since'
    BY <1>0
  <2> QED
    BY <2>1, LossKept
<1> QED
  BY <1>1, <1>2, <1>3, <1>4

\* A message posted: its time lags the clock by no more than the overlap.
LEMMA PostLoss ==
    ASSUME LossInv, NEW m \in Msgs, Post(m)
    PROVE  LossInv'
<1> USE DEF LossInv
<1>0. /\ clock \in Nat /\ clock >= 1 /\ Overlap \in Nat /\ sent \in [Msgs -> Nat]
      /\ sent[RootOf[m]] \in Nat
  BY IntakeConstants DEF Typed
<1>1. PICK ts \in {clock, clock - Overlap} :
         ts >= Max({1, sent[RootOf[m]]}) /\ sent' = [sent EXCEPT ![m] = ts]
  BY DEF Post
<1>2. Max({1, sent[RootOf[m]]}) >= 1 /\ Max({1, sent[RootOf[m]]}) \in Int
  <2>1. PICK a \in Int, b \in Int : a = 1 /\ b = sent[RootOf[m]]
    BY <1>0
  <2>2. Max({a, b}) \in {a, b} /\ Max({a, b}) >= a
    BY OfTwo
  <2> QED
    BY <2>1, <2>2
<1>3. ts \in Nat /\ ts # 0 /\ ts =< clock /\ ts >= clock - Overlap
  <2>1. ts \in Int
    BY <1>0, <1>1
  <2>2. ts >= 1
    BY <1>1, <1>2, <2>1
  <2> QED
    BY <1>0, <1>1, <2>1, <2>2
<1>4. /\ UNCHANGED <<clock, kept, notes, mark, gaps, pass, window, prior, since>>
      /\ sent[m] = 0
  BY DEF Post, store
<1>5. /\ sent' \in [Msgs -> Nat]
      /\ \A x \in Msgs : sent'[x] = sent[x] \/ (sent[x] = 0 /\ sent'[x] # 0 /\ sent'[x] >= clock - Overlap)
      /\ \A x \in Msgs : sent'[x] =< clock
  BY <1>0, <1>1, <1>3, <1>4 DEF Typed
<1>6. kept' \subseteq Posted'
  BY <1>4, <1>5 DEF Typed, Posted
<1>7. clock' \in Nat /\ clock =< clock'
  BY <1>0, <1>4
<1> QED
  BY <1>4, <1>5, <1>6, <1>7, LiveLoss

\* A delivery stores what was posted.
LEMMA ReceiveLoss ==
    ASSUME LossInv, NEW m \in Msgs, Receive(m)
    PROVE  LossInv'
<1> USE DEF LossInv
<1>1. /\ UNCHANGED <<clock, sent, mark, gaps, pass, window, prior, since>>
      /\ notes \subseteq notes' /\ m \in Posted
      /\ kept' = kept \cup (({m} \ Unsupported) \ kept)
  BY DEF Receive, IntakeTx, KeepMessage
<1>2. kept \subseteq kept' /\ kept' \subseteq Posted'
  BY <1>1 DEF Typed, Posted
<1>3. clock' \in Nat /\ clock =< clock'
  BY <1>1 DEF Typed
<1>4. sent' \in [Msgs -> Nat] /\ \A x \in Msgs : sent'[x] = sent[x] /\ sent'[x] =< clock'
  BY <1>1 DEF Typed
<1> QED
  BY <1>1, <1>2, <1>3, <1>4, LiveLoss

\* A pass begins with its window.
LEMMA BeginLoss ==
    ASSUME LossInv, NEW s \in Services, Begin(s)
    PROVE  LossInv'
<1> USE DEF LossInv
<1> DEFINE roots == {r \in Roots : \E m \in kept : RootOf[m] = r}
<1>1. PICK p : p = [at |-> "reading", now |-> clock, oldest |-> Oldest(window[s]), mark |-> mark,
                    roots |-> roots]
  OBVIOUS
<1>2. /\ pass' = [pass EXCEPT ![s] = p]
      /\ UNCHANGED <<clock, sent, kept, notes, mark, gaps, prior, since, window>>
  BY <1>1 DEF Begin, store
<1>3. /\ p.at = "reading" /\ p.now = clock /\ p.oldest = Oldest(window[s]) /\ p.mark = mark
  BY <1>1
<1>4. roots \subseteq Msgs
  BY DEF Roots
<1>5. /\ Oldest(window[s]) \in Int
      /\ \/ Oldest(window[s]) =< clock - MaxWindow
         \/ mark # 0 /\ Oldest(window[s]) =< mark - Overlap
         \/ mark = 0 /\ Oldest(window[s]) =< since
         \/ mark = 0 /\ prior = {}
      /\ mark = 0 => Oldest(window[s]) + Overlap =< clock
  BY OldestOf
<1> HIDE DEF roots
<1>6. p \in Passes
  BY <1>1, <1>4, <1>5 DEF Passes, Readings, Typed
<1>7. PassOK(p)
  BY <1>3, <1>5 DEF PassOK, Reading, Reaches, Typed
<1>8. pass' \in [Services -> Passes] /\ \A x \in Services : PassOK(pass'[x])
  BY <1>2, <1>6, <1>7 DEF Typed
<1>9. /\ window' \in [Services -> {Window, Recent}]
      /\ mark = 0 => \A x \in Services : window'[x] = Window
  BY <1>2 DEF Typed, Unmarked
<1> QED
  BY <1>2, <1>8, <1>9, QuietLoss

\* A pass ends without a commit.
LEMMA IdleLoss ==
    ASSUME LossInv, NEW s \in Services, Schedule(s, FALSE),
           UNCHANGED <<clock, sent, kept, notes, mark, gaps, prior, since>>
    PROVE  LossInv'
<1> USE DEF LossInv
<1>1. pass' = [pass EXCEPT ![s] = Idle] /\ window' = [window EXCEPT ![s] = Window]
  BY DEF Schedule
<1>2. Idle \in Passes /\ PassOK(Idle)
  BY DEF Passes, PassOK, Idle
<1>3. pass' \in [Services -> Passes] /\ \A x \in Services : PassOK(pass'[x])
  BY <1>1, <1>2 DEF Typed
<1>4. /\ window' \in [Services -> {Window, Recent}]
      /\ mark = 0 => \A x \in Services : window'[x] = Window
  BY <1>1 DEF Typed, Unmarked
<1> QED
  BY <1>3, <1>4, QuietLoss

\* The pages of a pass: a complete listing has every root of the window.
LEMMA FetchLoss ==
    ASSUME LossInv, NEW s \in Services, Fetch(s)
    PROVE  LossInv'
<1> USE DEF LossInv
<1> DEFINE p == pass[s]
<1>1. p \in Passes /\ PassOK(p) /\ p.at = "reading"
  BY DEF Fetch, Typed
<1>2. p \in Readings
  BY <1>1 DEF Passes, Idle, Reads
<1>3. PICK cut \in {p.oldest} \cup {sent[m] + 1 : m \in Visible(p) \cap Roots} :
        \E refused, short \in SUBSET Listed(p, cut) :
         pass' = [pass EXCEPT ![s] =
               [at |-> "read", now |-> p.now, oldest |-> p.oldest, mark |-> p.mark,
                read |-> Pages(p, cut, refused \cup short), refused |-> refused,
                complete |-> cut = p.oldest /\ short = {}]]
  BY ZenonT(40) DEF Fetch
<1>a. PICK refused, short \in SUBSET Listed(p, cut) :
         pass' = [pass EXCEPT ![s] =
               [at |-> "read", now |-> p.now, oldest |-> p.oldest, mark |-> p.mark,
                read |-> Pages(p, cut, refused \cup short), refused |-> refused,
                complete |-> cut = p.oldest /\ short = {}]]
  BY <1>3, Zenon
<1> HIDE DEF p
<1>4. PICK q : q = [at |-> "read", now |-> p.now, oldest |-> p.oldest, mark |-> p.mark,
                    read |-> Pages(p, cut, refused \cup short), refused |-> refused,
                    complete |-> cut = p.oldest /\ short = {}]
  OBVIOUS
<1>5. /\ pass' = [pass EXCEPT ![s] = q]
      /\ UNCHANGED <<clock, sent, kept, notes, mark, gaps, prior, since, window>>
  BY <1>a, <1>4 DEF Fetch, store
<1>6. /\ q.at = "read" /\ q.now = p.now /\ q.oldest = p.oldest /\ q.mark = p.mark
      /\ q.read = Pages(p, cut, refused \cup short)
  BY <1>4
<1>7. q.complete => cut = p.oldest
  BY <1>4, Zenon
<1>8. /\ Pages(p, cut, refused \cup short) \subseteq Posted /\ Posted \subseteq Msgs
      /\ Listed(p, cut) \subseteq Msgs
  BY <1>2 DEF Pages, Found, Visible, Listed, Posted, Readings
<1>9. q \in Passes
  <2>1. Pages(p, cut, refused \cup short) \in SUBSET Msgs /\ refused \in SUBSET Msgs
    BY <1>a, <1>8
  <2>2. (cut = p.oldest /\ short = {}) \in BOOLEAN
    BY Zenon
  <2>3. p.now \in Nat /\ p.oldest \in Int /\ p.mark \in Int
    BY <1>2 DEF Readings
  <2>4. q \in Reads
    BY <1>4, <2>1, <2>2, <2>3 DEF Reads
  <2> QED
    BY <2>4 DEF Passes
<1>10. Reading(q)
  BY <1>1, <1>6 DEF PassOK, Reading, Reaches
<1>11. ReadAll(q)
  <2>1. q.read \subseteq Posted
    BY <1>6, <1>8
  <2>2. ASSUME q.complete, NEW m \in Posted \cap Roots, q.oldest =< sent[m]
        PROVE  m \in q.read
    <3>1. p.oldest \in Int /\ sent[m] \in Nat
      BY <1>2, <1>8 DEF Readings, Typed
    <3>2. sent[m] >= p.oldest
      BY <1>6, <2>2, <3>1
    <3>3. m \in Found(p, cut)
      BY <1>7, <2>2, <3>2 DEF Found, Visible
    <3> QED
      BY <1>6, <3>3 DEF Pages
  <2> QED
    BY <2>1, <2>2 DEF ReadAll
<1>12. PassOK(q)
  BY <1>10, <1>11 DEF PassOK
<1>13. pass' \in [Services -> Passes] /\ \A x \in Services : PassOK(pass'[x])
  BY <1>5, <1>9, <1>12 DEF Typed
<1>14. /\ window' \in [Services -> {Window, Recent}]
       /\ mark = 0 => \A x \in Services : window'[x] = Window
  BY <1>5 DEF Typed, Unmarked
<1> QED
  BY <1>5, <1>13, <1>14, QuietLoss

\* The commit of a pass whose mark is still the store's.
LEMMA CommitLoss ==
    ASSUME LossInv, NEW s \in Services, CommitPass(s), Fenced(pass[s])
    PROVE  LossInv'
<1> USE DEF LossInv
<1> DEFINE p == pass[s]
           giveUp == GiveUp(Runs)
<1>1. p \in Passes /\ PassOK(p) /\ p.at = "read" /\ mark = p.mark
  BY DEF CommitPass, Typed, Fenced
<1>2. p \in Reads
  BY <1>1 DEF Passes, Idle, Readings
<1>3. /\ p.now \in Nat /\ p.oldest \in Int /\ p.mark \in Int /\ p.complete \in BOOLEAN
      /\ Overlap \in Nat /\ MaxWindow \in Nat /\ clock \in Nat /\ since \in Nat
  BY <1>2, IntakeConstants DEF Reads, Typed
<1>4. Reading(p) /\ ReadAll(p)
  BY <1>1 DEF PassOK
<1>5. /\ UNCHANGED <<clock, sent, prior>>
      /\ kept' = kept \cup ((p.read \ Unsupported) \ kept)
      /\ notes' = notes \cup p.refused \cup (p.read \cap Unsupported \cap Mentions)
      /\ mark' = NextMark(p, Runs)
      /\ gaps' = IF ~p.complete /\ giveUp
                 THEN gaps \cup {m \in Posted : sent[m] \in p.oldest .. p.now} ELSE gaps
      /\ Schedule(s, p.complete)
      /\ since' = IF mark = 0 /\ Latest = 0 THEN Max({since, p.oldest})
                  ELSE Max({since, p.now - MaxWindow})
  BY DEF CommitPass, IntakeTx, KeepMessage
<1>6. mark' = IF p.complete \/ giveUp THEN p.now ELSE IF p.mark # 0 THEN p.mark ELSE p.oldest + Overlap
  BY <1>5 DEF NextMark
<1> HIDE DEF p, giveUp
<1>7. /\ since' \in Nat /\ since =< since'
      /\ mark = 0 /\ Latest = 0 => since' >= p.oldest
      /\ ~(mark = 0 /\ Latest = 0) => since' >= p.now - MaxWindow
  <2>1. PICK a \in Int, b \in Int, c \in Int : a = since /\ b = p.oldest /\ c = p.now - MaxWindow
    BY <1>3
  <2>2. /\ Max({a, b}) \in {a, b} /\ Max({a, b}) >= a /\ Max({a, b}) >= b
        /\ Max({a, c}) \in {a, c} /\ Max({a, c}) >= a /\ Max({a, c}) >= c
    BY OfTwo
  <2>3. since' = IF mark = 0 /\ Latest = 0 THEN Max({a, b}) ELSE Max({a, c})
    BY <1>5, <2>1
  <2>4. since' \in Int /\ since' >= a
    BY <2>2, <2>3
  <2> QED
    BY <1>3, <2>1, <2>2, <2>3, <2>4
<1>8. ASSUME NEW x \in Int, x >= since', x < p.oldest
      PROVE  mark # 0 /\ x < mark - Overlap
  <2>1. x >= since
    BY <1>3, <1>7, <1>8
  <2>2. CASE p.oldest =< p.now - MaxWindow
    <3>1. since' >= p.oldest
      BY <1>3, <1>7, <2>2
    <3> QED
      BY <1>3, <1>7, <1>8, <3>1
  <2>3. CASE p.mark # 0 /\ p.oldest =< p.mark - Overlap
    BY <1>1, <1>3, <1>8, <2>3
  <2>4. CASE p.mark = 0 /\ p.oldest =< since
    BY <1>3, <1>8, <2>1, <2>4
  <2>5. CASE p.mark = 0 /\ prior = {}
    <3>1. Latest = 0
      BY <2>5, LatestOf
    <3> QED
      BY <1>1, <1>3, <1>7, <1>8, <2>5, <3>1
  <2> QED
    BY <1>4, <2>2, <2>3, <2>4, <2>5 DEF Reading, Reaches
<1>9. /\ p.now >= 1 /\ p.now =< clock /\ mark \in Int /\ mark =< clock
      /\ p.mark = 0 => p.oldest + Overlap =< p.now
  BY <1>4 DEF Reading, Typed
<1>10. mark' \in Int /\ mark' =< clock
  BY <1>1, <1>3, <1>6, <1>9
<1>11. kept \subseteq kept' /\ notes \subseteq notes' /\ gaps \subseteq gaps'
  BY <1>5
<1>12. /\ pass' = [pass EXCEPT ![s] = Idle]
       /\ window' = [window EXCEPT ![s] = IF p.complete THEN Recent ELSE Window]
  BY <1>5 DEF Schedule
<1>13. Typed'
  <2>1. p.read \subseteq Posted
    BY <1>4 DEF ReadAll
  <2>2. kept' \subseteq Posted'
    BY <1>5, <2>1 DEF Typed, Posted
  <2>3. Idle \in Passes
    BY DEF Passes
  <2>4. pass' \in [Services -> Passes] /\ window' \in [Services -> {Window, Recent}]
    BY <1>12, <2>3 DEF Typed
  <2>5. prior' \subseteq kept'
    BY <1>5, <1>11 DEF Typed
  <2> QED
    BY <1>5, <1>7, <1>10, <2>2, <2>4, <2>5 DEF Typed
<1>14. Unmarked'
  <2> SUFFICES ASSUME mark' = 0
               PROVE  /\ \A x \in Services : window'[x] = Window
                      /\ \A m \in prior : sent[m] =< since'
    BY <1>5 DEF Unmarked
  <2>1. ~p.complete /\ mark = 0
    BY <1>1, <1>3, <1>6, <1>9
  <2>2. /\ \A x \in Services : window[x] = Window
        /\ \A m \in prior : sent[m] =< since
    BY <2>1 DEF Unmarked
  <2>3. \A x \in Services : window'[x] = Window
    BY <1>12, <2>1, <2>2 DEF Typed
  <2>4. \A m \in prior : sent[m] \in Nat
    BY DEF Typed, Posted
  <2> QED
    BY <1>3, <1>7, <2>2, <2>3, <2>4
<1>15. \A x \in Services : PassOK(pass[x])'
  <2>1. TAKE x \in Services
  <2>2. PICK q \in Passes : q = pass'[x]
    BY <1>13 DEF Typed
  <2>3. CASE x = s
    <3>1. q.at = "idle"
      BY <1>12, <2>2, <2>3 DEF Typed, Idle
    <3>2. PassOK(q)'
      BY <3>1 DEF PassOK
    <3> QED
      BY <2>2, <3>2
  <2>4. CASE x # s
    <3>1. q = pass[x] /\ PassOK(q)
      BY <1>12, <2>2, <2>4 DEF Typed
    <3>2. clock' \in Nat /\ clock =< clock'
      BY <1>3, <1>5
    <3>3. sent' \in [Msgs -> Nat] /\ \A m \in Msgs : sent'[m] = sent[m]
      BY <1>5 DEF Typed
    <3>4. PassOK(q)'
      BY <1>5, <1>7, <3>1, <3>2, <3>3, PassKept
    <3> QED
      BY <2>2, <3>4
  <2> QED
    BY <2>3, <2>4
<1>16. NoSilentLoss'
  <2> SUFFICES ASSUME NEW m \in Posted \cap Roots, sent[m] >= since', sent[m] < mark' - Overlap
               PROVE  Accounted(m)'
    BY <1>5 DEF NoSilentLoss, Roots, Posted
  <2>1. m \in Msgs /\ sent[m] \in Nat /\ sent[m] >= since
    <3>1. m \in Msgs /\ sent[m] \in Nat
      BY DEF Posted, Typed
    <3> QED
      BY <1>3, <1>7, <3>1
  <2>2. ASSUME sent[m] < mark - Overlap PROVE Accounted(m)'
    <3>1. Accounted(m)
      BY <2>1, <2>2 DEF NoSilentLoss
    <3> QED
      BY <1>11, <3>1 DEF Accounted
  <2>3. CASE sent[m] < p.oldest
    BY <1>8, <2>1, <2>2, <2>3
  <2>4. CASE ~(sent[m] < p.oldest)
    <3>1. p.oldest =< sent[m]
      BY <1>3, <2>1, <2>4
    <3>2. CASE p.complete
      <4>1. m \in p.read
        BY <1>4, <1>6, <3>1, <3>2 DEF ReadAll
      <4> QED
        BY <1>5, <4>1 DEF Accounted
    <3>3. CASE ~p.complete /\ giveUp
      <4>1. mark' = p.now
        BY <1>6, <3>3
      <4>2. sent[m] \in p.oldest .. p.now
        BY <1>3, <2>1, <3>1, <4>1
      <4>3. m \in gaps'
        BY <1>5, <3>3, <4>2
      <4> QED
        BY <4>3 DEF Accounted
    <3>4. CASE ~p.complete /\ ~giveUp /\ p.mark # 0
      BY <1>1, <1>6, <2>2, <3>4
    <3>5. CASE ~p.complete /\ ~giveUp /\ p.mark = 0
      BY <1>3, <1>6, <2>1, <3>1, <3>5
    <3> QED
      BY <3>2, <3>3, <3>4, <3>5
  <2> QED
    BY <2>3, <2>4
<1> QED
  BY <1>13, <1>14, <1>15, <1>16

\* A restart: without a mark the promise begins behind what is stored.
LEMMA RestartLoss ==
    ASSUME LossInv, Restart
    PROVE  LossInv'
<1> USE DEF LossInv
<1> DEFINE T == {since} \cup {sent[m] : m \in kept}
<1>1. /\ pass' = [x \in Services |-> Idle] /\ window' = [x \in Services |-> Window] /\ prior' = kept
      /\ since' = IF mark = 0 THEN Max(T) ELSE since
      /\ UNCHANGED <<clock, sent, kept, notes, mark, gaps>>
  BY DEF Restart, store
<1>2. kept \subseteq Msgs /\ since \in Nat /\ clock \in Nat /\ \A m \in kept : sent[m] \in Nat /\ sent[m] =< clock
  BY DEF Typed, Posted
<1>3. T \in SUBSET Nat /\ T # {} /\ since \in T /\ \A m \in kept : sent[m] \in T
  BY <1>2
<1>4. since + clock \in Nat /\ \A x \in T : x =< since + clock
  BY <1>2
<1> HIDE DEF T
<1>5. Max(T) \in T /\ \A y \in T : Max(T) >= y
  <2>1. PICK bound \in Nat : bound = since + clock
    BY <1>4
  <2> QED
    BY <1>3, <1>4, <2>1, MaxOf
<1>6. since' \in Nat /\ since =< since' /\ (mark = 0 => \A m \in kept : sent[m] =< since')
  <2>1. PICK n \in T : n = Max(T)
    BY <1>5
  <2>2. n \in Nat /\ since =< n /\ \A m \in kept : sent[m] =< n
    BY <1>2, <1>3, <1>5, <2>1
  <2>3. CASE mark = 0
    BY <1>1, <2>1, <2>2, <2>3
  <2>4. CASE mark # 0
    BY <1>1, <1>2, <2>4
  <2> QED
    BY <2>3, <2>4
<1>7. Typed'
  <2>1. /\ pass' \in [Services -> Passes] /\ window' \in [Services -> {Window, Recent}]
        /\ kept' \subseteq Posted' /\ prior' \subseteq kept'
    BY <1>1 DEF Typed, Passes, Posted
  <2> QED
    BY <1>1, <1>6, <2>1 DEF Typed
<1>8. Unmarked'
  BY <1>1, <1>6 DEF Unmarked
<1>9. \A x \in Services : PassOK(pass[x])'
  <2>1. TAKE x \in Services
  <2>2. pass'[x].at = "idle"
    BY <1>1 DEF Idle
  <2> QED
    BY <2>2 DEF PassOK
<1>10. NoSilentLoss'
  <2>1. sent' \in [Msgs -> Nat] /\ \A m \in Msgs : sent'[m] = sent[m]
    BY <1>1 DEF Typed
  <2> QED
    BY <1>1, <1>6, <2>1, LossKept
<1> QED
  BY <1>7, <1>8, <1>9, <1>10

\* The invariant of the losses holds in every reachable state.
LEMMA LossAlways == Spec => []LossInv
<1>1. Init => LossInv
  <2> SUFFICES ASSUME Init PROVE LossInv
    OBVIOUS
  <2>1. /\ clock = 1 /\ since = 1 /\ mark = 0 /\ prior = kept
        /\ kept = {} \/ kept = Migrated
        /\ sent = [m \in Msgs |-> IF m \in Migrated THEN 1 ELSE 0]
        /\ pass = [x \in Services |-> Idle] /\ window = [x \in Services |-> Window]
    BY DEF Init
  <2>2. kept \subseteq Migrated /\ Migrated \subseteq Msgs
    BY <2>1, IntakeConstants
  <2>3. Typed
    BY <2>1, <2>2 DEF Typed, Posted, Passes
  <2>4. Unmarked
    BY <2>1, <2>2 DEF Unmarked
  <2>5. \A x \in Services : PassOK(pass[x])
    BY <2>1 DEF PassOK, Idle
  <2>6. NoSilentLoss
    <3>1. \A m \in Msgs : sent[m] \in Nat /\ ~(sent[m] < 0 - Overlap)
      BY <2>1, IntakeConstants
    <3> QED
      BY <2>1, <3>1 DEF NoSilentLoss, Posted
  <2> QED
    BY <2>3, <2>4, <2>5, <2>6 DEF LossInv
<1>2. LossInv /\ [Next]_vars => LossInv'
  <2> SUFFICES ASSUME LossInv, [Next]_vars PROVE LossInv'
    OBVIOUS
  <2>1. CASE Tick
    <3>1. /\ clock' = clock + 1
          /\ UNCHANGED <<sent, kept, notes, mark, gaps, pass, window, prior, since>>
      BY <2>1 DEF Tick, store
    <3>2. clock \in Nat /\ sent \in [Msgs -> Nat] /\ kept \subseteq Posted /\ \A m \in Msgs : sent[m] =< clock
      BY DEF LossInv, Typed
    <3>3. /\ clock' \in Nat /\ clock =< clock' /\ kept' \subseteq Posted'
          /\ sent' \in [Msgs -> Nat] /\ \A m \in Msgs : sent'[m] =< clock' /\ sent'[m] = sent[m]
      BY <3>1, <3>2 DEF Posted
    <3> QED
      BY <3>1, <3>3, LiveLoss
  <2>2. CASE \E m \in Msgs : Post(m) \/ Receive(m)
    BY <2>2, PostLoss, ReceiveLoss
  <2>3. CASE \E s \in Services : Begin(s)
    BY <2>3, BeginLoss
  <2>4. CASE \E s \in Services : Fetch(s)
    BY <2>4, FetchLoss
  <2>5. CASE \E s \in Services : FetchFails(s)
    BY <2>5, IdleLoss DEF FetchFails, store
  <2>6. CASE \E s \in Services : CommitPass(s)
    <3>1. PICK s \in Services : CommitPass(s)
      BY <2>6
    <3>2. CASE Fenced(pass[s])
      BY <3>1, <3>2, CommitLoss
    <3>3. CASE ~Fenced(pass[s])
      <4>1. /\ Schedule(s, FALSE)
            /\ UNCHANGED <<clock, sent, kept, notes, mark, gaps, prior, since>>
        BY <3>1, <3>3 DEF CommitPass, store
      <4> QED
        BY <4>1, IdleLoss
    <3> QED
      BY <3>2, <3>3
  <2>7. CASE Restart
    BY <2>7, RestartLoss
  <2>8. CASE (\E c \in Clients : Backfill(c, 0, clock)) \/ UNCHANGED vars
    <3>1. UNCHANGED <<clock, sent, kept, notes, mark, gaps, pass, window, prior, since>>
      BY <2>8 DEF Backfill, vars, store
    <3>2. /\ pass' \in [Services -> Passes] /\ window' \in [Services -> {Window, Recent}]
          /\ mark = 0 => \A s \in Services : window'[s] = Window
          /\ \A s \in Services : PassOK(pass'[s])
      BY <3>1 DEF LossInv, Typed, Unmarked
    <3> QED
      BY <3>1, <3>2, QuietLoss
  <2> QED
    BY <2>1, <2>2, <2>3, <2>4, <2>5, <2>6, <2>7, <2>8 DEF Next, PassStep
<1>3. Spec => Safe
  BY DEF Spec, Safe
<1> QED
  BY <1>1, <1>2, <1>3, PTL DEF Safe

\* What the watermark passed is stored, noted or in a window given up with a
\* note, for any number of services, passes, failures and restarts
\* (Catchup::start and the commit of Catchup::run).
THEOREM NeverLostSilently == Spec => []NoSilentLoss
<1>1. LossInv => NoSilentLoss
  BY DEF LossInv
<1> QED
  BY <1>1, LossAlways, PTL

-----------------------------------------------------------------------------
(* The watermark.                                                          *)

\* A pass does not know a mark of a later time than its own.
Timely == \A s \in Services : pass[s].at # "idle" => pass[s].mark =< pass[s].now

\* A pass takes over the mark of its beginning.
LEMMA TimelyStep ==
    ASSUME LossInv, Timely, [Next]_vars
    PROVE  Timely'
<1>1. Typed
  BY DEF LossInv
<1>2. CASE UNCHANGED pass
  BY <1>2 DEF Timely
<1>3. ASSUME NEW s \in Services, Begin(s) PROVE Timely'
  <2>1. PICK q : q = [at |-> "reading", now |-> clock, oldest |-> Oldest(window[s]), mark |-> mark,
                      roots |-> {r \in Roots : \E m \in kept : RootOf[m] = r}]
    OBVIOUS
  <2>2. pass' = [pass EXCEPT ![s] = q]
    BY <1>3, <2>1 DEF Begin
  <2>3. q.mark = mark /\ q.now = clock /\ mark =< clock
    BY <1>1, <2>1 DEF Typed
  <2> QED
    BY <1>1, <2>2, <2>3 DEF Timely, Typed
<1>4. ASSUME NEW s \in Services, Fetch(s) PROVE Timely'
  <2>1. PICK q : pass' = [pass EXCEPT ![s] = q] /\ q.now = pass[s].now /\ q.mark = pass[s].mark
    BY <1>4, ZenonT(40) DEF Fetch
  <2>2. pass[s].at = "reading"
    BY <1>4 DEF Fetch
  <2> QED
    BY <1>1, <2>1, <2>2 DEF Timely, Typed
<1>5. ASSUME NEW s \in Services, pass' = [pass EXCEPT ![s] = Idle] PROVE Timely'
  BY <1>1, <1>5 DEF Timely, Typed, Idle
<1>6. CASE Restart
  BY <1>6 DEF Restart, Timely, Idle
<1>7. CASE Tick \/ (\E m \in Msgs : Post(m) \/ Receive(m)) \/ (\E c \in Clients : Backfill(c, 0, clock))
           \/ UNCHANGED vars
  BY <1>2, <1>7 DEF Tick, Post, Receive, Backfill, vars
<1>8. ASSUME NEW s \in Services, FetchFails(s) \/ CommitPass(s) PROVE Timely'
  BY <1>5, <1>8 DEF FetchFails, CommitPass, Schedule
<1> QED
  BY <1>3, <1>4, <1>6, <1>7, <1>8 DEF Next, PassStep

\* Every step but a fenced commit leaves the mark, and a commit takes the mark it
\* began with or the later time of its beginning.
LEMMA MarkStep ==
    ASSUME LossInv, Timely, [Next]_vars
    PROVE  mark # 0 => mark' # 0 /\ mark' >= mark
<1>1. Typed /\ mark \in Int
  BY DEF LossInv, Typed
<1>2. ASSUME NEW s \in Services, CommitPass(s), Fenced(pass[s]), mark # 0
      PROVE  mark' # 0 /\ mark' >= mark
  <2>1. pass[s].at = "read" /\ mark = pass[s].mark /\ mark' = NextMark(pass[s], Runs)
    BY <1>2 DEF CommitPass, Fenced
  <2>2. pass[s] \in Passes /\ PassOK(pass[s])
    BY DEF LossInv, Typed
  <2>3. pass[s].now \in Nat
    BY <2>1, <2>2 DEF Passes, Idle, Readings, Reads
  <2>4. pass[s].now >= 1 /\ pass[s].mark =< pass[s].now
    BY <2>1, <2>2 DEF PassOK, Reading, Timely
  <2>5. mark' = pass[s].now \/ mark' = mark
    BY <1>2, <2>1 DEF NextMark
  <2> QED
    BY <1>1, <1>2, <2>1, <2>3, <2>4, <2>5
<1>3. ASSUME NEW s \in Services, CommitPass(s), ~Fenced(pass[s]) PROVE mark' = mark
  BY <1>3 DEF CommitPass, store
<1>4. CASE Tick \/ (\E m \in Msgs : Post(m) \/ Receive(m)) \/ (\E c \in Clients : Backfill(c, 0, clock))
           \/ Restart \/ UNCHANGED vars
  <2>1. mark' = mark
    BY <1>4 DEF Tick, Post, Receive, Backfill, Restart, vars, store
  <2> QED
    BY <1>1, <2>1
<1>5. ASSUME NEW s \in Services, Begin(s) \/ Fetch(s) \/ FetchFails(s) PROVE mark' = mark
  BY <1>5 DEF Begin, Fetch, FetchFails, store
<1> QED
  BY <1>1, <1>2, <1>3, <1>4, <1>5 DEF Next, PassStep

\* The watermark never goes back and is never lost, for any number of services whose
\* passes overlap: a pass that began before another committed is fenced off, also
\* when it was the truncated one that keeps its mark (the commit of Catchup::run).
THEOREM WatermarkAdvances == Spec => [][mark # 0 => mark' # 0 /\ mark' >= mark]_vars
<1>1. LossInv /\ Timely /\ [Next]_vars => Timely'
  BY TimelyStep
<1>2. LossInv /\ Timely /\ [Next]_vars => [mark # 0 => mark' # 0 /\ mark' >= mark]_vars
  BY MarkStep
<1>3. Init => Timely
  BY DEF Init, Timely, Idle
<1>4. Spec => [][Next]_vars /\ Init
  BY DEF Spec
<1> QED
  BY <1>1, <1>2, <1>3, <1>4, LossAlways, PTL

=============================================================================
