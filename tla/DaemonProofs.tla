---------------------------- MODULE DaemonProofs ----------------------------
(***************************************************************************)
(* The life of a daemon, its subprocesses and its event feed, for any      *)
(* number of daemons, files, calls, records and mishaps: a listening       *)
(* server keeps its socket, a stop ends in order, the process groups never *)
(* exceed their permits, no permit leaks, and a reader of the feed that    *)
(* keeps `next` gets each event once.                                      *)
(***************************************************************************)
EXTENDS Service, Calls, Feed, FiniteSetTheorems, TLAPS

-----------------------------------------------------------------------------
(***************************************************************************)
(* The socket.  Whoever holds the current lock file is alone between its   *)
(* lock and its bind.  The number of a listener that was bound while no    *)
(* server drained is in no other guard: the other listeners keep theirs,   *)
(* and what binds later cannot take one that is kept.                      *)
(***************************************************************************)

Phases == Starting \cup {"down", "bound", "serving", "hangup", "draining", "closing", "ending"}
Servers == {"none", "listening", "draining", "removing", "gone"}

Numbered ==
  /\ phase \in [Daemons -> Phases] /\ server \in [Daemons -> Servers]
  /\ made \in Nat /\ path \in {0} \cup Inodes /\ lockFile \in 0 .. made
  /\ listener \in [Daemons -> {0} \cup Inodes] /\ guard \in [Daemons -> {0} \cup Inodes]
  /\ lock \in [Daemons -> 0 .. made]

\* A server that is not gone belongs to a coordinator that waits for it; a
\* listener is its server's and its guard knows it.
Serving ==
  \A d \in Daemons :
    /\ server[d] \in {"listening", "draining", "removing"} =>
         phase[d] \in {"bound", "serving", "hangup", "draining"}
    /\ listener[d] # 0 <=> server[d] = "listening"
    /\ server[d] = "listening" => guard[d] = listener[d]
    /\ guard[d] # 0 => server[d] \in {"listening", "draining", "removing"}

\* No two daemons hold one lock file, and a daemon that binds holds the one at
\* the path.
Exclusive ==
  /\ \A d, e \in Daemons : d # e /\ lock[d] # 0 => lock[d] # lock[e]
  /\ \A d \in Daemons : phase[d] \in {"locked", "probed"} => lock[d] = lockFile /\ lockFile # 0

\* Between a probe and its bind nobody answers at the path.
Probed == \A d \in Daemons : phase[d] = "probed" => path = 0 \/ ~Answers(path)

\* The socket files that stay, and who could mistake one for its own.
Kept(d) == listener[d] # 0 /\ d \notin swept \cup beside
Unmistaken ==
  \A d, e \in Daemons :
    /\ d # e /\ listener[d] # 0 => listener[d] # listener[e]
    /\ Kept(d) => server[e] # "removing"
    /\ Kept(d) /\ d # e => guard[e] # listener[d]

SocketInv == Numbered /\ Serving /\ Exclusive /\ Probed /\ Unmistaken /\ SocketOwned

\* Steps that touch neither the socket, its locks nor the coordinators.
Aside == UNCHANGED <<phase, server, listener, guard, fileVars, historyVars>>

\* Every step keeps the socket.
LEMMA SocketStep == SocketInv /\ [ServiceNext]_serviceVars => SocketInv'
<1> SUFFICES ASSUME SocketInv, [ServiceNext]_serviceVars PROVE SocketInv'
  OBVIOUS
<1>n. 0 \notin Inodes
  BY ServiceConstants
<1> USE DEF SocketInv, fileVars, historyVars, Servers
<1>1. CASE Aside
  BY <1>1 DEF Aside, Numbered, Serving, Exclusive, Probed, Unmistaken, Kept, SocketOwned, Answers
<1>2. ASSUME NEW d \in Daemons,
             Begin(d) \/ Abandon(d) \/ LoopsEnd(d) \/ HangUp(d) \/ Withdraw(d) \/ CloseWorkers(d)
             \/ End(d) \/ Advertise(d) \/ StartFails(d)
      PROVE  SocketInv'
  <2>1. /\ listener' = listener /\ guard' = guard /\ lockFile' = lockFile /\ path' = path
        /\ made' = made /\ swept' = swept /\ beside' = beside
        /\ \A e \in Daemons : e # d => phase'[e] = phase[e] /\ server'[e] = server[e] /\ lock'[e] = lock[e]
        /\ phase' \in [Daemons -> Phases] /\ phase'[d] \notin {"locked", "probed"}
        /\ lock' \in [Daemons -> 0 .. made] /\ lock'[d] \in {0, lock[d]}
        /\ server' \in [Daemons -> Servers] /\ server'[d] \in {server[d], "none"}
    BY <1>2 DEF Begin, Abandon, LoopsEnd, HangUp, Withdraw, CloseWorkers, End, Advertise, StartFails,
                Move, Numbered, Phases, Starting
  <2>2. /\ server'[d] \in {"listening", "draining", "removing"} =>
             phase'[d] \in {"bound", "serving", "hangup", "draining"}
        /\ server'[d] # server[d] => phase[d] = "down"
    BY <1>2 DEF Begin, Abandon, LoopsEnd, HangUp, Withdraw, CloseWorkers, End, Advertise, StartFails,
                Move, Numbered, Serving
  <2>3. Serving'
    BY <2>1, <2>2 DEF Numbered, Serving
  <2> QED
    BY <2>1, <2>2, <2>3 DEF Numbered, Exclusive, Probed, Unmistaken, Kept, SocketOwned, Answers
<1>3. ASSUME NEW d \in Daemons, LockSocket(d) PROVE SocketInv'
  <2>1. /\ listener' = listener /\ guard' = guard /\ path' = path /\ server' = server
        /\ swept' = swept /\ beside' = beside
        /\ made' \in {made, made + 1} /\ phase[d] = "begun" /\ phase'[d] \in {"locked", "draining"}
        /\ phase' \in [Daemons -> Phases]
        /\ \A e \in Daemons : e # d => phase'[e] = phase[e] /\ lock'[e] = lock[e]
    BY <1>3 DEF LockSocket, Move, Numbered, Phases, Starting
  <2>2. /\ lock' \in [Daemons -> 0 .. made'] /\ lockFile' \in 0 .. made'
        /\ lockFile' # lockFile => lockFile = 0
        /\ phase'[d] = "locked" => lock'[d] = lockFile' /\ lockFile' # 0
        /\ \A e \in Daemons : e # d => lock'[d] = lock[d] \/ lock'[d] # lock[e]
    BY <1>3 DEF LockSocket, Move, Numbered
  <2>3. Numbered' /\ Serving'
    BY <2>1, <2>2 DEF Numbered, Serving
  <2>4. Exclusive'
    BY <2>1, <2>2 DEF Exclusive, Numbered
  <2> QED
    BY <2>1, <2>3, <2>4 DEF Probed, Unmistaken, Kept, SocketOwned, Answers
<1>4. ASSUME NEW d \in Daemons, ProbeSocket(d) PROVE SocketInv'
  <2>1. /\ listener' = listener /\ guard' = guard /\ path' = path /\ server' = server
        /\ swept' = swept /\ beside' = beside
        /\ made' = made /\ lockFile' = lockFile /\ phase' \in [Daemons -> Phases]
        /\ phase[d] = "locked" /\ phase'[d] \in {"probed", "draining"}
        /\ phase'[d] = "probed" => lock' = lock /\ (path = 0 \/ ~Answers(path))
        /\ \A e \in Daemons : e # d => phase'[e] = phase[e] /\ lock'[e] = lock[e]
        /\ lock' \in [Daemons -> 0 .. made] /\ lock'[d] \in {0, lock[d]}
    BY <1>4 DEF ProbeSocket, Move, Numbered, Phases, Starting
  <2> QED
    BY <2>1 DEF Numbered, Serving, Exclusive, Probed, Unmistaken, Kept, SocketOwned, Answers
<1>5. ASSUME NEW d \in Daemons, Bind(d) PROVE SocketInv'
  <2>1. PICK inode \in Inodes :
          /\ ~Answers(inode) /\ path' = inode
          /\ listener' = [listener EXCEPT ![d] = inode] /\ guard' = [guard EXCEPT ![d] = inode]
    BY <1>5 DEF Bind
  <2>2. /\ phase[d] = "probed" /\ phase' = [phase EXCEPT ![d] = "bound"]
        /\ server' = [server EXCEPT ![d] = "listening"]
        /\ lock' = lock /\ lockFile' = lockFile /\ made' = made /\ swept' = swept \ {d}
        /\ beside' = IF \E e \in Daemons : Late(e) THEN beside \cup {d} ELSE beside \ {d}
    BY <1>5 DEF Bind, Move
  <2>3. /\ \A e \in Daemons : e # d => phase[e] \notin {"locked", "probed"}
        /\ \A e \in Daemons : ~Kept(e)
    BY <1>n, <2>2 DEF Exclusive, Probed, SocketOwned, Answers, Kept
  <2>4. inode # 0 /\ \A e \in Daemons : listener[e] # inode
    BY <1>n, <2>1 DEF Answers
  <2>5. Numbered' /\ Serving'
    BY <2>1, <2>2, <2>4 DEF Numbered, Serving, Phases, Starting
  <2>6. Exclusive' /\ Probed'
    BY <2>2, <2>3 DEF Exclusive, Probed, Numbered
  <2>7. ASSUME NEW e \in Daemons, Kept(e)' PROVE e = d /\ \A f \in Daemons : ~Late(f)
    <3>1. e = d
      BY <2>1, <2>2, <2>3, <2>7 DEF Kept, Numbered
    <3> QED
      BY <2>2, <2>7, <3>1 DEF Kept
  <2>8. Unmistaken'
    <3>1. ASSUME NEW e \in Daemons, NEW f \in Daemons, e # f, listener'[e] # 0
          PROVE  listener'[e] # listener'[f]
      BY <2>1, <2>4, <3>1 DEF Unmistaken, Numbered
    <3>2. ASSUME NEW e \in Daemons, NEW f \in Daemons, Kept(e)'
          PROVE  server'[f] # "removing" /\ (e # f => guard'[f] # listener'[e])
      <4>1. e = d /\ ~Late(f)
        BY <2>7, <3>2
      <4>2. server'[f] # "removing"
        BY <2>2, <4>1 DEF Late, Numbered
      <4>3. ASSUME e # f PROVE guard'[f] # listener'[e]
        <5>1. guard'[f] = guard[f] /\ listener'[e] = inode
          BY <2>1, <4>1, <4>3 DEF Numbered
        <5>2. guard[f] = 0 \/ guard[f] = listener[f]
          BY <4>1 DEF Serving, Late
        <5> QED
          BY <2>4, <5>1, <5>2
      <4> QED
        BY <4>2, <4>3
    <3> QED
      BY <3>1, <3>2 DEF Unmistaken
  <2>9. SocketOwned'
    <3>1. ASSUME NEW e \in Daemons, Kept(e)' PROVE path' = listener'[e]
      BY <2>1, <2>7, <3>1 DEF Numbered
    <3> QED
      BY <3>1 DEF SocketOwned, Kept
  <2> QED
    BY <2>5, <2>6, <2>8, <2>9
<1>6. ASSUME NEW d \in Daemons, BindFails(d) PROVE SocketInv'
  <2>1. /\ phase[d] = "probed" /\ phase' = [phase EXCEPT ![d] = "draining"]
        /\ path' \in {path, 0} \cup {i \in Inodes : ~Answers(i)}
        /\ lock' = [lock EXCEPT ![d] = 0]
        /\ UNCHANGED <<server, listener, guard, lockFile, made, swept, beside>>
    BY <1>6 DEF BindFails, Move
  <2>2. /\ \A e \in Daemons : e # d => phase[e] \notin {"locked", "probed"}
        /\ \A e \in Daemons : ~Kept(e)
    BY <1>n, <2>1 DEF Exclusive, Probed, SocketOwned, Answers, Kept
  <2> QED
    BY <2>1, <2>2 DEF Numbered, Serving, Exclusive, Probed, Unmistaken, Kept, SocketOwned, Phases
<1>7. ASSUME NEW d \in Daemons, StopListening(d) PROVE SocketInv'
  <2>1. /\ server[d] = "listening" /\ server' = [server EXCEPT ![d] = "draining"]
        /\ listener' = [listener EXCEPT ![d] = 0]
        /\ swept' = swept \ {d} /\ beside' = beside \ {d}
        /\ UNCHANGED <<phase, guard, fileVars>>
    BY <1>7 DEF StopListening
  <2>2. \A e \in Daemons : Kept(e)' => e # d /\ Kept(e)
    BY <2>1 DEF Kept, Numbered
  <2>3. Numbered' /\ Serving'
    BY <2>1 DEF Numbered, Serving
  <2> QED
    BY <2>1, <2>2, <2>3 DEF Numbered, Exclusive, Probed, Unmistaken, SocketOwned, Kept, Answers
<1>8. ASSUME NEW d \in Daemons, Drain(d) PROVE SocketInv'
  <2>1. server[d] = "draining" /\ LetGo(d) /\ UNCHANGED <<phase, listener, lockFile, path, made, swept, beside>>
    BY <1>8 DEF Drain
  <2>2. listener[d] = 0 /\ phase[d] \notin {"locked", "probed"}
    BY <2>1 DEF Serving
  <2>3. CASE FindsOwn(d)
    <3>1. server' = [server EXCEPT ![d] = "removing"] /\ guard' = guard /\ lock' = lock
      BY <2>1, <2>3 DEF LetGo
    <3>2. \A e \in Daemons : ~Kept(e)
      BY <2>2, <2>3 DEF FindsOwn, SocketOwned, Unmistaken, Kept
    <3> QED
      BY <2>1, <2>2, <3>1, <3>2
      DEF Numbered, Serving, Exclusive, Probed, Unmistaken, Kept, SocketOwned, Answers
  <2>4. CASE ~FindsOwn(d)
    <3>1. /\ server' = [server EXCEPT ![d] = "gone"] /\ guard' = [guard EXCEPT ![d] = 0]
          /\ lock' = [lock EXCEPT ![d] = 0]
      BY <2>1, <2>4 DEF LetGo
    <3> QED
      BY <2>1, <2>2, <3>1
      DEF Numbered, Serving, Exclusive, Probed, Unmistaken, Kept, SocketOwned, Answers
  <2> QED
    BY <2>3, <2>4
<1>9. ASSUME NEW d \in Daemons, Unlink(d) PROVE SocketInv'
  <2>1. /\ server[d] = "removing" /\ server' = [server EXCEPT ![d] = "gone"] /\ path' = 0
        /\ guard' = [guard EXCEPT ![d] = 0] /\ lock' = [lock EXCEPT ![d] = 0]
        /\ UNCHANGED <<phase, listener, lockFile, made, swept, beside>>
    BY <1>9 DEF Unlink
  <2>2. /\ listener[d] = 0 /\ phase[d] \notin {"locked", "probed"}
        /\ \A e \in Daemons : ~Kept(e)
    BY <2>1 DEF Serving, Unmistaken
  <2> QED
    BY <2>1, <2>2 DEF Numbered, Serving, Exclusive, Probed, Unmistaken, Kept, SocketOwned, Answers
<1>10. ASSUME NEW d \in Daemons, Die(d) PROVE SocketInv'
  <2>1. /\ server' = [server EXCEPT ![d] = "gone"] /\ phase' = [phase EXCEPT ![d] = "down"]
        /\ listener' = [listener EXCEPT ![d] = 0]
        /\ guard' = [guard EXCEPT ![d] = 0] /\ lock' = [lock EXCEPT ![d] = 0]
        /\ swept' = swept \ {d} /\ beside' = beside \ {d}
        /\ UNCHANGED <<path, lockFile, made>>
    BY <1>10 DEF Die, Move
  <2>2. \A e \in Daemons : Kept(e)' => e # d /\ Kept(e)
    BY <2>1 DEF Kept, Numbered
  <2>3. Numbered' /\ Serving'
    BY <2>1 DEF Numbered, Serving, Phases
  <2> QED
    BY <2>1, <2>2, <2>3 DEF Numbered, Exclusive, Probed, Unmistaken, SocketOwned, Kept, Answers
<1>11. ASSUME NEW socket \in BOOLEAN, NEW locks \in BOOLEAN, Sweep(socket, locks) PROVE SocketInv'
  <2>1. /\ \A d \in Daemons : phase[d] \notin Starting
        /\ path' \in {0, path} /\ lockFile' \in {0, lockFile}
        /\ UNCHANGED <<phase, server, listener, guard, lock, made, beside>>
    BY <1>11 DEF Sweep
  <2>2. \A d \in Daemons : Kept(d)' => Kept(d) /\ path' = listener[d]
    BY <1>11 DEF Sweep, SocketOwned, Kept
  <2> QED
    BY <2>1, <2>2 DEF Numbered, Serving, Exclusive, Probed, Unmistaken, SocketOwned, Kept, Answers, Starting
<1>12. CASE ServiceNext
  <2>1. ASSUME NEW d \in Daemons, Stop(d) PROVE Aside
    BY <2>1 DEF Stop, Aside
  <2>2. ASSUME NEW o \in Operations,
               (\E d \in Daemons : Accept(o, d)) \/ Serve(o) \/ Disconnect(o) \/ Finish(o)
        PROVE  Aside
    BY <2>2 DEF Accept, Serve, Disconnect, Finish, Aside
  <2> QED
    BY <1>12, <1>1, <1>2, <1>3, <1>4, <1>5, <1>6, <1>7, <1>8, <1>9, <1>10, <1>11, <2>1, <2>2
    DEF ServiceNext, Coordinate
<1>13. CASE UNCHANGED serviceVars
  BY <1>1, <1>13 DEF serviceVars, Aside
<1> QED
  BY <1>12, <1>13

\* The invariant holds at first.
LEMMA SocketFirst == ServiceInit => SocketInv
  BY ServiceConstants
  DEF ServiceInit, SocketInv, Numbered, Serving, Exclusive, Probed, Unmistaken, Kept, SocketOwned,
      Phases, Servers

\* A server that listens is reached at the path, for any number of daemons, files
\* and mishaps, deleted lock files included: neither a second daemon nor the late
\* guard of an earlier one takes its socket, unless the socket was deleted from
\* outside or bound while another server drained (Server::bind, SocketGuard::drop).
THEOREM SocketAlwaysOwned == ServiceSpec => []SocketOwned
<1>1. SocketInv => SocketOwned
  BY DEF SocketInv
<1> QED
  BY <1>1, SocketFirst, SocketStep, PTL DEF ServiceSpec

\* As long as the lock file stays, whoever has a guard holds it.
Held ==
  /\ beside = {}
  /\ \A d \in Daemons : guard[d] # 0 \/ Late(d) => lock[d] = lockFile /\ lockFile # 0

\* Every step that leaves the lock file alone keeps that.
LEMMA HeldStep ==
  ASSUME SocketInv, Held, [ServiceNext]_serviceVars, [LockStays]_serviceVars
  PROVE  Held'
<1>n. 0 \notin Inodes
  BY ServiceConstants
<1> USE DEF SocketInv, Numbered, Servers, Held, Late, fileVars, historyVars
<1>1. CASE Aside
  BY <1>1 DEF Aside
<1>2. ASSUME NEW d \in Daemons,
             Begin(d) \/ Abandon(d) \/ LoopsEnd(d) \/ HangUp(d) \/ Withdraw(d) \/ CloseWorkers(d)
             \/ End(d) \/ Advertise(d) \/ StartFails(d) \/ ProbeSocket(d) \/ BindFails(d)
      PROVE  Held'
  <2>1. /\ guard' = guard /\ lockFile' = lockFile /\ beside' = beside
        /\ \A e \in Daemons : e # d => server'[e] = server[e] /\ lock'[e] = lock[e]
        /\ server'[d] \in {server[d], "none"}
        /\ lock'[d] # lock[d] => phase[d] \in Starting
    BY <1>2 DEF Begin, Abandon, LoopsEnd, HangUp, Withdraw, CloseWorkers, End, Advertise, StartFails,
                ProbeSocket, BindFails, Move, Starting
  <2>2. phase[d] \in Starting => guard[d] = 0 /\ ~Late(d)
    BY DEF Serving, Starting
  <2> QED
    BY <2>1, <2>2
<1>3. ASSUME NEW d \in Daemons, LockSocket(d) PROVE Held'
  <2>1. /\ phase[d] = "begun" /\ UNCHANGED <<guard, server, beside>>
        /\ \A e \in Daemons : e # d => lock'[e] = lock[e]
        /\ lockFile' # lockFile => lockFile = 0
    BY <1>3 DEF LockSocket
  <2>2. guard[d] = 0 /\ ~Late(d)
    BY <2>1 DEF Serving
  <2> QED
    BY <2>1, <2>2
<1>4. ASSUME NEW d \in Daemons, Bind(d) PROVE Held'
  <2>1. /\ phase[d] = "probed" /\ lock' = lock /\ lockFile' = lockFile
        /\ server' = [server EXCEPT ![d] = "listening"]
        /\ \E inode \in Inodes : guard' = [guard EXCEPT ![d] = inode]
        /\ beside' = IF \E e \in Daemons : Late(e) THEN beside \cup {d} ELSE beside \ {d}
    BY <1>4 DEF Bind
  <2>2. lock[d] = lockFile /\ lockFile # 0 /\ ~Late(d)
    BY <2>1 DEF Exclusive, Serving
  <2>3. \A e \in Daemons : ~Late(e)
    BY <2>2 DEF Exclusive
  <2> QED
    BY <2>1, <2>2, <2>3
<1>5. ASSUME NEW d \in Daemons, StopListening(d) PROVE Held'
  <2>1. /\ server[d] = "listening" /\ server' = [server EXCEPT ![d] = "draining"]
        /\ beside' = beside \ {d} /\ UNCHANGED <<guard, lock, lockFile>>
    BY <1>5 DEF StopListening
  <2> QED
    BY <2>1 DEF Serving
<1>6. ASSUME NEW d \in Daemons, Drain(d) \/ Unlink(d) \/ Die(d) PROVE Held'
  <2>1. /\ lockFile' = lockFile /\ beside' \subseteq beside
        /\ \A e \in Daemons : e # d =>
             server'[e] = server[e] /\ guard'[e] = guard[e] /\ lock'[e] = lock[e]
        /\ \/ server'[d] = "removing" /\ server[d] = "draining" /\ guard' = guard /\ lock' = lock
           \/ server'[d] = "gone" /\ guard'[d] = 0
    BY <1>6 DEF Drain, LetGo, Unlink, Die
  <2> QED
    BY <2>1
<1>7. ASSUME NEW socket \in BOOLEAN, NEW locks \in BOOLEAN, Sweep(socket, locks) PROVE Held'
  BY <1>7 DEF Sweep, LockStays, serviceVars
<1>8. ASSUME NEW d \in Daemons, Stop(d) PROVE Aside
  BY <1>8 DEF Stop, Aside
<1>9. ASSUME NEW o \in Operations,
             (\E d \in Daemons : Accept(o, d)) \/ Serve(o) \/ Disconnect(o) \/ Finish(o)
      PROVE  Aside
  BY <1>9 DEF Accept, Serve, Disconnect, Finish, Aside
<1>10. CASE UNCHANGED serviceVars
  BY <1>1, <1>10 DEF serviceVars, Aside
<1> QED
  BY <1>1, <1>2, <1>3, <1>4, <1>5, <1>6, <1>7, <1>8, <1>9, <1>10 DEF ServiceNext, Coordinate

\* With the lock file left alone under its holder, a listening server loses its
\* socket only to someone who deletes that very file: a successor binds after the
\* guard of its predecessor is done, also when a number is used again
\* (Server::bind's lock, SocketGuard's _lock).
THEOREM LockKeepsSocket ==
  ServiceSpec /\ [][LockStays]_serviceVars
    => [](\A d \in Daemons : listener[d] # 0 /\ d \notin swept => path = listener[d])
<1>1. ServiceInit => Held
  BY DEF ServiceInit, Held, Late
<1>2. SocketInv /\ Held => \A d \in Daemons : listener[d] # 0 /\ d \notin swept => path = listener[d]
  BY DEF SocketInv, SocketOwned, Held
<1> QED
  BY <1>1, <1>2, SocketFirst, SocketStep, HeldStep, PTL DEF ServiceSpec

\* A daemon that closes its workers or ended holds nothing of the control server.
StoppedInOrder ==
  \A d \in Daemons : phase[d] \in {"closing", "ending", "down"} =>
     /\ listener[d] = 0 /\ guard[d] = 0 /\ lock[d] = 0
     /\ OpsOf(d, "reading") = {} /\ OpsOf(d, "running") = {}

\* Without a server a daemon holds the lock only while it starts, and it has no
\* operation; a server that drains reads no request.
Quiet(d) ==
  /\ phase[d] \in Starting => server[d] = "none"
  /\ phase[d] = "begun" => lock[d] = 0
  /\ phase[d] \in {"bound", "serving", "hangup"} => server[d] # "none"
  /\ phase[d] \in {"closing", "ending", "down"} => server[d] \in {"none", "gone"}
  /\ server[d] # "listening" => listener[d] = 0
  /\ server[d] \in {"none", "gone"} => guard[d] = 0
  /\ server[d] \in {"none", "gone"} /\ phase[d] \notin Starting => lock[d] = 0
  /\ \A o \in Operations : host[o] = d =>
       /\ op[o] = "reading" => server[d] = "listening"
       /\ op[o] = "running" => server[d] \in {"listening", "draining"}

StopInv ==
  /\ Numbered /\ op \in [Operations -> {"none", "reading", "running", "ended"}]
  /\ Daemons # {} => host \in [Operations -> Daemons]
  /\ \A d \in Daemons : Quiet(d)

\* Every step keeps the order of a stop.
LEMMA StopStep ==
  ASSUME StopInv, Numbered', [ServiceNext]_serviceVars
  PROVE  StopInv'
<1> USE DEF StopInv, Servers, fileVars, historyVars, opVars
<1>1. ASSUME NEW d \in Daemons,
             Begin(d) \/ Coordinate(d) \/ BindFails(d) \/ StartFails(d) \/ LoopsEnd(d) \/ Stop(d)
      PROVE  StopInv'
  <2>1. UNCHANGED <<op, host>> /\ \A e \in Daemons : e # d =>
          /\ phase'[e] = phase[e] /\ server'[e] = server[e] /\ lock'[e] = lock[e]
          /\ listener'[e] = listener[e] /\ guard'[e] = guard[e]
    BY <1>1 DEF Begin, Coordinate, Abandon, LockSocket, ProbeSocket, Bind, Advertise, HangUp, Withdraw,
                CloseWorkers, End, BindFails, StartFails, LoopsEnd, Stop, Move, Numbered
  <2>2. Quiet(d)'
    <3> USE DEF Quiet, Numbered, Starting, Move
    <3>1. CASE Begin(d) \/ Abandon(d) \/ Stop(d)
      BY <2>1, <3>1 DEF Begin, Abandon, Stop
    <3>2. CASE LockSocket(d)
      BY <2>1, <3>2 DEF LockSocket
    <3>3. CASE ProbeSocket(d)
      BY <2>1, <3>3 DEF ProbeSocket
    <3>4. CASE Bind(d)
      BY <2>1, <3>4 DEF Bind
    <3>5. CASE Advertise(d) \/ HangUp(d) \/ LoopsEnd(d)
      BY <2>1, <3>5 DEF Advertise, HangUp, LoopsEnd
    <3>6. CASE Withdraw(d) \/ CloseWorkers(d) \/ End(d)
      BY <2>1, <3>6 DEF Withdraw, CloseWorkers, End
    <3>7. CASE BindFails(d) \/ StartFails(d)
      BY <2>1, <3>7 DEF BindFails, StartFails
    <3> QED
      BY <1>1, <3>1, <3>2, <3>3, <3>4, <3>5, <3>6, <3>7 DEF Coordinate
  <2> QED
    BY <2>1, <2>2 DEF Quiet
<1>2. ASSUME NEW d \in Daemons, StopListening(d) PROVE StopInv'
  <2>1. /\ server[d] = "listening" /\ server' = [server EXCEPT ![d] = "draining"]
        /\ listener' = [listener EXCEPT ![d] = 0]
        /\ op' = [o \in Operations |-> IF o \in OpsOf(d, "reading") THEN "ended" ELSE op[o]]
        /\ UNCHANGED <<phase, guard, lock, host>> /\ phase[d] \notin Starting
    BY <1>2 DEF StopListening, Starting
  <2> QED
    BY <2>1 DEF Quiet, Numbered, OpsOf
<1>3. ASSUME NEW d \in Daemons, Drain(d) PROVE StopInv'
  <2>1. /\ server[d] = "draining" /\ LetGo(d)
        /\ op' = [o \in Operations |-> IF o \in OpsOf(d, "running") THEN "ended" ELSE op[o]]
        /\ UNCHANGED <<phase, listener, host>>
    BY <1>3 DEF Drain
  <2>2. /\ \A e \in Daemons : e # d =>
             server'[e] = server[e] /\ guard'[e] = guard[e] /\ lock'[e] = lock[e]
        /\ \/ server'[d] = "removing" /\ guard' = guard /\ lock' = lock
           \/ server'[d] = "gone" /\ guard'[d] = 0 /\ lock'[d] = 0
    BY <2>1 DEF LetGo, Numbered
  <2>3. ASSUME NEW e \in Daemons PROVE Quiet(e)'
    <3>1. CASE e = d
      BY <2>1, <2>2, <3>1 DEF Quiet, OpsOf
    <3>2. CASE e # d
      BY <2>1, <2>2, <3>2 DEF Quiet, OpsOf
    <3> QED
      BY <3>1, <3>2
  <2> QED
    BY <2>1, <2>3
<1>4. ASSUME NEW d \in Daemons, Unlink(d) PROVE StopInv'
  <2>1. /\ server[d] = "removing" /\ server' = [server EXCEPT ![d] = "gone"]
        /\ guard' = [guard EXCEPT ![d] = 0] /\ lock' = [lock EXCEPT ![d] = 0]
        /\ UNCHANGED <<phase, listener, op, host>>
    BY <1>4 DEF Unlink
  <2> QED
    BY <2>1 DEF Quiet, Numbered
<1>5. ASSUME NEW d \in Daemons, Die(d) PROVE StopInv'
  <2>1. /\ phase' = [phase EXCEPT ![d] = "down"] /\ server' = [server EXCEPT ![d] = "gone"]
        /\ listener' = [listener EXCEPT ![d] = 0]
        /\ guard' = [guard EXCEPT ![d] = 0] /\ lock' = [lock EXCEPT ![d] = 0]
        /\ op' = [o \in Operations |-> IF host[o] = d THEN "ended" ELSE op[o]]
        /\ UNCHANGED host
    BY <1>5 DEF Die, Move
  <2> QED
    BY <2>1 DEF Quiet, Numbered, Starting
<1>6. ASSUME NEW o \in Operations,
             (\E d \in Daemons : Accept(o, d)) \/ Serve(o) \/ Disconnect(o) \/ Finish(o)
      PROVE  StopInv'
  <2>1. UNCHANGED <<phase, server, listener, guard, lock>>
    BY <1>6 DEF Accept, Serve, Disconnect, Finish
  <2>2. ASSUME NEW d \in Daemons, Accept(o, d) PROVE StopInv'
    BY <2>1, <2>2 DEF Accept, Quiet
  <2>3. CASE Serve(o) \/ Disconnect(o) \/ Finish(o)
    BY <2>1, <2>3 DEF Serve, Disconnect, Finish, Quiet
  <2> QED
    BY <1>6, <2>2, <2>3
<1>7. CASE (\E socket, locks \in BOOLEAN : Sweep(socket, locks)) \/ UNCHANGED serviceVars
  BY <1>7 DEF Sweep, serviceVars, Quiet
<1> QED
  BY <1>1, <1>2, <1>3, <1>4, <1>5, <1>6, <1>7 DEF ServiceNext

\* A daemon closes its workers, and is down, only after its socket is closed, its
\* files are let go and no operation of the owner is read or running, also when the
\* bind was refused or abandoned or the listener failed before the stop
\* (Service::coordinate waits for lifecycle.stop; Server::run drains).
THEOREM StopsInOrder == ServiceSpec => []StoppedInOrder
<1>1. ServiceInit => SocketInv /\ StopInv
  BY SocketFirst DEF SocketInv, ServiceInit, StopInv, Quiet, Starting
<1>2. SocketInv /\ StopInv /\ [ServiceNext]_serviceVars => SocketInv' /\ StopInv'
  <2>1. SocketInv' => Numbered'
    BY DEF SocketInv
  <2> QED
    BY <2>1, SocketStep, StopStep
<1>3. StopInv => StoppedInOrder
  BY DEF StopInv, Quiet, StoppedInOrder, OpsOf, Starting
<1> QED
  BY <1>1, <1>2, <1>3, PTL DEF ServiceSpec

-----------------------------------------------------------------------------
(***************************************************************************)
(* Process groups.  A group that was not killed has a permit, and permits  *)
(* are only given while their number allows it.                            *)
(***************************************************************************)

Stages == {"none", "waiting", "queued", "permitted", "ready", "running", "returned", "ended", "gone"}
Owners == {"none", "communicating", "terminating", "confirming", "finished", "ended"}

CallTypes ==
  /\ kind \in [Calls -> {"parent"} \cup DOMAIN Capacity]
  /\ stage \in [Calls -> Stages] /\ owner \in [Calls -> Owners]
  /\ leader \in [Calls -> {"none", "alive", "exited"}] /\ permits \subseteq Calls

\* Before its process a pooled call holds its permit from the admission on;
\* its owner then keeps it until the group was killed.
Covered(c) ==
  /\ stage[c] = "none" => c \notin permits
  /\ stage[c] = "queued" => ~Pooled(c)
  /\ stage[c] \in {"none", "waiting", "queued", "permitted", "ready"} => owner[c] = "none"
  /\ stage[c] \in {"permitted", "ready"} /\ Pooled(c) => c \in permits
  /\ owner[c] = "none" => leader[c] = "none" /\ c \notin heirs
  /\ owner[c] \in {"communicating", "terminating"} /\ Pooled(c) => c \in permits
  /\ owner[c] \in {"confirming", "finished", "ended"} \/ c \in reaped => c \in killed

Given(k) == {c \in permits : kind[c] = k}
Granted == IsFiniteSet(permits) /\ \A k \in DOMAIN Capacity : Cardinality(Given(k)) =< Capacity[k]

CallsInv == CallTypes /\ (\A c \in Calls : Covered(c)) /\ Granted

\* Permits that are kept or given back, with the kinds of their calls as they
\* were, leave the number granted within the capacity.
LEMMA GrantedKept ==
  ASSUME Granted, permits' \subseteq permits, \A c \in permits : kind'[c] = kind[c]
  PROVE  Granted'
<1>1. IsFiniteSet(permits')
  BY FS_Subset DEF Granted
<1>2. ASSUME NEW k \in DOMAIN Capacity PROVE Cardinality(Given(k)') =< Capacity[k]
  <2>1. IsFiniteSet(Given(k))
    BY FS_Subset DEF Granted, Given
  <2>2. Given(k)' \subseteq Given(k)
    BY DEF Given
  <2>3. Cardinality(Given(k)') \in Nat /\ Cardinality(Given(k)) \in Nat
        /\ Cardinality(Given(k)') =< Cardinality(Given(k))
    BY <2>1, <2>2, FS_Subset, FS_CardinalityType
  <2> QED
    BY <2>3, CallConstants DEF Granted
<1> QED
  BY <1>1, <1>2 DEF Granted

\* A new permit is given below the capacity.
LEMMA GrantedTaken ==
  ASSUME CallTypes, Granted, NEW c \in Calls, TakePermit(c)
  PROVE  Granted'
<1>1. permits' = permits \cup {c} /\ kind' = kind /\ kind[c] \in DOMAIN Capacity
      /\ Cardinality(Given(kind[c])) < Capacity[kind[c]]
  BY DEF TakePermit, Pooled, CallTypes, Given
<1>2. IsFiniteSet(permits')
  BY <1>1, FS_AddElement DEF Granted
<1>3. ASSUME NEW k \in DOMAIN Capacity PROVE Cardinality(Given(k)') =< Capacity[k]
  <2>1. IsFiniteSet(Given(k)) /\ Cardinality(Given(k)) \in Nat
    BY FS_Subset, FS_CardinalityType DEF Granted, Given
  <2>2. CASE k = kind[c]
    <3>1. Given(k)' = Given(k) \cup {c}
      BY <1>1, <2>2 DEF Given
    <3>2. Cardinality(Given(k)') \in {Cardinality(Given(k)), Cardinality(Given(k)) + 1}
      BY <2>1, <3>1, FS_AddElement, Zenon
    <3> QED
      BY <1>1, <2>1, <2>2, <3>2, CallConstants
  <2>3. CASE k # kind[c]
    <3>1. Given(k)' = Given(k)
      BY <1>1, <2>3 DEF Given
    <3> QED
      BY <3>1 DEF Granted
  <2> QED
    BY <2>2, <2>3
<1> QED
  BY <1>2, <1>3 DEF Granted

\* Every step keeps the permits.
LEMMA CallsStep == CallsInv /\ [CallsNext]_callVars => CallsInv'
<1> SUFFICES ASSUME CallsInv, [CallsNext]_callVars PROVE CallsInv'
  OBVIOUS
<1> USE DEF CallsInv, processVars
<1>1. ASSUME NEW c \in Calls, TakePermit(c) PROVE CallsInv'
  <2>1. CallTypes' /\ \A d \in Calls : Covered(d)'
    BY <1>1 DEF TakePermit, Step, CallTypes, Covered, Pooled, Stages
  <2> QED
    BY <1>1, <2>1, GrantedTaken
<1>2. ASSUME NEW c \in Calls, Request(c) PROVE CallsInv'
  <2>1. CallTypes' /\ \A d \in Calls : Covered(d)'
    BY <1>2 DEF Request, Step, CallTypes, Covered, Pooled, Stages
  <2>2. permits' = permits /\ \A d \in permits : kind'[d] = kind[d]
    BY <1>2 DEF Request, CallTypes, Covered
  <2> QED
    BY <2>1, <2>2, GrantedKept
<1>3. ASSUME NEW c \in Calls, CallerStep(c) \/ CancelCall(c) \/ RecordFails(c) PROVE CallsInv'
  <2>1. permits' \subseteq permits /\ kind' = kind
    BY <1>3 DEF CallerStep, ReachGate, TakeProbe, WaitedOut, Admit, Launch, SettleCall, CancelCall,
                RecordFails
  <2>2. CallTypes' /\ \A d \in Calls : Covered(d)'
    <3> USE DEF CallTypes, Covered, Pooled, Stages, Step
    <3>1. CASE ReachGate(c)
      BY <3>1 DEF ReachGate
    <3>2. CASE TakeProbe(c) \/ WaitedOut(c)
      BY <3>2 DEF TakeProbe, WaitedOut
    <3>3. CASE Admit(c)
      BY <3>3 DEF Admit
    <3>4. CASE Launch(c)
      BY <3>4 DEF Launch, Owner, Owners
    <3>5. CASE SettleCall(c)
      BY <3>5 DEF SettleCall
    <3>6. CASE CancelCall(c)
      BY <3>6 DEF CancelCall
    <3>7. CASE RecordFails(c)
      BY <3>7 DEF RecordFails
    <3> QED
      BY <1>3, <3>1, <3>2, <3>3, <3>4, <3>5, <3>6, <3>7 DEF CallerStep
  <2> QED
    BY <2>1, <2>2, GrantedKept
<1>4. ASSUME NEW c \in Calls, OwnerStep(c) PROVE CallsInv'
  <2> USE DEF CallTypes, Covered, Pooled, Stages, Owners, Owner
  <2>1. CASE GiveUpProcess(c) \/ Communicated(c)
    BY <2>1, GrantedKept DEF GiveUpProcess, Communicated
  <2>2. CASE Reap(c)
    BY <2>2, GrantedKept DEF Reap
  <2>3. CASE Terminate(c)
    BY <2>3, GrantedKept DEF Terminate
  <2>4. CASE Confirm(c)
    BY <2>4, GrantedKept DEF Confirm
  <2>5. CASE OwnerEnds(c)
    BY <2>5, GrantedKept DEF OwnerEnds
  <2> QED
    BY <1>4, <2>1, <2>2, <2>3, <2>4, <2>5 DEF OwnerStep
<1>5. ASSUME NEW c \in Calls, Fork(c) \/ LeaderExits(c) \/ HeirsExit(c) PROVE CallsInv'
  BY <1>5, GrantedKept DEF Fork, LeaderExits, HeirsExit, CallTypes, Covered, Pooled
<1>6. CASE PauseEnds \/ UNCHANGED callVars
  BY <1>6, GrantedKept DEF PauseEnds, callVars, CallTypes, Covered, Pooled
<1> QED
  BY <1>1, <1>2, <1>3, <1>4, <1>5, <1>6 DEF CallsNext

\* The calls keep their permits in every reachable state.
LEMMA CallsHold == CallsSpec => []CallsInv
<1>1. CallsInit => CallsInv
  <2> SUFFICES ASSUME CallsInit PROVE CallsInv
    OBVIOUS
  <2>1. CallTypes /\ \A c \in Calls : Covered(c)
    BY DEF CallsInit, CallTypes, Covered, Stages, Owners
  <2>2. \A k \in DOMAIN Capacity : Given(k) = {}
    BY DEF CallsInit, Given
  <2> QED
    BY <2>1, <2>2, FS_EmptySet, CallConstants DEF CallsInv, Granted, CallsInit
<1> QED
  BY <1>1, CallsStep, PTL DEF CallsSpec

\* The process groups of a kind that were not killed never exceed its permits,
\* the groups of dropped callers and forgotten children included (run_command:
\* "Queued work cannot reuse capacity while termination is pending").
THEOREM GroupsAlwaysBounded == CallsSpec => []GroupsBounded
<1>1. CallsInv => GroupsBounded
  <2> SUFFICES ASSUME CallsInv, NEW k \in DOMAIN Capacity
               PROVE  Cardinality({c \in Calls : kind[c] = k /\ Runs(c)}) =< Capacity[k]
    BY DEF GroupsBounded
  <2> DEFINE R == {c \in Calls : kind[c] = k /\ Runs(c)}
  <2>1. k # "parent"
    BY CallConstants
  <2>2. R \subseteq Given(k)
    BY <2>1 DEF CallsInv, CallTypes, Covered, Pooled, Runs, Given, Owners
  <2>3. IsFiniteSet(Given(k))
    BY FS_Subset DEF CallsInv, Granted, Given
  <2>4. Cardinality(R) =< Cardinality(Given(k)) /\ Cardinality(R) \in Nat
        /\ Cardinality(Given(k)) \in Nat
    BY <2>2, <2>3, FS_Subset, FS_CardinalityType
  <2>5. Cardinality(Given(k)) =< Capacity[k]
    BY DEF CallsInv, Granted
  <2> QED
    BY <2>4, <2>5, CallConstants
<1> QED
  BY <1>1, CallsHold, PTL

\* What a call holds, it holds for someone who is still at work and gives it back.
HeldAtWork ==
  /\ \A c \in permits : stage[c] \in {"permitted", "ready"} \/ owner[c] \notin {"none", "ended"}
  /\ \A c \in probing : stage[c] \in {"ready", "running", "returned"}
  /\ \A c, d \in probing : c = d

\* A process belongs to a call that was launched, the probe to a parent's call.
Launched ==
  /\ probing \subseteq Calls /\ \A c \in probing : ~Pooled(c)
  /\ \A c \in Calls : /\ stage[c] = "running" => owner[c] \notin {"none", "ended"}
                      /\ c \in permits => Pooled(c)

\* Permits and the probe come back on every path: no call that ended or was dropped
\* keeps one once its owner task is over, and one call at a time probes the closed
\* gate (LoginGate::enter, run_command, Gh::run, SystemLauncher::admit).
THEOREM NothingLeaks == CallsSpec => []HeldAtWork
<1>1. CallsInv /\ HeldAtWork /\ Launched /\ [CallsNext]_callVars => HeldAtWork' /\ Launched'
  <2> SUFFICES ASSUME CallTypes, \A c \in Calls : Covered(c), HeldAtWork, Launched, [CallsNext]_callVars
               PROVE  HeldAtWork' /\ Launched'
    BY DEF CallsInv
  <2> USE DEF CallTypes, Covered, HeldAtWork, Launched, processVars, Step, Owner, Pooled
  <2>1. ASSUME NEW c \in Calls, Request(c) \/ TakePermit(c) PROVE HeldAtWork' /\ Launched'
    BY <2>1 DEF Request, TakePermit
  <2>2. ASSUME NEW c \in Calls, ReachGate(c) \/ TakeProbe(c) \/ WaitedOut(c)
        PROVE  HeldAtWork' /\ Launched'
    BY <2>2 DEF ReachGate, TakeProbe, WaitedOut
  <2>3. ASSUME NEW c \in Calls, Admit(c) PROVE HeldAtWork' /\ Launched'
    BY <2>3 DEF Admit
  <2>4. ASSUME NEW c \in Calls, Launch(c) PROVE HeldAtWork' /\ Launched'
    <3>1. ASSUME stage' = [stage EXCEPT ![c] = "running"], owner' = [owner EXCEPT ![c] = "communicating"],
                 permits' = permits
          PROVE  HeldAtWork' /\ Launched'
      BY <2>4, <3>1 DEF Launch
    <3>2. ASSUME stage' = [stage EXCEPT ![c] = "returned"], owner' = owner, permits' = permits \ {c}
          PROVE  HeldAtWork' /\ Launched'
      BY <2>4, <3>2 DEF Launch
    <3> QED
      BY <2>4, <3>1, <3>2 DEF Launch
  <2>5. ASSUME NEW c \in Calls, SettleCall(c) \/ CancelCall(c) PROVE HeldAtWork' /\ Launched'
    BY <2>5 DEF SettleCall, CancelCall
  <2>11. ASSUME NEW c \in Calls, RecordFails(c) PROVE HeldAtWork' /\ Launched'
    <3>1. CASE stage[c] = "permitted"
      BY <2>11, <3>1 DEF RecordFails
    <3>2. CASE stage[c] # "permitted"
      BY <2>11, <3>2 DEF RecordFails
    <3> QED
      BY <3>1, <3>2
  <2>6. ASSUME NEW c \in Calls, GiveUpProcess(c) \/ Reap(c) \/ Communicated(c)
        PROVE  HeldAtWork' /\ Launched'
    BY <2>6 DEF GiveUpProcess, Reap, Communicated
  <2>7. ASSUME NEW c \in Calls, Terminate(c) \/ Confirm(c) PROVE HeldAtWork' /\ Launched'
    BY <2>7 DEF Terminate, Confirm
  <2>8. ASSUME NEW c \in Calls, OwnerEnds(c) PROVE HeldAtWork' /\ Launched'
    BY <2>8 DEF OwnerEnds
  <2>9. ASSUME NEW c \in Calls, Fork(c) \/ LeaderExits(c) \/ HeirsExit(c) PROVE HeldAtWork' /\ Launched'
    BY <2>9 DEF Fork, LeaderExits, HeirsExit
  <2>10. CASE PauseEnds \/ UNCHANGED callVars
    BY <2>10 DEF PauseEnds, callVars
  <2> QED
    BY <2>1, <2>2, <2>3, <2>4, <2>5, <2>6, <2>7, <2>8, <2>9, <2>10, <2>11
    DEF CallsNext, CallerStep, OwnerStep
<1>2. CallsInit => HeldAtWork /\ Launched
  BY DEF CallsInit, HeldAtWork, Launched
<1> QED
  BY <1>1, <1>2, CallsHold, CallsStep, PTL DEF CallsSpec

-----------------------------------------------------------------------------
(***************************************************************************)
(* The feed.  The driver's posts, and the lines of a follower that is not  *)
(* interrupted, are a prefix of the feed: what a reader has is ordered,    *)
(* holds everything before what it holds, and everything behind the        *)
(* reader's cursor or already taken from its page.                         *)
(***************************************************************************)

\* The records of the ledger; a completion is its job's only one.
Whats == {"silent", "completion", "intake", "catchup"}
LedgerTypes ==
  /\ ledger \in Seq([what : Whats, of : Arrivals \cup Nat])
  /\ \A i \in 1 .. Len(ledger) : ledger[i].what = "completion" => ledger[i].of = i - 1

In(o, s) == \E i \in DOMAIN s : s[i] = o

\* A list with no gap or repeat.
Gapless(s) ==
  /\ s \in Seq(Objects(0, Len(ledger)))
  /\ \A i, k \in DOMAIN s : i < k => Before(s[i], s[k])
  /\ \A i \in DOMAIN s : \A o \in Objects(0, Len(ledger)) : Before(o, s[i]) => In(o, s)

\* A reader's cursor and page, and what it has.
Reader(page, cursor, s) ==
  /\ cursor \in 0 .. Len(ledger)
  /\ \A o \in Objects(0, cursor) : In(o, s)
  /\ page # NoPage =>
        /\ page.next \in cursor .. Len(ledger)
        /\ page \in [events : SUBSET Objects(cursor, page.next), next : Nat]
        /\ \A o \in Objects(cursor, page.next) : o \in page.events \/ In(o, s)

DriverInv == LedgerTypes /\ Gapless(outbox) /\ Reader(driver, saved, outbox)

\* A line is printed from the page it is taken from and from nowhere else.
FollowerInv ==
  /\ LedgerTypes /\ Gapless(printed) /\ Reader(follower, since, printed)
  /\ \A i \in DOMAIN printed :
        printed[i].cursor <= (IF follower = NoPage THEN since ELSE follower.next) /\ printed[i] \notin follower.events

\* The follower whose cursor is the `next` of its last page.
Uninterrupted == FeedInit /\ [][FeedNext /\ ~FollowerResumes]_feedVars

\* Two objects of the feed have an order (project_all: a record's event comes
\* first).
LEMMA ObjectsOrdered ==
  ASSUME NEW a, NEW b, NEW n \in Nat, a \in Objects(0, n), b \in Objects(0, n)
  PROVE  /\ a = b \/ Before(a, b) \/ Before(b, a)
         /\ ~(Before(a, b) /\ Before(b, a)) /\ ~Before(a, a)
<1>1. /\ a \in [cursor : 1 .. n, part : Parts] /\ a.part \in Project(a.cursor)
      /\ b \in [cursor : 1 .. n, part : Parts] /\ b.part \in Project(b.cursor)
  BY DEF Objects
<1>2. a.cursor = b.cursor /\ (a.part \in Leads <=> b.part \in Leads) => a.part = b.part
  BY <1>1 DEF Project, Event, Extra, Leads
<1>3. a.cursor = b.cursor /\ a.part = b.part => a = b
  BY <1>1
<1> QED
  BY <1>1, <1>2, <1>3 DEF Before

\* Objects are those of their records, which never change (project).
LEMMA ObjectsSplit ==
  ASSUME NEW n \in Nat, NEW m \in 0 .. n, NEW o
  PROVE  /\ o \in Objects(0, n) <=> o \in Objects(0, m) \/ o \in Objects(m, n)
         /\ o \in Objects(0, m) => o.cursor \in 1 .. m
         /\ o \in Objects(m, n) => o.cursor \in m+1 .. n
BY DEF Objects
LEMMA ObjectsKept ==
  ASSUME LedgerTypes, NEW what \in Whats, NEW m \in Arrivals \cup Nat,
         what = "completion" => m = Len(ledger),
         Record(what, m)
  PROVE  /\ LedgerTypes' /\ Len(ledger') = Len(ledger) + 1
         /\ \A a, b \in 0 .. Len(ledger) : Objects(a, b)' = Objects(a, b)
         /\ \A o \in Objects(0, Len(ledger))' : o \in Objects(0, Len(ledger)) \/ o.cursor = Len(ledger) + 1
<1>1. /\ ledger' = Append(ledger, [what |-> what, of |-> m]) /\ Len(ledger) \in Nat
      /\ Len(ledger') = Len(ledger) + 1
      /\ \A i \in 1 .. Len(ledger) : ledger'[i] = ledger[i]
      /\ ledger'[Len(ledger) + 1] = [what |-> what, of |-> m]
  BY DEF Record, LedgerTypes
<1>2. LedgerTypes'
  BY <1>1 DEF LedgerTypes
<1>3. \A i \in 1 .. Len(ledger) : First(i)' = First(i) /\ Arrival(i)' = Arrival(i)
  <2>1. \A i, k \in 1 .. Len(ledger) : Arrival(i)' = Arrival(i) /\ SameMessage(k, i)' = SameMessage(k, i)
    BY <1>1 DEF Arrival, SameMessage
  <2>2. \A i \in 1 .. Len(ledger) : 1 .. i-1 \subseteq 1 .. Len(ledger)
    BY <1>1
  <2>3. \A i \in 1 .. Len(ledger) : Earliest(i)' = Earliest(i)
    BY <2>1, <2>2 DEF Earliest
  <2>4. \A i \in 1 .. Len(ledger) : Unkept(i)' = Unkept(i)
    BY <1>1, <2>1, <2>2, <2>3 DEF Unkept
  <2> QED
    BY <2>1, <2>3, <2>4 DEF First
<1>4. \A i \in 1 .. Len(ledger) : Project(i)' = Project(i)
  BY <1>1, <1>3 DEF Project, Event, Extra
<1>5. \A a, b \in 0 .. Len(ledger) : Objects(a, b)' = Objects(a, b)
  BY <1>1, <1>4 DEF Objects
<1>6. ASSUME NEW o \in Objects(0, Len(ledger))', o.cursor # Len(ledger) + 1
      PROVE  o \in Objects(0, Len(ledger))
  BY <1>1, <1>4, <1>6 DEF Objects
<1> QED
  BY <1>1, <1>2, <1>5, <1>6

\* What a reader takes from its page is next in the feed: it is at hand
\* already, or everything before it is.
LEMMA HeadIsNext ==
  ASSUME LedgerTypes, NEW page, NEW cursor, NEW s, Gapless(s), Reader(page, cursor, s),
         page # NoPage, NEW o \in Heads(page)
  PROVE  /\ o \in Objects(0, Len(ledger)) /\ o.cursor <= page.next
         /\ Reader(Drop(page, o), cursor, Append(s, o))
         /\ In(o, s) => Reader(Drop(page, o), cursor, s)
         /\ ~In(o, s) => Gapless(Append(s, o))
<1> DEFINE N == Len(ledger)
<1>1. /\ N \in Nat /\ cursor \in 0 .. N /\ page.next \in cursor .. N
      /\ page.events \subseteq Objects(cursor, page.next)
      /\ page \in [events : SUBSET Objects(cursor, page.next), next : Nat]
      /\ o \in page.events
  BY DEF Reader, LedgerTypes, Heads
<1>2. \A x : x \in Objects(0, N) <=> \/ x \in Objects(0, cursor) \/ x \in Objects(cursor, page.next)
                                     \/ x \in Objects(page.next, N)
  BY <1>1 DEF Objects
<1>3. o \in Objects(cursor, page.next) /\ o \in Objects(0, N) /\ o.cursor \in 1 .. N /\ o.cursor <= page.next
  BY <1>1, <1>2 DEF Objects
<1>4. /\ Drop(page, o) \in [events : SUBSET Objects(cursor, page.next), next : Nat]
      /\ Drop(page, o).next = page.next /\ Drop(page, o).events = page.events \ {o}
  BY <1>1 DEF Drop
<1>5. s \in Seq(Objects(0, N)) /\ Len(s) \in Nat
  BY DEF Gapless
<1>6. /\ Append(s, o) \in Seq(Objects(0, N)) /\ DOMAIN Append(s, o) = 1 .. Len(s) + 1
      /\ \A i \in 1 .. Len(s) : Append(s, o)[i] = s[i]
      /\ Append(s, o)[Len(s) + 1] = o /\ DOMAIN s = 1 .. Len(s)
  BY <1>3, <1>5
<1>7. In(o, Append(s, o)) /\ \A x : In(x, s) => In(x, Append(s, o))
  BY <1>5, <1>6 DEF In
<1>8. /\ \A x \in Objects(0, cursor) : In(x, s)
      /\ \A x \in Objects(cursor, page.next) : x \in page.events \/ In(x, s)
  BY DEF Reader
<1>9. Reader(Drop(page, o), cursor, Append(s, o))
  BY <1>1, <1>4, <1>7, <1>8 DEF Reader
<1>10. In(o, s) => Reader(Drop(page, o), cursor, s)
  BY <1>1, <1>4, <1>8 DEF Reader
<1>11. ASSUME ~In(o, s) PROVE Gapless(Append(s, o))
  <2>1. ASSUME NEW x \in Objects(0, N), Before(x, o) PROVE In(x, s)
    <3>1. x \notin page.events
      BY <1>2, <1>3, <2>1, <1>1, ObjectsOrdered DEF Heads
    <3>2. x \notin Objects(page.next, N)
      BY <2>1, <1>1, <1>3, ObjectsSplit DEF Before
    <3> QED
      BY <3>1, <3>2, <1>2, <1>8
  <2>2. ASSUME NEW i \in 1 .. Len(s) PROVE Before(s[i], o)
    <3>1. s[i] \in Objects(0, N) /\ s[i] # o
      BY <1>5, <1>6, <1>11 DEF In
    <3>2. ~Before(o, s[i])
      BY <1>3, <1>6, <1>11 DEF Gapless
    <3> QED
      BY <3>1, <3>2, <1>1, <1>3, ObjectsOrdered
  <2>3. \A i, k \in 1 .. Len(s) : i < k => Before(s[i], s[k])
    BY <1>6 DEF Gapless
  <2>4. \A i, k \in DOMAIN Append(s, o) : i < k => Before(Append(s, o)[i], Append(s, o)[k])
    BY <1>5, <1>6, <2>2, <2>3
  <2>5. ASSUME NEW i \in DOMAIN Append(s, o), NEW x \in Objects(0, N), Before(x, Append(s, o)[i])
        PROVE  In(x, Append(s, o))
    <3>1. CASE i = Len(s) + 1
      BY <3>1, <2>5, <2>1, <1>6, <1>7
    <3>2. CASE i \in 1 .. Len(s)
      BY <3>2, <2>5, <1>6, <1>7 DEF Gapless
    <3> QED
      BY <3>1, <3>2, <1>5, <1>6
  <2> QED
    BY <1>6, <2>4, <2>5 DEF Gapless
<1> QED
  BY <1>3, <1>9, <1>10, <1>11

\* A record that is appended is after everything in the feed.
LEMMA RecordKeeps ==
  ASSUME LedgerTypes, NEW what \in Whats, NEW m \in Arrivals \cup Nat,
         what = "completion" => m = Len(ledger), Record(what, m)
  PROVE  /\ LedgerTypes'
         /\ Gapless(outbox) => Gapless(outbox)'
         /\ Gapless(printed) => Gapless(printed)'
         /\ Reader(driver, saved, outbox) => Reader(driver, saved, outbox)'
         /\ Reader(follower, since, printed) => Reader(follower, since, printed)'
<1>1. /\ LedgerTypes' /\ Len(ledger') = Len(ledger) + 1 /\ Len(ledger) \in Nat
      /\ \A a, b \in 0 .. Len(ledger) : Objects(a, b)' = Objects(a, b)
      /\ \A o \in Objects(0, Len(ledger))' : o \in Objects(0, Len(ledger)) \/ o.cursor = Len(ledger) + 1
      /\ UNCHANGED <<outbox, driver, saved, follower, since, printed>>
  <2>1. Len(ledger) \in Nat /\ UNCHANGED <<outbox, driver, saved, follower, since, printed>>
    BY DEF LedgerTypes, Record
  <2> QED
    BY <2>1, ObjectsKept
<1>2. Objects(0, Len(ledger)) \subseteq Objects(0, Len(ledger))'
  <2>1. Objects(0, Len(ledger)) = Objects(0, Len(ledger))'
          \/ \A o \in Objects(0, Len(ledger)) : o.cursor \in 1 .. Len(ledger)
    BY <1>1 DEF Objects
  <2>2. ASSUME NEW o \in Objects(0, Len(ledger)) PROVE o \in Objects(0, Len(ledger))'
    <3>1. /\ o \in [cursor : 1 .. Len(ledger), part : Parts]
          /\ Objects(0, o.cursor)' = Objects(0, o.cursor) /\ o \in Objects(0, o.cursor)
      BY <1>1 DEF Objects
    <3> QED
      BY <1>1, <3>1 DEF Objects
  <2> QED
    BY <2>2
<1>3. ASSUME NEW s, Gapless(s)
      PROVE  /\ s \in Seq(Objects(0, Len(ledger))')
             /\ \A i, k \in DOMAIN s : i < k => Before(s[i], s[k])
             /\ \A i \in DOMAIN s : \A o \in Objects(0, Len(ledger))' : Before(o, s[i]) => In(o, s)
  <2>1. s \in Seq(Objects(0, Len(ledger)))
        /\ \A i \in DOMAIN s : s[i] \in Objects(0, Len(ledger)) /\ s[i].cursor \in 1 .. Len(ledger)
    BY <1>3, <1>1 DEF Gapless, Objects
  <2>2. s \in Seq(Objects(0, Len(ledger))')
    BY <2>1, <1>2
  <2>3. ASSUME NEW i \in DOMAIN s, NEW o \in Objects(0, Len(ledger))', Before(o, s[i]) PROVE In(o, s)
    <3>1. o.cursor # Len(ledger) + 1
      BY <2>1, <2>3, <1>1 DEF Before
    <3> QED
      BY <3>1, <2>3, <1>1, <1>3 DEF Gapless
  <2> QED
    BY <2>2, <2>3, <1>3 DEF Gapless
<1>4. Gapless(outbox) => Gapless(outbox)'
  BY <1>1, <1>3 DEF Gapless, In, Before
<1>5. Gapless(printed) => Gapless(printed)'
  BY <1>1, <1>3 DEF Gapless, In, Before
<1>6. Reader(driver, saved, outbox) => Reader(driver, saved, outbox)'
  BY <1>1 DEF Reader, In, NoPage
<1>7. Reader(follower, since, printed) => Reader(follower, since, printed)'
  BY <1>1 DEF Reader, In, NoPage
<1> QED
  BY <1>1, <1>4, <1>5, <1>6, <1>7

\* A page that is read holds everything after the cursor (events::read).
LEMMA PageRead ==
  ASSUME LedgerTypes, NEW cursor, NEW s, Reader(NoPage, cursor, s)
  PROVE  /\ Reader(Read(cursor), cursor, s) /\ Read(cursor).next \in cursor .. Len(ledger)
         /\ Read(cursor).events \subseteq Objects(cursor, Read(cursor).next)
<1>1. Scanned(cursor) \in cursor .. Len(ledger) /\ cursor \in 0 .. Len(ledger) /\ Len(ledger) \in Nat
  BY FeedConstants DEF Scanned, Reader, LedgerTypes
<1> QED
  BY <1>1 DEF Read, Reader

\* When a page is done its `next` is the cursor.
LEMMA PageDone ==
  ASSUME LedgerTypes, NEW page, NEW cursor, NEW s, Reader(page, cursor, s), page # NoPage, page.events = {}
  PROVE  Reader(NoPage, page.next, s) /\ cursor <= page.next /\ page.next \in Nat
<1>1. page.next \in cursor .. Len(ledger) /\ cursor \in 0 .. Len(ledger) /\ Len(ledger) \in Nat
  BY DEF Reader, LedgerTypes
<1>2. \A o \in Objects(0, page.next) : In(o, s)
  BY <1>1, ObjectsSplit DEF Reader
<1> QED
  BY <1>1, <1>2 DEF Reader

\* Steps that leave the ledger alone leave the feed alone.
LEMMA FeedKept ==
  ASSUME ledger' = ledger
  PROVE  \A a, b : Objects(a, b)' = Objects(a, b)
<1>1. \A i, k : Arrival(i)' = Arrival(i) /\ SameMessage(k, i)' = SameMessage(k, i)
  BY DEF Arrival, SameMessage
<1>2. \A i : Earliest(i)' = Earliest(i)
  BY <1>1 DEF Earliest
<1>3. \A i : Unkept(i)' = Unkept(i)
  BY <1>1, <1>2 DEF Unkept
<1>4. \A i : Project(i)' = Project(i)
  BY <1>1, <1>2, <1>3 DEF Project, Event, Extra, First
<1> QED
  BY <1>4 DEF Objects

\* Every step keeps what the driver has.
LEMMA DriverStep == DriverInv /\ [FeedNext]_feedVars => DriverInv'
<1> SUFFICES ASSUME DriverInv, [FeedNext]_feedVars PROVE DriverInv'
  OBVIOUS
<1> USE DEF DriverInv
<1>1. ASSUME NEW what \in Whats, NEW m \in Arrivals \cup Nat,
             what = "completion" => m = Len(ledger), Record(what, m)
      PROVE  DriverInv'
  BY <1>1, RecordKeeps
<1>2. ASSUME ledger' = ledger, NEW page, NEW cursor, NEW s, Reader(page, cursor, s), Gapless(s),
             driver' = page, saved' = cursor, outbox' = s
      PROVE  DriverInv'
  <2>1. LedgerTypes'
    BY <1>2 DEF LedgerTypes
  <2>2. \A x, y : Objects(x, y)' = Objects(x, y)
    BY <1>2, FeedKept
  <2>3. Gapless(outbox)'
    BY <1>2, <2>2 DEF Gapless, In, Before
  <2>4. Reader(driver, saved, outbox)'
    BY <1>2, <2>2 DEF Reader, In, NoPage
  <2> QED
    BY <2>1, <2>3, <2>4
<1>3. CASE DriverAsks
  <2>1. ledger' = ledger /\ outbox' = outbox /\ saved' = saved /\ driver = NoPage
        /\ driver' \in {Read(saved), NoPage}
    BY <1>3 DEF DriverAsks
  <2> QED
    BY <2>1, <1>2, PageRead
<1>4. CASE DriverPosts
  <2>1. PICK o \in Heads(driver) :
           /\ outbox' = QueuePost(o) /\ driver' \in {Drop(driver, o), driver}
           /\ ledger' = ledger /\ saved' = saved /\ driver # NoPage
    BY <1>4 DEF DriverPosts
  <2>2. CASE In(o, outbox)
    <3>1. outbox' = outbox
      BY <2>1, <2>2 DEF QueuePost, In
    <3> QED
      BY <3>1, <2>1, <2>2, <1>2, HeadIsNext
  <2>3. CASE ~In(o, outbox)
    <3>1. outbox' = Append(outbox, o)
      BY <2>1, <2>3 DEF QueuePost, In
    <3>2. Gapless(Append(outbox, o)) /\ Reader(Drop(driver, o), saved, Append(outbox, o))
      BY <2>1, <2>3, HeadIsNext
    <3>3. Reader(driver, saved, Append(outbox, o))
      <4>1. o \in Objects(0, Len(ledger)) /\ outbox \in Seq(Objects(0, Len(ledger)))
        BY <2>1, HeadIsNext DEF Gapless
      <4>2. \A x : In(x, outbox) => In(x, Append(outbox, o))
        BY <4>1 DEF In
      <4> QED
        BY <4>2 DEF Reader
    <3> QED
      BY <3>1, <3>2, <3>3, <2>1, <1>2
  <2> QED
    BY <2>2, <2>3
<1>5. CASE DriverSaves
  <2>1. ledger' = ledger /\ outbox' = outbox /\ saved' = driver.next /\ driver' = NoPage
        /\ driver # NoPage /\ driver.events = {}
    BY <1>5 DEF DriverSaves
  <2> QED
    BY <2>1, <1>2, PageDone
<1>6. CASE DriverDies
  <2>1. Reader(NoPage, saved, outbox)
    BY DEF Reader
  <2> QED
    BY <1>6, <2>1, <1>2 DEF DriverDies
<1>7. CASE FollowerAsks \/ FollowerPrints \/ FollowerTurns \/ FollowerResumes \/ UNCHANGED feedVars
  <2>1. ledger' = ledger /\ outbox' = outbox /\ saved' = saved /\ driver' = driver
    BY <1>7 DEF FollowerAsks, FollowerPrints, FollowerTurns, FollowerResumes, feedVars
  <2> QED
    BY <2>1, <1>2
<1>8. CASE \/ Record("silent", 0) \/ Record("completion", Len(ledger))
           \/ \E m \in Arrivals : Record("intake", m) \/ Record("catchup", m)
  <2>1. Len(ledger) \in Nat
    BY DEF LedgerTypes
  <2>2. CASE Record("silent", 0)
    BY <2>2, <1>1 DEF Whats
  <2>3. CASE Record("completion", Len(ledger))
    BY <2>1, <2>3, <1>1 DEF Whats
  <2>4. ASSUME NEW m \in Arrivals, Record("intake", m) \/ Record("catchup", m) PROVE DriverInv'
    BY <2>4, <1>1 DEF Whats
  <2> QED
    BY <1>8, <2>2, <2>3, <2>4
<1> QED
  BY <1>3, <1>4, <1>5, <1>6, <1>7, <1>8 DEF FeedNext

\* Two objects that mean the same are one: a job completes once, and a message
\* has one first arrival (First).
LEMMA ObjectsUnique ==
  ASSUME LedgerTypes, NEW a \in Objects(0, Len(ledger)), NEW b \in Objects(0, Len(ledger)),
         SameEvent(a, b)
  PROVE  a = b
<1>1. /\ a \in [cursor : 1 .. Len(ledger), part : Parts] /\ a.part \in Project(a.cursor)
      /\ b \in [cursor : 1 .. Len(ledger), part : Parts] /\ b.part \in Project(b.cursor)
      /\ Len(ledger) \in Nat
  BY DEF Objects, LedgerTypes
<1>2. a = b \/ (a.part = b.part /\ ledger[a.cursor] = ledger[b.cursor] /\ ~Unkept(a.cursor))
  BY DEF SameEvent
<1>3. ASSUME a.cursor = b.cursor, a # b PROVE FALSE
  BY <1>1, <1>2, <1>3
<1>4. ASSUME a # b, ledger[a.cursor].what = "completion" PROVE FALSE
  BY <1>1, <1>2, <1>3, <1>4 DEF LedgerTypes
<1>5. ASSUME a # b, ledger[a.cursor].what # "completion" PROVE FALSE
  <2>1. /\ Arrival(a.cursor) /\ First(a.cursor) /\ Arrival(b.cursor) /\ First(b.cursor)
        /\ ledger[a.cursor] = ledger[b.cursor] /\ a.cursor # b.cursor
    BY <1>1, <1>2, <1>3, <1>5 DEF Project, Event, Extra
  <2>2. SameMessage(a.cursor, b.cursor) /\ SameMessage(b.cursor, a.cursor)
    BY <2>1 DEF SameMessage
  <2>3. Earliest(a.cursor)
    BY <2>1, <1>2, <1>5 DEF First
  <2>4. a.cursor < b.cursor
    BY <1>1, <2>1, <2>2, <2>3 DEF Earliest
  <2>5. ~Earliest(b.cursor)
    BY <1>1, <2>2, <2>4 DEF Earliest
  <2>6. PICK k \in 1 .. b.cursor - 1 :
           Earliest(k) /\ SameMessage(k, b.cursor) /\ ledger[k] # ledger[b.cursor]
    BY <2>1, <2>5 DEF First, Unkept
  <2>7. k # a.cursor /\ SameMessage(k, a.cursor) /\ SameMessage(a.cursor, k)
    BY <2>1, <2>6 DEF SameMessage
  <2>8. ~(a.cursor < k) /\ ~(k < a.cursor)
    BY <1>1, <2>3, <2>6, <2>7 DEF Earliest
  <2> QED
    BY <1>1, <2>7, <2>8
<1> QED
  BY <1>4, <1>5

\* A driver that keeps `next` and repeats its client ids acts on every event
\* behind its cursor, and on each once, whatever was delivered again or lost
\* (events::read, external::post).
THEOREM DriverActsOnce == FeedSpec => []ActsOnce
<1>1. FeedInit => DriverInv
  BY FeedConstants DEF FeedInit, DriverInv, LedgerTypes, Gapless, Reader, Objects, NoPage
<1>2. DriverInv => ActsOnce
  <2> SUFFICES ASSUME DriverInv PROVE ActsOnce
    OBVIOUS
  <2>1. \A o \in Objects(0, saved) : \E i \in DOMAIN outbox : outbox[i] = o
    BY DEF DriverInv, Reader, In
  <2>2. ASSUME NEW i \in DOMAIN outbox, NEW k \in DOMAIN outbox, SameEvent(outbox[i], outbox[k])
        PROVE  i = k
    <3>1. /\ outbox[i] \in Objects(0, Len(ledger)) /\ outbox[k] \in Objects(0, Len(ledger))
          /\ i \in Nat /\ k \in Nat /\ Len(ledger) \in Nat
      BY DEF DriverInv, Gapless, LedgerTypes
    <3>2. outbox[i] = outbox[k]
      BY <3>1, <2>2, ObjectsUnique DEF DriverInv
    <3>3. ~(i < k) /\ ~(k < i)
      BY <3>1, <3>2, ObjectsOrdered DEF DriverInv, Gapless
    <3> QED
      BY <3>1, <3>3
  <2> QED
    BY <2>1, <2>2 DEF ActsOnce
<1> QED
  BY <1>1, <1>2, DriverStep, PTL DEF FeedSpec

\* The driver's posts are in the feed's order and leave nothing out: whatever
\* is queued, everything before it in the feed was queued before it.
PostsInOrder ==
  \A i \in DOMAIN outbox : \A o \in Objects(0, Len(ledger)) :
     Before(o, outbox[i]) <=> \E k \in 1 .. i-1 : outbox[k] = o
THEOREM PostsAlwaysInOrder == FeedSpec => []PostsInOrder
<1>1. FeedInit => DriverInv
  BY FeedConstants DEF FeedInit, DriverInv, LedgerTypes, Gapless, Reader, Objects, NoPage
<1>2. DriverInv => PostsInOrder
  <2> SUFFICES ASSUME DriverInv, NEW i \in DOMAIN outbox, NEW o \in Objects(0, Len(ledger))
               PROVE  Before(o, outbox[i]) <=> \E k \in 1 .. i-1 : outbox[k] = o
    BY DEF PostsInOrder
  <2>1. /\ outbox \in Seq(Objects(0, Len(ledger))) /\ outbox[i] \in Objects(0, Len(ledger))
        /\ i \in 1 .. Len(outbox) /\ Len(outbox) \in Nat /\ Len(ledger) \in Nat /\ DOMAIN outbox = 1 .. Len(outbox)
    BY DEF DriverInv, Gapless, LedgerTypes
  <2>2. ASSUME Before(o, outbox[i]) PROVE \E k \in 1 .. i-1 : outbox[k] = o
    <3>1. PICK k \in DOMAIN outbox : outbox[k] = o
      BY <2>2 DEF DriverInv, Gapless, In
    <3>2. k # i /\ ~(i < k)
      BY <2>1, <2>2, <3>1, ObjectsOrdered DEF DriverInv, Gapless
    <3> QED
      BY <2>1, <3>1, <3>2
  <2>3. ASSUME NEW k \in 1 .. i-1, outbox[k] = o PROVE Before(o, outbox[i])
    BY <2>1, <2>3 DEF DriverInv, Gapless
  <2> QED
    BY <2>2, <2>3
<1> QED
  BY <1>1, <1>2, DriverStep, PTL DEF FeedSpec

\* Every step but a resumption keeps what the follower has.
LEMMA FollowerStep == FollowerInv /\ [FeedNext /\ ~FollowerResumes]_feedVars => FollowerInv'
<1> SUFFICES ASSUME FollowerInv, [FeedNext /\ ~FollowerResumes]_feedVars PROVE FollowerInv'
  OBVIOUS
<1> USE DEF FollowerInv
<1>1. ASSUME NEW what \in Whats, NEW m \in Arrivals \cup Nat,
             what = "completion" => m = Len(ledger), Record(what, m)
      PROVE  FollowerInv'
  <2>1. UNCHANGED <<printed, follower, since>>
    BY <1>1 DEF Record
  <2> QED
    BY <1>1, <2>1, RecordKeeps DEF NoPage
<1>2. ASSUME ledger' = ledger, NEW page, NEW cursor, NEW s, Reader(page, cursor, s), Gapless(s),
             \A i \in DOMAIN s : s[i].cursor <= (IF page = NoPage THEN cursor ELSE page.next)
                                 /\ s[i] \notin page.events,
             follower' = page, since' = cursor, printed' = s
      PROVE  FollowerInv'
  BY <1>2, FeedKept DEF LedgerTypes, Gapless, Reader, In, Before, NoPage
<1>3. \A i \in DOMAIN printed : printed[i] \in Objects(0, Len(ledger)) /\ printed[i].cursor \in 1 .. Len(ledger)
  BY DEF Gapless, LedgerTypes, Objects
<1>4. CASE FollowerAsks
  <2>1. ledger' = ledger /\ printed' = printed /\ since' = since /\ follower = NoPage
        /\ follower' = Read(since)
    BY <1>4 DEF FollowerAsks
  <2>2. /\ Reader(Read(since), since, printed) /\ Read(since).next \in since .. Len(ledger)
        /\ Read(since).events \subseteq Objects(since, Read(since).next)
        /\ since \in 0 .. Len(ledger) /\ Len(ledger) \in Nat
    <3>1. LedgerTypes /\ Reader(NoPage, since, printed)
      BY <2>1
    <3>2. since \in 0 .. Len(ledger) /\ Len(ledger) \in Nat
      BY <3>1 DEF Reader, LedgerTypes
    <3> QED
      BY <3>1, <3>2, PageRead
  <2>3. ASSUME NEW i \in DOMAIN printed
        PROVE  /\ printed[i].cursor <= (IF Read(since) = NoPage THEN since ELSE Read(since).next)
               /\ printed[i] \notin Read(since).events
    <3>1. printed[i].cursor <= since /\ printed[i].cursor \in Nat
      BY <1>3, <2>1
    <3>2. printed[i] \notin Objects(since, Read(since).next)
      BY <3>1, <2>2 DEF Objects
    <3> QED
      BY <3>1, <3>2, <2>2
  <2> QED
    BY <2>1, <2>2, <2>3, <1>2
<1>5. CASE FollowerPrints
  <2>1. PICK o \in Heads(follower) :
           /\ printed' = Append(printed, o) /\ follower' = Drop(follower, o)
           /\ ledger' = ledger /\ since' = since /\ follower # NoPage
    BY <1>5 DEF FollowerPrints
  <2>2. /\ o \in Objects(0, Len(ledger)) /\ o.cursor <= follower.next
        /\ Reader(Drop(follower, o), since, Append(printed, o))
        /\ ~In(o, printed) => Gapless(Append(printed, o))
    BY <2>1, HeadIsNext
  <2>3. o \in follower.events /\ ~In(o, printed)
    BY <2>1 DEF Heads, In
  <2>4. /\ Drop(follower, o) # NoPage /\ Drop(follower, o).next = follower.next
        /\ Drop(follower, o).events = follower.events \ {o}
    <3>1. follower.next \in Nat /\ follower \in [events : SUBSET Objects(since, follower.next), next : Nat]
      BY <2>1 DEF Reader
    <3> QED
      BY <3>1 DEF Drop, NoPage
  <2>5. ASSUME NEW i \in DOMAIN Append(printed, o)
        PROVE  Append(printed, o)[i].cursor <= follower.next /\ Append(printed, o)[i] \notin follower.events \ {o}
    <3>1. printed \in Seq(Objects(0, Len(ledger))) /\ Len(printed) \in Nat
      BY DEF Gapless
    <3>2. CASE i = Len(printed) + 1
      BY <2>2, <3>1, <3>2
    <3>3. CASE i \in DOMAIN printed
      BY <2>1, <3>1, <3>3
    <3> QED
      BY <3>1, <3>2, <3>3
  <2> QED
    BY <2>1, <2>2, <2>3, <2>4, <2>5, <1>2
<1>6. CASE FollowerTurns
  <2>1. ledger' = ledger /\ printed' = printed /\ since' = follower.next /\ follower' = NoPage
        /\ follower # NoPage /\ follower.events = {}
    BY <1>6 DEF FollowerTurns
  <2>2. \A i \in DOMAIN printed : printed[i].cursor <= follower.next /\ printed[i] \notin NoPage.events
    BY <2>1 DEF NoPage
  <2> QED
    BY <2>1, <2>2, <1>2, PageDone
<1>7. CASE DriverAsks \/ DriverPosts \/ DriverSaves \/ DriverDies \/ UNCHANGED feedVars
  <2>1. ledger' = ledger /\ printed' = printed /\ since' = since /\ follower' = follower
    BY <1>7 DEF DriverAsks, DriverPosts, DriverSaves, DriverDies, feedVars
  <2> QED
    BY <2>1, <1>2
<1>8. CASE \/ Record("silent", 0) \/ Record("completion", Len(ledger))
           \/ \E m \in Arrivals : Record("intake", m) \/ Record("catchup", m)
  <2>1. Len(ledger) \in Nat
    BY DEF LedgerTypes
  <2>2. CASE Record("silent", 0)
    BY <2>2, <1>1 DEF Whats
  <2>3. CASE Record("completion", Len(ledger))
    BY <2>1, <2>3, <1>1 DEF Whats
  <2>4. ASSUME NEW m \in Arrivals, Record("intake", m) \/ Record("catchup", m) PROVE FollowerInv'
    BY <2>4, <1>1 DEF Whats
  <2> QED
    BY <1>8, <2>2, <2>3, <2>4
<1> QED
  BY <1>4, <1>5, <1>6, <1>7, <1>8 DEF FeedNext

\* A follower that is not interrupted prints the feed with no gap or repeat
\* (Commands::events keeps `next`); the run feed_resume shows that resuming
\* from the cursor of the last line is the one step that breaks it.
THEOREM UninterruptedHasNoGap == Uninterrupted => []NoGapOrRepeat
<1>1. FeedInit => FollowerInv
  BY FeedConstants DEF FeedInit, FollowerInv, LedgerTypes, Gapless, Reader, Objects, NoPage
<1>2. FollowerInv => NoGapOrRepeat
  <2> SUFFICES ASSUME FollowerInv, NEW i \in DOMAIN printed
               PROVE  /\ \A k \in DOMAIN printed : printed[k] = printed[i] => k = i
                      /\ \A o \in Objects(0, printed[i].cursor - 1) : Printed(o)
    BY DEF NoGapOrRepeat
  <2>1. /\ printed \in Seq(Objects(0, Len(ledger))) /\ Len(ledger) \in Nat /\ DOMAIN printed \subseteq Nat
        /\ \A k \in DOMAIN printed : printed[k] \in Objects(0, Len(ledger))
        /\ printed[i].cursor \in 1 .. Len(ledger)
    BY DEF FollowerInv, Gapless, LedgerTypes, Objects
  <2>2. ASSUME NEW k \in DOMAIN printed, printed[k] = printed[i] PROVE k = i
    <3>1. ~(i < k) /\ ~(k < i)
      BY <2>1, <2>2, ObjectsOrdered DEF FollowerInv, Gapless
    <3> QED
      BY <2>1, <3>1
  <2>3. ASSUME NEW o \in Objects(0, printed[i].cursor - 1) PROVE Printed(o)
    <3>1. o \in Objects(0, Len(ledger)) /\ Before(o, printed[i])
      BY <2>1 DEF Objects, Before
    <3> QED
      BY <3>1 DEF FollowerInv, Gapless, In, Printed
  <2> QED
    BY <2>2, <2>3
<1> QED
  BY <1>1, <1>2, FollowerStep, PTL DEF Uninterrupted

=============================================================================
