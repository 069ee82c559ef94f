------------------------------ MODULE Service ------------------------------
(***************************************************************************)
(* The life of a daemon: the coordinator of threads/service.rs and its     *)
(* control server (control/server.rs), from the bind of the Unix socket to *)
(* the drain of the owner's operations and the close of the workers.       *)
(*                                                                         *)
(* Daemons share the socket path, never a database.  An inode number names *)
(* a socket file as long as it is linked or listened on, and is free again *)
(* afterwards.  The lock file, which can be deleted like any file, has     *)
(* generations.  What the loops of a running service do is in the other    *)
(* modules.                                                                *)
(***************************************************************************)
EXTENDS Naturals, FiniteSets

CONSTANTS
    Daemons,
    Operations,    \* requests of the owner's clients
    Connections,   \* Options::connections
    AtOnce,        \* Options::operations
    Inodes,        \* inode numbers of socket files
    MaxMishaps     \* bound on failures, crashes and deleted files

ASSUME ServiceConstants ==
    {Connections, AtOnce, MaxMishaps} \subseteq Nat /\ Inodes \subseteq Nat \ {0}

VARIABLES
    phase,       \* where the coordinator is
    stopping,    \* the daemons asked to stop
    server,      \* the listener task: none, listening, draining, removing or gone
    listener,    \* the inode it listens on, 0 when closed
    guard,       \* the inode number its guard compares
    lock,        \* the generation of the lock file it holds, 0 for none
    lockFile,    \* the generation at the lock's path, 0 when deleted
    path,        \* the inode at the socket's path
    made,        \* generations made
    advertised,  \* the daemons whose store names the control endpoint
    op,          \* per request: none, reading, running or ended
    host,        \* the daemon that accepted it
    client,      \* the requests whose client still waits
    swept,       \* listeners whose socket file was deleted from outside
    beside,      \* listeners bound while another server drained
    mishaps

\* swept and beside are history variables: no guard reads them.

fileVars == <<lock, lockFile, path, made>>
historyVars == <<swept, beside>>
opVars == <<op, host, client>>
serviceVars == <<phase, stopping, server, listener, guard, fileVars, advertised, opVars,
                 historyVars, mishaps>>

Starting == {"begun", "locked", "probed"}
OpsOf(d, state) == {o \in Operations : host[o] = d /\ op[o] = state}
Waiting(d) == {o \in client : host[o] = d /\ op[o] # "ended"}
Mishap == mishaps < MaxMishaps /\ mishaps' = mishaps + 1
Move(d, to) == phase' = [phase EXCEPT ![d] = to]

-----------------------------------------------------------------------------
(* Start: Service::begin, then Server::bind.                               *)

\* begin advertises nothing: there is no server yet.
Begin(d) ==
    /\ phase[d] = "down"
    /\ Move(d, "begun")
    /\ server' = [server EXCEPT ![d] = "none"]
    /\ advertised' = advertised \ {d}
    /\ UNCHANGED <<stopping, listener, guard, fileVars, opVars, historyVars,
                   mishaps>>

\* A stop drops the bind where it waits, and with it the lock.
Abandon(d) ==
    /\ phase[d] \in {"begun", "locked"} /\ d \in stopping
    /\ Move(d, "draining")
    /\ lock' = [lock EXCEPT ![d] = 0]
    /\ UNCHANGED <<stopping, server, listener, guard, lockFile, path, made, advertised, opVars,
                   historyVars, mishaps>>

\* The lock file is created when it is missing; a held one refuses the start
\* after BIND_RETRY.
LockSocket(d) ==
    /\ phase[d] = "begun" /\ d \notin stopping
    /\ \/ /\ lockFile = 0
          /\ made' = made + 1
          /\ lockFile' = made + 1
          /\ lock' = [lock EXCEPT ![d] = made + 1]
          /\ Move(d, "locked")
       \/ /\ lockFile # 0 /\ \A e \in Daemons : lock[e] # lockFile
          /\ lock' = [lock EXCEPT ![d] = lockFile]
          /\ Move(d, "locked")
          /\ UNCHANGED <<lockFile, made>>
       \/ /\ lockFile # 0 /\ \E e \in Daemons : lock[e] = lockFile
          /\ Move(d, "draining")
          /\ UNCHANGED <<lock, lockFile, made>>
    /\ UNCHANGED <<stopping, server, listener, guard, path, advertised, opVars, historyVars,
                   mishaps>>

\* A socket that still answers belongs to a live server.
Answers(inode) == \E e \in Daemons : listener[e] = inode
ProbeSocket(d) ==
    /\ phase[d] = "locked" /\ d \notin stopping
    /\ \/ /\ path # 0 /\ Answers(path)
          /\ Move(d, "draining")
          /\ lock' = [lock EXCEPT ![d] = 0]
       \/ /\ path = 0 \/ ~Answers(path)
          /\ Move(d, "probed")
          /\ UNCHANGED lock
    /\ UNCHANGED <<stopping, server, listener, guard, lockFile, path, made, advertised, opVars,
                   historyVars, mishaps>>

\* A server that drains, or removes its socket file, still has its guard.
Late(d) == server[d] \in {"draining", "removing"}

\* A stale file is removed; the listener, its guard and the server task follow
\* without an await.  Any number that no listener keeps is free, also that of
\* the file just removed, which the guard of a late server may remember.
Bind(d) ==
    /\ phase[d] = "probed"
    /\ \E inode \in {i \in Inodes : ~Answers(i)} :
          /\ path' = inode
          /\ listener' = [listener EXCEPT ![d] = inode]
          /\ guard' = [guard EXCEPT ![d] = inode]
    /\ server' = [server EXCEPT ![d] = "listening"]
    /\ swept' = swept \ {d}
    /\ beside' = IF \E e \in Daemons : Late(e) THEN beside \cup {d} ELSE beside \ {d}
    /\ Move(d, "bound")
    /\ UNCHANGED <<stopping, lock, lockFile, made, advertised, opVars, mishaps>>

\* The file cannot be removed, bound, read or restricted.  It is still there,
\* gone, or a new one that nobody listens on.
BindFails(d) ==
    /\ phase[d] = "probed" /\ Mishap
    /\ path' \in {path, 0} \cup {i \in Inodes : ~Answers(i)}
    /\ lock' = [lock EXCEPT ![d] = 0]
    /\ Move(d, "draining")
    /\ UNCHANGED <<stopping, server, listener, guard, lockFile, made, advertised, opVars,
                   historyVars>>

\* A store failure of begin or endpoint ends the start.
StartFails(d) ==
    /\ phase[d] \in {"begun", "bound"} /\ Mishap
    /\ Move(d, "draining")
    /\ UNCHANGED <<stopping, server, listener, guard, fileVars, advertised, opVars, historyVars>>

Advertise(d) ==
    /\ phase[d] = "bound"
    /\ advertised' = advertised \cup {d}
    /\ Move(d, "serving")
    /\ UNCHANGED <<stopping, server, listener, guard, fileVars, opVars, historyVars,
                   mishaps>>

-----------------------------------------------------------------------------
(* The control server: run and serve.                                      *)

\* A client connects through the path; without a permit it is dropped.
Accept(o, d) ==
    /\ op[o] = "none"
    /\ server[d] = "listening" /\ path = listener[d]
    /\ host' = [host EXCEPT ![o] = d]
    /\ \/ /\ Cardinality(Waiting(d)) < Connections
          /\ op' = [op EXCEPT ![o] = "reading"]
          /\ client' = client \cup {o}
       \/ /\ Cardinality(Waiting(d)) >= Connections
          /\ op' = [op EXCEPT ![o] = "ended"]
          /\ UNCHANGED client
    /\ UNCHANGED <<phase, stopping, server, listener, guard, fileVars, advertised, historyVars,
                   mishaps>>

\* A complete request runs in a task of its own, or is answered "busy".
Serve(o) ==
    /\ op[o] = "reading" /\ o \in client
    /\ \/ /\ Cardinality(OpsOf(host[o], "running")) < AtOnce
          /\ op' = [op EXCEPT ![o] = "running"]
          /\ UNCHANGED client
       \/ /\ Cardinality(OpsOf(host[o], "running")) >= AtOnce
          /\ op' = [op EXCEPT ![o] = "ended"]
          /\ client' = client \ {o}
    /\ UNCHANGED <<phase, stopping, server, listener, guard, fileVars, advertised, host, historyVars,
                   mishaps>>

\* The client leaves, or its body or connection times out.  A running
\* operation goes on.
Disconnect(o) ==
    /\ o \in client
    /\ client' = client \ {o}
    /\ op' = [op EXCEPT ![o] = IF @ = "reading" THEN "ended" ELSE @]
    /\ UNCHANGED <<phase, stopping, server, listener, guard, fileVars, advertised, host, historyVars,
                   mishaps>>

Finish(o) ==
    /\ op[o] = "running"
    /\ op' = [op EXCEPT ![o] = "ended"]
    /\ client' = client \ {o}
    /\ UNCHANGED <<phase, stopping, server, listener, guard, fileVars, advertised, host, historyVars,
                   mishaps>>

\* The listener is closed and every connection aborted, when the coordinator
\* stops the server or accept fails.
StopListening(d) ==
    /\ server[d] = "listening"
    /\ \/ phase[d] = "draining" /\ UNCHANGED mishaps
       \/ phase[d] \in {"bound", "serving", "hangup"} /\ Mishap
    /\ server' = [server EXCEPT ![d] = "draining"]
    /\ listener' = [listener EXCEPT ![d] = 0]
    /\ client' = client \ Waiting(d)
    /\ op' = [o \in Operations |-> IF o \in OpsOf(d, "reading") THEN "ended" ELSE op[o]]
    /\ UNCHANGED <<phase, stopping, guard, fileVars, advertised, host>>
    /\ swept' = swept \ {d} /\ beside' = beside \ {d}

\* The guard compares the number of the file at the path with its own.
FindsFile(d) == path # 0
FindsOwn(d) == path = guard[d]

\* The guard lets the lock go when it is done.
LetGo(d) ==
    IF FindsOwn(d)
    THEN /\ server' = [server EXCEPT ![d] = "removing"]
         /\ UNCHANGED <<guard, lock>>
    ELSE /\ server' = [server EXCEPT ![d] = "gone"]
         /\ guard' = [guard EXCEPT ![d] = 0]
         /\ lock' = [lock EXCEPT ![d] = 0]

\* Running operations finish, or are aborted after shutdown_timeout; then the
\* guard is dropped.
DrainPatiently(d) ==
    /\ server[d] = "draining" /\ OpsOf(d, "running") = {}
    /\ LetGo(d)
    /\ UNCHANGED <<phase, stopping, listener, lockFile, path, made, advertised, opVars,
                   historyVars, mishaps>>
Drain(d) ==
    /\ server[d] = "draining"
    /\ op' = [o \in Operations |-> IF o \in OpsOf(d, "running") THEN "ended" ELSE op[o]]
    /\ LetGo(d)
    /\ UNCHANGED <<phase, stopping, listener, lockFile, path, made, advertised, host, client,
                   historyVars, mishaps>>

\* It removes whatever is at the path by now.
Unlink(d) ==
    /\ server[d] = "removing"
    /\ server' = [server EXCEPT ![d] = "gone"]
    /\ path' = 0
    /\ guard' = [guard EXCEPT ![d] = 0]
    /\ lock' = [lock EXCEPT ![d] = 0]
    /\ UNCHANGED <<phase, stopping, listener, lockFile, made, advertised, opVars, historyVars,
                   mishaps>>

-----------------------------------------------------------------------------
(* Stop: the rest of Service::coordinate.                                  *)

\* The stop signal, or the caller's future is dropped.
Stop(d) ==
    /\ phase[d] # "down" /\ d \notin stopping
    /\ stopping' = stopping \cup {d}
    /\ UNCHANGED <<phase, server, listener, guard, fileVars, advertised, opVars, historyVars,
                   mishaps>>

\* The select of the running service: a stop, a failed host service, or the
\* end of the socket or of a loop.
LoopsEnd(d) ==
    /\ phase[d] = "serving"
    /\ \/ (d \in stopping \/ server[d] = "gone") /\ UNCHANGED mishaps
       \/ d \notin stopping /\ server[d] # "gone" /\ Mishap
    /\ Move(d, "hangup")
    /\ UNCHANGED <<stopping, server, listener, guard, fileVars, advertised, opVars, historyVars>>

\* The Slack socket closes, or socket_stop_timeout passes.
HangUp(d) ==
    /\ phase[d] = "hangup"
    /\ Move(d, "draining")
    /\ UNCHANGED <<stopping, server, listener, guard, fileVars, advertised, opVars, historyVars,
                   mishaps>>

\* lifecycle.stop returned: the endpoint is withdrawn.
Withdraw(d) ==
    /\ phase[d] = "draining" /\ server[d] \in {"none", "gone"}
    /\ advertised' = advertised \ {d}
    /\ Move(d, "closing")
    /\ UNCHANGED <<stopping, server, listener, guard, fileVars, opVars, historyVars,
                   mishaps>>

\* Runtime::close, whose steps are in Supervisor.
CloseWorkers(d) ==
    /\ phase[d] = "closing"
    /\ Move(d, "ending")
    /\ UNCHANGED <<stopping, server, listener, guard, fileVars, advertised, opVars, historyVars,
                   mishaps>>

End(d) ==
    /\ phase[d] = "ending"
    /\ Move(d, "down")
    /\ stopping' = stopping \ {d}
    /\ UNCHANGED <<server, listener, guard, fileVars, advertised, opVars, historyVars,
                   mishaps>>

-----------------------------------------------------------------------------
(* The environment.                                                        *)

\* The process dies: descriptors close, files stay.
Die(d) ==
    /\ phase[d] # "down" /\ Mishap
    /\ Move(d, "down")
    /\ stopping' = stopping \ {d}
    /\ server' = [server EXCEPT ![d] = "gone"]
    /\ listener' = [listener EXCEPT ![d] = 0]
    /\ guard' = [guard EXCEPT ![d] = 0]
    /\ lock' = [lock EXCEPT ![d] = 0]
    /\ client' = client \ Waiting(d)
    /\ op' = [o \in Operations |-> IF host[o] = d THEN "ended" ELSE op[o]]
    /\ UNCHANGED <<lockFile, path, made, advertised, host>>
    /\ swept' = swept \ {d} /\ beside' = beside \ {d}

\* Someone deletes the socket, the lock file or both, not during a start.
Sweep(socket, locks) ==
    /\ Mishap
    /\ \A d \in Daemons : phase[d] \notin Starting
    /\ path' = IF socket THEN 0 ELSE path
    /\ lockFile' = IF locks THEN 0 ELSE lockFile
    /\ swept' = swept \cup IF socket THEN {d \in Daemons : path # 0 /\ listener[d] = path} ELSE {}
    /\ UNCHANGED <<phase, stopping, server, listener, guard, lock, made, advertised, opVars, beside>>

-----------------------------------------------------------------------------
ServiceInit ==
    /\ phase = [d \in Daemons |-> "down"] /\ stopping = {}
    /\ server = [d \in Daemons |-> "none"]
    /\ listener = [d \in Daemons |-> 0] /\ guard = [d \in Daemons |-> 0]
    /\ lock = [d \in Daemons |-> 0] /\ lockFile = 0 /\ path = 0 /\ made = 0
    /\ advertised = {} /\ swept = {} /\ beside = {} /\ mishaps = 0
    /\ op = [o \in Operations |-> "none"]
    /\ host = [o \in Operations |-> CHOOSE d \in Daemons : TRUE] /\ client = {}

Coordinate(d) == Abandon(d) \/ LockSocket(d) \/ ProbeSocket(d) \/ Bind(d) \/ Advertise(d)
                 \/ HangUp(d) \/ Withdraw(d) \/ CloseWorkers(d) \/ End(d)

ServiceNext ==
    \/ \E d \in Daemons : \/ Begin(d) \/ Coordinate(d) \/ BindFails(d) \/ StartFails(d)
                          \/ LoopsEnd(d) \/ StopListening(d) \/ Drain(d) \/ Unlink(d)
                          \/ Stop(d) \/ Die(d)
    \/ \E o \in Operations, d \in Daemons : Accept(o, d)
    \/ \E o \in Operations : Serve(o) \/ Disconnect(o) \/ Finish(o)
    \/ \E socket, locks \in BOOLEAN : Sweep(socket, locks)

\* Every wait of the coordinator and of the drain has a timeout.  Operations
\* and clients owe nothing.
ServiceFair ==
    \A d \in Daemons :
        /\ WF_serviceVars(Coordinate(d))
        /\ WF_serviceVars((d \in stopping \/ server[d] = "gone") /\ LoopsEnd(d))
        /\ WF_serviceVars(phase[d] = "draining" /\ StopListening(d))
        /\ WF_serviceVars(Drain(d) \/ Unlink(d))

ServiceSpec == ServiceInit /\ [][ServiceNext]_serviceVars /\ ServiceFair

-----------------------------------------------------------------------------
(* Properties.                                                             *)

\* A server that listens is reached at the path: neither a second daemon nor
\* the late guard of an earlier one takes its socket, whichever files were
\* deleted and whoever crashed before (Server::bind, SocketGuard::drop).  Left
\* out are a socket deleted from outside and one bound while another server
\* drained: that one's guard may find its own number at the path.
SocketOwned ==
    \A d \in Daemons : listener[d] # 0 /\ d \notin swept \cup beside => path = listener[d]

\* The lock file is not deleted while a daemon holds it.
LockStays == lockFile' # lockFile => \A d \in Daemons : lock[d] = 0 \/ lock[d] # lockFile

\* A daemon that is asked to stop ends, also when an operation hangs or its
\* listener failed before.
StopEnds == \A d \in Daemons : d \in stopping ~> phase[d] = "down"

=============================================================================
