----------------------------- MODULE IndexServer -----------------------------
(***************************************************************************)
(* The shared index server of src/daemon/index_server.rs: how sessions     *)
(* find, start and share one server per repository, and how a server       *)
(* retires.                                                                *)
(*                                                                         *)
(* A client is one MCP session.  It takes the per-server flock, probes the *)
(* socket path, and when nothing listens there removes the path, spawns a  *)
(* server and polls until the handshake succeeds; any failure makes the    *)
(* session index in-process for good.  A server binds the path, records    *)
(* the identity of its socket, writes the pid file, then loops: accept one *)
(* connection, and exit under the lock once it has been idle or failed.    *)
(*                                                                         *)
(* The file system is one lock, one socket path and one pid file.  Elapsed *)
(* time is a step that may happen at any moment.  A socket's identity      *)
(* (dev, ino, ctime) is who bound it and who last changed its mode.        *)
(* Requests on an attached connection are not modelled, only its end.      *)
(***************************************************************************)
EXTENDS Naturals, FiniteSets

CONSTANTS
  Clients,     \* MCP sessions
  Servers,     \* bound: server processes that may ever be spawned
  MaxClients,  \* ServerConfig.max_clients
  Env,         \* per session: environment and config hashed into the handshake
  NoOne, NoSock

ASSUME ServerAssumption ==
  /\ MaxClients \in Nat \ {0}
  /\ IsFiniteSet(Clients)
  /\ Clients \cap Servers = {}
  /\ NoOne \notin Clients \union Servers
  /\ NoSock \notin [owner : Servers, mode : Servers \union {NoOne}]

VARIABLES
  lock,      \* holder of the flock
  sock,      \* what the socket path names
  pidFile,   \* the server the pid file names
  cpc,       \* step of each session
  retried,   \* the one retry of connect_for_session has been used
  link,      \* server at the other end of the session's open stream
  reply,     \* handshake reply waiting in that stream
  child,     \* server the session spawned
  spc,       \* step of each server
  ours,      \* socket identity each server recorded
  conn,      \* per server, the state of each session's connection
  clients,   \* per server, the count of admitted connections
  idle,      \* per server: idle_since is at least cfg.idle ago
  failed,    \* per server: failed_since is at least cfg.failed_grace ago
  exitFor,   \* per server: the reason decided before the lock was taken
  abandoned  \* history: servers whose spawner let go of the lock before they bound

fileVars == <<lock, sock, pidFile>>
streamVars == <<link, reply>>
clientVars == <<cpc, retried, streamVars, child>>
connVars == <<conn, clients>>
serverVars == <<spc, ours, idle, failed, exitFor>>
vars == <<fileVars, clientVars, connVars, serverVars, abandoned>>

Identity == [owner : Servers, mode : Servers \union {NoOne}]

\* Connections counted by `clients`: a live ClientGuard exists for them.
Counted == {"accepted", "serving", "closing"}
Guards(s) == {c \in Clients : conn[s][c] \in Counted}

\* A connection to s is queued by the kernel from bind until the process ends.
Listening(s) == spc[s] \in {"bound", "chmodded", "identified", "accept", "check",
                            "tryLock", "locked", "unlink", "removePid", "exiting"}

\* is_absent: connect fails with ConnectionRefused or NotFound.
Answered == sock # NoSock /\ Listening(sock.owner)
Absent == ~Answered

-----------------------------------------------------------------------------
(* Sessions: connect_for_session and ensure_server.                        *)

ClientStep(c, from, to) ==
  /\ cpc[c] = from
  /\ cpc' = [cpc EXCEPT ![c] = to]

Release(p) == lock' = IF lock = p THEN NoOne ELSE lock

\* The session closes its stream.
HangUp(c) ==
  /\ link' = [link EXCEPT ![c] = NoOne]
  /\ reply' = [reply EXCEPT ![c] = "none"]

\* The first tools/call resolves the backend.
FirstCall(c) ==
  /\ ClientStep(c, "unresolved", "lock")
  /\ UNCHANGED <<fileVars, retried, streamVars, child, connVars, serverVars, abandoned>>

\* Mutant: a session does not wait for the lock.
TakeLockAnyway(c) ==
  /\ ClientStep(c, "lock", "probe")
  /\ lock' = c
  /\ UNCHANGED <<sock, pidFile, retried, streamVars, child, connVars, serverVars, abandoned>>

TakeLock(c) ==
  /\ lock = NoOne
  /\ ClientStep(c, "lock", "probe")
  /\ lock' = c
  /\ UNCHANGED <<sock, pidFile, retried, streamVars, child, connVars, serverVars, abandoned>>

\* lock_exclusive gave up: IpcError::Timeout is not a disconnect.
LockTimeout(c) ==
  /\ lock # NoOne
  /\ ClientStep(c, "lock", "local")
  /\ UNCHANGED <<fileVars, retried, streamVars, child, connVars, serverVars, abandoned>>

\* The stream lands in the listener's backlog.
Connect(c) ==
  /\ Answered
  /\ link' = [link EXCEPT ![c] = sock.owner]
  /\ conn' = [conn EXCEPT ![sock.owner][c] = "backlog"]

Probe(c) ==
  /\ \/ /\ ClientStep(c, "probe", "await")
        /\ Connect(c)
     \/ /\ Absent
        /\ ClientStep(c, "probe", "remove")
        /\ UNCHANGED <<link, conn>>
  /\ UNCHANGED <<fileVars, retried, reply, child, clients, serverVars, abandoned>>

RemoveStale(c) ==
  /\ ClientStep(c, "remove", "spawn")
  /\ sock' = NoSock
  /\ UNCHANGED <<lock, pidFile, retried, streamVars, child, connVars, serverVars, abandoned>>

SpawnServer(c) ==
  /\ ClientStep(c, "spawn", "poll")
  /\ \E s \in Servers :
       /\ spc[s] = "off"
       /\ spc' = [spc EXCEPT ![s] = "spawned"]
       /\ child' = [child EXCEPT ![c] = s]
  /\ UNCHANGED <<fileVars, retried, streamVars, connVars, ours, idle, failed, exitFor, abandoned>>

\* Any other error: the lock file cannot be opened, the path cannot be connected
\* to or removed, the process cannot be started.
DiscoveryError(c) ==
  /\ \E from \in {"lock", "probe", "remove", "spawn"} : ClientStep(c, from, "local")
  /\ Release(c)
  /\ UNCHANGED <<sock, pidFile, retried, streamVars, child, connVars, serverVars, abandoned>>

PollConnect(c) ==
  /\ ClientStep(c, "poll", "await")
  /\ Connect(c)
  /\ UNCHANGED <<fileVars, retried, reply, child, clients, serverVars, abandoned>>

\* The reaper saw the child exit.
PollExited(c) ==
  /\ ClientStep(c, "poll", "local")
  /\ Absent /\ spc[child[c]] = "gone"
  /\ Release(c)
  /\ UNCHANGED <<sock, pidFile, retried, streamVars, child, connVars, serverVars, abandoned>>

\* A child that has not bound when its spawner lets go of the lock.
Abandon(c) ==
  abandoned' = abandoned \union {s \in Servers : child[c] = s /\ spc[s] = "spawned"}

\* spawn_wait is over, or connecting failed for another reason than absence.
PollExpired(c) ==
  /\ ClientStep(c, "poll", "local")
  /\ Release(c)
  /\ Abandon(c)
  /\ UNCHANGED <<sock, pidFile, retried, streamVars, child, connVars, serverVars>>

\* The handshake reply: the session is attached, or rejected for good.
Attach(c) ==
  /\ \/ /\ reply[c] = "ok"
        /\ ClientStep(c, "await", "attached")
        /\ reply' = [reply EXCEPT ![c] = "none"]
        /\ UNCHANGED link
     \/ /\ reply[c] = "rejected"
        /\ ClientStep(c, "await", "local")
        /\ HangUp(c)
  /\ Release(c)
  /\ UNCHANGED <<sock, pidFile, retried, child, connVars, serverVars, abandoned>>

\* End of file, after what was sent has been read: the process ended, or its
\* thread dropped the stream.
PeerGone(c) ==
  /\ reply[c] = "none"
  /\ \E s \in Servers : link[c] = s /\ conn[s][c] = "none"

\* EOF during the handshake: one retry of the whole discovery, then in-process.
AwaitClosed(c) ==
  /\ PeerGone(c)
  /\ ClientStep(c, "await", IF retried[c] THEN "local" ELSE "lock")
  /\ retried' = [retried EXCEPT ![c] = TRUE]
  /\ HangUp(c)
  /\ Release(c)
  /\ UNCHANGED <<sock, pidFile, child, connVars, serverVars, abandoned>>

\* The two-second handshake timeout is not a disconnect: no retry.
AwaitTimeout(c) ==
  /\ ClientStep(c, "await", "local")
  /\ HangUp(c)
  /\ Release(c)
  /\ UNCHANGED <<sock, pidFile, retried, child, connVars, serverVars, abandoned>>

\* The next request of an attached session finds its server gone.
FallBack(c) ==
  /\ PeerGone(c)
  /\ ClientStep(c, "attached", "local")
  /\ HangUp(c)
  /\ UNCHANGED <<fileVars, retried, child, connVars, serverVars, abandoned>>

\* A forwarded request times out: the stream is dropped, the server lives on.
RequestTimeout(c) ==
  /\ ClientStep(c, "attached", "local")
  /\ HangUp(c)
  /\ UNCHANGED <<fileVars, retried, child, connVars, serverVars, abandoned>>

\* stdin closes or the session is killed, wherever it is: the kernel closes
\* its stream and releases its flock.
EndSession(c) ==
  /\ cpc[c] \notin {"unresolved", "local", "ended"}
  /\ cpc' = [cpc EXCEPT ![c] = "ended"]
  /\ HangUp(c)
  /\ Release(c)
  /\ IF cpc[c] = "poll" THEN Abandon(c) ELSE UNCHANGED abandoned
  /\ UNCHANGED <<sock, pidFile, retried, child, connVars, serverVars>>

-----------------------------------------------------------------------------
(* Servers: run_index_server.                                              *)

ServerStep(s, from, to) ==
  /\ spc[s] = from
  /\ spc' = [spc EXCEPT ![s] = to]

\* The process ends: its memory goes, and the kernel closes its listener, its
\* streams and its lock.
Exit(s) ==
  /\ spc' = [spc EXCEPT ![s] = "gone"]
  /\ conn' = [conn EXCEPT ![s] = [c \in Clients |-> "none"]]
  /\ clients' = [clients EXCEPT ![s] = 0]
  /\ ours' = [ours EXCEPT ![s] = NoSock]
  /\ idle' = [idle EXCEPT ![s] = FALSE]
  /\ failed' = [failed EXCEPT ![s] = FALSE]
  /\ exitFor' = [exitFor EXCEPT ![s] = "idle"]
  /\ Release(s)

\* The path is taken only by a name that exists, whether or not anyone listens.
Bind(s) ==
  /\ \/ /\ sock = NoSock
        /\ ServerStep(s, "spawned", "bound")
        /\ sock' = [owner |-> s, mode |-> NoOne]
     \/ /\ sock # NoSock
        /\ ServerStep(s, "spawned", "gone")
        /\ UNCHANGED sock
  /\ UNCHANGED <<lock, pidFile, clientVars, connVars, ours, idle, failed, exitFor, abandoned>>

\* set_permissions on the path, whatever it names by now.
Chmod(s) ==
  /\ spc[s] = "bound"
  /\ \/ /\ sock # NoSock
        /\ ServerStep(s, "bound", "chmodded")
        /\ sock' = [sock EXCEPT !.mode = s]
        /\ UNCHANGED <<lock, connVars, ours, idle, failed, exitFor>>
     \/ /\ sock = NoSock
        /\ Exit(s)
        /\ UNCHANGED sock
  /\ UNCHANGED <<pidFile, clientVars, abandoned>>

\* file_identity of the path.
Identify(s) ==
  /\ spc[s] = "chmodded"
  /\ \/ /\ sock # NoSock
        /\ ServerStep(s, "chmodded", "identified")
        /\ ours' = [ours EXCEPT ![s] = sock]
        /\ UNCHANGED <<lock, connVars, idle, failed, exitFor>>
     \/ /\ sock = NoSock
        /\ Exit(s)
  /\ UNCHANGED <<sock, pidFile, clientVars, abandoned>>

\* The pid file is written, the build and the idle timer start.
WritePid(s) ==
  /\ ServerStep(s, "identified", "accept")
  /\ pidFile' = s
  /\ UNCHANGED <<lock, sock, clientVars, connVars, ours, idle, failed, exitFor, abandoned>>

Pending(s) == {c \in Clients : conn[s][c] = "backlog"}

\* Mutant: the cap is compared with >.
AcceptOnePastCap(s, c) ==
  /\ c \in Pending(s)
  /\ IF clients[s] > MaxClients
     THEN conn' = [conn EXCEPT ![s][c] = "none"] /\ UNCHANGED clients
     ELSE /\ conn' = [conn EXCEPT ![s][c] = "accepted"]
          /\ clients' = [clients EXCEPT ![s] = @ + 1]
  /\ UNCHANGED idle

\* Mutant: a stream dropped over the cap keeps its slot.
AcceptOneLeaks(s, c) ==
  /\ c \in Pending(s)
  /\ clients' = [clients EXCEPT ![s] = @ + 1]
  /\ conn' = [conn EXCEPT ![s][c] = IF clients[s] < MaxClients THEN "accepted" ELSE "none"]
  /\ UNCHANGED idle

\* accept_one: over the cap the stream is dropped without a thread; when the
\* thread cannot be started its guard is dropped, which restarts the timer.
AcceptOne(s, c) ==
  /\ c \in Pending(s)
  /\ \/ /\ clients[s] >= MaxClients
        /\ conn' = [conn EXCEPT ![s][c] = "none"]
        /\ UNCHANGED <<clients, idle>>
     \/ /\ clients[s] < MaxClients
        /\ conn' = [conn EXCEPT ![s][c] = "accepted"]
        /\ clients' = [clients EXCEPT ![s] = @ + 1]
        /\ UNCHANGED idle
     \/ /\ clients[s] < MaxClients
        /\ conn' = [conn EXCEPT ![s][c] = "none"]
        /\ idle' = [idle EXCEPT ![s] = FALSE]
        /\ UNCHANGED clients

\* The loop accepts at most one connection per pass, outside any lock.
LoopAccept(s) ==
  /\ ServerStep(s, "accept", "check")
  /\ \/ \E c \in Clients : AcceptOne(s, c)
     \/ Pending(s) = {} /\ UNCHANGED <<connVars, idle>>
  /\ UNCHANGED <<fileVars, clientVars, ours, failed, exitFor, abandoned>>

Due(s) == failed[s] \/ (clients[s] = 0 /\ idle[s])

NotDue(s) ==
  /\ ~Due(s)
  /\ ServerStep(s, "check", "accept")
  /\ UNCHANGED <<fileVars, clientVars, connVars, ours, idle, failed, exitFor, abandoned>>

\* The decision is a local of one pass of the loop.
PassOver(s) == exitFor' = [exitFor EXCEPT ![s] = "idle"]

DecideDue(s) ==
  /\ Due(s)
  /\ ServerStep(s, "check", "tryLock")
  /\ exitFor' = [exitFor EXCEPT ![s] = IF failed[s] THEN "failed" ELSE "idle"]
  /\ UNCHANGED <<fileVars, clientVars, connVars, ours, idle, failed, abandoned>>

\* Mutant: the server waits for the lock.
TryLockBlocking(s) ==
  /\ lock = NoOne
  /\ lock' = s
  /\ ServerStep(s, "tryLock", "locked")
  /\ UNCHANGED <<sock, pidFile, clientVars, connVars, ours, idle, failed, exitFor, abandoned>>

\* lock_exclusive with a zero wait: contention goes back to accepting.
TryLock(s) ==
  /\ \/ /\ lock = NoOne
        /\ lock' = s
        /\ ServerStep(s, "tryLock", "locked")
        /\ UNCHANGED exitFor
     \/ /\ lock # NoOne
        /\ ServerStep(s, "tryLock", "accept")
        /\ PassOver(s)
        /\ UNCHANGED lock
  /\ UNCHANGED <<sock, pidFile, clientVars, connVars, ours, idle, failed, abandoned>>

\* Under the lock the backlog is admitted before the decision is checked again.
DrainOne(s) ==
  /\ spc[s] = "locked"
  /\ \E c \in Clients : AcceptOne(s, c)
  /\ UNCHANGED <<fileVars, clientVars, spc, ours, failed, exitFor, abandoned>>

StayOn(s) ==
  /\ Pending(s) = {} /\ exitFor[s] = "idle" /\ clients[s] # 0
  /\ ServerStep(s, "locked", "accept")
  /\ PassOver(s)
  /\ Release(s)
  /\ UNCHANGED <<sock, pidFile, clientVars, connVars, ours, idle, failed, abandoned>>

\* The files are removed only while the pid file still names this server.
DecideExit(s) ==
  /\ Pending(s) = {}
  /\ exitFor[s] = "failed" \/ clients[s] = 0
  /\ \/ /\ pidFile = s
        /\ ServerStep(s, "locked", "unlink")
        /\ UNCHANGED lock
     \/ /\ pidFile # s
        /\ ServerStep(s, "locked", "exiting")
        /\ Release(s)
  /\ UNCHANGED <<sock, pidFile, clientVars, connVars, ours, idle, failed, exitFor, abandoned>>

UnlinkIfOurs(s) ==
  /\ ServerStep(s, "unlink", "removePid")
  /\ sock' = IF sock = ours[s] THEN NoSock ELSE sock
  /\ UNCHANGED <<lock, pidFile, clientVars, connVars, ours, idle, failed, exitFor, abandoned>>

\* remove_file on the pid path; the lock drops with the loop's scope.
RemovePid(s) ==
  /\ ServerStep(s, "removePid", "exiting")
  /\ pidFile' = NoOne
  /\ Release(s)
  /\ UNCHANGED <<sock, clientVars, connVars, ours, idle, failed, exitFor, abandoned>>

\* The watcher is joined, then the process ends.
ExitDone(s) ==
  /\ spc[s] = "exiting"
  /\ Exit(s)
  /\ UNCHANGED <<sock, pidFile, clientVars, abandoned>>

\* The process dies: killed, or an error return before the loop (the binary
\* changed since the spawn, an unsafe run directory, an unwritable pid file).
Die(s) ==
  /\ spc[s] \notin {"off", "gone"}
  /\ Exit(s)
  /\ UNCHANGED <<sock, pidFile, clientVars, abandoned>>

ServerRun(s) ==
  \/ Bind(s) \/ Chmod(s) \/ Identify(s) \/ WritePid(s)
  \/ LoopAccept(s) \/ NotDue(s) \/ DecideDue(s) \/ TryLock(s)
  \/ DrainOne(s) \/ StayOn(s) \/ DecideExit(s)
  \/ UnlinkIfOurs(s) \/ RemovePid(s) \/ ExitDone(s)

-----------------------------------------------------------------------------
(* Connection threads.                                                     *)

\* The environment that s inherited from the session that spawned it.
SpawnerEnv(s) == {Env[p] : p \in {q \in Clients : child[q] = s}}

\* server_handshake: the environment must be the spawner's.  A rejection ends
\* the thread, and so does a hello that comes too late.
ServerHandshake(s, c) ==
  /\ conn[s][c] = "accepted" /\ link[c] = s
  /\ \/ /\ Env[c] \in SpawnerEnv(s)
        /\ conn' = [conn EXCEPT ![s][c] = "serving"]
        /\ reply' = [reply EXCEPT ![c] = "ok"]
     \/ /\ Env[c] \notin SpawnerEnv(s)
        /\ conn' = [conn EXCEPT ![s][c] = "closing"]
        /\ reply' = [reply EXCEPT ![c] = "rejected"]
     \/ /\ conn' = [conn EXCEPT ![s][c] = "closing"]
        /\ UNCHANGED reply
  /\ UNCHANGED <<fileVars, cpc, retried, link, child, clients, serverVars, abandoned>>

\* Mutant: the handshake's read timeout stays on the stream of a quiet session.
GuardCountQuiet(s, c) ==
  /\ conn[s][c] \in Counted
  /\ conn' = [conn EXCEPT ![s][c] = "resetting"]
  /\ clients' = [clients EXCEPT ![s] = @ - 1]
  /\ UNCHANGED <<fileVars, clientVars, serverVars, abandoned>>

\* A thread ends once its peer has hung up, or after a failed handshake.  Its
\* ClientGuard is dropped in two steps: the count first, the idle timer after.
GuardCount(s, c) ==
  /\ conn[s][c] \in Counted
  /\ link[c] # s \/ conn[s][c] = "closing"
  /\ conn' = [conn EXCEPT ![s][c] = "resetting"]
  /\ clients' = [clients EXCEPT ![s] = @ - 1]
  /\ UNCHANGED <<fileVars, clientVars, serverVars, abandoned>>

GuardTimer(s, c) ==
  /\ conn[s][c] = "resetting"
  /\ conn' = [conn EXCEPT ![s][c] = "none"]
  /\ idle' = [idle EXCEPT ![s] = FALSE]
  /\ UNCHANGED <<fileVars, clientVars, clients, spc, ours, failed, exitFor, abandoned>>

ConnThread(s, c) == ServerHandshake(s, c) \/ GuardCount(s, c) \/ GuardTimer(s, c)

-----------------------------------------------------------------------------
(* Time.                                                                   *)

\* In service: past its start-up, and not yet on its way out.
InLoop(s) == spc[s] \in {"accept", "check", "tryLock", "locked"}

IdleElapses(s) ==
  /\ InLoop(s) /\ ~idle[s]
  /\ idle' = [idle EXCEPT ![s] = TRUE]
  /\ UNCHANGED <<fileVars, clientVars, connVars, spc, ours, failed, exitFor, abandoned>>

\* The first pass that saw a failed build started a clock that nothing stops,
\* not even a rebuild that succeeds.
GraceElapses(s) ==
  /\ InLoop(s) /\ ~failed[s]
  /\ failed' = [failed EXCEPT ![s] = TRUE]
  /\ UNCHANGED <<fileVars, clientVars, connVars, spc, ours, idle, exitFor, abandoned>>

-----------------------------------------------------------------------------

Init ==
  /\ lock = NoOne /\ sock = NoSock /\ pidFile = NoOne
  /\ cpc = [c \in Clients |-> "unresolved"] /\ retried = [c \in Clients |-> FALSE]
  /\ link = [c \in Clients |-> NoOne] /\ reply = [c \in Clients |-> "none"]
  /\ child = [c \in Clients |-> NoOne]
  /\ spc = [s \in Servers |-> "off"] /\ ours = [s \in Servers |-> NoSock]
  /\ conn = [s \in Servers |-> [c \in Clients |-> "none"]]
  /\ clients = [s \in Servers |-> 0]
  /\ idle = [s \in Servers |-> FALSE] /\ failed = [s \in Servers |-> FALSE]
  /\ exitFor = [s \in Servers |-> "idle"]
  /\ abandoned = {}

\* The steps a session takes by itself, timeouts of a silent peer excepted.
ClientRun(c) ==
  \/ TakeLock(c) \/ LockTimeout(c) \/ Probe(c) \/ RemoveStale(c)
  \/ SpawnServer(c) \/ DiscoveryError(c) \/ PollConnect(c) \/ PollExited(c)
  \/ Attach(c) \/ AwaitClosed(c)

Next ==
  \/ \E c \in Clients :
       \/ ClientRun(c)
       \/ FirstCall(c) \/ PollExpired(c) \/ AwaitTimeout(c)
       \/ FallBack(c) \/ RequestTimeout(c) \/ EndSession(c)
  \/ \E s \in Servers :
       \/ ServerRun(s)
       \/ Die(s) \/ IdleElapses(s) \/ GraceElapses(s)
       \/ \E c \in Clients : ConnThread(s, c)

Spec == Init /\ [][Next]_vars

\* Processes and threads keep running and the idle clock keeps counting; no
\* call has to come, nothing has to fail and no timeout has to fire first.
FairSpec ==
  /\ Spec
  /\ \A c \in Clients : WF_vars(ClientRun(c))
  /\ \A s \in Servers :
       /\ WF_vars(ServerRun(s))
       /\ WF_vars(IdleElapses(s))
       /\ \A c \in Clients : WF_vars(ConnThread(s, c))

-----------------------------------------------------------------------------
(* Properties.                                                             *)

ClientPcs == {"unresolved", "lock", "probe", "remove", "spawn", "poll", "await",
              "attached", "local", "ended"}
ServerPcs == {"off", "spawned", "bound", "chmodded", "identified", "accept", "check",
              "tryLock", "locked", "unlink", "removePid", "exiting", "gone"}
ConnStates == {"none", "backlog", "accepted", "serving", "closing", "resetting"}

FileTypeOK ==
  /\ lock \in Clients \union Servers \union {NoOne}
  /\ sock \in Identity \union {NoSock}
  /\ pidFile \in Servers \union {NoOne}

ClientTypeOK ==
  /\ cpc \in [Clients -> ClientPcs] /\ retried \in [Clients -> BOOLEAN]
  /\ link \in [Clients -> Servers \union {NoOne}]
  /\ reply \in [Clients -> {"none", "ok", "rejected"}]
  /\ child \in [Clients -> Servers \union {NoOne}]
  /\ \A c \in Clients : cpc[c] = "poll" => child[c] \in Servers

ConnTypeOK ==
  /\ conn \in [Servers -> [Clients -> ConnStates]]
  /\ clients \in [Servers -> 0..MaxClients]

ServerTypeOK ==
  /\ spc \in [Servers -> ServerPcs]
  /\ ours \in [Servers -> Identity \union {NoSock}]
  /\ idle \in [Servers -> BOOLEAN] /\ failed \in [Servers -> BOOLEAN]
  /\ exitFor \in [Servers -> {"idle", "failed"}]
  /\ abandoned \subseteq Servers

\* Every variable keeps its shape; the count never passes the cap.
TypeOK == FileTypeOK /\ ClientTypeOK /\ ConnTypeOK /\ ServerTypeOK

\* The count a server decides its idle exit on is the number of live guards: no
\* accepted, rejected, timed-out or killed session leaks a slot or frees two.
ClientsCounted == \A s \in Servers : clients[s] = Cardinality(Guards(s))

\* The server that decides to exit for being idle has no session attached or
\* waiting for its handshake, although it checked only its own counter.
IdleExits(s) == spc[s] = "locked" /\ exitFor[s] = "idle" /\ spc'[s] \in {"unlink", "exiting"}

IdleExitStrandsNobody ==
  [][\A s \in Servers : IdleExits(s) => \A c \in Clients : link[c] # s]_vars

\* At most one server serves its loop.
OneServer ==
  \A s, t \in Servers : InLoop(s) /\ InLoop(t) => s = t

\* As long as no spawner let go of the lock before its child had bound, there is
\* one server in service and both files name it, whoever else dies or times out.
OneServerUnlessAbandoned ==
  abandoned = {} =>
    /\ OneServer
    /\ \A s \in Servers : InLoop(s) =>
         /\ pidFile = s
         /\ sock = ours[s]
         /\ sock.owner = s

\* A session that asked for a backend gets one: it attaches or indexes locally.
\* No server blocks on the lock a session holds while that server must answer it.
SessionResolves ==
  \A c \in Clients : cpc[c] = "lock" ~> cpc[c] \in {"attached", "local", "ended"}

\* When every session is over, every server ends.
ServersRetire ==
  <>[](\A c \in Clients : cpc[c] \in {"unresolved", "local", "ended"})
    => <>[](\A s \in Servers : spc[s] \in {"off", "gone"})

=============================================================================
