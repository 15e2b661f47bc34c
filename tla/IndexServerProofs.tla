-------------------------- MODULE IndexServerProofs --------------------------
(***************************************************************************)
(* Proofs about IndexServer, for any number of sessions and servers and    *)
(* any cap: its inductive invariant, the slot count, the single server in  *)
(* service, and that an idle exit strands no session.                      *)
(***************************************************************************)
EXTENDS IndexServer, FiniteSetTheorems, TLAPS

-----------------------------------------------------------------------------
(* The inductive invariant.                                                *)

\* Discovery and retirement are exclusive sections of the per-server flock.
LockHeld ==
  /\ \A c \in Clients : cpc[c] \in {"probe", "remove", "spawn", "poll", "await"} => lock = c
  /\ \A s \in Servers : spc[s] \in {"locked", "unlink", "removePid"} => lock = s

\* A session has one stream at most, and none before it has connected.
Linked(c) ==
  /\ cpc[c] \notin {"await", "attached"} => link[c] = NoOne
  /\ cpc[c] \in {"unresolved", "lock", "probe", "remove", "spawn", "poll"} =>
       \A s \in Servers : conn[s][c] = "none"
  /\ cpc[c] \in {"await", "attached"} =>
       link[c] \in Servers /\ \A s \in Servers : s # link[c] => conn[s][c] = "none"
  /\ reply[c] # "none" => cpc[c] = "await"
  /\ cpc[c] = "attached" \/ reply[c] = "ok" =>
       \/ conn[link[c]][c] = "serving"
       \/ conn[link[c]][c] = "none" /\ spc[link[c]] = "gone"

Links == \A c \in Clients : Linked(c)

\* From its bind until it has removed its files.
Up(s) == spc[s] \in {"bound", "chmodded", "identified", "accept", "check", "tryLock",
                     "locked", "unlink"}
Coming(s) == spc[s] = "spawned" \/ Up(s)

\* A child that has not bound is waited for by its spawner, under the lock.
SpawnedAwaited ==
  \A s \in Servers : spc[s] = "spawned" => \E c \in Clients : cpc[c] = "poll" /\ child[c] = s

\* A server that is up owns the path and knows the socket's identity.
UpOwnsPath ==
  \A s \in Servers : Up(s) =>
    /\ sock # NoSock /\ sock.owner = s
    /\ spc[s] \notin {"bound", "chmodded"} => ours[s] = sock
    /\ spc[s] \notin {"bound", "chmodded", "identified"} => pidFile = s

\* Who else owns the path is dead: nobody answers for a server on its way out.
OwnerUpOrGone == sock # NoSock => Up(sock.owner) \/ spc[sock.owner] = "gone"

\* No server is up or coming behind a session that starts one, nor behind a
\* server that has removed its files.
NoneBehind ==
  /\ \A c \in Clients : cpc[c] \in {"remove", "spawn"} => \A s \in Servers : ~Coming(s)
  /\ \A c \in Clients : cpc[c] = "poll" => \A s \in Servers : Coming(s) => s = child[c]
  /\ \A s \in Servers : spc[s] = "removePid" => \A t \in Servers : ~Coming(t)

Solo == SpawnedAwaited /\ UpOwnsPath /\ OwnerUpOrGone /\ NoneBehind

IInv ==
  /\ TypeOK /\ ClientsCounted /\ LockHeld /\ Links
  /\ abandoned = {} => Solo

-----------------------------------------------------------------------------
(* The actors.                                                             *)

SessionStep(c) ==
  \/ ClientRun(c) \/ FirstCall(c) \/ PollExpired(c) \/ AwaitTimeout(c)
  \/ FallBack(c) \/ RequestTimeout(c) \/ EndSession(c)

LoopStep(s) == ServerRun(s) \/ Die(s) \/ IdleElapses(s) \/ GraceElapses(s)

LEMMA Actors ==
  ASSUME [Next]_vars
  PROVE  \/ \E c \in Clients : SessionStep(c)
         \/ \E s \in Servers : LoopStep(s)
         \/ \E s \in Servers, c \in Clients : ConnThread(s, c)
         \/ UNCHANGED vars
BY DEF Next, SessionStep, LoopStep

-----------------------------------------------------------------------------
(* Slots.                                                                  *)

LEMMA GuardsFinite == \A s \in Servers : IsFiniteSet(Guards(s))
<1> SUFFICES ASSUME NEW s \in Servers PROVE IsFiniteSet(Guards(s))
  OBVIOUS
<1>1. Guards(s) \subseteq Clients /\ IsFiniteSet(Clients)
  BY ServerAssumption DEF Guards
<1> QED
  BY <1>1, FS_Subset

\* A connection that changes state enters the count or leaves it.
LEMMA GuardsChange ==
  ASSUME TypeOK, NEW s \in Servers, NEW c \in Clients, NEW v,
         conn' = [conn EXCEPT ![s][c] = v]
  PROVE  /\ \A t \in Servers : t # s => Guards(t)' = Guards(t)
         /\ v \in Counted => Guards(s)' = Guards(s) \union {c}
         /\ v \notin Counted => Guards(s)' = Guards(s) \ {c}
<1>1. \A t \in Servers, d \in Clients :
        conn'[t][d] = IF t = s /\ d = c THEN v ELSE conn[t][d]
  BY DEF TypeOK, ConnTypeOK
<1> QED
  BY <1>1 DEF Guards

\* The counts that the guards have after a change of one connection.
LEMMA CountChange ==
  ASSUME TypeOK, ClientsCounted, NEW s \in Servers, NEW c \in Clients, NEW v,
         conn' = [conn EXCEPT ![s][c] = v]
  PROVE  /\ (v \in Counted <=> conn[s][c] \in Counted) /\ UNCHANGED clients
              => ClientsCounted'
         /\ v \in Counted /\ conn[s][c] \notin Counted
              /\ clients' = [clients EXCEPT ![s] = clients[s] + 1] => ClientsCounted'
         /\ v \notin Counted /\ conn[s][c] \in Counted =>
              /\ clients[s] >= 1
              /\ clients' = [clients EXCEPT ![s] = clients[s] - 1] => ClientsCounted'
<1>1. c \in Guards(s) <=> conn[s][c] \in Counted
  BY DEF Guards
<1>2. /\ \A t \in Servers : t # s => Guards(t)' = Guards(t)
      /\ v \in Counted => Guards(s)' = Guards(s) \union {c}
      /\ v \notin Counted => Guards(s)' = Guards(s) \ {c}
  BY GuardsChange
<1>3. clients \in [Servers -> Nat] /\ \A t \in Servers : clients[t] = Cardinality(Guards(t))
  BY ServerAssumption DEF TypeOK, ConnTypeOK, ClientsCounted
<1>4. ASSUME v \in Counted <=> conn[s][c] \in Counted, UNCHANGED clients
      PROVE  ClientsCounted'
  <2>1. \A t \in Servers : Guards(t)' = Guards(t)
    BY <1>1, <1>2, <1>4
  <2> QED
    BY <1>3, <1>4, <2>1 DEF ClientsCounted
<1>5. ASSUME v \in Counted, conn[s][c] \notin Counted,
             clients' = [clients EXCEPT ![s] = clients[s] + 1]
      PROVE  ClientsCounted'
  <2>1. Cardinality(Guards(s)') = Cardinality(Guards(s)) + 1
    BY <1>1, <1>2, <1>5, GuardsFinite, FS_AddElement
  <2> QED
    BY <1>2, <1>3, <1>5, <2>1 DEF ClientsCounted
<1>6. ASSUME v \notin Counted, conn[s][c] \in Counted
      PROVE  /\ clients[s] >= 1
             /\ clients' = [clients EXCEPT ![s] = clients[s] - 1] => ClientsCounted'
  <2>1. Cardinality(Guards(s)') = Cardinality(Guards(s)) - 1
    BY <1>1, <1>2, <1>6, GuardsFinite, FS_RemoveElement
  <2>2. Guards(s) # {} /\ Cardinality(Guards(s)) \in Nat
    BY <1>1, <1>6, GuardsFinite, FS_CardinalityType
  <2>3. Cardinality(Guards(s)) # 0
    BY <2>2, GuardsFinite, FS_EmptySet
  <2> QED
    BY <1>2, <1>3, <2>1, <2>2, <2>3 DEF ClientsCounted
<1> QED
  BY <1>4, <1>5, <1>6

\* A process that ends takes its connections with it.
LEMMA CountExit ==
  ASSUME TypeOK, ClientsCounted, NEW s \in Servers, Exit(s)
  PROVE  ClientsCounted'
<1>1. \A t \in Servers : Guards(t)' = IF t = s THEN {} ELSE Guards(t)
  BY DEF Exit, Guards, Counted, TypeOK, ConnTypeOK
<1>2. Cardinality({}) = 0
  BY FS_EmptySet
<1> QED
  BY <1>1, <1>2 DEF Exit, ClientsCounted, TypeOK, ConnTypeOK

-----------------------------------------------------------------------------
(* What each step does to the connections.                                 *)

\* A session touches the connections only to open one.
LEMMA SessionConns ==
  ASSUME NEW c \in Clients, SessionStep(c)
  PROVE  /\ UNCHANGED clients
         /\ UNCHANGED conn \/ (cpc[c] \in {"probe", "poll"} /\ Connect(c))
BY DEF SessionStep, ClientRun, ClientStep, connVars,
         FirstCall, TakeLock, LockTimeout, Probe, RemoveStale, SpawnServer, DiscoveryError,
         PollConnect, PollExited, Attach, AwaitClosed, PollExpired, AwaitTimeout, FallBack,
         RequestTimeout, EndSession, HangUp, streamVars

\* A server's loop accepts one connection, ends them all, or leaves them alone.
LEMMA LoopConns ==
  ASSUME NEW s \in Servers, LoopStep(s)
  PROVE  \/ UNCHANGED connVars
         \/ Exit(s)
         \/ (\E c \in Clients : AcceptOne(s, c)) /\ spc[s] \in {"accept", "locked"}
BY DEF LoopStep, ServerRun, ServerStep, connVars,
         Bind, Chmod, Identify, WritePid, LoopAccept, NotDue, DecideDue, TryLock, DrainOne,
         StayOn, DecideExit, UnlinkIfOurs, RemovePid, ExitDone, Die, IdleElapses,
         GraceElapses

LEMMA CountStep ==
  ASSUME IInv, [Next]_vars
  PROVE  ClientsCounted'
<1> USE DEF IInv
<1>1. ASSUME NEW c \in Clients, SessionStep(c) PROVE ClientsCounted'
  <2>1. CASE UNCHANGED conn
    BY <1>1, <2>1, SessionConns DEF ClientsCounted, Guards
  <2>2. CASE cpc[c] \in {"probe", "poll"} /\ Connect(c)
    <3>1. sock.owner \in Servers
      BY <2>2, ServerAssumption DEF Connect, Answered, TypeOK, FileTypeOK, Identity
    <3>2. conn[sock.owner][c] = "none"
      BY <2>2, <3>1 DEF Links, Linked
    <3>3. conn' = [conn EXCEPT ![sock.owner][c] = "backlog"] /\ UNCHANGED clients
      BY <1>1, <2>2, SessionConns DEF Connect
    <3>4. "none" \notin Counted /\ "backlog" \notin Counted
      BY DEF Counted
    <3> QED
      BY <3>1, <3>2, <3>3, <3>4, CountChange
  <2> QED
    BY <1>1, <2>1, <2>2, SessionConns
<1>2. ASSUME NEW s \in Servers, LoopStep(s) PROVE ClientsCounted'
  <2>1. CASE UNCHANGED connVars
    BY <2>1 DEF connVars, ClientsCounted, Guards
  <2>2. CASE Exit(s)
    BY <2>2, CountExit
  <2>3. CASE \E c \in Clients : AcceptOne(s, c)
    <3>1. PICK c \in Clients : AcceptOne(s, c)
      BY <2>3
    <3>2. conn[s][c] = "backlog"
      BY <3>1 DEF AcceptOne, Pending
    <3> QED
      BY <3>1, <3>2, CountChange DEF AcceptOne, Counted
  <2> QED
    BY <1>2, <2>1, <2>2, <2>3, LoopConns
<1>3. ASSUME NEW s \in Servers, NEW c \in Clients, ConnThread(s, c) PROVE ClientsCounted'
  BY <1>3, CountChange DEF ConnThread, ServerHandshake, GuardCount, GuardTimer, Counted
<1>4. CASE UNCHANGED vars
  BY <1>4 DEF vars, connVars, ClientsCounted, Guards
<1> QED
  BY <1>1, <1>2, <1>3, <1>4, Actors

-----------------------------------------------------------------------------
(* Types.                                                                  *)

LEMMA OwnerIsServer == TypeOK /\ sock # NoSock => sock.owner \in Servers
BY DEF TypeOK, FileTypeOK, Identity

LEMMA FileTypes ==
  ASSUME TypeOK, [Next]_vars
  PROVE  FileTypeOK'
<1> USE DEF TypeOK, FileTypeOK
<1>1. ASSUME NEW c \in Clients, SessionStep(c) PROVE FileTypeOK'
  BY <1>1 DEF SessionStep, ClientRun, Release, fileVars,
         FirstCall, TakeLock, LockTimeout, Probe, RemoveStale, SpawnServer, DiscoveryError,
         PollConnect, PollExited, Attach, AwaitClosed, PollExpired, AwaitTimeout, FallBack,
         RequestTimeout, EndSession, HangUp, streamVars
<1>2. ASSUME NEW s \in Servers, LoopStep(s) PROVE FileTypeOK'
  <2>1. sock' \in Identity \union {NoSock}
    BY <1>2 DEF LoopStep, ServerRun, Identity, fileVars,
         Bind, Chmod, Identify, WritePid, LoopAccept, NotDue, DecideDue, TryLock, DrainOne,
         StayOn, DecideExit, UnlinkIfOurs, RemovePid, ExitDone, Die, IdleElapses,
         GraceElapses
  <2>2. lock' \in Clients \union Servers \union {NoOne} /\ pidFile' \in Servers \union {NoOne}
    BY <1>2 DEF LoopStep, ServerRun, Release, Exit, fileVars,
         Bind, Chmod, Identify, WritePid, LoopAccept, NotDue, DecideDue, TryLock, DrainOne,
         StayOn, DecideExit, UnlinkIfOurs, RemovePid, ExitDone, Die, IdleElapses,
         GraceElapses
  <2> QED
    BY <2>1, <2>2
<1>3. ASSUME NEW s \in Servers, NEW c \in Clients, ConnThread(s, c) PROVE FileTypeOK'
  BY <1>3 DEF ConnThread, ServerHandshake, GuardCount, GuardTimer, fileVars
<1>4. CASE UNCHANGED vars
  BY <1>4 DEF vars, fileVars
<1> QED
  BY <1>1, <1>2, <1>3, <1>4, Actors

LEMMA ClientTypes ==
  ASSUME TypeOK, [Next]_vars
  PROVE  ClientTypeOK'
<1> USE DEF TypeOK, ClientTypeOK
<1>1. ASSUME NEW c \in Clients, SessionStep(c) PROVE ClientTypeOK'
  <2>1. CASE Probe(c) \/ PollConnect(c)
    <3>1. Connect(c) => sock.owner \in Servers
      BY OwnerIsServer DEF Connect, Answered
    <3> QED
      BY <2>1, <3>1 DEF Connect, Probe, PollConnect, ClientStep, ClientPcs, streamVars
  <2>2. CASE SpawnServer(c)
    BY <2>2 DEF SpawnServer, ClientStep, ClientPcs, streamVars
  <2>3. CASE ~Probe(c) /\ ~PollConnect(c) /\ ~SpawnServer(c)
    BY <1>1, <2>3 DEF SessionStep, ClientRun, ClientStep, ClientPcs,
         FirstCall, TakeLock, LockTimeout, Probe, RemoveStale, SpawnServer, DiscoveryError,
         PollConnect, PollExited, Attach, AwaitClosed, PollExpired, AwaitTimeout, FallBack,
         RequestTimeout, EndSession, HangUp, streamVars
  <2> QED
    BY <2>1, <2>2, <2>3
<1>2. CASE UNCHANGED clientVars
  BY <1>2 DEF clientVars, streamVars
<1>3. ASSUME NEW s \in Servers, LoopStep(s) PROVE UNCHANGED clientVars
  BY <1>3 DEF LoopStep, ServerRun,
         Bind, Chmod, Identify, WritePid, LoopAccept, NotDue, DecideDue, TryLock, DrainOne,
         StayOn, DecideExit, UnlinkIfOurs, RemovePid, ExitDone, Die, IdleElapses,
         GraceElapses
<1>4. ASSUME NEW s \in Servers, NEW c \in Clients, ConnThread(s, c) PROVE ClientTypeOK'
  <2>1. CASE ServerHandshake(s, c)
    BY <2>1 DEF ServerHandshake
  <2>2. CASE GuardCount(s, c) \/ GuardTimer(s, c)
    BY <1>2, <2>2 DEF GuardCount, GuardTimer
  <2> QED
    BY <1>4, <2>1, <2>2 DEF ConnThread
<1> QED
  BY <1>1, <1>2, <1>3, <1>4, Actors DEF vars

LEMMA ConnTypes ==
  ASSUME TypeOK, ClientsCounted, [Next]_vars
  PROVE  ConnTypeOK'
<1> USE DEF TypeOK, ConnTypeOK
<1>1. ASSUME NEW c \in Clients, SessionStep(c) PROVE ConnTypeOK'
  <2>1. CASE UNCHANGED conn
    BY <1>1, <2>1, SessionConns
  <2>2. CASE Connect(c)
    <3>1. conn' = [conn EXCEPT ![sock.owner][c] = "backlog"] /\ UNCHANGED clients
      BY <1>1, <2>2, SessionConns DEF Connect
    <3> QED
      BY <3>1 DEF ConnStates
  <2> QED
    BY <1>1, <2>1, <2>2, SessionConns
<1>2. ASSUME NEW s \in Servers, LoopStep(s) PROVE ConnTypeOK'
  <2>1. CASE UNCHANGED connVars
    BY <2>1 DEF connVars
  <2>2. CASE Exit(s)
    BY <2>2, ServerAssumption DEF Exit, ConnStates
  <2>3. CASE \E c \in Clients : AcceptOne(s, c)
    BY <2>3, ServerAssumption DEF AcceptOne, ConnStates
  <2> QED
    BY <1>2, <2>1, <2>2, <2>3, LoopConns
<1>3. ASSUME NEW s \in Servers, NEW c \in Clients, ConnThread(s, c) PROVE ConnTypeOK'
  <2>1. CASE ServerHandshake(s, c) \/ GuardTimer(s, c)
    BY <2>1 DEF ServerHandshake, GuardTimer, ConnStates
  <2>2. CASE GuardCount(s, c)
    <3>1. /\ conn' = [conn EXCEPT ![s][c] = "resetting"]
          /\ conn[s][c] \in Counted /\ "resetting" \notin Counted
      BY <2>2 DEF GuardCount, Counted
    <3>2. clients[s] >= 1
      BY <3>1, CountChange
    <3> QED
      BY <2>2, <3>2, ServerAssumption DEF GuardCount, ConnStates
  <2> QED
    BY <1>3, <2>1, <2>2 DEF ConnThread
<1>4. CASE UNCHANGED vars
  BY <1>4 DEF vars, connVars
<1> QED
  BY <1>1, <1>2, <1>3, <1>4, Actors

LEMMA ServerTypes ==
  ASSUME TypeOK, [Next]_vars
  PROVE  ServerTypeOK'
<1> USE DEF TypeOK, ServerTypeOK
<1>1. ASSUME NEW c \in Clients, SessionStep(c) PROVE ServerTypeOK'
  BY <1>1 DEF SessionStep, ClientRun, Abandon, ServerPcs, serverVars,
         FirstCall, TakeLock, LockTimeout, Probe, RemoveStale, SpawnServer, DiscoveryError,
         PollConnect, PollExited, Attach, AwaitClosed, PollExpired, AwaitTimeout, FallBack,
         RequestTimeout, EndSession, HangUp, streamVars
<1>2. ASSUME NEW s \in Servers, LoopStep(s) PROVE ServerTypeOK'
  <2>1. spc' \in [Servers -> ServerPcs] /\ abandoned' \subseteq Servers
    BY <1>2 DEF LoopStep, ServerRun, ServerStep, Exit, ServerPcs, serverVars,
         Bind, Chmod, Identify, WritePid, LoopAccept, NotDue, DecideDue, TryLock, DrainOne,
         StayOn, DecideExit, UnlinkIfOurs, RemovePid, ExitDone, Die, IdleElapses,
         GraceElapses
  <2>2. ours' \in [Servers -> Identity \union {NoSock}]
    BY <1>2 DEF LoopStep, ServerRun, Exit, FileTypeOK, serverVars,
         Bind, Chmod, Identify, WritePid, LoopAccept, NotDue, DecideDue, TryLock, DrainOne,
         StayOn, DecideExit, UnlinkIfOurs, RemovePid, ExitDone, Die, IdleElapses,
         GraceElapses
  <2>3. idle' \in [Servers -> BOOLEAN] /\ failed' \in [Servers -> BOOLEAN]
    BY <1>2 DEF LoopStep, ServerRun, AcceptOne, Exit, serverVars,
         Bind, Chmod, Identify, WritePid, LoopAccept, NotDue, DecideDue, TryLock, DrainOne,
         StayOn, DecideExit, UnlinkIfOurs, RemovePid, ExitDone, Die, IdleElapses,
         GraceElapses
  <2>4. exitFor' \in [Servers -> {"idle", "failed"}]
    BY <1>2 DEF LoopStep, ServerRun, PassOver, Exit, serverVars,
         Bind, Chmod, Identify, WritePid, LoopAccept, NotDue, DecideDue, TryLock, DrainOne,
         StayOn, DecideExit, UnlinkIfOurs, RemovePid, ExitDone, Die, IdleElapses,
         GraceElapses
  <2> QED
    BY <2>1, <2>2, <2>3, <2>4
<1>3. ASSUME NEW s \in Servers, NEW c \in Clients, ConnThread(s, c) PROVE ServerTypeOK'
  BY <1>3 DEF ConnThread, ServerHandshake, GuardCount, GuardTimer, serverVars
<1>4. CASE UNCHANGED vars
  BY <1>4 DEF vars, serverVars
<1> QED
  BY <1>1, <1>2, <1>3, <1>4, Actors

-----------------------------------------------------------------------------
(* What each step leaves alone.                                            *)

\* A session moves itself only, and releases no lock but its own.
LEMMA SessionMoves ==
  ASSUME TypeOK, NEW c \in Clients, SessionStep(c)
  PROVE  /\ \A d \in Clients : d # c =>
              /\ cpc'[d] = cpc[d] /\ child'[d] = child[d]
              /\ link'[d] = link[d] /\ reply'[d] = reply[d]
         /\ \A d \in Clients, s \in Servers : d # c => conn'[s][d] = conn[s][d]
         /\ \A p \in Clients \union Servers : p # c /\ lock = p => lock' = p
<1> USE DEF TypeOK, ClientTypeOK
<1>1. \A d \in Clients : d # c =>
        /\ cpc'[d] = cpc[d] /\ child'[d] = child[d]
        /\ link'[d] = link[d] /\ reply'[d] = reply[d]
  BY DEF SessionStep, ClientRun, ClientStep, Connect,
         FirstCall, TakeLock, LockTimeout, Probe, RemoveStale, SpawnServer, DiscoveryError,
         PollConnect, PollExited, Attach, AwaitClosed, PollExpired, AwaitTimeout, FallBack,
         RequestTimeout, EndSession, HangUp, streamVars
<1>2. \A d \in Clients, s \in Servers : d # c => conn'[s][d] = conn[s][d]
  <2>1. CASE UNCHANGED conn
    BY <2>1
  <2>2. CASE conn' = [conn EXCEPT ![sock.owner][c] = "backlog"]
    BY <2>2 DEF ConnTypeOK
  <2> QED
    BY <2>1, <2>2, SessionConns DEF Connect
<1>3. \A p \in Clients \union Servers : p # c /\ lock = p => lock' = p
  BY ServerAssumption DEF SessionStep, ClientRun, Release, fileVars,
         FirstCall, TakeLock, LockTimeout, Probe, RemoveStale, SpawnServer, DiscoveryError,
         PollConnect, PollExited, Attach, AwaitClosed, PollExpired, AwaitTimeout, FallBack,
         RequestTimeout, EndSession, HangUp, streamVars
<1> QED
  BY <1>1, <1>2, <1>3

\* A server moves itself only, comes back from no grave, and releases no lock but
\* its own.
LEMMA LoopMoves ==
  ASSUME TypeOK, NEW s \in Servers, LoopStep(s)
  PROVE  /\ UNCHANGED clientVars /\ UNCHANGED abandoned
         /\ \A t \in Servers : t # s => spc'[t] = spc[t] /\ ours'[t] = ours[t]
         /\ \/ spc[s] \notin {"off", "gone"} /\ spc'[s] \notin {"off", "spawned"}
            \/ spc'[s] = spc[s]
         /\ \A p \in Clients \union Servers : p # s /\ lock = p => lock' = p
<1> USE DEF TypeOK, ServerTypeOK
<1>1. UNCHANGED clientVars /\ UNCHANGED abandoned
  BY DEF LoopStep, ServerRun,
         Bind, Chmod, Identify, WritePid, LoopAccept, NotDue, DecideDue, TryLock, DrainOne,
         StayOn, DecideExit, UnlinkIfOurs, RemovePid, ExitDone, Die, IdleElapses,
         GraceElapses
<1>2. \A t \in Servers : t # s => spc'[t] = spc[t] /\ ours'[t] = ours[t]
  BY DEF LoopStep, ServerRun, ServerStep, Exit,
         Bind, Chmod, Identify, WritePid, LoopAccept, NotDue, DecideDue, TryLock, DrainOne,
         StayOn, DecideExit, UnlinkIfOurs, RemovePid, ExitDone, Die, IdleElapses,
         GraceElapses
<1>3. \/ spc[s] \notin {"off", "gone"} /\ spc'[s] \notin {"off", "spawned"}
      \/ spc'[s] = spc[s]
  BY DEF LoopStep, ServerRun, ServerStep, Exit, InLoop,
         Bind, Chmod, Identify, WritePid, LoopAccept, NotDue, DecideDue, TryLock, DrainOne,
         StayOn, DecideExit, UnlinkIfOurs, RemovePid, ExitDone, Die, IdleElapses,
         GraceElapses
<1>4. \A p \in Clients \union Servers : p # s /\ lock = p => lock' = p
  BY ServerAssumption DEF LoopStep, ServerRun, Release, Exit, fileVars,
         Bind, Chmod, Identify, WritePid, LoopAccept, NotDue, DecideDue, TryLock, DrainOne,
         StayOn, DecideExit, UnlinkIfOurs, RemovePid, ExitDone, Die, IdleElapses,
         GraceElapses
<1> QED
  BY <1>1, <1>2, <1>3, <1>4

\* A connection thread touches its connection, the reply in it, the count and the
\* timer.
LEMMA ConnMoves ==
  ASSUME NEW s \in Servers, NEW c \in Clients, ConnThread(s, c)
  PROVE  UNCHANGED <<fileVars, cpc, link, child, spc, ours, abandoned>>
BY DEF ConnThread, ServerHandshake, GuardCount, GuardTimer, clientVars, streamVars, serverVars

-----------------------------------------------------------------------------
(* The lock.                                                               *)

LEMMA LockStep ==
  ASSUME TypeOK, LockHeld, [Next]_vars
  PROVE  LockHeld'
<1> USE DEF LockHeld
<1>1. ASSUME NEW c \in Clients, SessionStep(c) PROVE LockHeld'
  <2>1. cpc'[c] \in {"probe", "remove", "spawn", "poll", "await"} => lock' = c
    BY <1>1 DEF SessionStep, ClientRun, ClientStep, fileVars, TypeOK, ClientTypeOK,
         FirstCall, TakeLock, LockTimeout, Probe, RemoveStale, SpawnServer, DiscoveryError,
         PollConnect, PollExited, Attach, AwaitClosed, PollExpired, AwaitTimeout, FallBack,
         RequestTimeout, EndSession, HangUp, streamVars
  <2>2. \A s \in Servers : spc'[s] \in {"locked", "unlink", "removePid"} => spc'[s] = spc[s]
    BY <1>1 DEF SessionStep, ClientRun, serverVars, TypeOK, ServerTypeOK,
         FirstCall, TakeLock, LockTimeout, Probe, RemoveStale, SpawnServer, DiscoveryError,
         PollConnect, PollExited, Attach, AwaitClosed, PollExpired, AwaitTimeout, FallBack,
         RequestTimeout, EndSession, HangUp, streamVars
  <2> QED
    BY <1>1, <2>1, <2>2, SessionMoves, ServerAssumption
<1>2. ASSUME NEW s \in Servers, LoopStep(s) PROVE LockHeld'
  <2>1. spc'[s] \in {"locked", "unlink", "removePid"} => lock' = s
    BY <1>2 DEF LoopStep, ServerRun, ServerStep, Exit, fileVars, TypeOK, ServerTypeOK,
         Bind, Chmod, Identify, WritePid, LoopAccept, NotDue, DecideDue, TryLock, DrainOne,
         StayOn, DecideExit, UnlinkIfOurs, RemovePid, ExitDone, Die, IdleElapses,
         GraceElapses
  <2> QED
    BY <1>2, <2>1, LoopMoves, ServerAssumption DEF clientVars
<1>3. ASSUME NEW s \in Servers, NEW c \in Clients, ConnThread(s, c) PROVE LockHeld'
  BY <1>3, ConnMoves DEF fileVars
<1>4. CASE UNCHANGED vars
  BY <1>4 DEF vars, fileVars, clientVars, serverVars
<1> QED
  BY <1>1, <1>2, <1>3, <1>4, Actors

-----------------------------------------------------------------------------
(* Streams.                                                                *)

LEMMA LinkStep ==
  ASSUME IInv, [Next]_vars
  PROVE  Links'
<1> USE DEF IInv, Links
<1>1. ASSUME NEW c \in Clients, SessionStep(c) PROVE Links'
  <2>1. \A s \in Servers : spc[s] = "gone" => spc'[s] = "gone"
    BY <1>1 DEF SessionStep, ClientRun, serverVars, TypeOK, ServerTypeOK,
         FirstCall, TakeLock, LockTimeout, Probe, RemoveStale, SpawnServer, DiscoveryError,
         PollConnect, PollExited, Attach, AwaitClosed, PollExpired, AwaitTimeout, FallBack,
         RequestTimeout, EndSession, HangUp, streamVars
  <2>2. ASSUME NEW d \in Clients, d # c PROVE Linked(d)'
    BY <1>1, <2>1, <2>2, SessionMoves DEF Linked
  <2>3. Linked(c)'
    <3> USE DEF TypeOK, ClientTypeOK, ConnTypeOK, Linked, ClientStep
    <3>1. CASE Probe(c) \/ PollConnect(c)
      <4>1. CASE Connect(c)
        <5>1. sock.owner \in Servers
          BY <4>1, OwnerIsServer DEF Connect, Answered
        <5>2. cpc'[c] = "await" \/ cpc'[c] = "remove"
          BY <3>1 DEF Probe, PollConnect
        <5>3. CASE cpc'[c] = "await"
          BY <3>1, <4>1, <5>1, <5>3 DEF Connect, Probe, PollConnect, Answered
        <5>4. CASE cpc'[c] = "remove"
          BY <3>1, <4>1, <5>1, <5>4 DEF Connect, Probe, PollConnect
        <5> QED
          BY <5>2, <5>3, <5>4
      <4>2. CASE ~Connect(c)
        BY <3>1, <4>2 DEF Probe, PollConnect
      <4> QED
        BY <4>1, <4>2
    <3>2. CASE Attach(c)
      BY <3>2, ServerAssumption DEF Attach, HangUp, connVars, serverVars
    <3>3. CASE AwaitClosed(c)
      BY <3>3, ServerAssumption DEF AwaitClosed, PeerGone, HangUp, connVars
    <3>4. CASE ~Probe(c) /\ ~PollConnect(c) /\ ~Attach(c) /\ ~AwaitClosed(c)
      BY <1>1, <3>4 DEF SessionStep, ClientRun, connVars, serverVars,
           FirstCall, TakeLock, LockTimeout, RemoveStale, SpawnServer, DiscoveryError,
           PollExited, PollExpired, AwaitTimeout, FallBack, RequestTimeout, EndSession,
           HangUp, streamVars
    <3> QED
      BY <3>1, <3>2, <3>3, <3>4
  <2> QED
    BY <2>2, <2>3
<1>2. ASSUME NEW s \in Servers, LoopStep(s) PROVE Links'
  <2>1. UNCHANGED clientVars /\ \A t \in Servers : spc[t] = "gone" => spc'[t] = "gone"
    BY <1>2, LoopMoves
  <2>2. CASE UNCHANGED connVars
    BY <2>1, <2>2 DEF Linked, clientVars, streamVars, connVars
  <2>3. CASE Exit(s)
    <3>1. /\ \A c \in Clients, t \in Servers :
               conn'[t][c] = IF t = s THEN "none" ELSE conn[t][c]
          /\ spc'[s] = "gone"
      BY <2>3 DEF Exit, TypeOK, ConnTypeOK, ServerTypeOK
    <3> QED
      BY <2>1, <3>1 DEF Linked, clientVars, streamVars
  <2>4. CASE spc[s] \in {"accept", "locked"} /\ \E c \in Clients : AcceptOne(s, c)
    <3>1. PICK c \in Clients : AcceptOne(s, c)
      BY <2>4
    <3>2. conn[s][c] = "backlog" /\ spc[s] # "gone"
      BY <2>4, <3>1 DEF AcceptOne, Pending
    <3>3. \A d \in Clients, t \in Servers : t # s \/ d # c => conn'[t][d] = conn[t][d]
      BY <3>1 DEF AcceptOne, TypeOK, ConnTypeOK
    <3> QED
      BY <2>1, <3>2, <3>3 DEF Linked, clientVars, streamVars
  <2> QED
    BY <1>2, <2>2, <2>3, <2>4, LoopConns
<1>3. ASSUME NEW s \in Servers, NEW c \in Clients, ConnThread(s, c) PROVE Links'
  <2>1. UNCHANGED <<cpc, link, spc>>
    BY <1>3, ConnMoves
  <2>2. /\ conn[s][c] # "none" /\ (conn[s][c] = "serving" => link[c] # s)
        /\ \A d \in Clients, t \in Servers : t # s \/ d # c => conn'[t][d] = conn[t][d]
    BY <1>3 DEF ConnThread, ServerHandshake, GuardCount, GuardTimer, Counted, TypeOK, ConnTypeOK
  <2>3. CASE UNCHANGED reply
    BY <2>1, <2>2, <2>3 DEF Linked
  <2>4. CASE reply' # reply
    <3>1. ServerHandshake(s, c)
      BY <1>3, <2>4 DEF ConnThread, GuardCount, GuardTimer, clientVars, streamVars
    <3>2. link[c] = s /\ conn[s][c] = "accepted"
      BY <3>1 DEF ServerHandshake
    <3>3. cpc[c] = "await"
      BY <3>2, ServerAssumption DEF Linked
    <3>4. \A d \in Clients : d # c => reply'[d] = reply[d]
      BY <3>1 DEF ServerHandshake, TypeOK, ClientTypeOK
    <3>5. reply'[c] = "ok" => conn'[s][c] = "serving"
      BY <3>1, <3>2 DEF ServerHandshake, TypeOK, ClientTypeOK, ConnTypeOK, Linked
    <3> QED
      BY <2>1, <2>2, <3>2, <3>3, <3>4, <3>5 DEF Linked
  <2> QED
    BY <2>3, <2>4
<1>4. CASE UNCHANGED vars
  BY <1>4 DEF vars, Linked, clientVars, streamVars, connVars, serverVars
<1> QED
  BY <1>1, <1>2, <1>3, <1>4, Actors

-----------------------------------------------------------------------------
(* One server in service.                                                  *)

\* A session that finds nobody at the path, under the lock, is not overlooking a
\* server that is up or coming.
LEMMA AbsentMeansNone ==
  ASSUME TypeOK, LockHeld, Solo, NEW c \in Clients, cpc[c] = "probe", Absent
  PROVE  \A s \in Servers : ~Coming(s)
<1>1. \A s \in Servers : ~Up(s)
  BY DEF Solo, UpOwnsPath, Absent, Answered, Listening, Up
<1>2. \A s \in Servers : spc[s] # "spawned"
  BY DEF Solo, SpawnedAwaited, LockHeld
<1> QED
  BY <1>1, <1>2 DEF Coming

\* A polling session is answered by its own child.
LEMMA PolledIsUp ==
  ASSUME TypeOK, Solo, NEW c \in Clients, cpc[c] = "poll", Answered
  PROVE  sock.owner = child[c] /\ Up(child[c])
<1>1. sock.owner \in Servers
  BY OwnerIsServer DEF Answered
<1>2. Up(sock.owner)
  BY DEF Answered, Listening, Solo, OwnerUpOrGone, Up
<1> QED
  BY <1>1, <1>2 DEF Solo, NoneBehind, Coming

LEMMA SoloSession ==
  ASSUME IInv, Solo, NEW c \in Clients, SessionStep(c), abandoned' = {}
  PROVE  Solo'
<1> USE DEF IInv
<1>1. CASE SpawnServer(c)
  <2>1. PICK s \in Servers : /\ spc[s] = "off"
                             /\ spc' = [spc EXCEPT ![s] = "spawned"]
                             /\ child' = [child EXCEPT ![c] = s]
    BY <1>1 DEF SpawnServer
  <2>2. cpc[c] = "spawn" /\ cpc' = [cpc EXCEPT ![c] = "poll"]
    BY <1>1 DEF SpawnServer, ClientStep
  <2>3. UNCHANGED <<lock, sock, pidFile, ours>>
    BY <1>1 DEF SpawnServer, fileVars
  <2>4. \A t \in Servers : ~Coming(t)
    BY <2>2 DEF Solo, NoneBehind
  <2>5. \A t \in Servers : spc'[t] = IF t = s THEN "spawned" ELSE spc[t]
    BY <2>1 DEF TypeOK, ServerTypeOK
  <2>6. cpc'[c] = "poll" /\ child'[c] = s
    BY <2>1, <2>2 DEF TypeOK, ClientTypeOK
  <2>7. \A t \in Servers : Up(t)' => Up(t)
    BY <2>5 DEF Up
  <2>8. \A t \in Servers : Coming(t)' => t = s
    BY <2>4, <2>5 DEF Coming, Up
  <2>9. SpawnedAwaited' /\ UpOwnsPath'
    BY <2>4, <2>5, <2>6, <2>7 DEF SpawnedAwaited, UpOwnsPath, Coming
  <2>10. OwnerUpOrGone'
    <3>1. sock # NoSock => spc'[sock.owner] = spc[sock.owner]
      BY <2>1, <2>5, OwnerIsServer DEF Solo, OwnerUpOrGone, Up
    <3> QED
      BY <2>3, <3>1 DEF Solo, OwnerUpOrGone, Up
  <2>11. \A d \in Clients : cpc'[d] \in {"remove", "spawn", "poll"} => d = c
    BY <1>1, <2>2, SessionMoves DEF LockHeld
  <2>12. \A t \in Servers : spc'[t] # "removePid"
    BY <2>2, <2>5, ServerAssumption DEF LockHeld
  <2>13. NoneBehind'
    BY <2>6, <2>8, <2>11, <2>12 DEF NoneBehind
  <2> QED
    BY <2>9, <2>10, <2>13 DEF Solo
<1>2. CASE ~SpawnServer(c)
  <2>1. UNCHANGED <<spc, ours, pidFile>>
    BY <1>2 DEF SessionStep, ClientRun, serverVars, fileVars,
         FirstCall, TakeLock, LockTimeout, Probe, RemoveStale, SpawnServer, DiscoveryError,
         PollConnect, PollExited, Attach, AwaitClosed, PollExpired, AwaitTimeout, FallBack,
         RequestTimeout, EndSession, HangUp, streamVars
  <2>2. \/ UNCHANGED sock
        \/ cpc[c] = "remove" /\ sock' = NoSock
    BY <1>2 DEF SessionStep, ClientRun, ClientStep, fileVars,
         FirstCall, TakeLock, LockTimeout, Probe, RemoveStale, SpawnServer, DiscoveryError,
         PollConnect, PollExited, Attach, AwaitClosed, PollExpired, AwaitTimeout, FallBack,
         RequestTimeout, EndSession, HangUp, streamVars
  <2>3. child' = child /\ \A d \in Clients : d # c => cpc'[d] = cpc[d]
    BY <1>2, SessionMoves DEF SessionStep, ClientRun, clientVars,
         FirstCall, TakeLock, LockTimeout, Probe, RemoveStale, SpawnServer, DiscoveryError,
         PollConnect, PollExited, Attach, AwaitClosed, PollExpired, AwaitTimeout, FallBack,
         RequestTimeout, EndSession, HangUp, streamVars
  <2>4. \A t \in Servers : (Up(t)' <=> Up(t)) /\ (Coming(t)' <=> Coming(t))
    BY <2>1 DEF Up, Coming
  <2>5. cpc[c] = "poll" => cpc'[c] = "poll" \/ spc[child[c]] # "spawned"
    <3>1. CASE PollConnect(c)
      BY <3>1, PolledIsUp DEF PollConnect, ClientStep, Connect, Up
    <3>2. CASE PollExited(c)
      BY <3>2 DEF PollExited
    <3>3. CASE PollExpired(c) \/ EndSession(c)
      BY <3>3 DEF PollExpired, EndSession, Abandon, TypeOK, ClientTypeOK
    <3>4. CASE ~PollConnect(c) /\ ~PollExited(c) /\ ~PollExpired(c) /\ ~EndSession(c)
      BY <3>4 DEF SessionStep, ClientRun, ClientStep,
         FirstCall, TakeLock, LockTimeout, Probe, RemoveStale, SpawnServer, DiscoveryError,
         PollConnect, PollExited, Attach, AwaitClosed, PollExpired, AwaitTimeout, FallBack,
         RequestTimeout, EndSession, HangUp, streamVars
    <3> QED
      BY <3>1, <3>2, <3>3, <3>4
  <2>6. SpawnedAwaited'
    BY <2>1, <2>3, <2>5 DEF Solo, SpawnedAwaited
  <2>7. UpOwnsPath' /\ OwnerUpOrGone'
    <3>1. CASE UNCHANGED sock
      BY <2>1, <2>4, <3>1 DEF Solo, UpOwnsPath, OwnerUpOrGone, Up
    <3>2. CASE cpc[c] = "remove" /\ sock' = NoSock
      BY <2>4, <3>2 DEF Solo, NoneBehind, UpOwnsPath, OwnerUpOrGone, Coming
    <3> QED
      BY <2>2, <3>1, <3>2
  <2>8. cpc'[c] \in {"remove", "spawn"} => \A s \in Servers : ~Coming(s)
    <3>1. CASE Probe(c)
      BY <3>1, AbsentMeansNone DEF Probe, ClientStep, TypeOK, ClientTypeOK, Absent
    <3>2. CASE ~Probe(c)
      BY <1>2, <3>2 DEF SessionStep, ClientRun, ClientStep, TypeOK, ClientTypeOK, Solo, NoneBehind,
         FirstCall, TakeLock, LockTimeout, Probe, RemoveStale, SpawnServer, DiscoveryError,
         PollConnect, PollExited, Attach, AwaitClosed, PollExpired, AwaitTimeout, FallBack,
         RequestTimeout, EndSession, HangUp, streamVars
    <3> QED
      BY <3>1, <3>2
  <2>9. cpc'[c] = "poll" => cpc[c] = "poll"
    BY <1>2 DEF SessionStep, ClientRun, ClientStep, TypeOK, ClientTypeOK,
         FirstCall, TakeLock, LockTimeout, Probe, RemoveStale, SpawnServer, DiscoveryError,
         PollConnect, PollExited, Attach, AwaitClosed, PollExpired, AwaitTimeout, FallBack,
         RequestTimeout, EndSession, HangUp, streamVars
  <2>10. NoneBehind'
    BY <2>1, <2>3, <2>4, <2>8, <2>9 DEF Solo, NoneBehind
  <2> QED
    BY <2>6, <2>7, <2>10 DEF Solo
<1> QED
  BY <1>1, <1>2

\* What a server's step leaves of the facts about who is coming.
LEMMA LoopComing ==
  ASSUME IInv, Solo, NEW s \in Servers, LoopStep(s)
  PROVE  /\ \A t \in Servers : Coming(t)' => Coming(t)
         /\ SpawnedAwaited'
         /\ spc'[s] # "removePid" \/ spc'[s] = spc[s] => NoneBehind'
<1> USE DEF IInv
<1>1. /\ UNCHANGED <<cpc, child>>
      /\ \A t \in Servers : t # s => spc'[t] = spc[t]
  BY LoopMoves DEF clientVars
<1>2. \/ spc[s] \notin {"off", "gone"} /\ spc'[s] \notin {"off", "spawned"}
      \/ spc'[s] = spc[s]
  BY LoopMoves
<1>3. spc[s] \in {"removePid", "exiting"} => spc'[s] \in {"removePid", "exiting", "gone"}
  BY DEF LoopStep, ServerRun, ServerStep, Exit, InLoop, TypeOK, ServerTypeOK,
       Bind, Chmod, Identify, WritePid, LoopAccept, NotDue, DecideDue, TryLock, DrainOne,
       StayOn, DecideExit, UnlinkIfOurs, RemovePid, ExitDone, Die, IdleElapses,
       GraceElapses
<1>4. spc[s] \in ServerPcs
  BY DEF TypeOK, ServerTypeOK
<1>5. Coming(s)' => Coming(s)
  BY <1>2, <1>3, <1>4 DEF Coming, Up, ServerPcs
<1>6. \A t \in Servers : Coming(t)' => Coming(t)
  BY <1>1, <1>5 DEF Coming, Up
<1>7. SpawnedAwaited'
  BY <1>1, <1>2 DEF Solo, SpawnedAwaited
<1>8. spc'[s] # "removePid" \/ spc'[s] = spc[s] => NoneBehind'
  BY <1>1, <1>6 DEF Solo, NoneBehind
<1> QED
  BY <1>6, <1>7, <1>8

\* A server's step keeps the path with the server that is up.
LEMMA SoloLoop ==
  ASSUME IInv, Solo, NEW s \in Servers, LoopStep(s)
  PROVE  Solo'
<1> USE DEF IInv
<1>1. \A t \in Servers : t # s => spc'[t] = spc[t] /\ ours'[t] = ours[t]
  BY LoopMoves
<1>2. /\ sock # NoSock => sock.owner \in Servers
      /\ spc \in [Servers -> ServerPcs] /\ ours \in [Servers -> Identity \union {NoSock}]
      /\ sock \in Identity \union {NoSock}
  BY OwnerIsServer DEF TypeOK, FileTypeOK, ServerTypeOK
<1>3. \A t \in Servers : Up(t) => sock # NoSock /\ sock.owner = t
  BY DEF Solo, UpOwnsPath
<1> DEFINE Kept == spc'[s] # "removePid" \/ spc'[s] = spc[s]
<1>4. ASSUME Kept, UpOwnsPath', OwnerUpOrGone' PROVE Solo'
  BY <1>4, LoopComing DEF Solo
\* Steps of the loop, and the decision to remove the files.
<1>5. CASE /\ UNCHANGED <<sock, pidFile, ours>>
           /\ InLoop(s) /\ spc'[s] \in {"accept", "check", "tryLock", "locked", "unlink"}
  <2>1. \A t \in Servers : Up(t)' => Up(t)
    BY <1>1, <1>5 DEF Up, InLoop
  <2>2. UpOwnsPath'
    BY <1>1, <1>5, <2>1 DEF Solo, UpOwnsPath, InLoop
  <2>3. OwnerUpOrGone'
    BY <1>1, <1>2, <1>5 DEF Solo, OwnerUpOrGone, Up
  <2> QED
    BY <1>4, <1>5, <2>2, <2>3
\* Ends of the process.
<1>6. CASE UNCHANGED <<sock, pidFile>> /\ spc' = [spc EXCEPT ![s] = "gone"]
  <2>1. spc'[s] = "gone"
    BY <1>2, <1>6
  <2>2. UpOwnsPath'
    BY <1>1, <1>6, <2>1 DEF Solo, UpOwnsPath, Up
  <2>3. OwnerUpOrGone'
    BY <1>1, <1>2, <1>6, <2>1 DEF Solo, OwnerUpOrGone, Up
  <2> QED
    BY <1>4, <2>1, <2>2, <2>3
\* Start-up.
<1>7. CASE Bind(s) /\ spc'[s] = "bound"
  <2>1. sock = NoSock /\ sock' = [owner |-> s, mode |-> NoOne]
    BY <1>2, <1>7 DEF Bind, ServerStep
  <2>2. sock' # NoSock /\ sock'.owner = s
    BY <2>1, ServerAssumption
  <2>3. \A t \in Servers : Up(t)' => t = s
    BY <1>1, <1>3, <2>1 DEF Up
  <2>4. UpOwnsPath'
    BY <1>7, <2>2, <2>3 DEF UpOwnsPath
  <2>5. OwnerUpOrGone'
    BY <1>7, <2>2 DEF OwnerUpOrGone, Up
  <2> QED
    BY <1>4, <1>7, <2>4, <2>5
<1>8. CASE (Chmod(s) /\ spc'[s] = "chmodded") \/ (Identify(s) /\ spc'[s] = "identified")
           \/ WritePid(s)
  <2>1. Up(s) /\ sock # NoSock /\ sock.owner = s
    BY <1>3, <1>8 DEF Chmod, Identify, WritePid, ServerStep, Up
  <2>2. \A t \in Servers : Up(t)' => t = s
    BY <1>1, <1>3, <2>1 DEF Up
  <2>3. sock' # NoSock /\ sock'.owner = s
    BY <1>2, <1>8, <2>1, ServerAssumption DEF Chmod, Identify, WritePid, Exit, Identity
  <2>4. Up(s)' /\ Kept
    BY <1>2, <1>8 DEF WritePid, ServerStep, Up
  <2>5. UpOwnsPath'
    <3>1. CASE Chmod(s) /\ spc'[s] = "chmodded"
      BY <2>2, <2>3, <3>1 DEF UpOwnsPath
    <3>2. CASE Identify(s) /\ spc'[s] = "identified"
      BY <1>2, <2>2, <2>3, <3>2 DEF UpOwnsPath, Identify, Exit
    <3>3. CASE WritePid(s)
      BY <1>2, <2>1, <2>2, <2>3, <3>3 DEF Solo, UpOwnsPath, WritePid, ServerStep
    <3> QED
      BY <1>8, <3>1, <3>2, <3>3
  <2>6. OwnerUpOrGone'
    BY <2>3, <2>4 DEF OwnerUpOrGone, Up
  <2> QED
    BY <1>4, <2>4, <2>5, <2>6
\* Retirement: it holds the lock, so no session waits for a child to come up.
<1>9. CASE UnlinkIfOurs(s)
  <2>1. spc[s] = "unlink" /\ spc'[s] = "removePid" /\ lock = s
    BY <1>2, <1>9 DEF UnlinkIfOurs, ServerStep, LockHeld
  <2>2. sock = ours[s] /\ sock.owner = s
    BY <2>1 DEF Solo, UpOwnsPath, Up
  <2>3. sock' = NoSock
    BY <1>9, <2>2 DEF UnlinkIfOurs
  <2>4. \A t \in Servers : ~Up(t)'
    BY <1>1, <1>3, <2>1, <2>2 DEF Up
  <2>5. \A c \in Clients : cpc[c] \notin {"remove", "spawn", "poll"}
    BY <2>1, ServerAssumption DEF LockHeld
  <2>6. \A t \in Servers : spc'[t] # "spawned"
    BY <1>1, <2>1, <2>5 DEF Solo, SpawnedAwaited
  <2>7. \A t \in Servers : ~Coming(t)'
    BY <2>4, <2>6 DEF Coming, Up
  <2>8. UpOwnsPath' /\ OwnerUpOrGone' /\ NoneBehind'
    BY <2>3, <2>4, <2>7 DEF UpOwnsPath, OwnerUpOrGone, NoneBehind
  <2> QED
    BY <2>8, LoopComing DEF Solo
<1>10. CASE RemovePid(s)
  <2>1. spc[s] = "removePid" /\ spc'[s] = "exiting" /\ UNCHANGED sock
    BY <1>2, <1>10 DEF RemovePid, ServerStep
  <2>2. \A t \in Servers : ~Up(t)
    BY <2>1 DEF Solo, NoneBehind, Coming
  <2>3. \A t \in Servers : ~Up(t)'
    BY <1>1, <2>1, <2>2 DEF Up
  <2>4. UpOwnsPath'
    BY <2>3 DEF UpOwnsPath
  <2>5. OwnerUpOrGone'
    BY <1>1, <1>2, <2>1, <2>2 DEF Solo, OwnerUpOrGone, Up
  <2> QED
    BY <1>4, <2>1, <2>4, <2>5
\* A server in the loop still owns the pid file: it never leaves its files behind.
<1>11. ASSUME DecideExit(s) PROVE spc'[s] = "unlink"
  BY <1>2, <1>11 DEF DecideExit, ServerStep, Solo, UpOwnsPath, Up
<1>12. \/ /\ UNCHANGED <<sock, pidFile, ours>>
          /\ InLoop(s) /\ spc'[s] \in {"accept", "check", "tryLock", "locked", "unlink"}
       \/ UNCHANGED <<sock, pidFile>> /\ spc' = [spc EXCEPT ![s] = "gone"]
       \/ Bind(s) /\ spc'[s] = "bound"
       \/ Chmod(s) /\ spc'[s] = "chmodded"
       \/ Identify(s) /\ spc'[s] = "identified"
       \/ WritePid(s) \/ UnlinkIfOurs(s) \/ RemovePid(s)
  <2>1. CASE Bind(s)
    BY <1>2, <2>1 DEF Bind, ServerStep
  <2>2. CASE Chmod(s)
    <3>1. spc'[s] = "chmodded" \/ (UNCHANGED <<sock, pidFile>> /\ Exit(s))
      BY <1>2, <2>2 DEF Chmod, ServerStep
    <3> QED
      BY <2>2, <3>1 DEF Exit
  <2>3. CASE Identify(s)
    BY <1>2, <2>3 DEF Identify, ServerStep, Exit
  <2>4. CASE LoopAccept(s) \/ NotDue(s) \/ DecideDue(s) \/ TryLock(s) \/ StayOn(s)
    BY <1>2, <2>4 DEF LoopAccept, NotDue, DecideDue, TryLock, StayOn, ServerStep, InLoop, fileVars
  <2>5. CASE DrainOne(s) \/ IdleElapses(s) \/ GraceElapses(s)
    BY <1>2, <2>5 DEF DrainOne, IdleElapses, GraceElapses, InLoop, fileVars
  <2>6. CASE DecideExit(s)
    BY <1>11, <2>6 DEF DecideExit, ServerStep, InLoop
  <2>7. CASE ExitDone(s) \/ Die(s)
    BY <2>7 DEF ExitDone, Die, Exit
  <2> QED
    BY <2>1, <2>2, <2>3, <2>4, <2>5, <2>6, <2>7 DEF LoopStep, ServerRun
<1> QED
  BY <1>5, <1>6, <1>7, <1>8, <1>9, <1>10, <1>12

LEMMA SoloStep ==
  ASSUME IInv, abandoned = {} => Solo, [Next]_vars
  PROVE  abandoned' = {} => Solo'
<1>1. ASSUME NEW c \in Clients, SessionStep(c), abandoned' = {} PROVE Solo'
  <2>1. abandoned \subseteq abandoned'
    BY <1>1 DEF SessionStep, ClientRun, Abandon,
         FirstCall, TakeLock, LockTimeout, Probe, RemoveStale, SpawnServer, DiscoveryError,
         PollConnect, PollExited, Attach, AwaitClosed, PollExpired, AwaitTimeout, FallBack,
         RequestTimeout, EndSession, HangUp, streamVars
  <2> QED
    BY <1>1, <2>1, SoloSession
<1>2. ASSUME NEW s \in Servers, LoopStep(s), abandoned' = {} PROVE Solo'
  <2>1. UNCHANGED abandoned
    BY <1>2, LoopMoves DEF IInv
  <2> QED
    BY <1>2, <2>1, SoloLoop
<1>3. ASSUME UNCHANGED <<fileVars, cpc, child, spc, ours, abandoned>>
      PROVE  abandoned' = {} => Solo'
  BY <1>3 DEF fileVars, Solo, SpawnedAwaited, UpOwnsPath, OwnerUpOrGone,
       NoneBehind, Coming, Up
<1>4. ASSUME NEW s \in Servers, NEW c \in Clients, ConnThread(s, c)
      PROVE  abandoned' = {} => Solo'
  BY <1>3, <1>4, ConnMoves
<1>5. CASE UNCHANGED vars
  BY <1>3, <1>5 DEF vars, clientVars, serverVars
<1> QED
  BY <1>1, <1>2, <1>4, <1>5, Actors

-----------------------------------------------------------------------------
(* The invariant and what follows from it.                                 *)

LEMMA InitIInv == Init => IInv
<1> SUFFICES ASSUME Init PROVE IInv
  OBVIOUS
<1> USE DEF Init
<1>1. TypeOK
  BY ServerAssumption DEF TypeOK, FileTypeOK, ClientTypeOK, ConnTypeOK, ServerTypeOK,
       ClientPcs, ServerPcs, ConnStates, Identity
<1>2. ClientsCounted
  <2>1. \A s \in Servers : Guards(s) = {}
    BY DEF Guards, Counted
  <2> QED
    BY <2>1, FS_EmptySet DEF ClientsCounted
<1>3. LockHeld /\ Links
  BY DEF LockHeld, Links, Linked
<1>4. Solo
  BY DEF Solo, SpawnedAwaited, UpOwnsPath, OwnerUpOrGone, NoneBehind, Coming, Up
<1> QED
  BY <1>1, <1>2, <1>3, <1>4 DEF IInv

LEMMA NextIInv == IInv /\ [Next]_vars => IInv'
<1> SUFFICES ASSUME IInv, [Next]_vars PROVE IInv'
  OBVIOUS
<1>1. TypeOK'
  BY FileTypes, ClientTypes, ConnTypes, ServerTypes DEF IInv, TypeOK
<1>2. ClientsCounted'
  BY CountStep
<1>3. LockHeld' /\ Links'
  BY LockStep, LinkStep DEF IInv
<1>4. abandoned' = {} => Solo'
  BY SoloStep DEF IInv
<1> QED
  BY <1>1, <1>2, <1>3, <1>4 DEF IInv

\* The inductive invariant holds in every reachable state.
THEOREM Invariance == Spec => []IInv
BY InitIInv, NextIInv, PTL DEF Spec

\* Every variable keeps its shape, and no server's count passes its cap: accept_one
\* checks the cap before it counts, and a guard leaves the count once.
THEOREM TypeCorrect == Spec => []TypeOK
<1>1. IInv => TypeOK
  BY DEF IInv
<1> QED
  BY <1>1, Invariance, PTL

\* The count an idle exit is decided on is the number of live ClientGuards, whatever
\* sessions are rejected, time out, hang up or are killed.
THEOREM SlotsNeverLeak == Spec => []ClientsCounted
<1>1. IInv => ClientsCounted
  BY DEF IInv
<1> QED
  BY <1>1, Invariance, PTL

\* As long as every spawner holds the lock until its child has bound, one server at
\* most is in service, and the socket path and the pid file name it.
THEOREM OneServerInService == Spec => []OneServerUnlessAbandoned
<1>1. IInv => OneServerUnlessAbandoned
  <2> SUFFICES ASSUME IInv, abandoned = {}
               PROVE  /\ OneServer
                      /\ \A s \in Servers : InLoop(s) =>
                           pidFile = s /\ sock = ours[s] /\ sock.owner = s
    BY DEF OneServerUnlessAbandoned
  <2>1. \A s \in Servers : InLoop(s) => pidFile = s /\ sock = ours[s] /\ sock.owner = s
    BY DEF IInv, Solo, UpOwnsPath, Up, InLoop
  <2>2. OneServer
    BY <2>1 DEF OneServer
  <2> QED
    BY <2>1, <2>2
<1> QED
  BY <1>1, Invariance, PTL

\* A server that exits for being idle has no session attached and none waiting for
\* its handshake: a waiting session holds the lock, and an attached one is counted.
THEOREM NobodyStranded == Spec => IdleExitStrandsNobody
<1>1. ASSUME IInv, [Next]_vars
      PROVE  \A s \in Servers : IdleExits(s) => \A c \in Clients : link[c] # s
  <2> SUFFICES ASSUME NEW s \in Servers, IdleExits(s), NEW c \in Clients, link[c] = s
               PROVE  FALSE
    OBVIOUS
  <2>1. clients[s] = 0
    <3>1. spc[s] = "locked" /\ spc'[s] # spc[s] /\ spc'[s] # "gone" /\ exitFor[s] = "idle"
      BY DEF IdleExits
    <3>2. LoopStep(s)
      <4>1. ASSUME NEW d \in Clients, SessionStep(d) PROVE FALSE
        BY <1>1, <3>1, <4>1 DEF SessionStep, ClientRun, serverVars, IInv, TypeOK, ServerTypeOK,
             FirstCall, TakeLock, LockTimeout, Probe, RemoveStale, SpawnServer, DiscoveryError,
             PollConnect, PollExited, Attach, AwaitClosed, PollExpired, AwaitTimeout,
             FallBack, RequestTimeout, EndSession, HangUp, streamVars
      <4>2. ASSUME NEW t \in Servers, LoopStep(t), t # s PROVE FALSE
        BY <1>1, <3>1, <4>2, LoopMoves DEF IInv
      <4>3. ASSUME NEW t \in Servers, NEW d \in Clients, ConnThread(t, d) PROVE FALSE
        BY <3>1, <4>3, ConnMoves
      <4>4. ~(UNCHANGED vars)
        BY <3>1 DEF vars, serverVars
      <4> QED
        BY <1>1, <4>1, <4>2, <4>3, <4>4, Actors
    <3>3. DecideExit(s)
      BY <1>1, <3>1, <3>2 DEF LoopStep, ServerRun, ServerStep, Exit, InLoop, IInv, TypeOK,
           ServerTypeOK, IdleExits,
           Bind, Chmod, Identify, WritePid, LoopAccept, NotDue, DecideDue, TryLock, DrainOne,
           StayOn, UnlinkIfOurs, RemovePid, ExitDone, Die, IdleElapses, GraceElapses
    <3> QED
      BY <3>1, <3>3 DEF DecideExit
  <2>2. Guards(s) = {}
    <3>1. Cardinality(Guards(s)) = 0
      BY <1>1, <2>1 DEF IInv, ClientsCounted
    <3> QED
      BY <3>1, GuardsFinite, FS_EmptySet
  <2>3. cpc[c] \in {"await", "attached"}
    BY <1>1, ServerAssumption DEF IInv, Links, Linked
  <2>4. cpc[c] # "await"
    BY <1>1, ServerAssumption DEF IInv, LockHeld, IdleExits
  <2>5. conn[s][c] = "serving"
    BY <1>1, <2>3, <2>4 DEF IInv, Links, Linked, IdleExits
  <2> QED
    BY <2>2, <2>5 DEF Guards, Counted
<1> QED
  BY <1>1, Invariance, PTL DEF Spec, IdleExitStrandsNobody

=============================================================================
