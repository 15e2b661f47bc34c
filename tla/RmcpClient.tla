----------------------------- MODULE RmcpClient -----------------------------
(***************************************************************************)
(* RmcpCxpakClient (src/client.rs): concurrent calls over one child        *)
(* `cxpak serve --mcp`, spawned when a call finds no connection.           *)
(*                                                                         *)
(* A call holds the asynchronous mutex over the connection while it spawns *)
(* and shakes hands, and lets go of it before it sends.  A call that fails *)
(* takes the mutex again and removes the connection it used, if it is      *)
(* still there; SpawnBackoff counts the children in a row that never       *)
(* served a call.  The future of a call can be dropped at every await.     *)
(***************************************************************************)
EXTENDS Naturals, FiniteSets

CONSTANTS
  Callers,     \* tasks that call, one call at a time
  MaxStrikes,  \* 3 in RmcpCxpakClient::new
  MaxSpawns,   \* bound: attempts to spawn a child
  MaxPolls     \* sends of one call that fit in INDEX_WARM_BUDGET

ASSUME ClientAssumption ==
  MaxStrikes \in Nat \ {0} /\ MaxSpawns \in Nat \ {0} /\ MaxPolls \in Nat \ {0}

Attempts == 1..MaxSpawns

VARIABLES
  conn,     \* the connection's attempt number; 0: None
  strikes,  \* SpawnBackoff.consecutive
  closed,   \* the client was dropped
  spawned,  \* attempts so far
  child,    \* none, up, closing (its stdin was closed), dead
  served,   \* the served_one flag of each connection
  pc,       \* what each task is at
  gen,      \* the connection it sends on, or shakes hands with
  polls,    \* sends of its call so far
  reply,    \* the answer on its way to it: none, indexing, text, json
  exits,    \* history: attempts recorded in the back-off, and how often
  some      \* history: attempts that a call got its value from

call == <<pc, gen, polls, reply>>
vars == <<conn, strikes, closed, spawned, child, served, call, exits, some>>

Init ==
  /\ conn = 0 /\ strikes = 0 /\ closed = FALSE /\ spawned = 0
  /\ child = [n \in Attempts |-> "none"]
  /\ served = [n \in Attempts |-> FALSE]
  /\ pc = [p \in Callers |-> "idle"] /\ gen = [p \in Callers |-> 0]
  /\ polls = [p \in Callers |-> 0] /\ reply = [p \in Callers |-> "none"]
  /\ exits = [n \in Attempts |-> 0] /\ some = {}

-----------------------------------------------------------------------------
\* The mutex is held over an await by who shakes hands, and by nobody else.
Unlocked == \A p \in Callers : pc[p] # "handshake"

Moves(p, from, to) == pc[p] = from /\ pc' = [pc EXCEPT ![p] = to]

\* The call returns.
Returns(p, from) ==
  /\ Moves(p, from, "idle")
  /\ gen' = [gen EXCEPT ![p] = 0] /\ polls' = [polls EXCEPT ![p] = 0]
  /\ reply' = [reply EXCEPT ![p] = "none"]

MaySpawn == strikes < MaxStrikes

\* SpawnBackoff::record_exit
RecordExit(n, didServe) ==
  /\ strikes' = IF didServe THEN 0 ELSE strikes + 1
  /\ exits' = [exits EXCEPT ![n] = @ + 1]

Killed(n) == child' = [child EXCEPT ![n] = "dead"]

-----------------------------------------------------------------------------
(* Phase 1: a connection.                                                  *)

Enter(p) ==
  /\ ~closed /\ Moves(p, "idle", "lock")
  /\ UNCHANGED <<conn, strikes, closed, spawned, child, served, gen, polls, reply, exits, some>>

\* There is a connection: clone its peer and let go.
UseConn(p) ==
  /\ Unlocked /\ conn # 0
  /\ Moves(p, "lock", "send") /\ gen' = [gen EXCEPT ![p] = conn]
  /\ UNCHANGED <<conn, strikes, closed, spawned, child, served, polls, reply, exits, some>>

GiveUp(p) ==
  /\ Unlocked /\ conn = 0 /\ ~MaySpawn /\ Returns(p, "lock")
  /\ UNCHANGED <<conn, strikes, closed, spawned, child, served, exits, some>>

\* cxpak is not there, or has ended before its pid was read.
SpawnFail(p) ==
  /\ Unlocked /\ conn = 0 /\ MaySpawn /\ spawned < MaxSpawns
  /\ Returns(p, "lock")
  /\ spawned' = spawned + 1 /\ RecordExit(spawned', FALSE)
  /\ UNCHANGED <<conn, closed, child, served, some>>

\* Mutant: the back-off is not asked.
SpawnAlways(p) ==
  /\ Unlocked /\ conn = 0 /\ spawned < MaxSpawns
  /\ Moves(p, "lock", "handshake")
  /\ spawned' = spawned + 1 /\ gen' = [gen EXCEPT ![p] = spawned']
  /\ child' = [child EXCEPT ![spawned'] = "up"]
  /\ UNCHANGED <<conn, strikes, closed, served, polls, reply, exits, some>>

Spawn(p) ==
  /\ Unlocked /\ conn = 0 /\ MaySpawn /\ spawned < MaxSpawns
  /\ Moves(p, "lock", "handshake")
  /\ spawned' = spawned + 1 /\ gen' = [gen EXCEPT ![p] = spawned']
  /\ child' = [child EXCEPT ![spawned'] = "up"]
  /\ UNCHANGED <<conn, strikes, closed, served, polls, reply, exits, some>>

HandshakeDone(p) ==
  /\ Moves(p, "handshake", "send") /\ child[gen[p]] = "up"
  /\ conn' = gen[p]
  /\ UNCHANGED <<strikes, closed, spawned, child, served, gen, polls, reply, exits, some>>

\* Mutant: an answer is waited for, however long it takes.
HandshakeFailDead(p) ==
  /\ Returns(p, "handshake") /\ child[gen[p]] # "up"
  /\ Killed(gen[p]) /\ RecordExit(gen[p], FALSE)
  /\ UNCHANGED <<conn, closed, spawned, served, some>>

\* Mutant: the child is left to itself.
HandshakeFailLeaks(p) ==
  /\ Returns(p, "handshake") /\ RecordExit(gen[p], FALSE)
  /\ UNCHANGED <<conn, closed, spawned, child, served, some>>

\* It ended, answered something else, or HANDSHAKE_TIMEOUT went by.
HandshakeFail(p) ==
  /\ Returns(p, "handshake")
  /\ Killed(gen[p]) /\ RecordExit(gen[p], FALSE)
  /\ UNCHANGED <<conn, closed, spawned, served, some>>

-----------------------------------------------------------------------------
(* Phase 2: the tool call, without the mutex.                              *)

Send(p) ==
  /\ Moves(p, "send", "wait") /\ polls' = [polls EXCEPT ![p] = @ + 1]
  /\ UNCHANGED <<conn, strikes, closed, spawned, child, served, gen, reply, exits, some>>

\* The build in the child is under way: ask again, within the budget.
\* (The sleep between two polls is part of "send".)
ReceiveIndexing(p) ==
  /\ reply[p] = "indexing"
  /\ \/ polls[p] < MaxPolls /\ Moves(p, "wait", "send")
        /\ reply' = [reply EXCEPT ![p] = "none"] /\ UNCHANGED <<gen, polls>>
     \/ Returns(p, "wait")
  /\ UNCHANGED <<conn, strikes, closed, spawned, child, served, exits, some>>

\* Not JSON, or no text at all: no value, and nothing is recorded.
ReceiveText(p) ==
  /\ reply[p] = "text" /\ Returns(p, "wait")
  /\ UNCHANGED <<conn, strikes, closed, spawned, child, served, exits, some>>

\* A value.
ReceiveJson(p) ==
  /\ reply[p] = "json" /\ Moves(p, "wait", "parsed")
  /\ UNCHANGED <<conn, strikes, closed, spawned, child, served, gen, polls, reply, exits, some>>

\* Mutant: the call returns its value and leaves the flag as it was.
StoreNothing(p) ==
  /\ Returns(p, "parsed") /\ some' = some \union {gen[p]}
  /\ UNCHANGED <<conn, strikes, closed, spawned, child, served, exits>>

\* The flag is set without the mutex: the connection may be gone by now.
StoreServed(p) ==
  /\ Returns(p, "parsed") /\ some' = some \union {gen[p]}
  /\ served' = [served EXCEPT ![gen[p]] = TRUE]
  /\ UNCHANGED <<conn, strikes, closed, spawned, child, exits>>

\* A transport error, or no answer within the call's time.
CallFail(p) ==
  /\ Moves(p, "wait", "evict") /\ reply' = [reply EXCEPT ![p] = "none"]
  /\ UNCHANGED <<conn, strikes, closed, spawned, child, served, gen, polls, exits, some>>

\* Mutant: whatever connection is there is taken for the broken one.
EvictAny(p) ==
  /\ Unlocked /\ Returns(p, "evict")
  /\ IF conn # 0
     THEN /\ conn' = 0 /\ Killed(conn) /\ RecordExit(conn, served[conn])
     ELSE UNCHANGED <<conn, child, strikes, exits>>
  /\ UNCHANGED <<closed, spawned, served, some>>

\* Mutant: each call that fails is a strike.
EvictEach(p) ==
  /\ Unlocked /\ Returns(p, "evict")
  /\ conn' = IF conn = gen[p] THEN 0 ELSE conn
  /\ Killed(gen[p]) /\ RecordExit(gen[p], served[gen[p]])
  /\ UNCHANGED <<closed, spawned, served, some>>

\* The first call to report its connection broken removes it.
Evict(p) ==
  /\ Unlocked /\ Returns(p, "evict")
  /\ IF conn = gen[p]
     THEN /\ conn' = 0 /\ Killed(conn) /\ RecordExit(conn, served[conn])
     ELSE UNCHANGED <<conn, child, strikes, exits>>
  /\ UNCHANGED <<closed, spawned, served, some>>

\* The caller drops the future.  A transport that shakes hands goes with it,
\* and its child reads the end of its input.
Cancel(p) ==
  /\ pc[p] \in {"lock", "handshake", "send", "wait", "evict"} /\ Returns(p, pc[p])
  /\ child' = IF pc[p] = "handshake" /\ child[gen[p]] = "up"
              THEN [child EXCEPT ![gen[p]] = "closing"] ELSE child
  /\ UNCHANGED <<conn, strikes, closed, spawned, served, exits, some>>

\* Drop: nobody can be in a call, which borrows the client.
Close ==
  /\ ~closed /\ closed' = TRUE /\ \A p \in Callers : pc[p] = "idle"
  /\ conn' = 0
  /\ child' = IF conn # 0 THEN [child EXCEPT ![conn] = "dead"] ELSE child
  /\ UNCHANGED <<strikes, spawned, served, call, exits, some>>

-----------------------------------------------------------------------------
(* The child.                                                              *)

\* It answers a call that waits.
ChildAnswers(p) ==
  /\ pc[p] = "wait" /\ reply[p] = "none" /\ child[gen[p]] = "up"
  /\ \E r \in {"indexing", "text", "json"} : reply' = [reply EXCEPT ![p] = r]
  /\ UNCHANGED <<conn, strikes, closed, spawned, child, served, pc, gen, polls, exits, some>>

\* It ends: crashed, killed by someone else, or at the end of its input.
ChildEnds(n) ==
  /\ child[n] \in {"up", "closing"} /\ child' = [child EXCEPT ![n] = "dead"]
  /\ UNCHANGED <<conn, strikes, closed, spawned, served, call, exits, some>>

-----------------------------------------------------------------------------
\* What a call does by itself, or a timer does for it; shaking hands is up
\* to the child.
Runs(p) ==
  \/ UseConn(p) \/ GiveUp(p) \/ SpawnFail(p) \/ Spawn(p) \/ HandshakeFail(p)
  \/ Send(p) \/ ReceiveIndexing(p) \/ ReceiveText(p) \/ ReceiveJson(p) \/ StoreServed(p)
  \/ CallFail(p) \/ Evict(p)

Next ==
  \/ \E p \in Callers : Enter(p) \/ Runs(p) \/ HandshakeDone(p) \/ ChildAnswers(p) \/ Cancel(p)
  \/ \E n \in Attempts : ChildEnds(n)
  \/ Close

Spec == Init /\ [][Next]_vars

\* Tasks are run, timers go off, the mutex is fair (tokio's is), and a child
\* ends at the end of its input.
FairSpec ==
  /\ Spec
  /\ \A p \in Callers : /\ WF_vars(Runs(p) /\ pc[p] \notin {"lock", "evict"})
                       /\ SF_vars(Runs(p) /\ pc[p] \in {"lock", "evict"})
  /\ \A n \in Attempts : WF_vars(ChildEnds(n) /\ child[n] = "closing")

-----------------------------------------------------------------------------
(* Properties.                                                             *)

TypeOK ==
  /\ conn \in 0..MaxSpawns /\ spawned \in 0..MaxSpawns /\ closed \in BOOLEAN
  /\ strikes \in 0..MaxStrikes
  /\ child \in [Attempts -> {"none", "up", "closing", "dead"}]
  /\ served \in [Attempts -> BOOLEAN]
  /\ pc \in [Callers -> {"idle", "lock", "handshake", "send", "wait", "parsed", "evict"}]
  /\ gen \in [Callers -> 0..MaxSpawns] /\ polls \in [Callers -> 0..MaxPolls]
  /\ reply \in [Callers -> {"none", "indexing", "text", "json"}]
  /\ exits \in [Attempts -> 0..2] /\ some \subseteq Attempts

\* No child is left running that no connection and no handshake owns, through
\* failed handshakes, evictions, dropped futures and the drop of the client.
NoChildLeft ==
  \A n \in Attempts : child[n] = "up" =>
     conn = n \/ \E p \in Callers : (pc[p] = "handshake" /\ gen[p] = n)

\* However many calls fail on one child, it is counted once.
CountedOnce == \A n \in Attempts : exits[n] <= 1

\* The exit of a child that a call has had a value from is never a strike.
ServedIsNoStrike == [][strikes' > strikes => conn \notin some]_vars

\* A late failure removes no newer connection: one that is removed has failed
\* a call that used it, or the client is dropped.
NewerConnStays ==
  [][\A n \in Attempts : conn = n /\ conn' # n =>
        closed' \/ \E p \in Callers : pc[p] = "evict" /\ gen[p] = n /\ pc'[p] = "idle"]_vars

\* To who looks at the child in use only, the calls are one client after another:
\* one child in use at a time (one that was given up may still be ending), one
\* strike per child at most, none for a child that served, and no start after the
\* last strike.
ChildNow ==
  IF closed THEN "closed"
  ELSE IF \E p \in Callers : pc[p] = "handshake" THEN "starting"
  ELSE IF conn # 0 THEN "ready" ELSE "none"
OneChild == INSTANCE ChildSlot WITH slot <- ChildNow, served <- conn # 0 /\ served[conn]
ImplementsChildSlot == OneChild!Spec

\* Every call returns, whatever the child does (but for MaxSpawns).
CallsReturn ==
  \A p \in Callers : pc[p] # "idle" ~>
    pc[p] = "idle" \/ (pc[p] = "lock" /\ spawned = MaxSpawns)
=============================================================================
