------------------------- MODULE RmcpClientProofs -------------------------
(***************************************************************************)
(* What RmcpClient promises, for any number of callers, spawns and strikes *)
(* before it gives up.  The argument: one call at most shakes hands, and   *)
(* then there is no connection; so every attempt is in one place only (in  *)
(* a handshake, as the connection, or over), and is counted on its way out.*)
(***************************************************************************)
EXTENDS RmcpClient, TLAPS

\* Who shakes hands is alone, and the back-off had room for the attempt.
MutexInv ==
  \A p \in Callers : pc[p] = "handshake" =>
    /\ conn = 0 /\ strikes < MaxStrikes
    /\ \A q \in Callers : pc[q] = "handshake" => q = p

\* What is sent on, shaken hands with or connected has been spawned.
SpawnedInv ==
  /\ \A p \in Callers : pc[p] \notin {"idle", "lock"} => gen[p] \in 1..spawned
  /\ conn # 0 => conn <= spawned /\ strikes < MaxStrikes

\* Calls keep within their budget of polls.
PollInv ==
  \A p \in Callers : /\ pc[p] = "send" => polls[p] < MaxPolls
                     /\ pc[p] \in {"idle", "lock", "handshake"} => polls[p] = 0

\* An attempt that was counted is over.
CountInv ==
  \A n \in Attempts : exits[n] # 0 =>
    /\ exits[n] = 1 /\ n <= spawned /\ n # conn
    /\ \A p \in Callers : pc[p] = "handshake" => gen[p] # n

\* A value comes with the flag.
ServedInv == \A n \in some : served[n]

IInv == TypeOK /\ MutexInv /\ SpawnedInv /\ PollInv /\ CountInv /\ ServedInv /\ NoChildLeft

\* Who is past the mutex has an attempt.
LEMMA GenType ==
  ASSUME IInv, NEW p \in Callers, pc[p] \notin {"idle", "lock"}
  PROVE  gen[p] \in Attempts /\ gen[p] <= spawned
<1>1. gen[p] \in 1..spawned /\ spawned \in 0..MaxSpawns
  BY DEF IInv, TypeOK, SpawnedInv
<1> QED BY <1>1, ClientAssumption DEF Attempts

\* The connection, and the attempt that shakes hands, are yet to be counted.
LEMMA ConnUncounted ==
  ASSUME IInv, conn # 0
  PROVE  conn \in Attempts /\ strikes + 1 \in 0..MaxStrikes /\ exits[conn] = 0
<1>1. conn \in Attempts /\ strikes + 1 \in 0..MaxStrikes
  BY ClientAssumption DEF IInv, TypeOK, SpawnedInv, Attempts
<1>2. exits[conn] = 0
  BY <1>1 DEF IInv, CountInv
<1> QED BY <1>1, <1>2

LEMMA ShakingUncounted ==
  ASSUME IInv, NEW p \in Callers, pc[p] = "handshake"
  PROVE  /\ conn = 0 /\ strikes + 1 \in 0..MaxStrikes
         /\ gen[p] \in Attempts /\ exits[gen[p]] = 0
<1>1. gen[p] \in Attempts
  BY GenType
<1>2. conn = 0 /\ strikes + 1 \in 0..MaxStrikes
  BY ClientAssumption DEF IInv, TypeOK, MutexInv
<1>3. exits[gen[p]] = 0
  BY <1>1 DEF IInv, CountInv
<1> QED BY <1>1, <1>2, <1>3

LEMMA InitInv == Init => IInv
<1> SUFFICES ASSUME Init PROVE IInv
  OBVIOUS
<1> USE ClientAssumption DEF Init, Attempts
<1>1. TypeOK
  <2>1. conn \in 0..MaxSpawns /\ spawned \in 0..MaxSpawns /\ strikes \in 0..MaxStrikes
    OBVIOUS
  <2>2. gen \in [Callers -> 0..MaxSpawns] /\ polls \in [Callers -> 0..MaxPolls]
    OBVIOUS
  <2>3. exits \in [Attempts -> 0..2] /\ some \subseteq Attempts
    OBVIOUS
  <2>4. /\ closed \in BOOLEAN /\ served \in [Attempts -> BOOLEAN]
        /\ child \in [Attempts -> {"none", "up", "closing", "dead"}]
    OBVIOUS
  <2> QED BY <2>1, <2>2, <2>3, <2>4 DEF TypeOK
<1>2. MutexInv /\ SpawnedInv /\ PollInv
  BY DEF MutexInv, SpawnedInv, PollInv
<1>3. CountInv /\ ServedInv /\ NoChildLeft
  BY DEF CountInv, ServedInv, NoChildLeft
<1> QED BY <1>1, <1>2, <1>3 DEF IInv

\* Calling.
LEMMA EnterKeeps ==
  ASSUME IInv, NEW p \in Callers, Enter(p) PROVE IInv'
<1> USE ClientAssumption DEF IInv, Attempts, Enter, Moves
<1>1. TypeOK'
  BY DEF TypeOK, SpawnedInv, MutexInv, PollInv, CountInv
<1>2. MutexInv'
  BY DEF TypeOK, MutexInv, SpawnedInv
<1>3. SpawnedInv'
  BY DEF TypeOK, MutexInv, SpawnedInv
<1>4. PollInv'
  BY DEF TypeOK, PollInv
<1>5. CountInv'
  BY DEF TypeOK, MutexInv, SpawnedInv, CountInv
<1>6. ServedInv'
  BY DEF TypeOK, ServedInv, SpawnedInv
<1>7. NoChildLeft'
  BY DEF TypeOK, MutexInv, SpawnedInv, NoChildLeft
<1> QED BY <1>1, <1>2, <1>3, <1>4, <1>5, <1>6, <1>7

\* Using the connection there is.
LEMMA UseConnKeeps ==
  ASSUME IInv, NEW p \in Callers, UseConn(p) PROVE IInv'
<1> USE ClientAssumption DEF IInv, Attempts, UseConn, Moves, Unlocked
<1>1. TypeOK'
  BY DEF TypeOK, SpawnedInv, MutexInv, PollInv, CountInv
<1>2. MutexInv'
  BY DEF TypeOK, MutexInv, SpawnedInv
<1>3. SpawnedInv'
  BY DEF TypeOK, MutexInv, SpawnedInv
<1>4. PollInv'
  BY DEF TypeOK, PollInv
<1>5. CountInv'
  BY DEF TypeOK, MutexInv, SpawnedInv, CountInv
<1>6. ServedInv'
  BY DEF TypeOK, ServedInv, SpawnedInv
<1>7. NoChildLeft'
  BY DEF TypeOK, MutexInv, SpawnedInv, NoChildLeft
<1> QED BY <1>1, <1>2, <1>3, <1>4, <1>5, <1>6, <1>7

\* Giving up.
LEMMA GiveUpKeeps ==
  ASSUME IInv, NEW p \in Callers, GiveUp(p) PROVE IInv'
<1> USE ClientAssumption DEF IInv, Attempts, GiveUp, Returns, Moves, Unlocked
<1>1. TypeOK'
  BY DEF TypeOK, SpawnedInv, MutexInv, PollInv, CountInv
<1>2. MutexInv'
  BY DEF TypeOK, MutexInv, SpawnedInv
<1>3. SpawnedInv'
  BY DEF TypeOK, MutexInv, SpawnedInv
<1>4. PollInv'
  BY DEF TypeOK, PollInv
<1>5. CountInv'
  BY DEF TypeOK, MutexInv, SpawnedInv, CountInv
<1>6. ServedInv'
  BY DEF TypeOK, ServedInv, SpawnedInv
<1>7. NoChildLeft'
  BY DEF TypeOK, MutexInv, SpawnedInv, NoChildLeft
<1> QED BY <1>1, <1>2, <1>3, <1>4, <1>5, <1>6, <1>7

\* An attempt that yields no child is counted at once.
LEMMA SpawnFailKeeps ==
  ASSUME IInv, NEW p \in Callers, SpawnFail(p) PROVE IInv'
<1> USE ClientAssumption DEF IInv, Attempts, SpawnFail, Returns, Moves, Unlocked, MaySpawn, RecordExit
<1>1. TypeOK'
  BY DEF TypeOK, SpawnedInv, MutexInv, PollInv, CountInv
<1>2. MutexInv'
  BY DEF TypeOK, MutexInv, SpawnedInv
<1>3. SpawnedInv'
  BY DEF TypeOK, MutexInv, SpawnedInv
<1>4. PollInv'
  BY DEF TypeOK, PollInv
<1>5. CountInv'
  BY DEF TypeOK, MutexInv, SpawnedInv, CountInv
<1>6. ServedInv'
  BY DEF TypeOK, ServedInv, SpawnedInv
<1>7. NoChildLeft'
  BY DEF TypeOK, MutexInv, SpawnedInv, NoChildLeft
<1> QED BY <1>1, <1>2, <1>3, <1>4, <1>5, <1>6, <1>7

\* An attempt that yields one.
LEMMA SpawnKeeps ==
  ASSUME IInv, NEW p \in Callers, Spawn(p) PROVE IInv'
<1> USE ClientAssumption DEF IInv, Attempts, Spawn, Moves, Unlocked, MaySpawn
<1>1. TypeOK'
  BY DEF TypeOK, SpawnedInv, MutexInv, PollInv, CountInv
<1>2. MutexInv'
  BY DEF TypeOK, MutexInv, SpawnedInv
<1>3. SpawnedInv'
  BY DEF TypeOK, MutexInv, SpawnedInv
<1>4. PollInv'
  BY DEF TypeOK, PollInv
<1>5. CountInv'
  BY DEF TypeOK, MutexInv, SpawnedInv, CountInv
<1>6. ServedInv'
  BY DEF TypeOK, ServedInv, SpawnedInv
<1>7. NoChildLeft'
  BY DEF TypeOK, MutexInv, SpawnedInv, NoChildLeft
<1> QED BY <1>1, <1>2, <1>3, <1>4, <1>5, <1>6, <1>7

\* The handshake makes it the connection.
LEMMA HandshakeDoneKeeps ==
  ASSUME IInv, NEW p \in Callers, HandshakeDone(p) PROVE IInv'
<1> USE ClientAssumption DEF IInv, Attempts, HandshakeDone, Moves
<1>1. TypeOK'
  BY DEF TypeOK, SpawnedInv, MutexInv, PollInv, CountInv
<1>2. MutexInv'
  BY DEF TypeOK, MutexInv, SpawnedInv
<1>3. SpawnedInv'
  BY DEF TypeOK, MutexInv, SpawnedInv
<1>4. PollInv'
  BY DEF TypeOK, PollInv
<1>5. CountInv'
  BY DEF TypeOK, MutexInv, SpawnedInv, CountInv
<1>6. ServedInv'
  BY DEF TypeOK, ServedInv, SpawnedInv
<1>7. NoChildLeft'
  BY DEF TypeOK, MutexInv, SpawnedInv, NoChildLeft
<1> QED BY <1>1, <1>2, <1>3, <1>4, <1>5, <1>6, <1>7

\* Or counts and kills it.
LEMMA HandshakeFailKeeps ==
  ASSUME IInv, NEW p \in Callers, HandshakeFail(p) PROVE IInv'
<1> USE ClientAssumption DEF IInv, Attempts, HandshakeFail, Returns, Moves, RecordExit, Killed
<1>1. TypeOK'
  <2>1. gen[p] \in Attempts /\ strikes + 1 \in 0..MaxStrikes /\ exits[gen[p]] = 0
    BY ShakingUncounted, ClientAssumption
  <2>2. strikes' \in 0..MaxStrikes /\ exits' \in [Attempts -> 0..2]
    BY <2>1 DEF TypeOK
  <2> QED BY <2>1, <2>2 DEF TypeOK
<1>2. MutexInv'
  BY DEF TypeOK, MutexInv, SpawnedInv
<1>3. SpawnedInv'
  BY DEF TypeOK, MutexInv, SpawnedInv
<1>4. PollInv'
  BY DEF TypeOK, PollInv
<1>5. CountInv'
  <2>1. exits' = [exits EXCEPT ![gen[p]] = 1] /\ gen[p] \in Attempts /\ gen[p] <= spawned
    <3>1. gen[p] \in Attempts /\ exits[gen[p]] = 0
      BY ShakingUncounted
    <3>2. gen[p] <= spawned
      BY GenType
    <3> QED BY <3>1, <3>2
  <2>2. \A q \in Callers : pc'[q] # "handshake"
    BY DEF TypeOK, MutexInv
  <2> QED BY <2>1, <2>2, ShakingUncounted DEF TypeOK, CountInv
<1>6. ServedInv'
  BY DEF TypeOK, ServedInv, SpawnedInv
<1>7. NoChildLeft'
  BY DEF TypeOK, MutexInv, SpawnedInv, NoChildLeft
<1> QED BY <1>1, <1>2, <1>3, <1>4, <1>5, <1>6, <1>7

\* Sending.
LEMMA SendKeeps ==
  ASSUME IInv, NEW p \in Callers, Send(p) PROVE IInv'
<1> USE ClientAssumption DEF IInv, Attempts, Send, Moves
<1>1. TypeOK'
  BY DEF TypeOK, SpawnedInv, MutexInv, PollInv, CountInv
<1>2. MutexInv'
  BY DEF TypeOK, MutexInv, SpawnedInv
<1>3. SpawnedInv'
  BY DEF TypeOK, MutexInv, SpawnedInv
<1>4. PollInv'
  BY DEF TypeOK, PollInv
<1>5. CountInv'
  BY DEF TypeOK, MutexInv, SpawnedInv, CountInv
<1>6. ServedInv'
  BY DEF TypeOK, ServedInv, SpawnedInv
<1>7. NoChildLeft'
  BY DEF TypeOK, MutexInv, SpawnedInv, NoChildLeft
<1> QED BY <1>1, <1>2, <1>3, <1>4, <1>5, <1>6, <1>7

\* Polling.
LEMMA ReceiveIndexingKeeps ==
  ASSUME IInv, NEW p \in Callers, ReceiveIndexing(p) PROVE IInv'
<1> USE ClientAssumption DEF IInv, Attempts, ReceiveIndexing, Returns, Moves
<1>1. TypeOK'
  <2>1. CASE Moves(p, "wait", "send")
    BY <2>1 DEF TypeOK
  <2>2. CASE Returns(p, "wait")
    BY <2>2 DEF TypeOK
  <2> QED BY <2>1, <2>2
<1>2. MutexInv'
  <2>1. \A q \in Callers : pc'[q] = "handshake" => pc[q] = "handshake"
    BY DEF TypeOK
  <2> QED BY <2>1 DEF MutexInv
<1>3. SpawnedInv'
  BY DEF TypeOK, MutexInv, SpawnedInv
<1>4. PollInv'
  BY DEF TypeOK, PollInv
<1>5. CountInv'
  BY DEF TypeOK, MutexInv, SpawnedInv, CountInv
<1>6. ServedInv'
  BY DEF TypeOK, ServedInv, SpawnedInv
<1>7. NoChildLeft'
  BY DEF TypeOK, MutexInv, SpawnedInv, NoChildLeft
<1> QED BY <1>1, <1>2, <1>3, <1>4, <1>5, <1>6, <1>7

\* An answer without a value.
LEMMA ReceiveTextKeeps ==
  ASSUME IInv, NEW p \in Callers, ReceiveText(p) PROVE IInv'
<1> USE ClientAssumption DEF IInv, Attempts, ReceiveText, Returns, Moves
<1>1. TypeOK'
  BY DEF TypeOK, SpawnedInv, MutexInv, PollInv, CountInv
<1>2. MutexInv'
  BY DEF TypeOK, MutexInv, SpawnedInv
<1>3. SpawnedInv'
  BY DEF TypeOK, MutexInv, SpawnedInv
<1>4. PollInv'
  BY DEF TypeOK, PollInv
<1>5. CountInv'
  BY DEF TypeOK, MutexInv, SpawnedInv, CountInv
<1>6. ServedInv'
  BY DEF TypeOK, ServedInv, SpawnedInv
<1>7. NoChildLeft'
  BY DEF TypeOK, MutexInv, SpawnedInv, NoChildLeft
<1> QED BY <1>1, <1>2, <1>3, <1>4, <1>5, <1>6, <1>7

\* A value.
LEMMA ReceiveJsonKeeps ==
  ASSUME IInv, NEW p \in Callers, ReceiveJson(p) PROVE IInv'
<1> USE ClientAssumption DEF IInv, Attempts, ReceiveJson, Moves
<1>1. TypeOK'
  BY DEF TypeOK, SpawnedInv, MutexInv, PollInv, CountInv
<1>2. MutexInv'
  BY DEF TypeOK, MutexInv, SpawnedInv
<1>3. SpawnedInv'
  BY DEF TypeOK, MutexInv, SpawnedInv
<1>4. PollInv'
  BY DEF TypeOK, PollInv
<1>5. CountInv'
  BY DEF TypeOK, MutexInv, SpawnedInv, CountInv
<1>6. ServedInv'
  BY DEF TypeOK, ServedInv, SpawnedInv
<1>7. NoChildLeft'
  BY DEF TypeOK, MutexInv, SpawnedInv, NoChildLeft
<1> QED BY <1>1, <1>2, <1>3, <1>4, <1>5, <1>6, <1>7

\* The flag.
LEMMA StoreServedKeeps ==
  ASSUME IInv, NEW p \in Callers, StoreServed(p) PROVE IInv'
<1> USE ClientAssumption DEF IInv, Attempts, StoreServed, Returns, Moves
<1>1. TypeOK'
  <2>1. gen[p] \in Attempts
    BY GenType
  <2>2. some' \subseteq Attempts /\ served' \in [Attempts -> BOOLEAN]
    BY <2>1 DEF TypeOK
  <2>3. gen' \in [Callers -> 0..MaxSpawns] /\ polls' \in [Callers -> 0..MaxPolls]
    BY DEF TypeOK
  <2> QED BY <2>2, <2>3 DEF TypeOK
<1>2. MutexInv'
  BY DEF TypeOK, MutexInv, SpawnedInv
<1>3. SpawnedInv'
  BY DEF TypeOK, MutexInv, SpawnedInv
<1>4. PollInv'
  BY DEF TypeOK, PollInv
<1>5. CountInv'
  BY DEF TypeOK, MutexInv, SpawnedInv, CountInv
<1>6. ServedInv'
  BY GenType DEF TypeOK, ServedInv
<1>7. NoChildLeft'
  BY DEF TypeOK, MutexInv, SpawnedInv, NoChildLeft
<1> QED BY <1>1, <1>2, <1>3, <1>4, <1>5, <1>6, <1>7

\* A failure.
LEMMA CallFailKeeps ==
  ASSUME IInv, NEW p \in Callers, CallFail(p) PROVE IInv'
<1> USE ClientAssumption DEF IInv, Attempts, CallFail, Moves
<1>1. TypeOK'
  BY DEF TypeOK, SpawnedInv, MutexInv, PollInv, CountInv
<1>2. MutexInv'
  BY DEF TypeOK, MutexInv, SpawnedInv
<1>3. SpawnedInv'
  BY DEF TypeOK, MutexInv, SpawnedInv
<1>4. PollInv'
  BY DEF TypeOK, PollInv
<1>5. CountInv'
  BY DEF TypeOK, MutexInv, SpawnedInv, CountInv
<1>6. ServedInv'
  BY DEF TypeOK, ServedInv, SpawnedInv
<1>7. NoChildLeft'
  BY DEF TypeOK, MutexInv, SpawnedInv, NoChildLeft
<1> QED BY <1>1, <1>2, <1>3, <1>4, <1>5, <1>6, <1>7

\* The connection is counted and killed by the call that removes it.
LEMMA EvictKeeps ==
  ASSUME IInv, NEW p \in Callers, Evict(p) PROVE IInv'
<1> USE ClientAssumption DEF IInv, Attempts, Evict, Returns, Moves, Unlocked, RecordExit, Killed
<1>1. TypeOK'
  <2>1. CASE conn = gen[p]
    <3>1. conn \in Attempts /\ strikes + 1 \in 0..MaxStrikes /\ exits[conn] = 0
      <4>1. conn # 0
        BY <2>1, GenType DEF Attempts
      <4> QED BY <4>1, ConnUncounted
    <3>2. strikes' \in 0..MaxStrikes
      <4>1. strikes' = IF served[conn] THEN 0 ELSE strikes + 1
        BY <2>1
      <4>2. MaxStrikes \in Nat
        OBVIOUS
      <4>3. CASE served[conn]
        BY <4>1, <4>2, <4>3
      <4>4. CASE ~served[conn]
        <5>1. strikes' = strikes + 1
          BY <4>1, <4>4
        <5> QED BY <3>1, <5>1
      <4> QED BY <4>3, <4>4
    <3>3. exits' = [exits EXCEPT ![conn] = 1]
      BY <2>1, <3>1
    <3>4. exits' \in [Attempts -> 0..2]
      <4>1. exits \in [Attempts -> 0..2] /\ 1 \in 0..2
        BY DEF TypeOK
      <4> QED BY <3>3, <4>1, Zenon
    <3>5. child' \in [Attempts -> {"none", "up", "closing", "dead"}]
      BY <2>1 DEF TypeOK
    <3> QED BY <2>1, <3>1, <3>2, <3>4, <3>5 DEF TypeOK
  <2>2. CASE conn # gen[p]
    BY <2>2 DEF TypeOK
  <2> QED BY <2>1, <2>2
<1>2. MutexInv'
  BY DEF TypeOK, MutexInv, SpawnedInv
<1>3. SpawnedInv'
  BY DEF TypeOK, MutexInv, SpawnedInv
<1>4. PollInv'
  BY DEF TypeOK, PollInv
<1>5. CountInv'
  BY DEF TypeOK, MutexInv, SpawnedInv, CountInv
<1>6. ServedInv'
  BY DEF TypeOK, ServedInv, SpawnedInv
<1>7. NoChildLeft'
  BY DEF TypeOK, MutexInv, SpawnedInv, NoChildLeft
<1> QED BY <1>1, <1>2, <1>3, <1>4, <1>5, <1>6, <1>7

\* A future that is dropped.
LEMMA CancelKeeps ==
  ASSUME IInv, NEW p \in Callers, Cancel(p) PROVE IInv'
<1> USE ClientAssumption DEF IInv, Attempts, Cancel, Returns, Moves
<1>1. TypeOK'
  BY DEF TypeOK, SpawnedInv, MutexInv, PollInv, CountInv
<1>2. MutexInv'
  BY DEF TypeOK, MutexInv, SpawnedInv
<1>3. SpawnedInv'
  BY DEF TypeOK, MutexInv, SpawnedInv
<1>4. PollInv'
  BY DEF TypeOK, PollInv
<1>5. CountInv'
  BY DEF TypeOK, MutexInv, SpawnedInv, CountInv
<1>6. ServedInv'
  BY DEF TypeOK, ServedInv, SpawnedInv
<1>7. NoChildLeft'
  BY DEF TypeOK, MutexInv, SpawnedInv, NoChildLeft
<1> QED BY <1>1, <1>2, <1>3, <1>4, <1>5, <1>6, <1>7

\* An answer under way.
LEMMA ChildAnswersKeeps ==
  ASSUME IInv, NEW p \in Callers, ChildAnswers(p) PROVE IInv'
<1> USE ClientAssumption DEF IInv, Attempts, ChildAnswers, call
<1>1. TypeOK'
  BY DEF TypeOK, SpawnedInv, MutexInv, PollInv, CountInv
<1>2. MutexInv'
  BY DEF TypeOK, MutexInv, SpawnedInv
<1>3. SpawnedInv'
  BY DEF TypeOK, MutexInv, SpawnedInv
<1>4. PollInv'
  BY DEF TypeOK, PollInv
<1>5. CountInv'
  BY DEF TypeOK, MutexInv, SpawnedInv, CountInv
<1>6. ServedInv'
  BY DEF TypeOK, ServedInv, SpawnedInv
<1>7. NoChildLeft'
  BY DEF TypeOK, MutexInv, SpawnedInv, NoChildLeft
<1> QED BY <1>1, <1>2, <1>3, <1>4, <1>5, <1>6, <1>7

\* A child that ends.
LEMMA ChildEndsKeeps ==
  ASSUME IInv, NEW n \in Attempts, ChildEnds(n) PROVE IInv'
<1> USE ClientAssumption DEF IInv, Attempts, ChildEnds, call
<1>1. TypeOK' /\ MutexInv' /\ SpawnedInv' /\ PollInv' /\ CountInv' /\ ServedInv'
  BY DEF TypeOK, MutexInv, SpawnedInv, PollInv, CountInv, ServedInv
<1>2. NoChildLeft'
  BY DEF TypeOK, MutexInv, SpawnedInv, NoChildLeft
<1> QED BY <1>1, <1>2

\* The drop of the client.
LEMMA CloseKeeps ==
  ASSUME IInv, Close PROVE IInv'
<1> USE ClientAssumption DEF IInv, Attempts, Close, call
<1>1. TypeOK' /\ MutexInv' /\ SpawnedInv' /\ PollInv' /\ CountInv' /\ ServedInv'
  BY DEF TypeOK, MutexInv, SpawnedInv, PollInv, CountInv, ServedInv
<1>2. NoChildLeft'
  BY DEF TypeOK, MutexInv, SpawnedInv, NoChildLeft
<1> QED BY <1>1, <1>2

LEMMA StepInv == IInv /\ [Next]_vars => IInv'
<1> SUFFICES ASSUME IInv, [Next]_vars PROVE IInv'
  OBVIOUS
<1>1. CASE UNCHANGED vars
  BY <1>1 DEF vars, call, IInv, TypeOK, MutexInv, SpawnedInv, PollInv, CountInv, ServedInv, NoChildLeft
<1>2. CASE Close
  BY <1>2, CloseKeeps
<1>3. ASSUME NEW n \in Attempts, ChildEnds(n) PROVE IInv'
  BY <1>3, ChildEndsKeeps
<1>4. ASSUME NEW p \in Callers, Enter(p) \/ HandshakeDone(p) \/ ChildAnswers(p) \/ Cancel(p)
      PROVE  IInv'
  BY <1>4, EnterKeeps, HandshakeDoneKeeps, ChildAnswersKeeps, CancelKeeps
<1>5. ASSUME NEW p \in Callers, Runs(p) PROVE IInv'
  BY <1>5, UseConnKeeps, GiveUpKeeps, SpawnFailKeeps, SpawnKeeps, HandshakeFailKeeps, SendKeeps,
     ReceiveIndexingKeeps, ReceiveTextKeeps, ReceiveJsonKeeps, StoreServedKeeps, CallFailKeeps,
     EvictKeeps DEF Runs
<1> QED BY <1>1, <1>2, <1>3, <1>4, <1>5 DEF Next

-----------------------------------------------------------------------------

\* In every state the invariant holds.
THEOREM Invariance == Spec => []IInv
  BY InitInv, StepInv, PTL DEF Spec

\* The variables keep their shape, and the strikes stay within the limit.
THEOREM TypeCorrect == Spec => []TypeOK
<1>1. IInv => TypeOK
  BY DEF IInv
<1> QED BY <1>1, Invariance, PTL

\* No child runs that no connection and no handshake owns: failed handshakes,
\* evictions, dropped futures and the drop of the client leave none behind
\* (RmcpCxpakClient::call, Drop).
THEOREM ChildrenOwned == Spec => []NoChildLeft
<1>1. IInv => NoChildLeft
  BY DEF IInv
<1> QED BY <1>1, Invariance, PTL

\* However many parallel calls fail on one child, the back-off counts it once
\* (the identity of served_one in RmcpCxpakClient::call).
THEOREM StrikesCountChildren == Spec => []CountedOnce
<1>1. IInv => CountedOnce
  BY DEF IInv, TypeOK, CountInv, CountedOnce
<1> QED BY <1>1, Invariance, PTL

\* A failure that is reported late removes no connection but its own.
THEOREM StaleErrorsHarmless == Spec => NewerConnStays
<1> DEFINE Stays == \A n \in Attempts : conn = n /\ conn' # n =>
      closed' \/ \E p \in Callers : pc[p] = "evict" /\ gen[p] = n /\ pc'[p] = "idle"
<1>1. ASSUME IInv, [Next]_vars PROVE [Stays]_vars
  <2> SUFFICES ASSUME NEW n \in Attempts, conn = n, conn' # n
               PROVE  closed' \/ \E p \in Callers : pc[p] = "evict" /\ gen[p] = n /\ pc'[p] = "idle"
    OBVIOUS
  <2>0. conn # 0
    BY DEF Attempts
  <2>1. Next
    BY <1>1 DEF vars
  <2>2. CASE Close
    BY <2>2 DEF Close
  <2>3. CASE \E m \in Attempts : ChildEnds(m)
    BY <2>3 DEF ChildEnds
  <2>4. ASSUME NEW p \in Callers, HandshakeDone(p) PROVE FALSE
    BY <1>1, <2>0, <2>4 DEF IInv, MutexInv, HandshakeDone, Moves
  <2>5. ASSUME NEW p \in Callers, Evict(p) PROVE pc[p] = "evict" /\ gen[p] = n /\ pc'[p] = "idle"
    BY <1>1, <2>5 DEF IInv, TypeOK, Evict, Returns, Moves
  <2>6. ASSUME NEW p \in Callers, Enter(p) \/ ChildAnswers(p) \/ Cancel(p) \/ Runs(p), ~Evict(p)
        PROVE  FALSE
    BY <2>6 DEF Enter, ChildAnswers, Cancel, Runs, UseConn, GiveUp, SpawnFail, Spawn, HandshakeFail,
      Send, ReceiveIndexing, ReceiveText, ReceiveJson, StoreServed, CallFail
  <2> QED BY <2>1, <2>2, <2>3, <2>4, <2>5, <2>6 DEF Next
<1> QED BY <1>1, Invariance, PTL DEF Spec, NewerConnStays

\* The exit of a child that a call has had a value from is never a strike.
THEOREM ServedNeverStrikes == Spec => ServedIsNoStrike
<1>1. ASSUME IInv, [Next]_vars PROVE [strikes' > strikes => conn \notin some]_vars
  <2> SUFFICES ASSUME strikes' > strikes PROVE conn \notin some
    OBVIOUS
  <2> USE DEF IInv
  <2>0. 0 \notin some
    BY <1>1 DEF TypeOK, Attempts
  <2>1. strikes' # strikes /\ strikes \in Nat
    BY <1>1 DEF TypeOK
  <2>2. ASSUME NEW p \in Callers, SpawnFail(p) \/ HandshakeFail(p) PROVE conn = 0
    BY <1>1, <2>2 DEF MutexInv, SpawnFail, HandshakeFail, Returns, Moves
  <2>3. ASSUME NEW p \in Callers, Evict(p) PROVE conn \notin some
    <3>1. ~served[conn]
      BY <1>1, <2>1, <2>3 DEF Evict, RecordExit
    <3> QED BY <1>1, <3>1 DEF ServedInv
  <2>4. ASSUME NEW p \in Callers, Enter(p) \/ HandshakeDone(p) \/ ChildAnswers(p) \/ Cancel(p)
        PROVE  FALSE
    BY <2>1, <2>4 DEF Enter, HandshakeDone, ChildAnswers, Cancel
  <2>5. ASSUME NEW p \in Callers, Runs(p), ~SpawnFail(p), ~HandshakeFail(p), ~Evict(p) PROVE FALSE
    BY <2>1, <2>5 DEF Runs, UseConn, GiveUp, Spawn, Send, ReceiveIndexing, ReceiveText,
      ReceiveJson, StoreServed, CallFail
  <2>6. ~Close /\ ~(\E n \in Attempts : ChildEnds(n))
    BY <2>1 DEF Close, ChildEnds
  <2>7. Next
    BY <1>1, <2>1 DEF vars
  <2> QED BY <2>0, <2>2, <2>3, <2>4, <2>5, <2>6, <2>7 DEF Next
<1> QED BY <1>1, Invariance, PTL DEF Spec, ServedIsNoStrike

-----------------------------------------------------------------------------
(* The end of a client that has given up.                                  *)

\* After MaxStrikes children in a row that served nobody there is no connection,
\* no attempt under way, and no child running (SpawnBackoff::may_spawn).
GivenUpIsDown ==
  strikes = MaxStrikes =>
    /\ conn = 0
    /\ \A p \in Callers : pc[p] # "handshake"
    /\ \A n \in Attempts : child[n] # "up"

\* And it stays so: the value that a call of an evicted child still brings home
\* comes too late to forgive the strikes.
GivenUpForGood ==
  [][strikes = MaxStrikes => strikes' = MaxStrikes /\ spawned' = spawned /\ conn' = 0]_vars

LEMMA IsDown == IInv => GivenUpIsDown
<1> SUFFICES ASSUME IInv, strikes = MaxStrikes
    PROVE  /\ conn = 0 /\ \A p \in Callers : pc[p] # "handshake"
           /\ \A n \in Attempts : child[n] # "up"
  BY DEF GivenUpIsDown
<1>1. conn = 0
  BY ClientAssumption DEF IInv, SpawnedInv
<1>2. \A p \in Callers : pc[p] # "handshake"
  BY ClientAssumption DEF IInv, MutexInv
<1>3. \A n \in Attempts : child[n] # "up"
  BY <1>1, <1>2 DEF IInv, NoChildLeft, Attempts
<1> QED BY <1>1, <1>2, <1>3

\* A client that has given up holds no child and no connection, and attempts
\* none.
THEOREM GivenUpHoldsNothing == Spec => []GivenUpIsDown
  BY IsDown, Invariance, PTL

\* No step of a client that has given up forgives a strike, connects or spawns:
\* not the flag that StoreServed sets late, and not an eviction, which finds
\* no connection of its own.
THEOREM GivesUpForGood == Spec => GivenUpForGood
<1> DEFINE Stays == strikes = MaxStrikes => strikes' = MaxStrikes /\ spawned' = spawned /\ conn' = 0
<1>1. ASSUME IInv, [Next]_vars PROVE [Stays]_vars
  <2> SUFFICES ASSUME strikes = MaxStrikes, Next
               PROVE  strikes' = MaxStrikes /\ spawned' = spawned /\ conn' = 0
    BY <1>1
  <2>0. conn = 0 /\ ~MaySpawn /\ \A p \in Callers : pc[p] # "handshake"
    BY <1>1, IsDown, ClientAssumption DEF GivenUpIsDown, MaySpawn
  <2>1. ASSUME NEW p \in Callers PROVE ~HandshakeDone(p) /\ ~HandshakeFail(p)
    BY <2>0 DEF HandshakeDone, HandshakeFail, Returns, Moves
  <2>2. ASSUME NEW p \in Callers PROVE ~SpawnFail(p) /\ ~Spawn(p)
    BY <2>0 DEF SpawnFail, Spawn
  <2>3. ASSUME NEW p \in Callers, Evict(p) PROVE UNCHANGED <<conn, strikes, spawned>>
    <3>1. pc[p] = "evict"
      BY <2>3 DEF Evict, Returns, Moves
    <3>2. conn # gen[p]
      BY <1>1, <2>0, <3>1, GenType DEF Attempts
    <3> QED BY <2>3, <3>2 DEF Evict
  <2>4. ASSUME NEW p \in Callers, Enter(p) \/ ChildAnswers(p) \/ Cancel(p)
        PROVE  UNCHANGED <<conn, strikes, spawned>>
    BY <2>4 DEF Enter, ChildAnswers, Cancel
  <2>5. ASSUME NEW p \in Callers, Runs(p) PROVE UNCHANGED <<conn, strikes, spawned>>
    BY <2>1, <2>2, <2>3, <2>5 DEF Runs, UseConn, GiveUp, Send, ReceiveIndexing, ReceiveText,
      ReceiveJson, StoreServed, CallFail
  <2>6. ASSUME Close \/ \E n \in Attempts : ChildEnds(n)
        PROVE  strikes' = strikes /\ spawned' = spawned /\ conn' = 0
    BY <2>0, <2>6 DEF Close, ChildEnds
  <2> QED BY <2>0, <2>1, <2>4, <2>5, <2>6 DEF Next
<1> QED BY <1>1, Invariance, PTL DEF Spec, GivenUpForGood

-----------------------------------------------------------------------------
(* The client implements ChildSlot.                                        *)

\* A child that shakes hands is new to everyone else: nobody sends on it, and
\* nobody has had it serve a call.
FreshInv ==
  /\ \A n \in Attempts : served[n] => n <= spawned
  /\ \A p \in Callers : pc[p] = "handshake" =>
       /\ ~served[gen[p]]
       /\ \A q \in Callers : pc[q] \notin {"idle", "lock"} /\ gen[q] = gen[p] => q = p

\* Who drops the client has ended all calls.
ClosedInv == closed => conn = 0 /\ \A p \in Callers : pc[p] = "idle"

SlotInv == FreshInv /\ ClosedInv

\* A step that spawns nothing, shakes no new hands and serves nobody keeps what
\* is fresh fresh.
LEMMA StaysFresh ==
  ASSUME FreshInv, UNCHANGED <<served, spawned>>,
         \A p \in Callers : pc'[p] = "handshake" => pc[p] = "handshake" /\ gen'[p] = gen[p],
         \A q \in Callers : pc'[q] \notin {"idle", "lock"} =>
           pc[q] \notin {"idle", "lock"} /\ gen'[q] = gen[q]
  PROVE  FreshInv'
BY DEF FreshInv

LEMMA CallerFresh ==
  ASSUME IInv, FreshInv, NEW p \in Callers, Enter(p) \/ Runs(p) \/ HandshakeDone(p) \/ ChildAnswers(p) \/ Cancel(p)
  PROVE  FreshInv'
<1> USE DEF Returns, Moves
<1>0. pc \in [Callers -> {"idle", "lock", "handshake", "send", "wait", "parsed", "evict"}]
      /\ gen \in [Callers -> 0..MaxSpawns] /\ served \in [Attempts -> BOOLEAN]
  BY DEF IInv, TypeOK
<1>1. CASE Enter(p) \/ GiveUp(p) \/ HandshakeDone(p) \/ HandshakeFail(p)
  BY <1>0, <1>1, StaysFresh DEF Enter, GiveUp, HandshakeDone, HandshakeFail
<1>2. CASE Send(p) \/ ReceiveIndexing(p) \/ ReceiveText(p) \/ ReceiveJson(p) \/ CallFail(p)
  BY <1>0, <1>2, StaysFresh DEF Send, ReceiveIndexing, ReceiveText, ReceiveJson, CallFail
<1>3. CASE Evict(p) \/ Cancel(p) \/ ChildAnswers(p)
  BY <1>0, <1>3, StaysFresh DEF Evict, Cancel, ChildAnswers
<1>4. CASE UseConn(p)
  <2>1. \A q \in Callers : pc'[q] # "handshake"
    BY <1>0, <1>4 DEF UseConn, Unlocked
  <2> QED BY <1>4, <2>1 DEF UseConn, FreshInv
<1>5. CASE SpawnFail(p)
  <2>1. \A q \in Callers : pc'[q] # "handshake"
    BY <1>0, <1>5 DEF SpawnFail, Unlocked
  <2>2. \A n \in Attempts : served'[n] => n <= spawned'
    BY <1>5, ClientAssumption DEF SpawnFail, FreshInv, IInv, TypeOK, Attempts
  <2> QED BY <2>1, <2>2 DEF FreshInv
<1>6. CASE Spawn(p)
  <2>1. /\ spawned' = spawned + 1 /\ spawned' \in Attempts /\ served' = served
        /\ pc' = [pc EXCEPT ![p] = "handshake"] /\ gen' = [gen EXCEPT ![p] = spawned + 1]
        /\ spawned \in Nat
    BY <1>6, ClientAssumption DEF Spawn, IInv, TypeOK, Attempts
  <2>2. \A n \in Attempts : served'[n] => n <= spawned /\ n <= spawned'
    BY <2>1 DEF FreshInv, Attempts
  <2>3. ~served'[spawned']
    BY <2>1, <2>2
  <2>4. \A q \in Callers : pc'[q] = "handshake" => q = p
    BY <1>0, <1>6, <2>1 DEF Spawn, Unlocked
  <2>5. \A q \in Callers : pc'[q] \notin {"idle", "lock"} /\ q # p => gen'[q] # spawned'
    <3> SUFFICES ASSUME NEW q \in Callers, pc'[q] \notin {"idle", "lock"}, q # p
                 PROVE  gen'[q] # spawned'
      OBVIOUS
    <3>1. pc[q] \notin {"idle", "lock"} /\ gen'[q] = gen[q]
      BY <1>0, <2>1
    <3> QED BY <2>1, <3>1 DEF IInv, SpawnedInv
  <2>6. gen'[p] = spawned'
    BY <1>0, <2>1
  <2> QED BY <2>2, <2>3, <2>4, <2>5, <2>6 DEF FreshInv
<1>7. CASE StoreServed(p)
  <2>1. gen[p] \in Attempts /\ gen[p] <= spawned
    BY <1>7, GenType DEF StoreServed
  <2>2. \A q \in Callers : pc'[q] = "handshake" => pc[q] = "handshake" /\ q # p /\ gen'[q] = gen[q]
    BY <1>0, <1>7 DEF StoreServed
  <2>3. \A q \in Callers : pc[q] = "handshake" => gen[q] # gen[p] /\ gen[q] \in Attempts
    BY <1>7, GenType DEF StoreServed, FreshInv
  <2>4. served' = [served EXCEPT ![gen[p]] = TRUE] /\ spawned' = spawned
    BY <1>7 DEF StoreServed
  <2>5. \A n \in Attempts : served'[n] => n <= spawned'
    BY <1>0, <2>1, <2>4 DEF FreshInv
  <2>6. \A q \in Callers : pc'[q] = "handshake" => ~served'[gen'[q]]
    BY <1>0, <2>2, <2>3, <2>4 DEF FreshInv
  <2>7. \A q \in Callers : pc'[q] \notin {"idle", "lock"} =>
          pc[q] \notin {"idle", "lock"} /\ gen'[q] = gen[q]
    BY <1>0, <1>7 DEF StoreServed
  <2> QED BY <2>2, <2>5, <2>6, <2>7 DEF FreshInv
<1> QED BY <1>1, <1>2, <1>3, <1>4, <1>5, <1>6, <1>7 DEF Runs

LEMMA CallerOpen ==
  ASSUME TypeOK, ClosedInv, NEW p \in Callers,
         Enter(p) \/ Runs(p) \/ HandshakeDone(p) \/ ChildAnswers(p) \/ Cancel(p)
  PROVE  ~closed /\ closed' = closed
<1>1. pc[p] # "idle" \/ Enter(p)
  BY DEF Runs, UseConn, GiveUp, SpawnFail, Spawn, HandshakeFail, Send, ReceiveIndexing,
    ReceiveText, ReceiveJson, StoreServed, CallFail, Evict, HandshakeDone, ChildAnswers, Cancel,
    Returns, Moves
<1>2. ~closed
  BY <1>1 DEF ClosedInv, Enter
<1>3. closed' = closed
  BY DEF Enter, Runs, UseConn, GiveUp, SpawnFail, Spawn, HandshakeFail, Send, ReceiveIndexing,
    ReceiveText, ReceiveJson, StoreServed, CallFail, Evict, HandshakeDone, ChildAnswers, Cancel
<1> QED BY <1>2, <1>3

LEMMA StepSlot == IInv /\ SlotInv /\ [Next]_vars => SlotInv'
<1> SUFFICES ASSUME IInv, SlotInv, [Next]_vars PROVE SlotInv'
  OBVIOUS
<1>1. CASE UNCHANGED vars
  BY <1>1 DEF vars, call, SlotInv, FreshInv, ClosedInv
<1>2. ASSUME NEW p \in Callers,
             Enter(p) \/ Runs(p) \/ HandshakeDone(p) \/ ChildAnswers(p) \/ Cancel(p)
      PROVE  SlotInv'
  BY <1>2, CallerFresh, CallerOpen DEF SlotInv, ClosedInv, IInv
<1>3. CASE Close \/ \E n \in Attempts : ChildEnds(n)
  BY <1>3 DEF Close, ChildEnds, call, SlotInv, FreshInv, ClosedInv
<1> QED BY <1>1, <1>2, <1>3 DEF Next

ServedNow == conn # 0 /\ served[conn]

\* Nobody is seen starting, or one is.
LEMMA SlotReads ==
  ASSUME IInv, ~closed
  PROVE  /\ ChildNow = "starting" <=> \E p \in Callers : pc[p] = "handshake"
         /\ ChildNow = "ready" <=> conn # 0
         /\ ChildNow = "none" <=> Unlocked /\ conn = 0
         /\ Unlocked <=> ChildNow # "starting"
<1>1. (\E p \in Callers : pc[p] = "handshake") => conn = 0
  BY DEF IInv, MutexInv
<1> QED BY <1>1 DEF ChildNow, Unlocked

\* A step that leaves the connection, its flag and the handshakes as they are
\* is not seen.
LEMMA Unseen ==
  ASSUME UNCHANGED <<closed, conn, strikes>>, ServedNow' = ServedNow,
         \A p \in Callers : pc'[p] = "handshake" <=> pc[p] = "handshake"
  PROVE  UNCHANGED <<ChildNow, strikes, ServedNow>>
BY DEF ChildNow

LEMMA StepRefines ==
  ASSUME IInv, SlotInv, [Next]_vars
  PROVE  OneChild!Next \/ UNCHANGED <<ChildNow, strikes, ServedNow>>
<1>0. pc \in [Callers -> {"idle", "lock", "handshake", "send", "wait", "parsed", "evict"}]
      /\ gen \in [Callers -> 0..MaxSpawns] /\ served \in [Attempts -> BOOLEAN]
  BY DEF IInv, TypeOK
<1>1. CASE UNCHANGED vars
  BY <1>1 DEF vars, call, ChildNow, ServedNow
<1>2. CASE \E n \in Attempts : ChildEnds(n)
  BY <1>2 DEF ChildEnds, call, ChildNow, ServedNow
<1>3. CASE Close
  <2>1. \A p \in Callers : pc[p] = "idle" /\ pc'[p] = "idle"
    BY <1>3 DEF Close, call
  <2>2. ~closed /\ closed' /\ conn' = 0 /\ strikes' = strikes
    BY <1>3 DEF Close
  <2>3. ChildNow \in {"none", "ready"} /\ ChildNow' = "closed" /\ ServedNow' = FALSE
    BY <2>1, <2>2 DEF ChildNow, ServedNow
  <2> QED BY <2>2, <2>3 DEF OneChild!Next, OneChild!Close, ServedNow
<1>4. ASSUME NEW p \in Callers,
             Enter(p) \/ Runs(p) \/ HandshakeDone(p) \/ ChildAnswers(p) \/ Cancel(p)
      PROVE  OneChild!Next \/ UNCHANGED <<ChildNow, strikes, ServedNow>>
  <2> USE DEF Returns, Moves
  <2>0. ~closed /\ ~closed'
    BY <1>4, CallerOpen DEF SlotInv, IInv
  <2>1. CASE Enter(p) \/ UseConn(p) \/ GiveUp(p) \/ Send(p) \/ ReceiveIndexing(p) \/ ReceiveText(p)
             \/ ReceiveJson(p) \/ CallFail(p) \/ ChildAnswers(p)
    <3>1. \A q \in Callers : pc'[q] = "handshake" <=> pc[q] = "handshake"
      BY <1>0, <2>1 DEF Enter, UseConn, GiveUp, Send, ReceiveIndexing, ReceiveText, ReceiveJson,
        CallFail, ChildAnswers
    <3>2. UNCHANGED <<closed, conn, strikes, served>>
      BY <2>1 DEF Enter, UseConn, GiveUp, Send, ReceiveIndexing, ReceiveText, ReceiveJson,
        CallFail, ChildAnswers
    <3> QED BY <3>1, <3>2, Unseen DEF ServedNow
  <2>2. CASE SpawnFail(p)
    <3>1. \A q \in Callers : pc[q] # "handshake" /\ pc'[q] # "handshake"
      BY <1>0, <2>2 DEF SpawnFail, Unlocked
    <3>2. conn = 0 /\ conn' = 0 /\ strikes < MaxStrikes /\ strikes' = strikes + 1
      BY <2>2 DEF SpawnFail, MaySpawn, RecordExit
    <3>3. ChildNow = "none" /\ ChildNow' = "none" /\ ServedNow = FALSE /\ ServedNow' = FALSE
      BY <2>0, <3>1, <3>2 DEF ChildNow, ServedNow
    <3> QED BY <3>2, <3>3 DEF OneChild!Next, OneChild!CannotStart, ServedNow
  <2>3. CASE Spawn(p)
    <3>1. \A q \in Callers : pc[q] # "handshake"
      BY <2>3 DEF Spawn, Unlocked
    <3>2. conn = 0 /\ conn' = 0 /\ strikes < MaxStrikes /\ strikes' = strikes
          /\ pc'[p] = "handshake"
      BY <1>0, <2>3 DEF Spawn, MaySpawn
    <3>3. ChildNow = "none" /\ ChildNow' = "starting" /\ ServedNow = FALSE /\ ServedNow' = FALSE
      BY <2>0, <3>1, <3>2 DEF ChildNow, ServedNow
    <3> QED BY <3>2, <3>3 DEF OneChild!Next, OneChild!Start, ServedNow
  <2>4. CASE pc[p] = "handshake" /\ (HandshakeDone(p) \/ HandshakeFail(p) \/ Cancel(p))
    <3>1. ChildNow = "starting" /\ conn = 0
      BY <2>0, <2>4 DEF IInv, MutexInv, ChildNow
    <3>2. \A q \in Callers : pc'[q] # "handshake"
      BY <1>0, <2>4 DEF IInv, MutexInv, HandshakeDone, HandshakeFail, Cancel
    <3>3. CASE HandshakeDone(p)
      <4>1. conn' = gen[p] /\ gen[p] # 0 /\ strikes' = strikes /\ served' = served
        BY <2>4, <3>3, GenType DEF HandshakeDone, Attempts
      <4>2. ChildNow' = "ready"
        BY <2>0, <3>2, <4>1 DEF ChildNow
      <4>3. ServedNow = FALSE /\ ServedNow' = FALSE
        BY <2>4, <3>1, <4>1 DEF ServedNow, SlotInv, FreshInv
      <4> QED BY <3>1, <4>1, <4>2, <4>3 DEF OneChild!Next, OneChild!Ready, ServedNow
    <3>4. CASE HandshakeFail(p) \/ Cancel(p)
      <4>1. conn' = 0 /\ strikes' \in {strikes, strikes + 1}
        BY <3>1, <3>4 DEF HandshakeFail, Cancel, RecordExit
      <4>2. ChildNow' = "none" /\ ServedNow = FALSE /\ ServedNow' = FALSE
        BY <2>0, <3>1, <3>2, <4>1 DEF ChildNow, ServedNow
      <4> QED BY <3>1, <4>1, <4>2 DEF OneChild!Next, OneChild!StartFails, OneChild!Abandoned,
            ServedNow
    <3> QED BY <2>4, <3>3, <3>4
  <2>5. CASE pc[p] # "handshake" /\ Cancel(p)
    <3>1. \A q \in Callers : pc'[q] = "handshake" <=> pc[q] = "handshake"
      BY <1>0, <2>5 DEF Cancel
    <3> QED BY <2>5, <3>1, Unseen DEF Cancel, ServedNow
  <2>6. CASE StoreServed(p)
    <3>1. gen[p] \in Attempts
      BY <2>6, GenType DEF StoreServed
    <3>2. \A q \in Callers : pc'[q] = "handshake" <=> pc[q] = "handshake"
      BY <1>0, <2>6 DEF StoreServed
    <3>3. UNCHANGED <<closed, conn, strikes>> /\ served' = [served EXCEPT ![gen[p]] = TRUE]
      BY <2>6 DEF StoreServed
    <3>4. ChildNow' = ChildNow
      BY <3>2, <3>3 DEF ChildNow
    <3>5. CASE conn = gen[p]
      <4>1. ChildNow = "ready"
        <5>1. conn # 0
          BY <3>1, <3>5 DEF Attempts
        <5> QED BY <2>0, <5>1, SlotReads
      <4>2. ServedNow' = TRUE
        BY <1>0, <3>1, <3>3, <3>5 DEF ServedNow, Attempts
      <4> QED BY <3>3, <3>4, <4>1, <4>2 DEF OneChild!Next, OneChild!Serves, ServedNow
    <3>6. CASE conn # gen[p]
      <4>1. ServedNow' = ServedNow
        <5>1. conn # 0 => conn \in Attempts
          BY DEF IInv, TypeOK, Attempts
        <5> QED BY <1>0, <3>1, <3>3, <3>6, <5>1 DEF ServedNow
      <4> QED BY <3>3, <3>4, <4>1
    <3> QED BY <3>5, <3>6
  <2>7. CASE Evict(p)
    <3>1. \A q \in Callers : pc[q] # "handshake" /\ pc'[q] # "handshake"
      BY <1>0, <2>7 DEF Evict, Unlocked
    <3>2. served' = served /\ pc[p] = "evict"
      BY <2>7 DEF Evict
    <3>3. CASE conn = gen[p]
      <4>1. conn # 0
        BY <3>2, <3>3, GenType DEF Attempts
      <4>2. conn' = 0 /\ strikes' = IF served[conn] THEN 0 ELSE strikes + 1
        BY <2>7, <3>3 DEF Evict, RecordExit
      <4>3. ChildNow = "ready" /\ ChildNow' = "none" /\ ServedNow' = FALSE
        BY <2>0, <3>1, <4>1, <4>2 DEF ChildNow, ServedNow
      <4>4. strikes' = IF ServedNow THEN 0 ELSE strikes + 1
        BY <4>1, <4>2 DEF ServedNow
      <4> QED BY <4>3, <4>4 DEF OneChild!Next, OneChild!Lost, ServedNow
    <3>4. CASE conn # gen[p]
      <4>1. UNCHANGED <<closed, conn, strikes>>
        BY <2>7, <3>4 DEF Evict
      <4> QED BY <3>1, <3>2, <4>1, Unseen DEF ServedNow
    <3> QED BY <3>3, <3>4
  <2> QED BY <1>4, <2>1, <2>2, <2>3, <2>4, <2>5, <2>6, <2>7 DEF Runs, HandshakeDone, HandshakeFail
<1> QED BY <1>1, <1>2, <1>3, <1>4 DEF Next

\* However many calls spawn, share, fail on, evict and drop children, what happens
\* to the child is what ChildSlot allows: the mutex, the identity of the flag and
\* the back-off make of parallel calls one supervisor of one child
\* (RmcpCxpakClient::call, SpawnBackoff).
THEOREM Implements == Spec => ImplementsChildSlot
<1>1. Init => SlotInv
  BY DEF Init, SlotInv, FreshInv, ClosedInv
<1>2. Init => OneChild!Init
  BY DEF Init, OneChild!Init, ChildNow
<1>3. IInv /\ SlotInv /\ [Next]_vars => [OneChild!Next]_<<ChildNow, strikes, ServedNow>>
  BY StepRefines
<1> QED BY <1>1, <1>2, <1>3, StepSlot, Invariance, PTL
       DEF Spec, ImplementsChildSlot, OneChild!Spec, ServedNow
=============================================================================
