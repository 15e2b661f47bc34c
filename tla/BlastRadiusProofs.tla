------------------------- MODULE BlastRadiusProofs -------------------------
(***************************************************************************)
(* What BlastRadius promises of any graph, any changed files and any depth.*)
(*                                                                         *)
(* That what is reported is backed by edges: an entry is queued from an    *)
(* edge of a file that is marked as visited by then, marks are never taken *)
(* back, and an entry is reported as queued.                               *)
(*                                                                         *)
(* That nothing is missed and the worst is reported: the search goes level *)
(* by level.  Reach, a recursive function over Nat, is first shown to be   *)
(* what its definition says, from the least-element principle of the       *)
(* naturals; facts about levels are then proved by induction on sets of    *)
(* naturals (lemma Induction).                                             *)
(***************************************************************************)
EXTENDS BlastRadius, SequenceTheorems, WellFoundedInduction, TLAPS

\* What an edge h hops away may start from, when the files of seen are visited.
Sources(h, seen) == IF h = 1 THEN Changed ELSE seen \ (Changed \union Columns)

Backed(f, h, t, seen) ==
  f \notin Changed /\ \E e \in graph : e[2] = f /\ e[3] = t /\ e[1] \in Sources(h, seen)

QueueInv ==
  \A i \in 1..Len(queue) : Backed(queue[i][1], queue[i][2], queue[i][3], visited)

TodoInv == \A i \in todo : Edges[i] \in graph /\ Edges[i][2] \notin Changed
                             /\ Edges[i][1] \in Sources(at, visited)

IInv == TypeOK /\ QueueInv /\ TodoInv /\ BackedByEdges

\* Edges are triples.
LEMMA EdgeType ==
  ASSUME NEW i \in DOMAIN Edges
  PROVE  Edges[i][1] \in Nodes /\ Edges[i][2] \in Nodes /\ Edges[i][3] \in Types
<1>1. Edges[i] \in Nodes \X Nodes \X Types
  BY BlastAssumption
<1> QED BY <1>1

\* Depths are numbers, and so is what the queue may hold.
LEMMA DepthType ==
  ASSUME TypeOK
  PROVE  depth \in Nat /\ depth <= MaxHops /\ MaxQueued \in Nat \ {0} /\ depth <= MaxQueued
<1>1. depth \in 0..MaxHops /\ MaxHops \in Int
  BY BlastAssumption DEF TypeOK, MaxHops
<1> QED BY <1>1 DEF MaxQueued

\* Marks that are added back what was backed.
LEMMA BackedStays ==
  ASSUME NEW f, NEW h, NEW t, NEW seen, NEW more, seen \subseteq more, Backed(f, h, t, seen)
  PROVE  Backed(f, h, t, more)
BY DEF Backed, Sources

LEMMA SourcesStay ==
  ASSUME NEW h, NEW seen, NEW more, seen \subseteq more
  PROVE  Sources(h, seen) \subseteq Sources(h, more)
BY DEF Sources

\* BackedByEdges, read through Backed.
Reports ==
  \A f \in Nodes : best[f] # NoEntry =>
    /\ f \notin Changed \union Columns /\ best[f].hops <= depth
    /\ \/ f \in covered /\ best[f] = [hops |-> 1, type |-> "import"]
       \/ Backed(f, best[f].hops, best[f].type, visited)

LEMMA Readings == BackedByEdges <=> Reports
BY Zenon DEF BackedByEdges, Reports, Reported, Backed, Sources

LEMMA ReadingsNext == BackedByEdges' <=> Reports'
BY Readings, PTL

LEMMA InitInv == Init => IInv
<1> SUFFICES ASSUME Init PROVE IInv
  OBVIOUS
<1>1. TypeOK
  <2>1. best \in [Nodes -> [hops : 1..MaxHops, type : Types] \union {NoEntry}]
    BY DEF Init
  <2>2. queue \in Seq(Nodes \X (1..MaxQueued) \X Types)
    BY DEF Init
  <2>3. depth \in Nat
    BY BlastAssumption DEF Init
  <2>4. at \in 1..MaxQueued + 1
    BY <2>3 DEF Init, MaxQueued
  <2>5. seeded \in 0..Len(Seeds)
    BY BlastAssumption DEF Init
  <2> QED BY <2>1, <2>2, <2>4, <2>5 DEF Init, TypeOK
<1>2. QueueInv /\ TodoInv /\ BackedByEdges
  BY DEF Init, QueueInv, TodoInv, BackedByEdges, Reported
<1> QED BY <1>1, <1>2 DEF IInv

-----------------------------------------------------------------------------
LEMMA SeedInv == IInv /\ Seed => IInv'
<1> SUFFICES ASSUME IInv, Seed PROVE IInv'
  OBVIOUS
<1> USE DEF IInv
<1> DEFINE s == Seeds[seeded + 1]
<1>1. seeded + 1 \in DOMAIN Seeds /\ s \in Nodes /\ s \in Changed
  BY BlastAssumption DEF Seed, TypeOK, Changed
<1>2. visited' = visited \union {s} /\ at' = 1
      /\ todo' = Dependents(s, visited' \union Changed) /\ UNCHANGED <<inputs, pc, queue, best>>
  BY DEF Seed
<1>3. TypeOK'
  <2>1. seeded' \in 0..Len(Seeds)
    BY BlastAssumption DEF Seed, TypeOK
  <2>2. todo' \subseteq DOMAIN Edges
    BY <1>2 DEF Dependents
  <2>3. MaxQueued' = MaxQueued
    BY <1>2 DEF MaxQueued, inputs
  <2>4. at' \in 1..MaxQueued + 1 /\ at' <= MaxQueued
    BY <1>2, DepthType
  <2> QED BY <1>1, <1>2, <2>1, <2>2, <2>3, <2>4 DEF TypeOK, inputs
<1>4. QueueInv'
  BY <1>2, BackedStays DEF QueueInv, Backed, inputs, Sources
<1>5. TodoInv'
  BY <1>1, <1>2 DEF TodoInv, Dependents, Sources, inputs
<1>6. BackedByEdges'
  <2>1. Reports'
    BY <1>2, Readings DEF Reports, Backed, inputs, Sources
  <2> QED BY <2>1, ReadingsNext
<1> QED BY <1>3, <1>4, <1>5, <1>6

LEMMA EnqueueInv == IInv /\ Enqueue => IInv'
<1> SUFFICES ASSUME IInv, Enqueue PROVE IInv'
  OBVIOUS
<1> USE DEF IInv
<1>1. PICK i \in todo : /\ todo' = todo \ {i}
                        /\ queue' = Append(queue, <<Edges[i][2], at, Edges[i][3]>>)
  BY DEF Enqueue
<1>2. UNCHANGED <<inputs, pc, seeded, at, visited, best>>
  BY DEF Enqueue
<1> DEFINE Q == Nodes \X (1..MaxQueued) \X Types
<1>3. i \in DOMAIN Edges /\ <<Edges[i][2], at, Edges[i][3]>> \in Q /\ queue \in Seq(Q)
  BY <1>1, EdgeType, DepthType DEF TypeOK
<1>4. /\ queue' \in Seq(Q) /\ Len(queue') = Len(queue) + 1
      /\ \A j \in 1..Len(queue) : queue'[j] = queue[j]
      /\ queue'[Len(queue) + 1] = <<Edges[i][2], at, Edges[i][3]>>
  BY <1>1, <1>3
<1>5. TypeOK'
  <2>1. MaxQueued' = MaxQueued
    BY <1>2 DEF MaxQueued, inputs
  <2> QED BY <1>1, <1>2, <1>4, <2>1 DEF TypeOK, inputs
<1>6. QueueInv'
  <2> SUFFICES ASSUME NEW j \in 1..Len(queue')
               PROVE  Backed(queue'[j][1], queue'[j][2], queue'[j][3], visited)
    BY <1>2 DEF QueueInv, Backed, inputs
  <2>1. CASE j \in 1..Len(queue)
    BY <1>4, <2>1 DEF QueueInv
  <2>2. CASE j = Len(queue) + 1
    <3>1. Edges[i] \in graph /\ Edges[i][2] \notin Changed /\ Edges[i][1] \in Sources(at, visited)
      BY <1>1 DEF TodoInv
    <3> QED BY <1>4, <2>2, <3>1 DEF Backed
  <2>3. Len(queue) \in Nat
    BY <1>3, LenProperties
  <2> QED BY <1>4, <2>1, <2>2, <2>3
<1>7. TodoInv'
  BY <1>1, <1>2 DEF TodoInv, inputs, Sources
<1>8. BackedByEdges'
  BY <1>2 DEF BackedByEdges, inputs, Reported
<1> QED BY <1>5, <1>6, <1>7, <1>8

LEMMA SearchInv == IInv /\ Search => IInv'
<1> SUFFICES ASSUME IInv, Search PROVE IInv'
  OBVIOUS
<1> USE DEF IInv
<1> DEFINE Q == Nodes \X (1..MaxQueued) \X Types
           q == Head(queue)
           entry == [hops |-> q[2], type |-> q[3]]
<1>1. queue \in Seq(Q) /\ queue # <<>> /\ queue' = Tail(queue)
  BY DEF Search, TypeOK
<1>2. UNCHANGED <<inputs, pc, seeded>> /\ todo = {}
  BY DEF Search
<1>3. /\ queue' \in Seq(Q) /\ Len(queue) \in Nat \ {0} /\ Len(queue') = Len(queue) - 1
      /\ \A j \in 1..Len(queue') : queue'[j] = queue[j + 1]
      /\ q = queue[1] /\ q \in Q
  BY <1>1
<1>4. Backed(q[1], q[2], q[3], visited)
  BY <1>3 DEF QueueInv
<1>5. q[1] \in Nodes /\ q[2] \in 1..MaxQueued /\ q[3] \in Types
  BY <1>3
<1>6. MaxQueued' = MaxQueued /\ graph' = graph
  BY <1>2 DEF MaxQueued, inputs
<1>7. visited \subseteq visited'
  BY DEF Search
<1>8. QueueInv'
  <2> SUFFICES ASSUME NEW j \in 1..Len(queue')
               PROVE  Backed(queue[j + 1][1], queue[j + 1][2], queue[j + 1][3], visited')
    BY <1>3, <1>6 DEF QueueInv, Backed
  <2>1. j + 1 \in 1..Len(queue)
    BY <1>3
  <2>2. Backed(queue[j + 1][1], queue[j + 1][2], queue[j + 1][3], visited)
    BY <2>1 DEF QueueInv
  <2> QED BY <1>7, <2>2, BackedStays
<1>9. CASE Skip(q)
  <2>1. UNCHANGED <<todo, at, visited, best>>
    BY <1>9 DEF Search
  <2>2. TypeOK'
    BY <1>2, <1>3, <1>6, <2>1 DEF TypeOK, inputs
  <2>3. TodoInv' /\ BackedByEdges'
    BY <1>2, <2>1 DEF TodoInv, BackedByEdges, Reported, inputs
  <2> QED BY <1>8, <2>2, <2>3
<1>10. CASE ~Skip(q)
  <2>1. /\ best' = IF Better(q[1], entry) THEN [best EXCEPT ![q[1]] = entry] ELSE best
        /\ visited' = visited \union {q[1]} /\ at' = q[2] + 1
        /\ todo' = IF Expand(q) THEN Dependents(q[1], visited' \union Changed) ELSE {}
    BY <1>10 DEF Search
  <2>2. q[2] <= depth /\ q[1] \notin Columns /\ q[1] \notin Changed
    BY <1>4, <1>5, <1>10, DepthType DEF Skip, Backed
  <2>3. entry \in [hops : 1..MaxHops, type : Types]
    <3>1. depth \in Nat /\ depth <= MaxHops /\ MaxQueued \in Nat
      BY DepthType
    <3>2. q[2] \in 1..MaxHops
      BY <1>5, <2>2, <3>1, BlastAssumption DEF MaxHops
    <3> QED BY <1>5, <3>2
  <2>4. TypeOK'
    <3>1. todo' \subseteq DOMAIN Edges
      BY <2>1 DEF Dependents
    <3>2. at' \in 1..MaxQueued + 1 /\ (todo' # {} => at' <= MaxQueued)
      BY <1>5, <2>1, DepthType DEF Expand
    <3>3. best' \in [Nodes -> [hops : 1..MaxHops, type : Types] \union {NoEntry}]
      BY <1>5, <2>1, <2>3 DEF TypeOK
    <3>4. visited' \subseteq Nodes
      BY <1>5, <2>1 DEF TypeOK
    <3> QED BY <1>2, <1>3, <1>6, <3>1, <3>2, <3>3, <3>4 DEF TypeOK, inputs
  <2>5. TodoInv'
    <3> SUFFICES ASSUME NEW i \in todo'
                 PROVE  /\ Edges[i] \in graph /\ Edges[i][2] \notin Changed
                        /\ Edges[i][1] \in Sources(at', visited')
      BY <1>6 DEF TodoInv
    <3>1. Edges[i] \in graph /\ Edges[i][1] = q[1] /\ Edges[i][2] \notin Changed
      BY <2>1 DEF Dependents
    <3>2. at' # 1 /\ q[1] \in visited'
      BY <1>5, <2>1
    <3> QED BY <2>2, <3>1, <3>2 DEF Sources
  <2>6. Reports'
    <3> SUFFICES ASSUME NEW f \in Nodes, best'[f] # NoEntry
                 PROVE  /\ f \notin Changed \union Columns /\ best'[f].hops <= depth
                        /\ \/ f \in covered /\ best'[f] = [hops |-> 1, type |-> "import"]
                           \/ Backed(f, best'[f].hops, best'[f].type, visited')
      BY <1>2 DEF Reports, Backed, inputs
    <3>1. CASE best'[f] = best[f]
      <4>1. Reports
        BY Readings
      <4> QED BY <1>7, <3>1, <4>1, BackedStays DEF Reports
    <3>2. CASE best'[f] # best[f]
      <4>1. f = q[1] /\ best'[f] = entry
        BY <1>5, <2>1, <3>2 DEF TypeOK
      <4>2. Backed(q[1], q[2], q[3], visited')
        BY <1>4, <1>7, BackedStays
      <4> QED BY <2>2, <4>1, <4>2
    <3> QED BY <3>1, <3>2
  <2> QED BY <1>8, <2>4, <2>5, <2>6, ReadingsNext
<1> QED BY <1>9, <1>10

LEMMA AddTestsInv == IInv /\ AddTests => IInv'
<1> SUFFICES ASSUME IInv, AddTests PROVE IInv'
  OBVIOUS
<1> USE DEF IInv
<1>1. /\ best' = [f \in Nodes |-> IF f \in LinkedByName
                                 THEN [hops |-> 1, type |-> "import"] ELSE best[f]]
      /\ UNCHANGED <<inputs, seeded, queue, todo, at, visited>> /\ pc' = "done"
  BY DEF AddTests
<1>2. \A f \in LinkedByName : f \in covered /\ f \notin Changed \union Columns /\ 1 <= depth
  BY BlastAssumption, DepthType DEF LinkedByName, TypeOK
<1>3. TypeOK'
  <2>1. LinkedByName # {} => [hops |-> 1, type |-> "import"] \in [hops : 1..MaxHops, type : Types]
    BY <1>2, DepthType, BlastAssumption DEF MaxHops
  <2>2. best' \in [Nodes -> [hops : 1..MaxHops, type : Types] \union {NoEntry}]
    BY <1>1, <2>1 DEF TypeOK
  <2>3. MaxQueued' = MaxQueued
    BY <1>1 DEF MaxQueued, inputs
  <2> QED BY <1>1, <2>2, <2>3 DEF TypeOK, inputs
<1>4. QueueInv' /\ TodoInv'
  BY <1>1 DEF QueueInv, TodoInv, Backed, Sources, inputs
<1>5. Reports'
  <2> SUFFICES ASSUME NEW f \in Nodes, best'[f] # NoEntry
               PROVE  /\ f \notin Changed \union Columns /\ best'[f].hops <= depth
                      /\ \/ f \in covered /\ best'[f] = [hops |-> 1, type |-> "import"]
                         \/ Backed(f, best'[f].hops, best'[f].type, visited)
    BY <1>1 DEF Reports, Backed, inputs
  <2>1. CASE f \in LinkedByName
    BY <1>1, <1>2, <2>1
  <2>2. CASE f \notin LinkedByName
    <3>1. best'[f] = best[f] /\ Reports
      BY <1>1, <2>2, Readings
    <3> QED BY <3>1 DEF Reports
  <2> QED BY <2>1, <2>2
<1> QED BY <1>3, <1>4, <1>5, ReadingsNext

LEMMA StepInv == IInv /\ [Next]_vars => IInv'
<1> SUFFICES ASSUME IInv, [Next]_vars PROVE IInv'
  OBVIOUS
<1>1. CASE Seeded \/ Searched \/ UNCHANGED vars
  <2>1. UNCHANGED <<inputs, seeded, queue, todo, at, visited, best>>
        /\ pc' \in {pc, "search", "tests"}
    BY <1>1 DEF Seeded, Searched, vars
  <2>2. MaxQueued' = MaxQueued
    BY <2>1 DEF MaxQueued, inputs
  <2> QED BY <2>1, <2>2 DEF IInv, TypeOK, QueueInv, TodoInv, BackedByEdges, Reported, Backed,
    Sources, inputs
<1> QED BY <1>1, SeedInv, EnqueueInv, SearchInv, AddTestsInv DEF Next

LEMMA Invariance == Spec => []IInv
BY InitInv, StepInv, PTL DEF Spec

\* The type invariant, with the bound on what is queued.
THEOREM TypeCorrect == Spec => []TypeOK
<1>1. IInv => TypeOK
  BY DEF IInv
<1> QED BY <1>1, Invariance, PTL

\* No report without an edge: what compute_blast_radius lists is backed by the
\* graph at every step, with the hops and the type it is listed with.
THEOREM ReportsBacked == Spec => []BackedByEdges
<1>1. IInv => BackedByEdges
  BY DEF IInv
<1> QED BY <1>1, Invariance, PTL

-----------------------------------------------------------------------------
(***************************************************************************)
(* The levels of the graph.                                                *)
(***************************************************************************)
\* Induction over the naturals, with a set for the predicate.
LEMMA Induction ==
  ASSUME NEW X, 0 \in X, \A n \in Nat : n \in X => n + 1 \in X
  PROVE  Nat \subseteq X
<1> DEFINE R == OpToRel(<, Nat)
           T == Nat \ X
<1>1. IsWellFoundedOn(R, Nat)
  BY NatLessThanWellFounded
<1> SUFFICES ASSUME T # {} PROVE FALSE
  OBVIOUS
<1>2. T \subseteq Nat
  OBVIOUS
<1>5. PICK x \in T : \A y \in T : ~(<<y, x>> \in R)
  <2> HIDE DEF T, R
  <2> QED BY <1>1, <1>2, WFMin, Zenon
<1>3. x # 0 /\ x - 1 \in Nat /\ x - 1 \in T
  OBVIOUS
<1>4. <<x - 1, x>> \in R
  BY <1>3 DEF OpToRel
<1> QED BY <1>5, <1>3, <1>4

\* One edge further.
Further(X) == X \union {e[2] : e \in {x \in graph : x[1] \in X /\ x[2] \notin Columns}}

LEMMA ReachStays == graph' = graph => Reach' = Reach
BY DEF Reach


\* g is the levels up to n.
LevelsTo(g, n) ==
  \A m \in 0..n : g[m] = IF m = 0 THEN Changed ELSE Further(g[m - 1])

LEMMA LevelsExist == \A n \in Nat : \E g : LevelsTo(g, n)
<1> DEFINE X == {n \in Nat : \E g : LevelsTo(g, n)}
<1>1. 0 \in X
  <2>1. LevelsTo([m \in {0} |-> Changed], 0)
    BY DEF LevelsTo
  <2> QED BY <2>1
<1>2. \A n \in Nat : n \in X => n + 1 \in X
  <2> SUFFICES ASSUME NEW n \in Nat, NEW g, LevelsTo(g, n)
               PROVE  \E h : LevelsTo(h, n + 1)
    OBVIOUS
  <2> DEFINE h == [m \in 0..n + 1 |-> IF m = n + 1 THEN Further(g[n]) ELSE g[m]]
  <2>1. \A m \in 0..n + 1 : h[m] = IF m = 0 THEN Changed ELSE Further(h[m - 1])
    BY DEF LevelsTo
  <2> QED BY <2>1 DEF LevelsTo
<1>3. Nat \subseteq X
  <2> HIDE DEF X
  <2> QED BY <1>1, <1>2, Induction
<1> QED BY <1>3

LEMMA LevelsUnique ==
  ASSUME NEW g, NEW n \in Nat, LevelsTo(g, n), NEW h, NEW m \in Nat, LevelsTo(h, m)
  PROVE  \A k \in Nat : k <= n /\ k <= m => g[k] = h[k]
<1> DEFINE X == {k \in Nat : k <= n /\ k <= m => g[k] = h[k]}
<1>1. 0 \in X
  BY DEF LevelsTo
<1>2. \A k \in Nat : k \in X => k + 1 \in X
  <2> SUFFICES ASSUME NEW k \in Nat, k \in X, k + 1 <= n, k + 1 <= m
               PROVE  g[k + 1] = h[k + 1]
    OBVIOUS
  <2>1. g[k] = h[k]
    OBVIOUS
  <2>2. k + 1 \in 0..n /\ k + 1 \in 0..m /\ k + 1 # 0 /\ (k + 1) - 1 = k
    OBVIOUS
  <2>3. g[k + 1] = Further(g[k]) /\ h[k + 1] = Further(h[k])
    BY <2>2 DEF LevelsTo
  <2> QED BY <2>1, <2>3
<1>3. Nat \subseteq X
  <2> HIDE DEF X
  <2> QED BY <1>1, <1>2, Induction
<1> QED BY <1>3

\* The recursion is what it says.
LEMMA ReachSteps ==
  Reach[0] = Changed /\ \A n \in Nat : Reach[n + 1] = Further(Reach[n])
<1> DEFINE G(g) == [n \in Nat |-> IF n = 0 THEN Changed ELSE Further(g[n - 1])]
           L(n) == CHOOSE g : LevelsTo(g, n)
           F == [n \in Nat |-> L(n)[n]]
<1>1. \A n \in Nat : LevelsTo(L(n), n)
  BY LevelsExist
<1>2. ASSUME NEW n \in Nat PROVE F[n] = IF n = 0 THEN Changed ELSE Further(F[n - 1])
  <2>1. L(n)[n] = IF n = 0 THEN Changed ELSE Further(L(n)[n - 1])
    BY <1>1 DEF LevelsTo
  <2>2. CASE n # 0
    <3>1. n - 1 \in Nat /\ LevelsTo(L(n), n) /\ LevelsTo(L(n - 1), n - 1)
      BY <1>1, <2>2
    <3> HIDE DEF L
    <3>2. L(n)[n - 1] = L(n - 1)[n - 1]
      BY <3>1, LevelsUnique
    <3> QED BY <2>1, <2>2, <3>1, <3>2
  <2> QED BY <2>1, <2>2
<1>3. F = G(F)
  <2> HIDE DEF L
  <2> QED BY <1>2
<1>4. Reach = CHOOSE g : g = G(g)
  BY DEF Reach, Further
<1>5. Reach = G(Reach)
  <2> HIDE DEF F, G
  <2> QED BY <1>3, <1>4
<1>6. \A n \in Nat : Reach[n] = IF n = 0 THEN Changed ELSE Further(Reach[n - 1])
  <2> HIDE DEF F, L
  <2> QED BY <1>5, Zenon
<1>7. \A n \in Nat : n + 1 \in Nat /\ n + 1 # 0 /\ (n + 1) - 1 = n
  OBVIOUS
<1> QED BY <1>6, <1>7

LEMMA ReachEdge ==
  ASSUME NEW n \in Nat, NEW e \in graph, e[1] \in Reach[n], e[2] \notin Columns
  PROVE  e[2] \in Reach[n + 1]
BY ReachSteps DEF Further

LEMMA ReachFrom ==
  ASSUME NEW n \in Nat, NEW f \in Reach[n + 1], f \notin Reach[n]
  PROVE  \E e \in graph : e[2] = f /\ e[1] \in Reach[n] /\ f \notin Columns
BY ReachSteps DEF Further

LEMMA ReachGrows ==
  ASSUME NEW m \in Nat
  PROVE  \A n \in Nat : m <= n => Reach[m] \subseteq Reach[n]
<1> DEFINE X == {n \in Nat : m <= n => Reach[m] \subseteq Reach[n]}
<1>1. 0 \in X
  OBVIOUS
<1>2. \A n \in Nat : n \in X => n + 1 \in X
  <2> SUFFICES ASSUME NEW n \in Nat, n \in X, m <= n + 1
               PROVE  Reach[m] \subseteq Reach[n + 1]
    OBVIOUS
  <2>1. Reach[n] \subseteq Reach[n + 1]
    BY ReachSteps DEF Further
  <2>2. m = n + 1 \/ m <= n
    OBVIOUS
  <2> QED BY <2>1, <2>2
<1>3. Nat \subseteq X
  <2> HIDE DEF X
  <2> QED BY <1>1, <1>2, Induction
<1> QED BY <1>3

LEMMA EdgePosition ==
  ASSUME TypeOK, NEW e \in graph
  PROVE  \E i \in DOMAIN Edges : Edges[i] = e /\ e = <<e[1], e[2], e[3]>>
                                  /\ e[1] \in Nodes /\ e[2] \in Nodes /\ e[3] \in Types
<1>1. PICK i \in DOMAIN Edges : Edges[i] = e
  BY DEF TypeOK
<1>2. Edges[i] \in Nodes \X Nodes \X Types
  BY BlastAssumption
<1> QED BY <1>1, <1>2

\* Column nodes are reached by nothing, but may be changed themselves.
LEMMA ReachType ==
  ASSUME TypeOK
  PROVE  \A n \in Nat : Reach[n] \subseteq Nodes /\ Reach[n] \intersect Columns \subseteq Changed
<1> DEFINE X == {n \in Nat : Reach[n] \subseteq Nodes /\ Reach[n] \intersect Columns \subseteq Changed}
<1>1. 0 \in X
  <2>1. Changed \subseteq Nodes
    BY BlastAssumption DEF Changed
  <2> QED BY <2>1, ReachSteps
<1>2. \A n \in Nat : n \in X => n + 1 \in X
  <2> SUFFICES ASSUME NEW n \in Nat, n \in X, NEW f \in Reach[n + 1]
               PROVE  f \in Nodes /\ (f \in Columns => f \in Changed)
    OBVIOUS
  <2>1. CASE f \in Reach[n]
    BY <2>1
  <2>2. CASE f \notin Reach[n]
    <3>1. PICK e \in graph : e[2] = f /\ f \notin Columns
      BY <2>2, ReachFrom
    <3> QED BY <3>1, EdgePosition
  <2> QED BY <2>1, <2>2
<1>3. Nat \subseteq X
  <2> HIDE DEF X
  <2> QED BY <1>1, <1>2, Induction
<1> QED BY <1>3

\* What is reached and not changed has a distance, the first level it is in.
LEMMA DistanceIs ==
  ASSUME NEW n \in 0..MaxHops, NEW f \in Reach[n] \ Changed
  PROVE  /\ Distance(f) \in 1..n
         /\ f \in Reach[Distance(f)] /\ f \notin Reach[Distance(f) - 1]
<1> DEFINE first(d) == f \in Reach[d] /\ f \notin Reach[d - 1]
           X == {m \in Nat : f \in Reach[m] => \E d \in 1..m : first(d)}
<1>0. n \in Nat /\ MaxHops \in Nat /\ n <= MaxHops
  BY BlastAssumption DEF MaxHops
<1>1. 0 \in X
  <2>1. f \notin Reach[0]
    BY ReachSteps
  <2> QED BY <2>1
<1>2. \A m \in Nat : m \in X => m + 1 \in X
  <2> SUFFICES ASSUME NEW m \in Nat, m \in X, f \in Reach[m + 1]
               PROVE  \E d \in 1..m + 1 : first(d)
    OBVIOUS
  <2>1. CASE f \in Reach[m]
    BY <2>1
  <2>2. CASE f \notin Reach[m]
    <3>1. first(m + 1)
      BY <2>2
    <3> QED BY <3>1
  <2> QED BY <2>1, <2>2
<1>3. Nat \subseteq X
  <2> HIDE DEF X
  <2> QED BY <1>1, <1>2, Induction
<1>4. \E d \in 1..n : first(d)
  BY <1>0, <1>3
<1>5. Distance(f) \in 1..MaxHops /\ first(Distance(f))
  <2>1. \E d \in 1..MaxHops : first(d)
    BY <1>0, <1>4
  <2>2. Distance(f) = CHOOSE d \in 1..MaxHops : first(d)
    BY DEF Distance
  <2> HIDE DEF first
  <2> QED BY <2>1, <2>2, Zenon
<1>6. Distance(f) <= n
  <2> SUFFICES ASSUME n < Distance(f) PROVE FALSE
    BY <1>0, <1>5
  <2>1. Distance(f) - 1 \in Nat /\ n <= Distance(f) - 1
    BY <1>0, <1>5
  <2> QED BY <1>0, <1>5, <2>1, ReachGrows
<1> QED BY <1>0, <1>5, <1>6

LEMMA ImpactType ==
  ASSUME TypeOK, NEW f \in Nodes, NEW entry \in [hops : Nat, type : Types]
  PROVE  Impact(f, entry) \in Nat
<1>1. rank[f] \in Nat /\ Weight[entry.type] \in Nat /\ Scale \in Nat /\ entry.hops + 1 \in Nat \ {0}
  BY BlastAssumption DEF TypeOK
<1>2. Weight[entry.type] * Scale \in Nat
  BY <1>1
<1> DEFINE w == Weight[entry.type] * Scale
<1>3. w \div (entry.hops + 1) \in Nat
  <2> HIDE DEF w
  <2> QED BY <1>1, <1>2 DEF w
<1> QED BY <1>1, <1>3 DEF Impact
-----------------------------------------------------------------------------
(***************************************************************************)
(* The search goes level by level.  The queue spans two levels, in order;  *)
(* a file that was visited has its dependents visited or queued, at most   *)
(* one level later; and of every edge to a file further away, the entry is *)
(* queued, or the file is reported with something at least as bad.         *)
(***************************************************************************)
SeedsDone ==
  /\ \A i \in 1..seeded : Seeds[i] \in visited
  /\ pc # "seeds" => seeded = Len(Seeds)
  /\ pc \in {"tests", "done"} => queue = <<>> /\ todo = {}

Levels ==
  /\ \A i \in 1..Len(queue) : queue[i][2] \in {at - 1, at}
  /\ \A i, j \in 1..Len(queue) : i <= j => queue[i][2] <= queue[j][2]
  /\ pc = "seeds" => at = 1
  /\ visited \subseteq Reach[at - 1]

\* Nothing is queued or reported that is not reached in as many hops, but tests
\* found by their name.
Sound ==
  /\ \A i \in 1..Len(queue) : queue[i][1] \notin Columns => queue[i][1] \in Reach[queue[i][2]]
  /\ \A i \in todo : Edges[i][1] \in Reach[at - 1]
  /\ visited \ Changed \subseteq Reported
  /\ \A f \in Reported :
       \/ f \in visited /\ f \in Reach[best[f].hops]
       \/ pc = "done" /\ depth >= 1 /\ f \in covered /\ f \notin Changed \union Reach[depth]
  /\ pc = "done" /\ depth >= 1 => covered \ Changed \subseteq Reported

\* Nor in more than one hop too many.
AtMost ==
  \A d \in Nat :
    /\ \A i \in 1..Len(queue) : queue[i][1] \in Reach[d] => queue[i][2] <= d + 1
    /\ \A i \in todo : Edges[i][2] \in Reach[d] => at <= d + 1
    /\ \A f \in Reported : f \in Reach[d] => best[f].hops <= d + 1

\* Edges from files that had their turn, and those of them that lead further.
Taken(d) ==
  {e \in graph : e[1] \in Reach[d] /\ e[1] \in visited /\ e[2] \notin Columns \union Changed}

Closed ==
  \A d \in Nat : d < depth => \A e \in Taken(d) :
    \/ e[2] \in visited
    \/ \E i \in 1..Len(queue) : queue[i][1] = e[2] /\ queue[i][2] <= d + 1
    \/ \E i \in todo : Edges[i][2] = e[2] /\ at <= d + 1

\* The report of f is at least as bad as entry.
Covers(f, entry) ==
  /\ best[f] # NoEntry
  /\ \/ Impact(f, best[f]) > Impact(f, entry)
     \/ Impact(f, best[f]) = Impact(f, entry) /\ best[f].hops <= entry.hops

Weighed ==
  \A d \in Nat : d < depth => \A e \in Taken(d) : e[2] \notin Reach[d] =>
    \/ Covers(e[2], [hops |-> d + 1, type |-> e[3]])
    \/ \E i \in 1..Len(queue) : queue[i] = <<e[2], d + 1, e[3]>>
    \/ \E i \in todo : Edges[i] = e /\ at = d + 1

LevelInv == SeedsDone /\ Levels /\ Sound /\ AtMost /\ Closed /\ Weighed

\* Types of the variables, as the proofs below need them.
LEMMA ValueTypes ==
  ASSUME TypeOK
  PROVE  /\ depth \in Nat /\ depth <= MaxHops /\ at \in Nat \ {0} /\ Len(queue) \in Nat
         /\ \A i \in 1..Len(queue) : /\ queue[i] = <<queue[i][1], queue[i][2], queue[i][3]>>
                                     /\ queue[i][1] \in Nodes /\ queue[i][2] \in Nat \ {0}
                                     /\ queue[i][3] \in Types
<1> DEFINE Q == Nodes \X (1..MaxQueued) \X Types
<1>1. queue \in Seq(Q) /\ at \in 1..MaxQueued + 1
  BY DEF TypeOK
<1>2. \A i \in 1..Len(queue) : queue[i] \in Q
  BY <1>1
<1> QED BY <1>1, <1>2, DepthType

\* All of a level is visited once nothing of it, or of the levels before it, is
\* queued.
LEMMA LevelVisited ==
  ASSUME IInv, SeedsDone, Closed, pc # "seeds", NEW n \in Nat, n <= depth,
         \A i \in 1..Len(queue) : queue[i][2] > n,
         todo # {} => at > n
  PROVE  Reach[n] \subseteq visited
<1> USE DEF IInv
<1>0. Changed \subseteq visited
  BY BlastAssumption DEF SeedsDone, Changed
<1> DEFINE X == {m \in Nat : m <= n => Reach[m] \subseteq visited}
<1>1. 0 \in X
  BY <1>0, ReachSteps
<1>2. \A m \in Nat : m \in X => m + 1 \in X
  <2> SUFFICES ASSUME NEW m \in Nat, m \in X, m + 1 <= n, NEW f \in Reach[m + 1], f \notin visited
               PROVE  FALSE
    OBVIOUS
  <2>1. f \notin Reach[m] /\ f \notin Changed /\ Reach[m] \subseteq visited
    BY <1>0
  <2>2. PICK e \in graph : e[2] = f /\ e[1] \in Reach[m] /\ f \notin Columns
    BY <2>1, ReachFrom
  <2>3. e \in Taken(m) /\ m < depth
    BY <2>1, <2>2, ValueTypes DEF Taken
  <2>4. \/ \E i \in 1..Len(queue) : queue[i][2] <= m + 1
        \/ todo # {} /\ at <= m + 1
    BY <2>2, <2>3 DEF Closed
  <2>5. \A i \in 1..Len(queue) : queue[i][2] \in Nat
    BY ValueTypes
  <2>6. at \in Nat
    BY ValueTypes
  <2> QED BY <2>4, <2>5, <2>6
<1>3. Nat \subseteq X
  <2> HIDE DEF X
  <2> QED BY <1>1, <1>2, Induction
<1> QED BY <1>3

LEMMA InitLevels == Init => LevelInv
<1> SUFFICES ASSUME Init PROVE LevelInv
  OBVIOUS
<1>1. Len(queue) = 0 /\ todo = {} /\ visited = {} /\ Reported = {}
  BY DEF Init, Reported
<1>2. SeedsDone /\ Levels
  BY <1>1 DEF Init, SeedsDone, Levels
<1>3. Sound
  BY <1>1 DEF Init, Sound
<1>4. AtMost /\ Closed /\ Weighed
  BY <1>1 DEF AtMost, Closed, Weighed, Taken
<1> QED BY <1>2, <1>3, <1>4 DEF LevelInv

\* What does not change the inputs changes neither levels nor risks.
LEMMA InputsStay ==
  ASSUME UNCHANGED inputs
  PROVE  /\ graph' = graph /\ covered' = covered /\ depth' = depth /\ Reach' = Reach
         /\ \A f, entry : Impact(f, entry)' = Impact(f, entry)
BY ReachStays DEF inputs, Impact

LEMMA SeedLevels == IInv /\ LevelInv /\ Seed => LevelInv'
<1> SUFFICES ASSUME IInv, LevelInv, Seed PROVE LevelInv'
  OBVIOUS
<1> USE DEF IInv, LevelInv
<1> DEFINE s == Seeds[seeded + 1]
<1>1. seeded + 1 \in DOMAIN Seeds /\ s \in Nodes /\ s \in Changed /\ seeded \in Nat
  BY BlastAssumption DEF Seed, TypeOK, Changed
<1>2. /\ pc = "seeds" /\ todo = {} /\ visited' = visited \union {s} /\ at' = 1
      /\ todo' = Dependents(s, visited' \union Changed)
      /\ seeded' = seeded + 1 /\ UNCHANGED <<inputs, pc, queue, best>>
  BY DEF Seed
<1>3. graph' = graph /\ covered' = covered /\ depth' = depth /\ Reach' = Reach /\ Reported' = Reported
      /\ (\A f, entry : Impact(f, entry)' = Impact(f, entry)) /\ at = 1 /\ Reach[0] = Changed
  BY <1>2, InputsStay, ReachSteps DEF Reported, Levels
<1>4. SeedsDone'
  BY <1>1, <1>2 DEF SeedsDone
<1>5. Levels'
  BY <1>1, <1>2, <1>3 DEF Levels
<1>6. \A i \in todo' : /\ i \in DOMAIN Edges /\ Edges[i][1] = s
  BY <1>2 DEF Dependents
<1>7. Sound'
  <2>1. \A i \in 1..Len(queue') : queue'[i][1] \notin Columns => queue'[i][1] \in Reach[queue'[i][2]]
    BY <1>2 DEF Sound
  <2>2. \A i \in todo' : Edges[i][1] \in Reach[at' - 1]
    <3>1. at' - 1 = 0
      BY <1>2
    <3>2. s \in Reach[at' - 1]
      BY <1>1, <1>3, <3>1
    <3> QED BY <1>6, <3>2
  <2>3. visited' \ Changed \subseteq Reported
    BY <1>1, <1>2 DEF Sound
  <2>4. \A f \in Reported : f \in visited' /\ f \in Reach[best[f].hops]
    BY <1>2 DEF Sound
  <2> QED BY <1>2, <1>3, <2>1, <2>2, <2>3, <2>4 DEF Sound
<1>8. AtMost'
  BY <1>2, <1>3 DEF AtMost
<1>9. ASSUME NEW e \in graph, e[1] = s, e[2] \notin Changed, e[2] \notin visited'
      PROVE  \E i \in todo' : Edges[i] = e
  BY <1>2, <1>9, EdgePosition DEF Dependents
<1>10. \A d : Taken(d)' = {e \in graph : /\ e[1] \in Reach[d] /\ e[1] \in visited \union {s}
                                         /\ e[2] \notin Columns \union Changed}
  BY <1>2, <1>3 DEF Taken
<1>11. Closed'
  <2> SUFFICES ASSUME NEW d \in Nat, d < depth, NEW e \in Taken(d)', e[2] \notin visited'
               PROVE  \/ \E i \in 1..Len(queue) : queue[i][1] = e[2] /\ queue[i][2] <= d + 1
                      \/ \E i \in todo' : Edges[i][2] = e[2] /\ 1 <= d + 1
    BY <1>2, <1>3 DEF Closed
  <2>1. CASE e[1] = s
    BY <1>9, <1>10, <2>1
  <2>2. CASE e[1] # s
    <3>1. e \in Taken(d) /\ e[2] \notin visited
      BY <1>2, <1>10, <2>2 DEF Taken
    <3> QED BY <1>2, <3>1 DEF Closed
  <2> QED BY <2>1, <2>2
<1>12. Weighed'
  <2> SUFFICES ASSUME NEW d \in Nat, d < depth, NEW e \in Taken(d)', e[2] \notin Reach[d]
               PROVE  \/ Covers(e[2], [hops |-> d + 1, type |-> e[3]])
                      \/ \E i \in 1..Len(queue) : queue[i] = <<e[2], d + 1, e[3]>>
                      \/ \E i \in todo' : Edges[i] = e /\ 1 = d + 1
    <3>1. \A f, entry : Covers(f, entry)' <=> Covers(f, entry)
      BY <1>2, <1>3 DEF Covers
    <3> QED BY <1>2, <1>3, <3>1 DEF Weighed
  <2>1. CASE e[1] = s
    <3>1. e \in graph /\ e[2] \notin Columns \union Changed /\ e[1] \in Reach[0]
      BY <1>1, <1>3, <1>10, <2>1
    <3>2. e[2] \in Reach[1]
      BY <3>1, ReachEdge
    <3>3. d = 0
      BY <3>2, ReachGrows
    <3>4. e[2] \notin visited'
      BY <1>3, <1>5, <1>2, <3>3 DEF Levels
    <3> QED BY <1>9, <2>1, <3>1, <3>3, <3>4
  <2>2. CASE e[1] # s
    <3>1. e \in Taken(d)
      BY <1>10, <2>2 DEF Taken
    <3> QED BY <1>2, <3>1 DEF Weighed
  <2> QED BY <2>1, <2>2
<1> QED BY <1>4, <1>5, <1>7, <1>8, <1>11, <1>12

LEMMA EnqueueLevels == IInv /\ LevelInv /\ Enqueue => LevelInv'
<1> SUFFICES ASSUME IInv, LevelInv, Enqueue PROVE LevelInv'
  OBVIOUS
<1> USE DEF IInv, LevelInv
<1>1. PICK k \in todo : /\ todo' = todo \ {k}
                        /\ queue' = Append(queue, <<Edges[k][2], at, Edges[k][3]>>)
  BY DEF Enqueue
<1>2. UNCHANGED <<inputs, pc, seeded, at, visited, best>>
  BY DEF Enqueue
<1>3. /\ graph' = graph /\ covered' = covered /\ depth' = depth /\ Reach' = Reach
      /\ Reported' = Reported /\ \A f, entry : Covers(f, entry)' <=> Covers(f, entry)
  BY <1>2, InputsStay DEF Reported, Covers
<1>4. /\ k \in DOMAIN Edges /\ Edges[k] = <<Edges[k][1], Edges[k][2], Edges[k][3]>>
      /\ Edges[k] \in graph /\ Edges[k][1] \in Reach[at - 1] /\ at \in Nat \ {0}
      /\ Len(queue) \in Nat
  BY <1>1, ValueTypes, EdgePosition DEF Sound, TodoInv, TypeOK
<1> DEFINE n == Len(queue) + 1
           entry == <<Edges[k][2], at, Edges[k][3]>>
<1>5. /\ Len(queue') = n /\ \A j \in 1..Len(queue) : queue'[j] = queue[j]
      /\ queue'[n] = entry
  <2>1. queue \in Seq(Nodes \X (1..MaxQueued) \X Types)
    BY DEF TypeOK
  <2> QED BY <1>1, <2>1
<1>6. \A j \in 1..n : j \in 1..Len(queue) \/ j = n
  BY <1>4
<1>7. SeedsDone'
  BY <1>1, <1>2 DEF SeedsDone
<1>8. Levels'
  <2>1. \A j \in 1..n : queue'[j][2] \in {at - 1, at} /\ queue'[n][2] = at
    BY <1>4, <1>5, <1>6 DEF Levels
  <2>2. \A i, j \in 1..n : i <= j => queue'[i][2] <= queue'[j][2]
    <3> SUFFICES ASSUME NEW i \in 1..n, NEW j \in 1..n, i <= j
                 PROVE  queue'[i][2] <= queue'[j][2]
      OBVIOUS
    <3>1. CASE j = n
      BY <1>4, <2>1, <3>1
    <3>2. CASE j # n
      BY <1>4, <1>5, <3>2 DEF Levels
    <3> QED BY <3>1, <3>2
  <2> QED BY <1>2, <1>3, <1>5, <2>1, <2>2 DEF Levels
<1>9. Sound'
  <2>1. entry[1] \notin Columns => entry[1] \in Reach[entry[2]]
    <3>1. at - 1 \in Nat /\ (at - 1) + 1 = at
      BY <1>4
    <3> QED BY <1>4, <3>1, ReachEdge
  <2>2. \A j \in 1..n : queue'[j][1] \notin Columns => queue'[j][1] \in Reach[queue'[j][2]]
    BY <1>5, <1>6, <2>1 DEF Sound
  <2> QED BY <1>1, <1>2, <1>3, <1>5, <2>2 DEF Sound
<1>10. AtMost'
  <2> SUFFICES ASSUME NEW d \in Nat
               PROVE  /\ \A i \in 1..n : queue'[i][1] \in Reach[d] => queue'[i][2] <= d + 1
                      /\ \A i \in todo' : Edges[i][2] \in Reach[d] => at <= d + 1
                      /\ \A f \in Reported : f \in Reach[d] => best[f].hops <= d + 1
    BY <1>2, <1>3, <1>5 DEF AtMost
  <2>1. \A i \in 1..n : queue'[i][1] \in Reach[d] => queue'[i][2] <= d + 1
    BY <1>1, <1>5, <1>6 DEF AtMost
  <2> QED BY <1>1, <2>1 DEF AtMost
<1>11. \A d : Taken(d)' = Taken(d)
  BY <1>2, <1>3 DEF Taken
<1>12. Closed'
  <2> SUFFICES ASSUME NEW d \in Nat, d < depth, NEW e \in Taken(d), e[2] \notin visited
               PROVE  \/ \E i \in 1..n : queue'[i][1] = e[2] /\ queue'[i][2] <= d + 1
                      \/ \E i \in todo' : Edges[i][2] = e[2] /\ at <= d + 1
    BY <1>2, <1>3, <1>5, <1>11 DEF Closed
  <2>1. CASE \E i \in 1..Len(queue) : queue[i][1] = e[2] /\ queue[i][2] <= d + 1
    BY <1>4, <1>5, <2>1
  <2>2. CASE \E i \in todo : Edges[i][2] = e[2] /\ at <= d + 1
    <3>1. PICK i \in todo : Edges[i][2] = e[2] /\ at <= d + 1
      BY <2>2
    <3>2. CASE i = k
      <4>1. n \in 1..n /\ queue'[n][1] = e[2] /\ queue'[n][2] <= d + 1
        BY <1>4, <1>5, <3>1, <3>2
      <4> QED BY <4>1
    <3>3. CASE i # k
      BY <1>1, <3>1, <3>3
    <3> QED BY <3>2, <3>3
  <2> QED BY <2>1, <2>2 DEF Closed
<1>13. Weighed'
  <2> SUFFICES ASSUME NEW d \in Nat, d < depth, NEW e \in Taken(d), e[2] \notin Reach[d]
               PROVE  \/ Covers(e[2], [hops |-> d + 1, type |-> e[3]])
                      \/ \E i \in 1..n : queue'[i] = <<e[2], d + 1, e[3]>>
                      \/ \E i \in todo' : Edges[i] = e /\ at = d + 1
    BY <1>2, <1>3, <1>5, <1>11 DEF Weighed
  <2>1. CASE \E i \in 1..Len(queue) : queue[i] = <<e[2], d + 1, e[3]>>
    BY <1>4, <1>5, <2>1
  <2>2. CASE \E i \in todo : Edges[i] = e /\ at = d + 1
    <3>1. PICK i \in todo : Edges[i] = e /\ at = d + 1
      BY <2>2
    <3>2. CASE i = k
      <4>1. n \in 1..n /\ queue'[n] = <<e[2], d + 1, e[3]>>
        BY <1>4, <1>5, <3>1, <3>2
      <4> QED BY <4>1
    <3>3. CASE i # k
      BY <1>1, <3>1, <3>3
    <3> QED BY <3>2, <3>3
  <2> QED BY <2>1, <2>2 DEF Weighed
<1> QED BY <1>7, <1>8, <1>9, <1>10, <1>12, <1>13

\* An entry that is not better is covered; one that is covers it and all that the
\* entry before it did.
LEMMA BetterCovers ==
  ASSUME TypeOK, NEW f \in Nodes, NEW entry \in [hops : Nat \ {0}, type : Types],
         UNCHANGED inputs,
         best' = IF Better(f, entry) THEN [best EXCEPT ![f] = entry] ELSE best
  PROVE  /\ Covers(f, entry)'
         /\ \A g \in Nodes, old \in [hops : Nat, type : Types] : Covers(g, old) => Covers(g, old)'
<1>1. \A g, x : Impact(g, x)' = Impact(g, x)
  BY InputsStay
<1>2. entry # NoEntry /\ entry \in [hops : Nat, type : Types] /\ entry.hops \in Nat
  BY DEF NoEntry
<1>3. best \in [Nodes -> [hops : 1..MaxHops, type : Types] \union {NoEntry}] /\ MaxHops \in Nat
  BY BlastAssumption DEF TypeOK, MaxHops
<1>4. \A g \in Nodes : best[g] # NoEntry =>
        best[g] \in [hops : Nat, type : Types] /\ best[g].hops \in Nat /\ Impact(g, best[g]) \in Nat
  <2> SUFFICES ASSUME NEW g \in Nodes, best[g] # NoEntry
               PROVE  /\ best[g] \in [hops : Nat, type : Types] /\ best[g].hops \in Nat
                      /\ Impact(g, best[g]) \in Nat
    OBVIOUS
  <2>1. best[g] \in [hops : 1..MaxHops, type : Types]
    BY <1>3
  <2>2. best[g] \in [hops : Nat, type : Types] /\ best[g].hops \in Nat
    BY <1>3, <2>1
  <2> QED BY <2>2, ImpactType
<1>5. Impact(f, entry) \in Nat
  BY <1>2, ImpactType
<1>6. CASE Better(f, entry)
  <2>1. best'[f] = entry /\ \A g \in Nodes : g # f => best'[g] = best[g]
    BY <1>3, <1>6
  <2>2. Covers(f, entry)'
    BY <1>1, <1>2, <2>1 DEF Covers, NoEntry
  <2>3. ASSUME NEW g \in Nodes, NEW old \in [hops : Nat, type : Types], Covers(g, old)
        PROVE  Covers(g, old)'
    <3>0. Impact(g, old) \in Nat /\ old.hops \in Nat
      BY ImpactType
    <3>1. CASE g # f
      BY <1>1, <2>1, <2>3, <3>1 DEF Covers, NoEntry
    <3>2. CASE g = f
      <4>1. best[f] # NoEntry /\ Impact(f, best[f]) \in Nat /\ best[f].hops \in Nat
        BY <1>4, <2>3, <3>2 DEF Covers
      <4>2. \/ Impact(f, entry) > Impact(f, old)
            \/ Impact(f, entry) = Impact(f, old) /\ entry.hops <= old.hops
        BY <1>2, <1>5, <1>6, <2>3, <3>0, <3>2, <4>1 DEF Covers, Better
      <4> QED BY <1>1, <1>2, <2>1, <3>2, <4>2 DEF Covers, NoEntry
    <3> QED BY <3>1, <3>2
  <2> QED BY <2>2, <2>3
<1>7. CASE ~Better(f, entry)
  <2>1. best' = best
    BY <1>7
  <2>2. Covers(f, entry)
    BY <1>2, <1>4, <1>5, <1>7 DEF Covers, Better
  <2>3. \A g, x : Covers(g, x)' <=> Covers(g, x)
    BY <1>1, <2>1 DEF Covers, NoEntry
  <2> QED BY <2>2, <2>3
<1> QED BY <1>6, <1>7

\* What a turn of the search finds at the head of the queue.
LEMMA HeadFacts ==
  ASSUME IInv, LevelInv, Search
  PROVE  /\ queue # <<>> /\ todo = {} /\ pc = "search" /\ Len(queue) \in Nat \ {0}
         /\ Len(queue') = Len(queue) - 1 /\ Len(queue') \in Nat
         /\ \A j \in 1..Len(queue') : j + 1 \in 1..Len(queue) /\ queue'[j] = queue[j + 1]
         /\ Head(queue) = queue[1] /\ 1 \in 1..Len(queue)
         /\ \A j \in 1..Len(queue) : j = 1 \/ (j - 1 \in 1..Len(queue') /\ queue'[j - 1] = queue[j])
         /\ \A j \in 1..Len(queue) : queue[1][2] <= queue[j][2]
         /\ \A i, j \in 1..Len(queue') : i <= j => queue'[i][2] <= queue'[j][2]
<1>1. queue \in Seq(Nodes \X (1..MaxQueued) \X Types) /\ queue # <<>> /\ queue' = Tail(queue)
      /\ todo = {} /\ pc = "search"
  BY DEF Search, IInv, TypeOK
<1>2. /\ Len(queue) \in Nat \ {0} /\ Len(queue') = Len(queue) - 1 /\ Len(queue') \in Nat
      /\ \A j \in 1..Len(queue') : queue'[j] = queue[j + 1]
      /\ Head(queue) = queue[1]
  BY <1>1
<1>3. 1 \in 1..Len(queue)
  BY <1>2
<1>4. \A j \in 1..Len(queue') : j + 1 \in 1..Len(queue)
  BY <1>2
<1>5. \A j \in 1..Len(queue) : j = 1 \/ (j - 1 \in 1..Len(queue') /\ (j - 1) + 1 = j)
  BY <1>2
<1>6. \A j \in 1..Len(queue) : queue[1][2] <= queue[j][2]
  BY <1>3 DEF LevelInv, Levels
<1>7. \A i, j \in 1..Len(queue') : i <= j => queue'[i][2] <= queue'[j][2]
  <2> SUFFICES ASSUME NEW i \in 1..Len(queue'), NEW j \in 1..Len(queue'), i <= j
               PROVE  queue[i + 1][2] <= queue[j + 1][2]
    BY <1>2
  <2>1. i + 1 \in 1..Len(queue) /\ j + 1 \in 1..Len(queue) /\ i + 1 <= j + 1
    BY <1>4
  <2> QED BY <2>1 DEF LevelInv, Levels
<1> QED BY <1>1, <1>2, <1>3, <1>4, <1>5, <1>6, <1>7

\* What is reached earlier than the head of the queue was visited by then.
LEMMA VisitedByThen ==
  ASSUME IInv, LevelInv, Search, Head(queue)[2] <= depth, NEW d \in Nat, d < Head(queue)[2]
  PROVE  Reach[d] \subseteq visited
<1>1. /\ todo = {} /\ pc = "search" /\ Head(queue) = queue[1] /\ 1 \in 1..Len(queue)
      /\ \A j \in 1..Len(queue) : queue[1][2] <= queue[j][2]
  BY HeadFacts
<1>2. depth \in Nat /\ \A j \in 1..Len(queue) : queue[j][2] \in Nat
  BY ValueTypes DEF IInv
<1>3. d <= depth /\ \A j \in 1..Len(queue) : queue[j][2] > d
  BY <1>1, <1>2
<1> QED BY <1>1, <1>3, LevelVisited DEF LevelInv

LEMMA SkipLevels ==
  ASSUME IInv, LevelInv, Search, Skip(Head(queue))
  PROVE  LevelInv'
<1> USE DEF LevelInv
<1>1. /\ UNCHANGED <<inputs, pc, seeded, todo, at, visited, best>> /\ todo = {} /\ pc = "search"
      /\ (Head(queue)[2] > depth \/ Head(queue)[1] \in Columns)
  BY DEF Search, Skip
<1>2. /\ graph' = graph /\ covered' = covered /\ depth' = depth /\ Reach' = Reach
      /\ Reported' = Reported /\ \A f, entry : Covers(f, entry)' <=> Covers(f, entry)
  BY <1>1, InputsStay DEF Reported, Covers
<1>3. /\ \A j \in 1..Len(queue') : j + 1 \in 1..Len(queue) /\ queue'[j] = queue[j + 1]
      /\ Head(queue) = queue[1] /\ 1 \in 1..Len(queue) /\ Len(queue') \in Nat
      /\ \A j \in 1..Len(queue) : j = 1 \/ (j - 1 \in 1..Len(queue') /\ queue'[j - 1] = queue[j])
      /\ \A i, j \in 1..Len(queue') : i <= j => queue'[i][2] <= queue'[j][2]
  BY HeadFacts, Zenon
<1>4. depth \in Nat /\ \A j \in 1..Len(queue) : queue[j][2] \in Nat
  BY ValueTypes DEF IInv
<1>5. \A d : Taken(d)' = Taken(d)
  BY <1>1, <1>2 DEF Taken
<1>6. SeedsDone'
  BY <1>1 DEF SeedsDone
<1>7. Levels'
  BY <1>1, <1>2, <1>3 DEF Levels
<1>8. Sound'
  BY <1>1, <1>2, <1>3 DEF Sound
<1>9. AtMost'
  BY <1>1, <1>2, <1>3 DEF AtMost
<1>10. Closed'
  <2> SUFFICES ASSUME NEW d \in Nat, d < depth, NEW e \in Taken(d), e[2] \notin visited
               PROVE  \E i \in 1..Len(queue') : queue'[i][1] = e[2] /\ queue'[i][2] <= d + 1
    BY <1>1, <1>2, <1>5 DEF Closed
  <2>1. PICK j \in 1..Len(queue) : queue[j][1] = e[2] /\ queue[j][2] <= d + 1
    BY <1>1 DEF Closed
  <2>2. j # 1
    BY <1>1, <1>3, <1>4, <2>1 DEF Taken
  <2> QED BY <1>3, <2>1, <2>2
<1>11. Weighed'
  <2> SUFFICES ASSUME NEW d \in Nat, d < depth, NEW e \in Taken(d), e[2] \notin Reach[d],
                      ~Covers(e[2], [hops |-> d + 1, type |-> e[3]])
               PROVE  \E i \in 1..Len(queue') : queue'[i] = <<e[2], d + 1, e[3]>>
    BY <1>1, <1>2, <1>5 DEF Weighed
  <2>1. PICK j \in 1..Len(queue) : queue[j] = <<e[2], d + 1, e[3]>>
    BY <1>1 DEF Weighed
  <2>2. j # 1
    BY <1>1, <1>3, <1>4, <2>1 DEF Taken
  <2> QED BY <1>3, <2>1, <2>2
<1> QED BY <1>6, <1>7, <1>8, <1>9, <1>10, <1>11

LEMMA TurnLevels ==
  ASSUME IInv, LevelInv, Search, ~Skip(Head(queue)),
         NEW f, NEW h, NEW t, Head(queue) = <<f, h, t>>
  PROVE  LevelInv'
<1> USE DEF LevelInv
<1> DEFINE entry == [hops |-> h, type |-> t]
<1>1. /\ UNCHANGED <<inputs, pc, seeded>> /\ todo = {} /\ pc = "search"
      /\ best' = IF Better(f, entry) THEN [best EXCEPT ![f] = entry] ELSE best
      /\ visited' = visited \union {f} /\ at' = h + 1
      /\ todo' = IF Expand(Head(queue)) THEN Dependents(f, visited' \union Changed) ELSE {}
  BY DEF Search
<1>2. graph' = graph /\ covered' = covered /\ depth' = depth /\ Reach' = Reach
  BY <1>1, InputsStay
<1>3. /\ \A j \in 1..Len(queue') : j + 1 \in 1..Len(queue) /\ queue'[j] = queue[j + 1]
      /\ queue[1] = <<f, h, t>> /\ 1 \in 1..Len(queue) /\ Len(queue') \in Nat
      /\ \A j \in 1..Len(queue) : j = 1 \/ (j - 1 \in 1..Len(queue') /\ queue'[j - 1] = queue[j])
      /\ \A j \in 1..Len(queue) : h <= queue[j][2]
  BY HeadFacts
<1>4. /\ depth \in Nat /\ f \in Nodes /\ h \in Nat \ {0} /\ t \in Types /\ at \in Nat \ {0}
      /\ \A j \in 1..Len(queue) : queue[j][2] \in Nat
  BY <1>3, ValueTypes DEF IInv
<1>5. h <= depth /\ f \notin Columns /\ f \notin Changed
  <2>1. Backed(f, h, t, visited)
    BY <1>3 DEF IInv, QueueInv
  <2> QED BY <1>4, <2>1 DEF Skip, Backed
<1>6. f \in Reach[h] /\ h \in {at - 1, at}
  BY <1>3, <1>5 DEF Sound, Levels
<1>7. entry \in [hops : Nat \ {0}, type : Types] /\ entry # NoEntry
  BY <1>4 DEF NoEntry
<1>8. /\ Covers(f, entry)'
      /\ \A g \in Nodes, old \in [hops : Nat, type : Types] : Covers(g, old) => Covers(g, old)'
  BY <1>1, <1>4, <1>7, BetterCovers DEF IInv
<1>9. ASSUME NEW d \in Nat, d < h PROVE Reach[d] \subseteq visited
  BY <1>5, <1>9, VisitedByThen
<1>10. \A g \in Nodes : /\ best'[g] = best[g] \/ (g = f /\ best'[g] = entry)
                        /\ best[g] # NoEntry => best'[g] # NoEntry
                        /\ best'[f] # NoEntry
  <2>1. best \in [Nodes -> [hops : 1..MaxHops, type : Types] \union {NoEntry}]
    BY DEF IInv, TypeOK
  <2>2. best'[f] # NoEntry
    BY <1>8 DEF Covers, NoEntry
  <2> QED BY <1>1, <1>4, <1>7, <2>1, <2>2
<1>11. SeedsDone'
  BY <1>1 DEF SeedsDone
<1>12. Levels'
  <2>1. \A j \in 1..Len(queue') : queue'[j][2] \in {h, h + 1}
    <3> SUFFICES ASSUME NEW j \in 1..Len(queue') PROVE queue'[j][2] \in {h, h + 1}
      OBVIOUS
    <3>1. queue'[j][2] \in {at - 1, at} /\ h <= queue'[j][2]
      BY <1>3 DEF Levels
    <3>2. CASE h = at - 1
      BY <1>4, <3>1, <3>2
    <3>3. CASE h = at
      BY <1>4, <3>1, <3>3
    <3> QED BY <1>6, <3>2, <3>3
  <2>2. \A i, j \in 1..Len(queue') : i <= j => queue'[i][2] <= queue'[j][2]
    BY HeadFacts
  <2>3. Reach[at - 1] \subseteq Reach[h]
    BY <1>4, <1>6, ReachGrows
  <2>4. visited' \subseteq Reach[h]
    BY <1>1, <1>6, <2>3 DEF Levels
  <2> QED BY <1>1, <1>2, <1>4, <2>1, <2>2, <2>4 DEF Levels
<1>13. \A i \in todo' : /\ i \in DOMAIN Edges /\ Edges[i] \in graph /\ Edges[i][1] = f
                        /\ Edges[i][2] \notin visited' \union Changed /\ h < depth
  BY <1>1 DEF Dependents, Expand
<1>14. Reported' = Reported \union {f}
  BY <1>4, <1>10 DEF Reported, NoEntry
<1>15. Sound'
  <2>1. \A i \in 1..Len(queue') : queue'[i][1] \notin Columns => queue'[i][1] \in Reach[queue'[i][2]]
    BY <1>3 DEF Sound
  <2>2. \A i \in todo' : Edges[i][1] \in Reach[at' - 1]
    <3>1. at' - 1 = h
      BY <1>1, <1>4
    <3> QED BY <1>6, <1>13, <3>1
  <2>3. visited' \ Changed \subseteq Reported'
    BY <1>1, <1>14 DEF Sound
  <2>4. \A g \in Reported' : g \in visited' /\ g \in Reach[best'[g].hops]
    <3> SUFFICES ASSUME NEW g \in Reported' PROVE g \in visited' /\ g \in Reach[best'[g].hops]
      OBVIOUS
    <3>1. g \in Nodes /\ (best'[g] = best[g] \/ (g = f /\ best'[g] = entry))
      BY <1>10 DEF Reported
    <3>2. CASE g = f /\ best'[g] = entry
      BY <1>1, <1>6, <3>2
    <3>3. CASE best'[g] = best[g]
      <4>1. g \in Reported
        BY <3>1, <3>3 DEF Reported, NoEntry
      <4> QED BY <1>1, <3>3, <4>1 DEF Sound
    <3> QED BY <3>1, <3>2, <3>3
  <2> QED BY <1>1, <1>2, <2>1, <2>2, <2>3, <2>4 DEF Sound
<1>16. AtMost'
  <2> SUFFICES ASSUME NEW d \in Nat
               PROVE  /\ \A i \in 1..Len(queue') : queue'[i][1] \in Reach[d] => queue'[i][2] <= d + 1
                      /\ \A i \in todo' : Edges[i][2] \in Reach[d] => at' <= d + 1
                      /\ \A g \in Reported' : g \in Reach[d] => best'[g].hops <= d + 1
    BY <1>2 DEF AtMost
  <2>1. \A i \in 1..Len(queue') : queue'[i][1] \in Reach[d] => queue'[i][2] <= d + 1
    BY <1>3 DEF AtMost
  <2>2. \A i \in todo' : Edges[i][2] \in Reach[d] => at' <= d + 1
    <3> SUFFICES ASSUME NEW i \in todo', Edges[i][2] \in Reach[d] PROVE h <= d
      BY <1>1, <1>4
    <3>1. Edges[i][2] \notin visited
      BY <1>1, <1>13
    <3> QED BY <1>4, <1>9, <3>1
  <2>3. ASSUME NEW g \in Reported', g \in Reach[d] PROVE best'[g].hops <= d + 1
    <3>1. g \in Nodes /\ (best'[g] = best[g] \/ (g = f /\ best'[g] = entry))
      BY <1>10 DEF Reported
    <3>2. CASE g = f /\ best'[g] = entry
      BY <1>3, <2>3, <3>2 DEF AtMost
    <3>3. CASE best'[g] = best[g]
      <4>1. g \in Reported
        BY <3>1, <3>3, <2>3 DEF Reported, NoEntry
      <4> QED BY <2>3, <3>3, <4>1 DEF AtMost
    <3> QED BY <3>1, <3>2, <3>3
  <2> QED BY <2>1, <2>2, <2>3
<1>17. ASSUME NEW e \in graph, e[1] = f, f \notin visited, h < depth, e[2] \notin Changed,
              e[2] \notin visited'
       PROVE  \E i \in todo' : Edges[i] = e
  <2>1. todo' = Dependents(f, visited' \union Changed)
    BY <1>1, <1>17 DEF Expand
  <2>2. PICK i \in DOMAIN Edges : Edges[i] = e
    BY EdgePosition DEF IInv
  <2>3. i \in todo'
    BY <1>17, <2>1, <2>2 DEF Dependents
  <2> QED BY <2>2, <2>3
<1>18. ASSUME NEW d \in Nat, NEW e \in Taken(d)'
       PROVE  /\ e \in graph /\ e[1] \in Reach[d] /\ e[2] \notin Columns \union Changed
              /\ e \in Taken(d) \/ (e[1] = f /\ f \notin visited /\ h <= d)
  <2>1. /\ e \in graph /\ e[1] \in Reach[d] /\ e[2] \notin Columns \union Changed
        /\ e[1] \in visited \/ e[1] = f
    BY <1>1, <1>2, <1>18 DEF Taken
  <2>2. CASE e[1] \in visited
    BY <2>1, <2>2 DEF Taken
  <2>3. CASE e[1] \notin visited
    <3>1. ~(d < h)
      BY <1>9, <2>1, <2>3
    <3> QED BY <1>4, <2>1, <2>3, <3>1
  <2> QED BY <2>2, <2>3
<1>19. Closed'
  <2> SUFFICES ASSUME NEW d \in Nat, d < depth, NEW e \in Taken(d)', e[2] \notin visited'
               PROVE  \/ \E i \in 1..Len(queue') : queue'[i][1] = e[2] /\ queue'[i][2] <= d + 1
                      \/ \E i \in todo' : Edges[i][2] = e[2] /\ h + 1 <= d + 1
    BY <1>1, <1>2 DEF Closed
  <2>1. CASE e \in Taken(d)
    <3>1. PICK j \in 1..Len(queue) : queue[j][1] = e[2] /\ queue[j][2] <= d + 1
      BY <1>1, <2>1 DEF Closed
    <3>2. j # 1
      BY <1>1, <1>3, <3>1
    <3> QED BY <1>3, <3>1, <3>2
  <2>2. CASE e[1] = f /\ f \notin visited /\ h <= d
    <3>1. h < depth /\ h + 1 <= d + 1
      BY <1>4, <2>2
    <3> QED BY <1>17, <1>18, <2>2, <3>1
  <2> QED BY <1>18, <2>1, <2>2
<1>20. Weighed'
  <2> SUFFICES ASSUME NEW d \in Nat, d < depth, NEW e \in Taken(d)', e[2] \notin Reach[d]
               PROVE  \/ Covers(e[2], [hops |-> d + 1, type |-> e[3]])'
                      \/ \E i \in 1..Len(queue') : queue'[i] = <<e[2], d + 1, e[3]>>
                      \/ \E i \in todo' : Edges[i] = e /\ h + 1 = d + 1
    BY <1>1, <1>2 DEF Weighed
  <2>0. e[2] \in Nodes /\ [hops |-> d + 1, type |-> e[3]] \in [hops : Nat, type : Types]
    BY <1>18, EdgePosition DEF IInv
  <2>1. CASE e \in Taken(d)
    <3>1. CASE Covers(e[2], [hops |-> d + 1, type |-> e[3]])
      BY <1>8, <2>0, <3>1
    <3>2. ASSUME NEW j \in 1..Len(queue), queue[j] = <<e[2], d + 1, e[3]>>
          PROVE  \/ Covers(e[2], [hops |-> d + 1, type |-> e[3]])'
                 \/ \E i \in 1..Len(queue') : queue'[i] = <<e[2], d + 1, e[3]>>
      <4>1. CASE j = 1
        <5>1. f = e[2] /\ entry = [hops |-> d + 1, type |-> e[3]]
          BY <1>3, <3>2, <4>1
        <5> QED BY <1>8, <5>1
      <4>2. CASE j # 1
        BY <1>3, <3>2, <4>2
      <4> QED BY <4>1, <4>2
    <3> QED BY <1>1, <2>1, <3>1, <3>2 DEF Weighed
  <2>2. CASE e[1] = f /\ f \notin visited /\ h <= d
    <3>1. e[2] \in Reach[h + 1]
      BY <1>4, <1>6, <1>18, <2>2, ReachEdge
    <3>2. h = d
      <4>1. ~(h + 1 <= d)
        BY <1>4, <3>1, ReachGrows
      <4> QED BY <1>4, <2>2, <4>1
    <3>3. e[2] \notin visited'
      <4>1. at' - 1 = d
        BY <1>1, <1>4, <3>2
      <4>2. visited' \subseteq Reach[d]
        BY <1>2, <1>12, <4>1 DEF Levels
      <4> QED BY <4>2
    <3> QED BY <1>17, <1>18, <2>2, <3>2, <3>3
  <2> QED BY <1>18, <2>1, <2>2
<1> QED BY <1>11, <1>12, <1>15, <1>16, <1>19, <1>20

LEMMA AddTestsLevels == IInv /\ LevelInv /\ AddTests => LevelInv'
<1> SUFFICES ASSUME IInv, LevelInv, AddTests PROVE LevelInv'
  OBVIOUS
<1> USE DEF LevelInv
<1>1. /\ best' = [f \in Nodes |-> IF f \in LinkedByName
                                 THEN [hops |-> 1, type |-> "import"] ELSE best[f]]
      /\ UNCHANGED <<inputs, seeded, queue, todo, at, visited>> /\ pc = "tests" /\ pc' = "done"
  BY DEF AddTests
<1>2. /\ graph' = graph /\ covered' = covered /\ depth' = depth /\ Reach' = Reach
      /\ \A f, entry : Impact(f, entry)' = Impact(f, entry)
  BY <1>1, InputsStay
<1>3. queue = <<>> /\ todo = {} /\ Len(queue) = 0
  BY <1>1 DEF SeedsDone
<1>4. depth \in Nat
  BY ValueTypes DEF IInv
<1>5. Reach[depth] \subseteq visited
  BY <1>1, <1>3, <1>4, LevelVisited
<1>6. LinkedByName \subseteq Nodes /\ [hops |-> 1, type |-> "import"] # NoEntry
      /\ \A f \in LinkedByName : f \in covered /\ f \notin Changed /\ f \notin Reported /\ depth >= 1
  BY BlastAssumption DEF LinkedByName, IInv, TypeOK, NoEntry
<1>7. /\ Reported' = Reported \union LinkedByName
      /\ \A f \in Reported : best'[f] = best[f]
      /\ \A f \in LinkedByName : best'[f] = [hops |-> 1, type |-> "import"]
  BY <1>1, <1>6 DEF Reported, NoEntry
<1>8. SeedsDone' /\ Levels'
  BY <1>1, <1>2, <1>3 DEF SeedsDone, Levels
<1>9. Sound'
  <2>1. \A f \in Reported : f \in visited /\ f \in Reach[best[f].hops]
    BY <1>1 DEF Sound
  <2>2. \A f \in LinkedByName : f \in covered /\ f \notin Changed \union Reach[depth] /\ depth >= 1
    BY <1>5, <1>6 DEF Sound
  <2>3. visited' \ Changed \subseteq Reported'
    BY <1>1, <1>7 DEF Sound
  <2>4. depth >= 1 => covered \ Changed \subseteq Reported'
    BY <1>7 DEF LinkedByName
  <2> QED BY <1>1, <1>2, <1>3, <1>7, <2>1, <2>2, <2>3, <2>4 DEF Sound
<1>10. AtMost'
  BY <1>1, <1>2, <1>3, <1>7 DEF AtMost
<1>11. \A d : Taken(d)' = Taken(d)
  BY <1>1, <1>2 DEF Taken
<1>12. Closed'
  BY <1>1, <1>2, <1>3, <1>11 DEF Closed
<1>13. Weighed'
  <2> SUFFICES ASSUME NEW d \in Nat, d < depth, NEW e \in Taken(d), e[2] \notin Reach[d]
               PROVE  Covers(e[2], [hops |-> d + 1, type |-> e[3]])'
    BY <1>2, <1>11 DEF Weighed
  <2>1. Covers(e[2], [hops |-> d + 1, type |-> e[3]])
    BY <1>3 DEF Weighed
  <2>2. e[2] \in Nodes
    BY EdgePosition DEF IInv, Taken
  <2>3. best'[e[2]] = best[e[2]]
    BY <1>7, <2>1, <2>2 DEF Covers, Reported
  <2> QED BY <1>2, <2>1, <2>3 DEF Covers, NoEntry
<1> QED BY <1>8, <1>9, <1>10, <1>12, <1>13

LEMMA StepLevels == IInv /\ LevelInv /\ [Next]_vars => LevelInv'
<1> SUFFICES ASSUME IInv, LevelInv, [Next]_vars PROVE LevelInv'
  OBVIOUS
<1>1. CASE Seeded \/ Searched \/ UNCHANGED vars
  <2>1. /\ UNCHANGED <<inputs, seeded, queue, todo, at, visited, best>>
        /\ \/ pc' = pc
           \/ pc = "seeds" /\ pc' = "search" /\ seeded = Len(Seeds)
           \/ pc = "search" /\ pc' = "tests" /\ queue = <<>> /\ todo = {}
    BY <1>1 DEF Seeded, Searched, vars
  <2>2. /\ graph' = graph /\ covered' = covered /\ depth' = depth /\ Reach' = Reach
        /\ Reported' = Reported /\ \A f, entry : Covers(f, entry)' <=> Covers(f, entry)
    BY <2>1, InputsStay DEF Reported, Covers
  <2>3. \A d : Taken(d)' = Taken(d)
    BY <2>1, <2>2 DEF Taken
  <2>4. SeedsDone' /\ Levels'
    BY <2>1, <2>2 DEF LevelInv, SeedsDone, Levels
  <2>5. Sound' /\ AtMost'
    BY <2>1, <2>2 DEF LevelInv, Sound, AtMost
  <2>6. Closed' /\ Weighed'
    BY <2>1, <2>2, <2>3 DEF LevelInv, Closed, Weighed
  <2> QED BY <2>4, <2>5, <2>6 DEF LevelInv
<1>2. CASE Search
  <2>1. CASE Skip(Head(queue))
    BY <1>2, <2>1, SkipLevels
  <2>2. CASE ~Skip(Head(queue))
    <3>1. Head(queue) = <<Head(queue)[1], Head(queue)[2], Head(queue)[3]>>
      BY <1>2, HeadFacts, ValueTypes DEF IInv
    <3> QED BY <1>2, <2>2, <3>1, TurnLevels
  <2> QED BY <2>1, <2>2
<1> QED BY <1>1, <1>2, SeedLevels, EnqueueLevels, AddTestsLevels DEF Next

LEMMA LevelsKept == Spec => [](IInv /\ LevelInv)
BY InitInv, StepInv, InitLevels, StepLevels, PTL DEF Spec

\* At the end everything within the depth was visited, and no edge is left.
LEMMA AtTheEnd ==
  ASSUME IInv, LevelInv, pc = "done"
  PROVE  /\ depth \in Nat /\ Reach[depth] \subseteq visited
         /\ \A d \in Nat : d < depth => \A e \in Taken(d) : e[2] \notin Reach[d] =>
              Covers(e[2], [hops |-> d + 1, type |-> e[3]])
<1>1. queue = <<>> /\ todo = {} /\ Len(queue) = 0 /\ depth \in Nat
  BY ValueTypes DEF LevelInv, SeedsDone, IInv
<1>2. Reach[depth] \subseteq visited
  BY <1>1, LevelVisited DEF LevelInv
<1> QED BY <1>1, <1>2 DEF LevelInv, Weighed

\* A report is of what the depth reaches, or of a test of a changed file.
LEMMA ReportedReached ==
  ASSUME IInv, LevelInv, pc = "done", NEW f \in Reported
  PROVE  /\ f \notin Changed \union Columns
         /\ best[f] \in [hops : 1..MaxHops, type : Types] /\ best[f].hops <= depth
         /\ \/ f \in Reach[best[f].hops] /\ f \in Reach[depth]
            \/ depth >= 1 /\ f \in covered /\ f \notin Reach[depth]
<1>1. f \in Nodes /\ best[f] # NoEntry /\ depth \in Nat
  BY AtTheEnd DEF Reported
<1>2. f \notin Changed \union Columns /\ best[f].hops <= depth
  BY DEF IInv, BackedByEdges
<1>3. best[f] \in [hops : 1..MaxHops, type : Types]
  BY <1>1 DEF IInv, TypeOK
<1>4. best[f].hops \in Nat
  BY <1>3, BlastAssumption DEF MaxHops
<1>5. CASE f \in Reach[best[f].hops]
  BY <1>1, <1>2, <1>3, <1>4, <1>5, ReachGrows
<1>6. CASE f \notin Reach[best[f].hops]
  BY <1>2, <1>3, <1>6 DEF LevelInv, Sound
<1> QED BY <1>5, <1>6

\* How far away what is reported is.
LEMMA NearHops ==
  ASSUME IInv, LevelInv, pc = "done", NEW f \in Reported, f \in Reach[depth]
  PROVE  /\ Distance(f) \in 1..depth
         /\ f \in Reach[Distance(f)] /\ f \notin Reach[Distance(f) - 1]
         /\ best[f].hops \in {Distance(f), Distance(f) + 1}
<1>1. depth \in 0..MaxHops /\ depth \in Nat /\ MaxHops \in Nat
  BY ValueTypes, BlastAssumption DEF IInv, MaxHops
<1>2. f \notin Changed /\ f \in Reach[best[f].hops] /\ best[f].hops \in Nat
  BY <1>1, ReportedReached
<1>3. /\ Distance(f) \in 1..depth
      /\ f \in Reach[Distance(f)] /\ f \notin Reach[Distance(f) - 1]
  BY <1>1, <1>2, DistanceIs
<1>4. best[f].hops <= Distance(f) + 1
  BY <1>3 DEF LevelInv, AtMost
<1>5. Distance(f) <= best[f].hops
  <2> SUFFICES ASSUME best[f].hops < Distance(f) PROVE FALSE
    BY <1>2, <1>3
  <2>1. Distance(f) - 1 \in Nat /\ best[f].hops <= Distance(f) - 1
    BY <1>2, <1>3
  <2> QED BY <1>2, <1>3, <2>1, ReachGrows
<1>6. best[f].hops = Distance(f) \/ best[f].hops = Distance(f) + 1
  BY <1>2, <1>3, <1>4, <1>5
<1> QED BY <1>3, <1>6

LEMMA NearCovered ==
  ASSUME IInv, LevelInv, pc = "done", NEW f \in Reported, f \in Reach[depth],
         NEW e \in Nearest(f)
  PROVE  Covers(f, [hops |-> Distance(f), type |-> e[3]])
<1>1. /\ Distance(f) \in 1..depth /\ depth \in Nat
      /\ f \in Reach[Distance(f)] /\ f \notin Reach[Distance(f) - 1]
  BY NearHops, AtTheEnd
<1> DEFINE d == Distance(f) - 1
<1>2. d \in Nat /\ d < depth /\ d <= depth /\ d + 1 = Distance(f)
  BY <1>1
<1>3. e \in graph /\ e[2] = f /\ e[1] \in Reach[d]
  BY DEF Nearest
<1>4. e[1] \in visited
  BY <1>2, <1>3, ReachGrows, AtTheEnd
<1>5. e \in Taken(d) /\ e[2] \notin Reach[d]
  BY <1>1, <1>3, <1>4, ReportedReached DEF Taken
<1>6. Covers(e[2], [hops |-> d + 1, type |-> e[3]])
  BY <1>2, <1>5, AtTheEnd
<1> QED BY <1>2, <1>3, <1>6

LEMMA WorstAtTheEnd == IInv /\ LevelInv => WorstOfTheNearest
<1> SUFFICES ASSUME IInv, LevelInv, pc = "done", NEW f \in Reported \intersect Reach[depth]
             PROVE  /\ best[f].hops \in {Distance(f), Distance(f) + 1}
                    /\ \A e \in Nearest(f) :
                         LET near == [hops |-> Distance(f), type |-> e[3]]
                         IN  /\ Impact(f, best[f]) >= Impact(f, near)
                             /\ best[f].hops > Distance(f) => Impact(f, best[f]) > Impact(f, near)
  BY DEF WorstOfTheNearest
<1>1. best[f].hops \in {Distance(f), Distance(f) + 1} /\ Distance(f) \in Nat
  BY NearHops, AtTheEnd
<1>2. ASSUME NEW e \in Nearest(f), NEW near, near = [hops |-> Distance(f), type |-> e[3]]
      PROVE  /\ Impact(f, best[f]) >= Impact(f, near)
             /\ best[f].hops > Distance(f) => Impact(f, best[f]) > Impact(f, near)
  <2>1. f \in Nodes /\ best[f] \in [hops : Nat, type : Types]
    <3>1. best[f] \in [hops : 1..MaxHops, type : Types] /\ MaxHops \in Nat
      BY ReportedReached, BlastAssumption DEF MaxHops
    <3> QED BY <3>1 DEF Reported
  <2>2. near \in [hops : Nat, type : Types] /\ near.hops = Distance(f)
    BY <1>1, <1>2, EdgePosition DEF Nearest, IInv
  <2>3. Impact(f, best[f]) \in Nat /\ Impact(f, near) \in Nat
    BY <2>1, <2>2, ImpactType DEF IInv
  <2>4. Covers(f, near)
    BY <1>2, NearCovered
  <2> QED BY <1>1, <2>1, <2>2, <2>3, <2>4 DEF Covers
<1> QED BY <1>1, <1>2

\* Two hops of a weight at most half as large again are not worse than one hop.
LEMMA TwoHops ==
  ASSUME NEW a \in Nat, NEW b \in Nat, 2 * a <= 3 * b, NEW s \in Nat \ {0}, NEW r \in Nat
  PROVE  r * ((a * s) \div 3) <= r * ((b * s) \div 2)
<1>1. a * s \in Nat /\ b * s \in Nat
  OBVIOUS
<1>2. 2 * (a * s) <= 3 * (b * s)
  OBVIOUS
<1>3. ASSUME NEW x \in Nat, NEW y \in Nat, 2 * x <= 3 * y
      PROVE  x \div 3 \in Nat /\ y \div 2 \in Nat /\ x \div 3 <= y \div 2
  BY <1>3
<1>4. ASSUME NEW x \in Nat, NEW y \in Nat, x <= y PROVE r * x <= r * y
  BY <1>4
<1> QED BY <1>1, <1>2, <1>3, <1>4

LEMMA StrongAtTheEnd == IInv /\ LevelInv => StrongIsDirect
<1> SUFFICES ASSUME IInv, LevelInv, pc = "done", NEW e \in graph,
                    e[1] \in Changed, e[2] \in Reported,
                    \A t \in Types : 2 * Weight[t] <= 3 * Weight[e[3]]
             PROVE  Category(e[2]) \in {"direct", "test"}
  BY DEF StrongIsDirect
<1> DEFINE f == e[2]
<1> SUFFICES ASSUME best[f].hops # 1 PROVE f \in Tests \intersect covered
  BY DEF Category
<1>1. /\ f \in Nodes /\ f \notin Changed \union Columns
      /\ best[f] \in [hops : 1..MaxHops, type : Types] /\ best[f].hops <= depth
      /\ depth \in Nat /\ MaxHops \in Nat
  BY ReportedReached, AtTheEnd, BlastAssumption DEF Reported, MaxHops
<1>2. 1 <= depth /\ f \in Reach[1] /\ e[1] \in Reach[0] /\ f \notin Reach[0]
  BY <1>1, ReachSteps, ReachEdge
<1>3. f \in Reach[depth]
  BY <1>1, <1>2, ReachGrows
<1>4. Distance(f) = 1
  <2>1. Distance(f) \in 1..depth /\ f \notin Reach[Distance(f) - 1]
    BY <1>3, NearHops
  <2>2. ~(1 <= Distance(f) - 1)
    BY <1>1, <1>2, <2>1, ReachGrows
  <2> QED BY <1>1, <2>1, <2>2
<1>5. best[f].hops = 2
  BY <1>3, <1>4, NearHops
<1>6. e \in Nearest(f)
  BY <1>2, <1>4 DEF Nearest
<1> DEFINE near == [hops |-> 1, type |-> e[3]]
<1>7. Impact(f, best[f]) > Impact(f, near)
  BY <1>3, <1>4, <1>5, <1>6, WorstAtTheEnd DEF WorstOfTheNearest
<1>8. e[3] \in Types /\ best[f].type \in Types
  BY <1>1, EdgePosition DEF IInv
<1>9. /\ rank[f] \in Nat /\ Weight[e[3]] \in Nat /\ Weight[best[f].type] \in Nat
      /\ Scale \in Nat \ {0}
  BY <1>1, <1>8, BlastAssumption DEF IInv, TypeOK
<1>10. /\ Impact(f, best[f]) = rank[f] * ((Weight[best[f].type] * Scale) \div 3)
       /\ Impact(f, near) = rank[f] * ((Weight[e[3]] * Scale) \div 2)
  BY <1>5 DEF Impact
<1>11. Impact(f, best[f]) <= Impact(f, near)
  BY <1>8, <1>9, <1>10, TwoHops
<1>12. Impact(f, best[f]) \in Nat /\ Impact(f, near) \in Nat
  BY <1>1, <1>8, ImpactType DEF IInv
<1> QED BY <1>7, <1>11, <1>12

\* Nothing within the depth is missed: the reported files are those the edges of
\* dependents reach, and the tests of the changed files.
THEOREM NothingMissed == Spec => []AllDependents
<1>1. IInv /\ LevelInv => AllDependents
  <2> SUFFICES ASSUME IInv, LevelInv, pc = "done"
               PROVE  Reported = (Reach[depth] \ Changed)
                                   \union IF depth >= 1 THEN covered \ Changed ELSE {}
    BY DEF AllDependents
  <2>1. Reach[depth] \ Changed \subseteq Reported
    BY AtTheEnd DEF LevelInv, Sound
  <2>2. depth >= 1 => covered \ Changed \subseteq Reported
    BY DEF LevelInv, Sound
  <2>3. ASSUME NEW f \in Reported
        PROVE  f \notin Changed /\ (f \in Reach[depth] \/ (depth >= 1 /\ f \in covered))
    BY <2>3, ReportedReached
  <2> QED BY <2>1, <2>2, <2>3
<1> QED BY <1>1, LevelsKept, PTL

\* Of all the ways a file is reached, the one reported is at most one hop longer
\* than the shortest, at least as bad as every shortest one, and longer only for a
\* risk that is higher.
THEOREM WorstReported == Spec => []WorstOfTheNearest
BY WorstAtTheEnd, LevelsKept, PTL

\* A strong edge from a changed file makes a direct dependent, whatever longer way
\* the search reported.
THEOREM StrongEdgeIsDirect == Spec => []StrongIsDirect
BY StrongAtTheEnd, LevelsKept, PTL

-----------------------------------------------------------------------------
(* The search ends.                                                        *)

Phase(x) == CASE x = "seeds" -> 0 [] x = "search" -> 1 [] x = "tests" -> 2 [] x = "done" -> 3

\* What is left to do, the weightiest part first: phases, changed files, files
\* never visited, edges to queue, entries in the queue.  A later part may grow
\* only when an earlier one has shrunk.
Less ==
  \/ Phase(pc') > Phase(pc)
  \/ /\ pc' = pc
     /\ \/ seeded' > seeded
        \/ /\ seeded' = seeded
           /\ \/ visited \subseteq visited' /\ visited' # visited
              \/ /\ visited' = visited
                 /\ \/ todo' \subseteq todo /\ todo' # todo
                    \/ todo' = todo /\ Len(queue') < Len(queue)

\* No step goes round in circles, whatever circles the graph has: each leaves
\* less to do (the visited set of compute_blast_radius).
EachStepLess == [][Less]_vars

LEMMA StepIsLess == IInv /\ [Next]_vars => [Less]_vars
<1> SUFFICES ASSUME IInv, Next PROVE Less
  BY DEF Less
<1> USE DEF IInv
<1>1. CASE Seed
  <2>1. pc' = pc /\ seeded' = seeded + 1 /\ seeded \in Nat
    BY <1>1, BlastAssumption DEF Seed, TypeOK
  <2> QED BY <2>1 DEF Less
<1>2. CASE Seeded \/ Searched \/ AddTests
  BY <1>2 DEF Seeded, Searched, AddTests, Less, Phase
<1>3. CASE Enqueue
  <2>1. todo' \subseteq todo /\ todo' # todo /\ UNCHANGED <<pc, seeded, visited>>
    BY <1>3 DEF Enqueue
  <2> QED BY <2>1 DEF Less
<1>4. CASE Search
  <2> DEFINE q == Head(queue)
  <2>0. pc' = pc /\ seeded' = seeded /\ todo = {} /\ queue # <<>> /\ queue' = Tail(queue)
    BY <1>4 DEF Search
  <2>1. Len(queue') < Len(queue)
    BY <2>0 DEF TypeOK
  <2>2. CASE Skip(q)
    <3>1. visited' = visited /\ todo' = todo
      BY <1>4, <2>2 DEF Search
    <3> QED BY <2>0, <2>1, <3>1 DEF Less
  <2>3. CASE ~Skip(q) /\ q[1] \notin visited
    <3>1. visited' = visited \union {q[1]}
      BY <1>4, <2>3 DEF Search
    <3> QED BY <2>0, <2>3, <3>1 DEF Less
  <2>4. CASE ~Skip(q) /\ q[1] \in visited
    <3>1. visited' = visited \union {q[1]} /\ todo' = {}
      BY <1>4, <2>4 DEF Search, Expand
    <3>2. visited' = visited /\ todo' = todo
      BY <2>0, <2>4, <3>1
    <3> QED BY <2>0, <2>1, <3>2 DEF Less
  <2> QED BY <2>2, <2>3, <2>4
<1> QED BY <1>1, <1>2, <1>3, <1>4 DEF Next

\* The search ends on every graph, with circles or without: what is left to do
\* shrinks with every step, each part bounded by the phases, changed files, files,
\* edges or the queue.
THEOREM SearchAdvances == Spec => EachStepLess
  BY StepIsLess, Invariance, PTL DEF Spec, EachStepLess
=============================================================================
