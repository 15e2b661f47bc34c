---------------------------- MODULE BlastRadius ----------------------------
(***************************************************************************)
(* compute_blast_radius (src/intelligence/blast_radius.rs): which files a  *)
(* change to some files reaches, over the edges of their dependents.       *)
(*                                                                         *)
(* One step takes or adds one entry of the queue.  A file may be queued    *)
(* several times, once for every edge found before its first turn; the     *)
(* entry of highest risk is reported, with that entry's hops.              *)
(*                                                                         *)
(* Risks are compared for one file only, so what is the same for all of a  *)
(* file's entries (test coverage) is left out.  The focus, which hides     *)
(* results, is left out too.                                               *)
(***************************************************************************)
EXTENDS Naturals, Sequences

CONSTANTS
  Nodes,    \* paths and column nodes
  Columns,  \* col: nodes
  Tests,    \* test paths (is_test_path)
  Linked,   \* files test_map may name: by its own idea of a test path
  Seeds,    \* changed_files, in order
  Edges,    \* dependent edges <<of, by, type>> in the order of the graph's sets
  Weight,   \* tenths, per edge type
  SchemaTypes,  \* is_schema_edge
  Depths,   \* depth
  Ranks,    \* pagerank, per node
  Scale     \* bound: hops stay below it; a multiple of every hops + 1

Changed == {Seeds[i] : i \in DOMAIN Seeds}
Types == DOMAIN Weight
MaxHops == Scale - 1

ASSUME BlastAssumption ==
  /\ Columns \subseteq Nodes /\ Tests \union Linked \subseteq Nodes \ Columns
  /\ Seeds \in Seq(Nodes)
  /\ Edges \in Seq(Nodes \X Nodes \X Types)
  /\ Weight \in [Types -> Nat] /\ SchemaTypes \subseteq Types
  /\ Scale \in Nat \ {0} /\ Depths \subseteq 0..MaxHops
  /\ Ranks \subseteq [Nodes -> Nat] /\ "import" \in Types /\ "none" \notin Types

VARIABLES
  graph,    \* the edges of the graph
  covered,  \* covered_test_files
  rank,     \* pagerank
  depth,
  pc,       \* seeds, search, tests, done
  seeded,   \* how many seeds are in the queue's start
  queue,    \* <<path, hops, edge type>>
  todo, at,  \* positions of edges still to be queued, and at how many hops
  visited,
  best      \* entry per file; NoEntry: none

inputs == <<graph, covered, rank, depth>>
vars == <<inputs, pc, seeded, queue, todo, at, visited, best>>

NoEntry == [hops |-> 0, type |-> "none"]
Reported == {f \in Nodes : best[f] # NoEntry}

Init ==
  /\ graph \in SUBSET {Edges[i] : i \in DOMAIN Edges}
  /\ covered \in SUBSET Linked /\ rank \in Ranks /\ depth \in Depths
  /\ pc = "seeds" /\ seeded = 0 /\ queue = <<>> /\ todo = {} /\ at = 1 /\ visited = {}
  /\ best = [f \in Nodes |-> NoEntry]

-----------------------------------------------------------------------------
\* compute_blast_impact, times 10 * Scale.
Impact(f, entry) ==
  rank[f] * ((Weight[entry.type] * Scale) \div (entry.hops + 1))

\* Mutant: one edge of every dependent.
DependentsOnce(n, seen) ==
  {i \in DOMAIN Edges : /\ Edges[i] \in graph /\ Edges[i][1] = n
                        /\ Edges[i][2] \notin seen
                        /\ \A j \in 1..i - 1 : Edges[j][2] # Edges[i][2]}

\* graph.dependents(n), those not seen: positions in Edges.
Dependents(n, seen) ==
  {i \in DOMAIN Edges : /\ Edges[i] \in graph /\ Edges[i][1] = n
                        /\ Edges[i][2] \notin seen}

\* One turn of the loops over dependents: the next edge, at the end of the queue.
Enqueue ==
  /\ \E i \in todo :
       /\ \A j \in todo : i <= j
       /\ todo' = todo \ {i}
       /\ queue' = Append(queue, <<Edges[i][2], at, Edges[i][3]>>)
  /\ UNCHANGED <<inputs, pc, seeded, at, visited, best>>

\* Direct dependents of one changed file.
Seed ==
  /\ pc = "seeds" /\ todo = {} /\ seeded < Len(Seeds)
  /\ seeded' = seeded + 1
  /\ visited' = visited \union {Seeds[seeded + 1]}
  /\ todo' = Dependents(Seeds[seeded + 1], visited' \union Changed) /\ at' = 1
  /\ UNCHANGED <<inputs, pc, queue, best>>

Seeded ==
  /\ pc = "seeds" /\ todo = {} /\ seeded = Len(Seeds) /\ pc' = "search"
  /\ UNCHANGED <<inputs, seeded, queue, todo, at, visited, best>>

\* Mutant: the depth is left to who queues.
SkipColumnsOnly(q) == q[1] \in Columns

\* An entry beyond the depth, or of a column node, is dropped.
Skip(q) == q[2] > depth \/ q[1] \in Columns

\* Mutant: the entry seen last stays.
BetterLast(f, entry) == TRUE

\* Higher risk; of equal risk, fewer hops.
Better(f, entry) ==
  \/ best[f] = NoEntry
  \/ Impact(f, entry) > Impact(f, best[f])
  \/ Impact(f, entry) = Impact(f, best[f]) /\ entry.hops < best[f].hops

\* The first turn of a node queues its dependents.
Expand(q) == q[1] \notin visited /\ q[2] < depth

Search ==
  /\ pc = "search" /\ todo = {} /\ queue # <<>> /\ queue' = Tail(queue)
  /\ LET q == Head(queue)
         entry == [hops |-> q[2], type |-> q[3]]
     IN  IF Skip(q) THEN UNCHANGED <<todo, at, visited, best>>
         ELSE /\ best' = IF Better(q[1], entry)
                         THEN [best EXCEPT ![q[1]] = entry] ELSE best
              /\ visited' = visited \union {q[1]}
              /\ at' = q[2] + 1
              /\ todo' = IF Expand(q)
                         THEN Dependents(q[1], visited' \union Changed) ELSE {}
  /\ UNCHANGED <<inputs, pc, seeded>>

Searched ==
  /\ pc = "search" /\ todo = {} /\ queue = <<>> /\ pc' = "tests"
  /\ UNCHANGED <<inputs, seeded, queue, todo, at, visited, best>>

\* What test_map names for the changed files and the search did not reach.
LinkedByName ==
  IF depth >= 1 THEN covered \ (Changed \union Reported) ELSE {}

AddTests ==
  /\ pc = "tests" /\ pc' = "done"
  /\ best' = [f \in Nodes |-> IF f \in LinkedByName
                              THEN [hops |-> 1, type |-> "import"] ELSE best[f]]
  /\ UNCHANGED <<inputs, seeded, queue, todo, at, visited>>

Next == Seed \/ Seeded \/ Enqueue \/ Search \/ Searched \/ AddTests

Spec == Init /\ [][Next]_vars

\* Mutant: schema edges come first.
CategorySchemaFirst(f) ==
  IF best[f].type \in SchemaTypes THEN "schema"
  ELSE IF best[f].hops = 1 THEN "direct" ELSE "transitive"

\* The list a reported file is in.
Category(f) ==
  IF f \in Tests \intersect covered THEN "test"
  ELSE IF best[f].hops = 1 THEN "direct"
  ELSE IF best[f].type \in SchemaTypes THEN "schema" ELSE "transitive"

-----------------------------------------------------------------------------
(***************************************************************************)
(* Reference definitions: what is within n edges of a changed file, over   *)
(* files only, and how far a file is.                                      *)
(***************************************************************************)
Reach[n \in Nat] ==
  IF n = 0 THEN Changed
  ELSE Reach[n - 1] \union
         {e[2] : e \in {x \in graph : x[1] \in Reach[n - 1] /\ x[2] \notin Columns}}

Distance(f) ==
  CHOOSE n \in 1..MaxHops : f \in Reach[n] /\ f \notin Reach[n - 1]

\* The edges by which f is reached as early as it is.
Nearest(f) == {e \in graph : e[2] = f /\ e[1] \in Reach[Distance(f) - 1]}

(***************************************************************************)
(* Properties.                                                             *)
(***************************************************************************)
MaxQueued == IF depth = 0 THEN 1 ELSE depth

\* Every variable keeps its type; only the changed files queue without regard to
\* the depth.
TypeOK ==
  /\ graph \subseteq {Edges[i] : i \in DOMAIN Edges}
  /\ covered \subseteq Linked /\ rank \in Ranks /\ depth \in Depths
  /\ pc \in {"seeds", "search", "tests", "done"} /\ seeded \in 0..Len(Seeds)
  /\ queue \in Seq(Nodes \X (1..MaxQueued) \X Types)
  /\ todo \subseteq DOMAIN Edges /\ at \in 1..MaxQueued + 1
  /\ todo # {} => at <= MaxQueued
  /\ visited \subseteq Nodes
  /\ best \in [Nodes -> [hops : 1..MaxHops, type : Types] \union {NoEntry}]

\* What is reported is backed by the graph: no changed file, no column node, no
\* more hops than asked for, and an edge of the reported type, from a changed
\* file if it is one hop away and from a file the search went through if it is
\* more; or test_map names it for one.
BackedByEdges ==
  \A f \in Reported :
    /\ f \notin Changed \union Columns /\ best[f].hops <= depth
    /\ \/ f \in covered /\ best[f] = [hops |-> 1, type |-> "import"]
       \/ \E e \in graph :
            /\ e[2] = f /\ e[3] = best[f].type
            /\ e[1] \in IF best[f].hops = 1 THEN Changed
                        ELSE visited \ (Changed \union Columns)

\* Nothing within the depth is missed, whatever the order in which files and
\* edges come up (a file marked as visited is queued no more).
AllDependents ==
  pc = "done" =>
    Reported = (Reach[depth] \ Changed)
                 \union IF depth >= 1 THEN covered \ Changed ELSE {}

\* What is reported is at least as bad as every nearest edge, is at most one hop
\* further away than they are, and only for a risk that is higher.
WorstOfTheNearest ==
  pc = "done" => \A f \in Reported \intersect Reach[depth] :
    /\ best[f].hops \in {Distance(f), Distance(f) + 1}
    /\ \A e \in Nearest(f) :
         LET near == [hops |-> Distance(f), type |-> e[3]]
         IN  /\ Impact(f, best[f]) >= Impact(f, near)
             /\ best[f].hops > Distance(f) => Impact(f, best[f]) > Impact(f, near)

\* A file with an edge of two thirds of the largest weight from a changed file
\* is listed as a direct dependent or as a test, whatever else leads to it.
StrongIsDirect ==
  pc = "done" => \A e \in graph :
    (/\ e[1] \in Changed /\ e[2] \in Reported
     /\ \A t \in Types : 2 * Weight[t] <= 3 * Weight[e[3]])
      => Category(e[2]) \in {"direct", "test"}

=============================================================================
