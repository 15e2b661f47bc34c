-------------------------- MODULE DependencyGraph --------------------------
(***************************************************************************)
(* The typed file graph of src/core_graph/graph.rs and the functions of    *)
(* src/index that build it: two adjacency maps kept as each other's mirror *)
(* (dependents are read from the second), import resolution against the    *)
(* set of indexed paths, and the full build.                               *)
(*                                                                         *)
(* A map from path to a set of typed edges that has no empty entries is    *)
(* the set of its triples <<key, other end, type>>.  Edge confidence is a  *)
(* function of the type here, and column nodes are left out.               *)
(***************************************************************************)
EXTENDS Naturals, Sequences

EdgeTypes == {"import", "schema", "bridge"}

EmptyGraph == [edges |-> {}, reverse |-> {}]

Flip(e) == <<e[2], e[1], e[3]>>

\* add_edge for every edge of es: each goes into both maps.
AddEdges(g, es) == [edges   |-> g.edges \union es,
                    reverse |-> g.reverse \union {Flip(e) : e \in es}]

\* contains_node: an end of some edge, in either map.
ContainsNode(g, p) == \/ \E e \in g.edges : e[1] = p
                      \/ \E r \in g.reverse : r[1] = p

\* Mutant: the entries of `reverse` keep the removed sources.
RemoveForwardEdgesFor(g, sources) ==
  [edges |-> {e \in g.edges : e[1] \notin sources}, reverse |-> g.reverse]

\* remove_edges_for each source: its entry of `edges` goes, and its mark in
\* the entries of `reverse` that this entry pointed at.
RemoveEdgesFor(g, sources) ==
  [edges   |-> {e \in g.edges : e[1] \notin sources},
   reverse |-> {r \in g.reverse :
                  ~ /\ r[2] \in sources
                    /\ \E e \in g.edges : e[1] = r[2] /\ e[2] = r[1]}]

\* try_candidates: the first candidate path that is in the universe, as a set
\* of at most one.
FirstIn(candidates, universe) ==
  {candidates[i] : i \in {j \in 1..Len(candidates) :
                            /\ candidates[j] \in universe
                            /\ \A k \in 1..j - 1 : candidates[k] \notin universe}}

\* edges_for_file: what the candidate lists of p resolve to.
ImportEdges(p, lists, universe) ==
  {<<p, t, "import">> : t \in UNION {FirstIn(l, universe) : l \in lists}}

=============================================================================
