----------------------------- MODULE GraphBuild -----------------------------
(***************************************************************************)
(* What CodebaseIndex::finish_build computes from the files a build read,  *)
(* and the two ways its graph is brought up to date afterwards:            *)
(* rebuild_graph and rebuild_graph_delta (src/index/mod.rs).               *)
(*                                                                         *)
(* A content is what the analyses see of it: the candidate paths of its    *)
(* imports, whether it calls or serves a route (cross-language bridges),   *)
(* and whether it declares or queries tables (schema).  Ignore rules and   *)
(* letter case are left out: Files are the paths that are indexed.         *)
(***************************************************************************)
EXTENDS DependencyGraph

CONSTANTS
  Files,          \* paths
  Contents,       \* contents that can be read as text
  Absent,         \* no such file
  Imports,        \* candidate lists of the imports of a path with a content
  Calls, Serves,  \* contents that call a route, that serve it
  Queries, Tables  \* contents that query tables, that declare them

Stored == Contents \union {Absent}

ASSUME ContentAssumption ==
  /\ Absent \notin Contents
  /\ Imports \in [Files -> [Contents -> SUBSET Seq(Files)]]
  /\ Calls \subseteq Contents /\ Serves \subseteq Contents
  /\ Queries \subseteq Contents /\ Tables \subseteq Contents

NoFiles == [f \in Files |-> Absent]
Universe(ix) == {f \in Files : ix[f] # Absent}

\* resolve_route: a call is a bridge when one other file serves the route.
Bridges(ix) ==
  {b \in Files \X Files :
     /\ ix[b[1]] \in Calls
     /\ {g \in Files \ {b[1]} : ix[g] \in Serves} = {b[2]}}

\* build_schema_index: nothing declared is no schema.
SchemaOf(ix) == {f \in Files : ix[f] \in Tables}

ImportsOf(ix, f) ==
  IF ix[f] = Absent THEN {} ELSE ImportEdges(f, Imports[f][ix[f]], Universe(ix))

BridgeEdges(bs) == {<<b[1], b[2], "bridge">> : b \in bs}
SchemaEdges(ix, sc) ==
  {<<f, t, "schema">> : f \in {g \in Files : ix[g] \in Queries}, t \in sc}

\* rebuild_graph: imports, then schema edges, then the bridges once detected.
FullGraph(ix, bs, sc) ==
  AddEdges(EmptyGraph, (UNION {ImportsOf(ix, f) : f \in Files})
                         \union SchemaEdges(ix, sc) \union BridgeEdges(bs))

\* rebuild_graph_delta on contents alone: the changed files' edges are redone.
DeltaGraph(g, ix, bs, changed) ==
  AddEdges(RemoveEdgesFor(g, changed),
           (UNION {ImportsOf(ix, f) : f \in changed})
             \union BridgeEdges({b \in bs : b[1] \in changed}))

\* Mutant: only removals are structural.
RemovalsStructural(g, changed, removed) == removed # {}

\* An addition or a removal may change what other files' imports resolve to.
Structural(g, changed, removed) ==
  removed # {} \/ \E p \in changed : ~ContainsNode(g, p)

=============================================================================
