------------------------- MODULE WatchedIndexProofs -------------------------
(***************************************************************************)
(* Theorems about WatchedIndex, for any set of files and contents, any     *)
(* imports, and any bounds: the graph's two maps stay mirrored through     *)
(* deltas and rebuilds, deltas are exact off the ends of bridges, and an   *)
(* index entry that is stale has its event under way unless the event was  *)
(* without effect in one of the ways Excused lists.                        *)
(***************************************************************************)
EXTENDS WatchedIndex, TLAPS

Triples == Files \X Files \X EdgeTypes
Mirrored(g) == g.reverse = {Flip(e) : e \in g.edges}
Out(g, f) == {e \in g.edges : e[1] = f}

-----------------------------------------------------------------------------
(* The graph.                                                              *)

\* Adding edges to both maps keeps them each other's mirror.
LEMMA AddMirrors ==
  ASSUME NEW g, NEW es, Mirrored(g)
  PROVE  Mirrored(AddEdges(g, es))
BY DEF Mirrored, AddEdges

\* remove_edges_for finds every mark of a source through the source's own
\* edges, so that nothing of it is left in the other map.
LEMMA RemoveMirrors ==
  ASSUME NEW g, NEW sources, g.edges \subseteq Triples, Mirrored(g)
  PROVE  Mirrored(RemoveEdgesFor(g, sources))
<1> DEFINE h == RemoveEdgesFor(g, sources)
<1>1. h.edges = {e \in g.edges : e[1] \notin sources}
  BY DEF RemoveEdgesFor
<1>2. h.reverse = {r \in g.reverse :
                     ~ /\ r[2] \in sources
                       /\ \E e \in g.edges : e[1] = r[2] /\ e[2] = r[1]}
  BY DEF RemoveEdgesFor
<1>3. ASSUME NEW e \in g.edges
      PROVE  Flip(e)[1] = e[2] /\ Flip(e)[2] = e[1]
  BY DEF Flip
<1>4. ASSUME NEW r \in h.reverse
      PROVE  r \in {Flip(e) : e \in h.edges}
  <2>1. PICK e \in g.edges : r = Flip(e)
    BY <1>2 DEF Mirrored
  <2>2. e[1] \notin sources
    BY <2>1, <1>2, <1>3
  <2> QED
    BY <2>1, <2>2, <1>1
<1>5. ASSUME NEW e \in h.edges
      PROVE  Flip(e) \in h.reverse
  BY <1>1, <1>2, <1>3 DEF Mirrored
<1> QED
  BY <1>4, <1>5 DEF Mirrored

\* What the first candidate resolves to depends on the candidates' presence.
LEMMA FirstInDependsOnCandidates ==
  ASSUME NEW l \in Seq(Files), NEW u, NEW v,
         \A i \in DOMAIN l : l[i] \in u <=> l[i] \in v
  PROVE  FirstIn(l, u) = FirstIn(l, v)
<1>1. DOMAIN l = 1..Len(l) /\ Len(l) \in Nat
  OBVIOUS
<1>2. \A j \in 1..Len(l) : 1..j - 1 \subseteq 1..Len(l)
  BY <1>1
<1> QED
  BY <1>1, <1>2 DEF FirstIn

\* An import resolves to an indexed path.
LEMMA FirstInFound ==
  ASSUME NEW l \in Seq(Files), NEW u
  PROVE  FirstIn(l, u) \subseteq u \intersect Files
BY DEF FirstIn

LEMMA ImportsShape ==
  ASSUME NEW ix \in [Files -> Stored], NEW f \in Files
  PROVE  /\ ImportsOf(ix, f) \subseteq Triples
         /\ \A e \in ImportsOf(ix, f) :
              e[1] = f /\ ix[f] # Absent /\ e[2] \in Universe(ix)
<1>1. CASE ix[f] = Absent
  BY <1>1 DEF ImportsOf
<1>2. CASE ix[f] # Absent
  <2>1. Imports[f][ix[f]] \subseteq Seq(Files)
    BY <1>2, ContentAssumption DEF Stored
  <2>2. ASSUME NEW e \in ImportsOf(ix, f)
        PROVE  \E t \in Universe(ix) \intersect Files : e = <<f, t, "import">>
    <3>1. PICK l \in Imports[f][ix[f]] : \E t \in FirstIn(l, Universe(ix)) : e = <<f, t, "import">>
      BY <1>2, <2>2 DEF ImportsOf, ImportEdges
    <3> QED
      BY <3>1, <2>1, FirstInFound
  <2> QED
    BY <1>2, <2>2 DEF Triples, EdgeTypes
<1> QED
  BY <1>1, <1>2

\* The edges of a full rebuild, and those that leave one file.
LEMMA FullEdges ==
  ASSUME NEW ix, NEW bs, NEW sc
  PROVE  \A e : e \in FullGraph(ix, bs, sc).edges <=>
                 \/ \E f \in Files : e \in ImportsOf(ix, f)
                 \/ e \in SchemaEdges(ix, sc)
                 \/ e \in BridgeEdges(bs)
BY DEF FullGraph, AddEdges, EmptyGraph

LEMMA FullMirrored ==
  ASSUME NEW ix, NEW bs, NEW sc
  PROVE  Mirrored(FullGraph(ix, bs, sc))
<1>1. Mirrored(EmptyGraph)
  BY DEF Mirrored, EmptyGraph
<1> QED
  BY <1>1, AddMirrors DEF FullGraph

LEMMA BridgesShape ==
  ASSUME NEW bs \in SUBSET (Files \X Files)
  PROVE  BridgeEdges(bs) \subseteq Triples
<1>1. ASSUME NEW b \in bs
      PROVE  <<b[1], b[2], "bridge">> \in Triples
  BY DEF Triples, EdgeTypes
<1> QED
  BY <1>1 DEF BridgeEdges

LEMMA FullShape ==
  ASSUME NEW ix \in [Files -> Stored], NEW bs \in SUBSET (Files \X Files), NEW sc \in SUBSET Files
  PROVE  FullGraph(ix, bs, sc).edges \subseteq Triples
<1>1. \A f \in Files : ImportsOf(ix, f) \subseteq Triples
  BY ImportsShape
<1>2. SchemaEdges(ix, sc) \subseteq Triples
  BY DEF SchemaEdges, Triples, EdgeTypes
<1>3. BridgeEdges(bs) \subseteq Triples
  BY BridgesShape
<1> QED
  BY <1>1, <1>2, <1>3, FullEdges

LEMMA FullOut ==
  ASSUME NEW ix \in [Files -> Stored], NEW bs, NEW sc, NEW f \in Files
  PROVE  Out(FullGraph(ix, bs, sc), f) =
           ImportsOf(ix, f) \union {e \in SchemaEdges(ix, sc) : e[1] = f}
                            \union {e \in BridgeEdges(bs) : e[1] = f}
<1>1. \A g \in Files : \A e \in ImportsOf(ix, g) : e[1] = g
  BY ImportsShape
<1> QED
  BY <1>1, FullEdges DEF Out

Graphs == [edges : SUBSET Triples, reverse : SUBSET Triples]

\* A mirrored graph of triples has the type of `graph`.
LEMMA MirrorShape ==
  ASSUME NEW g, g.edges \subseteq Triples, Mirrored(g)
  PROVE  g.reverse \subseteq Triples
BY DEF Mirrored, Flip, Triples

LEMMA FullType ==
  ASSUME NEW ix \in [Files -> Stored], NEW bs \in SUBSET (Files \X Files), NEW sc \in SUBSET Files
  PROVE  FullGraph(ix, bs, sc) \in Graphs
<1> DEFINE g == FullGraph(ix, bs, sc)
<1>1. g.edges \subseteq Triples /\ g.reverse \subseteq Triples
  BY FullShape, FullMirrored, MirrorShape
<1>2. g = [edges |-> g.edges, reverse |-> g.reverse]
  BY DEF FullGraph, AddEdges
<1> HIDE DEF g
<1>3. [edges |-> g.edges, reverse |-> g.reverse] \in Graphs
  BY <1>1 DEF Graphs
<1> QED
  BY <1>2, <1>3 DEF g

LEMMA DeltaMirrored ==
  ASSUME NEW g \in Graphs, NEW ix, NEW bs, NEW changed, Mirrored(g)
  PROVE  Mirrored(DeltaGraph(g, ix, bs, changed))
<1>1. g.edges \subseteq Triples
  BY DEF Graphs
<1> QED
  BY <1>1, RemoveMirrors, AddMirrors DEF DeltaGraph

\* The edges an edge delta leaves and adds.
LEMMA DeltaEdges ==
  ASSUME NEW g, NEW ix, NEW bs, NEW changed
  PROVE  \A e : e \in DeltaGraph(g, ix, bs, changed).edges <=>
                 \/ e \in g.edges /\ e[1] \notin changed
                 \/ \E f \in changed : e \in ImportsOf(ix, f)
                 \/ e \in BridgeEdges(bs) /\ e[1] \in changed
<1>1. \A e : e \in BridgeEdges({b \in bs : b[1] \in changed}) <=>
               e \in BridgeEdges(bs) /\ e[1] \in changed
  <2>1. \A b : <<b[1], b[2], "bridge">>[1] = b[1]
    OBVIOUS
  <2> QED
    BY <2>1 DEF BridgeEdges
<1> QED
  BY <1>1 DEF DeltaGraph, AddEdges, RemoveEdgesFor

LEMMA DeltaType ==
  ASSUME NEW g \in Graphs, NEW ix \in [Files -> Stored], NEW bs \in SUBSET (Files \X Files),
         NEW changed \in SUBSET Files, Mirrored(g)
  PROVE  DeltaGraph(g, ix, bs, changed) \in Graphs
<1> DEFINE h == DeltaGraph(g, ix, bs, changed)
<1>1. \A f \in changed : ImportsOf(ix, f) \subseteq Triples
  BY ImportsShape
<1>2. BridgeEdges(bs) \subseteq Triples
  BY BridgesShape
<1>3. g.edges \subseteq Triples
  BY DEF Graphs
<1>4. h.edges \subseteq Triples
  BY <1>1, <1>2, <1>3, DeltaEdges
<1>5. h.reverse \subseteq Triples
  BY <1>4, DeltaMirrored, MirrorShape
<1>6. h = [edges |-> h.edges, reverse |-> h.reverse]
  BY DEF DeltaGraph, AddEdges
<1> HIDE DEF h
<1>7. [edges |-> h.edges, reverse |-> h.reverse] \in Graphs
  BY <1>4, <1>5 DEF Graphs
<1> QED
  BY <1>6, <1>7 DEF h

\* A changed file leaves with the edges of a full rebuild, any other file
\* with those it had.
LEMMA DeltaOut ==
  ASSUME NEW g, NEW ix \in [Files -> Stored], NEW bs, NEW changed \in SUBSET Files,
         NEW f \in Files
  PROVE  Out(DeltaGraph(g, ix, bs, changed), f) =
           IF f \in changed
             THEN ImportsOf(ix, f) \union {e \in BridgeEdges(bs) : e[1] = f}
             ELSE Out(g, f)
<1>1. \A h \in Files : \A e \in ImportsOf(ix, h) : e[1] = h
  BY ImportsShape
<1>2. CASE f \in changed
  BY <1>1, <1>2, DeltaEdges DEF Out
<1>3. CASE f \notin changed
  BY <1>1, <1>3, DeltaEdges DEF Out
<1> QED
  BY <1>2, <1>3

\* The paths that the imports of f may resolve to.
CandidatesIn(ix, f) ==
  IF ix[f] = Absent THEN {} ELSE UNION {{l[i] : i \in DOMAIN l} : l \in Imports[f][ix[f]]}

\* A file's imports depend on its content and on which candidates exist.
LEMMA ImportsDependOnCandidates ==
  ASSUME NEW ix \in [Files -> Stored], NEW iy \in [Files -> Stored], NEW f \in Files,
         ix[f] = iy[f],
         \A c \in CandidatesIn(ix, f) : c \in Universe(ix) <=> c \in Universe(iy)
  PROVE  ImportsOf(ix, f) = ImportsOf(iy, f)
<1>1. CASE ix[f] = Absent
  BY <1>1 DEF ImportsOf
<1>2. CASE ix[f] # Absent
  <2>1. Imports[f][ix[f]] \subseteq Seq(Files)
    BY <1>2, ContentAssumption DEF Stored
  <2>2. ASSUME NEW l \in Imports[f][ix[f]]
        PROVE  FirstIn(l, Universe(ix)) = FirstIn(l, Universe(iy))
    <3>1. \A i \in DOMAIN l : l[i] \in Universe(ix) <=> l[i] \in Universe(iy)
      BY <1>2 DEF CandidatesIn
    <3> QED
      BY <2>1, <3>1, FirstInDependsOnCandidates
  <2> QED
    BY <1>2, <2>2 DEF ImportsOf, ImportEdges
<1> QED
  BY <1>1, <1>2

-----------------------------------------------------------------------------
(* Types.                                                                  *)

LEMMA GraphTypes ==
  ASSUME NEW ix \in [Files -> Stored]
  PROVE  /\ Bridges(ix) \subseteq Files \X Files /\ SchemaOf(ix) \subseteq Files
         /\ FullGraph(ix, Bridges(ix), SchemaOf(ix)) \in Graphs
<1>1. Bridges(ix) \in SUBSET (Files \X Files) /\ SchemaOf(ix) \in SUBSET Files
  BY DEF Bridges, SchemaOf
<1> QED
  BY <1>1, FullType

LEMMA ReadableType ==
  ASSUME NEW d \in [Files -> OnDisk]
  PROVE  Readable(d) \in [Files -> Stored]
BY DEF Readable, OnDisk, Stored

LEMMA NoFilesType == NoFiles \in [Files -> Stored]
BY DEF NoFiles, Stored

LEMMA QueuedType ==
  ASSUME TypeOK
  PROVE  Queued \subseteq Event
BY DEF TypeOK, Queued

LEMMA TypeInit ==
  ASSUME Init
  PROVE  TypeOK
<1>1. disk \in [Files -> OnDisk] /\ kind \in Kinds
  BY WatchAssumption DEF Init
<1>2. index \in [Files -> Stored]
  BY <1>1, ReadableType DEF Init
<1>3. graph \in Graphs /\ bridges \subseteq Files \X Files /\ schema \subseteq Files
  BY <1>2, GraphTypes DEF Init
<1>4. work \in [Files -> Stored]
  BY NoFilesType DEF Init
<1>5. /\ edits \in 0..MaxEdits /\ overflow \in BOOLEAN /\ slices \in 0..MaxSlices
      /\ updated \in BOOLEAN /\ pc = "install" /\ batch = {} /\ todo = {}
      /\ dropped = {} /\ moved = {} /\ outrun = {} /\ lost = {} /\ touched = {}
  <2>1. 0 \in 0..MaxEdits /\ 0 \in 0..MaxSlices /\ FALSE \in BOOLEAN
    BY WatchAssumption
  <2> QED
    BY <2>1 DEF Init
<1>6. chan \in Seq(Event) /\ Len(chan) <= ChannelBound
  <2>1. <<>> \in Seq(Event) /\ Len(<<>>) = 0 /\ 0 <= ChannelBound
    BY WatchAssumption
  <2> QED
    BY <2>1 DEF Init
<1> QED
  BY <1>1, <1>2, <1>3, <1>4, <1>5, <1>6 DEF TypeOK, Graphs, Triples

LEMMA ReportType ==
  ASSUME TypeOK, NEW e \in Event, Report(e)
  PROVE  /\ chan' \in Seq(Event) /\ Len(chan') <= ChannelBound /\ overflow' \in BOOLEAN
         /\ dropped' \subseteq Files /\ outrun' \subseteq Files /\ lost' \subseteq Files
<1>1. e.path \in Files /\ Len(chan) \in Nat /\ ChannelBound \in Nat
  BY WatchAssumption DEF Event, TypeOK
<1>2. Append(chan, e) \in Seq(Event) /\ Len(Append(chan, e)) = Len(chan) + 1
  BY DEF TypeOK
<1>3. chan' \in Seq(Event) /\ Len(chan') <= ChannelBound
  BY <1>1, <1>2 DEF Report, TypeOK
<1>4. overflow' \in BOOLEAN
  BY DEF Report, TypeOK
<1>5. dropped' \subseteq Files /\ outrun' \subseteq Files /\ lost' \subseteq Files
  BY <1>1 DEF Report, TypeOK
<1> QED
  BY <1>3, <1>4, <1>5

LEMMA EventTypes ==
  ASSUME NEW f \in Files
  PROVE  /\ WriteOf(f) \in Event /\ RemoveOf(f) \in Event
         /\ WriteOf(f).path = f /\ RemoveOf(f).path = f /\ WriteOf(f) # RemoveOf(f)
BY DEF WriteOf, RemoveOf, Event

LEMMA TypeEdit ==
  ASSUME TypeOK, NEW f \in Files, Edit(f)
  PROVE  TypeOK'
<1>1. PICK c \in OnDisk, e \in {WriteOf(f), RemoveOf(f)} :
        Edited(f, c) /\ Report(e) /\ moved' \in {moved \ {f}, moved \union {f}}
  BY DEF Edit, Write, Delete, MoveAway, OnDisk, Stored
<1>2. /\ chan' \in Seq(Event) /\ Len(chan') <= ChannelBound /\ overflow' \in BOOLEAN
      /\ dropped' \subseteq Files /\ outrun' \subseteq Files /\ lost' \subseteq Files
  BY <1>1, EventTypes, ReportType
<1>3. disk' \in [Files -> OnDisk] /\ edits' \in 0..MaxEdits /\ touched' \subseteq Files
  BY <1>1, WatchAssumption DEF Edited, TypeOK
<1>4. moved' \subseteq Files
  BY <1>1 DEF TypeOK
<1>5. UNCHANGED <<kind, index, bridges, schema, graph, pc, batch, slices, todo, work, updated>>
  BY <1>1 DEF Edited, indexVars, loopVars
<1> QED
  BY <1>2, <1>3, <1>4, <1>5 DEF TypeOK

LEMMA StartApplyType ==
  ASSUME TypeOK, NEW b \in SUBSET Event, StartApply(b)
  PROVE  /\ pc' = "read" /\ batch' \subseteq Event /\ slices' \in 0..MaxSlices
         /\ work' \in [Files -> Stored] /\ todo' \subseteq Files /\ updated' \in BOOLEAN
BY WatchAssumption DEF StartApply, TypeOK, Written, Stored

LEMMA TypeLoop ==
  ASSUME TypeOK, LoopStep, ~Publish
  PROVE  TypeOK'
<1> USE DEF indexVars, diskVars
<1>q. Queued \in SUBSET Event /\ batch \in SUBSET Event /\ batch \union Queued \in SUBSET Event
  BY QueuedType DEF TypeOK
<1>e. <<>> \in Seq(Event) /\ Len(<<>>) = 0 /\ 0 <= ChannelBound
  BY WatchAssumption
<1>1. CASE Receive
  <2>1. Head(chan) \in Event /\ Tail(chan) \in Seq(Event) /\ Len(Tail(chan)) <= ChannelBound
    BY <1>1, WatchAssumption DEF Receive, TypeOK
  <2> QED
    BY <1>1, <2>1 DEF Receive, TypeOK
<1>2. CASE ReceiveNothing
  BY <1>2 DEF ReceiveNothing, TypeOK
<1>3. CASE DrainHttp
  <2>1. slices' \in 0..MaxSlices /\ pc' \in {"debounce", "collected"}
    BY <1>3, WatchAssumption DEF DrainHttp, TypeOK
  <2> QED
    BY <1>3, <1>q, <1>e, <2>1 DEF DrainHttp, TypeOK
<1>4. CASE DrainLsp
  BY <1>4, <1>q, <1>e, StartApplyType DEF DrainLsp, TypeOK
<1>5. CASE DrainWatch
  <2>1. CASE StartApply(batch)
    BY <1>5, <2>1, <1>q, <1>e, StartApplyType DEF DrainWatch, TypeOK
  <2>2. CASE ~StartApply(batch)
    <3>1. slices' \in 0..MaxSlices
      BY <1>5, <2>2, WatchAssumption DEF DrainWatch, TypeOK
    <3> QED
      BY <1>5, <2>2, <3>1, <1>q, <1>e DEF DrainWatch, TypeOK
  <2> QED
    BY <2>1, <2>2
<1>6. CASE DrainWatchCap
  <2>1. Paths(Queued) \subseteq Files
    BY <1>q DEF Paths, Event
  <2> QED
    BY <1>6, <2>1, <1>q, <1>e, StartApplyType DEF DrainWatchCap, TypeOK
<1>7. CASE TakeOverflow
  BY <1>7, NoFilesType DEF TakeOverflow, TypeOK
<1>8. CASE Collected
  <2>1. CASE StartApply(batch)
    BY <1>8, <2>1, <1>q, StartApplyType DEF Collected, TypeOK
  <2>2. CASE ~StartApply(batch)
    BY <1>8, <2>2 DEF Collected, TypeOK
  <2> QED
    BY <2>1, <2>2
<1>9. CASE \E f \in Files : ReadModified(f)
  <2>1. PICK f \in Files : ReadModified(f)
    BY <1>9
  <2>2. work' \in [Files -> Stored] /\ updated' \in BOOLEAN
    BY <2>1 DEF ReadModified, TypeOK, Stored
  <2> QED
    BY <2>1, <2>2 DEF ReadModified, TypeOK
<1>10. CASE \E f \in Files : ReadRebuild(f)
  <2>1. PICK f \in Files : ReadRebuild(f)
    BY <1>10
  <2>2. Readable(disk)[f] \in Stored
    BY ReadableType DEF TypeOK
  <2>3. work' \in [Files -> Stored]
    BY <2>1, <2>2 DEF ReadRebuild, TypeOK
  <2> QED
    BY <2>1, <2>3 DEF ReadRebuild, TypeOK
<1>11. CASE RebuildPublish
  <2>1. work \in [Files -> Stored]
    BY DEF TypeOK
  <2>2. graph' \in Graphs /\ bridges' \subseteq Files \X Files /\ schema' \subseteq Files
    BY <1>11, <2>1, GraphTypes DEF RebuildPublish
  <2>3. outrun' \subseteq Files /\ dropped' \subseteq Files /\ moved' \subseteq Files
    BY <1>11 DEF RebuildPublish, TypeOK
  <2> QED
    BY <1>11, <2>1, <2>2, <2>3, NoFilesType DEF RebuildPublish, EndApply, TypeOK, Graphs, Triples
<1> QED
  BY <1>1, <1>2, <1>3, <1>4, <1>5, <1>6, <1>7, <1>8, <1>9, <1>10, <1>11 DEF LoopStep

\* Publishing a batch: the graph it computes has the graph's type as long as
\* the one it starts from is mirrored.
LEMMA TypePublish ==
  ASSUME TypeOK, Mirrored(graph), Publish
  PROVE  TypeOK'
<1>1. graph \in Graphs /\ work \in [Files -> Stored] /\ bridges \in SUBSET (Files \X Files)
      /\ schema \in SUBSET Files /\ Written(batch) \in SUBSET Files
  BY DEF TypeOK, Graphs, Triples, Written
<1>2. FullGraph(work, bridges, schema) \in Graphs
  BY <1>1, FullType
<1>3. DeltaGraph(graph, work, bridges, Written(batch)) \in Graphs
  BY <1>1, DeltaType
<1>4. graph' \in Graphs /\ index' \in [Files -> Stored]
  BY <1>1, <1>2, <1>3 DEF Publish, TypeOK
<1> QED
  BY <1>1, <1>4, NoFilesType DEF Publish, EndApply, diskVars, TypeOK, Graphs, Triples

LEMMA TypeRest ==
  ASSUME TypeOK,
         \/ Install \/ InstallFail \/ RebuildFail \/ (\E f \in Files : SkipUnsettled(f))
         \/ UNCHANGED vars
  PROVE  TypeOK'
<1> USE DEF indexVars, diskVars
<1>1. CASE Install
  BY <1>1 DEF Install, TypeOK
<1>2. CASE InstallFail
  BY <1>2 DEF InstallFail, TypeOK
<1>3. CASE RebuildFail
  <2>1. Paths(batch) \subseteq Files
    BY DEF TypeOK, Paths, Event
  <2> QED
    BY <1>3, <2>1, NoFilesType DEF RebuildFail, EndApply, TypeOK
<1>4. CASE \E f \in Files : SkipUnsettled(f)
  BY <1>4 DEF SkipUnsettled, TypeOK
<1>5. CASE UNCHANGED vars
  BY <1>5 DEF vars, loopVars, TypeOK
<1> QED
  BY <1>1, <1>2, <1>3, <1>4, <1>5

-----------------------------------------------------------------------------
(* The graph invariant.                                                    *)

EndsOf(bs) == {b[1] : b \in bs} \union {b[2] : b \in bs}

\* An edge joins indexed files and ends of bridges.
NodesKnown(g, ix, bs) ==
  \A e \in g.edges : e[1] \in Universe(ix) \union EndsOf(bs)
                  /\ e[2] \in Universe(ix) \union EndsOf(bs)

\* Off the ends of bridges, a file has the edges of a full rebuild.
ExactFor(g, ix, bs, sc) ==
  \A f \in Files : CandidatesIn(ix, f) \intersect EndsOf(bs) = {} =>
    Out(g, f) = Out(FullGraph(ix, bs, sc), f)

GraphInv ==
  /\ Mirrored(graph) /\ BridgeEdges(bridges) \subseteq graph.edges
  /\ schema = {} => NodesKnown(graph, index, bridges)
  /\ ExactFor(graph, index, bridges, schema)

\* What the copy holds for the files the batch does not name.
WorkInv ==
  pc = "read" =>
    /\ todo \subseteq Written(batch)
    /\ \A f \in Files \ (Removed(batch) \union Written(batch)) : work[f] = index[f]
    /\ \A f \in Files \ Removed(batch) : index[f] # Absent => work[f] # Absent
    /\ ~updated => work = index /\ Removed(batch) = {}

\* A full rebuild satisfies the invariant whatever the index was before.
LEMMA FullIsExact ==
  ASSUME NEW ix \in [Files -> Stored], NEW bs \in SUBSET (Files \X Files), NEW sc \in SUBSET Files
  PROVE  LET g == FullGraph(ix, bs, sc)
         IN /\ Mirrored(g) /\ BridgeEdges(bs) \subseteq g.edges
            /\ sc = {} => NodesKnown(g, ix, bs)
            /\ ExactFor(g, ix, bs, sc)
<1> DEFINE g == FullGraph(ix, bs, sc)
<1>1. Mirrored(g)
  BY FullMirrored
<1>2. BridgeEdges(bs) \subseteq g.edges
  BY FullEdges
<1>3. ExactFor(g, ix, bs, sc)
  BY DEF ExactFor
<1>4. ASSUME sc = {}, NEW e \in g.edges
      PROVE  e[1] \in Universe(ix) \union EndsOf(bs) /\ e[2] \in Universe(ix) \union EndsOf(bs)
  <2>1. CASE e \in BridgeEdges(bs)
    BY <2>1 DEF BridgeEdges, EndsOf
  <2>2. CASE \E f \in Files : e \in ImportsOf(ix, f)
    BY <2>2, ImportsShape DEF Universe
  <2>3. SchemaEdges(ix, sc) = {}
    BY <1>4 DEF SchemaEdges
  <2> QED
    BY <1>4, <2>1, <2>2, <2>3, FullEdges
<1> QED
  BY <1>1, <1>2, <1>3, <1>4 DEF NodesKnown

\* An edge delta on contents alone keeps it: the paths it brings into the
\* index were nodes already, so they are ends of bridges.
LEMMA DeltaIsExact ==
  ASSUME NEW g \in Graphs, NEW ix \in [Files -> Stored], NEW iy \in [Files -> Stored],
         NEW bs \in SUBSET (Files \X Files), NEW changed \in SUBSET Files,
         Mirrored(g), BridgeEdges(bs) \subseteq g.edges,
         NodesKnown(g, ix, bs), ExactFor(g, ix, bs, {}),
         \A p \in changed : ContainsNode(g, p),
         \A f \in Files \ changed : iy[f] = ix[f],
         \A f \in Files : ix[f] # Absent => iy[f] # Absent
  PROVE  LET h == DeltaGraph(g, iy, bs, changed)
         IN /\ Mirrored(h) /\ BridgeEdges(bs) \subseteq h.edges
            /\ NodesKnown(h, iy, bs)
            /\ ExactFor(h, iy, bs, {})
<1> DEFINE h == DeltaGraph(g, iy, bs, changed)
<1>1. Mirrored(h)
  BY DeltaMirrored
<1>2. BridgeEdges(bs) \subseteq h.edges
  BY DeltaEdges
<1>3. Universe(ix) \subseteq Universe(iy)
  BY DEF Universe
<1>4. ASSUME NEW e \in h.edges
      PROVE  e[1] \in Universe(iy) \union EndsOf(bs) /\ e[2] \in Universe(iy) \union EndsOf(bs)
  <2>1. CASE e \in g.edges
    BY <2>1, <1>3 DEF NodesKnown
  <2>2. CASE \E f \in changed : e \in ImportsOf(iy, f)
    BY <2>2, ImportsShape DEF Universe
  <2>3. CASE e \in BridgeEdges(bs)
    BY <2>3 DEF BridgeEdges, EndsOf
  <2> QED
    BY <1>4, <2>1, <2>2, <2>3, DeltaEdges
<1>5. \A p \in changed : p \in Universe(ix) \union EndsOf(bs)
  <2>1. ASSUME NEW p \in changed
        PROVE  \E e \in g.edges : e[1] = p \/ e[2] = p
    <3>1. \A e : Flip(e)[1] = e[2]
      BY DEF Flip
    <3>2. CASE \E e \in g.edges : e[1] = p
      BY <3>2
    <3>3. CASE \E r \in g.reverse : r[1] = p
      <4>1. PICK r \in g.reverse : r[1] = p
        BY <3>3
      <4>2. PICK e \in g.edges : r = Flip(e)
        BY DEF Mirrored
      <4> QED
        BY <3>1, <4>1, <4>2
    <3> QED
      BY <3>2, <3>3 DEF ContainsNode
  <2> QED
    BY <2>1 DEF NodesKnown
<1>6. \A p \in Files : p \in Universe(iy) => p \in Universe(ix) \union EndsOf(bs)
  BY <1>5 DEF Universe
<1>7. ASSUME NEW f \in Files, CandidatesIn(iy, f) \intersect EndsOf(bs) = {}
      PROVE  Out(h, f) = Out(FullGraph(iy, bs, {}), f)
  <2>1. \A ia : SchemaEdges(ia, {}) = {}
    BY DEF SchemaEdges
  <2>2. ASSUME NEW ia \in [Files -> Stored]
        PROVE  Out(FullGraph(ia, bs, {}), f) =
                 ImportsOf(ia, f) \union {e \in BridgeEdges(bs) : e[1] = f}
    <3>1. Out(FullGraph(ia, bs, {}), f) =
            ImportsOf(ia, f) \union {e \in SchemaEdges(ia, {}) : e[1] = f}
                             \union {e \in BridgeEdges(bs) : e[1] = f}
      BY FullOut
    <3> QED
      BY <2>1, <3>1
  <2>d. Out(h, f) = IF f \in changed
                      THEN ImportsOf(iy, f) \union {e \in BridgeEdges(bs) : e[1] = f}
                      ELSE Out(g, f)
    BY DeltaOut
  <2>y. Out(FullGraph(iy, bs, {}), f) = ImportsOf(iy, f) \union {e \in BridgeEdges(bs) : e[1] = f}
    BY <2>2
  <2>x. Out(FullGraph(ix, bs, {}), f) = ImportsOf(ix, f) \union {e \in BridgeEdges(bs) : e[1] = f}
    BY <2>2
  <2>3. CASE f \in changed
    BY <2>3, <2>d, <2>y
  <2>4. CASE f \notin changed
    <3>1. ix[f] = iy[f]
      BY <2>4
    <3>2. CandidatesIn(ix, f) = CandidatesIn(iy, f)
      BY <3>1 DEF CandidatesIn
    <3>3. CandidatesIn(ix, f) \subseteq Files
      <4>1. CASE ix[f] = Absent
        BY <4>1 DEF CandidatesIn
      <4>2. CASE ix[f] # Absent
        <5>1. Imports[f][ix[f]] \subseteq Seq(Files)
          BY <4>2, ContentAssumption DEF Stored
        <5> QED
          BY <4>2, <5>1 DEF CandidatesIn
      <4> QED
        BY <4>1, <4>2
    <3>4. \A c \in CandidatesIn(ix, f) : c \in Universe(ix) <=> c \in Universe(iy)
      BY <1>3, <1>6, <1>7, <3>2, <3>3
    <3>5. ImportsOf(ix, f) = ImportsOf(iy, f)
      BY <3>1, <3>4, ImportsDependOnCandidates
    <3>6. Out(g, f) = Out(FullGraph(ix, bs, {}), f)
      BY <1>7, <3>2 DEF ExactFor
    <3> QED
      BY <2>4, <2>d, <2>x, <2>y, <3>5, <3>6
  <2> QED
    BY <2>3, <2>4
<1> QED
  BY <1>1, <1>2, <1>4, <1>7 DEF NodesKnown, ExactFor

LEMMA StartApplyWork ==
  ASSUME TypeOK, NEW b \in SUBSET Event, StartApply(b), index' = index
  PROVE  WorkInv'
<1>1. \A f \in Files : work'[f] = IF f \in Removed(b) THEN Absent ELSE index[f]
  BY DEF StartApply
<1>2. updated' = (Removed(b) # {}) /\ todo' = Written(b) /\ batch' = b
  BY DEF StartApply
<1>3. Removed(b) = {} => work' = index
  <2>1. Removed(b) = {} => work' = [f \in Files |-> index[f]]
    BY DEF StartApply
  <2> QED
    BY <2>1 DEF TypeOK
<1> QED
  BY <1>1, <1>2, <1>3 DEF WorkInv, Removed, Written

\* Steps that neither start nor continue the reading of a batch.
LEMMA WorkElsewhere ==
  ASSUME pc' # "read"
  PROVE  WorkInv'
BY DEF WorkInv

LEMMA WorkUnchanged ==
  ASSUME WorkInv, UNCHANGED <<index, pc, batch, todo, work, updated>>
  PROVE  WorkInv'
BY DEF WorkInv, Removed, Written

LEMMA WorkStep ==
  ASSUME TypeOK, WorkInv, [Next]_vars
  PROVE  WorkInv'
<1> USE DEF indexVars, diskVars, loopVars
<1>q. Queued \in SUBSET Event /\ batch \in SUBSET Event /\ batch \union Queued \in SUBSET Event
  BY QueuedType DEF TypeOK
<1>1. CASE \E f \in Files : Edit(f)
  BY <1>1, WorkUnchanged DEF Edit, Write, Delete, MoveAway, Edited
<1>2. CASE Install \/ InstallFail \/ Receive \/ ReceiveNothing \/ DrainHttp \/ TakeOverflow
  BY <1>2, WorkElsewhere DEF Install, InstallFail, Receive, ReceiveNothing, DrainHttp, TakeOverflow
<1>3. CASE DrainLsp
  BY <1>3, <1>q, StartApplyWork DEF DrainLsp
<1>4. CASE DrainWatch
  BY <1>4, <1>q, StartApplyWork, WorkElsewhere DEF DrainWatch
<1>5. CASE DrainWatchCap
  BY <1>5, <1>q, StartApplyWork DEF DrainWatchCap
<1>6. CASE Collected
  BY <1>6, <1>q, StartApplyWork, WorkElsewhere DEF Collected
<1>7. CASE \E f \in Files : ReadModified(f)
  <2>1. PICK f \in Files : ReadModified(f)
    BY <1>7
  <2>2. todo \subseteq Written(batch) /\ f \in Written(batch) /\ batch' = batch
    BY <2>1 DEF ReadModified, WorkInv
  <2>3. CASE disk[f] \in Contents
    <3>1. work' = [work EXCEPT ![f] = disk[f]] /\ updated' = TRUE /\ disk[f] # Absent
      BY <2>1, <2>3, ContentAssumption DEF ReadModified
    <3>2. \A h \in Files : work'[h] = IF h = f THEN disk[f] ELSE work[h]
      BY <3>1 DEF TypeOK
    <3> QED
      BY <2>1, <2>2, <3>1, <3>2 DEF ReadModified, WorkInv, Written, Removed
  <2>4. CASE disk[f] \notin Contents
    BY <2>1, <2>2, <2>4 DEF ReadModified, WorkInv, Written, Removed
  <2> QED
    BY <2>3, <2>4
<1>8. CASE Publish \/ RebuildPublish \/ RebuildFail
  BY <1>8, WorkElsewhere DEF Publish, RebuildPublish, RebuildFail, EndApply
<1>9. CASE \E f \in Files : ReadRebuild(f) \/ SkipUnsettled(f)
  BY <1>9, WorkElsewhere DEF ReadRebuild, SkipUnsettled
<1>10. CASE UNCHANGED vars
  BY <1>10, WorkUnchanged DEF vars
<1> QED
  BY <1>1, <1>2, <1>3, <1>4, <1>5, <1>6, <1>7, <1>8, <1>9, <1>10 DEF Next, LoopStep

LEMMA GraphUnchanged ==
  ASSUME GraphInv, UNCHANGED indexVars
  PROVE  GraphInv'
BY DEF GraphInv, indexVars

LEMMA GraphPublish ==
  ASSUME TypeOK, WorkInv, GraphInv, Publish
  PROVE  GraphInv'
<1>1. graph \in Graphs /\ work \in [Files -> Stored] /\ index \in [Files -> Stored]
      /\ bridges \in SUBSET (Files \X Files) /\ schema \in SUBSET Files
      /\ Written(batch) \in SUBSET Files
  BY DEF TypeOK, Graphs, Triples, Written
<1>2. bridges' = bridges /\ schema' = schema
  BY DEF Publish
<1>3. CASE ~updated
  BY <1>3, GraphUnchanged DEF Publish, indexVars
<1>4. CASE updated /\ (kind = "watch" \/ schema # {} \/ Structural(graph, Written(batch), Removed(batch)))
  <2>1. index' = work /\ graph' = FullGraph(work, bridges, schema)
    BY <1>4 DEF Publish
  <2> QED
    BY <1>1, <1>2, <2>1, FullIsExact DEF GraphInv
<1>5. CASE updated /\ ~(kind = "watch" \/ schema # {} \/ Structural(graph, Written(batch), Removed(batch)))
  <2>1. index' = work /\ graph' = DeltaGraph(graph, work, bridges, Written(batch)) /\ schema = {}
    BY <1>5 DEF Publish
  <2>2. Removed(batch) = {} /\ \A p \in Written(batch) : ContainsNode(graph, p)
    BY <1>5 DEF Structural
  <2>3. /\ \A f \in Files \ Written(batch) : work[f] = index[f]
        /\ \A f \in Files : index[f] # Absent => work[f] # Absent
    BY <2>2 DEF WorkInv, Publish
  <2>4. /\ Mirrored(graph) /\ BridgeEdges(bridges) \subseteq graph.edges
        /\ NodesKnown(graph, index, bridges) /\ ExactFor(graph, index, bridges, {})
    BY <2>1 DEF GraphInv
  <2>5. LET h == DeltaGraph(graph, work, bridges, Written(batch))
        IN /\ Mirrored(h) /\ BridgeEdges(bridges) \subseteq h.edges
           /\ NodesKnown(h, work, bridges) /\ ExactFor(h, work, bridges, {})
    BY <1>1, <2>2, <2>3, <2>4, DeltaIsExact
  <2> QED
    BY <1>2, <2>1, <2>5 DEF GraphInv
<1> QED
  BY <1>3, <1>4, <1>5

LEMMA GraphStep ==
  ASSUME TypeOK, WorkInv, GraphInv, [Next]_vars
  PROVE  GraphInv'
<1>1. CASE Publish
  BY <1>1, GraphPublish
<1>2. CASE RebuildPublish
  <2>1. work \in [Files -> Stored] /\ Bridges(work) \in SUBSET (Files \X Files)
        /\ SchemaOf(work) \in SUBSET Files
    BY GraphTypes DEF TypeOK
  <2>2. /\ index' = work /\ bridges' = Bridges(work) /\ schema' = SchemaOf(work)
        /\ graph' = FullGraph(work, Bridges(work), SchemaOf(work))
    BY <1>2 DEF RebuildPublish
  <2> QED
    BY <2>1, <2>2, FullIsExact DEF GraphInv
<1>3. CASE [Next]_vars /\ ~Publish /\ ~RebuildPublish
  <2>1. UNCHANGED indexVars
    BY <1>3 DEF Next, LoopStep, Edit, Write, Delete, MoveAway, Edited, Install, InstallFail,
         Receive, ReceiveNothing, DrainHttp, DrainLsp, DrainWatch, DrainWatchCap, TakeOverflow,
         Collected, ReadModified, ReadRebuild, SkipUnsettled, RebuildFail, vars, indexVars
  <2> QED
    BY <2>1, GraphUnchanged
<1> QED
  BY <1>1, <1>2, <1>3

-----------------------------------------------------------------------------
(* Theorems.                                                               *)

IInv == TypeOK /\ WorkInv /\ GraphInv

LEMMA InitInv ==
  ASSUME Init
  PROVE  IInv
<1>1. TypeOK
  BY TypeInit
<1>2. WorkInv
  BY DEF Init, WorkInv
<1>3. index \in [Files -> Stored] /\ bridges \in SUBSET (Files \X Files) /\ schema \in SUBSET Files
  BY <1>1 DEF TypeOK
<1>4. graph = FullGraph(index, bridges, schema)
  BY DEF Init
<1>5. GraphInv
  BY <1>3, <1>4, FullIsExact DEF GraphInv
<1> QED
  BY <1>1, <1>2, <1>5 DEF IInv

LEMMA TypeStep ==
  ASSUME TypeOK, Mirrored(graph), [Next]_vars
  PROVE  TypeOK'
<1>1. CASE \E f \in Files : Edit(f)
  BY <1>1, TypeEdit
<1>2. CASE LoopStep /\ ~Publish
  BY <1>2, TypeLoop
<1>3. CASE Publish
  BY <1>3, TypePublish
<1>4. CASE \/ Install \/ InstallFail \/ RebuildFail \/ (\E f \in Files : SkipUnsettled(f))
           \/ UNCHANGED vars
  BY <1>4, TypeRest
<1> QED
  BY <1>1, <1>2, <1>3, <1>4 DEF Next

LEMMA NextInv ==
  ASSUME IInv, [Next]_vars
  PROVE  IInv'
BY TypeStep, WorkStep, GraphStep DEF IInv, GraphInv

\* The variables keep their types.
THEOREM TypeCorrect == Spec => []TypeOK
<1>1. Init => IInv
  BY InitInv
<1>2. IInv /\ [Next]_vars => IInv'
  BY NextInv
<1>3. IInv => TypeOK
  BY DEF IInv
<1> QED
  BY <1>1, <1>2, <1>3, PTL DEF Spec

\* rebuild_graph and rebuild_graph_delta, in any order, leave `edges` and
\* `reverse` describing one graph with the detected bridges in it.
THEOREM MapsMirrored == Spec => []GraphMirrored
<1>1. Init => IInv
  BY InitInv
<1>2. IInv /\ [Next]_vars => IInv'
  BY NextInv
<1>3. IInv => GraphMirrored
  BY DEF IInv, GraphInv, Mirrored, GraphMirrored
<1> QED
  BY <1>1, <1>2, <1>3, PTL DEF Spec

\* An edge delta gives every file the edges of a full rebuild, as long as
\* none of its import candidates is an end of a bridge.
THEOREM DeltasExact == Spec => []DeltaExactOffBridges
<1>1. Init => IInv
  BY InitInv
<1>2. IInv /\ [Next]_vars => IInv'
  BY NextInv
<1>3. IInv => DeltaExactOffBridges
  <2>1. BridgeEnds = EndsOf(bridges)
    BY DEF BridgeEnds, EndsOf
  <2>2. \A f \in Files : Candidates(f) = CandidatesIn(index, f)
    BY DEF Candidates, CandidatesIn
  <2> QED
    BY <2>1, <2>2 DEF IInv, GraphInv, ExactFor, Out, DeltaExactOffBridges
<1> QED
  BY <1>1, <1>2, <1>3, PTL DEF Spec

-----------------------------------------------------------------------------
(* Where the event of a stale entry is.  Three facts, kept together:        *)
(* which fields of the loop are in use (PlaceInv), that a queued removal of *)
(* a path that exists again has a write behind it (OrderInv), and where     *)
(* what makes an entry stale has got to (FreshInv).                         *)

Known(f) == Excused(f) \/ OnTheWay(f)

PlaceInv ==
  /\ pc # "rebuild" => touched = {}
  /\ pc \notin {"read", "rebuild"} => todo = {}
  /\ pc \in {"install", "dead", "idle"} => batch = {}

\* A write of f follows every removal of it in the channel.
WriteBehind(f) ==
  \A i \in 1..Len(chan) : chan[i] = RemoveOf(f) =>
    \E j \in 1..Len(chan) : j > i /\ chan[j] = WriteOf(f)

Ordered(f) ==
  disk[f] # Absent =>
    /\ WriteBehind(f) \/ Excused(f) \/ ((overflow \/ pc = "rebuild") /\ f \in dropped)
    /\ (pc \notin {"read", "rebuild"} /\ RemoveOf(f) \in batch) =>
         \/ WriteOf(f) \in batch \/ WriteOf(f) \in Queued
         \/ Excused(f) \/ (overflow /\ f \in dropped)

Fresh(f) ==
  /\ pc \notin {"read", "rebuild"} => Settled(index, f) \/ Known(f) \/ Latest(f) \in batch
  /\ pc = "read" => Settled(work, f) \/ Known(f) \/ (disk[f] # Absent /\ f \in todo)
  /\ pc = "rebuild" =>
       /\ Settled(index, f) \/ Known(f) \/ Latest(f) \in batch \/ f \in dropped
       /\ Settled(work, f) \/ f \in todo \/ f \in touched
       /\ f \in touched => Latest(f) \in Queued \/ (overflow /\ f \in dropped) \/ f \in moved

OrderInv == \A f \in Files : Ordered(f)
FreshInv == \A f \in Files : Fresh(f)

PendingInv == PlaceInv /\ OrderInv /\ FreshInv

LEMMA AppendAt ==
  ASSUME NEW S, NEW s \in Seq(S), NEW e \in S
  PROVE  /\ Len(Append(s, e)) = Len(s) + 1
         /\ \A i \in 1..Len(s) : Append(s, e)[i] = s[i]
         /\ Append(s, e)[Len(s) + 1] = e
OBVIOUS

LEMMA TailAt ==
  ASSUME NEW S, NEW s \in Seq(S), s # <<>>
  PROVE  /\ Len(s) \in Nat /\ Len(s) >= 1 /\ Len(Tail(s)) = Len(s) - 1
         /\ Head(s) = s[1] /\ \A i \in 1..Len(Tail(s)) : Tail(s)[i] = s[i + 1]
OBVIOUS

LEMMA QueuedAt ==
  ASSUME TypeOK
  PROVE  Queued = {chan[i] : i \in 1..Len(chan)} /\ Len(chan) \in Nat
BY DEF TypeOK, Queued

LEMMA PlaceStep ==
  ASSUME PlaceInv, [Next]_vars
  PROVE  PlaceInv'
<1> USE DEF PlaceInv, indexVars, diskVars, loopVars
<1>1. CASE \E f \in Files : Edit(f)
  BY <1>1 DEF Edit, Write, Delete, MoveAway, Edited
<1>2. CASE Install \/ InstallFail \/ Receive \/ ReceiveNothing \/ DrainHttp \/ TakeOverflow
  BY <1>2 DEF Install, InstallFail, Receive, ReceiveNothing, DrainHttp, TakeOverflow
<1>3. CASE DrainLsp \/ DrainWatch \/ DrainWatchCap \/ Collected
  BY <1>3 DEF DrainLsp, DrainWatch, DrainWatchCap, Collected, StartApply
<1>4. CASE \E f \in Files : ReadModified(f) \/ ReadRebuild(f) \/ SkipUnsettled(f)
  BY <1>4 DEF ReadModified, ReadRebuild, SkipUnsettled
<1>5. CASE Publish \/ RebuildPublish \/ RebuildFail
  BY <1>5 DEF Publish, RebuildPublish, RebuildFail, EndApply
<1>6. CASE UNCHANGED vars
  BY <1>6 DEF vars
<1> QED
  BY <1>1, <1>2, <1>3, <1>4, <1>5, <1>6 DEF Next, LoopStep

\* A change of f reports itself: queued last, flagged, or without effect.
LEMMA ReportedItself ==
  ASSUME TypeOK, NEW f \in Files, Edit(f)
  PROVE  /\ Known(f)'
         /\ (disk[f] # Absent)' => WriteBehind(f)' \/ Excused(f)' \/ (overflow /\ f \in dropped)'
         /\ (disk[f] # Absent)' => WriteOf(f) \in Queued' \/ Excused(f)' \/ (overflow /\ f \in dropped)'
         /\ Watching => Latest(f)' \in Queued' \/ (overflow /\ f \in dropped)' \/ f \in moved'
<1>1. PICK c \in OnDisk, e \in {WriteOf(f), RemoveOf(f)} :
        /\ Edited(f, c) /\ Report(e)
        /\ c # Absent => e = WriteOf(f)
        /\ c = Absent => e = RemoveOf(f) \/ f \in moved'
  BY ContentAssumption, WatchAssumption DEF Edit, Write, Delete, MoveAway, OnDisk, Stored
<1>2. disk'[f] = c /\ kind' = kind /\ pc' = pc
  BY <1>1 DEF Edited, loopVars, TypeOK
<1>3. e \in Event /\ e.path = f
  BY <1>1, EventTypes DEF WriteOf, RemoveOf
<1>4. Latest(f)' = e \/ f \in moved'
  BY <1>1, <1>2 DEF Latest
<1>5. CASE chan' = Append(chan, e)
  <2>1. Len(chan') = Len(chan) + 1 /\ chan'[Len(chan) + 1] = e /\ chan' \in Seq(Event)
        /\ Len(chan) \in Nat
    BY <1>3, <1>5, AppendAt DEF TypeOK
  <2>2. e \in Queued'
    BY <2>1 DEF Queued
  <2>3. e = WriteOf(f) => WriteBehind(f)'
    <3>1. ASSUME e = WriteOf(f), NEW i \in 1..Len(chan'), chan'[i] = RemoveOf(f)
          PROVE  \E j \in 1..Len(chan') : j > i /\ chan'[j] = WriteOf(f)
      <4>1. i # Len(chan) + 1
        BY <2>1, <3>1 DEF WriteOf, RemoveOf
      <4> QED
        BY <2>1, <3>1, <4>1
    <3> QED
      BY <3>1 DEF WriteBehind, RemoveOf, WriteOf
  <2> QED
    BY <1>1, <1>2, <1>4, <2>2, <2>3 DEF Known, OnTheWay, Excused
<1>6. CASE overflow' = TRUE /\ dropped' = dropped \union {e.path}
  BY <1>3, <1>6 DEF Known, OnTheWay
<1>7. CASE ~Watching /\ lost' = lost \union {e.path}
  BY <1>3, <1>7 DEF Known, Excused
<1> QED
  BY <1>1, <1>5, <1>6, <1>7 DEF Report

\* It leaves what is known of the other files alone.
LEMMA OthersAlone ==
  ASSUME TypeOK, NEW g \in Files, NEW f \in Files, f # g, Edit(g)
  PROVE  /\ disk'[f] = disk[f] /\ Queued \subseteq Queued' /\ (overflow => overflow')
         /\ (f \in dropped) = (f \in dropped') /\ (Excused(f) => Excused(f)')
         /\ (WriteBehind(f) => WriteBehind(f)') /\ Latest(f)' = Latest(f)
         /\ (f \in moved => f \in moved')
         /\ (f \in touched) = (f \in touched')
         /\ UNCHANGED <<kind, indexVars, loopVars>>
<1>1. PICK c \in OnDisk, e \in {WriteOf(g), RemoveOf(g)} :
        Edited(g, c) /\ Report(e) /\ moved' \in {moved \ {g}, moved \union {g}}
  BY DEF Edit, Write, Delete, MoveAway, OnDisk, Stored
<1>2. disk'[f] = disk[f] /\ UNCHANGED <<kind, indexVars, loopVars>>
      /\ (f \in touched) = (f \in touched') /\ (f \in moved) = (f \in moved')
  BY <1>1 DEF Edited, TypeOK
<1>3. e \in Event /\ e.path = g /\ e # RemoveOf(f)
  BY <1>1, EventTypes DEF WriteOf, RemoveOf
<1>4. /\ (overflow => overflow') /\ (f \in dropped) = (f \in dropped')
      /\ (f \in lost) = (f \in lost') /\ (f \in outrun) = (f \in outrun')
  BY <1>1, <1>3 DEF Report
<1>5. chan' = chan \/ chan' = Append(chan, e)
  BY <1>1 DEF Report
<1>6. Queued \subseteq Queued' /\ (WriteBehind(f) => WriteBehind(f)')
  <2>1. CASE chan' = chan
    BY <2>1 DEF Queued, WriteBehind, WriteOf, RemoveOf
  <2>2. CASE chan' = Append(chan, e)
    <3>1. /\ Len(chan') = Len(chan) + 1 /\ Len(chan) \in Nat /\ chan'[Len(chan) + 1] = e
          /\ \A i \in 1..Len(chan) : chan'[i] = chan[i]
          /\ chan' \in Seq(Event)
      BY <1>3, <2>2, AppendAt DEF TypeOK
    <3>2. Queued \subseteq Queued'
      <4>1. DOMAIN chan = 1..Len(chan) /\ DOMAIN chan' = 1..Len(chan')
        BY <3>1 DEF TypeOK
      <4>2. \A i \in DOMAIN chan : i \in DOMAIN chan' /\ chan'[i] = chan[i]
        BY <3>1, <4>1
      <4> QED
        BY <4>2 DEF Queued
    <3>3. ASSUME WriteBehind(f), NEW i \in 1..Len(chan'), chan'[i] = RemoveOf(f)
          PROVE  \E j \in 1..Len(chan') : j > i /\ chan'[j] = WriteOf(f)
      <4>1. i \in 1..Len(chan) /\ chan[i] = RemoveOf(f)
        BY <1>3, <3>1, <3>3
      <4>2. PICK j \in 1..Len(chan) : j > i /\ chan[j] = WriteOf(f)
        BY <3>3, <4>1 DEF WriteBehind
      <4>3. j \in 1..Len(chan') /\ chan'[j] = WriteOf(f)
        BY <3>1, <4>2
      <4> QED
        BY <4>2, <4>3
    <3> QED
      BY <3>2, <3>3 DEF WriteBehind, RemoveOf, WriteOf
  <2> QED
    BY <1>5, <2>1, <2>2
<1> QED
  BY <1>2, <1>4, <1>6 DEF Excused, Latest, WriteOf, RemoveOf, loopVars

\* Starting to apply a batch: what made an entry stale is in the copy, still
\* to be read, or known; a removal in it of a path that exists is harmless.
LEMMA StartApplyFresh ==
  ASSUME TypeOK, NEW f \in Files, NEW b \in SUBSET Event, StartApply(b),
         disk' = disk,
         Settled(index, f) \/ Known(f)' \/ Latest(f) \in b,
         (disk[f] # Absent /\ RemoveOf(f) \in b) => WriteOf(f) \in b \/ Known(f)'
  PROVE  Fresh(f)'
<1>1. work'[f] = (IF RemoveOf(f) \in b THEN Absent ELSE index[f])
      /\ (f \in todo' <=> WriteOf(f) \in b) /\ pc' = "read"
  BY DEF StartApply, Removed, Written
<1>2. CASE disk[f] = Absent
  BY <1>1, <1>2 DEF Fresh, Settled, Latest
<1>3. CASE disk[f] # Absent
  BY <1>1, <1>3 DEF Fresh, Settled, Latest
<1> QED
  BY <1>2, <1>3

\* Steps that change nothing Ordered looks at.
LEMMA OrderedUnchanged ==
  ASSUME NEW f \in Files, Ordered(f),
         UNCHANGED <<kind, disk, chan, overflow, pc, batch, dropped, moved, outrun, lost>>
  PROVE  Ordered(f)'
BY DEF Ordered, WriteBehind, Excused, Queued, WriteOf, RemoveOf

LEMMA FreshUnchanged ==
  ASSUME NEW f \in Files, Fresh(f),
         UNCHANGED <<kind, disk, chan, overflow, index, pc, batch, todo, work, touched,
                     dropped, moved, outrun, lost>>
  PROVE  Fresh(f)'
BY DEF Fresh, Known, OnTheWay, Excused, Settled, Latest, Queued, WriteOf, RemoveOf

LEMMA OrderEdit ==
  ASSUME TypeOK, OrderInv, NEW g \in Files, Edit(g), NEW f \in Files
  PROVE  Ordered(f)'
<1>1. CASE f = g
  <2>1. (RemoveOf(f))' = RemoveOf(f) /\ (WriteOf(f))' = WriteOf(f)
    BY DEF RemoveOf, WriteOf
  <2> QED
    BY <1>1, <2>1, ReportedItself DEF Ordered
<1>2. CASE f # g
  BY <1>2, OthersAlone DEF OrderInv, Ordered, loopVars, WriteOf, RemoveOf
<1> QED
  BY <1>1, <1>2

LEMMA FreshEdit ==
  ASSUME TypeOK, PlaceInv, FreshInv, NEW g \in Files, Edit(g), NEW f \in Files
  PROVE  Fresh(f)'
<1>1. CASE f = g
  <2>1. Known(f)' /\ (Watching => Latest(f)' \in Queued' \/ (overflow /\ f \in dropped)' \/ f \in moved')
    BY <1>1, ReportedItself
  <2>2. pc = "rebuild" => f \in touched'
    BY <1>1 DEF Edit, Write, Delete, MoveAway, Edited
  <2>3. pc' = pc
    BY DEF Edit, Write, Delete, MoveAway, Edited, loopVars
  <2> QED
    BY <2>1, <2>2, <2>3 DEF Fresh, Watching
<1>2. CASE f # g
  <2>1. /\ disk'[f] = disk[f] /\ Queued \subseteq Queued' /\ (overflow => overflow')
        /\ (f \in dropped) = (f \in dropped') /\ (Excused(f) => Excused(f)')
        /\ Latest(f)' = Latest(f) /\ (f \in moved => f \in moved')
        /\ (f \in touched) = (f \in touched')
        /\ UNCHANGED <<kind, index, pc, batch, todo, work>>
    BY <1>2, OthersAlone DEF indexVars, loopVars
  <2>2. Known(f) => Known(f)'
    BY <2>1 DEF Known, OnTheWay
  <2>3. (Settled(index, f) => Settled(index, f)') /\ (Settled(work, f) => Settled(work, f)')
    BY <2>1 DEF Settled
  <2> QED
    BY <2>1, <2>2, <2>3 DEF FreshInv, Fresh
<1> QED
  BY <1>1, <1>2

LEMMA OrderReceive ==
  ASSUME TypeOK, PlaceInv, OrderInv, Receive, NEW f \in Files
  PROVE  Ordered(f)'
<1>1. /\ chan # <<>> /\ chan \in Seq(Event) /\ batch' = {Head(chan)} /\ chan' = Tail(chan)
      /\ pc = "idle" /\ pc' = "debounce"
      /\ UNCHANGED <<kind, disk, overflow, dropped, moved, outrun, lost>>
  BY DEF Receive, TypeOK
<1>2. /\ Len(chan) \in Nat /\ Len(chan) >= 1 /\ Len(chan') = Len(chan) - 1
      /\ Head(chan) = chan[1] /\ \A i \in 1..Len(chan') : chan'[i] = chan[i + 1]
  BY <1>1, TailAt
<1>3. (RemoveOf(f))' = RemoveOf(f) /\ (WriteOf(f))' = WriteOf(f)
  BY DEF RemoveOf, WriteOf
<1>4. Excused(f) => Excused(f)'
  BY <1>1 DEF Excused
<1>5. ASSUME WriteBehind(f)
      PROVE  WriteBehind(f)' /\ (chan[1] = RemoveOf(f) => WriteOf(f) \in Queued')
  <2>1. ASSUME NEW i \in 1..Len(chan), chan[i] = RemoveOf(f)
        PROVE  \E j \in 1..Len(chan') : j + 1 > i /\ chan'[j] = WriteOf(f)
    <3>1. PICK k \in 1..Len(chan) : k > i /\ chan[k] = WriteOf(f)
      BY <1>5, <2>1 DEF WriteBehind
    <3>2. k - 1 \in 1..Len(chan') /\ chan'[k - 1] = WriteOf(f) /\ (k - 1) + 1 > i
      BY <1>2, <3>1
    <3> QED
      BY <3>2
  <2>2. ASSUME NEW i \in 1..Len(chan'), chan'[i] = RemoveOf(f)
        PROVE  \E j \in 1..Len(chan') : j > i /\ chan'[j] = WriteOf(f)
    <3>1. i + 1 \in 1..Len(chan) /\ chan[i + 1] = RemoveOf(f)
      BY <1>2, <2>2
    <3>2. PICK j \in 1..Len(chan') : j + 1 > i + 1 /\ chan'[j] = WriteOf(f)
      BY <2>1, <3>1
    <3> QED
      BY <1>2, <3>2
  <2>3. WriteBehind(f)'
    BY <1>3, <2>2 DEF WriteBehind
  <2>4. ASSUME chan[1] = RemoveOf(f) PROVE WriteOf(f) \in Queued'
    <3>1. PICK j \in 1..Len(chan') : chan'[j] = WriteOf(f)
      BY <1>2, <2>1, <2>4
    <3>2. chan' \in Seq(Event)
      BY <1>1
    <3> QED
      BY <3>1, <3>2 DEF Queued
  <2> QED
    BY <2>3, <2>4
<1> QED
  BY <1>1, <1>2, <1>3, <1>4, <1>5 DEF OrderInv, Ordered

\* An emptied channel keeps nothing out of order.
LEMMA EmptyBehind ==
  ASSUME NEW f \in Files, chan' = <<>>
  PROVE  WriteBehind(f)'
BY DEF WriteBehind

\* A removal among the queued events of a path that exists.
LEMMA QueuedRemoval ==
  ASSUME TypeOK, OrderInv, NEW f \in Files, disk[f] # Absent, RemoveOf(f) \in Queued,
         pc # "rebuild"
  PROVE  WriteOf(f) \in Queued \/ Excused(f) \/ (overflow /\ f \in dropped)
<1>1. WriteBehind(f) \/ Excused(f) \/ (overflow /\ f \in dropped)
  BY DEF OrderInv, Ordered
<1>2. Queued = {chan[i] : i \in 1..Len(chan)}
  BY QueuedAt
<1> QED
  BY <1>1, <1>2 DEF WriteBehind

LEMMA OrderStep ==
  ASSUME TypeOK, PlaceInv, OrderInv, [Next]_vars
  PROVE  OrderInv'
<1> SUFFICES ASSUME NEW f \in Files
             PROVE  Ordered(f)'
  BY DEF OrderInv
<1> USE DEF indexVars, diskVars, loopVars
<1>c. (RemoveOf(f))' = RemoveOf(f) /\ (WriteOf(f))' = WriteOf(f)
  BY DEF RemoveOf, WriteOf
<1>o. Ordered(f)
  BY DEF OrderInv
<1>1. CASE \E g \in Files : Edit(g)
  BY <1>1, OrderEdit
<1>2. CASE Receive
  BY <1>2, OrderReceive
<1>3. CASE Install \/ InstallFail \/ ReceiveNothing
  BY <1>3, <1>o, <1>c DEF Install, InstallFail, ReceiveNothing, Ordered, WriteBehind, Excused, Queued
<1>4. CASE DrainHttp
  <2>1. /\ batch' = batch \union Queued /\ chan' = <<>> /\ pc = "debounce" /\ pc' # "rebuild"
        /\ UNCHANGED <<kind, disk, overflow, dropped, moved, outrun, lost>>
    BY <1>4 DEF DrainHttp
  <2>2. Excused(f) => Excused(f)'
    BY <2>1 DEF Excused
  <2>3. disk[f] # Absent /\ RemoveOf(f) \in batch' =>
          WriteOf(f) \in batch' \/ Excused(f) \/ (overflow /\ f \in dropped)
    BY <2>1, <1>o, QueuedRemoval DEF Ordered
  <2> QED
    BY <1>c, <2>1, <2>2, <2>3, EmptyBehind DEF Ordered
<1>5. CASE DrainLsp \/ DrainWatch \/ DrainWatchCap
  <2>1. chan' = <<>> /\ disk' = disk /\ kind' = kind /\ overflow' = overflow /\ dropped' = dropped
        /\ moved' = moved /\ outrun' = outrun /\ lost \subseteq lost' /\ pc = "debounce"
        /\ (pc' = "read" \/ (pc' = pc /\ batch' = batch \union Queued))
    BY <1>5 DEF DrainLsp, DrainWatch, DrainWatchCap, StartApply
  <2>2. Excused(f) => Excused(f)'
    BY <2>1 DEF Excused
  <2>3. pc' # "read" /\ disk[f] # Absent /\ RemoveOf(f) \in batch' =>
          WriteOf(f) \in batch' \/ Excused(f) \/ (overflow /\ f \in dropped)
    BY <2>1, <1>o, QueuedRemoval DEF Ordered
  <2> QED
    BY <1>c, <2>1, <2>2, <2>3, EmptyBehind DEF Ordered
<1>6. CASE TakeOverflow
  BY <1>6, <1>o, <1>c DEF TakeOverflow, Ordered, WriteBehind, Excused, Queued
<1>7. CASE Collected
  BY <1>7, <1>o, <1>c DEF Collected, StartApply, Ordered, WriteBehind, Excused, Queued
<1>8. CASE \E g \in Files : ReadModified(g) \/ ReadRebuild(g) \/ SkipUnsettled(g)
  BY <1>8, <1>o, OrderedUnchanged DEF ReadModified, ReadRebuild, SkipUnsettled
<1>9. CASE Publish
  BY <1>9, <1>o, <1>c DEF Publish, EndApply, Ordered, WriteBehind, Excused, Queued
<1>10. CASE RebuildPublish
  <2>1. /\ batch' = {} /\ disk' = disk /\ chan' = chan
        /\ outrun' = {g \in Files : RemoveOf(g) \in Queued /\ disk[g] # Absent}
    BY <1>10 DEF RebuildPublish, EndApply
  <2>2. disk[f] # Absent /\ RemoveOf(f) \in Queued => Excused(f)'
    BY <2>1 DEF Excused
  <2>3. RemoveOf(f) \notin Queued => WriteBehind(f)'
    <3>1. Queued = {chan[i] : i \in 1..Len(chan)}
      BY QueuedAt
    <3> QED
      BY <1>c, <2>1, <3>1 DEF WriteBehind
  <2> QED
    BY <1>c, <2>1, <2>2, <2>3 DEF Ordered
<1>11. CASE RebuildFail
  <2>1. /\ batch' = {} /\ UNCHANGED <<kind, disk, chan, overflow, dropped, moved, outrun>>
        /\ dropped \subseteq lost' /\ lost \subseteq lost'
    BY <1>11 DEF RebuildFail, EndApply
  <2>2. (Excused(f) => Excused(f)') /\ (f \in dropped => Excused(f)')
    BY <2>1 DEF Excused
  <2>3. WriteBehind(f) => WriteBehind(f)'
    BY <1>c, <2>1 DEF WriteBehind
  <2> QED
    BY <1>o, <1>c, <2>1, <2>2, <2>3 DEF Ordered
<1>12. CASE UNCHANGED vars
  BY <1>12, <1>o, OrderedUnchanged DEF vars
<1> QED
  BY <1>1, <1>2, <1>3, <1>4, <1>5, <1>6, <1>7, <1>8, <1>9, <1>10, <1>11, <1>12 DEF Next, LoopStep

LEMMA FreshRead ==
  ASSUME TypeOK, FreshInv, NEW g \in Files, ReadModified(g) \/ ReadRebuild(g) \/ SkipUnsettled(g),
         NEW f \in Files
  PROVE  Fresh(f)'
<1> USE DEF indexVars, diskVars, loopVars
<1>1. /\ UNCHANGED <<kind, disk, chan, overflow, index, pc, batch, touched>>
      /\ UNCHANGED <<dropped, moved, outrun, lost>>
      /\ todo' = todo \ {g}
      /\ \A h \in Files : h # g => work'[h] = work[h]
  BY DEF ReadModified, ReadRebuild, SkipUnsettled, TypeOK
<1>2. Fresh(f)
  BY DEF FreshInv
<1>3. (Known(f) => Known(f)') /\ Latest(f)' = Latest(f) /\ Queued' = Queued
      /\ (Settled(index, f) => Settled(index, f)')
  BY <1>1 DEF Known, OnTheWay, Excused, Latest, Queued, Settled, WriteOf, RemoveOf
<1>4. CASE f # g
  <2>1. (Settled(work, f) => Settled(work, f)') /\ (f \in todo => f \in todo')
    BY <1>1, <1>4 DEF Settled
  <2> QED
    BY <1>1, <1>2, <1>3, <2>1 DEF Fresh
<1>5. CASE f = g /\ ReadModified(g)
  <2>1. pc = "read" /\ pc' = "read"
    BY <1>5 DEF ReadModified
  <2>2. disk[f] \in Contents => Settled(work, f)'
    BY <1>1, <1>5 DEF ReadModified, TypeOK, Settled
  <2>3. disk[f] \notin Contents => disk[f] = Absent \/ disk[f] = Bad
    BY DEF TypeOK, OnDisk, Stored
  <2>4. disk[f] \notin Contents => (Settled(work, f) => Settled(work, f)')
    BY <1>1, <1>5 DEF ReadModified, Settled
  <2>5. disk[f] = Bad => Settled(work, f)'
    BY <1>1 DEF Settled
  <2> QED
    BY <1>2, <1>3, <2>1, <2>2, <2>3, <2>4, <2>5 DEF Fresh
<1>6. CASE f = g /\ ReadRebuild(g)
  <2>1. pc = "rebuild" /\ pc' = "rebuild"
    BY <1>6 DEF ReadRebuild
  <2>2. Settled(work, f)'
    BY <1>1, <1>6 DEF ReadRebuild, Readable, TypeOK, Settled
  <2> QED
    BY <1>1, <1>2, <1>3, <2>1, <2>2 DEF Fresh
<1>7. CASE f = g /\ SkipUnsettled(g)
  <2>1. pc = "rebuild" /\ pc' = "rebuild" /\ f \in touched
    BY <1>7 DEF SkipUnsettled
  <2> QED
    BY <1>1, <1>2, <1>3, <2>1 DEF Fresh
<1> QED
  BY <1>4, <1>5, <1>6, <1>7

LEMMA FreshStep ==
  ASSUME TypeOK, WorkInv, PlaceInv, OrderInv, FreshInv, [Next]_vars
  PROVE  FreshInv'
<1> SUFFICES ASSUME NEW f \in Files
             PROVE  Fresh(f)'
  BY DEF FreshInv
<1> USE DEF indexVars, diskVars, loopVars
<1>c. (RemoveOf(f))' = RemoveOf(f) /\ (WriteOf(f))' = WriteOf(f)
  BY DEF RemoveOf, WriteOf
<1>l. disk' = disk => Latest(f)' = Latest(f)
  BY <1>c DEF Latest
<1>f. Fresh(f)
  BY DEF FreshInv
<1>q. Queued \in SUBSET Event /\ batch \in SUBSET Event /\ batch \union Queued \in SUBSET Event
  BY QueuedType DEF TypeOK
<1>1. CASE \E g \in Files : Edit(g)
  BY <1>1, FreshEdit
<1>2. CASE Receive
  <2>1. /\ chan # <<>> /\ chan \in Seq(Event) /\ batch = {} /\ batch' = {Head(chan)}
        /\ chan' = Tail(chan) /\ pc = "idle" /\ pc' = "debounce"
        /\ UNCHANGED <<kind, disk, overflow, index, dropped, moved, outrun, lost>>
    BY <1>2 DEF Receive, PlaceInv, TypeOK
  <2>2. Queued \subseteq batch' \union Queued'
    <3>1. /\ Len(chan) \in Nat /\ Len(chan) >= 1 /\ Len(chan') = Len(chan) - 1
          /\ Head(chan) = chan[1] /\ \A i \in 1..Len(chan') : chan'[i] = chan[i + 1]
      BY <2>1, TailAt
    <3>2. chan' \in Seq(Event)
      BY <2>1
    <3>3. Queued = {chan[i] : i \in 1..Len(chan)} /\ Queued' = {chan'[i] : i \in 1..Len(chan')}
      BY <3>2, QueuedAt DEF Queued
    <3>4. ASSUME NEW i \in 1..Len(chan)
          PROVE  chan[i] \in batch' \union Queued'
      <4>1. CASE i = 1
        BY <2>1, <3>1, <4>1
      <4>2. CASE i # 1
        <5>1. i - 1 \in 1..Len(chan') /\ chan'[i - 1] = chan[i]
          BY <3>1, <4>2
        <5> QED
          BY <3>3, <5>1
      <4> QED
        BY <4>1, <4>2
    <3> QED
      BY <3>3, <3>4
  <2>3. (Excused(f) => Excused(f)') /\ Settled(index, f)' = Settled(index, f)
    BY <2>1 DEF Excused, Settled
  <2> QED
    BY <1>f, <1>l, <2>1, <2>2, <2>3 DEF Fresh, Known, OnTheWay
<1>3. CASE Install \/ InstallFail \/ ReceiveNothing
  BY <1>3, <1>f, <1>l DEF Install, InstallFail, ReceiveNothing, Fresh, Known, OnTheWay, Excused,
       Settled, Queued
<1>4. CASE DrainHttp
  <2>1. /\ batch' = batch \union Queued /\ pc = "debounce" /\ pc' \notin {"read", "rebuild"}
        /\ UNCHANGED <<kind, disk, overflow, index, dropped, moved, outrun, lost>>
    BY <1>4 DEF DrainHttp
  <2>2. (Excused(f) => Excused(f)') /\ Settled(index, f)' = Settled(index, f)
    BY <2>1 DEF Excused, Settled
  <2> QED
    BY <1>f, <1>l, <2>1, <2>2 DEF Fresh, Known, OnTheWay
<1>5. CASE DrainLsp
  <2>1. /\ StartApply(batch \union Queued) /\ pc = "debounce" /\ kind = "lsp"
        /\ UNCHANGED <<kind, disk, overflow, dropped, moved, outrun, lost>>
    BY <1>5 DEF DrainLsp
  <2>2. (Excused(f) => Known(f)') /\ (overflow /\ f \in dropped => Known(f)')
    BY <2>1 DEF Excused, Known, OnTheWay
  <2>3. Settled(index, f) \/ Known(f)' \/ Latest(f) \in batch \union Queued
    BY <1>f, <2>1, <2>2 DEF Fresh, Known, OnTheWay
  <2>4. disk[f] # Absent /\ RemoveOf(f) \in batch \union Queued =>
          WriteOf(f) \in batch \union Queued \/ Known(f)'
    BY <2>1, <2>2, QueuedRemoval DEF OrderInv, Ordered
  <2> QED
    BY <1>q, <2>1, <2>3, <2>4, StartApplyFresh
<1>6. CASE DrainWatch
  <2>1. CASE chan = <<>> /\ StartApply(batch)
    <3>1. /\ pc = "debounce"
          /\ UNCHANGED <<kind, disk, overflow, dropped, moved, outrun, lost>>
      BY <1>6 DEF DrainWatch
    <3>2. Queued = {}
      BY <2>1 DEF Queued
    <3>3. Known(f) => Known(f)'
      BY <3>1, <3>2 DEF Known, OnTheWay, Excused
    <3>4. Settled(index, f) \/ Known(f)' \/ Latest(f) \in batch
      BY <1>f, <3>1, <3>3 DEF Fresh
    <3>5. disk[f] # Absent /\ RemoveOf(f) \in batch => WriteOf(f) \in batch \/ Known(f)'
      BY <3>1, <3>2, <3>3 DEF OrderInv, Ordered, Known, OnTheWay
    <3> QED
      BY <1>q, <2>1, <3>1, <3>4, <3>5, StartApplyFresh
  <2>2. CASE ~(chan = <<>> /\ StartApply(batch))
    <3>1. /\ batch' = batch \union Queued /\ pc = "debounce" /\ pc' = pc
          /\ UNCHANGED <<kind, disk, overflow, index, dropped, moved, outrun, lost>>
      BY <1>6, <2>2 DEF DrainWatch
    <3>2. (Excused(f) => Excused(f)') /\ Settled(index, f)' = Settled(index, f)
      BY <3>1 DEF Excused, Settled
    <3> QED
      BY <1>f, <1>l, <3>1, <3>2 DEF Fresh, Known, OnTheWay
  <2> QED
    BY <2>1, <2>2
<1>7. CASE DrainWatchCap
  <2>1. /\ StartApply(batch) /\ pc = "debounce" /\ kind = "watch"
        /\ lost' = lost \union Paths(Queued)
        /\ UNCHANGED <<kind, disk, overflow, dropped, moved, outrun>>
    BY <1>7 DEF DrainWatchCap
  <2>2. \A e \in {WriteOf(f), RemoveOf(f)} : e \in Queued => f \in lost'
    BY <2>1 DEF Paths, WriteOf, RemoveOf
  <2>3. Latest(f) \in {WriteOf(f), RemoveOf(f)}
    BY DEF Latest
  <2>4. (Known(f) => Known(f)') /\ (WriteOf(f) \in Queued => Known(f)')
    BY <2>1, <2>2, <2>3 DEF Known, OnTheWay, Excused
  <2>5. Settled(index, f) \/ Known(f)' \/ Latest(f) \in batch
    BY <1>f, <2>1, <2>4 DEF Fresh
  <2>6. disk[f] # Absent /\ RemoveOf(f) \in batch => WriteOf(f) \in batch \/ Known(f)'
    <3>1. (Excused(f) \/ (overflow /\ f \in dropped)) => Known(f)
      BY DEF Known, OnTheWay
    <3> QED
      BY <2>1, <2>4, <3>1 DEF OrderInv, Ordered
  <2> QED
    BY <1>q, <2>1, <2>5, <2>6, StartApplyFresh
<1>8. CASE TakeOverflow
  <2>1. /\ pc = "collected" /\ pc' = "rebuild" /\ todo' = Files /\ touched' = touched /\ touched = {}
        /\ UNCHANGED <<kind, disk, index, chan, batch, dropped, moved, outrun, lost>>
    BY <1>8 DEF TakeOverflow, PlaceInv
  <2>2. (Excused(f) => Excused(f)') /\ Settled(index, f)' = Settled(index, f) /\ Queued' = Queued
    BY <2>1 DEF Excused, Settled, Queued
  <2> QED
    BY <1>f, <1>l, <2>1, <2>2 DEF Fresh, Known, OnTheWay
<1>9. CASE Collected
  <2>1. /\ pc = "collected"
        /\ UNCHANGED <<kind, disk, index, chan, overflow, dropped, moved, outrun, lost>>
    BY <1>9 DEF Collected
  <2>2. (Known(f) => Known(f)') /\ Settled(index, f)' = Settled(index, f)
    BY <2>1, <1>l DEF Known, OnTheWay, Excused, Settled, Queued
  <2>3. CASE batch # {} /\ StartApply(batch)
    <3>1. Settled(index, f) \/ Known(f)' \/ Latest(f) \in batch
      BY <1>f, <2>1, <2>2 DEF Fresh
    <3>2. disk[f] # Absent /\ RemoveOf(f) \in batch => WriteOf(f) \in batch \/ Known(f)'
      <4>1. disk[f] # Absent => Latest(f) = WriteOf(f)
        BY DEF Latest
      <4> QED
        BY <2>1, <2>2, <4>1 DEF OrderInv, Ordered, Known, OnTheWay
    <3> QED
      BY <1>q, <2>1, <2>3, <3>1, <3>2, StartApplyFresh
  <2>4. CASE ~(batch # {} /\ StartApply(batch))
    BY <1>9, <1>f, <1>l, <2>1, <2>2, <2>4 DEF Collected, Fresh
  <2> QED
    BY <2>3, <2>4
<1>10. CASE \E g \in Files : ReadModified(g) \/ ReadRebuild(g) \/ SkipUnsettled(g)
  BY <1>10, FreshRead
<1>11. CASE Publish
  <2>1. /\ pc = "read" /\ pc' = "idle" /\ todo = {}
        /\ UNCHANGED <<kind, disk, chan, overflow, dropped, moved, outrun, lost>>
    BY <1>11 DEF Publish, EndApply
  <2>2. index' = work
    BY <1>11, <2>1 DEF Publish, WorkInv
  <2>3. (Known(f) => Known(f)') /\ Settled(index, f)' = Settled(work, f)
    BY <2>1, <2>2, <1>l DEF Known, OnTheWay, Excused, Settled, Queued
  <2> QED
    BY <1>f, <2>1, <2>3 DEF Fresh
<1>12. CASE RebuildPublish
  <2>1. /\ pc = "rebuild" /\ pc' = "idle" /\ todo = {} /\ index' = work
        /\ dropped' = dropped \intersect touched /\ moved' = moved \intersect touched
        /\ UNCHANGED <<kind, disk, chan, overflow>>
    BY <1>12 DEF RebuildPublish, EndApply
  <2>2. Settled(index, f)' = Settled(work, f) /\ Queued' = Queued
    BY <2>1 DEF Settled, Queued
  <2> QED
    BY <1>f, <1>l, <2>1, <2>2 DEF Fresh, Known, OnTheWay, Excused
<1>13. CASE RebuildFail
  <2>1. /\ pc = "rebuild" /\ pc' = "idle" /\ lost' = lost \union dropped \union Paths(batch)
        /\ UNCHANGED <<kind, disk, index, chan, overflow, dropped, moved, outrun>>
    BY <1>13 DEF RebuildFail, EndApply
  <2>2. Latest(f) \in batch => f \in lost'
    BY <2>1 DEF Latest, Paths, WriteOf, RemoveOf
  <2>3. (Known(f) => Known(f)') /\ Settled(index, f)' = Settled(index, f)
    BY <2>1, <1>l DEF Known, OnTheWay, Excused, Settled, Queued
  <2>4. f \in lost' => Known(f)'
    BY DEF Known, Excused
  <2> QED
    BY <1>f, <2>1, <2>2, <2>3, <2>4 DEF Fresh
<1>14. CASE UNCHANGED vars
  BY <1>14, <1>f, FreshUnchanged DEF vars
<1> QED
  BY <1>1, <1>2, <1>3, <1>4, <1>5, <1>6, <1>7, <1>8, <1>9, <1>10, <1>11, <1>12, <1>13, <1>14
     DEF Next, LoopStep

LEMMA PendingInit ==
  ASSUME Init
  PROVE  PendingInv
<1>1. \A f \in Files : Settled(index, f)
  BY DEF Init, Settled, Readable
<1>2. chan = <<>> /\ pc = "install" /\ batch = {} /\ todo = {} /\ touched = {}
  BY DEF Init
<1> QED
  BY <1>1, <1>2 DEF PendingInv, PlaceInv, OrderInv, Ordered, WriteBehind, FreshInv, Fresh

\* An entry that differs from the disk has its event in the channel, in the
\* batch, in the copy being made or under the overflow flag, in all three
\* processes, except for the named ways an event is without effect.
THEOREM StaleArePending == Spec => []StaleIsPending
<1>1. Init => IInv /\ PendingInv
  BY InitInv, PendingInit
<1>2. IInv /\ PendingInv /\ [Next]_vars => IInv' /\ PendingInv'
  BY NextInv, PlaceStep, OrderStep, FreshStep DEF IInv, PendingInv
<1>3. IInv /\ PendingInv => StaleIsPending
  BY DEF PendingInv, FreshInv, Fresh, Known, StaleIsPending, Pending, PlaceInv, IInv, TypeOK
<1> QED
  BY <1>1, <1>2, <1>3, PTL DEF Spec
=============================================================================
