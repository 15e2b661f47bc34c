---------------------------- MODULE WatchedIndex ----------------------------
(***************************************************************************)
(* The three processes that keep one index current from a file watch:      *)
(*                                                                         *)
(*   http   `cxpak serve`   run's watcher thread (src/commands/serve.rs)   *)
(*   lsp    `cxpak lsp`     initialized's task (src/lsp/backend.rs)        *)
(*   watch  `cxpak watch`   run (src/commands/watch.rs)                    *)
(*                                                                         *)
(* Each takes events from the notify callback's bounded channel            *)
(* (src/daemon/watcher.rs), debounces them in its own way, applies the     *)
(* batch by reading the disk, and updates the dependency graph: by an edge *)
(* delta (http, lsp) or in full (watch).  Only http looks at the overflow  *)
(* flag.  Files are read one at a time, and editors go on writing.         *)
(***************************************************************************)
EXTENDS GraphBuild

CONSTANTS
  Bad,            \* a file that cannot be read as text
  Kinds,          \* which of the three processes are looked at
  StartDisks,     \* working trees at start
  MaxEdits,       \* bound: edits made in all
  ChannelBound,   \* capacity of the event channel
  MaxSlices       \* debounce slices before the cap ends a batch

OnDisk == Stored \union {Bad}

ASSUME WatchAssumption ==
  /\ Bad \notin Contents /\ Absent # Bad
  /\ Kinds \subseteq {"http", "lsp", "watch"}
  /\ StartDisks \subseteq [Files -> OnDisk]
  /\ MaxEdits \in Nat /\ ChannelBound \in Nat /\ MaxSlices \in Nat

VARIABLES
  kind,      \* which process this is
  disk, edits,
  chan,      \* events queued in the bounded channel
  overflow,  \* the watcher's overflow flag
  index,     \* content of each indexed file
  bridges,   \* cross_lang_edges: detected by a build, kept afterwards
  schema,    \* files of the SchemaIndex of that build; none: no schema
  graph,
  pc, batch, slices,     \* the loop: debounced batch and its slices
  todo, work, updated,   \* the copy being updated, the files still to read
  touched,   \* history: files written to since a rebuild began
  dropped,   \* history: files whose last event met a full channel
  moved,     \* history: files whose absence was reported as a modification
  outrun,    \* history: files a rebuild read ahead of their queued removal
  lost       \* history: files whose last event was thrown away, or never made

diskVars == <<disk, edits, chan, overflow, dropped, moved, outrun>>
indexVars == <<index, bridges, schema, graph>>
loopVars == <<pc, batch, slices, todo, work, updated>>
vars == <<kind, diskVars, indexVars, loopVars, touched, lost>>

-----------------------------------------------------------------------------
(* What is read.                                                           *)

Readable(d) == [f \in Files |-> IF d[f] = Bad THEN Absent ELSE d[f]]

-----------------------------------------------------------------------------
(* Events.                                                                 *)

\* classify_changes treats Created and Modified alike: "write".
Event == [kind : {"write", "remove"}, path : Files]
WriteOf(f) == [kind |-> "write", path |-> f]
RemoveOf(f) == [kind |-> "remove", path |-> f]
Paths(events) == {e.path : e \in events}
Queued == {chan[i] : i \in DOMAIN chan}

Written(b) == {f \in Files : WriteOf(f) \in b}
Removed(b) == {f \in Files : RemoveOf(f) \in b}

Watching == pc \notin {"install", "dead"}

Init ==
  /\ kind \in Kinds
  /\ disk \in StartDisks /\ edits = 0
  /\ chan = <<>> /\ overflow = FALSE
  /\ index = Readable(disk)
  /\ bridges = Bridges(index) /\ schema = SchemaOf(index)
  /\ graph = FullGraph(index, bridges, schema)
  /\ pc = "install" /\ batch = {} /\ slices = 0
  /\ todo = {} /\ work = NoFiles /\ updated = FALSE
  /\ dropped = {} /\ moved = {} /\ outrun = {} /\ lost = {} /\ touched = {}

\* The notify callback: queue the event, or set the flag.
Report(e) ==
  \/ /\ Watching /\ Len(chan) < ChannelBound
     /\ chan' = Append(chan, e)
     /\ dropped' = dropped \ {e.path} /\ lost' = lost \ {e.path}
     /\ outrun' = outrun \ {e.path}
     /\ UNCHANGED overflow
  \/ /\ Watching /\ Len(chan) >= ChannelBound
     /\ overflow' = TRUE /\ dropped' = dropped \union {e.path}
     /\ lost' = lost \ {e.path}
     /\ UNCHANGED <<chan, outrun>>
  \/ /\ ~Watching
     /\ lost' = lost \union {e.path}
     /\ UNCHANGED <<chan, overflow, dropped, outrun>>

Edited(f, c) ==
  /\ edits < MaxEdits /\ edits' = edits + 1
  /\ disk' = [disk EXCEPT ![f] = c]
  /\ touched' = IF pc = "rebuild" THEN touched \union {f} ELSE touched
  /\ UNCHANGED <<kind, indexVars, loopVars>>

\* An editor creates or changes f.
Write(f) ==
  /\ \E c \in (Contents \union {Bad}) \ {disk[f]} : Edited(f, c)
  /\ Report(WriteOf(f)) /\ moved' = moved \ {f}

Delete(f) ==
  /\ disk[f] # Absent
  /\ Edited(f, Absent)
  /\ Report(RemoveOf(f)) /\ moved' = moved \ {f}

\* f is moved out of the watched tree, or to an ignored path.  notify reports
\* a rename as EventKind::Modify(Name), which the callback makes a Modified.
MoveAway(f) ==
  /\ disk[f] # Absent
  /\ Edited(f, Absent)
  /\ Report(WriteOf(f)) /\ moved' = moved \union {f}

-----------------------------------------------------------------------------
(* The loop.                                                               *)

\* FileWatcher::new, after the index was built.
Install ==
  /\ pc = "install" /\ pc' = "idle"
  /\ UNCHANGED <<kind, diskVars, indexVars, batch, slices, todo, work, updated, touched, lost>>

\* The watch cannot be installed: http and lsp go on without one, the watch
\* command ends.
InstallFail ==
  /\ pc = "install" /\ pc' = "dead"
  /\ UNCHANGED <<kind, diskVars, indexVars, batch, slices, todo, work, updated, touched, lost>>

\* recv_timeout: the first event of a batch.
Receive ==
  /\ pc = "idle" /\ chan # <<>>
  /\ batch' = {Head(chan)} /\ chan' = Tail(chan)
  /\ pc' = "debounce"
  /\ UNCHANGED <<kind, disk, edits, overflow, dropped, moved, outrun, indexVars>>
  /\ UNCHANGED <<slices, todo, work, updated, touched, lost>>

\* collect_debounced returns no event after a second; the flag is still read.
ReceiveNothing ==
  /\ pc = "idle" /\ chan = <<>> /\ kind = "http"
  /\ pc' = "collected"
  /\ UNCHANGED <<kind, diskVars, indexVars, batch, slices, todo, work, updated, touched, lost>>

\* Mutant: a removal in the batch wins over a write (issue #77).
StartApplyRemovalWins(b) ==
  /\ pc' = "read" /\ batch' = b /\ slices' = 0
  /\ work' = [f \in Files |-> IF f \in Removed(b) THEN Absent ELSE index[f]]
  /\ todo' = Written(b) \ Removed(b)
  /\ updated' = (Removed(b) # {})

\* classify_changes, and the removals of apply_incremental_update: they come
\* before any file is read.
StartApply(b) ==
  /\ pc' = "read" /\ batch' = b /\ slices' = 0
  /\ work' = [f \in Files |-> IF f \in Removed(b) THEN Absent ELSE index[f]]
  /\ todo' = Written(b)
  /\ updated' = (Removed(b) # {})

\* collect_debounced: drain in slices until a quiet window or the deadline.
DrainHttp ==
  /\ pc = "debounce" /\ kind = "http"
  /\ batch' = batch \union Queued /\ chan' = <<>>
  /\ \/ slices < MaxSlices /\ slices' = slices + 1 /\ pc' = "debounce"
     \/ slices' = 0 /\ pc' = "collected"
  /\ UNCHANGED <<kind, disk, edits, overflow, dropped, moved, outrun, indexVars>>
  /\ UNCHANGED <<todo, work, updated, touched, lost>>

\* One sleep, one drain.
DrainLsp ==
  /\ pc = "debounce" /\ kind = "lsp"
  /\ StartApply(batch \union Queued) /\ chan' = <<>>
  /\ UNCHANGED <<kind, disk, edits, overflow, dropped, moved, outrun, indexVars, touched, lost>>

\* The watch command drains until a slice is quiet ...
DrainWatch ==
  /\ pc = "debounce" /\ kind = "watch"
  /\ \/ /\ chan = <<>>
        /\ StartApply(batch)
     \/ /\ chan # <<>> /\ slices < MaxSlices
        /\ batch' = batch \union Queued /\ slices' = slices + 1
        /\ UNCHANGED <<pc, todo, work, updated>>
  /\ chan' = <<>>
  /\ UNCHANGED <<kind, disk, edits, overflow, dropped, moved, outrun, indexVars, touched, lost>>

\* ... and at the cap has already drained one more slice, which it drops.
DrainWatchCap ==
  /\ pc = "debounce" /\ kind = "watch"
  /\ chan # <<>> /\ slices >= MaxSlices
  /\ StartApply(batch) /\ chan' = <<>>
  /\ lost' = lost \union Paths(Queued)
  /\ UNCHANGED <<kind, disk, edits, overflow, dropped, moved, outrun, indexVars, touched>>

\* Mutant: the flag is only looked at, the batch applied.
TakeOverflowOnly ==
  /\ pc = "collected" /\ overflow
  /\ overflow' = FALSE
  /\ StartApply(batch)
  /\ UNCHANGED <<kind, disk, edits, chan, dropped, moved, outrun, indexVars, touched, lost>>

\* take_overflow resets the flag; after it a lossy batch is not trusted and
\* build_index reads everything again.
TakeOverflow ==
  /\ pc = "collected" /\ overflow
  /\ overflow' = FALSE
  /\ pc' = "rebuild" /\ todo' = Files /\ work' = NoFiles
  /\ UNCHANGED <<kind, disk, edits, chan, dropped, moved, outrun, indexVars>>
  /\ UNCHANGED <<batch, slices, updated, touched, lost>>

Collected ==
  /\ pc = "collected" /\ ~overflow
  /\ \/ batch # {} /\ StartApply(batch)
     \/ batch = {} /\ pc' = "idle" /\ UNCHANGED <<batch, slices, todo, work, updated>>
  /\ UNCHANGED <<kind, diskVars, indexVars, touched, lost>>

\* apply_incremental_update reads one modified path: a path that cannot be
\* read keeps what the copy has for it.
ReadModified(f) ==
  /\ pc = "read" /\ f \in todo
  /\ todo' = todo \ {f}
  /\ \/ /\ disk[f] \in Contents
        /\ work' = [work EXCEPT ![f] = disk[f]] /\ updated' = TRUE
     \/ /\ disk[f] \notin Contents
        /\ UNCHANGED <<work, updated>>
  /\ UNCHANGED <<kind, diskVars, indexVars, pc, batch, slices, touched, lost>>

EndApply == pc' = "idle" /\ batch' = {} /\ work' = NoFiles /\ updated' = FALSE

\* process_watcher_changes and the watch command: graph and swap.
Publish ==
  /\ pc = "read" /\ todo = {}
  /\ \/ /\ updated
        /\ index' = work
        /\ graph' = IF \/ kind = "watch" \/ schema # {}
                       \/ Structural(graph, Written(batch), Removed(batch))
                    THEN FullGraph(work, bridges, schema)
                    ELSE DeltaGraph(graph, work, bridges, Written(batch))
     \/ ~updated /\ UNCHANGED <<index, graph>>
  /\ EndApply
  /\ UNCHANGED <<kind, diskVars, bridges, schema, slices, todo, touched, lost>>

\* build_index reads one file; unreadable ones are skipped.  (All are below the size
\* that builds accept.)
ReadRebuild(f) ==
  /\ pc = "rebuild" /\ f \in todo
  /\ todo' = todo \ {f}
  /\ work' = [work EXCEPT ![f] = Readable(disk)[f]]
  /\ UNCHANGED <<kind, diskVars, indexVars, pc, batch, slices, updated, touched, lost>>

\* read_indexable_settled: a file written to during both its reads is left
\* out of the build.
SkipUnsettled(f) ==
  /\ pc = "rebuild" /\ f \in todo /\ f \in touched
  /\ todo' = todo \ {f}
  /\ UNCHANGED <<kind, diskVars, indexVars, pc, batch, slices, work, updated, touched, lost>>

RebuildPublish ==
  /\ pc = "rebuild" /\ todo = {}
  /\ index' = work
  /\ bridges' = Bridges(work) /\ schema' = SchemaOf(work)
  /\ graph' = FullGraph(work, Bridges(work), SchemaOf(work))
  /\ EndApply
  /\ dropped' = dropped \intersect touched /\ moved' = moved \intersect touched
  /\ outrun' = {f \in Files : RemoveOf(f) \in Queued /\ disk[f] # Absent}
  /\ lost' = {} /\ touched' = {}
  /\ UNCHANGED <<kind, disk, edits, chan, overflow, slices, todo>>

\* The rebuild fails: it is logged, and the batch and the flag are gone.
RebuildFail ==
  /\ pc = "rebuild"
  /\ lost' = lost \union dropped \union Paths(batch)
  /\ EndApply /\ todo' = {} /\ touched' = {}
  /\ UNCHANGED <<kind, diskVars, indexVars, slices>>

-----------------------------------------------------------------------------
Edit(f) == Write(f) \/ Delete(f) \/ MoveAway(f)

LoopStep ==
  \/ Receive \/ ReceiveNothing
  \/ DrainHttp \/ DrainLsp \/ DrainWatch \/ DrainWatchCap
  \/ TakeOverflow \/ Collected
  \/ \E f \in Files : ReadModified(f)
  \/ Publish
  \/ \E f \in Files : ReadRebuild(f)
  \/ RebuildPublish

Next ==
  \/ \E f \in Files : Edit(f)
  \/ Install \/ InstallFail
  \/ LoopStep
  \/ \E f \in Files : SkipUnsettled(f)
  \/ RebuildFail

Spec == Init /\ [][Next]_vars

\* The loop's thread or task runs on; a watch may fail to install, and
\* nothing is said of when editors write.
FairSpec == Spec /\ WF_vars(LoopStep) /\ WF_vars(Install \/ InstallFail)

-----------------------------------------------------------------------------
(* Properties.                                                             *)

TypeOK ==
  /\ kind \in Kinds
  /\ disk \in [Files -> OnDisk] /\ edits \in 0..MaxEdits
  /\ chan \in Seq(Event) /\ Len(chan) <= ChannelBound
  /\ overflow \in BOOLEAN
  /\ index \in [Files -> Stored] /\ work \in [Files -> Stored]
  /\ bridges \subseteq Files \X Files /\ schema \subseteq Files
  /\ graph \in [edges : SUBSET (Files \X Files \X EdgeTypes),
                reverse : SUBSET (Files \X Files \X EdgeTypes)]
  /\ pc \in {"install", "dead", "idle", "debounce", "collected", "read", "rebuild"}
  /\ batch \subseteq Event /\ slices \in 0..MaxSlices
  /\ todo \subseteq Files /\ updated \in BOOLEAN
  /\ dropped \subseteq Files /\ moved \subseteq Files
  /\ outrun \subseteq Files /\ lost \subseteq Files /\ touched \subseteq Files

\* Dependents are read from `reverse`, dependencies from `edges`: after any
\* run of deltas and full rebuilds the two describe one graph, and the
\* bridges found by the last build are in it.
GraphMirrored ==
  /\ graph.reverse = {Flip(e) : e \in graph.edges}
  /\ BridgeEdges(bridges) \subseteq graph.edges

\* Paths that are nodes whatever the index holds: ends of detected bridges.
BridgeEnds == {b[1] : b \in bridges} \union {b[2] : b \in bridges}
Candidates(f) ==
  IF index[f] = Absent THEN {} ELSE UNION {{l[i] : i \in DOMAIN l} : l \in Imports[f][index[f]]}

\* Edge deltas are exact for every file none of whose import candidates is
\* an end of a bridge: its edges are those of a full rebuild_graph.
DeltaExactOffBridges ==
  \A f \in Files : Candidates(f) \intersect BridgeEnds = {} =>
    {e \in graph.edges : e[1] = f} = {e \in FullGraph(index, bridges, schema).edges : e[1] = f}

\* What the last change of f should have been reported as.
Latest(f) == IF disk[f] = Absent THEN RemoveOf(f) ELSE WriteOf(f)
Settled(ix, f) == disk[f] = Bad \/ ix[f] = disk[f]

\* The ways an event can be without effect, and no others: dropped by the
\* full channel where nobody reads the flag, drained and dropped at the cap,
\* gone with a failed rebuild, before the watch, a move, or a queued removal
\* that a rebuild of later content overtook.
Excused(f) ==
  \/ f \in lost \/ f \in moved \/ f \in outrun
  \/ kind # "http" /\ f \in dropped

OnTheWay(f) == Latest(f) \in Queued \/ (overflow /\ f \in dropped)
Pending(f) ==
  \/ OnTheWay(f)
  \/ pc \in {"debounce", "collected", "rebuild"} /\ Latest(f) \in batch
  \/ pc = "read" /\ (Settled(work, f) \/ (disk[f] # Absent /\ f \in todo))
  \/ pc = "rebuild" /\ f \in dropped

\* An index entry that differs from the disk has its event under way: queued,
\* in the batch, in the copy being made, or covered by the overflow flag.
StaleIsPending == \A f \in Files : Settled(index, f) \/ Excused(f) \/ Pending(f)

\* Every readable change whose event was not without effect ends up in the
\* index, and what was deleted leaves it.
ReportedIsIndexed ==
  <>[](\A f \in Files : Settled(index, f) \/ Excused(f))

\* A path still on disk is indexed once every event has been taken in.
OnDiskIsIndexed ==
  (pc = "idle" /\ chan = <<>> /\ ~overflow /\ dropped = {} /\ lost = {}) =>
    \A f \in Files : disk[f] \in Contents => index[f] # Absent

=============================================================================
