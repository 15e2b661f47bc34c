---------------------------- MODULE DerivedCache ----------------------------
(***************************************************************************)
(* The derived cache of one repository, derived.json: the graph of a build *)
(* under the fingerprint of the files it read and of HEAD, stamped with    *)
(* the commit whose tree it is (ADR-0167, ADR-0179, ADR-0212).             *)
(*                                                                         *)
(*   build  a command or a server builds its index                         *)
(*          (build_index_pending_with, src/commands/serve.rs), and an MCP  *)
(*          server mines the conventions later (PendingConventions::mine)  *)
(*   hook   the post-commit hook builds the committed artifact             *)
(*          (build_artifact, src/commands/hook.rs), by an edge delta on    *)
(*          the cached graph when that is the graph of HEAD's parent       *)
(*                                                                         *)
(* Several processes do this at once; each reads the files one at a time,  *)
(* HEAD, and the state of the working tree at different moments.  Loading  *)
(* and saving are one step each: module CacheFile says why.  History is    *)
(* linear, and nothing is staged that is not committed at once.            *)
(***************************************************************************)
EXTENDS GraphBuild

CONSTANTS
  Builders,    \* processes that build an index
  Hooks,       \* runs of the post-commit hook
  StartTrees,  \* the first commit, checked out
  NoCache,     \* no derived.json, or one of another version or grammar
  MaxEdits,    \* bound: edits in all
  MaxCommits   \* bound: commits in all, the first one included

Procs == Builders \union Hooks

ASSUME DerivedAssumption ==
  /\ StartTrees \subseteq [Files -> Stored]
  /\ MaxEdits \in Nat /\ MaxCommits \in Nat \ {0}

VARIABLES
  disk, edits,
  commits,  \* trees of the commits, HEAD's last
  cache,    \* derived.json
  job       \* what each process is at

vars == <<disk, edits, commits, cache, job>>

Full(ix) == FullGraph(ix, Bridges(ix), SchemaOf(ix))

HeadOid == Len(commits)
HeadTree == commits[HeadOid]

\* statuses() without untracked files is empty.
Clean == \A f \in Files : HeadTree[f] # Absent => disk[f] = HeadTree[f]

ParentTree == IF HeadOid = 1 THEN NoFiles ELSE commits[HeadOid - 1]

\* changed_paths_in_head: HEAD's tree against its first parent's.
ChangedInHead == {f \in Files : HeadTree[f] # Absent /\ HeadTree[f] # ParentTree[f]}
RemovedInHead == {f \in Files : HeadTree[f] = Absent /\ ParentTree[f] # Absent}

\* head_parent_oid; 0 is no commit.
HeadParent == HeadOid - 1

Idle ==
  [pc |-> "idle", kind |-> "build", todo |-> {}, work |-> NoFiles,
   head |-> 0, changed |-> {}, removed |-> {}, parent |-> 0, clean |-> FALSE,
   graph |-> EmptyGraph, base |-> 0, delta |-> FALSE, ends |-> {}, sound |-> TRUE]

\* Ends of the bridges between some files.
Ends(ix) == UNION {{b[1], b[2]} : b \in Bridges(ix)}

At(p, pc) == job[p].pc = pc

Init ==
  /\ disk \in StartTrees /\ edits = 0
  /\ commits = <<disk>>
  /\ cache = NoCache
  /\ job = [p \in Procs |-> Idle]

-----------------------------------------------------------------------------
(* The user.  A job under way is no longer `sound`: it may mix two states   *)
(* of the tree (history, for the properties).                              *)

Disturbed == [p \in Procs |-> IF At(p, "idle") THEN job[p] ELSE [job[p] EXCEPT !.sound = FALSE]]

Edit(f) ==
  /\ edits < MaxEdits /\ edits' = edits + 1
  /\ \E c \in Stored \ {disk[f]} : disk' = [disk EXCEPT ![f] = c]
  /\ job' = Disturbed
  /\ UNCHANGED <<commits, cache>>

\* A commit of some of the changed files, new ones among them.
Commit(S) ==
  /\ HeadOid < MaxCommits /\ S # {}
  /\ \A f \in S : disk[f] # HeadTree[f]
  /\ commits' = Append(commits, [f \in Files |-> IF f \in S THEN disk[f] ELSE HeadTree[f]])
  /\ job' = Disturbed
  /\ UNCHANGED <<disk, edits, cache>>

-----------------------------------------------------------------------------
(* Scanning and reading, common to both.                                   *)

Scan(p, kind) ==
  job' = [job EXCEPT ![p] = [Idle EXCEPT
            !.pc = "read", !.kind = kind,
            !.todo = {f \in Files : disk[f] # Absent}]]

StartBuild(p) ==
  /\ p \in Builders /\ At(p, "idle")
  /\ Scan(p, "build")
  /\ UNCHANGED <<disk, edits, commits, cache>>

\* run_post_commit: nothing to do when the commit changed nothing; an empty
\* tree gives an empty artifact and saves no cache.
StartHook(p) ==
  /\ p \in Hooks /\ At(p, "idle")
  /\ ChangedInHead \union RemovedInHead # {}
  /\ \E f \in Files : disk[f] # Absent
  /\ Scan(p, "hook")
  /\ UNCHANGED <<disk, edits, commits, cache>>

\* A file that has gone since the scan leaves no trace.
Read(p, f) ==
  /\ At(p, "read") /\ f \in job[p].todo
  /\ job' = [job EXCEPT ![p].todo = @ \ {f}, ![p].work[f] = disk[f]]
  /\ UNCHANGED <<disk, edits, commits, cache>>

-----------------------------------------------------------------------------
(* build_index_pending_with, after the files were read.                    *)

BuildDone(p) == At(p, "read") /\ job[p].kind = "build" /\ job[p].todo = {}
Hit(p) == cache # NoCache /\ cache.content = job[p].work /\ cache.head = HeadOid

\* HEAD is read, and the derived cache loaded under the fingerprint.
BuildHit(p) ==
  /\ BuildDone(p) /\ Hit(p)
  /\ job' = [job EXCEPT ![p] = Idle]
  /\ UNCHANGED <<disk, edits, commits, cache>>

BuildMiss(p) ==
  /\ BuildDone(p) /\ ~Hit(p)
  /\ job' = [job EXCEPT ![p].pc = "stamp", ![p].head = HeadOid,
                        ![p].graph = Full(job[p].work), ![p].ends = Ends(job[p].work)]
  /\ UNCHANGED <<disk, edits, commits, cache>>

\* Mutant: the stamp does not ask for a clean tree.
StampAlways(hd) == hd

\* base_commit: the HEAD read before, if the tree is clean now.
Stamp(hd) == IF Clean THEN hd ELSE 0

\* Mutant: the fingerprint is of the files as they are when it is saved.
SavedRehashed(p, base) ==
  [content |-> disk, head |-> job[p].head, graph |-> job[p].graph, base |-> base,
   sound |-> job[p].sound, delta |-> job[p].delta,
   ends |-> job[p].ends, replaced |-> FALSE]

\* What is written: content and head stand for the fingerprint, the last four
\* are history.
Saved(p, base) ==
  [content |-> job[p].work, head |-> job[p].head, graph |-> job[p].graph, base |-> base,
   sound |-> job[p].sound, delta |-> job[p].delta,
   ends |-> job[p].ends, replaced |-> FALSE]

\* Conventions are mined inline, and everything is saved.
BuildSave(p) ==
  /\ At(p, "stamp") /\ job[p].kind = "build"
  /\ cache' = Saved(p, Stamp(job[p].head))
  /\ job' = [job EXCEPT ![p] = Idle]
  /\ UNCHANGED <<disk, edits, commits>>

\* The start path of an MCP server, when a prior cache has conventions.
BuildDefer(p) ==
  /\ At(p, "stamp") /\ job[p].kind = "build" /\ cache # NoCache
  /\ job' = [job EXCEPT ![p].pc = "mine", ![p].base = Stamp(job[p].head)]
  /\ UNCHANGED <<disk, edits, commits, cache>>

\* Mining has a base to read: what the cell holds, with any batches the
\* watcher has applied by then.
MineSave(p) ==
  /\ At(p, "mine")
  /\ \E S \in SUBSET Files :
       LET held == [f \in Files |-> IF f \in S THEN disk[f] ELSE job[p].work[f]]
           g == FullGraph(held, Bridges(job[p].work), SchemaOf(job[p].work))
       IN /\ S # {} => ~job[p].sound
          /\ cache' = [Saved(p, job[p].base) EXCEPT !.graph = g, !.replaced = (S # {})]
  /\ job' = [job EXCEPT ![p] = Idle]
  /\ UNCHANGED <<disk, edits, commits>>

-----------------------------------------------------------------------------
(* build_artifact and persist_derived_cache, after the files were read.    *)

HookHead(p) ==
  /\ At(p, "read") /\ job[p].kind = "hook" /\ job[p].todo = {}
  /\ job' = [job EXCEPT ![p].pc = "parent", ![p].changed = ChangedInHead,
                        ![p].removed = RemovedInHead]
  /\ UNCHANGED <<disk, edits, commits, cache>>

HookParent(p) ==
  /\ At(p, "parent")
  /\ job' = [job EXCEPT ![p].pc = "clean", ![p].parent = HeadParent]
  /\ UNCHANGED <<disk, edits, commits, cache>>

HookClean(p) ==
  /\ At(p, "clean")
  /\ job' = [job EXCEPT ![p].pc = "load", ![p].clean = Clean]
  /\ UNCHANGED <<disk, edits, commits, cache>>

\* Mutant: any stamped base will do.
DeltaBaseAny(j) == cache # NoCache /\ j.parent # 0 /\ j.clean /\ cache.base # 0

\* The cached graph is the base of a delta only if it is stamped with HEAD's
\* parent and the tree was clean.
DeltaBase(j) == cache # NoCache /\ j.parent # 0 /\ j.clean /\ cache.base = j.parent

\* The cached graph driven forward by the commit; rebuild_graph_delta itself
\* falls back to a full rebuild of what was read.
Forward(g, j) ==
  IF Structural(g, j.changed, j.removed) \/ SchemaOf(j.work) # {}
  THEN Full(j.work)
  ELSE DeltaGraph(g, j.work, Bridges(j.work), j.changed)

HookGraph(p) ==
  /\ At(p, "load")
  /\ \/ /\ DeltaBase(job[p])
        /\ job' = [job EXCEPT ![p].pc = "head", ![p].delta = TRUE,
                     ![p].graph = Forward(cache.graph, job[p]),
                     ![p].ends = Ends(job[p].work) \union cache.ends,
                     ![p].sound = @ /\ cache.sound
                                    /\ cache.content = commits[cache.base]]
     \/ /\ ~DeltaBase(job[p])
        /\ job' = [job EXCEPT ![p].pc = "head", ![p].graph = Full(job[p].work),
                     ![p].ends = Ends(job[p].work)]
  /\ UNCHANGED <<disk, edits, commits, cache>>

\* persist_derived_cache reads HEAD again, and the state of the tree again.
HookStamp(p) ==
  /\ At(p, "head")
  /\ job' = [job EXCEPT ![p].pc = "save", ![p].head = HeadOid]
  /\ UNCHANGED <<disk, edits, commits, cache>>

HookSave(p) ==
  /\ At(p, "save")
  /\ cache' = Saved(p, Stamp(job[p].head))
  /\ job' = [job EXCEPT ![p] = Idle]
  /\ UNCHANGED <<disk, edits, commits>>

-----------------------------------------------------------------------------
UserStep == (\E f \in Files : Edit(f)) \/ (\E S \in SUBSET Files : Commit(S))

JobStep(p) ==
  \/ StartBuild(p) \/ StartHook(p)
  \/ \E f \in Files : Read(p, f)
  \/ BuildHit(p) \/ BuildMiss(p) \/ BuildSave(p) \/ BuildDefer(p) \/ MineSave(p)
  \/ HookHead(p) \/ HookParent(p) \/ HookClean(p)
  \/ HookGraph(p) \/ HookStamp(p) \/ HookSave(p)

Next == UserStep \/ \E p \in Procs : JobStep(p)

Spec == Init /\ [][Next]_vars

-----------------------------------------------------------------------------
(* Properties.                                                             *)

GraphType ==
  [edges : SUBSET (Files \X Files \X EdgeTypes), reverse : SUBSET (Files \X Files \X EdgeTypes)]

TypeOK ==
  /\ disk \in [Files -> Stored] /\ edits \in 0..MaxEdits
  /\ commits \in Seq([Files -> Stored]) /\ HeadOid \in 1..MaxCommits
  /\ \/ cache = NoCache
     \/ /\ cache.content \in [Files -> Stored] /\ cache.head \in 1..HeadOid
        /\ cache.graph \in GraphType /\ cache.base \in 0..HeadOid
  /\ \A p \in Procs :
       /\ job[p].pc \in {"idle", "read", "stamp", "mine", "parent", "clean", "load", "head", "save"}
       /\ job[p].todo \subseteq Files /\ job[p].work \in [Files -> Stored]
       /\ job[p].head \in 0..HeadOid /\ job[p].parent \in 0..HeadOid /\ job[p].base \in 0..HeadOid

\* A cache that is stamped with a commit, by a job during which the tree did
\* not change, was built from files that are as that commit has them: only
\* files it does not track may come on top.
StampedIsCommitted ==
  (cache # NoCache /\ cache.base # 0 /\ cache.sound) =>
    \A f \in Files :
      commits[cache.base][f] # Absent => cache.content[f] = commits[cache.base][f]

\* A hit is the graph of the files it was asked for, unless a delta made it,
\* or batches of the watcher had changed the index it was mined for.
HitIsHonest ==
  (cache # NoCache /\ ~cache.delta /\ ~cache.replaced) => cache.graph = Full(cache.content)

Targets(ix, f) ==
  IF ix[f] = Absent THEN {} ELSE UNION {{l[i] : i \in DOMAIN l} : l \in Imports[f][ix[f]]}

\* f and what it may import are as HEAD has them: nothing untracked among them.
AsCommitted(j, f) == \A g \in {f} \union Targets(j.work, f) : j.work[g] = HeadTree[g]

\* The hook's result after a delta, each graph in its line of descent built
\* from the tree of its commit: a file that no bridge of these trees can mislead,
\* and no untracked file, has the imports of a full rebuild of what the hook read.
DeltaImportsExact ==
  \A p \in Procs :
    (job[p].pc \in {"head", "save"} /\ job[p].delta /\ job[p].sound) =>
      \A f \in Files :
         (AsCommitted(job[p], f) /\ Targets(job[p].work, f) \intersect job[p].ends = {}) =>
           {e \in job[p].graph.edges : e[1] = f /\ e[3] = "import"} = ImportsOf(job[p].work, f)

\* build_artifact: by delta or in full, the artifact is that of a full rebuild
\* of the files, at the least when nothing changed while the jobs ran.
ArtifactIsFull ==
  \A p \in Procs :
    (job[p].pc \in {"head", "save"} /\ job[p].sound) => job[p].graph = Full(job[p].work)

=============================================================================
