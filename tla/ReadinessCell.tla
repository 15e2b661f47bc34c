---------------------------- MODULE ReadinessCell ----------------------------
(***************************************************************************)
(* The readiness cell of `serve --mcp` (src/commands/serve.rs): one        *)
(* Arc<RwLock<IndexReadiness>> shared by                                   *)
(*                                                                         *)
(*   - the build thread (spawn_mcp_index_build), which publishes the first *)
(*     index, then republishes it with freshly mined conventions, then     *)
(*     with embeddings;                                                    *)
(*   - the watcher thread (spawn_mcp_watcher), which applies each          *)
(*     debounced batch of edits to a copy of the current index and writes  *)
(*     the copy back, or rebuilds everything when events were dropped;     *)
(*   - tool calls (snapshot_ready_index), which hold a strong reference to *)
(*     whatever the cell held when they started.                           *)
(*                                                                         *)
(* An index is what the properties tell apart: the version of each file it *)
(* was built from, the conventions attached to it and the content its      *)
(* embeddings were computed from.  An Arc is an identity paired with the   *)
(* index its holder sees through it.  Lock poisoning and the shutdown flag *)
(* are left out.  The files of a batch are read in one step, since every   *)
(* property speaks of one file at a time; WatchedIndex reads them one by   *)
(* one.                                                                    *)
(***************************************************************************)
EXTENDS Naturals, Sequences, FiniteSets

CONSTANTS
  Files,             \* the indexed files
  MaxEdits,          \* bound: edits made of a file
  Calls,             \* tool calls that may be in flight together
  ArcIds,            \* identities of live index allocations
  ChannelBound,      \* capacity of the watcher's event channel
  StartForms,        \* working trees at start
  EditsOf            \* bound: the kinds of edit that may be a file's n-th

\* A file on disk: text that can be read, a file that cannot, or no file.  Texts
\* are below the size that builds accept (read_indexable), which batches do not ask.
Forms == {"text", "unreadable", "gone"}
Edits == {"write", "spoil", "delete", "move"}

ASSUME CellAssumption == MaxEdits \in Nat /\ ChannelBound \in Nat

ASSUME EditorAssumption ==
  /\ StartForms \subseteq [Files -> Forms]
  /\ EditsOf \in [Files -> [1..MaxEdits -> SUBSET Edits]]

Attempts == 3   \* ATTEMPTS of republish_conventions_with

CONSTANTS NoArc, NoContent, NoCache

\* A file has version 1 at the start, each edit makes the next one.  In an index
\* version 0 says that the file is not in it.
Version == 0..MaxEdits + 1
NotIndexed == 0
Content == [Files -> Version]

ASSUME NoneAssumption ==
  /\ NoArc \notin ArcIds
  /\ NoContent \notin Content
  /\ NoCache \notin [fingerprint : Content \union {NoContent},
                     graph : Content \union {NoContent}]

\* Allocation does not fail: there are more identities than live references.
ASSUME EnoughArcs ==
  \A held \in [Calls -> ArcIds \union {NoArc}] :
    \A a, b, c \in ArcIds \union {NoArc} :
      ArcIds \ ({a, b, c} \union {held[t] : t \in Calls}) # {}

VARIABLES
  disk,       \* version of each file: one more than its edits
  form,       \* and what that edit left
  watching,   \* the notify watch is installed
  chan,       \* events queued in the bounded channel
  overflow,   \* the watcher's overflow flag
  unseen,     \* history: files whose last edit no watch was there to report
  moved,      \* history: files whose absence was reported as a modification
  outrun,     \* history: files a rebuild read ahead of their queued removal
  touched,    \* history: files edited since a rebuild began
  tag,        \* variant of the cell
  arc,        \* Arc held by the cell (NoArc unless queryable)
  index,      \* the index behind that Arc
  status,     \* ConventionsStatus
  derived,    \* derived cache on disk: fingerprint and content of its graph
  bpc, bUnread, bContent, bArc, bIndex, bMined, bTries,   \* build thread
  wpc, wUnread, wBatch, wArc, wIndex,                     \* watcher thread
  callArc, callIndex,  \* the snapshot each tool call holds
  served,     \* history: content of the index last made queryable
  shown       \* history: version of each file last made queryable

eventVars == <<watching, chan, overflow, unseen, moved, outrun>>
diskVars == <<disk, form, eventVars, touched>>
cellVars == <<tag, arc, index, served, shown>>
buildVars == <<bpc, bUnread, bContent, bArc, bIndex, bMined, bTries>>
watchVars == <<wpc, wUnread, wBatch, wArc, wIndex>>
callVars == <<callArc, callIndex>>
vars == <<diskVars, cellVars, status, derived, buildVars, watchVars, callVars>>

-----------------------------------------------------------------------------
(* Data.                                                                   *)

ContentOrNone == Content \union {NoContent}

\* Conventions: the file patterns are re-extracted by every watcher batch, the
\* git-mined half (churn, co-changes) only by a mining.
Conventions == [patterns : ContentOrNone, git : {"prior", "mined"}]
PriorConventions == [patterns |-> NoContent, git |-> "prior"]
MinedFrom(c) == [patterns |-> c, git |-> "mined"]

Index == [content : Content, conventions : Conventions, embedded : ContentOrNone]

NoFiles == [f \in Files |-> NotIndexed]
NoIndex == [content |-> NoFiles, conventions |-> PriorConventions,
            embedded |-> NoContent]

\* The derived cache: the content it is keyed on, and the content it holds.
Derived == [fingerprint : ContentOrNone, graph : ContentOrNone]
SavedFor(fp, c) == [fingerprint |-> fp, graph |-> c]

\* DerivedCache::load: only an exact fingerprint is a hit.
DerivedHit(c) == derived # NoCache /\ derived.fingerprint = c

Built(c, conv) == [content |-> c, conventions |-> conv, embedded |-> NoContent]

\* What reading f finds: a file that is not there or cannot be read is no
\* version of it.
ReadOf(f) == IF form[f] = "text" THEN disk[f] ELSE NotIndexed

\* classify_changes treats Created and Modified alike: "write".
Event == [kind : {"write", "remove"}, path : Files]
WriteOf(f) == [kind |-> "write", path |-> f]
RemoveOf(f) == [kind |-> "remove", path |-> f]
Queued == {chan[i] : i \in DOMAIN chan}
Written(b) == {f \in Files : WriteOf(f) \in b}
Removed(b) == {f \in Files : RemoveOf(f) \in b}

Queryable == tag \in {"Ready", "ReadyEnriched"}

\* Strong references held outside the cell.
OtherRefs == {bArc, wArc} \union {callArc[t] : t \in Calls}
FreeArcs == ArcIds \ (OtherRefs \union {arc})

\* A fresh allocation (Arc::new).
NewArc == CHOOSE a \in ArcIds : a \in FreeArcs

-----------------------------------------------------------------------------
(* Every write of the cell.                                                *)

ShownAfter(c) == [f \in Files |-> IF c[f] = NotIndexed THEN shown[f] ELSE c[f]]

Publish(variant, a, ix) ==
  /\ tag' = variant
  /\ arc' = a
  /\ index' = ix
  /\ served' = ix.content
  /\ shown' = ShownAfter(ix.content)

\* Mutant: the variant changes around the index.
WithholdVariantOnly(variant) ==
  /\ tag' = variant
  /\ UNCHANGED <<arc, index, served, shown>>

\* Building and Failed carry no index: the cell's reference is dropped.
Withhold(variant) ==
  /\ tag' = variant
  /\ arc' = NoArc
  /\ index' = NoIndex
  /\ UNCHANGED <<served, shown>>

-----------------------------------------------------------------------------
(* The working tree and the notify callback.                               *)

\* The notify callback, once the watch is installed: queue the event, or set
\* the flag when the channel is full.
Report(e) ==
  \/ /\ ~watching
     /\ unseen' = unseen \union {e.path}
     /\ UNCHANGED <<chan, overflow, outrun>>
  \/ /\ watching /\ Len(chan) < ChannelBound
     /\ chan' = Append(chan, e)
     /\ unseen' = unseen \ {e.path} /\ outrun' = outrun \ {e.path}
     /\ UNCHANGED overflow
  \/ /\ watching /\ Len(chan) >= ChannelBound
     /\ overflow' = TRUE
     /\ unseen' = unseen \ {e.path}
     /\ UNCHANGED <<chan, outrun>>

Edited(f, kind, fm) ==
  /\ disk[f] \in 1..MaxEdits /\ kind \in EditsOf[f][disk[f]]
  /\ disk' = [disk EXCEPT ![f] = disk[f] + 1]
  /\ form' = [form EXCEPT ![f] = fm]
  /\ touched' = IF wpc = "rebuild" THEN touched \union {f} ELSE touched
  /\ UNCHANGED watching
  /\ UNCHANGED <<cellVars, status, derived, buildVars, watchVars, callVars>>

\* An editor creates or changes f, or leaves it unreadable.
Write(f) ==
  /\ Edited(f, "write", "text") \/ Edited(f, "spoil", "unreadable")
  /\ Report(WriteOf(f)) /\ moved' = moved \ {f}

Delete(f) ==
  /\ form[f] # "gone" /\ Edited(f, "delete", "gone")
  /\ Report(RemoveOf(f)) /\ moved' = moved \ {f}

\* f is moved out of the watched tree, or to an ignored path.  notify reports
\* a rename as EventKind::Modify(Name), which the callback makes a Modified.
MoveAway(f) ==
  /\ form[f] # "gone" /\ Edited(f, "move", "gone")
  /\ Report(WriteOf(f)) /\ moved' = moved \union {f}

Edit(f) == Write(f) \/ Delete(f) \/ MoveAway(f)

-----------------------------------------------------------------------------
(* The build thread: spawn_mcp_index_build.                                *)

\* One file's settled read; files are read at different moments.  A file that
\* cannot be read is not in the index, nor is one edited, since the build
\* began, during both of its reads.
BuildReadFile(f) ==
  /\ bpc = "read" /\ f \in bUnread
  /\ bUnread' = bUnread \ {f}
  /\ \/ bContent' = [bContent EXCEPT ![f] = ReadOf(f)]
     \/ disk[f] > 1 /\ UNCHANGED bContent
  /\ UNCHANGED <<bpc, bArc, bIndex, bMined, bTries>>
  /\ UNCHANGED <<diskVars, cellVars, status, derived, watchVars, callVars>>

\* A fingerprint hit restores everything the derived cache holds; a miss with
\* a loadable prior cache defers the mining (ADR-0212); otherwise the mining
\* runs inline and the derived cache is saved before the index is published.
BuildPublish ==
  /\ bpc = "read" /\ bUnread = {}
  /\ \/ /\ DerivedHit(bContent)
        /\ Publish("Ready", NewArc, Built(bContent, MinedFrom(derived.graph)))
        /\ UNCHANGED <<status, derived>>
     \/ /\ ~DerivedHit(bContent) /\ derived # NoCache
        /\ Publish("Ready", NewArc, Built(bContent, PriorConventions))
        /\ status' = "StalePending"
        /\ UNCHANGED derived
     \/ /\ derived = NoCache
        /\ Publish("Ready", NewArc, Built(bContent, MinedFrom(bContent)))
        /\ derived' = SavedFor(bContent, bContent)
        /\ UNCHANGED status
  /\ bpc' = "takeBase"
  /\ UNCHANGED <<bUnread, bContent, bArc, bIndex, bMined, bTries>>
  /\ UNCHANGED <<diskVars, watchVars, callVars>>

\* The build returned an error or panicked: classify_reported_outcome.
BuildFail ==
  /\ bpc = "read"
  /\ Withhold("Failed")
  /\ bpc' = "done" /\ bUnread' = {} /\ bContent' = NoFiles
  /\ UNCHANGED <<bArc, bIndex, bMined, bTries>>
  /\ UNCHANGED <<diskVars, status, derived, watchVars, callVars>>

\* ready_base_of: a deferred mining starts from what the cell holds by now.
TakeMiningBase ==
  /\ bpc = "takeBase" /\ status = "StalePending" /\ tag = "Ready"
  /\ bpc' = "mine" /\ bArc' = arc /\ bIndex' = index
  /\ UNCHANGED <<bUnread, bContent, bMined, bTries>>
  /\ UNCHANGED <<diskVars, cellVars, status, derived, watchVars, callVars>>

SkipMining ==
  /\ bpc = "takeBase" /\ (status = "Fresh" \/ tag # "Ready")
  /\ bpc' = "takeEnrichBase" /\ bContent' = NoFiles
  /\ UNCHANGED <<bUnread, bArc, bIndex, bMined, bTries>>
  /\ UNCHANGED <<diskVars, cellVars, status, derived, watchVars, callVars>>

\* PendingConventions::mine: the complete derived cache is saved under the
\* fingerprint of the files the build read, then the base is released.
Mine ==
  /\ bpc = "mine"
  /\ bMined' = MinedFrom(bIndex.content)
  /\ derived' = SavedFor(bContent, bIndex.content)
  /\ bpc' = "inPlace" /\ bArc' = NoArc /\ bIndex' = NoIndex /\ bContent' = NoFiles
  /\ UNCHANGED <<bUnread, bTries>>
  /\ UNCHANGED <<diskVars, cellVars, status, watchVars, callVars>>

\* A panic in the mining is contained and leaves the carried conventions.
MinePanic ==
  /\ bpc = "mine"
  /\ bpc' = "takeEnrichBase"
  /\ bArc' = NoArc /\ bIndex' = NoIndex /\ bContent' = NoFiles
  /\ UNCHANGED <<bUnread, bMined, bTries>>
  /\ UNCHANGED <<diskVars, cellVars, status, derived, watchVars, callVars>>

\* Mutant: the count of strong references is not asked for.
SoleOwnerAssumed == TRUE

\* Arc::get_mut: the cell's own reference is the only one.
SoleOwner == arc \notin OtherRefs

WithConventions(ix) == [ix EXCEPT !.conventions = bMined]

ConventionsPublished ==
  /\ status' = "Fresh"
  /\ bpc' = "takeEnrichBase" /\ bMined' = PriorConventions
  /\ bTries' = 0 /\ bArc' = NoArc /\ bIndex' = NoIndex

ConventionsDropped ==
  /\ bpc' = "takeEnrichBase" /\ bMined' = PriorConventions /\ bTries' = 0
  /\ UNCHANGED <<status, bArc, bIndex>>

\* republish_in_place, under the write lock.
RepublishInPlace ==
  /\ bpc = "inPlace"
  /\ \/ /\ Queryable /\ SoleOwner
        /\ Publish(tag, arc, WithConventions(index))
        /\ ConventionsPublished
     \/ /\ ~(Queryable /\ SoleOwner)
        /\ bpc' = "clone"
        /\ UNCHANGED <<cellVars, status, bArc, bIndex, bMined, bTries>>
  /\ UNCHANGED <<bUnread, bContent>>
  /\ UNCHANGED <<diskVars, derived, watchVars, callVars>>

\* One attempt begins: snapshot the cell, clone outside the lock.
RepublishClone ==
  /\ bpc = "clone"
  /\ \/ /\ Queryable
        /\ bpc' = "swap" /\ bArc' = arc /\ bIndex' = index
        /\ UNCHANGED <<status, bMined, bTries>>
     \/ /\ ~Queryable
        /\ ConventionsDropped
  /\ UNCHANGED <<bUnread, bContent>>
  /\ UNCHANGED <<diskVars, cellVars, derived, watchVars, callVars>>

\* Mutant: the swap does not compare.
RepublishSwapBlind ==
  /\ bpc = "swap"
  /\ \/ /\ Queryable
        /\ Publish(tag, NewArc, WithConventions(bIndex))
        /\ ConventionsPublished
     \/ /\ ~Queryable
        /\ ConventionsDropped
        /\ UNCHANGED cellVars
  /\ UNCHANGED <<bUnread, bContent>>
  /\ UNCHANGED <<diskVars, derived, watchVars, callVars>>

\* Mutant: the conventions are dropped after the last attempt.
RepublishSwapGivesUp ==
  /\ bpc = "swap"
  /\ \/ /\ Queryable /\ arc = bArc
        /\ Publish(tag, NewArc, WithConventions(bIndex))
        /\ ConventionsPublished
     \/ /\ ~(Queryable /\ arc = bArc)
        /\ bTries' = bTries + 1
        /\ bpc' = IF bTries + 1 < Attempts THEN "clone" ELSE "takeEnrichBase"
        /\ bArc' = NoArc /\ bIndex' = NoIndex
        /\ UNCHANGED <<cellVars, status, bMined>>
  /\ UNCHANGED <<bUnread, bContent>>
  /\ UNCHANGED <<diskVars, derived, watchVars, callVars>>

\* The attempt ends: compare-and-swap on the Arc that was cloned.
RepublishSwap ==
  /\ bpc = "swap"
  /\ \/ /\ Queryable /\ arc = bArc
        /\ Publish(tag, NewArc, WithConventions(bIndex))
        /\ ConventionsPublished
     \/ /\ ~(Queryable /\ arc = bArc)
        /\ bTries' = bTries + 1
        /\ bpc' = IF bTries + 1 < Attempts THEN "clone" ELSE "lastResort"
        /\ bArc' = NoArc /\ bIndex' = NoIndex
        /\ UNCHANGED <<cellVars, status, bMined>>
  /\ UNCHANGED <<bUnread, bContent>>
  /\ UNCHANGED <<diskVars, derived, watchVars, callVars>>

\* Every attempt lost: clone and swap the current value under one write lock.
RepublishLastResort ==
  /\ bpc = "lastResort"
  /\ \/ /\ Queryable
        /\ Publish(tag, NewArc, WithConventions(index))
        /\ ConventionsPublished
     \/ /\ ~Queryable
        /\ ConventionsDropped
        /\ UNCHANGED cellVars
  /\ UNCHANGED <<bUnread, bContent>>
  /\ UNCHANGED <<diskVars, derived, watchVars, callVars>>

\* Embeddings phase: the base is what the cell holds now.
TakeEnrichBase ==
  /\ bpc = "takeEnrichBase" /\ tag = "Ready"
  /\ bpc' = "enrich" /\ bArc' = arc /\ bIndex' = index
  /\ UNCHANGED <<bUnread, bContent, bMined, bTries>>
  /\ UNCHANGED <<diskVars, cellVars, status, derived, watchVars, callVars>>

\* Not configured, provider unavailable or panicked, or nothing to enrich.
EnrichNothing ==
  /\ \/ bpc = "takeEnrichBase"
     \/ bpc = "enrich"
  /\ bpc' = "done" /\ bArc' = NoArc /\ bIndex' = NoIndex
  /\ UNCHANGED <<bUnread, bContent, bMined, bTries>>
  /\ UNCHANGED <<diskVars, cellVars, status, derived, watchVars, callVars>>

\* Mutant: the enriched index is written without the compare.
EnrichPublishBlind ==
  /\ bpc = "enrich" /\ tag = "Ready"
  /\ Publish("ReadyEnriched", NewArc, [bIndex EXCEPT !.embedded = bIndex.content])
  /\ bpc' = "done" /\ bArc' = NoArc /\ bIndex' = NoIndex
  /\ UNCHANGED <<bUnread, bContent, bMined, bTries>>
  /\ UNCHANGED <<diskVars, status, derived, watchVars, callVars>>

\* publish_ready_enriched: compare-and-swap against the enriched base.
EnrichPublish ==
  /\ bpc = "enrich"
  /\ \/ /\ tag = "Ready" /\ arc = bArc
        /\ Publish("ReadyEnriched", NewArc, [bIndex EXCEPT !.embedded = bIndex.content])
     \/ /\ ~(tag = "Ready" /\ arc = bArc)
        /\ UNCHANGED cellVars
  /\ bpc' = "done" /\ bArc' = NoArc /\ bIndex' = NoIndex
  /\ UNCHANGED <<bUnread, bContent, bMined, bTries>>
  /\ UNCHANGED <<diskVars, status, derived, watchVars, callVars>>

Builder ==
  \/ \E f \in Files : BuildReadFile(f)
  \/ BuildPublish \/ BuildFail
  \/ TakeMiningBase \/ SkipMining \/ Mine \/ MinePanic
  \/ RepublishInPlace \/ RepublishClone \/ RepublishSwap \/ RepublishLastResort
  \/ TakeEnrichBase \/ EnrichNothing \/ EnrichPublish

-----------------------------------------------------------------------------
(* The watcher thread: spawn_mcp_watcher.                                  *)

WatcherIdle ==
  /\ wUnread' = {} /\ wBatch' = {} /\ wArc' = NoArc /\ wIndex' = NoIndex

\* classify_watcher_wait: the pre-Ready poll ends when the build is decided.
WatcherWake ==
  /\ wpc = "wait" /\ tag # "Building"
  /\ wpc' = IF Queryable THEN "install" ELSE "dead"
  /\ UNCHANGED <<wUnread, wBatch, wArc, wIndex>>
  /\ UNCHANGED <<diskVars, cellVars, status, derived, buildVars, callVars>>

\* FileWatcher::new: only now do edits produce events.
InstallWatch ==
  /\ wpc = "install"
  /\ \/ watching' = TRUE /\ wpc' = "collect"
     \/ watching' = FALSE /\ wpc' = "dead"
  /\ UNCHANGED <<disk, form, chan, overflow, unseen, moved, outrun, touched>>
  /\ UNCHANGED <<wUnread, wBatch, wArc, wIndex>>
  /\ UNCHANGED <<cellVars, status, derived, buildVars, callVars>>

\* collect_debounced: drain the channel slice by slice into one de-duplicated
\* batch, until the queue has been quiet or the window is over; without any
\* event it returns after a second.
CollectDebounced ==
  /\ wpc = "collect"
  /\ wBatch' = wBatch \union Queued /\ chan' = << >>
  /\ \/ chan # << >> /\ UNCHANGED wpc
     \/ wpc' = "decide"
  /\ UNCHANGED <<disk, form, watching, overflow, unseen, moved, outrun, touched>>
  /\ UNCHANGED <<wUnread, wArc, wIndex>>
  /\ UNCHANGED <<cellVars, status, derived, buildVars, callVars>>

\* Mutant: the flag is cleared and the batch that did arrive is discarded.
TakeOverflowOnly ==
  /\ wpc = "decide" /\ overflow
  /\ overflow' = FALSE
  /\ wpc' = "collect" /\ WatcherIdle
  /\ UNCHANGED <<disk, form, watching, chan, unseen, moved, outrun, touched>>
  /\ UNCHANGED <<cellVars, status, derived, buildVars, callVars>>

\* take_overflow: dropped events make the batch worthless; withhold the index
\* and rebuild from the disk.
TakeOverflow ==
  /\ wpc = "decide" /\ overflow
  /\ overflow' = FALSE
  /\ Withhold("Building")
  /\ wpc' = "rebuild" /\ wUnread' = Files /\ wBatch' = {} /\ wIndex' = NoIndex
  /\ UNCHANGED <<disk, form, watching, chan, unseen, moved, outrun, touched>>
  /\ UNCHANGED <<wArc, status, derived, buildVars, callVars>>

\* As in the first build, for a file edited since the rebuild began.
RebuildReadFile(f) ==
  /\ wpc = "rebuild" /\ f \in wUnread
  /\ wUnread' = wUnread \ {f}
  /\ \/ wIndex' = [wIndex EXCEPT !.content[f] = ReadOf(f)]
     \/ f \in touched /\ UNCHANGED wIndex
  /\ UNCHANGED <<wpc, wBatch, wArc>>
  /\ UNCHANGED <<diskVars, cellVars, status, derived, buildVars, callVars>>

\* build_index succeeded: conventions are restored or mined inline.
RebuildPublish ==
  /\ wpc = "rebuild" /\ wUnread = {}
  /\ LET c == wIndex.content IN
       \/ /\ DerivedHit(c)
          /\ Publish("Ready", NewArc, Built(c, MinedFrom(derived.graph)))
          /\ UNCHANGED derived
       \/ /\ ~DerivedHit(c)
          /\ Publish("Ready", NewArc, Built(c, MinedFrom(c)))
          /\ derived' = SavedFor(c, c)
  /\ wpc' = "collect" /\ WatcherIdle
  /\ unseen' = {} /\ moved' = moved \intersect touched /\ touched' = {}
  /\ outrun' = {f \in Removed(Queued) : form[f] # "gone"}
  /\ UNCHANGED <<disk, form, watching, chan, overflow, status, buildVars, callVars>>

\* Mutant: a failed rebuild is only logged.
RebuildFailLogged ==
  /\ wpc = "rebuild"
  /\ wpc' = "collect" /\ WatcherIdle /\ touched' = {}
  /\ UNCHANGED <<disk, form, eventVars, cellVars, status, derived, buildVars, callVars>>

RebuildFail ==
  /\ wpc = "rebuild"
  /\ Withhold("Failed")
  /\ wpc' = "collect" /\ WatcherIdle /\ touched' = {}
  /\ UNCHANGED <<disk, form, eventVars, status, derived, buildVars, callVars>>

\* The batch takes its base from the cell; without one it is skipped.
TakeBatchBase ==
  /\ wpc = "decide" /\ ~overflow
  /\ \/ /\ Queryable /\ wBatch # {}
        /\ wpc' = "apply" /\ wArc' = arc /\ wIndex' = index
        /\ UNCHANGED <<wUnread, wBatch>>
     \/ /\ ~(Queryable /\ wBatch # {})
        /\ wpc' = "collect" /\ WatcherIdle
  /\ UNCHANGED <<diskVars, cellVars, status, derived, buildVars, callVars>>

\* apply_incremental_update on a copy with content c: removals first and
\* without a look at the disk, then the written files that can be read; a
\* written file that cannot keeps what the copy has for it.
Read(b) == {f \in Written(b) : form[f] = "text"}
Applied(b, c) ==
  [f \in Files |-> IF f \in Read(b) THEN disk[f]
                   ELSE IF f \in Removed(b) THEN NotIndexed ELSE c[f]]

\* Mutant: the batch keeps the embeddings of its base.
ApplyBatchKeepsEmbeddings ==
  /\ wpc = "apply"
  /\ LET c == Applied(wBatch, wIndex.content)
     IN  wIndex' = [wIndex EXCEPT !.content = c, !.conventions.patterns = c]
  /\ wpc' = "publish" /\ wArc' = NoArc
  /\ UNCHANGED <<wUnread, wBatch>>
  /\ UNCHANGED <<diskVars, cellVars, status, derived, buildVars, callVars>>

\* process_watcher_changes: a clone of the base with the batch applied, its
\* file conventions re-extracted and its embeddings cleared; the base is
\* released when the clone replaces it in the batch-local `shared`.
ApplyBatch ==
  /\ wpc = "apply" /\ Read(wBatch) \union Removed(wBatch) # {}
  /\ LET c == Applied(wBatch, wIndex.content)
     IN  wIndex' = Built(c, [wIndex.conventions EXCEPT !.patterns = c])
  /\ wpc' = "publish" /\ wArc' = NoArc
  /\ UNCHANGED <<wUnread, wBatch>>
  /\ UNCHANGED <<diskVars, cellVars, status, derived, buildVars, callVars>>

\* Its update count is 0: nothing is published.
ApplyNothing ==
  /\ wpc = "apply" /\ Read(wBatch) \union Removed(wBatch) = {}
  /\ wpc' = "collect" /\ WatcherIdle
  /\ UNCHANGED <<diskVars, cellVars, status, derived, buildVars, callVars>>

\* The write back: no compare, whatever the cell holds is replaced.
PublishBatch ==
  /\ wpc = "publish"
  /\ Publish("Ready", NewArc, wIndex)
  /\ wpc' = "collect" /\ WatcherIdle
  /\ UNCHANGED <<diskVars, status, derived, buildVars, callVars>>

\* Nothing catches a panic on this thread: its references are dropped.
WatcherPanic ==
  /\ wpc \in {"rebuild", "apply"}
  /\ wpc' = "dead" /\ WatcherIdle /\ touched' = {}
  /\ UNCHANGED <<disk, form, eventVars, cellVars, status, derived, buildVars, callVars>>

Watcher ==
  \/ WatcherWake \/ InstallWatch \/ CollectDebounced
  \/ TakeOverflow \/ RebuildPublish \/ RebuildFail
  \/ \E f \in Files : RebuildReadFile(f)
  \/ TakeBatchBase \/ ApplyBatch \/ ApplyNothing \/ PublishBatch
  \/ WatcherPanic

-----------------------------------------------------------------------------
(* Tool calls.                                                             *)

\* snapshot_ready_index: clone the Arc under the read lock.
CallBegin(t) ==
  /\ callArc[t] = NoArc /\ Queryable
  /\ callArc' = [callArc EXCEPT ![t] = arc]
  /\ callIndex' = [callIndex EXCEPT ![t] = index]
  /\ UNCHANGED <<diskVars, cellVars, status, derived, buildVars, watchVars>>

\* The handler returns and its snapshot is dropped.
CallEnd(t) ==
  /\ callArc[t] # NoArc
  /\ callArc' = [callArc EXCEPT ![t] = NoArc]
  /\ callIndex' = [callIndex EXCEPT ![t] = NoIndex]
  /\ UNCHANGED <<diskVars, cellVars, status, derived, buildVars, watchVars>>

-----------------------------------------------------------------------------

OnDisk == [f \in Files |-> ReadOf(f)]

\* The derived cache left by earlier runs: none, one for other content, or one
\* for exactly the files on disk.
Init ==
  /\ disk = [f \in Files |-> 1] /\ form \in StartForms
  /\ watching = FALSE /\ chan = << >> /\ overflow = FALSE
  /\ unseen = {} /\ moved = {} /\ outrun = {} /\ touched = {}
  /\ tag = "Building" /\ arc = NoArc /\ index = NoIndex
  /\ served = NoFiles /\ shown = NoFiles
  /\ status = "Fresh"
  /\ derived \in {NoCache, SavedFor(NoContent, NoContent),
                  SavedFor(OnDisk, OnDisk)}
  /\ bpc = "read" /\ bUnread = Files /\ bContent = NoFiles
  /\ bArc = NoArc /\ bIndex = NoIndex /\ bMined = PriorConventions /\ bTries = 0
  /\ wpc = "wait" /\ wUnread = {} /\ wBatch = {} /\ wArc = NoArc /\ wIndex = NoIndex
  /\ callArc = [t \in Calls |-> NoArc] /\ callIndex = [t \in Calls |-> NoIndex]

Next ==
  \/ \E f \in Files : Edit(f)
  \/ Builder
  \/ Watcher
  \/ \E t \in Calls : CallBegin(t) \/ CallEnd(t)

Spec == Init /\ [][Next]_vars

\* Both threads are OS threads that keep running; nothing obliges an editor to
\* edit or a client to call.
FairSpec == Spec /\ WF_vars(Builder) /\ WF_vars(Watcher)

-----------------------------------------------------------------------------
(* Properties.                                                             *)

BuilderPcs == {"read", "takeBase", "mine", "inPlace", "clone", "swap",
               "lastResort", "takeEnrichBase", "enrich", "done"}
WatcherPcs == {"wait", "install", "collect", "decide", "rebuild", "apply",
               "publish", "dead"}

DiskTypeOK ==
  /\ disk \in Content /\ form \in [Files -> Forms] /\ watching \in BOOLEAN
  /\ chan \in Seq(Event) /\ overflow \in BOOLEAN
  /\ unseen \subseteq Files /\ moved \subseteq Files
  /\ outrun \subseteq Files /\ touched \subseteq Files

CellTypeOK ==
  /\ tag \in {"Building", "Ready", "ReadyEnriched", "Failed"}
  /\ arc \in ArcIds \union {NoArc} /\ index \in Index
  /\ served \in Content /\ shown \in Content
  /\ arc # NoArc <=> Queryable
  /\ ~Queryable => index = NoIndex

DerivedTypeOK == derived \in Derived \union {NoCache}

BuildTypeOK ==
  /\ bpc \in BuilderPcs /\ bUnread \subseteq Files /\ bContent \in Content
  /\ bArc \in ArcIds \union {NoArc} /\ bIndex \in Index
  /\ bMined \in Conventions /\ bTries \in 0..Attempts
  /\ status \in {"Fresh", "StalePending"}

WatchTypeOK ==
  /\ wpc \in WatcherPcs /\ wUnread \subseteq Files /\ wBatch \subseteq Event
  /\ wArc \in ArcIds \union {NoArc} /\ wIndex \in Index

CallTypeOK ==
  /\ callArc \in [Calls -> ArcIds \union {NoArc}]
  /\ callIndex \in [Calls -> Index]

\* Every variable keeps its shape, and the cell carries an index exactly in the
\* variants of IndexReadiness that have one.
TypeOK ==
  /\ DiskTypeOK /\ CellTypeOK /\ DerivedTypeOK
  /\ BuildTypeOK /\ WatchTypeOK /\ CallTypeOK

\* Two holders of one allocation see one index: the in-place republish never
\* mutates an index that a tool call, the watcher or the build thread reads.
SharedArcsAgree ==
  /\ bArc # NoArc => /\ bArc = arc => bIndex = index
                     /\ bArc = wArc => bIndex = wIndex
  /\ wArc # NoArc /\ wArc = arc => wIndex = index
  /\ \A t \in Calls : callArc[t] # NoArc =>
       /\ callArc[t] = arc => callIndex[t] = index
       /\ callArc[t] = bArc => callIndex[t] = bIndex
       /\ callArc[t] = wArc => callIndex[t] = wIndex
       /\ \A u \in Calls : callArc[t] = callArc[u] => callIndex[t] = callIndex[u]

\* Embeddings are served only with the content they were computed from, and
\* only ReadyEnriched carries any: a stale similarity signal is never scored.
EmbeddingMatchesIndex ==
  index.embedded # NoContent =>
    /\ tag = "ReadyEnriched"
    /\ index.embedded = index.content

\* While a batch is under way no other thread changes the content it was
\* based on: the watcher's unconditional write differs from the index it
\* replaces in the files of the batch and in no others.
BatchBaseIsCurrent ==
  /\ wpc = "apply" => Queryable /\ wIndex.content = index.content
  /\ wpc = "publish" =>
       /\ Queryable
       /\ \A f \in Files \ (Written(wBatch) \union Removed(wBatch)) :
            wIndex.content[f] = index.content[f]

\* The cell implements the abstract index: what tool calls see of a file never
\* goes back to an older version and is never ahead of the disk, and a file
\* leaves the index only when it was edited since or while an event that
\* reports it removed is still to be applied.
Fresh == INSTANCE FreshIndex
  WITH available <- Queryable, removals <- Removed(Queued \union wBatch)
ImplementsFreshIndex == Fresh!Spec

\* Mined conventions reach the cell however often the compare-and-swap is lost;
\* they are given up only for a cell that answers no call.
MinedAreServed == bpc = "inPlace" ~> (status = "Fresh" \/ ~Queryable)

\* A full index is on its way whenever the cell says `Building`, as long as the
\* thread that is to write it lives.
LeavesBuilding == tag = "Building" ~> (tag # "Building" \/ wpc = "dead")

\* No batch can be served any more: a build failed, or the watch is gone.
Stopped == tag = "Failed" \/ wpc = "dead"

\* The edits whose event can be without effect, and no others: made before
\* the watch, reported as a modification though the file is gone, or queued as
\* a removal that a rebuild of later content overtook.
Excused == unseen \union moved \union outrun

\* When the edits stop, every readable edit that is not excused is served and
\* every deleted file is gone, however the events were batched, dropped by a
\* full channel or raced by a rebuild.  A file that became unreadable may keep
\* its last entry.
WatchedEditsServed ==
  <>[](Stopped \/ (Queryable /\ \A f \in Files \ Excused :
                      form[f] = "unreadable" \/ index.content[f] = ReadOf(f)))

=============================================================================
