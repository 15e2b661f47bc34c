------------------------ MODULE ReadinessCellProofs ------------------------
(***************************************************************************)
(* Proofs about ReadinessCell: its inductive invariant, the safety         *)
(* properties that follow from it, and that the cell implements FreshIndex *)
(* for any set of files, any number of edits and any number of tool calls. *)
(***************************************************************************)
EXTENDS ReadinessCell, TLAPS

-----------------------------------------------------------------------------
(* The inductive invariant.                                                *)

\* Only the application of a batch holds an Arc of the watcher's.
WatcherHoldsBase == wArc # NoArc => wpc = "apply"

\* Edits are noted down for a rebuild only while there is one.
TouchedInRebuild == wpc # "rebuild" => touched = {}

\* The attempts of the republish are counted up to the last resort.
TriesLeft == bTries = Attempts => bpc = "lastResort"

\* Everything a content says of a file was read from the disk: a version of it
\* that is no newer than the last edit, which is text if it is that very one.
FromDisk(c) ==
  \A f \in Files : c[f] # NotIndexed =>
    c[f] <= disk[f] /\ (c[f] = disk[f] => form[f] = "text")

\* What was last made queryable is what is queryable, and the disk had it.
ServedIsIndex ==
  /\ Queryable => served = index.content
  /\ \A f \in Files : served[f] # NotIndexed => served[f] = shown[f]
  /\ FromDisk(shown)

\* c may be shown next: no file goes back to an older version, and one that was
\* there is missing only if it was edited since or `removed` has it.
Follows(c, removed) ==
  \A f \in Files :
    IF c[f] = NotIndexed
    THEN served[f] = NotIndexed \/ served[f] < disk[f] \/ f \in removed
    ELSE shown[f] <= c[f]

\* Until the build is decided nobody else writes the cell.
BuildIsAlone ==
  bpc = "read" =>
    /\ wpc = "wait" /\ tag = "Building"
    /\ served = NoFiles /\ shown = NoFiles
    /\ FromDisk(bContent)

\* A rebuild is alone too.  What it has read is no older than what was shown;
\* what it has not found, or skipped because it was being written to, was
\* edited since.
RebuildIsAlone ==
  wpc = "rebuild" =>
    /\ tag = "Building" /\ bpc # "read"
    /\ FromDisk(wIndex.content)
    /\ \A f \in touched : served[f] < disk[f]
    /\ \A f \in Files :
         IF f \in wUnread THEN wIndex.content[f] = NotIndexed
         ELSE IF wIndex.content[f] = NotIndexed
              THEN served[f] = NotIndexed \/ served[f] < disk[f]
              ELSE shown[f] <= wIndex.content[f]

\* A batch ready to be published came from the disk, misses nothing but what
\* was missing or what the batch removes, and carries no embeddings.
BatchFromDisk ==
  wpc = "publish" =>
    /\ FromDisk(wIndex.content)
    /\ Follows(wIndex.content, Removed(wBatch))
    /\ wIndex.embedded = NoContent

IInv ==
  /\ TypeOK
  /\ WatcherHoldsBase /\ TouchedInRebuild /\ TriesLeft
  /\ ServedIsIndex /\ BuildIsAlone /\ RebuildIsAlone /\ BatchFromDisk
  /\ SharedArcsAgree /\ EmbeddingMatchesIndex /\ BatchBaseIsCurrent

-----------------------------------------------------------------------------
(* Lemmas about the data.                                                  *)

\* Versions and events.
LEMMA VersionTypes ==
  /\ Version \subseteq Nat /\ NotIndexed \in Version /\ 1 \in Version
  /\ 2..MaxEdits + 1 \subseteq Version
  /\ \A f \in Files : WriteOf(f) \in Event /\ RemoveOf(f) \in Event
  /\ \A f, g \in Files : WriteOf(f) # RemoveOf(g) /\ (RemoveOf(f) = RemoveOf(g) => f = g)
BY CellAssumption DEF Version, NotIndexed, Event, WriteOf, RemoveOf

\* Every record the actions build from typed parts is typed.
LEMMA DataTypes ==
  /\ NoFiles \in Content /\ NoIndex \in Index
  /\ NoContent \in ContentOrNone /\ Content \subseteq ContentOrNone
  /\ PriorConventions \in Conventions
  /\ \A c \in ContentOrNone : MinedFrom(c) \in Conventions
  /\ \A v \in Conventions, c \in ContentOrNone : [v EXCEPT !.patterns = c] \in Conventions
  /\ \A c, d \in ContentOrNone : SavedFor(c, d) \in Derived
  /\ \A c \in Content, v \in Conventions : Built(c, v) \in Index
<1> USE CellAssumption
<1>1. NoFiles \in Content
  BY VersionTypes DEF NoFiles, Content
<1>2. PriorConventions \in Conventions /\ NoContent \in ContentOrNone
  BY DEF PriorConventions, Conventions, ContentOrNone
<1>3. NoIndex \in Index
  BY <1>1, <1>2 DEF NoIndex, Index
<1>4. \A v \in Conventions, c \in ContentOrNone : [v EXCEPT !.patterns = c] \in Conventions
  BY DEF Conventions
<1> QED
  BY <1>1, <1>2, <1>3, <1>4
     DEF Conventions, ContentOrNone, Derived, Index, MinedFrom, SavedFor, Built

\* The parts of a typed index, and the updates the actions make of one.
LEMMA IndexParts ==
  \A ix \in Index :
    /\ ix.content \in Content /\ ix.content \in ContentOrNone
    /\ ix.conventions \in Conventions /\ ix.embedded \in ContentOrNone
    /\ [ix EXCEPT !.embedded = ix.content] \in Index
    /\ \A v \in Conventions : [ix EXCEPT !.conventions = v] \in Index
    /\ \A f \in Files : \A n \in Version : [ix EXCEPT !.content[f] = n] \in Index
<1>1. SUFFICES ASSUME NEW ix \in Index
      PROVE  /\ ix.content \in Content /\ ix.content \in ContentOrNone
             /\ ix.conventions \in Conventions /\ ix.embedded \in ContentOrNone
             /\ [ix EXCEPT !.embedded = ix.content] \in Index
             /\ \A v \in Conventions : [ix EXCEPT !.conventions = v] \in Index
             /\ \A f \in Files : \A n \in Version :
                  [ix EXCEPT !.content[f] = n] \in Index
  OBVIOUS
<1>2. /\ ix.content \in Content /\ ix.content \in ContentOrNone
      /\ ix.conventions \in Conventions /\ ix.embedded \in ContentOrNone
  BY DEF Index, ContentOrNone
<1>3. [ix EXCEPT !.embedded = ix.content] \in Index
  BY <1>2 DEF Index
<1>4. \A v \in Conventions : [ix EXCEPT !.conventions = v] \in Index
  BY <1>2 DEF Index
<1>5. \A f \in Files : \A n \in Version : [ix EXCEPT !.content[f] = n] \in Index
  BY <1>2 DEF Index, Content
<1> QED
  BY <1>2, <1>3, <1>4, <1>5

\* Arc::new returns an allocation that nobody holds.
LEMMA FreshArc ==
  ASSUME TypeOK
  PROVE  NewArc \in ArcIds /\ NewArc # NoArc /\ NewArc # arc /\ NewArc \notin OtherRefs
<1>1. FreeArcs = ArcIds \ ({arc, bArc, wArc} \union {callArc[t] : t \in Calls})
  BY DEF FreeArcs, OtherRefs
<1>2. FreeArcs # {}
  BY <1>1, EnoughArcs DEF TypeOK, CellTypeOK, BuildTypeOK, WatchTypeOK, CallTypeOK
<1>3. \E a \in ArcIds : a \in FreeArcs
  BY <1>2 DEF FreeArcs
<1>4. NewArc \in ArcIds /\ NewArc \in FreeArcs
  BY <1>3 DEF NewArc
<1> QED
  BY <1>4, NoneAssumption DEF FreeArcs

-----------------------------------------------------------------------------
(* Types.                                                                  *)

\* An edit is a new version of a file, and one event of that file.
LEMMA EditVersion ==
  ASSUME TypeOK, NEW f \in Files, Edit(f)
  PROVE  \E n \in 2..MaxEdits + 1, fm \in Forms, e \in {WriteOf(f), RemoveOf(f)} :
           /\ disk[f] < n /\ disk' = [disk EXCEPT ![f] = n]
           /\ form' = [form EXCEPT ![f] = fm]
           /\ touched' = IF wpc = "rebuild" THEN touched \union {f} ELSE touched
           /\ Report(e)
           /\ moved' \in {moved \ {f}, moved \union {f}}
           /\ UNCHANGED watching
<1>1. disk[f] \in 1..MaxEdits /\ disk' = [disk EXCEPT ![f] = disk[f] + 1]
  BY DEF Edit, Write, Delete, MoveAway, Edited
<1>2. PICK n \in 2..MaxEdits + 1 : n = disk[f] + 1 /\ disk[f] < n
  BY <1>1, CellAssumption
<1>3. \E fm \in Forms, e \in {WriteOf(f), RemoveOf(f)} :
        /\ form' = [form EXCEPT ![f] = fm] /\ Report(e)
        /\ touched' = IF wpc = "rebuild" THEN touched \union {f} ELSE touched
        /\ moved' \in {moved \ {f}, moved \union {f}}
        /\ UNCHANGED watching
  BY DEF Edit, Write, Delete, MoveAway, Edited, Forms
<1> QED
  BY <1>1, <1>2, <1>3

\* A part of the state that a step leaves alone keeps its types.
LEMMA TypesKept ==
  ASSUME TypeOK
  PROVE  /\ UNCHANGED diskVars => DiskTypeOK'
         /\ UNCHANGED cellVars => CellTypeOK'
         /\ UNCHANGED derived => DerivedTypeOK'
         /\ UNCHANGED <<buildVars, status>> => BuildTypeOK'
         /\ UNCHANGED watchVars => WatchTypeOK'
         /\ UNCHANGED callVars => CallTypeOK'
BY DEF TypeOK, DiskTypeOK, CellTypeOK, DerivedTypeOK, BuildTypeOK, WatchTypeOK,
       CallTypeOK, Queryable, diskVars, eventVars, cellVars, buildVars, watchVars, callVars

\* Reading a file gives a version of it or says that it is not indexed.
LEMMA ReadTypes ==
  ASSUME TypeOK
  PROVE  /\ \A f \in Files : ReadOf(f) \in Version
         /\ \A c \in Content : ShownAfter(c) \in Content
         /\ \A b, c : c \in Content => Applied(b, c) \in Content
BY VersionTypes DEF ReadOf, ShownAfter, Applied, Content, TypeOK, DiskTypeOK, CellTypeOK

\* The three ways to write the cell keep its types.
LEMMA CellWrites ==
  ASSUME TypeOK
  PROVE  /\ \A v \in {"Ready", "ReadyEnriched"}, ix \in Index :
              Publish(v, NewArc, ix) => CellTypeOK'
         /\ \A v \in {"Building", "Failed"} : Withhold(v) => CellTypeOK'
         /\ \A ix \in Index :
              Queryable => /\ Publish(tag, arc, ix) => CellTypeOK'
                           /\ Publish(tag, NewArc, ix) => CellTypeOK'
BY FreshArc, DataTypes, IndexParts, ReadTypes
   DEF TypeOK, CellTypeOK, Publish, Withhold, Queryable

\* Every action keeps the types: one step per action, one per part it writes.
LEMMA TypeStep ==
  ASSUME TypeOK, TriesLeft, [Next]_vars
  PROVE  TypeOK'
<1> USE CellAssumption
<1>1. ASSUME NEW f \in Files, Edit(f)
      PROVE  TypeOK'
  <2>1. PICK n \in 2..MaxEdits + 1, fm \in Forms, e \in {WriteOf(f), RemoveOf(f)} :
          /\ disk' = [disk EXCEPT ![f] = n] /\ form' = [form EXCEPT ![f] = fm]
          /\ touched' = IF wpc = "rebuild" THEN touched \union {f} ELSE touched
          /\ Report(e)
          /\ moved' \in {moved \ {f}, moved \union {f}}
          /\ UNCHANGED watching
    BY <1>1, EditVersion
  <2>2. e \in Event /\ e.path \in Files
    BY VersionTypes DEF Event, WriteOf, RemoveOf
  <2>3. disk' \in Content /\ form' \in [Files -> Forms]
    BY <2>1, VersionTypes DEF TypeOK, DiskTypeOK, Content
  <2>4. moved' \subseteq Files /\ touched' \subseteq Files
    BY <2>1 DEF TypeOK, DiskTypeOK
  <2>5. chan' \in Seq(Event) /\ unseen' \subseteq Files /\ outrun' \subseteq Files
    <3>1. chan \in Seq(Event) /\ unseen \subseteq Files /\ outrun \subseteq Files
      BY DEF TypeOK, DiskTypeOK
    <3>2. \/ chan' = chan \/ chan' = Append(chan, e)
      BY <2>1 DEF Report
    <3>3. chan' \in Seq(Event)
      BY <2>2, <3>1, <3>2
    <3>4. unseen' \subseteq unseen \union {e.path} /\ outrun' \subseteq outrun
      BY <2>1 DEF Report
    <3> QED BY <2>2, <3>1, <3>3, <3>4
  <2>6. watching' \in BOOLEAN /\ overflow' \in BOOLEAN
    BY <2>1, Zenon DEF Report, TypeOK, DiskTypeOK
  <2>7. DiskTypeOK'
    BY <2>3, <2>4, <2>5, <2>6 DEF DiskTypeOK
  <2>8. UNCHANGED <<cellVars, status, derived, buildVars, watchVars, callVars>>
    BY <1>1 DEF Edit, Write, Delete, MoveAway, Edited
  <2> QED
    BY <2>7, <2>8, TypesKept DEF TypeOK
<1>2. ASSUME NEW f \in Files, BuildReadFile(f)
      PROVE  TypeOK'
  <2>1. BuildTypeOK'
    BY <1>2, DataTypes, IndexParts, ReadTypes
       DEF BuildReadFile, TypeOK, BuildTypeOK, CellTypeOK, BuilderPcs, DiskTypeOK, Content
  <2> QED
    BY <1>2, <2>1, TypesKept DEF BuildReadFile, TypeOK
<1>3. ASSUME BuildPublish
      PROVE  TypeOK'
  <2>1. CellTypeOK'
    BY <1>3, CellWrites, DataTypes, IndexParts, TypesKept
       DEF BuildPublish, TypeOK, cellVars, DerivedHit, DerivedTypeOK, Derived,
           BuildTypeOK, WatchTypeOK, CellTypeOK
  <2>2. DerivedTypeOK'
    BY <1>3, DataTypes, IndexParts
       DEF BuildPublish, TypeOK, DerivedTypeOK, BuildTypeOK, WatchTypeOK
  <2>3. BuildTypeOK'
    BY <1>3, DataTypes, IndexParts
       DEF BuildPublish, TypeOK, BuildTypeOK, CellTypeOK, BuilderPcs
  <2> QED
    BY <1>3, <2>1, <2>2, <2>3, TypesKept DEF BuildPublish, TypeOK
<1>4. ASSUME BuildFail
      PROVE  TypeOK'
  <2>1. CellTypeOK'
    BY <1>4, CellWrites, DataTypes, IndexParts, TypesKept
       DEF BuildFail, TypeOK, cellVars, BuildTypeOK, WatchTypeOK, CellTypeOK
  <2>2. BuildTypeOK'
    BY <1>4, DataTypes, IndexParts
       DEF BuildFail, TypeOK, BuildTypeOK, CellTypeOK, BuilderPcs
  <2> QED
    BY <1>4, <2>1, <2>2, TypesKept DEF BuildFail, TypeOK
<1>5. ASSUME TakeMiningBase
      PROVE  TypeOK'
  <2>1. BuildTypeOK'
    BY <1>5, DataTypes, IndexParts
       DEF TakeMiningBase, TypeOK, BuildTypeOK, CellTypeOK, BuilderPcs
  <2> QED
    BY <1>5, <2>1, TypesKept DEF TakeMiningBase, TypeOK
<1>6. ASSUME SkipMining
      PROVE  TypeOK'
  <2>1. BuildTypeOK'
    BY <1>6, DataTypes, IndexParts
       DEF SkipMining, TypeOK, BuildTypeOK, CellTypeOK, BuilderPcs
  <2> QED
    BY <1>6, <2>1, TypesKept DEF SkipMining, TypeOK
<1>7. ASSUME Mine
      PROVE  TypeOK'
  <2>1. DerivedTypeOK'
    BY <1>7, DataTypes, IndexParts
       DEF Mine, TypeOK, DerivedTypeOK, BuildTypeOK, WatchTypeOK
  <2>2. BuildTypeOK'
    BY <1>7, DataTypes, IndexParts
       DEF Mine, TypeOK, BuildTypeOK, CellTypeOK, BuilderPcs
  <2> QED
    BY <1>7, <2>1, <2>2, TypesKept DEF Mine, TypeOK
<1>8. ASSUME MinePanic
      PROVE  TypeOK'
  <2>1. BuildTypeOK'
    BY <1>8, DataTypes, IndexParts
       DEF MinePanic, TypeOK, BuildTypeOK, CellTypeOK, BuilderPcs
  <2> QED
    BY <1>8, <2>1, TypesKept DEF MinePanic, TypeOK
<1>9. ASSUME RepublishInPlace
      PROVE  TypeOK'
  <2>1. CellTypeOK'
    BY <1>9, CellWrites, DataTypes, IndexParts, TypesKept
       DEF RepublishInPlace, TypeOK, cellVars, BuildTypeOK, WatchTypeOK, CellTypeOK,
           WithConventions
  <2>2. BuildTypeOK'
    BY <1>9, DataTypes, IndexParts
       DEF RepublishInPlace, TypeOK, BuildTypeOK, CellTypeOK, BuilderPcs,
           ConventionsPublished, ConventionsDropped, Attempts
  <2> QED
    BY <1>9, <2>1, <2>2, TypesKept DEF RepublishInPlace, TypeOK
<1>10. ASSUME RepublishClone
      PROVE  TypeOK'
  <2>1. BuildTypeOK'
    BY <1>10, DataTypes, IndexParts
       DEF RepublishClone, TypeOK, BuildTypeOK, CellTypeOK, BuilderPcs,
           ConventionsPublished, ConventionsDropped, Attempts
  <2> QED
    BY <1>10, <2>1, TypesKept DEF RepublishClone, TypeOK
<1>11. ASSUME RepublishSwap
      PROVE  TypeOK'
  <2>1. CellTypeOK'
    BY <1>11, CellWrites, DataTypes, IndexParts, TypesKept
       DEF RepublishSwap, TypeOK, cellVars, BuildTypeOK, WatchTypeOK, CellTypeOK,
           WithConventions
  <2>2. BuildTypeOK'
    BY <1>11, DataTypes, IndexParts
       DEF RepublishSwap, TypeOK, BuildTypeOK, CellTypeOK, BuilderPcs,
           ConventionsPublished, ConventionsDropped, TriesLeft, Attempts
  <2> QED
    BY <1>11, <2>1, <2>2, TypesKept DEF RepublishSwap, TypeOK
<1>12. ASSUME RepublishLastResort
      PROVE  TypeOK'
  <2>1. CellTypeOK'
    BY <1>12, CellWrites, DataTypes, IndexParts, TypesKept
       DEF RepublishLastResort, TypeOK, cellVars, BuildTypeOK, WatchTypeOK, CellTypeOK,
           WithConventions
  <2>2. BuildTypeOK'
    BY <1>12, DataTypes, IndexParts
       DEF RepublishLastResort, TypeOK, BuildTypeOK, CellTypeOK, BuilderPcs,
           ConventionsPublished, ConventionsDropped, Attempts
  <2> QED
    BY <1>12, <2>1, <2>2, TypesKept DEF RepublishLastResort, TypeOK
<1>13. ASSUME TakeEnrichBase
      PROVE  TypeOK'
  <2>1. BuildTypeOK'
    BY <1>13, DataTypes, IndexParts
       DEF TakeEnrichBase, TypeOK, BuildTypeOK, CellTypeOK, BuilderPcs
  <2> QED
    BY <1>13, <2>1, TypesKept DEF TakeEnrichBase, TypeOK
<1>14. ASSUME EnrichNothing
      PROVE  TypeOK'
  <2>1. BuildTypeOK'
    BY <1>14, DataTypes, IndexParts
       DEF EnrichNothing, TypeOK, BuildTypeOK, CellTypeOK, BuilderPcs
  <2> QED
    BY <1>14, <2>1, TypesKept DEF EnrichNothing, TypeOK
<1>15. ASSUME EnrichPublish
      PROVE  TypeOK'
  <2>1. CellTypeOK'
    BY <1>15, CellWrites, DataTypes, IndexParts, TypesKept
       DEF EnrichPublish, TypeOK, cellVars, BuildTypeOK, WatchTypeOK, CellTypeOK
  <2>2. BuildTypeOK'
    BY <1>15, DataTypes, IndexParts
       DEF EnrichPublish, TypeOK, BuildTypeOK, CellTypeOK, BuilderPcs
  <2> QED
    BY <1>15, <2>1, <2>2, TypesKept DEF EnrichPublish, TypeOK
<1>16. ASSUME WatcherWake
      PROVE  TypeOK'
  <2>1. WatchTypeOK'
    BY <1>16, DataTypes, IndexParts
       DEF WatcherWake, TypeOK, WatchTypeOK, WatcherPcs
  <2> QED
    BY <1>16, <2>1, TypesKept DEF WatcherWake, TypeOK
<1>17. ASSUME InstallWatch
      PROVE  TypeOK'
  <2>1. DiskTypeOK'
    BY <1>17
       DEF InstallWatch, TypeOK, DiskTypeOK
  <2>2. WatchTypeOK'
    BY <1>17, DataTypes, IndexParts
       DEF InstallWatch, TypeOK, WatchTypeOK, WatcherPcs
  <2> QED
    BY <1>17, <2>1, <2>2, TypesKept DEF InstallWatch, TypeOK
<1>18. ASSUME CollectDebounced
      PROVE  TypeOK'
  <2>1. DiskTypeOK'
    BY <1>18
       DEF CollectDebounced, TypeOK, DiskTypeOK
  <2>2. WatchTypeOK'
    BY <1>18, DataTypes, IndexParts
       DEF CollectDebounced, TypeOK, WatchTypeOK, WatcherPcs, DiskTypeOK, Queued
  <2> QED
    BY <1>18, <2>1, <2>2, TypesKept DEF CollectDebounced, TypeOK
<1>19. ASSUME TakeOverflow
      PROVE  TypeOK'
  <2>1. DiskTypeOK'
    BY <1>19
       DEF TakeOverflow, TypeOK, DiskTypeOK
  <2>2. CellTypeOK'
    BY <1>19, CellWrites, DataTypes, IndexParts, TypesKept
       DEF TakeOverflow, TypeOK, cellVars, BuildTypeOK, WatchTypeOK, CellTypeOK
  <2>3. WatchTypeOK'
    BY <1>19, DataTypes, IndexParts
       DEF TakeOverflow, TypeOK, WatchTypeOK, WatcherPcs
  <2> QED
    BY <1>19, <2>1, <2>2, <2>3, TypesKept DEF TakeOverflow, TypeOK
<1>20. ASSUME NEW f \in Files, RebuildReadFile(f)
      PROVE  TypeOK'
  <2>1. WatchTypeOK'
    <3>1. ReadOf(f) \in Version
      BY ReadTypes
    <3>2. wIndex' \in Index
      <4>1. CASE wIndex' = [wIndex EXCEPT !.content[f] = ReadOf(f)]
        BY <3>1, <4>1, IndexParts DEF TypeOK, WatchTypeOK
      <4>2. CASE UNCHANGED wIndex
        BY <4>2 DEF TypeOK, WatchTypeOK
      <4> QED
        BY <1>20, <4>1, <4>2 DEF RebuildReadFile
    <3> QED
      BY <1>20, <3>2 DEF RebuildReadFile, TypeOK, WatchTypeOK
  <2> QED
    BY <1>20, <2>1, TypesKept DEF RebuildReadFile, TypeOK
<1>21. ASSUME RebuildPublish
      PROVE  TypeOK'
  <2>1. CellTypeOK'
    BY <1>21, CellWrites, DataTypes, IndexParts, TypesKept
       DEF RebuildPublish, TypeOK, cellVars, DerivedHit, DerivedTypeOK, Derived,
           BuildTypeOK, WatchTypeOK, CellTypeOK
  <2>2. DerivedTypeOK'
    BY <1>21, DataTypes, IndexParts
       DEF RebuildPublish, TypeOK, DerivedTypeOK, BuildTypeOK, WatchTypeOK
  <2>3. WatchTypeOK'
    BY <1>21, DataTypes, IndexParts
       DEF RebuildPublish, TypeOK, WatchTypeOK, WatcherPcs, WatcherIdle
  <2>4. DiskTypeOK'
    BY <1>21 DEF RebuildPublish, TypeOK, DiskTypeOK, Removed
  <2> QED
    BY <1>21, <2>1, <2>2, <2>3, <2>4, TypesKept DEF RebuildPublish, TypeOK
<1>22. ASSUME RebuildFail
      PROVE  TypeOK'
  <2>1. CellTypeOK'
    BY <1>22, CellWrites, DataTypes, IndexParts, TypesKept
       DEF RebuildFail, TypeOK, cellVars, BuildTypeOK, WatchTypeOK, CellTypeOK
  <2>2. WatchTypeOK'
    BY <1>22, DataTypes, IndexParts
       DEF RebuildFail, TypeOK, WatchTypeOK, WatcherPcs, WatcherIdle
  <2>3. DiskTypeOK'
    BY <1>22 DEF RebuildFail, TypeOK, DiskTypeOK, eventVars
  <2> QED
    BY <1>22, <2>1, <2>2, <2>3, TypesKept DEF RebuildFail, TypeOK
<1>23. ASSUME TakeBatchBase
      PROVE  TypeOK'
  <2>1. WatchTypeOK'
    BY <1>23, DataTypes, IndexParts
       DEF TakeBatchBase, TypeOK, WatchTypeOK, WatcherPcs, CellTypeOK, WatcherIdle
  <2> QED
    BY <1>23, <2>1, TypesKept DEF TakeBatchBase, TypeOK
<1>24. ASSUME ApplyBatch
      PROVE  TypeOK'
  <2> DEFINE c == Applied(wBatch, wIndex.content)
  <2>1. c \in Content /\ c \in ContentOrNone
    BY IndexParts, ReadTypes DEF TypeOK, WatchTypeOK, ContentOrNone
  <2>2. [wIndex.conventions EXCEPT !.patterns = c] \in Conventions
    BY <2>1, DataTypes, IndexParts DEF TypeOK, WatchTypeOK
  <2>3. Built(c, [wIndex.conventions EXCEPT !.patterns = c]) \in Index
    BY <2>1, <2>2, DataTypes
  <2>4. WatchTypeOK'
    BY <1>24, <2>3 DEF ApplyBatch, TypeOK, WatchTypeOK, WatcherPcs
  <2> QED
    BY <1>24, <2>4, TypesKept DEF ApplyBatch, TypeOK
<1>25. ASSUME PublishBatch
      PROVE  TypeOK'
  <2>1. CellTypeOK'
    BY <1>25, CellWrites, DataTypes, IndexParts, TypesKept
       DEF PublishBatch, TypeOK, cellVars, BuildTypeOK, WatchTypeOK, CellTypeOK
  <2>2. WatchTypeOK'
    BY <1>25, DataTypes, IndexParts
       DEF PublishBatch, TypeOK, WatchTypeOK, WatcherPcs, WatcherIdle
  <2> QED
    BY <1>25, <2>1, <2>2, TypesKept DEF PublishBatch, TypeOK
<1>26. ASSUME WatcherPanic
      PROVE  TypeOK'
  <2>1. WatchTypeOK'
    BY <1>26, DataTypes, IndexParts
       DEF WatcherPanic, TypeOK, WatchTypeOK, WatcherPcs, WatcherIdle
  <2>2. DiskTypeOK'
    BY <1>26 DEF WatcherPanic, TypeOK, DiskTypeOK, eventVars
  <2> QED
    BY <1>26, <2>1, <2>2, TypesKept DEF WatcherPanic, TypeOK
<1>27. ASSUME NEW t \in Calls, CallBegin(t)
      PROVE  TypeOK'
  <2>1. CallTypeOK'
    BY <1>27, DataTypes
       DEF CallBegin, TypeOK, CallTypeOK, CellTypeOK
  <2> QED
    BY <1>27, <2>1, TypesKept DEF CallBegin, TypeOK
<1>28. ASSUME NEW t \in Calls, CallEnd(t)
      PROVE  TypeOK'
  <2>1. CallTypeOK'
    BY <1>28, DataTypes
       DEF CallEnd, TypeOK, CallTypeOK, CellTypeOK
  <2> QED
    BY <1>28, <2>1, TypesKept DEF CallEnd, TypeOK
<1>29. ASSUME ApplyNothing
      PROVE  TypeOK'
  <2>1. WatchTypeOK'
    BY <1>29, DataTypes, IndexParts
       DEF ApplyNothing, TypeOK, WatchTypeOK, WatcherPcs, WatcherIdle
  <2> QED
    BY <1>29, <2>1, TypesKept DEF ApplyNothing, TypeOK
<1>30. CASE UNCHANGED vars
  BY <1>30, TypesKept DEF vars, TypeOK
<1> QED
  BY <1>1, <1>2, <1>3, <1>4, <1>5, <1>6, <1>7, <1>8, <1>9, <1>10, <1>11, <1>12,
     <1>13, <1>14, <1>15, <1>16, <1>17, <1>18, <1>19, <1>20, <1>21, <1>22,
     <1>23, <1>24, <1>25, <1>26, <1>27, <1>28, <1>29, <1>30
     DEF Next, Builder, Watcher

-----------------------------------------------------------------------------
(* What each thread leaves alone.                                          *)

LEMMA EditFrame ==
  ASSUME NEW f \in Files, Edit(f)
  PROVE  UNCHANGED <<cellVars, status, derived, buildVars, watchVars, callVars>>
BY DEF Edit, Write, Delete, MoveAway, Edited

LEMMA BuilderFrame ==
  ASSUME Builder
  PROVE  UNCHANGED <<diskVars, watchVars, callVars>>
BY DEF Builder, BuildReadFile, BuildPublish, BuildFail, TakeMiningBase, SkipMining,
       Mine, MinePanic, RepublishInPlace, RepublishClone, RepublishSwap,
       RepublishLastResort, TakeEnrichBase, EnrichNothing, EnrichPublish

LEMMA WatcherFrame ==
  ASSUME Watcher
  PROVE  UNCHANGED <<disk, form, status, buildVars, callVars>>
BY DEF Watcher, WatcherWake, InstallWatch, CollectDebounced, TakeOverflow,
       RebuildReadFile, RebuildPublish, RebuildFail, TakeBatchBase, ApplyBatch, ApplyNothing,
       PublishBatch, WatcherPanic, diskVars

LEMMA CallFrame ==
  ASSUME NEW t \in Calls, CallBegin(t) \/ CallEnd(t)
  PROVE  UNCHANGED <<diskVars, cellVars, status, derived, buildVars, watchVars>>
BY DEF CallBegin, CallEnd

-----------------------------------------------------------------------------
(* The cell's content.                                                     *)

\* What was read from the disk was read from it after an edit, too, and the
\* edited file is newer than anything that was shown of it.
LEMMA DiskGrows ==
  ASSUME TypeOK, NEW f \in Files, Edit(f)
  PROVE  /\ \A c \in Content : FromDisk(c) => FromDisk(c)'
         /\ \A g \in Files, n \in Version : n < disk[g] => n < disk'[g]
         /\ \A n \in Version : n <= disk[f] => n < disk'[f]
         /\ touched' \subseteq touched \union {f}
<1>1. PICK n \in 2..MaxEdits + 1, fm \in Forms :
        /\ disk[f] < n /\ disk' = [disk EXCEPT ![f] = n]
        /\ form' = [form EXCEPT ![f] = fm]
        /\ touched' = IF wpc = "rebuild" THEN touched \union {f} ELSE touched
  BY EditVersion
<1>2. /\ disk \in [Files -> Nat] /\ form \in [Files -> Forms]
      /\ n \in Nat /\ Version \subseteq Nat
  BY VersionTypes DEF TypeOK, DiskTypeOK, Content
<1>3. ASSUME NEW c \in Content, FromDisk(c), NEW g \in Files, c[g] # NotIndexed
      PROVE  c[g] <= disk'[g] /\ (c[g] = disk'[g] => form'[g] = "text")
  <2>1. c[g] \in Nat /\ c[g] <= disk[g] /\ (c[g] = disk[g] => form[g] = "text")
    BY <1>2, <1>3 DEF FromDisk, Content
  <2>2. CASE g = f
    BY <1>1, <1>2, <2>1, <2>2
  <2>3. CASE g # f
    BY <1>1, <1>2, <2>1, <2>3
  <2> QED
    BY <2>2, <2>3
<1>4. \A c \in Content : FromDisk(c) => FromDisk(c)'
  BY <1>3 DEF FromDisk
<1> QED
  BY <1>1, <1>2, <1>4

\* What a read finds is from the disk and is no older than what came from it.
LEMMA ReadFromDisk ==
  ASSUME TypeOK, NEW f \in Files
  PROVE  /\ ReadOf(f) # NotIndexed => ReadOf(f) = disk[f] /\ form[f] = "text"
         /\ ReadOf(f) = NotIndexed => disk[f] = 0 \/ form[f] # "text"
         /\ disk[f] \in Nat
BY VersionTypes DEF ReadOf, NotIndexed, TypeOK, DiskTypeOK, Content

\* Once the first index is out, the build thread republishes the content the cell
\* has: an in-place write by construction, a swap because it compared the Arc.
LEMMA BuilderRepublishes ==
  ASSUME IInv, Builder, bpc # "read"
  PROVE  \/ UNCHANGED cellVars
         \/ /\ Queryable /\ Queryable'
            /\ index'.content = index.content
            /\ served' = index.content
            /\ shown' = shown
<1> USE DEF IInv
<1>0. Queryable => ShownAfter(index.content) = shown
  BY DEF ServedIsIndex, ShownAfter, TypeOK, CellTypeOK, Content
<1>1. CASE TakeMiningBase \/ SkipMining \/ Mine \/ MinePanic \/ TakeEnrichBase \/ EnrichNothing
  BY <1>1 DEF TakeMiningBase, SkipMining, Mine, MinePanic, TakeEnrichBase, EnrichNothing
<1>2. CASE RepublishInPlace \/ RepublishLastResort
  BY <1>0, <1>2, IndexParts
     DEF RepublishInPlace, RepublishLastResort, Publish, WithConventions, Queryable,
         TypeOK, CellTypeOK, Index
<1>3. CASE RepublishSwap
  BY <1>0, <1>3 DEF RepublishSwap, Publish, WithConventions, Queryable, SharedArcsAgree,
              TypeOK, CellTypeOK, BuildTypeOK, Index
<1>4. CASE RepublishClone
  BY <1>4 DEF RepublishClone
<1>5. CASE EnrichPublish
  BY <1>0, <1>5 DEF EnrichPublish, Publish, Queryable, SharedArcsAgree, TypeOK, CellTypeOK,
              BuildTypeOK, Index
<1> QED
  BY <1>1, <1>2, <1>3, <1>4, <1>5 DEF Builder, BuildReadFile, BuildPublish, BuildFail

\* The versions on disk, served and shown, and their order.
LEMMA ServedVersions ==
  ASSUME TypeOK, ServedIsIndex, NEW f \in Files
  PROVE  /\ disk[f] \in Version /\ served[f] \in Version /\ shown[f] \in Version
         /\ disk[f] \in Nat /\ served[f] \in Nat /\ shown[f] \in Nat
         /\ served[f] # NotIndexed => served[f] = shown[f]
         /\ shown[f] <= disk[f] /\ served[f] <= disk[f]
<1>1. /\ disk[f] \in Version /\ served[f] \in Version /\ shown[f] \in Version
      /\ Version \subseteq Nat
  BY VersionTypes DEF TypeOK, DiskTypeOK, CellTypeOK, Content
<1>2. disk[f] \in Nat /\ served[f] \in Nat /\ shown[f] \in Nat
  BY <1>1
<1>3. served[f] # NotIndexed => served[f] = shown[f]
  BY DEF ServedIsIndex
<1>4. shown[f] = NotIndexed \/ shown[f] <= disk[f]
  BY DEF ServedIsIndex, FromDisk
<1> QED
  BY <1>1, <1>2, <1>3, <1>4 DEF NotIndexed

\* Removals that are reported and still to be applied.
Removals == Removed(Queued \union wBatch)

\* Every step leaves the cell alone, withholds its index, or shows an index that
\* follows the last one and comes from the disk.
LEMMA CellStep ==
  ASSUME IInv, [Next]_vars
  PROVE  \/ UNCHANGED cellVars
         \/ UNCHANGED <<disk, form, served, shown>> /\ ~Queryable'
         \/ /\ UNCHANGED <<disk, form>> /\ Queryable'
            /\ served' = index'.content /\ shown' = ShownAfter(served')
            /\ served' \in Content
            /\ Follows(served', Removals) /\ FromDisk(served')
<1> USE DEF IInv
<1>1. CASE \E f \in Files : Edit(f)
  BY <1>1, EditFrame
<1>2. CASE Builder
  <2>1. CASE BuildPublish
    <3>1. Publish("Ready", NewArc, index') /\ index'.content = bContent
      BY <2>1 DEF BuildPublish, Publish, Built
    <3>2. Follows(bContent, Removals) /\ FromDisk(bContent) /\ bContent \in Content
      <4>1. /\ bContent \in Content /\ FromDisk(bContent)
            /\ served = NoFiles /\ shown = NoFiles
        BY <2>1 DEF BuildPublish, BuildIsAlone, TypeOK, BuildTypeOK
      <4>2. \A f \in Files : /\ served[f] = NotIndexed /\ shown[f] = 0
                             /\ bContent[f] \in Nat
        BY <4>1, VersionTypes DEF NoFiles, NotIndexed, Content
      <4> QED
        BY <4>1, <4>2 DEF Follows
    <3> QED
      BY <1>2, <3>1, <3>2, BuilderFrame DEF Publish, Queryable, diskVars
  <2>2. CASE BuildFail \/ \E f \in Files : BuildReadFile(f)
    BY <1>2, <2>2, BuilderFrame DEF BuildFail, BuildReadFile, Withhold, Queryable, diskVars
  <2>3. CASE bpc # "read"
    <3>1. Queryable => /\ ShownAfter(served) = shown /\ served \in Content
                       /\ Follows(served, Removals) /\ FromDisk(served)
      <4>1. served \in Content /\ shown \in Content
        BY DEF TypeOK, CellTypeOK
      <4>2. ShownAfter(served) = shown
        BY <4>1 DEF ShownAfter, ServedIsIndex, Content
      <4>3. Follows(served, Removals)
        BY ServedVersions DEF Follows
      <4>4. FromDisk(served)
        BY DEF ServedIsIndex, FromDisk
      <4> QED
        BY <4>1, <4>2, <4>3, <4>4
    <3> QED
      BY <1>2, <2>3, <3>1, BuilderRepublishes, BuilderFrame DEF ServedIsIndex, diskVars
  <2> QED
    BY <1>2, <2>1, <2>2, <2>3
       DEF Builder, TakeMiningBase, SkipMining, Mine, MinePanic, RepublishInPlace,
           RepublishClone, RepublishSwap, RepublishLastResort, TakeEnrichBase,
           EnrichNothing, EnrichPublish
<1>3. CASE Watcher
  <2>1. CASE TakeOverflow \/ RebuildFail
    BY <1>3, <2>1, WatcherFrame DEF TakeOverflow, RebuildFail, Withhold, Queryable
  <2>2. CASE RebuildPublish
    <3>1. Publish("Ready", NewArc, index') /\ index'.content = wIndex.content
      BY <2>2 DEF RebuildPublish, Publish, Built
    <3>2. Follows(wIndex.content, Removals) /\ FromDisk(wIndex.content)
      BY <2>2 DEF RebuildPublish, RebuildIsAlone, Follows
    <3>3. wIndex.content \in Content
      BY IndexParts DEF TypeOK, WatchTypeOK
    <3> QED
      BY <1>3, <3>1, <3>2, <3>3, WatcherFrame DEF Publish, Queryable
  <2>3. CASE PublishBatch
    <3>1. Publish("Ready", NewArc, wIndex)
      BY <2>3 DEF PublishBatch
    <3>2. Follows(wIndex.content, Removals) /\ FromDisk(wIndex.content)
      BY <2>3 DEF PublishBatch, BatchFromDisk, Follows, Removals, Removed
    <3>3. wIndex.content \in Content
      BY IndexParts DEF TypeOK, WatchTypeOK
    <3> QED
      BY <1>3, <3>1, <3>2, <3>3, WatcherFrame DEF Publish, Queryable
  <2>4. CASE \/ WatcherWake \/ InstallWatch \/ CollectDebounced
             \/ TakeBatchBase \/ ApplyBatch \/ ApplyNothing \/ WatcherPanic
             \/ \E f \in Files : RebuildReadFile(f)
    BY <2>4 DEF WatcherWake, InstallWatch, CollectDebounced, TakeBatchBase, ApplyBatch, ApplyNothing,
                WatcherPanic, RebuildReadFile
  <2> QED
    BY <1>3, <2>1, <2>2, <2>3, <2>4 DEF Watcher
<1>4. CASE \E t \in Calls : CallBegin(t) \/ CallEnd(t)
  BY <1>4, CallFrame
<1>5. CASE UNCHANGED vars
  BY <1>5 DEF vars
<1> QED
  BY <1>1, <1>2, <1>3, <1>4, <1>5 DEF Next

-----------------------------------------------------------------------------
(* Each part of the invariant is preserved.                                *)

LEMMA CountersStep ==
  ASSUME IInv, [Next]_vars
  PROVE  WatcherHoldsBase' /\ TouchedInRebuild' /\ TriesLeft'
<1> USE DEF IInv
<1>1. WatcherHoldsBase'
  <2>1. CASE Watcher
    BY <2>1 DEF Watcher, WatcherWake, InstallWatch, CollectDebounced, TakeOverflow,
                RebuildReadFile, RebuildPublish, RebuildFail, TakeBatchBase, ApplyBatch, ApplyNothing,
                PublishBatch, WatcherPanic, WatcherIdle, WatcherHoldsBase
  <2>2. CASE UNCHANGED watchVars
    BY <2>2 DEF watchVars, WatcherHoldsBase
  <2> QED
    BY <2>1, <2>2, EditFrame, BuilderFrame, CallFrame DEF Next, vars
<1>2. TriesLeft'
  <2>1. CASE Builder
    BY <2>1 DEF Builder, BuildReadFile, BuildPublish, BuildFail, TakeMiningBase,
                SkipMining, Mine, MinePanic, RepublishInPlace, RepublishClone,
                RepublishSwap, RepublishLastResort, TakeEnrichBase, EnrichNothing,
                EnrichPublish, ConventionsPublished, ConventionsDropped, TriesLeft,
                Attempts, TypeOK, BuildTypeOK
  <2>2. CASE UNCHANGED buildVars
    BY <2>2 DEF buildVars, TriesLeft
  <2> QED
    BY <2>1, <2>2, EditFrame, WatcherFrame, CallFrame DEF Next, vars
<1>3. TouchedInRebuild'
  <2>1. CASE Watcher
    BY <2>1 DEF Watcher, WatcherWake, InstallWatch, CollectDebounced, TakeOverflow,
                RebuildReadFile, RebuildPublish, RebuildFail, TakeBatchBase, ApplyBatch,
                ApplyNothing, PublishBatch, WatcherPanic, diskVars, TouchedInRebuild
  <2>2. CASE \E f \in Files : Edit(f)
    BY <2>2, EditVersion, EditFrame DEF TouchedInRebuild, watchVars
  <2>3. CASE UNCHANGED <<diskVars, watchVars>>
    BY <2>3 DEF diskVars, watchVars, TouchedInRebuild
  <2> QED
    BY <2>1, <2>2, <2>3, BuilderFrame, CallFrame DEF Next, vars
<1> QED
  BY <1>1, <1>2, <1>3

LEMMA ServedStep ==
  ASSUME IInv, [Next]_vars
  PROVE  ServedIsIndex'
<1> USE DEF IInv
<1>1. CASE \E f \in Files : Edit(f)
  <2>1. PICK f \in Files : Edit(f)
    BY <1>1
  <2>2. FromDisk(shown)' /\ UNCHANGED <<served, shown>>
    BY <2>1, DiskGrows, EditFrame DEF ServedIsIndex, TypeOK, CellTypeOK, cellVars, FromDisk
  <2> QED
    BY <2>1, <2>2, EditFrame DEF ServedIsIndex, cellVars, Queryable
<1>2. CASE UNCHANGED <<disk, form>>
  <2>1. CASE UNCHANGED cellVars \/ (UNCHANGED <<served, shown>> /\ ~Queryable')
    BY <1>2, <2>1 DEF ServedIsIndex, cellVars, Queryable, FromDisk
  <2>2. CASE /\ Queryable' /\ served' = index'.content /\ shown' = ShownAfter(served')
             /\ served' \in Content /\ FromDisk(served')
    <3>1. FromDisk(shown') /\ \A f \in Files : served'[f] # NotIndexed => served'[f] = shown'[f]
      BY <2>2 DEF ServedIsIndex, FromDisk, ShownAfter
    <3> QED
      BY <1>2, <2>2, <3>1 DEF ServedIsIndex, FromDisk
  <2> QED
    BY <2>1, <2>2, CellStep
<1> QED
  BY <1>1, <1>2, BuilderFrame, WatcherFrame, CallFrame DEF Next, vars, diskVars

LEMMA BuildAloneStep ==
  ASSUME IInv, [Next]_vars
  PROVE  BuildIsAlone'
<1> USE DEF IInv
<1>1. CASE bpc # "read"
  <2>1. bpc' # "read"
    <3>1. CASE Builder
      BY <1>1, <3>1
         DEF Builder, BuildReadFile, BuildPublish, BuildFail, TakeMiningBase, SkipMining,
             Mine, MinePanic, RepublishInPlace, RepublishClone, RepublishSwap,
             RepublishLastResort, TakeEnrichBase, EnrichNothing, EnrichPublish,
             ConventionsPublished, ConventionsDropped
    <3>2. CASE UNCHANGED buildVars
      BY <1>1, <3>2 DEF buildVars
    <3> QED
      BY <3>1, <3>2, EditFrame, WatcherFrame, CallFrame DEF Next, vars
  <2> QED
    BY <2>1 DEF BuildIsAlone
<1>2. CASE bpc = "read" /\ \E f \in Files : Edit(f)
  <2>1. PICK f \in Files : Edit(f)
    BY <1>2
  <2>2. FromDisk(bContent)'
    BY <1>2, <2>1, DiskGrows, EditFrame
       DEF BuildIsAlone, TypeOK, BuildTypeOK, buildVars, FromDisk
  <2> QED
    BY <1>2, <2>1, <2>2, EditFrame
       DEF BuildIsAlone, cellVars, buildVars, watchVars, NoFiles
<1>3. CASE bpc = "read" /\ \E f \in Files : BuildReadFile(f)
  <2>1. PICK f \in Files : BuildReadFile(f)
    BY <1>3
  <2>2. bContent \in Content /\ FromDisk(bContent)
    BY <1>3 DEF BuildIsAlone, TypeOK, BuildTypeOK
  <2>3. bContent' = [bContent EXCEPT ![f] = ReadOf(f)] \/ bContent' = bContent
    BY <2>1 DEF BuildReadFile
  <2>4. FromDisk(bContent')
    BY <2>2, <2>3, ReadFromDisk DEF FromDisk, Content
  <2> QED
    BY <1>3, <2>1, <2>4
       DEF BuildIsAlone, BuildReadFile, cellVars, watchVars, diskVars, FromDisk, NoFiles
<1>4. CASE bpc = "read" /\ (BuildPublish \/ BuildFail)
  BY <1>4 DEF BuildPublish, BuildFail, BuildIsAlone
<1>5. CASE bpc = "read" /\ UNCHANGED vars
  BY <1>5 DEF BuildIsAlone, vars, cellVars, buildVars, watchVars, diskVars, FromDisk,
              NoFiles
<1>6. bpc = "read" => ~Watcher /\ \A t \in Calls : ~CallBegin(t)
  BY DEF BuildIsAlone, Watcher, WatcherWake, InstallWatch, CollectDebounced, TakeOverflow,
         RebuildReadFile, RebuildPublish, RebuildFail, TakeBatchBase, ApplyBatch, ApplyNothing,
         PublishBatch, WatcherPanic, CallBegin, Queryable
<1>7. CASE bpc = "read" /\ \E t \in Calls : CallEnd(t)
  BY <1>7, CallFrame DEF BuildIsAlone, cellVars, buildVars, watchVars, diskVars,
                         FromDisk, NoFiles
<1>8. bpc = "read" /\ Builder =>
        (\E f \in Files : BuildReadFile(f)) \/ BuildPublish \/ BuildFail
  BY DEF Builder, TakeMiningBase, SkipMining, Mine, MinePanic, RepublishInPlace,
         RepublishClone, RepublishSwap, RepublishLastResort, TakeEnrichBase,
         EnrichNothing, EnrichPublish
<1> QED
  BY <1>1, <1>2, <1>3, <1>4, <1>5, <1>6, <1>7, <1>8 DEF Next

LEMMA RebuildAloneStep ==
  ASSUME IInv, [Next]_vars
  PROVE  RebuildIsAlone'
<1> USE DEF IInv
<1>1. CASE \E f \in Files : Edit(f)
  <2>1. PICK f \in Files : Edit(f)
    BY <1>1
  <2>2. CASE wpc = "rebuild"
    <3>1. UNCHANGED <<cellVars, buildVars, watchVars>>
      BY <2>1, EditFrame
    <3>2. \A g \in Files : served[g] \in Version /\ served[g] <= disk[g]
      BY ServedVersions
    <3>3. \A g \in touched' : served[g] < disk'[g]
      BY <2>1, <2>2, <3>2, DiskGrows DEF RebuildIsAlone, TypeOK, DiskTypeOK
    <3>4. wIndex.content \in Content
      BY IndexParts DEF TypeOK, WatchTypeOK
    <3>5. FromDisk(wIndex.content)'
      BY <2>1, <2>2, <3>1, <3>4, DiskGrows DEF RebuildIsAlone, FromDisk, watchVars
    <3>6. \A g \in Files : served[g] < disk[g] => served[g] < disk'[g]
      BY <2>1, <3>2, DiskGrows
    <3> QED
      BY <2>2, <3>1, <3>3, <3>5, <3>6 DEF RebuildIsAlone, cellVars, buildVars, watchVars
  <2>3. CASE wpc # "rebuild"
    BY <2>1, <2>3, EditFrame DEF RebuildIsAlone, watchVars
  <2> QED
    BY <2>2, <2>3
<1>2. CASE Builder
  <2>1. CASE wpc = "rebuild"
    <3>1. bpc # "read" /\ ~Queryable
      BY <2>1 DEF RebuildIsAlone, Queryable
    <3>2. UNCHANGED cellVars
      BY <1>2, <3>1, BuilderRepublishes
    <3>3. bpc' # "read"
      BY <1>2, <3>1
         DEF Builder, BuildReadFile, BuildPublish, BuildFail, TakeMiningBase, SkipMining,
             Mine, MinePanic, RepublishInPlace, RepublishClone, RepublishSwap,
             RepublishLastResort, TakeEnrichBase, EnrichNothing, EnrichPublish,
             ConventionsPublished, ConventionsDropped
    <3> QED
      BY <1>2, <2>1, <3>2, <3>3, BuilderFrame
         DEF RebuildIsAlone, cellVars, watchVars, diskVars, FromDisk
  <2>2. CASE wpc # "rebuild"
    BY <1>2, <2>2, BuilderFrame DEF RebuildIsAlone, watchVars
  <2> QED
    BY <2>1, <2>2
<1>3. CASE Watcher
  <2>1. CASE TakeOverflow
    <3>1. bpc # "read" /\ touched = {}
      BY <2>1 DEF TakeOverflow, BuildIsAlone, TouchedInRebuild
    <3>2. wIndex'.content = NoFiles /\ touched' = touched /\ wUnread' = Files
      BY <2>1 DEF TakeOverflow, NoIndex
    <3> QED
      BY <1>3, <2>1, <3>1, <3>2, WatcherFrame
         DEF TakeOverflow, Withhold, RebuildIsAlone, buildVars, NoFiles, FromDisk
  <2>2. CASE \E f \in Files : RebuildReadFile(f)
    <3>1. PICK f \in Files : RebuildReadFile(f)
      BY <2>2
    <3>2. wpc = "rebuild" /\ f \in wUnread /\ wUnread' = wUnread \ {f}
          /\ UNCHANGED <<wpc, tag, bpc, served, shown, disk, form, touched>>
      BY <3>1 DEF RebuildReadFile, cellVars, buildVars, diskVars
    <3>3. wIndex.content \in Content /\ FromDisk(wIndex.content) /\ wIndex.content[f] = NotIndexed
      BY <3>2, IndexParts DEF RebuildIsAlone, TypeOK, WatchTypeOK
    <3>4. \/ wIndex'.content = [wIndex.content EXCEPT ![f] = ReadOf(f)]
          \/ wIndex'.content = wIndex.content /\ f \in touched
      BY <3>1, IndexParts DEF RebuildReadFile, TypeOK, WatchTypeOK, Index
    <3>5. FromDisk(wIndex'.content)
      BY <3>3, <3>4, ReadFromDisk DEF FromDisk, Content
    <3>6. /\ served[f] \in Nat /\ shown[f] \in Nat /\ shown[f] <= disk[f] /\ disk[f] \in Nat
          /\ served[f] # NotIndexed => /\ served[f] = shown[f] /\ shown[f] # NotIndexed
                                       /\ (shown[f] = disk[f] => form[f] = "text")
      BY ServedVersions DEF ServedIsIndex, FromDisk
    <3>7. IF wIndex'.content[f] = NotIndexed
          THEN served[f] = NotIndexed \/ served[f] < disk[f]
          ELSE shown[f] <= wIndex'.content[f]
      <4>1. CASE wIndex'.content = wIndex.content /\ f \in touched
        BY <3>2, <3>3, <4>1 DEF RebuildIsAlone
      <4>2. CASE wIndex'.content[f] = ReadOf(f)
        BY <3>6, <4>2, ReadFromDisk DEF NotIndexed
      <4> QED
        BY <3>3, <3>4, <4>1, <4>2 DEF Content
    <3>8. \A g \in Files \ {f} : wIndex'.content[g] = wIndex.content[g]
      BY <3>3, <3>4 DEF Content
    <3> QED
      BY <3>2, <3>5, <3>7, <3>8 DEF RebuildIsAlone, FromDisk
  <2>3. CASE ~TakeOverflow /\ ~\E f \in Files : RebuildReadFile(f)
    BY <1>3, <2>3
       DEF Watcher, WatcherWake, InstallWatch, CollectDebounced, RebuildPublish,
           RebuildFail, TakeBatchBase, ApplyBatch, ApplyNothing, PublishBatch, WatcherPanic,
           RebuildIsAlone
  <2> QED
    BY <2>1, <2>2, <2>3
<1>4. CASE (\E t \in Calls : CallBegin(t) \/ CallEnd(t)) \/ UNCHANGED vars
  BY <1>4, CallFrame
     DEF vars, diskVars, cellVars, buildVars, watchVars, RebuildIsAlone, FromDisk
<1> QED
  BY <1>1, <1>2, <1>3, <1>4 DEF Next

\* What the watcher holds between applying a batch and publishing it, and the
\* cell it will replace.
LEMMA BatchStep ==
  ASSUME IInv, [Next]_vars
  PROVE  BatchFromDisk' /\ BatchBaseIsCurrent'
<1> USE DEF IInv
<1>1. CASE \E f \in Files : Edit(f)
  <2>1. PICK f \in Files : Edit(f)
    BY <1>1
  <2>2. UNCHANGED <<cellVars, watchVars>>
    BY <2>1, EditFrame
  <2>3. wpc = "publish" => FromDisk(wIndex.content)'
    BY <2>1, <2>2, DiskGrows, IndexParts
       DEF BatchFromDisk, TypeOK, WatchTypeOK, watchVars, FromDisk
  <2>4. wpc = "publish" => Follows(wIndex.content, Removed(wBatch))'
    <3>1. SUFFICES ASSUME wpc = "publish", NEW g \in Files, served[g] < disk[g]
                   PROVE  served[g] < disk'[g]
      BY <2>2 DEF BatchFromDisk, Follows, cellVars, watchVars, Removed
    <3> QED
      BY <2>1, <3>1, DiskGrows DEF TypeOK, CellTypeOK, Content
  <2> QED
    BY <2>1, <2>2, <2>3, <2>4
       DEF BatchFromDisk, BatchBaseIsCurrent, cellVars, watchVars, Queryable, Written, Removed
<1>2. CASE Builder
  <2>1. CASE wpc \in {"apply", "publish"}
    <3>1. bpc # "read"
      BY <2>1 DEF BuildIsAlone
    <3>2. \/ UNCHANGED cellVars
          \/ /\ Queryable' /\ index'.content = index.content
             /\ UNCHANGED <<served, shown>>
      BY <1>2, <3>1, BuilderRepublishes DEF ServedIsIndex
    <3>3. Queryable => index'.content = index.content /\ UNCHANGED <<served, shown>> /\ Queryable'
      BY <3>2 DEF cellVars, Queryable
    <3>4. UNCHANGED <<disk, form, wpc, wBatch, wIndex>> /\ Queryable
      BY <1>2, <2>1, BuilderFrame DEF diskVars, watchVars, BatchBaseIsCurrent
    <3>5. BatchFromDisk'
      BY <3>3, <3>4 DEF BatchFromDisk, FromDisk, Follows, Removed
    <3>6. BatchBaseIsCurrent'
      BY <3>3, <3>4 DEF BatchBaseIsCurrent, Written, Removed
    <3> QED
      BY <3>5, <3>6
  <2>2. CASE wpc \notin {"apply", "publish"}
    BY <1>2, <2>2, BuilderFrame DEF BatchFromDisk, BatchBaseIsCurrent, watchVars
  <2> QED
    BY <2>1, <2>2
<1>3. CASE Watcher
  <2>1. CASE TakeBatchBase
    BY <2>1 DEF TakeBatchBase, BatchFromDisk, BatchBaseIsCurrent, cellVars, Queryable
  <2>2. CASE ApplyBatch
    <3> DEFINE c == Applied(wBatch, wIndex.content)
    <3>1. wIndex'.content = c /\ wIndex'.embedded = NoContent
      BY <2>2 DEF ApplyBatch, Built
    <3>2. /\ Queryable /\ wIndex.content = index.content /\ wIndex.content = served
          /\ served \in Content
      BY <2>2 DEF ApplyBatch, BatchBaseIsCurrent, ServedIsIndex, TypeOK, CellTypeOK
    <3>3. /\ wpc' = "publish" /\ Queryable'
          /\ UNCHANGED <<index, disk, form, served, shown, wBatch>>
      BY <2>2, <3>2 DEF ApplyBatch, cellVars, diskVars, Queryable
    <3>4. FromDisk(c)
      BY <3>2, ReadFromDisk DEF Applied, Read, ServedIsIndex, FromDisk
    <3>5. Follows(c, Removed(wBatch))
      <4>1. ASSUME NEW f \in Files
            PROVE  IF c[f] = NotIndexed
                   THEN served[f] = NotIndexed \/ served[f] < disk[f] \/ f \in Removed(wBatch)
                   ELSE shown[f] <= c[f]
        <5>1. /\ disk[f] \in Nat /\ served[f] \in Nat /\ shown[f] \in Nat /\ shown[f] <= disk[f]
              /\ served[f] # NotIndexed => served[f] = shown[f]
          BY ServedVersions
        <5>2. CASE f \in Read(wBatch)
          BY <5>1, <5>2 DEF Applied, NotIndexed
        <5>3. CASE f \notin Read(wBatch) /\ f \in Removed(wBatch)
          BY <5>3 DEF Applied
        <5>4. CASE f \notin Read(wBatch) /\ f \notin Removed(wBatch)
          BY <3>2, <5>1, <5>4 DEF Applied
        <5> QED
          BY <5>2, <5>3, <5>4
      <4> QED
        BY <4>1 DEF Follows
    <3>6. \A f \in Files \ (Written(wBatch) \union Removed(wBatch)) : c[f] = index.content[f]
      BY <3>2 DEF Applied, Read
    <3>7. BatchFromDisk'
      BY <3>1, <3>3, <3>4, <3>5 DEF BatchFromDisk, FromDisk, Follows, Removed
    <3>8. BatchBaseIsCurrent'
      BY <3>1, <3>3, <3>6 DEF BatchBaseIsCurrent, Written, Removed
    <3> QED
      BY <3>7, <3>8
  <2>3. CASE ~TakeBatchBase /\ ~ApplyBatch
    BY <1>3, <2>3
       DEF Watcher, WatcherWake, InstallWatch, CollectDebounced, TakeOverflow,
           RebuildReadFile, RebuildPublish, RebuildFail, ApplyNothing, PublishBatch,
           WatcherPanic, BatchFromDisk, BatchBaseIsCurrent
  <2> QED
    BY <2>1, <2>2, <2>3
<1>4. CASE (\E t \in Calls : CallBegin(t) \/ CallEnd(t)) \/ UNCHANGED vars
  BY <1>4, CallFrame
     DEF vars, diskVars, cellVars, watchVars, BatchFromDisk, BatchBaseIsCurrent,
         Queryable, FromDisk, Follows, Written, Removed
<1> QED
  BY <1>1, <1>2, <1>3, <1>4 DEF Next

LEMMA EmbeddingStep ==
  ASSUME IInv, [Next]_vars
  PROVE  EmbeddingMatchesIndex'
<1> USE DEF IInv
<1>1. CASE UNCHANGED cellVars
  BY <1>1 DEF cellVars, EmbeddingMatchesIndex
<1>2. CASE RepublishInPlace \/ RepublishLastResort
  BY <1>2 DEF RepublishInPlace, RepublishLastResort, Publish, WithConventions, cellVars,
              EmbeddingMatchesIndex, TypeOK, CellTypeOK, Index
<1>3. CASE RepublishSwap
  BY <1>3 DEF RepublishSwap, Publish, WithConventions, cellVars, EmbeddingMatchesIndex,
              SharedArcsAgree, TypeOK, CellTypeOK, BuildTypeOK, Index
<1>4. CASE EnrichPublish
  BY <1>4 DEF EnrichPublish, Publish, cellVars, EmbeddingMatchesIndex, TypeOK, BuildTypeOK,
              Index
<1>5. CASE BuildPublish \/ RebuildPublish
  BY <1>5 DEF BuildPublish, RebuildPublish, Publish, Built, EmbeddingMatchesIndex
<1>6. CASE BuildFail \/ TakeOverflow \/ RebuildFail
  BY <1>6 DEF BuildFail, TakeOverflow, RebuildFail, Withhold, NoIndex, EmbeddingMatchesIndex
<1>7. CASE PublishBatch
  BY <1>7 DEF PublishBatch, Publish, BatchFromDisk, EmbeddingMatchesIndex
<1>8. \/ UNCHANGED cellVars
      \/ RepublishInPlace \/ RepublishLastResort \/ RepublishSwap \/ EnrichPublish
      \/ BuildPublish \/ RebuildPublish \/ BuildFail \/ TakeOverflow \/ RebuildFail
      \/ PublishBatch
  BY EditFrame, CallFrame
     DEF Next, vars, Builder, BuildReadFile, TakeMiningBase, SkipMining, Mine, MinePanic,
         RepublishClone, TakeEnrichBase, EnrichNothing, Watcher, WatcherWake,
         InstallWatch, CollectDebounced, RebuildReadFile, TakeBatchBase, ApplyBatch, ApplyNothing,
         WatcherPanic
<1> QED
  BY <1>1, <1>2, <1>3, <1>4, <1>5, <1>6, <1>7, <1>8

-----------------------------------------------------------------------------
(* Sharing.                                                                *)

\* Dropping references and giving the cell an allocation nobody else holds (a new
\* one, or its own when it is the sole owner) disturbs no holder.
LEMMA NoHolderDisturbed ==
  ASSUME IInv, UNCHANGED callVars,
         bArc' = NoArc \/ UNCHANGED <<bArc, bIndex>>,
         wArc' = NoArc \/ UNCHANGED <<wArc, wIndex>>,
         arc' \notin OtherRefs \/ arc' = NoArc \/ UNCHANGED <<arc, index>>
  PROVE  SharedArcsAgree'
BY DEF IInv, SharedArcsAgree, OtherRefs, callVars

LEMMA SharedStep ==
  ASSUME IInv, [Next]_vars
  PROVE  SharedArcsAgree'
<1> USE DEF IInv
<1>1. CASE \E f \in Files : Edit(f)
  BY <1>1, EditFrame, NoHolderDisturbed DEF cellVars, buildVars, watchVars
<1>2. CASE Builder
  <2>1. UNCHANGED callVars /\ UNCHANGED <<wArc, wIndex>>
    BY <1>2, BuilderFrame DEF watchVars
  <2>2. CASE TakeMiningBase \/ TakeEnrichBase \/ RepublishClone
    <3>1. UNCHANGED cellVars /\ (UNCHANGED <<bArc, bIndex>> \/ (bArc' = arc /\ bIndex' = index))
      BY <2>2 DEF TakeMiningBase, TakeEnrichBase, RepublishClone, ConventionsDropped
    <3> QED
      BY <2>1, <3>1 DEF SharedArcsAgree, cellVars, callVars
  <2>3. CASE BuildPublish \/ RepublishSwap \/ RepublishLastResort \/ EnrichPublish
    <3>1. arc' \notin OtherRefs \/ UNCHANGED <<arc, index>>
      BY <2>3, FreshArc
         DEF BuildPublish, RepublishSwap, RepublishLastResort, EnrichPublish, Publish, cellVars
    <3>2. bArc' = NoArc \/ UNCHANGED <<bArc, bIndex>>
      BY <2>3 DEF BuildPublish, RepublishSwap, RepublishLastResort, EnrichPublish,
                  ConventionsPublished, ConventionsDropped
    <3> QED
      BY <2>1, <3>1, <3>2, NoHolderDisturbed
  <2>4. CASE RepublishInPlace
    <3>1. arc' \notin OtherRefs \/ UNCHANGED <<arc, index>>
      BY <2>4 DEF RepublishInPlace, SoleOwner, Publish, cellVars
    <3>2. bArc' = NoArc \/ UNCHANGED <<bArc, bIndex>>
      BY <2>4 DEF RepublishInPlace, ConventionsPublished
    <3> QED
      BY <2>1, <3>1, <3>2, NoHolderDisturbed
  <2>5. CASE \/ BuildFail \/ SkipMining \/ Mine \/ MinePanic \/ EnrichNothing
             \/ \E f \in Files : BuildReadFile(f)
    <3>1. arc' = NoArc \/ UNCHANGED <<arc, index>>
      BY <2>5 DEF BuildFail, SkipMining, Mine, MinePanic, EnrichNothing, BuildReadFile,
                  Withhold, cellVars
    <3>2. bArc' = NoArc \/ UNCHANGED <<bArc, bIndex>>
      BY <2>5 DEF BuildFail, SkipMining, Mine, MinePanic, EnrichNothing, BuildReadFile
    <3> QED
      BY <2>1, <3>1, <3>2, NoHolderDisturbed
  <2> QED
    BY <1>2, <2>2, <2>3, <2>4, <2>5 DEF Builder
<1>3. CASE Watcher
  <2>1. UNCHANGED callVars /\ UNCHANGED <<bArc, bIndex>>
    BY <1>3, WatcherFrame DEF buildVars
  <2>2. CASE TakeBatchBase
    <3>1. UNCHANGED cellVars /\ (wArc' = NoArc \/ (wArc' = arc /\ wIndex' = index))
      BY <2>2 DEF TakeBatchBase, WatcherIdle
    <3> QED
      BY <2>1, <3>1 DEF SharedArcsAgree, cellVars, callVars
  <2>3. CASE RebuildPublish \/ PublishBatch
    <3>1. arc' \notin OtherRefs /\ wArc' = NoArc
      BY <2>3, FreshArc DEF RebuildPublish, PublishBatch, Publish, WatcherIdle
    <3> QED
      BY <2>1, <3>1, NoHolderDisturbed
  <2>4. CASE \E f \in Files : RebuildReadFile(f)
    <3>1. wArc' = NoArc /\ UNCHANGED cellVars
      BY <2>4 DEF RebuildReadFile, WatcherHoldsBase
    <3> QED
      BY <2>1, <3>1, NoHolderDisturbed DEF cellVars
  <2>5. CASE \/ WatcherWake \/ InstallWatch \/ CollectDebounced \/ TakeOverflow
             \/ RebuildFail \/ ApplyBatch \/ ApplyNothing \/ WatcherPanic
    <3>1. arc' = NoArc \/ UNCHANGED <<arc, index>>
      BY <2>5 DEF WatcherWake, InstallWatch, CollectDebounced, TakeOverflow, RebuildFail,
                  ApplyBatch, ApplyNothing, WatcherPanic, Withhold, cellVars
    <3>2. wArc' = NoArc \/ UNCHANGED <<wArc, wIndex>>
      BY <2>5 DEF WatcherWake, InstallWatch, CollectDebounced, TakeOverflow, RebuildFail,
                  ApplyBatch, ApplyNothing, WatcherPanic, WatcherIdle, WatcherHoldsBase
    <3> QED
      BY <2>1, <3>1, <3>2, NoHolderDisturbed
  <2> QED
    BY <1>3, <2>2, <2>3, <2>4, <2>5 DEF Watcher
<1>4. CASE \E t \in Calls : CallBegin(t) \/ CallEnd(t)
  <2>1. PICK t \in Calls : CallBegin(t) \/ CallEnd(t)
    BY <1>4
  <2>2. UNCHANGED <<arc, index, bArc, bIndex, wArc, wIndex>>
    BY <2>1, CallFrame DEF cellVars, buildVars, watchVars
  <2>3. \/ callArc' = [callArc EXCEPT ![t] = arc] /\ callIndex' = [callIndex EXCEPT ![t] = index]
        \/ callArc' = [callArc EXCEPT ![t] = NoArc] /\ callIndex' = [callIndex EXCEPT ![t] = NoIndex]
    BY <2>1 DEF CallBegin, CallEnd
  <2>4. \A u \in Calls :
          \/ callArc'[u] = callArc[u] /\ callIndex'[u] = callIndex[u]
          \/ callArc'[u] = arc /\ callIndex'[u] = index
          \/ callArc'[u] = NoArc
    BY <2>3 DEF TypeOK, CallTypeOK
  <2> QED
    BY <2>2, <2>4 DEF SharedArcsAgree
<1>5. CASE UNCHANGED vars
  BY <1>5, NoHolderDisturbed DEF vars, cellVars, buildVars, watchVars
<1> QED
  BY <1>1, <1>2, <1>3, <1>4, <1>5 DEF Next

-----------------------------------------------------------------------------
(* The theorems.                                                           *)

LEMMA InitIInv == Init => IInv
<1> SUFFICES ASSUME Init PROVE IInv
  OBVIOUS
<1>1. TypeOK
  <2>1. DiskTypeOK
    <3>1. /\ disk \in Content /\ form \in [Files -> Forms] /\ chan \in Seq(Event)
          /\ unseen \subseteq Files /\ moved \subseteq Files
          /\ outrun \subseteq Files /\ touched \subseteq Files
      BY VersionTypes, CellAssumption, EditorAssumption DEF Init, Content
    <3>2. watching \in BOOLEAN /\ overflow \in BOOLEAN
      BY Zenon DEF Init
    <3> QED
      BY <3>1, <3>2 DEF DiskTypeOK
  <2>2. CellTypeOK
    BY DataTypes DEF Init, CellTypeOK, Queryable
  <2>3. DerivedTypeOK
    <3>1. OnDisk \in Content
      BY <2>1, VersionTypes DEF OnDisk, ReadOf, DiskTypeOK, Content
    <3> QED
      BY <3>1, DataTypes DEF Init, DerivedTypeOK
  <2>4. BuildTypeOK
    BY DataTypes DEF Init, BuildTypeOK, BuilderPcs, Attempts
  <2>5. WatchTypeOK /\ CallTypeOK
    BY DataTypes DEF Init, WatchTypeOK, CallTypeOK, WatcherPcs
  <2> QED
    BY <2>1, <2>2, <2>3, <2>4, <2>5 DEF TypeOK
<1>2. FromDisk(NoFiles)
  BY DEF FromDisk, NoFiles
<1> QED
  BY <1>1, <1>2
     DEF Init, IInv, WatcherHoldsBase, TouchedInRebuild, TriesLeft, Attempts,
         ServedIsIndex, BuildIsAlone, RebuildIsAlone, BatchFromDisk, SharedArcsAgree,
         EmbeddingMatchesIndex, BatchBaseIsCurrent, Queryable, NoIndex, NoFiles

LEMMA NextIInv == IInv /\ [Next]_vars => IInv'
<1> SUFFICES ASSUME IInv, [Next]_vars PROVE IInv'
  OBVIOUS
<1>1. TypeOK'
  BY TypeStep DEF IInv
<1> QED
  BY <1>1, CountersStep, ServedStep, BuildAloneStep, RebuildAloneStep, BatchStep,
     EmbeddingStep, SharedStep DEF IInv

\* The inductive invariant holds in every reachable state.
THEOREM Invariance == Spec => []IInv
BY InitIInv, NextIInv, PTL DEF Spec

\* Every variable of the readiness cell and its threads keeps its shape.
THEOREM TypeCorrect == Spec => []TypeOK
<1>1. IInv => TypeOK
  BY DEF IInv
<1> QED
  BY <1>1, Invariance, PTL

\* No holder of an Arc ever sees the index behind it change: Arc::get_mut in
\* republish_in_place and the two compare-and-swaps are enough.
THEOREM ArcsNeverTorn == Spec => []SharedArcsAgree
<1>1. IInv => SharedArcsAgree
  BY DEF IInv
<1> QED
  BY <1>1, Invariance, PTL

\* No similarity is scored against embeddings of another content.
THEOREM EmbeddingsNeverStale == Spec => []EmbeddingMatchesIndex
<1>1. IInv => EmbeddingMatchesIndex
  BY DEF IInv
<1> QED
  BY <1>1, Invariance, PTL

\* The watcher's unconditional write of a batch never undoes what another thread
\* published of the other files: until then the index it was based on is the one
\* in the cell.
THEOREM BatchesApplyToTheServedIndex == Spec => []BatchBaseIsCurrent
<1>1. IInv => BatchBaseIsCurrent
  BY DEF IInv
<1> QED
  BY <1>1, Invariance, PTL

-----------------------------------------------------------------------------
(* The cell implements FreshIndex.                                         *)

LEMMA InitRefines == Init => Fresh!Init
BY DEF Init, Fresh!Init, Queryable, NoFiles, NotIndexed, Queued, Removed

\* An event that is queued is one more event queued.
LEMMA AppendQueued ==
  ASSUME NEW e \in Event, chan \in Seq(Event), chan' = Append(chan, e)
  PROVE  Queued' = Queued \union {e}
<1>1. /\ Len(chan') = Len(chan) + 1 /\ chan'[Len(chan) + 1] = e
      /\ \A i \in 1..Len(chan) : chan'[i] = chan[i]
      /\ DOMAIN chan = 1..Len(chan) /\ DOMAIN chan' = 1..Len(chan') /\ Len(chan) \in Nat
  OBVIOUS
<1> QED
  BY <1>1 DEF Queued

\* An edit reports at most one removal, of its own file.
LEMMA EditRemovals ==
  ASSUME TypeOK, NEW f \in Files, Edit(f)
  PROVE  Removals' \in {Removals, Removals \union {f}}
<1>1. PICK e \in {WriteOf(f), RemoveOf(f)} : Report(e)
  BY EditVersion
<1>2. e \in Event /\ wBatch' = wBatch
  BY VersionTypes, EditFrame DEF watchVars
<1>3. Queued' = Queued \/ Queued' = Queued \union {e}
  BY <1>1, <1>2, AppendQueued DEF Report, Queued, TypeOK, DiskTypeOK
<1> QED
  BY <1>1, <1>2, <1>3, VersionTypes DEF Removals, Removed

\* No other step reports any.
LEMMA OtherRemovals ==
  ASSUME [Next]_vars, ~\E f \in Files : Edit(f)
  PROVE  Removals' \subseteq Removals
<1>1. CASE Watcher
  <2>1. CASE CollectDebounced
    BY <2>1 DEF CollectDebounced, Removals, Removed, Queued
  <2>2. CASE ~CollectDebounced
    <3>1. chan' = chan /\ wBatch' \subseteq wBatch
      BY <1>1, <2>2
         DEF Watcher, WatcherWake, InstallWatch, TakeOverflow, RebuildReadFile,
             RebuildPublish, RebuildFail, TakeBatchBase, ApplyBatch, ApplyNothing,
             PublishBatch, WatcherPanic, WatcherIdle, diskVars, eventVars
    <3> QED
      BY <3>1 DEF Removals, Removed, Queued
  <2> QED
    BY <2>1, <2>2
<1>2. CASE UNCHANGED <<diskVars, watchVars>>
  BY <1>2 DEF diskVars, eventVars, watchVars, Removals, Removed, Queued
<1> QED
  BY <1>1, <1>2, BuilderFrame, CallFrame DEF Next, vars

LEMMA NextRefines == IInv /\ [Next]_vars => [Fresh!Next]_(Fresh!vars)
<1> SUFFICES ASSUME IInv, [Next]_vars PROVE [Fresh!Next]_(Fresh!vars)
  OBVIOUS
<1> USE DEF IInv
<1>1. CASE \E f \in Files : Edit(f)
  <2>1. PICK f \in Files : Edit(f)
    BY <1>1
  <2>2. UNCHANGED <<served, shown, Queryable>>
    BY <2>1, EditFrame DEF cellVars, Queryable
  <2>3. \E v \in Fresh!Version : v > disk[f] /\ disk' = [disk EXCEPT ![f] = v]
    BY <2>1, EditVersion, VersionTypes DEF TypeOK, DiskTypeOK, Content, Version, Fresh!Version
  <2>4. Fresh!Edit(f)
    BY <2>1, <2>2, <2>3, EditRemovals DEF Fresh!Edit, Removals
  <2> QED
    BY <2>4 DEF Fresh!Next
<1>2. CASE UNCHANGED <<disk, form>> /\ ~\E f \in Files : Edit(f)
  <2>1. Fresh!Settle
    BY <1>2, OtherRemovals DEF Fresh!Settle, Removals
  <2>2. CASE UNCHANGED cellVars
    <3>1. Fresh!Discard
      BY <1>2, <2>1, <2>2 DEF cellVars, Queryable, Fresh!Discard
    <3> QED
      BY <3>1 DEF Fresh!Next
  <2>3. CASE UNCHANGED <<disk, served, shown>> /\ ~Queryable'
    <3>1. Fresh!Withdraw
      BY <2>1, <2>3 DEF Fresh!Withdraw
    <3> QED
      BY <3>1 DEF Fresh!Next
  <2>4. CASE /\ Queryable' /\ shown' = ShownAfter(served') /\ served' \in Content
             /\ Follows(served', Removals) /\ FromDisk(served')
    <3>1. served' \in Fresh!Content
      BY <2>4 DEF Content, Version, Fresh!Content, Fresh!Version
    <3>2. \A f \in Files : IF served'[f] = 0 THEN Fresh!MayMiss(f) ELSE Fresh!MayShow(f, served'[f])
      BY <2>4 DEF Follows, FromDisk, Removals, NotIndexed, Fresh!MayMiss, Fresh!MayShow
    <3>3. Fresh!Serve(served')
      BY <1>2, <2>1, <2>4, <3>2 DEF Fresh!Serve, ShownAfter, NotIndexed
    <3> QED
      BY <3>1, <3>3 DEF Fresh!Next
  <2> QED
    BY <2>2, <2>3, <2>4, CellStep
<1> QED
  BY <1>1, <1>2, BuilderFrame, WatcherFrame, CallFrame DEF Next, vars, diskVars

\* However the build thread, the watcher and the tool calls interleave, every
\* version a session sees of a file was on disk and is no older than one shown
\* before, and a file that was there is missed only when it was edited since or
\* has a removal still to be applied.
THEOREM Implements == Spec => ImplementsFreshIndex
<1>1. Init => Fresh!Init
  BY InitRefines
<1>2. IInv /\ [Next]_vars => [Fresh!Next]_(Fresh!vars)
  BY NextRefines
<1> QED
  BY <1>1, <1>2, Invariance, PTL DEF Spec, ImplementsFreshIndex, Fresh!Spec

=============================================================================
