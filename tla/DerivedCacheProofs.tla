------------------------ MODULE DerivedCacheProofs ------------------------
(***************************************************************************)
(* What DerivedCache promises for any files, any number of builds and hook *)
(* runs, and any history.  The argument: a job during which nothing was    *)
(* edited and nothing committed has read the tree as it still is, and HEAD *)
(* as it still is; so a stamp it puts on, after it saw a clean tree, names *)
(* the commit its files are those of.  A graph that no delta made is that  *)
(* of the job's files from the moment it is built.                         *)
(***************************************************************************)
EXTENDS DerivedCache, TLAPS

Trees == [Files -> Stored]

\* The fields of a job that a graph is not made of keep their types.
JobOK(j) ==
  j \in [pc : {"idle", "read", "stamp", "mine", "parent", "clean", "load", "head", "save"},
         kind : {"build", "hook"}, todo : SUBSET Files, work : Trees,
         head : {j.head}, changed : {j.changed}, removed : {j.removed}, parent : {j.parent},
         clean : {j.clean}, graph : {j.graph}, base : 0..HeadOid, delta : BOOLEAN,
         ends : {j.ends}, sound : BOOLEAN]

TypeInv ==
  /\ disk \in Trees /\ commits \in Seq(Trees) /\ HeadOid \in Nat \ {0}
  /\ job = [p \in Procs |-> job[p]] /\ \A p \in Procs : JobOK(job[p])
  /\ \A p \in Procs : job[p].pc \in {"stamp", "mine", "save"} => job[p].head \in 1..HeadOid
  /\ cache # NoCache =>
       cache.content \in Trees /\ cache.base \in 0..HeadOid /\ cache.sound \in BOOLEAN

\* The graph of a job is that of its files, unless a delta made it.
GraphOf(j) ==
  /\ j.pc \in {"stamp", "mine"} => ~j.delta
  /\ j.pc \in {"stamp", "mine", "head", "save"} => (~j.delta => j.graph = Full(j.work))
  /\ j.pc \in {"idle", "read", "parent", "clean", "load"} => ~j.delta

\* A sound job has read the tree, and HEAD, as they are.
ReadOf(j) ==
  /\ j.pc \notin {"idle", "read"} => j.todo = {}
  /\ (j.pc # "idle" /\ j.sound) => \A f \in Files \ j.todo : j.work[f] = disk[f]
  /\ (j.pc \in {"stamp", "mine", "save"} /\ j.sound) => j.head = HeadOid
  /\ (j.pc = "mine" /\ j.sound /\ j.base # 0) => j.base = HeadOid /\ Clean

IInv ==
  /\ TypeInv /\ \A p \in Procs : GraphOf(job[p]) /\ ReadOf(job[p])
  /\ StampedIsCommitted /\ HitIsHonest

LEMMA IdleOK == TypeInv => JobOK(Idle)
BY DEF TypeInv, JobOK, Idle, NoFiles, Trees, Stored

LEMMA IdleFacts == GraphOf(Idle) /\ ReadOf(Idle)
BY DEF GraphOf, ReadOf, Idle

LEMMA InitInv == Init => IInv
<1> SUFFICES ASSUME Init PROVE IInv
  OBVIOUS
<1>1. disk \in Trees /\ commits = <<disk>> /\ cache = NoCache /\ job = [p \in Procs |-> Idle]
  BY DerivedAssumption DEF Init, Trees
<1>2. commits \in Seq(Trees) /\ HeadOid = 1
  BY <1>1 DEF HeadOid
<1>3. JobOK(Idle)
  BY <1>2 DEF JobOK, Idle, NoFiles, Trees, Stored
<1>4. TypeInv
  BY <1>1, <1>2, <1>3 DEF TypeInv, Idle
<1> QED BY <1>1, <1>4, IdleFacts DEF IInv, StampedIsCommitted, HitIsHonest

-----------------------------------------------------------------------------
\* One job moves on and the cache stays: what is to show of it.
LEMMA JobStays ==
  ASSUME IInv, NEW p \in Procs, NEW j, UNCHANGED <<disk, commits, cache>>,
         job' = [job EXCEPT ![p] = j], JobOK(j), GraphOf(j), ReadOf(j),
         j.pc \in {"stamp", "mine", "save"} => j.head \in 1..HeadOid
  PROVE  IInv'
<1> USE DEF IInv
<1>1. \A q \in Procs : job'[q] = IF q = p THEN j ELSE job[q]
  BY DEF TypeInv
<1>2. HeadOid' = HeadOid /\ Clean' = Clean
  BY DEF HeadOid, Clean, HeadTree
<1>3. TypeInv'
  BY <1>1, <1>2 DEF TypeInv, JobOK
<1>4. \A q \in Procs : GraphOf(job[q])' /\ ReadOf(job[q])'
  BY <1>1, <1>2 DEF GraphOf, ReadOf
<1>5. StampedIsCommitted' /\ HitIsHonest'
  BY DEF StampedIsCommitted, HitIsHonest
<1> QED BY <1>3, <1>4, <1>5

\* A job ends with a new cache.
LEMMA JobSaves ==
  ASSUME IInv, NEW p \in Procs, UNCHANGED <<disk, commits>>, job' = [job EXCEPT ![p] = Idle],
         cache'.content \in Trees, cache'.base \in 0..HeadOid, cache'.sound \in BOOLEAN,
         StampedIsCommitted', HitIsHonest'
  PROVE  IInv'
<1> USE DEF IInv
<1>1. \A q \in Procs : job'[q] = IF q = p THEN Idle ELSE job[q]
  BY DEF TypeInv
<1>2. HeadOid' = HeadOid /\ Clean' = Clean
  BY DEF HeadOid, Clean, HeadTree
<1>3. TypeInv'
  BY <1>1, <1>2, IdleOK DEF TypeInv, JobOK, Idle
<1>4. \A q \in Procs : GraphOf(job[q])' /\ ReadOf(job[q])'
  BY <1>1, <1>2, IdleFacts DEF GraphOf, ReadOf
<1> QED BY <1>3, <1>4

\* A commit adds one tree to the history and leaves the earlier ones alone.
LEMMA AppendKeeps ==
  ASSUME NEW S, NEW C \in Seq(S), NEW t \in S
  PROVE  /\ Append(C, t) \in Seq(S) /\ Len(Append(C, t)) = Len(C) + 1
         /\ \A n \in 1..Len(C) : Append(C, t)[n] = C[n]
OBVIOUS

\* The user acts: no job under way is sound any more.
LEMMA UserInv == IInv /\ UserStep => IInv'
<1> SUFFICES ASSUME IInv, UserStep PROVE IInv'
  OBVIOUS
<1> USE DEF IInv
<1>1. disk' \in Trees /\ commits' \in Seq(Trees) /\ HeadOid' \in Nat \ {0} /\ HeadOid <= HeadOid'
      /\ \A n \in 1..HeadOid : commits'[n] = commits[n]
  <2>1. CASE \E f \in Files : Edit(f)
    BY <2>1 DEF Edit, TypeInv, Trees, HeadOid
  <2>2. CASE \E T \in SUBSET Files : Commit(T)
    <3>1. PICK T \in SUBSET Files : Commit(T)
      BY <2>2
    <3>2. HeadTree \in Trees
      BY DEF TypeInv, HeadTree, HeadOid
    <3>3. [f \in Files |-> IF f \in T THEN disk[f] ELSE HeadTree[f]] \in Trees
      BY <3>2 DEF TypeInv, Trees
    <3>4. /\ disk' = disk
          /\ commits' = Append(commits, [f \in Files |-> IF f \in T THEN disk[f] ELSE HeadTree[f]])
      BY <3>1 DEF Commit
    <3>5. commits \in Seq(Trees) /\ disk \in Trees
      BY DEF TypeInv
    <3>7. PICK t \in Trees : commits' = Append(commits, t)
      BY <3>3, <3>4
    <3>6. commits' \in Seq(Trees) /\ Len(commits') = Len(commits) + 1
          /\ \A n \in 1..Len(commits) : commits'[n] = commits[n]
      BY <3>5, <3>7, AppendKeeps
    <3> QED BY <3>4, <3>5, <3>6 DEF HeadOid
  <2> QED BY <2>1, <2>2 DEF UserStep
<1>2. job' = Disturbed /\ cache' = cache
  BY DEF UserStep, Edit, Commit
<1>3. ASSUME NEW p \in Procs
      PROVE  /\ JobOK(job[p])' /\ GraphOf(job[p])' /\ ReadOf(job[p])'
             /\ job'[p].pc = job[p].pc /\ job'[p].head = job[p].head
  <2>1. CASE job[p].pc = "idle"
    <3>1. job'[p] = job[p]
      BY <1>2, <2>1 DEF Disturbed, At
    <3> QED BY <1>1, <2>1, <3>1 DEF TypeInv, JobOK, GraphOf, ReadOf
  <2>2. CASE job[p].pc # "idle"
    <3>1. job'[p] = [job[p] EXCEPT !.sound = FALSE]
      BY <1>2, <2>2 DEF Disturbed, At
    <3>2. JobOK(job[p])
      BY DEF TypeInv
    <3>3. job'[p].sound = FALSE /\ job'[p].pc = job[p].pc /\ job'[p].delta = job[p].delta
          /\ job'[p].graph = job[p].graph /\ job'[p].work = job[p].work
          /\ job'[p].todo = job[p].todo /\ job'[p].head = job[p].head
      BY <3>1, <3>2 DEF JobOK
    <3>4. HeadOid \in Nat /\ HeadOid' \in Nat
      BY <1>1 DEF TypeInv, HeadOid
    <3>5. job[p].base \in 0..HeadOid'
      BY <1>1, <3>2, <3>4 DEF JobOK
    <3>6. JobOK(job[p])'
      BY <3>1, <3>2, <3>5 DEF JobOK
    <3> QED BY <3>3, <3>6 DEF GraphOf, ReadOf
  <2> QED BY <2>1, <2>2
<1>4. TypeInv'
  <2>1. job' = [p \in Procs |-> job'[p]]
    BY <1>2 DEF Disturbed
  <2>2. \A p \in Procs : job'[p].pc \in {"stamp", "mine", "save"} => job'[p].head \in 1..HeadOid'
    BY <1>1, <1>3 DEF TypeInv
  <2>3. cache' # NoCache => cache'.base \in 0..HeadOid'
    BY <1>1, <1>2 DEF TypeInv
  <2>4. cache' # NoCache => cache'.content \in Trees /\ cache'.sound \in BOOLEAN
    BY <1>2 DEF TypeInv
  <2> QED BY <1>1, <1>3, <2>1, <2>2, <2>3, <2>4 DEF TypeInv
<1>5. StampedIsCommitted' /\ HitIsHonest'
  BY <1>1, <1>2 DEF StampedIsCommitted, HitIsHonest, TypeInv
<1> QED BY <1>3, <1>4, <1>5

\* What is known of a job from the types of all.
LEMMA JobFields ==
  ASSUME TypeInv, NEW p \in Procs
  PROVE  /\ JobOK(job[p]) /\ job[p].work \in Trees /\ job[p].sound \in BOOLEAN
         /\ job[p].delta \in BOOLEAN /\ job[p].base \in 0..HeadOid /\ job[p].todo \subseteq Files
BY DEF TypeInv, JobOK

LEMMA ScanInv ==
  ASSUME IInv, NEW p \in Procs, NEW kind \in {"build", "hook"}, Scan(p, kind),
         UNCHANGED <<disk, edits, commits, cache>>
  PROVE  IInv'
<1> DEFINE j == [Idle EXCEPT !.pc = "read", !.kind = kind, !.todo = {f \in Files : disk[f] # Absent}]
<1>1. job' = [job EXCEPT ![p] = j]
  BY DEF Scan
<1>2. JobOK(Idle)
  BY IdleOK DEF IInv
<1>3. j.pc = "read" /\ ~j.delta /\ j.todo = {f \in Files : disk[f] # Absent} /\ j.work = NoFiles
  BY DEF Idle
<1>4. JobOK(j)
  BY <1>2 DEF JobOK, Idle
<1>5. GraphOf(j) /\ ReadOf(j)
  BY <1>3 DEF GraphOf, ReadOf, NoFiles
<1> QED BY <1>1, <1>3, <1>4, <1>5, JobStays

LEMMA ReadInv == ASSUME IInv, NEW p \in Procs, NEW f \in Files, Read(p, f) PROVE IInv'
<1> DEFINE j == [job[p] EXCEPT !.todo = @ \ {f}, !.work[f] = disk[f]]
<1>1. TypeInv /\ JobOK(job[p]) /\ GraphOf(job[p]) /\ ReadOf(job[p]) /\ job[p].pc = "read"
  BY JobFields DEF IInv, Read, At
<1>2. job' = [job EXCEPT ![p] = j] /\ UNCHANGED <<disk, commits, cache>>
  BY DEF Read
<1>3. job[p].work \in Trees /\ disk[f] \in Stored /\ job[p].todo \subseteq Files
  BY <1>1, JobFields DEF TypeInv, Trees
<1>4. /\ j.pc = "read" /\ j.todo = job[p].todo \ {f}
      /\ j.work = [job[p].work EXCEPT ![f] = disk[f]]
      /\ j.sound = job[p].sound /\ j.delta = job[p].delta
  BY <1>1 DEF JobOK
<1>5. JobOK(j)
  BY <1>1, <1>3 DEF JobOK, Trees
<1>6. GraphOf(j)
  BY <1>1, <1>4 DEF GraphOf
<1>7. ReadOf(j)
  BY <1>1, <1>3, <1>4 DEF ReadOf, Trees
<1> QED BY <1>2, <1>4, <1>5, <1>6, <1>7, JobStays

LEMMA BuildHitInv == ASSUME IInv, NEW p \in Procs, BuildHit(p) PROVE IInv'
<1>1. job' = [job EXCEPT ![p] = Idle] /\ UNCHANGED <<disk, commits, cache>>
  BY DEF BuildHit
<1>2. JobOK(Idle) /\ Idle.pc = "idle"
  BY IdleOK DEF IInv, Idle
<1> QED BY <1>1, <1>2, IdleFacts, JobStays

LEMMA BuildMissInv == ASSUME IInv, NEW p \in Procs, BuildMiss(p) PROVE IInv'
<1> DEFINE j == [job[p] EXCEPT !.pc = "stamp", !.head = HeadOid,
                               !.graph = Full(job[p].work), !.ends = Ends(job[p].work)]
<1>1. TypeInv /\ JobOK(job[p]) /\ GraphOf(job[p]) /\ ReadOf(job[p])
      /\ job[p].pc = "read" /\ job[p].todo = {}
  BY JobFields DEF IInv, BuildMiss, BuildDone, At
<1>2. job' = [job EXCEPT ![p] = j] /\ UNCHANGED <<disk, commits, cache>>
  BY DEF BuildMiss
<1>3. /\ j.pc = "stamp" /\ j.todo = {} /\ j.work = job[p].work /\ j.head = HeadOid
      /\ j.graph = Full(j.work) /\ j.sound = job[p].sound /\ j.delta = job[p].delta
  BY <1>1 DEF JobOK
<1>4. JobOK(j)
  BY <1>1 DEF JobOK
<1>5. GraphOf(j) /\ ReadOf(j)
  BY <1>1, <1>3 DEF GraphOf, ReadOf
<1>6. j.head \in 1..HeadOid
  BY <1>1, <1>3 DEF TypeInv
<1> QED BY <1>2, <1>4, <1>5, <1>6, JobStays

LEMMA BuildDeferInv == ASSUME IInv, NEW p \in Procs, BuildDefer(p) PROVE IInv'
<1> DEFINE j == [job[p] EXCEPT !.pc = "mine", !.base = Stamp(job[p].head)]
<1>1. TypeInv /\ JobOK(job[p]) /\ GraphOf(job[p]) /\ ReadOf(job[p]) /\ job[p].pc = "stamp"
      /\ job[p].head \in 1..HeadOid
  BY JobFields DEF IInv, BuildDefer, At, TypeInv
<1>2. job' = [job EXCEPT ![p] = j] /\ UNCHANGED <<disk, commits, cache>>
  BY DEF BuildDefer
<1>3. /\ j.pc = "mine" /\ j.todo = job[p].todo /\ j.work = job[p].work /\ j.head = job[p].head
      /\ j.graph = job[p].graph /\ j.sound = job[p].sound /\ j.delta = job[p].delta
      /\ j.base = Stamp(job[p].head)
  BY <1>1 DEF JobOK
<1>4. Stamp(job[p].head) \in 0..HeadOid /\ (Stamp(job[p].head) # 0 => Stamp(job[p].head) = job[p].head /\ Clean)
  BY <1>1 DEF Stamp, TypeInv
<1>5. JobOK(j)
  BY <1>1, <1>4 DEF JobOK
<1>6. GraphOf(j) /\ ReadOf(j)
  BY <1>1, <1>3, <1>4 DEF GraphOf, ReadOf
<1> QED BY <1>1, <1>2, <1>3, <1>5, <1>6, JobStays

\* A sound job whose tree was clean has read what HEAD has of every tracked file.
LEMMA CleanRead ==
  ASSUME IInv, NEW p \in Procs, job[p].pc \in {"stamp", "mine", "save"}, job[p].sound, Clean,
         NEW f \in Files, commits[HeadOid][f] # Absent
  PROVE  job[p].work[f] = commits[HeadOid][f]
<1>1. ReadOf(job[p])
  BY DEF IInv
<1>2. job[p].work[f] = disk[f]
  BY <1>1 DEF ReadOf
<1> QED BY <1>2 DEF Clean, HeadTree

\* Saving what a job has, under a stamp that a clean tree earned.
LEMMA SaveInv ==
  ASSUME IInv, NEW p \in Procs, job[p].pc \in {"stamp", "save"},
         cache' = Saved(p, Stamp(job[p].head)), job' = [job EXCEPT ![p] = Idle],
         UNCHANGED <<disk, edits, commits>>
  PROVE  IInv'
<1>1. TypeInv /\ JobOK(job[p]) /\ GraphOf(job[p]) /\ ReadOf(job[p]) /\ job[p].head \in 1..HeadOid
  BY JobFields DEF IInv, TypeInv
<1> DEFINE base == Stamp(job[p].head)
<1>2. /\ cache'.content = job[p].work /\ cache'.graph = job[p].graph /\ cache'.base = base
      /\ cache'.sound = job[p].sound /\ cache'.delta = job[p].delta
  BY DEF Saved
<1>3. base \in 0..HeadOid /\ (base # 0 => base = job[p].head /\ Clean)
  BY <1>1 DEF Stamp, TypeInv
<1>4. StampedIsCommitted'
  <2> SUFFICES ASSUME base # 0, job[p].sound, NEW f \in Files, commits[base][f] # Absent
               PROVE  job[p].work[f] = commits[base][f]
    BY <1>2 DEF StampedIsCommitted
  <2>1. base = HeadOid /\ Clean
    BY <1>1, <1>3 DEF ReadOf
  <2> QED BY <2>1, CleanRead
<1>5. HitIsHonest'
  BY <1>1, <1>2 DEF HitIsHonest, GraphOf
<1>6. cache'.content \in Trees /\ cache'.sound \in BOOLEAN /\ cache'.base \in 0..HeadOid
  BY <1>1, <1>2, <1>3, JobFields
<1> QED BY <1>4, <1>5, <1>6, JobSaves

LEMMA MineSaveInv == ASSUME IInv, NEW p \in Procs, MineSave(p) PROVE IInv'
<1>1. TypeInv /\ JobOK(job[p]) /\ GraphOf(job[p]) /\ ReadOf(job[p]) /\ job[p].pc = "mine"
      /\ job[p].base \in 0..HeadOid /\ job[p].work \in Trees
  BY JobFields DEF IInv, MineSave, At
<1> DEFINE Held(T) == [f \in Files |-> IF f \in T THEN disk[f] ELSE job[p].work[f]]
           G(T) == FullGraph(Held(T), Bridges(job[p].work), SchemaOf(job[p].work))
<1>2. PICK T \in SUBSET Files :
        cache' = [Saved(p, job[p].base) EXCEPT !.graph = G(T), !.replaced = (T # {})]
  BY DEF MineSave
<1>3. /\ cache'.content = job[p].work /\ cache'.graph = G(T) /\ cache'.base = job[p].base
      /\ cache'.sound = job[p].sound /\ cache'.delta = job[p].delta
      /\ cache'.replaced = (T # {})
  BY <1>2 DEF Saved
<1>4. StampedIsCommitted'
  <2>0. commits' = commits
    BY DEF MineSave
  <2> SUFFICES ASSUME job[p].base # 0, job[p].sound, NEW f \in Files,
                      commits[job[p].base][f] # Absent
               PROVE  job[p].work[f] = commits[job[p].base][f]
    BY <1>3, <2>0 DEF StampedIsCommitted
  <2>1. job[p].base = HeadOid /\ Clean
    BY <1>1 DEF ReadOf
  <2> QED BY <1>1, <2>1, CleanRead
<1>5. HitIsHonest'
  <2>1. T = {} => Held(T) = job[p].work
    BY <1>1 DEF Trees
  <2>2. T = {} => G(T) = Full(job[p].work)
    BY <2>1 DEF Full
  <2> QED BY <1>3, <2>2 DEF HitIsHonest
<1>6. cache'.content \in Trees /\ cache'.sound \in BOOLEAN /\ cache'.base \in 0..HeadOid
  BY <1>1, <1>3, JobFields
<1> QED BY <1>4, <1>5, <1>6, JobSaves DEF MineSave

\* The steps of the hook up to its save.
LEMMA HookInv ==
  ASSUME IInv, NEW p \in Procs, HookHead(p) \/ HookParent(p) \/ HookClean(p) \/ HookStamp(p) PROVE IInv'
<1>1. TypeInv /\ JobOK(job[p]) /\ GraphOf(job[p]) /\ ReadOf(job[p]) /\ HeadOid \in Nat \ {0}
  BY JobFields DEF IInv, TypeInv
<1>2. UNCHANGED <<disk, commits, cache>>
  BY DEF HookHead, HookParent, HookClean, HookStamp
<1>3. CASE HookHead(p)
  <2> DEFINE j == [job[p] EXCEPT !.pc = "parent", !.changed = ChangedInHead,
                                 !.removed = RemovedInHead]
  <2>1. job' = [job EXCEPT ![p] = j] /\ job[p].pc = "read" /\ job[p].todo = {}
    BY <1>3 DEF HookHead, At
  <2>2. /\ j.pc = "parent" /\ j.todo = {} /\ j.work = job[p].work
        /\ j.sound = job[p].sound /\ j.delta = job[p].delta
    BY <1>1, <2>1 DEF JobOK
  <2>3. JobOK(j)
    BY <1>1 DEF JobOK
  <2>4. GraphOf(j) /\ ReadOf(j)
    BY <1>1, <2>1, <2>2 DEF GraphOf, ReadOf
  <2> QED BY <1>2, <2>1, <2>2, <2>3, <2>4, JobStays
<1>6. CASE HookParent(p)
  <2> DEFINE j == [job[p] EXCEPT !.pc = "clean", !.parent = HeadParent]
  <2>1. job' = [job EXCEPT ![p] = j] /\ job[p].pc = "parent"
    BY <1>6 DEF HookParent, At
  <2>2. /\ j.pc = "clean" /\ j.todo = job[p].todo /\ j.work = job[p].work
        /\ j.sound = job[p].sound /\ j.delta = job[p].delta
    BY <1>1 DEF JobOK
  <2>3. JobOK(j)
    BY <1>1 DEF JobOK
  <2>4. GraphOf(j) /\ ReadOf(j)
    BY <1>1, <2>1, <2>2 DEF GraphOf, ReadOf
  <2> QED BY <1>2, <2>1, <2>2, <2>3, <2>4, JobStays
<1>4. CASE HookClean(p)
  <2> DEFINE j == [job[p] EXCEPT !.pc = "load", !.clean = Clean]
  <2>1. job' = [job EXCEPT ![p] = j] /\ job[p].pc = "clean"
    BY <1>4 DEF HookClean, At
  <2>2. /\ j.pc = "load" /\ j.todo = job[p].todo /\ j.work = job[p].work
        /\ j.sound = job[p].sound /\ j.delta = job[p].delta
    BY <1>1 DEF JobOK
  <2>3. JobOK(j)
    BY <1>1 DEF JobOK
  <2>4. GraphOf(j) /\ ReadOf(j)
    BY <1>1, <2>1, <2>2 DEF GraphOf, ReadOf
  <2> QED BY <1>2, <2>1, <2>2, <2>3, <2>4, JobStays
<1>5. CASE HookStamp(p)
  <2> DEFINE j == [job[p] EXCEPT !.pc = "save", !.head = HeadOid]
  <2>1. job' = [job EXCEPT ![p] = j] /\ job[p].pc = "head"
    BY <1>5 DEF HookStamp, At
  <2>2. /\ j.pc = "save" /\ j.todo = job[p].todo /\ j.work = job[p].work /\ j.head = HeadOid
        /\ j.graph = job[p].graph /\ j.sound = job[p].sound /\ j.delta = job[p].delta
    BY <1>1 DEF JobOK
  <2>3. JobOK(j)
    BY <1>1 DEF JobOK
  <2>4. GraphOf(j) /\ ReadOf(j) /\ j.head \in 1..HeadOid
    BY <1>1, <2>1, <2>2 DEF GraphOf, ReadOf
  <2> QED BY <1>2, <2>1, <2>3, <2>4, JobStays
<1> QED BY <1>3, <1>4, <1>5, <1>6

\* The hook's graph, by delta or in full.
LEMMA HookGraphInv == ASSUME IInv, NEW p \in Procs, HookGraph(p) PROVE IInv'
<1>1. TypeInv /\ JobOK(job[p]) /\ GraphOf(job[p]) /\ ReadOf(job[p]) /\ job[p].pc = "load"
      /\ UNCHANGED <<disk, commits, cache>>
  BY JobFields DEF IInv, HookGraph, At
<1>2. CASE DeltaBase(job[p])
  <2> DEFINE sound == job[p].sound /\ cache.sound /\ cache.content = commits[cache.base]
             j == [job[p] EXCEPT !.pc = "head", !.delta = TRUE,
                     !.graph = Forward(cache.graph, job[p]),
                     !.ends = Ends(job[p].work) \union cache.ends, !.sound = sound]
  <2>1. job' = [job EXCEPT ![p] = j]
    BY <1>2 DEF HookGraph
  <2>2. sound \in BOOLEAN
    OBVIOUS
  <2>3. /\ j.pc = "head" /\ j.todo = job[p].todo /\ j.work = job[p].work
        /\ j.delta = TRUE /\ (j.sound => job[p].sound)
    BY <1>1 DEF JobOK
  <2>4. JobOK(j)
    BY <1>1, <2>2 DEF JobOK
  <2>5. GraphOf(j) /\ ReadOf(j)
    BY <1>1, <2>3 DEF GraphOf, ReadOf
  <2> QED BY <1>1, <2>1, <2>3, <2>4, <2>5, JobStays
<1>3. CASE ~DeltaBase(job[p])
  <2> DEFINE j == [job[p] EXCEPT !.pc = "head", !.graph = Full(job[p].work),
                                 !.ends = Ends(job[p].work)]
  <2>1. job' = [job EXCEPT ![p] = j]
    BY <1>3 DEF HookGraph
  <2>2. /\ j.pc = "head" /\ j.todo = job[p].todo /\ j.work = job[p].work
        /\ j.graph = Full(j.work) /\ j.sound = job[p].sound /\ j.delta = job[p].delta
    BY <1>1 DEF JobOK
  <2>3. JobOK(j)
    BY <1>1 DEF JobOK
  <2>4. GraphOf(j) /\ ReadOf(j)
    BY <1>1, <2>2 DEF GraphOf, ReadOf
  <2> QED BY <1>1, <2>1, <2>2, <2>3, <2>4, JobStays
<1> QED BY <1>2, <1>3

LEMMA StepInv == IInv /\ [Next]_vars => IInv'
<1> SUFFICES ASSUME IInv, [Next]_vars PROVE IInv'
  OBVIOUS
<1>1. CASE UNCHANGED vars
  BY <1>1 DEF vars, IInv, TypeInv, JobOK, GraphOf, ReadOf, StampedIsCommitted, HitIsHonest,
    HeadOid, Clean, HeadTree
<1>2. CASE UserStep
  BY <1>2, UserInv
<1>3. ASSUME NEW p \in Procs, JobStep(p) PROVE IInv'
  <2>1. CASE StartBuild(p) \/ StartHook(p)
    BY <2>1, ScanInv DEF StartBuild, StartHook
  <2>2. CASE BuildSave(p) \/ HookSave(p)
    BY <2>2, SaveInv DEF BuildSave, HookSave, At
  <2> QED BY <1>3, <2>1, <2>2, ReadInv, BuildHitInv, BuildMissInv, BuildDeferInv, MineSaveInv,
    HookInv, HookGraphInv DEF JobStep
<1> QED BY <1>1, <1>2, <1>3 DEF Next

LEMMA Invariance == Spec => []IInv
BY InitInv, StepInv, PTL DEF Spec

-----------------------------------------------------------------------------
\* Whatever is stamped by a job that nothing disturbed is what the commit has:
\* the two moments at which HEAD and the working tree are looked at do no harm.
THEOREM StampsTrue == Spec => []StampedIsCommitted
<1>1. IInv => StampedIsCommitted
  BY DEF IInv
<1> QED BY <1>1, Invariance, PTL

\* A hit in the derived cache gives the graph of the files it is asked for.
THEOREM HitsHonest == Spec => []HitIsHonest
<1>1. IInv => HitIsHonest
  BY DEF IInv
<1> QED BY <1>1, Invariance, PTL

-----------------------------------------------------------------------------
(* Types of graphs.                                                        *)

Triples == Files \X Files \X EdgeTypes

LEMMA AddType ==
  ASSUME NEW g \in GraphType, NEW es \in SUBSET Triples
  PROVE  AddEdges(g, es) \in GraphType
<1>1. \A e \in es : Flip(e) \in Triples
  BY DEF Flip, Triples
<1> QED BY <1>1 DEF AddEdges, GraphType, Triples

LEMMA RemoveType ==
  ASSUME NEW g \in GraphType, NEW sources
  PROVE  RemoveEdgesFor(g, sources) \in GraphType
BY DEF RemoveEdgesFor, GraphType

\* An import resolves to an indexed path, of a file that is there.
LEMMA ImportsShape ==
  ASSUME NEW ix \in Trees, NEW f \in Files
  PROVE  /\ ImportsOf(ix, f) \subseteq Triples
         /\ \A e \in ImportsOf(ix, f) :
              e[1] = f /\ f \in Universe(ix) /\ e[2] \in Universe(ix) /\ e[3] = "import"
<1>1. CASE ix[f] = Absent
  BY <1>1 DEF ImportsOf
<1>2. CASE ix[f] # Absent
  <2>1. Imports[f][ix[f]] \subseteq Seq(Files)
    BY <1>2, ContentAssumption DEF Stored, Trees
  <2>2. ASSUME NEW e \in ImportsOf(ix, f)
        PROVE  \E t \in Universe(ix) \intersect Files : e = <<f, t, "import">>
    <3>1. PICK l \in Imports[f][ix[f]] : \E t \in FirstIn(l, Universe(ix)) : e = <<f, t, "import">>
      BY <1>2, <2>2 DEF ImportsOf, ImportEdges
    <3>2. FirstIn(l, Universe(ix)) \subseteq Universe(ix) \intersect Files
      BY <2>1 DEF FirstIn
    <3> QED BY <3>1, <3>2
  <2> QED BY <1>2, <2>2 DEF Triples, EdgeTypes, Universe
<1> QED BY <1>1, <1>2

LEMMA BridgesShape ==
  ASSUME NEW bs \in SUBSET (Files \X Files)
  PROVE  BridgeEdges(bs) \subseteq Triples
<1>1. \A b \in bs : <<b[1], b[2], "bridge">> \in Triples
  BY DEF Triples, EdgeTypes
<1> QED BY <1>1 DEF BridgeEdges

LEMMA FullType ==
  ASSUME NEW ix \in Trees, NEW bs \in SUBSET (Files \X Files), NEW sc \in SUBSET Files
  PROVE  FullGraph(ix, bs, sc) \in GraphType
<1> DEFINE es == (UNION {ImportsOf(ix, f) : f \in Files}) \union SchemaEdges(ix, sc) \union BridgeEdges(bs)
<1>1. es \in SUBSET Triples
  BY ImportsShape, BridgesShape DEF SchemaEdges, Triples, EdgeTypes
<1>2. EmptyGraph \in GraphType
  BY DEF EmptyGraph, GraphType
<1> HIDE DEF es
<1>3. AddEdges(EmptyGraph, es) \in GraphType
  BY <1>1, <1>2, AddType
<1> QED BY <1>3 DEF FullGraph, es

LEMMA BuildTypes ==
  ASSUME NEW ix \in Trees
  PROVE  Bridges(ix) \subseteq Files \X Files /\ SchemaOf(ix) \subseteq Files
BY DEF Bridges, SchemaOf

LEMMA ForwardType ==
  ASSUME NEW g \in GraphType, NEW j, j.work \in Trees, j.changed \subseteq Files
  PROVE  Forward(g, j) \in GraphType
<1>1. Full(j.work) \in GraphType
  BY BuildTypes, FullType DEF Full
<1> DEFINE bs == {b \in Bridges(j.work) : b[1] \in j.changed}
           es == (UNION {ImportsOf(j.work, f) : f \in j.changed}) \union BridgeEdges(bs)
<1>2. bs \in SUBSET (Files \X Files)
  BY BuildTypes
<1>3. es \in SUBSET Triples
  BY <1>2, ImportsShape, BridgesShape
<1> HIDE DEF es
<1>4. AddEdges(RemoveEdgesFor(g, j.changed), es) \in GraphType
  BY <1>3, RemoveType, AddType
<1> QED BY <1>1, <1>4 DEF Forward, DeltaGraph, es

\* The part of the types that IInv does not need.
MoreTypes ==
  /\ edits \in 0..MaxEdits /\ HeadOid \in 1..MaxCommits
  /\ \A p \in Procs :
       /\ job[p].graph \in GraphType /\ job[p].changed \subseteq Files
       /\ job[p].head \in 0..HeadOid /\ job[p].parent \in 0..HeadOid
  /\ cache # NoCache => cache.head \in 1..HeadOid /\ cache.graph \in GraphType

LEMMA MoreTypesInit == Init => MoreTypes
<1> SUFFICES ASSUME Init PROVE MoreTypes
  OBVIOUS
<1>1. HeadOid = 1 /\ edits = 0 /\ cache = NoCache /\ \A p \in Procs : job[p] = Idle
  BY DEF Init, HeadOid
<1>2. EmptyGraph \in GraphType
  BY DEF EmptyGraph, GraphType
<1>3. Idle.graph = EmptyGraph /\ Idle.changed = {} /\ Idle.head = 0 /\ Idle.parent = 0
  BY DEF Idle
<1> QED BY <1>1, <1>2, <1>3, DerivedAssumption DEF MoreTypes

\* One job moves on.
LEMMA JobTypes ==
  ASSUME IInv, MoreTypes, NEW p \in Procs, NEW j, UNCHANGED <<edits, commits>>,
         job' = [job EXCEPT ![p] = j], j.graph \in GraphType, j.changed \subseteq Files,
         j.head \in 0..HeadOid, j.parent \in 0..HeadOid,
         cache' = cache \/ (cache'.head \in 1..HeadOid /\ cache'.graph \in GraphType)
  PROVE  MoreTypes'
<1>1. \A q \in Procs : job'[q] = IF q = p THEN j ELSE job[q]
  BY DEF IInv, TypeInv
<1>2. HeadOid' = HeadOid
  BY DEF HeadOid
<1> QED BY <1>1, <1>2 DEF MoreTypes

LEMMA IdleTypes == EmptyGraph \in GraphType /\ Idle.graph = EmptyGraph /\ Idle.changed = {}
                     /\ Idle.head = 0 /\ Idle.parent = 0
BY DEF EmptyGraph, GraphType, Idle

\* Saving, or leaving, ends with the job idle.
LEMMA SaveTypes ==
  ASSUME IInv, MoreTypes, NEW p \in Procs, UNCHANGED <<edits, commits>>,
         job' = [job EXCEPT ![p] = Idle],
         cache' = cache \/ (cache'.head \in 1..HeadOid /\ cache'.graph \in GraphType)
  PROVE  MoreTypes'
<1>1. 0 \in 0..HeadOid
  BY DEF MoreTypes
<1> QED BY <1>1, IdleTypes, JobTypes

LEMMA UserTypes == IInv /\ MoreTypes /\ UserStep => MoreTypes'
<1> SUFFICES ASSUME IInv, MoreTypes, UserStep PROVE MoreTypes'
  OBVIOUS
<1>1. /\ HeadOid' \in 1..MaxCommits /\ HeadOid <= HeadOid' /\ edits' \in 0..MaxEdits
      /\ HeadOid \in Nat /\ HeadOid' \in Nat
  <2>1. CASE \E f \in Files : Edit(f)
    BY <2>1, DerivedAssumption DEF Edit, HeadOid, MoreTypes
  <2>2. CASE \E S \in SUBSET Files : Commit(S)
    <3>1. PICK t : commits' = Append(commits, t)
      BY <2>2 DEF Commit
    <3>2. Len(commits') = Len(commits) + 1
      BY <3>1 DEF IInv, TypeInv
    <3> QED BY <2>2, <3>2, DerivedAssumption DEF Commit, HeadOid, MoreTypes
  <2> QED BY <2>1, <2>2 DEF UserStep
<1>2. job' = Disturbed /\ cache' = cache
  BY DEF UserStep, Edit, Commit
<1>3. ASSUME NEW p \in Procs
      PROVE  /\ job'[p].graph = job[p].graph /\ job'[p].changed = job[p].changed
             /\ job'[p].head = job[p].head /\ job'[p].parent = job[p].parent
  <2>1. JobOK(job[p])
    BY DEF IInv, TypeInv
  <2>2. job'[p] = IF At(p, "idle") THEN job[p] ELSE [job[p] EXCEPT !.sound = FALSE]
    BY <1>2 DEF Disturbed
  <2> QED BY <2>1, <2>2 DEF JobOK
<1> QED BY <1>1, <1>2, <1>3 DEF MoreTypes

LEMMA HookTypes ==
  ASSUME IInv, MoreTypes, NEW p \in Procs,
         HookHead(p) \/ HookParent(p) \/ HookClean(p) \/ HookGraph(p) \/ HookStamp(p)
  PROVE  MoreTypes'
<1>1. /\ JobOK(job[p]) /\ job[p].work \in Trees /\ HeadOid \in Nat \ {0}
      /\ job[p].graph \in GraphType /\ job[p].changed \subseteq Files
      /\ job[p].head \in 0..HeadOid /\ job[p].parent \in 0..HeadOid
      /\ UNCHANGED <<edits, commits, cache>>
  BY JobFields DEF IInv, TypeInv, MoreTypes, HookHead, HookParent, HookClean, HookGraph, HookStamp
<1>2. CASE HookHead(p)
  <2> DEFINE j == [job[p] EXCEPT !.pc = "parent", !.changed = ChangedInHead,
                                 !.removed = RemovedInHead]
  <2>1. job' = [job EXCEPT ![p] = j]
    BY <1>2 DEF HookHead
  <2>2. /\ j.graph = job[p].graph /\ j.head = job[p].head
        /\ j.changed = ChangedInHead /\ j.parent = job[p].parent
    BY <1>1 DEF JobOK
  <2>3. ChangedInHead \subseteq Files
    BY DEF ChangedInHead
  <2> QED BY <1>1, <2>1, <2>2, <2>3, JobTypes
<1>6. CASE HookParent(p)
  <2> DEFINE j == [job[p] EXCEPT !.pc = "clean", !.parent = HeadParent]
  <2>1. job' = [job EXCEPT ![p] = j]
    BY <1>6 DEF HookParent
  <2>2. /\ j.graph = job[p].graph /\ j.head = job[p].head
        /\ j.changed = job[p].changed /\ j.parent = HeadParent
    BY <1>1 DEF JobOK
  <2>3. HeadParent \in 0..HeadOid
    BY <1>1 DEF HeadParent
  <2> QED BY <1>1, <2>1, <2>2, <2>3, JobTypes
<1>3. CASE HookClean(p)
  <2> DEFINE j == [job[p] EXCEPT !.pc = "load", !.clean = Clean]
  <2>1. job' = [job EXCEPT ![p] = j]
    BY <1>3 DEF HookClean
  <2>2. /\ j.graph = job[p].graph /\ j.head = job[p].head
        /\ j.changed = job[p].changed /\ j.parent = job[p].parent
    BY <1>1 DEF JobOK
  <2> QED BY <1>1, <2>1, <2>2, JobTypes
<1>4. CASE HookStamp(p)
  <2> DEFINE j == [job[p] EXCEPT !.pc = "save", !.head = HeadOid]
  <2>1. job' = [job EXCEPT ![p] = j]
    BY <1>4 DEF HookStamp
  <2>2. /\ j.graph = job[p].graph /\ j.head = HeadOid
        /\ j.changed = job[p].changed /\ j.parent = job[p].parent
    BY <1>1 DEF JobOK
  <2>3. HeadOid \in 0..HeadOid
    BY <1>1
  <2> HIDE DEF j
  <2> QED BY <1>1, <2>1, <2>2, <2>3, JobTypes
<1>5. CASE HookGraph(p)
  <2>1. PICK j : /\ job' = [job EXCEPT ![p] = j]
                 /\ j.changed = job[p].changed /\ j.head = job[p].head /\ j.parent = job[p].parent
                 /\ \/ DeltaBase(job[p]) /\ j.graph = Forward(cache.graph, job[p])
                    \/ j.graph = Full(job[p].work)
    <3>1. CASE DeltaBase(job[p])
      <4> DEFINE j == [job[p] EXCEPT !.pc = "head", !.delta = TRUE,
                     !.graph = Forward(cache.graph, job[p]),
                     !.ends = Ends(job[p].work) \union cache.ends,
                     !.sound = @ /\ cache.sound /\ cache.content = commits[cache.base]]
      <4>1. job' = [job EXCEPT ![p] = j]
        BY <1>5, <3>1 DEF HookGraph
      <4>2. j.changed = job[p].changed /\ j.head = job[p].head /\ j.parent = job[p].parent
            /\ j.graph = Forward(cache.graph, job[p])
        BY <1>1 DEF JobOK
      <4> HIDE DEF j
      <4> QED BY <3>1, <4>1, <4>2
    <3>2. CASE ~DeltaBase(job[p])
      <4> DEFINE j == [job[p] EXCEPT !.pc = "head", !.graph = Full(job[p].work),
                                     !.ends = Ends(job[p].work)]
      <4>1. job' = [job EXCEPT ![p] = j]
        BY <1>5, <3>2 DEF HookGraph
      <4>2. j.changed = job[p].changed /\ j.head = job[p].head /\ j.parent = job[p].parent
            /\ j.graph = Full(job[p].work)
        BY <1>1 DEF JobOK
      <4> HIDE DEF j
      <4> QED BY <4>1, <4>2
    <3> QED BY <3>1, <3>2
  <2>2. DeltaBase(job[p]) => cache.graph \in GraphType
    BY DEF DeltaBase, MoreTypes
  <2>3. j.graph \in GraphType
    BY <1>1, <2>1, <2>2, ForwardType, BuildTypes, FullType DEF Full
  <2> QED BY <1>1, <2>1, <2>3, JobTypes
<1> QED BY <1>2, <1>3, <1>4, <1>5, <1>6

LEMMA BuildTypesKept ==
  ASSUME IInv, MoreTypes, NEW p \in Procs,
         \/ StartBuild(p) \/ StartHook(p) \/ \E f \in Files : Read(p, f)
         \/ BuildHit(p) \/ BuildMiss(p) \/ BuildDefer(p)
  PROVE  MoreTypes'
<1>1. /\ JobOK(job[p]) /\ job[p].work \in Trees /\ HeadOid \in Nat \ {0}
      /\ job[p].graph \in GraphType /\ job[p].changed \subseteq Files
      /\ job[p].head \in 0..HeadOid /\ job[p].parent \in 0..HeadOid
      /\ UNCHANGED <<edits, commits, cache>>
  BY JobFields DEF IInv, TypeInv, MoreTypes, StartBuild, StartHook, Read, BuildHit, BuildMiss,
    BuildDefer
<1>2. CASE StartBuild(p) \/ StartHook(p)
  <2>1. PICK kind : Scan(p, kind)
    BY <1>2 DEF StartBuild, StartHook
  <2> DEFINE j == [Idle EXCEPT !.pc = "read", !.kind = kind, !.todo = {f \in Files : disk[f] # Absent}]
  <2>2. job' = [job EXCEPT ![p] = j]
    BY <2>1 DEF Scan
  <2>3. j.graph = EmptyGraph /\ j.changed = {} /\ j.head = 0 /\ j.parent = 0
    BY DEF Idle
  <2>4. 0 \in 0..HeadOid /\ {} \subseteq Files
    BY <1>1
  <2> HIDE DEF j
  <2> QED BY <1>1, <2>2, <2>3, <2>4, IdleTypes, JobTypes
<1>3. CASE \E f \in Files : Read(p, f)
  <2>1. PICK f \in Files : Read(p, f)
    BY <1>3
  <2> DEFINE j == [job[p] EXCEPT !.todo = @ \ {f}, !.work[f] = disk[f]]
  <2>2. job' = [job EXCEPT ![p] = j]
    BY <2>1 DEF Read
  <2>3. /\ j.graph = job[p].graph /\ j.head = job[p].head
        /\ j.changed = job[p].changed /\ j.parent = job[p].parent
    BY <1>1 DEF JobOK
  <2> QED BY <1>1, <2>2, <2>3, JobTypes
<1>4. CASE BuildHit(p)
  BY <1>1, <1>4, SaveTypes DEF BuildHit
<1>5. CASE BuildMiss(p)
  <2> DEFINE j == [job[p] EXCEPT !.pc = "stamp", !.head = HeadOid,
                                 !.graph = Full(job[p].work), !.ends = Ends(job[p].work)]
  <2>1. job' = [job EXCEPT ![p] = j]
    BY <1>5 DEF BuildMiss
  <2>2. /\ j.graph = Full(job[p].work) /\ j.head = HeadOid
        /\ j.changed = job[p].changed /\ j.parent = job[p].parent
    BY <1>1 DEF JobOK
  <2>3. Full(job[p].work) \in GraphType
    BY <1>1, BuildTypes, FullType DEF Full
  <2>4. HeadOid \in 0..HeadOid
    BY <1>1
  <2> HIDE DEF j
  <2> QED BY <1>1, <2>1, <2>2, <2>3, <2>4, JobTypes
<1>6. CASE BuildDefer(p)
  <2> DEFINE j == [job[p] EXCEPT !.pc = "mine", !.base = Stamp(job[p].head)]
  <2>1. job' = [job EXCEPT ![p] = j]
    BY <1>6 DEF BuildDefer
  <2>2. /\ j.graph = job[p].graph /\ j.head = job[p].head
        /\ j.changed = job[p].changed /\ j.parent = job[p].parent
    BY <1>1 DEF JobOK
  <2> QED BY <1>1, <2>1, <2>2, JobTypes
<1> QED BY <1>2, <1>3, <1>4, <1>5, <1>6

LEMMA SavesTyped ==
  ASSUME IInv, MoreTypes, NEW p \in Procs, BuildSave(p) \/ HookSave(p) \/ MineSave(p)
  PROVE  MoreTypes'
<1>1. /\ job[p].head \in 1..HeadOid /\ job[p].graph \in GraphType /\ job[p].work \in Trees
      /\ disk \in Trees
      /\ UNCHANGED <<edits, commits>> /\ job' = [job EXCEPT ![p] = Idle]
  BY JobFields DEF IInv, TypeInv, MoreTypes, BuildSave, HookSave, MineSave, At
<1>2. CASE BuildSave(p) \/ HookSave(p)
  <2>1. cache'.head = job[p].head /\ cache'.graph = job[p].graph
    BY <1>2 DEF BuildSave, HookSave, Saved
  <2> QED BY <1>1, <2>1, SaveTypes
<1>3. CASE MineSave(p)
  <2>1. PICK T \in SUBSET Files :
          LET held == [f \in Files |-> IF f \in T THEN disk[f] ELSE job[p].work[f]]
          IN  cache' = [Saved(p, job[p].base) EXCEPT
                 !.graph = FullGraph(held, Bridges(job[p].work), SchemaOf(job[p].work)),
                 !.replaced = (T # {})]
    BY <1>3 DEF MineSave
  <2> DEFINE held == [f \in Files |-> IF f \in T THEN disk[f] ELSE job[p].work[f]]
  <2>2. cache'.head = job[p].head
        /\ cache'.graph = FullGraph(held, Bridges(job[p].work), SchemaOf(job[p].work))
    BY <2>1 DEF Saved
  <2>3. held \in Trees
    BY <1>1 DEF Trees
  <2> HIDE DEF held
  <2>4. cache'.graph \in GraphType
    BY <1>1, <2>2, <2>3, BuildTypes, FullType
  <2> QED BY <1>1, <2>2, <2>4, SaveTypes
<1> QED BY <1>2, <1>3

LEMMA MoreTypesStep == IInv /\ MoreTypes /\ [Next]_vars => MoreTypes'
<1> SUFFICES ASSUME IInv, MoreTypes, [Next]_vars PROVE MoreTypes'
  OBVIOUS
<1>1. CASE UNCHANGED vars
  BY <1>1 DEF vars, MoreTypes, HeadOid
<1>2. ASSUME NEW p \in Procs, JobStep(p) PROVE MoreTypes'
  BY <1>2, BuildTypesKept, SavesTyped, HookTypes DEF JobStep
<1> QED BY <1>1, <1>2, UserTypes DEF Next

\* Every variable keeps its type: what is cached is a graph of the repository's
\* files, under a commit that exists.
THEOREM TypeCorrect == Spec => []TypeOK
<1>1. IInv /\ MoreTypes => TypeOK
  <2> SUFFICES ASSUME IInv, MoreTypes PROVE TypeOK
    OBVIOUS
  <2>1. \A p \in Procs : JobOK(job[p]) /\ job[p].work \in Trees /\ job[p].todo \subseteq Files
                         /\ job[p].base \in 0..HeadOid
    BY JobFields DEF IInv
  <2>2. \A p \in Procs :
          job[p].pc \in {"idle", "read", "stamp", "mine", "parent", "clean", "load", "head", "save"}
    BY <2>1 DEF JobOK
  <2>3. \A p \in Procs : job[p].head \in 0..HeadOid /\ job[p].parent \in 0..HeadOid
    BY DEF MoreTypes
  <2>4. disk \in Trees /\ commits \in Seq(Trees) /\ HeadOid \in 1..MaxCommits /\ edits \in 0..MaxEdits
    BY DEF IInv, TypeInv, MoreTypes
  <2>5. cache # NoCache =>
          /\ cache.content \in Trees /\ cache.head \in 1..HeadOid
          /\ cache.graph \in GraphType /\ cache.base \in 0..HeadOid
    BY DEF IInv, TypeInv, MoreTypes
  <2> QED BY <2>1, <2>2, <2>3, <2>4, <2>5 DEF TypeOK, Trees
<1>2. Spec => [](IInv /\ MoreTypes)
  BY InitInv, StepInv, MoreTypesInit, MoreTypesStep, PTL DEF Spec
<1> QED BY <1>1, <1>2, PTL

-----------------------------------------------------------------------------
(* Deltas.  A sound delta starts from the graph of the parent's tree, and   *)
(* the commit names all that changed since.  An import of an unchanged file *)
(* could only come to mean another path if a path appeared or went: what    *)
(* went is structural, and what appeared is no node of the old graph, so    *)
(* structural too, unless a bridge made it a node before it was there.      *)

ImportsIn(g, f) == {e \in g.edges : e[1] = f /\ e[3] = "import"}

\* The nodes of a graph are indexed files and the ends of bridges.
NodesKnown(g, ix, ends) ==
  \A x \in Files : (ContainsNode(g, x) /\ x \notin ends) => x \in Universe(ix)

LEMMA FullEdges ==
  ASSUME NEW ix
  PROVE  \A e : e \in Full(ix).edges <=>
                 \/ \E f \in Files : e \in ImportsOf(ix, f)
                 \/ e \in SchemaEdges(ix, SchemaOf(ix))
                 \/ e \in BridgeEdges(Bridges(ix))
BY DEF Full, FullGraph, AddEdges, EmptyGraph

LEMMA BridgeEnds ==
  ASSUME NEW ix
  PROVE  \A e \in BridgeEdges(Bridges(ix)) :
           e[1] \in Ends(ix) /\ e[2] \in Ends(ix) /\ e[3] = "bridge"
<1>1. \A b \in Bridges(ix) : b[1] \in Ends(ix) /\ b[2] \in Ends(ix)
  BY DEF Ends
<1>2. \A e \in BridgeEdges(Bridges(ix)) : \E b \in Bridges(ix) : e = <<b[1], b[2], "bridge">>
  BY DEF BridgeEdges
<1> QED BY <1>1, <1>2

LEMMA SchemaShape ==
  ASSUME NEW ix \in Trees
  PROVE  \A e \in SchemaEdges(ix, SchemaOf(ix)) :
           e[1] \in Universe(ix) /\ e[2] \in Universe(ix) /\ e[3] = "schema"
<1>1. \A f \in Files : ix[f] \in Queries \/ ix[f] \in Tables => f \in Universe(ix)
  BY ContentAssumption DEF Universe
<1>2. \A e \in SchemaEdges(ix, SchemaOf(ix)) :
        \E f, t \in Files : ix[f] \in Queries /\ ix[t] \in Tables /\ e = <<f, t, "schema">>
  BY DEF SchemaEdges, SchemaOf
<1> QED BY <1>1, <1>2

\* A full rebuild: its nodes, and its imports.
LEMMA FullNodes ==
  ASSUME NEW ix \in Trees
  PROVE  NodesKnown(Full(ix), ix, Ends(ix))
<1>1. ASSUME NEW e \in Full(ix).edges
      PROVE  e[1] \in Universe(ix) \union Ends(ix) /\ e[2] \in Universe(ix) \union Ends(ix)
  BY FullEdges, ImportsShape, BridgeEnds, SchemaShape
<1>2. ASSUME NEW r \in Full(ix).reverse
      PROVE  \E e \in Full(ix).edges : r = Flip(e)
  BY DEF Full, FullGraph, AddEdges, EmptyGraph
<1>3. ASSUME NEW r \in Full(ix).reverse
      PROVE  r[1] \in Universe(ix) \union Ends(ix)
  BY <1>1, <1>2 DEF Flip
<1> QED BY <1>1, <1>3 DEF NodesKnown, ContainsNode

LEMMA FullImports ==
  ASSUME NEW ix \in Trees, NEW f \in Files
  PROVE  ImportsIn(Full(ix), f) = ImportsOf(ix, f)
<1>1. \A g \in Files : \A e \in ImportsOf(ix, g) : e[1] = g /\ e[3] = "import"
  BY ImportsShape
<1>2. \A e \in Full(ix).edges :
        e[3] = "import" => \E g \in Files : e \in ImportsOf(ix, g)
  BY FullEdges, BridgeEnds, SchemaShape
<1>3. ImportsOf(ix, f) \subseteq Full(ix).edges
  BY FullEdges
<1> QED BY <1>1, <1>2, <1>3 DEF ImportsIn

\* What the first candidate resolves to depends on the candidates' presence.
LEMMA SameImports ==
  ASSUME NEW ix \in Trees, NEW iy \in Trees, NEW f \in Files, ix[f] = iy[f],
         \A c \in Targets(ix, f) : c \in Universe(ix) <=> c \in Universe(iy)
  PROVE  ImportsOf(ix, f) = ImportsOf(iy, f)
<1>1. CASE ix[f] = Absent
  BY <1>1 DEF ImportsOf
<1>2. CASE ix[f] # Absent
  <2>1. Imports[f][ix[f]] \subseteq Seq(Files)
    BY <1>2, ContentAssumption DEF Stored, Trees
  <2>2. ASSUME NEW l \in Imports[f][ix[f]]
        PROVE  FirstIn(l, Universe(ix)) = FirstIn(l, Universe(iy))
    <3>1. \A i \in DOMAIN l : l[i] \in Universe(ix) <=> l[i] \in Universe(iy)
      BY <1>2 DEF Targets
    <3>2. DOMAIN l = 1..Len(l) /\ Len(l) \in Nat
      BY <2>1
    <3>3. \A j \in 1..Len(l) : 1..j - 1 \subseteq 1..Len(l)
      BY <3>2
    <3> QED BY <3>1, <3>2, <3>3 DEF FirstIn
  <2> QED BY <1>2, <2>2 DEF ImportsOf, ImportEdges
<1> QED BY <1>1, <1>2

LEMMA TargetFiles ==
  ASSUME NEW ix \in Trees, NEW f \in Files
  PROVE  Targets(ix, f) \subseteq Files
<1>1. ix[f] # Absent => Imports[f][ix[f]] \subseteq Seq(Files)
  BY ContentAssumption DEF Stored, Trees
<1> QED BY <1>1 DEF Targets

LEMMA DeltaNodes ==
  ASSUME NEW g, NEW ix \in Trees, NEW changed \in SUBSET Files, NEW x \in Files,
         ContainsNode(DeltaGraph(g, ix, Bridges(ix), changed), x)
  PROVE  ContainsNode(g, x) \/ x \in Universe(ix) \/ x \in Ends(ix)
<1> DEFINE bs == {b \in Bridges(ix) : b[1] \in changed}
           es == (UNION {ImportsOf(ix, f) : f \in changed}) \union BridgeEdges(bs)
           h == AddEdges(RemoveEdgesFor(g, changed), es)
<1>1. \A e \in BridgeEdges(bs) : e \in BridgeEdges(Bridges(ix))
  BY DEF BridgeEdges
<1>2. \A e \in es : /\ e[1] \in Universe(ix) \union Ends(ix)
                    /\ e[2] \in Universe(ix) \union Ends(ix)
  BY <1>1, ImportsShape, BridgeEnds
<1> HIDE DEF es
<1>3. \A e \in h.edges : e \in g.edges \/ e \in es
  BY DEF AddEdges, RemoveEdgesFor
<1>4. \A r \in h.reverse : r \in g.reverse \/ \E e \in es : r = Flip(e)
  BY DEF AddEdges, RemoveEdgesFor
<1>5. DeltaGraph(g, ix, Bridges(ix), changed) = h
  BY DEF DeltaGraph, es
<1> HIDE DEF h
<1>6. \A e \in es : Flip(e)[1] = e[2]
  BY DEF Flip
<1> QED BY <1>2, <1>3, <1>4, <1>5, <1>6 DEF ContainsNode

LEMMA DeltaImports ==
  ASSUME NEW g, NEW ix \in Trees, NEW changed \in SUBSET Files, NEW f \in Files
  PROVE  ImportsIn(DeltaGraph(g, ix, Bridges(ix), changed), f) =
           IF f \in changed THEN ImportsOf(ix, f) ELSE ImportsIn(g, f)
<1> DEFINE bs == {b \in Bridges(ix) : b[1] \in changed}
           h == DeltaGraph(g, ix, Bridges(ix), changed)
<1>1. \A e \in BridgeEdges(bs) : e[3] = "bridge"
  BY DEF BridgeEdges
<1>2. \A k \in Files : \A e \in ImportsOf(ix, k) : e[1] = k /\ e[3] = "import"
  BY ImportsShape
<1>3. \A e : e \in h.edges <=>
         \/ e \in g.edges /\ e[1] \notin changed
         \/ \E k \in changed : e \in ImportsOf(ix, k)
         \/ e \in BridgeEdges(bs)
  BY DEF DeltaGraph, AddEdges, RemoveEdgesFor
<1> HIDE DEF h, bs
<1>4. CASE f \in changed
  <2>1. \A e : e \in ImportsIn(h, f) <=> e \in ImportsOf(ix, f)
    BY <1>1, <1>2, <1>3, <1>4 DEF ImportsIn
  <2> QED BY <1>4, <2>1 DEF h
<1>5. CASE f \notin changed
  <2>1. \A e : e \in ImportsIn(h, f) <=> e \in ImportsIn(g, f)
    BY <1>1, <1>2, <1>3, <1>5 DEF ImportsIn
  <2> QED BY <1>5, <2>1 DEF h, ImportsIn
<1> QED BY <1>4, <1>5

\* What a sound hook has noted of the commit is still so.
NotedOf(j) ==
  /\ (j.sound /\ j.pc \in {"parent", "clean", "load"}) =>
       j.changed = ChangedInHead /\ j.removed = RemovedInHead
  /\ (j.sound /\ j.pc \in {"clean", "load"}) => j.parent = HeadParent
  /\ (j.sound /\ j.pc = "load" /\ j.clean) => Clean

\* The graph of a sound job is as good as a full one, off the ends of bridges.
GoodGraph(j) ==
  /\ NodesKnown(j.graph, j.work, j.ends)
  /\ \A f \in Files :
       (AsCommitted(j, f) /\ Targets(j.work, f) \intersect j.ends = {}) =>
         ImportsIn(j.graph, f) = ImportsOf(j.work, f)

JobGood(j) == (j.sound /\ j.pc \in {"stamp", "mine", "head", "save"}) => GoodGraph(j)

\* So is a graph that a sound job has cached for the very tree of a commit.
CacheGood ==
  (/\ cache # NoCache /\ cache.base # 0 /\ cache.sound
   /\ cache.content = commits[cache.base]) =>
    /\ NodesKnown(cache.graph, cache.content, cache.ends)
    /\ \A f \in Files : Targets(cache.content, f) \intersect cache.ends = {} =>
         ImportsIn(cache.graph, f) = ImportsOf(cache.content, f)

DeltaInv == CacheGood /\ \A p \in Procs : NotedOf(job[p]) /\ JobGood(job[p])

LEMMA IdleGood == NotedOf(Idle) /\ JobGood(Idle)
BY DEF NotedOf, JobGood, Idle

LEMMA DeltaInit == Init => DeltaInv
<1> SUFFICES ASSUME Init PROVE DeltaInv
  OBVIOUS
<1>1. cache = NoCache /\ \A p \in Procs : job[p] = Idle
  BY DEF Init
<1> QED BY <1>1, IdleGood DEF DeltaInv, CacheGood

\* One job moves on, and the cache is good.
LEMMA JobDelta ==
  ASSUME IInv, DeltaInv, NEW p \in Procs, NEW j, UNCHANGED <<disk, commits>>,
         job' = [job EXCEPT ![p] = j], NotedOf(j), JobGood(j), cache' = cache \/ CacheGood'
  PROVE  DeltaInv'
<1>1. \A q \in Procs : job'[q] = IF q = p THEN j ELSE job[q]
  BY DEF IInv, TypeInv
<1>2. /\ HeadTree' = HeadTree /\ Clean' = Clean /\ HeadOid' = HeadOid
      /\ ChangedInHead' = ChangedInHead /\ RemovedInHead' = RemovedInHead
      /\ HeadParent' = HeadParent
  BY DEF HeadTree, HeadOid, Clean, ChangedInHead, RemovedInHead, HeadParent, ParentTree
<1>3. ASSUME NEW q \in Procs PROVE NotedOf(job[q])' /\ JobGood(job[q])'
  BY <1>1, <1>2 DEF DeltaInv, NotedOf, JobGood, GoodGraph, AsCommitted
<1>4. CacheGood'
  BY DEF DeltaInv, CacheGood
<1> QED BY <1>3, <1>4 DEF DeltaInv

LEMMA UserDelta == IInv /\ DeltaInv /\ UserStep => DeltaInv'
<1> SUFFICES ASSUME IInv, DeltaInv, UserStep PROVE DeltaInv'
  OBVIOUS
<1>1. job' = Disturbed /\ cache' = cache
  BY DEF UserStep, Edit, Commit
<1>2. ASSUME NEW p \in Procs PROVE NotedOf(job[p])' /\ JobGood(job[p])'
  <2>1. CASE job[p].pc = "idle"
    <3>1. job'[p] = job[p]
      BY <1>1, <2>1 DEF Disturbed, At
    <3> QED BY <2>1, <3>1 DEF NotedOf, JobGood
  <2>2. CASE job[p].pc # "idle"
    <3>1. JobOK(job[p]) /\ job'[p] = [job[p] EXCEPT !.sound = FALSE]
      BY <1>1, <2>2 DEF Disturbed, At, IInv, TypeInv
    <3>2. job'[p].sound = FALSE
      BY <3>1 DEF JobOK
    <3> QED BY <3>2 DEF NotedOf, JobGood
  <2> QED BY <2>1, <2>2
<1>3. \A n \in 1..HeadOid : commits'[n] = commits[n]
  <2>1. CASE \E S \in SUBSET Files : Commit(S)
    <3>1. PICK t : commits' = Append(commits, t)
      BY <2>1 DEF Commit
    <3> QED BY <3>1 DEF HeadOid, IInv, TypeInv
  <2>2. CASE \E f \in Files : Edit(f)
    BY <2>2 DEF Edit
  <2> QED BY <2>1, <2>2 DEF UserStep
<1>4. cache # NoCache /\ cache.base # 0 => cache.base \in 1..HeadOid
  BY DEF IInv, TypeInv
<1>5. CacheGood'
  BY <1>1, <1>3, <1>4 DEF DeltaInv, CacheGood
<1> QED BY <1>2, <1>5 DEF DeltaInv

\* The delta itself.
LEMMA ForwardGood ==
  ASSUME IInv, DeltaInv, NEW p \in Procs, job[p].pc = "load", DeltaBase(job[p]), job[p].sound,
         cache.sound, cache.content = commits[cache.base],
         NEW j, j.work = job[p].work, j.graph = Forward(cache.graph, job[p]),
         j.ends = Ends(job[p].work) \union cache.ends
  PROVE  GoodGraph(j)
<1> DEFINE ix == job[p].work
           iy == cache.content
           g == cache.graph
           changed == job[p].changed
<1>1. /\ ix \in Trees /\ iy \in Trees /\ HeadTree \in Trees /\ changed \subseteq Files
      /\ \A f \in Files : ix[f] = disk[f]
  BY JobFields DEF IInv, TypeInv, DeltaInv, NotedOf, ReadOf, DeltaBase, HeadTree, HeadOid,
    ChangedInHead
<1>2. /\ changed = {f \in Files : HeadTree[f] # Absent /\ HeadTree[f] # iy[f]}
      /\ job[p].removed = {f \in Files : HeadTree[f] = Absent /\ iy[f] # Absent}
  <2>1. changed = ChangedInHead /\ job[p].removed = RemovedInHead /\ job[p].parent = HeadOid - 1
    BY DEF DeltaInv, NotedOf, HeadParent
  <2>2. HeadOid # 1 /\ cache.base = HeadOid - 1
    BY <2>1 DEF DeltaBase
  <2>3. ParentTree = iy
    BY <2>2 DEF ParentTree
  <2> QED BY <2>1, <2>3 DEF ChangedInHead, RemovedInHead
<1>3. \A f \in Files : HeadTree[f] # Absent => ix[f] = HeadTree[f]
  BY <1>1 DEF DeltaInv, NotedOf, DeltaBase, Clean
<1>4. /\ NodesKnown(g, iy, cache.ends)
      /\ \A f \in Files : Targets(iy, f) \intersect cache.ends = {} => ImportsIn(g, f) = ImportsOf(iy, f)
  BY DEF DeltaInv, CacheGood, DeltaBase
<1>5. CASE j.graph = Full(ix)
  <2>1. NodesKnown(j.graph, ix, j.ends)
    BY <1>1, <1>5, FullNodes DEF NodesKnown
  <2> QED BY <1>1, <1>5, <2>1, FullImports DEF GoodGraph
<1>6. CASE ~Structural(g, changed, job[p].removed) /\ j.graph = DeltaGraph(g, ix, Bridges(ix), changed)
  <2>1. job[p].removed = {} /\ \A x \in changed : ContainsNode(g, x)
    BY <1>6 DEF Structural
  <2>2. \A x \in Files : iy[x] # Absent => HeadTree[x] # Absent
    BY <1>2, <2>1
  <2>3. \A x \in Universe(iy) : x \in Universe(ix)
    BY <1>3, <2>2 DEF Universe
  <2>4. NodesKnown(j.graph, ix, j.ends)
    BY <1>1, <1>4, <1>6, <2>3, DeltaNodes DEF NodesKnown
  <2>5. ASSUME NEW f \in Files, AsCommitted(j, f), Targets(ix, f) \intersect j.ends = {}
        PROVE  ImportsIn(j.graph, f) = ImportsOf(ix, f)
    <3>1. CASE f \in changed
      BY <1>1, <1>6, <3>1, DeltaImports
    <3>2. CASE f \notin changed
      <4>1. ImportsIn(j.graph, f) = ImportsIn(g, f)
        BY <1>1, <1>6, <3>2, DeltaImports
      <4>2. \A x \in {f} \union Targets(ix, f) : ix[x] = HeadTree[x] /\ x \in Files
        BY <1>1, <2>5, TargetFiles DEF AsCommitted
      <4>3. iy[f] = ix[f]
        BY <1>2, <2>2, <3>2, <4>2
      <4>4. Targets(iy, f) = Targets(ix, f)
        BY <4>3 DEF Targets
      <4>5. ImportsIn(g, f) = ImportsOf(iy, f)
        BY <1>4, <2>5, <4>4
      <4>6. ASSUME NEW c \in Targets(iy, f), c \in Universe(ix) PROVE c \in Universe(iy)
        <5>1. c \in Files /\ HeadTree[c] # Absent
          BY <4>2, <4>4, <4>6 DEF Universe
        <5>2. CASE c \in changed
          <6>1. ContainsNode(g, c) /\ c \notin cache.ends
            BY <2>1, <2>5, <4>4, <4>6, <5>2
          <6> QED BY <1>4, <5>1, <6>1 DEF NodesKnown
        <5>3. CASE c \notin changed
          BY <1>2, <5>1, <5>3 DEF Universe
        <5> QED BY <5>2, <5>3
      <4>7. ImportsOf(iy, f) = ImportsOf(ix, f)
        BY <1>1, <2>3, <4>3, <4>6, SameImports
      <4> QED BY <4>1, <4>5, <4>7
    <3> QED BY <3>1, <3>2
  <2> QED BY <2>4, <2>5 DEF GoodGraph
<1> QED BY <1>5, <1>6 DEF Forward

LEMMA HookGraphDelta == ASSUME IInv, DeltaInv, NEW p \in Procs, HookGraph(p) PROVE DeltaInv'
<1>1. JobOK(job[p]) /\ job[p].work \in Trees /\ job[p].pc = "load"
      /\ UNCHANGED <<disk, commits, cache>>
  BY JobFields DEF IInv, HookGraph, At
<1>2. CASE DeltaBase(job[p])
  <2> DEFINE sound == job[p].sound /\ cache.sound /\ cache.content = commits[cache.base]
             j == [job[p] EXCEPT !.pc = "head", !.delta = TRUE,
                     !.graph = Forward(cache.graph, job[p]),
                     !.ends = Ends(job[p].work) \union cache.ends, !.sound = sound]
  <2>1. job' = [job EXCEPT ![p] = j]
    BY <1>2 DEF HookGraph
  <2>2. /\ j.pc = "head" /\ j.work = job[p].work /\ j.graph = Forward(cache.graph, job[p])
        /\ j.ends = Ends(job[p].work) \union cache.ends /\ j.sound = sound
    BY <1>1 DEF JobOK
  <2> HIDE DEF j
  <2>3. JobGood(j)
    BY <1>1, <1>2, <2>2, ForwardGood DEF JobGood
  <2>4. NotedOf(j)
    BY <2>2 DEF NotedOf
  <2> QED BY <1>1, <2>1, <2>3, <2>4, JobDelta
<1>3. CASE ~DeltaBase(job[p])
  <2> DEFINE j == [job[p] EXCEPT !.pc = "head", !.graph = Full(job[p].work),
                                 !.ends = Ends(job[p].work)]
  <2>1. job' = [job EXCEPT ![p] = j]
    BY <1>3 DEF HookGraph
  <2>2. /\ j.pc = "head" /\ j.work = job[p].work /\ j.graph = Full(j.work)
        /\ j.ends = Ends(j.work)
    BY <1>1 DEF JobOK
  <2> HIDE DEF j
  <2>3. JobGood(j) /\ NotedOf(j)
    BY <1>1, <2>2, FullNodes, FullImports DEF JobGood, GoodGraph, NotedOf
  <2> QED BY <1>1, <2>1, <2>3, JobDelta
<1> QED BY <1>2, <1>3

LEMMA HookNotes ==
  ASSUME IInv, DeltaInv, NEW p \in Procs, HookHead(p) \/ HookParent(p) \/ HookClean(p) \/ HookStamp(p)
  PROVE  DeltaInv'
<1>1. JobOK(job[p]) /\ NotedOf(job[p]) /\ JobGood(job[p]) /\ UNCHANGED <<disk, commits, cache>>
  BY JobFields DEF IInv, DeltaInv, HookHead, HookParent, HookClean, HookStamp
<1>2. CASE HookHead(p)
  <2> DEFINE j == [job[p] EXCEPT !.pc = "parent", !.changed = ChangedInHead,
                                 !.removed = RemovedInHead]
  <2>1. job' = [job EXCEPT ![p] = j]
    BY <1>2 DEF HookHead
  <2>2. j.pc = "parent" /\ j.changed = ChangedInHead /\ j.removed = RemovedInHead
    BY <1>1 DEF JobOK
  <2> HIDE DEF j
  <2>3. NotedOf(j) /\ JobGood(j)
    BY <2>2 DEF NotedOf, JobGood
  <2> QED BY <1>1, <2>1, <2>3, JobDelta
<1>5. CASE HookParent(p)
  <2> DEFINE j == [job[p] EXCEPT !.pc = "clean", !.parent = HeadParent]
  <2>1. job' = [job EXCEPT ![p] = j] /\ job[p].pc = "parent"
    BY <1>5 DEF HookParent, At
  <2>2. /\ j.pc = "clean" /\ j.changed = job[p].changed /\ j.removed = job[p].removed
        /\ j.parent = HeadParent /\ j.sound = job[p].sound
    BY <1>1 DEF JobOK
  <2> HIDE DEF j
  <2>3. NotedOf(j) /\ JobGood(j)
    BY <1>1, <2>1, <2>2 DEF NotedOf, JobGood
  <2> QED BY <1>1, <2>1, <2>3, JobDelta
<1>3. CASE HookClean(p)
  <2> DEFINE j == [job[p] EXCEPT !.pc = "load", !.clean = Clean]
  <2>1. job' = [job EXCEPT ![p] = j] /\ job[p].pc = "clean"
    BY <1>3 DEF HookClean, At
  <2>2. /\ j.pc = "load" /\ j.clean = Clean /\ j.changed = job[p].changed
        /\ j.removed = job[p].removed /\ j.parent = job[p].parent /\ j.sound = job[p].sound
    BY <1>1 DEF JobOK
  <2> HIDE DEF j
  <2>3. NotedOf(j) /\ JobGood(j)
    BY <1>1, <2>1, <2>2 DEF NotedOf, JobGood
  <2> QED BY <1>1, <2>1, <2>3, JobDelta
<1>4. CASE HookStamp(p)
  <2> DEFINE j == [job[p] EXCEPT !.pc = "save", !.head = HeadOid]
  <2>1. job' = [job EXCEPT ![p] = j] /\ job[p].pc = "head"
    BY <1>4 DEF HookStamp, At
  <2>2. /\ j.pc = "save" /\ j.work = job[p].work /\ j.graph = job[p].graph
        /\ j.ends = job[p].ends /\ j.sound = job[p].sound
    BY <1>1 DEF JobOK
  <2> HIDE DEF j
  <2>3. NotedOf(j) /\ JobGood(j)
    BY <1>1, <2>1, <2>2 DEF NotedOf, JobGood, GoodGraph, AsCommitted
  <2> QED BY <1>1, <2>1, <2>3, JobDelta
<1> QED BY <1>2, <1>3, <1>4, <1>5

LEMMA BuildDelta ==
  ASSUME IInv, DeltaInv, NEW p \in Procs,
         \/ StartBuild(p) \/ StartHook(p) \/ \E f \in Files : Read(p, f)
         \/ BuildHit(p) \/ BuildMiss(p) \/ BuildDefer(p)
  PROVE  DeltaInv'
<1>1. /\ JobOK(job[p]) /\ job[p].work \in Trees /\ NotedOf(job[p]) /\ JobGood(job[p])
      /\ UNCHANGED <<disk, commits, cache>>
  BY JobFields DEF IInv, DeltaInv, StartBuild, StartHook, Read, BuildHit, BuildMiss, BuildDefer
<1>2. CASE StartBuild(p) \/ StartHook(p)
  <2>1. PICK kind : Scan(p, kind)
    BY <1>2 DEF StartBuild, StartHook
  <2> DEFINE j == [Idle EXCEPT !.pc = "read", !.kind = kind, !.todo = {f \in Files : disk[f] # Absent}]
  <2>2. job' = [job EXCEPT ![p] = j]
    BY <2>1 DEF Scan
  <2>3. j.pc = "read"
    BY DEF Idle
  <2> HIDE DEF j
  <2>4. NotedOf(j) /\ JobGood(j)
    BY <2>3 DEF NotedOf, JobGood
  <2> QED BY <1>1, <2>2, <2>4, JobDelta
<1>3. CASE \E f \in Files : Read(p, f)
  <2>1. PICK f \in Files : Read(p, f)
    BY <1>3
  <2> DEFINE j == [job[p] EXCEPT !.todo = @ \ {f}, !.work[f] = disk[f]]
  <2>2. job' = [job EXCEPT ![p] = j] /\ job[p].pc = "read"
    BY <2>1 DEF Read, At
  <2>3. j.pc = "read"
    BY <1>1, <2>2 DEF JobOK
  <2> HIDE DEF j
  <2>4. NotedOf(j) /\ JobGood(j)
    BY <2>3 DEF NotedOf, JobGood
  <2> QED BY <1>1, <2>2, <2>4, JobDelta
<1>4. CASE BuildHit(p)
  BY <1>1, <1>4, IdleGood, JobDelta DEF BuildHit
<1>5. CASE BuildMiss(p)
  <2> DEFINE j == [job[p] EXCEPT !.pc = "stamp", !.head = HeadOid,
                                 !.graph = Full(job[p].work), !.ends = Ends(job[p].work)]
  <2>1. job' = [job EXCEPT ![p] = j]
    BY <1>5 DEF BuildMiss
  <2>2. /\ j.pc = "stamp" /\ j.work = job[p].work /\ j.graph = Full(j.work)
        /\ j.ends = Ends(j.work)
    BY <1>1 DEF JobOK
  <2> HIDE DEF j
  <2>3. NotedOf(j) /\ JobGood(j)
    BY <1>1, <2>2, FullNodes, FullImports DEF JobGood, GoodGraph, NotedOf
  <2> QED BY <1>1, <2>1, <2>3, JobDelta
<1>6. CASE BuildDefer(p)
  <2> DEFINE j == [job[p] EXCEPT !.pc = "mine", !.base = Stamp(job[p].head)]
  <2>1. job' = [job EXCEPT ![p] = j] /\ job[p].pc = "stamp"
    BY <1>6 DEF BuildDefer, At
  <2>2. /\ j.pc = "mine" /\ j.work = job[p].work /\ j.graph = job[p].graph
        /\ j.ends = job[p].ends /\ j.sound = job[p].sound
    BY <1>1 DEF JobOK
  <2> HIDE DEF j
  <2>3. NotedOf(j) /\ JobGood(j)
    BY <1>1, <2>1, <2>2 DEF NotedOf, JobGood, GoodGraph, AsCommitted
  <2> QED BY <1>1, <2>1, <2>3, JobDelta
<1> QED BY <1>2, <1>3, <1>4, <1>5, <1>6

\* What a sound job saves for a commit's tree is what it had, read at HEAD.
LEMMA SavedGood ==
  ASSUME IInv, DeltaInv, NEW p \in Procs, job[p].pc \in {"stamp", "mine", "save"},
         UNCHANGED <<disk, commits>>, job' = [job EXCEPT ![p] = Idle],
         cache'.content = job[p].work, cache'.ends = job[p].ends, cache'.sound = job[p].sound,
         job[p].sound => cache'.graph = job[p].graph,
         (job[p].sound /\ cache'.base # 0) => cache'.base = HeadOid
  PROVE  DeltaInv'
<1>1. CacheGood'
  <2> SUFFICES ASSUME cache'.base # 0, job[p].sound, job[p].work = commits[cache'.base]
               PROVE  /\ NodesKnown(job[p].graph, job[p].work, job[p].ends)
                      /\ \A f \in Files : Targets(job[p].work, f) \intersect job[p].ends = {} =>
                           ImportsIn(job[p].graph, f) = ImportsOf(job[p].work, f)
    BY DEF CacheGood
  <2>1. job[p].work = HeadTree
    BY DEF HeadTree
  <2>2. GoodGraph(job[p])
    BY DEF DeltaInv, JobGood
  <2> QED BY <2>1, <2>2 DEF GoodGraph, AsCommitted
<1> QED BY <1>1, IdleGood, JobDelta

LEMMA SavesDelta ==
  ASSUME IInv, DeltaInv, NEW p \in Procs, BuildSave(p) \/ HookSave(p) \/ MineSave(p)
  PROVE  DeltaInv'
<1>1. /\ job[p].pc \in {"stamp", "mine", "save"} /\ job[p].work \in Trees
      /\ ReadOf(job[p]) /\ GraphOf(job[p])
      /\ UNCHANGED <<disk, commits>> /\ job' = [job EXCEPT ![p] = Idle]
  BY JobFields DEF IInv, BuildSave, HookSave, MineSave, At
<1>2. CASE BuildSave(p) \/ HookSave(p)
  <2>1. job[p].pc # "mine" /\ cache' = Saved(p, Stamp(job[p].head))
    BY <1>2 DEF BuildSave, HookSave, At
  <2>2. /\ cache'.content = job[p].work /\ cache'.ends = job[p].ends
        /\ cache'.sound = job[p].sound /\ cache'.graph = job[p].graph
        /\ cache'.base = Stamp(job[p].head)
    BY <2>1 DEF Saved
  <2>3. (job[p].sound /\ cache'.base # 0) => cache'.base = HeadOid
    BY <1>1, <2>1, <2>2 DEF ReadOf, Stamp
  <2> QED BY <1>1, <2>2, <2>3, SavedGood
<1>3. CASE MineSave(p)
  <2> DEFINE Held(T) == [f \in Files |-> IF f \in T THEN disk[f] ELSE job[p].work[f]]
             G(T) == FullGraph(Held(T), Bridges(job[p].work), SchemaOf(job[p].work))
  <2>1. PICK T \in SUBSET Files :
          /\ T # {} => ~job[p].sound
          /\ cache' = [Saved(p, job[p].base) EXCEPT !.graph = G(T), !.replaced = (T # {})]
    BY <1>3 DEF MineSave
  <2>2. /\ cache'.content = job[p].work /\ cache'.ends = job[p].ends
        /\ cache'.sound = job[p].sound /\ cache'.graph = G(T) /\ cache'.base = job[p].base
    BY <2>1 DEF Saved
  <2>3. T = {} => Held(T) = job[p].work
    BY <1>1 DEF Trees
  <2>4. job[p].pc = "mine"
    BY <1>3 DEF MineSave, At
  <2>5. job[p].sound => cache'.graph = job[p].graph
    <3>1. job[p].graph = Full(job[p].work)
      BY <1>1, <2>4 DEF GraphOf
    <3>2. T = {} => G(T) = Full(job[p].work)
      BY <2>3 DEF Full
    <3> QED BY <2>1, <2>2, <3>1, <3>2
  <2>6. (job[p].sound /\ cache'.base # 0) => cache'.base = HeadOid
    BY <1>1, <2>2, <2>4 DEF ReadOf
  <2> QED BY <1>1, <2>2, <2>5, <2>6, SavedGood
<1> QED BY <1>2, <1>3

LEMMA DeltaStep == IInv /\ DeltaInv /\ [Next]_vars => DeltaInv'
<1> SUFFICES ASSUME IInv, DeltaInv, [Next]_vars PROVE DeltaInv'
  OBVIOUS
<1>1. CASE UNCHANGED vars
  BY <1>1 DEF vars, DeltaInv, CacheGood, NotedOf, JobGood, GoodGraph, AsCommitted,
    HeadTree, HeadOid, Clean, ChangedInHead, RemovedInHead, HeadParent, ParentTree
<1>2. ASSUME NEW p \in Procs, JobStep(p) PROVE DeltaInv'
  BY <1>2, BuildDelta, SavesDelta, HookNotes, HookGraphDelta DEF JobStep
<1> QED BY <1>1, <1>2, UserDelta DEF Next

\* The post-commit hook's deltas, through any number of commits, leave every
\* file that no bridge and no untracked file can mislead with the imports of a
\* full rebuild.
THEOREM DeltasExact == Spec => []DeltaImportsExact
<1>1. DeltaInv => DeltaImportsExact
  BY DEF DeltaInv, JobGood, GoodGraph, ImportsIn, DeltaImportsExact
<1>2. Spec => [](IInv /\ DeltaInv)
  BY InitInv, StepInv, DeltaInit, DeltaStep, PTL DEF Spec
<1> QED BY <1>1, <1>2, PTL
=============================================================================
