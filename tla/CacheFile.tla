----------------------------- MODULE CacheFile -----------------------------
(***************************************************************************)
(* One file that several processes replace, and its fixed temporary name.  *)
(*                                                                         *)
(*   store    the artifact store: lock, read, merge, write, rename         *)
(*            (ArtifactStore::update, src/cache/artifacts.rs)              *)
(*   derived  derived.json: lock, write, rename                            *)
(*            (write_derived, src/cache/mod.rs)                            *)
(*   edges    .cxpak/graph.edges: write and rename, without a lock         *)
(*            (write_artifact, src/commands/hook.rs)                       *)
(*                                                                         *)
(* A process can fail to write, or end at any moment; the lock is the      *)
(* kernel's (flock), and goes with the process.  Files are inodes: a name  *)
(* that is opened again for writing is the same inode, cut to nothing,     *)
(* and a rename moves a name.  Contents are written in two parts.          *)
(***************************************************************************)
EXTENDS Naturals, Sequences

CONSTANTS
  Paths, Hashes, NoHash, Procs, Batch, Start,  \* see MergedStore
  Kinds,   \* which of the three files are looked at
  Nobody,  \* no lock holder
  Nothing, \* a part not written
  Before   \* what wrote the file that is there at the start

VARIABLES
  kind,
  lock,        \* holder of the directory's cache.lock
  name, tmp,   \* inode under the name, and under the temporary name; 0: none
  data,        \* who wrote the two parts of each inode
  pc, fd,      \* what each process is at, and the inode it has open
  value        \* the entries it has to write, for the store

vars == <<kind, lock, name, tmp, data, pc, fd, value>>

Store == INSTANCE MergedStore WITH store <- Start, saved <- {}

ASSUME StoreAssumption ==
  /\ NoHash \notin Hashes
  /\ Batch \in [Procs -> Store!Batches] /\ Start \in Store!Stores
\* A build keeps call sites for an entry of the same content, or has none.
ASSUME SitesAssumption ==
  \A f \in Paths :
    /\ Start[f].sites \in {NoHash, Start[f].sha}
    /\ \A p \in Procs : Batch[p].changed[f].sites \in {NoHash, Batch[p].changed[f].sha}
ASSUME ProcAssumption ==
  /\ Nobody \notin Procs /\ Nothing \notin Procs /\ Before \notin Procs /\ Before # Nothing
  /\ Kinds \subseteq {"store", "derived", "edges"}

Whole(c) == c[1] = c[2] /\ c[1] # Nothing

\* ArtifactStore::read: a missing or torn file is an empty store.
EmptyStore == [f \in Paths |-> Store!NoEntry]
StoreAt(i) ==
  IF ~Whole(data[i]) THEN EmptyStore
  ELSE IF data[i][1] = Before THEN Start ELSE value[data[i][1]]

Init ==
  /\ kind \in Kinds /\ lock = Nobody
  /\ data = <<<<Before, Before>>>> /\ name = 1 /\ tmp = 0
  /\ pc = [p \in Procs |-> IF kind = "edges" THEN "write" ELSE "start"]
  /\ fd = [p \in Procs |-> 0]
  /\ value = [p \in Procs |-> Start]

-----------------------------------------------------------------------------
Moves(p, from, to) == pc[p] = from /\ pc' = [pc EXCEPT ![p] = to]

\* Mutant: the lock is a file that a crash leaves behind.
ReleaseUnlessCrashed(p, to) == lock' = IF lock = p /\ to # "crashed" THEN Nobody ELSE lock

Release(p, to) == lock' = IF lock = p THEN Nobody ELSE lock

\* Mutant: the lock is opened but not taken.
AcquireAnyway(p) ==
  /\ Moves(p, "start", IF kind = "store" THEN "load" ELSE "write")
  /\ lock' = p
  /\ UNCHANGED <<kind, name, tmp, data, fd, value>>

\* lock_cache waits until it has the lock.
Acquire(p) ==
  /\ Moves(p, "start", IF kind = "store" THEN "load" ELSE "write")
  /\ lock = Nobody /\ lock' = p
  /\ UNCHANGED <<kind, name, tmp, data, fd, value>>

\* Mutant: the batch is merged into the store the build began with.
LoadMergeStart(p) ==
  /\ Moves(p, "load", "write")
  /\ value' = [value EXCEPT ![p] = Store!Merged(Start, Batch[p])]
  /\ UNCHANGED <<kind, lock, name, tmp, data, fd>>

\* update: the store as it is under the lock, with this batch merged in.
LoadMerge(p) ==
  /\ Moves(p, "load", "write")
  /\ value' = [value EXCEPT ![p] = Store!Merged(StoreAt(name), Batch[p])]
  /\ UNCHANGED <<kind, lock, name, tmp, data, fd>>

\* File::create, fs::write: the temporary name is created or cut to nothing.
Open(p) ==
  /\ Moves(p, "write", "first")
  /\ IF tmp = 0
     THEN /\ data' = Append(data, <<Nothing, Nothing>>)
          /\ tmp' = Len(data) + 1
     ELSE /\ data' = [data EXCEPT ![tmp] = <<Nothing, Nothing>>]
          /\ tmp' = tmp
  /\ fd' = [fd EXCEPT ![p] = tmp']
  /\ UNCHANGED <<kind, lock, name, value>>

WriteFirst(p) ==
  /\ Moves(p, "first", "second")
  /\ data' = [data EXCEPT ![fd[p]] = <<p, @[2]>>]
  /\ UNCHANGED <<kind, lock, name, tmp, fd, value>>

WriteSecond(p) ==
  /\ Moves(p, "second", "rename")
  /\ data' = [data EXCEPT ![fd[p]] = <<@[1], p>>]
  /\ UNCHANGED <<kind, lock, name, tmp, fd, value>>

\* The disk is full: write_derived removes what it wrote, the others leave it.
WriteFail(p) ==
  /\ pc[p] \in {"first", "second"} /\ pc' = [pc EXCEPT ![p] = "failed"]
  /\ tmp' = IF kind = "derived" THEN 0 ELSE tmp
  /\ Release(p, "failed")
  /\ UNCHANGED <<kind, name, data, fd, value>>

Rename(p) ==
  /\ \/ tmp # 0 /\ Moves(p, "rename", "done") /\ name' = tmp
     \/ tmp = 0 /\ Moves(p, "rename", "failed") /\ name' = name
  /\ tmp' = 0
  /\ Release(p, "done")
  /\ UNCHANGED <<kind, data, fd, value>>

\* The process ends.
Crash(p) ==
  /\ pc[p] \notin {"done", "failed", "crashed"}
  /\ pc' = [pc EXCEPT ![p] = "crashed"]
  /\ Release(p, "crashed")
  /\ UNCHANGED <<kind, name, tmp, data, fd, value>>

-----------------------------------------------------------------------------
Step(p) ==
  Acquire(p) \/ LoadMerge(p) \/ Open(p) \/ WriteFirst(p) \/ WriteSecond(p) \/ Rename(p)

Next == \E p \in Procs : Step(p) \/ WriteFail(p) \/ Crash(p)

Spec == Init /\ [][Next]_vars

\* A process that does not end runs on; a released lock is given to one of
\* those that wait.
FairSpec == Spec /\ \A p \in Procs : WF_vars(Step(p))

-----------------------------------------------------------------------------
(* Properties.                                                             *)

Over(p) == pc[p] \in {"done", "failed", "crashed"}

TypeOK ==
  /\ kind \in Kinds /\ lock \in Procs \union {Nobody}
  /\ name \in 1..Len(data) /\ tmp \in 0..Len(data) /\ name # tmp
  /\ pc \in [Procs -> {"start", "load", "write", "first", "second", "rename",
                       "done", "failed", "crashed"}]
  /\ fd \in [Procs -> 0..Len(data)]
  /\ data \in Seq((Procs \union {Nothing, Before}) \X (Procs \union {Nothing, Before}))
  /\ value \in [Procs -> Store!Stores]

\* What is under the name of a file that is written with the lock held is
\* always all that one process wrote, whoever fails or ends meanwhile.
NeverTorn == kind # "edges" => Whole(data[name])

\* Call sites belong to the content the entry is for.
SitesMatch ==
  kind = "store" =>
    \A f \in Paths : StoreAt(name)[f].sites \in {NoHash, StoreAt(name)[f].sha}

\* No save is lost, and none is applied twice.
Atomic == INSTANCE MergedStore
  WITH store <- IF kind = "store" THEN StoreAt(name) ELSE Start,
       saved <- IF kind = "store" THEN {p \in Procs : pc[p] = "done"} ELSE {}
ImplementsMergedStore == Atomic!Spec

\* Every save ends: no process waits for a lock for ever.
SavesEnd == \A p \in Procs : <>Over(p)
=============================================================================
