-------------------------- MODULE CacheFileProofs --------------------------
(***************************************************************************)
(* What CacheFile promises, for any number of processes, paths and saves.  *)
(* All of it rests on one fact: of the processes that write a file which   *)
(* has a lock, only the one that holds it is past "start", so the          *)
(* temporary inode is its own until the rename.                            *)
(***************************************************************************)
EXTENDS CacheFile, TLAPS

\* At work on the file.
Busy == {"load", "write", "first", "second", "rename"}

\* What a process has open exists.
OpenInv ==
  \A p \in Procs : pc[p] \in {"first", "second"} => fd[p] \in 1..Len(data)

\* A file with a lock is worked on by the holder of the lock only.
LockInv ==
  kind # "edges" => \A p \in Procs : pc[p] \in Busy => lock = p

\* The temporary name is that of the inode the holder has open, and holds
\* what it has written so far.
TmpInv ==
  kind # "edges" => \A p \in Procs :
    /\ pc[p] \in {"first", "second", "rename"} => tmp # 0 /\ fd[p] = tmp
    /\ pc[p] = "second" => data[tmp][1] = p
    /\ pc[p] = "rename" => data[tmp] = <<p, p>>

\* What the store holds was written by one whose save has ended, and what is
\* being written is that with one batch merged in.
ValueInv ==
  kind = "store" => \A p \in Procs :
    /\ data[name][1] = p => pc[p] = "done"
    /\ pc[p] \in {"write", "first", "second", "rename"} =>
         value[p] = Store!Merged(StoreAt(name), Batch[p])

IInv == TypeOK /\ OpenInv /\ LockInv /\ TmpInv /\ ValueInv /\ NeverTorn

-----------------------------------------------------------------------------
(* What a merge preserves.                                                 *)

\* A merge of a batch into a store is a store.
LEMMA MergedType ==
  ASSUME NEW s \in Store!Stores, NEW b \in Store!Batches
  PROVE  Store!Merged(s, b) \in Store!Stores
<1> USE StoreAssumption DEF Store!Stores, Store!Batches
<1>1. Store!Pruned(s, b) \in Store!Stores
  BY DEF Store!Pruned
<1>2. ASSUME NEW t \in Store!Stores PROVE Store!Replaced(t, b) \in Store!Stores
  BY <1>2 DEF Store!Replaced
<1>3. ASSUME NEW t \in Store!Stores PROVE Store!WithSites(t, b) \in Store!Stores
  <2>1. ASSUME NEW f \in Paths, t[f] # Store!NoEntry
        PROVE  [t[f] EXCEPT !.sites = b.sites[f]] \in Store!Entry
    BY <1>3, <2>1 DEF Store!Entry
  <2> QED BY <1>3, <2>1 DEF Store!WithSites
<1> QED BY <1>1, <1>2, <1>3 DEF Store!Merged

\* What is read from a whole file of the right type is a store.
LEMMA StoreAtType ==
  ASSUME TypeOK, NEW i \in 1..Len(data)
  PROVE  StoreAt(i) \in Store!Stores
<1> USE StoreAssumption, ProcAssumption
<1>1. EmptyStore \in Store!Stores
  BY DEF EmptyStore, Store!Stores
<1>2. data[i][1] \in Procs \union {Nothing, Before}
  BY DEF TypeOK
<1> QED BY <1>1, <1>2 DEF StoreAt, Whole, TypeOK, Store!Stores

-----------------------------------------------------------------------------
(* The invariant holds at the start, and each step keeps it.               *)

LEMMA InitInv == Init => IInv
<1> SUFFICES ASSUME Init PROVE IInv
  OBVIOUS
<1> USE StoreAssumption, ProcAssumption DEF Init
<1>1. TypeOK
  BY DEF TypeOK
<1>2. OpenInv /\ LockInv /\ TmpInv
  BY DEF OpenInv, LockInv, TmpInv, Busy
<1>3. ValueInv
  BY DEF ValueInv
<1>4. NeverTorn
  BY DEF NeverTorn, Whole
<1> QED BY <1>1, <1>2, <1>3, <1>4 DEF IInv

\* Taking the lock.
LEMMA AcquireKeeps ==
  ASSUME IInv, NEW p \in Procs, Acquire(p) PROVE IInv'
<1> USE ProcAssumption DEF IInv, Acquire, Moves
<1>1. TypeOK'
  BY DEF TypeOK
<1>2. OpenInv' /\ LockInv' /\ TmpInv'
  BY DEF TypeOK, OpenInv, LockInv, TmpInv, Busy
<1>3. StoreAt(name)' = StoreAt(name)
  BY DEF StoreAt, Whole
<1>4. ValueInv'
  BY <1>3 DEF TypeOK, ValueInv
<1>5. NeverTorn'
  BY DEF NeverTorn, Whole
<1> QED BY <1>1, <1>2, <1>4, <1>5

\* Reading and merging: the file is not touched, and its writer is another.
LEMMA LoadMergeKeeps ==
  ASSUME IInv, NEW p \in Procs, LoadMerge(p) PROVE IInv'
<1> USE ProcAssumption DEF IInv, LoadMerge, Moves
<1>1. StoreAt(name) \in Store!Stores
  BY StoreAtType DEF TypeOK
<1>2. Store!Merged(StoreAt(name), Batch[p]) \in Store!Stores
  BY <1>1, MergedType, StoreAssumption
<1>3. TypeOK'
  BY <1>2 DEF TypeOK
<1>4. OpenInv' /\ LockInv' /\ TmpInv'
  BY DEF TypeOK, OpenInv, LockInv, TmpInv, Busy
<1>5. ValueInv'
  <2> SUFFICES ASSUME kind = "store", NEW q \in Procs
               PROVE  /\ data[name][1] = q => pc'[q] = "done"
                      /\ pc'[q] \in {"write", "first", "second", "rename"} =>
                           value'[q] = Store!Merged(StoreAt(name)', Batch[q])
    BY DEF ValueInv
  <2>1. data[name][1] # p
    BY DEF ValueInv
  <2>2. StoreAt(name)' = StoreAt(name)
    BY <2>1 DEF StoreAt, Whole, TypeOK
  <2>3. pc'[q] = IF q = p THEN "write" ELSE pc[q]
    BY DEF TypeOK
  <2>4. value'[q] = IF q = p THEN Store!Merged(StoreAt(name), Batch[p]) ELSE value[q]
    BY DEF TypeOK
  <2> QED BY <2>1, <2>2, <2>3, <2>4 DEF ValueInv
<1>6. NeverTorn'
  BY DEF NeverTorn, Whole
<1> QED BY <1>3, <1>4, <1>5, <1>6

\* Writing the first part: the inode is not the one under the name.
LEMMA WriteFirstKeeps ==
  ASSUME IInv, NEW p \in Procs, WriteFirst(p) PROVE IInv'
<1> USE ProcAssumption DEF IInv, WriteFirst, Moves
<1>1. fd[p] \in 1..Len(data)
  BY DEF OpenInv
<1>2. data' = [data EXCEPT ![fd[p]] = <<p, data[fd[p]][2]>>]
  OBVIOUS
<1>3. /\ data' \in Seq((Procs \union {Nothing, Before}) \X (Procs \union {Nothing, Before}))
      /\ Len(data') = Len(data)
      /\ data'[fd[p]] = <<p, data[fd[p]][2]>>
      /\ \A i \in 1..Len(data) : i # fd[p] => data'[i] = data[i]
  BY <1>1, <1>2 DEF TypeOK
<1>4. TypeOK'
  BY <1>3 DEF TypeOK
<1>5. OpenInv' /\ LockInv'
  BY <1>3 DEF TypeOK, OpenInv, LockInv, Busy
<1>6. TmpInv'
  BY <1>1, <1>3 DEF TypeOK, TmpInv, LockInv, Busy
<1>7. kind # "edges" => data'[name] = data[name]
  BY <1>3 DEF TypeOK, TmpInv
<1>8. ValueInv'
  <2>1. kind = "store" => StoreAt(name)' = StoreAt(name)
    BY <1>7 DEF StoreAt, Whole
  <2> QED BY <1>7, <2>1 DEF ValueInv, TypeOK
<1>9. NeverTorn'
  BY <1>7 DEF NeverTorn, Whole
<1> QED BY <1>4, <1>5, <1>6, <1>8, <1>9

\* Writing the second: the inode is not the one under the name.
LEMMA WriteSecondKeeps ==
  ASSUME IInv, NEW p \in Procs, WriteSecond(p) PROVE IInv'
<1> USE ProcAssumption DEF IInv, WriteSecond, Moves
<1>1. fd[p] \in 1..Len(data)
  BY DEF OpenInv
<1>2. data' = [data EXCEPT ![fd[p]] = <<data[fd[p]][1], p>>]
  OBVIOUS
<1>3. /\ data' \in Seq((Procs \union {Nothing, Before}) \X (Procs \union {Nothing, Before}))
      /\ Len(data') = Len(data)
      /\ data'[fd[p]] = <<data[fd[p]][1], p>>
      /\ \A i \in 1..Len(data) : i # fd[p] => data'[i] = data[i]
  BY <1>1, <1>2 DEF TypeOK
<1>4. TypeOK'
  BY <1>3 DEF TypeOK
<1>5. OpenInv' /\ LockInv'
  BY <1>3 DEF TypeOK, OpenInv, LockInv, Busy
<1>6. TmpInv'
  BY <1>1, <1>3 DEF TypeOK, TmpInv, LockInv, Busy
<1>7. kind # "edges" => data'[name] = data[name]
  BY <1>3 DEF TypeOK, TmpInv
<1>8. ValueInv'
  <2>1. kind = "store" => StoreAt(name)' = StoreAt(name)
    BY <1>7 DEF StoreAt, Whole
  <2> QED BY <1>7, <2>1 DEF ValueInv, TypeOK
<1>9. NeverTorn'
  BY <1>7 DEF NeverTorn, Whole
<1> QED BY <1>4, <1>5, <1>6, <1>8, <1>9

\* Opening the temporary name: nobody else has it open, and it is not the
\* inode under the name.
LEMMA OpenKeeps ==
  ASSUME IInv, NEW p \in Procs, Open(p) PROVE IInv'
<1> USE ProcAssumption DEF IInv, Open, Moves
<1> DEFINE Parts == (Procs \union {Nothing, Before}) \X (Procs \union {Nothing, Before})
<1>1. /\ data' \in Seq(Parts) /\ Len(data') >= Len(data)
      /\ tmp' \in 1..Len(data') /\ tmp' # name
      /\ \A i \in 1..Len(data) : i # tmp' => data'[i] = data[i]
  <2> DEFINE none == <<Nothing, Nothing>>
  <2>0. none \in Parts /\ data \in Seq(Parts)
    BY DEF TypeOK
  <2> HIDE DEF none, Parts
  <2>1. CASE tmp = 0
    <3>1. data' = Append(data, none) /\ tmp' = Len(data) + 1
      BY <2>1 DEF none
    <3> QED BY <2>0, <3>1 DEF TypeOK
  <2>2. CASE tmp # 0
    <3>1. data' = [data EXCEPT ![tmp] = none] /\ tmp' = tmp
      BY <2>2 DEF none
    <3>2. tmp \in 1..Len(data) /\ tmp # name
      BY <2>2 DEF TypeOK
    <3>3. data' \in Seq(Parts) /\ Len(data') = Len(data)
      BY <2>0, <3>1, <3>2
    <3>4. \A i \in 1..Len(data) : i # tmp => data'[i] = data[i]
      BY <2>0, <3>1
    <3>5. Len(data) \in Nat
      BY <2>0
    <3>6. tmp' = tmp
      BY <3>1
    <3> HIDE DEF Open
    <3>7. Len(data') >= Len(data)
      BY <3>3, <3>5
    <3>8. tmp' \in 1..Len(data') /\ tmp' # name
      BY <3>2, <3>3, <3>6
    <3>9. \A i \in 1..Len(data) : i # tmp' => data'[i] = data[i]
      BY <3>4, <3>6
    <3> QED BY <3>3, <3>7, <3>8, <3>9
  <2> QED BY <2>1, <2>2
<1>2. fd' = [fd EXCEPT ![p] = tmp'] /\ tmp' # 0
  BY <1>1 DEF TypeOK
<1>3. TypeOK'
  BY <1>1, <1>2 DEF TypeOK
<1>4. OpenInv' /\ LockInv'
  BY <1>1, <1>2 DEF TypeOK, OpenInv, LockInv, Busy
<1>5. TmpInv'
  BY <1>1, <1>2 DEF TypeOK, TmpInv, LockInv, Busy
<1>6. data'[name] = data[name]
  BY <1>1 DEF TypeOK
<1>7. ValueInv'
  <2>1. StoreAt(name)' = StoreAt(name)
    BY <1>6 DEF StoreAt, Whole
  <2> QED BY <1>6, <2>1 DEF ValueInv, TypeOK
<1>8. NeverTorn'
  BY <1>6 DEF NeverTorn, Whole
<1> QED BY <1>3, <1>4, <1>5, <1>7, <1>8

\* A write that fails leaves the file as it was.
LEMMA WriteFailKeeps ==
  ASSUME IInv, NEW p \in Procs, WriteFail(p) PROVE IInv'
<1> USE ProcAssumption DEF IInv, WriteFail, Release
<1>1. TypeOK'
  BY DEF TypeOK
<1>2. OpenInv' /\ LockInv' /\ TmpInv'
  BY DEF TypeOK, OpenInv, LockInv, TmpInv, Busy
<1>3. StoreAt(name)' = StoreAt(name)
  BY DEF StoreAt, Whole
<1>4. ValueInv'
  BY <1>3 DEF TypeOK, ValueInv
<1>5. NeverTorn'
  BY DEF NeverTorn, Whole
<1> QED BY <1>1, <1>2, <1>4, <1>5

\* So does the end of the process.
LEMMA CrashKeeps ==
  ASSUME IInv, NEW p \in Procs, Crash(p) PROVE IInv'
<1> USE ProcAssumption DEF IInv, Crash, Release
<1>1. TypeOK'
  BY DEF TypeOK
<1>2. OpenInv' /\ LockInv' /\ TmpInv'
  BY DEF TypeOK, OpenInv, LockInv, TmpInv, Busy
<1>3. StoreAt(name)' = StoreAt(name)
  BY DEF StoreAt, Whole
<1>4. ValueInv'
  BY <1>3 DEF TypeOK, ValueInv
<1>5. NeverTorn'
  BY DEF NeverTorn, Whole
<1> QED BY <1>1, <1>2, <1>4, <1>5

\* The rename puts one process's whole file under the name.
LEMMA RenameKeeps ==
  ASSUME IInv, NEW p \in Procs, Rename(p) PROVE IInv'
<1> USE ProcAssumption DEF IInv, Rename, Release, Moves
<1>1. TypeOK'
  <2>1. CASE tmp = 0
    BY <2>1 DEF TypeOK
  <2>2. CASE tmp # 0
    <3>1. tmp \in 1..Len(data)
      BY <2>2 DEF TypeOK
    <3> QED BY <2>2, <3>1 DEF TypeOK
  <2> QED BY <2>1, <2>2
<1>2. OpenInv' /\ LockInv' /\ TmpInv'
  BY DEF TypeOK, OpenInv, LockInv, TmpInv, Busy
<1>3. kind # "edges" => name' = tmp /\ pc' = [pc EXCEPT ![p] = "done"] /\ data'[name'] = <<p, p>>
  BY DEF TmpInv
<1>4. ValueInv'
  <2> SUFFICES ASSUME kind = "store", NEW q \in Procs
               PROVE  /\ data'[name'][1] = q => pc'[q] = "done"
                      /\ pc'[q] \notin {"write", "first", "second", "rename"}
    BY DEF ValueInv
  <2>1. lock = p
    BY DEF LockInv, Busy, TypeOK
  <2>2. pc[q] \in Busy => q = p
    BY <2>1 DEF LockInv
  <2> QED BY <1>3, <2>2 DEF Busy, TypeOK
<1>5. NeverTorn'
  BY <1>3 DEF NeverTorn, Whole
<1> QED BY <1>1, <1>2, <1>4, <1>5

LEMMA StepInv == IInv /\ [Next]_vars => IInv'
<1> SUFFICES ASSUME IInv, [Next]_vars PROVE IInv'
  OBVIOUS
<1>1. CASE UNCHANGED vars
  <2> USE <1>1 DEF IInv, vars
  <2>1. StoreAt(name)' = StoreAt(name)
    BY DEF StoreAt, Whole
  <2> QED BY <2>1 DEF TypeOK, OpenInv, LockInv, TmpInv, ValueInv, NeverTorn, Whole
<1>2. CASE Next
  BY <1>2, AcquireKeeps, LoadMergeKeeps, OpenKeeps, WriteFirstKeeps, WriteSecondKeeps,
     WriteFailKeeps, RenameKeeps, CrashKeeps DEF Next, Step
<1> QED BY <1>1, <1>2

-----------------------------------------------------------------------------

\* In every state the invariant holds.
THEOREM Invariance == Spec => []IInv
  BY InitInv, StepInv, PTL DEF Spec

\* The variables keep their shape, and the temporary inode is never the one
\* under the name.
THEOREM TypeCorrect == Spec => []TypeOK
<1>1. IInv => TypeOK
  BY DEF IInv
<1> QED BY <1>1, Invariance, PTL

\* A file that is written with the lock held is never seen in part, whichever
\* writes fail and whichever processes end half way
\* (ArtifactStore::update, write_derived).
THEOREM LockedFilesWhole == Spec => []NeverTorn
<1>1. IInv => NeverTorn
  BY DEF IInv
<1> QED BY <1>1, Invariance, PTL

-----------------------------------------------------------------------------
(* Call sites.                                                             *)

SitesIn(s) == \A f \in Paths : s[f].sites \in {NoHash, s[f].sha}

\* A merge puts call sites on entries for their content only.
LEMMA MergedSites ==
  ASSUME NEW s \in Store!Stores, NEW p \in Procs, SitesIn(s)
  PROVE  SitesIn(Store!Merged(s, Batch[p]))
<1> DEFINE b == Batch[p]
<1>1. b \in Store!Batches /\ \A f \in Paths : b.changed[f].sites \in {NoHash, b.changed[f].sha}
  BY StoreAssumption, SitesAssumption
<1> DEFINE t == Store!Replaced(Store!Pruned(s, b), b)
<1>2. ASSUME NEW f \in Paths
      PROVE  t[f] \in {b.changed[f], s[f], Store!NoEntry}
  BY DEF Store!Replaced, Store!Pruned
<1>3. Store!NoEntry.sites = NoHash
  BY DEF Store!NoEntry
<1>4. SitesIn(t)
  BY <1>1, <1>2, <1>3 DEF SitesIn
<1>5. ASSUME NEW f \in Paths PROVE t[f] \in Store!Entry \union {Store!NoEntry}
  BY <1>1, <1>2 DEF Store!Batches, Store!Stores
<1> HIDE DEF t, b
<1>6. ASSUME NEW f \in Paths
      PROVE  Store!WithSites(t, b)[f].sites \in {NoHash, Store!WithSites(t, b)[f].sha}
  <2>1. CASE t[f] # Store!NoEntry /\ b.sites[f] = t[f].sha
    <3>1. Store!WithSites(t, b)[f] = [t[f] EXCEPT !.sites = b.sites[f]]
      BY <2>1 DEF Store!WithSites
    <3>2. t[f] \in Store!Entry
      BY <1>5, <2>1
    <3> QED BY <2>1, <3>1, <3>2 DEF Store!Entry
  <2>2. CASE ~(t[f] # Store!NoEntry /\ b.sites[f] = t[f].sha)
    BY <1>4, <2>2 DEF Store!WithSites, SitesIn
  <2> QED BY <2>1, <2>2
<1> QED BY <1>6 DEF SitesIn, Store!Merged, t, b

\* What every process has to write.
SitesInv == \A p \in Procs : SitesIn(value[p])

LEMMA StoreAtSites ==
  ASSUME SitesInv, TypeOK, NEW i \in 1..Len(data)
  PROVE  SitesIn(StoreAt(i))
<1>1. SitesIn(Start)
  BY SitesAssumption DEF SitesIn
<1>2. SitesIn(EmptyStore)
  BY DEF SitesIn, EmptyStore, Store!NoEntry
<1>3. data[i][1] \in Procs \union {Nothing, Before}
  BY DEF TypeOK
<1> QED BY <1>1, <1>2, <1>3, ProcAssumption DEF StoreAt, Whole, SitesInv

LEMMA SitesStep == IInv /\ SitesInv /\ [Next]_vars => SitesInv'
<1> SUFFICES ASSUME IInv, SitesInv, [Next]_vars PROVE SitesInv'
  OBVIOUS
<1>1. CASE value' = value
  BY <1>1 DEF SitesInv
<1>2. ASSUME NEW p \in Procs, LoadMerge(p) PROVE SitesInv'
  <2>1. TypeOK /\ name \in 1..Len(data)
    BY DEF IInv, TypeOK
  <2>2. StoreAt(name) \in Store!Stores /\ SitesIn(StoreAt(name))
    BY <2>1, StoreAtType, StoreAtSites
  <2>3. SitesIn(Store!Merged(StoreAt(name), Batch[p]))
    BY <2>2, MergedSites
  <2>4. value' = [value EXCEPT ![p] = Store!Merged(StoreAt(name), Batch[p])]
    BY <1>2 DEF LoadMerge
  <2>5. \A q \in Procs : value'[q] = value[q] \/ value'[q] = Store!Merged(StoreAt(name), Batch[p])
    BY <2>1, <2>4 DEF TypeOK
  <2> QED BY <2>3, <2>5 DEF SitesInv
<1>3. CASE UNCHANGED vars
  BY <1>3, <1>1 DEF vars
<1> QED BY <1>1, <1>2, <1>3 DEF Next, Step, Acquire, Open, WriteFirst, WriteSecond, Rename,
  WriteFail, Crash

\* In the store, call sites are those of the content their entry is for,
\* whichever builds of whichever contents merge in whatever order.
THEOREM SitesOfTheirContent == Spec => []SitesMatch
<1>1. Init => SitesInv
  BY SitesAssumption DEF Init, SitesInv, SitesIn
<1>2. IInv /\ SitesInv => SitesMatch
  <2> SUFFICES ASSUME IInv, SitesInv PROVE SitesMatch
    OBVIOUS
  <2>1. TypeOK /\ name \in 1..Len(data)
    BY DEF IInv, TypeOK
  <2> QED BY <2>1, StoreAtSites DEF SitesMatch, SitesIn
<1> QED BY <1>1, <1>2, Invariance, SitesStep, PTL DEF Spec

-----------------------------------------------------------------------------
(* The store implements MergedStore.                                       *)

StoreNow == IF kind = "store" THEN StoreAt(name) ELSE Start
SavedNow == IF kind = "store" THEN {p \in Procs : pc[p] = "done"} ELSE {}

LEMMA InitImplements == Init => Atomic!Init
<1> SUFFICES ASSUME Init PROVE Atomic!Init
  OBVIOUS
<1>1. Whole(data[name]) /\ data[name][1] = Before
  BY ProcAssumption DEF Init, Whole
<1> QED BY <1>1 DEF Init, Atomic!Init, StoreAt

\* A step that neither renames nor merges maps to a stutter.
LEMMA QuietStep ==
  ASSUME TypeOK, kind' = kind, NEW p \in Procs, pc[p] # "done",
         NEW to, to # "done", pc' = [pc EXCEPT ![p] = to],
         kind = "store" => StoreAt(name)' = StoreAt(name)
  PROVE  StoreNow' = StoreNow /\ SavedNow' = SavedNow
  BY DEF StoreNow, SavedNow, TypeOK

\* The merge of the specification is that of the file.
LEMMA MergesAgree ==
  ASSUME NEW s, NEW b PROVE Store!Merged(s, b) = Atomic!Merged(s, b)
  BY DEF Store!Merged, Store!WithSites, Store!Replaced, Store!Pruned, Store!NoEntry,
         Atomic!Merged, Atomic!WithSites, Atomic!Replaced, Atomic!Pruned, Atomic!NoEntry

LEMMA StepImplements ==
  ASSUME IInv, [Next]_vars
  PROVE  (\E p \in Procs : Atomic!Save(p)) \/ (StoreNow' = StoreNow /\ SavedNow' = SavedNow)
<1>1. CASE UNCHANGED vars
  BY <1>1 DEF vars, StoreNow, SavedNow, StoreAt, Whole
<1> SUFFICES ASSUME Next, NEW p \in Procs, Step(p) \/ WriteFail(p) \/ Crash(p)
    PROVE (\E q \in Procs : Atomic!Save(q)) \/ (StoreNow' = StoreNow /\ SavedNow' = SavedNow)
  BY <1>1 DEF Next
<1> USE ProcAssumption DEF IInv
<1>2. CASE Acquire(p)
  <2>1. StoreAt(name)' = StoreAt(name)
    BY <1>2 DEF Acquire, StoreAt, Whole
  <2> QED BY <1>2, <2>1, QuietStep DEF Acquire, Moves
<1>3. CASE LoadMerge(p)
  <2>1. kind = "store" => StoreAt(name)' = StoreAt(name)
    BY <1>3 DEF LoadMerge, Moves, StoreAt, Whole, ValueInv, TypeOK
  <2> QED BY <1>3, <2>1, QuietStep DEF LoadMerge, Moves
<1>4. CASE Open(p) \/ WriteFirst(p) \/ WriteSecond(p)
  <2>1. kind = "store" => data'[name] = data[name]
    BY <1>4 DEF Open, WriteFirst, WriteSecond, Moves, TypeOK, TmpInv
  <2>2. kind = "store" => StoreAt(name)' = StoreAt(name)
    BY <1>4, <2>1 DEF Open, WriteFirst, WriteSecond, StoreAt, Whole
  <2> QED BY <1>4, <2>2, QuietStep DEF Open, WriteFirst, WriteSecond, Moves
<1>5. CASE WriteFail(p) \/ Crash(p)
  <2>1. StoreAt(name)' = StoreAt(name)
    BY <1>5 DEF WriteFail, Crash, StoreAt, Whole
  <2> QED BY <1>5, <2>1, QuietStep DEF WriteFail, Crash
<1>6. CASE Rename(p) /\ kind = "store"
  <2>1. name' = tmp /\ pc' = [pc EXCEPT ![p] = "done"] /\ data'[name'] = <<p, p>>
    BY <1>6 DEF Rename, Moves, TmpInv
  <2>2. StoreAt(name)' = value[p]
    BY <1>6, <2>1 DEF StoreAt, Whole, Rename
  <2>3. value[p] = Store!Merged(StoreAt(name), Batch[p])
    BY <1>6 DEF ValueInv, Rename, Moves
  <2>4. Store!Merged(StoreAt(name), Batch[p]) = Atomic!Merged(StoreAt(name), Batch[p])
    BY MergesAgree
  <2>5. pc[p] = "rename" /\ kind' = kind
    BY <1>6 DEF Rename, Moves
  <2>6. SavedNow' = SavedNow \union {p} /\ p \notin SavedNow
    BY <1>6, <2>1, <2>5 DEF SavedNow, TypeOK
  <2>7. StoreNow' = Atomic!Merged(StoreNow, Batch[p])
    BY <1>6, <2>2, <2>3, <2>4, <2>5 DEF StoreNow
  <2>8. Atomic!Save(p)
    BY <2>6, <2>7 DEF Atomic!Save, StoreNow, SavedNow
  <2> QED BY <2>8
<1>7. CASE Rename(p) /\ kind # "store"
  BY <1>7 DEF Rename, StoreNow, SavedNow
<1> QED BY <1>2, <1>3, <1>4, <1>5, <1>6, <1>7 DEF Step

\* Every save that ends is one merge of its batch into all that was saved
\* before it: no process drops another's entries, for any number of them
\* (ADR-0210, ArtifactStore::update).
THEOREM Implements == Spec => ImplementsMergedStore
<1>1. IInv /\ [Next]_vars => [Atomic!Next]_<<StoreNow, SavedNow>>
  BY StepImplements DEF Atomic!Next
<1> QED BY <1>1, InitImplements, Invariance, PTL
       DEF Spec, ImplementsMergedStore, Atomic!Spec, StoreNow, SavedNow

-----------------------------------------------------------------------------
(* What that means for one entry.                                          *)

\* The batch of q has something to say of f: an entry, or that it is gone.
Touches(q, f) ==
  Batch[q].changed[f] # Store!NoEntry \/ f \in Batch[q].scope \ Batch[q].scanned

\* Each entry is for the content that one of the saves in done left it with, and
\* for that of the start only if no save in done has anything to say of it.
OfASave(s, done) ==
  \A f \in Paths :
    IF \E q \in done : Touches(q, f)
    THEN \E q \in done : Touches(q, f) /\ s[f].sha = Batch[q].changed[f].sha
    ELSE s[f].sha = Start[f].sha

\* No save that ended is forgotten, nothing pruned comes back by itself, and
\* nothing is in the store that no build put there (merge_store_entries).
EveryEntryOfASave == kind = "store" => OfASave(StoreAt(name), SavedNow)

\* What a merge does to the content that one entry is for.
LEMMA MergedSha ==
  ASSUME NEW s \in Store!Stores, NEW p \in Procs, NEW f \in Paths
  PROVE  Store!Merged(s, Batch[p])[f].sha =
           IF Touches(p, f) THEN Batch[p].changed[f].sha ELSE s[f].sha
<1> DEFINE b == Batch[p]
           t == Store!Replaced(Store!Pruned(s, b), b)
<1>1. t[f].sha = IF Touches(p, f) THEN b.changed[f].sha ELSE s[f].sha
  BY DEF Store!Replaced, Store!Pruned, Touches
<1>2. t[f] \in Store!Entry \union {Store!NoEntry}
  BY StoreAssumption DEF Store!Replaced, Store!Pruned, Store!Stores, Store!Batches
<1> HIDE DEF t, b
<1>3. Store!WithSites(t, b)[f].sha = t[f].sha
  <2>1. CASE t[f] # Store!NoEntry /\ b.sites[f] = t[f].sha
    <3>1. Store!WithSites(t, b)[f] = [t[f] EXCEPT !.sites = b.sites[f]]
      BY <2>1 DEF Store!WithSites
    <3>2. t[f] \in Store!Entry
      BY <1>2, <2>1
    <3> QED BY <3>1, <3>2 DEF Store!Entry
  <2>2. CASE ~(t[f] # Store!NoEntry /\ b.sites[f] = t[f].sha)
    BY <2>2 DEF Store!WithSites
  <2> QED BY <2>1, <2>2
<1>4. Store!Merged(s, b) = Store!WithSites(t, b)
  BY DEF Store!Merged, t
<1> QED BY <1>1, <1>3, <1>4 DEF b

LEMMA MergedOfASave ==
  ASSUME NEW s \in Store!Stores, NEW done, NEW p \in Procs, OfASave(s, done)
  PROVE  OfASave(Store!Merged(s, Batch[p]), done \union {p})
<1> DEFINE t == Store!Merged(s, Batch[p])
<1>1. SUFFICES ASSUME NEW f \in Paths
      PROVE IF \E q \in done \union {p} : Touches(q, f)
            THEN \E q \in done \union {p} : Touches(q, f) /\ t[f].sha = Batch[q].changed[f].sha
            ELSE t[f].sha = Start[f].sha
  BY DEF OfASave
<1>2. t[f].sha = IF Touches(p, f) THEN Batch[p].changed[f].sha ELSE s[f].sha
  BY MergedSha
<1> HIDE DEF t
<1>3. CASE Touches(p, f)
  BY <1>2, <1>3
<1>4. CASE ~Touches(p, f) /\ \E q \in done : Touches(q, f)
  <2>1. PICK q \in done : Touches(q, f) /\ s[f].sha = Batch[q].changed[f].sha
    BY <1>4 DEF OfASave
  <2> QED BY <1>2, <1>4, <2>1
<1>5. CASE ~Touches(p, f) /\ ~\E q \in done : Touches(q, f)
  <2>1. s[f].sha = Start[f].sha
    BY <1>5 DEF OfASave
  <2> QED BY <1>2, <1>5, <2>1
<1> QED BY <1>3, <1>4, <1>5

LEMMA EntriesStep ==
  ASSUME IInv, OfASave(StoreNow, SavedNow), [Next]_vars
  PROVE  OfASave(StoreNow, SavedNow)'
<1>1. StoreNow \in Store!Stores
  <2>1. TypeOK /\ name \in 1..Len(data)
    BY DEF IInv, TypeOK
  <2> QED BY <2>1, StoreAtType, StoreAssumption DEF StoreNow
<1>2. ASSUME NEW p \in Procs, Atomic!Save(p)
      PROVE  OfASave(StoreNow', SavedNow')
  <2>1. SavedNow' = SavedNow \union {p} /\ StoreNow' = Atomic!Merged(StoreNow, Batch[p])
    BY <1>2 DEF Atomic!Save, StoreNow, SavedNow
  <2> QED BY <1>1, <2>1, MergesAgree, MergedOfASave
<1>3. OfASave(StoreNow', SavedNow')
  BY <1>2, StepImplements
<1> QED BY <1>3 DEF OfASave, Touches

\* However the saves of any number of builds interleave, fail and crash, each
\* entry of the store is for what one of the ended saves found: what is said of
\* a path is kept until another save says something of that path, and a build
\* of a workspace disturbs nothing outside its scope (ArtifactStore::update,
\* merge_store_entries).
THEOREM EntriesOfSaves == Spec => []EveryEntryOfASave
<1>1. Init => OfASave(StoreNow, SavedNow)
  <2>1. Init => StoreNow = Start /\ SavedNow = {}
    BY InitImplements DEF Atomic!Init, StoreNow, SavedNow
  <2> QED BY <2>1 DEF OfASave
<1>2. OfASave(StoreNow, SavedNow) => EveryEntryOfASave
  BY DEF EveryEntryOfASave, StoreNow
<1> QED BY <1>1, <1>2, EntriesStep, Invariance, PTL DEF Spec
=============================================================================
