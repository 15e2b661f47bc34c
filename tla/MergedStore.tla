---------------------------- MODULE MergedStore ----------------------------
(***************************************************************************)
(* What the artifact store promises the builds that share it (ADR-0210):   *)
(* every build that ends its save has its batch merged, once, into all     *)
(* that was saved before.  What a merge does to one path is                *)
(* merge_store_entries (src/cache/artifacts.rs) and the call sites that    *)
(* PendingStore::save adds (src/commands/serve.rs).                        *)
(***************************************************************************)

CONSTANTS
  Paths,    \* paths of the repository
  Hashes,   \* content hashes
  NoHash,   \* no entry, or no call sites
  Procs,    \* processes that save
  Batch,    \* what each of them has to merge
  Start     \* the store at the start

\* An entry: the content it is for, and the content its call sites are of.
Entry == [sha : Hashes, sites : Hashes \union {NoHash}]
NoEntry == [sha |-> NoHash, sites |-> NoHash]
Stores == [Paths -> Entry \union {NoEntry}]

\* changed: entries computed; scanned: paths read; scope: the workspace;
\* sites: for which content call sites were computed.
Batches ==
  [changed : Stores, scanned : SUBSET Paths, scope : SUBSET Paths,
   sites : [Paths -> Hashes \union {NoHash}]]

VARIABLES store, saved

\* Paths in scope that were not read are pruned.
Pruned(s, b) ==
  [f \in Paths |-> IF f \in b.scope /\ f \notin b.scanned THEN NoEntry ELSE s[f]]

Replaced(s, b) ==
  [f \in Paths |-> IF b.changed[f] # NoEntry THEN b.changed[f] ELSE s[f]]

\* Mutant: call sites are put on whatever entry the path has.
WithSitesAny(s, b) ==
  [f \in Paths |-> IF s[f] # NoEntry /\ b.sites[f] # NoHash
                   THEN [s[f] EXCEPT !.sites = b.sites[f]] ELSE s[f]]

\* Call sites are put on an entry for the content they were computed from.
WithSites(s, b) ==
  [f \in Paths |-> IF s[f] # NoEntry /\ b.sites[f] = s[f].sha
                   THEN [s[f] EXCEPT !.sites = b.sites[f]] ELSE s[f]]

Merged(s, b) == WithSites(Replaced(Pruned(s, b), b), b)

Init == store = Start /\ saved = {}

Save(p) ==
  /\ p \notin saved /\ saved' = saved \union {p}
  /\ store' = Merged(store, Batch[p])

Next == \E p \in Procs : Save(p)

Spec == Init /\ [][Next]_<<store, saved>>
=============================================================================
