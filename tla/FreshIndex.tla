----------------------------- MODULE FreshIndex -----------------------------
(***************************************************************************)
(* What a session is promised by the index behind `serve --mcp`, with no   *)
(* threads, locks or reference counts: a repository that changes file by   *)
(* file, removals that are reported late, and an index that is either      *)
(* withheld or shows, of every file, nothing or a version no older than    *)
(* any it has shown before and no newer than the disk.  ReadinessCell is   *)
(* shown to implement this module.                                         *)
(***************************************************************************)
EXTENDS Naturals

CONSTANTS
  Files,     \* the indexed files
  MaxEdits   \* bound: edits made of a file

VARIABLES
  disk,      \* version of each file: later edits have greater numbers
  removals,  \* files with a reported removal that is still to be applied
  served,    \* version of each file in the index last made queryable; 0: none
  shown,     \* version of each file last made queryable; 0: never
  available  \* whether a tools/call is answered from `served`

vars == <<disk, removals, served, shown, available>>

Version == 0..MaxEdits + 1
Content == [Files -> Version]

Init ==
  /\ disk = [f \in Files |-> 1]
  /\ removals = {}
  /\ served = [f \in Files |-> 0]
  /\ shown = [f \in Files |-> 0]
  /\ available = FALSE

Edit(f) ==
  /\ \E v \in Version : v > disk[f] /\ disk' = [disk EXCEPT ![f] = v]
  /\ removals' \in {removals, removals \union {f}}
  /\ UNCHANGED <<served, shown, available>>

\* Removals are applied, or thrown away for a rebuild.
Settle == removals' \in SUBSET removals

\* A version of f may be shown: from the disk, and none shown is newer.
MayShow(f, v) == shown[f] <= v /\ v <= disk[f]

\* f may be missing: it was before, it was edited since, or a removal is due.
MayMiss(f) == served[f] = 0 \/ served[f] < disk[f] \/ f \in removals

Serve(c) ==
  /\ \A f \in Files : IF c[f] = 0 THEN MayMiss(f) ELSE MayShow(f, c[f])
  /\ served' = c
  /\ shown' = [f \in Files |-> IF c[f] = 0 THEN shown[f] ELSE c[f]]
  /\ available' = TRUE
  /\ Settle
  /\ UNCHANGED disk

\* Stop answering (a rebuild has begun, or a build failed).
Withdraw ==
  /\ available' = FALSE
  /\ Settle
  /\ UNCHANGED <<disk, served, shown>>

\* A batch ends without effect.
Discard ==
  /\ Settle
  /\ UNCHANGED <<disk, served, shown, available>>

Next ==
  \/ \E f \in Files : Edit(f)
  \/ \E c \in Content : Serve(c)
  \/ Withdraw
  \/ Discard

Spec == Init /\ [][Next]_vars

=============================================================================
