---------------------------- MODULE PackContext ----------------------------
(***************************************************************************)
(* The pack_context tool (src/commands/serve.rs) and the allocation it     *)
(* rests on, allocate_with_degradation (src/context_quality/degradation.rs)*)
(*                                                                         *)
(* The files asked for, with the files they depend on, are rendered at a   *)
(* detail level each so that the sum of their tokens fits the budget:      *)
(* dependencies lose detail first, then selected files down to Documented, *)
(* then dependencies are dropped.  One step is one rendering and the check *)
(* of the total that follows it.                                           *)
(*                                                                         *)
(* A file is its token counts: of its text, and of its symbols at every    *)
(* level (all 0 when it has no symbols; nested symbols count twice, so the *)
(* symbols may cost more than the text).  Ranks stand for the priorities.  *)
(* Focus and paths that are not indexed are left out.                      *)
(***************************************************************************)
EXTENDS Naturals, Sequences, FiniteSetsExt

CONSTANTS
  Files,    \* the paths of the index, numbers in path order
  Sizes,    \* [text |-> tokens, at |-> tokens per level] of a file
  Ranks,    \* priorities
  Budgets,  \* token budgets
  Requests  \* the `files`, and the index's dependencies and test_map, each
            \* empty if it is not asked for: [files, deps, tests]

Full == 0
Trimmed == 1
Documented == 2
Signature == 3
Stub == 4

ASSUME PackAssumption ==
  /\ Files \subseteq Nat /\ Ranks \subseteq Nat /\ Budgets \subseteq Nat
  /\ Sizes \subseteq [text : Nat, at : [Full..Stub -> Nat]]
  /\ Requests \subseteq [files : Seq(Files), deps : [Files -> SUBSET Files],
                         tests : [Files -> SUBSET Files]]

VARIABLES
  request, size, rank, budget,  \* the inputs
  phase,    \* select, allocate, dependencies, selected, drop, done, packed
  taken,    \* how many of request.files were taken up
  targets,  \* target_files: <<file, role>>
  level,    \* current_levels
  dropped,  \* targets whose `rendered` was emptied
  left,     \* targets the phase's loop has not finished
  packed    \* per target: what its content is, and its tokens

inputs == <<request, size, rank, budget>>
vars == <<inputs, phase, taken, targets, level, dropped, left, packed>>

Init ==
  /\ request \in Requests /\ budget \in Budgets
  /\ size \in [Files -> Sizes] /\ rank \in [Files -> Ranks]
  /\ phase = "select" /\ taken = 0 /\ targets = <<>>
  /\ level = <<>> /\ dropped = {} /\ left = {} /\ packed = <<>>

-----------------------------------------------------------------------------
Seen == {targets[i][1] : i \in DOMAIN targets}

\* A target more; nothing has lost detail yet.
Take(f, role) ==
  /\ targets' = Append(targets, <<f, role>>)
  /\ level' = [i \in DOMAIN targets' |-> Full]

\* The dependencies of the file taken up last that are not targets yet.
Pulled == IF taken = 0 THEN {} ELSE request.deps[request.files[taken]] \ Seen

\* The next file asked for: a target of its own unless it already is one.
TakeUp ==
  /\ phase = "select" /\ Pulled = {} /\ taken < Len(request.files)
  /\ taken' = taken + 1
  /\ LET f == request.files[taken + 1]
     IN  IF f \in Seen THEN UNCHANGED <<targets, level>> ELSE Take(f, "selected")
  /\ UNCHANGED <<inputs, phase, dropped, left, packed>>

PullDependency ==
  /\ phase = "select"
  /\ \E f \in Pulled : /\ \A g \in Pulled : f <= g
                       /\ Take(f, "dependency")
  /\ UNCHANGED <<inputs, phase, taken, dropped, left, packed>>

\* The tests of the selected files, in their order, come in as dependencies.
Untested ==
  {p \in (DOMAIN targets) \X Files :
     /\ targets[p[1]][2] = "selected"
     /\ p[2] \in request.tests[targets[p[1]][1]] \ Seen}

PullTest ==
  /\ phase = "select" /\ Pulled = {} /\ taken = Len(request.files)
  /\ \E p \in Untested :
       /\ \A q \in Untested : p[1] < q[1] \/ (p[1] = q[1] /\ p[2] <= q[2])
       /\ Take(p[2], "dependency")
  /\ UNCHANGED <<inputs, phase, taken, dropped, left, packed>>

Selected ==
  /\ phase = "select" /\ Pulled = {} /\ taken = Len(request.files) /\ Untested = {}
  /\ phase' = "allocate"
  /\ UNCHANGED <<inputs, taken, targets, level, dropped, left, packed>>

-----------------------------------------------------------------------------
\* allocate_with_degradation.
SizeOf(i) == size[targets[i][1]]
With(role) == {i \in DOMAIN targets : targets[i][2] = role}

SumOf(f) == MapThenSumSet(LAMBDA i : f[i], DOMAIN f)

TextTotal == SumOf([i \in DOMAIN targets |-> SizeOf(i).text])

\* compute_total, of what is rendered at the levels ls without the targets gone.
Total(ls, gone) == SumOf([i \in DOMAIN targets \ gone |-> SizeOf(i).at[ls[i]]])

Fits(ls, gone) == Total(ls, gone) <= budget

\* The texts fit, or all symbols at Full do; if not, the loops begin.
Allocate ==
  /\ phase = "allocate"
  /\ IF TextTotal <= budget \/ Fits(level, {})
     THEN phase' = "done" /\ UNCHANGED left
     ELSE phase' = "dependencies" /\ left' = With("dependency")
  /\ UNCHANGED <<inputs, taken, targets, level, dropped, packed>>

\* The lowest priority first; the sort is stable.
Before(i, j) ==
  LET r(k) == rank[targets[k][1]]
  IN  r(i) < r(j) \/ (r(i) = r(j) /\ i < j)

\* Mutant: the highest priority first.
FirstHighest(i) == i \in left /\ \A j \in left : j = i \/ Before(j, i)

First(i) == i \in left /\ \A j \in left : j = i \/ Before(i, j)

\* Render target i anew, and return if the total fits now.
Rendered(i, ls, gone, finished) ==
  /\ level' = ls /\ dropped' = gone
  /\ left' = IF finished THEN left \ {i} ELSE left
  /\ phase' = IF Fits(ls, gone) THEN "done" ELSE phase
  /\ UNCHANGED <<inputs, taken, targets, packed>>

Lower(i, floor) ==
  Rendered(i, [level EXCEPT ![i] = @ + 1], dropped, level[i] + 1 = floor)

\* Phase 1.
DegradeDependency ==
  /\ phase = "dependencies" /\ \E i \in left : First(i) /\ Lower(i, Stub)

\* Mutant: selected files go through all the levels.
DegradeSelectedToStub ==
  /\ phase = "selected" /\ \E i \in left : First(i) /\ Lower(i, Stub)

\* Phase 2.
DegradeSelected ==
  /\ phase = "selected" /\ \E i \in left : First(i) /\ Lower(i, Documented)

\* Mutant: the dependency is back at full detail when it is not dropped alone.
DropOne ==
  /\ phase = "drop"
  /\ \E i \in left : First(i) /\ Rendered(i, level, {i}, TRUE)

\* Phase 3.
Drop ==
  /\ phase = "drop"
  /\ \E i \in left : First(i) /\ Rendered(i, level, dropped \union {i}, TRUE)

\* Mutant: there is no third loop.
NextPhaseNoDrop ==
  /\ left = {}
  /\ \/ phase = "dependencies" /\ phase' = "selected" /\ left' = With("selected")
     \/ phase = "selected" /\ phase' = "done" /\ left' = left
  /\ UNCHANGED <<inputs, taken, targets, level, dropped, packed>>

\* A loop ran out of targets and the total does not fit.
NextPhase ==
  /\ left = {}
  /\ \/ phase = "dependencies" /\ phase' = "selected" /\ left' = With("selected")
     \/ phase = "selected" /\ phase' = "drop" /\ left' = With("dependency")
     \/ phase = "drop" /\ phase' = "done" /\ left' = left
  /\ UNCHANGED <<inputs, taken, targets, level, dropped, packed>>

-----------------------------------------------------------------------------
\* Mutant: symbols are counted as the file's text.
ContentCountedAsText(i) ==
  [is |-> IF i \in dropped \/ SizeOf(i).at[level[i]] = 0 THEN "text" ELSE "symbols",
   tokens |-> SizeOf(i).text]

\* The answer of the tool: the text of a file whose allocation has no symbols, with
\* the text's tokens.  The code tells it by the symbols for the content and by their
\* tokens for the count; symbols that render to 0 tokens are taken for none here.
Content(i) ==
  IF i \in dropped \/ SizeOf(i).at[level[i]] = 0
  THEN [is |-> "text", tokens |-> SizeOf(i).text]
  ELSE [is |-> "symbols", tokens |-> SizeOf(i).at[level[i]]]

Pack ==
  /\ phase = "done" /\ phase' = "packed"
  /\ packed' = [i \in DOMAIN targets |-> Content(i)]
  /\ UNCHANGED <<inputs, taken, targets, level, dropped, left>>

Next == \/ TakeUp \/ PullDependency \/ PullTest \/ Selected
        \/ Allocate \/ DegradeDependency \/ DegradeSelected \/ Drop
        \/ NextPhase \/ Pack

Spec == Init /\ [][Next]_vars
-----------------------------------------------------------------------------
(***************************************************************************)
(* Properties.                                                             *)
(***************************************************************************)
\* Every variable keeps its type; levels are kept per target.
TypeOK ==
  /\ request \in Requests /\ budget \in Budgets
  /\ size \in [Files -> Sizes] /\ rank \in [Files -> Ranks]
  /\ phase \in {"select", "allocate", "dependencies", "selected", "drop",
                "done", "packed"}
  /\ taken \in 0..Len(request.files)
  /\ targets \in Seq(Files \X {"selected", "dependency"})
  /\ level \in [DOMAIN targets -> Full..Stub]
  /\ dropped \subseteq With("dependency") /\ left \subseteq DOMAIN targets
  /\ \/ packed = <<>>
     \/ packed \in [DOMAIN targets -> [is : {"text", "symbols"}, tokens : Nat]]

\* What has the role Selected is the last to lose detail: such a file is below
\* Full only when every dependency is a stub, it is never below Documented, and
\* nothing is dropped before every one of them is there (the three phases of
\* allocate_with_degradation, which stop at any point).  A requested file that an
\* earlier one pulled in has the role Dependency and is none of them.
SelectedLast ==
  /\ \A i \in With("selected") :
       /\ level[i] <= Documented
       /\ level[i] > Full => \A j \in With("dependency") : level[j] = Stub
  /\ dropped # {} => \A i \in With("selected") : level[i] = Documented

\* Among dependencies, and among selected files, one loses detail only after
\* those of lower priority have nothing left to lose; so with dropping.
LowestFirst ==
  \A i, j \in DOMAIN targets :
    (targets[i][2] = targets[j][2] /\ Before(i, j)) =>
      /\ level[j] > Full =>
           level[i] = IF targets[i][2] = "selected" THEN Documented ELSE Stub
      /\ j \in dropped => i \in dropped

\* An allocation is over the budget only when there is nothing left to give up,
\* or when the texts fit (they are not what is answered with).
OverOnlyAtTheFloor ==
  (phase \in {"done", "packed"} /\ ~Fits(level, dropped)) =>
     \/ TextTotal <= budget
     \/ /\ dropped = With("dependency")
        /\ \A i \in With("selected") : level[i] = Documented

\* No detail is given up by an allocation that fits, and none is given back.
GivesUpOnlyWhenOver ==
  [][/\ targets' = targets => \A i \in DOMAIN targets : level[i] <= level'[i]
     /\ dropped \subseteq dropped'
     /\ (dropped' # dropped \/ \E i \in DOMAIN targets : level'[i] # level[i])
           => ~Fits(level, dropped)]_vars

\* The answer is within the budget when it is symbols only, none dropped: unless
\* the texts fit, or all is selected and at its floor (the tool counts its own
\* answer, not the allocation).
AnswerFits ==
  (phase = "packed" /\ \A i \in DOMAIN targets : packed[i].is = "symbols") =>
    \/ SumOf([i \in DOMAIN targets |-> packed[i].tokens]) <= budget
    \/ TextTotal <= budget
    \/ \A i \in DOMAIN targets : i \in With("selected") /\ level[i] = Documented

\* Dropped entirely: no content of a dropped dependency is in the answer.
DroppedAreGone ==
  phase = "packed" => \A i \in dropped : packed[i].tokens = 0

=============================================================================
