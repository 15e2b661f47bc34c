------------------------- MODULE PackContextProofs -------------------------
(***************************************************************************)
(* What PackContext promises for any files, token counts, priorities and   *)
(* budget.  The argument: a loop leaves behind targets at its floor, has   *)
(* one target in hand, and has not touched those of higher priority; so    *)
(* wherever it returns, detail was lost in order.  The sums of tokens are  *)
(* compared with the budget and not computed, so nothing about sums is     *)
(* needed: an answer of symbols is the sum the allocation was checked with.*)
(***************************************************************************)
EXTENDS PackContext, TLAPS

D == With("dependency")
S == With("selected")

Loops == {"dependencies", "selected", "drop"}

\* A loop over the targets R, down to the level floor.
LoopInv(R, floor) ==
  /\ left \subseteq R
  /\ \A i \in R \ left : level[i] = floor /\ \A j \in left : Before(i, j)
  /\ \A i \in left : level[i] < floor
  /\ \A i, j \in left : Before(i, j) => level[j] = Full

DependencyFacts ==
  dropped = {} /\ (\A i \in S : level[i] = Full) /\ LoopInv(D, Stub)

SelectedFacts ==
  dropped = {} /\ (\A i \in D : level[i] = Stub) /\ LoopInv(S, Documented)

DropFacts ==
  /\ \A i \in D : level[i] = Stub
  /\ \A i \in S : level[i] = Documented
  /\ left \subseteq D /\ dropped = D \ left
  /\ \A i \in dropped, j \in left : Before(i, j)

PhaseInv ==
  /\ phase # "packed" => packed = <<>>
  /\ phase \in {"select", "allocate"} =>
       dropped = {} /\ left = {} /\ \A i \in DOMAIN targets : level[i] = Full
  /\ phase = "dependencies" => DependencyFacts
  /\ phase = "selected" => SelectedFacts
  /\ phase = "drop" => DropFacts

OverInv == phase \in Loops => ~Fits(level, dropped)

\* The answer is made of the allocation as it is.
PackedInv == phase = "packed" => packed = [i \in DOMAIN targets |-> Content(i)]

IInv == TypeOK /\ PhaseInv /\ OverInv /\ SelectedLast /\ LowestFirst /\ OverOnlyAtTheFloor

LEMMA InitPacked == Init => PackedInv
BY DEF Init, PackedInv

\* Only Pack makes an answer, and nothing moves after it.
LEMMA StepPacked == PackedInv /\ [Next]_vars => PackedInv'
<1> SUFFICES ASSUME PackedInv, [Next]_vars, phase' = "packed"
             PROVE  packed' = [i \in DOMAIN targets' |-> Content(i)']
  BY DEF PackedInv
<1>1. CASE UNCHANGED vars
  BY <1>1 DEF vars, inputs, PackedInv, Content, SizeOf
<1>2. CASE Pack
  BY <1>2 DEF Pack, inputs, Content, SizeOf
<1>3. CASE TakeUp \/ PullDependency \/ PullTest \/ Selected \/ Allocate \/ NextPhase
  BY <1>3 DEF TakeUp, PullDependency, PullTest, Selected, Allocate, NextPhase
<1>4. CASE DegradeDependency \/ DegradeSelected \/ Drop
  BY <1>4 DEF DegradeDependency, DegradeSelected, Drop, Lower, Rendered
<1> QED BY <1>1, <1>2, <1>3, <1>4 DEF Next

\* A target is a dependency or selected, and the order of targets is strict.
LEMMA Targets ==
  ASSUME TypeOK
  PROVE  /\ DOMAIN targets = D \union S /\ D \intersect S = {}
         /\ DOMAIN targets = 1..Len(targets)
         /\ \A i \in DOMAIN targets : targets[i][1] \in Files
         /\ \A i \in D : targets[i][2] = "dependency"
         /\ \A i \in S : targets[i][2] = "selected"
<1>1. targets \in Seq(Files \X {"selected", "dependency"})
  BY DEF TypeOK
<1>2. DOMAIN targets = 1..Len(targets)
  BY <1>1
<1>3. \A i \in DOMAIN targets :
        targets[i][1] \in Files /\ targets[i][2] \in {"selected", "dependency"}
  <2> SUFFICES ASSUME NEW i \in DOMAIN targets
               PROVE  targets[i] \in Files \X {"selected", "dependency"}
    OBVIOUS
  <2> QED BY <1>1
<1>4. DOMAIN targets = D \union S /\ D \intersect S = {}
  BY <1>3 DEF D, S, With
<1> QED BY <1>2, <1>3, <1>4 DEF D, S, With

LEMMA RankType ==
  ASSUME TypeOK, NEW i \in DOMAIN targets
  PROVE  rank[targets[i][1]] \in Nat
BY Targets, PackAssumption DEF TypeOK

LEMMA Strict ==
  ASSUME TypeOK, NEW i \in DOMAIN targets, NEW j \in DOMAIN targets, Before(i, j)
  PROVE  ~Before(j, i)
<1>1. rank[targets[i][1]] \in Nat /\ rank[targets[j][1]] \in Nat /\ i \in Nat /\ j \in Nat
  BY RankType, Targets
<1> QED BY <1>1 DEF Before

\* What a loop keeps implies the order properties.
LEMMA LoopOrders ==
  TypeOK /\ (DependencyFacts \/ SelectedFacts \/ DropFacts) => SelectedLast /\ LowestFirst
<1> SUFFICES ASSUME TypeOK, DependencyFacts \/ SelectedFacts \/ DropFacts
             PROVE  SelectedLast /\ LowestFirst
  OBVIOUS
<1> USE Targets
<1>0. \A i \in DOMAIN targets : level[i] \in Full..Stub
  BY DEF TypeOK
<1>1. SelectedLast
  BY <1>0 DEF DependencyFacts, SelectedFacts, DropFacts, LoopInv, SelectedLast, D, S, Full,
    Documented, Stub
<1>2. LowestFirst
  <2> SUFFICES ASSUME NEW i \in DOMAIN targets, NEW j \in DOMAIN targets,
                      targets[i][2] = targets[j][2], Before(i, j)
               PROVE  /\ level[j] > Full =>
                           level[i] = IF targets[i][2] = "selected" THEN Documented ELSE Stub
                      /\ j \in dropped => i \in dropped
    BY DEF LowestFirst
  <2>1. ~Before(j, i)
    BY Strict
  <2>2. CASE i \in D /\ j \in D
    <3>1. level[j] > Full => level[i] = Stub
      BY <1>0, <2>1, <2>2 DEF DependencyFacts, SelectedFacts, DropFacts, LoopInv, Full, Stub
    <3>2. j \in dropped => i \in dropped
      BY <2>1, <2>2 DEF DependencyFacts, SelectedFacts, DropFacts
    <3> QED BY <2>2, <3>1, <3>2
  <2>3. CASE i \in S /\ j \in S
    <3>1. level[j] > Full => level[i] = Documented
      BY <1>0, <2>1, <2>3 DEF DependencyFacts, SelectedFacts, DropFacts, LoopInv, Full, Documented
    <3>2. j \notin dropped
      BY <2>3 DEF TypeOK, D
    <3> QED BY <2>3, <3>1, <3>2
  <2> QED BY <2>2, <2>3
<1> QED BY <1>1, <1>2

LEMMA LoopOrdersNext ==
  TypeOK' /\ (DependencyFacts' \/ SelectedFacts' \/ DropFacts') => SelectedLast' /\ LowestFirst'
BY LoopOrders, PTL

LEMMA InitInv == Init => IInv
<1> SUFFICES ASSUME Init PROVE IInv
  OBVIOUS
<1>1. request.files \in Seq(Files)
  BY PackAssumption DEF Init
<1>2. TypeOK
  <2>1. taken \in 0..Len(request.files) /\ targets \in Seq(Files \X {"selected", "dependency"})
    BY <1>1 DEF Init
  <2>2. level \in [DOMAIN targets -> Full..Stub]
    BY DEF Init
  <2>3. dropped \subseteq With("dependency") /\ left \subseteq DOMAIN targets
    BY DEF Init
  <2> QED BY <2>1, <2>2, <2>3 DEF Init, TypeOK
<1>3. DOMAIN targets = {}
  BY DEF Init
<1> QED BY <1>2, <1>3 DEF Init, IInv, PhaseInv, OverInv, Loops, SelectedLast, LowestFirst,
  OverOnlyAtTheFloor, With

-----------------------------------------------------------------------------
\* A target more, while the targets are collected.
LEMMA TakeInv ==
  ASSUME IInv, phase = "select", NEW f \in Files, NEW role \in {"selected", "dependency"},
         Take(f, role), taken' \in 0..Len(request.files),
         UNCHANGED <<inputs, phase, dropped, left, packed>>
  PROVE  IInv'
<1> USE DEF IInv
<1>1. targets \in Seq(Files \X {"selected", "dependency"})
  BY DEF TypeOK
<1>2. targets' \in Seq(Files \X {"selected", "dependency"})
  BY <1>1 DEF Take
<1>3. dropped' = {} /\ left' = {} /\ packed' = <<>> /\ phase' = "select"
  BY DEF PhaseInv
<1>4. level' = [i \in DOMAIN targets' |-> Full]
  BY DEF Take
<1>5. TypeOK'
  BY <1>2, <1>3, <1>4 DEF TypeOK, inputs, With, Full, Stub
<1>6. PhaseInv' /\ OverInv' /\ OverOnlyAtTheFloor'
  BY <1>3, <1>4 DEF PhaseInv, OverInv, OverOnlyAtTheFloor, Loops
<1>7. SelectedLast' /\ LowestFirst'
  BY <1>3, <1>4 DEF SelectedLast, LowestFirst, With, Full, Documented
<1> QED BY <1>5, <1>6, <1>7

LEMMA SelectInv == IInv /\ (TakeUp \/ PullDependency \/ PullTest \/ Selected) => IInv'
<1> SUFFICES ASSUME IInv, TakeUp \/ PullDependency \/ PullTest \/ Selected PROVE IInv'
  OBVIOUS
<1>1. request.files \in Seq(Files) /\ request.deps \in [Files -> SUBSET Files]
      /\ taken \in 0..Len(request.files) /\ Len(request.files) \in Nat
  BY PackAssumption DEF IInv, TypeOK
<1>2. CASE Selected \/ (TakeUp /\ UNCHANGED <<targets, level>>)
  <2>1. /\ UNCHANGED <<inputs, targets, level, dropped, left, packed>>
        /\ phase = "select" /\ phase' \in {"select", "allocate"}
        /\ taken' \in 0..Len(request.files)
    BY <1>1, <1>2 DEF Selected, TakeUp
  <2> QED BY <2>1 DEF IInv, TypeOK, PhaseInv, OverInv, SelectedLast, LowestFirst,
    OverOnlyAtTheFloor, Loops, With, Before, inputs
<1>3. CASE TakeUp /\ ~UNCHANGED <<targets, level>>
  <2>1. /\ phase = "select" /\ taken' = taken + 1 /\ taken < Len(request.files)
        /\ Take(request.files[taken + 1], "selected")
        /\ UNCHANGED <<inputs, phase, dropped, left, packed>>
    BY <1>3 DEF TakeUp
  <2>2. request.files[taken + 1] \in Files /\ taken' \in 0..Len(request.files)
    BY <1>1, <2>1
  <2> QED BY <2>1, <2>2, TakeInv
<1>4. CASE PullDependency
  <2>1. PICK f \in Pulled : Take(f, "dependency")
    BY <1>4 DEF PullDependency
  <2>2. f \in Files
    BY <1>1, <2>1 DEF Pulled
  <2> QED BY <1>1, <1>4, <2>1, <2>2, TakeInv DEF PullDependency
<1>5. CASE PullTest
  <2>1. PICK p \in Untested : Take(p[2], "dependency")
    BY <1>5 DEF PullTest
  <2>2. p[2] \in Files
    BY <2>1 DEF Untested
  <2> QED BY <1>1, <1>5, <2>1, <2>2, TakeInv DEF PullTest
<1> QED BY <1>2, <1>3, <1>4, <1>5

LEMMA AllocateInv == IInv /\ Allocate => IInv'
<1> SUFFICES ASSUME IInv, Allocate PROVE IInv'
  OBVIOUS
<1> USE DEF IInv
<1>1. /\ UNCHANGED <<inputs, taken, targets, level, dropped, packed>> /\ phase = "allocate"
      /\ dropped = {} /\ \A i \in DOMAIN targets : level[i] = Full
  BY DEF Allocate, PhaseInv
<1>2. D' = D /\ S' = S /\ (\A i, j : Before(i, j)' <=> Before(i, j))
  BY <1>1 DEF D, S, With, Before, inputs
<1>3. TextTotal' = TextTotal /\ Fits(level, dropped)' = Fits(level, dropped) /\ budget' = budget
  BY <1>1 DEF TextTotal, Fits, Total, SizeOf, inputs
<1>4. SelectedLast' /\ LowestFirst'
  BY <1>1 DEF SelectedLast, LowestFirst, With, Full, Documented, inputs
<1>5. CASE TextTotal <= budget \/ Fits(level, {})
  <2>1. phase' = "done" /\ left' = left
    BY <1>5 DEF Allocate
  <2>2. TypeOK'
    BY <1>1, <2>1 DEF TypeOK, inputs, With
  <2>3. PhaseInv' /\ OverInv' /\ OverOnlyAtTheFloor'
    BY <1>1, <1>3, <1>5, <2>1 DEF PhaseInv, OverInv, OverOnlyAtTheFloor, Loops
  <2> QED BY <1>4, <2>2, <2>3
<1>6. CASE ~(TextTotal <= budget \/ Fits(level, {}))
  <2>1. phase' = "dependencies" /\ left' = D
    BY <1>6 DEF Allocate, D
  <2>2. TypeOK'
    BY <1>1, <2>1, Targets DEF TypeOK, inputs, With, D
  <2>3. LoopInv(D, Stub)'
    BY <1>1, <1>2, <2>1, Targets DEF LoopInv, Full, Stub
  <2>4. PhaseInv' /\ OverInv' /\ OverOnlyAtTheFloor'
    BY <1>1, <1>2, <1>3, <1>6, <2>1, <2>3, Targets DEF PhaseInv, DependencyFacts, OverInv,
      OverOnlyAtTheFloor, Loops
  <2> QED BY <1>4, <2>2, <2>4
<1> QED BY <1>5, <1>6

-----------------------------------------------------------------------------
\* What a rendering leaves alone, and the outcome of the check after it.
LEMMA RenderedFacts ==
  ASSUME IInv, phase \in Loops, NEW i \in left, NEW ls, NEW gone, NEW fin \in BOOLEAN,
         Rendered(i, ls, gone, fin)
  PROVE  /\ UNCHANGED <<inputs, taken, targets, packed>>
         /\ level' = ls /\ dropped' = gone
         /\ left' = IF fin THEN left \ {i} ELSE left
         /\ D' = D /\ S' = S /\ (\A j, k : Before(j, k)' <=> Before(j, k))
         /\ TextTotal' = TextTotal /\ budget' = budget
         /\ phase' \in {phase, "done"}
         /\ Fits(level, dropped)' => phase' = "done"
         /\ ~Fits(level, dropped)' => phase' = phase
<1>1. /\ UNCHANGED <<inputs, taken, targets, packed>> /\ level' = ls /\ dropped' = gone
      /\ left' = (IF fin THEN left \ {i} ELSE left)
      /\ phase' = IF Fits(ls, gone) THEN "done" ELSE phase
  BY DEF Rendered
<1>2. D' = D /\ S' = S /\ (\A j, k : Before(j, k)' <=> Before(j, k))
  BY <1>1 DEF D, S, With, Before, inputs
<1>3. TextTotal' = TextTotal /\ budget' = budget
  BY <1>1 DEF TextTotal, SizeOf, inputs
<1>4. Fits(level, dropped)' = Fits(ls, gone)
  BY <1>1 DEF Fits, Total, SizeOf, inputs
<1> QED BY <1>1, <1>2, <1>3, <1>4

\* One level down, of the first target of a loop.
LEMMA LowerInv ==
  ASSUME IInv, phase \in Loops, NEW R, NEW floor \in Documented..Stub, R \subseteq DOMAIN targets,
         LoopInv(R, floor), NEW i \in left, First(i), Lower(i, floor)
  PROVE  /\ LoopInv(R, floor)' /\ level' \in [DOMAIN targets -> Full..Stub]
         /\ left' \subseteq left /\ dropped' = dropped
         /\ \A j \in DOMAIN targets \ R : level'[j] = level[j]
<1> USE DEF IInv
<1> DEFINE fin == level[i] + 1 = floor
<1>1. Rendered(i, [level EXCEPT ![i] = @ + 1], dropped, fin) /\ fin \in BOOLEAN
  BY DEF Lower
<1>2. i \in R /\ i \in DOMAIN targets /\ level \in [DOMAIN targets -> 0..4] /\ floor \in 2..4
      /\ level[i] < floor /\ level[i] \in 0..4
  BY DEF LoopInv, TypeOK, Full, Stub, Documented
<1>3. /\ level' = [level EXCEPT ![i] = @ + 1] /\ dropped' = dropped
      /\ left' = (IF fin THEN left \ {i} ELSE left)
      /\ \A j, k : Before(j, k)' <=> Before(j, k)
  BY <1>1, RenderedFacts
<1>4. /\ level'[i] = level[i] + 1 /\ \A j \in DOMAIN targets : j # i => level'[j] = level[j]
      /\ level' \in [DOMAIN targets -> 0..4]
  BY <1>2, <1>3
<1>5. \A j \in left : j = i \/ Before(i, j)
  BY DEF First
<1>6. \A j \in left : ~Before(j, i)
  <2> SUFFICES ASSUME NEW j \in left, Before(j, i) PROVE FALSE
    OBVIOUS
  <2>1. j \in DOMAIN targets
    BY DEF LoopInv
  <2>2. j = i \/ Before(i, j)
    BY <1>5
  <2>3. CASE j = i
    BY <1>2, <2>3, Strict
  <2>4. CASE Before(i, j)
    BY <1>2, <2>1, <2>4, Strict
  <2> QED BY <2>2, <2>3, <2>4
<1>7. LoopInv(R, floor)'
  <2>1. left' \subseteq R
    BY <1>3 DEF LoopInv
  <2>2. \A j \in R \ left' : level'[j] = floor /\ \A k \in left' : Before(j, k)
    <3> SUFFICES ASSUME NEW j \in R \ left' PROVE level'[j] = floor /\ \A k \in left' : Before(j, k)
      OBVIOUS
    <3>1. CASE j = i
      BY <1>3, <1>4, <1>5, <3>1
    <3>2. CASE j # i
      <4>1. j \in R \ left /\ j \in DOMAIN targets
        BY <1>3, <3>2
      <4> QED BY <1>3, <1>4, <3>2, <4>1 DEF LoopInv
    <3> QED BY <3>1, <3>2
  <2>3. \A j \in left' : level'[j] < floor
    <3> SUFFICES ASSUME NEW j \in left' PROVE level'[j] < floor
      OBVIOUS
    <3>1. CASE j = i
      BY <1>2, <1>3, <1>4, <3>1
    <3>2. CASE j # i
      BY <1>3, <1>4, <3>2 DEF LoopInv
    <3> QED BY <3>1, <3>2
  <2>4. \A j, k \in left' : Before(j, k) => level'[k] = Full
    <3> SUFFICES ASSUME NEW j \in left', NEW k \in left', Before(j, k) PROVE level'[k] = Full
      OBVIOUS
    <3>1. k # i /\ j \in left /\ k \in left
      BY <1>3, <1>6
    <3> QED BY <1>4, <3>1 DEF LoopInv
  <2> QED BY <1>3, <2>1, <2>2, <2>3, <2>4 DEF LoopInv
<1> QED BY <1>2, <1>3, <1>4, <1>7 DEF Full, Stub

\* A rendering that keeps types and its loop's order keeps everything.
LEMMA RenderedInv ==
  ASSUME IInv, phase \in Loops, NEW i \in left, NEW ls, NEW gone, NEW fin \in BOOLEAN,
         Rendered(i, ls, gone, fin), ls \in [DOMAIN targets -> Full..Stub], gone \subseteq D,
         \/ phase = "dependencies" /\ DependencyFacts'
         \/ phase = "selected" /\ SelectedFacts'
         \/ phase = "drop" /\ DropFacts'
  PROVE  IInv'
<1> USE DEF IInv
<1>1. /\ UNCHANGED <<inputs, taken, targets, packed>>
      /\ level' = ls /\ dropped' = gone /\ left' \subseteq left /\ D' = D
      /\ phase' \in {phase, "done"}
  BY RenderedFacts
<1>2. TypeOK'
  <2>1. phase' # "packed" /\ packed = <<>>
    BY <1>1 DEF Loops, PhaseInv
  <2>2. gone \subseteq With("dependency")'
    BY <1>1 DEF D, With
  <2> QED BY <1>1, <2>1, <2>2 DEF TypeOK, inputs, Loops
<1>3. OverInv' /\ OverOnlyAtTheFloor'
  BY RenderedFacts DEF OverInv, OverOnlyAtTheFloor, Loops
<1>4. PhaseInv'
  BY <1>1 DEF PhaseInv, Loops
<1>5. SelectedLast' /\ LowestFirst'
  BY <1>2, LoopOrdersNext
<1> QED BY <1>2, <1>3, <1>4, <1>5

LEMMA DegradeInv == IInv /\ (DegradeDependency \/ DegradeSelected) => IInv'
<1> SUFFICES ASSUME IInv, DegradeDependency \/ DegradeSelected PROVE IInv'
  OBVIOUS
<1> USE DEF IInv
<1>1. ASSUME phase = "dependencies", NEW i \in left, First(i), Lower(i, Stub) PROVE IInv'
  <2>0. PICK R : R = D
    OBVIOUS
  <2>1. DependencyFacts /\ phase \in Loops /\ R \subseteq DOMAIN targets
        /\ Stub \in Documented..Stub /\ LoopInv(R, Stub)
    BY <1>1, <2>0 DEF PhaseInv, Loops, DependencyFacts, D, With, Documented, Stub
  <2>2. /\ LoopInv(R, Stub)' /\ level' \in [DOMAIN targets -> Full..Stub]
        /\ dropped' = dropped /\ \A j \in DOMAIN targets \ R : level'[j] = level[j]
    BY <1>1, <2>1, LowerInv
  <2>3. Rendered(i, level', dropped, level[i] + 1 = Stub) /\ S' = S /\ D' = D
    BY <1>1, <2>1, RenderedFacts DEF Lower, Rendered
  <2>4. DependencyFacts'
    BY <2>0, <2>1, <2>2, <2>3, Targets DEF DependencyFacts, LoopInv
  <2> QED BY <1>1, <2>1, <2>2, <2>3, <2>4, RenderedInv DEF DependencyFacts
<1>2. ASSUME phase = "selected", NEW i \in left, First(i), Lower(i, Documented) PROVE IInv'
  <2>0. PICK R : R = S
    OBVIOUS
  <2>1. SelectedFacts /\ phase \in Loops /\ R \subseteq DOMAIN targets
        /\ Documented \in Documented..Stub /\ LoopInv(R, Documented)
    BY <1>2, <2>0 DEF PhaseInv, Loops, SelectedFacts, S, With, Documented, Stub
  <2>2. /\ LoopInv(R, Documented)' /\ level' \in [DOMAIN targets -> Full..Stub]
        /\ dropped' = dropped /\ \A j \in DOMAIN targets \ R : level'[j] = level[j]
    BY <1>2, <2>1, LowerInv
  <2>3. Rendered(i, level', dropped, level[i] + 1 = Documented) /\ S' = S /\ D' = D
    BY <1>2, <2>1, RenderedFacts DEF Lower, Rendered
  <2>4. SelectedFacts'
    BY <2>0, <2>1, <2>2, <2>3, Targets DEF SelectedFacts, LoopInv
  <2> QED BY <1>2, <2>1, <2>2, <2>3, <2>4, RenderedInv DEF SelectedFacts
<1> QED BY <1>1, <1>2 DEF DegradeDependency, DegradeSelected

LEMMA DropInv == IInv /\ Drop => IInv'
<1> SUFFICES ASSUME IInv, Drop PROVE IInv'
  OBVIOUS
<1> USE DEF IInv
<1>1. PICK i \in left : First(i) /\ Rendered(i, level, dropped \union {i}, TRUE)
  BY DEF Drop
<1>2. DropFacts /\ phase = "drop" /\ phase \in Loops
  BY DEF Drop, PhaseInv, Loops
<1>3. /\ level' = level /\ dropped' = dropped \union {i} /\ left' = left \ {i}
      /\ D' = D /\ S' = S /\ (\A j, k : Before(j, k)' <=> Before(j, k))
  BY <1>1, <1>2, RenderedFacts
<1>4. DropFacts'
  <2>1. left' \subseteq D /\ dropped' = D \ left'
    BY <1>2, <1>3 DEF DropFacts
  <2>2. \A j \in dropped', k \in left' : Before(j, k)
    BY <1>1, <1>2, <1>3 DEF DropFacts, First
  <2> QED BY <1>2, <1>3, <2>1, <2>2 DEF DropFacts
<1>5. level \in [DOMAIN targets -> Full..Stub] /\ dropped \union {i} \subseteq D
  BY <1>2 DEF TypeOK, DropFacts
<1> QED BY <1>1, <1>2, <1>4, <1>5, RenderedInv

\* The next loop begins: nothing was rendered in between.
LEMMA NextPhaseInv == IInv /\ NextPhase => IInv'
<1> SUFFICES ASSUME IInv, NextPhase PROVE IInv'
  OBVIOUS
<1> USE DEF IInv
<1>1. UNCHANGED <<inputs, taken, targets, level, dropped, packed>> /\ left = {}
  BY DEF NextPhase
<1>2. D' = D /\ S' = S /\ (\A j, k : Before(j, k)' <=> Before(j, k))
  BY <1>1 DEF D, S, With, Before, inputs
<1>3. TextTotal' = TextTotal /\ (Fits(level, dropped)' <=> Fits(level, dropped)) /\ budget' = budget
  BY <1>1 DEF TextTotal, Fits, Total, SizeOf, inputs
<1>4. SelectedLast' /\ LowestFirst'
  BY <1>1, <1>2 DEF SelectedLast, LowestFirst, With
<1>5. \/ phase = "dependencies" /\ phase' = "selected" /\ left' = S
      \/ phase = "selected" /\ phase' = "drop" /\ left' = D
      \/ phase = "drop" /\ phase' = "done" /\ left' = left
  BY DEF NextPhase, D, S
<1>6. TypeOK'
  <2>1. phase # "packed" /\ phase' \in {"selected", "drop", "done"} /\ left' \subseteq DOMAIN targets
    BY <1>5, Targets DEF TypeOK
  <2>2. With("dependency")' = With("dependency")
    BY <1>1 DEF With
  <2> QED BY <1>1, <2>1, <2>2 DEF TypeOK, inputs
<1>7. phase = "dependencies" => SelectedFacts'
  <2> SUFFICES ASSUME phase = "dependencies" PROVE SelectedFacts'
    OBVIOUS
  <2>1. DependencyFacts /\ left' = S
    BY <1>5 DEF PhaseInv
  <2>2. LoopInv(S, Documented)'
    BY <1>1, <1>2, <2>1 DEF LoopInv, DependencyFacts, Full, Documented
  <2> QED BY <1>1, <1>2, <2>1, <2>2 DEF SelectedFacts, DependencyFacts, LoopInv
<1>8. phase = "selected" => DropFacts'
  BY <1>1, <1>2, <1>5 DEF PhaseInv, SelectedFacts, DropFacts, LoopInv
<1>9. phase = "drop" => dropped = D /\ \A i \in S : level[i] = Documented
  BY <1>1 DEF PhaseInv, DropFacts
<1>10. PhaseInv'
  BY <1>1, <1>5, <1>7, <1>8 DEF PhaseInv
<1>11. OverInv' /\ OverOnlyAtTheFloor'
  BY <1>1, <1>2, <1>3, <1>5, <1>9 DEF OverInv, OverOnlyAtTheFloor, Loops, D, S
<1> QED BY <1>4, <1>6, <1>10, <1>11

LEMMA PackInv == IInv /\ Pack => IInv'
<1> SUFFICES ASSUME IInv, Pack PROVE IInv'
  OBVIOUS
<1> USE DEF IInv
<1>1. /\ UNCHANGED <<inputs, taken, targets, level, dropped, left>>
      /\ phase = "done" /\ phase' = "packed" /\ packed' = [i \in DOMAIN targets |-> Content(i)]
  BY DEF Pack
<1>2. ASSUME NEW i \in DOMAIN targets
      PROVE  Content(i) \in [is : {"text", "symbols"}, tokens : Nat]
  <2>1. size[targets[i][1]] \in [text : Nat, at : [Full..Stub -> Nat]]
    BY <1>2, Targets, PackAssumption DEF TypeOK
  <2>2. level[i] \in Full..Stub
    BY <1>2 DEF TypeOK
  <2> QED BY <2>1, <2>2 DEF Content, SizeOf
<1>3. TypeOK'
  BY <1>1, <1>2 DEF TypeOK, inputs, With
<1>4. SelectedLast' /\ LowestFirst' /\ PhaseInv' /\ OverInv'
  BY <1>1 DEF SelectedLast, LowestFirst, PhaseInv, OverInv, Loops, With, Before, inputs
<1>5. OverOnlyAtTheFloor'
  BY <1>1 DEF OverOnlyAtTheFloor, Fits, Total, TextTotal, SizeOf, With, inputs
<1> QED BY <1>3, <1>4, <1>5

LEMMA StepInv == IInv /\ [Next]_vars => IInv'
<1> SUFFICES ASSUME IInv, [Next]_vars PROVE IInv'
  OBVIOUS
<1>1. CASE UNCHANGED vars
  BY <1>1 DEF vars, IInv, TypeOK, PhaseInv, DependencyFacts, SelectedFacts, DropFacts, LoopInv,
    OverInv, SelectedLast, LowestFirst, OverOnlyAtTheFloor, Fits, Total, TextTotal, SizeOf,
    With, Before, D, S, inputs
<1> QED BY <1>1, SelectInv, AllocateInv, DegradeInv, DropInv, NextPhaseInv, PackInv DEF Next

LEMMA Invariance == Spec => []IInv
BY InitInv, StepInv, PTL DEF Spec

\* A step that gives up anything is a step of a loop, where nothing fits.
LEMMA GivesUpStep ==
  ASSUME IInv, Next
  PROVE  /\ targets' = targets => \A i \in DOMAIN targets : level[i] <= level'[i]
         /\ dropped \subseteq dropped'
         /\ (dropped' # dropped \/ \E i \in DOMAIN targets : level'[i] # level[i])
               => ~Fits(level, dropped)
<1> USE DEF IInv
<1>0. level \in [DOMAIN targets -> 0..4]
  BY DEF TypeOK, Full, Stub
<1>1. CASE UNCHANGED <<level, dropped>>
  BY <1>0, <1>1
<1>2. ASSUME phase = "select", UNCHANGED dropped, NEW f \in Files, NEW role, Take(f, role)
      PROVE  targets' # targets /\ \A i \in DOMAIN targets : level'[i] = level[i]
  <2>1. /\ targets \in Seq(Files \X {"selected", "dependency"})
        /\ targets' = Append(targets, <<f, role>>)
        /\ level' = [i \in DOMAIN targets' |-> Full]
    BY <1>2 DEF TypeOK, Take
  <2>2. Len(targets') = Len(targets) + 1 /\ DOMAIN targets \subseteq DOMAIN targets'
    BY <2>1
  <2>3. \A i \in DOMAIN targets : level[i] = Full
    BY <1>2 DEF PhaseInv
  <2> QED BY <2>1, <2>2, <2>3
<1>3. CASE (TakeUp /\ ~UNCHANGED <<targets, level>>) \/ PullDependency \/ PullTest
  <2>1. phase = "select" /\ dropped' = dropped /\ \E f, role : Take(f, role)
    BY <1>3 DEF TakeUp, PullDependency, PullTest
  <2>2. \E f \in Files, role \in {"selected", "dependency"} : Take(f, role)
    <3>1. request.files \in Seq(Files) /\ request.deps \in [Files -> SUBSET Files]
          /\ taken \in 0..Len(request.files)
      BY PackAssumption DEF TypeOK
    <3>2. CASE TakeUp /\ ~UNCHANGED <<targets, level>>
      <4>1. request.files[taken + 1] \in Files
        BY <3>1, <3>2 DEF TakeUp
      <4> QED BY <3>2, <4>1 DEF TakeUp
    <3>3. CASE PullDependency
      BY <3>1, <3>3 DEF PullDependency, Pulled
    <3>4. CASE PullTest
      BY <3>4 DEF PullTest, Untested
    <3> QED BY <1>3, <3>2, <3>3, <3>4
  <2> QED BY <1>2, <2>1, <2>2
<1>4. CASE DegradeDependency \/ DegradeSelected
  <2>1. phase \in Loops /\ ~Fits(level, dropped)
    BY <1>4 DEF DegradeDependency, DegradeSelected, Loops, OverInv
  <2>2. PICK i \in left : level' = [level EXCEPT ![i] = @ + 1] /\ dropped' = dropped
    BY <1>4 DEF DegradeDependency, DegradeSelected, Lower, Rendered
  <2>3. i \in DOMAIN targets
    BY <2>2 DEF TypeOK
  <2>4. \A j \in DOMAIN targets : level[j] <= level'[j]
    BY <1>0, <2>2, <2>3
  <2> QED BY <2>1, <2>2, <2>4
<1>5. CASE Drop
  <2>1. ~Fits(level, dropped)
    BY <1>5 DEF Drop, Loops, OverInv
  <2>2. PICK i \in left : level' = level /\ dropped' = dropped \union {i}
    BY <1>5 DEF Drop, Rendered
  <2> QED BY <1>0, <2>1, <2>2
<1>6. CASE Selected \/ Allocate \/ NextPhase \/ Pack
  BY <1>1, <1>6 DEF Selected, Allocate, NextPhase, Pack
<1>7. CASE TakeUp /\ UNCHANGED <<targets, level>>
  BY <1>1, <1>7 DEF TakeUp
<1> QED BY <1>3, <1>4, <1>5, <1>6, <1>7 DEF Next

-----------------------------------------------------------------------------
\* The type invariant.
THEOREM TypeCorrect == Spec => []TypeOK
<1>1. IInv => TypeOK
  BY DEF IInv
<1> QED BY <1>1, Invariance, PTL

\* What has the role Selected loses detail last, and never below Documented, wherever
\* allocate_with_degradation returns.
THEOREM SelectedProtected == Spec => []SelectedLast
<1>1. IInv => SelectedLast
  BY DEF IInv
<1> QED BY <1>1, Invariance, PTL

\* Detail is lost, and dependencies are dropped, in the order of priorities.
THEOREM PrioritiesKept == Spec => []LowestFirst
<1>1. IInv => LowestFirst
  BY DEF IInv
<1> QED BY <1>1, Invariance, PTL

\* An allocation over the budget has given up all it may.
THEOREM BudgetKeptIfItCan == Spec => []OverOnlyAtTheFloor
<1>1. IInv => OverOnlyAtTheFloor
  BY DEF IInv
<1> QED BY <1>1, Invariance, PTL

\* An answer of symbols costs what the allocation was checked with, or leaves
\* nothing that could have been given up.
THEOREM AnswerWithinBudget == Spec => []AnswerFits
<1>1. IInv /\ PackedInv => AnswerFits
  <2> SUFFICES ASSUME IInv, PackedInv, phase = "packed",
                      \A i \in DOMAIN targets : packed[i].is = "symbols"
               PROVE  \/ SumOf([i \in DOMAIN targets |-> packed[i].tokens]) <= budget
                      \/ TextTotal <= budget
                      \/ \A i \in DOMAIN targets : i \in With("selected") /\ level[i] = Documented
    BY DEF AnswerFits
  <2> USE DEF IInv
  <2>1. \A i \in DOMAIN targets : i \notin dropped /\ packed[i].tokens = SizeOf(i).at[level[i]]
    BY DEF PackedInv, Content
  <2>2. dropped = {}
    BY <2>1 DEF TypeOK, With
  <2>3. [i \in DOMAIN targets |-> packed[i].tokens]
          = [i \in DOMAIN targets \ dropped |-> SizeOf(i).at[level[i]]]
    BY <2>1, <2>2
  <2>4. SumOf([i \in DOMAIN targets |-> packed[i].tokens]) = Total(level, dropped)
    BY <2>3 DEF Total
  <2>5. CASE Fits(level, dropped)
    BY <2>4, <2>5 DEF Fits
  <2>6. CASE ~Fits(level, dropped)
    BY <2>2, <2>6, Targets DEF OverOnlyAtTheFloor, D, S
  <2> QED BY <2>5, <2>6
<1>2. Spec => []PackedInv
  BY InitPacked, StepPacked, PTL DEF Spec
<1> QED BY <1>1, <1>2, Invariance, PTL

\* allocate_with_degradation gives up detail or a dependency only while the
\* rendering before it did not fit, and gives nothing back.
THEOREM NothingGivenUpInVain == Spec => GivesUpOnlyWhenOver
<1>1. IInv /\ [Next]_vars =>
        [/\ targets' = targets => \A i \in DOMAIN targets : level[i] <= level'[i]
         /\ dropped \subseteq dropped'
         /\ (dropped' # dropped \/ \E i \in DOMAIN targets : level'[i] # level[i])
               => ~Fits(level, dropped)]_vars
  BY GivesUpStep
<1> QED BY <1>1, Invariance, PTL DEF Spec, GivesUpOnlyWhenOver

-----------------------------------------------------------------------------
(* What the targets are.                                                   *)

\* The files asked for so far, and what they bring in: their dependencies, and
\* the tests of the targets that were selected.
Asked(n) == {request.files[k] : k \in 1..n}
DependedOn(n) == UNION {request.deps[f] : f \in Asked(n)}
Testing == UNION {request.tests[targets[i][1]] : i \in S}

\* No file is a target twice, in one role or in two: it would be paid for twice.
NoFileTwice == \A i, j \in DOMAIN targets : targets[i][1] = targets[j][1] => i = j

\* When the selection ends the targets are the files asked for, what they depend
\* on and the tests of the selected ones, in whatever order these bring each
\* other in, and a file that was not asked for is a dependency.
TargetsAreWhatWasAsked ==
  phase # "select" =>
    /\ Seen = Asked(Len(request.files)) \union DependedOn(Len(request.files)) \union Testing
    /\ \A i \in S : targets[i][1] \in Asked(Len(request.files))

\* Files are taken up in order, and one only when the dependencies of the one
\* before it are in.
ChosenInv ==
  /\ NoFileTwice
  /\ \A i \in S : targets[i][1] \in Asked(taken)
  /\ Asked(taken) \subseteq Seen
  /\ Seen \subseteq Asked(taken) \union DependedOn(taken) \union Testing
  /\ \A k \in 1..taken : k # taken => request.deps[request.files[k]] \subseteq Seen
  /\ phase # "select" => taken = Len(request.files) /\ Pulled = {} /\ Untested = {}

\* A file that is no target yet becomes the last one.
LEMMA TakeFacts ==
  ASSUME TypeOK, NEW f \in Files, f \notin Seen, NEW role \in {"selected", "dependency"},
         Take(f, role), NoFileTwice
  PROVE  /\ Seen' = Seen \union {f} /\ NoFileTwice' /\ S \subseteq S'
         /\ \A i \in S : targets'[i] = targets[i]
         /\ \A i \in S' : i \in S \/ (targets'[i][1] = f /\ role = "selected")
<1> DEFINE n == Len(targets) + 1
<1>1. targets \in Seq(Files \X {"selected", "dependency"}) /\ targets' = Append(targets, <<f, role>>)
  BY DEF TypeOK, Take
<1>2. /\ DOMAIN targets' = DOMAIN targets \union {n} /\ n \notin DOMAIN targets
      /\ \A i \in DOMAIN targets : targets'[i] = targets[i]
      /\ targets'[n] = <<f, role>>
  BY <1>1
<1> HIDE DEF n
<1>3. Seen' = Seen \union {f}
  <2>1. targets'[n][1] = f
    BY <1>2
  <2>2. Seen' = {targets'[i][1] : i \in DOMAIN targets \union {n}}
    BY <1>2, Zenon DEF Seen
  <2>3. Seen' = {targets'[i][1] : i \in DOMAIN targets} \union {f}
    BY <2>1, <2>2
  <2> QED BY <1>2, <2>3 DEF Seen
<1>4. NoFileTwice'
  <2> SUFFICES ASSUME NEW i \in DOMAIN targets', NEW j \in DOMAIN targets',
                      targets'[i][1] = targets'[j][1]
               PROVE  i = j
    BY DEF NoFileTwice
  <2>1. \A k \in DOMAIN targets : targets'[k][1] # f
    BY <1>2 DEF Seen
  <2>2. targets'[n][1] = f
    BY <1>2
  <2> QED BY <1>2, <2>1, <2>2 DEF NoFileTwice
<1>5. S \subseteq S' /\ \A i \in S : targets'[i] = targets[i]
  BY <1>2 DEF S, With
<1>6. \A i \in S' : i \in S \/ (targets'[i][1] = f /\ role = "selected")
  BY <1>2 DEF S, With
<1> QED BY <1>3, <1>4, <1>5, <1>6

\* What may be a target stays so when a file is taken up or a target comes in.
LEMMA ChoiceGrows ==
  ASSUME TypeOK, request' = request, taken \in Nat, taken' \in Nat, taken <= taken',
         S \subseteq S', \A i \in S : targets'[i] = targets[i]
  PROVE  /\ Asked(taken) \subseteq Asked(taken)' /\ DependedOn(taken) \subseteq DependedOn(taken)'
         /\ Testing \subseteq Testing'
<1>1. Asked(taken) \subseteq Asked(taken)'
  <2>1. 1..taken \subseteq 1..taken'
    OBVIOUS
  <2> QED BY <2>1 DEF Asked
<1>2. DependedOn(taken) \subseteq DependedOn(taken)'
  BY <1>1 DEF DependedOn
<1>3. Testing \subseteq Testing'
  BY DEF Testing
<1> QED BY <1>1, <1>2, <1>3

LEMMA RequestType ==
  ASSUME TypeOK
  PROVE  /\ request.files \in Seq(Files) /\ request.deps \in [Files -> SUBSET Files]
         /\ request.tests \in [Files -> SUBSET Files]
         /\ taken \in Nat /\ Len(request.files) \in Nat /\ taken <= Len(request.files)
         /\ \A k \in 1..taken : request.files[k] \in Files
<1>1. request \in [files : Seq(Files), deps : [Files -> SUBSET Files],
                   tests : [Files -> SUBSET Files]]
  BY PackAssumption DEF TypeOK
<1>2. request.files \in Seq(Files) /\ taken \in 0..Len(request.files)
  BY <1>1 DEF TypeOK
<1> QED BY <1>1, <1>2

LEMMA InitChosen == Init => ChosenInv
<1> SUFFICES ASSUME Init PROVE ChosenInv
  OBVIOUS
<1>1. taken = 0 /\ targets = <<>> /\ phase = "select"
  BY DEF Init
<1>2. S = {} /\ Seen = {} /\ DOMAIN targets = {} /\ Asked(taken) = {}
  BY <1>1 DEF S, With, Seen, Asked
<1> QED BY <1>1, <1>2 DEF ChosenInv, NoFileTwice

\* The next file asked for, a target already or not.
LEMMA TakeUpChosen ==
  ASSUME TypeOK, ChosenInv, TakeUp
  PROVE  ChosenInv'
<1> DEFINE f == request.files[taken + 1]
<1>1. /\ phase = "select" /\ phase' = phase /\ taken' = taken + 1 /\ request' = request
      /\ Pulled = {} /\ taken < Len(request.files)
  BY DEF TakeUp, inputs
<1>2. taken \in Nat /\ f \in Files
  BY <1>1, RequestType
<1>3. /\ Seen' = Seen \union {f} /\ NoFileTwice' /\ S \subseteq S'
      /\ \A i \in S : targets'[i] = targets[i]
      /\ \A i \in S' : i \in S \/ targets'[i][1] = f
  <2>1. CASE f \in Seen
    <3>1. targets' = targets
      BY <2>1 DEF TakeUp
    <3> QED BY <2>1, <3>1 DEF Seen, ChosenInv, NoFileTwice, S, With
  <2>2. CASE f \notin Seen
    <3>1. Take(f, "selected")
      BY <2>2 DEF TakeUp
    <3> QED BY <1>2, <2>2, <3>1, TakeFacts DEF ChosenInv
  <2> QED BY <2>1, <2>2
<1> HIDE DEF f
<1>4. Asked(taken)' = Asked(taken) \union {f}
  <2>1. 1..taken' = 1..taken \union {taken + 1}
    BY <1>1, <1>2
  <2> QED BY <1>1, <2>1 DEF Asked, f
<1>5. /\ DependedOn(taken) \subseteq DependedOn(taken)' /\ Testing \subseteq Testing'
  BY <1>1, <1>2, <1>3, ChoiceGrows
<1>6. \A i \in S' : targets'[i][1] \in Asked(taken)'
  BY <1>3, <1>4 DEF ChosenInv
<1>7. Asked(taken)' \subseteq Seen'
  BY <1>3, <1>4 DEF ChosenInv
<1>8. Seen' \subseteq (Asked(taken) \union DependedOn(taken) \union Testing)'
  BY <1>3, <1>4, <1>5 DEF ChosenInv
<1>9. ASSUME NEW k \in 1..taken', k # taken'
      PROVE  request'.deps[request'.files[k]] \subseteq Seen'
  <2>1. k \in 1..taken
    BY <1>1, <1>2, <1>9
  <2>2. CASE k = taken
    <3>1. request.deps[request.files[taken]] \ Seen = {}
      BY <1>1, <2>1, <2>2 DEF Pulled
    <3> QED BY <1>1, <1>3, <2>2, <3>1
  <2>3. CASE k # taken
    BY <1>1, <1>3, <2>1, <2>3 DEF ChosenInv
  <2> QED BY <2>2, <2>3
<1> QED BY <1>1, <1>3, <1>6, <1>7, <1>8, <1>9 DEF ChosenInv

\* A dependency or a test.
LEMMA PullChosen ==
  ASSUME TypeOK, ChosenInv, PullDependency \/ PullTest
  PROVE  ChosenInv'
<1>1. /\ phase = "select" /\ phase' = phase /\ taken' = taken /\ request' = request
  BY DEF PullDependency, PullTest, inputs
<1>2. taken \in Nat
  BY RequestType
<1>3. PICK f \in Files : /\ f \notin Seen /\ Take(f, "dependency")
                         /\ f \in DependedOn(taken) \union Testing
  <2>1. CASE PullDependency
    <3>1. PICK f \in Pulled : Take(f, "dependency")
      BY <2>1 DEF PullDependency
    <3>2. taken # 0 /\ f \in request.deps[request.files[taken]] /\ f \notin Seen
      BY <3>1 DEF Pulled
    <3>3. request.files[taken] \in Asked(taken) /\ request.files[taken] \in Files
      BY <1>2, <3>2, RequestType DEF Asked
    <3>4. f \in DependedOn(taken) /\ f \in Files
      BY <3>2, <3>3, RequestType DEF DependedOn
    <3> QED BY <3>1, <3>2, <3>4
  <2>2. CASE PullTest
    <3>1. PICK p \in Untested : Take(p[2], "dependency")
      BY <2>2 DEF PullTest
    <3>2. p[2] \in Files /\ p[1] \in S /\ p[2] \in request.tests[targets[p[1]][1]] /\ p[2] \notin Seen
      BY <3>1 DEF Untested, S, With
    <3>3. p[2] \in Testing
      BY <3>2 DEF Testing
    <3> QED BY <3>1, <3>2, <3>3
  <2> QED BY <2>1, <2>2
<1>4. /\ Seen' = Seen \union {f} /\ NoFileTwice' /\ S' = S
      /\ \A i \in S : targets'[i] = targets[i]
  BY <1>3, TakeFacts DEF ChosenInv
<1>5. /\ Asked(taken) \subseteq Asked(taken)' /\ DependedOn(taken) \subseteq DependedOn(taken)'
      /\ Testing \subseteq Testing'
  BY <1>1, <1>2, <1>4, ChoiceGrows
<1>6. Asked(taken)' = Asked(taken)
  BY <1>1 DEF Asked
<1>7. \A i \in S' : targets'[i][1] \in Asked(taken)'
  BY <1>4, <1>6 DEF ChosenInv
<1>8. Asked(taken)' \subseteq Seen'
  BY <1>4, <1>6 DEF ChosenInv
<1>9. Seen' \subseteq (Asked(taken) \union DependedOn(taken) \union Testing)'
  BY <1>3, <1>4, <1>5 DEF ChosenInv
<1>10. \A k \in 1..taken' : k # taken' => request'.deps[request'.files[k]] \subseteq Seen'
  BY <1>1, <1>4 DEF ChosenInv
<1> QED BY <1>1, <1>4, <1>7, <1>8, <1>9, <1>10 DEF ChosenInv

LEMMA StepChosen == TypeOK /\ ChosenInv /\ [Next]_vars => ChosenInv'
<1> SUFFICES ASSUME TypeOK, ChosenInv, [Next]_vars PROVE ChosenInv'
  OBVIOUS
<1>1. CASE TakeUp
  BY <1>1, TakeUpChosen
<1>2. CASE PullDependency \/ PullTest
  BY <1>2, PullChosen
<1>3. ASSUME UNCHANGED <<request, taken, targets>>,
             phase' # "select" => phase # "select" \/ Selected
      PROVE  ChosenInv'
  <2>1. /\ S' = S /\ Seen' = Seen /\ Asked(taken)' = Asked(taken) /\ Pulled' = Pulled
        /\ DependedOn(taken)' = DependedOn(taken) /\ Testing' = Testing /\ Untested' = Untested
        /\ NoFileTwice' = NoFileTwice
    BY <1>3 DEF S, With, Seen, Asked, Pulled, DependedOn, Testing, Untested, NoFileTwice
  <2>2. phase' # "select" => taken = Len(request.files) /\ Pulled = {} /\ Untested = {}
    BY <1>3 DEF ChosenInv, Selected
  <2> QED BY <1>3, <2>1, <2>2 DEF ChosenInv
<1>4. CASE Selected
  BY <1>3, <1>4 DEF Selected, inputs
<1>5. CASE Allocate \/ NextPhase \/ Pack
  BY <1>3, <1>5 DEF Allocate, NextPhase, Pack, inputs
<1>6. CASE DegradeDependency \/ DegradeSelected \/ Drop
  BY <1>3, <1>6 DEF DegradeDependency, DegradeSelected, Drop, Lower, Rendered, inputs
<1>7. CASE UNCHANGED vars
  BY <1>3, <1>7 DEF vars, inputs
<1> QED BY <1>1, <1>2, <1>4, <1>5, <1>6, <1>7 DEF Next

\* Whatever is asked for, and whatever brings what in, no file is a target twice.
THEOREM TargetsDistinct == Spec => []NoFileTwice
<1>1. ChosenInv => NoFileTwice
  BY DEF ChosenInv
<1> QED BY <1>1, InitChosen, StepChosen, TypeCorrect, PTL DEF Spec

\* The selection misses nothing of what was asked for, what that depends on and
\* the tests of what is selected, and brings in nothing else; only what was asked
\* for has the protection of a selected file (pack_context).
THEOREM SelectionComplete == Spec => []TargetsAreWhatWasAsked
<1>1. TypeOK /\ ChosenInv => TargetsAreWhatWasAsked
  <2> SUFFICES ASSUME TypeOK, ChosenInv, phase # "select"
               PROVE  /\ Seen = Asked(taken) \union DependedOn(taken) \union Testing
                      /\ \A i \in S : targets[i][1] \in Asked(taken)
    BY DEF TargetsAreWhatWasAsked, ChosenInv
  <2>1. Pulled = {} /\ Untested = {}
    BY DEF ChosenInv
  <2>2. DependedOn(taken) \subseteq Seen
    <3> SUFFICES ASSUME NEW k \in 1..taken PROVE request.deps[request.files[k]] \subseteq Seen
      BY DEF DependedOn, Asked
    <3>1. CASE k = taken
      BY <2>1, <3>1, RequestType DEF Pulled
    <3>2. CASE k # taken
      BY <3>2 DEF ChosenInv
    <3> QED BY <3>1, <3>2
  <2>3. Testing \subseteq Seen
    <3> SUFFICES ASSUME NEW i \in S, NEW g \in request.tests[targets[i][1]], g \notin Seen
                 PROVE  FALSE
      BY DEF Testing
    <3>1. targets[i][1] \in Files /\ i \in DOMAIN targets /\ targets[i][2] = "selected"
      BY Targets DEF S, With
    <3>2. g \in Files
      BY <3>1, RequestType
    <3>3. <<i, g>> \in Untested
      BY <3>1, <3>2 DEF Untested
    <3> QED BY <2>1, <3>3
  <2> QED BY <2>2, <2>3 DEF ChosenInv
<1> QED BY <1>1, InitChosen, StepChosen, TypeCorrect, PTL DEF Spec
=============================================================================
