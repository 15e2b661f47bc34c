--------------------------- MODULE MCPackContext ---------------------------
(* Instance of PackContext for TLC.                                         *)
EXTENDS PackContext

MCSizes == {
  [text |-> 4, at |-> [l \in Full..Stub |-> <<5, 4, 3, 1, 2>>[l + 1]]],
  [text |-> 3, at |-> [l \in Full..Stub |-> <<3, 3, 3, 2, 3>>[l + 1]]],
  [text |-> 3, at |-> [l \in Full..Stub |-> 0]]}

\* 1 asks for 2 through a dependency; 3 is a dependency of both, or asked for,
\* or a test of 2, and 1 a test of 2.
MCRequests ==
  LET deps == [f \in Files |-> CASE f = 1 -> {2, 3} [] f = 2 -> {3} [] OTHER -> {}]
      none == [f \in Files |-> {}]
      tests == [f \in Files |-> IF f = 2 THEN {1, 3} ELSE {}]
  IN  {[files |-> fs, deps |-> deps, tests |-> none] :
         fs \in {<<1>>, <<2>>, <<2, 1>>, <<1, 2>>, <<3, 2, 1>>}}
      \union {[files |-> <<2>>, deps |-> d, tests |-> tests] : d \in {deps, none}}
=============================================================================
