--------------------------- MODULE MCDerivedCache ---------------------------
(* Instance of DerivedCache for TLC: a file imports the other when it       *)
(* "uses" it, which also calls a route.                                     *)
EXTENDS DerivedCache

MCFiles == {"app", "lib"}
MCContents == {"uses", "serves"}
MCImports ==
  [f \in MCFiles |-> [c \in MCContents |->
     IF c = "uses" THEN {<<g>> : g \in MCFiles \ {f}} ELSE {}]]
MCCalls == {"uses"}
MCServes == {"serves"}
Uses == {[f \in MCFiles |-> "uses"]}
Bridged == {[f \in MCFiles |-> IF f = "app" THEN "uses" ELSE "serves"]}
=============================================================================
