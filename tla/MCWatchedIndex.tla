--------------------------- MODULE MCWatchedIndex ---------------------------
(* Instance of WatchedIndex for TLC: a file that "uses" has imports, calls  *)
(* a route and queries a table; only "app"'s imports are no bridge's ends.   *)
EXTENDS WatchedIndex

MCFiles == {"app", "lib", "mod"}
MCContents == {"uses", "serves", "tables"}
MCImports ==
  [f \in MCFiles |-> [c \in MCContents |->
     IF c # "uses" THEN {}
     ELSE IF f = "mod" THEN {<<"lib", "app">>} ELSE {<<"mod">>}]]
MCCalls == {"uses"}
MCServes == {"serves"}
MCQueries == {"uses"}
MCTables == {"tables"}

\* "app" with a bridge to "lib", and with a schema that "lib" declares.
MCStartDisks ==
  {[f \in MCFiles |-> CASE f = "app" -> "uses" [] f = "lib" -> lib [] f = "mod" -> "Absent"] :
     lib \in {"serves", "tables"}}
=============================================================================
