--------------------------- MODULE MCBlastRadius ---------------------------
(* Instance of BlastRadius for TLC.                                         *)
EXTENDS BlastRadius

\* s, z: changed; a, b: files; k: a column node; t: a test.  test_map may name
\* b too (as FooTest.java, which is_test_path of blast_radius.rs refuses).
MCEdges == <<
  <<"a", "b", "import">>, <<"a", "t", "import">>, <<"a", "t", "sql">>,
  <<"b", "a", "import">>, <<"b", "s", "import">>,
  <<"k", "a", "sql">>,
  <<"s", "a", "import">>, <<"s", "a", "bridge">>,
  <<"s", "b", "bridge">>, <<"s", "k", "sql">>,
  <<"z", "b", "sql">>, <<"z", "s", "import">>>>

MCWeight == [t \in {"import", "sql", "bridge"} |->
               CASE t = "import" -> 10 [] t = "sql" -> 8 [] OTHER -> 5]

MCSeeds == <<"s", "z">>

MCRanks == {[n \in Nodes |-> 1], [n \in Nodes |-> IF n = "b" THEN 0 ELSE 1]}
=============================================================================
