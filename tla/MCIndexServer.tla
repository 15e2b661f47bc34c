---------------------------- MODULE MCIndexServer ----------------------------
(* Instance of IndexServer for TLC: the sets of sessions and servers are    *)
(* given in the cfg.                                                        *)
EXTENDS IndexServer, TLC

CONSTANTS c1, c2, s1, s2

\* Each session runs in an environment of its own.
TwoEnvs == [c \in {c1, c2} |-> IF c = c1 THEN "e1" ELSE "e2"]

\* Servers are interchangeable.
ServerSymmetry == Permutations({s1, s2})
=============================================================================
