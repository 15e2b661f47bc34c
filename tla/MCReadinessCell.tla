--------------------------- MODULE MCReadinessCell ---------------------------
(* Instances of ReadinessCell for TLC: the constants are given in the cfgs. *)
EXTENDS ReadinessCell

\* Liveness is checked on these files too, so no symmetry is declared.
MCFiles == {1, 2}
MCCalls == {1}
MCArcIds == 1..5
MCStartForms == {[f \in MCFiles |-> "text"]}

\* Anything can happen to file 1, which is then written again (so it comes back,
\* or can be read again, or is changed twice); file 2 is written to once.
MCEditsOf == << <<Edits, {"write"}>>, <<{"write"}, {}>> >>
=============================================================================
