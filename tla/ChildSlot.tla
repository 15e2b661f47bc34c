----------------------------- MODULE ChildSlot -----------------------------
(***************************************************************************)
(* What RmcpCxpakClient (src/client.rs) promises of its child, however     *)
(* many calls share it: its slot holds one at a time; each that ends is a  *)
(* strike unless it served a call, and a child that served one forgives    *)
(* all; after MaxStrikes nothing is started any more (SpawnBackoff).  The  *)
(* slot is what the client uses: a child it has given up may still be      *)
(* ending while the next one starts.                                       *)
(***************************************************************************)
EXTENDS Naturals

CONSTANT MaxStrikes

VARIABLES
  slot,     \* none, starting, ready, closed
  strikes,
  served    \* the child that is ready has served a call

Init == slot = "none" /\ strikes = 0 /\ served = FALSE

\* A child that cannot be started is a strike of its own.
CannotStart ==
  /\ slot = "none" /\ strikes < MaxStrikes /\ strikes' = strikes + 1
  /\ UNCHANGED <<slot, served>>

Start ==
  /\ slot = "none" /\ strikes < MaxStrikes /\ slot' = "starting"
  /\ UNCHANGED <<strikes, served>>

Ready == slot = "starting" /\ slot' = "ready" /\ UNCHANGED <<strikes, served>>

StartFails ==
  /\ slot = "starting" /\ slot' = "none" /\ strikes' = strikes + 1
  /\ UNCHANGED served

\* Who started it is gone: that is nobody's strike.
Abandoned == slot = "starting" /\ slot' = "none" /\ UNCHANGED <<strikes, served>>

Serves == slot = "ready" /\ served' = TRUE /\ UNCHANGED <<slot, strikes>>

Lost ==
  /\ slot = "ready" /\ slot' = "none" /\ served' = FALSE
  /\ strikes' = IF served THEN 0 ELSE strikes + 1

Close ==
  /\ slot \in {"none", "ready"} /\ slot' = "closed" /\ served' = FALSE
  /\ UNCHANGED strikes

Next == \/ CannotStart \/ Start \/ Ready \/ StartFails \/ Abandoned
        \/ Serves \/ Lost \/ Close

Spec == Init /\ [][Next]_<<slot, strikes, served>>
=============================================================================
