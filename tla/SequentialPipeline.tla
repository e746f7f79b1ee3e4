------------------------ MODULE SequentialPipeline -------------------------
(***************************************************************************)
(* What a team Task promises, whatever the dispatchers, agents, messages   *)
(* and supervisors do: its Roles pass one after the other, rework takes    *)
(* back the latest pass only, and it completes when all of them passed, or *)
(* is closed for good without.                                             *)
(***************************************************************************)
EXTENDS Naturals

CONSTANT N  \* the number of Roles

VARIABLES
  passed,  \* the Roles whose work stands
  outcome  \* "open", "completed" or "closed"

Init == passed = {} /\ outcome = "open"

\* The next Role passes; nothing passes once the Task is closed.
Pass(s) ==
  /\ outcome = "open" /\ passed = 1 .. (s - 1)
  /\ passed' = 1 .. s
  /\ UNCHANGED outcome

\* The work of the last Role that passed is sent back to it.
Rework(s) ==
  /\ outcome # "completed" /\ passed = 1 .. s
  /\ passed' = 1 .. (s - 1)
  /\ UNCHANGED outcome

Complete ==
  /\ outcome = "open" /\ passed = 1 .. N
  /\ outcome' = "completed"
  /\ UNCHANGED passed

Close ==
  /\ outcome = "open" /\ outcome' = "closed"
  /\ UNCHANGED passed

Next ==
  \/ \E s \in 1 .. N : Pass(s) \/ Rework(s)
  \/ Complete
  \/ Close

Spec == Init /\ [][Next]_<<passed, outcome>>
=============================================================================
