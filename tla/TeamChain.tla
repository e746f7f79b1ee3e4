----------------------------- MODULE TeamChain ------------------------------
(***************************************************************************)
(* The whole system around one team Task: two dispatchers, the agents'     *)
(* worker runtimes and the supervisors interleave on the rows of TeamRows. *)
(***************************************************************************)
EXTENDS TeamDispatch, WorkerRuntime, Supervision

Next == Dispatching \/ Working \/ Supervising

Spec == Init /\ [][Next]_vars

\* The timers fire, the transport delivers what it was given and every call
\* runs on to its next await.  Nothing obliges an operator, a fault, a redrive
\* or a CLI: an execution has no deadline of its own.
FairSpec ==
  /\ Spec
  /\ WF_vars(TickList)
  /\ \A d \in Dispatchers : WF_vars(DispatchStep(d))
  /\ WF_vars(\E m \in bus : Receive(m))
  /\ \A a \in Agents : WF_vars(Work(a))
  /\ WF_vars(Watchdog)

\* ... and every CLI that was started returns.
FairCliSpec == FairSpec /\ \A a \in Agents : WF_vars(CliReturns(a))
=============================================================================
