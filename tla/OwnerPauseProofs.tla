-------------------------- MODULE OwnerPauseProofs --------------------------
(***************************************************************************)
(* A pause stops what has not passed its last gate, for any number of      *)
(* Tasks, concurrent drivers and pauses.  A gate asks only once, so what   *)
(* has to be known of every paused state is that whoever stands behind a   *)
(* gate stood there when the owner paused, and that the process and the    *)
(* stored row agree on whether there is a pause.                           *)
(***************************************************************************)
EXTENDS OwnerPause, TLAPS

Shapes ==
  /\ worker \in [Tasks -> {None, "gated", "cli"}]
  /\ at \in [Drivers -> Tasks \cup {None}]

\* What this process answers is what a restart would recall.
Agreed == stored = "PAUSED" <=> Paused

\* Under a pause nobody gets behind a gate.
NobodyNew ==
  Paused =>
    /\ \A t \in Tasks : worker[t] = "gated" => t \in caught.cli
    /\ \A d \in Drivers : at[d] \in Singles => at[d] \in caught.dispatch
    /\ healing => caught.heal

Inv == Shapes /\ Agreed /\ NobodyNew

LEMMA InvInit == Init => Inv
BY DEF Init, Inv, Shapes, Agreed, NobodyNew, Paused, None

\* A step under which nobody new gets behind a gate.
LEMMA InvNobodyNew ==
  ASSUME Inv, UNCHANGED <<stored, mode, caught>>, Shapes',
         \A t \in Tasks : worker'[t] = "gated" => worker[t] = "gated" \/ ~Paused,
         \A d \in Drivers : at'[d] \in Singles => at'[d] = at[d] \/ ~Paused,
         healing' => healing \/ ~Paused
  PROVE  Inv'
<1>1. Agreed'
  BY DEF Inv, Agreed, Paused
<1>2. NobodyNew'
  BY DEF Inv, NobodyNew, Paused
<1>3. QED
  BY <1>1, <1>2 DEF Inv

LEMMA InvPause == ASSUME Inv, Pause PROVE Inv'
<1>1. /\ stored' = "PAUSED" /\ mode' = "PAUSED"
      /\ caught' = [dispatch |-> {at[d] : d \in Drivers} \cap Singles,
                    cli |-> {t \in Tasks : worker[t] = "gated"}, heal |-> healing]
      /\ UNCHANGED <<worker, at, healing>>
  BY DEF Pause, Control
<1>2. /\ caught'.dispatch = {at[d] : d \in Drivers} \cap Singles
      /\ caught'.cli = {t \in Tasks : worker[t] = "gated"} /\ caught'.heal = healing
  BY <1>1
<1>3. NobodyNew'
  BY <1>1, <1>2 DEF NobodyNew
<1>4. QED
  BY <1>1, <1>3 DEF Inv, Shapes, Agreed, Paused

LEMMA InvResume == ASSUME Inv, Resume PROVE Inv'
BY DEF Inv, Shapes, Agreed, NobodyNew, Resume, Control, Paused

LEMMA InvCrash == ASSUME Inv, Crash, None \notin Singles PROVE Inv'
<1>1. /\ mode' = Recalled(stored) /\ stored' = stored /\ ~healing'
      /\ at' = [d \in Drivers |-> None] /\ worker' = [t \in Tasks |-> None]
  BY DEF Crash
<1>2. Shapes'
  BY <1>1 DEF Shapes
<1>3. Agreed'
  BY <1>1 DEF Agreed, Paused, Recalled, None
<1>4. NobodyNew'
  BY <1>1 DEF NobodyNew, None
<1>5. QED
  BY <1>2, <1>3, <1>4 DEF Inv

\* The gates: a visit of a single-agent Task, a receive, a healing run.
LEMMA InvVisit ==
  ASSUME Inv, NEW d \in Drivers, NEW t \in Tasks, Visit(d, t) PROVE Inv'
<1>1. /\ at' = IF t \in Singles => ~Paused THEN [at EXCEPT ![d] = t] ELSE at
      /\ UNCHANGED <<stored, mode, caught, worker, healing>>
  BY DEF Visit, MayVisit
<1>2. CASE t \in Singles => ~Paused
  <2>1. at' = [at EXCEPT ![d] = t]
    BY <1>1, <1>2
  <2>2. Shapes'
    BY <1>1, <2>1 DEF Inv, Shapes
  <2>3. \A e \in Drivers : at'[e] \in Singles => at'[e] = at[e] \/ ~Paused
    BY <1>2, <2>1 DEF Inv, Shapes
  <2>4. QED
    BY <1>1, <2>2, <2>3, InvNobodyNew
<1>3. CASE ~(t \in Singles => ~Paused)
  BY <1>1, <1>3, InvNobodyNew DEF Inv, Shapes
<1>4. QED
  BY <1>2, <1>3

LEMMA InvReceive == ASSUME Inv, NEW t \in Tasks, Receive(t) PROVE Inv'
<1>1. UNCHANGED <<stored, mode, caught, at, healing>>
  BY DEF Receive
<1>2. (~Paused /\ worker' = [worker EXCEPT ![t] = "gated"]) \/ worker' = worker
  BY DEF Receive, Accepts
<1>3. Shapes'
  BY <1>1, <1>2 DEF Inv, Shapes
<1>4. QED
  BY <1>1, <1>2, <1>3, InvNobodyNew DEF Inv, Shapes

\* Who leaves the place behind a gate lets nobody in.
LEMMA InvLeaves ==
  ASSUME Inv, NEW d \in Drivers, None \notin Singles, at' = [at EXCEPT ![d] = None],
         UNCHANGED <<stored, mode, caught, worker, healing>>
  PROVE  Inv'
<1>1. Shapes'
  BY DEF Inv, Shapes
<1>2. \A e \in Drivers : at'[e] \in Singles => at'[e] = at[e]
  BY DEF Inv, Shapes
<1>3. QED
  BY <1>1, <1>2, InvNobodyNew

LEMMA InvCli == ASSUME Inv, NEW t \in Tasks, StartCli(t) \/ CliEnds(t) PROVE Inv'
<1>1. UNCHANGED <<stored, mode, caught, at, healing>>
  BY DEF StartCli, CliEnds
<1>2. PICK w \in {"cli", None} : worker' = [worker EXCEPT ![t] = w]
  BY DEF StartCli, CliEnds
<1>3. w # "gated"
  BY <1>2 DEF None
<1>4. Shapes'
  BY <1>1, <1>2 DEF Inv, Shapes
<1>5. \A u \in Tasks : worker'[u] = "gated" => worker[u] = "gated"
  BY <1>2, <1>3 DEF Inv, Shapes
<1>6. QED
  BY <1>1, <1>4, <1>5, InvNobodyNew

\* Every other step leaves what stands behind a gate alone, or ends it.
LEMMA InvElsewhere ==
  ASSUME Inv, UNCHANGED <<stored, mode, caught, at, worker>>,
         healing' => healing \/ ~Paused
  PROVE  Inv'
<1>1. Shapes'
  BY DEF Inv, Shapes
<1>2. QED
  BY <1>1, InvNobodyNew

LEMMA InvNext == ASSUME Inv, [Next]_vars, None \notin Singles PROVE Inv'
<1>1. CASE Pause \/ Resume \/ Crash
  BY <1>1, InvPause, InvResume, InvCrash
<1>2. CASE Tick \/ HealStart \/ HealEnd
  BY <1>2, InvElsewhere DEF Tick, HealStart, HealEnd, Heals
<1>3. ASSUME NEW d \in Drivers, NEW t \in Tasks, Visit(d, t) PROVE Inv'
  BY <1>3, InvVisit
<1>4. ASSUME NEW d \in Scoped, NEW t \in Tasks, Dispatch(d, t) PROVE Inv'
  BY <1>4, InvElsewhere DEF Dispatch
<1>5. ASSUME NEW d \in Drivers, Refused(d) \/ Assigns(d) PROVE Inv'
  BY <1>5, InvLeaves DEF Refused, Assigns
<1>6. ASSUME NEW d \in Drivers, Sent(d) PROVE Inv'
  BY <1>6, InvElsewhere DEF Sent
<1>7. ASSUME NEW t \in Tasks, Receive(t) PROVE Inv'
  BY <1>7, InvReceive
<1>8. ASSUME NEW t \in Tasks, StartCli(t) \/ CliEnds(t) PROVE Inv'
  BY <1>8, InvCli
<1>9. ASSUME NEW t \in Tasks, HealStops(t) \/ Continue(t) PROVE Inv'
  BY <1>9, InvElsewhere DEF HealStops, Continue
<1>10. CASE UNCHANGED vars
  BY <1>10, InvElsewhere DEF vars
<1>11. QED
  BY <1>1, <1>2, <1>3, <1>4, <1>5, <1>6, <1>7, <1>8, <1>9, <1>10 DEF Next

\* In such a state no step breaks the pause.
LEMMA InvHolds == Inv => HoldsStill
<1> SUFFICES ASSUME Inv, stored = "PAUSED"
             PROVE  /\ \A t \in Tasks : StartCli(t) => t \in caught.cli
                    /\ \A d \in Drivers :
                         Assigns(d) /\ at[d] \in Singles => at[d] \in caught.dispatch
                    /\ (\E t \in Tasks : HealStops(t)) => caught.heal
  BY DEF HoldsStill
<1>1. NobodyNew /\ Paused
  BY DEF Inv, Agreed
<1>2. QED
  BY <1>1 DEF NobodyNew, StartCli, HealStops

\* The types, row by row of the state.
LEMMA TypesNext == ASSUME TypeOK, [Next]_vars, MaxPauses \in Nat PROVE TypeOK'
<1> USE DEF TypeOK, Active, None
<1>1. CASE Pause \/ Resume
  <2>1. {at[d] : d \in Drivers} \cap Singles \in SUBSET Singles
    OBVIOUS
  <2>2. {t \in Tasks : worker[t] = "gated"} \in SUBSET Tasks
    OBVIOUS
  <2>3. caught' \in [dispatch : SUBSET Singles, cli : SUBSET Tasks, heal : BOOLEAN]
    <3>1. CASE Pause
      BY <2>1, <2>2, <3>1 DEF Pause
    <3>2. CASE Resume
      BY <3>2 DEF Resume, Nothing
    <3>3. QED
      BY <1>1, <3>1, <3>2
  <2>4. QED
    BY <1>1, <2>3 DEF Pause, Resume, Control
<1>2. CASE Crash
  BY <1>2 DEF Crash, Recalled, Nothing
<1>3. CASE Tick \/ HealStart \/ HealEnd
  <2>1. {t \in Tasks : status[t] = "QUEUED"} \in SUBSET Tasks
    OBVIOUS
  <2>2. CASE Tick
    BY <2>1, <2>2 DEF Tick, Starts
  <2>3. CASE HealStart \/ HealEnd
    BY <2>3 DEF HealStart, HealEnd
  <2>4. QED
    BY <1>3, <2>2, <2>3
<1>4. ASSUME NEW d \in Drivers, NEW t \in Tasks, Visit(d, t) PROVE TypeOK'
  BY <1>4 DEF Visit
<1>5. ASSUME NEW d \in Scoped, NEW t \in Tasks, Dispatch(d, t) PROVE TypeOK'
  BY <1>5 DEF Dispatch, Starts, Moves
<1>6. ASSUME NEW d \in Drivers, Refused(d) \/ Assigns(d) PROVE TypeOK'
  BY <1>6 DEF Refused, Assigns, Moves
<1>7. ASSUME NEW d \in Drivers, Sent(d) PROVE TypeOK'
  BY <1>7 DEF Sent, Moves
<1>8. ASSUME NEW t \in Tasks, Receive(t) \/ StartCli(t) PROVE TypeOK'
  BY <1>8 DEF Receive, StartCli
<1>9. ASSUME NEW t \in Tasks, CliEnds(t) PROVE TypeOK'
  BY <1>9 DEF CliEnds
<1>10. ASSUME NEW t \in Tasks, HealStops(t) \/ Continue(t) PROVE TypeOK'
  BY <1>10 DEF HealStops, Continue, Moves
<1>11. CASE UNCHANGED vars
  BY <1>11 DEF vars
<1>12. QED
  BY <1>1, <1>2, <1>3, <1>4, <1>5, <1>6, <1>7, <1>8, <1>9, <1>10, <1>11 DEF Next

LEMMA TypesInit == ASSUME Init, MaxPauses \in Nat PROVE TypeOK
<1>1. Nothing \in [dispatch : SUBSET Singles, cli : SUBSET Tasks, heal : BOOLEAN]
  BY DEF Nothing
<1>2. pauses \in 0 .. MaxPauses
  BY DEF Init
<1>3. QED
  BY <1>1, <1>2 DEF Init, TypeOK, Active, None

\* Under a pause no CLI starts, no single-agent Task is dispatched and no
\* healing run stops a Task but what had passed its last gate when the owner
\* paused, and nothing at all after a restart.
THEOREM PauseIsKept ==
  ASSUME None \notin Singles
  PROVE  Spec => PauseHolds
<1>1. Init => Inv
  BY InvInit
<1>2. Inv /\ [Next]_vars => Inv'
  BY InvNext
<1>3. Inv => HoldsStill
  BY InvHolds
<1>4. QED
  BY <1>1, <1>2, <1>3, PTL DEF Spec, PauseHolds
=============================================================================
