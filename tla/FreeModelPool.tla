--------------------------- MODULE FreeModelPool ---------------------------
(***************************************************************************)
(* The pool of free-tier models and its probes: concurrent probeRegistered *)
(* calls that await the provider for each model they began, the probe      *)
(* program of its own process that records whatever beginProbe answered,   *)
(* re-registration at every start, and the death of the probing process.   *)
(***************************************************************************)
EXTENDS Naturals

CONSTANTS
  Models,      \* candidates
  Runs,        \* concurrent probeRegistered calls
  MaxAttempts  \* their maxAttempts

VARIABLES
  state,     \* state of each free_model_pool row, None before it is registered
  attempts,  \* its probe_attempts
  todo,      \* candidates each call has still to visit
  probing,   \* the model each call awaits the provider for
  program,   \* what the probe program read of the row it is at
  asked      \* history: probes each model was asked by probeRegistered

vars == <<state, attempts, todo, probing, program, asked>>

None == "none"
Results == {"AVAILABLE", "UNAVAILABLE"}
Probing == "PROBING"

TypeOK ==
  /\ state \in [Models -> {None, "UNKNOWN", Probing} \cup Results]
  /\ attempts \in [Models -> Nat]
  /\ todo \in [Runs -> SUBSET Models] /\ probing \in [Runs -> Models \cup {None}]
  /\ program \in [at : Models \cup {None}, begins : BOOLEAN]
  /\ asked \in [Models -> Nat]

Idle == [at |-> None, begins |-> FALSE]

Init ==
  /\ state = [m \in Models |-> None] /\ attempts = [m \in Models |-> 0]
  /\ todo = [r \in Runs |-> {}] /\ probing = [r \in Runs |-> None]
  /\ program = Idle /\ asked = [m \in Models |-> 0]

-----------------------------------------------------------------------------
FreshAttempts == attempts' = [m \in Models |-> 0]

\* registerCandidates keeps the state and the attempts of a row there is.
KeptAttempts == attempts' = attempts
Register ==
  /\ state' = [m \in Models |-> IF state[m] = None THEN "UNKNOWN" ELSE state[m]]
  /\ KeptAttempts /\ UNCHANGED <<todo, probing, program, asked>>

\* What beginProbe asks of the row.
Beginnable(m, max) == state[m] \notin {None, "AVAILABLE"} /\ attempts[m] < max
Begun(m) ==
  /\ state' = [state EXCEPT ![m] = Probing]
  /\ attempts' = [attempts EXCEPT ![m] = @ + 1]

ProbeRegistered(r) ==
  /\ todo[r] = {} /\ probing[r] = None
  /\ todo' = [todo EXCEPT ![r] = {m \in Models : state[m] # None}]
  /\ UNCHANGED <<state, attempts, probing, program, asked>>
Visit(r, m) ==
  /\ m \in todo[r] /\ probing[r] = None
  /\ todo' = [todo EXCEPT ![r] = @ \ {m}]
  /\ IF Beginnable(m, MaxAttempts)
       THEN /\ Begun(m) /\ probing' = [probing EXCEPT ![r] = m]
            /\ asked' = [asked EXCEPT ![m] = @ + 1]
     ELSE UNCHANGED <<state, attempts, probing, asked>>
  /\ UNCHANGED program

\* recordProbe, of an answer or of an exception, looks at nothing.
Record(r, result) ==
  /\ probing[r] # None /\ state' = [state EXCEPT ![probing[r]] = result]
  /\ probing' = [probing EXCEPT ![r] = None]
  /\ UNCHANGED <<attempts, todo, program, asked>>

-----------------------------------------------------------------------------
\* The probe program: one attempt for each model, read and written by another
\* process, and the result of one catalog recorded in any case.
ProgramReads(m) ==
  /\ program = Idle /\ state[m] # None
  /\ program' = [at |-> m, begins |-> Beginnable(m, 1)]
  /\ UNCHANGED <<state, attempts, todo, probing, asked>>
ProgramBegins ==
  /\ program.begins /\ Begun(program.at)
  /\ program' = [program EXCEPT !.begins = FALSE]
  /\ UNCHANGED <<todo, probing, asked>>
ProgramRecords(result) ==
  /\ program # Idle /\ ~program.begins
  /\ state' = [state EXCEPT ![program.at] = result] /\ program' = Idle
  /\ UNCHANGED <<attempts, todo, probing, asked>>

Crash ==
  /\ todo' = [r \in Runs |-> {}] /\ probing' = [r \in Runs |-> None]
  /\ UNCHANGED <<state, attempts, program, asked>>
ProgramDies == program' = Idle /\ UNCHANGED <<state, attempts, todo, probing, asked>>

Next ==
  \/ Register \/ ProgramBegins \/ Crash \/ ProgramDies
  \/ \E m \in Models : ProgramReads(m)
  \/ \E result \in Results : \/ ProgramRecords(result)
                             \/ \E r \in Runs : Record(r, result)
  \/ \E r \in Runs : ProbeRegistered(r) \/ (\E m \in Models : Visit(r, m))

Spec == Init /\ [][Next]_vars

-----------------------------------------------------------------------------
\* A free model costs at most its attempts, whatever concurrent calls, lost
\* answers, restarts and re-registrations come together: each attempt is on the
\* row before the provider is asked.
AskedWithinAttempts ==
  \A m \in Models : asked[m] <= MaxAttempts /\ asked[m] <= attempts[m]
=============================================================================
