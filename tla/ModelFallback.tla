---------------------------- MODULE ModelFallback ----------------------------
(***************************************************************************)
(* ModelAvailabilityFallback around the CLI of one agent and Role: a run   *)
(* that fails for want of its model is repeated once with the free model.  *)
(* Calls for several Tasks share the cooldowns; what a run was asked for   *)
(* and the model it says it used may differ.  A model stands for model and *)
(* provider.                                                               *)
(***************************************************************************)
EXTENDS Naturals

CONSTANTS
  Tasks,   \* Tasks this agent executes; one call at a time for each
  Models,  \* models and their providers, CLI_DEFAULT among them
  Free,    \* COMMANDCODE_FREE_FALLBACK_MODEL
  MaxRuns  \* bound: runs of the CLI for a Task

VARIABLES
  cooling,   \* models whose cooldown_until lies ahead
  verified,  \* the catalog holds Free as execution-verified
  call,      \* what each Task's execute awaits, and for which model
  fell,      \* model_fallback_attempts rows with fallback_attempted
  asked,     \* the model the call was made for
  runs,      \* history: CLI runs for each Task
  tried,     \* history: fallback runs for each Task and model
  cut        \* history: those whose end was never seen

vars == <<cooling, verified, call, fell, asked, runs, tried, cut>>

Idle == [at |-> "idle", original |-> Free]

TypeOK ==
  /\ cooling \subseteq Models /\ verified \in BOOLEAN
  /\ call \in [Tasks -> [at : {"idle", "primary", "fallback"}, original : Models]]
  /\ fell \subseteq Tasks \X Models /\ asked \in [Tasks -> Models]
  /\ runs \in [Tasks -> 0 .. MaxRuns]
  /\ tried \in [Tasks \X Models -> Nat] /\ cut \in [Tasks \X Models -> Nat]

Init ==
  /\ cooling = {} /\ verified \in BOOLEAN
  /\ call = [t \in Tasks |-> Idle] /\ fell = {} /\ asked = [t \in Tasks |-> Free]
  /\ runs = [t \in Tasks |-> 0]
  /\ tried = [a \in Tasks \X Models |-> 0] /\ cut = [a \in Tasks \X Models |-> 0]

-----------------------------------------------------------------------------
RunsCli(t, at, original) ==
  /\ runs[t] < MaxRuns /\ runs' = [runs EXCEPT ![t] = @ + 1]
  /\ call' = [call EXCEPT ![t] = [at |-> at, original |-> original]]
Over(t) == call' = [call EXCEPT ![t] = Idle] /\ UNCHANGED runs

\* eligibleFreeModel, with the cooldowns as they have just been written.
Eligible(t, original, cool) ==
  original # Free /\ Free \notin cool /\ verified /\ <<t, original>> \notin fell

\* tryFreeFallback up to its await, or its answer that there is nothing to try.
TryFree(t, original, cool) ==
  IF Eligible(t, original, cool)
    THEN /\ RunsCli(t, "fallback", original)
         /\ tried' = [tried EXCEPT ![<<t, original>>] = @ + 1]
  ELSE Over(t) /\ UNCHANGED tried

\* execute: a model known to be unavailable is not run at all.
Execute(t, model) ==
  /\ call[t].at = "idle" /\ asked' = [asked EXCEPT ![t] = model]
  /\ IF model \in cooling THEN TryFree(t, model, cooling)
     ELSE RunsCli(t, "primary", model) /\ UNCHANGED tried
  /\ UNCHANGED <<cooling, verified, fell, cut>>

\* The run passed, or failed for another reason than its model.
Settled(t) ==
  /\ call[t].at = "primary" /\ Over(t)
  /\ UNCHANGED <<cooling, verified, fell, asked, tried, cut>>

\* It failed for want of the model it says it used.
Unavailable(t, actual) ==
  /\ call[t].at = "primary" /\ cooling' = cooling \cup {actual}
  /\ TryFree(t, actual, cooling')
  /\ UNCHANGED <<verified, fell, asked, cut>>

RecordedAsAsked(t) == fell \cup {<<t, asked[t]>>}

\* The row names the model that failed.
Recorded(t) == fell \cup {<<t, call[t].original>>}

FellBack(t, unavailable) ==
  /\ call[t].at = "fallback" /\ Over(t) /\ fell' = Recorded(t)
  /\ cooling' = cooling \cup unavailable
  /\ UNCHANGED <<verified, asked, tried, cut>>

\* The process dies, or the adapter throws.
Lost(t) == cut' = [a \in Tasks \X Models |->
  IF t = a[1] /\ call[t] = [at |-> "fallback", original |-> a[2]] THEN cut[a] + 1 ELSE cut[a]]
Throws(t) ==
  /\ call[t].at # "idle" /\ Over(t) /\ Lost(t)
  /\ UNCHANGED <<cooling, verified, fell, asked, tried>>
Crash ==
  /\ call' = [t \in Tasks |-> Idle]
  /\ cut' = [a \in Tasks \X Models |->
       IF call[a[1]] = [at |-> "fallback", original |-> a[2]] THEN cut[a] + 1 ELSE cut[a]]
  /\ UNCHANGED <<cooling, verified, fell, asked, runs, tried>>

\* A cooldown is over; discovery or an operator changes the catalog.
Cooled(m) ==
  /\ m \in cooling /\ cooling' = cooling \ {m}
  /\ UNCHANGED <<verified, call, fell, asked, runs, tried, cut>>
Catalog ==
  /\ verified' = ~verified
  /\ UNCHANGED <<cooling, call, fell, asked, runs, tried, cut>>

Next ==
  \/ \E t \in Tasks :
       \/ \E m \in Models : Execute(t, m) \/ Unavailable(t, m)
       \/ \E u \in {{}} \cup {{m} : m \in Models} : FellBack(t, u)
       \/ Settled(t) \/ Throws(t)
  \/ \E m \in Models : Cooled(m)
  \/ Crash \/ Catalog

Spec == Init /\ [][Next]_vars

-----------------------------------------------------------------------------
\* "once": for a Task and a model that failed, the free model is run a second
\* time only if the first run was cut off before its row was written, whatever
\* other Tasks, cooldowns and changes of the catalog come between, and whichever
\* model the CLI turns out to have used.
FallbackOnce == \A a \in Tasks \X Models : tried[a] <= 1 + cut[a]
=============================================================================
