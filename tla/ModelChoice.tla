---------------------------- MODULE ModelChoice ----------------------------
(***************************************************************************)
(* The models of one agent: the catalog that discovery, executions and     *)
(* reports of absence write in any order, the durable preference an        *)
(* operator sets, and the adapter's own selection, which dies with the     *)
(* process and is restored from the preference at the next start.          *)
(***************************************************************************)
EXTENDS Naturals

CONSTANT Models  \* models of the agent

None == "none"

VARIABLES
  entry,     \* level, available and verified of each model_catalog row
  prefers,   \* the agent_model_preferences row: model and verification state
  selected,  \* selectedModel of the adapter
  evidence,  \* history: models seen by the CLI or run since last unavailable
  gone       \* history: models reported absent since this process started

vars == <<entry, prefers, selected, evidence, gone>>

Rank == [UNAVAILABLE |-> 0, DISCOVERED |-> 1, CLI_REPORTED |-> 2, CONFIGURED |-> 3,
         EXECUTION_VERIFIED |-> 4]
Levels == DOMAIN Rank
Reported == {"DISCOVERED", "CLI_REPORTED", "CONFIGURED"}  \* by discovery
Proving == {"CLI_REPORTED", "EXECUTION_VERIFIED"}
NoEntry == [level |-> None, available |-> FALSE, verified |-> FALSE]
NoPreference == [model |-> None, valid |-> FALSE]

TypeOK ==
  /\ entry \in [Models -> [level : Levels \cup {None}, available : BOOLEAN, verified : BOOLEAN]]
  /\ prefers \in [model : Models \cup {None}, valid : BOOLEAN]
  /\ selected \in Models \cup {None} /\ evidence \subseteq Models
  /\ gone \subseteq Models

Init ==
  /\ entry = [m \in Models |-> NoEntry] /\ prefers = NoPreference
  /\ selected = None /\ evidence = {} /\ gone = {}

-----------------------------------------------------------------------------
\* A higher level stays against a lower one, but for a report of absence.
Level(m, level) ==
  IF level = "UNAVAILABLE" \/ entry[m] = NoEntry \/ Rank[level] >= Rank[entry[m].level]
    THEN level ELSE entry[m].level

\* What was proved once stays proved until the model is reported absent.
Verified(m, level) == level # "UNAVAILABLE" /\ (entry[m].verified \/ level \in Proving)

Upsert(m, level) ==
  /\ entry' = [entry EXCEPT ![m] = [level |-> Level(m, level),
       available |-> level # "UNAVAILABLE", verified |-> Verified(m, level)]]
  /\ evidence' = CASE level = "UNAVAILABLE" -> evidence \ {m}
                   [] level \in Proving -> evidence \cup {m} [] OTHER -> evidence
  /\ gone' = IF level = "UNAVAILABLE" THEN gone \cup {m} ELSE gone
  /\ UNCHANGED <<prefers, selected>>

\* Discovery at its level, an execution with the model, a report of absence.
Discover(m, level) == level \in Reported /\ Upsert(m, level)
Executed(m) == Upsert(m, "EXECUTION_VERIFIED")
Absent(m) == Upsert(m, "UNAVAILABLE")

-----------------------------------------------------------------------------
Usable(m) == entry[m].available /\ entry[m].verified

\* setAgentModel: the adapter first, then the row.
SetModel(m) ==
  /\ Usable(m) /\ selected' = m
  /\ prefers' = [model |-> m, valid |-> TRUE]
  /\ UNCHANGED <<entry, evidence, gone>>
ClearModel ==
  /\ prefers' = NoPreference /\ selected' = None
  /\ UNCHANGED <<entry, evidence, gone>>

RestorableAlways == prefers.model # None

\* restorePreferences asks the catalog again before it selects.
Restorable == prefers.model # None /\ Usable(prefers.model)

Restart ==
  /\ selected' = IF Restorable THEN prefers.model ELSE None
  /\ prefers' = IF prefers.model = None \/ Restorable THEN prefers
                ELSE [prefers EXCEPT !.valid = FALSE]
  /\ gone' = {} /\ UNCHANGED <<entry, evidence>>

Next ==
  \/ \E m \in Models : \/ SetModel(m) \/ Executed(m) \/ Absent(m)
                       \/ \E level \in Reported : Discover(m, level)
  \/ ClearModel \/ Restart

Spec == Init /\ [][Next]_vars

-----------------------------------------------------------------------------
\* What the adapter runs can be trusted.  It selects the preferred model or none,
\* and selects it unless the row waits for revalidation; a selection the catalog
\* does not vouch for was made before the model went absent, never by a start
\* after it; and the catalog vouches for what the CLI reported or a run used
\* since it was last absent, whatever order the reports came in.
ChoiceIsTrusted ==
  /\ selected \in {None, prefers.model}
  /\ prefers.model # None /\ prefers.valid => selected = prefers.model
  /\ selected # None => Usable(selected) \/ selected \in gone
  /\ \A m \in Models : entry[m].verified =>
       m \in evidence /\ entry[m].available /\ entry[m].level # "UNAVAILABLE"
=============================================================================
