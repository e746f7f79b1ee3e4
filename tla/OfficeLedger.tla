---------------------------- MODULE OfficeLedger ----------------------------
(***************************************************************************)
(* What the self-healing loop leaves for people: office_events, of which   *)
(* one per fingerprint may be open (a partial unique index), and the       *)
(* improvement backlog recomputed from them, whose entries people triage   *)
(* while a recompute is under way.                                         *)
(***************************************************************************)
EXTENDS Naturals, FiniteSets

CONSTANTS
  Events,     \* rows of office_events that may be made
  Anomalies,  \* what may go wrong: one fingerprint each
  MaxTriage   \* bound: decisions about backlog entries

None == "none"

VARIABLES
  event,    \* fingerprint and status of each office_events row
  wrong,    \* anomalies that are there to be seen
  backlog,  \* status of the backlog entry of each fingerprint
  reading,  \* a recompute: fingerprints left, the one it is at and what it found
  owed,     \* history: anomalies seen since their event was last closed
  triage,   \* history: the last decision about each entry
  triages   \* history: decisions so far

vars == <<event, wrong, backlog, reading, owed, triage, triages>>

Open == {"OPEN", "WAITING"}
Closed == {"RESOLVED", "DISMISSED"}
Triage == {"OPEN", "IN_PROGRESS", "DONE", "DISMISSED"}
NoRow == [of |-> None, status |-> None]
NotReading == [of |-> {}, at |-> None, found |-> None]

TypeOK ==
  /\ event \in [Events -> [of : Anomalies \cup {None}, status : Open \cup Closed \cup {None}]]
  /\ wrong \subseteq Anomalies
  /\ backlog \in [Anomalies -> Triage \cup {None}]
  /\ reading \in [of : SUBSET Anomalies, at : Anomalies \cup {None},
                  found : Triage \cup {None}]
  /\ owed \subseteq Anomalies
  /\ triage \in [Anomalies -> Triage \cup {None}] /\ triages \in 0 .. MaxTriage

Init ==
  /\ event = [e \in Events |-> NoRow] /\ wrong = {}
  /\ backlog = [f \in Anomalies |-> None] /\ reading = NotReading
  /\ owed = {} /\ triage = [f \in Anomalies |-> None] /\ triages = 0

-----------------------------------------------------------------------------
OpenRows(f) == {e \in Events : event[e].of = f /\ event[e].status \in Open}

\* The unique index holds among the open rows of a fingerprint only.
Known(f) == OpenRows(f) # {}

\* record: INSERT OR IGNORE of what a run of the loop sees.
Recorded(f) ==
  IF Known(f) THEN UNCHANGED event
  ELSE \E e \in Events : /\ event[e] = NoRow
                         /\ event' = [event EXCEPT ![e] = [of |-> f, status |-> "OPEN"]]
Records(f) ==
  /\ f \in wrong /\ Recorded(f) /\ owed' = owed \cup {f}
  /\ UNCHANGED <<wrong, backlog, reading, triage, triages>>

Appears(f) == wrong' = wrong \cup {f} /\ UNCHANGED <<event, backlog, reading, owed, triage, triages>>
Passes(f) == wrong' = wrong \ {f} /\ UNCHANGED <<event, backlog, reading, owed, triage, triages>>

\* updateStatus: a row that would be a second open one is refused by the index.
UpdateStatus(e, status) ==
  /\ event[e] # NoRow
  /\ status \in Open => OpenRows(event[e].of) \subseteq {e}
  /\ event' = [event EXCEPT ![e].status = status]
  /\ owed' = IF status \in Closed /\ e \in OpenRows(event[e].of) THEN owed \ {event[e].of}
             ELSE IF status \in Open THEN owed \cup {event[e].of} ELSE owed
  /\ UNCHANGED <<wrong, backlog, reading, triage, triages>>

-----------------------------------------------------------------------------
OverwrittenStatus(f) == IF reading.found = None THEN "OPEN" ELSE reading.found

\* The upsert of a recompute leaves the status of an entry there is alone.
Upserted(f) == IF backlog[f] = None THEN "OPEN" ELSE backlog[f]

\* One group for each fingerprint; its entry is read, and then written.
Recompute ==
  /\ reading = NotReading
  /\ reading' = [NotReading EXCEPT !.of = {event[e].of : e \in Events} \ {None}]
  /\ UNCHANGED <<event, wrong, backlog, owed, triage, triages>>
Finds(f) ==
  /\ f \in reading.of /\ reading.at = None
  /\ reading' = [of |-> reading.of \ {f}, at |-> f, found |-> backlog[f]]
  /\ UNCHANGED <<event, wrong, backlog, owed, triage, triages>>
Upserts(f) ==
  /\ reading.at = f /\ backlog' = [backlog EXCEPT ![f] = Upserted(f)]
  /\ reading' = [reading EXCEPT !.at = None, !.found = None]
  /\ UNCHANGED <<event, wrong, owed, triage, triages>>
SetStatus(f, status) ==
  /\ backlog[f] # None /\ triages < MaxTriage /\ triages' = triages + 1
  /\ backlog' = [backlog EXCEPT ![f] = status] /\ triage' = [triage EXCEPT ![f] = status]
  /\ UNCHANGED <<event, wrong, reading, owed>>

Next ==
  \/ \E f \in Anomalies : \/ Records(f) \/ Appears(f) \/ Passes(f) \/ Finds(f) \/ Upserts(f)
                          \/ \E status \in Triage : SetStatus(f, status)
  \/ \E e \in Events, status \in Open \cup Closed : UpdateStatus(e, status)
  \/ Recompute

Spec == Init /\ [][Next]_vars

-----------------------------------------------------------------------------
\* What is left for people is complete and theirs: an anomaly that was seen and
\* not closed since has exactly one open event, seen again after a close or
\* reopened included; and a decision about a backlog entry outlives every
\* recompute, one that read the entry before the decision included.
LedgerKept ==
  \A f \in Anomalies :
    /\ Cardinality(OpenRows(f)) <= 1 /\ (f \in owed => OpenRows(f) # {})
    /\ triage[f] # None => backlog[f] = triage[f]
=============================================================================
