----------------------------- MODULE Singleton -----------------------------
(***************************************************************************)
(* RuntimeSingleton: the pid lock file a runtime creates when it starts    *)
(* and unlinks when it stops.  Starters create, write, read and unlink one *)
(* file in separate steps, and may die between any two of them.            *)
(***************************************************************************)
EXTENDS Naturals, FiniteSets

CONSTANT Starters  \* runtime processes that may be started, again and again

VARIABLES
  lock,   \* the file: whose it is (Dead once that process died), and its record
  pc,     \* where each process is in acquire, or holds, or is off
  tries,  \* attempts of the acquire under way
  raced   \* history: two starts overlapped with no live runtime on record

vars == <<lock, pc, tries, raced>>

Dead == "dead"
NoFile == [by |-> "none", written |-> FALSE]

TypeOK ==
  /\ lock \in [by : Starters \cup {Dead, "none"}, written : BOOLEAN]
  /\ pc \in [Starters -> {"off", "open", "created", "exists", "stale", "held"}]
  /\ tries \in [Starters -> 0 .. 2]
  /\ raced \in BOOLEAN

Init ==
  /\ lock = NoFile /\ pc = [p \in Starters |-> "off"]
  /\ tries = [p \in Starters |-> 0] /\ raced = FALSE

-----------------------------------------------------------------------------
LiveRecord == lock.written /\ lock.by \in Starters
Starting == {p \in Starters : pc[p] \notin {"off", "held"}}

To(p, at) == pc' = [pc EXCEPT ![p] = at]

\* acquire opens the file exclusively, which fails when it exists.
Start(p) == pc[p] = "off" /\ To(p, "open") /\ UNCHANGED <<lock, tries>>
Open(p) ==
  /\ pc[p] = "open" /\ UNCHANGED tries
  /\ IF lock = NoFile THEN To(p, "created") /\ lock' = [by |-> p, written |-> FALSE]
     ELSE To(p, "exists") /\ UNCHANGED lock

\* The record goes to the file that was opened, unlinked or not.
Write(p) ==
  /\ pc[p] = "created" /\ To(p, "held")
  /\ lock' = IF lock.by = p THEN [lock EXCEPT !.written = TRUE] ELSE lock
  /\ tries' = [tries EXCEPT ![p] = 0]

Released(p) == To(p, "off") /\ tries' = [tries EXCEPT ![p] = 0] /\ lock' = NoFile

\* A start that is refused leaves the file alone.
Refused(p) == To(p, "off") /\ tries' = [tries EXCEPT ![p] = 0] /\ UNCHANGED lock

\* A live pid refuses the start; an empty, removed or dead record is stale.
Read(p) ==
  /\ pc[p] = "exists"
  /\ IF LiveRecord THEN Refused(p) ELSE To(p, "stale") /\ UNCHANGED <<lock, tries>>
Unlink(p) ==
  /\ pc[p] = "stale"
  /\ IF lock = NoFile THEN Refused(p)
     ELSE /\ lock' = NoFile
          /\ IF tries[p] = 0 THEN To(p, "open") /\ tries' = [tries EXCEPT ![p] = 1]
             ELSE To(p, "off") /\ tries' = [tries EXCEPT ![p] = 0]

\* release unlinks the file at the path, whoever's it is by now.
Stop(p) == pc[p] = "held" /\ Released(p)
Die(p) ==
  /\ pc[p] # "off" /\ To(p, "off") /\ tries' = [tries EXCEPT ![p] = 0]
  /\ lock' = IF lock.by = p THEN [lock EXCEPT !.by = Dead] ELSE lock

Next ==
  /\ \E p \in Starters : \/ Start(p) \/ Open(p) \/ Write(p) \/ Read(p)
                         \/ Unlink(p) \/ Stop(p) \/ Die(p)
  /\ raced' = (raced \/ (Cardinality(Starting') > 1 /\ ~LiveRecord'))

Spec == Init /\ [][Next]_vars

-----------------------------------------------------------------------------
\* One runtime at a time holds the lock, through deaths that leave the file in
\* any state and through any number of refused starts, unless two starts raced
\* for a file that no live runtime had on record.
OneRuntime == ~raced => Cardinality({p \in Starters : pc[p] = "held"}) <= 1
=============================================================================
