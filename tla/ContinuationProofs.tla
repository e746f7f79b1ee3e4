------------------------- MODULE ContinuationProofs -------------------------
(***************************************************************************)
(* The scoped watchdog for any number of overlapping runs, turns, Workers  *)
(* and retries: its bound on the retries, one retry at a time, dispatch ids*)
(* that never come out twice, and Tasks that stay closed.  The second and  *)
(* the third are not inductive: that a run at work holds the lease of its  *)
(* turn while the watch goes on, and that the ids already given out lie    *)
(* below the count of the lease a run at its probes holds, must be known   *)
(* of every state.                                                         *)
(***************************************************************************)
EXTENDS ContinuationWatchdog, TLAPS

Leases == [retries : 0 .. MaxRecoveries, wake : BOOLEAN, asked : 0 .. 2, waited : 0 .. 2]
Snaps == [turn : 1 .. Turns, same : BOOLEAN, fresh : BOOLEAN]

-----------------------------------------------------------------------------
(* Leases and snapshots.                                                   *)

LEMMA NewInTypes == NewLease \in Leases /\ NoSnap \in Snaps
BY ContinuationAssumption DEF NewLease, NoSnap, OfTurn, Leases, Snaps

\* What the writes to a lease leave of its retries and of who holds it.
LEMMA LeaseCleared ==
  ASSUME NEW l \in Leases
  PROVE  LET c == [NewLease EXCEPT !.retries = l.retries] IN
         /\ c \in Leases /\ c.retries = l.retries
<1>1. l.retries \in 0 .. MaxRecoveries
  BY DEF Leases
<1>2. ASSUME NEW m \in Leases, NEW n \in 0 .. MaxRecoveries
      PROVE  [m EXCEPT !.retries = n] \in Leases /\ [m EXCEPT !.retries = n].retries = n
  BY DEF Leases
<1>3. QED
  BY <1>1, <1>2, NewInTypes

LEMMA LeaseFreed ==
  ASSUME NEW l \in Leases
  PROVE  LET f == [l EXCEPT !.wake = FALSE] IN
         /\ f \in Leases /\ f.retries = l.retries
BY DEF Leases

LEMMA LeaseWaits ==
  ASSUME NEW l \in Leases, NEW k \in 0 .. 2
  PROVE  /\ LET a == [l EXCEPT !.asked = k] IN
              a \in Leases /\ a.retries = l.retries /\ a.wake = l.wake
         /\ LET w == [l EXCEPT !.waited = k] IN
              w \in Leases /\ w.retries = l.retries /\ w.wake = l.wake
BY DEF Leases

\* Taking a lease spends a retry.
LEMMA OneMore ==
  ASSUME NEW n \in 0 .. MaxRecoveries, n < MaxRecoveries
  PROVE  n + 1 \in 0 .. MaxRecoveries
BY ContinuationAssumption

LEMMA LeaseSpent ==
  ASSUME NEW l \in Leases, l.retries < MaxRecoveries
  PROVE  LET s == [l EXCEPT !.retries = @ + 1] IN
         /\ s \in Leases /\ s.retries = l.retries + 1 /\ s.wake = l.wake
<1>1. l.retries \in 0 .. MaxRecoveries
  BY DEF Leases
<1>2. l.retries + 1 \in 0 .. MaxRecoveries
  BY <1>1, OneMore
<1>3. QED
  BY <1>2 DEF Leases

LEMMA LeaseTaken ==
  ASSUME NEW l \in Leases, l.retries < MaxRecoveries
  PROVE  LET s == [l EXCEPT !.wake = TRUE, !.retries = @ + 1] IN
         /\ s \in Leases /\ s.retries = l.retries + 1 /\ s.wake = TRUE
<1>1. l.retries \in 0 .. MaxRecoveries
  BY DEF Leases
<1>2. l.retries + 1 \in 0 .. MaxRecoveries
  BY <1>1, OneMore
<1>3. QED
  BY <1>2 DEF Leases

\* Giving it back for want of a Worker gives the retry back.
LEMMA OneLess ==
  ASSUME NEW n \in 0 .. MaxRecoveries
  PROVE  /\ (IF n > 0 THEN n - 1 ELSE 0) \in 0 .. MaxRecoveries
         /\ n > 0 => (IF n > 0 THEN n - 1 ELSE 0) = n - 1
BY ContinuationAssumption

LEMMA LeaseGivenBack ==
  ASSUME NEW l \in Leases
  PROVE  LET g == [l EXCEPT !.wake = FALSE, !.retries = IF @ > 0 THEN @ - 1 ELSE 0] IN
         /\ g \in Leases
         /\ l.retries > 0 => g.retries = l.retries - 1
<1> DEFINE n == IF l.retries > 0 THEN l.retries - 1 ELSE 0
<1>1. l.retries \in 0 .. MaxRecoveries
  BY DEF Leases
<1>2. n \in 0 .. MaxRecoveries /\ (l.retries > 0 => n = l.retries - 1)
  BY <1>1, OneLess
<1>3. [l EXCEPT !.wake = FALSE, !.retries = IF @ > 0 THEN @ - 1 ELSE 0]
        = [l EXCEPT !.wake = FALSE, !.retries = n]
  OBVIOUS
<1> HIDE DEF n
<1>4. QED
  BY <1>2, <1>3 DEF Leases

LEMMA LeaseOf ==
  ASSUME TypeOK, NEW t \in 1 .. Turns
  PROVE  lease[t] \in Leases
BY DEF TypeOK, Leases

LEMMA SnapOf ==
  ASSUME TypeOK, NEW r \in Runs
  PROVE  snap[r] \in Snaps /\ snap[r].turn \in 1 .. Turns
BY DEF TypeOK, Snaps

\* A write to the lease of one turn keeps the type.
LEMMA LeaseSet ==
  ASSUME TypeOK, NEW t \in 1 .. Turns, NEW l \in Leases
  PROVE  /\ [lease EXCEPT ![t] = l] \in [1 .. Turns -> Leases]
         /\ [lease EXCEPT ![t] = l][t] = l
         /\ \A q \in 1 .. Turns \ {t} : [lease EXCEPT ![t] = l][q] = lease[q]
BY DEF TypeOK, Leases

LEMMA TouchedTyped ==
  ASSUME TypeOK
  PROVE  /\ Touched \in [Runs -> Snaps]
         /\ \A r \in Runs : Touched[r].turn = snap[r].turn
BY DEF TypeOK, Touched, Snaps

-----------------------------------------------------------------------------
(* The types.                                                              *)

Messages == {"none", "sent", "received", "claimed", "superseded", "left"}

LEMMA FencedTyped ==
  ASSUME TypeOK, NEW t \in 1 .. Turns
  PROVE  Fenced(t) \in Messages
BY DEF TypeOK, Fenced, Messages

LEMMA ClearedTyped ==
  ASSUME TypeOK, NEW t \in 1 .. Turns
  PROVE  /\ Cleared(t) \in [1 .. Turns -> Leases]
         /\ \A q \in 1 .. Turns : Cleared(t)[q].retries = lease[q].retries
         /\ \A q \in 1 .. Turns \ {t} : Cleared(t)[q] = lease[q]
<1>1. lease[t] \in Leases
  BY LeaseOf
<1> DEFINE c == [NewLease EXCEPT !.retries = lease[t].retries]
<1>2. c \in Leases /\ c.retries = lease[t].retries
  BY <1>1, LeaseCleared
<1>3. Cleared(t) = [lease EXCEPT ![t] = c]
  BY DEF Cleared
<1> HIDE DEF c
<1>4. QED
  BY <1>2, <1>3, LeaseSet

LEMMA FreedTyped ==
  ASSUME TypeOK, NEW t \in 1 .. Turns
  PROVE  /\ Freed(t) \in [1 .. Turns -> Leases]
         /\ \A q \in 1 .. Turns : Freed(t)[q].retries = lease[q].retries
         /\ \A q \in 1 .. Turns \ {t} : Freed(t)[q] = lease[q]
<1>1. lease[t] \in Leases
  BY LeaseOf
<1> DEFINE f == [lease[t] EXCEPT !.wake = FALSE]
<1>2. f \in Leases /\ f.retries = lease[t].retries
  BY <1>1, LeaseFreed
<1>3. Freed(t) = [lease EXCEPT ![t] = f]
  BY DEF Freed, TypeOK
<1> HIDE DEF f
<1>4. QED
  BY <1>2, <1>3, LeaseSet

LEMMA AcquiredTyped ==
  ASSUME TypeOK, CanAcquire, turn \in 1 .. Turns
  PROVE  /\ Acquired \in [1 .. Turns -> Leases]
         /\ Acquired[turn].retries = lease[turn].retries + 1 /\ Acquired[turn].wake
         /\ \A q \in 1 .. Turns \ {turn} : Acquired[q] = lease[q]
<1>1. lease[turn] \in Leases /\ lease[turn].retries < MaxRecoveries
  BY LeaseOf DEF CanAcquire
<1> DEFINE a == [lease[turn] EXCEPT !.wake = TRUE, !.retries = @ + 1]
<1>2. a \in Leases /\ a.retries = lease[turn].retries + 1 /\ a.wake = TRUE
  BY <1>1, LeaseTaken
<1>3. Acquired = [lease EXCEPT ![turn] = a]
  BY DEF Acquired, TypeOK
<1> HIDE DEF a
<1>4. QED
  BY <1>2, <1>3, LeaseSet

LEMMA SafeStopTyped ==
  ASSUME TypeOK, NEW t \in 1 .. Turns, SafeStop(t)
  PROVE  /\ status' \in Statuses /\ message' \in Messages /\ watched' = FALSE
         /\ lease' \in [1 .. Turns -> Leases]
         /\ \A q \in 1 .. Turns : lease'[q].retries = lease[q].retries
         /\ UNCHANGED <<turn, cursor, holder, handing, overdue, sent, broken>>
         /\ status \in Terminal => status' = status
BY FencedTyped, ClearedTyped DEF SafeStop, TypeOK, Statuses, Terminal

LEMMA WaitTyped ==
  ASSUME TypeOK, NEW t \in 1 .. Turns, WaitIsOver(t)
  PROVE  /\ lease' \in [1 .. Turns -> Leases]
         /\ \A q \in 1 .. Turns : lease'[q].retries = lease[q].retries /\ lease'[q].wake = lease[q].wake
<1>1. lease[t] \in Leases /\ 2 \in 0 .. 2
  BY LeaseOf
<1>2. PICK l \in Leases : /\ lease' = [lease EXCEPT ![t] = l]
                         /\ l.retries = lease[t].retries /\ l.wake = lease[t].wake
  BY <1>1, LeaseWaits DEF WaitIsOver
<1>3. QED
  BY <1>2, LeaseSet

\* What the watchdog does not write keeps its type; the others are listed.
Typed ==
  /\ status \in Statuses
  /\ turn \in 1 .. Turns + 1 /\ cursor \in 1 .. Turns + 1
  /\ message \in Messages
  /\ proc \in Procs /\ handing \in 0 .. Turns
  /\ lease \in [1 .. Turns -> Leases]
  /\ pc \in [Runs -> {"idle", "healing", "emitting"}]
  /\ snap \in [Runs -> Snaps]
Typed2 ==
  /\ holder \in [DOMAIN Roles -> Agents]
  /\ tried \in [DOMAIN Roles -> SUBSET Agents]
  /\ overdue \in BOOLEAN /\ watched \in BOOLEAN
  /\ sent \subseteq (1 .. Turns) \X (0 .. MaxRecoveries) /\ broken \subseteq 1 .. Turns

LEMMA TypedOK == (TypeOK <=> Typed /\ Typed2) /\ (TypeOK' <=> Typed' /\ Typed2')
BY DEF TypeOK, Typed, Typed2, Messages, Leases, Snaps

LEMMA TypeInit == Init => TypeOK
<1> SUFFICES ASSUME Init PROVE Typed /\ Typed2
  BY TypedOK
<1>1. Typed
  BY NewInTypes, ContinuationAssumption DEF Init, Typed, Statuses, Terminal, Messages, Procs
<1>2. Typed2
  <2>1. [s \in DOMAIN Roles |-> {Roles[s]}] \in [DOMAIN Roles -> SUBSET Agents]
    BY ContinuationAssumption
  <2>2. QED
    BY <2>1, ContinuationAssumption DEF Init, Typed2
<1>3. QED
  BY <1>1, <1>2

LEMMA TypeEnvironment == TypeOK /\ Environment => TypeOK'
<1> SUFFICES ASSUME TypeOK, Environment PROVE Typed' /\ Typed2'
  BY TypedOK
<1> USE TypedOK, TouchedTyped, ContinuationAssumption
    DEF Typed, Typed2, Apart, taskVars, workVars, runVars, Statuses, Terminal, Messages, Procs
<1>1. CASE Arrives \/ Lost
  BY <1>1 DEF Arrives, Lost
<1>2. CASE Claim
  BY <1>2 DEF Claim
<1>3. CASE Spawn \/ Heartbeat
  BY <1>3 DEF Spawn, Heartbeat
<1>4. CASE Passes
  <2>1. turn + 1 \in 1 .. Turns + 1 /\ 0 \in 0 .. Turns
    BY <1>4 DEF Passes, Active
  <2>2. turn # Turns => turn + 1 \in 0 .. Turns
    BY <1>4 DEF Passes, Active
  <2>3. QED
    BY <1>4, <2>1, <2>2 DEF Passes
<1>5. CASE Fails
  <2>1. (IF turn \in Reviews THEN turn + 1 ELSE 0) \in 0 .. Turns
    <3>1. turn \in Reviews => turn + 1 \in 0 .. Turns
      OBVIOUS
    <3>2. QED
      BY <3>1
  <2>2. QED
    BY <1>5, <2>1 DEF Fails
<1>6. CASE HandOn
  <2>1. 0 \in 0 .. Turns /\ (handing # 0 => handing \in 1 .. Turns + 1)
    OBVIOUS
  <2>2. snap' \in [Runs -> Snaps]
    BY <1>6 DEF HandOn
  <2>3. turn' \in 1 .. Turns + 1 /\ cursor' \in 1 .. Turns + 1
    BY <1>6, <2>1 DEF HandOn
  <2>4. QED
    BY <1>6, <2>1, <2>2, <2>3 DEF HandOn
<1>7. CASE Exits \/ Reconcile
  BY <1>7 DEF Exits, Reconcile
<1>8. CASE Owner \/ Touch
  BY <1>8 DEF Owner, Touch
<1>9. CASE Crash
  BY <1>9, NewInTypes DEF Crash
<1>10. CASE Overdue
  BY <1>10 DEF Overdue
<1>11. ASSUME NEW t \in 1 .. Turns, WaitIsOver(t) PROVE Typed' /\ Typed2'
  BY <1>11, WaitTyped DEF WaitIsOver
<1>12. QED
  BY <1>1, <1>2, <1>3, <1>4, <1>5, <1>6, <1>7, <1>8, <1>9, <1>10, <1>11 DEF Environment

LEMMA SpentTyped ==
  ASSUME TypeOK, turn \in 1 .. Turns, lease[turn].retries < MaxRecoveries
  PROVE  LET l == [lease EXCEPT ![turn] = [lease[turn] EXCEPT !.retries = @ + 1]] IN
         /\ l \in [1 .. Turns -> Leases]
         /\ l[turn].retries = lease[turn].retries + 1
         /\ \A q \in 1 .. Turns : l[q].wake = lease[q].wake
         /\ \A q \in 1 .. Turns \ {turn} : l[q] = lease[q]
<1> DEFINE a == [lease[turn] EXCEPT !.retries = @ + 1]
           l == [lease EXCEPT ![turn] = a]
<1>1. a \in Leases /\ a.retries = lease[turn].retries + 1 /\ a.wake = lease[turn].wake
  BY LeaseOf, LeaseSpent
<1> HIDE DEF a
<1>2. /\ l \in [1 .. Turns -> Leases] /\ l[turn] = a
      /\ \A q \in 1 .. Turns \ {turn} : l[q] = lease[q]
  BY <1>1, LeaseSet
<1> HIDE DEF l
<1>3. /\ l \in [1 .. Turns -> Leases]
      /\ l[turn].retries = lease[turn].retries + 1
      /\ \A q \in 1 .. Turns : l[q].wake = lease[q].wake
      /\ \A q \in 1 .. Turns \ {turn} : l[q] = lease[q]
  BY <1>1, <1>2
<1>4. QED
  BY <1>3 DEF l, a

LEMMA AskedTyped ==
  ASSUME TypeOK, turn \in 1 .. Turns
  PROVE  LET l == [lease EXCEPT ![turn] = [lease[turn] EXCEPT !.asked = 1]] IN
         /\ l \in [1 .. Turns -> Leases]
         /\ \A q \in 1 .. Turns : l[q].retries = lease[q].retries /\ l[q].wake = lease[q].wake
<1> DEFINE a == [lease[turn] EXCEPT !.asked = 1]
           l == [lease EXCEPT ![turn] = a]
<1>1. 1 \in 0 .. 2
  OBVIOUS
<1>2. a \in Leases /\ a.retries = lease[turn].retries /\ a.wake = lease[turn].wake
  BY <1>1, LeaseOf, LeaseWaits
<1> HIDE DEF a
<1>3. /\ l \in [1 .. Turns -> Leases] /\ l[turn] = a
      /\ \A q \in 1 .. Turns \ {turn} : l[q] = lease[q]
  BY <1>2, LeaseSet
<1> HIDE DEF l
<1>4. /\ l \in [1 .. Turns -> Leases]
      /\ \A q \in 1 .. Turns : l[q].retries = lease[q].retries /\ l[q].wake = lease[q].wake
  BY <1>2, <1>3
<1>5. QED
  BY <1>4 DEF l, a

LEMMA WaitingTyped ==
  ASSUME TypeOK, NEW t \in 1 .. Turns
  PROVE  LET l == [GivenBack(t) EXCEPT ![t].waited = 1] IN
         /\ l \in [1 .. Turns -> Leases]
         /\ lease[t].retries > 0 => l[t].retries = lease[t].retries - 1
         /\ \A q \in 1 .. Turns \ {t} : l[q] = lease[q]
<1> DEFINE g == [lease[t] EXCEPT !.wake = FALSE, !.retries = IF @ > 0 THEN @ - 1 ELSE 0]
<1> DEFINE w == [g EXCEPT !.waited = 1]
<1>1. 1 \in 0 .. 2 /\ lease[t] \in Leases
  BY LeaseOf
<1>2. g \in Leases /\ (lease[t].retries > 0 => g.retries = lease[t].retries - 1)
  BY <1>1, LeaseGivenBack
<1>3. GivenBack(t) = [lease EXCEPT ![t] = g]
  BY DEF GivenBack, TypeOK
<1> HIDE DEF g
<1>4. w \in Leases /\ w.retries = g.retries
  BY <1>1, <1>2, LeaseWaits
<1>5. [GivenBack(t) EXCEPT ![t].waited = 1] = [lease EXCEPT ![t] = w]
  BY <1>3 DEF TypeOK
<1> HIDE DEF w
<1>6. QED
  BY <1>2, <1>4, <1>5, LeaseSet

\* A run that looks at an active Task looks at one of its turns.
LEMMA ActiveTurn == TypeOK /\ Active => turn \in 1 .. Turns
BY ContinuationAssumption DEF TypeOK, Active

LEMMA TypeLook == \A r \in Runs : TypeOK /\ Look(r) => TypeOK'
<1> SUFFICES ASSUME NEW r \in Runs, TypeOK, Look(r) PROVE Typed' /\ Typed2'
  BY TypedOK
<1> USE TypedOK DEF taskVars, workVars, runVars
<1>1. CASE Unwatch(r)
  BY <1>1 DEF Unwatch, Typed, Typed2
<1>2. Sees(r) => turn \in 1 .. Turns
  BY ActiveTurn DEF Sees
<1>3. CASE Progress(r)
  BY <1>2, <1>3, ClearedTyped DEF Progress, Typed, Typed2
<1>4. CASE BoundExhausted(r)
  BY <1>2, <1>4, SafeStopTyped, TouchedTyped DEF BoundExhausted, Typed, Typed2, Procs
<1>5. CASE NotAtCursor(r)
  BY <1>2, <1>5, SpentTyped DEF NotAtCursor, CanAcquire, Typed, Typed2
<1>6. CASE Replay(r)
  <2>1. turn \in 1 .. Turns /\ turn + 1 \in 1 .. Turns + 1
    BY <1>2, <1>6, ContinuationAssumption DEF Replay
  <2>2. OfTurn(turn) \in Snaps
    BY <2>1 DEF OfTurn, Snaps
  <2>3. lease' \in [1 .. Turns -> Leases]
    BY <1>6, <2>1, AcquiredTyped DEF Replay
  <2>4. QED
    BY <1>6, <2>1, <2>2, <2>3 DEF Replay, Typed, Typed2, Messages, Procs
<1>7. CASE CancelLive(r)
  <2>1. turn \in 1 .. Turns
    BY <1>2, <1>7 DEF CancelLive
  <2>2. CASE SafeStop(turn)
    BY <1>7, <2>1, <2>2, SafeStopTyped, TouchedTyped DEF CancelLive, Typed, Typed2
  <2>3. CASE ~SafeStop(turn)
    BY <1>7, <2>1, <2>3, AskedTyped DEF CancelLive, Typed, Typed2
  <2>4. QED
    BY <2>2, <2>3
<1>8. CASE Heal(r)
  <2>1. turn \in 1 .. Turns
    BY <1>2, <1>8 DEF Heal
  <2>2. [turn |-> turn, same |-> SameWorker, fresh |-> TRUE] \in Snaps
    BY <2>1 DEF Snaps, SameWorker, Received
  <2>3. lease' \in [1 .. Turns -> Leases] /\ message' \in Messages
    BY <1>8, <2>1, AcquiredTyped, FencedTyped DEF Heal
  <2>4. QED
    BY <1>8, <2>1, <2>2, <2>3 DEF Heal, Typed, Typed2, Procs
<1>9. QED
  BY <1>1, <1>3, <1>4, <1>5, <1>6, <1>7, <1>8 DEF Look

LEMMA TypeRoute ==
  \A r \in Runs : TypeOK /\ (Route(r) \/ Emitted(r) \/ ProbeThrows(r)) => TypeOK'
<1> SUFFICES ASSUME NEW r \in Runs, TypeOK, Route(r) \/ Emitted(r) \/ ProbeThrows(r)
             PROVE  Typed' /\ Typed2'
  BY TypedOK
<1> USE TypedOK DEF taskVars, workVars, runVars, Returns
<1> DEFINE t == snap[r].turn
<1>1. t \in 1 .. Turns
  BY SnapOf
<1>2. [snap EXCEPT ![r] = NoSnap] \in [Runs -> Snaps]
  BY NewInTypes DEF Typed
<1>3. CASE WaitForCapacity(r)
  BY <1>1, <1>2, <1>3, WaitingTyped DEF WaitForCapacity, Typed, Typed2
<1>4. CASE NobodyLeft(r)
  <2>1. [Touched EXCEPT ![r] = NoSnap] \in [Runs -> Snaps]
    BY TouchedTyped, NewInTypes
  <2>2. SafeStop(t)
    BY <1>4 DEF NobodyLeft
  <2>3. QED
    BY <1>1, <1>4, <2>1, <2>2, SafeStopTyped DEF NobodyLeft, Typed, Typed2
<1>5. CASE StaleSelection(r)
  <2>1. lease' \in [1 .. Turns -> Leases]
    BY <1>1, <1>5, FreedTyped DEF StaleSelection
  <2>2. PICK a \in Agents : tried' = [tried EXCEPT ![Seq(t)] = @ \cup {a}]
    BY <1>5 DEF StaleSelection, Selected
  <2>3. tried' \in [DOMAIN Roles -> SUBSET Agents]
    BY <2>2 DEF Typed2
  <2>4. QED
    BY <1>2, <1>5, <2>1, <2>3 DEF StaleSelection, Typed, Typed2
<1>6. ASSUME NEW a \in Agents, Redispatch(r, a) PROVE Typed' /\ Typed2'
  <2>1. tried' \in [DOMAIN Roles -> SUBSET Agents] /\ holder' \in [DOMAIN Roles -> Agents]
    BY <1>6 DEF Redispatch, Selected, Typed2
  <2>2. DispatchId(r) \in (1 .. Turns) \X (0 .. MaxRecoveries)
    <3>1. lease[t] \in Leases
      BY <1>1, LeaseOf
    <3>2. lease[t].retries \in 0 .. MaxRecoveries
      BY <3>1 DEF Leases
    <3>3. QED
      BY <1>1, <3>2 DEF DispatchId
  <2>3. [Touched EXCEPT ![r] = OfTurn(t)] \in [Runs -> Snaps]
    BY <1>1, TouchedTyped DEF OfTurn, Snaps
  <2>4. QED
    BY <1>6, <2>1, <2>2, <2>3 DEF Redispatch, Typed, Typed2, Statuses, Messages, Procs
<1>7. CASE Emitted(r)
  BY <1>1, <1>2, <1>7, ClearedTyped DEF Emitted, Typed, Typed2
<1>8. CASE ProbeThrows(r)
  BY <1>2, <1>8 DEF ProbeThrows, Typed, Typed2
<1>9. QED
  BY <1>3, <1>4, <1>5, <1>6, <1>7, <1>8 DEF Route

LEMMA TypeNext == TypeOK /\ [Next]_vars => TypeOK'
<1>1. TypeOK /\ UNCHANGED vars => TypeOK'
  BY DEF TypeOK, vars, taskVars, workVars, runVars
<1>2. QED
  BY <1>1, TypeEnvironment, TypeLook, TypeRoute DEF Next

\* The rows and calls of the scoped watchdog keep their types: above all, no
\* turn has more retries than max_recoveries, however many runs overlap.
THEOREM RecoveriesBounded == Spec => []TypeOK
BY TypeInit, TypeNext, PTL DEF Spec

-----------------------------------------------------------------------------
(* Who holds the lease, and the ids it gave out.                           *)

Used(t) == lease[t].retries

\* While the watch goes on, a run at work holds the lease of its turn.
LeaseHeld ==
  watched => \A r \in Runs, t \in 1 .. Turns :
               AtWork(r, t) /\ t \notin broken => lease[t].wake

\* Ids are given out up to the count, and below it while a run probes.
IdsGivenOut ==
  \A t \in 1 .. Turns, k \in 0 .. MaxRecoveries :
    <<t, k>> \in sent /\ t \notin broken => k <= Used(t)
ProbesAhead ==
  \A r \in Runs, t \in 1 .. Turns :
    pc[r] = "healing" /\ snap[r].turn = t /\ t \notin broken =>
      /\ Used(t) > 0
      /\ \A k \in 0 .. MaxRecoveries : <<t, k>> \in sent => k < Used(t)

RetryInv ==
  TypeOK /\ LeaseHeld /\ IdsGivenOut /\ ProbesAhead /\ OneRetryAtATime

LEMMA UsedNat ==
  ASSUME TypeOK, NEW t \in 1 .. Turns
  PROVE  Used(t) \in Nat
<1>1. lease[t] \in Leases
  BY LeaseOf
<1>2. QED
  BY <1>1 DEF Leases, Used

LEMMA UsedNatNext ==
  ASSUME TypeOK', NEW t \in 1 .. Turns
  PROVE  Used(t)' \in Nat
<1>1. lease'[t] \in Leases
  BY DEF TypeOK, Leases
<1>2. QED
  BY <1>1 DEF Leases, Used

LEMMA RetryInit == Init => RetryInv
<1> SUFFICES ASSUME Init PROVE RetryInv
  OBVIOUS
<1>1. TypeOK
  BY TypeInit
<1>2. LeaseHeld /\ IdsGivenOut /\ ProbesAhead /\ OneRetryAtATime
  BY DEF Init, LeaseHeld, IdsGivenOut, ProbesAhead, OneRetryAtATime, AtWork
<1>3. QED
  BY <1>1, <1>2 DEF RetryInv

\* No call starts, nothing is dispatched, and the count does not fall.
Calm ==
  /\ sent' = sent /\ broken \subseteq broken'
  /\ watched' => watched
  /\ \A r \in Runs : pc'[r] # "idle" => pc'[r] = pc[r] /\ snap'[r].turn = snap[r].turn
  /\ \A t \in 1 .. Turns : lease'[t].retries >= lease[t].retries

\* A lease a run works under is freed only with the watch, or is broken.
StillHeld ==
  watched' => \A r \in Runs, t \in 1 .. Turns :
    AtWork(r, t)' /\ t \notin broken' /\ lease[t].wake => lease'[t].wake

LEMMA RetryKept ==
  ASSUME RetryInv, TypeOK', Calm, StillHeld
  PROVE  RetryInv'
<1>1. \A r \in Runs, t \in 1 .. Turns : AtWork(r, t)' => AtWork(r, t)
  BY DEF Calm, AtWork
<1>2. LeaseHeld'
  BY <1>1 DEF RetryInv, LeaseHeld, Calm, StillHeld
<1>3. OneRetryAtATime'
  BY <1>1 DEF RetryInv, OneRetryAtATime, Calm
<1>4. \A t \in 1 .. Turns : Used(t) \in Nat /\ Used(t)' \in Nat /\ Used(t)' >= Used(t)
  BY UsedNat, UsedNatNext DEF RetryInv, Calm, Used
<1>5. ASSUME NEW t \in 1 .. Turns, NEW k \in 0 .. MaxRecoveries,
             (<<t, k>> \in sent /\ t \notin broken)'
      PROVE  k <= Used(t)'
  <2>1. k <= Used(t)
    BY <1>5 DEF RetryInv, IdsGivenOut, Calm
  <2>2. k \in Nat
    BY ContinuationAssumption
  <2>3. QED
    BY <1>4, <2>1, <2>2
<1>6. ASSUME NEW r \in Runs, NEW t \in 1 .. Turns,
             (pc[r] = "healing" /\ snap[r].turn = t /\ t \notin broken)'
      PROVE  Used(t)' > 0 /\ \A k \in 0 .. MaxRecoveries : <<t, k>> \in sent' => k < Used(t)'
  <2>1. pc[r] = "healing" /\ snap[r].turn = t /\ t \notin broken
    BY <1>6 DEF Calm
  <2>2. Used(t) > 0 /\ \A k \in 0 .. MaxRecoveries : <<t, k>> \in sent => k < Used(t)
    BY <2>1 DEF RetryInv, ProbesAhead
  <2>3. \A k \in 0 .. MaxRecoveries : k \in Nat
    BY ContinuationAssumption
  <2>4. QED
    BY <1>4, <2>2, <2>3 DEF Calm
<1>7. QED
  BY <1>2, <1>3, <1>5, <1>6 DEF RetryInv, IdsGivenOut, ProbesAhead

LEMMA RetryEnvironment ==
  ASSUME RetryInv, TypeOK', Environment
  PROVE  RetryInv'
<1>1. TypeOK
  BY DEF RetryInv
<1> USE RetryKept, TouchedTyped, UsedNat
    DEF Calm, StillHeld, Apart, taskVars, workVars, runVars, Used
<1>2. CASE Arrives \/ Lost \/ Spawn \/ Heartbeat \/ Fails \/ Exits \/ Overdue
  BY <1>1, <1>2 DEF Arrives, Lost, Spawn, Heartbeat, Fails, Exits, Overdue
<1>3. CASE Claim \/ Passes \/ HandOn \/ Reconcile \/ Owner \/ Touch
  BY <1>1, <1>3 DEF Claim, Passes, HandOn, Reconcile, Owner, Touch
<1>4. CASE Crash
  BY <1>1, <1>4 DEF Crash
<1>5. ASSUME NEW t \in 1 .. Turns, WaitIsOver(t) PROVE RetryInv'
  BY <1>1, <1>5, WaitTyped DEF WaitIsOver
<1>6. QED
  BY <1>2, <1>3, <1>4, <1>5 DEF Environment

\* A run that looks and takes no lease.
LEMMA RetryLooks ==
  ASSUME RetryInv, TypeOK', NEW r \in Runs,
         Unwatch(r) \/ Progress(r) \/ BoundExhausted(r) \/ NotAtCursor(r) \/ CancelLive(r)
  PROVE  RetryInv'
<1>1. TypeOK
  BY DEF RetryInv
<1> USE RetryKept, UsedNat DEF Calm, taskVars, workVars, runVars, Used
<1>2. Sees(r) => turn \in 1 .. Turns
  BY <1>1, ActiveTurn DEF Sees
<1>3. CASE Unwatch(r)
  BY <1>1, <1>3 DEF Unwatch, StillHeld
<1>4. CASE Progress(r)
  <2>1. turn \in 1 .. Turns /\ Calm
    BY <1>1, <1>2, <1>4, ClearedTyped DEF Progress
  <2>2. ASSUME NEW q \in Runs, NEW t \in 1 .. Turns, AtWork(q, t)', t = turn
        PROVE  t \in broken'
    BY <1>4, <2>2 DEF Progress, AtWork
  <2>3. \A t \in 1 .. Turns \ {turn} : lease'[t] = lease[t]
    BY <1>1, <1>4, <2>1, ClearedTyped DEF Progress
  <2>4. StillHeld
    BY <2>2, <2>3 DEF StillHeld
  <2>5. QED
    BY <2>1, <2>4
<1>5. ASSUME turn \in 1 .. Turns, SafeStop(turn), snap' = Touched, pc' = pc PROVE RetryInv'
  <2>1. Calm
    <3>1. \A t \in 1 .. Turns : lease'[t].retries = lease[t].retries
      BY <1>1, <1>5, SafeStopTyped
    <3>2. \A t \in 1 .. Turns : lease'[t].retries >= lease[t].retries
      BY <1>1, <3>1
    <3>3. watched' = FALSE /\ UNCHANGED <<sent, broken>>
      BY <1>5 DEF SafeStop
    <3>4. \A q \in Runs : snap'[q].turn = snap[q].turn
      BY <1>1, <1>5, TouchedTyped
    <3>5. QED
      BY <1>5, <3>2, <3>3, <3>4
  <2>2. StillHeld
    BY <1>1, <1>5, SafeStopTyped DEF StillHeld
  <2>3. QED
    BY <2>1, <2>2
<1>6. CASE NotAtCursor(r)
  <2>1. turn \in 1 .. Turns
    BY <1>2, <1>6 DEF NotAtCursor
  <2>2. /\ lease'[turn].retries = lease[turn].retries + 1
        /\ \A q \in 1 .. Turns : lease'[q].wake = lease[q].wake
        /\ \A q \in 1 .. Turns \ {turn} : lease'[q] = lease[q]
    BY <1>1, <1>6, <2>1, SpentTyped DEF NotAtCursor, CanAcquire
  <2>3. \A t \in 1 .. Turns : lease'[t].retries >= lease[t].retries
    BY <1>1, <2>1, <2>2
  <2>4. QED
    BY <1>6, <2>2, <2>3 DEF NotAtCursor, StillHeld
<1>7. CASE CancelLive(r)
  <2>1. turn \in 1 .. Turns
    BY <1>2, <1>7 DEF CancelLive
  <2>2. CASE SafeStop(turn)
    <3>1. snap' = Touched /\ pc' = pc
      BY <1>7, <2>2 DEF CancelLive, SafeStop, Sees, Looks
    <3>2. QED
      BY <1>5, <2>1, <2>2, <3>1
  <2>3. CASE ~SafeStop(turn)
    <3>1. /\ \A q \in 1 .. Turns : lease'[q].retries = lease[q].retries /\ lease'[q].wake = lease[q].wake
          /\ UNCHANGED <<pc, snap, sent, broken, watched>>
      BY <1>1, <1>7, <2>1, <2>3, AskedTyped DEF CancelLive
    <3>2. Calm
      BY <1>1, <3>1
    <3>3. StillHeld
      BY <3>1 DEF StillHeld
    <3>4. QED
      BY <3>2, <3>3
  <2>4. QED
    BY <2>2, <2>3
<1>8. CASE BoundExhausted(r)
  BY <1>2, <1>5, <1>8 DEF BoundExhausted
<1>9. QED
  BY <1>3, <1>4, <1>6, <1>7, <1>8

\* A run takes the lease of a turn nobody is at work on, unless it is broken,
\* and the ids given out before stay below its count.
LEMMA RetryTaken ==
  ASSUME RetryInv, TypeOK', NEW r \in Runs, Sees(r), CanAcquire, lease' = Acquired,
         pc'[r] # "idle", snap'[r].turn = turn,
         \A q \in Runs \ {r} : pc'[q] = pc[q] /\ snap'[q] = snap[q],
         UNCHANGED <<watched, sent, broken>>
  PROVE  RetryInv'
<1>1. TypeOK /\ turn \in 1 .. Turns /\ watched
  BY ActiveTurn DEF RetryInv, Sees, Looks
<1> PICK u \in 1 .. Turns : u = turn
  BY <1>1
<1>2. /\ lease'[u].retries = lease[u].retries + 1 /\ lease'[u].wake
      /\ \A t \in 1 .. Turns \ {u} : lease'[t] = lease[t]
  BY <1>1, AcquiredTyped
<1>3. \A t \in 1 .. Turns : Used(t) \in Nat /\ Used(t)' \in Nat
  BY <1>1, UsedNat, UsedNatNext
<1>4. Used(u)' = Used(u) + 1 /\ \A t \in 1 .. Turns \ {u} : Used(t)' = Used(t)
  BY <1>2 DEF Used
<1>5. \A q \in Runs \ {r}, t \in 1 .. Turns : AtWork(q, t)' <=> AtWork(q, t)
  BY DEF AtWork
<1>6. \A t \in 1 .. Turns : AtWork(r, t)' => t = u
  BY DEF AtWork
<1>7. LeaseHeld'
  BY <1>1, <1>2, <1>5, <1>6 DEF RetryInv, LeaseHeld
<1>8. \A q \in Runs \ {r} : AtWork(q, u) => u \in broken
  BY <1>1 DEF RetryInv, LeaseHeld, CanAcquire
<1>9. OneRetryAtATime'
  BY <1>5, <1>6, <1>8 DEF RetryInv, OneRetryAtATime
<1>10. \A k \in 0 .. MaxRecoveries : k \in Nat
  BY ContinuationAssumption
<1>11. IdsGivenOut'
  BY <1>3, <1>4, <1>10 DEF RetryInv, IdsGivenOut
<1>12. ASSUME NEW q \in Runs, NEW t \in 1 .. Turns,
              (pc[q] = "healing" /\ snap[q].turn = t /\ t \notin broken)'
       PROVE  Used(t)' > 0 /\ \A k \in 0 .. MaxRecoveries : <<t, k>> \in sent' => k < Used(t)'
  <2>1. CASE t = u
    BY <1>3, <1>4, <1>10, <1>12, <2>1 DEF RetryInv, IdsGivenOut
  <2>2. CASE t # u
    <3>1. q # r
      BY <1>12, <2>2
    <3>2. QED
      BY <1>3, <1>4, <1>12, <2>2, <3>1 DEF RetryInv, ProbesAhead
  <2>3. QED
    BY <2>1, <2>2
<1>13. QED
  BY <1>7, <1>9, <1>11, <1>12 DEF RetryInv, ProbesAhead

LEMMA RetryLook ==
  ASSUME RetryInv, TypeOK', NEW r \in Runs, Look(r)
  PROVE  RetryInv'
<1>1. TypeOK
  BY DEF RetryInv
<1>2. CASE Replay(r)
  BY <1>1, <1>2, RetryTaken DEF Replay, OfTurn, TypeOK
<1>3. CASE Heal(r)
  BY <1>1, <1>3, RetryTaken DEF Heal, TypeOK
<1>4. QED
  BY <1>2, <1>3, RetryLooks DEF Look

\* What a run at its probes, or back from its emission, leaves of its lease.
LEMMA RetryReturns ==
  ASSUME RetryInv, TypeOK', NEW r \in Runs, pc[r] # "idle",
         pc' = [pc EXCEPT ![r] = "idle"],
         \A q \in Runs \ {r} : snap'[q].turn = snap[q].turn,
         UNCHANGED <<sent, broken>>, watched' => watched,
         \A t \in 1 .. Turns \ {snap[r].turn} : lease'[t] = lease[t],
         \/ lease'[snap[r].turn].retries = lease[snap[r].turn].retries
         \/ /\ pc[r] = "healing"
            /\ lease[snap[r].turn].retries > 0 =>
                 lease'[snap[r].turn].retries = lease[snap[r].turn].retries - 1
  PROVE  RetryInv'
<1>1. TypeOK
  BY DEF RetryInv
<1>2. PICK u \in 1 .. Turns : u = snap[r].turn
  BY <1>1, SnapOf
<1>3. \A t \in 1 .. Turns : Used(t) \in Nat /\ Used(t)' \in Nat
  BY <1>1, UsedNat, UsedNatNext
<1>4. /\ \A t \in 1 .. Turns \ {u} : Used(t)' = Used(t)
      /\ \/ Used(u)' = Used(u)
         \/ pc[r] = "healing" /\ (Used(u) > 0 => Used(u)' = Used(u) - 1)
  BY <1>2 DEF Used
<1>5. pc'[r] = "idle" /\ \A q \in Runs \ {r} : pc'[q] = pc[q]
  BY <1>1 DEF TypeOK
<1>6. \A q \in Runs, t \in 1 .. Turns : AtWork(q, t)' => q # r /\ AtWork(q, t)
  BY <1>5 DEF AtWork
<1>7. \A q \in Runs \ {r} : AtWork(q, u) => u \in broken
  BY <1>2 DEF RetryInv, OneRetryAtATime, AtWork
<1>8. OneRetryAtATime'
  BY <1>6 DEF RetryInv, OneRetryAtATime
<1>9. LeaseHeld'
  BY <1>2, <1>6, <1>7 DEF RetryInv, LeaseHeld
<1>10. \A k \in 0 .. MaxRecoveries : k \in Nat
  BY ContinuationAssumption
<1>11. ASSUME NEW t \in 1 .. Turns, NEW k \in 0 .. MaxRecoveries,
              <<t, k>> \in sent, t \notin broken
       PROVE  k <= Used(t)'
  <2>1. k <= Used(t)
    BY <1>11 DEF RetryInv, IdsGivenOut
  <2>2. CASE Used(t)' = Used(t)
    BY <2>1, <2>2
  <2>3. CASE Used(t)' # Used(t)
    <3>1. t = u /\ pc[r] = "healing" /\ (Used(u) > 0 => Used(u)' = Used(u) - 1)
      BY <1>4, <2>3
    <3>2. Used(u) > 0 /\ k < Used(u)
      BY <1>2, <1>11, <3>1 DEF RetryInv, ProbesAhead
    <3>3. QED
      BY <1>3, <1>10, <3>1, <3>2
  <2>4. QED
    BY <2>2, <2>3
<1>12. ASSUME NEW q \in Runs, NEW t \in 1 .. Turns,
              (pc[q] = "healing" /\ snap[q].turn = t /\ t \notin broken)'
       PROVE  Used(t)' > 0 /\ \A k \in 0 .. MaxRecoveries : <<t, k>> \in sent' => k < Used(t)'
  <2>1. q # r /\ pc[q] = "healing" /\ snap[q].turn = t /\ t \notin broken
    BY <1>5, <1>12
  <2>2. t # u
    BY <1>7, <2>1 DEF AtWork
  <2>3. Used(t)' = Used(t)
    BY <1>4, <2>2
  <2>4. QED
    BY <2>1, <2>3 DEF RetryInv, ProbesAhead
<1>13. QED
  BY <1>8, <1>9, <1>11, <1>12 DEF RetryInv, IdsGivenOut, ProbesAhead

\* The dispatch takes the id of the count it works under.
LEMMA RetryRedispatch ==
  ASSUME RetryInv, TypeOK', NEW r \in Runs, NEW a \in Agents, Redispatch(r, a)
  PROVE  RetryInv'
<1>1. TypeOK /\ pc[r] = "healing"
  BY DEF RetryInv, Redispatch, Selected
<1>2. PICK u \in 1 .. Turns : u = snap[r].turn
  BY <1>1, SnapOf
<1>3. /\ sent' = sent \cup {<<u, Used(u)>>}
      /\ UNCHANGED <<watched, lease, broken>>
      /\ pc' = [pc EXCEPT ![r] = "emitting"]
      /\ \A q \in Runs : snap'[q].turn = snap[q].turn
  <2>1. \A q \in Runs : [Touched EXCEPT ![r] = OfTurn(u)][q].turn = snap[q].turn
    BY <1>1, <1>2, TouchedTyped DEF OfTurn
  <2>2. QED
    BY <1>2, <2>1 DEF Redispatch, DispatchId, Used
<1>4. pc'[r] = "emitting" /\ \A q \in Runs \ {r} : pc'[q] = pc[q]
  BY <1>1, <1>3 DEF TypeOK
<1>5. \A q \in Runs, t \in 1 .. Turns : AtWork(q, t)' <=> AtWork(q, t)
  BY <1>1, <1>3, <1>4 DEF AtWork
<1>6. LeaseHeld' /\ OneRetryAtATime'
  BY <1>3, <1>5 DEF RetryInv, LeaseHeld, OneRetryAtATime
<1>7. \A t \in 1 .. Turns : Used(t)' = Used(t) /\ Used(t) \in Nat
  BY <1>1, <1>3, UsedNat DEF Used
<1>8. IdsGivenOut'
  BY <1>3, <1>7 DEF RetryInv, IdsGivenOut
<1>9. ASSUME NEW q \in Runs, NEW t \in 1 .. Turns,
             (pc[q] = "healing" /\ snap[q].turn = t /\ t \notin broken)'
      PROVE  Used(t)' > 0 /\ \A k \in 0 .. MaxRecoveries : <<t, k>> \in sent' => k < Used(t)'
  <2>1. q # r /\ pc[q] = "healing" /\ snap[q].turn = t /\ t \notin broken
    BY <1>3, <1>4, <1>9
  <2>2. t # u
    BY <1>1, <1>2, <2>1 DEF RetryInv, OneRetryAtATime, AtWork
  <2>3. QED
    BY <1>3, <1>7, <2>1, <2>2 DEF RetryInv, ProbesAhead
<1>10. QED
  BY <1>6, <1>8, <1>9 DEF RetryInv, ProbesAhead

LEMMA RetryRoute ==
  ASSUME RetryInv, TypeOK', NEW r \in Runs, Route(r) \/ Emitted(r) \/ ProbeThrows(r)
  PROVE  RetryInv'
<1>1. TypeOK
  BY DEF RetryInv
<1> DEFINE t == snap[r].turn
<1>2. t \in 1 .. Turns
  BY <1>1, SnapOf
<1>3. \A q \in Runs \ {r} : /\ [snap EXCEPT ![r] = NoSnap][q].turn = snap[q].turn
                            /\ [Touched EXCEPT ![r] = NoSnap][q].turn = snap[q].turn
  BY <1>1, TouchedTyped DEF TypeOK
<1> USE DEF Returns
<1>4. CASE WaitForCapacity(r)
  BY <1>1, <1>2, <1>3, <1>4, WaitingTyped, RetryReturns DEF WaitForCapacity
<1>5. CASE NobodyLeft(r)
  <2>1. /\ \A q \in 1 .. Turns \ {t} : lease'[q] = lease[q]
        /\ lease'[t].retries = lease[t].retries
    BY <1>1, <1>2, <1>5, ClearedTyped DEF NobodyLeft, SafeStop
  <2>2. QED
    BY <1>3, <1>5, <2>1, RetryReturns DEF NobodyLeft, SafeStop
<1>6. CASE StaleSelection(r)
  BY <1>1, <1>2, <1>3, <1>6, FreedTyped, RetryReturns DEF StaleSelection, Selected
<1>7. CASE Emitted(r)
  BY <1>1, <1>2, <1>3, <1>7, ClearedTyped, RetryReturns DEF Emitted
<1>8. CASE ProbeThrows(r)
  BY <1>3, <1>8, RetryReturns DEF ProbeThrows
<1>9. CASE \E a \in Agents : Redispatch(r, a)
  BY <1>9, RetryRedispatch
<1>10. QED
  BY <1>4, <1>5, <1>6, <1>7, <1>8, <1>9 DEF Route

LEMMA RetryNext == RetryInv /\ [Next]_vars => RetryInv'
<1> SUFFICES ASSUME RetryInv, [Next]_vars PROVE RetryInv'
  OBVIOUS
<1>1. TypeOK'
  BY TypeNext DEF RetryInv
<1>2. CASE UNCHANGED vars
  BY <1>1, <1>2 DEF RetryInv, LeaseHeld, IdsGivenOut, ProbesAhead, OneRetryAtATime, AtWork, Used,
    vars, taskVars, workVars, runVars
<1>3. CASE Environment
  BY <1>1, <1>3, RetryEnvironment
<1>4. ASSUME NEW r \in Runs, Look(r) \/ Route(r) \/ Emitted(r) \/ ProbeThrows(r) PROVE RetryInv'
  BY <1>1, <1>4, RetryLook, RetryRoute
<1>5. QED
  BY <1>2, <1>3, <1>4 DEF Next

LEMMA RetryHolds == Spec => []RetryInv
BY RetryInit, RetryNext, PTL DEF Spec

\* Runs of the watchdog that overlap never work on one turn together, unless a
\* CLI that started late looked like progress in between: acquireRecoveryLease
\* is asked in one synchronous stretch with the snapshot, and nobody else frees
\* the lease of a run that awaits its probes or its emission.
THEOREM RetriesTakeTurns == Spec => []OneRetryAtATime
<1>1. RetryInv => OneRetryAtATime
  BY DEF RetryInv
<1>2. QED
  BY <1>1, RetryHolds, PTL

\* No dispatch id comes out twice, however many retries are given back for want
\* of a Worker: the count a run probes under lies above every id given out.
THEOREM DispatchIdsStayNew == Spec => DispatchIdsAreNew
<1>1. ASSUME RetryInv, NEW r \in Runs, NEW a \in Agents, Redispatch(r, a),
             snap[r].turn \notin broken
      PROVE  DispatchId(r) \notin sent /\ lease[snap[r].turn].retries > 0
  <2>0. TypeOK
    BY <1>1 DEF RetryInv
  <2>1. PICK u \in 1 .. Turns : u = snap[r].turn
    BY <2>0, SnapOf
  <2>2. pc[r] = "healing"
    BY <1>1 DEF Redispatch, Selected
  <2>3. /\ Used(u) > 0
        /\ \A k \in 0 .. MaxRecoveries : <<u, k>> \in sent => k < Used(u)
    BY <1>1, <2>1, <2>2 DEF RetryInv, ProbesAhead
  <2>4. Used(u) \in 0 .. MaxRecoveries
    <3>1. lease[u] \in Leases
      BY <2>0, LeaseOf
    <3>2. QED
      BY <3>1 DEF Leases, Used
  <2>5. ~(Used(u) < Used(u))
    BY <2>4, ContinuationAssumption
  <2>6. <<u, Used(u)>> \notin sent
    BY <2>3, <2>4, <2>5
  <2>7. QED
    BY <2>1, <2>3, <2>6 DEF DispatchId, Used
<1>2. RetryInv => [\A r \in Runs, a \in Agents :
                     Redispatch(r, a) /\ snap[r].turn \notin broken =>
                       DispatchId(r) \notin sent /\ lease[snap[r].turn].retries > 0]_vars
  BY <1>1
<1>3. QED
  BY <1>2, RetryHolds, PTL DEF DispatchIdsAreNew

\* A Task that is closed stays so under every write of the watchdog, of the
\* Worker and of recovery, whatever a run that awaits its probes was about to
\* do: isCurrent and the status guards are asked after the last await.
THEOREM ClosedForGood == Spec => ClosedStaysClosed
<1>1. ASSUME TypeOK, [Next]_vars, status \in Terminal PROVE UNCHANGED status
  <2> USE DEF taskVars
  <2>1. CASE Environment
    BY <1>1, <2>1 DEF Environment, Arrives, Lost, Claim, Spawn, Heartbeat, Passes, Fails, HandOn,
      Exits, Reconcile, Owner, Touch, Crash, Overdue, WaitIsOver, Active
  <2>2. ASSUME NEW r \in Runs, Look(r) PROVE UNCHANGED status
    BY <1>1, <2>2 DEF Look, Unwatch, Progress, BoundExhausted, NotAtCursor, Replay, CancelLive,
      Heal, SafeStop
  <2>3. ASSUME NEW r \in Runs, Route(r) \/ Emitted(r) \/ ProbeThrows(r) PROVE UNCHANGED status
    BY <1>1, <2>3 DEF Route, WaitForCapacity, NobodyLeft, StaleSelection, Redispatch, IsCurrent,
      Emitted, ProbeThrows, SafeStop
  <2>4. CASE UNCHANGED vars
    BY <2>4 DEF vars
  <2>5. QED
    BY <1>1, <2>1, <2>2, <2>3, <2>4 DEF Next
<1>2. TypeOK /\ [Next]_vars => [(status \in Terminal) => UNCHANGED status]_vars
  BY <1>1
<1>3. QED
  BY <1>2, RecoveriesBounded, PTL DEF Spec, ClosedStaysClosed
=============================================================================
