-------------------------- MODULE RunBudgetProofs --------------------------
(***************************************************************************)
(* Four results about run budgets, for all budgets, activities, requests   *)
(* and processes.  ExhaustionIsFinal: expiry is final and rearms make a    *)
(* chain; that an exhausted run stays as it is takes the invariant that    *)
(* every run but the last is exhausted.  ProgressStands: the clock of a    *)
(* run never goes back.  ReplaysBuyNothing: every later credit of the tool *)
(* calls is paid for by one not credited before.  BudgetTypes: what a run  *)
(* remembers keeps its type.  Each from the invariant stated before it.    *)
(***************************************************************************)
EXTENDS RunBudget, FiniteSetTheorems, WellFoundedInduction, TLAPS

Chain ==
  /\ \E S : runs \in Seq(S)
  /\ Len(runs) >= 1
  /\ \A i \in 1 .. Len(runs) : i < Len(runs) => runs[i].status = "EXHAUSTED"

FinalStep ==
  \A i \in DOMAIN runs :
    /\ runs[i].status = "EXHAUSTED" => runs'[i] = runs[i]
    /\ i < Len(runs') => runs'[i].status = "EXHAUSTED"

LEMMA ChainInit == Init => Chain
<1> SUFFICES ASSUME Init PROVE Chain
  OBVIOUS
<1> DEFINE r == NewRun(Wall, NoProgress)
<1>1. runs = <<r>>
  BY DEF Init
<1> HIDE DEF r
<1>2. runs \in Seq({r}) /\ Len(runs) = 1
  BY <1>1
<1> QED BY <1>2 DEF Chain

\* Replacing the last run of a chain, when it is active, by another one.
LEMMA LastRunReplaced ==
  ASSUME Chain, Run.status = "ACTIVE", NEW r, runs' = [runs EXCEPT ![Len(runs)] = r]
  PROVE  Chain' /\ FinalStep
<1>1. PICK S : runs \in Seq(S)
  BY DEF Chain
<1>2. runs' \in Seq(S \cup {r}) /\ Len(runs') = Len(runs)
  BY <1>1 DEF Chain
<1>3. \A i \in 1 .. Len(runs) : i < Len(runs) => runs'[i] = runs[i]
  BY <1>1
<1>4. Chain'
  BY <1>2, <1>3 DEF Chain
<1>5. FinalStep
  <2> SUFFICES ASSUME NEW i \in DOMAIN runs
               PROVE  /\ runs[i].status = "EXHAUSTED" => runs'[i] = runs[i]
                      /\ i < Len(runs') => runs'[i].status = "EXHAUSTED"
    BY DEF FinalStep
  <2>1. i \in 1 .. Len(runs)
    BY <1>1
  <2>2. CASE i = Len(runs)
    BY <1>1, <1>2, <2>2 DEF Run
  <2>3. CASE i < Len(runs)
    BY <1>2, <1>3, <2>1, <2>3 DEF Chain
  <2> QED BY <1>1, <2>1, <2>2, <2>3
<1> QED BY <1>4, <1>5

\* A run appended to a chain that is exhausted throughout.
LEMMA RunAppended ==
  ASSUME Chain, Run.status = "EXHAUSTED", NEW r, runs' = Append(runs, r)
  PROVE  Chain' /\ FinalStep
<1>1. PICK S : runs \in Seq(S)
  BY DEF Chain
<1>2. /\ runs \in Seq(S \cup {r})
      /\ runs' \in Seq(S \cup {r}) /\ Len(runs') = Len(runs) + 1
      /\ \A i \in 1 .. Len(runs) : runs'[i] = runs[i]
  BY <1>1
<1>3. \A i \in 1 .. Len(runs) : runs[i].status = "EXHAUSTED"
  BY <1>1 DEF Chain, Run
<1>4. Chain'
  BY <1>1, <1>2, <1>3 DEF Chain
<1>5. FinalStep
  BY <1>1, <1>2, <1>3 DEF Chain, FinalStep
<1> QED BY <1>4, <1>5

LEMMA RunsUnchanged ==
  ASSUME Chain, UNCHANGED runs
  PROVE  Chain' /\ FinalStep
<1>1. PICK S : runs \in Seq(S)
  BY DEF Chain
<1> QED BY <1>1 DEF Chain, FinalStep

LEMMA ChainStep == Chain /\ [Next]_vars => Chain' /\ FinalStep
<1> SUFFICES ASSUME Chain, [Next]_vars PROVE Chain' /\ FinalStep
  OBVIOUS
<1>1. ASSUME Evaluate PROVE Chain' /\ FinalStep
  <2>1. /\ Run.status = "ACTIVE"
        /\ \E r : runs' = [runs EXCEPT ![Len(runs)] = r]
    BY <1>1 DEF Evaluate
  <2> QED BY <2>1, LastRunReplaced
<1>2. ASSUME NEW q \in Requests, NEW p \in DOMAIN runs, Rearm(q, p)
      PROVE  Chain' /\ FinalStep
  <2>1. Run.status = "EXHAUSTED" /\ \E r : runs' = Append(runs, r)
    BY <1>2 DEF Rearm, Rearmable
  <2> QED BY <2>1, RunAppended
<1>3. ASSUME \/ Tick \/ StartProcess \/ Output \/ ExitWithResult
             \/ EndUnreported \/ Emit \/ Edit \/ Reassign \/ UNCHANGED vars
      PROVE  Chain' /\ FinalStep
  <2>1. UNCHANGED runs
    BY <1>3 DEF Tick, StartProcess, Output, ExitWithResult, EndUnreported, Emit,
                Edit, Reassign, vars, worker
  <2> QED BY <2>1, RunsUnchanged
<1> QED BY <1>1, <1>2, <1>3 DEF Next

\* An exhausted run is never touched again and never revived, and of competing
\* or repeated rearm requests for it at most one makes a successor.
THEOREM ExhaustionIsFinal == Spec => ExhaustedForGood
<1>1. Init => Chain
  BY ChainInit
<1>2. Chain /\ [Next]_vars => Chain' /\ [FinalStep]_vars
  BY ChainStep
<1>3. [FinalStep]_vars <=>
        [\A i \in DOMAIN runs :
           /\ runs[i].status = "EXHAUSTED" => runs'[i] = runs[i]
           /\ i < Len(runs') => runs'[i].status = "EXHAUSTED"]_vars
  BY DEF FinalStep
<1> QED BY <1>1, <1>2, <1>3, PTL DEF Spec, ExhaustedForGood

-----------------------------------------------------------------------------
(***************************************************************************)
(* Credited progress stands.  evaluate compares the signals of the moment   *)
(* with nothing but the fingerprint credited last, so the clock is safe    *)
(* only while some signal is as new as the clock: that is the invariant.   *)
(* It holds because a heartbeat, the one signal that vanishes, is relieved *)
(* by the RESULT of its process, unless that is dropped.                   *)
(***************************************************************************)
Kinds == {"START", "EVENT", "PROCESS_START", "PROCESS_HEARTBEAT", "PRODUCT_DIFF", "ACTIVITY"}
Whats == {"", "unset"} \cup Digests \cup Activities
Prints == [kind : Kinds, id : Nat, what : Whats, at : Nat]
RunType ==
  [started : Nat, deadline : Nat, quiet : Nat, last : Nat, fp : Prints,
   status : {"ACTIVE", "EXHAUSTED"}, by : {"none", "WALL_CLOCK", "NO_PROGRESS"},
   diff : Whats, diffAt : Nat, seen : SUBSET (Nat \X Activities), actAt : Nat,
   act : Whats]
ProcType == [id : Nat, status : {"none", "RUNNING", "ENDED"}, started : Nat, seen : Nat]

TimesInv ==
  /\ runs \in Seq(RunType) /\ Len(runs) >= 1 /\ proc \in ProcType
  /\ now \in Nat /\ now >= 1 /\ event \in 0 .. now /\ tree \in Digests
  /\ log \in [Activities -> 0 .. now]
  /\ proc.started <= proc.seen /\ proc.seen <= now
  /\ Run.started \in 1 .. now /\ Run.last \in Run.started .. now
  /\ Run.diffAt <= now /\ Run.actAt <= now

\* A tool call not credited yet is no older than those that were.
FreshIsNewer ==
  Owned => \A a \in Activities :
             log[a] >= Run.started /\ <<proc.id, a>> \notin Run.seen => log[a] >= Run.actAt

Heartbeat == IF Running /\ heartbeats THEN proc.seen ELSE 0

\* Some signal is as new as the clock.
SupportedBy(r) ==
  \/ r.last = r.started \/ r.last <= event \/ r.last <= proc.started
  \/ r.last <= Heartbeat \/ r.last <= r.diffAt \/ r.last <= r.actAt

Supported == Run.status = "ACTIVE" /\ ~dropped => SupportedBy(Run)

ClockInv == TimesInv /\ FreshIsNewer /\ Supported

\* The newest signal is one of the five and none is newer.
LEMMA NewestSignal ==
  ASSUME NEW r \in RunType, proc \in ProcType, event \in Nat
  PROVE  /\ Newest(r).at \in Nat /\ Newest(r).fp \in Prints
         /\ Newest(r).at \in {event, proc.started, Heartbeat, r.diffAt, r.actAt}
         /\ Newest(r).at >= event /\ Newest(r).at >= proc.started
         /\ Newest(r).at >= Heartbeat /\ Newest(r).at >= r.diffAt
         /\ Newest(r).at >= r.actAt
<1> DEFINE e == [rank |-> 1, at |-> event, fp |-> Fingerprint("EVENT", 0, "", event)]
           s == [rank |-> 2, at |-> proc.started,
                 fp |-> Fingerprint("PROCESS_START", proc.id, "", 0)]
           h == [rank |-> 3, at |-> Heartbeat,
                 fp |-> Fingerprint("PROCESS_HEARTBEAT", proc.id, "", proc.seen)]
           d == [rank |-> 4, at |-> r.diffAt,
                 fp |-> Fingerprint("PRODUCT_DIFF", proc.id, r.diff, 0)]
           a == [rank |-> 5, at |-> r.actAt,
                 fp |-> Fingerprint("ACTIVITY", 0, r.act, r.actAt)]
<1>9. /\ proc.id \in Nat /\ proc.started \in Nat /\ proc.seen \in Nat
      /\ r.diffAt \in Nat /\ r.actAt \in Nat
  BY DEF ProcType, RunType
<1>8. r.diff \in Whats /\ r.act \in Whats
  BY DEF RunType
<1>1. Signals(r) = {e, s, h, d, a}
  BY DEF Signals, Heartbeat
<1>2. /\ e.at = event /\ s.at = proc.started /\ h.at = Heartbeat
      /\ d.at = r.diffAt /\ a.at = r.actAt
      /\ e.rank = 1 /\ s.rank = 2 /\ h.rank = 3 /\ d.rank = 4 /\ a.rank = 5
  OBVIOUS
<1>3. /\ e.at \in Nat /\ s.at \in Nat /\ h.at \in Nat /\ d.at \in Nat /\ a.at \in Nat
  <2>1. Heartbeat \in {proc.seen, 0}
    BY Zenon DEF Heartbeat
  <2>2. Heartbeat \in Nat
    BY <1>9, <2>1
  <2> QED BY <1>9, <1>2, <2>2
<1>4. /\ e.fp \in Prints /\ s.fp \in Prints /\ h.fp \in Prints
      /\ d.fp \in Prints /\ a.fp \in Prints
  <2>1. \A k \in Kinds, i \in Nat, w \in Whats, t \in Nat :
          Fingerprint(k, i, w, t) \in Prints
    BY DEF Fingerprint, Prints
  <2>2. /\ e.fp = Fingerprint("EVENT", 0, "", event)
        /\ s.fp = Fingerprint("PROCESS_START", proc.id, "", 0)
        /\ h.fp = Fingerprint("PROCESS_HEARTBEAT", proc.id, "", proc.seen)
        /\ d.fp = Fingerprint("PRODUCT_DIFF", proc.id, r.diff, 0)
        /\ a.fp = Fingerprint("ACTIVITY", 0, r.act, r.actAt)
    OBVIOUS
  <2>3. r.diff \in Whats /\ r.act \in Whats /\ "" \in Whats
    BY <1>8 DEF Whats
  <2>4. e.fp \in Prints
    BY <2>1, <2>2, <2>3 DEF Kinds
  <2>5. s.fp \in Prints
    BY <1>9, <2>1, <2>2, <2>3 DEF Kinds
  <2>6. h.fp \in Prints
    BY <1>9, <2>1, <2>2, <2>3 DEF Kinds
  <2>7. d.fp \in Prints
    BY <1>9, <2>1, <2>2, <2>3 DEF Kinds
  <2>8. a.fp \in Prints
    BY <1>9, <2>1, <2>2, <2>3 DEF Kinds
  <2> QED BY <2>4, <2>5, <2>6, <2>7, <2>8
<1> HIDE DEF e, s, h, d, a
<1>5. \E c \in {e, s, h, d, a} : \A x \in {e, s, h, d, a} : Newer(c, x)
  <2>1. PICK c1 \in {e, s} : Newer(c1, e) /\ Newer(c1, s)
    BY <1>2, <1>3 DEF Newer
  <2>2. PICK c2 \in {c1, h} : Newer(c2, c1) /\ Newer(c2, h)
    BY <1>2, <1>3 DEF Newer
  <2>3. PICK c3 \in {c2, d} : Newer(c3, c2) /\ Newer(c3, d)
    BY <1>2, <1>3 DEF Newer
  <2>4. PICK c4 \in {c3, a} : Newer(c4, c3) /\ Newer(c4, a)
    BY <1>2, <1>3 DEF Newer
  <2>5. \A x, y, z \in {e, s, h, d, a} : Newer(x, y) /\ Newer(y, z) => Newer(x, z)
    BY <1>2, <1>3 DEF Newer
  <2> QED BY <2>1, <2>2, <2>3, <2>4, <2>5
<1>6. /\ Newest(r) \in {e, s, h, d, a}
      /\ \A x \in {e, s, h, d, a} : Newer(Newest(r), x)
  BY <1>1, <1>5 DEF Newest
<1>7. \A x \in {e, s, h, d, a} : Newest(r).at >= x.at
  BY <1>2, <1>3, <1>6 DEF Newer
<1> QED BY <1>2, <1>3, <1>4, <1>6, <1>7

\* Among calls whose times are bounded one is the latest.
LEMMA LatestCall ==
  ASSUME now \in Nat, log \in [Activities -> 0 .. now],
         NEW A \in SUBSET Activities, A # {}
  PROVE  Latest(A) \in A /\ \A b \in A : log[b] <= log[Latest(A)]
<1> DEFINE R == OpToRel(<, Nat)
           T == {now - log[a] : a \in A}
<1>1. IsWellFoundedOn(R, Nat)
  BY NatLessThanWellFounded
<1>2. \A x, y \in Nat : x < y => <<x, y>> \in R
  BY DEF OpToRel
<1>3. T \subseteq Nat /\ T # {}
  OBVIOUS
<1> HIDE DEF R
<1>4. PICK x \in T : \A y \in T : ~(<<y, x>> \in R)
  <2> HIDE DEF T
  <2> QED BY <1>1, <1>3, WFMin
<1>5. PICK a \in A : x = now - log[a]
  BY <1>4
<1>6. \A b \in A : log[b] <= log[a]
  <2> SUFFICES ASSUME NEW b \in A PROVE log[b] <= log[a]
    OBVIOUS
  <2>1. ~(now - log[b] < now - log[a])
    BY <1>2, <1>3, <1>4, <1>5
  <2> QED BY <2>1
<1> QED BY <1>6 DEF Latest

\* What evaluate heard only ever adds to the signals of the run.
LEMMA HeardAddsSignals ==
  ASSUME ClockInv, NEW heard, heard = WithActivity(WithDiff(Run))
  PROVE  /\ heard \in RunType
         /\ heard.last = Run.last /\ heard.started = Run.started
         /\ heard.diffAt >= Run.diffAt /\ heard.diffAt <= now
         /\ heard.actAt >= Run.actAt /\ heard.actAt <= now
         /\ Owned => Logged(heard) \subseteq {a \in Activities : <<proc.id, a>> \in heard.seen}
<1> DEFINE r == WithDiff(Run)
<1>0. Run \in RunType
  BY DEF ClockInv, TimesInv, Run
<1>4. /\ now \in Nat /\ Run.diffAt \in Nat /\ Run.diffAt <= now
      /\ Run.actAt \in Nat /\ Run.actAt <= now /\ Run.last \in Nat /\ Run.started \in Nat
  BY <1>0 DEF ClockInv, TimesInv, RunType
<1>5. tree \in Whats
  BY DEF ClockInv, TimesInv, Whats
<1>1. /\ r \in RunType
      /\ r.last = Run.last /\ r.started = Run.started /\ r.actAt = Run.actAt
      /\ r.seen = Run.seen /\ r.diffAt >= Run.diffAt /\ r.diffAt <= now
  <2>1. CASE ~Running \/ Run.diff = tree
    <3>1. r = Run
      BY <2>1 DEF WithDiff
    <3> QED BY <1>0, <1>4, <3>1
  <2>2. CASE ~(~Running \/ Run.diff = tree)
    <3>1. r = [Run EXCEPT !.diff = tree, !.diffAt = IF Run.diff = "unset" THEN @ ELSE now]
      BY <2>2 DEF WithDiff
    <3> HIDE DEF r
    <3> DEFINE t == IF Run.diff = "unset" THEN Run.diffAt ELSE now
    <3>2. t \in Nat /\ t >= Run.diffAt /\ t <= now
      BY <1>4
    <3>3. r = [Run EXCEPT !.diff = tree, !.diffAt = t]
      BY <1>0, <3>1 DEF RunType
    <3> HIDE DEF t
    <3>4. /\ r \in RunType /\ r.last = Run.last /\ r.started = Run.started
          /\ r.actAt = Run.actAt /\ r.seen = Run.seen /\ r.diffAt = t
      BY <1>0, <1>5, <3>2, <3>3 DEF RunType
    <3> QED BY <3>2, <3>4
  <2> QED BY <2>1, <2>2
<1> DEFINE fresh == {a \in Logged(r) : <<proc.id, a>> \notin r.seen}
<1> HIDE DEF r
<1>2. CASE ~Owned \/ fresh = {}
  <2>1. heard = r
    BY <1>2 DEF WithActivity, r
  <2>2. Owned => Logged(r) \subseteq {a \in Activities : <<proc.id, a>> \in r.seen}
    BY <1>2 DEF Logged
  <2> QED BY <1>1, <1>4, <2>1, <2>2
<1>3. CASE ~(~Owned \/ fresh = {})
  <2>1. heard = [r EXCEPT !.seen = @ \cup ({proc.id} \X fresh),
                          !.actAt = log[Latest(fresh)], !.act = Latest(fresh)]
    BY <1>3 DEF WithActivity, r
  <2>2. fresh \subseteq Activities /\ fresh # {}
    BY <1>3 DEF Logged
  <2>3. Latest(fresh) \in fresh
    BY <2>2, LatestCall DEF ClockInv, TimesInv
  <2>4. log[Latest(fresh)] \in 0 .. now /\ log[Latest(fresh)] >= Run.actAt
    BY <1>1, <1>3, <2>2, <2>3 DEF ClockInv, TimesInv, FreshIsNewer, Logged
  <2>5. {proc.id} \X fresh \subseteq Nat \X Activities
    BY <2>2 DEF ClockInv, TimesInv, ProcType
  <2> DEFINE w == Latest(fresh)
             t == log[w]
             more == {proc.id} \X fresh
  <2>11. w \in Whats
    BY <2>2, <2>3 DEF Whats
  <2>6. t \in Nat /\ t <= now /\ t >= Run.actAt /\ more \subseteq Nat \X Activities
    BY <2>2, <2>3, <2>4, <2>5 DEF ClockInv, TimesInv
  <2>7. \A a \in fresh : <<proc.id, a>> \in more
    OBVIOUS
  <2> HIDE DEF w, t, more
  <2>8. heard = [r EXCEPT !.seen = @ \cup more, !.actAt = t, !.act = w]
    BY <2>1 DEF w, t, more
  <2>9. /\ heard \in RunType
        /\ heard.last = r.last /\ heard.started = r.started /\ heard.diffAt = r.diffAt
        /\ heard.actAt = t /\ heard.seen = r.seen \cup more
    BY ZenonT(30), <1>1, <2>6, <2>8, <2>11 DEF RunType
  <2>10. Logged(heard) \subseteq {a \in Activities : <<proc.id, a>> \in heard.seen}
    BY <2>7, <2>9 DEF Logged
  <2> QED BY <1>1, <2>6, <2>9, <2>10
<1> QED BY <1>2, <1>3

\* Crediting moves the clock forward, as long as a signal supports it.
LEMMA CreditMovesForward ==
  ASSUME ClockInv, Run.status = "ACTIVE",
         NEW heard, heard = WithActivity(WithDiff(Run)), NEW r, r = Credited(heard)
  PROVE  /\ r \in RunType /\ r.started = Run.started /\ r.last \in r.started .. now
         /\ r.diffAt <= now /\ r.actAt <= now
         /\ r.seen = heard.seen
         /\ ~dropped => r.last >= Run.last /\ SupportedBy(r)
<1>1. /\ heard \in RunType
      /\ heard.last = Run.last /\ heard.started = Run.started
      /\ heard.diffAt >= Run.diffAt /\ heard.diffAt <= now
      /\ heard.actAt >= Run.actAt /\ heard.actAt <= now
  BY HeardAddsSignals
<1>2. /\ now \in Nat /\ Run.last \in Run.started .. now /\ Run.started \in Nat
      /\ event \in Nat /\ event <= now /\ proc.started \in Nat /\ proc.started <= now
      /\ proc.seen \in Nat /\ proc.seen <= now
      /\ Run.diffAt \in Nat /\ Run.actAt \in Nat
  <2>1. Run \in RunType
    BY DEF ClockInv, TimesInv, Run
  <2>2. Run.diffAt \in Nat /\ Run.actAt \in Nat
    BY <2>1 DEF RunType
  <2>3. proc.started \in Nat /\ proc.seen \in Nat
    BY DEF ClockInv, TimesInv, ProcType
  <2> QED BY <2>2, <2>3 DEF ClockInv, TimesInv
<1>3. Heartbeat \in Nat /\ Heartbeat <= now
  <2>1. Heartbeat \in {proc.seen, 0}
    BY Zenon DEF Heartbeat
  <2> QED BY <1>2, <2>1
<1>4. /\ heard.diffAt \in Nat /\ heard.actAt \in Nat /\ heard.last \in Nat
  BY <1>1 DEF RunType
<1> DEFINE c == Newest(heard)
<1>5. /\ c.at \in Nat /\ c.fp \in Prints
      /\ c.at \in {event, proc.started, Heartbeat, heard.diffAt, heard.actAt}
      /\ c.at >= event /\ c.at >= proc.started /\ c.at >= Heartbeat
      /\ c.at >= heard.diffAt /\ c.at >= heard.actAt
  BY <1>1, <1>2, NewestSignal DEF ClockInv, TimesInv
<1>6. ~dropped => SupportedBy(Run)
  BY DEF ClockInv, Supported
<1>7. CASE c.fp = heard.fp \/ c.at < heard.started
  <2>1. r = heard
    BY <1>7 DEF Credited
  <2>2. SupportedBy(Run) => SupportedBy(heard)
    BY <1>1, <1>2, <1>3, <1>4 DEF SupportedBy
  <2> QED BY <1>1, <1>2, <1>6, <2>1, <2>2
<1>8. CASE ~(c.fp = heard.fp \/ c.at < heard.started)
  <2>1. r = [heard EXCEPT !.last = c.at, !.fp = c.fp]
    BY <1>8 DEF Credited
  <2> HIDE DEF c
  <2>2. /\ r \in RunType /\ r.started = heard.started /\ r.last = c.at
        /\ r.diffAt = heard.diffAt /\ r.actAt = heard.actAt /\ r.seen = heard.seen
    BY <1>1, <1>5, <2>1 DEF RunType
  <2>3. c.at <= now
    BY <1>1, <1>2, <1>3, <1>5
  <2>4. c.at >= heard.started
    BY <1>1, <1>2, <1>5, <1>8
  <2>5. SupportedBy(r)
    BY <1>5, <2>2 DEF SupportedBy
  <2>6. SupportedBy(Run) => c.at >= Run.last
    BY <1>1, <1>2, <1>3, <1>4, <1>5, <2>4 DEF SupportedBy
  <2> QED BY <1>1, <1>2, <1>5, <1>6, <2>2, <2>3, <2>4, <2>5, <2>6
<1> QED BY <1>7, <1>8

ClockStep == Len(runs') = Len(runs) => Run'.last >= Run.last \/ dropped

LEMMA EvaluateKeepsClock == ClockInv /\ Evaluate => ClockInv' /\ ClockStep
<1> SUFFICES ASSUME ClockInv, Evaluate PROVE ClockInv' /\ ClockStep
  OBVIOUS
<1> DEFINE heard == WithActivity(WithDiff(Run))
           r == Credited(heard)
           n == [r EXCEPT !.by = ExpiredBy(r),
                          !.status = IF ExpiredBy(r) = "none" THEN "ACTIVE" ELSE "EXHAUSTED"]
<1>1. /\ Run.status = "ACTIVE" /\ runs' = [runs EXCEPT ![Len(runs)] = n]
      /\ \/ proc' = proc
         \/ Running /\ ExpiredBy(r) # "none" /\ proc' = [proc EXCEPT !.status = "ENDED"]
      /\ UNCHANGED <<now, worker>>
  BY DEF Evaluate
<1>2. /\ r \in RunType /\ r.started = Run.started /\ r.last \in r.started .. now
      /\ r.diffAt <= now /\ r.actAt <= now /\ r.seen = heard.seen
      /\ ~dropped => r.last >= Run.last /\ SupportedBy(r)
  BY <1>1, CreditMovesForward
<1>3. Owned => Logged(heard) \subseteq {a \in Activities : <<proc.id, a>> \in heard.seen}
  BY HeardAddsSignals
<1>4. heard.started = Run.started
  BY HeardAddsSignals
<1>5. ExpiredBy(r) \in {"none", "WALL_CLOCK", "NO_PROGRESS"}
  BY DEF ExpiredBy
<1> HIDE DEF r, heard
<1>6. /\ n \in RunType /\ n.started = r.started /\ n.last = r.last /\ n.diffAt = r.diffAt
      /\ n.actAt = r.actAt /\ n.seen = r.seen
      /\ n.status = "ACTIVE" => ExpiredBy(r) = "none"
  BY <1>2, <1>5 DEF RunType
<1> HIDE DEF n
<1>7. Run' = n /\ Len(runs') = Len(runs) /\ runs' \in Seq(RunType)
  BY <1>1, <1>6 DEF ClockInv, TimesInv, Run
<1>8. /\ proc' \in ProcType /\ proc'.started = proc.started /\ proc'.seen = proc.seen
      /\ proc'.id = proc.id
      /\ proc' = proc \/ proc'.status = "ENDED"
  BY <1>1 DEF ClockInv, TimesInv, ProcType
<1>9. TimesInv'
  BY <1>1, <1>2, <1>6, <1>7, <1>8 DEF ClockInv, TimesInv, worker
<1>10. FreshIsNewer'
  <2> SUFFICES ASSUME Owned', NEW a \in Activities, log[a] >= Run.started,
                      <<proc.id, a>> \notin n.seen
               PROVE  FALSE
    BY <1>1, <1>6, <1>7, <1>8, <1>2 DEF FreshIsNewer, worker
  <2>1. Owned
    BY <1>1, <1>8 DEF Owned, Running, worker
  <2> QED BY <1>2, <1>3, <1>4, <1>6, <2>1 DEF Logged
<1>11. Supported'
  <2> SUFFICES ASSUME n.status = "ACTIVE", ~dropped PROVE SupportedBy(Run)'
    BY <1>1, <1>7 DEF Supported, worker
  <2>1. proc' = proc
    BY <1>1, <1>6
  <2>2. event' = event /\ Heartbeat' = Heartbeat
    BY <1>1, <2>1 DEF Heartbeat, Running, worker
  <2>3. SupportedBy(n)
    BY <1>2, <1>6 DEF SupportedBy
  <2>4. /\ Run'.last = n.last /\ Run'.started = n.started
        /\ Run'.diffAt = n.diffAt /\ Run'.actAt = n.actAt
    BY <1>7
  <2> QED BY <2>1, <2>2, <2>3, <2>4 DEF SupportedBy
<1>12. ClockStep
  BY <1>2, <1>6, <1>7 DEF ClockStep
<1> QED BY <1>9, <1>10, <1>11, <1>12 DEF ClockInv

LEMMA RearmKeepsClock ==
  ClockInv /\ (\E q \in Requests, p \in DOMAIN runs : Rearm(q, p)) => ClockInv' /\ ClockStep
<1> SUFFICES ASSUME ClockInv, NEW q \in Requests, NEW p \in DOMAIN runs, Rearm(q, p)
             PROVE  ClockInv' /\ ClockStep
  OBVIOUS
<1>1. PICK wall \in 1 .. Wall, quiet \in 1 .. NoProgress : runs' = Append(runs, NewRun(wall, quiet))
  BY DEF Rearm
<1>2. UNCHANGED <<now, proc, worker>>
  BY DEF Rearm
<1> DEFINE n == NewRun(wall, quiet)
<1>3. /\ n \in RunType /\ n.started = now /\ n.last = now /\ n.diffAt = 0 /\ n.actAt = 0
  <2> DEFINE print == Fingerprint("START", 0, "", 0)
             empty == ""
             unset == "unset"
             none == {}
  <2>1. print \in Prints /\ empty \in Whats /\ unset \in Whats
    BY DEF Fingerprint, Prints, Kinds, Whats
  <2>2. now \in Nat /\ wall \in Nat /\ quiet \in Nat
    BY BudgetAssumption DEF ClockInv, TimesInv
  <2>3. none \in SUBSET (Nat \X Activities)
    OBVIOUS
  <2>4. n = [started |-> now, deadline |-> now + wall, quiet |-> quiet, last |-> now,
             fp |-> print, status |-> "ACTIVE", by |-> "none",
             diff |-> unset, diffAt |-> 0, seen |-> none, actAt |-> 0, act |-> empty]
    BY DEF NewRun
  <2> HIDE DEF n, print, empty, unset, none
  <2> QED BY <2>1, <2>2, <2>3, <2>4 DEF RunType
<1>4. runs' = Append(runs, n)
  BY <1>1
<1> HIDE DEF n
<1>5. Run' = n /\ Len(runs') = Len(runs) + 1 /\ runs' \in Seq(RunType)
  BY <1>3, <1>4 DEF ClockInv, TimesInv, Run
<1>6. TimesInv'
  BY <1>2, <1>3, <1>5 DEF ClockInv, TimesInv, worker
<1>7. FreshIsNewer'
  BY <1>2, <1>3, <1>5 DEF ClockInv, TimesInv, FreshIsNewer, worker
<1>8. Supported'
  BY <1>3, <1>5 DEF Supported, SupportedBy
<1>9. ClockStep
  BY <1>5 DEF ClockInv, TimesInv, ClockStep
<1> QED BY <1>6, <1>7, <1>8, <1>9 DEF ClockInv

\* The steps between two evaluations leave the clock alone and support it.
LEMMA WorkKeepsClock ==
  ASSUME ClockInv,
         \/ Tick \/ StartProcess \/ Output \/ ExitWithResult
         \/ EndUnreported \/ Emit \/ Edit \/ Reassign \/ UNCHANGED vars
  PROVE  ClockInv' /\ ClockStep
<1> DEFINE OldRun == UNCHANGED runs /\ Run' = Run
<1>1. OldRun
  BY DEF Tick, StartProcess, Output, ExitWithResult, EndUnreported, Emit, Edit, Reassign,
         vars, worker, Run
<1>2. /\ Run.last \in Nat /\ Run.last <= now /\ Run.last >= Run.started /\ now \in Nat
      /\ Run.started \in Nat /\ Run.started >= 1 /\ Run.started <= now
      /\ Run.diffAt \in Nat /\ Run.actAt \in Nat /\ Run.diffAt <= now /\ Run.actAt <= now
      /\ event \in Nat /\ event <= now
      /\ proc.started \in Nat /\ proc.seen \in Nat /\ proc.id \in Nat
      /\ proc.started <= proc.seen /\ proc.seen <= now
  <2>1. Run \in RunType
    BY DEF ClockInv, TimesInv, Run
  <2>2. Run.diffAt \in Nat /\ Run.actAt \in Nat
    BY <2>1 DEF RunType
  <2>3. proc.started \in Nat /\ proc.seen \in Nat /\ proc.id \in Nat
    BY DEF ClockInv, TimesInv, ProcType
  <2> QED BY <2>2, <2>3 DEF ClockInv, TimesInv
<1>3. ClockStep
  BY <1>1, <1>2 DEF ClockStep
<1>4. CASE Tick
  <2>1. TimesInv'
    BY <1>1, <1>2, <1>4 DEF ClockInv, TimesInv, Tick, worker
  <2>2. FreshIsNewer'
    BY <1>1, <1>4 DEF ClockInv, FreshIsNewer, Tick, worker, Owned, Running
  <2>3. Supported'
    BY <1>1, <1>4 DEF ClockInv, Supported, SupportedBy, Heartbeat, Tick, worker, Running
  <2> QED BY <1>3, <2>1, <2>2, <2>3 DEF ClockInv
<1>5. CASE StartProcess
  <2>1. TimesInv'
    <3>0. /\ proc' = [id |-> proc.id + 1, status |-> "RUNNING", started |-> now, seen |-> now]
          /\ log' = [a \in Activities |-> 0]
      BY <1>5 DEF StartProcess, NoCalls
    <3>1. /\ proc' \in ProcType /\ proc'.started = now /\ proc'.seen = now
      BY <1>2, <3>0 DEF ProcType
    <3>2. log' \in [Activities -> 0 .. now]
      BY <1>2, <3>0
    <3>3. UNCHANGED <<now, event, tree>>
      BY <1>5 DEF StartProcess
    <3> QED BY <1>1, <1>2, <3>1, <3>2, <3>3 DEF ClockInv, TimesInv
  <2>2. FreshIsNewer'
    <3>1. \A a \in Activities : log'[a] = 0
      BY <1>5 DEF StartProcess, NoCalls
    <3> QED BY <1>1, <1>2, <3>1 DEF FreshIsNewer
  <2>3. Supported'
    BY <1>1, <1>2, <1>5 DEF Supported, SupportedBy, StartProcess
  <2> QED BY <1>3, <2>1, <2>2, <2>3 DEF ClockInv
<1>6. CASE Output
  <2>1. TimesInv'
    BY SMTT(20), <1>1, <1>2, <1>6 DEF ClockInv, TimesInv, ProcType, Output
  <2>2. FreshIsNewer'
    BY <1>1, <1>2, <1>6 DEF ClockInv, TimesInv, ProcType, FreshIsNewer, Output, Owned, Running
  <2>3. Supported'
    BY <1>1, <1>2, <1>6
    DEF ClockInv, Supported, SupportedBy, Heartbeat, TimesInv, ProcType, Output, Running
  <2> QED BY <1>3, <2>1, <2>2, <2>3 DEF ClockInv
<1>7. CASE ExitWithResult
  <2>1. TimesInv'
    BY <1>1, <1>2, <1>7 DEF ClockInv, TimesInv, ProcType, ExitWithResult
  <2>2. FreshIsNewer'
    BY <1>1, <1>7 DEF ClockInv, TimesInv, ProcType, FreshIsNewer, ExitWithResult, Owned, Running
  <2>3. Supported'
    BY <1>1, <1>2, <1>7 DEF Supported, SupportedBy, ExitWithResult
  <2> QED BY <1>3, <2>1, <2>2, <2>3 DEF ClockInv
<1>8. CASE EndUnreported
  <2>1. TimesInv'
    BY <1>1, <1>2, <1>8 DEF ClockInv, TimesInv, ProcType, EndUnreported
  <2>2. FreshIsNewer'
    BY <1>1, <1>8 DEF ClockInv, TimesInv, ProcType, FreshIsNewer, EndUnreported, Owned, Running
  <2>3. Supported'
    BY <1>8 DEF Supported, EndUnreported
  <2> QED BY <1>3, <2>1, <2>2, <2>3 DEF ClockInv
<1>9. CASE Emit
  <2>1. TimesInv'
    BY <1>1, <1>2, <1>9 DEF ClockInv, TimesInv, Emit
  <2>2. FreshIsNewer'
    BY <1>1, <1>9 DEF ClockInv, FreshIsNewer, Emit, Owned, Running
  <2>3. Supported'
    BY <1>1, <1>2, <1>9 DEF Supported, SupportedBy, Emit
  <2> QED BY <1>3, <2>1, <2>2, <2>3 DEF ClockInv
<1>10. CASE Edit
  <2>1. TimesInv'
    BY <1>1, <1>2, <1>10 DEF ClockInv, TimesInv, Edit
  <2>2. FreshIsNewer'
    BY <1>1, <1>10 DEF ClockInv, FreshIsNewer, Edit, Owned, Running
  <2>3. Supported'
    BY <1>1, <1>10 DEF ClockInv, Supported, SupportedBy, Heartbeat, Edit, Running
  <2> QED BY <1>3, <2>1, <2>2, <2>3 DEF ClockInv
<1>11. CASE Reassign
  <2>1. TimesInv'
    BY <1>1, <1>2, <1>11 DEF ClockInv, TimesInv, Reassign
  <2>2. FreshIsNewer'
    BY <1>1, <1>11 DEF ClockInv, FreshIsNewer, Reassign, Owned, Running
  <2>3. Supported'
    BY <1>1, <1>11 DEF ClockInv, Supported, SupportedBy, Heartbeat, Reassign, Running
  <2> QED BY <1>3, <2>1, <2>2, <2>3 DEF ClockInv
<1>12. CASE UNCHANGED vars
  <2>1. TimesInv'
    BY <1>1, <1>2, <1>12 DEF ClockInv, TimesInv, vars
  <2>2. FreshIsNewer' /\ Supported'
    BY <1>1, <1>12
    DEF ClockInv, FreshIsNewer, Supported, SupportedBy, Heartbeat, vars, Owned, Running
  <2> QED BY <1>3, <2>1, <2>2 DEF ClockInv
<1> QED BY <1>4, <1>5, <1>6, <1>7, <1>8, <1>9, <1>10, <1>11, <1>12

LEMMA ClockInit == Init => ClockInv
<1> SUFFICES ASSUME Init PROVE ClockInv
  OBVIOUS
<1> DEFINE n == NewRun(Wall, NoProgress)
<1>1. runs = <<n>> /\ now = 1
  BY DEF Init
<1>2. n \in RunType /\ n.started = 1 /\ n.last = 1 /\ n.diffAt = 0 /\ n.actAt = 0
  <2> DEFINE print == Fingerprint("START", 0, "", 0)
             empty == ""
             unset == "unset"
             none == {}
  <2>1. print \in Prints /\ empty \in Whats /\ unset \in Whats
    BY DEF Fingerprint, Prints, Kinds, Whats
  <2>2. Wall \in Nat /\ NoProgress \in Nat
    BY BudgetAssumption
  <2>3. none \in SUBSET (Nat \X Activities)
    OBVIOUS
  <2>4. n = [started |-> now, deadline |-> now + Wall, quiet |-> NoProgress, last |-> now,
             fp |-> print, status |-> "ACTIVE", by |-> "none",
             diff |-> unset, diffAt |-> 0, seen |-> none, actAt |-> 0, act |-> empty]
    BY DEF NewRun
  <2> HIDE DEF n, print, empty, unset, none
  <2> QED BY <1>1, <2>1, <2>2, <2>3, <2>4 DEF RunType
<1> HIDE DEF n
<1>3. runs \in Seq(RunType) /\ Len(runs) = 1 /\ Run = n
  BY <1>1, <1>2 DEF Run
<1>4. proc \in ProcType /\ proc.started = 0 /\ proc.seen = 0
  BY DEF Init, ProcType
<1>5. event = 0 /\ log \in [Activities -> 0 .. 1]
  <2>1. event = 0 /\ log = [a \in Activities |-> 0]
    BY DEF Init, NoCalls
  <2> QED BY <2>1
<1>6. tree \in Digests
  BY BudgetAssumption DEF Init
<1>7. TimesInv
  BY <1>1, <1>2, <1>3, <1>4, <1>5, <1>6 DEF TimesInv
<1>8. FreshIsNewer
  BY <1>1, <1>2, <1>3, <1>5 DEF FreshIsNewer
<1>9. Supported
  BY <1>2, <1>3 DEF Supported, SupportedBy
<1> QED BY <1>7, <1>8, <1>9 DEF ClockInv

LEMMA ClockKept == ClockInv /\ [Next]_vars => ClockInv' /\ ClockStep
<1> SUFFICES ASSUME ClockInv, [Next]_vars PROVE ClockInv' /\ ClockStep
  OBVIOUS
<1>1. CASE Evaluate
  BY <1>1, EvaluateKeepsClock
<1>2. CASE \E q \in Requests, p \in DOMAIN runs : Rearm(q, p)
  BY <1>2, RearmKeepsClock
<1>3. CASE \/ Tick \/ StartProcess \/ Output \/ ExitWithResult
           \/ EndUnreported \/ Emit \/ Edit \/ Reassign \/ UNCHANGED vars
  BY <1>3, WorkKeepsClock
<1> QED BY <1>1, <1>2, <1>3 DEF Next

\* No evaluation takes back progress the run was credited with, whatever mix of
\* events, heartbeats, edits and tool calls of however many processes it hears
\* of, while no process ends without its RESULT.
THEOREM ProgressStands == Spec => CreditedProgressStands
<1>1. ClockInv /\ [Next]_vars => ClockInv' /\ [ClockStep]_vars
  BY ClockKept
<1>2. [ClockStep]_vars <=> [Len(runs') = Len(runs) => Run'.last >= Run.last \/ dropped]_vars
  BY DEF ClockStep
<1> QED BY <1>1, <1>2, ClockInit, PTL DEF Spec, CreditedProgressStands

-----------------------------------------------------------------------------
(***************************************************************************)
(* Tool calls buy no time twice.  A call that was credited is in seen, and  *)
(* WithActivity moves actAt only together with a call that was not.        *)
(***************************************************************************)
PaidFor == credits \in Nat /\ IsFiniteSet(Run.seen) /\ credits <= Cardinality(Run.seen)

LEMMA HeardPays ==
  ASSUME ClockInv, IsFiniteSet(Activities), IsFiniteSet(Run.seen),
         NEW heard, heard = WithActivity(WithDiff(Run))
  PROVE  /\ IsFiniteSet(heard.seen) /\ Run.seen \subseteq heard.seen
         /\ heard.actAt # Run.actAt => heard.seen # Run.seen
<1> DEFINE r == WithDiff(Run)
<1>1. Run \in RunType
  BY DEF ClockInv, TimesInv, Run
<1>2. r.seen = Run.seen /\ r.actAt = Run.actAt
  <2>1. r = Run \/ \E d, t : r = [Run EXCEPT !.diff = d, !.diffAt = t]
    BY DEF WithDiff
  <2> HIDE DEF r
  <2> QED BY <1>1, <2>1 DEF RunType
<1> DEFINE fresh == {a \in Logged(r) : <<proc.id, a>> \notin r.seen}
           more == {proc.id} \X fresh
<1>3. IsFiniteSet(more)
  <2>1. IsFiniteSet(fresh)
    BY FS_Subset DEF Logged
  <2> HIDE DEF fresh
  <2> QED BY <2>1, FS_Singleton, FS_Product
<1>4. CASE ~Owned \/ fresh = {}
  <2>1. heard = r
    BY <1>4 DEF WithActivity, r
  <2> HIDE DEF r
  <2> QED BY <1>2, <2>1
<1>5. CASE ~(~Owned \/ fresh = {})
  <2>1. heard.seen = r.seen \cup more
    <3>1. heard = [r EXCEPT !.seen = @ \cup more, !.actAt = log[Latest(fresh)], !.act = Latest(fresh)]
      BY <1>5 DEF WithActivity, r
    <3>2. r \in RunType
      <4>1. tree \in Whats /\ now \in Nat /\ Run.diffAt \in Nat
        BY <1>1 DEF ClockInv, TimesInv, Whats, RunType
      <4>2. r = Run \/ \E t \in Nat : r = [Run EXCEPT !.diff = tree, !.diffAt = t]
        BY <4>1 DEF WithDiff
      <4> HIDE DEF r
      <4> QED BY <1>1, <4>1, <4>2 DEF RunType
    <3> HIDE DEF r, fresh, more
    <3> QED BY <3>1, <3>2 DEF RunType
  <2>2. PICK a \in fresh : TRUE
    BY <1>5
  <2>3. <<proc.id, a>> \in more /\ <<proc.id, a>> \notin r.seen
    BY <2>2
  <2> HIDE DEF r, fresh, more
  <2>4. IsFiniteSet(heard.seen)
    BY <1>2, <1>3, <2>1, FS_Union
  <2> QED BY <1>2, <2>1, <2>3, <2>4
<1> QED BY <1>4, <1>5

LEMMA EvaluatePays == ASSUME IsFiniteSet(Activities), ClockInv, PaidFor, Evaluate PROVE PaidFor'
<1> DEFINE heard == WithActivity(WithDiff(Run))
           r == Credited(heard)
           n == [r EXCEPT !.by = ExpiredBy(r),
                          !.status = IF ExpiredBy(r) = "none" THEN "ACTIVE" ELSE "EXHAUSTED"]
<1>1. /\ Run.status = "ACTIVE" /\ runs' = [runs EXCEPT ![Len(runs)] = n]
      /\ credits' = IF r.actAt # Run.actAt THEN credits + 1 ELSE credits
  BY DEF Evaluate
<1>2. heard \in RunType
  BY HeardAddsSignals
<1>3. r \in RunType
  BY <1>1, CreditMovesForward
<1>4. r.seen = heard.seen /\ r.actAt = heard.actAt
  <2>1. r = heard \/ \E t, p : r = [heard EXCEPT !.last = t, !.fp = p]
    BY DEF Credited
  <2> HIDE DEF heard, r
  <2> QED BY <1>2, <2>1 DEF RunType
<1>5. /\ IsFiniteSet(heard.seen) /\ Run.seen \subseteq heard.seen
      /\ heard.actAt # Run.actAt => heard.seen # Run.seen
  BY HeardPays DEF PaidFor
<1> HIDE DEF heard, r
<1>6. n.seen = r.seen
  BY <1>3 DEF RunType
<1> HIDE DEF n
<1>7. Run' = n
  BY <1>1 DEF ClockInv, TimesInv, Run
<1>8. /\ Cardinality(Run.seen) \in Nat /\ Cardinality(heard.seen) \in Nat
      /\ Cardinality(Run.seen) <= Cardinality(heard.seen)
      /\ Cardinality(Run.seen) = Cardinality(heard.seen) => Run.seen = heard.seen
  BY <1>5, FS_Subset, FS_CardinalityType DEF PaidFor
<1> QED BY <1>1, <1>4, <1>5, <1>6, <1>7, <1>8 DEF PaidFor

LEMMA OthersPay ==
  ASSUME ClockInv, PaidFor, [Next]_vars, ~Evaluate
  PROVE  PaidFor'
<1>1. ASSUME NEW q \in Requests, NEW p \in DOMAIN runs, Rearm(q, p) PROVE PaidFor'
  <2>1. PICK wall \in 1 .. Wall, quiet \in 1 .. NoProgress : runs' = Append(runs, NewRun(wall, quiet))
    BY <1>1 DEF Rearm
  <2>2. credits' = 0
    BY <1>1 DEF Rearm
  <2>3. Run' = NewRun(wall, quiet)
    BY <2>1 DEF ClockInv, TimesInv, Run
  <2>4. Run'.seen = {}
    BY <2>3 DEF NewRun
  <2> QED BY <2>2, <2>4, FS_EmptySet DEF PaidFor
<1>2. CASE UNCHANGED <<runs, credits>>
  BY <1>2 DEF PaidFor, Run
<1>3. ASSUME \/ Tick \/ StartProcess \/ Output \/ ExitWithResult
             \/ EndUnreported \/ Emit \/ Edit \/ Reassign \/ UNCHANGED vars
      PROVE  UNCHANGED <<runs, credits>>
  BY <1>3 DEF Tick, StartProcess, Output, ExitWithResult, EndUnreported, Emit, Edit, Reassign, vars
<1> QED BY <1>1, <1>2, <1>3 DEF Next

\* A Worker that repeats its tool calls moves the clock of its run at most once
\* for every different call of every process, however often evaluate looks.
THEOREM ReplaysBuyNothing ==
  ASSUME IsFiniteSet(Activities)
  PROVE  Spec => []ReplayBuysNothing
<1>1. Init => PaidFor
  <2> SUFFICES ASSUME Init PROVE PaidFor
    OBVIOUS
  <2>1. Run = NewRun(Wall, NoProgress) /\ credits = 0
    BY DEF Init, Run
  <2>2. Run.seen = {}
    BY <2>1 DEF NewRun
  <2> QED BY <2>1, <2>2, FS_EmptySet DEF PaidFor
<1>2. ClockInv /\ PaidFor /\ [Next]_vars => PaidFor'
  BY EvaluatePays, OthersPay
<1>3. ClockInv /\ [Next]_vars => ClockInv'
  BY ClockKept
<1>4. PaidFor => ReplayBuysNothing
  BY DEF PaidFor, ReplayBuysNothing
<1> QED BY <1>1, <1>2, <1>3, <1>4, ClockInit, PTL DEF Spec

-----------------------------------------------------------------------------
(***************************************************************************)
(* The types.  TypeOK needs the bounds on what a run heard, which ClockInv *)
(* has for the last run, and that a process that runs has an id.           *)
(***************************************************************************)
RunOk(r) ==
  /\ r.started \in Times /\ r.last \in r.started .. now
  /\ r.status = "ACTIVE" <=> r.by = "none"
  /\ r.diff \in Digests \cup {"unset"}
  /\ r.seen \subseteq (1 .. MaxProcesses) \X Activities
  /\ r.diffAt \in Times /\ r.actAt \in Times

RunsOk == \A i \in DOMAIN runs : RunOk(runs[i])

Around ==
  /\ now \in Times /\ event \in Times
  /\ answered \in [Requests -> 0 .. Len(runs)]
  /\ proc.id \in 0 .. MaxProcesses
  /\ proc.status \in {"none", "RUNNING", "ENDED"}
  /\ proc.started \in Times /\ proc.seen \in proc.started .. now
  /\ log \in [Activities -> Times] /\ lastCall \in Activities \cup {""}
  /\ tree \in Digests /\ sighted \subseteq 1 .. MaxProcesses
  /\ owned \in BOOLEAN /\ heartbeats \in BOOLEAN /\ dropped \in BOOLEAN
  /\ credits \in Nat
  /\ Running => proc.id # 0

TypeInv == RunsOk /\ Around

LEMMA TypeInvImplies == TypeInv => TypeOK
BY DEF TypeInv, RunsOk, RunOk, Around, TypeOK

\* The bounds in plain numbers.
LEMMA Bounds == LastTime \in Nat /\ LastTime >= 1 /\ MaxProcesses \in Nat /\ Wall \in Nat /\ NoProgress \in Nat
BY BudgetAssumption

LEMMA Instants == 0 \in Times /\ 1 \in Times /\ \A t \in Nat : t <= LastTime => t \in Times
BY Bounds DEF Times

LEMMA InBounds ==
  ASSUME ClockInv, TypeInv
  PROVE  /\ now \in Nat /\ now >= 1 /\ now <= LastTime /\ credits \in Nat /\ Len(runs) \in Nat
         /\ proc.id \in Nat /\ proc.id <= MaxProcesses /\ (Running => proc.id \in 1 .. MaxProcesses)
         /\ proc.started \in Nat /\ proc.seen \in Nat /\ proc.started <= proc.seen /\ proc.seen <= now
         /\ proc.started <= now /\ sighted \subseteq 1 .. MaxProcesses
<1>1. /\ now \in 0 .. LastTime /\ credits \in Nat /\ proc.id \in 0 .. MaxProcesses
      /\ Running => proc.id # 0
      /\ sighted \subseteq 1 .. MaxProcesses
  BY DEF TypeInv, Around, Times
<1>2. /\ now >= 1 /\ proc \in ProcType /\ proc.started <= proc.seen /\ proc.seen <= now
      /\ runs \in Seq(RunType)
  BY DEF ClockInv, TimesInv
<1>3. proc.started \in Nat /\ proc.seen \in Nat
  BY <1>2 DEF ProcType
<1> QED BY <1>1, <1>2, <1>3, Bounds

LEMMA HeardTyped ==
  ASSUME ClockInv, TypeInv, NEW heard, heard = WithActivity(WithDiff(Run))
  PROVE  heard.diff \in Digests \cup {"unset"} /\ heard.seen \subseteq (1 .. MaxProcesses) \X Activities
<1> DEFINE r == WithDiff(Run)
<1>1. Run \in RunType /\ RunOk(Run)
  BY DEF ClockInv, TimesInv, Run, TypeInv, RunsOk
<1>2. r \in RunType /\ r.seen = Run.seen /\ r.diff \in {Run.diff, tree}
  <2>1. tree \in Whats /\ now \in Nat /\ Run.diffAt \in Nat
    BY <1>1 DEF ClockInv, TimesInv, Whats, RunType
  <2>2. r = Run \/ \E t \in Nat : r = [Run EXCEPT !.diff = tree, !.diffAt = t]
    BY <2>1 DEF WithDiff
  <2> HIDE DEF r
  <2> QED BY <1>1, <2>1, <2>2 DEF RunType
<1>3. tree \in Digests
  BY DEF ClockInv, TimesInv
<1> DEFINE fresh == {a \in Logged(r) : <<proc.id, a>> \notin r.seen}
           more == {proc.id} \X fresh
<1>4. Owned => more \subseteq (1 .. MaxProcesses) \X Activities
  <2>1. fresh \subseteq Activities
    BY DEF Logged
  <2>2. Owned => proc.id \in 1 .. MaxProcesses
    BY InBounds DEF Owned
  <2> HIDE DEF fresh
  <2> QED BY <2>1, <2>2
<1>5. heard.diff = r.diff /\ (heard.seen = r.seen \/ (Owned /\ heard.seen = r.seen \cup more))
  <2>1. heard = r \/ (Owned /\ \E t, w : heard = [r EXCEPT !.seen = @ \cup more, !.actAt = t, !.act = w])
    BY DEF WithActivity, r
  <2> HIDE DEF r, fresh, more
  <2> QED BY <1>2, <2>1 DEF RunType
<1> HIDE DEF r, fresh, more
<1> QED BY <1>1, <1>2, <1>3, <1>4, <1>5 DEF RunOk

LEMMA EvaluateTyped == ASSUME ClockInv, TypeInv, Evaluate PROVE TypeInv'
<1> DEFINE heard == WithActivity(WithDiff(Run))
           r == Credited(heard)
           by == ExpiredBy(r)
           n == [r EXCEPT !.by = by, !.status = IF by = "none" THEN "ACTIVE" ELSE "EXHAUSTED"]
<1>1. /\ Run.status = "ACTIVE" /\ runs' = [runs EXCEPT ![Len(runs)] = n]
      /\ \/ proc' = proc
         \/ Running /\ proc' = [proc EXCEPT !.status = "ENDED"]
      /\ UNCHANGED <<now, answered, worker>>
      /\ sighted' = IF Running THEN sighted \cup {proc.id} ELSE sighted
      /\ credits' = IF r.actAt # Run.actAt THEN credits + 1 ELSE credits
  BY DEF Evaluate
<1>2. heard \in RunType /\ heard.diff \in Digests \cup {"unset"}
      /\ heard.seen \subseteq (1 .. MaxProcesses) \X Activities
  BY HeardAddsSignals, HeardTyped
<1>3. /\ r \in RunType /\ r.started = Run.started /\ r.last \in r.started .. now
      /\ r.diffAt <= now /\ r.actAt <= now
  BY <1>1, CreditMovesForward
<1>4. r.seen = heard.seen /\ r.diff = heard.diff
  <2>1. r = heard \/ \E t, p : r = [heard EXCEPT !.last = t, !.fp = p]
    BY DEF Credited
  <2> HIDE DEF heard, r
  <2> QED BY <1>2, <2>1 DEF RunType
<1>5. by \in {"none", "WALL_CLOCK", "NO_PROGRESS"}
  BY DEF ExpiredBy
<1> HIDE DEF heard, r, by
<1>6. /\ n.started = r.started /\ n.last = r.last /\ n.diff = r.diff /\ n.seen = r.seen
      /\ n.diffAt = r.diffAt /\ n.actAt = r.actAt /\ n.by = by
      /\ n.status = IF by = "none" THEN "ACTIVE" ELSE "EXHAUSTED"
  BY <1>3 DEF RunType
<1>7. r.diffAt \in Times /\ r.actAt \in Times
  <2>1. r.diffAt \in Nat /\ r.actAt \in Nat /\ now \in Nat /\ now <= LastTime
    BY <1>3, InBounds DEF RunType
  <2> QED BY <1>3, <2>1, Bounds DEF Times
<1>8. RunOk(n)
  <2>1. Run.started \in Times
    BY DEF TypeInv, RunsOk, RunOk, Run, ClockInv, TimesInv
  <2> HIDE DEF n
  <2> QED BY <1>2, <1>3, <1>4, <1>5, <1>6, <1>7, <2>1 DEF RunOk
<1> HIDE DEF n
<1>9. RunsOk'
  <2>1. /\ Len(runs') = Len(runs) /\ DOMAIN runs' = DOMAIN runs /\ runs'[Len(runs)] = n
        /\ \A i \in DOMAIN runs : i # Len(runs) => runs'[i] = runs[i]
    BY <1>1 DEF ClockInv, TimesInv
  <2>2. now' = now
    BY <1>1
  <2>3. ASSUME NEW i \in DOMAIN runs PROVE RunOk(runs'[i])
    BY <1>8, <2>1 DEF TypeInv, RunsOk
  <2>4. \A i \in DOMAIN runs' : RunOk(runs[i])'
    BY <2>1, <2>2, <2>3 DEF RunOk
  <2> QED BY <2>4 DEF RunsOk
<1>10. Around'
  <2>1. Len(runs') = Len(runs)
    BY <1>1 DEF ClockInv, TimesInv
  <2>2. sighted' \subseteq 1 .. MaxProcesses
    BY <1>1, InBounds
  <2>3. credits' \in Nat
    BY <1>1, InBounds
  <2>4. /\ proc' \in ProcType /\ proc'.id = proc.id /\ proc'.started = proc.started
        /\ proc'.seen = proc.seen /\ proc'.status \in {proc.status, "ENDED"}
    BY <1>1 DEF ClockInv, TimesInv, ProcType
  <2> QED BY <1>1, <2>1, <2>2, <2>3, <2>4 DEF TypeInv, Around, Running, worker
<1> QED BY <1>9, <1>10 DEF TypeInv

LEMMA RearmTyped ==
  ASSUME ClockInv, TypeInv, NEW q \in Requests, NEW p \in DOMAIN runs, Rearm(q, p)
  PROVE  TypeInv'
<1>1. PICK wall \in 1 .. Wall, quiet \in 1 .. NoProgress : runs' = Append(runs, NewRun(wall, quiet))
  BY DEF Rearm
<1> DEFINE n == NewRun(wall, quiet)
<1>2. RunOk(n)
  BY InBounds, Bounds DEF NewRun, RunOk, Times
<1> HIDE DEF n
<1>3. /\ UNCHANGED <<now, proc, worker>> /\ sighted' = {} /\ credits' = 0
      /\ answered' = [answered EXCEPT ![q] = Len(runs) + 1]
  BY DEF Rearm
<1>4. /\ Len(runs) \in Nat /\ Len(runs') = Len(runs) + 1 /\ DOMAIN runs' = 1 .. Len(runs) + 1
      /\ DOMAIN runs = 1 .. Len(runs)
      /\ runs'[Len(runs) + 1] = n /\ \A i \in DOMAIN runs : runs'[i] = runs[i]
  <2>1. runs \in Seq(RunType) /\ runs' = Append(runs, n)
    BY <1>1 DEF ClockInv, TimesInv, n
  <2>2. runs \in Seq(RunType \cup {n}) /\ n \in RunType \cup {n}
    BY <2>1
  <2> QED BY <2>1, <2>2
<1>5. RunsOk'
  <2>1. ASSUME NEW i \in DOMAIN runs' PROVE RunOk(runs'[i])
    BY <1>2, <1>4 DEF TypeInv, RunsOk
  <2>2. \A i \in DOMAIN runs' : RunOk(runs[i])'
    BY <1>3, <2>1 DEF RunOk
  <2> QED BY <2>2 DEF RunsOk
<1>6. answered' \in [Requests -> 0 .. Len(runs')]
  <2>1. answered \in [Requests -> 0 .. Len(runs)]
    BY DEF TypeInv, Around
  <2> QED BY <1>3, <1>4, <2>1
<1>7. Around'
  BY <1>3, <1>6 DEF TypeInv, Around, Running, worker
<1> QED BY <1>5, <1>7 DEF TypeInv

\* Other steps leave the runs alone; time only goes on.
LEMMA WorkTyped ==
  ASSUME ClockInv, TypeInv,
         \/ Tick \/ StartProcess \/ Output \/ ExitWithResult
         \/ EndUnreported \/ Emit \/ Edit \/ Reassign \/ UNCHANGED vars
  PROVE  TypeInv'
<1>1. /\ runs' = runs /\ UNCHANGED <<answered, sighted, credits>> /\ now' \in {now, now + 1}
      /\ now' \in Times
  <2>1. /\ runs' = runs /\ UNCHANGED <<answered, sighted, credits>>
        /\ now' = now \/ (now' = now + 1 /\ now < LastTime)
    BY DEF Tick, StartProcess, Output, ExitWithResult, EndUnreported, Emit, Edit, Reassign, vars, worker
  <2> QED BY <2>1, InBounds, Bounds DEF Times
<1>2. RunsOk'
  <2>1. ASSUME NEW i \in DOMAIN runs PROVE RunOk(runs[i])'
    <3>1. RunOk(runs[i])
      BY DEF TypeInv, RunsOk
    <3>2. runs[i].started \in Nat /\ runs[i].last \in runs[i].started .. now'
      BY <1>1, <3>1, InBounds DEF RunOk, Times
    <3> QED BY <1>1, <3>1, <3>2 DEF RunOk
  <2> QED BY <1>1, <2>1 DEF RunsOk
<1>3. now \in Nat /\ LastTime \in Nat /\ MaxProcesses \in Nat /\ proc \in ProcType
  BY InBounds, Bounds DEF ClockInv, TimesInv
<1>4. CASE Tick \/ UNCHANGED vars
  <2>1. UNCHANGED <<proc, owned, heartbeats, log, lastCall, event, tree, dropped>>
    BY <1>4 DEF Tick, vars, worker
  <2>2. proc.seen \in proc.started .. now'
    BY <1>1, InBounds
  <2> QED BY <1>1, <1>2, <2>1, <2>2 DEF TypeInv, Around, Running
<1>5. CASE StartProcess
  <2>1. /\ proc'.id = proc.id + 1 /\ proc'.status = "RUNNING" /\ proc'.started = now /\ proc'.seen = now
        /\ proc.id < MaxProcesses
    BY <1>5 DEF StartProcess
  <2>2. log' \in [Activities -> Times]
    BY <1>5, Instants DEF StartProcess, NoCalls
  <2>3. /\ UNCHANGED <<now, heartbeats, event, tree>> /\ owned' = TRUE /\ lastCall' = "" /\ dropped' = FALSE
    BY <1>5 DEF StartProcess
  <2>4. proc'.id \in 0 .. MaxProcesses /\ proc'.id # 0
    BY <2>1, InBounds, Bounds
  <2>5. proc'.seen \in proc'.started .. now' /\ proc'.started \in Times
    <3>1. now \in Nat /\ now' = now /\ now \in Times
      BY <2>3, InBounds, Instants
    <3>2. now \in now .. now
      BY <3>1
    <3> QED BY <2>1, <3>1, <3>2
  <2> QED BY <1>1, <1>2, <2>1, <2>2, <2>3, <2>4, <2>5 DEF TypeInv, Around
<1>6. CASE Output
  <2>1. /\ proc'.id = proc.id /\ proc'.status = proc.status /\ proc'.started = proc.started /\ proc'.seen = now
    BY <1>3, <1>6 DEF Output, ProcType
  <2>2. log' \in [Activities -> Times] /\ lastCall' \in Activities \cup {""}
    BY <1>6 DEF Output, TypeInv, Around
  <2>3. UNCHANGED <<now, owned, heartbeats, event, tree, dropped>>
    BY <1>6 DEF Output
  <2>4. proc'.seen \in proc'.started .. now'
    BY <2>1, <2>3, InBounds
  <2> QED BY <1>1, <1>2, <2>1, <2>2, <2>3, <2>4 DEF TypeInv, Around, Running
<1>7. CASE ExitWithResult \/ EndUnreported
  <2>1. /\ proc'.id = proc.id /\ proc'.status = "ENDED" /\ proc'.started = proc.started
        /\ proc'.seen = proc.seen
    BY <1>3, <1>7 DEF ExitWithResult, EndUnreported, ProcType
  <2>2. /\ UNCHANGED <<now, owned, heartbeats, log, lastCall, tree>>
        /\ event' \in {event, now} /\ dropped' \in {dropped, TRUE}
    BY <1>7 DEF ExitWithResult, EndUnreported
  <2> QED BY <1>1, <1>2, <2>1, <2>2 DEF TypeInv, Around, Running
<1>8. CASE Emit \/ Edit \/ Reassign
  <2>1. /\ UNCHANGED <<now, proc, log, lastCall>> /\ event' \in {event, now} /\ tree' \in Digests
        /\ owned' \in BOOLEAN /\ heartbeats' \in BOOLEAN
    BY <1>8 DEF Emit, Edit, Reassign, TypeInv, Around
  <2>2. dropped' \in BOOLEAN
    BY <1>8 DEF Emit, Edit, Reassign, TypeInv, Around
  <2> QED BY <1>1, <1>2, <2>1, <2>2 DEF TypeInv, Around, Running
<1> QED BY <1>4, <1>5, <1>6, <1>7, <1>8

LEMMA TypeInit == Init => TypeInv
<1> SUFFICES ASSUME Init PROVE TypeInv
  OBVIOUS
<1>1. runs = <<NewRun(Wall, NoProgress)>> /\ now = 1
  BY DEF Init
<1>2. RunOk(NewRun(Wall, NoProgress))
  <2>1. Wall \in Nat /\ 1 \in 1 .. 1
    BY Bounds
  <2> QED BY <1>1, <2>1, Instants DEF NewRun, RunOk
<1>3. RunsOk
  BY <1>1, <1>2 DEF RunsOk
<1>4. Around
  <2>1. Len(runs) = 1
    BY <1>1
  <2>2. answered \in [Requests -> 0 .. Len(runs)]
    <3>1. answered = [q \in Requests |-> 0]
      BY DEF Init
    <3>2. 0 \in 0 .. Len(runs)
      BY <2>1
    <3> QED BY <3>1, <3>2
  <2>3. log \in [Activities -> Times]
    BY Instants DEF Init, NoCalls
  <2>4. tree \in Digests
    BY BudgetAssumption DEF Init
  <2>5. /\ proc.id = 0 /\ proc.status = "none" /\ proc.started = 0 /\ proc.seen = 0
        /\ event = 0 /\ lastCall = "" /\ sighted = {} /\ owned = FALSE /\ heartbeats \in BOOLEAN
        /\ dropped = FALSE /\ credits = 0
    BY DEF Init
  <2>6. now \in Times /\ 0 \in Times /\ 0 \in 0 .. MaxProcesses /\ 0 \in 0 .. now
    BY <1>1, Bounds DEF Times
  <2> QED BY <2>2, <2>3, <2>4, <2>5, <2>6 DEF Around, Running
<1> QED BY <1>3, <1>4 DEF TypeInv

\* Runs, process, log and histories keep their types and bounds, for all budgets,
\* activities, digests, requests and bounds.
THEOREM BudgetTypes == Spec => []TypeOK
<1>1. ClockInv /\ TypeInv /\ [Next]_vars => TypeInv'
  BY EvaluateTyped, RearmTyped, WorkTyped DEF Next
<1>2. ClockInv /\ [Next]_vars => ClockInv'
  BY ClockKept
<1> QED BY <1>1, <1>2, ClockInit, TypeInit, TypeInvImplies, PTL DEF Spec
=============================================================================
