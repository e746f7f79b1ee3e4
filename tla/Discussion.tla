----------------------------- MODULE Discussion -----------------------------
(***************************************************************************)
(* One topic that agents of a Task discuss in its Workroom: discuss writes *)
(* a remark and awaits its publication, processInbound hears the same      *)
(* remark come back from Discord, or one that was posted elsewhere, and    *)
(* the last of MaxRounds rounds hands the topic to ASUS.  A remark is a    *)
(* type, a sender, a recipient and a content; Task, room and membership    *)
(* only refuse a call before it changes anything here.                     *)
(***************************************************************************)
EXTENDS Naturals

CONSTANTS
  Spoken,     \* remarks this Runtime's agents may make
  Heard,      \* remarks that may arrive without having been made here
  Consensus,  \* those of type CONSENSUS
  MaxRounds

VARIABLES
  topic,   \* status and current_round of the discussion_topics row
  event,   \* the discussion_events row of each remark
  call,    \* where the discuss call with a remark stands
  wire,    \* remarks posted here whose message has not come back
  posted,  \* history: remarks that reached the channel
  report   \* history: ASUS was handed the topic

vars == <<topic, event, call, wire, posted, report>>

Remarks == Spoken \cup Heard
NoEvent == [round |-> 0, state |-> "none"]

TypeOK ==
  /\ topic \in [status : {"ACTIVE", "CONSENSUS", "LIMIT_REACHED", "ESCALATED"},
                round : 0 .. MaxRounds]
  /\ event \in [Remarks -> [round : 0 .. MaxRounds,
                            state : {"none", "CREATED", "SENT", "PROCESSED"}]]
  /\ call \in [Spoken -> {"idle", "emit", "posted", "handoff", "handed"}]
  /\ wire \subseteq Spoken /\ posted \subseteq Remarks
  /\ report \in BOOLEAN

Init ==
  /\ topic = [status |-> "ACTIVE", round |-> 0]
  /\ event = [r \in Remarks |-> NoEvent]
  /\ call = [r \in Spoken |-> "idle"]
  /\ wire = {} /\ posted = {} /\ report = FALSE

-----------------------------------------------------------------------------
LastRound(round) == round

\* addEvent's current_round=MAX(current_round,?).
Furthest(round) == IF round > topic.round THEN round ELSE topic.round

Added(r, round, state) ==
  /\ event' = [event EXCEPT ![r] = [round |-> round, state |-> state]]
  /\ topic' = [status |-> IF r \in Consensus /\ state = "PROCESSED" THEN "CONSENSUS"
                          ELSE topic.status, round |-> Furthest(round)]

Closed(status) == topic' = [topic EXCEPT !.status = status]
ClosedBy(r) == IF r \in Consensus THEN Closed("CONSENSUS") ELSE UNCHANGED topic
At(r, where) == call' = [call EXCEPT ![r] = where]

\* discuss up to its await; a remark that has a row is a duplicate for good, its
\* publication failed or not.
MayDiscuss(r) ==
  /\ call[r] = "idle" /\ topic.status # "CONSENSUS" /\ event[r] = NoEvent
Say(r) ==
  /\ MayDiscuss(r) /\ topic.round < MaxRounds
  /\ Added(r, topic.round + 1, "CREATED") /\ At(r, "emit")
  /\ UNCHANGED <<wire, posted, report>>
LimitReached(r) ==
  /\ MayDiscuss(r) /\ topic.round = MaxRounds
  /\ Closed("LIMIT_REACHED") /\ At(r, "handoff")
  /\ UNCHANGED <<event, wire, posted, report>>

Post(r) ==
  /\ call[r] = "emit" /\ At(r, "posted")
  /\ wire' = wire \cup {r} /\ posted' = posted \cup {r}
  /\ UNCHANGED <<topic, event, report>>

\* The publication returned.
Emitted(r) ==
  /\ call[r] = "posted" /\ At(r, "idle")
  /\ event' = [event EXCEPT ![r].state = "SENT"] /\ ClosedBy(r)
  /\ UNCHANGED <<wire, posted, report>>

\* escalateDisagreement: the topic is ESCALATED when the HANDOFF is out.
Hand(r) ==
  /\ call[r] = "handoff" /\ At(r, "handed") /\ report' = TRUE
  /\ UNCHANGED <<topic, event, wire, posted>>
Escalated(r) ==
  /\ call[r] = "handed" /\ At(r, "idle") /\ Closed("ESCALATED")
  /\ UNCHANGED <<event, wire, posted, report>>

\* The publication rejects, arrived or not.
EmitFails(r) ==
  /\ call[r] \in {"emit", "posted", "handoff", "handed"} /\ At(r, "idle")
  /\ UNCHANGED <<topic, event, wire, posted, report>>

-----------------------------------------------------------------------------
\* The message of a remark made here: its event exists.
Returns(r) ==
  /\ r \in wire /\ wire' = wire \ {r}
  /\ event' = [event EXCEPT ![r].state = "PROCESSED"] /\ ClosedBy(r)
  /\ UNCHANGED <<call, posted, report>>

\* A remark made elsewhere, once, with a round InboundGuard lets pass.
Arrives(r, round) ==
  /\ r \in Heard /\ event[r] = NoEvent
  /\ Added(r, round, "PROCESSED") /\ posted' = posted \cup {r}
  /\ UNCHANGED <<call, wire, report>>

Crash ==
  /\ call' = [r \in Spoken |-> "idle"]
  /\ UNCHANGED <<topic, event, wire, posted, report>>

Next ==
  \/ \E r \in Spoken : \/ Say(r) \/ LimitReached(r) \/ Post(r) \/ Emitted(r)
                       \/ Hand(r) \/ Escalated(r) \/ EmitFails(r) \/ Returns(r)
  \/ \E r \in Heard, round \in 0 .. MaxRounds : Arrives(r, round)
  \/ Crash

Spec == Init /\ [][Next]_vars

-----------------------------------------------------------------------------
\* A topic's row tells the truth.  It is closed as CONSENSUS only by a consensus
\* the others could read, and as ESCALATED only after the HANDOFF went out; and
\* every remark made here has a round of its own: neither another call between a
\* remark and its publication nor a late remark from elsewhere, with a lower
\* round, makes the discussion go over a round again.
TopicIsTrue ==
  /\ topic.status = "CONSENSUS" => posted \cap Consensus # {}
  /\ topic.status = "ESCALATED" => report
  /\ \A r, s \in Spoken :
       r # s /\ event[r] # NoEvent /\ event[s] # NoEvent => event[r].round # event[s].round
=============================================================================
