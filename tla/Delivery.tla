------------------------------ MODULE Delivery ------------------------------
(***************************************************************************)
(* The delivery_records of outbound messages: MultiBotGateway.publish,     *)
(* which posts an envelope in Fragments physical messages, the receipts    *)
(* InboundGuard writes back, and what a restart does with the rows it      *)
(* finds.  A row is written in one go with what follows it up to the next  *)
(* await, unless the process dies there.                                   *)
(***************************************************************************)
EXTENDS Naturals

CONSTANTS
  Deliveries,  \* the envelopes to publish
  Fragments    \* physical messages per envelope


RowStates ==
  {"none", "CREATED", "ATTEMPTING", "attempting", "ambiguous", "SENT",
   "FAILED", "RECEIVED", "PROCESSED"}

VARIABLES
  row,      \* delivery_records.state, "none" before the insert
  posted,   \* how often each fragment stands in the channel
  call,     \* "idle", or who is sending: "publish" or "resend"
  next,     \* the fragment that call posts next
  inbound,  \* inbound_messages.state of the final fragment, or "none"
  phase,    \* where start stands: "starting", "recovering", "resending", "up"
  pending,  \* the rows recoverPendingDeliveries read and has not come to
  resent    \* history: envelopes sent by recoverPendingDeliveries

vars == <<row, posted, call, next, inbound, phase, pending, resent>>

TypeOK ==
  /\ row \in [Deliveries -> RowStates]
  /\ posted \in [Deliveries -> [1 .. Fragments -> Nat]]
  /\ call \in [Deliveries -> {"idle", "publish", "resend"}]
  /\ next \in [Deliveries -> 1 .. Fragments + 1]
  /\ inbound \in [Deliveries -> {"none", "RECEIVED", "PROCESSED"}]
  /\ phase \in {"starting", "recovering", "resending", "up"}
  /\ pending \subseteq Deliveries /\ resent \subseteq Deliveries

Init ==
  /\ row = [d \in Deliveries |-> "none"]
  /\ posted = [d \in Deliveries |-> [i \in 1 .. Fragments |-> 0]]
  /\ call = [d \in Deliveries |-> "idle"]
  /\ next = [d \in Deliveries |-> 1]
  /\ inbound = [d \in Deliveries |-> "none"]
  /\ phase = "up" /\ pending = {} /\ resent = {}

-----------------------------------------------------------------------------
\* publish: the row is CREATED and at once ATTEMPTING.
Publish(d) ==
  /\ row[d] = "none"
  /\ row' = [row EXCEPT ![d] = "ATTEMPTING"]
  /\ call' = [call EXCEPT ![d] = "publish"] /\ next' = [next EXCEPT ![d] = 1]
  /\ UNCHANGED <<posted, inbound, phase, pending, resent>>

LengthOffByOne(who) == IF who = "publish" THEN Fragments + 1 ELSE 1

\* How many fragments a sender posts: a resend has the first one only, the
\* content of the row.
Length(who) == IF who = "publish" THEN Fragments ELSE 1

\* sendPrepared: the next physical message stands in the channel.
Post(d) ==
  /\ call[d] # "idle" /\ next[d] <= Length(call[d])
  /\ posted' = [posted EXCEPT ![d][next[d]] = @ + 1]
  /\ next' = [next EXCEPT ![d] = @ + 1]
  /\ UNCHANGED <<row, call, inbound, phase, pending, resent>>

OutcomeIgnoresReceipt(d) == "SENT"

\* The row a finished send writes: publish looks for a receipt that came first.
Outcome(d) ==
  IF call[d] = "publish" /\ inbound[d] # "none" THEN inbound[d] ELSE "SENT"

Sent(d) ==
  /\ call[d] # "idle" /\ next[d] = Length(call[d]) + 1
  /\ row' = [row EXCEPT ![d] = Outcome(d)]
  /\ call' = [call EXCEPT ![d] = "idle"]
  /\ UNCHANGED <<posted, next, inbound, phase, pending, resent>>

\* The send rejects, whether or not the message arrived.
SendFails(d) ==
  /\ call[d] # "idle"
  /\ row' = [row EXCEPT ![d] = "FAILED"]
  /\ call' = [call EXCEPT ![d] = "idle"]
  /\ UNCHANGED <<posted, next, inbound, phase, pending, resent>>

\* InboundGuard writes the receipt to the row that names the message, if one
\* does by now.
Receipt(d, state) ==
  /\ inbound' = [inbound EXCEPT ![d] = state]
  /\ row' = IF row[d] \in {"SENT", "RECEIVED"} THEN [row EXCEPT ![d] = state] ELSE row
  /\ UNCHANGED <<posted, call, next, phase, pending, resent>>

Received(d) ==
  /\ inbound[d] = "none" /\ \A i \in 1 .. Fragments : posted[d][i] > 0
  /\ Receipt(d, "RECEIVED")
Processed(d) == inbound[d] = "RECEIVED" /\ Receipt(d, "PROCESSED")

-----------------------------------------------------------------------------
\* The process dies and starts again: calls are gone, rows stay.
Restart ==
  /\ call' = [d \in Deliveries |-> "idle"]
  /\ phase' = "starting" /\ pending' = {}
  /\ UNCHANGED <<posted, next, inbound, resent>>
Crash == Restart /\ row' = row
\* ... between the two statements that create a row and mark it ATTEMPTING.
DieAfterCreate(d) == row[d] = "none" /\ Restart /\ row' = [row EXCEPT ![d] = "CREATED"]

\* Recovery.reconcile: the state an interrupted send is left in.
Reconciled(state) == IF state = "attempting" THEN "ambiguous" ELSE state
Reconcile ==
  /\ phase = "starting" /\ phase' = "recovering"
  /\ row' = [d \in Deliveries |-> Reconciled(row[d])]
  /\ UNCHANGED <<posted, call, next, inbound, pending, resent>>

UnsentOrInterrupted(state) == state \in {"CREATED", "ATTEMPTING"}

\* recoverPendingDeliveries reads the rows it will send, once ...
Unsent(state) == state = "CREATED"
ReadPending ==
  /\ phase = "recovering" /\ phase' = "resending"
  /\ pending' = {d \in Deliveries : Unsent(row[d])}
  /\ UNCHANGED <<row, posted, call, next, inbound, resent>>

\* ... and sends one after the other.
Resend(d) ==
  /\ phase = "resending" /\ d \in pending
  /\ \A e \in Deliveries : call[e] # "resend"
  /\ row' = [row EXCEPT ![d] = "ATTEMPTING"]
  /\ call' = [call EXCEPT ![d] = "resend"] /\ next' = [next EXCEPT ![d] = 1]
  /\ pending' = pending \ {d} /\ resent' = resent \cup {d}
  /\ UNCHANGED <<posted, inbound, phase>>

Started ==
  /\ phase = "resending" /\ pending = {}
  /\ \A d \in Deliveries : call[d] # "resend"
  /\ phase' = "up"
  /\ UNCHANGED <<row, posted, call, next, inbound, pending, resent>>

Next ==
  \/ \E d \in Deliveries :
       \/ Publish(d) \/ Post(d) \/ Sent(d) \/ SendFails(d)
       \/ Received(d) \/ Processed(d)
       \/ DieAfterCreate(d) \/ Resend(d)
  \/ Crash \/ Reconcile \/ ReadPending \/ Started

Spec == Init /\ [][Next]_vars

-----------------------------------------------------------------------------
\* No physical message is ever posted twice: across restarts, only a row whose
\* send never began is sent again.
NoBlindDuplicate ==
  \A d \in Deliveries, i \in 1 .. Fragments : posted[d][i] <= 1

\* A receipt is not lost to the race between the inbound message, which may be
\* claimed and processed first, and the return of the send that writes the id
\* the receipt is looked up by.
ReceiptRecorded ==
  \A d \in Deliveries \ resent :
    inbound[d] # "none" /\ row[d] \notin {"ATTEMPTING", "FAILED"}
      => row[d] = inbound[d]

\* ARCHITECTURE.md: "A Discord send left in attempting becomes ambiguous".  Once
\* start has come through, no row says a send is under way that is not.
AttemptingBecomesAmbiguous ==
  phase = "up" =>
    \A d \in Deliveries : row[d] = "ATTEMPTING" => call[d] # "idle"
=============================================================================
