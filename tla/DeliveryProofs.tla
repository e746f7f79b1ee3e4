--------------------------- MODULE DeliveryProofs ---------------------------
(***************************************************************************)
(* No physical message twice, and no receipt lost to a race, for any       *)
(* number of envelopes and of fragments.  Neither is inductive: one has to *)
(* know of every state that a send under way has not posted what it is     *)
(* still to post, that a row nobody began to send has nothing in the       *)
(* channel, and that the rows a restart read for sending are such rows.    *)
(***************************************************************************)
EXTENDS Delivery, TLAPS

\* A row nobody began to send: nothing posted, no call, no receipt.
Untouched ==
  \A d \in Deliveries :
    row[d] \in {"none", "CREATED"}
      => /\ \A i \in 1 .. Fragments : posted[d][i] = 0
         /\ call[d] = "idle" /\ inbound[d] = "none"

\* A send under way: its row says so, and what it has still to post is not out.
UnderWay ==
  \A d \in Deliveries :
    call[d] # "idle"
      => /\ row[d] = "ATTEMPTING"
         /\ \A i \in 1 .. Fragments : i >= next[d] => posted[d][i] = 0

\* Only rows nobody began to send are sent again, and who does is on record.
Pending == \A d \in pending : row[d] = "CREATED"
Resending == \A d \in Deliveries : call[d] = "resend" => d \in resent

\* No row has the state recovery looks for, and receipts come from the inbox.
NeverReconciled == \A d \in Deliveries : row[d] \notin {"attempting", "ambiguous"}
ReceiptFirst ==
  \A d \in Deliveries : inbound[d] = "none" => row[d] \notin {"RECEIVED", "PROCESSED"}

Inv ==
  /\ TypeOK /\ Untouched /\ UnderWay /\ Pending /\ Resending
  /\ NeverReconciled /\ ReceiptFirst /\ NoBlindDuplicate /\ ReceiptRecorded

LEMMA InvInit == ASSUME Fragments \in Nat \ {0}, Init PROVE Inv
<1>1. TypeOK
  BY DEF Init, TypeOK, RowStates
<1>2. Untouched /\ UnderWay /\ Pending /\ Resending
  BY DEF Init, Untouched, UnderWay, Pending, Resending
<1>3. NeverReconciled /\ ReceiptFirst /\ NoBlindDuplicate /\ ReceiptRecorded
  BY DEF Init, NeverReconciled, ReceiptFirst, NoBlindDuplicate, ReceiptRecorded
<1>4. QED
  BY <1>1, <1>2, <1>3 DEF Inv

LEMMA InvPublish == ASSUME Inv, NEW d \in Deliveries, Fragments \in Nat \ {0}, Publish(d) PROVE Inv'
<1>1. /\ row[d] = "none" /\ row' = [row EXCEPT ![d] = "ATTEMPTING"]
      /\ call' = [call EXCEPT ![d] = "publish"] /\ next' = [next EXCEPT ![d] = 1]
      /\ UNCHANGED <<posted, inbound, phase, pending, resent>>
  BY DEF Publish
<1>2. TypeOK'
  BY <1>1 DEF Inv, TypeOK, RowStates
<1>3. Untouched' /\ UnderWay' /\ Pending' /\ Resending'
  BY <1>1 DEF Inv, TypeOK, Untouched, UnderWay, Pending, Resending
<1>4. NeverReconciled' /\ ReceiptFirst' /\ NoBlindDuplicate' /\ ReceiptRecorded'
  BY <1>1 DEF Inv, TypeOK, NeverReconciled, ReceiptFirst, NoBlindDuplicate, ReceiptRecorded
<1>5. QED
  BY <1>2, <1>3, <1>4 DEF Inv

LEMMA InvPost == ASSUME Inv, NEW d \in Deliveries, Fragments \in Nat \ {0}, Post(d) PROVE Inv'
<1> DEFINE n == next[d]
<1>1. n \in 1 .. Fragments
  BY DEF Inv, TypeOK, Post, Length
<1>2. posted[d][n] = 0
  BY <1>1 DEF Inv, UnderWay, Post
<1>3. posted' = [posted EXCEPT ![d] = [posted[d] EXCEPT ![n] = 1]]
  BY <1>2 DEF Post
<1>4. /\ call[d] # "idle" /\ next' = [next EXCEPT ![d] = n + 1]
      /\ UNCHANGED <<row, call, inbound, phase, pending, resent>>
  BY DEF Post
<1> HIDE DEF n
<1>5. posted[d] \in [1 .. Fragments -> Nat]
  BY DEF Inv, TypeOK
<1>6. posted'[d] = [posted[d] EXCEPT ![n] = 1]
  BY <1>3 DEF Inv, TypeOK
<1>7. \A e \in Deliveries \ {d} : posted'[e] = posted[e] /\ next'[e] = next[e]
  BY <1>3, <1>4 DEF Inv, TypeOK
<1>8. next'[d] = n + 1
  BY <1>4 DEF Inv, TypeOK
<1>9. TypeOK'
  <2>1. posted' \in [Deliveries -> [1 .. Fragments -> Nat]]
    BY <1>1, <1>3, <1>5 DEF Inv, TypeOK
  <2>2. next' \in [Deliveries -> 1 .. Fragments + 1]
    BY <1>1, <1>4 DEF Inv, TypeOK
  <2>3. QED
    BY <2>1, <2>2, <1>4 DEF Inv, TypeOK
<1>10. Untouched'
  BY <1>4, <1>7 DEF Inv, Untouched
<1>11. UnderWay'
  <2> SUFFICES ASSUME NEW e \in Deliveries, call[e] # "idle"
               PROVE  /\ row[e] = "ATTEMPTING"
                      /\ \A i \in 1 .. Fragments : i >= next'[e] => posted'[e][i] = 0
    BY <1>4 DEF UnderWay
  <2>1. row[e] = "ATTEMPTING" /\ \A i \in 1 .. Fragments : i >= next[e] => posted[e][i] = 0
    BY DEF Inv, UnderWay
  <2>2. CASE e = d
    BY <2>1, <2>2, <1>1, <1>5, <1>6, <1>8 DEF n
  <2>3. CASE e # d
    BY <2>1, <2>3, <1>7
  <2>4. QED
    BY <2>2, <2>3
<1>12. NoBlindDuplicate'
  <2> SUFFICES ASSUME NEW e \in Deliveries, NEW i \in 1 .. Fragments
               PROVE  posted'[e][i] <= 1
    BY DEF NoBlindDuplicate
  <2>1. posted[e][i] <= 1
    BY DEF Inv, NoBlindDuplicate
  <2>2. CASE e = d
    BY <2>1, <2>2, <1>5, <1>6
  <2>3. CASE e # d
    BY <2>1, <2>3, <1>7
  <2>4. QED
    BY <2>2, <2>3
<1>13. Pending' /\ Resending' /\ NeverReconciled' /\ ReceiptFirst' /\ ReceiptRecorded'
  BY <1>4 DEF Inv, Pending, Resending, NeverReconciled, ReceiptFirst, ReceiptRecorded
<1>14. QED
  BY <1>9, <1>10, <1>11, <1>12, <1>13 DEF Inv

\* A send that ends, well or badly: the row of d gets its outcome.
LEMMA InvEnded ==
  ASSUME Inv, NEW d \in Deliveries, NEW out \in {"SENT", "FAILED", "RECEIVED", "PROCESSED"},
         call[d] # "idle",
         row' = [row EXCEPT ![d] = out], call' = [call EXCEPT ![d] = "idle"],
         UNCHANGED <<posted, next, inbound, phase, pending, resent>>,
         inbound[d] = "none" => out \in {"SENT", "FAILED"},
         d \notin resent /\ inbound[d] # "none" => out \in {inbound[d], "FAILED"}
  PROVE  Inv'
<1>1. row[d] = "ATTEMPTING"
  BY DEF Inv, UnderWay
<1>2. TypeOK'
  BY DEF Inv, TypeOK, RowStates
<1>3. Untouched' /\ UnderWay' /\ Pending' /\ Resending'
  BY <1>1 DEF Inv, TypeOK, Untouched, UnderWay, Pending, Resending
<1>4. NeverReconciled' /\ ReceiptFirst' /\ NoBlindDuplicate' /\ ReceiptRecorded'
  BY DEF Inv, TypeOK, NeverReconciled, ReceiptFirst, NoBlindDuplicate, ReceiptRecorded
<1>5. QED
  BY <1>2, <1>3, <1>4 DEF Inv

LEMMA InvSent == ASSUME Inv, NEW d \in Deliveries, Sent(d) PROVE Inv'
<1>1. Outcome(d) \in {"SENT", "RECEIVED", "PROCESSED"}
  BY DEF Inv, TypeOK, Outcome
<1>2. inbound[d] = "none" => Outcome(d) = "SENT"
  BY DEF Outcome
<1>3. d \notin resent => call[d] = "publish"
  BY DEF Inv, TypeOK, Resending, Sent
<1>4. d \notin resent /\ inbound[d] # "none" => Outcome(d) = inbound[d]
  BY <1>3 DEF Outcome
<1> DEFINE out == Outcome(d)
<1>5. /\ call[d] # "idle" /\ row' = [row EXCEPT ![d] = out] /\ call' = [call EXCEPT ![d] = "idle"]
      /\ UNCHANGED <<posted, next, inbound, phase, pending, resent>>
  BY DEF Sent
<1> HIDE DEF out
<1>6. /\ out \in {"SENT", "RECEIVED", "PROCESSED"} /\ (inbound[d] = "none" => out = "SENT")
      /\ (d \notin resent /\ inbound[d] # "none" => out = inbound[d])
  BY <1>1, <1>2, <1>4 DEF out
<1>7. QED
  BY <1>5, <1>6, InvEnded

LEMMA InvSendFails == ASSUME Inv, NEW d \in Deliveries, SendFails(d) PROVE Inv'
BY InvEnded DEF SendFails

\* A receipt: both directions of the race between claim and send.
LEMMA InvReceived ==
  ASSUME Inv, NEW d \in Deliveries, Fragments \in Nat \ {0}, Received(d) PROVE Inv'
<1>1. posted[d][1] > 0 /\ inbound[d] = "none"
  BY DEF Received
<1>2. row[d] \notin {"none", "CREATED"}
  BY <1>1 DEF Inv, Untouched
<1>3. /\ inbound' = [inbound EXCEPT ![d] = "RECEIVED"]
      /\ row' = IF row[d] \in {"SENT", "RECEIVED"} THEN [row EXCEPT ![d] = "RECEIVED"] ELSE row
      /\ UNCHANGED <<posted, call, next, phase, pending, resent>>
  BY DEF Received, Receipt
<1>4. row[d] \in {"SENT", "ATTEMPTING", "FAILED"}
  BY <1>1, <1>2 DEF Inv, TypeOK, RowStates, NeverReconciled, ReceiptFirst
<1>5. row[d] = "SENT" => row' = [row EXCEPT ![d] = "RECEIVED"]
  BY <1>3
<1>6. row[d] # "SENT" => row' = row
  BY <1>3, <1>4
<1>7. TypeOK'
  BY <1>3, <1>4, <1>5, <1>6 DEF Inv, TypeOK, RowStates
<1>8. Untouched' /\ UnderWay' /\ Pending' /\ Resending'
  BY <1>3, <1>4, <1>5, <1>6 DEF Inv, TypeOK, Untouched, UnderWay, Pending, Resending
<1>9. NeverReconciled' /\ ReceiptFirst' /\ NoBlindDuplicate' /\ ReceiptRecorded'
  BY <1>3, <1>4, <1>5, <1>6
     DEF Inv, TypeOK, NeverReconciled, ReceiptFirst, NoBlindDuplicate, ReceiptRecorded
<1>10. QED
  BY <1>7, <1>8, <1>9 DEF Inv

LEMMA InvProcessed == ASSUME Inv, NEW d \in Deliveries, Processed(d) PROVE Inv'
<1>1. /\ inbound[d] = "RECEIVED" /\ inbound' = [inbound EXCEPT ![d] = "PROCESSED"]
      /\ row' = IF row[d] \in {"SENT", "RECEIVED"} THEN [row EXCEPT ![d] = "PROCESSED"] ELSE row
      /\ UNCHANGED <<posted, call, next, phase, pending, resent>>
  BY DEF Processed, Receipt
<1>2. row[d] \in {"SENT", "RECEIVED"} => row' = [row EXCEPT ![d] = "PROCESSED"]
  BY <1>1
<1>3. row[d] \notin {"SENT", "RECEIVED"} => row' = row
  BY <1>1
<1>4. row[d] \notin {"none", "CREATED"}
  BY <1>1 DEF Inv, Untouched
<1>5. d \notin resent => row[d] \in {"ATTEMPTING", "FAILED", "RECEIVED"}
  BY <1>1 DEF Inv, ReceiptRecorded
<1>6. TypeOK'
  BY <1>1, <1>2, <1>3 DEF Inv, TypeOK, RowStates
<1>7. Untouched' /\ UnderWay' /\ Pending' /\ Resending'
  BY <1>1, <1>2, <1>3, <1>4 DEF Inv, TypeOK, Untouched, UnderWay, Pending, Resending
<1>8. NeverReconciled' /\ ReceiptFirst' /\ NoBlindDuplicate'
  BY <1>1, <1>2, <1>3 DEF Inv, TypeOK, NeverReconciled, ReceiptFirst, NoBlindDuplicate
<1>9. ReceiptRecorded'
  BY <1>1, <1>2, <1>3, <1>5 DEF Inv, TypeOK, ReceiptRecorded
<1>10. QED
  BY <1>6, <1>7, <1>8, <1>9 DEF Inv

\* The process dies and comes back: calls end, and what it reads to send again
\* is what nobody began to send.
LEMMA InvCrash == ASSUME Inv, Crash PROVE Inv'
<1>1. /\ call' = [d \in Deliveries |-> "idle"] /\ phase' = "starting" /\ pending' = {}
      /\ UNCHANGED <<row, posted, next, inbound, resent>>
  BY DEF Crash, Restart
<1>2. QED
  BY <1>1 DEF Inv, TypeOK, Untouched, UnderWay, Pending, Resending, NeverReconciled,
              ReceiptFirst, NoBlindDuplicate, ReceiptRecorded

LEMMA InvDieAfterCreate == ASSUME Inv, NEW d \in Deliveries, DieAfterCreate(d) PROVE Inv'
<1>1. /\ call' = [e \in Deliveries |-> "idle"] /\ phase' = "starting" /\ pending' = {}
      /\ row[d] = "none" /\ row' = [row EXCEPT ![d] = "CREATED"]
      /\ UNCHANGED <<posted, next, inbound, resent>>
  BY DEF DieAfterCreate, Restart
<1>2. TypeOK'
  BY <1>1 DEF Inv, TypeOK, RowStates
<1>3. Untouched' /\ UnderWay' /\ Pending' /\ Resending'
  BY <1>1 DEF Inv, TypeOK, Untouched, UnderWay, Pending, Resending
<1>4. NeverReconciled' /\ ReceiptFirst' /\ NoBlindDuplicate' /\ ReceiptRecorded'
  BY <1>1 DEF Inv, TypeOK, Untouched, NeverReconciled, ReceiptFirst, NoBlindDuplicate,
              ReceiptRecorded
<1>5. QED
  BY <1>2, <1>3, <1>4 DEF Inv

LEMMA InvReconcile == ASSUME Inv, Reconcile PROVE Inv'
<1>1. \A d \in Deliveries : Reconciled(row[d]) = row[d]
  BY DEF Inv, NeverReconciled, Reconciled
<1>2. row' = row
  BY <1>1 DEF Inv, TypeOK, Reconcile
<1>3. phase' = "recovering" /\ UNCHANGED <<posted, call, next, inbound, pending, resent>>
  BY DEF Reconcile
<1>4. QED
  BY <1>2, <1>3 DEF Inv, TypeOK, Untouched, UnderWay, Pending, Resending, NeverReconciled,
                    ReceiptFirst, NoBlindDuplicate, ReceiptRecorded

LEMMA InvReadPending == ASSUME Inv, ReadPending PROVE Inv'
<1>1. /\ phase' = "resending" /\ pending' = {d \in Deliveries : row[d] = "CREATED"}
      /\ UNCHANGED <<row, posted, call, next, inbound, resent>>
  BY DEF ReadPending, Unsent
<1>2. QED
  BY <1>1 DEF Inv, TypeOK, Untouched, UnderWay, Pending, Resending, NeverReconciled,
              ReceiptFirst, NoBlindDuplicate, ReceiptRecorded

LEMMA InvResend ==
  ASSUME Inv, NEW d \in Deliveries, Fragments \in Nat \ {0}, Resend(d) PROVE Inv'
<1>1. /\ d \in pending /\ row' = [row EXCEPT ![d] = "ATTEMPTING"]
      /\ call' = [call EXCEPT ![d] = "resend"] /\ next' = [next EXCEPT ![d] = 1]
      /\ pending' = pending \ {d} /\ resent' = resent \cup {d}
      /\ UNCHANGED <<posted, inbound, phase>>
  BY DEF Resend
<1>2. row[d] = "CREATED"
  BY <1>1 DEF Inv, Pending
<1>3. TypeOK'
  BY <1>1 DEF Inv, TypeOK, RowStates
<1>4. Untouched' /\ UnderWay' /\ Pending' /\ Resending'
  BY <1>1, <1>2 DEF Inv, TypeOK, Untouched, UnderWay, Pending, Resending
<1>5. NeverReconciled' /\ ReceiptFirst' /\ NoBlindDuplicate' /\ ReceiptRecorded'
  BY <1>1, <1>2 DEF Inv, TypeOK, NeverReconciled, ReceiptFirst, NoBlindDuplicate,
                    ReceiptRecorded
<1>6. QED
  BY <1>3, <1>4, <1>5 DEF Inv

LEMMA InvNext == ASSUME Inv, [Next]_vars, Fragments \in Nat \ {0} PROVE Inv'
<1>1. ASSUME NEW d \in Deliveries, Publish(d) \/ Post(d) \/ Sent(d) \/ SendFails(d) PROVE Inv'
  BY <1>1, InvPublish, InvPost, InvSent, InvSendFails
<1>2. ASSUME NEW d \in Deliveries, Received(d) \/ Processed(d) PROVE Inv'
  BY <1>2, InvReceived, InvProcessed
<1>3. ASSUME NEW d \in Deliveries, DieAfterCreate(d) \/ Resend(d) PROVE Inv'
  BY <1>3, InvDieAfterCreate, InvResend
<1>4. CASE Crash \/ Reconcile \/ ReadPending
  BY <1>4, InvCrash, InvReconcile, InvReadPending
<1>5. CASE Started
  BY <1>5 DEF Started, Inv, TypeOK, Untouched, UnderWay, Pending, Resending, NeverReconciled,
              ReceiptFirst, NoBlindDuplicate, ReceiptRecorded
<1>6. CASE UNCHANGED vars
  BY <1>6 DEF vars, Inv, TypeOK, Untouched, UnderWay, Pending, Resending, NeverReconciled,
              ReceiptFirst, NoBlindDuplicate, ReceiptRecorded
<1>7. QED
  BY <1>1, <1>2, <1>3, <1>4, <1>5, <1>6 DEF Next

\* However the process dies and restarts, no fragment of an envelope is posted
\* twice: recoverPendingDeliveries sends only rows whose send never began.
THEOREM NeverPostedTwice ==
  ASSUME Fragments \in Nat \ {0}
  PROVE  Spec => []NoBlindDuplicate
<1>1. Init => Inv
  BY InvInit
<1>2. Inv /\ [Next]_vars => Inv'
  BY InvNext
<1>3. Inv => NoBlindDuplicate
  BY DEF Inv
<1>4. QED
  BY <1>1, <1>2, <1>3, PTL DEF Spec

\* A receipt that came before the send returned, and one that comes after it,
\* both stand in the row of an envelope that was not sent again.
THEOREM ReceiptsRecorded ==
  ASSUME Fragments \in Nat \ {0}
  PROVE  Spec => []ReceiptRecorded
<1>1. Init => Inv
  BY InvInit
<1>2. Inv /\ [Next]_vars => Inv'
  BY InvNext
<1>3. Inv => ReceiptRecorded
  BY DEF Inv
<1>4. QED
  BY <1>1, <1>2, <1>3, PTL DEF Spec
=============================================================================
