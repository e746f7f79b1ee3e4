--------------------------- MODULE ExpertsProofs ---------------------------
(***************************************************************************)
(* Memberships and requests tell the same story, for any number of         *)
(* requests and of Roles, in whatever order the answers come.  What has to *)
(* be known besides is that an expert who is being invited, or was, still  *)
(* has the membership of its Role: a later request never takes it over.    *)
(***************************************************************************)
EXTENDS Experts, TLAPS

Statuses == {"none", "NOT_NEEDED", "UNAVAILABLE"} \cup Engaged \cup Results
RoleNames == Roles \cup {"none"}
Shapes ==
  /\ request \in [Requests -> [role : RoleNames, status : Statuses]]
  /\ member \in [Roles -> [by : Requests \cup {0}, status : Statuses]]
  /\ call \in [Requests -> {"idle", "announce", "join", "invite"}]
  /\ invited \subseteq Requests

\* A row of a membership names a request, one that was decided.
RowsNamed ==
  \A r \in Roles : member[r] # NoMember => member[r].by \in Requests /\ member[r].status # "none"

\* The expert that is being invited, or was, has the membership of its role.
Linked ==
  \A i \in Requests :
    i \in invited \/ call[i] # "idle" \/ request[i].status \in Engaged =>
      request[i].role \in Roles /\ member[request[i].role].by = i

Inv == Shapes /\ RowsNamed /\ Linked /\ TeamFollowsRequests

LEMMA InvInit == ASSUME 0 \notin Requests, Init PROVE Inv
<1> DEFINE nothing == [role |-> "none", status |-> "none"]
<1>1. nothing \in [role : RoleNames, status : Statuses]
  BY DEF RoleNames, Statuses
<1>2. NoMember \in [by : Requests \cup {0}, status : Statuses]
  BY DEF NoMember, Statuses
<1>3. request = [i \in Requests |-> nothing] /\ member = [r \in Roles |-> NoMember]
      /\ call = [i \in Requests |-> "idle"] /\ invited = {}
  BY DEF Init
<1>4. nothing.status \notin Engaged
  BY DEF Engaged
<1> HIDE DEF nothing
<1>5. Shapes
  BY <1>1, <1>2, <1>3 DEF Shapes
<1>6. RowsNamed /\ Linked
  BY <1>3, <1>4 DEF RowsNamed, Linked
<1>7. TeamFollowsRequests
  BY <1>3, <1>4 DEF TeamFollowsRequests
<1>8. QED
  BY <1>5, <1>6, <1>7 DEF Inv

\* No row of a membership names a request that is still to be made.
LEMMA NewIsNobody ==
  ASSUME Inv, 0 \notin Requests, NEW i \in Requests, New(i), NEW r \in Roles
  PROVE  member[r].by # i
<1>1. request[i].status = "none"
  BY DEF New
<1>2. CASE member[r] = NoMember
  BY <1>2 DEF NoMember
<1>3. CASE member[r] # NoMember
  <2>1. member[r].status # "none"
    BY <1>3 DEF Inv, RowsNamed
  <2>2. request[member[r].by] = [role |-> r, status |-> member[r].status]
    BY <1>3 DEF Inv, TeamFollowsRequests
  <2>3. request[member[r].by].status = member[r].status
    BY <2>2
  <2>4. QED
    BY <2>1, <2>3, <1>1
<1>4. QED
  BY <1>2, <1>3

\* A request that ends without an expert.
LEMMA InvRefused ==
  ASSUME Inv, 0 \notin Requests, NEW i \in Requests, NEW r \in Roles, New(i),
         NEW status \in Statuses, status \notin Engaged, Made(i, r, status),
         UNCHANGED <<member, call, invited>>
  PROVE  Inv'
<1> DEFINE made == [role |-> r, status |-> status]
<1>1. request' = [request EXCEPT ![i] = made]
  BY DEF Made
<1>2. made \in [role : RoleNames, status : Statuses] /\ made.role = r /\ made.status = status
  BY DEF RoleNames
<1> HIDE DEF made
<1>3. Shapes'
  BY <1>1, <1>2 DEF Inv, Shapes
<1>4. i \notin invited /\ call[i] = "idle"
  BY NewIsNobody DEF Inv, Linked
<1>5. request' [i] = made /\ \A j \in Requests \ {i} : request'[j] = request[j]
  BY <1>1 DEF Inv, Shapes
<1>6. RowsNamed' /\ Linked'
  BY <1>2, <1>4, <1>5 DEF Inv, RowsNamed, Linked
<1>7. \A q \in Roles : member[q] # NoMember => member[q].by \in Requests \ {i}
  BY NewIsNobody DEF Inv, RowsNamed
<1>8. TeamFollowsRequests'
  BY <1>2, <1>5, <1>7 DEF Inv, TeamFollowsRequests
<1>9. QED
  BY <1>3, <1>6, <1>8 DEF Inv

LEMMA InvChosen ==
  ASSUME Inv, 0 \notin Requests, NEW i \in Requests, NEW r \in Roles, Chosen(i, r)
  PROVE  Inv'
<1> DEFINE made == [role |-> r, status |-> "INVITED"]
           row == [by |-> i, status |-> "INVITED"]
<1>1. member[r] = NoMember
  BY DEF Chosen, Taken
<1>2. /\ New(i) /\ request' = [request EXCEPT ![i] = made]
      /\ member' = [member EXCEPT ![r] = row] /\ UNCHANGED invited
  BY <1>1 DEF Chosen, Made
<1>3. PICK first \in {"announce", "join"} : call' = [call EXCEPT ![i] = first]
  BY <1>1 DEF Chosen
<1>4. /\ made \in [role : RoleNames, status : Statuses] /\ made.role = r
      /\ row \in [by : Requests \cup {0}, status : Statuses] /\ row.by = i
      /\ made.status = row.status /\ row.status # "none"
  BY DEF RoleNames, Statuses, Engaged
<1>5. made = [role |-> r, status |-> row.status]
  OBVIOUS
<1> HIDE DEF made, row
<1>6. Shapes'
  BY <1>2, <1>3, <1>4 DEF Inv, Shapes
<1>7. /\ request'[i] = made /\ \A j \in Requests \ {i} : request'[j] = request[j]
      /\ member'[r] = row /\ \A q \in Roles \ {r} : member'[q] = member[q]
  BY <1>2 DEF Inv, Shapes
<1>8. \A q \in Roles : member[q].by # i
  BY <1>2, NewIsNobody
<1>9. \A j \in Requests :
        j \in invited \/ call[j] # "idle" \/ request[j].status \in Engaged => request[j].role # r
  BY <1>1 DEF Inv, Linked, NoMember
<1>10. i \notin invited /\ call[i] = "idle"
  BY <1>8 DEF Inv, Linked
<1>11. \A j \in Requests \ {i} : call'[j] = call[j]
  BY <1>3 DEF Inv, Shapes
<1>12. RowsNamed'
  BY <1>4, <1>7 DEF Inv, RowsNamed
<1>13. Linked'
  BY <1>2, <1>4, <1>7, <1>9, <1>11 DEF Inv, Linked
<1>14. \A q \in Roles : member'[q] # NoMember =>
         request'[member'[q].by] = [role |-> q, status |-> member'[q].status]
  <2> SUFFICES ASSUME NEW q \in Roles, member'[q] # NoMember
               PROVE  request'[member'[q].by] = [role |-> q, status |-> member'[q].status]
    OBVIOUS
  <2>1. CASE q = r
    BY <2>1, <1>4, <1>5, <1>7
  <2>2. CASE q # r
    <3>1. member'[q] = member[q] /\ member[q].by \in Requests \ {i}
      BY <2>2, <1>7, <1>8 DEF Inv, RowsNamed
    <3>2. request[member[q].by] = [role |-> q, status |-> member[q].status]
      BY <3>1 DEF Inv, TeamFollowsRequests
    <3>3. QED
      BY <3>1, <3>2, <1>7
  <2>3. QED
    BY <2>1, <2>2
<1>15. QED
  BY <1>6, <1>12, <1>13, <1>14 DEF Inv, TeamFollowsRequests, Linked

\* An answer finds the membership of its own request and changes both alike.
LEMMA InvAnswered ==
  ASSUME Inv, 0 \notin Requests, NEW i \in invited, NEW status \in Engaged \cup Results,
         Answered(i, status), UNCHANGED <<call, invited>>
  PROVE  Inv'
<1> DEFINE r == request[i].role
           made == [request[i] EXCEPT !.status = status]
           row == [member[r] EXCEPT !.status = status]
<1>1. i \in Requests /\ r \in Roles /\ member[r].by = i
  BY DEF Inv, Shapes, Linked
<1>2. request' = [request EXCEPT ![i] = made] /\ member' = [member EXCEPT ![r] = row]
  BY DEF Answered
<1>3. status \in Statuses /\ status # "none"
  BY DEF Statuses, Engaged, Results
<1>4. request[i] \in [role : RoleNames, status : Statuses]
      /\ member[r] \in [by : Requests \cup {0}, status : Statuses]
  BY <1>1 DEF Inv, Shapes
<1>5. /\ made \in [role : RoleNames, status : Statuses] /\ made.role = r /\ made.status = status
      /\ row \in [by : Requests \cup {0}, status : Statuses] /\ row.by = i /\ row.status = status
      /\ made = [role |-> r, status |-> status]
  BY <1>1, <1>3, <1>4
<1> HIDE DEF made, row
<1>6. Shapes'
  BY <1>1, <1>2, <1>5 DEF Inv, Shapes
<1>7. /\ request'[i] = made /\ \A j \in Requests \ {i} : request'[j] = request[j]
      /\ member'[r] = row /\ \A q \in Roles \ {r} : member'[q] = member[q]
  BY <1>1, <1>2 DEF Inv, Shapes
<1>8. ASSUME NEW q \in Roles \ {r}, member[q] # NoMember PROVE member[q].by # i
  <2>1. request[member[q].by] = [role |-> q, status |-> member[q].status]
    BY <1>8 DEF Inv, TeamFollowsRequests
  <2>2. request[member[q].by].role = q
    BY <2>1
  <2>3. QED
    BY <2>2
<1> HIDE DEF r
<1>9. RowsNamed'
  BY <1>1, <1>3, <1>5, <1>7 DEF Inv, RowsNamed
<1>10. Linked'
  BY <1>1, <1>5, <1>7 DEF Inv, Linked
<1>11. \A q \in Roles : member'[q] # NoMember =>
         request'[member'[q].by] = [role |-> q, status |-> member'[q].status]
  <2> SUFFICES ASSUME NEW q \in Roles, member'[q] # NoMember
               PROVE  request'[member'[q].by] = [role |-> q, status |-> member'[q].status]
    OBVIOUS
  <2>1. CASE q = r
    BY <2>1, <1>5, <1>7
  <2>2. CASE q # r
    <3>1. member'[q] = member[q] /\ member[q].by \in Requests \ {i}
      BY <2>2, <1>7, <1>8 DEF Inv, RowsNamed
    <3>2. request[member[q].by] = [role |-> q, status |-> member[q].status]
      BY <3>1 DEF Inv, TeamFollowsRequests
    <3>3. QED
      BY <3>1, <3>2, <1>7
  <2>3. QED
    BY <2>1, <2>2
<1>12. QED
  BY <1>6, <1>9, <1>10, <1>11 DEF Inv, TeamFollowsRequests, Linked

\* A call sends, fails or is forgotten: the rows stay.
LEMMA InvCalls ==
  ASSUME Inv, UNCHANGED <<request, member>>,
         call' \in [Requests -> {"idle", "announce", "join", "invite"}],
         \A i \in Requests :
           i \in invited' \/ call'[i] # "idle" => i \in invited \/ call[i] # "idle",
         invited' \subseteq Requests
  PROVE  Inv'
BY DEF Inv, Shapes, RowsNamed, Linked, TeamFollowsRequests

LEMMA InvSends == ASSUME Inv, NEW i \in Requests, Sends(i) PROVE Inv'
<1>1. PICK after \in {"idle", "join", "invite"} : call' = [call EXCEPT ![i] = after]
  BY DEF Sends
<1>2. call[i] # "idle" /\ (invited' = invited \/ invited' = invited \cup {i})
  BY DEF Sends
<1>3. QED
  BY <1>1, <1>2, InvCalls DEF Inv, Shapes, Sends

LEMMA InvNext == ASSUME Inv, [Next]_vars, 0 \notin Requests PROVE Inv'
<1>1. ASSUME NEW i \in Requests, NEW r \in Roles, NotNeeded(i, r) \/ NotToBeHad(i, r) PROVE Inv'
  <2>1. \A status \in {"NOT_NEEDED", "UNAVAILABLE", "BLOCKED"} :
          status \in Statuses /\ status \notin Engaged
    BY DEF Statuses, Engaged, Results
  <2>2. /\ New(i) /\ UNCHANGED <<member, call, invited>>
        /\ \E status \in {"NOT_NEEDED", "UNAVAILABLE", "BLOCKED"} : Made(i, r, status)
    BY <1>1 DEF NotNeeded, NotToBeHad
  <2>3. QED
    BY <2>1, <2>2, InvRefused
<1>2. ASSUME NEW i \in Requests, NEW r \in Roles, Chosen(i, r) PROVE Inv'
  BY <1>2, InvChosen
<1>3. ASSUME NEW i \in Requests, Sends(i) PROVE Inv'
  BY <1>3, InvSends
<1>4. ASSUME NEW i \in Requests, SendFails(i) PROVE Inv'
  BY <1>4, InvCalls DEF SendFails, Inv, Shapes
<1>5. ASSUME NEW i \in Requests, Acknowledges(i) PROVE Inv'
  BY <1>5, InvAnswered DEF Acknowledges, Engaged
<1>6. ASSUME NEW i \in Requests, NEW status \in Results, Reports(i, status) PROVE Inv'
  BY <1>6, InvAnswered DEF Reports
<1>7. CASE Crash
  BY <1>7, InvCalls DEF Crash, Inv, Shapes
<1>8. CASE UNCHANGED vars
  BY <1>8, InvCalls DEF vars, Inv, Shapes
<1>9. QED
  BY <1>1, <1>2, <1>3, <1>4, <1>5, <1>6, <1>7, <1>8 DEF Next

\* The types, the narrower ones of the module: a membership is never refused.
LEMMA TypesInit == Init => TypeOK
<1>1. NoMember \in [by : Requests \cup {0}, status : {"none"} \cup Engaged \cup Results]
  BY DEF NoMember
<1>2. QED
  BY <1>1 DEF Init, TypeOK

LEMMA TypesNext == TypeOK /\ [Next]_vars => TypeOK'
<1> DEFINE Rows == [role : Roles \cup {"none"},
                    status : {"none", "NOT_NEEDED", "UNAVAILABLE"} \cup Engaged \cup Results]
           Members == [by : Requests \cup {0}, status : {"none"} \cup Engaged \cup Results]
<1> SUFFICES ASSUME TypeOK, [Next]_vars PROVE TypeOK'
  OBVIOUS
<1>1. request \in [Requests -> Rows] /\ member \in [Roles -> Members]
      /\ call \in [Requests -> {"idle", "announce", "join", "invite"}] /\ invited \subseteq Requests
  BY DEF TypeOK
<1>2. SUFFICES request' \in [Requests -> Rows] /\ member' \in [Roles -> Members]
               /\ call' \in [Requests -> {"idle", "announce", "join", "invite"}]
               /\ invited' \subseteq Requests
  BY DEF TypeOK
<1>3. \A r \in Roles, status \in {"NOT_NEEDED", "UNAVAILABLE", "BLOCKED", "INVITED"} :
        [role |-> r, status |-> status] \in Rows
  BY DEF Engaged, Results
<1>4. \A i \in Requests : [by |-> i, status |-> "INVITED"] \in Members
  BY DEF Engaged
<1>5. \A status \in Engaged \cup Results :
        /\ \A i \in Requests : [request[i] EXCEPT !.status = status] \in Rows
        /\ \A r \in Roles : [member[r] EXCEPT !.status = status] \in Members
  BY <1>1
<1> HIDE DEF Rows, Members
<1>6. CASE \E i \in Requests, r \in Roles : NotNeeded(i, r) \/ NotToBeHad(i, r)
  BY <1>1, <1>3, <1>6 DEF NotNeeded, NotToBeHad, Made
<1>7. CASE \E i \in Requests, r \in Roles : Chosen(i, r)
  BY <1>1, <1>3, <1>4, <1>7 DEF Chosen, Made
<1>8. CASE \E i \in Requests : Sends(i) \/ SendFails(i)
  BY <1>1, <1>8 DEF Sends, SendFails
<1>9. ASSUME NEW i \in Requests, NEW status \in Engaged \cup Results, Answered(i, status),
             UNCHANGED <<call, invited>>
      PROVE  request' \in [Requests -> Rows] /\ member' \in [Roles -> Members]
  <2> DEFINE r == request[i].role
  <2>1. /\ request' = [request EXCEPT ![i] = [request[i] EXCEPT !.status = status]]
        /\ member' = [member EXCEPT ![r] = [member[r] EXCEPT !.status = status]]
    BY <1>9 DEF Answered
  <2> HIDE DEF r
  <2>2. request' \in [Requests -> Rows]
    <3>1. PICK row \in Rows : request' = [request EXCEPT ![i] = row]
      BY <1>5, <2>1, <1>1
    <3>2. QED
      BY <1>1, <3>1
  <2>3. CASE r \in Roles
    BY <1>1, <1>5, <2>1, <2>2, <2>3
  <2>4. CASE r \notin Roles
    BY <1>1, <2>1, <2>2, <2>4
  <2>5. QED
    BY <2>3, <2>4
<1>10. CASE \E i \in Requests : Acknowledges(i) \/ \E status \in Results : Reports(i, status)
  BY <1>1, <1>9, <1>10 DEF Acknowledges, Reports, Engaged
<1>11. CASE Crash \/ UNCHANGED vars
  BY <1>1, <1>11 DEF Crash, vars
<1>12. QED
  BY <1>6, <1>7, <1>8, <1>10, <1>11 DEF Next

\* Every membership has the role and the status of the request that made it, and
\* every engaged request the membership of its role, so no role ever has a second
\* expert, whatever is sent, lost, repeated or answered late.
THEOREM TeamIsTrue ==
  ASSUME 0 \notin Requests
  PROVE  Spec => []TeamFollowsRequests
<1>1. Init => Inv
  BY InvInit
<1>2. Inv /\ [Next]_vars => Inv'
  BY InvNext
<1>3. Inv => TeamFollowsRequests
  BY DEF Inv
<1>4. QED
  BY <1>1, <1>2, <1>3, PTL DEF Spec
=============================================================================
