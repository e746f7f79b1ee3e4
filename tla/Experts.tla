------------------------------ MODULE Experts ------------------------------
(***************************************************************************)
(* Experts called into the team of one Task: requestExpert decides on a    *)
(* request in one go and then awaits the messages that invite the expert,  *)
(* whose ACK and EXPERT_RESULT come back through InboundGuard in any order,*)
(* the ACK without a look at what was answered before.                     *)
(***************************************************************************)
EXTENDS Naturals

CONSTANTS
  Requests,  \* rows of expert_requests that may be made, 1 .. n in order
  Roles,     \* roles that may be asked for
  Team       \* roles the team of the Task has

VARIABLES
  request,  \* role and status of each expert_requests row
  member,   \* the expert_memberships row of each role: request and status
  call,     \* what the call that made the request still has to send
  invited   \* requests whose EXPERT_INVITE is out

vars == <<request, member, call, invited>>

Results == {"PASS", "FAIL", "BLOCKED"}
Engaged == {"INVITED", "ACTIVE"}
NoMember == [by |-> 0, status |-> "none"]

TypeOK ==
  /\ request \in [Requests -> [role : Roles \cup {"none"},
       status : {"none", "NOT_NEEDED", "UNAVAILABLE"} \cup Engaged \cup Results]]
  /\ member \in [Roles -> [by : Requests \cup {0}, status : {"none"} \cup Engaged \cup Results]]
  /\ call \in [Requests -> {"idle", "announce", "join", "invite"}]
  /\ invited \subseteq Requests

Init ==
  /\ request = [i \in Requests |-> [role |-> "none", status |-> "none"]]
  /\ member = [r \in Roles |-> NoMember]
  /\ call = [i \in Requests |-> "idle"] /\ invited = {}

-----------------------------------------------------------------------------
New(i) == request[i].status = "none" /\ \A j \in Requests : j < i => request[j].status # "none"
Made(i, role, status) == request' = [request EXCEPT ![i] = [role |-> role, status |-> status]]

\* teamMembers: an expert that answered is no member any more.
InTeam(role) == role \in Team \/ member[role].status \in Engaged

TakenNow(role) == InTeam(role)

\* A role that ever had an expert does not get another.
Taken(role) == InTeam(role) \/ member[role] # NoMember

\* Some member has the role, or all the capabilities asked for.
NotNeeded(i, role) ==
  /\ New(i) /\ Made(i, role, "NOT_NEEDED")
  /\ UNCHANGED <<member, call, invited>>

\* No agent, or no verified model for it: the Task waits for Main.
NotToBeHad(i, role) ==
  /\ New(i) /\ ~Taken(role)
  /\ \E status \in {"UNAVAILABLE", "BLOCKED"} : Made(i, role, status)
  /\ UNCHANGED <<member, call, invited>>

\* addMembership fails on a role that has a row, after the request was updated.
Chosen(i, role) ==
  /\ New(i) /\ ~Taken(role) /\ Made(i, role, "INVITED")
  /\ IF member[role] = NoMember
       THEN /\ member' = [member EXCEPT ![role] = [by |-> i, status |-> "INVITED"]]
            /\ \E first \in {"announce", "join"} : call' = [call EXCEPT ![i] = first]
     ELSE UNCHANGED <<member, call>>
  /\ UNCHANGED invited

\* EXPERT_REQUEST, unless it is what came in; the join notice; EXPERT_INVITE.
Sends(i) ==
  /\ call[i] # "idle"
  /\ call' = [call EXCEPT ![i] = CASE @ = "announce" -> "join" [] @ = "join" -> "invite"
                                   [] OTHER -> "idle"]
  /\ invited' = IF call[i] = "invite" THEN invited \cup {i} ELSE invited
  /\ UNCHANGED <<request, member>>
SendFails(i) ==
  /\ call[i] # "idle" /\ call' = [call EXCEPT ![i] = "idle"]
  /\ UNCHANGED <<request, member, invited>>
Crash ==
  /\ call' = [i \in Requests |-> "idle"]
  /\ UNCHANGED <<request, member, invited>>

-----------------------------------------------------------------------------
\* An answer of the selected agent goes to the membership and to the request.
Answered(i, status) ==
  /\ request' = [request EXCEPT ![i].status = status]
  /\ member' = [member EXCEPT ![request[i].role].status = status]

\* The ACK, late or repeated, of an expert that was invited.
Acknowledges(i) ==
  /\ i \in invited /\ Answered(i, "ACTIVE")
  /\ UNCHANGED <<call, invited>>

\* InboundGuard passes a result of an expert that has not failed.
Reports(i, status) ==
  /\ i \in invited /\ member[request[i].role].status \in Engaged \cup {"PASS"}
  /\ Answered(i, status)
  /\ UNCHANGED <<call, invited>>

Next ==
  \/ \E i \in Requests, r \in Roles : NotNeeded(i, r) \/ NotToBeHad(i, r) \/ Chosen(i, r)
  \/ \E i \in Requests : \/ Sends(i) \/ SendFails(i) \/ Acknowledges(i)
                         \/ \E status \in Results : Reports(i, status)
  \/ Crash

Spec == Init /\ [][Next]_vars

-----------------------------------------------------------------------------
\* The team and the requests tell the same story, whatever order the answers
\* came in: a membership has the role and status of the request that made it,
\* and an engaged request has the membership of its role.  So a role never has a
\* second expert: not while the first is under way, not when its invitation was
\* cut short, not after it failed and left the team.
TeamFollowsRequests ==
  /\ \A r \in Roles : member[r] # NoMember =>
       request[member[r].by] = [role |-> r, status |-> member[r].status]
  /\ \A i \in Requests : request[i].status \in Engaged => member[request[i].role].by = i
=============================================================================
