--------------------------- MODULE IdentityProofs ---------------------------
(***************************************************************************)
(* Proofs about Identity, for any number of users, invitations and requests *)
(* underway at once: an active administrator and an owner of the Team      *)
(* remain, a user has one open invitation at most, answers are final, and  *)
(* an acceptance makes a member.  Every action keeps the inductive         *)
(* invariant IInv of Identity: what a transaction has read under its lock  *)
(* stays true until it writes.                                             *)
(***************************************************************************)
EXTENDS Identity, FiniteSetTheorems, TLAPS

\* The counts of the code: where more than one administrator is active, another is.
LEMMA AnotherAdmin ==
    ASSUME TypeOK, NEW u \in ActiveAdmins, ~(Cardinality(ActiveAdmins) <= 1)
    PROVE  \E v \in ActiveAdmins : v # u
<1> SUFFICES ASSUME ActiveAdmins = {u} PROVE FALSE
  OBVIOUS
<1>1. Cardinality({u}) = 1
  BY FS_Singleton
<1> QED
  BY <1>1

\* One administrator, no Team and no request at first.
LEMMA InitInv == Init => IInv
<1> SUFFICES ASSUME Init PROVE IInv
  OBVIOUS
<1> USE IdentityAssumption DEF NoRole, Init
<1>1. TypeOK
  <2>1. request \in [Requests -> [op : Ops, target : Users \cup {NoUser}, role : Roles \cup {NoRole},
                                  invitation : Invitations \cup {NoInvitation},
                                  late : SUBSET Invitations, seen : Roles \cup {NoRole},
                                  step : {"none", "authorized", "checked"}]]
    BY DEF NoRequest, Ops, UserOps, TeamOps, RowOps
  <2>2. invitations \in [Invitations -> [user : Users \cup {NoUser}, role : Roles \cup {NoRole},
                                         state : Open \cup Answers \cup {"none"}]]
    BY DEF NoRow
  <2> QED
    BY <2>1, <2>2 DEF TypeOK
<1>2. AnAdministratorRemains /\ AnOwnerRemains /\ OneOpenInvitation
  BY DEF AnAdministratorRemains, ActiveAdmins, AnOwnerRemains, OneOpenInvitation, NoRow, Open
<1>3. /\ LocksHeldOnce /\ RowsOfTheTeam /\ RequestsOfTheTeam
      /\ AdminChecks /\ OwnerChecks /\ AnswerChecks
  BY DEF LocksHeldOnce, RowsOfTheTeam, RequestsOfTheTeam, AdminChecks, OwnerChecks, AnswerChecks, NoRequest, NoRow,
         UserOps, TeamOps, RowOps
<1> QED
  BY <1>1, <1>2, <1>3 DEF IInv

\* A request whose fields are of the right kind keeps the invariant.
LEMMA StartInv == ASSUME IInv, NEW r \in Requests, NEW op \in Ops,
                      NEW target \in Users, NEW given \in Roles \cup {NoRole},
                      NEW i \in Invitations \cup {NoInvitation}, NEW late \in SUBSET Invitations,
                      op \in {"put", "invite"} => given \in Roles,
                      op \in TeamOps \cup {"invite"} => created,
                      op \in RowOps \cup {"revoke"} =>
                          /\ i \in Invitations /\ invitations[i].state # "none"
                          /\ target = invitations[i].user,
                      Start(r, op, target, given, i, late) PROVE IInv'
<1> USE IdentityAssumption DEF NoRole, Start
<1>1. TypeOK'
  BY DEF IInv, TypeOK, NoRequest, Ops, UserOps, TeamOps, RowOps, Open, Answers, NoRow
<1>2. AnAdministratorRemains'
  BY DEF IInv, AnAdministratorRemains, ActiveAdmins
<1>3. AnOwnerRemains'
  BY DEF IInv, TypeOK, AnOwnerRemains
<1>4. OneOpenInvitation'
  BY DEF IInv, TypeOK, OneOpenInvitation, Open
<1>5. LocksHeldOnce'
  BY DEF IInv, TypeOK, LocksHeldOnce, LockOf, NoRequest
<1>6. RowsOfTheTeam'
  BY DEF IInv, TypeOK, RowsOfTheTeam
<1>7. RequestsOfTheTeam'
  BY DEF IInv, TypeOK, RequestsOfTheTeam, NoRequest, UserOps, TeamOps, RowOps
<1>8. AdminChecks'
  <2>1. ActiveAdmins' = ActiveAdmins /\ UNCHANGED status
    BY DEF ActiveAdmins
  <2> QED
    BY <2>1 DEF IInv, TypeOK, AdminChecks, NoRequest, UserOpAllowed, UserOps
<1>9. OwnerChecks'
  BY DEF IInv, TypeOK, OwnerChecks, NoRequest, RemoveAllowed, OtherOwner
<1>10. AnswerChecks'
  BY DEF IInv, TypeOK, AnswerChecks, NoRequest, Open
<1> QED
  BY <1>1, <1>2, <1>3, <1>4, <1>5, <1>6, <1>7, <1>8, <1>9, <1>10 DEF IInv

\* Check keeps the invariant: a lock is taken when it is free.
LEMMA CheckInv == ASSUME IInv, NEW r \in Requests, Check(r) PROVE IInv'
<1> USE IdentityAssumption DEF NoRole, Check
<1>1. TypeOK'
  <2>1. request[r].op = "put" => role[request[r].target] \in Roles \cup {NoRole}
    BY DEF IInv, TypeOK, RequestsOfTheTeam, TeamOps
  <2>2. request' \in [Requests -> [op : Ops, target : Users \cup {NoUser}, role : Roles \cup {NoRole},
                                  invitation : Invitations \cup {NoInvitation},
                                  late : SUBSET Invitations, seen : Roles \cup {NoRole},
                                  step : {"none", "authorized", "checked"}]]
    <3>1. CASE Allowed(r)
      <4> DEFINE new == IF request[r].op = "put" THEN role[request[r].target] ELSE NoRole
      <4>1. new \in Roles \cup {NoRole}
        BY <2>1
      <4> DEFINE Q == [op : Ops, target : Users \cup {NoUser}, role : Roles \cup {NoRole},
                       invitation : Invitations \cup {NoInvitation},
                       late : SUBSET Invitations, seen : Roles \cup {NoRole},
                       step : {"none", "authorized", "checked"}]
      <4>2. request \in [Requests -> Q]
        BY DEF IInv, TypeOK
      <4>3. \A q \in Q : [q EXCEPT !.step = "checked", !.seen = new] \in Q
        BY <4>1
      <4>4. request' = [request EXCEPT ![r] = [request[r] EXCEPT !.step = "checked", !.seen = new]]
        BY <3>1
      <4> HIDE DEF new, Q
      <4>5. request[r] \in Q
        BY <4>2
      <4>6. [request[r] EXCEPT !.step = "checked", !.seen = new] \in Q
        BY <4>3, <4>5
      <4>7. request' \in [Requests -> Q]
        BY <4>2, <4>4, <4>6
      <4> QED
        BY <4>7 DEF Q
    <3>2. CASE ~Allowed(r)
      BY <3>2 DEF IInv, TypeOK, NoRequest, Ops
    <3> QED
      BY <3>1, <3>2
  <2> QED
    BY <2>2 DEF IInv, TypeOK
<1>2. AnAdministratorRemains'
  BY DEF IInv, AnAdministratorRemains, ActiveAdmins
<1>3. AnOwnerRemains'
  BY DEF IInv, TypeOK, AnOwnerRemains
<1>4. OneOpenInvitation'
  BY DEF IInv, TypeOK, OneOpenInvitation, Open
<1>5. LocksHeldOnce'
  BY DEF IInv, TypeOK, LocksHeldOnce, LockOf, NoRequest, Free
<1>6. RowsOfTheTeam'
  BY DEF IInv, TypeOK, RowsOfTheTeam
<1>7. RequestsOfTheTeam'
  BY DEF IInv, TypeOK, RequestsOfTheTeam, NoRequest, UserOps, TeamOps, RowOps
<1>8. AdminChecks'
  <2>1. ActiveAdmins' = ActiveAdmins /\ UNCHANGED status
    BY DEF ActiveAdmins
  <2> SUFFICES ASSUME NEW q \in Requests, request'[q].step = "checked", request'[q].op \in UserOps
               PROVE  UserOpAllowed(request[q].op, request[q].target)
    BY <2>1 DEF IInv, TypeOK, AdminChecks, UserOpAllowed, NoRequest
  <2>2. CASE q = r
    <3>1. Allowed(r) /\ request[r].op \in UserOps
      BY <2>2 DEF IInv, TypeOK, NoRequest
    <3> QED
      BY <2>2, <3>1 DEF Allowed, UserOps
  <2>3. CASE q # r
    BY <2>3 DEF IInv, TypeOK, AdminChecks
  <2> QED
    BY <2>2, <2>3
<1>9. OwnerChecks'
  <2>1. /\ request[r].op = "put" /\ Allowed(r) => PutAllowed(request[r].target, request[r].role)
        /\ request[r].op = "remove" /\ Allowed(r) => RemoveAllowed(request[r].target)
    BY DEF Allowed, UserOps, TeamOps, RowOps
  <2> QED
    BY <2>1 DEF IInv, TypeOK, OwnerChecks, NoRequest, PutAllowed, RemoveAllowed, OtherOwner, UserOps, RowOps
<1>10. AnswerChecks'
  <2>1. request[r].op = "respond" /\ Allowed(r) => RespondAllowed(request[r].invitation)
    BY DEF Allowed, UserOps, TeamOps, RowOps
  <2> QED
    BY <2>1 DEF IInv, TypeOK, AnswerChecks, NoRequest, RespondAllowed
<1> QED
  BY <1>1, <1>2, <1>3, <1>4, <1>5, <1>6, <1>7, <1>8, <1>9, <1>10 DEF IInv

\* A request that fails keeps the invariant.
LEMMA FailInv == ASSUME IInv, NEW r \in Requests, Fail(r) PROVE IInv'
<1> USE IdentityAssumption DEF NoRole, Fail, Finish
<1>1. TypeOK'
  BY DEF IInv, TypeOK, NoRequest, Ops, UserOps, TeamOps, RowOps, Open, Answers, NoRow
<1>2. AnAdministratorRemains'
  BY DEF IInv, AnAdministratorRemains, ActiveAdmins
<1>3. AnOwnerRemains'
  BY DEF IInv, TypeOK, AnOwnerRemains
<1>4. OneOpenInvitation'
  BY DEF IInv, TypeOK, OneOpenInvitation, Open
<1>5. LocksHeldOnce'
  BY DEF IInv, TypeOK, LocksHeldOnce, LockOf, NoRequest
<1>6. RowsOfTheTeam'
  BY DEF IInv, TypeOK, RowsOfTheTeam
<1>7. RequestsOfTheTeam'
  BY DEF IInv, TypeOK, RequestsOfTheTeam, NoRequest, UserOps, TeamOps, RowOps
<1>8. AdminChecks'
  <2>1. ActiveAdmins' = ActiveAdmins /\ UNCHANGED status
    BY DEF ActiveAdmins
  <2> QED
    BY <2>1 DEF IInv, TypeOK, AdminChecks, NoRequest, UserOpAllowed, UserOps
<1>9. OwnerChecks'
  BY DEF IInv, TypeOK, OwnerChecks, NoRequest, RemoveAllowed, OtherOwner
<1>10. AnswerChecks'
  BY DEF IInv, TypeOK, AnswerChecks, NoRequest, Open
<1> QED
  BY <1>1, <1>2, <1>3, <1>4, <1>5, <1>6, <1>7, <1>8, <1>9, <1>10 DEF IInv

\* SetUserStatus keeps the invariant: no other transaction counts administrators.
LEMMA SetUserStatusInv == ASSUME IInv, NEW r \in Requests, SetUserStatus(r) PROVE IInv'
<1> USE IdentityAssumption DEF NoRole, SetUserStatus, Finish, Checked
<1>1. TypeOK'
  BY DEF IInv, TypeOK, NoRequest, Ops, UserOps, TeamOps, RowOps, Open, Answers, NoRow
<1>2. AnAdministratorRemains'
  <2>1. CASE Checked(r, "enable")
    BY <2>1 DEF IInv, TypeOK, AnAdministratorRemains, ActiveAdmins
  <2>2. CASE Checked(r, "disable")
    <3> DEFINE u == request[r].target
    <3>1. UserOpAllowed("disable", u)
      BY <2>2 DEF IInv, AdminChecks, UserOps
    <3>2. CASE u \in ActiveAdmins
      <4>1. PICK v \in ActiveAdmins : v # u
        BY <3>1, <3>2, AnotherAdmin DEF IInv, UserOpAllowed, ActiveAdmins
      <4> QED
        BY <2>2, <4>1 DEF IInv, TypeOK, AnAdministratorRemains, ActiveAdmins
    <3>3. CASE u \notin ActiveAdmins
      BY <2>2, <3>3 DEF IInv, TypeOK, AnAdministratorRemains, ActiveAdmins
    <3> QED
      BY <3>2, <3>3
  <2> QED
    BY <2>1, <2>2
<1>3. AnOwnerRemains'
  BY DEF IInv, TypeOK, AnOwnerRemains
<1>4. OneOpenInvitation'
  BY DEF IInv, TypeOK, OneOpenInvitation, Open
<1>5. LocksHeldOnce'
  BY DEF IInv, TypeOK, LocksHeldOnce, LockOf, NoRequest
<1>6. RowsOfTheTeam'
  BY DEF IInv, TypeOK, RowsOfTheTeam
<1>7. RequestsOfTheTeam'
  BY DEF IInv, TypeOK, RequestsOfTheTeam, NoRequest, UserOps, TeamOps, RowOps
<1>8. AdminChecks'
  <2>1. request[r].op \in UserOps /\ request[r].step = "checked"
    BY DEF UserOps
  <2> SUFFICES ASSUME NEW q \in Requests, request'[q].step = "checked", request'[q].op \in UserOps
               PROVE  FALSE
    BY DEF AdminChecks
  <2>2. q # r /\ request[q].step = "checked" /\ request[q].op \in UserOps
    BY DEF IInv, TypeOK, NoRequest
  <2>3. LockOf(q) = LockOf(r)
    BY <2>1, <2>2 DEF LockOf, UserOps, TeamOps
  <2> QED
    BY <2>1, <2>2, <2>3 DEF IInv, LocksHeldOnce
<1>9. OwnerChecks'
  BY DEF IInv, TypeOK, OwnerChecks, NoRequest, RemoveAllowed, OtherOwner
<1>10. AnswerChecks'
  BY DEF IInv, TypeOK, AnswerChecks, NoRequest, Open
<1> QED
  BY <1>1, <1>2, <1>3, <1>4, <1>5, <1>6, <1>7, <1>8, <1>9, <1>10 DEF IInv

\* SetSystemAdmin keeps the invariant.
LEMMA SetSystemAdminInv == ASSUME IInv, NEW r \in Requests, SetSystemAdmin(r) PROVE IInv'
<1> USE IdentityAssumption DEF NoRole, SetSystemAdmin, Finish, Checked
<1>1. TypeOK'
  <2>1. admins' \subseteq Users
    BY DEF IInv, TypeOK, RequestsOfTheTeam, UserOps
  <2> QED
    BY <2>1 DEF IInv, TypeOK, NoRequest, Ops, UserOps, TeamOps, RowOps, Open, Answers, NoRow
<1>2. AnAdministratorRemains'
  <2>1. CASE Checked(r, "grant")
    BY <2>1 DEF IInv, TypeOK, AnAdministratorRemains, ActiveAdmins
  <2>2. CASE Checked(r, "withdraw")
    <3> DEFINE u == request[r].target
    <3>1. UserOpAllowed("withdraw", u)
      BY <2>2 DEF IInv, AdminChecks, UserOps
    <3>2. CASE u \in ActiveAdmins
      <4>1. PICK v \in ActiveAdmins : v # u
        BY <3>1, <3>2, AnotherAdmin DEF IInv, UserOpAllowed, ActiveAdmins
      <4> QED
        BY <2>2, <4>1 DEF IInv, TypeOK, AnAdministratorRemains, ActiveAdmins
    <3>3. CASE u \notin ActiveAdmins
      BY <2>2, <3>3 DEF IInv, TypeOK, AnAdministratorRemains, ActiveAdmins
    <3> QED
      BY <3>2, <3>3
  <2> QED
    BY <2>1, <2>2
<1>3. AnOwnerRemains'
  BY DEF IInv, TypeOK, AnOwnerRemains
<1>4. OneOpenInvitation'
  BY DEF IInv, TypeOK, OneOpenInvitation, Open
<1>5. LocksHeldOnce'
  BY DEF IInv, TypeOK, LocksHeldOnce, LockOf, NoRequest
<1>6. RowsOfTheTeam'
  BY DEF IInv, TypeOK, RowsOfTheTeam
<1>7. RequestsOfTheTeam'
  BY DEF IInv, TypeOK, RequestsOfTheTeam, NoRequest, UserOps, TeamOps, RowOps
<1>8. AdminChecks'
  <2>1. request[r].op \in UserOps /\ request[r].step = "checked"
    BY DEF UserOps
  <2> SUFFICES ASSUME NEW q \in Requests, request'[q].step = "checked", request'[q].op \in UserOps
               PROVE  FALSE
    BY DEF AdminChecks
  <2>2. q # r /\ request[q].step = "checked" /\ request[q].op \in UserOps
    BY DEF IInv, TypeOK, NoRequest
  <2>3. LockOf(q) = LockOf(r)
    BY <2>1, <2>2 DEF LockOf, UserOps, TeamOps
  <2> QED
    BY <2>1, <2>2, <2>3 DEF IInv, LocksHeldOnce
<1>9. OwnerChecks'
  BY DEF IInv, TypeOK, OwnerChecks, NoRequest, RemoveAllowed, OtherOwner
<1>10. AnswerChecks'
  BY DEF IInv, TypeOK, AnswerChecks, NoRequest, Open
<1> QED
  BY <1>1, <1>2, <1>3, <1>4, <1>5, <1>6, <1>7, <1>8, <1>9, <1>10 DEF IInv

\* PutTeamMember keeps the invariant: no other transaction counts owners.
LEMMA PutTeamMemberInv == ASSUME IInv, NEW r \in Requests, PutTeamMember(r) PROVE IInv'
<1> USE IdentityAssumption DEF NoRole, PutTeamMember, Finish, Checked
<1>1. TypeOK'
  BY DEF IInv, TypeOK, NoRequest, Ops, UserOps, TeamOps, RowOps, Open, Answers, NoRow
<1>2. AnAdministratorRemains'
  BY DEF IInv, AnAdministratorRemains, ActiveAdmins
<1>3. AnOwnerRemains'
  <2> DEFINE u == request[r].target
  <2>1. u \in Users /\ created
    BY DEF IInv, RequestsOfTheTeam, TeamOps
  <2>2. CASE request[r].seen = NoRole /\ role[u] # NoRole
    BY <2>2 DEF IInv, TypeOK, AnOwnerRemains
  <2>3. CASE role[u] = "owner" /\ request[r].seen # NoRole /\ request[r].role # "owner"
    <3>1. OtherOwner(u)
      BY <2>3 DEF IInv, OwnerChecks
    <3> QED
      BY <2>1, <2>3, <3>1 DEF IInv, TypeOK, AnOwnerRemains, OtherOwner
  <2>4. CASE role[u] # "owner" \/ request[r].role = "owner"
    BY <2>1, <2>4 DEF IInv, TypeOK, AnOwnerRemains
  <2> QED
    BY <2>2, <2>3, <2>4
<1>4. OneOpenInvitation'
  BY DEF IInv, TypeOK, OneOpenInvitation, Open
<1>5. LocksHeldOnce'
  BY DEF IInv, TypeOK, LocksHeldOnce, LockOf, NoRequest
<1>6. RowsOfTheTeam'
  BY DEF IInv, TypeOK, RowsOfTheTeam, RequestsOfTheTeam, TeamOps
<1>7. RequestsOfTheTeam'
  BY DEF IInv, TypeOK, RequestsOfTheTeam, NoRequest, UserOps, TeamOps, RowOps
<1>8. AdminChecks'
  <2>1. ActiveAdmins' = ActiveAdmins /\ UNCHANGED status
    BY DEF ActiveAdmins
  <2> QED
    BY <2>1 DEF IInv, TypeOK, AdminChecks, NoRequest, UserOpAllowed, UserOps
<1>9. OwnerChecks'
  BY DEF IInv, TypeOK, OwnerChecks, NoRequest, RemoveAllowed, OtherOwner, LocksHeldOnce, LockOf, UserOps, TeamOps, RequestsOfTheTeam
<1>10. AnswerChecks'
  BY DEF IInv, TypeOK, AnswerChecks, NoRequest, Open
<1> QED
  BY <1>1, <1>2, <1>3, <1>4, <1>5, <1>6, <1>7, <1>8, <1>9, <1>10 DEF IInv

\* RemoveTeamMember keeps the invariant.
LEMMA RemoveTeamMemberInv == ASSUME IInv, NEW r \in Requests, RemoveTeamMember(r) PROVE IInv'
<1> USE IdentityAssumption DEF NoRole, RemoveTeamMember, Finish, Checked
<1>1. TypeOK'
  BY DEF IInv, TypeOK, NoRequest, Ops, UserOps, TeamOps, RowOps, Open, Answers, NoRow
<1>2. AnAdministratorRemains'
  BY DEF IInv, AnAdministratorRemains, ActiveAdmins
<1>3. AnOwnerRemains'
  BY DEF IInv, TypeOK, AnOwnerRemains, OwnerChecks, OtherOwner, RemoveAllowed
<1>4. OneOpenInvitation'
  BY DEF IInv, TypeOK, OneOpenInvitation, Open
<1>5. LocksHeldOnce'
  BY DEF IInv, TypeOK, LocksHeldOnce, LockOf, NoRequest
<1>6. RowsOfTheTeam'
  BY DEF IInv, TypeOK, RowsOfTheTeam
<1>7. RequestsOfTheTeam'
  BY DEF IInv, TypeOK, RequestsOfTheTeam, NoRequest, UserOps, TeamOps, RowOps
<1>8. AdminChecks'
  <2>1. ActiveAdmins' = ActiveAdmins /\ UNCHANGED status
    BY DEF ActiveAdmins
  <2> QED
    BY <2>1 DEF IInv, TypeOK, AdminChecks, NoRequest, UserOpAllowed, UserOps
<1>9. OwnerChecks'
  BY DEF IInv, TypeOK, OwnerChecks, NoRequest, RemoveAllowed, OtherOwner, LocksHeldOnce, LockOf, UserOps, TeamOps, RequestsOfTheTeam
<1>10. AnswerChecks'
  BY DEF IInv, TypeOK, AnswerChecks, NoRequest, Open
<1> QED
  BY <1>1, <1>2, <1>3, <1>4, <1>5, <1>6, <1>7, <1>8, <1>9, <1>10 DEF IInv

\* Accept keeps the invariant.
LEMMA AcceptInv == ASSUME IInv, NEW r \in Requests, Accept(r) PROVE IInv'
<1> USE IdentityAssumption DEF NoRole, Accept, Finish, Checked
<1>1. TypeOK'
  BY DEF IInv, TypeOK, NoRequest, Ops, UserOps, TeamOps, RowOps, Open, Answers, NoRow, RequestsOfTheTeam, RowsOfTheTeam
<1>2. AnAdministratorRemains'
  BY DEF IInv, AnAdministratorRemains, ActiveAdmins
<1>3. AnOwnerRemains'
  BY DEF IInv, TypeOK, AnOwnerRemains, RequestsOfTheTeam, RowsOfTheTeam, RowOps
<1>4. OneOpenInvitation'
  BY DEF IInv, TypeOK, OneOpenInvitation, Open
<1>5. LocksHeldOnce'
  BY DEF IInv, TypeOK, LocksHeldOnce, LockOf, NoRequest
<1>6. RowsOfTheTeam'
  <2> DEFINE i == request[r].invitation
  <2>1. i \in Invitations /\ created /\ request[r].target \in Users /\ created' = created
    BY DEF IInv, RowsOfTheTeam, RequestsOfTheTeam, RowOps
  <2>2. \A j \in Invitations : invitations'[j].user = invitations[j].user
                             /\ invitations'[j].role = invitations[j].role
    BY DEF IInv, TypeOK
  <2>3. \A j \in Invitations : invitations'[j].state # "none" => invitations[j].state # "none"
    BY DEF IInv, TypeOK, RequestsOfTheTeam, RowOps
  <2> QED
    BY <2>1, <2>2, <2>3 DEF IInv, RowsOfTheTeam
<1>7. RequestsOfTheTeam'
  BY DEF IInv, TypeOK, RequestsOfTheTeam, NoRequest, UserOps, TeamOps, RowOps
<1>8. AdminChecks'
  <2>1. ActiveAdmins' = ActiveAdmins /\ UNCHANGED status
    BY DEF ActiveAdmins
  <2> QED
    BY <2>1 DEF IInv, TypeOK, AdminChecks, NoRequest, UserOpAllowed, UserOps
<1>9. OwnerChecks'
  <2>1. \A u \in Users : role[u] # NoRole => role'[u] = role[u]
    BY DEF IInv, TypeOK
  <2>2. role' \in [Users -> Roles \cup {NoRole}]
    BY <1>1 DEF TypeOK
  <2>3. \A u \in Users : OtherOwner(u) => OtherOwner(u)'
    BY <2>1, <2>2 DEF IInv, TypeOK, OtherOwner
  <2>4. request'[r] = NoRequest /\ \A q \in Requests \ {r} : request'[q] = request[q]
    BY DEF IInv, TypeOK
  <2> SUFFICES ASSUME NEW q \in Requests, q # r, NEW u \in Users, u = request[q].target,
                      request[q].step = "checked"
               PROVE  /\ request[q].op = "put" /\ request[q].seen # NoRole =>
                            /\ role'[u] = request[q].seen
                            /\ role'[u] = "owner" /\ request[q].role # "owner" => OtherOwner(u)'
                      /\ request[q].op = "remove" => RemoveAllowed(u)'
    BY <2>4 DEF IInv, RequestsOfTheTeam, TeamOps, OwnerChecks, NoRequest, OtherOwner, RemoveAllowed
  <2>5. CASE request[q].op = "put" /\ request[q].seen # NoRole
    <3>1. role[u] = request[q].seen /\ (role[u] = "owner" /\ request[q].role # "owner" => OtherOwner(u))
      BY <2>5 DEF IInv, OwnerChecks
    <3> QED
      BY <2>1, <2>3, <2>5, <3>1
  <2>6. CASE request[q].op = "remove"
    <3>1. RemoveAllowed(u)
      BY <2>6 DEF IInv, OwnerChecks
    <3> QED
      BY <2>1, <2>3, <2>6, <3>1 DEF RemoveAllowed
  <2> QED
    BY <2>5, <2>6
<1>10. AnswerChecks'
  BY DEF IInv, TypeOK, AnswerChecks, NoRequest, Open, LocksHeldOnce, LockOf, UserOps, TeamOps, RowOps, RequestsOfTheTeam
<1> QED
  BY <1>1, <1>2, <1>3, <1>4, <1>5, <1>6, <1>7, <1>8, <1>9, <1>10 DEF IInv

\* Reject keeps the invariant.
LEMMA RejectInv == ASSUME IInv, NEW r \in Requests, Reject(r) PROVE IInv'
<1> USE IdentityAssumption DEF NoRole, Reject, Finish, Checked
<1>1. TypeOK'
  BY DEF IInv, TypeOK, NoRequest, Ops, UserOps, TeamOps, RowOps, Open, Answers, NoRow, RequestsOfTheTeam, RowsOfTheTeam
<1>2. AnAdministratorRemains'
  BY DEF IInv, AnAdministratorRemains, ActiveAdmins
<1>3. AnOwnerRemains'
  BY DEF IInv, TypeOK, AnOwnerRemains
<1>4. OneOpenInvitation'
  BY DEF IInv, TypeOK, OneOpenInvitation, Open
<1>5. LocksHeldOnce'
  BY DEF IInv, TypeOK, LocksHeldOnce, LockOf, NoRequest
<1>6. RowsOfTheTeam'
  BY DEF IInv, TypeOK, RowsOfTheTeam, RequestsOfTheTeam, RowOps
<1>7. RequestsOfTheTeam'
  BY DEF IInv, TypeOK, RequestsOfTheTeam, NoRequest, UserOps, TeamOps, RowOps
<1>8. AdminChecks'
  <2>1. ActiveAdmins' = ActiveAdmins /\ UNCHANGED status
    BY DEF ActiveAdmins
  <2> QED
    BY <2>1 DEF IInv, TypeOK, AdminChecks, NoRequest, UserOpAllowed, UserOps
<1>9. OwnerChecks'
  BY DEF IInv, TypeOK, OwnerChecks, NoRequest, RemoveAllowed, OtherOwner
<1>10. AnswerChecks'
  BY DEF IInv, TypeOK, AnswerChecks, NoRequest, Open, LocksHeldOnce, LockOf, UserOps, TeamOps, RowOps, RequestsOfTheTeam
<1> QED
  BY <1>1, <1>2, <1>3, <1>4, <1>5, <1>6, <1>7, <1>8, <1>9, <1>10 DEF IInv

\* ReissueInvitation keeps the invariant.
LEMMA ReissueInv == ASSUME IInv, NEW r \in Requests, ReissueInvitation(r) PROVE IInv'
<1> USE IdentityAssumption DEF NoRole, ReissueInvitation, Add, Finish, Checked
<1>1. TypeOK'
  BY DEF IInv, TypeOK, NoRequest, Ops, UserOps, TeamOps, RowOps, Open, Answers, NoRow, RowsAdded, RequestsOfTheTeam, RowsOfTheTeam
<1>2. AnAdministratorRemains'
  BY DEF IInv, AnAdministratorRemains, ActiveAdmins
<1>3. AnOwnerRemains'
  BY DEF IInv, TypeOK, AnOwnerRemains
<1>4. OneOpenInvitation'
  BY SMTT(30) DEF IInv, TypeOK, OneOpenInvitation, Open, RowsAdded
<1>5. LocksHeldOnce'
  BY DEF IInv, TypeOK, LocksHeldOnce, LockOf, NoRequest
<1>6. RowsOfTheTeam'
  BY DEF IInv, TypeOK, RowsOfTheTeam, RowsAdded, RequestsOfTheTeam, RowOps
<1>7. RequestsOfTheTeam'
  BY DEF IInv, TypeOK, RequestsOfTheTeam, NoRequest, UserOps, TeamOps, RowOps, RowsAdded
<1>8. AdminChecks'
  <2>1. ActiveAdmins' = ActiveAdmins /\ UNCHANGED status
    BY DEF ActiveAdmins
  <2> QED
    BY <2>1 DEF IInv, TypeOK, AdminChecks, NoRequest, UserOpAllowed, UserOps
<1>9. OwnerChecks'
  BY DEF IInv, TypeOK, OwnerChecks, NoRequest, RemoveAllowed, OtherOwner
<1>10. AnswerChecks'
  <2> SUFFICES ASSUME NEW q \in Requests, request'[q].step = "checked",
                      request'[q].op = "respond"
               PROVE  invitations'[request'[q].invitation].state \in Open
    BY DEF AnswerChecks
  <2> DEFINE j == request[q].invitation
  <2>1. q # r /\ request'[q] = request[q]
    BY DEF IInv, TypeOK, NoRequest
  <2>2. j \in Invitations /\ invitations[j].state \in Open
    BY <2>1 DEF IInv, AnswerChecks, RequestsOfTheTeam, RowOps
  <2>3. j # request[r].invitation
    BY <2>1 DEF IInv, LocksHeldOnce, LockOf, UserOps, TeamOps
  <2> QED
    BY <2>1, <2>2, <2>3 DEF IInv, TypeOK, RowsAdded, Open
<1> QED
  BY <1>1, <1>2, <1>3, <1>4, <1>5, <1>6, <1>7, <1>8, <1>9, <1>10 DEF IInv

\* CreateTeamInvitation keeps the invariant.
LEMMA CreateInvitationInv == ASSUME IInv, NEW r \in Requests, CreateTeamInvitation(r) PROVE IInv'
<1> USE IdentityAssumption DEF NoRole, CreateTeamInvitation, Add, Finish
<1>1. TypeOK'
  BY SMTT(30) DEF IInv, TypeOK, NoRequest, Ops, UserOps, TeamOps, RowOps, Open, Answers, NoRow, RowsAdded, RequestsOfTheTeam, RowsOfTheTeam
<1>2. AnAdministratorRemains'
  BY DEF IInv, AnAdministratorRemains, ActiveAdmins
<1>3. AnOwnerRemains'
  BY DEF IInv, TypeOK, AnOwnerRemains
<1>4. OneOpenInvitation'
  BY DEF IInv, TypeOK, OneOpenInvitation, Open, RowsAdded
<1>5. LocksHeldOnce'
  BY DEF IInv, TypeOK, LocksHeldOnce, LockOf, NoRequest
<1>6. RowsOfTheTeam'
  BY SMTT(30) DEF IInv, TypeOK, RowsOfTheTeam, RowsAdded, RequestsOfTheTeam
<1>7. RequestsOfTheTeam'
  BY DEF IInv, TypeOK, RequestsOfTheTeam, NoRequest, UserOps, TeamOps, RowOps, RowsAdded
<1>8. AdminChecks'
  <2>1. ActiveAdmins' = ActiveAdmins /\ UNCHANGED status
    BY DEF ActiveAdmins
  <2> QED
    BY <2>1 DEF IInv, TypeOK, AdminChecks, NoRequest, UserOpAllowed, UserOps
<1>9. OwnerChecks'
  BY DEF IInv, TypeOK, OwnerChecks, NoRequest, RemoveAllowed, OtherOwner
<1>10. AnswerChecks'
  <2> SUFFICES ASSUME NEW q \in Requests, request'[q].step = "checked",
                      request'[q].op = "respond"
               PROVE  invitations'[request'[q].invitation].state \in Open
    BY DEF AnswerChecks
  <2> DEFINE j == request[q].invitation
  <2>1. request'[q] = request[q]
    BY DEF IInv, TypeOK, NoRequest
  <2>2. j \in Invitations /\ invitations[j].state \in Open
    BY <2>1 DEF IInv, AnswerChecks, RequestsOfTheTeam, RowOps
  <2>3. LockOf(q) = j
    BY <2>1 DEF LockOf, UserOps, TeamOps
  <2>4. ~Free(j)
    BY <2>1, <2>3 DEF Free
  <2>5. j \notin {i \in request[r].late : invitations[i].state = "late"}
    BY <2>4
  <2> QED
    BY <2>1, <2>2, <2>5 DEF RowsAdded, Open
<1> QED
  BY <1>1, <1>2, <1>3, <1>4, <1>5, <1>6, <1>7, <1>8, <1>9, <1>10 DEF IInv

\* RevokeInvitation keeps the invariant.
LEMMA RevokeInv == ASSUME IInv, NEW r \in Requests, RevokeInvitation(r) PROVE IInv'
<1> USE IdentityAssumption DEF NoRole, RevokeInvitation, Finish
<1>1. TypeOK'
  BY DEF IInv, TypeOK, NoRequest, Ops, UserOps, TeamOps, RowOps, Open, Answers, NoRow, RequestsOfTheTeam, RowsOfTheTeam
<1>2. AnAdministratorRemains'
  BY DEF IInv, AnAdministratorRemains, ActiveAdmins
<1>3. AnOwnerRemains'
  BY DEF IInv, TypeOK, AnOwnerRemains
<1>4. OneOpenInvitation'
  BY DEF IInv, TypeOK, OneOpenInvitation, Open
<1>5. LocksHeldOnce'
  BY DEF IInv, TypeOK, LocksHeldOnce, LockOf, NoRequest
<1>6. RowsOfTheTeam'
  BY DEF IInv, TypeOK, RowsOfTheTeam, RequestsOfTheTeam, RowOps
<1>7. RequestsOfTheTeam'
  BY DEF IInv, TypeOK, RequestsOfTheTeam, NoRequest, UserOps, TeamOps, RowOps
<1>8. AdminChecks'
  <2>1. ActiveAdmins' = ActiveAdmins /\ UNCHANGED status
    BY DEF ActiveAdmins
  <2> QED
    BY <2>1 DEF IInv, TypeOK, AdminChecks, NoRequest, UserOpAllowed, UserOps
<1>9. OwnerChecks'
  BY DEF IInv, TypeOK, OwnerChecks, NoRequest, RemoveAllowed, OtherOwner
<1>10. AnswerChecks'
  <2> SUFFICES ASSUME NEW q \in Requests, request'[q].step = "checked",
                      request'[q].op = "respond"
               PROVE  invitations'[request'[q].invitation].state \in Open
    BY DEF AnswerChecks
  <2> DEFINE j == request[q].invitation
  <2>1. request'[q] = request[q]
    BY DEF IInv, TypeOK, NoRequest
  <2>2. j \in Invitations /\ invitations[j].state \in Open
    BY <2>1 DEF IInv, AnswerChecks, RequestsOfTheTeam, RowOps
  <2>3. LockOf(q) = j
    BY <2>1 DEF LockOf, UserOps, TeamOps
  <2>4. j # request[r].invitation
    BY <2>1, <2>3 DEF Free
  <2> QED
    BY <2>1, <2>2, <2>4 DEF IInv, TypeOK
<1> QED
  BY <1>1, <1>2, <1>3, <1>4, <1>5, <1>6, <1>7, <1>8, <1>9, <1>10 DEF IInv

\* CreateTeam keeps the invariant: nothing reads the Team before it exists.
LEMMA CreateTeamInv == ASSUME IInv, CreateTeam PROVE IInv'
<1> USE IdentityAssumption DEF NoRole, CreateTeam
<1>1. PICK u \in Users : role' = [role EXCEPT ![u] = "owner"]
  OBVIOUS
<1>2. TypeOK'
  BY <1>1 DEF IInv, TypeOK
<1>3. AnAdministratorRemains'
  BY DEF IInv, AnAdministratorRemains, ActiveAdmins
<1>4. AnOwnerRemains'
  BY <1>1 DEF IInv, TypeOK, AnOwnerRemains
<1>5. OneOpenInvitation' /\ LocksHeldOnce' /\ AnswerChecks'
  BY DEF IInv, OneOpenInvitation, LocksHeldOnce, LockOf, AnswerChecks
<1>6. RowsOfTheTeam' /\ RequestsOfTheTeam'
  BY DEF IInv, RowsOfTheTeam, RequestsOfTheTeam
<1>7. AdminChecks'
  <2>1. ActiveAdmins' = ActiveAdmins
    BY DEF ActiveAdmins
  <2> QED
    BY <2>1 DEF IInv, AdminChecks, UserOpAllowed
<1>8. OwnerChecks'
  <2> SUFFICES ASSUME NEW r \in Requests, request[r].step = "checked", request[r].op \in TeamOps
               PROVE  FALSE
    BY DEF OwnerChecks, TeamOps
  <2> QED
    BY DEF IInv, RequestsOfTheTeam
<1> QED
  BY <1>2, <1>3, <1>4, <1>5, <1>6, <1>7, <1>8 DEF IInv

\* A row that expires stays open.
LEMMA ExpireInv == ASSUME IInv, Expire PROVE IInv'
<1> USE IdentityAssumption DEF NoRole, Expire
<1>1. PICK i \in Invitations : /\ invitations[i].state = "pending"
                              /\ invitations' = [invitations EXCEPT ![i].state = "late"]
  OBVIOUS
<1>2. TypeOK'
  BY <1>1 DEF IInv, TypeOK, Open
<1>3. AnAdministratorRemains' /\ AnOwnerRemains'
  BY DEF IInv, AnAdministratorRemains, ActiveAdmins, AnOwnerRemains
<1>4. OneOpenInvitation' /\ AnswerChecks'
  BY <1>1 DEF IInv, TypeOK, OneOpenInvitation, AnswerChecks, Open
<1>5. LocksHeldOnce'
  BY DEF IInv, LocksHeldOnce, LockOf
<1>6. RowsOfTheTeam' /\ RequestsOfTheTeam'
  BY <1>1 DEF IInv, TypeOK, RowsOfTheTeam, RequestsOfTheTeam, RowOps
<1>7. AdminChecks'
  <2>1. ActiveAdmins' = ActiveAdmins
    BY DEF ActiveAdmins
  <2> QED
    BY <2>1 DEF IInv, AdminChecks, UserOpAllowed
<1>8. OwnerChecks'
  BY DEF IInv, OwnerChecks, OtherOwner, RemoveAllowed
<1> QED
  BY <1>2, <1>3, <1>4, <1>5, <1>6, <1>7, <1>8 DEF IInv

\* However a request starts, its fields are of the right kind.
LEMMA StartsInv ==
    ASSUME IInv, NEW r \in Requests,
           \/ StartUserOp(r) \/ StartPut(r) \/ StartRemove(r)
           \/ StartInvite(r) \/ StartRespond(r) \/ StartRow(r)
    PROVE  IInv'
<1> USE DEF Ops, UserOps, TeamOps, RowOps
<1>1. CASE StartUserOp(r)
  <2>1. PICK u \in Users, op \in UserOps : Start(r, op, u, NoRole, NoInvitation, {})
    BY <1>1 DEF StartUserOp
  <2> QED
    BY <2>1, StartInv
<1>2. CASE StartPut(r)
  <2>1. PICK u \in Users, new \in Roles : created /\ Start(r, "put", u, new, NoInvitation, {})
    BY <1>2 DEF StartPut
  <2> QED
    BY <2>1, StartInv
<1>3. CASE StartRemove(r)
  <2>1. PICK u \in Users : role[u] # NoRole /\ Start(r, "remove", u, NoRole, NoInvitation, {})
    BY <1>3 DEF StartRemove
  <2>2. created
    BY <2>1 DEF IInv, RowsOfTheTeam
  <2> QED
    BY <2>1, <2>2, StartInv
<1>4. CASE StartInvite(r)
  <2>1. PICK u \in Users, new \in Roles, late \in SUBSET Invitations :
           created /\ Start(r, "invite", u, new, NoInvitation, late)
    BY <1>4 DEF StartInvite
  <2> QED
    BY <2>1, StartInv
<1>5. CASE StartRespond(r)
  <2>1. PICK i \in Invitations :
           invitations[i].state = "pending" /\ Start(r, "respond", invitations[i].user, NoRole, i, {})
    BY <1>5 DEF StartRespond
  <2>2. invitations[i].user \in Users
    BY <2>1 DEF IInv, RowsOfTheTeam
  <2> QED
    BY <2>1, <2>2, StartInv
<1>6. CASE StartRow(r)
  <2>1. PICK i \in Invitations, op \in {"revoke", "reissue"} :
           invitations[i].state # "none" /\ Start(r, op, invitations[i].user, NoRole, i, {})
    BY <1>6 DEF StartRow
  <2>2. invitations[i].user \in Users
    BY <2>1 DEF IInv, RowsOfTheTeam
  <2> QED
    BY <2>1, <2>2, StartInv
<1> QED
  BY <1>1, <1>2, <1>3, <1>4, <1>5, <1>6

LEMMA NextInv == IInv /\ [Next]_vars => IInv'
<1> SUFFICES ASSUME IInv, [Next]_vars PROVE IInv'
  OBVIOUS
<1>1. CASE CreateTeam
  BY <1>1, CreateTeamInv
<1>2. CASE Expire
  BY <1>2, ExpireInv
<1>3. ASSUME NEW r \in Requests, Request(r) PROVE IInv'
  BY <1>3, StartsInv, CheckInv, FailInv, SetUserStatusInv, SetSystemAdminInv, PutTeamMemberInv, RemoveTeamMemberInv,
     AcceptInv, RejectInv, ReissueInv, CreateInvitationInv, RevokeInv DEF Request
<1>4. CASE UNCHANGED vars
  <2>1. ActiveAdmins' = ActiveAdmins
    BY <1>4 DEF vars, ActiveAdmins
  <2>2. TypeOK' /\ AnAdministratorRemains' /\ AnOwnerRemains' /\ OneOpenInvitation'
    BY <1>4, <2>1 DEF vars, IInv, TypeOK, AnAdministratorRemains, AnOwnerRemains, OneOpenInvitation
  <2>3. LocksHeldOnce' /\ RowsOfTheTeam' /\ RequestsOfTheTeam'
    BY <1>4 DEF vars, IInv, LocksHeldOnce, LockOf, RowsOfTheTeam, RequestsOfTheTeam
  <2>4. AdminChecks' /\ OwnerChecks' /\ AnswerChecks'
    BY <1>4, <2>1 DEF vars, IInv, AdminChecks, UserOpAllowed, OwnerChecks, OtherOwner, RemoveAllowed, AnswerChecks
  <2> QED
    BY <2>2, <2>3, <2>4 DEF IInv
<1> QED
  BY <1>1, <1>2, <1>3, <1>4 DEF Next

-----------------------------------------------------------------------------
\* The invariant holds: the variables keep their types, what a transaction has read
\* under its lock stays true until it writes.
THEOREM Invariance == Spec => []IInv
<1> QED
  BY InitInv, NextInv, PTL DEF Spec

\* Whatever SetEnabled and SetSystemAdmin do together, an active administrator
\* remains.
THEOREM AdministratorCorrect == Spec => []AnAdministratorRemains
<1>1. IInv => AnAdministratorRemains
  BY DEF IInv
<1> QED
  BY <1>1, Invariance, PTL

\* Whatever PutMember and RemoveMember do together, the Team keeps an owner.
THEOREM OwnerCorrect == Spec => []AnOwnerRemains
<1>1. IInv => AnOwnerRemains
  BY DEF IInv
<1> QED
  BY <1>1, Invariance, PTL

\* Whatever Invite, Reissue, Revoke and Respond do together, a user has one open
\* invitation at most.
THEOREM OneOpenCorrect == Spec => []OneOpenInvitation
<1>1. IInv => OneOpenInvitation
  BY DEF IInv
<1> QED
  BY <1>1, Invariance, PTL

-----------------------------------------------------------------------------
\* A step changes a row only while it is open, or adds it.
LEMMA AnswersKept ==
    ASSUME IInv, [Next]_vars, NEW i \in Invitations, invitations[i].state \in Answers
    PROVE  invitations'[i] = invitations[i]
<1> USE DEF Open, Answers
<1>1. ASSUME NEW r \in Requests, Accept(r) \/ Reject(r) PROVE invitations'[i] = invitations[i]
  <2>1. invitations[request[r].invitation].state \in Open
    BY <1>1 DEF IInv, AnswerChecks, Accept, Reject, Checked
  <2> QED
    BY <1>1, <2>1 DEF IInv, TypeOK, Accept, Reject
<1>2. ASSUME NEW closed \in SUBSET Invitations, i \notin closed, NEW u, NEW new,
             invitations' \in RowsAdded(closed, u, new)
      PROVE  invitations'[i] = invitations[i]
  BY <1>2 DEF RowsAdded
<1>3. ASSUME NEW r \in Requests, ReissueInvitation(r) PROVE invitations'[i] = invitations[i]
  BY <1>2, <1>3 DEF ReissueInvitation, Add, IInv, RequestsOfTheTeam, Checked, RowOps
<1>4. ASSUME NEW r \in Requests, CreateTeamInvitation(r) PROVE invitations'[i] = invitations[i]
  BY <1>2, <1>4 DEF CreateTeamInvitation, Add, IInv, TypeOK
<1>5. ASSUME NEW r \in Requests, RevokeInvitation(r) PROVE invitations'[i] = invitations[i]
  BY <1>5 DEF RevokeInvitation, IInv, TypeOK
<1>6. CASE Expire
  BY <1>6 DEF Expire, IInv, TypeOK
<1>7. ASSUME NEW r \in Requests,
             \/ StartUserOp(r) \/ StartPut(r) \/ StartRemove(r)
             \/ StartInvite(r) \/ StartRespond(r) \/ StartRow(r)
             \/ Check(r) \/ Fail(r) \/ SetUserStatus(r) \/ SetSystemAdmin(r)
             \/ PutTeamMember(r) \/ RemoveTeamMember(r)
      PROVE  invitations' = invitations
  BY <1>7 DEF StartUserOp, StartPut, StartRemove, StartInvite, StartRespond, StartRow, Start, Check, Fail,
              SetUserStatus, SetSystemAdmin, PutTeamMember, RemoveTeamMember
<1> QED
  BY <1>1, <1>3, <1>4, <1>5, <1>6, <1>7 DEF Next, Request, CreateTeam, vars

\* No revocation, reissue or second answer changes an answered invitation: whoever
\* holds its row has found it open under the lock.
THEOREM AnswerFinalCorrect == Spec => AnswerIsFinal
<1>1. IInv /\ [Next]_vars =>
        [\A i \in Invitations : invitations[i].state \in Answers => invitations'[i] = invitations[i]]_vars
  BY AnswersKept
<1> QED
  BY <1>1, Invariance, PTL DEF Spec, AnswerIsFinal

\* A row becomes accepted in no other step than Accept, for a user who was no member.
LEMMA Accepted ==
    ASSUME IInv, [Next]_vars, NEW i \in Invitations,
           invitations[i].state # "accepted", invitations'[i].state = "accepted"
    PROVE  /\ role[invitations[i].user] = NoRole
           /\ role' = [role EXCEPT ![invitations[i].user] = invitations[i].role]
<1> USE DEF Open, Answers
<1>1. ASSUME NEW r \in Requests, Accept(r)
      PROVE  /\ role[invitations[i].user] = NoRole
             /\ role' = [role EXCEPT ![invitations[i].user] = invitations[i].role]
  <2>1. request[r].invitation \in Invitations /\ request[r].target = invitations[request[r].invitation].user
    BY <1>1 DEF IInv, RequestsOfTheTeam, RowOps, Accept, Checked
  <2>2. request[r].invitation = i
    BY <1>1, <2>1 DEF IInv, TypeOK, Accept
  <2> QED
    BY <1>1, <2>1, <2>2 DEF Accept
<1>2. ASSUME NEW r \in Requests, Reject(r) PROVE FALSE
  BY <1>2 DEF IInv, TypeOK, Reject
<1>3. ASSUME NEW closed \in SUBSET Invitations, NEW u, NEW new, invitations' \in RowsAdded(closed, u, new)
      PROVE  FALSE
  <2>1. \/ invitations'[i].state = "pending"
        \/ invitations'[i] = [invitations[i] EXCEPT !.state = "revoked"]
        \/ invitations'[i] = invitations[i]
    BY <1>3 DEF RowsAdded
  <2> QED
    BY <2>1 DEF IInv, TypeOK
<1>4. ASSUME NEW r \in Requests, ReissueInvitation(r) \/ CreateTeamInvitation(r) PROVE FALSE
  <2>1. \A closed \in SUBSET Invitations : \A u, new : ~Add(r, closed, u, new)
    BY <1>3 DEF Add
  <2>2. CASE ReissueInvitation(r)
    <3>1. request[r].invitation \in Invitations
      BY <2>2 DEF IInv, RequestsOfTheTeam, RowOps, ReissueInvitation, Checked
    <3> QED
      BY <2>1, <2>2, <3>1 DEF ReissueInvitation
  <2>3. CASE CreateTeamInvitation(r)
    BY <2>1, <2>3 DEF CreateTeamInvitation, IInv, TypeOK
  <2> QED
    BY <1>4, <2>2, <2>3
<1>5. ASSUME NEW r \in Requests, RevokeInvitation(r) PROVE FALSE
  BY <1>5 DEF IInv, TypeOK, RevokeInvitation
<1>6. ~Expire
  BY DEF IInv, TypeOK, Expire
<1>7. ASSUME NEW r \in Requests,
             \/ StartUserOp(r) \/ StartPut(r) \/ StartRemove(r)
             \/ StartInvite(r) \/ StartRespond(r) \/ StartRow(r)
             \/ Check(r) \/ Fail(r) \/ SetUserStatus(r) \/ SetSystemAdmin(r)
             \/ PutTeamMember(r) \/ RemoveTeamMember(r)
      PROVE  FALSE
  BY <1>7 DEF StartUserOp, StartPut, StartRemove, StartInvite, StartRespond, StartRow, Start, Check, Fail,
              SetUserStatus, SetSystemAdmin, PutTeamMember, RemoveTeamMember
<1> QED
  BY <1>1, <1>2, <1>4, <1>5, <1>6, <1>7 DEF Next, Request, CreateTeam, vars

\* Nobody becomes a member of the Team twice, or in another role than the invitation
\* names, by accepting it.
THEOREM AcceptanceCorrect == Spec => AcceptanceMakesMember
<1>1. IInv /\ [Next]_vars =>
        [\A i \in Invitations :
            invitations[i].state # "accepted" /\ invitations'[i].state = "accepted"
            => /\ role[invitations[i].user] = NoRole
               /\ role' = [role EXCEPT ![invitations[i].user] = invitations[i].role]]_vars
  BY Accepted
<1> QED
  BY <1>1, Invariance, PTL DEF Spec, AcceptanceMakesMember
=============================================================================
