------------------------------ MODULE Identity ------------------------------
(***************************************************************************)
(* Users, system administrators, and the members and invitations of a Team *)
(* (UserService, TeamService and identity/dao).                            *)
(*                                                                         *)
(* A request reads who its actor is, without a transaction; opens a        *)
(* transaction that takes a lock and reads what it needs to know; and      *)
(* writes.  Requests interleave between these three steps.  The locks are  *)
(* those of the transactions: one for all administrators, one for the      *)
(* memberships of the Team, one for the row of each invitation.            *)
(*                                                                         *)
(* There is one Team, as Teams share nothing but users, and every User     *)
(* exists from the beginning.                                              *)
(***************************************************************************)
EXTENDS Naturals, FiniteSets

CONSTANTS Users,
          Roles,         \* the roles given in the Team
          Invitations,   \* ids of rows
          Requests,      \* requests underway at one time
          NoUser, NoInvitation

VARIABLES status,        \* of users
          admins,        \* members of the admin system group
          created,       \* does the Team exist
          role,          \* TeamMembership rows
          invitations,   \* TeamInvitation rows
          request        \* where each request stands

vars == <<status, admins, created, role, invitations, request>>

ASSUME IdentityAssumption ==
    /\ IsFiniteSet(Users)
    /\ "owner" \in Roles /\ Roles \subseteq {"owner", "admin", "maintainer", "developer", "viewer"}

NoRole == "none"

NoRequest == [op |-> "none", target |-> NoUser, role |-> NoRole, invitation |-> NoInvitation,
              late |-> {}, seen |-> NoRole, step |-> "none"]
NoRow == [user |-> NoUser, role |-> NoRole, state |-> "none"]

UserOps == {"enable", "disable", "grant", "withdraw"}
TeamOps == {"put", "remove"}
RowOps == {"respond", "reissue"}
Ops == UserOps \cup TeamOps \cup RowOps \cup {"invite", "revoke", "none"}

\* A row that nobody has answered is pending, or late once expires_at is past.
Open == {"pending", "late"}
Answers == {"accepted", "rejected", "revoked"}

TypeOK ==
    /\ status \in [Users -> {"active", "disabled"}]
    /\ admins \subseteq Users
    /\ created \in BOOLEAN
    /\ role \in [Users -> Roles \cup {NoRole}]
    /\ invitations \in [Invitations -> [user : Users \cup {NoUser}, role : Roles \cup {NoRole},
                                        state : Open \cup Answers \cup {"none"}]]
    /\ request \in [Requests -> [op : Ops, target : Users \cup {NoUser}, role : Roles \cup {NoRole},
                                 invitation : Invitations \cup {NoInvitation},
                                 late : SUBSET Invitations, seen : Roles \cup {NoRole},
                                 step : {"none", "authorized", "checked"}]]

\* Bootstrap makes one administrator; the others have registered.
Init ==
    /\ status = [u \in Users |-> "active"]
    /\ \E u \in Users : admins = {u}
    /\ created = FALSE
    /\ role = [u \in Users |-> NoRole]
    /\ invitations = [i \in Invitations |-> NoRow]
    /\ request = [r \in Requests |-> NoRequest]

ActiveAdmins == {u \in admins : status[u] = "active"}

-----------------------------------------------------------------------------
(* Authorization, before the transaction                                   *)

Start(r, op, target, given, invitation, late) ==
    /\ request[r] = NoRequest
    /\ request' = [request EXCEPT ![r] =
          [op |-> op, target |-> target, role |-> given, invitation |-> invitation,
           late |-> late, seen |-> NoRole, step |-> "authorized"]]
    /\ UNCHANGED <<status, admins, created, role, invitations>>

\* SetEnabled and SetSystemAdmin: an active administrator, towards somebody else.
StartUserOp(r) ==
    \E u \in Users, op \in UserOps :
        /\ \E actor \in ActiveAdmins : actor # u
        /\ Start(r, op, u, NoRole, NoInvitation, {})

\* canManageRole.
CanManage(actor, managed) ==
    \/ actor \in admins
    \/ role[actor] = "owner"
    \/ role[actor] = "admin" /\ managed # "owner"

\* PutMember compares the target's present role when it can read it.  A read that
\* fails is passed over, so that no guard on that role is left.
StartPut(r) ==
    \E u \in Users, new \in Roles :
        /\ created
        /\ \E actor \in Users : CanManage(actor, new)
        /\ Start(r, "put", u, new, NoInvitation, {})

StartRemove(r) ==
    \E u \in Users :
        /\ role[u] # NoRole /\ \E actor \in Users : CanManage(actor, role[u])
        /\ Start(r, "remove", u, NoRole, NoInvitation, {})

\* Invite reads the time here, and with it which rows are to be revoked as late.
StartInvite(r) ==
    \E u \in Users, new \in Roles :
        /\ created
        /\ \E actor \in Users : CanManage(actor, new)
        /\ status[u] = "active" /\ role[u] = NoRole
        /\ Start(r, "invite", u, new, NoInvitation,
                 {i \in Invitations : invitations[i].user = u /\ invitations[i].state = "late"})

\* Respond reads the time here: a row may expire before it is answered.
StartRespond(r) ==
    \E i \in Invitations :
        /\ invitations[i].state = "pending"
        /\ Start(r, "respond", invitations[i].user, NoRole, i, {})

\* Revoke and Reissue take a row in any state.
StartRow(r) ==
    \E i \in Invitations, op \in {"revoke", "reissue"} :
        /\ invitations[i].state # "none"
        /\ \E actor \in Users :
              /\ actor \in admins \/ role[actor] \in {"owner", "admin"}
              /\ CanManage(actor, invitations[i].role)
        /\ Start(r, op, invitations[i].user, NoRole, i, {})

-----------------------------------------------------------------------------
(* Transactions                                                            *)

\* lockSystemAdministrators, lockTeamMemberships, FOR UPDATE.
LockOf(r) == CASE request[r].op \in UserOps -> "administrators"
               [] request[r].op \in TeamOps -> "memberships"
               [] OTHER -> request[r].invitation

\* Fault: the lock is not waited for.
FreeAlways(lock) == TRUE
Free(lock) == \A q \in Requests : request[q].step = "checked" => LockOf(q) # lock

OtherOwner(u) == \E v \in Users \ {u} : role[v] = "owner"

\* Fault: disabling an administrator does not count the others.
UserOpAllowedUncounted(op, u) ==
    op = "withdraw" => ~(status[u] = "active" /\ Cardinality(ActiveAdmins) <= 1)
UserOpAllowed(op, u) ==
    /\ op = "disable" => ~(u \in ActiveAdmins /\ Cardinality(ActiveAdmins) <= 1)
    /\ op = "withdraw" => ~(status[u] = "active" /\ Cardinality(ActiveAdmins) <= 1)

PutAllowed(u, new) ==
    /\ status[u] = "active"
    /\ role[u] = "owner" /\ new # "owner" => OtherOwner(u)

RemoveAllowed(u) ==
    /\ role[u] # NoRole
    /\ role[u] = "owner" => OtherOwner(u)

RespondAllowed(i) == /\ invitations[i].state \in Open
                     /\ status[invitations[i].user] = "active"

ReissueAllowed(i) == /\ status[invitations[i].user] = "active"
                     /\ role[invitations[i].user] = NoRole

Allowed(r) ==
    LET q == request[r] IN
    CASE q.op \in UserOps -> UserOpAllowed(q.op, q.target)
      [] q.op = "put" -> PutAllowed(q.target, q.role)
      [] q.op = "remove" -> RemoveAllowed(q.target)
      [] q.op = "respond" -> RespondAllowed(q.invitation)
      [] q.op = "reissue" -> ReissueAllowed(q.invitation)

\* The transaction gets its lock, reads, and is refused or goes on.
Check(r) ==
    /\ request[r].step = "authorized"
    /\ request[r].op \in UserOps \cup TeamOps \cup RowOps
    /\ Free(LockOf(r))
    /\ request' = IF Allowed(r)
                  THEN [request EXCEPT ![r] = [@ EXCEPT
                           !.step = "checked",
                           !.seen = IF request[r].op = "put" THEN role[request[r].target] ELSE NoRole]]
                  ELSE [request EXCEPT ![r] = NoRequest]
    /\ UNCHANGED <<status, admins, created, role, invitations>>

Finish(r) == request' = [request EXCEPT ![r] = NoRequest]
Checked(r, op) == request[r].step = "checked" /\ request[r].op = op

SetUserStatus(r) ==
    /\ \E op \in {"enable", "disable"} :
          /\ Checked(r, op)
          /\ status' = [status EXCEPT ![request[r].target] =
                           IF op = "enable" THEN "active" ELSE "disabled"]
    /\ Finish(r)
    /\ UNCHANGED <<admins, created, role, invitations>>

SetSystemAdmin(r) ==
    /\ \/ Checked(r, "grant") /\ admins' = admins \cup {request[r].target}
       \/ Checked(r, "withdraw") /\ admins' = admins \ {request[r].target}
    /\ Finish(r)
    /\ UNCHANGED <<status, created, role, invitations>>

\* Where the transaction found no row it inserts one, and the primary key refuses
\* it if an acceptance was first.
PutTeamMember(r) ==
    LET u == request[r].target IN
    /\ Checked(r, "put")
    /\ role' = IF request[r].seen = NoRole /\ role[u] # NoRole THEN role
               ELSE [role EXCEPT ![u] = request[r].role]
    /\ Finish(r)
    /\ UNCHANGED <<status, admins, created, invitations>>

RemoveTeamMember(r) ==
    /\ Checked(r, "remove")
    /\ role' = [role EXCEPT ![request[r].target] = NoRole]
    /\ Finish(r)
    /\ UNCHANGED <<status, admins, created, invitations>>

\* The primary key of the memberships refuses an acceptance by a member.
\* Fault: the role of a member is overwritten.
AcceptOverwriting(r) ==
    LET i == request[r].invitation IN
    /\ Checked(r, "respond")
    /\ role' = [role EXCEPT ![request[r].target] = invitations[i].role]
    /\ invitations' = [invitations EXCEPT ![i].state = "accepted"]
    /\ Finish(r)
    /\ UNCHANGED <<status, admins, created>>
Accept(r) ==
    LET i == request[r].invitation
        u == request[r].target
    IN
    /\ Checked(r, "respond")
    /\ IF role[u] = NoRole
       THEN /\ role' = [role EXCEPT ![u] = invitations[i].role]
            /\ invitations' = [invitations EXCEPT ![i].state = "accepted"]
       ELSE UNCHANGED <<role, invitations>>
    /\ Finish(r)
    /\ UNCHANGED <<status, admins, created>>

Reject(r) ==
    /\ Checked(r, "respond")
    /\ invitations' = [invitations EXCEPT ![request[r].invitation].state = "rejected"]
    /\ Finish(r)
    /\ UNCHANGED <<status, admins, created, role>>

\* The rows as they are when those of `closed` are revoked and one is added for u;
\* the partial unique index refuses it beside another open row.
\* Fault: there is no unique index.
RowsAddedTwice(closed, u, new) ==
    {[i \in Invitations |-> IF i = added THEN [user |-> u, role |-> new, state |-> "pending"]
                            ELSE IF i \in closed THEN [invitations[i] EXCEPT !.state = "revoked"]
                            ELSE invitations[i]]
       : added \in {i \in Invitations : invitations[i].state = "none"}}
RowsAdded(closed, u, new) ==
    {rows \in {[i \in Invitations |->
                   IF i = added THEN [user |-> u, role |-> new, state |-> "pending"]
                   ELSE IF i \in closed THEN [invitations[i] EXCEPT !.state = "revoked"]
                   ELSE invitations[i]]
                 : added \in {i \in Invitations : invitations[i].state = "none"}} :
       \A i \in Invitations \ closed :
           invitations[i].state \in Open => invitations[i].user # u}

\* The transaction adds a row, or is refused and changes nothing.
Add(r, closed, u, new) ==
    /\ \/ invitations' \in RowsAdded(closed, u, new)
       \/ RowsAdded(closed, u, new) = {} /\ UNCHANGED invitations
    /\ Finish(r)
    /\ UNCHANGED <<status, admins, created, role>>

ReissueInvitation(r) ==
    LET i == request[r].invitation IN
    /\ Checked(r, "reissue")
    /\ Add(r, IF invitations[i].state \in Open THEN {i} ELSE {},
           request[r].target, invitations[i].role)

CreateTeamInvitation(r) ==
    LET closed == {i \in request[r].late : invitations[i].state = "late"} IN
    /\ request[r].step = "authorized" /\ request[r].op = "invite"
    /\ \A i \in closed : Free(i)
    /\ Add(r, closed, request[r].target, request[r].role)

\* One statement that finds the row open or does nothing.
\* Fault: it does not ask whether the row is open.
RevokeAnswered(r) ==
    LET i == request[r].invitation IN
    /\ request[r].step = "authorized" /\ request[r].op = "revoke"
    /\ Free(i)
    /\ invitations' = [invitations EXCEPT ![i].state = "revoked"]
    /\ Finish(r)
    /\ UNCHANGED <<status, admins, created, role>>
RevokeInvitation(r) ==
    LET i == request[r].invitation IN
    /\ request[r].step = "authorized" /\ request[r].op = "revoke"
    /\ Free(i)
    /\ invitations' = [invitations EXCEPT ![i].state = IF @ \in Open THEN "revoked" ELSE @]
    /\ Finish(r)
    /\ UNCHANGED <<status, admins, created, role>>

\* An error, a cancelled context or a crash rolls the transaction back.
Fail(r) ==
    /\ request[r] # NoRequest
    /\ Finish(r)
    /\ UNCHANGED <<status, admins, created, role, invitations>>

Request(r) ==
    \/ StartUserOp(r) \/ StartPut(r) \/ StartRemove(r)
    \/ StartInvite(r) \/ StartRespond(r) \/ StartRow(r)
    \/ Check(r) \/ Fail(r)
    \/ SetUserStatus(r) \/ SetSystemAdmin(r)
    \/ PutTeamMember(r) \/ RemoveTeamMember(r)
    \/ Accept(r) \/ Reject(r)
    \/ ReissueInvitation(r) \/ CreateTeamInvitation(r) \/ RevokeInvitation(r)

\* One transaction makes the Team and its first owner.
CreateTeam ==
    /\ ~created
    /\ created' = TRUE
    /\ \E u \in Users : role' = [role EXCEPT ![u] = "owner"]
    /\ UNCHANGED <<status, admins, invitations, request>>

\* expires_at of a row passes.
Expire ==
    /\ \E i \in Invitations :
          /\ invitations[i].state = "pending"
          /\ invitations' = [invitations EXCEPT ![i].state = "late"]
    /\ UNCHANGED <<status, admins, created, role, request>>

Next == CreateTeam \/ Expire \/ \E r \in Requests : Request(r)

Spec == Init /\ [][Next]_vars

-----------------------------------------------------------------------------
\* However administrators disable each other and withdraw each other's membership,
\* one who is active remains (UserService.SetEnabled, SetSystemAdmin).
AnAdministratorRemains == ActiveAdmins # {}

\* However owners demote and remove each other, a Team that exists keeps an owner
\* (TeamService.PutMember, RemoveMember).
AnOwnerRemains == created => \E u \in Users : role[u] = "owner"

\* A user has at most one open invitation, however Invite, Reissue, expiry and
\* answers overlap.
OneOpenInvitation ==
    \A i, j \in Invitations :
        /\ invitations[i].state \in Open /\ invitations[j].state \in Open
        /\ invitations[i].user = invitations[j].user
        => i = j

\* An answer is final: no revocation, reissue or second answer that was underway
\* changes it.
AnswerIsFinal ==
    [][\A i \in Invitations : invitations[i].state \in Answers
          => invitations'[i] = invitations[i]]_vars

\* An invitation is accepted exactly when it makes its user, who was no member, a
\* member in the role it names; nothing else is granted by an answer.
AcceptanceMakesMember ==
    [][\A i \in Invitations :
          invitations[i].state # "accepted" /\ invitations'[i].state = "accepted"
          => /\ role[invitations[i].user] = NoRole
             /\ role' = [role EXCEPT ![invitations[i].user] = invitations[i].role]]_vars

-----------------------------------------------------------------------------
(* Why they hold: what a transaction has read under its lock stays true.   *)

LocksHeldOnce ==
    \A q, r \in Requests :
        q # r /\ request[q].step = "checked" /\ request[r].step = "checked"
        => LockOf(q) # LockOf(r)

RowsOfTheTeam ==
    /\ ~created => \A u \in Users : role[u] = NoRole
    /\ \A i \in Invitations : invitations[i].state # "none" =>
          created /\ invitations[i].user \in Users /\ invitations[i].role \in Roles

RequestsOfTheTeam ==
    \A r \in Requests :
        LET q == request[r] IN
        /\ q.op \in UserOps \cup TeamOps \cup {"invite"} => q.target \in Users
        /\ q.op \in {"put", "invite"} => q.role \in Roles
        /\ q.op \in TeamOps \cup {"invite"} => created
        /\ q.op \in RowOps \cup {"revoke"} =>
              /\ q.invitation \in Invitations
              /\ invitations[q.invitation].state # "none"
              /\ q.target = invitations[q.invitation].user

AdminChecks ==
    \A r \in Requests :
        request[r].step = "checked" /\ request[r].op \in UserOps
        => UserOpAllowed(request[r].op, request[r].target)

\* A row that a transaction found is still there, and an owner it takes the role
\* from is not the only one.
OwnerChecks ==
    \A r \in Requests :
        LET u == request[r].target IN
        request[r].step = "checked" =>
            /\ request[r].op = "put" /\ request[r].seen # NoRole =>
                  /\ role[u] = request[r].seen
                  /\ role[u] = "owner" /\ request[r].role # "owner" => OtherOwner(u)
            /\ request[r].op = "remove" => RemoveAllowed(u)

AnswerChecks ==
    \A r \in Requests :
        request[r].step = "checked" /\ request[r].op = "respond"
        => invitations[request[r].invitation].state \in Open

IInv == /\ TypeOK /\ AnAdministratorRemains /\ AnOwnerRemains /\ OneOpenInvitation
        /\ LocksHeldOnce /\ RowsOfTheTeam /\ RequestsOfTheTeam
        /\ AdminChecks /\ OwnerChecks /\ AnswerChecks
=============================================================================
