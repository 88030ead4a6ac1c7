------------------------------- MODULE Policy -------------------------------
(***************************************************************************)
(* The authorization decision: which action a principal may perform, given *)
(* the facts that were read about it and about the resource.               *)
(*                                                                         *)
(*   src/mod/backend/domain/authorization/policy.go   Policy.Authorize     *)
(*   src/pkg/auth/contracts.go                        actions, resources,  *)
(*                                                    scopes, principals   *)
(*                                                                         *)
(* The decision is a pure function of a principal, an action, the type of  *)
(* the resource and a record of facts.  Access reads these facts one after *)
(* another while others change them; here they are simply given.           *)
(***************************************************************************)
EXTENDS Naturals, FiniteSets

(***************************************************************************)
(* The vocabulary.                                                         *)
(***************************************************************************)
NamespaceActions == {"plugin.create", "plugin.list"}
PluginActions == {"plugin.read", "plugin.write", "plugin.archive", "plugin.publish"}
TokenActions == {"token.read", "token.write"}
CollectionActions == {"user.list", "user.create"}
UserActions == {"user.read", "user.update", "user.disable", "user.enable",
                "user.admin.grant", "user.admin.revoke"}
TeamReadActions == {"team.read", "team.members.read", "team.invitations.read"}
TeamWriteActions == {"team.settings.write", "team.members.manage",
                     "team.invitations.manage"}
TeamActions == TeamReadActions \cup TeamWriteActions \cup {"team.invitation.respond"}
OpenActions == {"team.create", "team.list"}

Actions == NamespaceActions \cup PluginActions \cup TokenActions
             \cup CollectionActions \cup UserActions \cup TeamActions
             \cup OpenActions \cup {"marketplace.read"}

ResourceTypes == {"namespace", "plugin", "marketplace", "token", "token_collection",
                  "user", "user_collection", "team_membership", "team_invitation"}

Roles == {"owner", "admin", "maintainer", "developer", "viewer"}

PluginFacts == [visibility : {"public", "private"},
                status     : {"draft", "active", "archived"},
                repository : {"ready", "readOnly", "error"}]

\* What an identity state reader returns; role is "none" without a membership.
Facts == [active : BOOLEAN, admin : BOOLEAN, ownsNamespace : BOOLEAN,
          ownsResource : BOOLEAN, invited : BOOLEAN,
          role : Roles \cup {"none"}, plugin : PluginFacts]

\* A principal: the scopes of its credential are a set of actions, all of them
\* for a JWT (UnrestrictedScopes).
Anonymous == [kind |-> "anonymous", scopes |-> {}]
UserWith(scopes) == [kind |-> "user", scopes |-> scopes]

(***************************************************************************)
(* The decision.                                                           *)
(***************************************************************************)

\* The types of resource that an action can be asked about.
SupportedTypes(action) ==
  {type \in ResourceTypes :
     \/ action \in NamespaceActions /\ type = "namespace"
     \/ action \in PluginActions /\ type = "plugin"
     \/ action = "marketplace.read" /\ type \in {"marketplace", "user"}
     \/ action \in TokenActions /\ type \in {"token", "token_collection"}
     \/ action \in CollectionActions /\ type = "user_collection"
     \/ action \in UserActions /\ type = "user"
     \/ action = "team.members.manage" /\ type = "team_membership"
     \/ action = "team.invitation.respond" /\ type = "team_invitation"
     \/ /\ action \in TeamActions \cup OpenActions
        /\ action \notin {"team.members.manage", "team.invitation.respond"}
        /\ type = "namespace"}

RolesForTeam(action) ==
  CASE action \in TeamReadActions  -> Roles
    [] action \in TeamWriteActions -> {"owner", "admin"}
    [] OTHER                       -> {}

RolesForPlugin(action) ==
  CASE action \in {"plugin.list", "plugin.read"}       -> Roles
    [] action \in {"plugin.create", "plugin.write"}    ->
         {"owner", "admin", "maintainer", "developer"}
    [] action \in {"plugin.archive", "plugin.publish"} ->
         {"owner", "admin", "maintainer"}
    [] OTHER                                           -> {}

PublicRead(plugin) ==
  /\ plugin.visibility = "public"
  /\ plugin.status \in {"active", "archived"}
  /\ plugin.repository # "error"

\* What the state of a Plugin admits, whoever asks.
StateAllows(action, plugin) ==
  /\ action = "plugin.read" => plugin.repository # "error"
  /\ action \in {"plugin.write", "plugin.publish"} =>
       plugin.repository = "ready" /\ plugin.status # "archived"

OwnsOrPlays(action, facts) ==
  facts.admin \/ facts.ownsNamespace \/ facts.role \in RolesForPlugin(action)

\* What an active user may do, whatever the credential allows.
UserMay(action, facts) ==
  \/ action \in OpenActions
  \/ /\ action \in TeamActions
     /\ \/ facts.admin
        \/ action = "team.invitation.respond" /\ facts.invited
        \/ facts.role \in RolesForTeam(action)
  \/ /\ action \in NamespaceActions
     /\ OwnsOrPlays(action, facts)
  \/ /\ action \in PluginActions
     /\ StateAllows(action, facts.plugin)
     /\ \/ action = "plugin.read" /\ PublicRead(facts.plugin)
        \/ OwnsOrPlays(action, facts)
  \/ /\ action \notin OpenActions \cup TeamActions \cup NamespaceActions \cup PluginActions
     /\ \/ facts.admin
        \/ facts.ownsResource /\ action \in TokenActions
        \/ facts.ownsNamespace /\ action = "marketplace.read"

\* What is refused before any fact is read.
Askable(principal, action, type) ==
  /\ action \in Actions
  /\ type \in SupportedTypes(action)
  /\ IF principal.kind = "anonymous" THEN action = "plugin.read"
                                     ELSE action \in principal.scopes

\* Fault: the status of the user is not part of the decision.
AuthorizeAnyStatus(principal, action, type, facts) ==
  /\ Askable(principal, action, type)
  /\ IF principal.kind = "anonymous" THEN PublicRead(facts.plugin)
                                     ELSE UserMay(action, facts)

Authorize(principal, action, type, facts) ==
  /\ Askable(principal, action, type)
  /\ IF principal.kind = "anonymous" THEN PublicRead(facts.plugin)
                                     ELSE facts.active /\ UserMay(action, facts)
=============================================================================
