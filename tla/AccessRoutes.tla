---------------------------- MODULE AccessRoutes ----------------------------
(***************************************************************************)
(* The table of routes that Access is run with: for each route of the      *)
(* handlers the steps that its requests take, in the order of the code.    *)
(***************************************************************************)
EXTENDS Access, TLC

(***************************************************************************)
(* The Plugin service (domain/plugin/service.go).                          *)
(***************************************************************************)
CreatePlugin == <<Input, Ask("plugin.create", "namespace", "forbidden")>>
ListPlugins == <<Input, Ask("plugin.list", "namespace", "forbidden")>>
GetPlugin == <<Lookup, AskRead>>
Browse == <<Lookup, AskRead, Step("repositoryReadable")>>
AskMutation(action) == Ask(action, "plugin", "readable?")
Archive == <<Lookup, AskMutation("plugin.archive"), Change("archive")>>
Restore == <<Lookup, AskMutation("plugin.archive"), Change("restore")>>
SetVisibility == <<Lookup, AskMutation("plugin.archive"), Change("setVisibility")>>
Publish == <<Lookup, AskRead, Step("open"), Ask("plugin.publish", "plugin", "forbidden"),
             Change("publish")>>
SetDefault == <<Lookup, AskMutation("plugin.publish"), Step("open"), Change("default")>>

(***************************************************************************)
(* The token, user and Team services (domain/identity/service).            *)
(***************************************************************************)
AskTokens(action) == Ask(action, "token_collection", "forbidden")
AskToken(action) == Ask(action, "token", "forbidden")
CreateToken == <<AskTokens("token.write"), Input>>
ListTokens == <<AskTokens("token.read"), Input>>
RevealToken == <<AskTokens("token.read"), Step("password"), Step("findToken"),
                 AskToken("token.read")>>
RevokeToken == <<AskTokens("token.write"), Step("findToken"), AskToken("token.write"),
                 Change("revoke")>>

ManageUsers(action) ==
  <<Ask(action, IF action \in CollectionActions THEN "user_collection" ELSE "user",
        "forbidden"), Input>>
CommandUser(action) == <<Ask(action, "user", "forbidden"), Step("notSelf")>>

GetTeam == <<TeamCheck(Roles, "notFound")>>
UpdateTeam == <<TeamCheck({"owner", "admin"}, "forbidden"), Input>>
ListAllTeams == <<[do |-> "allTeams", roles |-> {}, denied |-> "forbidden"]>>
TeamMembers == <<TeamCheck(Roles, "forbidden"), Input>>

(***************************************************************************)
(* The subscription (user_marketplace_service.go): its own policy          *)
(* question, a transaction that reads the user and the candidates, and a   *)
(* question for each candidate.                                            *)
(***************************************************************************)
Render == <<Ask("marketplace.read", "user", "notFound"), Step("marketplace"),
            Ask("plugin.read", "plugin", "skip")>>

(***************************************************************************)
(* The handlers' routes.                                                   *)
(***************************************************************************)
PluginRoutes ==
  "createPlugin" :> <<Bearer, Input>> \o CreatePlugin @@
  "listPlugins"  :> <<Bearer, Input>> \o ListPlugins @@
  "getPlugin"    :> <<MaybeBearer, Input>> \o GetPlugin

PluginCommands ==
  "archive"       :> <<Bearer, Input>> \o Archive @@
  "restore"       :> <<Bearer, Input>> \o Restore @@
  "setVisibility" :> <<Bearer, Input>> \o SetVisibility @@
  "publish"       :> <<Bearer, Input>> \o Publish @@
  "setDefault"    :> <<Bearer, Input>> \o SetDefault

PluginReads ==
  "listVersions" :> <<Bearer, Input>> \o GetPlugin @@
  "getVersion"   :> <<MaybeBearer, Input>> \o GetPlugin @@
  "browse"       :> <<Bearer, Input>> \o Browse @@
  "clearDefault" :> <<Bearer, Input>> \o SetDefault

TokenRoutes ==
  "createToken" :> <<Bearer, Input>> \o CreateToken @@
  "listTokens"  :> <<Bearer, Input>> \o ListTokens @@
  "revealToken" :> <<Bearer, Input>> \o RevealToken @@
  "revokeToken" :> <<Bearer, Input>> \o RevokeToken

UserRoutes ==
  "me" :> <<Bearer>> @@
  "createUser" :> <<Bearer, Input>> \o ManageUsers("user.create") @@
  "listUsers"  :> <<Bearer, Input>> \o ManageUsers("user.list") @@
  "getUser"    :> <<Bearer, Input>> \o ManageUsers("user.read") @@
  "updateUser" :> <<Bearer, Input>> \o ManageUsers("user.update")

UserCommands ==
  "disable" :> <<Input, Bearer>> \o CommandUser("user.disable") @@
  "enable"  :> <<Input, Bearer>> \o CommandUser("user.enable") @@
  "grant"   :> <<Input, Bearer>> \o CommandUser("user.admin.grant") @@
  "withdraw" :> <<Input, Bearer>> \o CommandUser("user.admin.revoke")

TeamRoutes ==
  "createTeam"  :> <<Bearer, Input>> @@
  "getTeam"     :> <<Bearer>> \o GetTeam @@
  "updateTeam"  :> <<Bearer, Input>> \o UpdateTeam @@
  "listTeams"   :> <<Bearer, Input>> \o ListAllTeams @@
  "teamMembers" :> <<Bearer, Input>> \o TeamMembers

GitRoutes ==
  "fetch" :> <<Step("resolve"), Pat("read"), Ask("plugin.read", "plugin", "git")>> @@
  "push"  :> <<Step("resolve"), Pat("write"), Ask("plugin.write", "plugin", "git")>>

SubscriptionRoutes ==
  "subscribe" :> <<Pat("any")>> \o Render

HandlerRoutes == PluginRoutes @@ PluginCommands @@ PluginReads @@ TokenRoutes @@ UserRoutes
                   @@ UserCommands @@ TeamRoutes @@ GitRoutes @@ SubscriptionRoutes

\* Routes that only management requests on the exact Plugin take.
ExactHandlers == DOMAIN (PluginCommands @@ PluginReads) \cup {"getPlugin"}
TokenHandlers == DOMAIN (GitRoutes @@ SubscriptionRoutes)
=============================================================================
