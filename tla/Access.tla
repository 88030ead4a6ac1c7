------------------------------- MODULE Access -------------------------------
(***************************************************************************)
(* How a request is authenticated and authorized: the handlers, the        *)
(* services behind them and the reads they make, one query after another,  *)
(* while other requests change users, memberships, tokens and the Plugin.  *)
(*                                                                         *)
(*   handler/plugin, handler/identity, handler/management, handler/        *)
(*   distribution (src/mod/backend), src/mod/git/mod.go      the routes    *)
(*   domain/plugin/service.go, domain/identity/service,                    *)
(*   domain/distribution/user_marketplace_service.go         the services  *)
(*   domain/authorization/identity_state_reader.go           the reads     *)
(*   domain/identity/service/authenticator.go, identity/dao  the tokens    *)
(*                                                                         *)
(* A route is a sequence of steps.  A step is a query or the check that    *)
(* follows from it; nothing holds a lock from one step to the next.  The   *)
(* table of routes is a parameter: AccessRoutes has the handlers' own.     *)
(* There is one Plugin, in a Team's Namespace or in the personal Namespace *)
(* of Owner.  The status of a Repository is written by no code but Create, *)
(* which writes "ready".                                                   *)
(***************************************************************************)
EXTENDS Policy, Sequences

CONSTANTS
  Routes,            \* Routes[route]: the steps of a route
  ExactRoutes,       \* routes of management requests on one exact Plugin
  TokenTaking,       \* routes that take a personal access token
  Users, Tokens,     \* users, and the personal access tokens they hold
  TokenUser,         \* TokenUser[t]: the user of a token
  Preset,            \* Preset[t]: its preset
  Requests,          \* requests that may overlap
  Mixes,             \* which routes the requests take at once (a bound)
  Owner,             \* the user whose Namespace has the Plugin, or NoUser
  NoUser,
  MemberRoles,       \* the roles that members have, and "none" (a bound)
  MaxChanges,        \* changes by others (a bound)
  MaxBeside,         \* beside so many requests at most (a bound)
  MaxTime            \* clock (a bound)

Presets == {"sub-read", "git-clone", "git-write"}
Persons == [active : BOOLEAN, admin : BOOLEAN, role : Roles \cup {"none"}]

ASSUME AccessConstants ==
  /\ TokenUser \in [Tokens -> Users]
  /\ Preset \in [Tokens -> Presets]
  /\ Owner \in Users \cup {NoUser} /\ NoUser \notin Users
  /\ MemberRoles \subseteq Roles \cup {"none"}
  /\ \A mix \in Mixes : mix \in [Requests -> DOMAIN Routes \cup {"none"}]
  /\ MaxChanges \in Nat /\ MaxBeside \in Nat /\ MaxTime \in Nat \ {0}

VARIABLES
  person,    \* users, user_group_memberships and team_memberships
  plugin,    \* the Plugin's row joined with its Repository's
  token,     \* personal_access_tokens: expires, revoked, used (0 for NULL)
  now,       \* the clock that every process reads
  changes,   \* how many changes others have made
  request,   \* the handlers at work
  held       \* what was true since a request arrived (for the properties)

vars == <<person, plugin, token, now, changes, request, held>>

-----------------------------------------------------------------------------
(***************************************************************************)
(* Steps.  denied says what an Ask answers when the policy refuses: a code *)
(* of the response, "readable?" for authorizeMutation, "skip" to leave the *)
(* Plugin out, "git" for the Git handler.                                  *)
(***************************************************************************)
Ask(action, type, denied) == [do |-> "ask", action |-> action, type |-> type,
                              denied |-> denied]
Step(do) == [do |-> do]
Pat(use) == [do |-> "find", use |-> use]
TeamCheck(roles, denied) == [do |-> "team", roles |-> roles, denied |-> denied]
Change(effect) == [do |-> "change", effect |-> effect]

Bearer == Step("bearer")            \* AuthenticateRequired
MaybeBearer == Step("maybe")        \* AuthenticateOptional
Input == Step("input")              \* decoding and validation of the request
Lookup == Step("lookup")            \* exactAggregate: Namespace, Plugin, Repository
AskRead == Ask("plugin.read", "plugin", "notFound")

(***************************************************************************)
(* What the handlers' routes have in common.                               *)
(***************************************************************************)

\* No question before the caller is known.  Only the last question of a route may
\* leave a Plugin out, and no Team or invitation is asked about: the Team service
\* reads the role itself.
QuestionFits(steps, i) ==
  /\ steps[i].action \notin TeamActions \cup OpenActions
  /\ steps[i].denied \in {"forbidden", "notFound", "readable?", "skip", "git"}
  /\ \E j \in DOMAIN steps : j < i /\ steps[j].do \in {"bearer", "maybe", "find"}
  /\ steps[i].denied = "skip" => i = Len(steps)

\* The Team service is behind AuthenticateRequired, tokens and JWTs are not taken by
\* the same route, and what ends a request with
\* success has no question left behind it, but for the entries of an index.
StepFits(steps, i, takesToken) ==
  /\ steps[i].do = "ask" => QuestionFits(steps, i)
  /\ steps[i].do \in {"team", "allTeams"} => steps[i].denied \in {"forbidden", "notFound"}
  /\ steps[i].do = "team" => \E j \in DOMAIN steps : j < i /\ steps[j].do = "bearer"
  /\ steps[i].do = "find" => takesToken /\ steps[i].use \in {"read", "write", "any"}
  /\ steps[i].do \in {"bearer", "maybe", "password"} => ~takesToken
  /\ steps[i].do = "change" =>
       steps[i].effect \in {"archive", "restore", "setVisibility", "publish", "default", "revoke"}
  /\ steps[i].do \in {"marketplace", "change"} =>
       \A j \in DOMAIN steps : j > i /\ steps[j].do = "ask" => steps[j].denied = "skip"

\* A route on the exact Plugin begins with a question that hides the Plugin.
HidesFirst(steps) ==
  \E i \in DOMAIN steps :
    /\ steps[i].do = "ask" /\ steps[i].action \in PluginActions
    /\ steps[i].denied \in {"notFound", "readable?"}
    /\ \A j \in DOMAIN steps : j < i => steps[j].do \in {"bearer", "maybe", "input", "lookup"}

ASSUME RoutesFit ==
  /\ "none" \notin DOMAIN Routes
  /\ \A route \in DOMAIN Routes : LET steps == Routes[route] IN
       /\ Len(steps) \in Nat \ {0} /\ DOMAIN steps = 1..Len(steps)
       /\ \A i \in DOMAIN steps : StepFits(steps, i, route \in TokenTaking)
       /\ route \in ExactRoutes => HidesFirst(steps)

-----------------------------------------------------------------------------
(***************************************************************************)
(* One request: the step it is at, what it has read, its answer.           *)
(***************************************************************************)
Unread == [active |-> FALSE, admin |-> FALSE, ownsNamespace |-> FALSE,
           ownsResource |-> FALSE, invited |-> FALSE, role |-> "none",
           plugin |-> [visibility |-> "private", status |-> "draft",
                       repository |-> "ready"]]

NoCredential == [kind |-> "none", id |-> NoUser]

Idle(route) == [pc |-> "idle", route |-> route, at |-> 0, credential |-> NoCredential,
                principal |-> Anonymous, usedAt |-> 0, row |-> Unread.plugin,
                chosen |-> {}, facts |-> Unread, second |-> FALSE,
                listed |-> FALSE, answer |-> "none"]

Credentials(route) ==
  {NoCredential} \cup
  IF route \in TokenTaking THEN {[kind |-> "pat", id |-> t] : t \in Tokens}
                           ELSE {[kind |-> "jwt", id |-> u] : u \in Users}

Supplied(c) == c.kind # "none"
User(c) == IF c.kind = "jwt" THEN c.id ELSE TokenUser[c.id]

Become(r, q) == request' = [request EXCEPT ![r] = q]

Answered(q, answer) ==
  [q EXCEPT !.pc = "answered", !.answer = answer, !.at = 0, !.principal = Anonymous,
            !.usedAt = 0, !.row = Unread.plugin, !.chosen = {}, !.facts = Unread,
            !.second = FALSE]

\* The next step, or the answer when there is none.
Proceeded(q) ==
  IF q.at = Len(Routes[q.route])
  THEN Answered(q, "done")
  ELSE [q EXCEPT !.pc = "step", !.at = @ + 1, !.second = FALSE, !.facts = Unread]

Here(q) == Routes[q.route][q.at]
At(q, do) == q.pc = "step" /\ Here(q).do = do

\* What a reader of the database can see of the Plugin.
PluginRow == [visibility |-> plugin.visibility, status |-> plugin.status,
              repository |-> plugin.repository]

Arrive(r) ==
  /\ request[r].pc = "idle" /\ request[r].route # "none"
  /\ \E c \in Credentials(request[r].route) :
       Become(r, [request[r] EXCEPT !.pc = "step", !.at = 1, !.credential = c])
  /\ UNCHANGED <<person, plugin, token, now, changes>>

(***************************************************************************)
(* Handlers.                                                               *)
(***************************************************************************)

\* AuthenticateRequired and AuthenticateOptional: a JWT names a user and is not
\* limited in scope; the user's status is not looked at.
Authenticate(r) ==
  LET q == request[r]
  IN  /\ At(q, "bearer") \/ At(q, "maybe")
      /\ IF Supplied(q.credential)
         THEN Become(r, Proceeded([q EXCEPT !.principal = UserWith(Actions)]))
         ELSE IF At(q, "maybe") THEN Become(r, Proceeded(q))
                                ELSE Become(r, Answered(q, "unauthenticated"))
      /\ UNCHANGED <<person, plugin, token, now, changes>>

\* Paths, bodies and pages that are not well formed are answered at once.
Decode(r) ==
  LET q == request[r]
  IN  /\ At(q, "input")
      /\ Become(r, Proceeded(q)) \/ Become(r, Answered(q, "invalid"))
      /\ UNCHANGED <<person, plugin, token, now, changes>>

\* exactAggregate: the row that later checks of the handler look at.
FindPlugin(r) ==
  LET q == request[r]
  IN  /\ At(q, "lookup")
      /\ Become(r, Proceeded([q EXCEPT !.row = PluginRow]))
      /\ UNCHANGED <<person, plugin, token, now, changes>>

\* The Git route resolves the Plugin before it looks at credentials.
Resolve(r) ==
  LET q == request[r]
      allowed == IF q.route = "push" THEN {"ready"} ELSE {"ready", "readOnly"}
  IN  /\ At(q, "resolve")
      /\ IF plugin.repository \in allowed
         THEN Become(r, Proceeded([q EXCEPT !.row = PluginRow]))
         ELSE Become(r, Answered(q, "notFound"))
      /\ UNCHANGED <<person, plugin, token, now, changes>>

\* Checks of the row that was read before the policy was asked.
CheckRow(r) ==
  LET q == request[r]
  IN  /\ \/ /\ At(q, "open")
            /\ IF q.row.status # "archived" /\ q.row.repository = "ready"
               THEN Become(r, Proceeded(q))
               ELSE Become(r, Answered(q, "conflict"))
         \/ /\ At(q, "repositoryReadable")
            /\ IF q.row.repository \in {"ready", "readOnly"}
               THEN Become(r, Proceeded(q))
               ELSE Become(r, Answered(q, "unavailable"))
      /\ UNCHANGED <<person, plugin, token, now, changes>>

(***************************************************************************)
(* Personal access tokens (identity/service/authenticator.go).             *)
(***************************************************************************)
PresetsFor(use) ==
  CASE use = "read"  -> {"git-clone", "git-write"}
    [] use = "write" -> {"git-write"}
    [] use = "any"   -> Presets

Scopes(preset) ==
  {"marketplace.read", "plugin.read"}
    \cup (IF preset = "git-write" THEN {"plugin.write"} ELSE {})

\* The subscription hides why it refuses.
Refused(q) ==
  Answered(q, IF Here(q).use = "any" THEN "notFound" ELSE "unauthenticated")

Accepted(q) ==
  Proceeded([q EXCEPT !.principal = UserWith(Scopes(Preset[q.credential.id]))])

Live(t, at) == ~token[t].revoked /\ token[t].expires > at

\* A Git read of a public Plugin needs no credentials.  A look-up that fails, which
\* the code answers as if the token were not live, is left out.
FindToken(r) ==
  LET q == request[r]
      t == q.credential.id
  IN  /\ At(q, "find")
      /\ IF Supplied(q.credential)
         THEN IF person[TokenUser[t]].active /\ Live(t, now)
              THEN Become(r, [q EXCEPT !.pc = "preset"])
              ELSE Become(r, Refused(q))
         ELSE IF Here(q).use = "read" /\ q.row.visibility = "public"
              THEN Become(r, Proceeded(q))
              ELSE Become(r, Refused(q))
      /\ UNCHANGED <<person, plugin, token, now, changes>>

CheckPreset(r) ==
  LET q == request[r]
  IN  /\ q.pc = "preset"
      /\ IF Preset[q.credential.id] \in PresetsFor(Here(q).use)
         THEN Become(r, [q EXCEPT !.pc = "touch", !.usedAt = now])
         ELSE Become(r, Refused(q))
      /\ UNCHANGED <<person, plugin, token, now, changes>>

\* Fault: the update does not compare the time of use.
TouchAnyTime(r) ==
  LET q == request[r]
      t == q.credential.id
  IN  /\ q.pc = "touch"
      /\ IF Live(t, q.usedAt)
         THEN /\ token' = [token EXCEPT ![t].used = q.usedAt]
              /\ Become(r, Accepted(q))
         ELSE /\ Become(r, [q EXCEPT !.pc = "validate"])
              /\ UNCHANGED token
      /\ UNCHANGED <<person, plugin, now, changes>>

\* touchTokenUpdate: 0 rows when the token is not live or was used since.
Touch(r) ==
  LET q == request[r]
      t == q.credential.id
  IN  /\ q.pc = "touch"
      /\ IF Live(t, q.usedAt) /\ token[t].used < q.usedAt
         THEN /\ token' = [token EXCEPT ![t].used = q.usedAt]
              /\ Become(r, Accepted(q))
         ELSE /\ Become(r, [q EXCEPT !.pc = "validate"])
              /\ UNCHANGED token
      /\ UNCHANGED <<person, plugin, now, changes>>

\* Fault: a use at the very time of the last one is refused.
ValidateLater(r) ==
  LET q == request[r]
      t == q.credential.id
  IN  /\ q.pc = "validate"
      /\ IF Live(t, q.usedAt) /\ token[t].used > q.usedAt
         THEN Become(r, Accepted(q))
         ELSE Become(r, Refused(q))
      /\ UNCHANGED <<person, plugin, token, now, changes>>

\* validateTouchedToken: a later use by another request is no reason to refuse.
Validate(r) ==
  LET q == request[r]
      t == q.credential.id
  IN  /\ q.pc = "validate"
      /\ IF Live(t, q.usedAt) /\ token[t].used >= q.usedAt
         THEN Become(r, Accepted(q))
         ELSE Become(r, Refused(q))
      /\ UNCHANGED <<person, plugin, token, now, changes>>

(***************************************************************************)
(* The policy: the reader's queries, each in a transaction of its own.     *)
(***************************************************************************)

\* What is asked: a refused mutation asks whether the Plugin is readable.
Question(q) == IF q.second THEN AskRead ELSE Here(q)

\* The Git handler asks for credentials when there were none.
DeniedGit(q) ==
  Answered(q, IF Supplied(q.credential) THEN "forbidden" ELSE "unauthenticated")

\* Fault: a refused mutation of a Plugin answers "forbidden" whoever may read it.
DeniedOpenly(q) ==
  CASE Here(q).denied = "readable?" -> Answered(q, "forbidden")
    [] Here(q).denied = "skip"      -> Proceeded(q)
    [] Here(q).denied = "git"       -> DeniedGit(q)
    [] OTHER                        -> Answered(q, Here(q).denied)

\* What a refusal leads to.
Denied(q) ==
  CASE Here(q).denied = "readable?" ->
         IF q.second THEN Answered(q, "notFound")
                     ELSE [q EXCEPT !.pc = "step", !.second = TRUE, !.facts = Unread]
    [] Here(q).denied = "skip"      -> Proceeded(q)
    [] Here(q).denied = "git"       -> DeniedGit(q)
    [] OTHER                        -> Answered(q, Here(q).denied)

Granted(q) ==
  IF q.second THEN Answered(q, "forbidden")
              ELSE Proceeded([q EXCEPT !.listed = (Here(q).denied = "skip")])

Decided(q, facts) ==
  IF Authorize(q.principal, Question(q).action, Question(q).type, facts)
  THEN Granted(q) ELSE Denied(q)

\* The rows that own the resource do not change: a personal Namespace belongs to
\* its user for ever, and a token to its user.  A "user" resource has an owner
\* but names no Namespace.
OwnNamespace(type, u) ==
  \/ type \in {"namespace", "plugin"} /\ Owner = u
  \/ type \in {"token", "token_collection"}

ReadResource(r) ==
  LET q == request[r]
      ask == Question(q)
      facts == [Unread EXCEPT !.plugin = IF ask.type = "plugin" THEN PluginRow ELSE @]
  IN  /\ At(q, "ask")
      /\ IF \/ ~Askable(q.principal, ask.action, ask.type)
            \/ q.principal.kind = "anonymous"
         THEN Become(r, Decided(q, facts))
         ELSE Become(r, [q EXCEPT !.pc = "status", !.facts =
                [facts EXCEPT !.ownsNamespace = OwnNamespace(ask.type, User(q.credential)),
                              !.ownsResource = \/ ask.type \in {"token", "token_collection"}
                                                 \/ ask.action = "marketplace.read"]])
      /\ UNCHANGED <<person, plugin, token, now, changes>>

\* The facts about a user who is not active are not read.
ReadStatus(r) ==
  LET q == request[r]
  IN  /\ q.pc = "status"
      /\ IF person[User(q.credential)].active
         THEN Become(r, [q EXCEPT !.pc = "admin", !.facts = [@ EXCEPT !.active = TRUE]])
         ELSE Become(r, Decided(q, q.facts))
      /\ UNCHANGED <<person, plugin, token, now, changes>>

ReadAdmin(r) ==
  LET q == request[r]
  IN  /\ q.pc = "admin"
      /\ Become(r, [q EXCEPT !.pc = "role",
                             !.facts = [@ EXCEPT !.admin = person[User(q.credential)].admin]])
      /\ UNCHANGED <<person, plugin, token, now, changes>>

\* The last query, the membership, and the decision.
ReadRole(r) ==
  LET q == request[r]
      inTeam == Question(q).type \in {"namespace", "plugin"}
      role == IF inTeam THEN person[User(q.credential)].role ELSE "none"
  IN  /\ q.pc = "role"
      /\ Become(r, Decided(q, [q.facts EXCEPT !.role = role]))
      /\ UNCHANGED <<person, plugin, token, now, changes>>

(***************************************************************************)
(* Services.                                                               *)
(***************************************************************************)

\* The Team service asks no policy: it reads the caller's role with the Team
\* and then whether the caller is an administrator.
ReadTeam(r) ==
  LET q == request[r]
  IN  /\ At(q, "team")
      /\ Become(r, [q EXCEPT !.pc = "teamAdmin",
                             !.facts = [@ EXCEPT !.role = person[User(q.credential)].role]])
      /\ UNCHANGED <<person, plugin, token, now, changes>>

ReadTeamAdmin(r) ==
  LET q == request[r]
  IN  /\ q.pc = "teamAdmin" \/ At(q, "allTeams")
      /\ IF person[User(q.credential)].admin \/ q.facts.role \in Here(q).roles
         THEN Become(r, Proceeded(q))
         ELSE Become(r, Answered(q, Here(q).denied))
      /\ UNCHANGED <<person, plugin, token, now, changes>>

\* Disabling oneself or taking one's own administration away is refused.
CheckTarget(r) ==
  LET q == request[r]
  IN  /\ At(q, "notSelf")
      /\ Become(r, Proceeded(q)) \/ Become(r, Answered(q, "conflict"))
      /\ UNCHANGED <<person, plugin, token, now, changes>>

\* AuthenticatePassword reads the user again.
CheckPassword(r) ==
  LET q == request[r]
  IN  /\ At(q, "password")
      /\ \/ person[User(q.credential)].active /\ Become(r, Proceeded(q))
         \/ Become(r, Answered(q, "unauthenticated"))
      /\ UNCHANGED <<person, plugin, token, now, changes>>

\* A token is only found by its own user; revoked and expired ones are found too.
ChooseToken(r) ==
  LET q == request[r]
  IN  /\ At(q, "findToken")
      /\ \/ Become(r, Answered(q, "notFound"))
         \/ \E t \in Tokens :
              /\ TokenUser[t] = User(q.credential)
              /\ Become(r, Proceeded([q EXCEPT !.chosen = {t}]))
      /\ UNCHANGED <<person, plugin, token, now, changes>>

\* FindUserMarketplace: the user, the Namespace and the candidates in one
\* transaction.  Without a candidate the index is empty.
FindMarketplace(r) ==
  LET q == request[r]
      candidate == /\ Owner = User(q.credential)
                   /\ plugin.status \in {"active", "archived"}
                   /\ plugin.repository \in {"ready", "readOnly"}
  IN  /\ At(q, "marketplace")
      /\ IF ~person[User(q.credential)].active THEN Become(r, Answered(q, "notFound"))
         ELSE IF candidate THEN Become(r, Proceeded(q))
                           ELSE Become(r, Answered(q, "done"))
      /\ UNCHANGED <<person, plugin, token, now, changes>>

\* What a command finds and leaves, under the locks of the Plugin (Receive has
\* these in full): the new row and the answer.
Outcomes(effect) ==
  LET archived == plugin.status = "archived"
      Leaves(row, answer) == [row |-> row, answer |-> answer]
  IN  CASE effect = "archive" ->
             {Leaves(IF archived THEN plugin
                     ELSE [plugin EXCEPT !.status = "archived", !.from = plugin.status], "done")}
        [] effect = "restore" ->
             {IF archived
              THEN Leaves([plugin EXCEPT !.status = plugin.from, !.from = "none"], "done")
              ELSE Leaves(plugin, "conflict")}
        [] effect = "setVisibility" ->
             IF archived THEN {Leaves(plugin, "conflict")}
             ELSE {Leaves([plugin EXCEPT !.visibility = v], "done") : v \in {"public", "private"}}
        [] effect = "publish" ->
             {Leaves(plugin, "conflict")} \cup
             (IF archived \/ plugin.repository # "ready" THEN {}
              ELSE {Leaves([plugin EXCEPT !.status = "active"], "done")})
        [] effect = "default" ->
             {Leaves(plugin, "conflict")} \cup (IF archived THEN {} ELSE {Leaves(plugin, "done")})

Execute(r) ==
  LET q == request[r]
  IN  /\ At(q, "change") /\ Here(q).effect # "revoke"
      /\ \E o \in Outcomes(Here(q).effect) :
           /\ plugin' = o.row
           /\ Become(r, Answered(q, o.answer))
      /\ UNCHANGED <<person, token, now, changes>>

Revoke(r) ==
  LET q == request[r]
  IN  /\ At(q, "change") /\ Here(q).effect = "revoke"
      /\ \E t \in q.chosen : token' = [token EXCEPT ![t].revoked = TRUE]
      /\ Become(r, Answered(q, "done"))
      /\ UNCHANGED <<person, plugin, now, changes>>

-----------------------------------------------------------------------------
(***************************************************************************)
(* Others: requests that are not followed step by step.  Identity has the  *)
(* operations on users and members, Receive those on the Plugin.           *)
(***************************************************************************)
ChangePerson ==
  /\ \E u \in Users :
       \/ person' = [person EXCEPT ![u].active = ~@]
       \/ person' = [person EXCEPT ![u].admin = ~@]
       \/ \E role \in MemberRoles \ {person[u].role} :
            person' = [person EXCEPT ![u].role = role]
  /\ UNCHANGED <<plugin, token>>

ChangePlugin ==
  /\ \E effect \in {"archive", "restore", "setVisibility", "publish"} :
       \E o \in Outcomes(effect) : o.row # plugin /\ plugin' = o.row
  /\ UNCHANGED <<person, token>>

RevokeAny ==
  /\ \E t \in Tokens : ~token[t].revoked /\ token' = [token EXCEPT ![t].revoked = TRUE]
  /\ UNCHANGED <<person, plugin>>

Disrupt ==
  /\ changes < MaxChanges /\ changes' = changes + 1
  /\ \E r \in Requests : request[r].pc \notin {"idle", "answered"}
  /\ Cardinality({r \in Requests : request[r].route # "none"}) <= MaxBeside
  /\ ChangePerson \/ ChangePlugin \/ RevokeAny
  /\ UNCHANGED <<now, request>>

Tick ==
  /\ now < MaxTime
  /\ \E r \in Requests : request[r].pc \in {"step", "preset", "touch", "validate"}
                            /\ request[r].credential.kind = "pat"
  /\ now' = now + 1
  /\ UNCHANGED <<person, plugin, token, changes, request>>

Handle(r) ==
  \/ Arrive(r) \/ Authenticate(r) \/ Decode(r) \/ FindPlugin(r) \/ Resolve(r) \/ CheckRow(r)
  \/ FindToken(r) \/ CheckPreset(r) \/ Touch(r) \/ Validate(r)
  \/ ReadResource(r) \/ ReadStatus(r) \/ ReadAdmin(r) \/ ReadRole(r)
  \/ ReadTeam(r) \/ ReadTeamAdmin(r) \/ CheckTarget(r) \/ CheckPassword(r)
  \/ ChooseToken(r) \/ FindMarketplace(r) \/ Execute(r) \/ Revoke(r)

(***************************************************************************)
(* What was true, fact by fact, at some moment since a request arrived.    *)
(***************************************************************************)
Nothing == [active |-> {}, admin |-> {}, role |-> {}, plugin |-> {}, live |-> {}]

Truths(c) ==
  LET user == IF Supplied(c) THEN {person[User(c)]} ELSE {}
  IN  [active |-> {p.active : p \in user}, admin |-> {p.admin : p \in user},
       role |-> {p.role : p \in user}, plugin |-> {PluginRow},
       live |-> IF c.kind = "pat" THEN {Live(c.id, now) /\ person[User(c)].active} ELSE {}]

Also(h, truths) ==
  [active |-> h.active \cup truths.active, admin |-> h.admin \cup truths.admin,
   role |-> h.role \cup truths.role, plugin |-> h.plugin \cup truths.plugin,
   live |-> h.live \cup truths.live]

Remember ==
  held' = [r \in Requests |->
            IF request'[r].pc = "idle" \/ request[r].pc = "answered" THEN held[r]
            ELSE Also(held[r], Truths(request[r].credential)')]

Init ==
  /\ person \in [Users -> [active : BOOLEAN, admin : BOOLEAN, role : MemberRoles]]
  /\ plugin \in {p \in [visibility : {"public", "private"}, status : {"draft", "active", "archived"},
                      repository : {"ready"}, from : {"none", "draft", "active"}] :
                   p.from # "none" <=> p.status = "archived"}
  /\ now = 1
  /\ changes = 0
  /\ \E mix \in Mixes : request = [r \in Requests |-> Idle(mix[r])]
  /\ token \in [Tokens -> [expires : IF \E r \in Requests : request[r].route \in TokenTaking
                                    THEN {2, MaxTime + 1} ELSE {MaxTime + 1},
                          revoked : {FALSE}, used : {0}]]
  /\ held = [r \in Requests |-> Nothing]

Next == ((\E r \in Requests : Handle(r)) \/ Disrupt \/ Tick) /\ Remember

Spec == Init /\ [][Next]_vars

-----------------------------------------------------------------------------
(***************************************************************************)
(* Properties.                                                             *)
(***************************************************************************)
Steps == {"step", "preset", "touch", "validate", "status", "admin", "role", "teamAdmin"}
Answers == {"none", "done", "invalid", "unauthenticated", "forbidden", "notFound",
            "conflict", "unavailable"}

\* Every request is at a step of its route or has one of the documented answers.
TypeOK ==
  /\ person \in [Users -> Persons]
  /\ PluginRow \in PluginFacts
  /\ now \in 1..MaxTime /\ changes \in 0..MaxChanges
  /\ \A t \in Tokens : token[t].used \in 0..now
  /\ \A r \in Requests :
       /\ request[r].pc \in Steps \cup {"idle", "answered"}
       /\ request[r].answer \in Answers
       /\ request[r].answer # "none" <=> request[r].pc = "answered"
       /\ request[r].pc \in Steps => request[r].at \in DOMAIN Routes[request[r].route]

\* The role matrix as it is documented: how far up the list of roles an action
\* reaches (docs/design/systems/03-user-team-lifecycle/system-design.md:136-144).
Rank(role) ==
  CASE role = "viewer"     -> 1
    [] role = "developer"  -> 2
    [] role = "maintainer" -> 3
    [] role = "admin"      -> 4
    [] role = "owner"      -> 5
    [] OTHER               -> 0
Needed(action) ==
  CASE action \in {"plugin.list", "plugin.read"}       -> 1
    [] action \in {"plugin.create", "plugin.write"}    -> 2
    [] action \in {"plugin.archive", "plugin.publish"} -> 3
    [] OTHER                                           -> 9

PublicPlugin(p) == p.visibility = "public" /\ p.status # "draft"
Closed(p) == p.status = "archived"

Entitled(action, u, admin, role, p) ==
  \/ admin /\ ~(Closed(p) /\ action \in {"plugin.write", "plugin.publish"})
  \/ action \in TokenActions
  \/ action = "plugin.read" /\ PublicPlugin(p)
  \/ /\ action \in NamespaceActions \cup PluginActions
     /\ Owner = u \/ Rank(role) >= Needed(action)
     /\ ~(Closed(p) /\ action \in {"plugin.write", "plugin.publish"})

Asked(q) == {i \in DOMAIN Routes[q.route] : /\ Routes[q.route][i].do = "ask"
                                            /\ Routes[q.route][i].denied # "skip" \/ q.listed}

\* By what was true since a request arrived: the user was active, the credential
\* live and the matrix gave the right; without credentials the Plugin was public.
WasAllowed(c, h, action) ==
  IF Supplied(c)
  THEN /\ TRUE \in h.active
       /\ c.kind = "pat" => TRUE \in h.live
       /\ \E admin \in h.admin : \E role \in h.role : \E p \in h.plugin :
            Entitled(action, User(c), admin, role, p)
  ELSE \E p \in h.plugin : PublicPlugin(p)

\* By what was true since a request arrived: the caller could read the Plugin.
CouldRead(c, h) ==
  \/ \E p \in h.plugin : PublicPlugin(p)
  \/ /\ Supplied(c) /\ TRUE \in h.active
     /\ \/ Owner = User(c) \/ TRUE \in h.admin
        \/ \E role \in h.role : role # "none"

\* What a handler does was allowed: the user was active, the credential live and
\* the matrix gave the right at some moment since the request arrived, however
\* status, roles, tokens and the Plugin change between the queries.
DoneWasAllowed ==
  \A r \in Requests : LET q == request[r] IN
    q.answer = "done" =>
      \A i \in Asked(q) : WasAllowed(q.credential, held[r], Routes[q.route][i].action)

\* Management answers about an exact Plugin tell that it exists only to those who
\* could read it: everybody else gets "not found"
\* (docs/design/systems/02-plugin-lifecycle/management/api-contract.md).
Hidden ==
  \A r \in Requests : LET q == request[r] IN
    q.route \in ExactRoutes /\ q.answer \in {"done", "forbidden", "conflict", "unavailable"} =>
      CouldRead(q.credential, held[r])

\* A token that stays live and has the right preset is never refused, however many
\* requests use it at once.
LiveTokenAccepted ==
  \A r \in Requests : LET q == request[r] IN
    /\ q.answer = "unauthenticated" /\ q.credential.kind = "pat"
    /\ Preset[q.credential.id] = "git-write"
    => FALSE \in held[r].live

\* The time of the last use never goes back, although requests that read the clock
\* in one order write in another, and does not move once the token is revoked.
LastUseMovesForward ==
  [][\A t \in Tokens : token'[t].used # token[t].used =>
       token'[t].used > token[t].used /\ ~token[t].revoked]_vars

\* Every user who is active reads the index of his own Marketplace with a live
\* token (docs/protocols.md:76).
OwnIndexServed ==
  \A r \in Requests : LET q == request[r] IN
    q.route = "subscribe" /\ q.credential.kind = "pat" /\ q.answer = "notFound" =>
      FALSE \in held[r].live
=============================================================================
