---------------------------- MODULE AccessProofs ----------------------------
(***************************************************************************)
(* Theorems about Access, for every table of routes that fits, any number  *)
(* of users, tokens and overlapping requests, and every clock: what a      *)
(* handler does was allowed, a refused caller does not learn of a Plugin,  *)
(* a live token is not refused, and the time of its use only grows.        *)
(*                                                                         *)
(* The argument: while a request is at work, held has the present value of *)
(* every fact it may read next (Remembered).  So what it reads is in held, *)
(* what the policy grants by those facts is granted by held (Allowed), and *)
(* held only grows.                                                        *)
(***************************************************************************)
EXTENDS Access, TLAPS

-----------------------------------------------------------------------------
(***************************************************************************)
(* The inductive invariant.                                                *)
(***************************************************************************)
TokenRows == [expires : Nat, revoked : BOOLEAN, used : Nat]
PluginRows == [visibility : {"public", "private"},
               status     : {"draft", "active", "archived"},
               repository : {"ready", "readOnly", "error"},
               from       : {"none", "draft", "active"}]
CredentialStates == [kind : {"none", "pat", "jwt"}, id : Users \cup Tokens \cup {NoUser}]
Principals == [kind : {"anonymous", "user"}, scopes : SUBSET Actions]
RequestStates ==
  [pc : Steps \cup {"idle", "answered"}, route : DOMAIN Routes \cup {"none"}, at : Nat,
   credential : CredentialStates, principal : Principals, usedAt : Nat,
   row : PluginFacts, chosen : SUBSET Tokens, facts : Facts, second : BOOLEAN,
   listed : BOOLEAN, answer : Answers]
Memories == [active : SUBSET BOOLEAN, admin : SUBSET BOOLEAN,
             role : SUBSET (Roles \cup {"none"}), plugin : SUBSET PluginFacts,
             live : SUBSET BOOLEAN]

\* The rows of the database and the clock.
WorldTyped ==
  /\ person \in [Users -> Persons]
  /\ plugin \in PluginRows
  /\ plugin.from # "none" <=> plugin.status = "archived"
  /\ token \in [Tokens -> TokenRows]
  /\ now \in 1..MaxTime
  /\ \A t \in Tokens : token[t].used <= now

AccessTyped ==
  /\ WorldTyped
  /\ changes \in 0..MaxChanges
  /\ request \in [Requests -> RequestStates]
  /\ held \in [Requests -> Memories]

\* Where a request is in its route, and what the step there is.
Placed(q) ==
  /\ q.pc = "answered" <=> q.answer # "none"
  /\ q.pc = "idle" => q.principal.kind # "user" /\ q.listed = FALSE
  /\ q.pc \in Steps => /\ q.route \in DOMAIN Routes
                       /\ q.at \in DOMAIN Routes[q.route]
                       /\ q.listed = FALSE
  /\ q.pc \in {"preset", "touch", "validate"} =>
       Here(q).do = "find" /\ q.credential.kind = "pat"
  /\ q.pc \in {"status", "admin", "role"} =>
       Here(q).do = "ask" /\ q.principal.kind = "user"
  /\ q.pc = "teamAdmin" => Here(q).do = "team"
  /\ q.credential.kind = "pat" => q.credential.id \in Tokens /\ q.route \in TokenTaking
  /\ q.credential.kind = "jwt" => q.credential.id \in Users /\ q.route \notin TokenTaking

\* A principal comes from a credential, and from a token only when it was live.
Known(q, h) ==
  /\ q.principal.kind = "user" =>
       Supplied(q.credential) /\ (q.credential.kind = "pat" => TRUE \in h.live)
  /\ q.pc \in {"preset", "touch", "validate"} => TRUE \in h.live
  /\ q.pc \in Steps /\ Supplied(q.credential) /\ q.principal.kind # "user" =>
       \A i \in DOMAIN Routes[q.route] :
         i < q.at => Routes[q.route][i].do \notin {"bearer", "maybe", "find"}
  /\ q.pc \in Steps /\ ~Supplied(q.credential) =>
       \A i \in DOMAIN Routes[q.route] : i < q.at => Routes[q.route][i].do # "bearer"

\* What was read for the question that is being asked.
FactsHeld(facts, type, c, h) ==
  /\ facts.active = TRUE => TRUE \in h.active
  /\ facts.admin = TRUE => TRUE \in h.admin
  /\ facts.role # "none" => facts.role \in h.role
  /\ type = "plugin" => facts.plugin \in h.plugin
  /\ facts.ownsNamespace = TRUE => OwnNamespace(type, User(c))

Read(q, h) ==
  q.pc \in {"status", "admin", "role"} =>
    FactsHeld(q.facts, Question(q).type, q.credential, h)

\* The questions behind a request were all granted, but for those that skip.
Passed(q, h) ==
  q.pc \in Steps =>
    \A i \in DOMAIN Routes[q.route] :
      /\ i < q.at /\ Routes[q.route][i].do = "ask" /\ Routes[q.route][i].denied # "skip"
      => WasAllowed(q.credential, h, Routes[q.route][i].action)

DoneRight(q, h) ==
  q.answer = "done" =>
    \A i \in Asked(q) : WasAllowed(q.credential, h, Routes[q.route][i].action)
HiddenRight(q, h) ==
  q.route \in ExactRoutes /\ q.answer \in {"done", "forbidden", "conflict", "unavailable"} =>
    CouldRead(q.credential, h)
LiveRight(q, h) ==
  /\ q.answer = "unauthenticated" /\ q.credential.kind = "pat"
  /\ Preset[q.credential.id] = "git-write"
  => FALSE \in h.live

Sound(q, h) ==
  /\ Placed(q) /\ Known(q, h) /\ Read(q, h) /\ Passed(q, h)
  /\ DoneRight(q, h) /\ HiddenRight(q, h) /\ LiveRight(q, h)

\* A touch that wrote nothing found the token dead or used at least as late.
Timed(q, h) ==
  /\ q.pc \in {"touch", "validate"} => q.usedAt <= now
  /\ q.pc = "validate" => FALSE \in h.live \/ q.usedAt <= token[q.credential.id].used

\* The present facts are among those held.
Remembered(q, h) ==
  q.pc \in Steps =>
    /\ PluginRow \in h.plugin
    /\ Supplied(q.credential) => /\ person[User(q.credential)].active \in h.active
                                 /\ person[User(q.credential)].admin \in h.admin
                                 /\ person[User(q.credential)].role \in h.role
    /\ q.credential.kind = "pat" =>
         (Live(q.credential.id, now) /\ person[User(q.credential)].active) \in h.live

AccessInv ==
  /\ AccessTyped
  /\ \A r \in Requests : /\ Sound(request[r], held[r])
                         /\ Timed(request[r], held[r])
                         /\ Remembered(request[r], held[r])

-----------------------------------------------------------------------------
(***************************************************************************)
(* What held shows it shows for ever: it only grows.                       *)
(***************************************************************************)
Within(h, g) ==
  /\ h.active \subseteq g.active /\ h.admin \subseteq g.admin /\ h.role \subseteq g.role
  /\ h.plugin \subseteq g.plugin /\ h.live \subseteq g.live

\* What was allowed by some facts is allowed by more of them.
LEMMA AllowedGrows ==
  ASSUME NEW c, NEW h, NEW g, NEW action, Within(h, g), WasAllowed(c, h, action)
  PROVE  WasAllowed(c, g, action)
BY Zenon DEF Within, WasAllowed

LEMMA CouldReadGrows ==
  ASSUME NEW c, NEW h, NEW g, Within(h, g), CouldRead(c, h)
  PROVE  CouldRead(c, g)
BY Zenon DEF Within, CouldRead

\* Every action needs some role.
LEMMA NeedsSomething ==
  ASSUME NEW action
  PROVE  Needed(action) \in Nat /\ Needed(action) > 0
<1>1. CASE action \in {"plugin.list", "plugin.read"}
  BY <1>1, SMT DEF Needed
<1>2. CASE action \in {"plugin.create", "plugin.write"}
  BY <1>2, SMT DEF Needed
<1>3. CASE action \in {"plugin.archive", "plugin.publish"}
  BY <1>3, SMT DEF Needed
<1>4. CASE action \notin {"plugin.list", "plugin.read", "plugin.create", "plugin.write",
                        "plugin.archive", "plugin.publish"}
  BY <1>4, SMT DEF Needed
<1> QED BY <1>1, <1>2, <1>3, <1>4

\* Who was allowed something on the Plugin could read it.
LEMMA AllowedCouldRead ==
  ASSUME NEW c, NEW h, NEW action \in PluginActions, WasAllowed(c, h, action),
         h.admin \subseteq BOOLEAN
  PROVE  CouldRead(c, h)
<1>1. CASE ~Supplied(c)
  BY <1>1, Zenon DEF WasAllowed, CouldRead
<1>2. CASE Supplied(c)
  <2>1. TRUE \in h.active
    BY <1>2, Zenon DEF WasAllowed
  <2>2. PICK admin \in h.admin : \E role \in h.role : \E p \in h.plugin :
                 Entitled(action, User(c), admin, role, p)
    BY <1>2, Zenon DEF WasAllowed
  <2>3. PICK role \in h.role : \E p \in h.plugin : Entitled(action, User(c), admin, role, p)
    BY <2>2
  <2>4. PICK p \in h.plugin : Entitled(action, User(c), admin, role, p)
    BY <2>3
  <2>5. \/ admin
        \/ PublicPlugin(p)
        \/ Owner = User(c)
        \/ role # "none"
    <3>1. action \notin TokenActions
      BY DEF PluginActions, TokenActions
    <3>2. Rank("none") = 0
      BY DEF Rank
    <3>3. role = "none" => ~(Rank(role) >= Needed(action))
      BY <3>2, NeedsSomething, SMT
    <3> QED BY <2>4, <3>1, <3>3, Zenon DEF Entitled
  <2>6. CASE admin
    BY <1>2, <2>1, <2>6, Zenon DEF CouldRead
  <2>7. CASE PublicPlugin(p)
    BY <2>7, Zenon DEF CouldRead
  <2>8. CASE Owner = User(c) \/ role # "none"
    BY <1>2, <2>1, <2>8, Zenon DEF CouldRead
  <2> QED BY <2>5, <2>6, <2>7, <2>8
<1> QED BY <1>1, <1>2

LEMMA SoundGrows ==
  ASSUME NEW q, NEW h, NEW g, Within(h, g), Sound(q, h)
  PROVE  Sound(q, g)
<1>1. Placed(q)
  BY DEF Sound
<1>2. Known(q, g)
  <2>1. Known(q, h)
    BY DEF Sound
  <2>2. TRUE \in h.live => TRUE \in g.live
    BY DEF Within
  <2> QED BY <2>1, <2>2, Zenon DEF Known
<1>3. Read(q, g)
  <2>1. Read(q, h)
    BY DEF Sound
  <2> SUFFICES ASSUME q.pc \in {"status", "admin", "role"}
               PROVE  FactsHeld(q.facts, Question(q).type, q.credential, g)
    BY DEF Read
  <2>2. FactsHeld(q.facts, Question(q).type, q.credential, h)
    BY <2>1 DEF Read
  <2> QED BY <2>2, Zenon DEF FactsHeld, Within
<1>4. Passed(q, g)
  <2>1. Passed(q, h)
    BY DEF Sound
  <2> QED BY <2>1, AllowedGrows, Zenon DEF Passed
<1>5. DoneRight(q, g)
  <2>1. DoneRight(q, h)
    BY DEF Sound
  <2> QED BY <2>1, AllowedGrows, Zenon DEF DoneRight
<1>6. HiddenRight(q, g)
  <2>1. HiddenRight(q, h)
    BY DEF Sound
  <2> QED BY <2>1, CouldReadGrows, Zenon DEF HiddenRight
<1>7. LiveRight(q, g)
  <2>1. LiveRight(q, h)
    BY DEF Sound
  <2>2. FALSE \in h.live => FALSE \in g.live
    BY DEF Within
  <2> QED BY <2>1, <2>2, Zenon DEF LiveRight
<1> QED BY <1>1, <1>2, <1>3, <1>4, <1>5, <1>6, <1>7 DEF Sound

-----------------------------------------------------------------------------
(***************************************************************************)
(* The policy: what it grants by facts that are held was allowed.          *)
(***************************************************************************)

\* A role that is in the list of an action reaches as far as the action needs.
LEMMA RolesReach ==
  ASSUME NEW action, NEW role \in RolesForPlugin(action)
  PROVE  Rank(role) >= Needed(action) /\ role # "none"
BY SMT DEF RolesForPlugin, Rank, Needed, Roles

\* Whose Namespace an action on a Namespace or a Plugin is asked about.
LEMMA NamespaceOfQuestion ==
  ASSUME NEW action, NEW type, NEW u, type \in SupportedTypes(action),
         OwnNamespace(type, u)
  PROVE  /\ action \in NamespaceActions \cup PluginActions => Owner = u
         /\ action # "marketplace.read"
BY SMT DEF SupportedTypes, OwnNamespace, NamespaceActions, PluginActions, TokenActions,
            CollectionActions, UserActions, TeamActions, OpenActions, TeamReadActions,
            TeamWriteActions

LEMMA PluginQuestion ==
  ASSUME NEW action \in PluginActions, NEW type \in SupportedTypes(action)
  PROVE  type = "plugin"
BY SMT DEF SupportedTypes, NamespaceActions, PluginActions, TokenActions,
            CollectionActions, UserActions, TeamActions, OpenActions, TeamReadActions,
            TeamWriteActions

LEMMA PluginActionsApart ==
  PluginActions \cap (OpenActions \cup TeamActions \cup NamespaceActions) = {}
BY SMT DEF NamespaceActions, PluginActions, TeamActions, OpenActions, TeamReadActions,
           TeamWriteActions

LEMMA NamespaceActionsApart ==
  NamespaceActions \cap (OpenActions \cup TeamActions \cup PluginActions) = {}
BY SMT DEF NamespaceActions, PluginActions, TeamActions, OpenActions, TeamReadActions,
           TeamWriteActions

\* The facts that the policy looked at are held, so what it granted was allowed.
LEMMA GrantedWasAllowed ==
  ASSUME NEW c, NEW h, NEW principal, NEW action, NEW type, NEW facts,
         Authorize(principal, action, type, facts),
         FactsHeld(facts, type, c, h),
         facts.active \in BOOLEAN, facts.admin \in BOOLEAN, facts.ownsNamespace \in BOOLEAN,
         action \notin TeamActions \cup OpenActions,
         principal.kind \in {"anonymous", "user"},
         principal.kind = "anonymous" => ~Supplied(c),
         principal.kind = "user" => /\ Supplied(c)
                                    /\ c.kind = "pat" => TRUE \in h.live
                                    /\ \E admin \in h.admin : TRUE
                                    /\ \E role \in h.role : TRUE
                                    /\ \E p \in h.plugin : TRUE
  PROVE  WasAllowed(c, h, action)
<1>1. /\ action \in Actions
      /\ type \in SupportedTypes(action)
  BY DEF Authorize, Askable
<1>2. action \in PluginActions => facts.plugin \in h.plugin
  BY <1>1, PluginQuestion DEF FactsHeld
<1>3. CASE principal.kind = "anonymous"
  <2>1. action = "plugin.read" /\ PublicRead(facts.plugin)
    BY <1>3, Zenon DEF Authorize, Askable
  <2>2. action \in PluginActions
    BY <2>1 DEF PluginActions
  <2>3. PublicPlugin(facts.plugin)
    BY <2>1 DEF PublicRead, PublicPlugin
  <2> QED BY <1>2, <1>3, <2>2, <2>3, Zenon DEF WasAllowed
<1>4. CASE principal.kind = "user"
  <2>1. facts.active /\ UserMay(action, facts)
    BY <1>4, Zenon DEF Authorize
  <2>2. facts.active = TRUE
    BY <2>1
  <2>3. TRUE \in h.active
    BY <2>2, Zenon DEF FactsHeld
  <2>4. ASSUME NEW admin \in h.admin, NEW role \in h.role, NEW p \in h.plugin,
               Entitled(action, User(c), admin, role, p)
        PROVE  WasAllowed(c, h, action)
    BY <1>4, <2>3, <2>4, Zenon DEF WasAllowed
  <2>5. PICK someone \in h.admin : TRUE
    BY <1>4
  <2>6. PICK somerole \in h.role : TRUE
    BY <1>4
  <2>7. PICK someplugin \in h.plugin : TRUE
    BY <1>4
  <2>8. facts.admin => TRUE \in h.admin
    <3>1. facts.admin => facts.admin = TRUE
      BY Zenon
    <3> QED BY <3>1, Zenon DEF FactsHeld
  <2>9. facts.ownsNamespace => OwnNamespace(type, User(c))
    <3>1. facts.ownsNamespace => facts.ownsNamespace = TRUE
      BY Zenon
    <3> QED BY <3>1, Zenon DEF FactsHeld
  <2>10. facts.role \in RolesForPlugin(action) =>
           facts.role \in h.role /\ Rank(facts.role) >= Needed(action)
    BY RolesReach, Zenon DEF FactsHeld
  <2>11. CASE action \in PluginActions
    <3>1. facts.plugin \in h.plugin
      BY <1>2, <2>11
    <3>2. ~(Closed(facts.plugin) /\ action \in {"plugin.write", "plugin.publish"})
      <4>1. StateAllows(action, facts.plugin)
        BY <2>1, <2>11, PluginActionsApart, Zenon DEF UserMay
      <4> QED BY <4>1, Zenon DEF StateAllows, Closed
    <3>3. \/ action = "plugin.read" /\ PublicRead(facts.plugin)
          \/ OwnsOrPlays(action, facts)
      BY <2>1, <2>11, PluginActionsApart, Zenon DEF UserMay
    <3>4. CASE action = "plugin.read" /\ PublicRead(facts.plugin)
      <4>1. PublicPlugin(facts.plugin)
        BY <3>4 DEF PublicRead, PublicPlugin
      <4>2. Entitled(action, User(c), someone, somerole, facts.plugin)
        BY <3>4, <4>1, Zenon DEF Entitled
      <4> QED BY <2>4, <2>5, <2>6, <3>1, <4>2, Zenon
    <3>5. CASE facts.admin
      <4>1. Entitled(action, User(c), TRUE, somerole, facts.plugin)
        BY <3>2, Zenon DEF Entitled
      <4> QED BY <2>4, <2>6, <2>8, <3>1, <3>5, <4>1, Zenon
    <3>6. CASE facts.ownsNamespace
      <4>1. Owner = User(c)
        BY <1>1, <2>9, <2>11, <3>6, NamespaceOfQuestion, Zenon
      <4>2. Entitled(action, User(c), someone, somerole, facts.plugin)
        BY <2>11, <3>2, <4>1, Zenon DEF Entitled
      <4> QED BY <2>4, <2>5, <2>6, <3>1, <4>2, Zenon
    <3>7. CASE facts.role \in RolesForPlugin(action)
      <4>1. Entitled(action, User(c), someone, facts.role, facts.plugin)
        BY <2>10, <2>11, <3>2, <3>7, Zenon DEF Entitled
      <4> QED BY <2>4, <2>5, <2>10, <3>1, <3>7, <4>1, Zenon
    <3> QED BY <3>3, <3>4, <3>5, <3>6, <3>7, Zenon DEF OwnsOrPlays
  <2>12. CASE action \in NamespaceActions
    <3>1. action \notin {"plugin.write", "plugin.publish"}
      BY <2>12 DEF NamespaceActions
    <3>2. OwnsOrPlays(action, facts)
      BY <2>1, <2>12, NamespaceActionsApart, Zenon DEF UserMay
    <3>3. CASE facts.admin
      <4>1. Entitled(action, User(c), TRUE, somerole, someplugin)
        BY <3>1, Zenon DEF Entitled
      <4> QED BY <2>4, <2>6, <2>7, <2>8, <3>3, <4>1, Zenon
    <3>4. CASE facts.ownsNamespace
      <4>1. Owner = User(c)
        BY <1>1, <2>9, <2>12, <3>4, NamespaceOfQuestion, Zenon
      <4>2. Entitled(action, User(c), someone, somerole, someplugin)
        BY <2>12, <3>1, <4>1, Zenon DEF Entitled
      <4> QED BY <2>4, <2>5, <2>6, <2>7, <4>2, Zenon
    <3>5. CASE facts.role \in RolesForPlugin(action)
      <4>1. Entitled(action, User(c), someone, facts.role, someplugin)
        BY <2>10, <2>12, <3>1, <3>5, Zenon DEF Entitled
      <4> QED BY <2>4, <2>5, <2>7, <2>10, <3>5, <4>1, Zenon
    <3> QED BY <3>2, <3>3, <3>4, <3>5, Zenon DEF OwnsOrPlays
  <2>13. CASE action \notin PluginActions \cup NamespaceActions
    <3>1. action \notin {"plugin.write", "plugin.publish"}
      BY <2>13 DEF PluginActions
    <3>2. \/ facts.admin
          \/ action \in TokenActions
          \/ facts.ownsNamespace /\ action = "marketplace.read"
      BY <2>1, <2>13, Zenon DEF UserMay
    <3>3. CASE facts.admin
      <4>1. Entitled(action, User(c), TRUE, somerole, someplugin)
        BY <3>1, Zenon DEF Entitled
      <4> QED BY <2>4, <2>6, <2>7, <2>8, <3>3, <4>1, Zenon
    <3>4. CASE action \in TokenActions
      <4>1. Entitled(action, User(c), someone, somerole, someplugin)
        BY <3>4, Zenon DEF Entitled
      <4> QED BY <2>4, <2>5, <2>6, <2>7, <4>1, Zenon
    <3>5. CASE facts.ownsNamespace /\ action = "marketplace.read"
      BY <1>1, <2>9, <3>5, NamespaceOfQuestion, Zenon
    <3> QED BY <3>2, <3>3, <3>4, <3>5
  <2> QED BY <2>11, <2>12, <2>13
<1> QED BY <1>3, <1>4

-----------------------------------------------------------------------------
(***************************************************************************)
(* Requests: what the updates of a handler leave.                          *)
(***************************************************************************)
LEMMA UnreadTyped == Unread \in Facts /\ Unread.plugin \in PluginFacts
BY SMT DEF Unread, Facts, PluginFacts, Roles

LEMMA AnonymousTyped == Anonymous \in Principals /\ Anonymous.kind # "user"
BY SMT DEF Anonymous, Principals

\* Fields of an answered request.
LEMMA AnsweredFields ==
  ASSUME NEW q \in RequestStates, NEW a
  PROVE  /\ Answered(q, a).pc = "answered" /\ Answered(q, a).answer = a
         /\ Answered(q, a).route = q.route /\ Answered(q, a).credential = q.credential
         /\ Answered(q, a).listed = q.listed /\ Answered(q, a).principal = Anonymous
BY SMT DEF Answered, RequestStates

LEMMA AnsweredTyped ==
  ASSUME NEW q \in RequestStates, NEW a \in Answers
  PROVE  Answered(q, a) \in RequestStates
<1>1. "answered" \in Steps \cup {"idle", "answered"} /\ 0 \in Nat /\ {} \in SUBSET Tokens
  OBVIOUS
<1>2. FALSE \in BOOLEAN
  OBVIOUS
<1> QED BY <1>1, <1>2, UnreadTyped, AnonymousTyped, ZenonT(60) DEF Answered, RequestStates

\* Fields of a request at its next step.
LEMMA NextFields ==
  ASSUME NEW q \in RequestStates, q.at # Len(Routes[q.route])
  PROVE  /\ Proceeded(q).pc = "step" /\ Proceeded(q).at = q.at + 1
         /\ Proceeded(q).route = q.route /\ Proceeded(q).credential = q.credential
         /\ Proceeded(q).listed = q.listed /\ Proceeded(q).principal = q.principal
         /\ Proceeded(q).answer = q.answer
BY SMT DEF Proceeded, RequestStates

LEMMA NextTyped ==
  ASSUME NEW q \in RequestStates, q.at # Len(Routes[q.route])
  PROVE  Proceeded(q) \in RequestStates
<1>1. "step" \in Steps \cup {"idle", "answered"} /\ FALSE \in BOOLEAN
  BY DEF Steps
<1>2. q.at \in Nat
  BY DEF RequestStates
<1>3. q.at + 1 \in Nat
  BY <1>2
<1>4. Proceeded(q) = [q EXCEPT !.pc = "step", !.at = @ + 1, !.second = FALSE, !.facts = Unread]
  BY DEF Proceeded
<1>5. Proceeded(q) = [q EXCEPT !.pc = "step", !.at = q.at + 1, !.second = FALSE,
                               !.facts = Unread]
  BY <1>4
<1> QED BY <1>1, <1>3, <1>5, UnreadTyped, ZenonT(60) DEF RequestStates

\* A handler may note something before it goes on.
KeepsPlace(q, n) ==
  /\ n.pc = q.pc /\ n.route = q.route /\ n.at = q.at
  /\ n.credential = q.credential /\ n.answer = q.answer

LEMMA PrincipalNoted ==
  ASSUME NEW q \in RequestStates, NEW p \in Principals
  PROVE  /\ [q EXCEPT !.principal = p] \in RequestStates
         /\ KeepsPlace(q, [q EXCEPT !.principal = p])
         /\ [q EXCEPT !.principal = p].principal = p
         /\ [q EXCEPT !.principal = p].listed = q.listed
<1>1. [q EXCEPT !.principal = p] \in RequestStates
  BY ZenonT(60) DEF RequestStates
<1>2. /\ KeepsPlace(q, [q EXCEPT !.principal = p])
      /\ [q EXCEPT !.principal = p].principal = p
      /\ [q EXCEPT !.principal = p].listed = q.listed
  BY SMT DEF RequestStates, KeepsPlace
<1> QED BY <1>1, <1>2

LEMMA RowNoted ==
  ASSUME NEW q \in RequestStates, NEW row \in PluginFacts
  PROVE  /\ [q EXCEPT !.row = row] \in RequestStates
         /\ KeepsPlace(q, [q EXCEPT !.row = row])
         /\ [q EXCEPT !.row = row].principal = q.principal
         /\ [q EXCEPT !.row = row].listed = q.listed
<1>1. [q EXCEPT !.row = row] \in RequestStates
  BY ZenonT(60) DEF RequestStates
<1>2. /\ KeepsPlace(q, [q EXCEPT !.row = row])
      /\ [q EXCEPT !.row = row].principal = q.principal
      /\ [q EXCEPT !.row = row].listed = q.listed
  BY SMT DEF RequestStates, KeepsPlace
<1> QED BY <1>1, <1>2

LEMMA ChoiceNoted ==
  ASSUME NEW q \in RequestStates, NEW some \in SUBSET Tokens
  PROVE  /\ [q EXCEPT !.chosen = some] \in RequestStates
         /\ KeepsPlace(q, [q EXCEPT !.chosen = some])
         /\ [q EXCEPT !.chosen = some].principal = q.principal
         /\ [q EXCEPT !.chosen = some].listed = q.listed
<1>1. [q EXCEPT !.chosen = some] \in RequestStates
  BY ZenonT(60) DEF RequestStates
<1>2. /\ KeepsPlace(q, [q EXCEPT !.chosen = some])
      /\ [q EXCEPT !.chosen = some].principal = q.principal
      /\ [q EXCEPT !.chosen = some].listed = q.listed
  BY SMT DEF RequestStates, KeepsPlace
<1> QED BY <1>1, <1>2

LEMMA ListedNoted ==
  ASSUME NEW q \in RequestStates, NEW b \in BOOLEAN
  PROVE  /\ [q EXCEPT !.listed = b] \in RequestStates
         /\ KeepsPlace(q, [q EXCEPT !.listed = b])
         /\ [q EXCEPT !.listed = b].principal = q.principal
         /\ [q EXCEPT !.listed = b].listed = b
<1>1. [q EXCEPT !.listed = b] \in RequestStates
  BY ZenonT(60) DEF RequestStates
<1>2. /\ KeepsPlace(q, [q EXCEPT !.listed = b])
      /\ [q EXCEPT !.listed = b].principal = q.principal
  BY SMT DEF RequestStates, KeepsPlace
<1>3. [q EXCEPT !.listed = b].listed = b
  BY Zenon DEF RequestStates
<1> QED BY <1>1, <1>2, <1>3

-----------------------------------------------------------------------------
(***************************************************************************)
(* A request that is answered, or goes on to its next step, stays sound.   *)
(***************************************************************************)

\* The steps of a route, as RoutesFit has them.
LEMMA RouteSteps ==
  ASSUME NEW route \in DOMAIN Routes
  PROVE  /\ Len(Routes[route]) \in Nat \ {0}
         /\ DOMAIN Routes[route] = 1..Len(Routes[route])
         /\ \A i \in DOMAIN Routes[route] :
              StepFits(Routes[route], i, route \in TokenTaking)
         /\ route \in ExactRoutes => HidesFirst(Routes[route])
BY RoutesFit, Zenon

\* What an answer may be, by what is held.
AnswerRight(q, h, a) ==
  /\ a = "done" =>
       \A i \in Asked(q) : WasAllowed(q.credential, h, Routes[q.route][i].action)
  /\ q.route \in ExactRoutes /\ a \in {"done", "forbidden", "conflict", "unavailable"} =>
       CouldRead(q.credential, h)
  /\ /\ a = "unauthenticated" /\ q.credential.kind = "pat"
     /\ Preset[q.credential.id] = "git-write"
     => FALSE \in h.live

CredentialFits(q) ==
  /\ q.credential.kind = "pat" => q.credential.id \in Tokens /\ q.route \in TokenTaking
  /\ q.credential.kind = "jwt" => q.credential.id \in Users /\ q.route \notin TokenTaking

LEMMA AnsweredSound ==
  ASSUME NEW q \in RequestStates, NEW h, NEW a \in Answers \ {"none"},
         CredentialFits(q), AnswerRight(q, h, a)
  PROVE  Answered(q, a) \in RequestStates /\ Answered(q, a).pc = "answered"
         /\ Sound(Answered(q, a), h) /\ Timed(Answered(q, a), h)
<1> DEFINE n == Answered(q, a)
<1>1. n \in RequestStates
  BY AnsweredTyped, Zenon
<1>2. /\ n.pc = "answered" /\ n.answer = a /\ n.route = q.route
      /\ n.credential = q.credential /\ n.listed = q.listed /\ n.principal = Anonymous
  BY AnsweredFields, Zenon
<1> HIDE DEF n
<1>3. n.pc \notin Steps /\ a # "none"
  BY <1>2 DEF Steps
<1>4. n.principal.kind # "user"
  BY <1>2, AnonymousTyped, Zenon
<1>5. n.pc \notin {"preset", "touch", "validate"} /\ n.pc \notin {"status", "admin", "role"}
      /\ n.pc # "teamAdmin" /\ n.pc # "validate" /\ n.pc \notin {"touch", "validate"}
      /\ n.pc # "idle"
  BY <1>2
<1>6. Placed(n)
  BY <1>2, <1>3, <1>5, Zenon DEF Placed, CredentialFits
<1>7. Known(n, h) /\ Read(n, h) /\ Passed(n, h) /\ Timed(n, h)
  BY <1>3, <1>4, <1>5, Zenon DEF Known, Read, Passed, Timed
<1>8. Asked(n) = Asked(q)
  BY <1>2, Zenon DEF Asked
<1>9. DoneRight(n, h)
  BY <1>2, <1>8, Zenon DEF AnswerRight, DoneRight
<1>10. HiddenRight(n, h)
  BY <1>2, Zenon DEF AnswerRight, HiddenRight
<1>11. LiveRight(n, h)
  BY <1>2, Zenon DEF AnswerRight, LiveRight
<1> QED BY <1>1, <1>2, <1>6, <1>7, <1>9, <1>10, <1>11, Zenon DEF Sound, n

\* A request that has done what its step asks for.
Ready(q, h) ==
  /\ q.pc \in Steps /\ q.answer = "none"
  /\ q.route \in DOMAIN Routes /\ q.at \in DOMAIN Routes[q.route]
  /\ CredentialFits(q)
  /\ q.principal.kind = "user" =>
       Supplied(q.credential) /\ (q.credential.kind = "pat" => TRUE \in h.live)
  /\ Supplied(q.credential) /\ q.principal.kind # "user" =>
       \A i \in DOMAIN Routes[q.route] :
         i <= q.at => Routes[q.route][i].do \notin {"bearer", "maybe", "find"}
  /\ ~Supplied(q.credential) =>
       \A i \in DOMAIN Routes[q.route] : i <= q.at => Routes[q.route][i].do # "bearer"
  /\ Passed(q, h)
  /\ Here(q).do = "ask" /\ (Here(q).denied # "skip" \/ q.listed = TRUE) =>
       WasAllowed(q.credential, h, Here(q).action)
  /\ q.listed = TRUE => Here(q).do = "ask" /\ Here(q).denied = "skip"

LEMMA ReadyBehind ==
  ASSUME NEW q \in RequestStates, NEW h, Ready(q, h)
  PROVE  \A i \in DOMAIN Routes[q.route] :
           /\ i <= q.at /\ Routes[q.route][i].do = "ask"
           /\ Routes[q.route][i].denied # "skip" \/ q.listed = TRUE
           => WasAllowed(q.credential, h, Routes[q.route][i].action)
<1> SUFFICES ASSUME NEW i \in DOMAIN Routes[q.route],
                    i <= q.at, Routes[q.route][i].do = "ask",
                    Routes[q.route][i].denied # "skip" \/ q.listed = TRUE
             PROVE  WasAllowed(q.credential, h, Routes[q.route][i].action)
  OBVIOUS
<1>1. q.route \in DOMAIN Routes /\ q.at \in DOMAIN Routes[q.route] /\ q.pc \in Steps
  BY DEF Ready
<1>2. /\ Len(Routes[q.route]) \in Nat
      /\ DOMAIN Routes[q.route] = 1..Len(Routes[q.route])
  BY <1>1, RouteSteps
<1>3. i < q.at \/ i = q.at
  BY <1>1, <1>2, SMT
<1>4. CASE i = q.at
  BY <1>4, Zenon DEF Ready, Here
<1>5. CASE i < q.at
  <2>1. Routes[q.route][i].denied # "skip"
    <3>1. SUFFICES ASSUME Routes[q.route][i].denied = "skip"
                   PROVE  FALSE
      OBVIOUS
    <3>2. QuestionFits(Routes[q.route], i)
      BY <1>1, RouteSteps, Zenon DEF StepFits
    <3>3. i = Len(Routes[q.route])
      BY <3>1, <3>2 DEF QuestionFits
    <3> QED BY <1>1, <1>2, <1>5, <3>3, SMT
  <2> QED BY <1>1, <1>5, <2>1, Zenon DEF Ready, Passed
<1> QED BY <1>3, <1>4, <1>5

LEMMA ProceededSound ==
  ASSUME NEW q \in RequestStates, NEW h, Ready(q, h), h \in Memories
  PROVE  Proceeded(q) \in RequestStates /\ Proceeded(q).pc # "idle"
         /\ Sound(Proceeded(q), h) /\ Timed(Proceeded(q), h)
<1>1. q.route \in DOMAIN Routes /\ q.at \in DOMAIN Routes[q.route] /\ q.pc \in Steps
  BY DEF Ready
<1>2. /\ Len(Routes[q.route]) \in Nat
      /\ DOMAIN Routes[q.route] = 1..Len(Routes[q.route])
  BY <1>1, RouteSteps
<1>3. CASE q.at = Len(Routes[q.route])
  <2>1. Proceeded(q) = Answered(q, "done")
    BY <1>3 DEF Proceeded
  <2>2. \A i \in Asked(q) : WasAllowed(q.credential, h, Routes[q.route][i].action)
    <3>1. ASSUME NEW i \in Asked(q)
          PROVE  WasAllowed(q.credential, h, Routes[q.route][i].action)
      <4>1. /\ i \in DOMAIN Routes[q.route] /\ Routes[q.route][i].do = "ask"
            /\ Routes[q.route][i].denied # "skip" \/ q.listed
        BY <3>1, Zenon DEF Asked
      <4>2. q.listed => q.listed = TRUE
        BY Zenon DEF RequestStates
      <4>3. i <= q.at
        BY <1>2, <1>3, <4>1, SMT
      <4> QED BY <4>1, <4>2, <4>3, ReadyBehind, Zenon
    <3> QED BY <3>1
  <2>3. q.route \in ExactRoutes => CouldRead(q.credential, h)
    <3>1. SUFFICES ASSUME q.route \in ExactRoutes
                   PROVE  CouldRead(q.credential, h)
      OBVIOUS
    <3>2. PICK i \in DOMAIN Routes[q.route] :
            /\ Routes[q.route][i].do = "ask" /\ Routes[q.route][i].action \in PluginActions
            /\ Routes[q.route][i].denied \in {"notFound", "readable?"}
      BY <1>1, <3>1, RouteSteps, Zenon DEF HidesFirst
    <3>3. Routes[q.route][i].denied # "skip"
      BY <3>2
    <3>4. i <= q.at
      BY <1>2, <1>3, SMT
    <3>5. WasAllowed(q.credential, h, Routes[q.route][i].action)
      BY <3>2, <3>3, <3>4, ReadyBehind, Zenon
    <3>6. h.admin \subseteq BOOLEAN
      BY SMT DEF Memories
    <3> QED BY <3>2, <3>5, <3>6, AllowedCouldRead, Zenon
  <2>4. AnswerRight(q, h, "done")
    BY <2>2, <2>3, Zenon DEF AnswerRight
  <2>5. "done" \in Answers \ {"none"} /\ CredentialFits(q)
    BY DEF Answers, Ready
  <2>6. Answered(q, "done").pc # "idle"
    BY AnsweredFields
  <2> QED BY <2>1, <2>4, <2>5, <2>6, AnsweredSound
<1>4. CASE q.at # Len(Routes[q.route])
  <2> DEFINE n == Proceeded(q)
  <2>1. n \in RequestStates
    BY <1>4, NextTyped
  <2>2. /\ n.pc = "step" /\ n.at = q.at + 1 /\ n.route = q.route
        /\ n.credential = q.credential /\ n.listed = q.listed /\ n.principal = q.principal
        /\ n.answer = q.answer
    BY <1>4, NextFields, Zenon
  <2> HIDE DEF n
  <2>3. n.at \in DOMAIN Routes[n.route] /\ n.route \in DOMAIN Routes
    <3>1. q.at + 1 \in 1..Len(Routes[q.route])
      BY <1>1, <1>2, <1>4, SMT
    <3> QED BY <1>1, <1>2, <2>2, <3>1
  <2>4. q.listed = FALSE
    <3>1. ASSUME q.listed = TRUE
          PROVE  FALSE
      <4>1. Here(q).do = "ask" /\ Here(q).denied = "skip"
        BY <3>1, Zenon DEF Ready
      <4>2. QuestionFits(Routes[q.route], q.at)
        BY <1>1, <4>1, RouteSteps, Zenon DEF StepFits, Here
      <4>3. q.at = Len(Routes[q.route])
        BY <4>1, <4>2, Zenon DEF QuestionFits, Here
      <4> QED BY <1>4, <4>3
    <3>2. q.listed \in BOOLEAN
      BY DEF RequestStates
    <3> QED BY <3>1, <3>2, Zenon
  <2>5. /\ n.pc \notin {"preset", "touch", "validate"} /\ n.pc \notin {"status", "admin", "role"}
        /\ n.pc # "teamAdmin" /\ n.pc # "answered" /\ n.pc # "validate" /\ n.pc # "idle"
        /\ n.pc \notin {"touch", "validate"}
    BY <2>2
  <2>6. n.answer = "none"
    BY <2>2 DEF Ready
  <2>7. Placed(n)
    <3>1. CredentialFits(q)
      BY DEF Ready
    <3> QED BY <2>2, <2>3, <2>4, <2>5, <2>6, <3>1, Zenon DEF Placed, CredentialFits
  <2>8. \A i \in DOMAIN Routes[q.route] : i < q.at + 1 => i <= q.at
    BY <1>1, <1>2, SMT
  <2>9. Known(n, h)
    <3>1. n.principal.kind = "user" =>
            Supplied(n.credential) /\ (n.credential.kind = "pat" => TRUE \in h.live)
      BY <2>2, Zenon DEF Ready
    <3>2. Supplied(n.credential) /\ n.principal.kind # "user" =>
            \A i \in DOMAIN Routes[n.route] :
              i < n.at => Routes[n.route][i].do \notin {"bearer", "maybe", "find"}
      BY <2>2, <2>8, Zenon DEF Ready
    <3>3. ~Supplied(n.credential) =>
            \A i \in DOMAIN Routes[n.route] : i < n.at => Routes[n.route][i].do # "bearer"
      BY <2>2, <2>8, Zenon DEF Ready
    <3> QED BY <2>5, <3>1, <3>2, <3>3, Zenon DEF Known
  <2>10. Passed(n, h)
    <3>1. ASSUME NEW i \in DOMAIN Routes[n.route],
                 i < n.at, Routes[n.route][i].do = "ask", Routes[n.route][i].denied # "skip"
          PROVE  WasAllowed(n.credential, h, Routes[n.route][i].action)
      BY <2>2, <2>8, <3>1, ReadyBehind, Zenon
    <3> QED BY <3>1, Zenon DEF Passed
  <2>11. Read(n, h) /\ Timed(n, h)
    BY <2>5, Zenon DEF Read, Timed
  <2>12. DoneRight(n, h) /\ HiddenRight(n, h) /\ LiveRight(n, h)
    <3>1. /\ n.answer # "done" /\ n.answer # "unauthenticated"
          /\ n.answer \notin {"done", "forbidden", "conflict", "unavailable"}
      BY <2>6
    <3> QED BY <3>1, Zenon DEF DoneRight, HiddenRight, LiveRight
  <2> QED BY <2>1, <2>5, <2>7, <2>9, <2>10, <2>11, <2>12, Zenon DEF Sound, n
<1> QED BY <1>3, <1>4

\* A request may note something on the way.
LEMMA ReadyAfter ==
  ASSUME NEW q \in RequestStates, NEW n \in RequestStates, NEW h,
         KeepsPlace(q, n), Sound(q, h), q.pc \in Steps,
         n.principal.kind = "user" =>
           Supplied(q.credential) /\ (q.credential.kind = "pat" => TRUE \in h.live),
         Supplied(q.credential) /\ n.principal.kind # "user" =>
           q.principal.kind # "user" /\ Here(q).do \notin {"bearer", "maybe", "find"},
         ~Supplied(q.credential) => Here(q).do # "bearer",
         Here(q).do = "ask" /\ (Here(q).denied # "skip" \/ n.listed = TRUE) =>
           WasAllowed(q.credential, h, Here(q).action),
         n.listed = TRUE => Here(q).do = "ask" /\ Here(q).denied = "skip"
  PROVE  Ready(n, h)
<1>1. Placed(q) /\ Known(q, h) /\ Passed(q, h)
  BY DEF Sound
<1>2. /\ n.pc = q.pc /\ n.route = q.route /\ n.at = q.at
      /\ n.credential = q.credential /\ n.answer = q.answer
  BY DEF KeepsPlace
<1>3. q.answer = "none" /\ q.route \in DOMAIN Routes /\ q.at \in DOMAIN Routes[q.route]
  <2>1. q.pc # "answered"
    BY DEF Steps
  <2> QED BY <1>1, <2>1, Zenon DEF Placed
<1>4. CredentialFits(n)
  BY <1>1, <1>2, Zenon DEF Placed, CredentialFits
<1>5. /\ Len(Routes[q.route]) \in Nat
      /\ DOMAIN Routes[q.route] = 1..Len(Routes[q.route])
  BY <1>3, RouteSteps
<1>6. \A i \in DOMAIN Routes[q.route] : i <= q.at => i < q.at \/ i = q.at
  BY <1>3, <1>5, SMT
<1>7. Supplied(n.credential) /\ n.principal.kind # "user" =>
        \A i \in DOMAIN Routes[n.route] :
          i <= n.at => Routes[n.route][i].do \notin {"bearer", "maybe", "find"}
  BY <1>1, <1>2, <1>6, Zenon DEF Known, Here
<1>8. ~Supplied(n.credential) =>
        \A i \in DOMAIN Routes[n.route] : i <= n.at => Routes[n.route][i].do # "bearer"
  BY <1>1, <1>2, <1>6, Zenon DEF Known, Here
<1>9. Passed(n, h)
  BY <1>1, <1>2, Zenon DEF Passed
<1>10. Here(n) = Here(q)
  BY <1>2 DEF Here
<1> QED BY <1>2, <1>3, <1>4, <1>7, <1>8, <1>9, <1>10, Zenon DEF Ready

-----------------------------------------------------------------------------
(***************************************************************************)
(* What a request at a step may answer, and become.                        *)
(***************************************************************************)

\* On an exact route a caller who is behind the first question could read the
\* Plugin.
LEMMA BehindFirstQuestion ==
  ASSUME NEW q \in RequestStates, NEW h \in Memories, Sound(q, h), q.pc \in Steps,
         q.route \in ExactRoutes
  PROVE  \/ CouldRead(q.credential, h)
         \/ Here(q).do \in {"bearer", "maybe", "input", "lookup"}
         \/ /\ Here(q).do = "ask" /\ Here(q).action \in PluginActions
            /\ Here(q).denied \in {"notFound", "readable?"}
<1>1. Placed(q) /\ Passed(q, h)
  BY DEF Sound
<1>2. q.route \in DOMAIN Routes /\ q.at \in DOMAIN Routes[q.route]
  BY <1>1, Zenon DEF Placed
<1>3. PICK i \in DOMAIN Routes[q.route] :
        /\ Routes[q.route][i].do = "ask" /\ Routes[q.route][i].action \in PluginActions
        /\ Routes[q.route][i].denied \in {"notFound", "readable?"}
        /\ \A j \in DOMAIN Routes[q.route] :
             j < i => Routes[q.route][j].do \in {"bearer", "maybe", "input", "lookup"}
  BY <1>2, RouteSteps, Zenon DEF HidesFirst
<1>4. /\ Len(Routes[q.route]) \in Nat
      /\ DOMAIN Routes[q.route] = 1..Len(Routes[q.route])
  BY <1>2, RouteSteps
<1>5. q.at < i \/ q.at = i \/ i < q.at
  BY <1>2, <1>4, SMT
<1>6. CASE q.at < i
  BY <1>2, <1>3, <1>6, Zenon DEF Here
<1>7. CASE q.at = i
  BY <1>3, <1>7, Zenon DEF Here
<1>8. CASE i < q.at
  <2>1. Routes[q.route][i].denied # "skip"
    BY <1>3
  <2>2. WasAllowed(q.credential, h, Routes[q.route][i].action)
    BY <1>1, <1>3, <1>8, <2>1, Zenon DEF Passed
  <2>3. h.admin \subseteq BOOLEAN
    BY SMT DEF Memories
  <2> QED BY <1>3, <2>2, <2>3, AllowedCouldRead, Zenon
<1> QED BY <1>5, <1>6, <1>7, <1>8

LEMMA StepAtWork ==
  ASSUME NEW q \in RequestStates, NEW h, Sound(q, h), q.pc \in Steps
  PROVE  /\ CredentialFits(q) /\ q.answer = "none" /\ q.listed = FALSE
         /\ q.route \in DOMAIN Routes /\ q.at \in DOMAIN Routes[q.route]
         /\ StepFits(Routes[q.route], q.at, q.route \in TokenTaking)
         /\ q.principal.kind = "user" =>
              Supplied(q.credential) /\ (q.credential.kind = "pat" => TRUE \in h.live)
<1>1. Placed(q) /\ Known(q, h)
  BY DEF Sound
<1>2. q.route \in DOMAIN Routes /\ q.at \in DOMAIN Routes[q.route] /\ q.listed = FALSE
  BY <1>1, Zenon DEF Placed
<1>3. q.pc # "answered"
  BY DEF Steps
<1>4. q.answer = "none" /\ CredentialFits(q)
  BY <1>1, <1>3, Zenon DEF Placed, CredentialFits
<1> QED BY <1>1, <1>2, <1>4, RouteSteps, Zenon DEF Known

\* Nothing is to be shown at a step that is neither a question nor authentication.
LEMMA PlainReady ==
  ASSUME NEW q \in RequestStates, NEW n \in RequestStates, NEW h, Sound(q, h),
         q.pc \in Steps, Here(q).do \notin {"ask", "bearer", "maybe", "find"},
         KeepsPlace(q, n), n.principal = q.principal, n.listed = q.listed
  PROVE  Ready(n, h)
<1>1. /\ q.listed = FALSE
      /\ q.principal.kind = "user" =>
           Supplied(q.credential) /\ (q.credential.kind = "pat" => TRUE \in h.live)
  BY StepAtWork, Zenon
<1>2. n.listed # TRUE
  BY <1>1
<1>3. /\ Here(q).do # "ask" /\ Here(q).do # "bearer"
      /\ Here(q).do \notin {"bearer", "maybe", "find"}
  BY Zenon
<1> QED BY <1>1, <1>2, <1>3, ReadyAfter, Zenon

LEMMA KeepsItself ==
  ASSUME NEW q
  PROVE  KeepsPlace(q, q)
BY DEF KeepsPlace

\* An answer that is no success shows that nothing is wrong with the credential,
\* or nothing on an exact route.
LEMMA RefusalRight ==
  ASSUME NEW q \in RequestStates, NEW h \in Memories, NEW a, a # "done",
         a = "unauthenticated" => q.credential.kind # "pat" \/ FALSE \in h.live,
         a \in {"forbidden", "conflict", "unavailable"} /\ q.route \in ExactRoutes =>
           CouldRead(q.credential, h)
  PROVE  AnswerRight(q, h, a)
<1>1. a \in {"done", "forbidden", "conflict", "unavailable"} =>
        a \in {"forbidden", "conflict", "unavailable"}
  OBVIOUS
<1> QED BY <1>1, Zenon DEF AnswerRight

\* Success behind the last question.
LEMMA SuccessRight ==
  ASSUME NEW q \in RequestStates, NEW h \in Memories, Sound(q, h), q.pc \in Steps,
         Here(q).do \in {"marketplace", "change"}
  PROVE  AnswerRight(q, h, "done")
<1>1. /\ q.listed = FALSE /\ q.route \in DOMAIN Routes /\ q.at \in DOMAIN Routes[q.route]
      /\ StepFits(Routes[q.route], q.at, q.route \in TokenTaking)
  BY StepAtWork, Zenon
<1>2. /\ Len(Routes[q.route]) \in Nat
      /\ DOMAIN Routes[q.route] = 1..Len(Routes[q.route])
  BY <1>1, RouteSteps
<1>3. Passed(q, h)
  BY DEF Sound
<1>4. ASSUME NEW i \in Asked(q)
      PROVE  WasAllowed(q.credential, h, Routes[q.route][i].action)
  <2>1. /\ i \in DOMAIN Routes[q.route] /\ Routes[q.route][i].do = "ask"
        /\ Routes[q.route][i].denied # "skip" \/ q.listed
    BY <1>4, Zenon DEF Asked
  <2>2. Routes[q.route][i].denied # "skip"
    BY <1>1, <2>1, Zenon
  <2>3. i < q.at \/ i = q.at \/ i > q.at
    BY <1>1, <1>2, <2>1, SMT
  <2>4. i # q.at
    <3>1. Here(q).do # "ask"
      BY Zenon
    <3> QED BY <2>1, <3>1, Zenon DEF Here
  <2>5. ~(i > q.at)
    BY <1>1, <2>1, <2>2, Zenon DEF StepFits, Here
  <2> QED BY <1>3, <2>1, <2>2, <2>3, <2>4, <2>5, Zenon DEF Passed
<1>5. q.route \in ExactRoutes => CouldRead(q.credential, h)
  <2>1. Here(q).do \notin {"bearer", "maybe", "input", "lookup"} /\ Here(q).do # "ask"
    OBVIOUS
  <2> QED BY <2>1, BehindFirstQuestion, Zenon
<1>6. "done" # "unauthenticated"
  OBVIOUS
<1> QED BY <1>4, <1>5, <1>6, Zenon DEF AnswerRight

\* Moves within a step.
LEMMA MovedSound ==
  ASSUME NEW q \in RequestStates, NEW n \in RequestStates, NEW h, Sound(q, h),
         q.pc \in Steps, n.pc \in Steps,
         n.route = q.route, n.at = q.at, n.credential = q.credential,
         n.principal = q.principal, n.listed = q.listed, n.answer = q.answer,
         n.pc \in {"preset", "touch", "validate"} =>
           Here(q).do = "find" /\ q.credential.kind = "pat" /\ TRUE \in h.live,
         n.pc \in {"status", "admin", "role"} =>
           /\ Here(q).do = "ask" /\ q.principal.kind = "user"
           /\ FactsHeld(n.facts, Question(n).type, q.credential, h),
         n.pc = "teamAdmin" => Here(q).do = "team"
  PROVE  Sound(n, h)
<1>1. Placed(q) /\ Known(q, h) /\ Passed(q, h)
  BY DEF Sound
<1>2. /\ CredentialFits(q) /\ q.answer = "none" /\ q.listed = FALSE
      /\ q.route \in DOMAIN Routes /\ q.at \in DOMAIN Routes[q.route]
  BY StepAtWork, Zenon
<1>3. Here(n) = Here(q)
  BY DEF Here
<1>4. n.pc # "answered" /\ n.pc # "idle"
  BY DEF Steps
<1>5. Placed(n)
  BY <1>2, <1>3, <1>4, Zenon DEF Placed, CredentialFits
<1>6. Known(n, h)
  BY <1>1, Zenon DEF Known
<1>7. Read(n, h)
  BY Zenon DEF Read
<1>8. Passed(n, h)
  BY <1>1, Zenon DEF Passed
<1>9. DoneRight(n, h) /\ HiddenRight(n, h) /\ LiveRight(n, h)
  <2>1. /\ n.answer # "done" /\ n.answer # "unauthenticated"
        /\ n.answer \notin {"done", "forbidden", "conflict", "unavailable"}
    BY <1>2
  <2> QED BY <2>1, Zenon DEF DoneRight, HiddenRight, LiveRight
<1> QED BY <1>5, <1>6, <1>7, <1>8, <1>9 DEF Sound

\* Fields of a request that moved.
Moved(q, pc, f) == [q EXCEPT !.pc = pc, !.facts = f]

LEMMA MovedFields ==
  ASSUME NEW q \in RequestStates, NEW pc \in Steps, NEW f \in Facts
  PROVE  /\ Moved(q, pc, f) \in RequestStates
         /\ Moved(q, pc, f).pc = pc /\ Moved(q, pc, f).facts = f
         /\ Moved(q, pc, f).route = q.route /\ Moved(q, pc, f).at = q.at
         /\ Moved(q, pc, f).credential = q.credential
         /\ Moved(q, pc, f).principal = q.principal
         /\ Moved(q, pc, f).second = q.second /\ Moved(q, pc, f).listed = q.listed
         /\ Moved(q, pc, f).answer = q.answer
<1>1. Moved(q, pc, f) \in RequestStates
  <2>1. pc \in Steps \cup {"idle", "answered"}
    OBVIOUS
  <2> QED BY <2>1, ZenonT(60) DEF RequestStates, Moved
<1>2. /\ Moved(q, pc, f).pc = pc /\ Moved(q, pc, f).facts = f
      /\ Moved(q, pc, f).route = q.route /\ Moved(q, pc, f).at = q.at
      /\ Moved(q, pc, f).credential = q.credential
      /\ Moved(q, pc, f).principal = q.principal
      /\ Moved(q, pc, f).second = q.second /\ Moved(q, pc, f).listed = q.listed
      /\ Moved(q, pc, f).answer = q.answer
  BY SMT DEF RequestStates, Moved
<1> QED BY <1>1, <1>2

LEMMA CheckedFields ==
  ASSUME NEW q \in RequestStates, NEW time \in Nat
  PROVE  /\ [q EXCEPT !.pc = "touch", !.usedAt = time] \in RequestStates
         /\ [q EXCEPT !.pc = "touch", !.usedAt = time].pc = "touch"
         /\ [q EXCEPT !.pc = "touch", !.usedAt = time].usedAt = time
         /\ [q EXCEPT !.pc = "touch", !.usedAt = time].route = q.route
         /\ [q EXCEPT !.pc = "touch", !.usedAt = time].at = q.at
         /\ [q EXCEPT !.pc = "touch", !.usedAt = time].credential = q.credential
         /\ [q EXCEPT !.pc = "touch", !.usedAt = time].principal = q.principal
         /\ [q EXCEPT !.pc = "touch", !.usedAt = time].listed = q.listed
         /\ [q EXCEPT !.pc = "touch", !.usedAt = time].answer = q.answer
<1>1. [q EXCEPT !.pc = "touch", !.usedAt = time] \in RequestStates
  <2>1. "touch" \in Steps \cup {"idle", "answered"}
    BY DEF Steps
  <2> QED BY <2>1, ZenonT(60) DEF RequestStates
<1>2. /\ [q EXCEPT !.pc = "touch", !.usedAt = time].pc = "touch"
      /\ [q EXCEPT !.pc = "touch", !.usedAt = time].usedAt = time
      /\ [q EXCEPT !.pc = "touch", !.usedAt = time].route = q.route
      /\ [q EXCEPT !.pc = "touch", !.usedAt = time].at = q.at
      /\ [q EXCEPT !.pc = "touch", !.usedAt = time].credential = q.credential
      /\ [q EXCEPT !.pc = "touch", !.usedAt = time].principal = q.principal
      /\ [q EXCEPT !.pc = "touch", !.usedAt = time].listed = q.listed
      /\ [q EXCEPT !.pc = "touch", !.usedAt = time].answer = q.answer
  BY SMT DEF RequestStates
<1> QED BY <1>1, <1>2

LEMMA SteppedFields ==
  ASSUME NEW q \in RequestStates, NEW pc \in Steps
  PROVE  /\ [q EXCEPT !.pc = pc] \in RequestStates
         /\ [q EXCEPT !.pc = pc].pc = pc
         /\ [q EXCEPT !.pc = pc].usedAt = q.usedAt
         /\ [q EXCEPT !.pc = pc].route = q.route
         /\ [q EXCEPT !.pc = pc].at = q.at
         /\ [q EXCEPT !.pc = pc].credential = q.credential
         /\ [q EXCEPT !.pc = pc].principal = q.principal
         /\ [q EXCEPT !.pc = pc].listed = q.listed
         /\ [q EXCEPT !.pc = pc].answer = q.answer
<1>1. [q EXCEPT !.pc = pc] \in RequestStates
  <2>1. pc \in Steps \cup {"idle", "answered"}
    OBVIOUS
  <2> QED BY <2>1, ZenonT(60) DEF RequestStates
<1>2. /\ [q EXCEPT !.pc = pc].pc = pc
      /\ [q EXCEPT !.pc = pc].usedAt = q.usedAt
      /\ [q EXCEPT !.pc = pc].route = q.route
      /\ [q EXCEPT !.pc = pc].at = q.at
      /\ [q EXCEPT !.pc = pc].credential = q.credential
      /\ [q EXCEPT !.pc = pc].principal = q.principal
      /\ [q EXCEPT !.pc = pc].listed = q.listed
      /\ [q EXCEPT !.pc = pc].answer = q.answer
  BY SMT DEF RequestStates
<1> QED BY <1>1, <1>2

LEMMA AskedAgainFields ==
  ASSUME NEW q \in RequestStates
  PROVE  /\ [q EXCEPT !.pc = "step", !.second = TRUE, !.facts = Unread] \in RequestStates
         /\ [q EXCEPT !.pc = "step", !.second = TRUE, !.facts = Unread].pc = "step"
         /\ [q EXCEPT !.pc = "step", !.second = TRUE, !.facts = Unread].route = q.route
         /\ [q EXCEPT !.pc = "step", !.second = TRUE, !.facts = Unread].at = q.at
         /\ [q EXCEPT !.pc = "step", !.second = TRUE, !.facts = Unread].credential
              = q.credential
         /\ [q EXCEPT !.pc = "step", !.second = TRUE, !.facts = Unread].principal
              = q.principal
         /\ [q EXCEPT !.pc = "step", !.second = TRUE, !.facts = Unread].listed = q.listed
         /\ [q EXCEPT !.pc = "step", !.second = TRUE, !.facts = Unread].answer = q.answer
<1>1. [q EXCEPT !.pc = "step", !.second = TRUE, !.facts = Unread] \in RequestStates
  <2>1. "step" \in Steps \cup {"idle", "answered"} /\ TRUE \in BOOLEAN
    BY DEF Steps
  <2> QED BY <2>1, UnreadTyped, ZenonT(60) DEF RequestStates
<1>2. /\ [q EXCEPT !.pc = "step", !.second = TRUE, !.facts = Unread].pc = "step"
      /\ [q EXCEPT !.pc = "step", !.second = TRUE, !.facts = Unread].route = q.route
      /\ [q EXCEPT !.pc = "step", !.second = TRUE, !.facts = Unread].at = q.at
      /\ [q EXCEPT !.pc = "step", !.second = TRUE, !.facts = Unread].credential
           = q.credential
      /\ [q EXCEPT !.pc = "step", !.second = TRUE, !.facts = Unread].principal
           = q.principal
      /\ [q EXCEPT !.pc = "step", !.second = TRUE, !.facts = Unread].listed = q.listed
      /\ [q EXCEPT !.pc = "step", !.second = TRUE, !.facts = Unread].answer = q.answer
  BY SMT DEF RequestStates
<1> QED BY <1>1, <1>2

-----------------------------------------------------------------------------
(***************************************************************************)
(* The handlers: what request[r] becomes is sound by what is held.         *)
(***************************************************************************)
Turned(r) ==
  \E n \in RequestStates :
    /\ Become(r, n) /\ n.pc # "idle"
    /\ Sound(n, held[r]) /\ Timed(n, held[r])

LEMMA AtWork ==
  ASSUME AccessInv, NEW r \in Requests
  PROVE  /\ request[r] \in RequestStates /\ held[r] \in Memories
         /\ Sound(request[r], held[r]) /\ Timed(request[r], held[r])
         /\ Remembered(request[r], held[r])
BY Zenon DEF AccessInv, AccessTyped

LEMMA TurnAnswered ==
  ASSUME AccessInv, NEW r \in Requests, request[r].pc \in Steps,
         NEW a \in Answers \ {"none"},
         AnswerRight(request[r], held[r], a), Become(r, Answered(request[r], a))
  PROVE  Turned(r)
<1>1. CredentialFits(request[r])
  BY AtWork, StepAtWork, Zenon
<1>2. /\ Answered(request[r], a) \in RequestStates
      /\ Answered(request[r], a).pc = "answered"
      /\ Sound(Answered(request[r], a), held[r])
      /\ Timed(Answered(request[r], a), held[r])
  BY <1>1, AtWork, AnsweredSound, Zenon
<1>3. Answered(request[r], a).pc # "idle"
  BY <1>2
<1> QED BY <1>2, <1>3, Zenon DEF Turned

LEMMA TurnProceeded ==
  ASSUME AccessInv, NEW r \in Requests, NEW n \in RequestStates,
         Ready(n, held[r]), Become(r, Proceeded(n))
  PROVE  Turned(r)
<1>1. /\ Proceeded(n) \in RequestStates /\ Proceeded(n).pc # "idle"
      /\ Sound(Proceeded(n), held[r]) /\ Timed(Proceeded(n), held[r])
  BY AtWork, ProceededSound, Zenon
<1> QED BY <1>1, Zenon DEF Turned

\* Refusals that no property is about.
LEMMA TurnRefused ==
  ASSUME AccessInv, NEW r \in Requests, request[r].pc \in Steps,
         NEW a \in {"invalid", "notFound"}, Become(r, Answered(request[r], a))
  PROVE  Turned(r)
<1>1. /\ a \in Answers \ {"none"} /\ a # "done" /\ a # "unauthenticated"
      /\ a \notin {"forbidden", "conflict", "unavailable"}
  BY DEF Answers
<1>2. AnswerRight(request[r], held[r], a)
  BY <1>1, AtWork, RefusalRight, Zenon
<1> QED BY <1>1, <1>2, TurnAnswered, Zenon

\* Refusals behind the first question of an exact route.
LEMMA TurnBehind ==
  ASSUME AccessInv, NEW r \in Requests, request[r].pc \in Steps,
         NEW a \in {"forbidden", "conflict", "unavailable"},
         Here(request[r]).do \notin {"bearer", "maybe", "input", "lookup"},
         Here(request[r]).do # "ask" \/ Here(request[r]).denied \notin {"notFound", "readable?"},
         Become(r, Answered(request[r], a))
  PROVE  Turned(r)
<1>1. a \in Answers \ {"none"} /\ a # "done" /\ a # "unauthenticated"
  BY DEF Answers
<1>2. request[r].route \in ExactRoutes => CouldRead(request[r].credential, held[r])
  BY AtWork, BehindFirstQuestion, Zenon
<1>3. AnswerRight(request[r], held[r], a)
  BY <1>1, <1>2, AtWork, RefusalRight, Zenon
<1> QED BY <1>1, <1>3, TurnAnswered, Zenon

LEMMA TurnUnauthenticated ==
  ASSUME AccessInv, NEW r \in Requests, request[r].pc \in Steps,
         request[r].credential.kind # "pat" \/ FALSE \in held[r].live,
         Become(r, Answered(request[r], "unauthenticated"))
  PROVE  Turned(r)
<1>1. /\ "unauthenticated" \in Answers \ {"none"} /\ "unauthenticated" # "done"
      /\ "unauthenticated" \notin {"forbidden", "conflict", "unavailable"}
  BY DEF Answers
<1>2. AnswerRight(request[r], held[r], "unauthenticated")
  BY <1>1, AtWork, RefusalRight, Zenon
<1> QED BY <1>1, <1>2, TurnAnswered, Zenon

\* A step that shows nothing.
LEMMA TurnPlain ==
  ASSUME AccessInv, NEW r \in Requests, NEW n \in RequestStates, request[r].pc \in Steps,
         Here(request[r]).do \notin {"ask", "bearer", "maybe", "find"},
         KeepsPlace(request[r], n), n.principal = request[r].principal,
         n.listed = request[r].listed, Become(r, Proceeded(n))
  PROVE  Turned(r)
<1>1. Ready(n, held[r])
  BY AtWork, PlainReady, Zenon
<1> QED BY <1>1, TurnProceeded, Zenon

LEMMA RowTyped ==
  ASSUME WorldTyped
  PROVE  PluginRow \in PluginFacts
BY SMT DEF WorldTyped, PluginRow, PluginRows, PluginFacts

LEMMA UserTyped ==
  ASSUME NEW q \in RequestStates, CredentialFits(q), Supplied(q.credential)
  PROVE  User(q.credential) \in Users
<1>1. q.credential.kind = "pat" \/ q.credential.kind = "jwt"
  BY DEF RequestStates, CredentialStates, Supplied
<1>2. CASE q.credential.kind = "pat"
  <2>1. User(q.credential) = TokenUser[q.credential.id]
    BY <1>2 DEF User
  <2> QED BY <1>2, <2>1, AccessConstants DEF CredentialFits
<1>3. CASE q.credential.kind = "jwt"
  BY <1>3, Zenon DEF User, CredentialFits
<1> QED BY <1>1, <1>2, <1>3

-----------------------------------------------------------------------------
LEMMA ArriveTurns ==
  ASSUME AccessInv, NEW r \in Requests, Arrive(r)
  PROVE  Turned(r)
<1> DEFINE q == request[r]
           h == held[r]
<1>1. PICK c \in Credentials(q.route) :
        Become(r, [q EXCEPT !.pc = "step", !.at = 1, !.credential = c])
  BY DEF Arrive
<1> DEFINE n == [q EXCEPT !.pc = "step", !.at = 1, !.credential = c]
<1>2. q.pc = "idle" /\ q.route # "none"
  BY DEF Arrive
<1>3. q \in RequestStates /\ Placed(q)
  BY AtWork, Zenon DEF Sound
<1>4. /\ c \in CredentialStates
      /\ c.kind = "pat" => c.id \in Tokens /\ q.route \in TokenTaking
      /\ c.kind = "jwt" => c.id \in Users /\ q.route \notin TokenTaking
  BY SMT DEF Credentials, NoCredential, CredentialStates
<1>5. n \in RequestStates
  <2>1. "step" \in Steps \cup {"idle", "answered"} /\ 1 \in Nat
    BY DEF Steps
  <2> QED BY <1>3, <1>4, <2>1, ZenonT(60) DEF RequestStates
<1>6. /\ n.pc = "step" /\ n.at = 1 /\ n.credential = c /\ n.route = q.route
      /\ n.principal = q.principal /\ n.listed = q.listed /\ n.answer = q.answer
  BY <1>3, SMT DEF RequestStates
<1> HIDE DEF n
<1>7. q.route \in DOMAIN Routes
  BY <1>2, <1>3, SMT DEF RequestStates
<1>8. n.route \in DOMAIN Routes /\ n.at \in DOMAIN Routes[n.route]
  BY <1>6, <1>7, RouteSteps, SMT
<1>9. /\ n.pc \notin {"preset", "touch", "validate"} /\ n.pc \notin {"status", "admin", "role"}
      /\ n.pc # "teamAdmin" /\ n.pc # "answered" /\ n.pc # "validate" /\ n.pc # "idle"
      /\ n.pc \notin {"touch", "validate"}
  BY <1>6
<1>10. q.answer = "none" /\ q.principal.kind # "user" /\ q.listed = FALSE
  <2>1. q.pc # "answered"
    BY <1>2
  <2> QED BY <1>2, <1>3, <2>1, Zenon DEF Placed
<1>11. Placed(n)
  BY <1>4, <1>6, <1>8, <1>9, <1>10, Zenon DEF Placed
<1>12. \A i \in DOMAIN Routes[n.route] : ~(i < n.at)
  BY <1>6, <1>7, RouteSteps, SMT
<1>13. Known(n, h)
  BY <1>6, <1>9, <1>10, <1>12, Zenon DEF Known
<1>14. Passed(n, h) /\ Read(n, h) /\ Timed(n, h)
  BY <1>9, <1>12, Zenon DEF Passed, Read, Timed
<1>15. DoneRight(n, h) /\ HiddenRight(n, h) /\ LiveRight(n, h)
  <2>1. /\ n.answer # "done" /\ n.answer # "unauthenticated"
        /\ n.answer \notin {"done", "forbidden", "conflict", "unavailable"}
    BY <1>6, <1>10
  <2> QED BY <2>1, Zenon DEF DoneRight, HiddenRight, LiveRight
<1>16. Become(r, n)
  BY <1>1, Zenon DEF n
<1> QED BY <1>5, <1>9, <1>11, <1>13, <1>14, <1>15, <1>16, Zenon DEF Turned, Sound

LEMMA ScopesTyped ==
  ASSUME NEW scopes \in SUBSET Actions
  PROVE  UserWith(scopes) \in Principals /\ UserWith(scopes).kind = "user"
BY SMT DEF UserWith, Principals

LEMMA AuthenticateTurns ==
  ASSUME AccessInv, NEW r \in Requests, Authenticate(r)
  PROVE  Turned(r)
<1> DEFINE q == request[r]
           h == held[r]
<1>1. q \in RequestStates /\ Sound(q, h) /\ h \in Memories
  BY AtWork, Zenon
<1>2. q.pc = "step" /\ (Here(q).do = "bearer" \/ Here(q).do = "maybe")
  BY Zenon DEF Authenticate, At
<1>3. q.pc \in Steps
  BY <1>2 DEF Steps
<1>4. /\ CredentialFits(q) /\ q.listed = FALSE
      /\ StepFits(Routes[q.route], q.at, q.route \in TokenTaking)
      /\ q.principal.kind = "user" =>
           Supplied(q.credential) /\ (q.credential.kind = "pat" => TRUE \in h.live)
  BY <1>1, <1>3, StepAtWork, Zenon
<1>5. q.credential.kind # "pat"
  <2>1. Here(q).do \in {"bearer", "maybe", "password"}
    BY <1>2
  <2> QED BY <1>4, <2>1, Zenon DEF StepFits, CredentialFits, Here
<1>6. Here(q).do # "ask" /\ q.listed # TRUE
  BY <1>2, <1>4
<1>7. CASE Supplied(q.credential)
  <2> DEFINE n == [q EXCEPT !.principal = UserWith(Actions)]
  <2>1. Become(r, Proceeded(n))
    BY <1>7, Zenon DEF Authenticate
  <2>2. UserWith(Actions) \in Principals /\ UserWith(Actions).kind = "user"
    BY ScopesTyped
  <2>3. /\ n \in RequestStates /\ KeepsPlace(q, n)
        /\ n.principal = UserWith(Actions) /\ n.listed = q.listed
    BY <1>1, <2>2, PrincipalNoted, Zenon
  <2> HIDE DEF n
  <2>4. n.principal.kind = "user" /\ n.listed # TRUE
    BY <1>6, <2>2, <2>3
  <2>5. Ready(n, h)
    BY <1>1, <1>3, <1>5, <1>6, <1>7, <2>3, <2>4, ReadyAfter, Zenon
  <2> QED BY <2>1, <2>3, <2>5, TurnProceeded, Zenon
<1>8. CASE ~Supplied(q.credential)
  <2>1. CASE At(q, "maybe")
    <3>1. Become(r, Proceeded(q))
      BY <1>8, <2>1, Zenon DEF Authenticate
    <3>2. Here(q).do # "bearer"
      BY <2>1 DEF At
    <3>3. Ready(q, h)
      BY <1>1, <1>3, <1>4, <1>6, <1>8, <3>2, KeepsItself, ReadyAfter, Zenon
    <3> QED BY <1>1, <3>1, <3>3, TurnProceeded, Zenon
  <2>2. CASE ~At(q, "maybe")
    <3>1. Become(r, Answered(q, "unauthenticated"))
      BY <1>8, <2>2, Zenon DEF Authenticate
    <3> QED BY <1>3, <1>5, <3>1, TurnUnauthenticated, Zenon
  <2> QED BY <2>1, <2>2
<1> QED BY <1>7, <1>8

LEMMA DecodeTurns ==
  ASSUME AccessInv, NEW r \in Requests, Decode(r)
  PROVE  Turned(r)
<1> DEFINE q == request[r]
<1>1. q \in RequestStates
  BY AtWork, Zenon
<1>2. q.pc = "step" /\ Here(q).do = "input"
  BY Zenon DEF Decode, At
<1>3. q.pc \in Steps /\ Here(q).do \notin {"ask", "bearer", "maybe", "find"}
  BY <1>2 DEF Steps
<1>4. Become(r, Proceeded(q)) \/ Become(r, Answered(q, "invalid"))
  BY Zenon DEF Decode
<1>5. "invalid" \in {"invalid", "notFound"}
  OBVIOUS
<1> QED BY <1>1, <1>3, <1>4, <1>5, KeepsItself, TurnPlain, TurnRefused, Zenon

LEMMA FindPluginTurns ==
  ASSUME AccessInv, NEW r \in Requests, FindPlugin(r)
  PROVE  Turned(r)
<1> DEFINE q == request[r]
<1>1. q \in RequestStates
  BY AtWork, Zenon
<1>2. q.pc = "step" /\ Here(q).do = "lookup"
  BY Zenon DEF FindPlugin, At
<1>3. q.pc \in Steps /\ Here(q).do \notin {"ask", "bearer", "maybe", "find"}
  BY <1>2 DEF Steps
<1>4. Become(r, Proceeded([q EXCEPT !.row = PluginRow]))
  BY Zenon DEF FindPlugin
<1>5. PluginRow \in PluginFacts
  BY RowTyped DEF AccessInv, AccessTyped
<1> QED BY <1>1, <1>3, <1>4, <1>5, RowNoted, TurnPlain, Zenon

LEMMA ResolveTurns ==
  ASSUME AccessInv, NEW r \in Requests, Resolve(r)
  PROVE  Turned(r)
<1> DEFINE q == request[r]
<1>1. q \in RequestStates
  BY AtWork, Zenon
<1>2. q.pc = "step" /\ Here(q).do = "resolve"
  BY Zenon DEF Resolve, At
<1>3. q.pc \in Steps /\ Here(q).do \notin {"ask", "bearer", "maybe", "find"}
  BY <1>2 DEF Steps
<1>4. \/ Become(r, Proceeded([q EXCEPT !.row = PluginRow]))
      \/ Become(r, Answered(q, "notFound"))
  BY Zenon DEF Resolve
<1>5. PluginRow \in PluginFacts
  BY RowTyped DEF AccessInv, AccessTyped
<1>6. "notFound" \in {"invalid", "notFound"}
  OBVIOUS
<1>7. CASE Become(r, Proceeded([q EXCEPT !.row = PluginRow]))
  BY <1>1, <1>3, <1>5, <1>7, RowNoted, TurnPlain, Zenon
<1>8. CASE Become(r, Answered(q, "notFound"))
  BY <1>3, <1>6, <1>8, TurnRefused, Zenon
<1> QED BY <1>4, <1>7, <1>8

LEMMA CheckRowTurns ==
  ASSUME AccessInv, NEW r \in Requests, CheckRow(r)
  PROVE  Turned(r)
<1> DEFINE q == request[r]
<1>1. q \in RequestStates
  BY AtWork, Zenon
<1>2. q.pc = "step" /\ Here(q).do \in {"open", "repositoryReadable"}
  BY DEF CheckRow, At
<1>3. /\ q.pc \in Steps /\ Here(q).do \notin {"ask", "bearer", "maybe", "find"}
      /\ Here(q).do \notin {"bearer", "maybe", "input", "lookup"} /\ Here(q).do # "ask"
  BY <1>2 DEF Steps
<1>4. \/ Become(r, Proceeded(q))
      \/ Become(r, Answered(q, "conflict"))
      \/ Become(r, Answered(q, "unavailable"))
  BY Zenon DEF CheckRow
<1>5. /\ "conflict" \in {"forbidden", "conflict", "unavailable"}
      /\ "unavailable" \in {"forbidden", "conflict", "unavailable"}
  OBVIOUS
<1>6. CASE Become(r, Proceeded(q))
  BY <1>1, <1>3, <1>6, KeepsItself, TurnPlain, Zenon
<1>7. CASE Become(r, Answered(q, "conflict"))
  BY <1>3, <1>5, <1>7, TurnBehind, Zenon
<1>8. CASE Become(r, Answered(q, "unavailable"))
  BY <1>3, <1>5, <1>8, TurnBehind, Zenon
<1> QED BY <1>4, <1>6, <1>7, <1>8

-----------------------------------------------------------------------------
(***************************************************************************)
(* Tokens.                                                                 *)
(***************************************************************************)

\* Only requests with a token, or with nothing, are asked for one.
LEMMA TokenStep ==
  ASSUME NEW q \in RequestStates, NEW h, Sound(q, h), q.pc \in Steps,
         Here(q).do = "find"
  PROVE  /\ Supplied(q.credential) =>
              /\ q.credential.kind = "pat" /\ q.credential.id \in Tokens
              /\ User(q.credential) = TokenUser[q.credential.id]
         /\ Here(q).use \in {"read", "write", "any"}
<1>1. /\ CredentialFits(q)
      /\ StepFits(Routes[q.route], q.at, q.route \in TokenTaking)
  BY StepAtWork, Zenon
<1>2. q.route \in TokenTaking /\ Here(q).use \in {"read", "write", "any"}
  BY <1>1, Zenon DEF StepFits, Here
<1>3. q.credential.kind # "jwt"
  BY <1>1, <1>2, Zenon DEF CredentialFits
<1>4. Supplied(q.credential) => q.credential.kind = "pat"
  BY <1>3, SMT DEF RequestStates, CredentialStates, Supplied
<1> QED BY <1>1, <1>2, <1>3, <1>4, Zenon DEF CredentialFits, User

\* A token is refused when it was not live, or has no preset for the use.
LEMMA TurnTokenRefused ==
  ASSUME AccessInv, NEW r \in Requests, request[r].pc \in Steps,
         request[r].credential.kind = "pat" =>
           \/ FALSE \in held[r].live
           \/ Preset[request[r].credential.id] # "git-write",
         Become(r, Refused(request[r]))
  PROVE  Turned(r)
<1> DEFINE q == request[r]
           h == held[r]
<1>1. \/ Become(r, Answered(q, "notFound"))
      \/ Become(r, Answered(q, "unauthenticated"))
  BY Zenon DEF Refused
<1>2. "notFound" \in {"invalid", "notFound"}
  OBVIOUS
<1>3. CASE Become(r, Answered(q, "notFound"))
  BY <1>2, <1>3, TurnRefused, Zenon
<1>4. CASE Become(r, Answered(q, "unauthenticated"))
  <2>1. /\ "unauthenticated" \in Answers \ {"none"} /\ "unauthenticated" # "done"
        /\ "unauthenticated" \notin {"done", "forbidden", "conflict", "unavailable"}
    BY DEF Answers
  <2>2. AnswerRight(q, h, "unauthenticated")
    BY <2>1, Zenon DEF AnswerRight
  <2> QED BY <1>4, <2>1, <2>2, TurnAnswered, Zenon
<1> QED BY <1>1, <1>3, <1>4

\* A move within the step that has nothing to show but where it is.
LEMMA TurnMoved ==
  ASSUME AccessInv, NEW r \in Requests, NEW n \in RequestStates, request[r].pc \in Steps,
         Become(r, n), Sound(n, held[r]), Timed(n, held[r]), n.pc \in Steps
  PROVE  Turned(r)
<1>1. n.pc # "idle"
  BY DEF Steps
<1> QED BY <1>1, Zenon DEF Turned

LEMMA FindTokenTurns ==
  ASSUME AccessInv, NEW r \in Requests, FindToken(r)
  PROVE  Turned(r)
<1> DEFINE q == request[r]
           h == held[r]
           t == q.credential.id
<1>1. q \in RequestStates /\ Sound(q, h) /\ h \in Memories /\ Remembered(q, h)
  BY AtWork, Zenon
<1>2. q.pc = "step" /\ Here(q).do = "find"
  BY Zenon DEF FindToken, At
<1>3. q.pc \in Steps /\ Here(q).do # "ask" /\ Here(q).do # "bearer"
  BY <1>2 DEF Steps
<1>4. CASE Supplied(q.credential)
  <2>1. q.credential.kind = "pat" /\ User(q.credential) = TokenUser[t]
    BY <1>1, <1>2, <1>3, <1>4, TokenStep, Zenon
  <2>2. (Live(t, now) /\ person[TokenUser[t]].active) \in h.live
    BY <1>1, <1>3, <2>1, Zenon DEF Remembered
  <2>3. CASE person[TokenUser[t]].active /\ Live(t, now)
    <3> DEFINE n == [q EXCEPT !.pc = "preset"]
    <3>1. Become(r, n)
      BY <1>4, <2>3, Zenon DEF FindToken
    <3>2. "preset" \in Steps
      BY DEF Steps
    <3>3. /\ n \in RequestStates /\ n.pc = "preset"
          /\ n.route = q.route /\ n.at = q.at /\ n.credential = q.credential
          /\ n.principal = q.principal /\ n.listed = q.listed /\ n.answer = q.answer
      BY <1>1, <3>2, SteppedFields, Zenon
    <3> HIDE DEF n
    <3>4. TRUE \in h.live
      <4>1. (Live(t, now) /\ person[TokenUser[t]].active) = TRUE
        BY <2>3, Zenon
      <4> QED BY <2>2, <4>1, Zenon
    <3>5. n.pc \notin {"status", "admin", "role"} /\ n.pc # "teamAdmin" /\ n.pc # "validate"
          /\ n.pc \notin {"touch", "validate"}
      BY <3>3
    <3>6. Sound(n, h)
      BY <1>1, <1>2, <1>3, <2>1, <3>2, <3>3, <3>4, <3>5, MovedSound, Zenon
    <3>7. Timed(n, h)
      BY <3>5, Zenon DEF Timed
    <3> QED BY <1>3, <3>1, <3>2, <3>3, <3>6, <3>7, TurnMoved, Zenon
  <2>4. CASE ~(person[TokenUser[t]].active /\ Live(t, now))
    <3>1. Become(r, Refused(q))
      BY <1>4, <2>4, Zenon DEF FindToken
    <3>2. (Live(t, now) /\ person[TokenUser[t]].active) = FALSE
      BY <2>4, Zenon
    <3>3. FALSE \in h.live
      BY <2>2, <3>2, Zenon
    <3> QED BY <1>3, <3>1, <3>3, TurnTokenRefused, Zenon
  <2> QED BY <2>3, <2>4
<1>5. CASE ~Supplied(q.credential)
  <2>1. q.credential.kind # "pat"
    BY <1>5 DEF Supplied
  <2>2. Become(r, Proceeded(q)) \/ Become(r, Refused(q))
    BY <1>5, Zenon DEF FindToken
  <2>3. CASE Become(r, Refused(q))
    BY <1>3, <2>1, <2>3, TurnTokenRefused, Zenon
  <2>4. CASE Become(r, Proceeded(q))
    <3>1. /\ q.listed = FALSE
          /\ q.principal.kind = "user" =>
               Supplied(q.credential) /\ (q.credential.kind = "pat" => TRUE \in h.live)
      BY <1>1, <1>3, StepAtWork, Zenon
    <3>2. q.listed # TRUE
      BY <3>1
    <3>3. Ready(q, h)
      BY <1>1, <1>3, <1>5, <3>1, <3>2, KeepsItself, ReadyAfter, Zenon
    <3> QED BY <1>1, <2>4, <3>3, TurnProceeded, Zenon
  <2> QED BY <2>2, <2>3, <2>4
<1> QED BY <1>4, <1>5

LEMMA CheckPresetTurns ==
  ASSUME AccessInv, NEW r \in Requests, CheckPreset(r)
  PROVE  Turned(r)
<1> DEFINE q == request[r]
           h == held[r]
<1>1. q \in RequestStates /\ Sound(q, h) /\ h \in Memories
  BY AtWork, Zenon
<1>2. q.pc = "preset"
  BY Zenon DEF CheckPreset
<1>3. q.pc \in Steps /\ q.pc \in {"preset", "touch", "validate"}
  BY <1>2 DEF Steps
<1>4. Here(q).do = "find" /\ q.credential.kind = "pat" /\ TRUE \in h.live
  BY <1>1, <1>3, Zenon DEF Sound, Placed, Known
<1>5. CASE Preset[q.credential.id] \in PresetsFor(Here(q).use)
  <2> DEFINE n == [q EXCEPT !.pc = "touch", !.usedAt = now]
  <2>1. Become(r, n)
    BY <1>5, Zenon DEF CheckPreset
  <2>2. "touch" \in Steps
    BY DEF Steps
  <2>3. now \in Nat
    BY AccessConstants, SMT DEF AccessInv, AccessTyped, WorldTyped
  <2>4. /\ n \in RequestStates /\ n.pc = "touch" /\ n.usedAt = now
        /\ n.route = q.route /\ n.at = q.at /\ n.credential = q.credential
        /\ n.principal = q.principal /\ n.listed = q.listed /\ n.answer = q.answer
    BY <1>1, <2>3, CheckedFields, Zenon
  <2> HIDE DEF n
  <2>5. n.pc \notin {"status", "admin", "role"} /\ n.pc # "teamAdmin" /\ n.pc # "validate"
    BY <2>4
  <2>6. Sound(n, h)
    BY <1>1, <1>3, <1>4, <2>2, <2>4, <2>5, MovedSound, Zenon
  <2>7. n.usedAt <= now
    BY <2>3, <2>4, SMT
  <2>8. Timed(n, h)
    BY <2>5, <2>7, Zenon DEF Timed
  <2> QED BY <1>3, <2>1, <2>2, <2>4, <2>6, <2>8, TurnMoved, Zenon
<1>6. CASE Preset[q.credential.id] \notin PresetsFor(Here(q).use)
  <2>1. Become(r, Refused(q))
    BY <1>6, Zenon DEF CheckPreset
  <2>2. Preset[q.credential.id] # "git-write"
    <3>1. Here(q).use \in {"read", "write", "any"}
      BY <1>1, <1>3, <1>4, TokenStep, Zenon
    <3>2. "git-write" \in PresetsFor(Here(q).use)
      BY <3>1, SMT DEF PresetsFor, Presets
    <3> QED BY <1>6, <3>2
  <2> QED BY <1>3, <2>1, <2>2, TurnTokenRefused, Zenon
<1> QED BY <1>5, <1>6

\* A token that was accepted makes its user the principal.
LEMMA TurnAccepted ==
  ASSUME AccessInv, NEW r \in Requests,
         request[r].pc \in {"touch", "validate"}, Become(r, Accepted(request[r]))
  PROVE  Turned(r)
<1> DEFINE q == request[r]
           h == held[r]
           scopes == Scopes(Preset[q.credential.id])
           n == [q EXCEPT !.principal = UserWith(scopes)]
<1>1. q \in RequestStates /\ Sound(q, h) /\ h \in Memories
  BY AtWork, Zenon
<1>2. q.pc \in Steps /\ q.pc \in {"preset", "touch", "validate"}
  BY DEF Steps
<1>3. Here(q).do = "find" /\ q.credential.kind = "pat" /\ TRUE \in h.live
  BY <1>1, <1>2, Zenon DEF Sound, Placed, Known
<1>4. Become(r, Proceeded(n))
  BY Zenon DEF Accepted
<1>5. scopes \in SUBSET Actions
  BY SMT DEF Scopes, Actions, PluginActions
<1>6. UserWith(scopes) \in Principals /\ UserWith(scopes).kind = "user"
  BY <1>5, ScopesTyped, Zenon
<1>7. /\ n \in RequestStates /\ KeepsPlace(q, n)
      /\ n.principal = UserWith(scopes) /\ n.listed = q.listed
  BY <1>1, <1>6, PrincipalNoted, Zenon
<1>8. q.listed = FALSE
  BY <1>1, <1>2, StepAtWork, Zenon
<1> HIDE DEF n
<1>9. /\ n.principal.kind = "user" /\ n.listed # TRUE
      /\ Supplied(q.credential) /\ Here(q).do # "ask"
  BY <1>3, <1>6, <1>7, <1>8 DEF Supplied
<1>10. Ready(n, h)
  BY <1>1, <1>2, <1>3, <1>7, <1>9, ReadyAfter, Zenon
<1> QED BY <1>4, <1>7, <1>10, TurnProceeded, Zenon

\* A token that is not live at an earlier reading of the clock is not live now.
LEMMA LiveEarlier ==
  ASSUME WorldTyped, NEW t \in Tokens, NEW time \in Nat, time <= now, ~Live(t, time)
  PROVE  ~Live(t, now)
BY AccessConstants, SMT DEF WorldTyped, TokenRows, Live

LEMMA DeadTokenHeld ==
  ASSUME AccessInv, NEW r \in Requests,
         request[r].pc \in {"touch", "validate"},
         ~Live(request[r].credential.id, request[r].usedAt)
  PROVE  FALSE \in held[r].live
<1> DEFINE q == request[r]
           h == held[r]
           t == q.credential.id
<1>1. q \in RequestStates /\ Sound(q, h) /\ Timed(q, h) /\ Remembered(q, h) /\ WorldTyped
  BY AtWork, Zenon DEF AccessInv, AccessTyped
<1>2. q.pc \in Steps /\ q.pc \in {"preset", "touch", "validate"}
  BY DEF Steps
<1>3. q.credential.kind = "pat" /\ t \in Tokens
  BY <1>1, <1>2, Zenon DEF Sound, Placed
<1>4. q.usedAt \in Nat /\ q.usedAt <= now
  BY <1>1, SMT DEF RequestStates, Timed
<1>5. ~Live(t, now)
  BY <1>1, <1>3, <1>4, LiveEarlier, Zenon
<1>6. (Live(t, now) /\ person[User(q.credential)].active) = FALSE
  BY <1>5, Zenon
<1>7. (Live(t, now) /\ person[User(q.credential)].active) \in h.live
  BY <1>1, <1>2, <1>3, Zenon DEF Remembered
<1> QED BY <1>6, <1>7, Zenon

LEMMA TouchTurns ==
  ASSUME AccessInv, NEW r \in Requests, Touch(r)
  PROVE  Turned(r)
<1> DEFINE q == request[r]
           h == held[r]
           t == q.credential.id
<1>1. q \in RequestStates /\ Sound(q, h) /\ Timed(q, h) /\ h \in Memories
  BY AtWork, Zenon
<1>2. q.pc = "touch"
  BY Zenon DEF Touch
<1>3. q.pc \in Steps /\ q.pc \in {"preset", "touch", "validate"} /\ q.pc \in {"touch", "validate"}
  BY <1>2 DEF Steps
<1>4. CASE Live(t, q.usedAt) /\ token[t].used < q.usedAt
  <2>1. Become(r, Accepted(q))
    BY <1>4, Zenon DEF Touch
  <2> QED BY <1>3, <2>1, TurnAccepted, Zenon
<1>5. CASE ~(Live(t, q.usedAt) /\ token[t].used < q.usedAt)
  <2> DEFINE n == [q EXCEPT !.pc = "validate"]
  <2>1. Become(r, n)
    BY <1>5, Zenon DEF Touch
  <2>2. "validate" \in Steps
    BY DEF Steps
  <2>3. /\ n \in RequestStates /\ n.pc = "validate" /\ n.usedAt = q.usedAt
        /\ n.route = q.route /\ n.at = q.at /\ n.credential = q.credential
        /\ n.principal = q.principal /\ n.listed = q.listed /\ n.answer = q.answer
    BY <1>1, <2>2, SteppedFields, Zenon
  <2> HIDE DEF n
  <2>4. n.pc \notin {"status", "admin", "role"} /\ n.pc # "teamAdmin"
    BY <2>3
  <2>5. Here(q).do = "find" /\ q.credential.kind = "pat" /\ TRUE \in h.live /\ t \in Tokens
    BY <1>1, <1>3, Zenon DEF Sound, Placed, Known
  <2>6. Sound(n, h)
    BY <1>1, <1>3, <2>2, <2>3, <2>4, <2>5, MovedSound, Zenon
  <2>7. FALSE \in h.live \/ q.usedAt <= token[t].used
    <3>1. CASE ~Live(t, q.usedAt)
      BY <1>3, <3>1, DeadTokenHeld, Zenon
    <3>2. CASE ~(token[t].used < q.usedAt)
      <4>1. token[t].used \in Nat /\ q.usedAt \in Nat
        BY <1>1, <2>5, SMT DEF AccessInv, AccessTyped, WorldTyped, TokenRows, RequestStates
      <4>2. q.usedAt <= token[t].used
        BY <3>2, <4>1, SMT
      <4> QED BY <4>2, Zenon
    <3> QED BY <1>5, <3>1, <3>2
  <2>8. q.usedAt <= now
    BY <1>1, <1>3, Zenon DEF Timed
  <2>9. Timed(n, h)
    BY <2>3, <2>7, <2>8, Zenon DEF Timed
  <2> QED BY <1>3, <2>1, <2>2, <2>3, <2>6, <2>9, TurnMoved, Zenon
<1> QED BY <1>4, <1>5

LEMMA ValidateTurns ==
  ASSUME AccessInv, NEW r \in Requests, Validate(r)
  PROVE  Turned(r)
<1> DEFINE q == request[r]
           h == held[r]
           t == q.credential.id
<1>1. q \in RequestStates /\ Sound(q, h) /\ Timed(q, h) /\ h \in Memories
  BY AtWork, Zenon
<1>2. q.pc = "validate"
  BY Zenon DEF Validate
<1>3. q.pc \in Steps /\ q.pc \in {"preset", "touch", "validate"} /\ q.pc \in {"touch", "validate"}
  BY <1>2 DEF Steps
<1>4. CASE Live(t, q.usedAt) /\ token[t].used >= q.usedAt
  <2>1. Become(r, Accepted(q))
    BY <1>4, Zenon DEF Validate
  <2> QED BY <1>3, <2>1, TurnAccepted, Zenon
<1>5. CASE ~(Live(t, q.usedAt) /\ token[t].used >= q.usedAt)
  <2>1. Become(r, Refused(q))
    BY <1>5, Zenon DEF Validate
  <2>2. t \in Tokens
    BY <1>1, <1>3, Zenon DEF Sound, Placed
  <2>3. FALSE \in h.live
    <3>1. CASE ~Live(t, q.usedAt)
      BY <1>3, <3>1, DeadTokenHeld, Zenon
    <3>2. CASE ~(token[t].used >= q.usedAt)
      <4>1. token[t].used \in Nat /\ q.usedAt \in Nat
        BY <1>1, <2>2, SMT DEF AccessInv, AccessTyped, WorldTyped, TokenRows, RequestStates
      <4>2. ~(q.usedAt <= token[t].used)
        BY <3>2, <4>1, SMT
      <4> QED BY <1>1, <1>2, <4>2, Zenon DEF Timed
    <3> QED BY <1>5, <3>1, <3>2
  <2> QED BY <1>3, <2>1, <2>3, TurnTokenRefused, Zenon
<1> QED BY <1>4, <1>5

-----------------------------------------------------------------------------
(***************************************************************************)
(* Questions to the policy.                                                *)
(***************************************************************************)

\* At a question a supplied credential has made its user the principal.
LEMMA AskerKnown ==
  ASSUME NEW q \in RequestStates, NEW h, Sound(q, h), q.pc \in Steps,
         Here(q).do = "ask", Supplied(q.credential)
  PROVE  q.principal.kind = "user"
<1>1. /\ q.route \in DOMAIN Routes /\ q.at \in DOMAIN Routes[q.route]
      /\ StepFits(Routes[q.route], q.at, q.route \in TokenTaking)
  BY StepAtWork, Zenon
<1>2. QuestionFits(Routes[q.route], q.at)
  BY <1>1, Zenon DEF StepFits, Here
<1>3. PICK j \in DOMAIN Routes[q.route] :
        j < q.at /\ Routes[q.route][j].do \in {"bearer", "maybe", "find"}
  BY <1>2, Zenon DEF QuestionFits
<1> QED BY <1>3, Zenon DEF Sound, Known

\* What may be asked, whichever of the two questions it is.
LEMMA QuestionKnown ==
  ASSUME NEW q \in RequestStates, NEW h, Sound(q, h), q.pc \in Steps, Here(q).do = "ask"
  PROVE  /\ Question(q).action \notin TeamActions \cup OpenActions
         /\ Here(q).denied \in {"forbidden", "notFound", "readable?", "skip", "git"}
         /\ q.second = TRUE => Question(q).action \in PluginActions
         /\ q.second # TRUE => Question(q) = Here(q)
<1>1. StepFits(Routes[q.route], q.at, q.route \in TokenTaking)
  BY StepAtWork, Zenon
<1>2. QuestionFits(Routes[q.route], q.at)
  BY <1>1, Zenon DEF StepFits, Here
<1>3. /\ Here(q).action \notin TeamActions \cup OpenActions
      /\ Here(q).denied \in {"forbidden", "notFound", "readable?", "skip", "git"}
  BY <1>2, Zenon DEF QuestionFits, Here
<1>4. q.second \in BOOLEAN
  BY DEF RequestStates
<1>5. AskRead.action = "plugin.read"
  BY SMT DEF AskRead, Ask
<1>6. "plugin.read" \in PluginActions /\ "plugin.read" \notin TeamActions \cup OpenActions
  BY PluginActionsApart DEF PluginActions
<1>7. CASE q.second = TRUE
  <2>1. Question(q) = AskRead
    BY <1>7, Zenon DEF Question
  <2> QED BY <1>3, <1>5, <1>6, <1>7, <2>1, Zenon
<1>8. CASE q.second = FALSE
  <2>1. Question(q) = Here(q)
    BY <1>8, Zenon DEF Question
  <2>2. q.second # TRUE
    BY <1>8, Zenon
  <2> QED BY <1>3, <2>1, <2>2, Zenon
<1> QED BY <1>4, <1>7, <1>8, Zenon

\* A decision by facts that are held.
LEMMA AuthorizedWasAllowed ==
  ASSUME AccessInv, NEW r \in Requests, request[r].pc \in Steps,
         Here(request[r]).do = "ask", NEW facts \in Facts,
         FactsHeld(facts, Question(request[r]).type, request[r].credential, held[r]),
         Authorize(request[r].principal, Question(request[r]).action,
                   Question(request[r]).type, facts)
  PROVE  WasAllowed(request[r].credential, held[r], Question(request[r]).action)
<1> DEFINE q == request[r]
           h == held[r]
<1>1. q \in RequestStates /\ Sound(q, h) /\ Remembered(q, h)
  BY AtWork, Zenon
<1>2. facts.active \in BOOLEAN /\ facts.admin \in BOOLEAN /\ facts.ownsNamespace \in BOOLEAN
  BY DEF Facts
<1>3. Question(q).action \notin TeamActions \cup OpenActions
  BY <1>1, QuestionKnown, Zenon
<1>4. q.principal.kind \in {"anonymous", "user"}
  BY <1>1, SMT DEF RequestStates, Principals
<1>5. q.principal.kind = "anonymous" => ~Supplied(q.credential)
  <2>1. q.principal.kind = "anonymous" => q.principal.kind # "user"
    OBVIOUS
  <2> QED BY <1>1, <2>1, AskerKnown, Zenon
<1>6. q.principal.kind = "user" =>
        Supplied(q.credential) /\ (q.credential.kind = "pat" => TRUE \in h.live)
  BY <1>1, StepAtWork, Zenon
<1>7. Supplied(q.credential) => /\ \E admin \in h.admin : TRUE
                                /\ \E role \in h.role : TRUE
                                /\ \E p \in h.plugin : TRUE
  BY <1>1, Zenon DEF Remembered
<1> HIDE DEF q, h
<1>8. q.principal.kind = "user" => /\ Supplied(q.credential)
                                   /\ q.credential.kind = "pat" => TRUE \in h.live
                                   /\ \E admin \in h.admin : TRUE
                                   /\ \E role \in h.role : TRUE
                                   /\ \E p \in h.plugin : TRUE
  BY <1>6, <1>7, Zenon
<1>9. /\ FactsHeld(facts, Question(q).type, q.credential, h)
      /\ Authorize(q.principal, Question(q).action, Question(q).type, facts)
  BY DEF q, h
<1>10. WasAllowed(q.credential, h, Question(q).action)
  BY <1>2, <1>3, <1>4, <1>5, <1>8, <1>9, GrantedWasAllowed, Zenon
<1> QED BY <1>10, Zenon DEF q, h

LEMMA GrantedTurns ==
  ASSUME AccessInv, NEW r \in Requests, request[r].pc \in Steps,
         Here(request[r]).do = "ask", Become(r, Granted(request[r])),
         WasAllowed(request[r].credential, held[r], Question(request[r]).action)
  PROVE  Turned(r)
<1> DEFINE q == request[r]
           h == held[r]
<1>1. q \in RequestStates /\ Sound(q, h) /\ h \in Memories
  BY AtWork, Zenon
<1>2. /\ q.second = TRUE => Question(q).action \in PluginActions
      /\ q.second # TRUE => Question(q) = Here(q)
  BY <1>1, QuestionKnown, Zenon
<1>3. q.second \in BOOLEAN /\ Here(q).do # "bearer"
  BY <1>1 DEF RequestStates
<1>4. CASE q.second = TRUE
  <2>1. Become(r, Answered(q, "forbidden"))
    BY <1>4, Zenon DEF Granted
  <2>2. h.admin \subseteq BOOLEAN
    BY <1>1, SMT DEF Memories
  <2>3. CouldRead(q.credential, h)
    BY <1>2, <1>4, <2>2, AllowedCouldRead, Zenon
  <2>4. /\ "forbidden" \in Answers \ {"none"} /\ "forbidden" # "done"
        /\ "forbidden" # "unauthenticated"
    BY DEF Answers
  <2>5. AnswerRight(q, h, "forbidden")
    BY <1>1, <2>3, <2>4, RefusalRight, Zenon
  <2> QED BY <2>1, <2>4, <2>5, TurnAnswered, Zenon
<1>5. CASE q.second = FALSE
  <2> DEFINE skips == (Here(q).denied = "skip")
             n == [q EXCEPT !.listed = skips]
  <2>1. Become(r, Proceeded(n))
    BY <1>5, Zenon DEF Granted
  <2>2. skips \in BOOLEAN
    BY Zenon
  <2>3. n \in RequestStates /\ KeepsPlace(q, n) /\ n.principal = q.principal
        /\ n.listed = skips
    BY <1>1, <2>2, ListedNoted, Zenon
  <2> HIDE DEF n
  <2>4. n.listed = TRUE => Here(q).denied = "skip"
    BY <2>3, Zenon
  <2>5. WasAllowed(q.credential, h, Here(q).action)
    <3>1. q.second # TRUE
      BY <1>5, Zenon
    <3> QED BY <1>2, <3>1, Zenon
  <2>6. /\ q.principal.kind = "user" =>
             Supplied(q.credential) /\ (q.credential.kind = "pat" => TRUE \in h.live)
        /\ Supplied(q.credential) => q.principal.kind = "user"
    BY <1>1, AskerKnown, StepAtWork, Zenon
  <2>7. Ready(n, h)
    BY <1>1, <1>3, <2>3, <2>4, <2>5, <2>6, ReadyAfter, Zenon
  <2> QED BY <2>1, <2>3, <2>7, TurnProceeded, Zenon
<1> QED BY <1>3, <1>4, <1>5, Zenon

LEMMA DeniedTurns ==
  ASSUME AccessInv, NEW r \in Requests, request[r].pc \in Steps,
         Here(request[r]).do = "ask", Become(r, Denied(request[r]))
  PROVE  Turned(r)
<1> DEFINE q == request[r]
           h == held[r]
<1>1. q \in RequestStates /\ Sound(q, h) /\ h \in Memories
  BY AtWork, Zenon
<1>2. Here(q).denied \in {"forbidden", "notFound", "readable?", "skip", "git"}
  BY <1>1, QuestionKnown, Zenon
<1>3. "notFound" \in {"invalid", "notFound"} /\ "forbidden" \in {"forbidden", "conflict", "unavailable"}
  OBVIOUS
<1>4. Here(q).do \notin {"bearer", "maybe", "input", "lookup"}
  OBVIOUS
<1>5. CASE Here(q).denied = "readable?"
  <2>1. \/ Become(r, Answered(q, "notFound"))
        \/ Become(r, [q EXCEPT !.pc = "step", !.second = TRUE, !.facts = Unread])
    BY <1>5, Zenon DEF Denied
  <2>2. CASE Become(r, Answered(q, "notFound"))
    BY <1>3, <2>2, TurnRefused, Zenon
  <2>3. CASE Become(r, [q EXCEPT !.pc = "step", !.second = TRUE, !.facts = Unread])
    <3> DEFINE n == [q EXCEPT !.pc = "step", !.second = TRUE, !.facts = Unread]
    <3>1. /\ n \in RequestStates /\ n.pc = "step"
          /\ n.route = q.route /\ n.at = q.at /\ n.credential = q.credential
          /\ n.principal = q.principal /\ n.listed = q.listed /\ n.answer = q.answer
      BY <1>1, AskedAgainFields, Zenon
    <3>2. Become(r, n)
      BY <2>3
    <3> HIDE DEF n
    <3>3. /\ n.pc \notin {"preset", "touch", "validate"} /\ n.pc \in Steps
          /\ n.pc \notin {"status", "admin", "role"} /\ n.pc # "teamAdmin"
          /\ n.pc # "validate" /\ n.pc \notin {"touch", "validate"}
      BY <3>1 DEF Steps
    <3>4. Sound(n, h)
      BY <1>1, <3>1, <3>3, MovedSound, Zenon
    <3>5. Timed(n, h)
      BY <3>3, Zenon DEF Timed
    <3> QED BY <3>1, <3>2, <3>3, <3>4, <3>5, TurnMoved, Zenon
  <2> QED BY <2>1, <2>2, <2>3
<1>6. CASE Here(q).denied = "skip"
  <2>1. Become(r, Proceeded(q))
    BY <1>6, SMT DEF Denied
  <2>2. q.listed = FALSE
    BY <1>1, StepAtWork, Zenon
  <2>3. q.listed # TRUE /\ Here(q).do # "bearer"
    BY <2>2
  <2>4. /\ q.principal.kind = "user" =>
             Supplied(q.credential) /\ (q.credential.kind = "pat" => TRUE \in h.live)
        /\ Supplied(q.credential) => q.principal.kind = "user"
    BY <1>1, AskerKnown, StepAtWork, Zenon
  <2>5. Ready(q, h)
    BY <1>1, <1>6, <2>3, <2>4, KeepsItself, ReadyAfter, Zenon
  <2> QED BY <1>1, <2>1, <2>5, TurnProceeded, Zenon
<1>7. CASE Here(q).denied = "git"
  <2>1. Become(r, DeniedGit(q))
    BY <1>7, SMT DEF Denied
  <2>2. Here(q).denied \notin {"notFound", "readable?"}
    BY <1>7
  <2>3. CASE Supplied(q.credential)
    <3>1. Become(r, Answered(q, "forbidden"))
      BY <2>1, <2>3, Zenon DEF DeniedGit
    <3> QED BY <1>3, <1>4, <2>2, <3>1, TurnBehind, Zenon
  <2>4. CASE ~Supplied(q.credential)
    <3>1. Become(r, Answered(q, "unauthenticated"))
      BY <2>1, <2>4, Zenon DEF DeniedGit
    <3>2. q.credential.kind # "pat"
      BY <2>4 DEF Supplied
    <3> QED BY <3>1, <3>2, TurnUnauthenticated, Zenon
  <2> QED BY <2>3, <2>4
<1>8. CASE Here(q).denied = "notFound"
  <2>1. Become(r, Answered(q, "notFound"))
    BY <1>8, SMT DEF Denied
  <2> QED BY <1>3, <2>1, TurnRefused, Zenon
<1>9. CASE Here(q).denied = "forbidden"
  <2>1. Become(r, Answered(q, "forbidden"))
    BY <1>9, SMT DEF Denied
  <2>2. Here(q).denied \notin {"notFound", "readable?"}
    BY <1>9
  <2> QED BY <1>3, <1>4, <2>1, <2>2, TurnBehind, Zenon
<1> QED BY <1>2, <1>5, <1>6, <1>7, <1>8, <1>9, Zenon

LEMMA DecidedTurns ==
  ASSUME AccessInv, NEW r \in Requests, request[r].pc \in Steps,
         Here(request[r]).do = "ask", NEW facts \in Facts,
         FactsHeld(facts, Question(request[r]).type, request[r].credential, held[r]),
         Become(r, Decided(request[r], facts))
  PROVE  Turned(r)
<1> DEFINE q == request[r]
<1>1. CASE Authorize(q.principal, Question(q).action, Question(q).type, facts)
  <2>1. Become(r, Granted(q))
    BY <1>1, Zenon DEF Decided
  <2>2. WasAllowed(q.credential, held[r], Question(q).action)
    BY <1>1, AuthorizedWasAllowed, Zenon
  <2> QED BY <2>1, <2>2, GrantedTurns, Zenon
<1>2. CASE ~Authorize(q.principal, Question(q).action, Question(q).type, facts)
  <2>1. Become(r, Denied(q))
    BY <1>2, Zenon DEF Decided
  <2> QED BY <2>1, DeniedTurns, Zenon
<1> QED BY <1>1, <1>2

\* Within a question, when a fact has been read.
LEMMA TurnRead ==
  ASSUME AccessInv, NEW r \in Requests, request[r].pc \in Steps,
         Here(request[r]).do = "ask", request[r].principal.kind = "user",
         NEW pc \in {"status", "admin", "role"}, NEW facts \in Facts,
         FactsHeld(facts, Question(request[r]).type, request[r].credential, held[r]),
         Become(r, Moved(request[r], pc, facts))
  PROVE  Turned(r)
<1> DEFINE q == request[r]
           h == held[r]
           n == Moved(q, pc, facts)
<1>1. q \in RequestStates /\ Sound(q, h)
  BY AtWork, Zenon
<1>2. /\ pc \in Steps /\ pc \notin {"preset", "touch", "validate"} /\ pc # "teamAdmin"
      /\ pc # "validate" /\ pc \notin {"touch", "validate"}
  BY DEF Steps
<1>3. /\ n \in RequestStates /\ n.pc = pc /\ n.facts = facts
      /\ n.route = q.route /\ n.at = q.at /\ n.credential = q.credential
      /\ n.principal = q.principal /\ n.second = q.second /\ n.listed = q.listed
      /\ n.answer = q.answer
  BY <1>1, <1>2, MovedFields, SMTT(30)
<1> HIDE DEF n
<1>4. Question(n) = Question(q)
  BY <1>3, Zenon DEF Question, Here
<1>5. /\ n.pc \in Steps /\ n.pc \notin {"preset", "touch", "validate"} /\ n.pc # "teamAdmin"
      /\ n.pc # "validate" /\ n.pc \notin {"touch", "validate"}
  BY <1>2, <1>3
<1>6. FactsHeld(n.facts, Question(n).type, q.credential, h)
  BY <1>3, <1>4, Zenon
<1>7. Sound(n, h)
  BY <1>1, <1>3, <1>5, <1>6, MovedSound, Zenon
<1>8. Timed(n, h)
  BY <1>5, Zenon DEF Timed
<1>9. Become(r, n)
  BY DEF n
<1> QED BY <1>3, <1>5, <1>7, <1>8, <1>9, TurnMoved, Zenon

LEMMA ReadResourceTurns ==
  ASSUME AccessInv, NEW r \in Requests, ReadResource(r)
  PROVE  Turned(r)
<1> DEFINE q == request[r]
           h == held[r]
           c == q.credential
           type == Question(q).type
           row == IF type = "plugin" THEN PluginRow ELSE Unread.plugin
           facts == [Unread EXCEPT !.plugin = row]
           owns == OwnNamespace(type, User(c))
           plays == type \in {"token", "token_collection"}
                      \/ Question(q).action = "marketplace.read"
           more == [facts EXCEPT !.ownsNamespace = owns, !.ownsResource = plays]
<1>1. q \in RequestStates /\ Sound(q, h) /\ Remembered(q, h) /\ WorldTyped
  BY AtWork, Zenon DEF AccessInv, AccessTyped
<1>2. q.pc = "step" /\ Here(q).do = "ask"
  BY Zenon DEF ReadResource, At
<1>3. q.pc \in Steps
  BY <1>2 DEF Steps
<1>4. row \in PluginFacts /\ (type = "plugin" => row \in h.plugin)
  <2>1. PluginRow \in h.plugin
    BY <1>1, <1>3, Zenon DEF Remembered
  <2> QED BY <1>1, <2>1, RowTyped, UnreadTyped, Zenon
<1> HIDE DEF row
<1>5. /\ facts \in Facts /\ facts.plugin = row /\ facts.role = "none"
      /\ facts.active = FALSE /\ facts.admin = FALSE /\ facts.ownsNamespace = FALSE
  <2>1. Unread \in Facts /\ Unread.role = "none" /\ Unread.active = FALSE
        /\ Unread.admin = FALSE /\ Unread.ownsNamespace = FALSE
    BY UnreadTyped DEF Unread
  <2>2. facts \in Facts
    BY <1>4, <2>1, ZenonT(60) DEF Facts
  <2> QED BY <2>1, <2>2 DEF Facts
<1>6. FactsHeld(facts, type, c, h)
  <2>1. facts.role = "none" /\ (facts.active # TRUE) /\ (facts.admin # TRUE)
        /\ (facts.ownsNamespace # TRUE)
    BY <1>5, Zenon
  <2> QED BY <1>4, <1>5, <2>1, Zenon DEF FactsHeld
<1>7. \/ Become(r, Decided(q, facts))
      \/ q.principal.kind # "anonymous" /\ Become(r, Moved(q, "status", more))
  <2>1. facts = [Unread EXCEPT !.plugin = IF type = "plugin" THEN PluginRow ELSE @]
    BY DEF row
  <2> QED BY <2>1, Zenon DEF ReadResource, Moved
<1>8. CASE Become(r, Decided(q, facts))
  BY <1>2, <1>3, <1>5, <1>6, <1>8, DecidedTurns, Zenon
<1>9. CASE q.principal.kind # "anonymous" /\ Become(r, Moved(q, "status", more))
  <2>1. q.principal.kind = "user"
    BY <1>1, <1>9, SMT DEF RequestStates, Principals
  <2>2. owns \in BOOLEAN /\ plays \in BOOLEAN
    BY Zenon DEF OwnNamespace
  <2> HIDE DEF owns, plays, facts
  <2>3. more \in Facts
    BY <1>5, <2>2, ZenonT(60) DEF Facts
  <2>4. /\ more.plugin = facts.plugin /\ more.role = facts.role
        /\ more.active = facts.active /\ more.admin = facts.admin
    BY <1>5, SMT DEF Facts
  <2>5. more.ownsNamespace = owns
    BY <1>5, Zenon DEF Facts
  <2> HIDE DEF more
  <2>6. FactsHeld(more, type, c, h)
    <3>1. more.ownsNamespace = TRUE => OwnNamespace(type, User(c))
      BY <2>5, Zenon DEF owns
    <3> QED BY <1>6, <2>4, <3>1, Zenon DEF FactsHeld
  <2>7. "status" \in {"status", "admin", "role"}
    OBVIOUS
  <2> QED BY <1>2, <1>3, <1>9, <2>1, <2>3, <2>6, <2>7, TurnRead, Zenon
<1> QED BY <1>7, <1>8, <1>9

\* What is known of a request that is reading for a question.
LEMMA Reading ==
  ASSUME AccessInv, NEW r \in Requests, request[r].pc \in {"status", "admin", "role"}
  PROVE  /\ request[r].pc \in Steps /\ Here(request[r]).do = "ask"
         /\ request[r].principal.kind = "user" /\ request[r].facts \in Facts
         /\ FactsHeld(request[r].facts, Question(request[r]).type,
                      request[r].credential, held[r])
         /\ person[User(request[r].credential)] \in Persons
         /\ person[User(request[r].credential)].active \in held[r].active
         /\ person[User(request[r].credential)].admin \in held[r].admin
         /\ person[User(request[r].credential)].role \in held[r].role
<1> DEFINE q == request[r]
           h == held[r]
<1>1. q \in RequestStates /\ Sound(q, h) /\ Remembered(q, h) /\ WorldTyped
  BY AtWork, Zenon DEF AccessInv, AccessTyped
<1>2. q.pc \in Steps
  BY DEF Steps
<1>3. Here(q).do = "ask" /\ q.principal.kind = "user"
  BY <1>1, Zenon DEF Sound, Placed
<1>4. q.facts \in Facts
  BY <1>1 DEF RequestStates
<1>5. FactsHeld(q.facts, Question(q).type, q.credential, h)
  BY <1>1, Zenon DEF Sound, Read
<1>6. Supplied(q.credential) /\ CredentialFits(q)
  BY <1>1, <1>2, <1>3, StepAtWork, Zenon
<1>7. User(q.credential) \in Users
  BY <1>1, <1>6, UserTyped, Zenon
<1>8. person[User(q.credential)] \in Persons
  BY <1>1, <1>7 DEF WorldTyped
<1> QED BY <1>1, <1>2, <1>3, <1>4, <1>5, <1>6, <1>8, Zenon DEF Remembered

LEMMA ReadStatusTurns ==
  ASSUME AccessInv, NEW r \in Requests, ReadStatus(r)
  PROVE  Turned(r)
<1> DEFINE q == request[r]
           h == held[r]
           c == q.credential
           active == person[User(c)].active
           facts == [q.facts EXCEPT !.active = TRUE]
<1>1. q.pc = "status"
  BY Zenon DEF ReadStatus
<1>2. q.pc \in {"status", "admin", "role"}
  BY <1>1
<1>3. /\ q.pc \in Steps /\ Here(q).do = "ask"
      /\ q.principal.kind = "user" /\ q.facts \in Facts
      /\ FactsHeld(q.facts, Question(q).type, c, h)
      /\ person[User(c)] \in Persons /\ active \in h.active
  BY <1>2, Reading, Zenon
<1>4. CASE ~active
  <2>1. Become(r, Decided(q, q.facts))
    BY <1>4, Zenon DEF ReadStatus
  <2> QED BY <1>3, <2>1, DecidedTurns, Zenon
<1>5. CASE active
  <2>1. Become(r, [q EXCEPT !.pc = "admin", !.facts = [@ EXCEPT !.active = TRUE]])
    BY <1>5, Zenon DEF ReadStatus
  <2>2. [q EXCEPT !.pc = "admin", !.facts = [@ EXCEPT !.active = TRUE]]
          = Moved(q, "admin", facts)
    BY DEF Moved
  <2>3. facts \in Facts
    <3>1. TRUE \in BOOLEAN
      OBVIOUS
    <3> QED BY <1>3, <3>1, ZenonT(60) DEF Facts
  <2>4. /\ facts.plugin = q.facts.plugin /\ facts.role = q.facts.role
        /\ facts.admin = q.facts.admin /\ facts.ownsNamespace = q.facts.ownsNamespace
    BY <1>3, SMT DEF Facts
  <2>5. TRUE \in h.active
    <3>1. active = TRUE
      <4>1. active \in BOOLEAN
        BY <1>3 DEF Persons
      <4> QED BY <1>5, <4>1, Zenon
    <3> QED BY <1>3, <3>1, Zenon
  <2> HIDE DEF facts
  <2>6. FactsHeld(facts, Question(q).type, c, h)
    BY <1>3, <2>4, <2>5, Zenon DEF FactsHeld
  <2>7. "admin" \in {"status", "admin", "role"}
    OBVIOUS
  <2>8. Become(r, Moved(q, "admin", facts))
    BY <2>1, <2>2 DEF facts
  <2> QED BY <1>3, <2>3, <2>6, <2>7, <2>8, TurnRead, Zenon
<1> QED BY <1>4, <1>5

LEMMA ReadAdminTurns ==
  ASSUME AccessInv, NEW r \in Requests, ReadAdmin(r)
  PROVE  Turned(r)
<1> DEFINE q == request[r]
           h == held[r]
           c == q.credential
           admin == person[User(c)].admin
           facts == [q.facts EXCEPT !.admin = admin]
<1>1. q.pc = "admin"
  BY Zenon DEF ReadAdmin
<1>2. q.pc \in {"status", "admin", "role"}
  BY <1>1
<1>3. /\ q.pc \in Steps /\ Here(q).do = "ask"
      /\ q.principal.kind = "user" /\ q.facts \in Facts
      /\ FactsHeld(q.facts, Question(q).type, c, h)
      /\ person[User(c)] \in Persons /\ admin \in h.admin
  BY <1>2, Reading, Zenon
<1>4. Become(r, [q EXCEPT !.pc = "role", !.facts = [@ EXCEPT !.admin = person[User(c)].admin]])
  BY Zenon DEF ReadAdmin
<1>5. [q EXCEPT !.pc = "role", !.facts = [@ EXCEPT !.admin = person[User(c)].admin]]
        = Moved(q, "role", facts)
  BY DEF Moved
<1>6. admin \in BOOLEAN
  BY <1>3 DEF Persons
<1> HIDE DEF admin
<1>7. facts \in Facts
  BY <1>3, <1>6, ZenonT(60) DEF Facts
<1>8. /\ facts.plugin = q.facts.plugin /\ facts.role = q.facts.role
      /\ facts.active = q.facts.active /\ facts.ownsNamespace = q.facts.ownsNamespace
  BY <1>3, SMT DEF Facts
<1>9. facts.admin = admin
  BY <1>3, Zenon DEF Facts
<1> HIDE DEF facts
<1>10. FactsHeld(facts, Question(q).type, c, h)
  BY <1>3, <1>8, <1>9, Zenon DEF FactsHeld
<1>11. "role" \in {"status", "admin", "role"}
  OBVIOUS
<1>12. Become(r, Moved(q, "role", facts))
  BY <1>4, <1>5
<1> QED BY <1>3, <1>7, <1>10, <1>11, <1>12, TurnRead, Zenon

LEMMA ReadRoleTurns ==
  ASSUME AccessInv, NEW r \in Requests, ReadRole(r)
  PROVE  Turned(r)
<1> DEFINE q == request[r]
           h == held[r]
           c == q.credential
           role == IF Question(q).type \in {"namespace", "plugin"}
                   THEN person[User(c)].role ELSE "none"
           facts == [q.facts EXCEPT !.role = role]
<1>1. q.pc = "role"
  BY Zenon DEF ReadRole
<1>2. q.pc \in {"status", "admin", "role"}
  BY <1>1
<1>3. /\ q.pc \in Steps /\ Here(q).do = "ask" /\ q.facts \in Facts
      /\ FactsHeld(q.facts, Question(q).type, c, h)
      /\ person[User(c)] \in Persons /\ person[User(c)].role \in h.role
  BY <1>2, Reading, Zenon
<1>4. Become(r, Decided(q, facts))
  BY Zenon DEF ReadRole
<1>5. role \in Roles \cup {"none"} /\ (role # "none" => role \in h.role)
  BY <1>3 DEF Persons
<1> HIDE DEF role
<1>6. facts \in Facts
  BY <1>3, <1>5, ZenonT(60) DEF Facts
<1>7. /\ facts.plugin = q.facts.plugin /\ facts.role = role
      /\ facts.active = q.facts.active /\ facts.ownsNamespace = q.facts.ownsNamespace
      /\ facts.admin = q.facts.admin
  BY <1>3, SMT DEF Facts
<1> HIDE DEF facts
<1>8. FactsHeld(facts, Question(q).type, c, h)
  BY <1>3, <1>5, <1>7, Zenon DEF FactsHeld
<1> QED BY <1>3, <1>4, <1>6, <1>8, DecidedTurns, Zenon

-----------------------------------------------------------------------------
(***************************************************************************)
(* Services.                                                               *)
(***************************************************************************)
LEMMA ReadTeamTurns ==
  ASSUME AccessInv, NEW r \in Requests, ReadTeam(r)
  PROVE  Turned(r)
<1> DEFINE q == request[r]
           h == held[r]
           facts == [q.facts EXCEPT !.role = person[User(q.credential)].role]
           n == Moved(q, "teamAdmin", facts)
<1>1. q \in RequestStates /\ Sound(q, h) /\ WorldTyped
  BY AtWork, Zenon DEF AccessInv, AccessTyped
<1>2. q.pc = "step" /\ Here(q).do = "team"
  BY Zenon DEF ReadTeam, At
<1>3. q.pc \in Steps /\ "teamAdmin" \in Steps
  BY <1>2 DEF Steps
<1>4. /\ CredentialFits(q) /\ q.at \in DOMAIN Routes[q.route]
      /\ StepFits(Routes[q.route], q.at, q.route \in TokenTaking)
  BY <1>1, <1>3, StepAtWork, Zenon
<1>5. Supplied(q.credential)
  <2>1. PICK j \in DOMAIN Routes[q.route] : j < q.at /\ Routes[q.route][j].do = "bearer"
    BY <1>2, <1>4, Zenon DEF StepFits, Here
  <2> QED BY <1>1, <1>3, <2>1, Zenon DEF Sound, Known
<1>6. person[User(q.credential)] \in Persons
  BY <1>1, <1>4, <1>5, UserTyped DEF WorldTyped
<1>7. q.facts \in Facts /\ person[User(q.credential)].role \in Roles \cup {"none"}
  BY <1>1, <1>6 DEF RequestStates, Persons
<1>8. facts \in Facts
  BY <1>7, ZenonT(60) DEF Facts
<1>9. Become(r, n)
  <2>1. [q EXCEPT !.pc = "teamAdmin",
                  !.facts = [@ EXCEPT !.role = person[User(q.credential)].role]] = n
    BY DEF Moved
  <2>2. Become(r, [q EXCEPT !.pc = "teamAdmin",
                            !.facts = [@ EXCEPT !.role = person[User(q.credential)].role]])
    BY Zenon DEF ReadTeam
  <2> QED BY <2>1, <2>2
<1> HIDE DEF facts
<1>10. /\ n \in RequestStates /\ n.pc = "teamAdmin"
       /\ n.route = q.route /\ n.at = q.at /\ n.credential = q.credential
       /\ n.principal = q.principal /\ n.listed = q.listed /\ n.answer = q.answer
  BY <1>1, <1>3, <1>8, MovedFields, SMTT(30)
<1> HIDE DEF n
<1>11. /\ n.pc \notin {"preset", "touch", "validate"}
       /\ n.pc \notin {"status", "admin", "role"}
       /\ n.pc # "validate" /\ n.pc \notin {"touch", "validate"}
  BY <1>10
<1>12. Sound(n, h)
  BY <1>1, <1>2, <1>3, <1>10, <1>11, MovedSound, Zenon
<1>13. Timed(n, h)
  BY <1>11, Zenon DEF Timed
<1> QED BY <1>3, <1>9, <1>10, <1>12, <1>13, TurnMoved, Zenon

LEMMA ReadTeamAdminTurns ==
  ASSUME AccessInv, NEW r \in Requests, ReadTeamAdmin(r)
  PROVE  Turned(r)
<1> DEFINE q == request[r]
<1>1. q \in RequestStates /\ Sound(q, held[r])
  BY AtWork, Zenon
<1>2. q.pc \in {"step", "teamAdmin"} /\ Here(q).do \in {"team", "allTeams"}
  <2>1. CASE q.pc = "teamAdmin"
    BY <1>1, <2>1, Zenon DEF Sound, Placed
  <2>2. CASE At(q, "allTeams")
    BY <2>2, Zenon DEF At
  <2> QED BY <2>1, <2>2, Zenon DEF ReadTeamAdmin
<1>3. /\ q.pc \in Steps /\ Here(q).do \notin {"ask", "bearer", "maybe", "find"}
      /\ Here(q).do \notin {"bearer", "maybe", "input", "lookup"} /\ Here(q).do # "ask"
  BY <1>2 DEF Steps
<1>4. Here(q).denied \in {"forbidden", "notFound"}
  BY <1>1, <1>2, <1>3, StepAtWork, Zenon DEF StepFits, Here
<1>5. Become(r, Proceeded(q)) \/ Become(r, Answered(q, Here(q).denied))
  BY Zenon DEF ReadTeamAdmin
<1>6. CASE Become(r, Proceeded(q))
  BY <1>1, <1>3, <1>6, KeepsItself, TurnPlain, Zenon
<1>7. CASE Become(r, Answered(q, Here(q).denied))
  <2>1. \/ Become(r, Answered(q, "forbidden"))
        \/ Become(r, Answered(q, "notFound"))
    BY <1>4, <1>7, Zenon
  <2>2. "notFound" \in {"invalid", "notFound"} /\ "forbidden" \in {"forbidden", "conflict", "unavailable"}
    OBVIOUS
  <2>3. CASE Become(r, Answered(q, "forbidden"))
    BY <1>3, <2>2, <2>3, TurnBehind, Zenon
  <2>4. CASE Become(r, Answered(q, "notFound"))
    BY <1>3, <2>2, <2>4, TurnRefused, Zenon
  <2> QED BY <2>1, <2>3, <2>4
<1> QED BY <1>5, <1>6, <1>7

LEMMA CheckTargetTurns ==
  ASSUME AccessInv, NEW r \in Requests, CheckTarget(r)
  PROVE  Turned(r)
<1> DEFINE q == request[r]
<1>1. q \in RequestStates
  BY AtWork, Zenon
<1>2. q.pc = "step" /\ Here(q).do = "notSelf"
  BY Zenon DEF CheckTarget, At
<1>3. /\ q.pc \in Steps /\ Here(q).do \notin {"ask", "bearer", "maybe", "find"}
      /\ Here(q).do \notin {"bearer", "maybe", "input", "lookup"} /\ Here(q).do # "ask"
  BY <1>2 DEF Steps
<1>4. Become(r, Proceeded(q)) \/ Become(r, Answered(q, "conflict"))
  BY Zenon DEF CheckTarget
<1>5. "conflict" \in {"forbidden", "conflict", "unavailable"}
  OBVIOUS
<1>6. CASE Become(r, Proceeded(q))
  BY <1>1, <1>3, <1>6, KeepsItself, TurnPlain, Zenon
<1>7. CASE Become(r, Answered(q, "conflict"))
  BY <1>3, <1>5, <1>7, TurnBehind, Zenon
<1> QED BY <1>4, <1>6, <1>7

LEMMA CheckPasswordTurns ==
  ASSUME AccessInv, NEW r \in Requests, CheckPassword(r)
  PROVE  Turned(r)
<1> DEFINE q == request[r]
<1>1. q \in RequestStates /\ Sound(q, held[r])
  BY AtWork, Zenon
<1>2. q.pc = "step" /\ Here(q).do = "password"
  BY Zenon DEF CheckPassword, At
<1>3. q.pc \in Steps /\ Here(q).do \notin {"ask", "bearer", "maybe", "find"}
  BY <1>2 DEF Steps
<1>4. Become(r, Proceeded(q)) \/ Become(r, Answered(q, "unauthenticated"))
  BY Zenon DEF CheckPassword
<1>5. CASE Become(r, Proceeded(q))
  BY <1>1, <1>3, <1>5, KeepsItself, TurnPlain, Zenon
<1>6. CASE Become(r, Answered(q, "unauthenticated"))
  <2>1. CredentialFits(q) /\ StepFits(Routes[q.route], q.at, q.route \in TokenTaking)
    BY <1>1, <1>3, StepAtWork, Zenon
  <2>2. Here(q).do \in {"bearer", "maybe", "password"}
    BY <1>2
  <2>3. q.credential.kind # "pat"
    BY <2>1, <2>2, Zenon DEF StepFits, CredentialFits, Here
  <2> QED BY <1>3, <1>6, <2>3, TurnUnauthenticated, Zenon
<1> QED BY <1>4, <1>5, <1>6

LEMMA ChooseTokenTurns ==
  ASSUME AccessInv, NEW r \in Requests, ChooseToken(r)
  PROVE  Turned(r)
<1> DEFINE q == request[r]
<1>1. q \in RequestStates
  BY AtWork, Zenon
<1>2. q.pc = "step" /\ Here(q).do = "findToken"
  BY Zenon DEF ChooseToken, At
<1>3. q.pc \in Steps /\ Here(q).do \notin {"ask", "bearer", "maybe", "find"}
  BY <1>2 DEF Steps
<1>4. \/ Become(r, Answered(q, "notFound"))
      \/ \E t \in Tokens : Become(r, Proceeded([q EXCEPT !.chosen = {t}]))
  BY Zenon DEF ChooseToken
<1>5. "notFound" \in {"invalid", "notFound"}
  OBVIOUS
<1>6. CASE Become(r, Answered(q, "notFound"))
  BY <1>3, <1>5, <1>6, TurnRefused, Zenon
<1>7. ASSUME NEW t \in Tokens, Become(r, Proceeded([q EXCEPT !.chosen = {t}]))
      PROVE  Turned(r)
  <2>1. {t} \in SUBSET Tokens
    OBVIOUS
  <2> QED BY <1>1, <1>3, <1>7, <2>1, ChoiceNoted, TurnPlain, Zenon
<1> QED BY <1>4, <1>6, <1>7

\* Success at a step that ends the request.
LEMMA TurnDone ==
  ASSUME AccessInv, NEW r \in Requests, request[r].pc \in Steps,
         Here(request[r]).do \in {"marketplace", "change"},
         Become(r, Answered(request[r], "done"))
  PROVE  Turned(r)
<1>1. "done" \in Answers \ {"none"}
  BY DEF Answers
<1>2. AnswerRight(request[r], held[r], "done")
  BY AtWork, SuccessRight, Zenon
<1> QED BY <1>1, <1>2, TurnAnswered, Zenon

LEMMA FindMarketplaceTurns ==
  ASSUME AccessInv, NEW r \in Requests, FindMarketplace(r)
  PROVE  Turned(r)
<1> DEFINE q == request[r]
<1>1. q \in RequestStates
  BY AtWork, Zenon
<1>2. q.pc = "step" /\ Here(q).do = "marketplace"
  BY Zenon DEF FindMarketplace, At
<1>3. /\ q.pc \in Steps /\ Here(q).do \notin {"ask", "bearer", "maybe", "find"}
      /\ Here(q).do \in {"marketplace", "change"}
  BY <1>2 DEF Steps
<1>4. \/ Become(r, Answered(q, "notFound"))
      \/ Become(r, Proceeded(q))
      \/ Become(r, Answered(q, "done"))
  BY Zenon DEF FindMarketplace
<1>5. "notFound" \in {"invalid", "notFound"}
  OBVIOUS
<1>6. CASE Become(r, Answered(q, "notFound"))
  BY <1>3, <1>5, <1>6, TurnRefused, Zenon
<1>7. CASE Become(r, Proceeded(q))
  BY <1>1, <1>3, <1>7, KeepsItself, TurnPlain, Zenon
<1>8. CASE Become(r, Answered(q, "done"))
  BY <1>3, <1>8, TurnDone, Zenon
<1> QED BY <1>4, <1>6, <1>7, <1>8

\* What the commands leave, and others that change the Plugin.
LEMMA OutcomesTyped ==
  ASSUME WorldTyped,
         NEW effect \in {"archive", "restore", "setVisibility", "publish", "default"},
         NEW o \in Outcomes(effect)
  PROVE  /\ o.row \in PluginRows
         /\ o.row.from # "none" <=> o.row.status = "archived"
         /\ o.answer \in {"done", "conflict"}
<1>1. plugin \in PluginRows /\ (plugin.from # "none" <=> plugin.status = "archived")
  BY DEF WorldTyped
<1>2. CASE effect = "archive"
  <2>1. /\ o.answer = "done"
        /\ \/ o.row = plugin
           \/ /\ plugin.status # "archived"
              /\ o.row = [plugin EXCEPT !.status = "archived", !.from = plugin.status]
    <3>1. o = [row |-> IF plugin.status = "archived" THEN plugin
                       ELSE [plugin EXCEPT !.status = "archived", !.from = plugin.status],
               answer |-> "done"]
      BY <1>2, Zenon DEF Outcomes
    <3> QED BY <3>1
  <2>2. CASE o.row = plugin
    BY <1>1, <2>1, <2>2
  <2>3. CASE /\ plugin.status # "archived"
             /\ o.row = [plugin EXCEPT !.status = "archived", !.from = plugin.status]
    <3>1. plugin.status \in {"draft", "active"}
      BY <1>1, <2>3, SMT DEF PluginRows
    <3>2. o.row \in PluginRows
      BY <1>1, <2>3, <3>1, ZenonT(60) DEF PluginRows
    <3>3. o.row.status = "archived" /\ o.row.from = plugin.status
      BY <1>1, <2>3 DEF PluginRows
    <3> QED BY <2>1, <3>1, <3>2, <3>3
  <2> QED BY <2>1, <2>2, <2>3
<1>3. CASE effect = "restore"
  <2>1. \/ o = [row |-> plugin, answer |-> "conflict"]
        \/ /\ plugin.status = "archived"
           /\ o = [row |-> [plugin EXCEPT !.status = plugin.from, !.from = "none"],
                   answer |-> "done"]
    BY <1>3, Zenon DEF Outcomes
  <2>2. CASE o = [row |-> plugin, answer |-> "conflict"]
    BY <1>1, <2>2
  <2>3. CASE /\ plugin.status = "archived"
             /\ o = [row |-> [plugin EXCEPT !.status = plugin.from, !.from = "none"],
                     answer |-> "done"]
    <3>1. plugin.from \in {"draft", "active"}
      BY <1>1, <2>3, SMT DEF PluginRows
    <3>2. o.row \in PluginRows
      BY <1>1, <2>3, <3>1, ZenonT(60) DEF PluginRows
    <3>3. o.row.status = plugin.from /\ o.row.from = "none" /\ o.answer = "done"
      BY <1>1, <2>3 DEF PluginRows
    <3> QED BY <3>1, <3>2, <3>3
  <2> QED BY <2>1, <2>2, <2>3
<1>4. CASE effect = "setVisibility"
  <2>1. \/ o = [row |-> plugin, answer |-> "conflict"]
        \/ \E v \in {"public", "private"} :
             o = [row |-> [plugin EXCEPT !.visibility = v], answer |-> "done"]
    BY <1>4, Zenon DEF Outcomes
  <2>2. CASE o = [row |-> plugin, answer |-> "conflict"]
    BY <1>1, <2>2
  <2>3. ASSUME NEW v \in {"public", "private"},
               o = [row |-> [plugin EXCEPT !.visibility = v], answer |-> "done"]
        PROVE  /\ o.row \in PluginRows
               /\ o.row.from # "none" <=> o.row.status = "archived"
               /\ o.answer \in {"done", "conflict"}
    BY <1>1, <2>3, SMT DEF PluginRows
  <2> QED BY <2>1, <2>2, <2>3
<1>5. CASE effect = "publish"
  <2>1. \/ o = [row |-> plugin, answer |-> "conflict"]
        \/ /\ plugin.status # "archived"
           /\ o = [row |-> [plugin EXCEPT !.status = "active"], answer |-> "done"]
    BY <1>5, Zenon DEF Outcomes
  <2>2. CASE o = [row |-> plugin, answer |-> "conflict"]
    BY <1>1, <2>2
  <2>3. CASE /\ plugin.status # "archived"
             /\ o = [row |-> [plugin EXCEPT !.status = "active"], answer |-> "done"]
    BY <1>1, <2>3, SMT DEF PluginRows
  <2> QED BY <2>1, <2>2, <2>3
<1>6. CASE effect = "default"
  BY <1>1, <1>6, SMT DEF Outcomes, PluginRows
<1> QED BY <1>2, <1>3, <1>4, <1>5, <1>6

LEMMA ExecuteTurns ==
  ASSUME AccessInv, NEW r \in Requests, Execute(r)
  PROVE  /\ Turned(r)
         /\ plugin' \in PluginRows /\ (plugin'.from # "none" <=> plugin'.status = "archived")
<1> DEFINE q == request[r]
<1>1. q \in RequestStates /\ Sound(q, held[r]) /\ WorldTyped
  BY AtWork, Zenon DEF AccessInv, AccessTyped
<1>2. q.pc = "step" /\ Here(q).do = "change" /\ Here(q).effect # "revoke"
  BY Zenon DEF Execute, At
<1>3. /\ q.pc \in Steps /\ Here(q).do \in {"marketplace", "change"}
      /\ Here(q).do \notin {"bearer", "maybe", "input", "lookup"} /\ Here(q).do # "ask"
  BY <1>2 DEF Steps
<1>4. StepFits(Routes[q.route], q.at, q.route \in TokenTaking)
  BY <1>1, <1>3, StepAtWork, Zenon
<1>5. Here(q).effect \in {"archive", "restore", "setVisibility", "publish", "default"}
  BY <1>2, <1>4, Zenon DEF StepFits, Here
<1>6. PICK o \in Outcomes(Here(q).effect) : plugin' = o.row /\ Become(r, Answered(q, o.answer))
  BY Zenon DEF Execute
<1>7. /\ o.row \in PluginRows
      /\ o.row.from # "none" <=> o.row.status = "archived"
      /\ o.answer = "done" \/ o.answer = "conflict"
  BY <1>1, <1>5, OutcomesTyped
<1>8. CASE o.answer = "done"
  BY <1>3, <1>6, <1>7, <1>8, TurnDone, Zenon
<1>9. CASE o.answer = "conflict"
  <2>1. "conflict" \in {"forbidden", "conflict", "unavailable"}
    OBVIOUS
  <2> QED BY <1>3, <1>6, <1>7, <1>9, <2>1, TurnBehind, Zenon
<1> QED BY <1>7, <1>8, <1>9

LEMMA RevokeTurns ==
  ASSUME AccessInv, NEW r \in Requests, Revoke(r)
  PROVE  Turned(r)
<1> DEFINE q == request[r]
<1>1. q.pc = "step" /\ Here(q).do = "change" /\ Become(r, Answered(q, "done"))
  BY Zenon DEF Revoke, At
<1>2. q.pc \in Steps /\ Here(q).do \in {"marketplace", "change"}
  BY <1>1 DEF Steps
<1> QED BY <1>1, <1>2, TurnDone, Zenon

-----------------------------------------------------------------------------
(***************************************************************************)
(* What is remembered: the facts of the next state, beside what was held.  *)
(***************************************************************************)
TruthsThen(c) ==
  LET user == IF Supplied(c) THEN {person'[User(c)]} ELSE {}
  IN  [active |-> {p.active : p \in user}, admin |-> {p.admin : p \in user},
       role |-> {p.role : p \in user},
       plugin |-> {[visibility |-> plugin'.visibility, status |-> plugin'.status,
                    repository |-> plugin'.repository]},
       live |-> IF c.kind = "pat"
                THEN {/\ (~token'[c.id].revoked /\ token'[c.id].expires > now')
                      /\ person'[User(c)].active}
                ELSE {}]

LEMMA RememberOne ==
  ASSUME Remember, NEW r \in Requests
  PROVE  held'[r] = IF request'[r].pc = "idle" \/ request[r].pc = "answered" THEN held[r]
                    ELSE Also(held[r], TruthsThen(request'[r].credential))
<1>1. Truths(request[r].credential)' = TruthsThen(request'[r].credential)
  BY Zenon DEF Truths, TruthsThen, PluginRow, Live
<1>2. held'[r] = IF request'[r].pc = "idle" \/ request[r].pc = "answered" THEN held[r]
                 ELSE Also(held[r], Truths(request[r].credential)')
  BY Zenon DEF Remember
<1> QED BY <1>1, <1>2, Zenon

LEMMA AlsoFields ==
  ASSUME NEW h, NEW g
  PROVE  /\ Also(h, g).active = h.active \cup g.active
         /\ Also(h, g).admin = h.admin \cup g.admin
         /\ Also(h, g).role = h.role \cup g.role
         /\ Also(h, g).plugin = h.plugin \cup g.plugin
         /\ Also(h, g).live = h.live \cup g.live
BY Zenon DEF Also

LEMMA MemoryTyped ==
  ASSUME NEW active \in SUBSET BOOLEAN, NEW admin \in SUBSET BOOLEAN,
         NEW role \in SUBSET (Roles \cup {"none"}), NEW rows \in SUBSET PluginFacts,
         NEW live \in SUBSET BOOLEAN
  PROVE  [active |-> active, admin |-> admin, role |-> role, plugin |-> rows, live |-> live]
           \in Memories
BY Zenon DEF Memories

LEMMA AlsoGrows ==
  ASSUME NEW h \in Memories, NEW g \in Memories
  PROVE  Also(h, g) \in Memories /\ Within(h, Also(h, g))
<1>1. /\ h.active \subseteq BOOLEAN /\ g.active \subseteq BOOLEAN
      /\ h.admin \subseteq BOOLEAN /\ g.admin \subseteq BOOLEAN
      /\ h.role \subseteq Roles \cup {"none"} /\ g.role \subseteq Roles \cup {"none"}
      /\ h.plugin \subseteq PluginFacts /\ g.plugin \subseteq PluginFacts
      /\ h.live \subseteq BOOLEAN /\ g.live \subseteq BOOLEAN
  BY Zenon DEF Memories
<1>2. Also(h, g) \in Memories
  <2>1. /\ h.active \cup g.active \in SUBSET BOOLEAN
        /\ h.admin \cup g.admin \in SUBSET BOOLEAN
        /\ h.role \cup g.role \in SUBSET (Roles \cup {"none"})
        /\ h.plugin \cup g.plugin \in SUBSET PluginFacts
        /\ h.live \cup g.live \in SUBSET BOOLEAN
    BY <1>1
  <2> QED BY <2>1, MemoryTyped, Zenon DEF Also
<1>3. Within(h, Also(h, g))
  BY AlsoFields, SMTT(30) DEF Within
<1> QED BY <1>2, <1>3

LEMMA TruthsThenTyped ==
  ASSUME WorldTyped', NEW q \in RequestStates, CredentialFits(q)
  PROVE  TruthsThen(q.credential) \in Memories
<1> DEFINE c == q.credential
           user == IF Supplied(c) THEN {person'[User(c)]} ELSE {}
<1>1. user \subseteq Persons
  <2>1. person' \in [Users -> Persons]
    BY Zenon DEF WorldTyped
  <2> QED BY <2>1, UserTyped, Zenon
<1>2. \A p \in user : /\ p.active \in BOOLEAN /\ p.admin \in BOOLEAN
                      /\ p.role \in Roles \cup {"none"}
  BY <1>1, Zenon DEF Persons
<1>3. /\ {p.active : p \in user} \subseteq BOOLEAN
      /\ {p.admin : p \in user} \subseteq BOOLEAN
      /\ {p.role : p \in user} \subseteq Roles \cup {"none"}
  BY <1>2, Zenon
<1>4. [visibility |-> plugin'.visibility, status |-> plugin'.status,
       repository |-> plugin'.repository] \in PluginFacts
  BY SMT DEF WorldTyped, PluginRows, PluginFacts
<1> DEFINE alive == /\ (~token'[c.id].revoked /\ token'[c.id].expires > now')
                    /\ person'[User(c)].active
           live == IF c.kind = "pat" THEN {alive} ELSE {}
<1>5. live \subseteq BOOLEAN
  BY Zenon
<1>6. TruthsThen(c) = [active |-> {p.active : p \in user}, admin |-> {p.admin : p \in user},
                       role |-> {p.role : p \in user},
                       plugin |-> {[visibility |-> plugin'.visibility,
                                    status |-> plugin'.status,
                                    repository |-> plugin'.repository]},
                       live |-> live]
  BY Zenon DEF TruthsThen
<1> HIDE DEF user, live
<1>7. /\ {p.active : p \in user} \in SUBSET BOOLEAN
      /\ {p.admin : p \in user} \in SUBSET BOOLEAN
      /\ {p.role : p \in user} \in SUBSET (Roles \cup {"none"})
      /\ {[visibility |-> plugin'.visibility, status |-> plugin'.status,
           repository |-> plugin'.repository]} \in SUBSET PluginFacts
      /\ live \in SUBSET BOOLEAN
  BY <1>3, <1>4, <1>5, Zenon
<1> DEFINE actives == {p.active : p \in user}
           admins == {p.admin : p \in user}
           roles == {p.role : p \in user}
           rows == {[visibility |-> plugin'.visibility, status |-> plugin'.status,
                     repository |-> plugin'.repository]}
<1>8. /\ actives \in SUBSET BOOLEAN /\ admins \in SUBSET BOOLEAN
      /\ roles \in SUBSET (Roles \cup {"none"}) /\ rows \in SUBSET PluginFacts
      /\ TruthsThen(c) = [active |-> actives, admin |-> admins, role |-> roles,
                         plugin |-> rows, live |-> live]
  BY <1>6, <1>7, Zenon
<1> HIDE DEF actives, admins, roles, rows
<1>9. live \in SUBSET BOOLEAN
  BY <1>7
<1>10. [active |-> actives, admin |-> admins, role |-> roles, plugin |-> rows, live |-> live]
         \in Memories
  BY <1>8, <1>9, MemoryTyped
<1> QED BY <1>8, <1>10

LEMMA HeldGrows ==
  ASSUME AccessInv, Remember, WorldTyped', NEW r \in Requests,
         request'[r] \in RequestStates, CredentialFits(request'[r])
  PROVE  held'[r] \in Memories /\ Within(held[r], held'[r])
<1>1. held[r] \in Memories
  BY AtWork, Zenon
<1>2. TruthsThen(request'[r].credential) \in Memories
  BY TruthsThenTyped
<1>3. Within(held[r], held[r])
  BY DEF Within
<1>4. /\ Also(held[r], TruthsThen(request'[r].credential)) \in Memories
      /\ Within(held[r], Also(held[r], TruthsThen(request'[r].credential)))
  BY <1>1, <1>2, AlsoGrows
<1> QED BY <1>1, <1>3, <1>4, RememberOne, Zenon

LEMMA RememberedThen ==
  ASSUME Remember, NEW r \in Requests, request'[r].pc \in Steps, request[r].pc # "answered"
  PROVE  Remembered(request[r], held[r])'
<1> DEFINE c == request'[r].credential
           g == TruthsThen(c)
<1>1. request'[r].pc # "idle"
  BY DEF Steps
<1>2. held'[r] = Also(held[r], g)
  BY <1>1, RememberOne, Zenon
<1>3. /\ [visibility |-> plugin'.visibility, status |-> plugin'.status,
          repository |-> plugin'.repository] \in g.plugin
      /\ Supplied(c) => /\ person'[User(c)].active \in g.active
                        /\ person'[User(c)].admin \in g.admin
                        /\ person'[User(c)].role \in g.role
      /\ c.kind = "pat" =>
           ((~token'[c.id].revoked /\ token'[c.id].expires > now')
              /\ person'[User(c)].active) \in g.live
  BY Zenon DEF TruthsThen
<1> HIDE DEF g
<1>4. /\ g.plugin \subseteq held'[r].plugin /\ g.active \subseteq held'[r].active
      /\ g.admin \subseteq held'[r].admin /\ g.role \subseteq held'[r].role
      /\ g.live \subseteq held'[r].live
  <2>1. held'[r].live = held[r].live \cup g.live /\ held'[r].plugin = held[r].plugin \cup g.plugin
        /\ held'[r].active = held[r].active \cup g.active
        /\ held'[r].admin = held[r].admin \cup g.admin
        /\ held'[r].role = held[r].role \cup g.role
    BY <1>2, AlsoFields
  <2> QED BY <2>1, Zenon
<1>5. PluginRow' = [visibility |-> plugin'.visibility, status |-> plugin'.status,
                    repository |-> plugin'.repository]
  BY DEF PluginRow
<1>6. PluginRow' \in held'[r].plugin
  BY <1>3, <1>4, <1>5, Zenon
<1>7. Supplied(c) => /\ person'[User(c)].active \in held'[r].active
                     /\ person'[User(c)].admin \in held'[r].admin
                     /\ person'[User(c)].role \in held'[r].role
  BY <1>3, <1>4, Zenon
<1>8. c.kind = "pat" =>
        ((~token'[c.id].revoked /\ token'[c.id].expires > now')
           /\ person'[User(c)].active) \in held'[r].live
  BY <1>3, <1>4, Zenon
<1> QED BY <1>6, <1>7, <1>8, Zenon DEF Remembered, Live

-----------------------------------------------------------------------------
(***************************************************************************)
(* A step keeps the invariant: the requests turn, the world stays typed,   *)
(* times do not go back, and what is true next is remembered.              *)
(***************************************************************************)
WorldKept ==
  /\ WorldTyped'
  /\ changes' \in 0..MaxChanges
  /\ now <= now'
  /\ \A t \in Tokens : token[t].used <= token'[t].used

\* What r is after a step of its own, or of another.
RequestKept(r) ==
  /\ request'[r] \in RequestStates
  /\ Sound(request'[r], held[r]) /\ Timed(request'[r], held[r])
  /\ request'[r].pc \in Steps => request[r].pc # "answered"

LEMMA TurnedKept ==
  ASSUME AccessInv, NEW r \in Requests, Turned(r), request[r].pc # "answered"
  PROVE  /\ request' \in [Requests -> RequestStates]
         /\ \A s \in Requests : RequestKept(s)
<1>1. PICK n \in RequestStates : Become(r, n) /\ Sound(n, held[r]) /\ Timed(n, held[r])
  BY Zenon DEF Turned
<1>2. request \in [Requests -> RequestStates]
  BY Zenon DEF AccessInv, AccessTyped
<1>3. request' = [request EXCEPT ![r] = n]
  BY <1>1, Zenon DEF Become
<1>4. request' \in [Requests -> RequestStates]
  BY <1>2, <1>3, Zenon
<1>5. request'[r] = n
  BY <1>2, <1>3, Zenon
<1>6. RequestKept(r)
  BY <1>1, <1>5, Zenon DEF RequestKept
<1>7. ASSUME NEW s \in Requests, s # r
      PROVE  RequestKept(s)
  <2>1. request'[s] = request[s]
    BY <1>2, <1>3, <1>7, Zenon
  <2>2. request[s] \in RequestStates /\ Sound(request[s], held[s]) /\ Timed(request[s], held[s])
    BY AtWork, Zenon
  <2>3. request[s].pc \in Steps => request[s].pc # "answered"
    BY DEF Steps
  <2> QED BY <2>1, <2>2, <2>3, Zenon DEF RequestKept
<1> QED BY <1>4, <1>6, <1>7, Zenon

LEMMA UnchangedKept ==
  ASSUME AccessInv, UNCHANGED request
  PROVE  /\ request' \in [Requests -> RequestStates]
         /\ \A s \in Requests : RequestKept(s)
<1>1. request' \in [Requests -> RequestStates]
  BY Zenon DEF AccessInv, AccessTyped
<1>2. ASSUME NEW s \in Requests
      PROVE  RequestKept(s)
  <2>1. request[s] \in RequestStates /\ Sound(request[s], held[s]) /\ Timed(request[s], held[s])
    BY AtWork, Zenon
  <2>2. request[s].pc \in Steps => request[s].pc # "answered"
    BY DEF Steps
  <2> QED BY <2>1, <2>2, Zenon DEF RequestKept
<1> QED BY <1>1, <1>2

LEMMA StepKeeps ==
  ASSUME AccessInv, WorldKept, Remember,
         request' \in [Requests -> RequestStates],
         \A s \in Requests : RequestKept(s)
  PROVE  AccessInv'
<1>1. ASSUME NEW s \in Requests
      PROVE  /\ CredentialFits(request'[s])
             /\ held'[s] \in Memories /\ Within(held[s], held'[s])
  <2>1. request'[s] \in RequestStates /\ Sound(request'[s], held[s])
    BY Zenon DEF RequestKept
  <2>2. CredentialFits(request'[s])
    BY <2>1, Zenon DEF CredentialFits, Sound, Placed
  <2>3. WorldTyped'
    BY DEF WorldKept
  <2> QED BY <2>1, <2>2, <2>3, HeldGrows
<1>2. held' \in [Requests -> Memories]
  <2>1. held' = [s \in Requests |-> held'[s]]
    BY Zenon DEF Remember
  <2> QED BY <1>1, <2>1, Zenon
<1>3. AccessTyped'
  BY <1>2, Zenon DEF AccessTyped, WorldKept
<1>4. ASSUME NEW s \in Requests
      PROVE  /\ Sound(request[s], held[s])'
             /\ Timed(request[s], held[s])'
             /\ Remembered(request[s], held[s])'
  <2>1. /\ Sound(request'[s], held[s]) /\ Timed(request'[s], held[s])
        /\ request'[s] \in RequestStates
        /\ request'[s].pc \in Steps => request[s].pc # "answered"
    BY Zenon DEF RequestKept
  <2>2. Sound(request'[s], held'[s])
    BY <1>1, <2>1, SoundGrows, Zenon
  <2>3. Timed(request[s], held[s])'
    <3>1. CASE request'[s].pc \in {"touch", "validate"}
      <4>1. /\ request'[s].usedAt \in Nat /\ request'[s].usedAt <= now
            /\ now \in Nat /\ now' \in Nat /\ now <= now'
        BY <2>1, <3>1, SMT DEF Timed, RequestStates, WorldKept, AccessInv, AccessTyped,
                               WorldTyped, CredentialFits
      <4>2. request'[s].usedAt <= now'
        BY <4>1, SMT
      <4>3. request'[s].pc = "validate" =>
              FALSE \in held'[s].live
                \/ request'[s].usedAt <= token'[request'[s].credential.id].used
        <5> SUFFICES ASSUME request'[s].pc = "validate", FALSE \notin held'[s].live
                     PROVE  request'[s].usedAt <= token'[request'[s].credential.id].used
          OBVIOUS
        <5>1. FALSE \notin held[s].live
          BY <1>1, Zenon DEF Within
        <5>2. request'[s].usedAt <= token[request'[s].credential.id].used
          BY <2>1, <5>1, Zenon DEF Timed
        <5>3. request'[s].credential.kind = "pat"
          <6>1. Placed(request'[s])
            BY <2>1, Zenon DEF Sound
          <6> QED BY <3>1, <6>1, Zenon DEF Placed
        <5>4. request'[s].credential.id \in Tokens
          BY <1>1, <5>3, Zenon DEF CredentialFits
        <5>5. /\ token[request'[s].credential.id].used <= token'[request'[s].credential.id].used
              /\ token[request'[s].credential.id].used \in Nat
              /\ token'[request'[s].credential.id].used \in Nat
          BY <5>4, SMT DEF WorldKept, AccessInv, AccessTyped, WorldTyped, TokenRows
        <5> QED BY <4>1, <5>2, <5>5, SMT
      <4> QED BY <4>2, <4>3, Zenon DEF Timed
    <3>2. CASE request'[s].pc \notin {"touch", "validate"}
      BY <3>2, Zenon DEF Timed
    <3> QED BY <3>1, <3>2
  <2>4. Remembered(request[s], held[s])'
    <3>1. CASE request'[s].pc \in Steps
      BY <2>1, <3>1, RememberedThen, Zenon
    <3>2. CASE request'[s].pc \notin Steps
      BY <3>2, Zenon DEF Remembered
    <3> QED BY <3>1, <3>2
  <2> QED BY <2>2, <2>3, <2>4
<1> QED BY <1>3, <1>4, Zenon DEF AccessInv

LEMMA HandleTurns ==
  ASSUME AccessInv, NEW r \in Requests, Handle(r)
  PROVE  Turned(r) /\ request[r].pc # "answered"
<1>1. Turned(r)
  BY ArriveTurns, AuthenticateTurns, DecodeTurns, FindPluginTurns, ResolveTurns, CheckRowTurns,
     FindTokenTurns, CheckPresetTurns, TouchTurns, ValidateTurns, ReadResourceTurns,
     ReadStatusTurns, ReadAdminTurns, ReadRoleTurns, ReadTeamTurns, ReadTeamAdminTurns,
     CheckTargetTurns, CheckPasswordTurns, ChooseTokenTurns, FindMarketplaceTurns,
     ExecuteTurns, RevokeTurns, Zenon DEF Handle
<1>2. request[r].pc \in {"idle", "step", "preset", "touch", "validate", "status", "admin",
                        "role", "teamAdmin"}
  BY Zenon DEF Handle, Arrive, Authenticate, Decode, FindPlugin, Resolve, CheckRow, FindToken,
     CheckPreset, Touch, Validate, ReadResource, ReadStatus, ReadAdmin, ReadRole, ReadTeam,
     ReadTeamAdmin, CheckTarget, CheckPassword, ChooseToken, FindMarketplace, Execute, Revoke, At
<1> QED BY <1>1, <1>2

LEMMA WorldStays ==
  ASSUME AccessInv, UNCHANGED <<person, plugin, token, now, changes>>
  PROVE  WorldKept
<1>1. WorldTyped /\ changes \in 0..MaxChanges
  BY Zenon DEF AccessInv, AccessTyped
<1>2. WorldTyped'
  BY <1>1, Zenon DEF WorldTyped
<1>3. now \in Nat /\ \A t \in Tokens : token[t].used \in Nat
  BY <1>1, SMT DEF WorldTyped, TokenRows
<1>4. now <= now' /\ \A t \in Tokens : token[t].used <= token'[t].used
  BY <1>3, SMT
<1>5. changes' \in 0..MaxChanges
  BY <1>1, Zenon
<1> QED BY <1>2, <1>4, <1>5, Zenon DEF WorldKept

\* A token that is used or revoked.
LEMMA TokenWritten ==
  ASSUME AccessInv, UNCHANGED <<person, plugin, now>>, changes' \in 0..MaxChanges,
         NEW t \in Tokens, NEW row \in TokenRows,
         token' = [token EXCEPT ![t] = row], row.used <= now, token[t].used <= row.used
  PROVE  WorldKept
<1>1. WorldTyped
  BY Zenon DEF AccessInv, AccessTyped
<1>2. token' \in [Tokens -> TokenRows] /\ token'[t] = row
      /\ \A s \in Tokens : s # t => token'[s] = token[s]
  BY <1>1, Zenon DEF WorldTyped
<1>3. now \in Nat /\ \A s \in Tokens : token[s].used \in Nat
  BY <1>1, SMT DEF WorldTyped, TokenRows
<1>4. \A s \in Tokens : token'[s].used <= now /\ token[s].used <= token'[s].used
  BY <1>1, <1>2, <1>3, SMT DEF WorldTyped
<1>5. WorldTyped'
  BY <1>1, <1>2, <1>4, Zenon DEF WorldTyped
<1>6. now <= now'
  BY <1>3, SMT
<1> QED BY <1>4, <1>5, <1>6, Zenon DEF WorldKept

LEMMA PluginWritten ==
  ASSUME AccessInv, UNCHANGED <<person, token, now>>, changes' \in 0..MaxChanges,
         plugin' \in PluginRows, plugin'.from # "none" <=> plugin'.status = "archived"
  PROVE  WorldKept
<1>1. WorldTyped
  BY Zenon DEF AccessInv, AccessTyped
<1>2. WorldTyped'
  BY <1>1, Zenon DEF WorldTyped
<1>3. now \in Nat /\ \A t \in Tokens : token[t].used \in Nat
  BY <1>1, SMT DEF WorldTyped, TokenRows
<1>4. now <= now' /\ \A t \in Tokens : token[t].used <= token'[t].used
  BY <1>3, SMT
<1> QED BY <1>2, <1>4, Zenon DEF WorldKept

LEMMA RevokedTyped ==
  ASSUME AccessInv, NEW t \in Tokens
  PROVE  /\ [token[t] EXCEPT !.revoked = TRUE] \in TokenRows
         /\ [token[t] EXCEPT !.revoked = TRUE].used = token[t].used
         /\ token[t].used \in Nat /\ token[t].used <= now
<1>1. token[t] \in TokenRows /\ token[t].used <= now
  BY Zenon DEF AccessInv, AccessTyped, WorldTyped
<1>2. [token[t] EXCEPT !.revoked = TRUE] \in TokenRows
  BY <1>1, ZenonT(60) DEF TokenRows
<1>3. [token[t] EXCEPT !.revoked = TRUE].used = token[t].used /\ token[t].used \in Nat
  BY <1>1, Zenon DEF TokenRows
<1> QED BY <1>1, <1>2, <1>3

LEMMA RevokeWorld ==
  ASSUME AccessInv, UNCHANGED <<person, plugin, now>>, changes' \in 0..MaxChanges,
         NEW t \in Tokens, token' = [token EXCEPT ![t].revoked = TRUE]
  PROVE  WorldKept
<1> DEFINE row == [token[t] EXCEPT !.revoked = TRUE]
<1>1. /\ row \in TokenRows /\ row.used = token[t].used
      /\ token[t].used \in Nat /\ token[t].used <= now
  BY RevokedTyped
<1>2. token' = [token EXCEPT ![t] = row]
  BY Zenon
<1> HIDE DEF row
<1>3. row.used <= now /\ token[t].used <= row.used
  BY <1>1, SMT
<1> QED BY <1>1, <1>2, <1>3, TokenWritten

LEMMA TouchWorld ==
  ASSUME AccessInv, NEW r \in Requests, Touch(r)
  PROVE  WorldKept
<1> DEFINE q == request[r]
           t == q.credential.id
           row == [token[t] EXCEPT !.used = q.usedAt]
<1>1. CASE UNCHANGED token
  BY <1>1, WorldStays, Zenon DEF Touch
<1>2. CASE token' # token
  <2>1. /\ q.pc = "touch" /\ token[t].used < q.usedAt
        /\ token' = [token EXCEPT ![t].used = q.usedAt]
        /\ UNCHANGED <<person, plugin, now, changes>>
    BY <1>2, Zenon DEF Touch
  <2>2. q \in RequestStates /\ Placed(q) /\ Timed(q, held[r])
    BY AtWork, Zenon DEF Sound
  <2>3. t \in Tokens
    BY <2>1, <2>2, Zenon DEF Placed
  <2>4. q.usedAt \in Nat /\ q.usedAt <= now
    BY <2>1, <2>2, Zenon DEF Timed, RequestStates
  <2>5. token[t] \in TokenRows /\ token[t].used \in Nat /\ changes \in 0..MaxChanges
    BY <2>3, Zenon DEF AccessInv, AccessTyped, WorldTyped, TokenRows
  <2>6. row \in TokenRows /\ row.used = q.usedAt
    BY <2>4, <2>5, SMT DEF TokenRows
  <2>7. token' = [token EXCEPT ![t] = row]
    BY <2>1, Zenon
  <2> HIDE DEF row
  <2>8. row.used <= now /\ token[t].used <= row.used
    BY <2>1, <2>4, <2>5, <2>6, SMT
  <2>9. changes' \in 0..MaxChanges
    BY <2>1, <2>5, Zenon
  <2> QED BY <2>1, <2>3, <2>6, <2>7, <2>8, <2>9, TokenWritten
<1> QED BY <1>1, <1>2

LEMMA HandleWorld ==
  ASSUME AccessInv, NEW r \in Requests, Handle(r)
  PROVE  WorldKept
<1>1. CASE Touch(r)
  BY <1>1, TouchWorld
<1>2. CASE Execute(r)
  <2>1. /\ plugin' \in PluginRows /\ (plugin'.from # "none" <=> plugin'.status = "archived")
    BY <1>2, ExecuteTurns
  <2>2. changes' \in 0..MaxChanges /\ UNCHANGED <<person, token, now>>
    BY <1>2, Zenon DEF Execute, AccessInv, AccessTyped
  <2> QED BY <2>1, <2>2, PluginWritten
<1>3. CASE Revoke(r)
  <2>1. PICK t \in request[r].chosen : token' = [token EXCEPT ![t].revoked = TRUE]
    BY <1>3, Zenon DEF Revoke
  <2>2. t \in Tokens
    <3>1. request[r] \in RequestStates
      BY AtWork
    <3>2. request[r].chosen \in SUBSET Tokens
      BY <3>1, Zenon DEF RequestStates
    <3> QED BY <3>2
  <2>3. changes' \in 0..MaxChanges /\ UNCHANGED <<person, plugin, now>>
    BY <1>3, Zenon DEF Revoke, AccessInv, AccessTyped
  <2> QED BY <2>1, <2>2, <2>3, RevokeWorld
<1>4. CASE ~Touch(r) /\ ~Execute(r) /\ ~Revoke(r)
  <2>1. UNCHANGED <<person, plugin, token, now, changes>>
    BY <1>4, Zenon DEF Handle, Arrive, Authenticate, Decode, FindPlugin, Resolve, CheckRow,
       FindToken, CheckPreset, Validate, ReadResource, ReadStatus, ReadAdmin, ReadRole, ReadTeam,
       ReadTeamAdmin, CheckTarget, CheckPassword, ChooseToken, FindMarketplace
  <2> QED BY <2>1, WorldStays
<1> QED BY <1>1, <1>2, <1>3, <1>4

LEMMA PersonChanged ==
  ASSUME NEW p \in Persons
  PROVE  /\ \A b \in BOOLEAN : [p EXCEPT !.active = b] \in Persons
         /\ \A b \in BOOLEAN : [p EXCEPT !.admin = b] \in Persons
         /\ \A role \in Roles \cup {"none"} : [p EXCEPT !.role = role] \in Persons
BY ZenonT(60) DEF Persons

LEMMA DisruptKept ==
  ASSUME AccessInv, Disrupt
  PROVE  WorldKept /\ UNCHANGED request
<1>1. /\ changes < MaxChanges /\ changes' = changes + 1 /\ now' = now /\ UNCHANGED request
      /\ ChangePerson \/ ChangePlugin \/ RevokeAny
  BY Zenon DEF Disrupt
<1>2. WorldTyped /\ changes \in 0..MaxChanges
  BY Zenon DEF AccessInv, AccessTyped
<1>3. changes' \in 0..MaxChanges
  BY <1>1, <1>2, AccessConstants, SMT
<1>4. now \in Nat /\ \A t \in Tokens : token[t].used \in Nat
  BY <1>2, SMT DEF WorldTyped, TokenRows
<1>5. CASE ChangePerson
  <2>1. UNCHANGED <<plugin, token>> /\ person \in [Users -> Persons]
    BY <1>2, <1>5, Zenon DEF ChangePerson, WorldTyped
  <2>2. PICK u \in Users :
          \/ person' = [person EXCEPT ![u].active = ~@]
          \/ person' = [person EXCEPT ![u].admin = ~@]
          \/ \E role \in MemberRoles \ {person[u].role} :
               person' = [person EXCEPT ![u].role = role]
    BY <1>5, Zenon DEF ChangePerson
  <2>3. person[u] \in Persons
    BY <2>1
  <2>4. ASSUME person' = [person EXCEPT ![u].active = ~@]
        PROVE  person' \in [Users -> Persons]
    <3>1. (~person[u].active) \in BOOLEAN
      OBVIOUS
    <3>2. [person[u] EXCEPT !.active = ~person[u].active] \in Persons
      BY <2>3, <3>1, PersonChanged, Zenon
    <3> QED BY <2>1, <2>4, <3>2, Zenon
  <2>5. ASSUME person' = [person EXCEPT ![u].admin = ~@]
        PROVE  person' \in [Users -> Persons]
    <3>1. (~person[u].admin) \in BOOLEAN
      OBVIOUS
    <3>2. [person[u] EXCEPT !.admin = ~person[u].admin] \in Persons
      BY <2>3, <3>1, PersonChanged, Zenon
    <3> QED BY <2>1, <2>5, <3>2, Zenon
  <2>6. ASSUME NEW role \in MemberRoles \ {person[u].role},
               person' = [person EXCEPT ![u].role = role]
        PROVE  person' \in [Users -> Persons]
    <3>1. role \in Roles \cup {"none"}
      BY AccessConstants
    <3>2. [person[u] EXCEPT !.role = role] \in Persons
      BY <2>3, <3>1, PersonChanged, Zenon
    <3> QED BY <2>1, <2>6, <3>2, Zenon
  <2>7. person' \in [Users -> Persons]
    BY <2>2, <2>4, <2>5, <2>6
  <2>8. WorldTyped'
    BY <1>1, <1>2, <2>1, <2>7, Zenon DEF WorldTyped
  <2>9. now <= now' /\ \A t \in Tokens : token[t].used <= token'[t].used
    BY <1>1, <1>4, <2>1, SMT
  <2> QED BY <1>1, <1>3, <2>8, <2>9 DEF WorldKept
<1>6. CASE ChangePlugin
  <2>1. UNCHANGED <<person, token, now>>
    BY <1>1, <1>6, Zenon DEF ChangePlugin
  <2>2. PICK effect \in {"archive", "restore", "setVisibility", "publish"} :
          \E o \in Outcomes(effect) : plugin' = o.row
    BY <1>6, Zenon DEF ChangePlugin
  <2>3. PICK o \in Outcomes(effect) : plugin' = o.row
    BY <2>2
  <2>4. effect \in {"archive", "restore", "setVisibility", "publish", "default"}
    OBVIOUS
  <2>5. plugin' \in PluginRows /\ (plugin'.from # "none" <=> plugin'.status = "archived")
    BY <1>2, <2>3, <2>4, OutcomesTyped
  <2> QED BY <1>1, <1>3, <2>1, <2>5, PluginWritten
<1>7. CASE RevokeAny
  <2>1. UNCHANGED <<person, plugin, now>>
    BY <1>1, <1>7, Zenon DEF RevokeAny
  <2>2. PICK t \in Tokens : token' = [token EXCEPT ![t].revoked = TRUE]
    BY <1>7, Zenon DEF RevokeAny
  <2> QED BY <1>1, <1>3, <2>1, <2>2, RevokeWorld
<1> QED BY <1>1, <1>5, <1>6, <1>7

LEMMA TickKept ==
  ASSUME AccessInv, Tick
  PROVE  WorldKept /\ UNCHANGED request
<1>1. now < MaxTime /\ now' = now + 1 /\ UNCHANGED <<person, plugin, token, changes, request>>
  BY Zenon DEF Tick
<1>2. WorldTyped /\ changes \in 0..MaxChanges
  BY Zenon DEF AccessInv, AccessTyped
<1>3. now \in 1..MaxTime /\ \A t \in Tokens : token[t].used \in Nat /\ token[t].used <= now
  BY <1>2, SMT DEF WorldTyped, TokenRows
<1>4. /\ now' \in 1..MaxTime /\ now <= now'
      /\ \A t \in Tokens : token'[t].used <= now' /\ token[t].used <= token'[t].used
  BY <1>1, <1>3, AccessConstants, SMT
<1>5. WorldTyped'
  BY <1>1, <1>2, <1>4, Zenon DEF WorldTyped
<1>6. changes' \in 0..MaxChanges
  BY <1>1, <1>2, Zenon
<1> QED BY <1>1, <1>4, <1>5, <1>6, Zenon DEF WorldKept

LEMMA StutterKeeps ==
  ASSUME AccessInv, UNCHANGED vars
  PROVE  AccessInv'
<1>1. /\ person' = person /\ plugin' = plugin /\ token' = token /\ now' = now
      /\ changes' = changes /\ request' = request /\ held' = held
  BY DEF vars
<1>2. AccessTyped'
  BY <1>1, Zenon DEF AccessInv, AccessTyped, WorldTyped
<1>3. ASSUME NEW r \in Requests
      PROVE  /\ Sound(request[r], held[r])'
             /\ Timed(request[r], held[r])'
             /\ Remembered(request[r], held[r])'
  <2>1. /\ Sound(request[r], held[r]) /\ Timed(request[r], held[r])
        /\ Remembered(request[r], held[r])
    BY AtWork
  <2>2. Sound(request'[r], held'[r])
    BY <1>1, <2>1, Zenon
  <2>3. Timed(request[r], held[r])'
    BY <1>1, <2>1, Zenon DEF Timed
  <2>4. Remembered(request[r], held[r])'
    BY <1>1, <2>1, Zenon DEF Remembered, PluginRow, Live
  <2> QED BY <2>2, <2>3, <2>4
<1> QED BY <1>2, <1>3, Zenon DEF AccessInv

LEMMA NextKeeps ==
  ASSUME AccessInv, [Next]_vars
  PROVE  AccessInv'
<1>1. ASSUME NEW r \in Requests, Handle(r), Remember
      PROVE  AccessInv'
  <2>1. Turned(r) /\ request[r].pc # "answered"
    BY <1>1, HandleTurns
  <2>2. WorldKept
    BY <1>1, HandleWorld
  <2>3. /\ request' \in [Requests -> RequestStates]
        /\ \A s \in Requests : RequestKept(s)
    BY <2>1, TurnedKept
  <2> QED BY <1>1, <2>2, <2>3, StepKeeps
<1>2. CASE Disrupt /\ Remember
  BY <1>2, DisruptKept, UnchangedKept, StepKeeps
<1>3. CASE Tick /\ Remember
  BY <1>3, TickKept, UnchangedKept, StepKeeps
<1>4. CASE UNCHANGED vars
  BY <1>4, StutterKeeps
<1> QED BY <1>1, <1>2, <1>3, <1>4, Zenon DEF Next

-----------------------------------------------------------------------------
(***************************************************************************)
(* The initial states.                                                     *)
(***************************************************************************)
LEMMA IdleTyped ==
  ASSUME NEW route \in DOMAIN Routes \cup {"none"}
  PROVE  /\ Idle(route) \in RequestStates
         /\ Idle(route).pc = "idle"
         /\ Idle(route).answer = "none"
         /\ Idle(route).listed = FALSE
         /\ Idle(route).principal = Anonymous
         /\ Idle(route).credential = NoCredential
<1>1. /\ "idle" \in Steps \cup {"idle", "answered"} /\ "none" \in Answers
      /\ "none" \in {"none", "pat", "jwt"} /\ {} \in SUBSET Tokens /\ 0 \in Nat
  BY SMT DEF Answers
<1>2. NoCredential \in CredentialStates
  BY <1>1, Zenon DEF NoCredential, CredentialStates
<1>3. Unread \in Facts /\ Unread.plugin \in PluginFacts
  BY UnreadTyped
<1>4. Anonymous \in Principals
  BY AnonymousTyped
<1>5. Idle(route) \in RequestStates
  BY <1>1, <1>2, <1>3, <1>4, ZenonT(60) DEF RequestStates, Idle
<1> QED BY <1>5 DEF Idle

LEMMA IdleSound ==
  ASSUME NEW n \in RequestStates, n.pc = "idle", n.answer = "none", n.listed = FALSE,
         n.principal = Anonymous, n.credential = NoCredential, NEW h
  PROVE  Sound(n, h)
<1>1. n.pc \notin Steps /\ n.pc # "answered" /\ n.answer # "done"
  BY DEF Steps
<1>2. n.principal.kind # "user" /\ ~Supplied(n.credential)
  BY AnonymousTyped DEF NoCredential, Supplied
<1>3. n.credential.kind # "pat" /\ n.credential.kind # "jwt"
  BY DEF NoCredential
<1>4. n.pc \notin {"preset", "touch", "validate"} /\ n.pc \notin {"status", "admin", "role"}
      /\ n.pc # "teamAdmin"
  OBVIOUS
<1>5. Placed(n)
  BY <1>1, <1>2, <1>3, <1>4, Zenon DEF Placed
<1>6. Known(n, h) /\ Read(n, h) /\ Passed(n, h)
  BY <1>1, <1>2, <1>4, Zenon DEF Known, Read, Passed
<1>7. DoneRight(n, h) /\ HiddenRight(n, h) /\ LiveRight(n, h)
  BY <1>1, <1>3, SMT DEF DoneRight, HiddenRight, LiveRight
<1> QED BY <1>5, <1>6, <1>7 DEF Sound

LEMMA InitWorld ==
  ASSUME Init
  PROVE  WorldTyped /\ changes \in 0..MaxChanges
<1>1. person \in [Users -> Persons]
  <2>1. [active : BOOLEAN, admin : BOOLEAN, role : MemberRoles] \subseteq Persons
    BY AccessConstants, Zenon DEF Persons
  <2> QED BY <2>1, Zenon DEF Init
<1>2. plugin \in PluginRows /\ (plugin.from # "none" <=> plugin.status = "archived")
  BY SMT DEF Init, PluginRows
<1>3. /\ token \in [Tokens -> TokenRows] /\ \A t \in Tokens : token[t].used = 0
  <2> DEFINE times == IF \E r \in Requests : request[r].route \in TokenTaking
                      THEN {2, MaxTime + 1} ELSE {MaxTime + 1}
             first == [expires : times, revoked : {FALSE}, used : {0}]
  <2>1. times \subseteq Nat
    BY AccessConstants, SMT
  <2>2. token \in [Tokens -> first]
    BY Zenon DEF Init
  <2> HIDE DEF times
  <2>3. ASSUME NEW row \in first
        PROVE  row \in TokenRows /\ row.used = 0
    <3>1. /\ row = [expires |-> row.expires, revoked |-> row.revoked, used |-> row.used]
          /\ row.expires \in Nat /\ row.revoked = FALSE /\ row.used = 0
      BY <2>1, Zenon
    <3>2. row.revoked \in BOOLEAN
      BY <3>1, Zenon
    <3>3. row.used \in Nat
      BY <3>1, SMT
    <3> QED BY <3>1, <3>2, <3>3, Zenon DEF TokenRows
  <2> HIDE DEF first
  <2>4. \A t \in Tokens : token[t] \in first
    BY <2>2
  <2>5. token \in [Tokens -> TokenRows]
    BY <2>2, <2>3, Zenon
  <2> QED BY <2>3, <2>4, <2>5
<1>4. now \in 1..MaxTime /\ changes \in 0..MaxChanges /\ 0 <= now
  BY AccessConstants, SMT DEF Init
<1> QED BY <1>1, <1>2, <1>3, <1>4 DEF WorldTyped

LEMMA InitInv ==
  ASSUME Init
  PROVE  AccessInv
<1>1. PICK mix \in Mixes : request = [r \in Requests |-> Idle(mix[r])]
  BY Zenon DEF Init
<1>2. mix \in [Requests -> DOMAIN Routes \cup {"none"}]
  BY AccessConstants
<1>3. ASSUME NEW r \in Requests
      PROVE  /\ request[r] \in RequestStates
             /\ Sound(request[r], held[r]) /\ request[r].pc = "idle"
  <2> DEFINE route == mix[r]
  <2>1. request[r] = Idle(route) /\ route \in DOMAIN Routes \cup {"none"}
    BY <1>1, <1>2, Zenon
  <2> HIDE DEF route
  <2>2. /\ request[r] \in RequestStates /\ request[r].pc = "idle"
        /\ request[r].answer = "none" /\ request[r].listed = FALSE
        /\ request[r].principal = Anonymous /\ request[r].credential = NoCredential
    <3>1. /\ Idle(route) \in RequestStates /\ Idle(route).pc = "idle"
          /\ Idle(route).answer = "none" /\ Idle(route).listed = FALSE
          /\ Idle(route).principal = Anonymous /\ Idle(route).credential = NoCredential
      BY <2>1, IdleTyped, Zenon
    <3> QED BY <2>1, <3>1, Zenon
  <2>3. Sound(request[r], held[r])
    BY <2>2, IdleSound
  <2> QED BY <2>2, <2>3
<1>4. request \in [Requests -> RequestStates]
  <2>1. request = [r \in Requests |-> request[r]]
    BY <1>1, Zenon
  <2> QED BY <1>3, <2>1, Zenon
<1>5. held \in [Requests -> Memories]
  <2>1. Nothing \in Memories
    <3>1. {} \in SUBSET BOOLEAN /\ {} \in SUBSET (Roles \cup {"none"})
          /\ {} \in SUBSET PluginFacts
      OBVIOUS
    <3> QED BY <3>1, MemoryTyped, Zenon DEF Nothing
  <2>2. held = [r \in Requests |-> Nothing]
    BY Zenon DEF Init
  <2> QED BY <2>1, <2>2, Zenon
<1>6. ASSUME NEW r \in Requests
      PROVE  Timed(request[r], held[r]) /\ Remembered(request[r], held[r])
  <2>1. /\ request[r].pc \notin Steps /\ request[r].pc # "validate"
        /\ request[r].pc \notin {"touch", "validate"}
    BY <1>3 DEF Steps
  <2> QED BY <2>1, Zenon DEF Timed, Remembered
<1> QED BY <1>3, <1>4, <1>5, <1>6, InitWorld, Zenon DEF AccessInv, AccessTyped

-----------------------------------------------------------------------------
(***************************************************************************)
(* Theorems.                                                               *)
(***************************************************************************)

\* Whatever requests overlap, and whatever changes between the queries of one: where
\* it is, what it has read and what it has answered is borne out by what was true
\* since it arrived.
THEOREM AccessInvariance == Spec => []AccessInv
<1>1. Init => AccessInv
  BY InitInv
<1>2. AccessInv /\ [Next]_vars => AccessInv'
  BY NextKeeps
<1> QED BY <1>1, <1>2, PTL DEF Spec

\* Every question behind an answer of success was granted by facts that were true at
\* some moment since the request arrived (authorizer.go, identity_state_reader.go and
\* the handlers in front of them).
THEOREM DoneCorrect == Spec => []DoneWasAllowed
<1>1. AccessInv => DoneWasAllowed
  <2> SUFFICES ASSUME AccessInv, NEW r \in Requests
               PROVE  request[r].answer = "done" =>
                        \A i \in Asked(request[r]) :
                          WasAllowed(request[r].credential, held[r],
                                     Routes[request[r].route][i].action)
    BY Zenon DEF DoneWasAllowed
  <2>1. DoneRight(request[r], held[r])
    BY AtWork, Zenon DEF Sound
  <2> QED BY <2>1, Zenon DEF DoneRight
<1> QED BY <1>1, AccessInvariance, PTL

\* On the routes of management for an exact Plugin, nobody is told of a Plugin that
\* he could not read at any moment since he asked (authorizeMutation, notFound).
THEOREM HiddenCorrect == Spec => []Hidden
<1>1. AccessInv => Hidden
  <2> SUFFICES ASSUME AccessInv, NEW r \in Requests
               PROVE  /\ request[r].route \in ExactRoutes
                      /\ request[r].answer \in {"done", "forbidden", "conflict", "unavailable"}
                      => CouldRead(request[r].credential, held[r])
    BY Zenon DEF Hidden
  <2>1. HiddenRight(request[r], held[r])
    BY AtWork, Zenon DEF Sound
  <2> QED BY <2>1, Zenon DEF HiddenRight
<1> QED BY <1>1, AccessInvariance, PTL

\* A token that was live all the time and has the widest preset is not refused, in
\* whatever order the requests that use it read the clock and write the time of use
\* (touchTokenUpdate, validateTouchedToken).
THEOREM LiveTokenCorrect == Spec => []LiveTokenAccepted
<1>1. AccessInv => LiveTokenAccepted
  <2> SUFFICES ASSUME AccessInv, NEW r \in Requests
               PROVE  /\ request[r].answer = "unauthenticated"
                      /\ request[r].credential.kind = "pat"
                      /\ Preset[request[r].credential.id] = "git-write"
                      => FALSE \in held[r].live
    BY Zenon DEF LiveTokenAccepted
  <2>1. LiveRight(request[r], held[r])
    BY AtWork, Zenon DEF Sound
  <2> QED BY <2>1, Zenon DEF LiveRight
<1> QED BY <1>1, AccessInvariance, PTL

\* Every request is at a step of its route or has a documented answer, and no token
\* was used in the future.
THEOREM TypeCorrect == Spec => []TypeOK
<1>1. AccessInv => TypeOK
  <2> SUFFICES ASSUME AccessInv
               PROVE  TypeOK
    OBVIOUS
  <2>1. person \in [Users -> Persons] /\ now \in 1..MaxTime /\ changes \in 0..MaxChanges
    BY Zenon DEF AccessInv, AccessTyped, WorldTyped
  <2>2. PluginRow \in PluginFacts
    BY RowTyped, Zenon DEF AccessInv, AccessTyped
  <2>3. \A t \in Tokens : token[t].used \in 0..now
    BY <2>1, SMT DEF AccessInv, AccessTyped, WorldTyped, TokenRows
  <2>4. ASSUME NEW r \in Requests
        PROVE  /\ request[r].pc \in Steps \cup {"idle", "answered"}
               /\ request[r].answer \in Answers
               /\ request[r].answer # "none" <=> request[r].pc = "answered"
               /\ request[r].pc \in Steps => request[r].at \in DOMAIN Routes[request[r].route]
    <3>1. request[r] \in RequestStates /\ Placed(request[r])
      BY AtWork, Zenon DEF Sound
    <3>2. request[r].pc \in Steps \cup {"idle", "answered"} /\ request[r].answer \in Answers
      BY <3>1, Zenon DEF RequestStates
    <3> QED BY <3>1, <3>2, Zenon DEF Placed
  <2> QED BY <2>1, <2>2, <2>3, <2>4 DEF TypeOK
<1> QED BY <1>1, AccessInvariance, PTL

\* The time of the last use is written only by a touch that found the token live and
\* used before (touchTokenUpdate's WHERE).
THEOREM LastUseCorrect == Spec => LastUseMovesForward
<1> DEFINE Forward == \A t \in Tokens : token'[t].used # token[t].used =>
                        token'[t].used > token[t].used /\ ~token[t].revoked
<1>1. AccessInv /\ [Next]_vars => [Forward]_vars
  <2> SUFFICES ASSUME AccessInv, Next
               PROVE  Forward
    BY DEF vars
  <2> SUFFICES ASSUME NEW t \in Tokens, token'[t].used # token[t].used
               PROVE  token'[t].used > token[t].used /\ ~token[t].revoked
    OBVIOUS
  <2>1. token \in [Tokens -> TokenRows] /\ request \in [Requests -> RequestStates]
    BY Zenon DEF AccessInv, AccessTyped, WorldTyped
  <2>2. ASSUME NEW s \in Tokens, token' = [token EXCEPT ![s].revoked = TRUE]
        PROVE  token'[t].used = token[t].used
    BY <2>1, <2>2, SMT DEF TokenRows
  <2>3. PICK r \in Requests : Touch(r) /\ token' # token
    <3>1. ~RevokeAny /\ \A r \in Requests : ~Revoke(r)
      <4>1. ~RevokeAny
        BY <2>2, Zenon DEF RevokeAny
      <4>2. ASSUME NEW r \in Requests, Revoke(r)
            PROVE  FALSE
        <5>1. PICK s \in request[r].chosen : token' = [token EXCEPT ![s].revoked = TRUE]
          BY <4>2, Zenon DEF Revoke
        <5>2. request[r] \in RequestStates
          BY <2>1
        <5>3. request[r].chosen \in SUBSET Tokens
          BY <5>2, Zenon DEF RequestStates
        <5> QED BY <2>2, <5>1, <5>3
      <4> QED BY <4>1, <4>2
    <3>2. token' # token
      OBVIOUS
    <3>3. ~Tick /\ ~Disrupt
      BY <3>1, <3>2, Zenon DEF Tick, Disrupt, ChangePerson, ChangePlugin
    <3>4. PICK r \in Requests : Handle(r)
      BY <3>3, Zenon DEF Next
    <3>5. Touch(r)
      BY <3>1, <3>2, <3>4, Zenon DEF Handle, Arrive, Authenticate, Decode, FindPlugin, Resolve,
         CheckRow, FindToken, CheckPreset, Validate, ReadResource, ReadStatus, ReadAdmin,
         ReadRole, ReadTeam, ReadTeamAdmin, CheckTarget, CheckPassword, ChooseToken,
         FindMarketplace, Execute
    <3> QED BY <3>2, <3>5
  <2> DEFINE q == request[r]
             s == q.credential.id
  <2>4. /\ ~token[s].revoked /\ token[s].used < q.usedAt
        /\ token' = [token EXCEPT ![s].used = q.usedAt]
    BY <2>3, Zenon DEF Touch, Live
  <2>5. s = t
    BY <2>1, <2>4
  <2>6. token'[t].used = q.usedAt
    BY <2>1, <2>4, <2>5, SMT DEF TokenRows
  <2> QED BY <2>4, <2>5, <2>6
<1> QED BY <1>1, AccessInvariance, PTL DEF Spec, LastUseMovesForward
=============================================================================
