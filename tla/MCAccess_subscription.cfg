\* The user with a personal Namespace fetches the index of his own Marketplace.
CONSTANTS
  u1 = u1  t1 = t1  r1 = r1  r2 = r2
  NoUser = NoUser
  Users = {u1}
  Tokens = {t1}
  Requests = {r1, r2}
  Owner = u1
  MaxChanges = 2
  MaxBeside = 1
  MaxTime = 2
  MemberRoles = {"none", "developer", "maintainer"}
  Routes <- HandlerRoutes
  ExactRoutes <- ExactHandlers
  TokenTaking <- TokenHandlers
  TokenUser <- MCTokenUser
  Preset <- MCPreset
  Mixes <- Subscriptions
SPECIFICATION Spec
INVARIANTS OwnIndexServed
CHECK_DEADLOCK FALSE
