\* One user in a Team, its Plugin and one token: all routes beside a fetch or a
\* push, two changes by others and two clock readings.
CONSTANTS
  u1 = u1  t1 = t1  r1 = r1  r2 = r2
  NoUser = NoUser
  Users = {u1}
  Tokens = {t1}
  Requests = {r1, r2}
  Owner = NoUser
  MaxChanges = 2
  MaxBeside = 1
  MaxTime = 2
  MemberRoles = {"none", "developer", "maintainer"}
  Routes <- HandlerRoutes
  ExactRoutes <- ExactHandlers
  TokenTaking <- TokenHandlers
  TokenUser <- MCTokenUser
  Preset <- MCPreset
  Mixes <- MCMixes
SPECIFICATION Spec
INVARIANTS DoneWasAllowed Hidden LiveTokenAccepted
PROPERTIES LastUseMovesForward
CHECK_DEADLOCK FALSE
