SPECIFICATION Spec
CONSTANTS
    Users = {u1, u2}
    Roles = {"owner", "admin"}
    Invitations = {i1, i2}
    Requests = {r1, r2}
    NoUser = NoUser
    NoInvitation = NoInvitation
SYMMETRY Symmetry
CONSTRAINT OneInvitee
INVARIANTS
    AnAdministratorRemains
    AnOwnerRemains
    OneOpenInvitation
PROPERTIES
    AnswerIsFinal
    AcceptanceMakesMember
CHECK_DEADLOCK FALSE
