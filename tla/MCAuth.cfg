\* One user, two requests at a time, three refresh tokens, up to three
\* logouts; the stores work.
CONSTANTS
    w1 = w1
    Users = {u1}
    Emails = {e1}
    Roles = {r1}
    Permissions = {w1}
    RolePerms <- MCRolePerms
    Faults = {}
    Procs = {p1, p2}
    Tokens = {t1, t2, t3}
    NoRecord = NoRecord
    NoSession = NoSession
    NoToken = NoToken
    NoUser = NoUser
    MaxVersion = 3
SPECIFICATION Spec
SYMMETRY Symmetry
INVARIANTS
    TypeOK
    NoFutureVersions
    SuccessLeavesEffect
PROPERTIES
    RetiredForGood
    NoResurrection
