\* One user, two requests, two refresh tokens, one logout; any store call may
\* fail.  No symmetry: the run checks liveness.
CONSTANTS
    w1 = w1
    Users = {u1}
    Emails = {e1}
    Roles = {}
    Permissions = {w1}
    RolePerms <- MCRolePerms
    Faults = {"postgres", "redis"}
    Procs = {p1, p2}
    Tokens = {t1, t2}
    NoRecord = NoRecord
    NoSession = NoSession
    NoToken = NoToken
    NoUser = NoUser
    MaxVersion = 1
SPECIFICATION MCFairSpec
INVARIANTS
    NoFutureVersions
PROPERTIES
    RetiredForGood
    NoResurrection
    LogoutTakesEffect
