\* The smallest instance that shows a stale fill.
CONSTANTS
    w1 = w1
    Users = {u1}
    Emails = {e1}
    Roles = {r1}
    Permissions = {w1}
    RolePerms <- MCRolePerms
    Faults = {}
    Procs = {p1, p2}
    Tokens = {t1, t2}
    NoRecord = NoRecord
    NoSession = NoSession
    NoToken = NoToken
    NoUser = NoUser
    MaxVersion = 1
SPECIFICATION Spec
INVARIANTS
    LogoutClearsSession
