\* One user, one logout and one update of his row.
CONSTANTS
    u1 = u1
    e1 = e1
    admin = admin
    t1 = t1
    Users = {u1}
    Emails = {e1}
    Roles = {admin}
    Permissions = {usersWrite, usersDelete}
    UsersWrite = usersWrite
    UsersDelete = usersDelete
    RolePerms <- MCRolePerms
    Faults = {}
    Procs = {p1, p2}
    Tokens = {t1, t2}
    Keep = Keep
    NoRole = NoRole
    NoTarget = NoTarget
    NoRecord = NoRecord
    NoSession = NoSession
    NoToken = NoToken
    NoUser = NoUser
    MaxVersion = 1
SPECIFICATION MCSpec
INVARIANTS
    LogoutIncrements
