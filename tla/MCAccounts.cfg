\* An administrator with users:write, one row free for a new user, and a
\* database whose statements may fail before or after they took effect.
CONSTANTS
    u1 = u1
    e1 = e1
    admin = admin
    t1 = t1
    Users = {u1, u2}
    Emails = {e1, e2}
    Roles = {admin}
    Permissions = {usersWrite, usersDelete}
    UsersWrite = usersWrite
    UsersDelete = usersDelete
    RolePerms <- WriterPerms
    Faults = {"postgres"}
    Procs = {p1, p2}
    Tokens = {t1, t2}
    Keep = Keep
    NoRole = NoRole
    NoTarget = NoTarget
    NoRecord = NoRecord
    NoSession = NoSession
    NoToken = NoToken
    NoUser = NoUser
    MaxVersion = 0
SPECIFICATION LoggedInSpec
SYMMETRY Symmetry
INVARIANTS
    AccountsTypeOK
    SessionsCoherent
PROPERTY
    ImplementsDirectory
