------------------------------ MODULE UserTable ------------------------------
(***************************************************************************)
(* The relational state of the service: the users and user_roles tables of *)
(* PostgreSQL, at the granularity of one SQL statement.  Every operator    *)
(* below is what one query of users/repository/postgres.go reads or        *)
(* writes; the services that issue the queries are modelled in AuthService *)
(* and UsersService.                                                       *)
(***************************************************************************)
EXTENDS StoreCalls, Naturals, FiniteSets

CONSTANTS
    Procs,          \* goroutines serving a request, at most one each
    Users,          \* primary keys of the users table
    Emails,         \* values of the email column
    Roles,          \* rows of the roles table
    Permissions,    \* rows of the permissions table
    RolePerms       \* the role_permissions table

ASSUME RolePermsAssumption == RolePerms \in [Roles -> SUBSET Permissions]
ASSUME EmailsAssumption    == Emails # {}

VARIABLES
    users,          \* [Users -> Row], the users table
    userRoles       \* [Users -> SUBSET Roles], the user_roles table

tableVars == <<users, userRoles>>

-----------------------------------------------------------------------------
(* Rows.  "deleted" is a row with deleted_at set; it stays in the table.   *)
(* The password column is left out: a stored hash is only ever compared    *)
(* with what the caller typed, an unconstrained boolean in Login.          *)

Row == [st : {"absent", "live", "deleted"}, email : Emails,
        active : BOOLEAN, ver : Nat]

Live(u) == users[u].st = "live"

(* GetByEmail: the unique index on email makes this at most a singleton.   *)
GetByEmail(e) == {u \in Users : Live(u) /\ users[u].email = e}

(* GetPermissions joins user_roles with role_permissions.                  *)
PermsOf(rs) == UNION {RolePerms[r] : r \in rs}

(* Mutant: a partial index that leaves inactive users out.                 *)
EmailTakenByActive(e, except) ==
    \E u \in Users \ {except} : Live(u) /\ users[u].active /\ users[u].email = e

(* The unique index covers deleted rows too: deleted_at is not part of it. *)
EmailTaken(e, except) ==
    \E u \in Users \ {except} : users[u].st # "absent" /\ users[u].email = e

(* Mutant: the expression of the UPDATE subtracts.                         *)
DecrementTokenVersion(u) ==
    users' = IF Live(u) THEN [users EXCEPT ![u].ver = @ - 1] ELSE users

(* UPDATE users SET token_version = token_version + 1 WHERE id = u AND     *)
(* deleted_at IS NULL: no row, no effect.                                  *)
IncrementTokenVersion(u) ==
    users' = IF Live(u) THEN [users EXCEPT ![u].ver = @ + 1] ELSE users

-----------------------------------------------------------------------------
TableTypeOK ==
    /\ users \in [Users -> Row]
    /\ userRoles \in [Users -> SUBSET Roles]

(* Rows created by the seeder or by CreateUser: token_version 0, distinct  *)
(* emails, nothing deleted yet.                                            *)
NoRow == [st |-> "absent", email |-> CHOOSE e \in Emails : TRUE,
          active |-> FALSE, ver |-> 0]

TableInit ==
    /\ users \in [Users -> {NoRow} \cup [st : {"live"}, email : Emails,
                                         active : BOOLEAN, ver : {0}]]
    /\ \A u, w \in Users :
         Live(u) /\ Live(w) /\ users[u].email = users[w].email => u = w
    /\ userRoles \in [Users -> SUBSET Roles]
    /\ \A u \in Users : ~Live(u) => userRoles[u] = {}
=============================================================================
