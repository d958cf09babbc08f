----------------------------- MODULE MCAccounts -----------------------------
(* Instances of Accounts for TLC: an administrator u1 who can do           *)
(* everything, and the other rows of the table free or taken.              *)
EXTENDS Accounts, TLC

CONSTANTS u1, e1, admin, t1

MCRolePerms == (admin :> {UsersWrite, UsersDelete})
WriterPerms == (admin :> {UsersWrite})

MCInit ==
    /\ AccountsInit
    /\ users[u1] = [st |-> "live", email |-> e1, active |-> TRUE, ver |-> 0]
    /\ userRoles[u1] = {admin}
    /\ \A u \in Users \ {u1} : users[u] = NoRow

MCSpec     == MCInit /\ [][AccountsNext]_accountVars
MCFairSpec == MCSpec /\ AccountsFairness

(* After a login of u1 whose refresh record has expired: the administrator *)
(* holds an access token and one refresh token is left to hand out.        *)
LoggedInInit ==
    /\ TableInit /\ UsersInit
    /\ users[u1] = [st |-> "live", email |-> e1, active |-> TRUE, ver |-> 0]
    /\ userRoles[u1] = {admin}
    /\ \A u \in Users \ {u1} : users[u] = NoRow
    /\ sessions = [u \in Users |-> NoSession]
    /\ refresh  = [t \in Tokens |-> NoRecord]
    /\ issued   = {t1}
    /\ access   = {[uid |-> u1, ver |-> 0]}
    /\ req      = [p \in Procs |-> Idle]

LoggedInSpec == LoggedInInit /\ [][AccountsNext]_accountVars

Symmetry == Permutations(Procs)
=============================================================================
