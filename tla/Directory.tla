------------------------------ MODULE Directory ------------------------------
(***************************************************************************)
(* What the user administration promises, one change at a time: a user is  *)
(* registered once, under an email nobody has or had before being removed, *)
(* is given a role at most once, by the one who registered him, changes    *)
(* only while he is not removed, and stays removed.                        *)
(***************************************************************************)
CONSTANTS Users, Emails, Roles

VARIABLES
    entry,          \* [Users -> [st, email, active]]
    roles           \* [Users -> SUBSET Roles]

directoryVars == <<entry, roles>>

Known(u) == entry[u].st # "absent"

(* The email of a removed user stays taken.                                *)
Usable(e, u) == \A w \in Users \ {u} : Known(w) => entry[w].email # e

DirectoryInit ==
    /\ \A u \in Users : entry[u].st # "deleted"
    /\ \A u \in Users : Known(u) => Usable(entry[u].email, u)
    /\ \A u \in Users : ~Known(u) => roles[u] = {}

Register(u, e) ==
    /\ ~Known(u) /\ Usable(e, u)
    /\ entry' = [entry EXCEPT ![u] = [st |-> "live", email |-> e, active |-> TRUE]]
    /\ UNCHANGED roles

Grant(u, r) ==
    /\ Known(u) /\ roles[u] = {}
    /\ roles' = [roles EXCEPT ![u] = {r}]
    /\ UNCHANGED entry

Change(u, e, b) ==
    /\ entry[u].st = "live" /\ Usable(e, u)
    /\ entry' = [entry EXCEPT ![u] = [st |-> "live", email |-> e, active |-> b]]
    /\ UNCHANGED roles

Remove(u) ==
    /\ entry[u].st = "live"
    /\ entry' = [entry EXCEPT ![u].st = "deleted"]
    /\ UNCHANGED roles

DirectoryNext ==
    \E u \in Users :
       \/ \E e \in Emails : Register(u, e) \/ \E b \in BOOLEAN : Change(u, e, b)
       \/ \E r \in Roles : Grant(u, r)
       \/ Remove(u)

DirectorySpec == DirectoryInit /\ [][DirectoryNext]_directoryVars
=============================================================================
