------------------------------- MODULE Seeder -------------------------------
(***************************************************************************)
(* pkg/init/seeder.go, which every replica runs before it serves, over the *)
(* tables all replicas share.  Each statement is an action, none shares a  *)
(* transaction with another.  rep[r] is the replica's process: Startup     *)
(* has the steps before and after the seeder.                              *)
(***************************************************************************)
EXTENDS StoreCalls, Config, Sequences

CONSTANTS
    Replicas,
    Plan,           \* the permissions, roles and links, in the order seedAdmin
                    \* makes them
    Links,          \* those of them that are rows of role_permissions
    Ends,           \* [Links -> the role and the permission of a link]
    UserIds,        \* users that may come to have the configured email
    NoUser,
    MaxTrouble      \* bound: calls that fail and processes that crash

Items == {Plan[i] : i \in 1 .. Len(Plan)}

(* Every item once, and a role and a permission before their link.         *)
GoodPlan(plan, links, ends) ==
    /\ \A i, j \in 1 .. Len(plan) : plan[i] = plan[j] => i = j
    /\ \A i \in 1 .. Len(plan) : plan[i] \in links =>
         ends[plan[i]] \subseteq {plan[j] : j \in 1 .. i - 1}

ASSUME PlanAssumption == Plan \in Seq(Items) /\ GoodPlan(Plan, Links, Ends)
ASSUME MaxTroubleAssumption == MaxTrouble \in Nat

-----------------------------------------------------------------------------
(* The plan of seedAdmin itself.                                           *)
adminPermissions   == <<"users:read", "users:write", "users:delete",
                        "threats:read", "threats:write", "threats:delete">>
viewerPermissions  == <<"users:read">>
analystPermissions == <<"threats:read", "threats:write", "threats:delete">>

Row(role, perm) == [role |-> role, perm |-> perm]

(* A role, then its links: FirstOrCreate, linkRolePermissions.             *)
RoleWithLinks(role, perms) ==
    <<Row(role, "")>> \o [i \in 1 .. Len(perms) |-> Row(role, perms[i])]

SeedPlan == [i \in 1 .. Len(adminPermissions) |-> Row("", adminPermissions[i])]
            \o RoleWithLinks("admin", adminPermissions)
            \o RoleWithLinks("viewer", viewerPermissions)
            \o RoleWithLinks("analyst", analystPermissions)

LinksOf(plan) == {plan[i] : i \in {j \in 1 .. Len(plan) :
                                     plan[j].role # "" /\ plan[j].perm # ""}}
EndsOf(plan)  == [l \in LinksOf(plan) |-> {Row(l.role, ""), Row("", l.perm)}]

-----------------------------------------------------------------------------
VARIABLES
    world,          \* what the processes find (Config); never changes
    rep,            \* [Replicas -> process]
    stored,         \* rows of permissions, roles and role_permissions
    users,          \* [UserIds -> row of users]
    trouble         \* failures so far

startVars == <<world, rep, stored, users, trouble>>

Stages == {"load", "connect", "migrate", "email", "password", "seed", "insert",
           "lookup", "create", "give", "activate", "assign", "wire", "serving",
           "exited"}

(* user is the row seedAdmin goes on with.                                 *)
Process == [pc : Stages, pos : 1 .. Len(Plan) + 1, tries : Nat,
            user : UserIds \cup {NoUser}]
Fresh   == [pc |-> "load", pos |-> 1, tries |-> 0, user |-> NoUser]

(* A row, whether it has the configured email, and the admin role.         *)
UserRow   == [st : {"absent", "live", "deleted"}, named : BOOLEAN,
              active : BOOLEAN, roled : BOOLEAN]
NoAccount == [st |-> "absent", named |-> FALSE, active |-> FALSE, roled |-> FALSE]

-----------------------------------------------------------------------------
At(r, pc) == rep[r].pc = pc
Go(r, pc) == rep' = [rep EXCEPT ![r].pc = pc]

(* log.Fatal or os.Exit.                                                   *)
Exit(r) == rep' = [rep EXCEPT ![r] = [Fresh EXCEPT !.pc = "exited"]]

(* A call that fails uses up some of the trouble a run has.                *)
Call(o) == IF Erred(o) THEN trouble < MaxTrouble /\ trouble' = trouble + 1
           ELSE UNCHANGED trouble

(* Secret Manager only; reading the environment cannot fail.               *)
SecretOutcomes == IF UsesSecretManager(world) THEN {"ok", "failed"} ELSE {"ok"}

-----------------------------------------------------------------------------
(* InitAdmin resolves the secrets first.                                   *)
ResolveEmail(r) ==
    /\ At(r, "email")
    /\ \E o \in SecretOutcomes :
         /\ Call(o)
         /\ IF Erred(o) \/ GetFails(world, "ADMIN_EMAIL") THEN Exit(r)
            ELSE Go(r, IF EmailGiven(world) THEN "password" ELSE "seed")
    /\ UNCHANGED <<world, stored, users>>

ResolvePassword(r) ==
    /\ At(r, "password")
    /\ \E o \in SecretOutcomes :
         /\ Call(o)
         /\ IF Erred(o) \/ PasswordFails(world) THEN Exit(r) ELSE Go(r, "seed")
    /\ UNCHANGED <<world, stored, users>>

-----------------------------------------------------------------------------
(* The plan.                                                               *)
Item(r)   == Plan[rep[r].pos]
Planned(r) == At(r, "seed") /\ rep[r].pos <= Len(Plan)

(* Mutant: a role that is there already is taken to have its links.        *)
AfterFound(i) ==
    CHOOSE j \in i + 1 .. Len(Plan) + 1 :
        /\ \A k \in i + 1 .. j - 1 : Plan[k] \in Links
        /\ j <= Len(Plan) => Plan[j] \notin Links

After(i) == i + 1
Found(i) == After(i)

Forward(r, pos) == rep' = [rep EXCEPT ![r].pc = "seed", ![r].pos = pos]

(* FirstOrCreate, the SELECT.                                              *)
FindItem(r) ==
    /\ Planned(r) /\ Item(r) \notin Links
    /\ \E o \in Outcomes("postgres") :
         /\ Call(o)
         /\ IF Erred(o) THEN Exit(r)
            ELSE IF Item(r) \in stored THEN Forward(r, Found(rep[r].pos))
            ELSE Go(r, "insert")
    /\ UNCHANGED <<world, stored, users>>

(* FirstOrCreate, the INSERT: the name is unique, so a replica that was    *)
(* overtaken since its SELECT gives up.                                    *)
InsertItem(r) ==
    /\ At(r, "insert")
    /\ \E o \in Outcomes("postgres") :
         /\ Call(o)
         /\ stored' = IF Applied(o) THEN stored \cup {Item(r)} ELSE stored
         /\ IF Erred(o) \/ Item(r) \in stored THEN Exit(r)
            ELSE Forward(r, After(rep[r].pos))
    /\ UNCHANGED <<world, users>>

(* Mutant: without ON CONFLICT a link that is there is an error.           *)
LinkStrictly(r) ==
    /\ Planned(r) /\ Item(r) \in Links
    /\ \E o \in Outcomes("postgres") :
         /\ Call(o)
         /\ stored' = IF Applied(o) THEN stored \cup {Item(r)} ELSE stored
         /\ IF Erred(o) \/ Item(r) \in stored THEN Exit(r)
            ELSE Forward(r, After(rep[r].pos))
    /\ UNCHANGED <<world, users>>

(* linkRolePermissions: INSERT ... ON CONFLICT DO NOTHING.                 *)
LinkItem(r) ==
    /\ Planned(r) /\ Item(r) \in Links
    /\ \E o \in Outcomes("postgres") :
         /\ Call(o)
         /\ stored' = IF Applied(o) THEN stored \cup {Item(r)} ELSE stored
         /\ IF Erred(o) THEN Exit(r) ELSE Forward(r, After(rep[r].pos))
    /\ UNCHANGED <<world, users>>

-----------------------------------------------------------------------------
(* The admin user.                                                         *)
PlanDone(r) ==
    /\ At(r, "seed") /\ rep[r].pos > Len(Plan)
    /\ IF ~HasAdmin(world) THEN Go(r, "wire")
       ELSE IF ~HasPassword(world) THEN Exit(r)
       ELSE Go(r, "lookup")
    /\ UNCHANGED <<world, stored, users, trouble>>

GoWith(r, u, pc) == rep' = [rep EXCEPT ![r].pc = pc, ![r].user = u]

(* The rows the unique index finds under the email, deleted ones included. *)
Holders == {u \in UserIds : users[u].named}

(* Mutant: without the condition on deleted_at.                            *)
ByEmailEver == Holders

(* GetByEmail does not see a deleted row.                                  *)
ByEmail == {u \in Holders : users[u].st = "live"}

(* Mutant: an active user is taken to have its role.                       *)
AfterLookupTrusting(u) == IF users[u].active THEN "wire" ELSE "activate"

AfterLookup(u) == IF users[u].active THEN "assign" ELSE "activate"

LookupAdmin(r) ==
    /\ At(r, "lookup")
    /\ \E o \in Outcomes("postgres") :
         /\ Call(o)
         /\ IF Erred(o) THEN Exit(r)
            ELSE IF ByEmail = {} THEN Go(r, "create")
            ELSE \E u \in ByEmail : GoWith(r, u, AfterLookup(u))
    /\ UNCHANGED <<world, stored, users>>

(* A new id; which of the unused ones makes no difference.                 *)
Unused == {u \in UserIds : users[u].st = "absent"}
NewId  == CHOOSE u \in Unused : TRUE
NewAccount(active, roled) ==
    [st |-> "live", named |-> TRUE, active |-> active, roled |-> roled]

(* svc.Create, the INSERT.                                                 *)
CreateAdmin(r) ==
    /\ At(r, "create")
    /\ \E o \in Outcomes("postgres") :
         /\ Call(o)
         /\ IF Applied(o) /\ Holders = {}
            THEN /\ Unused # {}
                 /\ users' = [users EXCEPT ![NewId] = NewAccount(TRUE, FALSE)]
                 /\ IF Erred(o) THEN Exit(r) ELSE GoWith(r, NewId, "give")
            ELSE UNCHANGED users /\ Exit(r)
    /\ UNCHANGED <<world, stored>>

(* svc.Create goes on to read and assign the role, and seedAdmin assigns   *)
(* it again: INSERT ... ON CONFLICT DO NOTHING both times.                 *)
AssignAdmin(r) ==
    /\ rep[r].pc \in {"give", "assign"}
    /\ \E o \in Outcomes("postgres") :
         /\ Call(o)
         /\ users' = [users EXCEPT ![rep[r].user].roled = @ \/ Applied(o)]
         /\ IF Erred(o) THEN Exit(r) ELSE Go(r, IF At(r, "give") THEN "assign" ELSE "wire")
    /\ UNCHANGED <<world, stored>>

(* Mutant: the UPDATE also clears deleted_at.                              *)
ReviveAdmin(r) ==
    /\ At(r, "activate")
    /\ users' = [users EXCEPT ![rep[r].user].st = "live", ![rep[r].user].active = TRUE]
    /\ Go(r, "assign")
    /\ UNCHANGED <<world, stored, trouble>>

(* UPDATE ... WHERE id AND deleted_at IS NULL, whether it finds a row or   *)
(* not.  It writes the whole copy the lookup made, so also the email.      *)
ActivateAdmin(r) ==
    /\ At(r, "activate")
    /\ LET u     == rep[r].user
           finds == users[u].st = "live"
       IN  \E o \in Outcomes("postgres") :
             /\ Call(o)
             /\ users' = IF Applied(o) /\ finds /\ Holders \subseteq {u}
                         THEN [users EXCEPT ![u].active = TRUE, ![u].named = TRUE]
                         ELSE users
             /\ IF Erred(o) \/ (finds /\ ~(Holders \subseteq {u}))
                THEN Exit(r) ELSE Go(r, "assign")
    /\ UNCHANGED <<world, stored>>

-----------------------------------------------------------------------------
SeedStep(r) ==
    \/ ResolveEmail(r) \/ ResolvePassword(r)
    \/ FindItem(r) \/ InsertItem(r) \/ LinkItem(r) \/ PlanDone(r)
    \/ LookupAdmin(r) \/ CreateAdmin(r) \/ AssignAdmin(r) \/ ActivateAdmin(r)
=============================================================================
