---------------------------- MODULE UsersService ----------------------------
(***************************************************************************)
(* The handlers of internal/domain/users/service.go that write: Create,    *)
(* Update and Delete, as sequences of SQL statements without a             *)
(* transaction around them.  adm[p] is the handler goroutine p is running  *)
(* after the middleware let its request through; Accounts composes them.   *)
(***************************************************************************)
EXTENDS UserTable

CONSTANTS
    Keep,           \* a nil field of UpdateUserInput
    NoRole,         \* a nil RoleID
    NoTarget,       \* no row chosen yet
    UsersWrite,     \* the permissions users:write and users:delete
    UsersDelete

ASSUME HandlerSentinels == /\ Keep \notin Emails \cup BOOLEAN
                           /\ NoRole \notin Roles
                           /\ NoTarget \notin Users
                           /\ {UsersWrite, UsersDelete} \subseteq Permissions

VARIABLE adm        \* [Procs -> Handler]

(* row is the copy of the users row Update holds between its SELECT and    *)
(* its UPDATE.                                                             *)
Handler == [op : {"none", "create", "update", "delete"},
            pc : {"idle", "role", "assign", "write", "done"},
            uid : Users \cup {NoTarget}, role : Roles \cup {NoRole},
            row : Row, ok : BOOLEAN]

NoHandler == [op |-> "none", pc |-> "idle", uid |-> NoTarget,
              role |-> NoRole, row |-> NoRow, ok |-> FALSE]

(* recordUserAction is called exactly when the handler succeeds, so ok     *)
(* stands for the audit entry too.                                         *)
Finish(h, ok) == [h EXCEPT !.pc = "done", !.ok = ok, !.row = NoRow]

UsersInit == adm = [p \in Procs |-> NoHandler]

-----------------------------------------------------------------------------
(* Create.                                                                 *)

(* db.Create(user): gorm writes the column default (TRUE) for a zero       *)
(* IsActive, so the row starts active whatever the request asked for.      *)
(* A duplicate email and a lost connection both end in ErrInternal, as     *)
(* does a password bcrypt refuses, before the statement.                   *)
InsertUser(p, u, e, r) ==
    /\ adm[p].pc = "idle" /\ adm[p].op = "none"
    /\ users[u].st = "absent"
    /\ \E o \in Outcomes("postgres"), hashed \in BOOLEAN :
         LET h    == [NoHandler EXCEPT !.op = "create", !.uid = u, !.role = r]
             done == hashed /\ Applied(o) /\ ~EmailTaken(e, u)
         IN /\ users' = IF done
                        THEN [users EXCEPT ![u] = [st |-> "live", email |-> e,
                                                   active |-> TRUE, ver |-> 0]]
                        ELSE users
            /\ adm' = [adm EXCEPT ![p] =
                         IF ~done \/ Erred(o) THEN Finish(h, FALSE)
                         ELSE IF r = NoRole THEN Finish(h, TRUE)
                         ELSE [h EXCEPT !.pc = "role"]]
    /\ UNCHANGED userRoles

(* GetRoleByID: an unknown role ends the request, the user stays.          *)
FindRole(p) ==
    /\ adm[p].pc = "role"
    /\ \E o \in Outcomes("postgres"), found \in BOOLEAN :
         adm' = [adm EXCEPT ![p] = IF Erred(o) \/ ~found THEN Finish(@, FALSE)
                                   ELSE [@ EXCEPT !.pc = "assign"]]
    /\ UNCHANGED tableVars

(* INSERT INTO user_roles ... ON CONFLICT DO NOTHING.                      *)
AssignRole(p) ==
    /\ adm[p].pc = "assign"
    /\ \E o \in Outcomes("postgres") :
         /\ userRoles' = IF Applied(o)
                         THEN [userRoles EXCEPT ![adm[p].uid] = @ \cup {adm[p].role}]
                         ELSE userRoles
         /\ adm' = [adm EXCEPT ![p] = Finish(@, ~Erred(o))]
    /\ UNCHANGED users

-----------------------------------------------------------------------------
(* Update: SELECT the row, change the copy, UPDATE every column.  A new    *)
(* password that is blank or that bcrypt refuses ends it between the two.  *)

(* Mutant: a nil field is written as it is.                                *)
Overwrite(old, new) == new

Merge(old, new) == IF new = Keep THEN old ELSE new

LoadForUpdate(p, u, e, b) ==
    /\ adm[p].pc = "idle" /\ adm[p].op = "none"
    /\ \E o \in Outcomes("postgres"), hashed \in BOOLEAN :
         LET h == [NoHandler EXCEPT !.op = "update", !.uid = u]
         IN adm' = [adm EXCEPT ![p] =
              IF Erred(o) \/ ~Live(u) \/ ~hashed THEN Finish(h, FALSE)
              ELSE [h EXCEPT !.pc = "write",
                             !.row = [users[u] EXCEPT !.email = Merge(@, e),
                                                      !.active = Merge(@, b)]]]
    /\ UNCHANGED tableVars

(* Mutant: gorm's Save, which writes the whole struct without the filter   *)
(* on deleted_at.                                                          *)
SaveWholeRow(p) ==
    /\ adm[p].pc = "write"
    /\ users' = [users EXCEPT ![adm[p].uid] = adm[p].row]
    /\ adm' = [adm EXCEPT ![p] = Finish(@, TRUE)]
    /\ UNCHANGED userRoles

(* UPDATE users SET email, password, is_active, token_version WHERE id = u *)
(* AND deleted_at IS NULL.  The SELECT after it can only turn an applied   *)
(* update into an error, which "lost" stands for.                          *)
WriteRow(p) ==
    /\ adm[p].pc = "write"
    /\ \E o \in Outcomes("postgres") :
         LET u    == adm[p].uid
             done == Applied(o) /\ Live(u) /\ ~EmailTaken(adm[p].row.email, u)
         IN /\ users' = IF done THEN [users EXCEPT ![u] = adm[p].row] ELSE users
            /\ adm' = [adm EXCEPT ![p] = Finish(@, done /\ ~Erred(o))]
    /\ UNCHANGED userRoles

-----------------------------------------------------------------------------
(* Delete: one UPDATE that sets deleted_at.  Neither the session cache nor *)
(* the refresh records hear of it.                                         *)
SoftDelete(p, u) ==
    /\ adm[p].pc = "idle" /\ adm[p].op = "none"
    /\ \E o \in Outcomes("postgres") :
         LET done == Applied(o) /\ Live(u)
         IN /\ users' = IF done THEN [users EXCEPT ![u].st = "deleted"] ELSE users
            /\ adm' = [adm EXCEPT ![p] =
                 Finish([NoHandler EXCEPT !.op = "delete", !.uid = u],
                        done /\ ~Erred(o))]
    /\ UNCHANGED userRoles

-----------------------------------------------------------------------------
StartWrite(p) ==
    \/ \E u \in Users, e \in Emails, r \in Roles \cup {NoRole} : InsertUser(p, u, e, r)
    \/ \E u \in Users, e \in Emails \cup {Keep}, b \in BOOLEAN \cup {Keep} :
         LoadForUpdate(p, u, e, b)

StartDelete(p) == \E u \in Users : SoftDelete(p, u)

HandlerStep(p) == FindRole(p) \/ AssignRole(p) \/ WriteRow(p)

AdmTypeOK == adm \in [Procs -> Handler]
=============================================================================
