------------------------------ MODULE Accounts ------------------------------
(***************************************************************************)
(* The authentication flows and the user administration handlers over the  *)
(* same tables.  A request reaches a users handler when the middleware has *)
(* accepted its access token and RequirePermission finds the permission in *)
(* the session the middleware put in the context (api/rest/routes.go).     *)
(***************************************************************************)
EXTENDS AuthService, UsersService

accountVars == <<vars, adm>>

-----------------------------------------------------------------------------
(* RequirePermission: the handler runs on the session's permissions, not   *)
(* on the roles in the database.                                           *)
Permitted(p, perm) ==
    /\ req[p].op = "access" /\ req[p].pc = "done" /\ req[p].out = "ok"
    /\ perm \in req[p].sess.perms

Serve(p) ==
    /\ \/ Permitted(p, UsersWrite) /\ StartWrite(p)
       \/ Permitted(p, UsersDelete) /\ StartDelete(p)
    /\ UNCHANGED authVars

Handle(p) == HandlerStep(p) /\ UNCHANGED authVars

(* The response leaves after the handler; a refused or unrouted request    *)
(* has none.                                                               *)
Finished(p) == /\ adm[p].pc \in {"idle", "done"}
               /\ Return(p)
               /\ adm' = [adm EXCEPT ![p] = NoHandler]

AccountsInit == Init /\ UsersInit

Progress(p) == \/ Step(p) /\ UNCHANGED adm
               \/ Handle(p)
               \/ Finished(p)

AccountsNext == \/ \E p \in Procs : \/ Start(p) /\ UNCHANGED adm
                                    \/ Serve(p)
                                    \/ Progress(p)
                \/ Expire /\ UNCHANGED adm

AccountsSpec == AccountsInit /\ [][AccountsNext]_accountVars

AccountsFairness == /\ \A p \in Procs : WF_accountVars(Progress(p))
                    /\ \A u \in Users : WF_accountVars(ExpireSession(u) /\ UNCHANGED adm)

-----------------------------------------------------------------------------
(* Properties.                                                             *)

AccountsTypeOK == TypeOK /\ AdmTypeOK

(* A deleted account is never brought back: no update that started before  *)
(* the deletion, and no other statement, changes a deleted row             *)
(* (postgres.go:113).                                                      *)
DeletedStaysDeleted ==
    [][\A u \in Users : users[u].st = "deleted" => users'[u] = users[u]]_accountVars

(* Every session, cached or put together for a request that did not end in *)
(* an error, carries at least the permissions of the roles it names, and   *)
(* no permission the user's roles do not give, even when a role is         *)
(* assigned between the two queries that build it: roles are read before   *)
(* permissions (session_loader.go:41-49).                                  *)
CoherentSession(u, s) == /\ PermsOf(s.roles) \subseteq s.perms
                         /\ s.perms \subseteq PermsOf(userRoles[u])
SessionsCoherent ==
    /\ \A u \in Users : sessions[u] # NoSession => CoherentSession(u, sessions[u])
    /\ \A p \in Procs :
          /\ req[p].sess # NoSession
          /\ req[p].pc \notin {"roles", "perms"} /\ req[p].out # "error"
          => CoherentSession(req[p].uid, req[p].sess)

(* A user is shut out: the row is inactive or deleted, no cached session   *)
(* says otherwise and no fill in flight is about to.                       *)
Barred(u) == users[u].st = "deleted" \/ ~users[u].active
ShutOut(u) ==
    /\ Barred(u)
    /\ sessions[u] # NoSession => ~sessions[u].active
    /\ \A p \in Procs : req[p].uid = u /\ req[p].pc \in Filling => ~req[p].sess.active

(* As long as an account stays inactive or deleted, once the sessions that *)
(* predate that are gone they stay gone, and no request of the user is     *)
(* accepted or starts to mint tokens.                                      *)
ShutOutHolds ==
    [][\A u \in Users : ShutOut(u) /\ Barred(u)' =>
         /\ ShutOut(u)'
         /\ \A p \in Procs : req'[p].uid = u /\ Accepted(req'[p]) =>
              Accepted(req[p])]_accountVars

(* A deactivation or deletion takes effect in the end: if the row stays    *)
(* inactive or deleted, from some time on no access token of the user is   *)
(* accepted.  Nothing evicts the session on an update or a delete; its TTL *)
(* does (session_cache.go:35-50).                                          *)
BarringTakesEffect ==
    \A u \in Users :
        <>[]Barred(u) => <>[](\A v \in 0 .. MaxVersion : ~Granted(u, v))

(* What service_test.go:134 asserts of a logout, "token version was        *)
(* incremented": a logout that reported success has moved the row past the *)
(* version its refresh record carried.                                     *)
LogoutIncrements ==
    \A p \in Procs :
        req[p].op = "logout" /\ req[p].pc = "done" /\ req[p].entry = "success" =>
            \/ users[req[p].uid].ver > req[p].want
            \/ ~Live(req[p].uid)

(* The two tables, statement by statement and with requests and failures   *)
(* between them, change only as Directory says: an email is never given    *)
(* twice, not even that of a deleted user, no update that read a row       *)
(* earlier brings it back, and the role a creation assigns in a statement  *)
(* of its own (users/service.go:113) is the only one its user ever gets.   *)
Dir == INSTANCE Directory WITH
         entry <- [u \in Users |-> [st |-> users[u].st, email |-> users[u].email,
                                    active |-> users[u].active]],
         roles <- userRoles

ImplementsDirectory == Dir!DirectorySpec
=============================================================================
