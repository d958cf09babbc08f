----------------------------- MODULE AuthService -----------------------------
(***************************************************************************)
(* Login, token refresh, logout and the authentication middleware          *)
(* (internal/domain/auth, pkg/middleware/auth.go) over the users table,    *)
(* the Redis session cache and the Redis refresh-token records.            *)
(*                                                                         *)
(* Every HTTP request runs in a goroutine of its own and the service holds *)
(* no lock: between two calls to Redis or PostgreSQL any other request may *)
(* run.  One action is one such call together with the code up to the      *)
(* next one; req[p] is the local state of the request p is serving.        *)
(***************************************************************************)
EXTENDS UserTable

CONSTANTS
    Tokens,         \* refresh tokens; a random string is never drawn twice
    NoRecord,       \* GET refresh:<hash> finds nothing
    NoSession,      \* GET user:<id> finds nothing
    NoToken,        \* rotateRefreshToken's empty previousHash / no token yet
    NoUser,         \* no user known to the request yet
    MaxVersion      \* TLC's bound on token_version

Session == [ver : Nat, active : BOOLEAN, roles : SUBSET Roles,
            perms : SUBSET Permissions]
Record  == [uid : Users, ver : Nat]
Claims  == [uid : Users, ver : Nat]

ASSUME SentinelAssumption == /\ NoRecord \notin Record
                             /\ NoSession \notin Session
                             /\ NoToken \notin Tokens
                             /\ NoUser \notin Users
ASSUME MaxVersionAssumption == MaxVersion \in Nat

VARIABLES
    sessions,       \* [Users -> Session or NoSession], keys user:<id>
    refresh,        \* [Tokens -> Record or NoRecord], keys refresh:<hash>
    issued,         \* refresh tokens that reached a client
    access,         \* claims of the access tokens that reached a client
    req             \* [Procs -> Request]

storeVars == <<sessions, refresh>>
authVars  == <<sessions, refresh, issued, access, req>>
vars      == <<users, userRoles, sessions, refresh, issued, access, req>>

-----------------------------------------------------------------------------
(* A request.  want is the token version its credential carries: the       *)
(* claim, the refresh record's, or the row's at login.  sess is the        *)
(* session being built or already decided on, out the answer, entry the    *)
(* status of the audit entry the request submitted.                        *)

Ops     == {"login", "refresh", "logout", "access"}
Control == {"idle", "cache", "user", "roles", "perms", "fill", "save",
            "rotate", "drop", "evict", "uncache", "bump", "clear", "revoke",
            "done"}
Request == [op : Ops, pc : Control, uid : Users \cup {NoUser},
            tok : Tokens \cup {NoToken}, new : Tokens \cup {NoToken},
            want : Nat, sess : Session \cup {NoSession},
            out : {"none", "ok", "unauthorized", "error"},
            entry : {"none", "success", "failure"}]

Idle == [op |-> "access", pc |-> "idle", uid |-> NoUser, tok |-> NoToken,
         new |-> NoToken, want |-> 0, sess |-> NoSession, out |-> "none",
         entry |-> "none"]

(* recordAuth: the middleware submits no audit entry, the service always   *)
(* does, with a success status only where it says so.                      *)
Audited(op, out) == CASE op = "access" -> "none"
                      [] op # "access" /\ out = "ok" -> "success"
                      [] OTHER -> "failure"

Answer(r, out) == [r EXCEPT !.pc = "done", !.out = out,
                            !.entry = Audited(r.op, out)]

(* Mutant: newSessionState marks every session active.                     *)
SnapshotActive(u) == [ver |-> users[u].ver, active |-> TRUE,
                      roles |-> {}, perms |-> {}]

(* newSessionState: what the session of row u says before roles are read.  *)
Snapshot(u) == [ver |-> users[u].ver, active |-> users[u].active,
                roles |-> {}, perms |-> {}]

(* Mutant: Refresh trusts the session and forgets the record's version.    *)
DecideByStatus(r, s) ==
    LET q == [r EXCEPT !.sess = s]
    IN CASE r.op = "login" -> [q EXCEPT !.pc = "save"]
         [] r.op = "refresh" /\ ~s.active -> [q EXCEPT !.pc = "evict"]
         [] r.op = "refresh" /\ s.active -> [q EXCEPT !.pc = "save"]
         [] OTHER -> Answer(q, IF s.active /\ s.ver = r.want
                               THEN "ok" ELSE "unauthorized")

(* What the caller does with the session s it loaded or built: Login goes  *)
(* on to the refresh record; Refresh compares the version, then the        *)
(* status; the middleware grants or refuses.                               *)
Decide(r, s) ==
    LET q == [r EXCEPT !.sess = s]
    IN CASE r.op = "login" -> [q EXCEPT !.pc = "save"]
         [] r.op = "refresh" /\ s.ver # r.want -> [q EXCEPT !.pc = "drop"]
         [] r.op = "refresh" /\ s.ver = r.want /\ ~s.active ->
              [q EXCEPT !.pc = "evict"]
         [] r.op = "refresh" /\ s.ver = r.want /\ s.active ->
              [q EXCEPT !.pc = "save"]
         [] OTHER -> Answer(q, IF s.active /\ s.ver = r.want
                               THEN "ok" ELSE "unauthorized")

InFlight(kinds) == {p \in Procs : /\ req[p].op \in kinds
                                  /\ req[p].pc \notin {"idle", "done"}}

(* Bounds for TLC.  A request that may save a refresh token starts only    *)
(* while a token is left for it, a logout only while the version may grow. *)
Fresh(t) == /\ t \notin issued
            /\ refresh[t] = NoRecord
            /\ \A p \in Procs : req[p].new # t
TokenBudget == Cardinality({t \in Tokens : Fresh(t)})
                  > Cardinality(InFlight({"login", "refresh"}))
VersionBudget(u) == users[u].ver + Cardinality(InFlight({"logout"})) < MaxVersion

-----------------------------------------------------------------------------
(* First steps.                                                            *)

(* A blank credential: an empty email, password, refresh token or bearer   *)
(* header.  Logout answers success and submits nothing.                    *)
RejectBlank(p, op) ==
    /\ req[p].pc = "idle"
    /\ req' = [req EXCEPT ![p] =
                 IF op = "logout"
                 THEN [Idle EXCEPT !.op = op, !.pc = "done", !.out = "ok"]
                 ELSE Answer([Idle EXCEPT !.op = op], "unauthorized")]
    /\ UNCHANGED <<tableVars, storeVars, issued, access>>

(* Login up to BuildAndCacheSession: one SELECT, then the active flag and  *)
(* the password.                                                           *)
Login(p, e) ==
    /\ req[p].pc = "idle"
    /\ TokenBudget
    /\ \E o \in Outcomes("postgres"), matches \in BOOLEAN :
         LET r == [Idle EXCEPT !.op = "login"]
         IN req' = [req EXCEPT ![p] =
              IF Erred(o) THEN Answer(r, "error")
              ELSE IF ~\E u \in GetByEmail(e) : users[u].active /\ matches
              THEN Answer(r, "unauthorized")
              ELSE LET u == CHOOSE w \in GetByEmail(e) : TRUE
                   IN [r EXCEPT !.pc = "roles", !.uid = u,
                                !.want = users[u].ver, !.sess = Snapshot(u)]]
    /\ UNCHANGED <<tableVars, storeVars, issued, access>>

(* Refresh and Logout up to their second store call: a client presents a   *)
(* token it was given, or one never issued.                                *)
LoadRecord(p, op, t) ==
    /\ req[p].pc = "idle"
    /\ t \in issued \/ Fresh(t)
    /\ op = "refresh" => TokenBudget
    /\ op = "logout" /\ refresh[t] # NoRecord => VersionBudget(refresh[t].uid)
    /\ \E o \in Outcomes("redis") :
         LET r == [Idle EXCEPT !.op = op, !.tok = t]
         IN req' = [req EXCEPT ![p] =
              IF Erred(o) THEN Answer(r, "error")
              ELSE IF refresh[t] = NoRecord
              THEN IF op = "refresh"
                   THEN Answer(r, "unauthorized")
                   ELSE [Answer(r, "ok") EXCEPT !.entry = "failure"]
              ELSE [r EXCEPT !.pc = IF op = "refresh" THEN "cache" ELSE "bump",
                             !.uid = refresh[t].uid, !.want = refresh[t].ver]]
    /\ UNCHANGED <<tableVars, storeVars, issued, access>>

(* AuthMiddleware up to LoadUserSession: ParseAccessToken refuses a token  *)
(* that has expired, here at any time.                                     *)
Authenticate(p, c) ==
    /\ req[p].pc = "idle"
    /\ \E valid \in BOOLEAN :
         LET r == [Idle EXCEPT !.op = "access", !.uid = c.uid, !.want = c.ver]
         IN req' = [req EXCEPT ![p] = IF valid THEN [r EXCEPT !.pc = "cache"]
                                      ELSE Answer(r, "unauthorized")]
    /\ UNCHANGED <<tableVars, storeVars, issued, access>>

-----------------------------------------------------------------------------
(* LoadUserSession and BuildAndCacheSession.                               *)

(* cache.Load: a hit is used as it is; an error reads as a miss.           *)
LoadSession(p) ==
    /\ req[p].pc = "cache"
    /\ \E o \in Outcomes("redis") :
         req' = [req EXCEPT ![p] =
                   IF Erred(o) \/ sessions[req[p].uid] = NoSession
                   THEN [@ EXCEPT !.pc = "user"]
                   ELSE Decide(@, sessions[req[p].uid])]
    /\ UNCHANGED <<tableVars, storeVars, issued, access>>

(* Mutant: the query forgets deleted_at IS NULL.                           *)
ReadAnyUser(p) ==
    /\ req[p].pc = "user"
    /\ req' = [req EXCEPT ![p] = [@ EXCEPT !.pc = "roles",
                                          !.sess = Snapshot(req[p].uid)]]
    /\ UNCHANGED <<tableVars, storeVars, issued, access>>

(* Mutant: when the database is down the credential's own claims serve.    *)
ReadUserOrClaims(p) ==
    /\ req[p].pc = "user"
    /\ \E o \in Outcomes("postgres") :
         req' = [req EXCEPT ![p] =
                   IF Erred(o)
                   THEN Decide(@, [ver |-> req[p].want, active |-> TRUE,
                                   roles |-> {}, perms |-> {}])
                   ELSE IF ~Live(req[p].uid) THEN Answer(@, "unauthorized")
                   ELSE [@ EXCEPT !.pc = "roles", !.sess = Snapshot(req[p].uid)]]
    /\ UNCHANGED <<tableVars, storeVars, issued, access>>

(* repo.GetByID.                                                           *)
ReadUser(p) ==
    /\ req[p].pc = "user"
    /\ \E o \in Outcomes("postgres") :
         req' = [req EXCEPT ![p] =
                   IF Erred(o) THEN Answer(@, "error")
                   ELSE IF ~Live(req[p].uid) THEN Answer(@, "unauthorized")
                   ELSE [@ EXCEPT !.pc = "roles", !.sess = Snapshot(req[p].uid)]]
    /\ UNCHANGED <<tableVars, storeVars, issued, access>>

ReadRoles(p) ==
    /\ req[p].pc = "roles"
    /\ \E o \in Outcomes("postgres") :
         req' = [req EXCEPT ![p] =
                   IF Erred(o) THEN Answer(@, "error")
                   ELSE [@ EXCEPT !.pc = "perms",
                                  !.sess.roles = userRoles[req[p].uid]]]
    /\ UNCHANGED <<tableVars, storeVars, issued, access>>

ReadPerms(p) ==
    /\ req[p].pc = "perms"
    /\ \E o \in Outcomes("postgres") :
         req' = [req EXCEPT ![p] =
                   IF Erred(o) THEN Answer(@, "error")
                   ELSE [@ EXCEPT !.pc = "fill",
                                  !.sess.perms = PermsOf(userRoles[req[p].uid])]]
    /\ UNCHANGED <<tableVars, storeVars, issued, access>>

(* Mutant: the roles are read once more when the session is saved.         *)
FillWithFreshRoles(p) ==
    /\ req[p].pc = "fill"
    /\ LET s == [req[p].sess EXCEPT !.roles = userRoles[req[p].uid]]
       IN /\ sessions' = [sessions EXCEPT ![req[p].uid] = s]
          /\ req' = [req EXCEPT ![p] = Decide(@, s)]
    /\ UNCHANGED <<tableVars, refresh, issued, access>>

(* cache.Save: a failure is only logged, the session is used all the same. *)
FillCache(p) ==
    /\ req[p].pc = "fill"
    /\ \E o \in Outcomes("redis") :
         sessions' = IF Applied(o)
                     THEN [sessions EXCEPT ![req[p].uid] = req[p].sess]
                     ELSE sessions
    /\ req' = [req EXCEPT ![p] = Decide(@, req[p].sess)]
    /\ UNCHANGED <<tableVars, refresh, issued, access>>

-----------------------------------------------------------------------------
(* The tail of Login and Refresh.                                          *)

(* The client has the tokens: Login or Refresh returns.                    *)
Deliver(r, t) == /\ issued' = issued \cup {t}
                 /\ access' = access \cup {[uid |-> r.uid, ver |-> r.sess.ver]}

(* Mutant: Refresh extends the presented token instead of minting one.     *)
SaveSameToken(p) ==
    /\ req[p].pc = "save"
    /\ \E t \in Tokens, o \in Outcomes("redis") :
         /\ IF req[p].op = "refresh" THEN t = req[p].tok ELSE Fresh(t)
         /\ refresh' = [refresh EXCEPT ![t] = [uid |-> req[p].uid,
                                              ver |-> req[p].sess.ver]]
         /\ req' = [req EXCEPT ![p] = Answer([@ EXCEPT !.new = t], "ok")]
         /\ Deliver(req[p], t)
    /\ UNCHANGED <<tableVars, sessions>>

(* Mutant: when the new record cannot be stored the old one is put back.   *)
SaveOrRestore(p) ==
    /\ req[p].pc = "save"
    /\ \E t \in Tokens, o \in Outcomes("redis") :
         LET kept == IF Applied(o) \/ req[p].op = "login" THEN t ELSE req[p].tok
         IN /\ Fresh(t)
            /\ refresh' = [refresh EXCEPT ![kept] = [uid |-> req[p].uid,
                                                    ver |-> req[p].sess.ver]]
            /\ IF Erred(o)
               THEN /\ req' = [req EXCEPT ![p] = Answer(@, "error")]
                    /\ UNCHANGED <<issued, access>>
               ELSE /\ req' = [req EXCEPT ![p] = Answer([@ EXCEPT !.new = t], "ok")]
                    /\ Deliver(req[p], t)
    /\ UNCHANGED <<tableVars, sessions>>

(* rotateRefreshToken, first half.  An error withdraws both tokens, even   *)
(* when the record was stored.                                             *)
SaveRecord(p) ==
    /\ req[p].pc = "save"
    /\ \E t \in Tokens, o \in Outcomes("redis") :
         /\ Fresh(t)
         /\ refresh' = IF Applied(o)
                       THEN [refresh EXCEPT ![t] = [uid |-> req[p].uid,
                                                    ver |-> req[p].sess.ver]]
                       ELSE refresh
         /\ \/ /\ Erred(o)
               /\ req' = [req EXCEPT ![p] = Answer(@, "error")]
               /\ UNCHANGED <<issued, access>>
            \/ /\ ~Erred(o) /\ req[p].op = "login"
               /\ req' = [req EXCEPT ![p] = Answer([@ EXCEPT !.new = t], "ok")]
               /\ Deliver(req[p], t)
            \/ /\ ~Erred(o) /\ req[p].op = "refresh"
               /\ req' = [req EXCEPT ![p].new = t, ![p].pc = "rotate"]
               /\ UNCHANGED <<issued, access>>
    /\ UNCHANGED <<tableVars, sessions>>

(* deleteRefreshRecord on the presented token; every caller ignores the    *)
(* error or only logs it.                                                  *)
DeleteRecord(p) ==
    \E o \in Outcomes("redis") :
       refresh' = IF Applied(o) THEN [refresh EXCEPT ![req[p].tok] = NoRecord]
                  ELSE refresh

(* Mutant: the previous record is left to its TTL.                         *)
RotateKeepingOld(p) ==
    /\ req[p].pc = "rotate"
    /\ req' = [req EXCEPT ![p] = Answer(@, "ok")]
    /\ Deliver(req[p], req[p].new)
    /\ UNCHANGED <<tableVars, storeVars>>

(* rotateRefreshToken, second half: the old record goes after the new one  *)
(* is stored.                                                              *)
Rotate(p) ==
    /\ req[p].pc = "rotate"
    /\ DeleteRecord(p)
    /\ req' = [req EXCEPT ![p] = Answer(@, "ok")]
    /\ Deliver(req[p], req[p].new)
    /\ UNCHANGED <<tableVars, sessions>>

(* Refresh with a record of another version.                               *)
DropOutdated(p) ==
    /\ req[p].pc = "drop"
    /\ DeleteRecord(p)
    /\ req' = [req EXCEPT ![p] = Answer(@, "unauthorized")]
    /\ UNCHANGED <<tableVars, sessions, issued, access>>

(* Refresh for an inactive user: the record goes, then the session.        *)
DropBanned(p) ==
    /\ req[p].pc = "evict"
    /\ DeleteRecord(p)
    /\ req' = [req EXCEPT ![p].pc = "uncache"]
    /\ UNCHANGED <<tableVars, sessions, issued, access>>

DeleteSession(u) ==
    \E o \in Outcomes("redis") :
       sessions' = IF Applied(o) THEN [sessions EXCEPT ![u] = NoSession]
                   ELSE sessions

EvictBanned(p) ==
    /\ req[p].pc = "uncache"
    /\ DeleteSession(req[p].uid)
    /\ req' = [req EXCEPT ![p] = Answer(@, "unauthorized")]
    /\ UNCHANGED <<tableVars, refresh, issued, access>>

-----------------------------------------------------------------------------
(* The tail of Logout: three writes, each error only logged.               *)

(* Mutant: the new version is computed from the record the request read.   *)
BumpFromRecord(p) ==
    /\ req[p].pc = "bump"
    /\ users' = [users EXCEPT ![req[p].uid].ver = req[p].want + 1]
    /\ req' = [req EXCEPT ![p].pc = "clear"]
    /\ UNCHANGED <<userRoles, storeVars, issued, access>>

BumpVersion(p) ==
    /\ req[p].pc = "bump"
    /\ \E o \in Outcomes("postgres") :
         IF Applied(o) THEN IncrementTokenVersion(req[p].uid)
         ELSE UNCHANGED users
    /\ req' = [req EXCEPT ![p].pc = "clear"]
    /\ UNCHANGED <<userRoles, storeVars, issued, access>>

(* Mutant: logout writes the bumped version through to the cached session. *)
WriteThrough(p) ==
    /\ req[p].pc = "clear"
    /\ sessions' = IF sessions[req[p].uid] = NoSession THEN sessions
                   ELSE [sessions EXCEPT ![req[p].uid].ver = req[p].want + 1]
    /\ req' = [req EXCEPT ![p].pc = "revoke"]
    /\ UNCHANGED <<tableVars, refresh, issued, access>>

ClearSession(p) ==
    /\ req[p].pc = "clear"
    /\ DeleteSession(req[p].uid)
    /\ req' = [req EXCEPT ![p].pc = "revoke"]
    /\ UNCHANGED <<tableVars, refresh, issued, access>>

Revoke(p) ==
    /\ req[p].pc = "revoke"
    /\ DeleteRecord(p)
    /\ req' = [req EXCEPT ![p] = Answer(@, "ok")]
    /\ UNCHANGED <<tableVars, sessions, issued, access>>

-----------------------------------------------------------------------------
(* The response is sent; the goroutine ends.                               *)
Return(p) ==
    /\ req[p].pc = "done"
    /\ req' = [req EXCEPT ![p] = Idle]
    /\ UNCHANGED <<tableVars, storeVars, issued, access>>

(* Mutant: sessions are saved with a TTL of zero, which Redis reads as     *)
(* none.                                                                   *)
NeverExpireSession(u) == sessions[u] # NoSession /\ FALSE /\ UNCHANGED vars

(* Redis drops a key when its TTL runs out.                                *)
ExpireSession(u) ==
    /\ sessions[u] # NoSession
    /\ sessions' = [sessions EXCEPT ![u] = NoSession]
    /\ UNCHANGED <<tableVars, refresh, issued, access, req>>

ExpireRecord(t) ==
    /\ refresh[t] # NoRecord
    /\ refresh' = [refresh EXCEPT ![t] = NoRecord]
    /\ UNCHANGED <<tableVars, sessions, issued, access, req>>

-----------------------------------------------------------------------------
AuthInit ==
    /\ sessions = [u \in Users |-> NoSession]
    /\ refresh  = [t \in Tokens |-> NoRecord]
    /\ issued   = {}
    /\ access   = {}
    /\ req      = [p \in Procs |-> Idle]

Init == TableInit /\ AuthInit

Start(p) == \/ \E op \in Ops : RejectBlank(p, op)
            \/ \E e \in Emails : Login(p, e)
            \/ \E op \in {"refresh", "logout"}, t \in Tokens : LoadRecord(p, op, t)
            \/ \E c \in access : Authenticate(p, c)

(* The steps of a request once it has started: its goroutine runs on.      *)
Step(p) == \/ LoadSession(p)  \/ ReadUser(p)     \/ ReadRoles(p)
           \/ ReadPerms(p)    \/ FillCache(p)    \/ SaveRecord(p)
           \/ Rotate(p)       \/ DropOutdated(p) \/ DropBanned(p)
           \/ EvictBanned(p)  \/ BumpVersion(p)  \/ ClearSession(p)
           \/ Revoke(p)

Continue(p) == Step(p) \/ Return(p)

Expire == \/ \E u \in Users : ExpireSession(u)
          \/ \E t \in Tokens : ExpireRecord(t)

Next == (\E p \in Procs : Start(p) \/ Continue(p)) \/ Expire

Spec == Init /\ [][Next]_vars

(* The Go scheduler runs every goroutine, every store call ends (at the    *)
(* latest with the context's error), and a cached session has a TTL.       *)
Fairness == /\ \A p \in Procs : WF_vars(Continue(p))
            /\ \A u \in Users : WF_vars(ExpireSession(u))

FairSpec == Spec /\ Fairness

-----------------------------------------------------------------------------
(* Properties.                                                             *)

(* The type invariant: every variable, and every field of a request in     *)
(* flight, has the shape the code gives it.                                *)
TypeOK ==
    /\ TableTypeOK
    /\ sessions \in [Users -> Session \cup {NoSession}]
    /\ refresh  \in [Tokens -> Record \cup {NoRecord}]
    /\ issued   \subseteq Tokens
    /\ access   \subseteq Claims
    /\ req      \in [Procs -> Request]

(* No copy of a token version ever runs ahead of the users row: not in the *)
(* session cache, a refresh record, an access token, or a request that is  *)
(* filling the cache or minting tokens.  A copy from the future would      *)
(* become valid again at a later logout (auth/service.go:157,              *)
(* middleware/auth.go:69 compare copies only).                             *)
NoFutureVersions ==
    /\ \A u \in Users : sessions[u] # NoSession => sessions[u].ver <= users[u].ver
    /\ \A t \in Tokens : refresh[t] # NoRecord =>
          refresh[t].ver <= users[refresh[t].uid].ver
    /\ \A c \in access : c.ver <= users[c.uid].ver
    /\ \A p \in Procs : req[p].uid # NoUser =>
          /\ req[p].want <= users[req[p].uid].ver
          /\ req[p].sess # NoSession => req[p].sess.ver <= users[req[p].uid].ver

(* Version v of user u is retired: the row, the cache and every fill in    *)
(* flight are past it.                                                     *)
Filling == {"roles", "perms", "fill"}
Retired(u, v) ==
    /\ users[u].ver > v
    /\ sessions[u] # NoSession => sessions[u].ver > v
    /\ \A p \in Procs : req[p].uid = u /\ req[p].pc \in Filling =>
          req[p].sess.ver > v

(* The request has accepted the credential it was given.                   *)
Accepted(r) == \/ r.op = "access" /\ r.pc = "done" /\ r.out = "ok"
               \/ r.op = "refresh" /\ r.pc \in {"save", "rotate"}

Accepts(r, u, v) == Accepted(r) /\ r.uid = u /\ r.want = v

(* Once a version is retired it stays retired, and from then on no request *)
(* is decided in favour of a credential of that version, whatever the      *)
(* interleaving of cache fills, logouts and expiries and whichever store   *)
(* calls fail: the window a logout leaves open (service.go:220-223 against *)
(* session_loader.go:25-59) closes once and never opens again.             *)
RetiredForGood ==
    [][\A u \in Users : \A v \in 0 .. MaxVersion : Retired(u, v) =>
         /\ Retired(u, v)'
         /\ \A p \in Procs : Accepts(req'[p], u, v) => Accepts(req[p], u, v)]_vars

(* A refresh token whose record is gone (rotated, revoked or expired) is   *)
(* never honoured again: no request in flight brings the record back.      *)
NoResurrection ==
    [][\A t \in Tokens : t \in issued /\ refresh[t] = NoRecord =>
         refresh'[t] = NoRecord]_vars

(* With working stores, a request that reported success has left its       *)
(* effect behind, however it interleaved with the others: a refresh has    *)
(* removed the presented record (service.go:270), and a logout audited as  *)
(* success has removed it and moved the row past the version the record    *)
(* carried (service.go:220-231).                                           *)
SuccessLeavesEffect ==
    \A p \in Procs : req[p].pc = "done" /\ req[p].entry = "success" =>
        /\ req[p].op \in {"refresh", "logout"} => refresh[req[p].tok] = NoRecord
        /\ req[p].op = "logout" => \/ users[req[p].uid].ver > req[p].want
                                  \/ ~Live(req[p].uid)

(* A logout takes effect in the end: from some time after the row has      *)
(* moved past version v no access token of version v is accepted, although *)
(* a stale fill may put an old session back after the logout deleted it.   *)
(* The cache's TTL is what guarantees it (session_cache.go:35-50).         *)
Granted(u, v) == \E p \in Procs : req[p].op = "access" /\ Accepts(req[p], u, v)

LogoutTakesEffect ==
    \A u \in Users : \A v \in 0 .. MaxVersion :
        (users[u].ver > v) ~> []~Granted(u, v)

(* What service_test.go:136 asserts of a logout: the cached session is     *)
(* gone.  Here: a logout that reported success leaves no session of the    *)
(* version it retired.                                                     *)
LogoutClearsSession ==
    \A p \in Procs :
        req[p].op = "logout" /\ req[p].pc = "done" /\ req[p].entry = "success" =>
          LET s == sessions[req[p].uid] IN s # NoSession => s.ver > req[p].want
=============================================================================
