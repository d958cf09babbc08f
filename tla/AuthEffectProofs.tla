-------------------------- MODULE AuthEffectProofs --------------------------
(***************************************************************************)
(* Proofs about AuthService: what a request that reported success has left *)
(* behind stays.  Each half of SuccessLeavesEffect holds as long as its    *)
(* own store answers: the record is gone when Redis does, the row has      *)
(* moved on when PostgreSQL does, whatever the other one is up to.         *)
(***************************************************************************)
EXTENDS AuthServiceProofs

Succeeded(r) == r.pc = "done" /\ r.entry = "success"

(* A token whose record was once read has reached a client: SaveRecord     *)
(* writes no record under it any more.                                     *)
TokenIssued(r, is) == r.op \in {"refresh", "logout"} /\ (Running(r) \/ Succeeded(r))
                        => r.tok \in is

(* Logout never takes the way through the session cache.                   *)
LogoutWay(r) == r.op = "logout" /\ Running(r) => r.pc \in {"bump", "clear", "revoke"}

RecordGone(r, rf) == r.op \in {"refresh", "logout"} /\ Succeeded(r)
                       => rf[r.tok] = NoRecord

VersionMoved(r, us) ==
    r.op = "logout" /\ (r.pc \in {"clear", "revoke"} \/ Succeeded(r))
      => r.uid \in Users /\ (us[r.uid].ver > r.want \/ us[r.uid].st # "live")

(* What a request r has left behind when the users table is us, the        *)
(* refresh records are rf and the tokens is have reached a client.         *)
Left(r, us, rf, is) ==
    /\ TokenIssued(r, is) /\ LogoutWay(r)
    /\ "redis" \notin Faults => RecordGone(r, rf)
    /\ "postgres" \notin Faults => VersionMoved(r, us)

Now(r)   == Left(r, users, refresh, issued)
After(r) == Left(r, users', refresh', issued')

EInv == IInv /\ \A p \in Procs : Now(req[p])

-----------------------------------------------------------------------------
(* Nothing shrinks that the effects are read off.                          *)

(* A row keeps its status, and a token that reached a client stays issued. *)
Grows == /\ \A u \in Users : Live(u)' <=> Live(u)
         /\ issued \subseteq issued'

(* No step of a request takes a token back or changes a row's status.      *)
LEMMA StepGrows ==
    ASSUME IInv, NEW p \in Procs, Start(p) \/ Continue(p)
    PROVE  Grows
<1>1. users \in [Users -> Row]
  BY DEF IInv, TypeOK, TableTypeOK
<1>2. CASE UNCHANGED users
  <2>1. issued \subseteq issued'
    BY DEF Start, Continue, Step, RejectBlank, Login, LoadRecord, Authenticate,
           LoadSession, ReadUser, ReadRoles, ReadPerms, FillCache, SaveRecord, Rotate,
           DropOutdated, DropBanned, EvictBanned, BumpVersion, ClearSession, Revoke,
           Return, Deliver
  <2> QED BY <1>2, <2>1 DEF Grows, Live
<1>3. CASE BumpVersion(p)
  <2>1. users' = users \/ users' = [users EXCEPT ![req[p].uid].ver = @ + 1]
    BY <1>3 DEF BumpVersion, IncrementTokenVersion
  <2>2. \A u \in Users : users'[u].st = users[u].st
    BY <1>1, <2>1 DEF Row
  <2> QED BY <1>3, <2>2 DEF Grows, Live, BumpVersion
<1>4. UNCHANGED users \/ BumpVersion(p)
  BY DEF Start, Continue, Step, RejectBlank, Login, LoadRecord, Authenticate,
         LoadSession, ReadUser, ReadRoles, ReadPerms, FillCache, SaveRecord, Rotate,
         DropOutdated, DropBanned, EvictBanned, ClearSession, Revoke, Return, tableVars
<1> QED BY <1>2, <1>3, <1>4

(* What a request left behind survives whatever only lets records go and   *)
(* versions grow.                                                          *)
LEMMA LeftStays ==
    ASSUME IInv, NEW r, r \in Request, Now(r), Grows,
           \A u \in Users : users'[u].ver \in Nat /\ users'[u].ver >= users[u].ver,
           \A t \in issued : refresh'[t] \in {refresh[t], NoRecord}
    PROVE  After(r)
<1>1. TokenIssued(r, issued')
  BY DEF Now, Left, TokenIssued, Grows
<1>2. RecordGone(r, refresh) => RecordGone(r, refresh')
  BY DEF Now, Left, TokenIssued, RecordGone
<1>3. ASSUME VersionMoved(r, users) PROVE VersionMoved(r, users')
  <2>1. r.want \in Nat /\ \A u \in Users : users[u].ver \in Nat
    BY DEF IInv, TypeOK, TableTypeOK, Row, Request
  <2>2. \A u \in Users : users[u].st # "live" => users'[u].st # "live"
    BY DEF Grows, Live
  <2> QED BY <1>3, <2>1, <2>2 DEF VersionMoved
<1> QED BY <1>1, <1>2, <1>3 DEF Now, After, Left

-----------------------------------------------------------------------------
(* The step of a request itself.                                           *)

(* Only an ok answered to a login, a refresh or a logout is a success.     *)
LEMMA AnswerEntry ==
    ASSUME NEW r \in Request, NEW out \in {"ok", "unauthorized", "error"}
    PROVE  LET a == Answer(r, out)
           IN /\ a.pc = "done" /\ a.op = r.op /\ a.tok = r.tok /\ a.uid = r.uid
              /\ a.want = r.want
              /\ Succeeded(a) <=> r.op # "access" /\ out = "ok"
  BY DEF Answer, Audited, Request, Succeeded

(* A request that failed, or was not about a refresh token, left nothing   *)
(* to show.                                                                *)
LEMMA NothingLeft ==
    ASSUME NEW r, r.op \notin {"refresh", "logout"} \/ (~Running(r) /\ ~Succeeded(r))
    PROVE  After(r)
  BY DEF After, Left, TokenIssued, LogoutWay, RecordGone, VersionMoved,
         Succeeded, Running

(* Going on with an issued token, before the version has been moved.       *)
LEMMA StillGoing ==
    ASSUME NEW r, Running(r), r.op = "refresh", r.tok \in issued'
    PROVE  After(r)
  BY DEF After, Left, TokenIssued, LogoutWay, RecordGone, VersionMoved,
         Succeeded, Running

(* A decision keeps the presented token and is no success but a login's.   *)
LEMMA DecideLeft ==
    ASSUME IInv, NEW r \in Request, NEW s \in Session, Running(r), Now(r),
           r.pc \in {"cache", "fill"}, issued \subseteq issued'
    PROVE  After(Decide(r, s))
<1> DEFINE q == [r EXCEPT !.sess = s]
<1>1. /\ q \in Request /\ q.op = r.op /\ q.tok = r.tok /\ q.pc = r.pc
  BY DEF Request
<1>2. r.op # "logout"
  BY DEF Now, Left, LogoutWay
<1>3. CASE r.op = "refresh"
  <2>1. PICK pc \in {"drop", "evict", "save"} : Decide(r, s) = [q EXCEPT !.pc = pc]
    BY <1>3 DEF Decide
  <2> DEFINE d == [q EXCEPT !.pc = pc]
  <2> HIDE DEF q
  <2>2. d.op = "refresh" /\ d.pc = pc /\ d.tok = r.tok
    BY <1>1, <1>3 DEF Request
  <2>3. r.tok \in issued'
    BY <1>3 DEF Now, Left, TokenIssued
  <2>4. Running(d)
    BY <2>2 DEF Running
  <2> HIDE DEF d
  <2>5. After(d)
    BY <2>2, <2>3, <2>4, StillGoing
  <2> QED BY <2>1, <2>5 DEF d
<1>4. CASE r.op \in {"login", "access"}
  <2>1. Decide(r, s).op = r.op
    <3>1. CASE r.op = "login"
      <4>1. Decide(r, s) = [q EXCEPT !.pc = "save"]
        BY <3>1 DEF Decide
      <4> QED BY <4>1, <1>1 DEF Request
    <3>2. CASE r.op = "access"
      <4>1. Decide(r, s) = Answer(q, IF s.active /\ s.ver = r.want
                                     THEN "ok" ELSE "unauthorized")
        BY <3>2 DEF Decide
      <4> HIDE DEF q
      <4> QED BY <4>1, <1>1, AnswerEntry
    <3> QED BY <1>4, <3>1, <3>2
  <2> QED BY <1>4, <2>1, NothingLeft
<1> QED BY <1>2, <1>3, <1>4 DEF Request, Ops
(* A refresh, a login or an access that goes on keeps what it has.         *)
LEMMA GoingOn ==
    ASSUME NEW r, Running(r), Now(r), r.op # "logout", issued \subseteq issued',
           NEW q, Running(q), q.op = r.op, q.tok = r.tok
    PROVE  After(q)
<1>1. CASE r.op = "refresh"
  BY <1>1, StillGoing DEF Now, Left, TokenIssued
<1>2. CASE r.op # "refresh"
  BY <1>2, NothingLeft
<1> QED BY <1>1, <1>2

(* So does a request that is refused, or that failed.                      *)
LEMMA Refused ==
    ASSUME NEW r \in Request, NEW out \in {"unauthorized", "error"}
    PROVE  After(Answer(r, out))
<1> DEFINE a == Answer(r, out)
<1>1. a.pc = "done" /\ ~Succeeded(a)
  BY AnswerEntry
<1> HIDE DEF a
<1> QED BY <1>1, NothingLeft DEF Running, a

(* What p leaves behind after its own step.                                *)
Own(p) == After(req'[p])

(* The first steps: only a record that was found lets a refresh or a       *)
(* logout start, and such a token is an issued one.                        *)
LEMMA StartOwn ==
    ASSUME EInv, NEW p \in Procs, Start(p)
    PROVE  Own(p)
<1>t. req \in [Procs -> Request]
  BY DEF EInv, IInv, TypeOK
<1>i. Idle \in Request
  BY DEF Idle, Request, Ops, Control
<1>1. CASE \E op \in Ops : RejectBlank(p, op)
  <2>1. PICK op \in Ops : RejectBlank(p, op)
    BY <1>1
  <2> DEFINE i == [Idle EXCEPT !.op = op]
             b == [Idle EXCEPT !.op = op, !.pc = "done", !.out = "ok"]
  <2>2. i \in Request /\ b.pc = "done" /\ b.entry = "none"
    BY <1>i DEF Request, Idle
  <2>3. req'[p] = IF op = "logout" THEN b ELSE Answer(i, "unauthorized")
    BY <1>t, <2>1 DEF RejectBlank
  <2> HIDE DEF i, b
  <2>4. After(b)
    BY <2>2, NothingLeft DEF Running, Succeeded
  <2> QED BY <2>2, <2>3, <2>4, Refused DEF Own
<1>2. CASE \E e \in Emails : Login(p, e)
  <2> DEFINE i == [Idle EXCEPT !.op = "login"]
  <2>1. i \in Request /\ i.op = "login"
    BY <1>i DEF Request, Idle, Ops
  <2>2. req'[p].op = "login" \/ \E out \in {"unauthorized", "error"} : req'[p] = Answer(i, out)
    <3>1. PICK e \in Emails, o \in Outcomes("postgres"), m \in BOOLEAN :
            LET w == CHOOSE u \in GetByEmail(e) : TRUE
            IN req'[p] =
                 IF Erred(o) THEN Answer(i, "error")
                 ELSE IF ~\E u \in GetByEmail(e) : users[u].active /\ m
                 THEN Answer(i, "unauthorized")
                 ELSE [i EXCEPT !.pc = "roles", !.uid = w, !.want = users[w].ver,
                                !.sess = Snapshot(w)]
      BY <1>2, <1>t DEF Login
    <3>2. ASSUME NEW uid, NEW want, NEW sess
          PROVE  [i EXCEPT !.pc = "roles", !.uid = uid, !.want = want,
                           !.sess = sess].op = "login"
      BY <2>1 DEF Request
    <3> HIDE DEF i
    <3> QED BY <3>1, <3>2
  <2> HIDE DEF i
  <2> QED BY <2>1, <2>2, NothingLeft, Refused DEF Own
<1>3. CASE \E op \in {"refresh", "logout"}, t \in Tokens : LoadRecord(p, op, t)
  <2>1. PICK op \in {"refresh", "logout"}, t \in Tokens : LoadRecord(p, op, t)
    BY <1>3
  <2> DEFINE i == [Idle EXCEPT !.op = op, !.tok = t]
             g == [i EXCEPT !.pc = IF op = "refresh" THEN "cache" ELSE "bump",
                            !.uid = refresh[t].uid, !.want = refresh[t].ver]
             n == [Answer(i, "ok") EXCEPT !.entry = "failure"]
  <2>2. i \in Request /\ i.op = op /\ i.tok = t
    BY <1>i DEF Request, Idle, Ops
  <2>3. PICK o \in Outcomes("redis") :
          req'[p] = IF Erred(o) THEN Answer(i, "error")
                    ELSE IF refresh[t] = NoRecord
                    THEN IF op = "refresh" THEN Answer(i, "unauthorized") ELSE n
                    ELSE g
    BY <1>t, <2>1 DEF LoadRecord
  <2> HIDE DEF i
  <2>4. After(n)
    <3>1. n.pc = "done" /\ n.entry = "failure"
      BY <2>2 DEF Answer, Request
    <3> HIDE DEF n
    <3> QED BY <3>1, NothingLeft DEF Running, Succeeded
  <2>5. ASSUME refresh[t] # NoRecord PROVE After(g)
    <3>1. t \in issued'
      BY <2>1, <2>5 DEF LoadRecord, Fresh
    <3>2. /\ g.op = op /\ g.tok = t
          /\ g.pc = IF op = "refresh" THEN "cache" ELSE "bump"
      BY <2>2 DEF Request
    <3> HIDE DEF g
    <3> QED BY <3>1, <3>2 DEF After, Left, TokenIssued, LogoutWay, RecordGone, VersionMoved,
                              Succeeded, Running
  <2> HIDE DEF g, n
  <2> QED BY <2>2, <2>3, <2>4, <2>5, Refused DEF Own
<1>4. CASE \E c \in access : Authenticate(p, c)
  <2>1. PICK c \in access : Authenticate(p, c)
    BY <1>4
  <2> DEFINE i == [Idle EXCEPT !.op = "access", !.uid = c.uid, !.want = c.ver]
             g == [i EXCEPT !.pc = "cache"]
  <2>2. c \in Claims
    BY DEF EInv, IInv, TypeOK
  <2>3. i \in Request /\ i.op = "access" /\ g.op = "access"
    BY <1>i, <2>2 DEF Request, Idle, Ops, Claims
  <2>4. req'[p] \in {g, Answer(i, "unauthorized")}
    BY <1>t, <2>1 DEF Authenticate
  <2> HIDE DEF i, g
  <2>5. After(g) /\ After(Answer(i, "unauthorized"))
    BY <2>3, NothingLeft, Refused
  <2> QED BY <2>4, <2>5 DEF Own
<1> QED BY <1>1, <1>2, <1>3, <1>4 DEF Start

(* The way through the session cache: no logout is on it.                  *)
LEMMA LoadOwn ==
    ASSUME EInv, Grows, NEW p \in Procs,
           LoadSession(p) \/ ReadUser(p) \/ ReadRoles(p) \/ ReadPerms(p) \/ FillCache(p)
    PROVE  Own(p)
<1> DEFINE r == req[p]
<1>1. /\ r \in Request /\ Now(r) /\ req \in [Procs -> Request] /\ IInv
      /\ issued \subseteq issued'
  BY DEF EInv, IInv, TypeOK, Grows
<1>2. r.pc \in {"cache", "user", "roles", "perms", "fill"}
  BY DEF LoadSession, ReadUser, ReadRoles, ReadPerms, FillCache
<1>3. Running(r) /\ r.op # "logout"
  BY <1>1, <1>2 DEF Running, Now, Left, LogoutWay
<1>a. ASSUME NEW pc \in {"user", "roles", "perms", "fill"}, NEW s,
             req'[p] = Carrying(r, pc, s)
      PROVE  Own(p)
  <2> DEFINE q == Carrying(r, pc, s)
  <2>1. q.op = r.op /\ q.tok = r.tok /\ q.pc = pc
    BY <1>1 DEF Carrying, Request
  <2>2. req'[p] = q
    BY <1>a
  <2> HIDE DEF q, r
  <2>3. Running(q)
    BY <2>1 DEF Running
  <2> QED BY <1>1, <1>3, <2>1, <2>2, <2>3, GoingOn DEF Own
<1>b. ASSUME NEW out \in {"unauthorized", "error"}, req'[p] = Answer(r, out)
      PROVE  Own(p)
  BY <1>1, <1>b, Refused DEF Own
<1>c. ASSUME r.pc \in {"cache", "fill"}, NEW s \in Session, req'[p] = Decide(r, s)
      PROVE  Own(p)
  <2> HIDE DEF r
  <2> QED BY <1>1, <1>3, <1>c, DecideLeft DEF Own
<1>4. CASE LoadSession(p)
  <2>1. req'[p] = Carrying(r, "user", r.sess)
        \/ (sessions[r.uid] # NoSession /\ req'[p] = Decide(r, sessions[r.uid]))
    BY <1>1, <1>4, AtCarries DEF LoadSession, At
  <2>2. r.uid \in Users
    BY <1>3, RunningReq DEF EInv
  <2>3. sessions[r.uid] # NoSession => sessions[r.uid] \in Session
    BY <1>1, <2>2 DEF IInv, TypeOK
  <2> QED BY <1>4, <2>1, <2>3, <1>a, <1>c DEF LoadSession
<1>5. CASE ReadUser(p)
  <2>1. \/ req'[p] \in {Answer(r, "error"), Answer(r, "unauthorized")}
        \/ req'[p] = Carrying(r, "roles", Snapshot(r.uid))
    BY <1>1, <1>5 DEF ReadUser, Carrying
  <2> QED BY <2>1, <1>a, <1>b
<1>6. CASE ReadRoles(p)
  <2>1. \/ req'[p] = Answer(r, "error")
        \/ req'[p] = [r EXCEPT !.pc = "perms", !.sess.roles = userRoles[r.uid]]
    BY <1>1, <1>6 DEF ReadRoles
  <2>2. [r EXCEPT !.pc = "perms", !.sess.roles = userRoles[r.uid]]
        = Carrying(r, "perms", [r.sess EXCEPT !.roles = userRoles[r.uid]])
    BY DEF Carrying
  <2> QED BY <2>1, <2>2, <1>a, <1>b
<1>7. CASE ReadPerms(p)
  <2>1. \/ req'[p] = Answer(r, "error")
        \/ req'[p] = [r EXCEPT !.pc = "fill", !.sess.perms = PermsOf(userRoles[r.uid])]
    BY <1>1, <1>7 DEF ReadPerms
  <2>2. [r EXCEPT !.pc = "fill", !.sess.perms = PermsOf(userRoles[r.uid])]
        = Carrying(r, "fill", [r.sess EXCEPT !.perms = PermsOf(userRoles[r.uid])])
    BY DEF Carrying
  <2> QED BY <2>1, <2>2, <1>a, <1>b
<1>8. CASE FillCache(p)
  <2>1. r.pc = "fill" /\ req'[p] = Decide(r, r.sess)
    BY <1>1, <1>8 DEF FillCache
  <2>2. r.sess \in Session
    BY <1>1, <2>1 DEF IInv, ReqInv, ReqControl
  <2> QED BY <2>1, <2>2, <1>c
<1> QED BY <1>4, <1>5, <1>6, <1>7, <1>8
(* The tails of Login and Refresh: a refresh succeeds only once the old    *)
(* record has been deleted.                                                *)
LEMMA RefreshOwn ==
    ASSUME EInv, Grows, NEW p \in Procs,
           SaveRecord(p) \/ Rotate(p) \/ DropOutdated(p) \/ DropBanned(p) \/ EvictBanned(p)
    PROVE  Own(p)
<1> DEFINE r == req[p]
<1>1. /\ r \in Request /\ Now(r) /\ req \in [Procs -> Request] /\ IInv
      /\ issued \subseteq issued' /\ refresh \in [Tokens -> Record \cup {NoRecord}]
  BY DEF EInv, IInv, TypeOK, Grows
<1>2. r.pc \in {"save", "rotate", "drop", "evict", "uncache"}
  BY DEF SaveRecord, Rotate, DropOutdated, DropBanned, EvictBanned
<1>3. Running(r) /\ r.op # "logout"
  BY <1>1, <1>2 DEF Running, Now, Left, LogoutWay
<1>b. ASSUME NEW out \in {"unauthorized", "error"}, req'[p] = Answer(r, out)
      PROVE  Own(p)
  BY <1>1, <1>b, Refused DEF Own
<1>4. CASE SaveRecord(p)
  <2>1. PICK t \in Tokens :
          \/ req'[p] = Answer(r, "error")
          \/ r.op = "login" /\ req'[p] = Answer(Holding(r, t), "ok")
          \/ r.op = "refresh" /\ req'[p] = At(Holding(r, t), "rotate")
    BY <1>1, <1>4 DEF SaveRecord, Holding, At
  <2> DEFINE h == Holding(r, t)
  <2>2. h \in Request /\ h.op = r.op /\ h.tok = r.tok
    BY <1>1 DEF Holding, Request
  <2>3. CASE r.op = "login" /\ req'[p] = Answer(h, "ok")
    <3> HIDE DEF h, r
    <3>1. Answer(h, "ok").op = "login"
      BY <2>2, <2>3, AnswerEntry
    <3> QED BY <2>3, <3>1, NothingLeft DEF Own
  <2>4. CASE r.op = "refresh" /\ req'[p] = At(h, "rotate")
    <3> DEFINE g == At(h, "rotate")
    <3> HIDE DEF h, r
    <3>1. g.op = r.op /\ g.tok = r.tok /\ g.pc = "rotate"
      BY <2>2 DEF At, Request
    <3> HIDE DEF g
    <3>2. After(g)
      BY <1>1, <1>3, <3>1, GoingOn DEF Running
    <3> QED BY <2>4, <3>2 DEF Own, g
  <2> QED BY <2>1, <2>3, <2>4, <1>b
<1>5. CASE Rotate(p)
  <2> DEFINE a == Answer(r, "ok")
  <2>1. r.pc = "rotate" /\ req'[p] = a
    BY <1>1, <1>5 DEF Rotate
  <2>2. r.op = "refresh" /\ r.tok \in Tokens
    BY <1>1, <2>1 DEF IInv, ReqInv, ReqControl
  <2>3. "redis" \notin Faults => refresh'[r.tok] = NoRecord
    BY <1>1, <1>5, <2>2 DEF Rotate, DeleteRecord, Outcomes, Applied
  <2>4. r.tok \in issued'
    BY <1>1, <1>3, <2>2 DEF Now, Left, TokenIssued
  <2> HIDE DEF r
  <2>5. a.pc = "done" /\ a.op = "refresh" /\ a.tok = r.tok
    BY <1>1, <2>2, AnswerEntry
  <2> HIDE DEF a
  <2>6. After(a)
    BY <2>3, <2>4, <2>5
       DEF After, Left, TokenIssued, LogoutWay, RecordGone, VersionMoved, Running
  <2> QED BY <2>1, <2>6 DEF Own
<1>6. CASE DropOutdated(p) \/ EvictBanned(p)
  <2>1. req'[p] = Answer(r, "unauthorized")
    BY <1>1, <1>6 DEF DropOutdated, EvictBanned
  <2> QED BY <2>1, <1>b
<1>7. CASE DropBanned(p)
  <2> DEFINE g == At(r, "uncache")
  <2>1. req'[p] = g
    BY <1>1, <1>7 DEF DropBanned, At
  <2>2. g.op = r.op /\ g.tok = r.tok /\ g.pc = "uncache"
    BY <1>1 DEF At, Request
  <2> HIDE DEF g, r
  <2>3. After(g)
    BY <1>1, <1>3, <2>2, GoingOn DEF Running
  <2> QED BY <2>1, <2>3 DEF Own
<1> QED BY <1>4, <1>5, <1>6, <1>7

(* The tail of Logout: the row moves on first, and the record goes last.   *)
LEMMA LogoutOwn ==
    ASSUME EInv, Grows, NEW p \in Procs,
           BumpVersion(p) \/ ClearSession(p) \/ Revoke(p)
    PROVE  Own(p)
<1> DEFINE r == req[p]
<1>1. /\ r \in Request /\ Now(r) /\ req \in [Procs -> Request] /\ IInv /\ ReqInv(r)
      /\ issued \subseteq issued' /\ refresh \in [Tokens -> Record \cup {NoRecord}]
      /\ users \in [Users -> Row]
  BY DEF EInv, IInv, TypeOK, TableTypeOK, Grows
<1>2. r.pc \in {"bump", "clear", "revoke"} /\ Running(r)
  BY DEF BumpVersion, ClearSession, Revoke, Running
<1>3. r.op = "logout" /\ r.tok \in Tokens /\ r.uid \in Users
  BY <1>1, <1>2 DEF ReqInv, ReqControl
<1>4. r.tok \in issued'
  BY <1>1, <1>2, <1>3 DEF Now, Left, TokenIssued
<1>5. CASE BumpVersion(p)
  <2> DEFINE g == At(r, "clear")
  <2>1. req'[p] = g
    BY <1>1, <1>5 DEF BumpVersion, At
  <2>2. g.op = r.op /\ g.tok = r.tok /\ g.pc = "clear" /\ g.uid = r.uid /\ g.want = r.want
    BY <1>1 DEF At, Request
  <2>3. "postgres" \notin Faults =>
          users'[r.uid].ver > r.want \/ users'[r.uid].st # "live"
    <3>1. r.want \in Nat /\ users[r.uid].ver \in Nat /\ r.want <= users[r.uid].ver
      BY <1>1, <1>3, SentinelAssumption DEF ReqInv, ReqVersions, Request, Row
    <3>2. CASE Live(r.uid) /\ users' = [users EXCEPT ![r.uid].ver = @ + 1]
      BY <1>1, <1>3, <3>1, <3>2 DEF Row
    <3>3. CASE ~Live(r.uid) /\ users' = users
      BY <3>3 DEF Live
    <3> QED BY <1>5, <3>2, <3>3
            DEF BumpVersion, IncrementTokenVersion, Outcomes, Applied
  <2> HIDE DEF g, r
  <2>4. After(g)
    BY <1>3, <1>4, <2>2, <2>3
       DEF After, Left, TokenIssued, LogoutWay, RecordGone, VersionMoved, Succeeded
  <2> QED BY <2>1, <2>4 DEF Own
<1>6. CASE ClearSession(p)
  <2> DEFINE g == At(r, "revoke")
  <2>1. req'[p] = g /\ r.pc = "clear" /\ users' = users
    BY <1>1, <1>6 DEF ClearSession, At, tableVars
  <2>2. g.op = r.op /\ g.tok = r.tok /\ g.pc = "revoke" /\ g.uid = r.uid /\ g.want = r.want
    BY <1>1 DEF At, Request
  <2> HIDE DEF g, r
  <2>3. After(g)
    BY <1>1, <1>3, <1>4, <2>1, <2>2
       DEF Now, After, Left, TokenIssued, LogoutWay, RecordGone, VersionMoved, Succeeded
  <2> QED BY <2>1, <2>3 DEF Own
<1>7. CASE Revoke(p)
  <2> DEFINE a == Answer(r, "ok")
  <2>1. req'[p] = a /\ r.pc = "revoke" /\ users' = users
    BY <1>1, <1>7 DEF Revoke, tableVars
  <2>2. "redis" \notin Faults => refresh'[r.tok] = NoRecord
    BY <1>1, <1>3, <1>7 DEF Revoke, DeleteRecord, Outcomes, Applied
  <2> HIDE DEF r
  <2>3. a.pc = "done" /\ a.op = "logout" /\ a.tok = r.tok /\ a.uid = r.uid /\ a.want = r.want
    BY <1>1, <1>3, AnswerEntry
  <2> HIDE DEF a
  <2>4. After(a)
    BY <1>1, <1>3, <1>4, <2>1, <2>2, <2>3
       DEF Now, After, Left, TokenIssued, LogoutWay, RecordGone, VersionMoved, Running
  <2> QED BY <2>1, <2>4 DEF Own
<1> QED BY <1>5, <1>6, <1>7

-----------------------------------------------------------------------------
(* The inductive invariant.                                                *)

(* No request has left anything behind at the start.                       *)
LEMMA EffectInit == Init => EInv
<1> SUFFICES ASSUME Init PROVE EInv
  OBVIOUS
<1>1. \A p \in Procs : Now(req[p])
  BY DEF Init, AuthInit, Idle, Now, Left, TokenIssued, LogoutWay, RecordGone,
         VersionMoved, Running, Succeeded
<1> QED BY <1>1, InitInv DEF EInv

(* A step of p keeps what the others left, and its own is accounted for.   *)
LEMMA EffectStep ==
    ASSUME EInv, NEW p \in Procs, Start(p) \/ Continue(p)
    PROVE  EInv'
<1>1. IInv' /\ Contract(p) /\ Grows
  BY ProcInv, StepGrows DEF EInv
<1>2. \A u \in Users : users'[u].ver \in Nat /\ users'[u].ver >= users[u].ver
  BY <1>1 DEF IInv, TypeOK, TableTypeOK, Row, Contract
<1>3. \A t \in issued : refresh'[t] \in {refresh[t], NoRecord}
  BY <1>1 DEF Contract, StoresKept
<1>4. \A q \in Procs \ {p} : req'[q] = req[q] /\ req[q] \in Request /\ Now(req[q])
  BY <1>1 DEF Contract, EInv, IInv, TypeOK
<1>5. \A q \in Procs \ {p} : After(req'[q])
  BY <1>1, <1>2, <1>3, <1>4, LeftStays DEF EInv
<1>6. After(req'[p])
  <2>1. CASE Return(p)
    <3>1. req'[p] = Idle
      BY <2>1 DEF Return, EInv, IInv, TypeOK
    <3> QED BY <3>1 DEF Idle, After, Left, TokenIssued, LogoutWay, RecordGone,
                        VersionMoved, Running, Succeeded
  <2> QED BY <1>1, <2>1, StartOwn, LoadOwn, RefreshOwn, LogoutOwn DEF Continue, Step, Own
<1>7. \A q \in Procs : After(req'[q])
  BY <1>5, <1>6
<1> QED BY <1>1, <1>7 DEF EInv, Now, After

(* An expiry lets records go.                                              *)
LEMMA EffectExpire ==
    ASSUME EInv, Expire
    PROVE  EInv'
<1>1. IInv' /\ Shrinks
  BY ExpireInv DEF EInv
<1>2. issued' = issued /\ users' = users /\ req' = req
  BY DEF Expire, ExpireSession, ExpireRecord, tableVars
<1>3. Grows
  BY <1>2 DEF Grows, Live
<1>4. \A q \in Procs : After(req[q])
  <2>1. \A u \in Users : users'[u].ver \in Nat /\ users'[u].ver >= users[u].ver
    BY <1>2 DEF EInv, IInv, TypeOK, TableTypeOK, Row
  <2>2. \A t \in issued : refresh'[t] \in {refresh[t], NoRecord}
    BY <1>1 DEF Shrinks, EInv, IInv, TypeOK
  <2>3. \A q \in Procs : req[q] \in Request /\ Now(req[q])
    BY DEF EInv, IInv, TypeOK
  <2> QED BY <1>3, <2>1, <2>2, <2>3, LeftStays DEF EInv
<1> QED BY <1>1, <1>2, <1>4 DEF EInv, Now, After

(* What a request in flight has still to do, or has left behind for good,  *)
(* holds at each of its control points.                                    *)
THEOREM EffectInvariance == Spec => []EInv
<1>1. EInv /\ [Next]_vars => EInv'
  <2> SUFFICES ASSUME EInv, [Next]_vars PROVE EInv'
    OBVIOUS
  <2>1. CASE UNCHANGED vars
    BY <2>1, StutterInv DEF EInv, Now, vars
  <2> QED BY <2>1, EffectStep, EffectExpire DEF Next
<1> QED BY <1>1, EffectInit, PTL DEF Spec

(* While Redis answers, a refresh or a logout that reported success has    *)
(* removed the record of the token it was given, and no request in flight  *)
(* has put it back since, whatever PostgreSQL does.                        *)
THEOREM RecordsGo ==
    "redis" \notin Faults =>
      (Spec => [](\A p \in Procs : RecordGone(req[p], refresh)))
<1> SUFFICES ASSUME "redis" \notin Faults
             PROVE  Spec => [](\A p \in Procs : RecordGone(req[p], refresh))
  OBVIOUS
<1>1. EInv => \A p \in Procs : RecordGone(req[p], refresh)
  BY DEF EInv, Now, Left
<1> QED BY <1>1, EffectInvariance, PTL

(* While PostgreSQL answers, a logout that reported success has moved the  *)
(* row past the version of the record it was given, unless the account is  *)
(* gone, and it stays past it, whatever Redis does.                        *)
THEOREM VersionsMove ==
    "postgres" \notin Faults =>
      (Spec => [](\A p \in Procs : VersionMoved(req[p], users)))
<1> SUFFICES ASSUME "postgres" \notin Faults
             PROVE  Spec => [](\A p \in Procs : VersionMoved(req[p], users))
  OBVIOUS
<1>1. EInv => \A p \in Procs : VersionMoved(req[p], users)
  BY DEF EInv, Now, Left
<1> QED BY <1>1, EffectInvariance, PTL

(* With working stores a reported success has left its effect behind, for  *)
(* every number of requests and however they interleave                    *)
(* (auth/service.go:220-231, 270).                                         *)
THEOREM SuccessesLast == Faults = {} => (Spec => []SuccessLeavesEffect)
<1> SUFFICES ASSUME Faults = {} PROVE Spec => []SuccessLeavesEffect
  OBVIOUS
<1>1. EInv => SuccessLeavesEffect
  BY DEF EInv, Now, Left, RecordGone, VersionMoved, Succeeded, SuccessLeavesEffect, Live
<1> QED BY <1>1, EffectInvariance, PTL
=============================================================================
