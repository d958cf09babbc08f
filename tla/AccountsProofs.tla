--------------------------- MODULE AccountsProofs ---------------------------
(***************************************************************************)
(* Proofs about Accounts, the flows and the administration handlers over   *)
(* the same tables, for every number of users, requests, roles and tokens, *)
(* whatever store calls fail.  The version arguments of AuthServiceProofs  *)
(* do not hold here (UpdateUser writes old versions back), so the          *)
(* invariant AccInv says other things: what a session under construction   *)
(* names and grants, where a handler has a row in hand, and that an email  *)
(* belongs to one row.                                                     *)
(***************************************************************************)
EXTENDS Accounts, AuthServiceProofs

(* No two rows share an email, deleted ones included.                      *)
UniqueEmails ==
    \A u, w \in Users :
       /\ users[u].st # "absent" /\ users[w].st # "absent"
       /\ users[u].email = users[w].email
       => u = w

(* The session a request carries is its user's; between the two queries    *)
(* its roles are among the user's, and from then on it is coherent.        *)
SessionSound(r) ==
    /\ r.sess # NoSession => r.uid \in Users
    /\ r.pc = "perms" => r.sess.roles \subseteq userRoles[r.uid]
    /\ r.sess # NoSession /\ r.pc \notin {"roles", "perms"} /\ r.out # "error"
       => CoherentSession(r.uid, r.sess)

GoodReq(r) == /\ r \in Request /\ ReqControl(r) /\ SessionSound(r)
              /\ Running(r) => r.out # "error"

(* A handler that has more to do knows the row it does it to.              *)
AdmControl(h) == /\ h.pc \in {"role", "assign", "write"} => h.uid \in Users
                 /\ h.pc \in {"role", "assign"} => h.role \in Roles

CacheCoherent ==
    \A u \in Users : sessions[u] # NoSession => CoherentSession(u, sessions[u])

AccInv == /\ AccountsTypeOK
          /\ UniqueEmails
          /\ CacheCoherent
          /\ \A p \in Procs : GoodReq(req[p])
          /\ \A p \in Procs : AdmControl(adm[p])
-----------------------------------------------------------------------------
(* What a request looks like after it has moved on.                        *)

(* The idle request, with any operation, is good.                          *)
LEMMA IdleGood ==
    ASSUME NEW op \in Ops
    PROVE  /\ GoodReq([Idle EXCEPT !.op = op])
           /\ [Idle EXCEPT !.op = op].op = op
           /\ [Idle EXCEPT !.op = op].pc = "idle"
           /\ [Idle EXCEPT !.op = op].out = "none"
           /\ [Idle EXCEPT !.op = op].sess = NoSession
  BY SentinelAssumption
     DEF Idle, Ops, GoodReq, ReqControl, SessionSound, Running, Request, Control

(* An answer ends a request's obligations; only an error may leave a       *)
(* session half built.                                                     *)
LEMMA AnswerGood ==
    ASSUME NEW r, GoodReq(r), NEW out \in {"ok", "unauthorized", "error"},
           out # "error" => r.pc \notin {"roles", "perms"} /\ r.out # "error"
    PROVE  /\ GoodReq(Answer(r, out))
           /\ Answer(r, out).pc = "done" /\ Answer(r, out).out = out
           /\ Answer(r, out).op = r.op /\ Answer(r, out).uid = r.uid
           /\ Answer(r, out).tok = r.tok /\ Answer(r, out).sess = r.sess
           /\ Answer(r, out).want = r.want /\ Answer(r, out).new = r.new
<1> DEFINE a == Answer(r, out)
<1>1. r \in Request
  BY DEF GoodReq
<1>2. Audited(r.op, out) \in {"none", "success", "failure"}
  BY <1>1 DEF Audited, Request, Ops
<1>3. a = [r EXCEPT !.pc = "done", !.out = out, !.entry = Audited(r.op, out)]
  BY DEF Answer
<1>4. a \in Request
  BY <1>1, <1>2, <1>3 DEF Request, Control
<1>5. /\ a.pc = "done" /\ a.out = out /\ a.op = r.op /\ a.uid = r.uid
      /\ a.tok = r.tok /\ a.sess = r.sess /\ a.want = r.want /\ a.new = r.new
  BY <1>1, <1>3 DEF Request
<1> HIDE DEF a
<1>6. ReqControl(a) /\ SessionSound(a) /\ ~Running(a)
  BY <1>5 DEF GoodReq, ReqControl, SessionSound, Running
<1> QED BY <1>4, <1>5, <1>6 DEF GoodReq, a

(* Going on to another control point, with the session s in hand.          *)
LEMMA CarryGood ==
    ASSUME NEW r, GoodReq(r), Running(r),
           NEW pc \in Control \ {"idle", "done"},
           NEW s \in Session \cup {NoSession},
           pc \in {"roles", "perms", "fill", "save", "rotate"} => s \in Session,
           pc \in {"rotate", "drop", "evict", "bump", "clear", "revoke"} => r.tok \in Tokens,
           pc = "rotate" => r.new \in Tokens /\ r.op = "refresh",
           pc \in {"bump", "clear", "revoke"} => r.op = "logout",
           pc = "perms" => s.roles \subseteq userRoles[r.uid],
           s # NoSession /\ pc \notin {"roles", "perms"} => CoherentSession(r.uid, s)
    PROVE  /\ GoodReq(Carrying(r, pc, s))
           /\ Carrying(r, pc, s).pc = pc /\ Carrying(r, pc, s).sess = s
           /\ Carrying(r, pc, s).op = r.op /\ Carrying(r, pc, s).uid = r.uid
           /\ Carrying(r, pc, s).tok = r.tok /\ Carrying(r, pc, s).want = r.want
<1> DEFINE q == Carrying(r, pc, s)
<1>1. r \in Request /\ r.uid \in Users /\ r.out # "error"
  BY DEF GoodReq, ReqControl
<1>2. /\ q \in Request /\ q.pc = pc /\ q.sess = s /\ q.op = r.op /\ q.uid = r.uid
      /\ q.tok = r.tok /\ q.new = r.new /\ q.want = r.want /\ q.out = r.out
  BY <1>1 DEF Request, Carrying
<1> HIDE DEF q
<1>3. ReqControl(q)
  BY <1>1, <1>2 DEF GoodReq, ReqControl, Running
<1>4. SessionSound(q)
  BY <1>1, <1>2 DEF SessionSound
<1> QED BY <1>1, <1>2, <1>3, <1>4 DEF GoodReq, q

(* Deciding on a coherent session.                                         *)
LEMMA DecideGood ==
    ASSUME NEW r, GoodReq(r), Running(r), r.pc \notin {"roles", "perms"},
           NEW s \in Session, CoherentSession(r.uid, s)
    PROVE  /\ GoodReq(Decide(r, s))
           /\ Decide(r, s).uid = r.uid
           /\ Decide(r, s).pc \in {"save", "drop", "evict", "done"}
           /\ Accepted(Decide(r, s)) => s.active
<1> DEFINE q == [r EXCEPT !.sess = s]
<1>1. r \in Request /\ r.uid \in Users /\ r.out # "error"
  BY DEF GoodReq, ReqControl
<1>2. r.op = "refresh" => r.tok \in Tokens
  BY DEF GoodReq, ReqControl
<1>3. s # NoSession
  BY SentinelAssumption
<1>a. ASSUME NEW pc \in {"save", "drop", "evict"}, pc # "save" => r.op = "refresh",
             Decide(r, s) = [q EXCEPT !.pc = pc]
      PROVE  /\ GoodReq(Decide(r, s)) /\ Decide(r, s).uid = r.uid
             /\ Decide(r, s).pc = pc /\ Decide(r, s).op = r.op
  <2>1. Decide(r, s) = Carrying(r, pc, s)
    BY <1>1, <1>a DEF Carrying, Request
  <2>2. pc \in Control \ {"idle", "done"}
    BY DEF Control
  <2>3. /\ GoodReq(Carrying(r, pc, s)) /\ Carrying(r, pc, s).uid = r.uid
        /\ Carrying(r, pc, s).pc = pc /\ Carrying(r, pc, s).op = r.op
    <3> HIDE DEF q
    <3>1. pc \in {"drop", "evict"} => r.tok \in Tokens
      BY <1>a, <1>2
    <3>2. pc \notin {"rotate", "bump", "clear", "revoke", "perms"}
      OBVIOUS
    <3> QED BY ONLY <2>2, <3>1, <3>2, CarryGood, GoodReq(r), Running(r), s \in Session,
                    CoherentSession(r.uid, s), pc \in {"save", "drop", "evict"}
  <2> QED BY <2>1, <2>3
<1>4. CASE r.op = "login"
  <2>1. Decide(r, s) = [q EXCEPT !.pc = "save"]
    BY <1>4 DEF Decide
  <2> HIDE DEF q
  <2> QED BY <2>1, <1>a, <1>4 DEF Accepted
<1>5. CASE r.op = "refresh"
  <2>1. CASE s.ver # r.want
    <3>1. Decide(r, s) = [q EXCEPT !.pc = "drop"]
      BY <1>5, <2>1 DEF Decide
    <3> HIDE DEF q
    <3> QED BY <3>1, <1>a, <1>5 DEF Accepted
  <2>2. CASE s.ver = r.want /\ ~s.active
    <3>1. Decide(r, s) = [q EXCEPT !.pc = "evict"]
      BY <1>5, <2>2 DEF Decide
    <3> HIDE DEF q
    <3> QED BY <3>1, <1>a, <1>5 DEF Accepted
  <2>3. CASE s.ver = r.want /\ s.active
    <3>1. Decide(r, s) = [q EXCEPT !.pc = "save"]
      BY <1>5, <2>3 DEF Decide
    <3> HIDE DEF q
    <3> QED BY <3>1, <1>a, <1>5, <2>3
  <2> QED BY <2>1, <2>2, <2>3
<1>6. CASE r.op \notin {"login", "refresh"}
  <2> DEFINE out == IF s.active /\ s.ver = r.want THEN "ok" ELSE "unauthorized"
  <2>1. Decide(r, s) = Answer(q, out)
    BY <1>6 DEF Decide
  <2>2. out \in {"ok", "unauthorized", "error"} /\ (out = "ok" => s.active)
    OBVIOUS
  <2>3. /\ q \in Request /\ q.pc = r.pc /\ q.sess = s /\ q.op = r.op /\ q.uid = r.uid
        /\ q.tok = r.tok /\ q.new = r.new /\ q.out = r.out
    BY <1>1 DEF Request
  <2> HIDE DEF q, out
  <2>4. GoodReq(q)
    BY <2>3, <1>1 DEF GoodReq, ReqControl, SessionSound, Running
  <2>5. /\ GoodReq(Answer(q, out)) /\ Answer(q, out).pc = "done"
        /\ Answer(q, out).out = out /\ Answer(q, out).op = q.op
        /\ Answer(q, out).uid = q.uid
    BY <2>2, <2>3, <2>4, <1>1, AnswerGood
  <2> QED BY <2>1, <2>2, <2>3, <2>5, <1>6 DEF Accepted
<1> QED BY <1>4, <1>5, <1>6
-----------------------------------------------------------------------------
(* What a step does to the tables and stores, and what follows from it.    *)

(* A request that turns from r into q neither fills the cache with an      *)
(* active session nor accepts a credential for a user who is shut out.     *)
Honest(r, q) ==
    \A u \in Users : q.uid = u /\ ShutOut(u) =>
        /\ q.pc \in Filling => ~q.sess.active
        /\ Accepted(q) => Accepted(r)

RowsKept ==
    /\ users' \in [Users -> Row]
    /\ \A u \in Users : /\ users'[u].st = users[u].st
                        /\ users'[u].email = users[u].email
                        /\ users'[u].active = users[u].active
                        /\ users[u].st = "deleted" => users'[u] = users[u]

CacheKept(p) ==
    /\ sessions' \in [Users -> Session \cup {NoSession}]
    /\ \A u \in Users : \/ sessions'[u] \in {sessions[u], NoSession}
                        \/ /\ req[p].pc = "fill" /\ req[p].uid = u
                           /\ sessions'[u] = req[p].sess

RecordsKept ==
    /\ refresh' \in [Tokens -> Record \cup {NoRecord}]
    /\ \A t \in issued : refresh'[t] \in {refresh[t], NoRecord}

ClientsKept == issued' \subseteq Tokens /\ access' \subseteq Claims

HandlersKept == /\ adm' \in [Procs -> Handler]
                /\ \A p \in Procs : AdmControl(adm'[p])

(* What the action properties ask of a step.                               *)
StaysShut ==
    \A u \in Users : ShutOut(u) /\ Barred(u)' =>
        /\ ShutOut(u)'
        /\ \A p \in Procs : req'[p].uid = u /\ Accepted(req'[p]) => Accepted(req[p])
DeletedKept == \A u \in Users : users[u].st = "deleted" => users'[u] = users[u]
DeadKept == \A t \in Tokens : t \in issued /\ refresh[t] = NoRecord =>
                                refresh'[t] = NoRecord
Promise == StaysShut /\ DeletedKept /\ DeadKept

(* A step of one request.                                                  *)
LEMMA AuthStep ==
    ASSUME AccInv, NEW p \in Procs, NEW r, GoodReq(r), Honest(req[p], r),
           req' = [req EXCEPT ![p] = r], UNCHANGED userRoles,
           RowsKept, CacheKept(p), RecordsKept, ClientsKept, HandlersKept
    PROVE  AccInv' /\ Promise
<1>1. req' \in [Procs -> Request]
  BY DEF AccInv, AccountsTypeOK, TypeOK, GoodReq
<1>2. req'[p] = r /\ \A q \in Procs \ {p} : req'[q] = req[q]
  BY DEF AccInv, AccountsTypeOK, TypeOK
<1>3. AccountsTypeOK'
  BY <1>1 DEF AccInv, AccountsTypeOK, TypeOK, TableTypeOK, AdmTypeOK, RowsKept,
              CacheKept, RecordsKept, ClientsKept, HandlersKept
<1>4. UniqueEmails'
  BY DEF AccInv, UniqueEmails, RowsKept
<1>5. \A u, s : CoherentSession(u, s)' <=> CoherentSession(u, s)
  BY DEF CoherentSession
<1>6. \A q \in Procs : GoodReq(req[q])'
  <2>1. \A x : GoodReq(x)' <=> GoodReq(x)
    BY <1>5 DEF GoodReq, SessionSound, ReqControl, Running
  <2>2. \A q \in Procs : GoodReq(req'[q])
    BY <1>2 DEF AccInv
  <2> QED BY <2>1, <2>2
<1>7. req[p].pc = "fill" =>
        req[p].sess # NoSession /\ CoherentSession(req[p].uid, req[p].sess)
  BY SentinelAssumption DEF AccInv, GoodReq, SessionSound, ReqControl, Running
<1>8. CacheCoherent'
  BY <1>5, <1>7 DEF AccInv, CacheCoherent, CacheKept
<1>9. AccInv'
  BY <1>3, <1>4, <1>6, <1>8 DEF AccInv, HandlersKept
<1>10. ASSUME NEW u \in Users, ShutOut(u), Barred(u)'
       PROVE  /\ ShutOut(u)'
              /\ \A q \in Procs : req'[q].uid = u /\ Accepted(req'[q]) => Accepted(req[q])
  <2>1. sessions'[u] # NoSession => ~sessions'[u].active
    BY <1>10 DEF CacheKept, ShutOut, Filling
  <2>2. \A q \in Procs : req'[q].uid = u /\ req'[q].pc \in Filling => ~req'[q].sess.active
    BY <1>2, <1>10 DEF Honest, ShutOut
  <2>3. \A q \in Procs : req'[q].uid = u /\ Accepted(req'[q]) => Accepted(req[q])
    BY <1>2, <1>10 DEF Honest
  <2> QED BY <1>10, <2>1, <2>2, <2>3 DEF ShutOut
<1>11. DeletedKept /\ DeadKept
  BY DEF RowsKept, RecordsKept, DeletedKept, DeadKept
<1> QED BY <1>9, <1>10, <1>11 DEF Promise, StaysShut

(* Whatever a step leaves alone it keeps.                                  *)
LEMMA Alone ==
    ASSUME AccInv, NEW p \in Procs
    PROVE  /\ UNCHANGED users => RowsKept
           /\ UNCHANGED sessions => CacheKept(p)
           /\ UNCHANGED refresh => RecordsKept
           /\ UNCHANGED <<issued, access>> => ClientsKept
           /\ UNCHANGED adm => HandlersKept
           /\ req[p].tok \in Tokens /\ DeleteRecord(p) => RecordsKept
           /\ req[p].uid \in Users /\ DeleteSession(req[p].uid) => CacheKept(p)
<1>1. UNCHANGED users => RowsKept
  BY DEF AccInv, AccountsTypeOK, TypeOK, TableTypeOK, RowsKept
<1>2. UNCHANGED sessions => CacheKept(p)
  BY DEF AccInv, AccountsTypeOK, TypeOK, CacheKept
<1>3. UNCHANGED refresh => RecordsKept
  BY DEF AccInv, AccountsTypeOK, TypeOK, RecordsKept
<1>4. UNCHANGED <<issued, access>> => ClientsKept
  BY DEF AccInv, AccountsTypeOK, TypeOK, ClientsKept
<1>5. UNCHANGED adm => HandlersKept
  BY DEF AccInv, AccountsTypeOK, AdmTypeOK, HandlersKept
<1>6. ASSUME req[p].tok \in Tokens, DeleteRecord(p) PROVE RecordsKept
  <2>1. CASE refresh' = [refresh EXCEPT ![req[p].tok] = NoRecord]
    BY <1>6, <2>1 DEF AccInv, AccountsTypeOK, TypeOK, RecordsKept
  <2> QED BY <1>3, <1>6, <2>1 DEF DeleteRecord
<1>7. ASSUME req[p].uid \in Users, DeleteSession(req[p].uid) PROVE CacheKept(p)
  <2>1. CASE sessions' = [sessions EXCEPT ![req[p].uid] = NoSession]
    BY <1>7, <2>1 DEF AccInv, AccountsTypeOK, TypeOK, CacheKept
  <2> QED BY <1>2, <1>7, <2>1 DEF DeleteSession
<1> QED BY <1>1, <1>2, <1>3, <1>4, <1>5, <1>6, <1>7

(* A step that only changes one request.                                   *)
LEMMA RequestGood ==
    ASSUME AccInv, NEW p \in Procs, NEW r, GoodReq(r), Honest(req[p], r),
           req' = [req EXCEPT ![p] = r], HandlersKept,
           UNCHANGED <<tableVars, storeVars, issued, access>>
    PROVE  AccInv' /\ Promise
<1>1. UNCHANGED <<users, userRoles, sessions, refresh, issued, access>>
  BY DEF tableVars, storeVars
<1> QED BY <1>1, Alone, AuthStep
-----------------------------------------------------------------------------
(* The first steps of a request.                                           *)

(* An answer is honest: it starts no fill, and accepts only what the       *)
(* middleware answers with ok.                                             *)
LEMMA AnswerHonest ==
    ASSUME NEW r, NEW i, GoodReq(i), NEW out \in {"ok", "unauthorized", "error"},
           out # "error" => i.pc \notin {"roles", "perms"} /\ i.out # "error",
           out = "ok" => i.op # "access"
    PROVE  GoodReq(Answer(i, out)) /\ Honest(r, Answer(i, out))
<1> DEFINE a == Answer(i, out)
<1>1. GoodReq(a) /\ a.pc = "done" /\ a.out = out /\ a.op = i.op
  BY AnswerGood
<1> HIDE DEF a
<1>2. Honest(r, a)
  BY <1>1 DEF Honest, Filling, Accepted
<1> QED BY <1>1, <1>2 DEF a

(* A blank credential is answered at once.                                 *)
LEMMA RejectBlankGood ==
    ASSUME AccInv, NEW p \in Procs, NEW op \in Ops, RejectBlank(p, op), HandlersKept
    PROVE  AccInv' /\ Promise
<1> DEFINE i == [Idle EXCEPT !.op = op]
           b == [Idle EXCEPT !.op = op, !.pc = "done", !.out = "ok"]
           r == IF op = "logout" THEN b ELSE Answer(i, "unauthorized")
<1>1. op = "logout" => GoodReq(b) /\ Honest(req[p], b)
  BY SentinelAssumption
     DEF Idle, Ops, GoodReq, ReqControl, SessionSound, Running, Request, Control,
         Honest, Filling, Accepted
<1>2. GoodReq(i) /\ i.pc = "idle" /\ i.out = "none"
  BY IdleGood
<1> HIDE DEF i, b
<1>3. GoodReq(r) /\ Honest(req[p], r)
  BY <1>1, <1>2, AnswerHonest
<1>4. req' = [req EXCEPT ![p] = r] /\ UNCHANGED <<tableVars, storeVars, issued, access>>
  BY DEF RejectBlank, i, b
<1> HIDE DEF r
<1> QED BY <1>3, <1>4, RequestGood

(* What the row of a user gives a session.                                 *)
LEMMA SnapshotGood ==
    ASSUME AccInv, NEW u \in Users
    PROVE  /\ Snapshot(u) \in Session /\ Snapshot(u).active = users[u].active
           /\ users[u].ver \in Nat
  BY DEF AccInv, AccountsTypeOK, TypeOK, TableTypeOK, Row, Snapshot, Session

(* GetByEmail finds at most one row.                                       *)
LEMMA OneRow ==
    ASSUME AccInv, NEW e \in Emails, NEW u \in GetByEmail(e), NEW w \in GetByEmail(e)
    PROVE  u = w
  BY DEF AccInv, UniqueEmails, GetByEmail, Live

(* Login reads the only row of the email: an active one, so its user is    *)
(* not shut out.                                                           *)
LEMMA LoginGood ==
    ASSUME AccInv, NEW p \in Procs, NEW e \in Emails, Login(p, e), HandlersKept
    PROVE  AccInv' /\ Promise
<1> DEFINE i == [Idle EXCEPT !.op = "login"]
           w == CHOOSE u \in GetByEmail(e) : TRUE
           g == [i EXCEPT !.pc = "roles", !.uid = w, !.want = users[w].ver,
                          !.sess = Snapshot(w)]
<1>1. PICK o \in Outcomes("postgres"), m \in BOOLEAN :
        req' = [req EXCEPT ![p] =
                  IF Erred(o) THEN Answer(i, "error")
                  ELSE IF ~\E u \in GetByEmail(e) : users[u].active /\ m
                  THEN Answer(i, "unauthorized") ELSE g]
  BY DEF Login
<1>2. GoodReq(i) /\ i.op = "login" /\ i.pc = "idle" /\ i.out = "none"
  BY IdleGood DEF Ops
<1>3. ASSUME NEW out \in {"error", "unauthorized"}
      PROVE  GoodReq(Answer(i, out)) /\ Honest(req[p], Answer(i, out))
  <2> HIDE DEF i
  <2> QED BY <1>2, AnswerHonest
<1>4. ASSUME \E u \in GetByEmail(e) : users[u].active /\ m
      PROVE  GoodReq(g) /\ Honest(req[p], g)
  <2>1. w \in GetByEmail(e)
    BY <1>4
  <2> HIDE DEF w
  <2>2. w \in Users /\ Live(w) /\ users[w].active
    BY <1>4, <2>1, OneRow DEF GetByEmail
  <2>3. Snapshot(w) \in Session /\ users[w].ver \in Nat
    BY <2>2, SnapshotGood
  <2>4. i \in Request /\ i.op = "login" /\ i.out = "none"
    BY <1>2 DEF GoodReq
  <2> HIDE DEF i
  <2>5. /\ g \in Request /\ g.op = "login" /\ g.pc = "roles" /\ g.uid = w
        /\ g.sess = Snapshot(w) /\ g.out = "none"
    BY <2>2, <2>3, <2>4 DEF Request, Control
  <2> HIDE DEF g
  <2>6. GoodReq(g)
    BY <2>2, <2>3, <2>5 DEF GoodReq, ReqControl, SessionSound, Running
  <2>7. ~ShutOut(w)
    BY <2>2 DEF ShutOut, Barred, Live
  <2> QED BY <2>5, <2>6, <2>7 DEF Honest
<1> DEFINE r == IF Erred(o) THEN Answer(i, "error")
                ELSE IF ~\E u \in GetByEmail(e) : users[u].active /\ m
                THEN Answer(i, "unauthorized") ELSE g
<1>5. GoodReq(r) /\ Honest(req[p], r)
  <2> HIDE DEF i, g
  <2> QED BY <1>3, <1>4
<1>6. req' = [req EXCEPT ![p] = r] /\ UNCHANGED <<tableVars, storeVars, issued, access>>
  BY <1>1 DEF Login
<1> HIDE DEF r
<1> QED BY <1>5, <1>6, RequestGood

(* Refresh and Logout take the user from the record.                       *)
LEMMA LoadRecordGood ==
    ASSUME AccInv, NEW p \in Procs, NEW op \in {"refresh", "logout"}, NEW t \in Tokens,
           LoadRecord(p, op, t), HandlersKept
    PROVE  AccInv' /\ Promise
<1> DEFINE i == [Idle EXCEPT !.op = op, !.tok = t]
           g == [i EXCEPT !.pc = IF op = "refresh" THEN "cache" ELSE "bump",
                          !.uid = refresh[t].uid, !.want = refresh[t].ver]
           n == [Answer(i, "ok") EXCEPT !.entry = "failure"]
<1>1. PICK o \in Outcomes("redis") :
        req' = [req EXCEPT ![p] =
                  IF Erred(o) THEN Answer(i, "error")
                  ELSE IF refresh[t] = NoRecord
                  THEN IF op = "refresh" THEN Answer(i, "unauthorized") ELSE n
                  ELSE g]
  BY DEF LoadRecord
<1>2. /\ GoodReq(i) /\ i.op = op /\ i.tok = t /\ i.pc = "idle" /\ i.out = "none"
      /\ i.sess = NoSession
  BY SentinelAssumption
     DEF Idle, Ops, GoodReq, ReqControl, SessionSound, Running, Request, Control
<1> HIDE DEF i
<1>3. ASSUME NEW out \in {"error", "unauthorized"}
      PROVE  GoodReq(Answer(i, out)) /\ Honest(req[p], Answer(i, out))
  BY <1>2, AnswerHonest
<1>4. ASSUME op = "logout" PROVE GoodReq(n) /\ Honest(req[p], n)
  <2> DEFINE a == Answer(i, "ok")
  <2>1. /\ GoodReq(a) /\ a.pc = "done" /\ a.op = "logout" /\ a.sess = NoSession
    BY <1>2, <1>4, AnswerGood
  <2>2. n = [a EXCEPT !.entry = "failure"]
    OBVIOUS
  <2> HIDE DEF a, n
  <2>3. /\ n \in Request /\ n.pc = "done" /\ n.op = "logout" /\ n.sess = NoSession
    BY <2>1, <2>2 DEF GoodReq, Request
  <2> QED BY <2>3 DEF GoodReq, ReqControl, SessionSound, Running, Honest, Filling,
                      Accepted
<1>5. ASSUME refresh[t] # NoRecord PROVE GoodReq(g) /\ Honest(req[p], g)
  <2>1. refresh[t].uid \in Users /\ refresh[t].ver \in Nat
    BY <1>5 DEF AccInv, AccountsTypeOK, TypeOK, Record
  <2>2. /\ g \in Request /\ g.op = op /\ g.tok = t /\ g.uid = refresh[t].uid
        /\ g.sess = NoSession /\ g.out = "none"
        /\ g.pc = IF op = "refresh" THEN "cache" ELSE "bump"
    BY <1>2, <2>1 DEF GoodReq, Request, Control
  <2> HIDE DEF g
  <2> QED BY <2>1, <2>2 DEF GoodReq, ReqControl, SessionSound, Running, Honest,
                            Filling, Accepted
<1> DEFINE r == IF Erred(o) THEN Answer(i, "error")
                ELSE IF refresh[t] = NoRecord
                THEN IF op = "refresh" THEN Answer(i, "unauthorized") ELSE n
                ELSE g
<1>6. GoodReq(r) /\ Honest(req[p], r)
  <2> HIDE DEF g, n
  <2> QED BY <1>3, <1>4, <1>5
<1>7. req' = [req EXCEPT ![p] = r] /\ UNCHANGED <<tableVars, storeVars, issued, access>>
  BY <1>1 DEF LoadRecord
<1> HIDE DEF r
<1> QED BY <1>6, <1>7, RequestGood

(* The middleware takes the user from a claim that was handed out.         *)
LEMMA AuthenticateGood ==
    ASSUME AccInv, NEW p \in Procs, NEW c \in access, Authenticate(p, c), HandlersKept
    PROVE  AccInv' /\ Promise
<1> DEFINE i == [Idle EXCEPT !.op = "access", !.uid = c.uid, !.want = c.ver]
           g == [i EXCEPT !.pc = "cache"]
<1>1. PICK valid \in BOOLEAN :
        req' = [req EXCEPT ![p] = IF valid THEN g ELSE Answer(i, "unauthorized")]
  BY DEF Authenticate
<1>2. c \in Claims
  BY DEF AccInv, AccountsTypeOK, TypeOK
<1>3. /\ GoodReq(i) /\ i.pc = "idle" /\ i.out = "none" /\ i.sess = NoSession
      /\ i.uid \in Users
  BY <1>2, SentinelAssumption
     DEF Idle, Ops, GoodReq, ReqControl, SessionSound, Running, Request, Control, Claims
<1>4. i.op = "access"
  BY DEF Idle
<1> HIDE DEF i
<1>5. GoodReq(Answer(i, "unauthorized")) /\ Honest(req[p], Answer(i, "unauthorized"))
  BY <1>3, AnswerHonest
<1>6. GoodReq(g) /\ Honest(req[p], g)
  <2>1. /\ g \in Request /\ g.pc = "cache" /\ g.uid = i.uid /\ g.sess = NoSession
        /\ g.out = "none" /\ g.op = "access"
    BY <1>3, <1>4 DEF GoodReq, Request, Control
  <2> HIDE DEF g
  <2> QED BY <1>3, <2>1 DEF GoodReq, ReqControl, SessionSound, Running, Honest,
                            Filling, Accepted
<1> DEFINE r == IF valid THEN g ELSE Answer(i, "unauthorized")
<1>7. GoodReq(r) /\ Honest(req[p], r)
  BY <1>5, <1>6
<1>8. req' = [req EXCEPT ![p] = r] /\ UNCHANGED <<tableVars, storeVars, issued, access>>
  BY <1>1 DEF Authenticate
<1> HIDE DEF r
<1> QED BY <1>7, <1>8, RequestGood
-----------------------------------------------------------------------------
(* The steps of a running request.                                         *)

(* A running request knows its user and has met no error.                  *)
LEMMA RunningGood ==
    ASSUME AccInv, NEW p \in Procs, Running(req[p])
    PROVE  /\ GoodReq(req[p]) /\ req[p] \in Request /\ req[p].uid \in Users
           /\ req[p].out # "error"
  BY DEF AccInv, GoodReq, ReqControl

(* Going on with a session that is not active, or to no fill and to no     *)
(* acceptance, is honest.                                                  *)
LEMMA CarryHonest ==
    ASSUME NEW r, NEW q, q.pc \notin {"save", "rotate", "done"} \/ q.op \notin {"refresh", "access"},
           q.pc \in Filling => (ShutOut(q.uid) => ~q.sess.active)
    PROVE  Honest(r, q)
  BY DEF Honest, Accepted

(* So is a decision on a session that is not active when its user is shut  *)
(* out.                                                                    *)
LEMMA DecideHonest ==
    ASSUME NEW r, GoodReq(r), Running(r), r.pc \notin {"roles", "perms"},
           NEW s \in Session, CoherentSession(r.uid, s), ShutOut(r.uid) => ~s.active
    PROVE  GoodReq(Decide(r, s)) /\ Honest(r, Decide(r, s))
  BY DecideGood DEF Honest, Filling

(* A cache hit is decided on, a miss goes to the table.                    *)
LEMMA LoadSessionGood ==
    ASSUME AccInv, NEW p \in Procs, LoadSession(p), HandlersKept
    PROVE  AccInv' /\ Promise
<1> DEFINE i == req[p]
           s == sessions[i.uid]
           g == At(i, "user")
<1>1. PICK o \in Outcomes("redis") :
        req' = [req EXCEPT ![p] = IF Erred(o) \/ s = NoSession THEN g ELSE Decide(i, s)]
  BY DEF LoadSession, At
<1>2. i.pc = "cache" /\ Running(i)
  BY DEF LoadSession, Running
<1>3. GoodReq(i) /\ i \in Request /\ i.uid \in Users /\ i.out # "error"
  BY <1>2, RunningGood
<1> HIDE DEF i
<1>4. GoodReq(g) /\ Honest(i, g)
  <2>1. g = Carrying(i, "user", i.sess)
    BY <1>3, AtCarries
  <2>2. i.sess \in Session \cup {NoSession}
    BY <1>3 DEF Request
  <2>3. i.sess # NoSession => CoherentSession(i.uid, i.sess)
    BY <1>2, <1>3 DEF GoodReq, SessionSound
  <2>4. GoodReq(g) /\ g.pc = "user"
    BY <1>2, <1>3, <2>1, <2>2, <2>3, CarryGood DEF Control
  <2> QED BY <2>4, CarryHonest DEF Filling
<1>5. ASSUME s # NoSession PROVE GoodReq(Decide(i, s)) /\ Honest(i, Decide(i, s))
  <2>1. s \in Session /\ CoherentSession(i.uid, s)
    BY <1>3, <1>5 DEF AccInv, AccountsTypeOK, TypeOK, CacheCoherent
  <2>2. ShutOut(i.uid) => ~s.active
    BY <1>5 DEF ShutOut
  <2> HIDE DEF s
  <2> QED BY <1>2, <1>3, <2>1, <2>2, DecideHonest
<1> DEFINE r == IF Erred(o) \/ s = NoSession THEN g ELSE Decide(i, s)
<1>6. GoodReq(r) /\ Honest(i, r)
  <2> HIDE DEF g, s
  <2> QED BY <1>4, <1>5
<1>7. req' = [req EXCEPT ![p] = r] /\ UNCHANGED <<tableVars, storeVars, issued, access>>
  BY <1>1 DEF LoadSession
<1> HIDE DEF r
<1> QED BY <1>6, <1>7, RequestGood DEF i

(* A session is built from a live row: inactive for a user who is shut out. *)
LEMMA ReadUserGood ==
    ASSUME AccInv, NEW p \in Procs, ReadUser(p), HandlersKept
    PROVE  AccInv' /\ Promise
<1> DEFINE i == req[p]
           g == Carrying(i, "roles", Snapshot(i.uid))
<1>1. PICK o \in Outcomes("postgres") :
        req' = [req EXCEPT ![p] = IF Erred(o) THEN Answer(i, "error")
                                  ELSE IF ~Live(i.uid) THEN Answer(i, "unauthorized")
                                  ELSE g]
  BY DEF ReadUser, Carrying
<1>2. i.pc = "user" /\ Running(i)
  BY DEF ReadUser, Running
<1>3. GoodReq(i) /\ i \in Request /\ i.uid \in Users /\ i.out # "error"
  BY <1>2, RunningGood
<1> HIDE DEF i
<1>4. ASSUME NEW out \in {"error", "unauthorized"}
      PROVE  GoodReq(Answer(i, out)) /\ Honest(i, Answer(i, out))
  BY <1>2, <1>3, AnswerHonest
<1>5. ASSUME Live(i.uid) PROVE GoodReq(g) /\ Honest(i, g)
  <2>1. Snapshot(i.uid) \in Session /\ Snapshot(i.uid).active = users[i.uid].active
    BY <1>3, SnapshotGood
  <2>2. /\ GoodReq(g) /\ g.pc = "roles" /\ g.sess = Snapshot(i.uid) /\ g.uid = i.uid
    BY <1>2, <1>3, <2>1, CarryGood DEF Control
  <2>3. ShutOut(i.uid) => ~Snapshot(i.uid).active
    BY <1>5, <2>1 DEF ShutOut, Barred, Live
  <2> HIDE DEF g
  <2> QED BY <2>2, <2>3, CarryHonest
<1> DEFINE r == IF Erred(o) THEN Answer(i, "error")
                ELSE IF ~Live(i.uid) THEN Answer(i, "unauthorized") ELSE g
<1>6. GoodReq(r) /\ Honest(i, r)
  <2> HIDE DEF g
  <2> QED BY <1>4, <1>5
<1>7. req' = [req EXCEPT ![p] = r] /\ UNCHANGED <<tableVars, storeVars, issued, access>>
  BY <1>1 DEF ReadUser
<1> HIDE DEF r
<1> QED BY <1>6, <1>7, RequestGood DEF i

(* The roles query: what the session names is what the user has.           *)
LEMMA ReadRolesGood ==
    ASSUME AccInv, NEW p \in Procs, ReadRoles(p), HandlersKept
    PROVE  AccInv' /\ Promise
<1> DEFINE i == req[p]
           s == [i.sess EXCEPT !.roles = userRoles[i.uid]]
           g == Carrying(i, "perms", s)
<1>1. PICK o \in Outcomes("postgres") :
        req' = [req EXCEPT ![p] = IF Erred(o) THEN Answer(i, "error")
                                  ELSE [i EXCEPT !.pc = "perms",
                                                 !.sess.roles = userRoles[i.uid]]]
  BY DEF ReadRoles
<1>2. i.pc = "roles" /\ Running(i)
  BY DEF ReadRoles, Running
<1>3. GoodReq(i) /\ i \in Request /\ i.uid \in Users /\ i.out # "error"
  BY <1>2, RunningGood
<1>4. ShutOut(i.uid) => ~i.sess.active
  BY <1>2 DEF ShutOut, Filling
<1> HIDE DEF i
<1>5. [i EXCEPT !.pc = "perms", !.sess.roles = userRoles[i.uid]] = g
  BY DEF Carrying
<1>6. GoodReq(Answer(i, "error")) /\ Honest(i, Answer(i, "error"))
  BY <1>3, AnswerHonest
<1>7. GoodReq(g) /\ Honest(i, g)
  <2>1. i.sess \in Session /\ userRoles[i.uid] \subseteq Roles
    BY <1>2, <1>3 DEF GoodReq, ReqControl, AccInv, AccountsTypeOK, TypeOK, TableTypeOK
  <2>2. s \in Session /\ s.roles = userRoles[i.uid] /\ s.active = i.sess.active
    BY <2>1 DEF Session
  <2> HIDE DEF s
  <2>3. /\ GoodReq(g) /\ g.pc = "perms" /\ g.sess = s /\ g.uid = i.uid
    BY <1>2, <1>3, <2>2, CarryGood DEF Control
  <2> HIDE DEF g
  <2> QED BY <1>4, <2>2, <2>3, CarryHonest
<1> DEFINE r == IF Erred(o) THEN Answer(i, "error") ELSE g
<1>8. GoodReq(r) /\ Honest(i, r)
  <2> HIDE DEF g
  <2> QED BY <1>6, <1>7
<1>9. req' = [req EXCEPT ![p] = r] /\ UNCHANGED <<tableVars, storeVars, issued, access>>
  BY <1>1, <1>5 DEF ReadRoles
<1> HIDE DEF r
<1> QED BY <1>8, <1>9, RequestGood DEF i

(* The union of what roles permit grows with the roles.                    *)
LEMMA PermsMonotone ==
    ASSUME NEW rs \in SUBSET Roles, NEW ss \in SUBSET Roles, rs \subseteq ss
    PROVE  PermsOf(rs) \subseteq PermsOf(ss) /\ PermsOf(ss) \subseteq Permissions
  BY RolePermsAssumption DEF PermsOf

(* The permissions query: read after the roles, it covers what they give.  *)
LEMMA ReadPermsGood ==
    ASSUME AccInv, NEW p \in Procs, ReadPerms(p), HandlersKept
    PROVE  AccInv' /\ Promise
<1> DEFINE i == req[p]
           s == [i.sess EXCEPT !.perms = PermsOf(userRoles[i.uid])]
           g == Carrying(i, "fill", s)
<1>1. PICK o \in Outcomes("postgres") :
        req' = [req EXCEPT ![p] =
                  IF Erred(o) THEN Answer(i, "error")
                  ELSE [i EXCEPT !.pc = "fill",
                                 !.sess.perms = PermsOf(userRoles[i.uid])]]
  BY DEF ReadPerms
<1>2. i.pc = "perms" /\ Running(i)
  BY DEF ReadPerms, Running
<1>3. GoodReq(i) /\ i \in Request /\ i.uid \in Users /\ i.out # "error"
  BY <1>2, RunningGood
<1>4. ShutOut(i.uid) => ~i.sess.active
  BY <1>2 DEF ShutOut, Filling
<1> HIDE DEF i
<1>5. [i EXCEPT !.pc = "fill", !.sess.perms = PermsOf(userRoles[i.uid])] = g
  BY DEF Carrying
<1>6. GoodReq(Answer(i, "error")) /\ Honest(i, Answer(i, "error"))
  BY <1>3, AnswerHonest
<1>7. GoodReq(g) /\ Honest(i, g)
  <2>1. /\ i.sess \in Session /\ userRoles[i.uid] \subseteq Roles
        /\ i.sess.roles \subseteq userRoles[i.uid]
    BY <1>2, <1>3 DEF GoodReq, ReqControl, SessionSound, AccInv, AccountsTypeOK,
                      TypeOK, TableTypeOK
  <2>2. /\ PermsOf(i.sess.roles) \subseteq PermsOf(userRoles[i.uid])
        /\ PermsOf(userRoles[i.uid]) \subseteq Permissions
    BY <2>1, PermsMonotone
  <2>3. /\ s \in Session /\ s.roles = i.sess.roles /\ s.active = i.sess.active
        /\ s.perms = PermsOf(userRoles[i.uid])
    BY <2>1, <2>2 DEF Session
  <2> HIDE DEF s
  <2>4. CoherentSession(i.uid, s)
    BY <2>2, <2>3 DEF CoherentSession
  <2>5. /\ GoodReq(g) /\ g.pc = "fill" /\ g.sess = s /\ g.uid = i.uid
    BY <1>2, <1>3, <2>3, <2>4, CarryGood DEF Control
  <2> HIDE DEF g
  <2> QED BY <1>4, <2>3, <2>5, CarryHonest
<1> DEFINE r == IF Erred(o) THEN Answer(i, "error") ELSE g
<1>8. GoodReq(r) /\ Honest(i, r)
  <2> HIDE DEF g
  <2> QED BY <1>6, <1>7
<1>9. req' = [req EXCEPT ![p] = r] /\ UNCHANGED <<tableVars, storeVars, issued, access>>
  BY <1>1, <1>5 DEF ReadPerms
<1> HIDE DEF r
<1> QED BY <1>8, <1>9, RequestGood DEF i
(* The cache gets the session the request built, and the request decides   *)
(* on it.                                                                  *)
LEMMA FillCacheGood ==
    ASSUME AccInv, NEW p \in Procs, FillCache(p), HandlersKept
    PROVE  AccInv' /\ Promise
<1> DEFINE i == req[p]
<1>1. i.pc = "fill" /\ Running(i)
  BY DEF FillCache, Running
<1>2. GoodReq(i) /\ i \in Request /\ i.uid \in Users /\ i.out # "error"
  BY <1>1, RunningGood
<1>3. i.sess \in Session /\ CoherentSession(i.uid, i.sess)
  BY <1>1, <1>2, SentinelAssumption DEF GoodReq, ReqControl, SessionSound
<1>4. ShutOut(i.uid) => ~i.sess.active
  BY <1>1 DEF ShutOut, Filling
<1>5. GoodReq(Decide(i, i.sess)) /\ Honest(i, Decide(i, i.sess))
  <2> HIDE DEF i
  <2> QED BY <1>1, <1>2, <1>3, <1>4, DecideHonest
<1>6. CacheKept(p)
  <2>1. CASE sessions' = [sessions EXCEPT ![i.uid] = i.sess]
    BY <1>1, <1>2, <1>3, <2>1 DEF AccInv, AccountsTypeOK, TypeOK, CacheKept
  <2>2. CASE sessions' = sessions
    BY <2>2, Alone
  <2> QED BY <2>1, <2>2 DEF FillCache
<1>7. RowsKept /\ RecordsKept /\ ClientsKept /\ UNCHANGED userRoles
  BY Alone DEF FillCache, tableVars
<1>8. req' = [req EXCEPT ![p] = Decide(i, i.sess)]
  BY DEF FillCache
<1> HIDE DEF i
<1> QED BY <1>5, <1>6, <1>7, <1>8, AuthStep DEF i

-----------------------------------------------------------------------------
(* The tails of Login, Refresh and Logout.                                 *)

(* A request that goes on with what it has, past the fill.                 *)
LEMMA TailGood ==
    ASSUME NEW i, GoodReq(i), Running(i), i.pc \notin {"roles", "perms"},
           NEW pc \in {"uncache", "clear", "revoke"},
           pc \in {"clear", "revoke"} => i.op = "logout" /\ i.tok \in Tokens
    PROVE  GoodReq(At(i, pc)) /\ Honest(i, At(i, pc))
<1>1. i \in Request /\ i.out # "error"
  BY DEF GoodReq
<1>2. At(i, pc) = Carrying(i, pc, i.sess)
  BY <1>1, AtCarries
<1>3. i.sess \in Session \cup {NoSession}
  BY <1>1 DEF Request
<1>4. i.sess # NoSession => CoherentSession(i.uid, i.sess)
  BY <1>1 DEF GoodReq, SessionSound
<1>5. GoodReq(At(i, pc)) /\ At(i, pc).pc = pc
  BY <1>2, <1>3, <1>4, CarryGood DEF Control
<1> QED BY <1>5, CarryHonest DEF Filling

(* Tokens made from a request's session are well formed.                   *)
LEMMA DeliverGood ==
    ASSUME AccInv, NEW r, r.uid \in Users, r.sess \in Session, NEW t \in Tokens,
           Deliver(r, t)
    PROVE  ClientsKept
<1> DEFINE c == [uid |-> r.uid, ver |-> r.sess.ver]
<1>1. c \in Claims
  BY DEF Claims, Session
<1> HIDE DEF c
<1>2. issued' = issued \cup {t} /\ access' = access \cup {c}
  BY DEF Deliver, c
<1> QED BY <1>1, <1>2 DEF AccInv, AccountsTypeOK, TypeOK, ClientsKept

(* The new record goes under a token nobody has.                           *)
LEMMA SaveRecordGood ==
    ASSUME AccInv, NEW p \in Procs, SaveRecord(p), HandlersKept
    PROVE  AccInv' /\ Promise
<1> DEFINE i == req[p]
           rec == [uid |-> i.uid, ver |-> i.sess.ver]
<1>1. i.pc = "save" /\ Running(i)
  BY DEF SaveRecord, Running
<1>2. GoodReq(i) /\ i \in Request /\ i.uid \in Users /\ i.out # "error"
  BY <1>1, RunningGood
<1>3. i.sess \in Session /\ CoherentSession(i.uid, i.sess)
  BY <1>1, <1>2, SentinelAssumption DEF GoodReq, ReqControl, SessionSound
<1>4. PICK t \in Tokens, o \in Outcomes("redis") :
        /\ Fresh(t)
        /\ refresh' = IF Applied(o) THEN [refresh EXCEPT ![t] = rec] ELSE refresh
        /\ \/ /\ Erred(o)
              /\ req' = [req EXCEPT ![p] = Answer(i, "error")]
              /\ UNCHANGED <<issued, access>>
           \/ /\ ~Erred(o) /\ i.op = "login"
              /\ req' = [req EXCEPT ![p] = Answer(Holding(i, t), "ok")]
              /\ Deliver(i, t)
           \/ /\ ~Erred(o) /\ i.op = "refresh"
              /\ req' = [req EXCEPT ![p].new = t, ![p].pc = "rotate"]
              /\ UNCHANGED <<issued, access>>
  BY DEF SaveRecord, Holding
<1>5. RecordsKept
  <2>1. rec \in Record
    BY <1>2, <1>3 DEF Record, Session
  <2> HIDE DEF rec, i
  <2>2. CASE refresh' = [refresh EXCEPT ![t] = rec]
    BY <1>4, <2>1, <2>2 DEF AccInv, AccountsTypeOK, TypeOK, RecordsKept, Fresh
  <2> QED BY <1>4, <2>2, Alone
<1>6. RowsKept /\ CacheKept(p) /\ UNCHANGED userRoles
  BY Alone DEF SaveRecord, tableVars
<1> DEFINE h == Holding(i, t)
<1>7. /\ GoodReq(h) /\ h \in Request /\ h.pc = "save" /\ h.op = i.op /\ h.new = t
      /\ h.uid = i.uid /\ h.sess = i.sess /\ h.out = i.out /\ h.tok = i.tok
  <2> HIDE DEF i
  <2>1. /\ h \in Request /\ h.pc = "save" /\ h.op = i.op /\ h.new = t
        /\ h.uid = i.uid /\ h.sess = i.sess /\ h.out = i.out /\ h.tok = i.tok
    BY <1>1, <1>2 DEF Request, Holding
  <2> HIDE DEF h
  <2> QED BY <1>1, <1>2, <2>1 DEF GoodReq, ReqControl, SessionSound, Running
<1>8. \E r : /\ req' = [req EXCEPT ![p] = r] /\ GoodReq(r) /\ Honest(i, r)
             /\ ClientsKept
  <2>1. CASE /\ req' = [req EXCEPT ![p] = Answer(i, "error")]
             /\ UNCHANGED <<issued, access>>
    <3> HIDE DEF i
    <3> QED BY <1>2, <2>1, AnswerHonest, Alone
  <2>2. CASE /\ i.op = "login" /\ Deliver(i, t)
             /\ req' = [req EXCEPT ![p] = Answer(h, "ok")]
    <3>1. ClientsKept
      BY <1>2, <1>3, <2>2, DeliverGood
    <3> HIDE DEF i, h
    <3> QED BY <1>2, <1>7, <2>2, <3>1, AnswerHonest
  <2>3. CASE /\ i.op = "refresh" /\ UNCHANGED <<issued, access>>
             /\ req' = [req EXCEPT ![p].new = t, ![p].pc = "rotate"]
    <3>1. req' = [req EXCEPT ![p] = At(h, "rotate")]
      BY <2>3 DEF At, Holding, AccInv, AccountsTypeOK, TypeOK
    <3>2. i.tok \in Tokens
      BY <1>1, <1>2, <2>3 DEF GoodReq, ReqControl
    <3> HIDE DEF i, h
    <3>3. At(h, "rotate") = Carrying(h, "rotate", h.sess)
      BY <1>7, AtCarries
    <3>4. /\ GoodReq(At(h, "rotate")) /\ At(h, "rotate").pc = "rotate"
          /\ At(h, "rotate").uid = i.uid
      <4>1. Running(h)
        BY <1>7 DEF Running
      <4>2. "rotate" \in Control \ {"idle", "done"}
        BY DEF Control
      <4> QED BY <1>3, <1>7, <2>3, <3>2, <3>3, <4>1, <4>2, CarryGood
    <3>5. Accepted(i)
      BY <1>1, <2>3 DEF Accepted
    <3>6. Honest(i, At(h, "rotate"))
      BY <3>4, <3>5 DEF Honest, Filling
    <3> QED BY <2>3, <3>1, <3>4, <3>6, Alone
  <2> QED BY <1>4, <2>1, <2>2, <2>3
<1> HIDE DEF h
<1> QED BY <1>5, <1>6, <1>8, AuthStep

(* The old record goes and the new tokens are delivered.                   *)
LEMMA RotateGood ==
    ASSUME AccInv, NEW p \in Procs, Rotate(p), HandlersKept
    PROVE  AccInv' /\ Promise
<1> DEFINE i == req[p]
<1>1. i.pc = "rotate" /\ Running(i)
  BY DEF Rotate, Running
<1>2. GoodReq(i) /\ i.uid \in Users /\ i.out # "error"
  BY <1>1, RunningGood
<1>3. i.op = "refresh" /\ i.tok \in Tokens /\ i.new \in Tokens /\ i.sess \in Session
  BY <1>1, <1>2 DEF GoodReq, ReqControl
<1>4. GoodReq(Answer(i, "ok")) /\ Honest(i, Answer(i, "ok"))
  BY <1>1, <1>2, <1>3, AnswerHonest
<1>5. RowsKept /\ CacheKept(p) /\ RecordsKept /\ UNCHANGED userRoles
  BY <1>3, Alone DEF Rotate, tableVars
<1>6. ClientsKept /\ req' = [req EXCEPT ![p] = Answer(i, "ok")]
  BY <1>2, <1>3, DeliverGood DEF Rotate
<1> QED BY <1>4, <1>5, <1>6, AuthStep

(* Refresh gives up on an outdated record.                                 *)
LEMMA DropOutdatedGood ==
    ASSUME AccInv, NEW p \in Procs, DropOutdated(p), HandlersKept
    PROVE  AccInv' /\ Promise
<1> DEFINE i == req[p]
<1>1. i.pc = "drop" /\ Running(i)
  BY DEF DropOutdated, Running
<1>2. GoodReq(i) /\ i.out # "error"
  BY <1>1, RunningGood
<1>3. i.tok \in Tokens
  BY <1>1, <1>2 DEF GoodReq, ReqControl
<1>4. GoodReq(Answer(i, "unauthorized")) /\ Honest(i, Answer(i, "unauthorized"))
  BY <1>1, <1>2, AnswerHonest
<1>5. RowsKept /\ CacheKept(p) /\ RecordsKept /\ ClientsKept /\ UNCHANGED userRoles
  BY <1>3, Alone DEF DropOutdated, tableVars
<1>6. req' = [req EXCEPT ![p] = Answer(i, "unauthorized")]
  BY DEF DropOutdated
<1> QED BY <1>4, <1>5, <1>6, AuthStep

(* The record of an inactive user goes, then the session.                  *)
LEMMA DropBannedGood ==
    ASSUME AccInv, NEW p \in Procs, DropBanned(p), HandlersKept
    PROVE  AccInv' /\ Promise
<1> DEFINE i == req[p]
<1>1. i.pc = "evict" /\ Running(i)
  BY DEF DropBanned, Running
<1>2. GoodReq(i)
  BY <1>1, RunningGood
<1>3. i.tok \in Tokens
  BY <1>1, <1>2 DEF GoodReq, ReqControl
<1>4. GoodReq(At(i, "uncache")) /\ Honest(i, At(i, "uncache"))
  BY <1>1, <1>2, TailGood
<1>5. RowsKept /\ CacheKept(p) /\ RecordsKept /\ ClientsKept /\ UNCHANGED userRoles
  BY <1>3, Alone DEF DropBanned, tableVars
<1>6. req' = [req EXCEPT ![p] = At(i, "uncache")]
  BY DEF DropBanned, At
<1> QED BY <1>4, <1>5, <1>6, AuthStep

(* The session of an inactive user goes and the refresh is refused.        *)
LEMMA EvictBannedGood ==
    ASSUME AccInv, NEW p \in Procs, EvictBanned(p), HandlersKept
    PROVE  AccInv' /\ Promise
<1> DEFINE i == req[p]
<1>1. i.pc = "uncache" /\ Running(i)
  BY DEF EvictBanned, Running
<1>2. GoodReq(i) /\ i.uid \in Users /\ i.out # "error"
  BY <1>1, RunningGood
<1>3. GoodReq(Answer(i, "unauthorized")) /\ Honest(i, Answer(i, "unauthorized"))
  BY <1>1, <1>2, AnswerHonest
<1>4. RowsKept /\ CacheKept(p) /\ RecordsKept /\ ClientsKept /\ UNCHANGED userRoles
  BY <1>2, Alone DEF EvictBanned, tableVars
<1>5. req' = [req EXCEPT ![p] = Answer(i, "unauthorized")]
  BY DEF EvictBanned
<1> QED BY <1>3, <1>4, <1>5, AuthStep

(* Logout: of the row only the version changes, and of a live row only.    *)
LEMMA BumpVersionGood ==
    ASSUME AccInv, NEW p \in Procs, BumpVersion(p), HandlersKept
    PROVE  AccInv' /\ Promise
<1> DEFINE i == req[p]
<1>1. i.pc = "bump" /\ Running(i)
  BY DEF BumpVersion, Running
<1>2. GoodReq(i) /\ i.uid \in Users
  BY <1>1, RunningGood
<1>3. i.op = "logout" /\ i.tok \in Tokens
  BY <1>1, <1>2 DEF GoodReq, ReqControl
<1>4. GoodReq(At(i, "clear")) /\ Honest(i, At(i, "clear"))
  BY <1>1, <1>2, <1>3, TailGood
<1>5. RowsKept
  <2>1. users \in [Users -> Row]
    BY DEF AccInv, AccountsTypeOK, TypeOK, TableTypeOK
  <2>2. CASE Live(i.uid) /\ users' = [users EXCEPT ![i.uid].ver = @ + 1]
    <3>1. [users[i.uid] EXCEPT !.ver = @ + 1] \in Row
      BY <2>1, <1>2 DEF Row
    <3>2. /\ users'[i.uid].st = users[i.uid].st
          /\ users'[i.uid].email = users[i.uid].email
          /\ users'[i.uid].active = users[i.uid].active
          /\ users[i.uid].st # "deleted"
      BY <2>1, <2>2, <1>2 DEF Row, Live
    <3> QED BY <2>1, <2>2, <1>2, <3>1, <3>2 DEF RowsKept
  <2>3. CASE users' = users
    BY <2>3, Alone
  <2> QED BY <2>2, <2>3 DEF BumpVersion, IncrementTokenVersion
<1>6. CacheKept(p) /\ RecordsKept /\ ClientsKept /\ UNCHANGED userRoles
  BY Alone DEF BumpVersion, storeVars
<1>7. req' = [req EXCEPT ![p] = At(i, "clear")]
  BY DEF BumpVersion, At
<1> QED BY <1>4, <1>5, <1>6, <1>7, AuthStep

(* Logout deletes the session, whatever it says.                           *)
LEMMA ClearSessionGood ==
    ASSUME AccInv, NEW p \in Procs, ClearSession(p), HandlersKept
    PROVE  AccInv' /\ Promise
<1> DEFINE i == req[p]
<1>1. i.pc = "clear" /\ Running(i)
  BY DEF ClearSession, Running
<1>2. GoodReq(i) /\ i.uid \in Users
  BY <1>1, RunningGood
<1>3. i.op = "logout" /\ i.tok \in Tokens
  BY <1>1, <1>2 DEF GoodReq, ReqControl
<1>4. GoodReq(At(i, "revoke")) /\ Honest(i, At(i, "revoke"))
  BY <1>1, <1>2, <1>3, TailGood
<1>5. RowsKept /\ CacheKept(p) /\ RecordsKept /\ ClientsKept /\ UNCHANGED userRoles
  BY <1>2, Alone DEF ClearSession, tableVars
<1>6. req' = [req EXCEPT ![p] = At(i, "revoke")]
  BY DEF ClearSession, At
<1> QED BY <1>4, <1>5, <1>6, AuthStep

(* Logout deletes the record and answers.                                  *)
LEMMA RevokeGood ==
    ASSUME AccInv, NEW p \in Procs, Revoke(p), HandlersKept
    PROVE  AccInv' /\ Promise
<1> DEFINE i == req[p]
<1>1. i.pc = "revoke" /\ Running(i)
  BY DEF Revoke, Running
<1>2. GoodReq(i) /\ i.out # "error"
  BY <1>1, RunningGood
<1>3. i.op = "logout" /\ i.tok \in Tokens
  BY <1>1, <1>2 DEF GoodReq, ReqControl
<1>4. GoodReq(Answer(i, "ok")) /\ Honest(i, Answer(i, "ok"))
  BY <1>1, <1>2, <1>3, AnswerHonest
<1>5. RowsKept /\ CacheKept(p) /\ RecordsKept /\ ClientsKept /\ UNCHANGED userRoles
  BY <1>3, Alone DEF Revoke, tableVars
<1>6. req' = [req EXCEPT ![p] = Answer(i, "ok")]
  BY DEF Revoke
<1> QED BY <1>4, <1>5, <1>6, AuthStep
(* The goroutine ends, with the handler it ran.                            *)
LEMMA FinishedGood ==
    ASSUME AccInv, NEW p \in Procs, Finished(p)
    PROVE  AccInv' /\ Promise
<1>1. GoodReq(Idle) /\ Honest(req[p], Idle)
  BY SentinelAssumption
     DEF Idle, Ops, GoodReq, ReqControl, SessionSound, Running, Request, Control,
         Honest, Filling, Accepted
<1>2. NoHandler \in Handler /\ NoHandler.pc = "idle"
  BY EmailsAssumption DEF NoHandler, Handler, NoRow, Row
<1>3. HandlersKept
  BY <1>2 DEF Finished, AccInv, AccountsTypeOK, AdmTypeOK, HandlersKept, AdmControl
<1>4. /\ req' = [req EXCEPT ![p] = Idle]
      /\ UNCHANGED <<tableVars, storeVars, issued, access>>
  BY DEF Finished, Return
<1> QED BY <1>1, <1>3, <1>4, RequestGood

(* A TTL runs out.                                                         *)
LEMMA ExpireGood ==
    ASSUME AccInv, Expire, UNCHANGED adm
    PROVE  AccInv' /\ Promise
<1>1. UNCHANGED <<users, userRoles, issued, access, req>>
  BY DEF Expire, ExpireSession, ExpireRecord, tableVars
<1>2. /\ sessions' \in [Users -> Session \cup {NoSession}]
      /\ \A u \in Users : sessions'[u] \in {sessions[u], NoSession}
      /\ refresh' \in [Tokens -> Record \cup {NoRecord}]
      /\ \A t \in Tokens : refresh'[t] \in {refresh[t], NoRecord}
  BY DEF Expire, ExpireSession, ExpireRecord, AccInv, AccountsTypeOK, TypeOK
<1>3. \A u, s : CoherentSession(u, s)' <=> CoherentSession(u, s)
  BY <1>1 DEF CoherentSession
<1>4. \A q : GoodReq(q)' <=> GoodReq(q)
  BY <1>1, <1>3 DEF GoodReq, SessionSound, ReqControl, Running
<1>5. AccountsTypeOK' /\ UniqueEmails'
  BY <1>1, <1>2 DEF AccInv, AccountsTypeOK, TypeOK, TableTypeOK, AdmTypeOK, UniqueEmails
<1>6. CacheCoherent'
  BY <1>2, <1>3 DEF AccInv, CacheCoherent
<1>7. AccInv'
  BY <1>1, <1>4, <1>5, <1>6 DEF AccInv
<1>8. Promise
  BY <1>1, <1>2 DEF Promise, StaysShut, DeletedKept, DeadKept, ShutOut, Barred
<1> QED BY <1>7, <1>8

-----------------------------------------------------------------------------
(* The handlers.                                                           *)

(* A handler touches neither requests nor stores.  If it keeps the tables  *)
(* well formed, takes no role away and leaves deleted rows alone, the      *)
(* sessions stay coherent and the shut-out users shut out.                 *)
LEMMA HandlerGood ==
    ASSUME AccInv, UNCHANGED authVars, HandlersKept,
           users' \in [Users -> Row], UniqueEmails', DeletedKept,
           userRoles' \in [Users -> SUBSET Roles],
           \A u \in Users : userRoles[u] \subseteq userRoles'[u]
    PROVE  AccInv' /\ Promise
<1>1. UNCHANGED <<sessions, refresh, issued, access, req>>
  BY DEF authVars
<1>2. AccountsTypeOK'
  BY <1>1 DEF AccInv, AccountsTypeOK, TypeOK, TableTypeOK, AdmTypeOK, HandlersKept
<1>3. ASSUME NEW u \in Users, NEW s, CoherentSession(u, s)
      PROVE  CoherentSession(u, s)'
  <2>1. PermsOf(userRoles[u]) \subseteq PermsOf(userRoles'[u])
    BY PermsMonotone DEF AccInv, AccountsTypeOK, TypeOK, TableTypeOK
  <2> QED BY <1>3, <2>1 DEF CoherentSession
<1>4. CacheCoherent'
  BY <1>1, <1>3 DEF AccInv, CacheCoherent
<1>5. ASSUME NEW q \in Procs PROVE GoodReq(req[q])'
  <2> DEFINE r == req[q]
  <2>1. GoodReq(r) /\ r' = r
    BY <1>1 DEF AccInv
  <2>2. r.pc = "perms" => r.uid \in Users
    BY <2>1 DEF GoodReq, ReqControl, Running
  <2> HIDE DEF r
  <2>3. SessionSound(r)'
    BY <1>3, <2>1, <2>2 DEF GoodReq, SessionSound
  <2>4. GoodReq(r)'
    BY <2>1, <2>3 DEF GoodReq, ReqControl, Running
  <2> QED BY <2>4 DEF r
<1>6. AccInv'
  BY <1>2, <1>4, <1>5 DEF AccInv, HandlersKept
<1>7. Promise
  BY <1>1 DEF Promise, StaysShut, DeadKept, ShutOut
<1> QED BY <1>6, <1>7

(* A finished handler has nothing left to know.                            *)
LEMMA FinishGood ==
    ASSUME NEW h \in Handler, NEW ok \in BOOLEAN
    PROVE  /\ Finish(h, ok) \in Handler /\ AdmControl(Finish(h, ok))
<1>1. NoRow \in Row
  BY EmailsAssumption DEF NoRow, Row
<1> QED BY <1>1 DEF Finish, Handler, AdmControl

(* One handler changes.                                                    *)
LEMMA OneHandler ==
    ASSUME AccInv, NEW p \in Procs, NEW h \in Handler, AdmControl(h),
           adm' = [adm EXCEPT ![p] = h]
    PROVE  HandlersKept
  BY DEF AccInv, AccountsTypeOK, AdmTypeOK, HandlersKept

(* The tables as they are.                                                 *)
LEMMA TablesAlone ==
    ASSUME AccInv
    PROVE  /\ users \in [Users -> Row] /\ userRoles \in [Users -> SUBSET Roles]
           /\ UNCHANGED users => users' \in [Users -> Row] /\ UniqueEmails' /\ DeletedKept
           /\ UNCHANGED userRoles => /\ userRoles' \in [Users -> SUBSET Roles]
                                     /\ \A u \in Users : userRoles[u] \subseteq userRoles'[u]
  BY DEF AccInv, AccountsTypeOK, TypeOK, TableTypeOK, UniqueEmails, DeletedKept

(* CreateUser: an absent row comes to life under an email nobody has.      *)
LEMMA InsertUserGood ==
    ASSUME AccInv, UNCHANGED authVars, NEW p \in Procs, NEW u \in Users, NEW e \in Emails,
           NEW role \in Roles \cup {NoRole}, InsertUser(p, u, e, role)
    PROVE  AccInv' /\ Promise
<1> DEFINE h == [NoHandler EXCEPT !.op = "create", !.uid = u, !.role = role]
           row == [st |-> "live", email |-> e, active |-> TRUE, ver |-> 0]
<1>1. PICK o \in Outcomes("postgres"), hashed \in BOOLEAN :
        LET done == hashed /\ Applied(o) /\ ~EmailTaken(e, u)
        IN /\ users' = IF done THEN [users EXCEPT ![u] = row] ELSE users
           /\ adm' = [adm EXCEPT ![p] = IF ~done \/ Erred(o) THEN Finish(h, FALSE)
                                        ELSE IF role = NoRole THEN Finish(h, TRUE)
                                        ELSE [h EXCEPT !.pc = "role"]]
  BY DEF InsertUser
<1>2. users[u].st = "absent" /\ UNCHANGED userRoles
  BY DEF InsertUser
<1>3. users' \in [Users -> Row] /\ UniqueEmails' /\ DeletedKept
  <2>1. CASE users' = [users EXCEPT ![u] = row] /\ ~EmailTaken(e, u)
    <3>1. row \in Row /\ row.email = e
      BY DEF Row
    <3> HIDE DEF row
    <3>2. users' \in [Users -> Row] /\ DeletedKept
      BY <1>2, <2>1, <3>1, TablesAlone DEF DeletedKept
    <3>3. UniqueEmails'
      <4>1. users'[u].email = e /\ \A w \in Users \ {u} : users'[w] = users[w]
        BY <2>1, <3>1, TablesAlone
      <4> QED BY <2>1, <4>1 DEF AccInv, UniqueEmails, EmailTaken
    <3> QED BY <3>2, <3>3
  <2>2. CASE users' = users
    BY <2>2, TablesAlone
  <2> QED BY <1>1, <2>1, <2>2
<1>4. HandlersKept
  <2>1. h \in Handler
    BY EmailsAssumption DEF NoHandler, Handler, NoRow, Row
  <2>2. role # NoRole => /\ [h EXCEPT !.pc = "role"] \in Handler
                         /\ AdmControl([h EXCEPT !.pc = "role"])
    BY <2>1 DEF Handler, AdmControl, NoHandler
  <2> HIDE DEF h
  <2>3. \E g \in Handler : AdmControl(g) /\ adm' = [adm EXCEPT ![p] = g]
    BY <1>1, <2>1, <2>2, FinishGood
  <2> QED BY <2>3, OneHandler
<1> QED BY <1>2, <1>3, <1>4, TablesAlone, HandlerGood

(* The role is looked up: no table changes.                                *)
LEMMA FindRoleGood ==
    ASSUME AccInv, UNCHANGED authVars, NEW p \in Procs, FindRole(p)
    PROVE  AccInv' /\ Promise
<1> DEFINE h == adm[p]
<1>1. h \in Handler /\ h.uid \in Users /\ h.role \in Roles
  BY DEF FindRole, AccInv, AccountsTypeOK, AdmTypeOK, AdmControl
<1>2. \/ adm' = [adm EXCEPT ![p] = Finish(h, FALSE)]
      \/ adm' = [adm EXCEPT ![p] = [h EXCEPT !.pc = "assign"]]
  BY DEF FindRole
<1> HIDE DEF h
<1>3. /\ [h EXCEPT !.pc = "assign"] \in Handler
      /\ AdmControl([h EXCEPT !.pc = "assign"])
  BY <1>1 DEF Handler, AdmControl
<1>4. HandlersKept
  BY <1>1, <1>2, <1>3, FinishGood, OneHandler
<1>5. UNCHANGED <<users, userRoles>>
  BY DEF FindRole, tableVars
<1> QED BY <1>4, <1>5, TablesAlone, HandlerGood

(* The user has one more role.                                             *)
LEMMA AssignRoleGood ==
    ASSUME AccInv, UNCHANGED authVars, NEW p \in Procs, AssignRole(p)
    PROVE  AccInv' /\ Promise
<1> DEFINE h == adm[p]
<1>1. h \in Handler /\ h.uid \in Users /\ h.role \in Roles
  BY DEF AssignRole, AccInv, AccountsTypeOK, AdmTypeOK, AdmControl
<1>2. PICK o \in Outcomes("postgres") :
        /\ userRoles' = IF Applied(o) THEN [userRoles EXCEPT ![h.uid] = @ \cup {h.role}]
                        ELSE userRoles
        /\ adm' = [adm EXCEPT ![p] = Finish(h, ~Erred(o))]
  BY DEF AssignRole
<1> HIDE DEF h
<1>3. HandlersKept
  BY <1>1, <1>2, FinishGood, OneHandler DEF Erred
<1>4. /\ userRoles' \in [Users -> SUBSET Roles]
      /\ \A u \in Users : userRoles[u] \subseteq userRoles'[u]
  BY <1>1, <1>2, TablesAlone
<1>5. UNCHANGED users
  BY DEF AssignRole
<1> QED BY <1>3, <1>4, <1>5, TablesAlone, HandlerGood

(* UpdateUser reads the row and changes its copy.                          *)
LEMMA LoadForUpdateGood ==
    ASSUME AccInv, UNCHANGED authVars, NEW p \in Procs, NEW u \in Users,
           NEW e \in Emails \cup {Keep}, NEW b \in BOOLEAN \cup {Keep},
           LoadForUpdate(p, u, e, b)
    PROVE  AccInv' /\ Promise
<1> DEFINE h == [NoHandler EXCEPT !.op = "update", !.uid = u]
           row == [users[u] EXCEPT !.email = Merge(@, e), !.active = Merge(@, b)]
           g == [h EXCEPT !.pc = "write", !.row = row]
<1>1. \/ adm' = [adm EXCEPT ![p] = Finish(h, FALSE)]
      \/ adm' = [adm EXCEPT ![p] = g]
  BY DEF LoadForUpdate
<1>2. h \in Handler /\ h.uid = u
  BY EmailsAssumption DEF NoHandler, Handler, NoRow, Row
<1>3. row \in Row
  <2>1. users[u] \in Row
    BY TablesAlone
  <2>2. Merge(users[u].email, e) \in Emails /\ Merge(users[u].active, b) \in BOOLEAN
    BY <2>1 DEF Row, Merge
  <2> QED BY <2>1, <2>2 DEF Row
<1> HIDE DEF h, row
<1>4. g \in Handler /\ AdmControl(g)
  BY <1>2, <1>3 DEF Handler, AdmControl
<1> HIDE DEF g
<1>5. HandlersKept
  BY <1>1, <1>2, <1>4, FinishGood, OneHandler
<1>6. UNCHANGED <<users, userRoles>>
  BY DEF LoadForUpdate, tableVars
<1> QED BY <1>5, <1>6, TablesAlone, HandlerGood

(* UpdateUser writes a live row, under an email no other row has.          *)
LEMMA WriteRowGood ==
    ASSUME AccInv, UNCHANGED authVars, NEW p \in Procs, WriteRow(p)
    PROVE  AccInv' /\ Promise
<1> DEFINE h == adm[p]
           done(o) == Applied(o) /\ Live(h.uid) /\ ~EmailTaken(h.row.email, h.uid)
<1>1. h \in Handler /\ h.uid \in Users
  BY DEF WriteRow, AccInv, AccountsTypeOK, AdmTypeOK, AdmControl
<1>2. PICK o \in Outcomes("postgres") :
        /\ users' = IF done(o) THEN [users EXCEPT ![h.uid] = h.row] ELSE users
        /\ adm' = [adm EXCEPT ![p] = Finish(h, done(o) /\ ~Erred(o))]
  BY DEF WriteRow
<1> HIDE DEF h
<1>3. HandlersKept
  BY <1>1, <1>2, FinishGood, OneHandler DEF Erred, Applied, Live, EmailTaken
<1>4. users' \in [Users -> Row] /\ UniqueEmails' /\ DeletedKept
  <2>1. CASE done(o)
    <3>1. h.row \in Row /\ users' = [users EXCEPT ![h.uid] = h.row] /\ Live(h.uid)
      BY <1>1, <1>2, <2>1 DEF Handler
    <3>2. users' \in [Users -> Row] /\ DeletedKept
      BY <1>1, <3>1, TablesAlone DEF DeletedKept, Live
    <3>3. users'[h.uid] = h.row /\ \A w \in Users \ {h.uid} : users'[w] = users[w]
      BY <1>1, <3>1, TablesAlone
    <3>4. UniqueEmails'
      BY <1>1, <2>1, <3>3 DEF AccInv, UniqueEmails, EmailTaken
    <3> QED BY <3>2, <3>4
  <2>2. CASE ~done(o)
    BY <1>2, <2>2, TablesAlone
  <2> QED BY <2>1, <2>2
<1>5. UNCHANGED userRoles
  BY DEF WriteRow
<1> QED BY <1>3, <1>4, <1>5, TablesAlone, HandlerGood

(* DeleteUser keeps the row, with its email.                               *)
LEMMA SoftDeleteGood ==
    ASSUME AccInv, UNCHANGED authVars, NEW p \in Procs, NEW u \in Users, SoftDelete(p, u)
    PROVE  AccInv' /\ Promise
<1> DEFINE h == [NoHandler EXCEPT !.op = "delete", !.uid = u]
<1>1. PICK o \in Outcomes("postgres") :
        /\ users' = IF Applied(o) /\ Live(u) THEN [users EXCEPT ![u].st = "deleted"]
                    ELSE users
        /\ adm' = [adm EXCEPT ![p] = Finish(h, Applied(o) /\ Live(u) /\ ~Erred(o))]
  BY DEF SoftDelete
<1>2. h \in Handler
  BY EmailsAssumption DEF NoHandler, Handler, NoRow, Row
<1> HIDE DEF h
<1>3. HandlersKept
  BY <1>1, <1>2, FinishGood, OneHandler DEF Erred, Applied, Live
<1>4. users' \in [Users -> Row] /\ UniqueEmails' /\ DeletedKept
  <2>1. CASE Live(u) /\ users' = [users EXCEPT ![u].st = "deleted"]
    <3>1. users[u] \in Row
      BY TablesAlone
    <3>2. [users[u] EXCEPT !.st = "deleted"] \in Row
      BY <3>1 DEF Row
    <3>3. /\ users'[u] = [users[u] EXCEPT !.st = "deleted"]
          /\ \A w \in Users \ {u} : users'[w] = users[w]
      BY <2>1, TablesAlone
    <3>4. users'[u].email = users[u].email /\ users[u].st = "live"
      BY <2>1, <3>1, <3>3 DEF Row, Live
    <3>5. users' \in [Users -> Row]
      BY <2>1, <3>2, TablesAlone
    <3>6. UniqueEmails'
      <4>1. ASSUME NEW w \in Users
            PROVE  /\ users'[w].email = users[w].email
                   /\ users'[w].st # "absent" => users[w].st # "absent"
        BY <3>3, <3>4
      <4> QED BY <4>1 DEF AccInv, UniqueEmails
    <3>7. DeletedKept
      BY <3>3, <3>4 DEF DeletedKept
    <3> QED BY <3>5, <3>6, <3>7
  <2>2. CASE users' = users
    BY <2>2, TablesAlone
  <2> QED BY <1>1, <2>1, <2>2
<1>5. UNCHANGED userRoles
  BY DEF SoftDelete
<1> QED BY <1>3, <1>4, <1>5, TablesAlone, HandlerGood
-----------------------------------------------------------------------------
(* The inductive invariant, and what it and its steps give.                *)

(* The seeded table, the empty stores and no handler satisfy it.           *)
LEMMA AccountsInitInv == AccountsInit => AccInv
<1> SUFFICES ASSUME AccountsInit PROVE AccInv
  OBVIOUS
<1>1. TypeOK
  BY InitInv DEF AccountsInit, IInv
<1>2. NoHandler \in Handler /\ AdmControl(NoHandler)
  BY EmailsAssumption DEF NoHandler, Handler, NoRow, Row, AdmControl
<1>3. AdmTypeOK /\ \A p \in Procs : AdmControl(adm[p])
  BY <1>2 DEF AccountsInit, UsersInit, AdmTypeOK
<1>4. UniqueEmails
  <2>1. \A u \in Users : users[u].st # "absent" => Live(u)
    BY DEF AccountsInit, Init, TableInit, NoRow, Live
  <2> QED BY <2>1 DEF AccountsInit, Init, TableInit, UniqueEmails
<1>5. CacheCoherent
  BY DEF AccountsInit, Init, AuthInit, CacheCoherent
<1>6. GoodReq(Idle)
  BY DEF Idle, Ops, GoodReq, ReqControl, SessionSound, Running, Request, Control
<1>7. \A p \in Procs : GoodReq(req[p])
  BY <1>6 DEF AccountsInit, Init, AuthInit
<1> QED BY <1>1, <1>3, <1>4, <1>5, <1>7 DEF AccInv, AccountsTypeOK

(* Every step keeps it and the promise.                                    *)
LEMMA AccountsStep ==
    ASSUME AccInv, AccountsNext
    PROVE  AccInv' /\ Promise
<1>1. ASSUME NEW p \in Procs, Start(p), UNCHANGED adm PROVE AccInv' /\ Promise
  <2>1. HandlersKept
    BY <1>1, Alone
  <2> QED BY <1>1, <2>1, RejectBlankGood, LoginGood, LoadRecordGood, AuthenticateGood
          DEF Start
<1>2. ASSUME NEW p \in Procs, Step(p), UNCHANGED adm PROVE AccInv' /\ Promise
  <2>1. HandlersKept
    BY <1>2, Alone
  <2> QED BY <1>2, <2>1, LoadSessionGood, ReadUserGood, ReadRolesGood, ReadPermsGood,
             FillCacheGood, SaveRecordGood, RotateGood, DropOutdatedGood, DropBannedGood,
             EvictBannedGood, BumpVersionGood, ClearSessionGood, RevokeGood DEF Step
<1>3. ASSUME NEW p \in Procs, Serve(p) PROVE AccInv' /\ Promise
  BY <1>3, InsertUserGood, LoadForUpdateGood, SoftDeleteGood
     DEF Serve, StartWrite, StartDelete
<1>4. ASSUME NEW p \in Procs, Handle(p) PROVE AccInv' /\ Promise
  BY <1>4, FindRoleGood, AssignRoleGood, WriteRowGood DEF Handle, HandlerStep
<1> QED BY <1>1, <1>2, <1>3, <1>4, FinishedGood, ExpireGood DEF AccountsNext, Progress

(* A step that changes nothing keeps it too.                               *)
LEMMA AccountsStutter ==
    ASSUME AccInv, UNCHANGED accountVars
    PROVE  AccInv' /\ Promise
<1>1. UNCHANGED <<users, userRoles, sessions, refresh, issued, access, req, adm>>
  BY DEF accountVars, vars
<1>2. \A u, s : CoherentSession(u, s)' <=> CoherentSession(u, s)
  BY <1>1 DEF CoherentSession
<1>3. \A q : GoodReq(q)' <=> GoodReq(q)
  BY <1>1, <1>2 DEF GoodReq, SessionSound, ReqControl, Running
<1>4. AccInv'
  BY <1>1, <1>2, <1>3 DEF AccInv, AccountsTypeOK, TypeOK, TableTypeOK, AdmTypeOK,
     UniqueEmails, CacheCoherent
<1>5. Promise
  BY <1>1 DEF Promise, StaysShut, DeletedKept, DeadKept, ShutOut, Barred
<1> QED BY <1>4, <1>5

(* The invariant holds in every behaviour, and every step keeps the        *)
(* promise.                                                                *)
LEMMA AccountsKept ==
    AccInv /\ [AccountsNext]_accountVars => AccInv' /\ Promise
  BY AccountsStep, AccountsStutter

(* The invariant holds in every behaviour.                                 *)
THEOREM AccountsInvariance == AccountsSpec => []AccInv
  BY AccountsInitInv, AccountsKept, PTL DEF AccountsSpec

(* Every table, store, request and handler keeps its shape, with the       *)
(* handlers of the administration running among the authentication flows.  *)
THEOREM AccountsTypeCorrect == AccountsSpec => []AccountsTypeOK
<1>1. AccInv => AccountsTypeOK
  BY DEF AccInv
<1> QED BY <1>1, AccountsInvariance, PTL

(* Every session, cached or put together for a request that met no error,  *)
(* covers the permissions of the roles it names and grants none the user's *)
(* roles do not, for every number of requests and role assignments between *)
(* the two queries and whichever store calls fail (session_loader.go:41).  *)
THEOREM SessionsStayCoherent == AccountsSpec => []SessionsCoherent
<1>1. AccInv => SessionsCoherent
  BY DEF AccInv, CacheCoherent, GoodReq, SessionSound, SessionsCoherent
<1> QED BY <1>1, AccountsInvariance, PTL

(* GetByEmail finds at most one row in every reachable table, whatever     *)
(* creations and updates race each other (model/user.go:11).               *)
THEOREM EmailIdentifies ==
    AccountsSpec => [](\A e \in Emails : \A u, w \in GetByEmail(e) : u = w)
<1>1. AccInv => \A e \in Emails : \A u, w \in GetByEmail(e) : u = w
  BY OneRow
<1> QED BY <1>1, AccountsInvariance, PTL

(* A deleted row never changes again: an update that read the row before   *)
(* the deletion writes nothing (postgres.go:113).                          *)
THEOREM DeletionFinal == AccountsSpec => DeletedStaysDeleted
<1> DEFINE Kept == \A u \in Users : users[u].st = "deleted" => users'[u] = users[u]
<1>1. AccInv /\ [AccountsNext]_accountVars => [Kept]_accountVars
  BY AccountsKept DEF Promise, DeletedKept
<1>2. AccountsSpec => [][Kept]_accountVars
  BY <1>1, AccountsInvariance, PTL DEF AccountsSpec
<1> QED BY <1>2 DEF DeletedStaysDeleted

(* Once the sessions and fills that predate a deactivation or a deletion   *)
(* are gone, none comes back and nothing more is accepted for the user,    *)
(* until the row is active again.                                          *)
THEOREM ShutOutKept == AccountsSpec => ShutOutHolds
<1> DEFINE Kept == \A u \in Users : ShutOut(u) /\ Barred(u)' =>
                     /\ ShutOut(u)'
                     /\ \A p \in Procs : req'[p].uid = u /\ Accepted(req'[p]) =>
                          Accepted(req[p])
<1>1. AccInv /\ [AccountsNext]_accountVars => [Kept]_accountVars
  BY AccountsKept DEF Promise, StaysShut
<1>2. AccountsSpec => [][Kept]_accountVars
  BY <1>1, AccountsInvariance, PTL DEF AccountsSpec
<1> QED BY <1>2 DEF ShutOutHolds

(* With the administration running too, no refresh token whose record is   *)
(* gone is honoured again.                                                 *)
THEOREM TokensStayDeadHere == AccountsSpec => NoResurrection
<1> DEFINE Dead == \A t \in Tokens : t \in issued /\ refresh[t] = NoRecord =>
                     refresh'[t] = NoRecord
<1>1. AccInv /\ [AccountsNext]_accountVars => [Dead]_vars
  BY AccountsKept DEF Promise, DeadKept
<1>2. AccountsSpec => [][Dead]_vars
  BY <1>1, AccountsInvariance, PTL DEF AccountsSpec
<1> QED BY <1>2 DEF NoResurrection-----------------------------------------------------------------------------
(* The refinement of Directory.                                            *)

(* A handler that has inserted a user and not yet given him his role.      *)
Creating(h) == h.pc \in {"role", "assign"}

(* Nobody has roles before he has a row; a user who is being created has   *)
(* none and no one else is creating him; the copy an update writes back    *)
(* was made from a live row.                                               *)
Creations ==
    /\ \A u \in Users : users[u].st = "absent" => userRoles[u] = {}
    /\ \A p \in Procs : Creating(adm[p]) => /\ users[adm[p].uid].st # "absent"
                                            /\ userRoles[adm[p].uid] = {}
    /\ \A p, q \in Procs :
         Creating(adm[p]) /\ Creating(adm[q]) /\ adm[p].uid = adm[q].uid => p = q
    /\ \A p \in Procs : adm[p].pc = "write" => adm[p].row.st = "live"

(* A handler ends, goes on with the same user, or takes a live row along.  *)
GoesOn(h, g) == \/ g = h \/ g.pc \in {"idle", "done"}
                \/ Creating(h) /\ Creating(g) /\ g.uid = h.uid
                \/ g.pc = "write" /\ g.row.st = "live"

(* A handler that goes on while no row appears and no role is given keeps  *)
(* what is true of creations.                                              *)
LEMMA CreationsGoOn ==
    ASSUME AccInv, Creations, UNCHANGED userRoles,
           \A u \in Users : users'[u].st = "absent" <=> users[u].st = "absent",
           \A p \in Procs : GoesOn(adm[p], adm'[p])
    PROVE  Creations'
<1>1. \A p \in Procs : Creating(adm'[p]) => Creating(adm[p]) /\ adm'[p].uid = adm[p].uid
  BY DEF GoesOn, Creating
<1>2. \A p \in Procs : Creating(adm[p]) => adm[p].uid \in Users
  BY DEF AccInv, AdmControl, Creating
<1>3. \A p \in Procs : Creating(adm'[p]) => /\ users'[adm'[p].uid].st # "absent"
                                            /\ userRoles'[adm'[p].uid] = {}
  BY <1>1, <1>2 DEF Creations
<1>4. \A p \in Procs : adm'[p].pc = "write" => adm'[p].row.st = "live"
  BY DEF GoesOn, Creating, Creations
<1> QED BY <1>1, <1>3, <1>4 DEF Creations, Creating

(* A step that leaves rows and roles alone, versions apart, is a stutter.  *)
LEMMA QuietStep ==
    ASSUME AccInv, Creations, RowsKept, UNCHANGED userRoles,
           \A p \in Procs : GoesOn(adm[p], adm'[p])
    PROVE  Creations' /\ UNCHANGED Dir!directoryVars
<1>1. Creations'
  BY CreationsGoOn DEF RowsKept
<1>2. UNCHANGED Dir!directoryVars
  BY DEF Dir!directoryVars, RowsKept
<1> QED BY <1>1, <1>2

(* The steps of the authentication flows are such steps.                   *)
LEMMA FlowsQuiet ==
    ASSUME AccInv, (\E p \in Procs : Start(p) \/ Step(p) \/ Return(p)) \/ Expire
    PROVE  RowsKept /\ UNCHANGED userRoles
<1>1. CASE \E p \in Procs : BumpVersion(p)
  <2>1. PICK p \in Procs : BumpVersion(p)
    BY <1>1
  <2> DEFINE u == req[p].uid
  <2>2. u \in Users /\ users \in [Users -> Row]
    BY <2>1, RunningGood, TablesAlone DEF BumpVersion, Running, GoodReq, ReqControl
  <2>3. \/ users' = users
        \/ Live(u) /\ users' = [users EXCEPT ![u].ver = @ + 1]
    BY <2>1 DEF BumpVersion, IncrementTokenVersion
  <2> HIDE DEF u
  <2>4. RowsKept
    BY <2>2, <2>3 DEF RowsKept, Row, Live
  <2> QED BY <2>1, <2>4 DEF BumpVersion
<1>2. CASE UNCHANGED tableVars
  BY <1>2, TablesAlone DEF tableVars, RowsKept
<1>3. ASSUME NEW p \in Procs, Start(p) PROVE UNCHANGED tableVars
  <2>1. \A op \in Ops : RejectBlank(p, op) => UNCHANGED tableVars
    BY DEF RejectBlank, tableVars
  <2>2. \A e \in Emails : Login(p, e) => UNCHANGED tableVars
    BY DEF Login, tableVars
  <2>3. \A op, t : LoadRecord(p, op, t) => UNCHANGED tableVars
    BY DEF LoadRecord, tableVars
  <2>4. \A c : Authenticate(p, c) => UNCHANGED tableVars
    BY DEF Authenticate, tableVars
  <2> QED BY <1>3, <2>1, <2>2, <2>3, <2>4 DEF Start
<1>4. ASSUME NEW p \in Procs, Step(p), ~BumpVersion(p) PROVE UNCHANGED tableVars
  <2>1. /\ LoadSession(p) => UNCHANGED tableVars
        /\ ReadUser(p) => UNCHANGED tableVars
        /\ ReadRoles(p) => UNCHANGED tableVars
        /\ ReadPerms(p) => UNCHANGED tableVars
    BY DEF LoadSession, ReadUser, ReadRoles, ReadPerms, tableVars
  <2>2. /\ FillCache(p) => UNCHANGED tableVars
        /\ SaveRecord(p) => UNCHANGED tableVars
        /\ Rotate(p) => UNCHANGED tableVars
    BY DEF FillCache, SaveRecord, Rotate, tableVars
  <2>3. /\ DropOutdated(p) => UNCHANGED tableVars
        /\ DropBanned(p) => UNCHANGED tableVars
        /\ EvictBanned(p) => UNCHANGED tableVars
        /\ ClearSession(p) => UNCHANGED tableVars
        /\ Revoke(p) => UNCHANGED tableVars
    BY DEF DropOutdated, DropBanned, EvictBanned, ClearSession, Revoke, tableVars
  <2> QED BY <1>4, <2>1, <2>2, <2>3 DEF Step
<1>5. ASSUME NEW p \in Procs, Return(p) PROVE UNCHANGED tableVars
  BY <1>5 DEF Return, tableVars
<1>6. Expire => UNCHANGED tableVars
  BY DEF Expire, ExpireSession, ExpireRecord, tableVars
<1> QED BY <1>1, <1>2, <1>3, <1>4, <1>5, <1>6
(* A creation that inserts its row registers a user.                       *)
LEMMA InsertRegisters ==
    ASSUME AccInv, Creations, NEW p \in Procs, NEW u \in Users, NEW e \in Emails,
           NEW role \in Roles \cup {NoRole}, InsertUser(p, u, e, role)
    PROVE  Creations' /\ (Dir!Register(u, e) \/ UNCHANGED Dir!directoryVars)
<1> DEFINE h == [NoHandler EXCEPT !.op = "create", !.uid = u, !.role = role]
           row == [st |-> "live", email |-> e, active |-> TRUE, ver |-> 0]
<1>1. /\ users[u].st = "absent" /\ UNCHANGED userRoles /\ userRoles[u] = {}
      /\ users \in [Users -> Row] /\ adm \in [Procs -> Handler]
  BY TablesAlone DEF InsertUser, Creations, AccInv, AccountsTypeOK, AdmTypeOK
<1>2. /\ \/ UNCHANGED users /\ adm' = [adm EXCEPT ![p] = Finish(h, FALSE)]
         \/ /\ users' = [users EXCEPT ![u] = row] /\ ~EmailTaken(e, u)
            /\ adm' = [adm EXCEPT ![p] = IF role = NoRole THEN Finish(h, TRUE)
                                         ELSE [h EXCEPT !.pc = "role"]]
         \/ /\ users' = [users EXCEPT ![u] = row] /\ ~EmailTaken(e, u)
            /\ adm' = [adm EXCEPT ![p] = Finish(h, FALSE)]
  BY DEF InsertUser
<1>3. /\ \A ok : Finish(h, ok).pc = "done"
      /\ [h EXCEPT !.pc = "role"].pc = "role" /\ [h EXCEPT !.pc = "role"].uid = u
  BY DEF NoHandler, Finish
<1> HIDE DEF h
<1>4. CASE UNCHANGED users
  <2>1. adm' = [adm EXCEPT ![p] = Finish(h, FALSE)]
    <3>1. row.st = "live" /\ users[u] # row
      BY <1>1
    <3> HIDE DEF row
    <3> QED BY <1>1, <1>2, <1>4, <3>1
  <2>2. \A q \in Procs : GoesOn(adm[q], adm'[q])
    BY <1>1, <1>3, <2>1 DEF GoesOn
  <2>3. RowsKept
    BY <1>1, <1>4 DEF RowsKept
  <2> QED BY <1>1, <2>2, <2>3, QuietStep
<1>5. CASE users' = [users EXCEPT ![u] = row] /\ ~EmailTaken(e, u)
  <2>1. /\ users'[u].st = "live" /\ users'[u].email = e /\ users'[u].active = TRUE
        /\ \A w \in Users \ {u} : users'[w] = users[w]
    BY <1>1, <1>5
  <2>2. Dir!Register(u, e)
    <3>1. ~Dir!Known(u) /\ Dir!Usable(e, u)
      BY <1>1, <1>5 DEF Dir!Known, Dir!Usable, EmailTaken
    <3> QED BY <1>1, <2>1, <3>1 DEF Dir!Register
  <2>3. \A q \in Procs \ {p} : adm'[q] = adm[q]
    BY <1>1, <1>2
  <2>4. \/ adm'[p].pc = "done"
        \/ adm'[p].pc = "role" /\ adm'[p].uid = u
    <3>1. \/ adm' = [adm EXCEPT ![p] = Finish(h, TRUE)]
          \/ adm' = [adm EXCEPT ![p] = Finish(h, FALSE)]
          \/ adm' = [adm EXCEPT ![p] = [h EXCEPT !.pc = "role"]]
      BY <1>2
    <3> QED BY <1>1, <1>3, <3>1
  <2>5. (Creating(adm'[p]) => adm'[p].uid = u) /\ adm'[p].pc # "write"
    BY <2>4 DEF Creating
  <2>6. \A q \in Procs \ {p} : Creating(adm[q]) => adm[q].uid # u /\ adm[q].uid \in Users
    BY <1>1 DEF Creations, AccInv, AdmControl, Creating
  <2>7. \A w \in Users : users'[w].st = "absent" => userRoles'[w] = {}
    BY <1>1, <2>1 DEF Creations
  <2>8. \A q \in Procs : Creating(adm'[q]) => /\ users'[adm'[q].uid].st # "absent"
                                              /\ userRoles'[adm'[q].uid] = {}
    BY <1>1, <2>1, <2>3, <2>5, <2>6 DEF Creations
  <2>9. \A q, r \in Procs :
          Creating(adm'[q]) /\ Creating(adm'[r]) /\ adm'[q].uid = adm'[r].uid => q = r
    BY <2>3, <2>5, <2>6 DEF Creations
  <2>10. Creations'
    BY <2>3, <2>5, <2>7, <2>8, <2>9 DEF Creations, Creating
  <2> QED BY <2>2, <2>10
<1> QED BY <1>2, <1>4, <1>5

(* The role of a new user is his first.                                    *)
LEMMA AssignGrants ==
    ASSUME AccInv, Creations, NEW p \in Procs, AssignRole(p)
    PROVE  /\ Creations'
           /\ \/ \E u \in Users, role \in Roles : Dir!Grant(u, role)
              \/ UNCHANGED Dir!directoryVars
<1> DEFINE h == adm[p]
<1>1. /\ h.uid \in Users /\ h.role \in Roles /\ adm \in [Procs -> Handler]
      /\ Creating(h) /\ users[h.uid].st # "absent" /\ userRoles[h.uid] = {}
  BY DEF AssignRole, AccInv, AccountsTypeOK, AdmTypeOK, AdmControl, Creating, Creations
<1>2. PICK o \in Outcomes("postgres") :
        /\ userRoles' = IF Applied(o) THEN [userRoles EXCEPT ![h.uid] = @ \cup {h.role}]
                        ELSE userRoles
        /\ adm' = [adm EXCEPT ![p] = Finish(h, ~Erred(o))]
  BY DEF AssignRole
<1>3. /\ adm'[p].pc = "done" /\ UNCHANGED users
      /\ \A q \in Procs \ {p} : adm'[q] = adm[q]
  BY <1>1, <1>2 DEF AssignRole, Finish, Handler
<1> HIDE DEF h
<1>4. CASE UNCHANGED userRoles
  <2>1. RowsKept /\ \A q \in Procs : GoesOn(adm[q], adm'[q])
    BY <1>3, TablesAlone DEF GoesOn, RowsKept
  <2> QED BY <1>4, <2>1, QuietStep
<1>5. CASE userRoles' = [userRoles EXCEPT ![h.uid] = @ \cup {h.role}]
  <2>1. userRoles' = [userRoles EXCEPT ![h.uid] = {h.role}]
    BY <1>1, <1>5
  <2>2. Dir!Grant(h.uid, h.role)
    BY <1>1, <1>3, <2>1 DEF Dir!Grant, Dir!Known
  <2>3. \A w \in Users \ {h.uid} : userRoles'[w] = userRoles[w]
    BY <2>1, TablesAlone
  <2>4. \A q \in Procs : Creating(adm'[q]) => /\ Creating(adm[q]) /\ adm'[q] = adm[q]
                                              /\ adm[q].uid \in Users \ {h.uid}
    BY <1>1, <1>3 DEF Creations, AccInv, AdmControl, Creating, h
  <2>5. \A q \in Procs : Creating(adm'[q]) => /\ users'[adm'[q].uid].st # "absent"
                                              /\ userRoles'[adm'[q].uid] = {}
    BY <1>3, <2>3, <2>4 DEF Creations
  <2>6. \A w \in Users : users'[w].st = "absent" => userRoles'[w] = {}
    BY <1>1, <1>3, <2>3 DEF Creations
  <2>7. \A q \in Procs : adm'[q].pc = "write" => adm'[q].row.st = "live"
    BY <1>3 DEF Creations
  <2>8. Creations'
    BY <2>4, <2>5, <2>6, <2>7 DEF Creations, Creating
  <2> QED BY <1>1, <2>2, <2>8
<1> QED BY <1>2, <1>4, <1>5
(* An update writes the copy of a live row to a row that is still live,    *)
(* under an email no other row has.                                        *)
LEMMA WriteChanges ==
    ASSUME AccInv, Creations, NEW p \in Procs, WriteRow(p)
    PROVE  /\ Creations'
           /\ \/ \E u \in Users, e \in Emails, b \in BOOLEAN : Dir!Change(u, e, b)
              \/ UNCHANGED Dir!directoryVars
<1> DEFINE h == adm[p]
           row == h.row
<1>1. /\ h.uid \in Users /\ row \in Row /\ row.st = "live" /\ UNCHANGED userRoles
      /\ users \in [Users -> Row] /\ adm \in [Procs -> Handler]
  BY TablesAlone
     DEF WriteRow, AccInv, AccountsTypeOK, AdmTypeOK, AdmControl, Handler, Creations
<1>2. /\ \/ UNCHANGED users
         \/ /\ users' = [users EXCEPT ![h.uid] = row]
            /\ Live(h.uid) /\ ~EmailTaken(row.email, h.uid)
      /\ \E ok : adm' = [adm EXCEPT ![p] = Finish(h, ok)]
  BY DEF WriteRow
<1>3. adm'[p].pc = "done" /\ \A q \in Procs \ {p} : adm'[q] = adm[q]
  BY <1>1, <1>2 DEF Finish, Handler
<1>4. \A q \in Procs : GoesOn(adm[q], adm'[q])
  BY <1>3 DEF GoesOn
<1> HIDE DEF h, row
<1>5. CASE UNCHANGED users
  <2>1. RowsKept
    BY <1>1, <1>5 DEF RowsKept
  <2> QED BY <1>1, <1>4, <2>1, QuietStep
<1>6. CASE /\ users' = [users EXCEPT ![h.uid] = row]
           /\ Live(h.uid) /\ ~EmailTaken(row.email, h.uid)
  <2>1. users'[h.uid] = row /\ \A w \in Users \ {h.uid} : users'[w] = users[w]
    BY <1>1, <1>6
  <2>2. Dir!Change(h.uid, row.email, row.active)
    <3>1. Dir!Usable(row.email, h.uid)
      BY <1>6 DEF Dir!Usable, Dir!Known, EmailTaken
    <3> QED BY <1>1, <1>6, <2>1, <3>1 DEF Dir!Change, Live
  <2>3. row.email \in Emails /\ row.active \in BOOLEAN
    BY <1>1 DEF Row
  <2>4. \A w \in Users : users'[w].st = "absent" <=> users[w].st = "absent"
    BY <1>1, <1>6, <2>1 DEF Live
  <2>5. Creations'
    BY <1>1, <1>4, <2>4, CreationsGoOn
  <2>6. \E u \in Users, e \in Emails, b \in BOOLEAN : Dir!Change(u, e, b)
    <3>1. CASE row.active = TRUE
      BY <1>1, <2>2, <2>3, <3>1 DEF Dir!Change
    <3>2. CASE row.active = FALSE
      BY <1>1, <2>2, <2>3, <3>2 DEF Dir!Change
    <3> QED BY <2>3, <3>1, <3>2
  <2> QED BY <2>5, <2>6
<1> QED BY <1>2, <1>5, <1>6

(* A deletion removes a user.                                              *)
LEMMA DeleteRemoves ==
    ASSUME AccInv, Creations, NEW p \in Procs, NEW u \in Users, SoftDelete(p, u)
    PROVE  Creations' /\ (Dir!Remove(u) \/ UNCHANGED Dir!directoryVars)
<1>1. users \in [Users -> Row] /\ adm \in [Procs -> Handler] /\ UNCHANGED userRoles
  BY TablesAlone DEF SoftDelete, AccInv, AccountsTypeOK, AdmTypeOK
<1>2. /\ \/ UNCHANGED users
         \/ Live(u) /\ users' = [users EXCEPT ![u].st = "deleted"]
      /\ \E h, ok : adm' = [adm EXCEPT ![p] = Finish(h, ok)] /\ h.pc = "idle"
                    /\ h = [NoHandler EXCEPT !.op = "delete", !.uid = u]
  BY DEF SoftDelete, NoHandler
<1>3. adm'[p].pc = "done" /\ \A q \in Procs \ {p} : adm'[q] = adm[q]
  BY <1>1, <1>2 DEF Finish, NoHandler
<1>4. \A q \in Procs : GoesOn(adm[q], adm'[q])
  BY <1>3 DEF GoesOn
<1>5. CASE UNCHANGED users
  <2>1. RowsKept
    BY <1>1, <1>5 DEF RowsKept
  <2> QED BY <1>1, <1>4, <2>1, QuietStep
<1>6. CASE Live(u) /\ users' = [users EXCEPT ![u].st = "deleted"]
  <2>1. /\ users'[u].st = "deleted" /\ users'[u].email = users[u].email
        /\ users'[u].active = users[u].active
        /\ \A w \in Users \ {u} : users'[w] = users[w]
    BY <1>1, <1>6 DEF Row
  <2>2. Dir!Remove(u)
    <3> DEFINE old == [w \in Users |-> [st |-> users[w].st, email |-> users[w].email,
                                       active |-> users[w].active]]
               removed == [st |-> "deleted", email |-> users[u].email,
                           active |-> users[u].active]
    <3>1. old[u] = [st |-> "live", email |-> users[u].email, active |-> users[u].active]
      BY <1>6 DEF Live
    <3>2. [old[u] EXCEPT !.st = "deleted"] = removed
      BY <3>1
    <3>3. [old EXCEPT ![u].st = "deleted"] = [old EXCEPT ![u] = removed]
      BY <3>2
    <3>4. old' = [old EXCEPT ![u] = removed]
      BY <2>1
    <3> QED BY <1>1, <3>1, <3>3, <3>4 DEF Dir!Remove
  <2>3. \A w \in Users : users'[w].st = "absent" <=> users[w].st = "absent"
    BY <1>6, <2>1 DEF Live
  <2>4. Creations'
    BY <1>1, <1>4, <2>3, CreationsGoOn
  <2> QED BY <2>2, <2>4
<1> QED BY <1>2, <1>5, <1>6

(* The other steps of the handlers change nothing a reader of the          *)
(* directory can see.                                                      *)
LEMMA HandlersQuiet ==
    ASSUME AccInv, Creations, NEW p \in Procs,
           \/ FindRole(p)
           \/ \E u \in Users, e \in Emails \cup {Keep}, b \in BOOLEAN \cup {Keep} :
                LoadForUpdate(p, u, e, b)
    PROVE  Creations' /\ UNCHANGED Dir!directoryVars
<1>1. adm \in [Procs -> Handler]
  BY DEF AccInv, AccountsTypeOK, AdmTypeOK
<1>2. RowsKept /\ UNCHANGED userRoles
  <2>1. FindRole(p) => UNCHANGED <<users, userRoles>>
    BY DEF FindRole, tableVars
  <2>2. \A u, e, b : LoadForUpdate(p, u, e, b) => UNCHANGED <<users, userRoles>>
    BY DEF LoadForUpdate, tableVars
  <2>3. UNCHANGED <<users, userRoles>>
    BY <2>1, <2>2
  <2> QED BY <2>3, TablesAlone DEF RowsKept
<1>3. CASE FindRole(p)
  <2>1. \/ adm' = [adm EXCEPT ![p] = Finish(adm[p], FALSE)]
        \/ adm' = [adm EXCEPT ![p] = [adm[p] EXCEPT !.pc = "assign"]]
    BY <1>3 DEF FindRole
  <2>2. GoesOn(adm[p], adm'[p]) /\ \A q \in Procs \ {p} : adm'[q] = adm[q]
    BY <1>1, <1>3, <2>1 DEF FindRole, GoesOn, Creating, Finish, Handler
  <2>3. \A q \in Procs : GoesOn(adm[q], adm'[q])
    BY <2>2 DEF GoesOn
  <2> QED BY <1>2, <2>3, QuietStep
<1>4. ASSUME NEW u \in Users, NEW e, NEW b, LoadForUpdate(p, u, e, b)
      PROVE  Creations' /\ UNCHANGED Dir!directoryVars
  <2> DEFINE h == [NoHandler EXCEPT !.op = "update", !.uid = u]
             row == [users[u] EXCEPT !.email = Merge(@, e), !.active = Merge(@, b)]
             g == [h EXCEPT !.pc = "write", !.row = row]
  <2>1. \/ adm' = [adm EXCEPT ![p] = Finish(h, FALSE)]
        \/ Live(u) /\ adm' = [adm EXCEPT ![p] = g]
    BY <1>4 DEF LoadForUpdate
  <2>2. Live(u) => row.st = "live"
    BY TablesAlone DEF Row, Live
  <2> HIDE DEF row
  <2>3. Finish(h, FALSE).pc = "done" /\ g.pc = "write" /\ g.row = row
    BY DEF Finish, NoHandler
  <2> HIDE DEF h, g
  <2>4. \A q \in Procs : GoesOn(adm[q], adm'[q])
    BY <1>1, <2>1, <2>2, <2>3 DEF GoesOn
  <2> QED BY <1>2, <2>4, QuietStep
<1> QED BY <1>3, <1>4

(* The seeded table is a directory.                                        *)
LEMMA DirectoryStarts == AccountsInit => Creations /\ Dir!DirectoryInit
<1> SUFFICES ASSUME AccountsInit PROVE Creations /\ Dir!DirectoryInit
  OBVIOUS
<1>1. \A p \in Procs : adm[p] = NoHandler
  BY DEF AccountsInit, UsersInit
<1>2. \A u \in Users : users[u].st \in {"absent", "live"}
  BY DEF AccountsInit, Init, TableInit, NoRow
<1>3. \A u \in Users : ~Live(u) => userRoles[u] = {}
  BY DEF AccountsInit, Init, TableInit
<1>4. \A p \in Procs : adm[p].pc = "idle"
  BY <1>1 DEF NoHandler
<1>5. Creations
  BY <1>2, <1>3, <1>4 DEF Creations, Creating, Live
<1>6. UniqueEmails
  BY AccountsInitInv DEF AccInv
<1>7. Dir!DirectoryInit
  BY <1>2, <1>3, <1>6 DEF Dir!DirectoryInit, Dir!Known, Dir!Usable, UniqueEmails, Live
<1> QED BY <1>5, <1>7

(* Every step is one of Directory or leaves it alone.                      *)
LEMMA DirectoryKept ==
    ASSUME AccInv, Creations, [AccountsNext]_accountVars
    PROVE  Creations' /\ [Dir!DirectoryNext]_(Dir!directoryVars)
<1>1. ASSUME (\E p \in Procs : Start(p) \/ Step(p)) \/ Expire, UNCHANGED adm
      PROVE  Creations' /\ UNCHANGED Dir!directoryVars
  BY <1>1, FlowsQuiet, QuietStep DEF GoesOn
<1>2. ASSUME NEW p \in Procs, Finished(p)
      PROVE  Creations' /\ UNCHANGED Dir!directoryVars
  <2>1. \A q \in Procs : GoesOn(adm[q], adm'[q])
    BY <1>2 DEF Finished, GoesOn, NoHandler, AccInv, AccountsTypeOK, AdmTypeOK
  <2> QED BY <1>2, <2>1, FlowsQuiet, QuietStep DEF Finished
<1>3. ASSUME NEW p \in Procs, Serve(p)
      PROVE  Creations' /\ [Dir!DirectoryNext]_(Dir!directoryVars)
  BY <1>3, InsertRegisters, HandlersQuiet, DeleteRemoves
     DEF Serve, StartWrite, StartDelete, Dir!DirectoryNext
<1>4. ASSUME NEW p \in Procs, Handle(p)
      PROVE  Creations' /\ [Dir!DirectoryNext]_(Dir!directoryVars)
  BY <1>4, HandlersQuiet, AssignGrants, WriteChanges
     DEF Handle, HandlerStep, Dir!DirectoryNext
<1>5. CASE UNCHANGED accountVars
  <2>1. UNCHANGED <<users, userRoles, adm>>
    BY <1>5 DEF accountVars, vars
  <2>2. RowsKept /\ \A q \in Procs : GoesOn(adm[q], adm'[q])
    BY <2>1, TablesAlone DEF RowsKept, GoesOn
  <2> QED BY <2>1, <2>2, QuietStep
<1> QED BY <1>1, <1>2, <1>3, <1>4, <1>5 DEF AccountsNext, Progress

(* Whatever requests overlap and whichever statements fail, the two tables *)
(* change only as Directory allows: a removed user stays removed and keeps *)
(* his email, and a user's role is the one his creation gave him           *)
(* (users/service.go:81-120).                                              *)
THEOREM DirectoryImplemented == AccountsSpec => ImplementsDirectory
<1>1. AccountsInit => Creations /\ Dir!DirectoryInit
  BY DirectoryStarts
<1>2. AccInv /\ Creations /\ [AccountsNext]_accountVars
        => Creations' /\ [Dir!DirectoryNext]_(Dir!directoryVars)
  BY DirectoryKept
<1> QED BY <1>1, <1>2, AccountsInvariance, PTL
       DEF AccountsSpec, ImplementsDirectory, Dir!DirectorySpec
=============================================================================
