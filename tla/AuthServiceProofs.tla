-------------------------- MODULE AuthServiceProofs --------------------------
(***************************************************************************)
(* Proofs about AuthService for every number of users, requests and        *)
(* tokens, whatever store calls fail.  The inductive invariant IInv adds   *)
(* to TypeOK and NoFutureVersions what a request knows at each of its      *)
(* control points: it has a user, a session, a presented or a new token by *)
(* the time it uses them.                                                  *)
(***************************************************************************)
EXTENDS AuthService, TLAPS

Running(r) == r.pc \notin {"idle", "done"}

(* What a request has in hand where it needs it.                           *)
ReqControl(r) ==
    /\ Running(r) => r.uid \in Users
    /\ r.pc \in {"roles", "perms", "fill", "save", "rotate"} => r.sess \in Session
    /\ r.op = "refresh" /\ Running(r) => r.tok \in Tokens
    /\ r.pc \in {"rotate", "drop", "evict", "bump", "clear", "revoke"} => r.tok \in Tokens
    /\ r.pc = "rotate" => r.new \in Tokens /\ r.op = "refresh"
    /\ r.pc \in {"bump", "clear", "revoke"} => r.op = "logout"

(* The versions a request carries are none of the row's future.            *)
ReqVersions(r) ==
    r.uid # NoUser =>
       /\ r.want <= users[r.uid].ver
       /\ r.sess # NoSession => r.sess.ver <= users[r.uid].ver

ReqInv(r) == r \in Request /\ ReqControl(r) /\ ReqVersions(r)

(* The versions in the stores are none of the rows' future.                *)
SessionVersions == \A u \in Users : sessions[u] # NoSession =>
                                      sessions[u].ver <= users[u].ver
RecordVersions  == \A t \in Tokens : refresh[t] # NoRecord =>
                                      refresh[t].ver <= users[refresh[t].uid].ver
ClaimVersions   == \A c \in access : c.ver <= users[c.uid].ver

IInv == /\ TypeOK
        /\ SessionVersions /\ RecordVersions /\ ClaimVersions
        /\ \A p \in Procs : ReqInv(req[p])

-----------------------------------------------------------------------------
(* Lemmas about the operators the actions are built from.                  *)

(* The idle request, with any operation, satisfies the request invariant.  *)
LEMMA IdleInv == ASSUME NEW op \in Ops
                 PROVE  ReqInv([Idle EXCEPT !.op = op])
  BY SentinelAssumption
     DEF Idle, Ops, ReqInv, ReqControl, ReqVersions, Running, Request, Control

(* Moving on to the next control point keeps everything else.              *)
LEMMA MoveOn ==
    ASSUME NEW r \in Request, NEW pc \in Control
    PROVE  LET q == [r EXCEPT !.pc = pc]
           IN /\ q \in Request /\ q.pc = pc
              /\ q.op = r.op /\ q.uid = r.uid /\ q.tok = r.tok /\ q.new = r.new
              /\ q.want = r.want /\ q.sess = r.sess
  BY DEF Request

(* Answering keeps what the request carries and ends its obligations.      *)
LEMMA AnswerInv ==
    ASSUME NEW r, ReqInv(r), NEW out \in {"ok", "unauthorized", "error"}
    PROVE  /\ ReqInv(Answer(r, out))
           /\ Answer(r, out).pc = "done"
           /\ Answer(r, out).out = out
           /\ Answer(r, out).op = r.op
           /\ Answer(r, out).uid = r.uid
           /\ Answer(r, out).want = r.want
           /\ Answer(r, out).sess = r.sess
           /\ Accepted(Answer(r, out)) => r.op = "access" /\ out = "ok"
<1>1. r \in Request
  BY DEF ReqInv
<1>2. Audited(r.op, out) \in {"none", "success", "failure"}
  BY <1>1 DEF Audited, Request, Ops
<1>3. Answer(r, out) = [r EXCEPT !.pc = "done", !.out = out,
                                 !.entry = Audited(r.op, out)]
  BY DEF Answer
<1>4. Answer(r, out) \in Request
  BY <1>1, <1>2, <1>3 DEF Request, Control
<1>5. /\ Answer(r, out).pc = "done" /\ Answer(r, out).out = out
      /\ Answer(r, out).op = r.op /\ Answer(r, out).uid = r.uid
      /\ Answer(r, out).want = r.want /\ Answer(r, out).sess = r.sess
  BY <1>1, <1>3 DEF Request
<1>6. ReqControl(Answer(r, out))
  BY <1>5 DEF ReqControl, Running
<1>7. ReqVersions(Answer(r, out))
  BY <1>5 DEF ReqInv, ReqVersions
<1> QED BY <1>4, <1>5, <1>6, <1>7 DEF ReqInv, Accepted

(* Deciding on a session no newer than the row keeps the invariant, and    *)
(* accepts only a session of the version the credential carries.           *)
LEMMA DecideInv ==
    ASSUME NEW r, ReqInv(r), Running(r),
           NEW s \in Session, s.ver <= users[r.uid].ver
    PROVE  /\ ReqInv(Decide(r, s))
           /\ Decide(r, s).uid = r.uid /\ Decide(r, s).want = r.want
           /\ Decide(r, s).op = r.op
           /\ Decide(r, s).pc \in {"save", "drop", "evict", "done"}
           /\ Accepted(Decide(r, s)) => s.ver = r.want
<1> DEFINE q == [r EXCEPT !.sess = s]
<1>1. r \in Request /\ r.uid \in Users
  BY DEF ReqInv, ReqControl
<1>2. /\ q \in Request /\ q.sess = s /\ q.uid = r.uid /\ q.op = r.op
      /\ q.want = r.want /\ q.pc = r.pc /\ q.tok = r.tok /\ q.new = r.new
  BY <1>1 DEF Request
<1>3. ReqInv(q)
  BY <1>1, <1>2 DEF ReqInv, ReqControl, ReqVersions, Running
<1>a. ASSUME NEW pc \in {"save", "drop", "evict"},
             pc # "save" => r.op = "refresh"
      PROVE  LET d == [q EXCEPT !.pc = pc]
             IN ReqInv(d) /\ d.uid = r.uid /\ d.want = r.want /\ d.op = r.op /\ d.pc = pc
  <2> DEFINE d == [q EXCEPT !.pc = pc]
  <2>1. pc \in Control
    BY DEF Control
  <2>2. /\ d \in Request /\ d.pc = pc /\ d.sess = s
        /\ d.op = r.op /\ d.uid = r.uid /\ d.tok = r.tok /\ d.want = r.want
    <3> HIDE DEF q
    <3> QED BY <1>2, <2>1, MoveOn
  <2>3. r.op = "refresh" => r.tok \in Tokens
    BY DEF ReqInv, ReqControl
  <2> HIDE DEF d
  <2>4. ReqControl(d)
    BY <1>1, <1>a, <2>2, <2>3 DEF ReqControl, Running
  <2>5. ReqVersions(d)
    BY <2>2 DEF ReqInv, ReqVersions
  <2> QED BY <2>2, <2>4, <2>5 DEF d, ReqInv
<1>4. CASE r.op = "login"
  <2>1. Decide(r, s) = [q EXCEPT !.pc = "save"]
    BY <1>4 DEF Decide
  <2> HIDE DEF q
  <2> QED BY <2>1, <1>a, <1>4 DEF Accepted
<1>5. CASE r.op = "refresh"
  <2>1. CASE s.ver # r.want
    <3>1. Decide(r, s) = [q EXCEPT !.pc = "drop"]
      BY <1>5, <2>1 DEF Decide
    <3> HIDE DEF q
    <3> QED BY <3>1, <1>a, <1>5 DEF Accepted
  <2>2. CASE s.ver = r.want /\ ~s.active
    <3>1. Decide(r, s) = [q EXCEPT !.pc = "evict"]
      BY <1>5, <2>2 DEF Decide
    <3> HIDE DEF q
    <3> QED BY <3>1, <1>a, <1>5 DEF Accepted
  <2>3. CASE s.ver = r.want /\ s.active
    <3>1. Decide(r, s) = [q EXCEPT !.pc = "save"]
      BY <1>5, <2>3 DEF Decide
    <3> HIDE DEF q
    <3> QED BY <3>1, <1>a, <1>5, <2>3 DEF Accepted
  <2> QED BY <2>1, <2>2, <2>3
<1>6. CASE r.op \notin {"login", "refresh"}
  <2> DEFINE out == IF s.active /\ s.ver = r.want THEN "ok" ELSE "unauthorized"
  <2>1. Decide(r, s) = Answer(q, out)
    BY <1>6 DEF Decide
  <2>2. out \in {"ok", "unauthorized", "error"}
    OBVIOUS
  <2> HIDE DEF q, out
  <2>3. /\ ReqInv(Answer(q, out)) /\ Answer(q, out).pc = "done"
        /\ Answer(q, out).out = out /\ Answer(q, out).op = q.op
        /\ Answer(q, out).uid = q.uid /\ Answer(q, out).want = q.want
    BY <1>3, <2>2, AnswerInv
  <2>4. out = "ok" => s.ver = r.want
    BY DEF out
  <2> QED BY <2>1, <2>3, <2>4, <1>2, <1>6 DEF Accepted
<1> QED BY <1>4, <1>5, <1>6

-----------------------------------------------------------------------------
(* What a step of a request does to the versions: the contract RetiredForGood *)
(* and NoResurrection follow from.                                          *)

(* A session says that the version the request r carries is the current one. *)
Vouched(r) == \/ sessions[r.uid] # NoSession /\ sessions[r.uid].ver = r.want
              \/ r.pc = "fill" /\ r.sess.ver = r.want

(* A request that turns from r into q fills the cache with a version it just *)
(* read or already had, and accepts its credential only if a session says so. *)
Moves(r, q) ==
    /\ q.pc \in Filling => \/ q.uid \in Users /\ q.sess.ver = users[q.uid].ver
                           \/ r.pc \in Filling /\ q.uid = r.uid /\ q.sess.ver = r.sess.ver
    /\ Accepted(q) => q.uid = r.uid /\ q.want = r.want /\ (Accepted(r) \/ Vouched(r))

StoresKept(p) ==
    /\ \A u \in Users : \/ sessions'[u] \in {sessions[u], NoSession}
                         \/ /\ req[p].pc = "fill" /\ req[p].uid = u
                            /\ sessions'[u] = req[p].sess
    /\ \A t \in issued : refresh'[t] \in {refresh[t], NoRecord}

Contract(p) ==
    /\ \A u \in Users : users'[u].ver >= users[u].ver
    /\ \E r : req' = [req EXCEPT ![p] = r] /\ Moves(req[p], r)
    /\ StoresKept(p)

(* A step that changes one request and leaves the users table alone keeps  *)
(* the invariant and the contract if the new request and the new stores do. *)
LEMMA StoreStep ==
    ASSUME IInv, NEW p \in Procs, NEW r, ReqInv(r), Moves(req[p], r),
           req' = [req EXCEPT ![p] = r],
           UNCHANGED tableVars, StoresKept(p),
           sessions' \in [Users -> Session \cup {NoSession}], SessionVersions',
           refresh' \in [Tokens -> Record \cup {NoRecord}], RecordVersions',
           issued' \subseteq Tokens,
           access' \subseteq Claims, ClaimVersions'
    PROVE  IInv' /\ Contract(p)
<1>1. \A x : ReqInv(x) <=> ReqInv(x)'
  BY DEF ReqInv, ReqControl, ReqVersions, tableVars
<1>2. req' \in [Procs -> Request]
  BY DEF IInv, TypeOK, ReqInv
<1>3. TableTypeOK'
  BY DEF IInv, TypeOK, TableTypeOK, tableVars, Live
<1>4. \A q \in Procs : ReqInv(req'[q])
  BY DEF IInv, TypeOK
<1>5. \A q \in Procs : ReqInv(req[q])'
  BY <1>1, <1>4
<1>6. IInv'
  BY <1>2, <1>3, <1>5 DEF IInv, TypeOK
<1>7. \A u \in Users : users'[u].ver >= users[u].ver
  BY DEF IInv, TypeOK, TableTypeOK, Row, tableVars
<1> QED BY <1>6, <1>7 DEF Contract

(* A step that only changes one request.                                   *)
LEMMA RequestStep ==
    ASSUME IInv, NEW p \in Procs, NEW r, ReqInv(r), Moves(req[p], r),
           req' = [req EXCEPT ![p] = r],
           UNCHANGED <<tableVars, storeVars, issued, access>>
    PROVE  IInv' /\ Contract(p)
<1>1. /\ sessions' \in [Users -> Session \cup {NoSession}] /\ SessionVersions'
      /\ refresh' \in [Tokens -> Record \cup {NoRecord}] /\ RecordVersions'
      /\ issued' \subseteq Tokens /\ access' \subseteq Claims /\ ClaimVersions'
      /\ StoresKept(p)
  BY DEF IInv, TypeOK, SessionVersions, RecordVersions, ClaimVersions,
         tableVars, storeVars, StoresKept
<1> QED BY <1>1, StoreStep

(* What the row of a live or deleted user gives a session.                 *)
LEMMA SnapshotType ==
    ASSUME IInv, NEW u \in Users
    PROVE  /\ Snapshot(u) \in Session
           /\ Snapshot(u).ver = users[u].ver
           /\ users[u].ver \in Nat
  BY DEF IInv, TypeOK, TableTypeOK, Row, Snapshot, Session

-----------------------------------------------------------------------------
(* The first steps of a request.                                           *)

(* A blank credential is answered at once.                                 *)
LEMMA RejectBlankInv ==
    ASSUME IInv, NEW p \in Procs, NEW op \in Ops, RejectBlank(p, op)
    PROVE  IInv' /\ Contract(p)
<1> DEFINE i == [Idle EXCEPT !.op = op]
<1>1. ReqInv(i)
  BY IdleInv
<1> DEFINE b == [Idle EXCEPT !.op = op, !.pc = "done", !.out = "ok"]
<1>3. ReqInv(b) /\ (op = "logout" => Moves(req[p], b))
  BY SentinelAssumption
     DEF Idle, Ops, ReqInv, ReqControl, ReqVersions, Running, Request, Control,
         Moves, Filling, Accepted
<1> HIDE DEF i, b
<1>2. ReqInv(Answer(i, "unauthorized")) /\ Moves(req[p], Answer(i, "unauthorized"))
  BY <1>1, AnswerInv DEF Moves, Filling
<1> DEFINE r == IF op = "logout"
                THEN b ELSE Answer(i, "unauthorized")
<1>4. ReqInv(r) /\ Moves(req[p], r)
  BY <1>2, <1>3
<1>5. /\ req' = [req EXCEPT ![p] = r]
      /\ UNCHANGED <<tableVars, storeVars, issued, access>>
  BY DEF RejectBlank, i, b
<1> HIDE DEF r
<1> QED BY <1>4, <1>5, RequestStep

(* Login reads the row: its version and status enter the session.          *)
LEMMA LoginInv ==
    ASSUME IInv, NEW p \in Procs, NEW e \in Emails, Login(p, e)
    PROVE  IInv' /\ Contract(p)
<1> DEFINE i == [Idle EXCEPT !.op = "login"]
           w == CHOOSE u \in GetByEmail(e) : TRUE
           g == [i EXCEPT !.pc = "roles", !.uid = w, !.want = users[w].ver,
                          !.sess = Snapshot(w)]
<1>1. PICK o \in Outcomes("postgres"), m \in BOOLEAN :
        req' = [req EXCEPT ![p] =
                  IF Erred(o) THEN Answer(i, "error")
                  ELSE IF ~\E u \in GetByEmail(e) : users[u].active /\ m
                  THEN Answer(i, "unauthorized") ELSE g]
  BY DEF Login
<1>2. ReqInv(i)
  BY IdleInv DEF Ops
<1>3. ASSUME NEW out \in {"error", "unauthorized"}
      PROVE  ReqInv(Answer(i, out)) /\ Moves(req[p], Answer(i, out))
  <2> HIDE DEF i
  <2> QED BY <1>2, AnswerInv DEF Moves, Filling
<1>4. ASSUME \E u \in GetByEmail(e) : users[u].active /\ m
      PROVE  ReqInv(g) /\ Moves(req[p], g)
  <2>1. w \in Users
    BY <1>4 DEF GetByEmail
  <2> HIDE DEF w
  <2>2. Snapshot(w) \in Session /\ Snapshot(w).ver = users[w].ver /\ users[w].ver \in Nat
    BY <2>1, SnapshotType
  <2>3. i \in Request /\ i.op = "login"
    BY <1>2 DEF Idle, ReqInv
  <2> HIDE DEF i
  <2>4. /\ g \in Request /\ g.op = "login" /\ g.pc = "roles" /\ g.uid = w
        /\ g.want = users[w].ver /\ g.sess = Snapshot(w)
    BY <2>1, <2>2, <2>3 DEF Request, Control
  <2> HIDE DEF g
  <2>5. ReqControl(g)
    BY <2>1, <2>2, <2>4 DEF ReqControl, Running
  <2>6. ReqVersions(g)
    BY <2>2, <2>4 DEF ReqVersions
  <2>7. Moves(req[p], g)
    BY <2>1, <2>2, <2>4 DEF Moves, Accepted
  <2> QED BY <2>4, <2>5, <2>6, <2>7 DEF ReqInv
<1> DEFINE r == IF Erred(o) THEN Answer(i, "error")
                ELSE IF ~\E u \in GetByEmail(e) : users[u].active /\ m
                THEN Answer(i, "unauthorized") ELSE g
<1>5. ReqInv(r) /\ Moves(req[p], r)
  <2> HIDE DEF i, g
  <2> QED BY <1>3, <1>4
<1>6. UNCHANGED <<tableVars, storeVars, issued, access>>
  BY DEF Login
<1>7. req' = [req EXCEPT ![p] = r]
  BY <1>1
<1> HIDE DEF r
<1> QED BY <1>5, <1>6, <1>7, RequestStep

(* Logout's answer for a token without a record: success for the client,   *)
(* a failure in the audit trail.                                           *)
LEMMA UnknownTokenInv ==
    ASSUME NEW r, ReqInv(r), r.op = "logout"
    PROVE  LET q == [Answer(r, "ok") EXCEPT !.entry = "failure"]
           IN ReqInv(q) /\ q.pc = "done" /\ q.op = "logout"
<1> DEFINE a == Answer(r, "ok")
           q == [a EXCEPT !.entry = "failure"]
<1>1. /\ ReqInv(a) /\ a.pc = "done" /\ a.op = "logout" /\ a.uid = r.uid
      /\ a.want = r.want /\ a.sess = r.sess
  BY AnswerInv
<1> HIDE DEF a
<1>2. /\ q \in Request /\ q.pc = "done" /\ q.op = "logout" /\ q.uid = a.uid
      /\ q.want = a.want /\ q.sess = a.sess
  BY <1>1 DEF ReqInv, Request
<1> HIDE DEF q
<1>3. ReqControl(q) /\ ReqVersions(q)
  BY <1>1, <1>2 DEF ReqControl, ReqVersions, ReqInv, Running
<1> QED BY <1>2, <1>3 DEF ReqInv, q, a

(* Refresh and Logout read a record no newer than its row.                 *)
LEMMA LoadRecordInv ==
    ASSUME IInv, NEW p \in Procs, NEW op \in {"refresh", "logout"}, NEW t \in Tokens,
           LoadRecord(p, op, t)
    PROVE  IInv' /\ Contract(p)
<1> DEFINE i == [Idle EXCEPT !.op = op, !.tok = t]
           g == [i EXCEPT !.pc = IF op = "refresh" THEN "cache" ELSE "bump",
                          !.uid = refresh[t].uid, !.want = refresh[t].ver]
           n == [Answer(i, "ok") EXCEPT !.entry = "failure"]
<1>1. PICK o \in Outcomes("redis") :
        req' = [req EXCEPT ![p] =
                  IF Erred(o) THEN Answer(i, "error")
                  ELSE IF refresh[t] = NoRecord
                  THEN IF op = "refresh" THEN Answer(i, "unauthorized") ELSE n
                  ELSE g]
  BY DEF LoadRecord
<1>2. ReqInv(i) /\ i.op = op /\ i.tok = t
  BY SentinelAssumption
     DEF Idle, Ops, ReqInv, ReqControl, ReqVersions, Running, Request, Control
<1>3. ASSUME NEW out \in {"error", "unauthorized"}
      PROVE  ReqInv(Answer(i, out)) /\ Moves(req[p], Answer(i, out))
  <2> HIDE DEF i
  <2> QED BY <1>2, AnswerInv DEF Moves, Filling
<1>4. ASSUME op = "logout" PROVE ReqInv(n) /\ Moves(req[p], n)
  <2> HIDE DEF i
  <2>1. ReqInv(n) /\ n.pc = "done" /\ n.op = "logout"
    BY <1>2, <1>4, UnknownTokenInv
  <2> HIDE DEF n
  <2> QED BY <2>1 DEF Moves, Filling, Accepted
<1>5. ASSUME refresh[t] # NoRecord PROVE ReqInv(g) /\ Moves(req[p], g)
  <2>1. /\ refresh[t].uid \in Users /\ refresh[t].ver \in Nat
        /\ refresh[t].ver <= users[refresh[t].uid].ver
    BY <1>5 DEF IInv, TypeOK, RecordVersions, Record
  <2>2. i \in Request /\ i.sess = NoSession
    BY <1>2 DEF ReqInv, Idle
  <2> HIDE DEF i
  <2>3. /\ g \in Request /\ g.op = op /\ g.tok = t /\ g.uid = refresh[t].uid
        /\ g.want = refresh[t].ver /\ g.sess = NoSession
        /\ g.pc = IF op = "refresh" THEN "cache" ELSE "bump"
    BY <1>2, <2>1, <2>2 DEF Request, Control
  <2> HIDE DEF g
  <2>4. ReqControl(g) /\ ReqVersions(g)
    BY <2>1, <2>3 DEF ReqControl, ReqVersions, Running
  <2>5. Moves(req[p], g)
    BY <2>3 DEF Moves, Filling, Accepted
  <2> QED BY <2>3, <2>4, <2>5 DEF ReqInv
<1> DEFINE r == IF Erred(o) THEN Answer(i, "error")
                ELSE IF refresh[t] = NoRecord
                THEN IF op = "refresh" THEN Answer(i, "unauthorized") ELSE n
                ELSE g
<1>6. ReqInv(r) /\ Moves(req[p], r)
  <2> HIDE DEF i, g, n
  <2> QED BY <1>3, <1>4, <1>5
<1>7. /\ req' = [req EXCEPT ![p] = r]
      /\ UNCHANGED <<tableVars, storeVars, issued, access>>
  BY <1>1 DEF LoadRecord
<1> HIDE DEF r
<1> QED BY <1>6, <1>7, RequestStep

(* The middleware takes user and version from a claim that was handed out. *)
LEMMA AuthenticateInv ==
    ASSUME IInv, NEW p \in Procs, NEW c \in access, Authenticate(p, c)
    PROVE  IInv' /\ Contract(p)
<1> DEFINE i == [Idle EXCEPT !.op = "access", !.uid = c.uid, !.want = c.ver]
           g == [i EXCEPT !.pc = "cache"]
<1>1. PICK valid \in BOOLEAN :
        req' = [req EXCEPT ![p] = IF valid THEN g ELSE Answer(i, "unauthorized")]
  BY DEF Authenticate
<1>2. c \in Claims /\ c.ver <= users[c.uid].ver
  BY DEF IInv, TypeOK, ClaimVersions
<1>3. ReqInv(i) /\ i.op = "access" /\ i.uid \in Users
  BY <1>2, SentinelAssumption
     DEF Idle, Ops, ReqInv, ReqControl, ReqVersions, Running, Request, Control, Claims
<1> HIDE DEF i
<1>4. ReqInv(Answer(i, "unauthorized")) /\ Moves(req[p], Answer(i, "unauthorized"))
  BY <1>3, AnswerInv DEF Moves, Filling
<1>5. ReqInv(g) /\ Moves(req[p], g)
  <2>1. /\ g \in Request /\ g.pc = "cache" /\ g.op = i.op /\ g.uid = i.uid
        /\ g.want = i.want /\ g.sess = i.sess
    BY <1>3 DEF ReqInv, Request, Control
  <2> HIDE DEF g
  <2>2. ReqControl(g) /\ ReqVersions(g)
    BY <1>3, <2>1 DEF ReqInv, ReqControl, ReqVersions, Running
  <2> QED BY <1>3, <2>1, <2>2 DEF ReqInv, Moves, Filling, Accepted
<1> DEFINE r == IF valid THEN g ELSE Answer(i, "unauthorized")
<1>6. ReqInv(r) /\ Moves(req[p], r)
  BY <1>4, <1>5
<1>7. /\ req' = [req EXCEPT ![p] = r]
      /\ UNCHANGED <<tableVars, storeVars, issued, access>>
  BY <1>1 DEF Authenticate
<1> HIDE DEF r
<1> QED BY <1>6, <1>7, RequestStep

-----------------------------------------------------------------------------
(* The steps of a running request.                                         *)

(* A running request satisfies the request invariant and knows its user.   *)
LEMMA RunningReq ==
    ASSUME IInv, NEW p \in Procs, Running(req[p])
    PROVE  /\ ReqInv(req[p]) /\ req[p] \in Request /\ req[p].uid \in Users
           /\ users[req[p].uid].ver \in Nat
  BY DEF IInv, ReqInv, ReqControl, TypeOK, TableTypeOK, Row

At(r, pc)          == [r EXCEPT !.pc = pc]
Carrying(r, pc, s) == [r EXCEPT !.pc = pc, !.sess = s]

(* Moving on with the session the request has is carrying that session.    *)
LEMMA AtCarries ==
    ASSUME NEW r \in Request, NEW pc
    PROVE  At(r, pc) = Carrying(r, pc, r.sess)
  BY DEF At, Carrying, Request

(* Going on to a control point whose needs are met keeps the invariant.    *)
LEMMA AdvanceInv ==
    ASSUME NEW r, ReqInv(r), Running(r), NEW pc \in Control,
           pc \in {"roles", "perms", "fill", "save", "rotate"} => r.sess \in Session,
           pc \in {"rotate", "drop", "evict", "bump", "clear", "revoke"} => r.tok \in Tokens,
           pc = "rotate" => r.new \in Tokens /\ r.op = "refresh",
           pc \in {"bump", "clear", "revoke"} => r.op = "logout"
    PROVE  /\ ReqInv(At(r, pc)) /\ At(r, pc).pc = pc /\ At(r, pc).op = r.op
           /\ At(r, pc).uid = r.uid /\ At(r, pc).want = r.want /\ At(r, pc).sess = r.sess
<1> DEFINE q == At(r, pc)
<1>1. r \in Request
  BY DEF ReqInv
<1>2. /\ q \in Request /\ q.pc = pc
      /\ q.op = r.op /\ q.uid = r.uid /\ q.tok = r.tok /\ q.new = r.new
      /\ q.want = r.want /\ q.sess = r.sess
  BY <1>1, MoveOn DEF At
<1> HIDE DEF q
<1>3. ReqControl(q) /\ ReqVersions(q)
  BY <1>2 DEF ReqInv, ReqControl, ReqVersions, Running
<1> QED BY <1>2, <1>3 DEF ReqInv, q

(* So does taking a session no newer than the row along.                   *)
LEMMA CarryInv ==
    ASSUME NEW r, ReqInv(r), Running(r), NEW pc \in Filling,
           NEW s \in Session, s.ver <= users[r.uid].ver
    PROVE  /\ ReqInv(Carrying(r, pc, s)) /\ Carrying(r, pc, s).pc = pc
           /\ Carrying(r, pc, s).sess = s /\ Carrying(r, pc, s).op = r.op
           /\ Carrying(r, pc, s).uid = r.uid
<1> DEFINE q == Carrying(r, pc, s)
<1>1. r \in Request /\ pc \in Control
  BY DEF ReqInv, Filling, Control
<1>2. /\ q \in Request /\ q.pc = pc /\ q.sess = s
      /\ q.op = r.op /\ q.uid = r.uid /\ q.tok = r.tok /\ q.want = r.want
  BY <1>1 DEF Request, Carrying
<1> HIDE DEF q
<1>3. ReqControl(q) /\ ReqVersions(q)
  BY <1>2 DEF ReqInv, ReqControl, ReqVersions, Running, Filling
<1> QED BY <1>2, <1>3 DEF ReqInv, q

(* A refusal is always a legal move.                                       *)
LEMMA RefusalMoves ==
    ASSUME NEW r, NEW i, ReqInv(i),
           NEW out \in {"ok", "unauthorized", "error"}, out = "ok" => i.op # "access"
    PROVE  ReqInv(Answer(i, out)) /\ Moves(r, Answer(i, out))
  BY AnswerInv DEF Moves, Filling

(* A cache hit is decided on, a miss goes to the table.                    *)
LEMMA LoadSessionInv ==
    ASSUME IInv, NEW p \in Procs, LoadSession(p)
    PROVE  IInv' /\ Contract(p)
<1> DEFINE i == req[p]
           s == sessions[i.uid]
           g == At(i, "user")
<1>1. PICK o \in Outcomes("redis") :
        req' = [req EXCEPT ![p] = IF Erred(o) \/ s = NoSession THEN g ELSE Decide(i, s)]
  BY DEF LoadSession, At
<1>2. Running(i) /\ ReqInv(i) /\ i.uid \in Users
  BY RunningReq DEF LoadSession, Running
<1>3. ReqInv(g) /\ Moves(i, g)
  <2> HIDE DEF i
  <2>1. ReqInv(g) /\ g.pc = "user"
    BY <1>2, AdvanceInv DEF Control
  <2> HIDE DEF g
  <2> QED BY <2>1 DEF Moves, Filling, Accepted
<1>4. ASSUME s # NoSession PROVE ReqInv(Decide(i, s)) /\ Moves(i, Decide(i, s))
  <2>1. s \in Session /\ s.ver <= users[i.uid].ver
    BY <1>2, <1>4 DEF IInv, TypeOK, SessionVersions
  <2>2. s # NoSession => (s.ver = i.want => Vouched(i))
    BY DEF Vouched
  <2> HIDE DEF i, s
  <2> QED BY <1>2, <1>4, <2>1, <2>2, DecideInv DEF Moves, Filling
<1> DEFINE r == IF Erred(o) \/ s = NoSession THEN g ELSE Decide(i, s)
<1>5. ReqInv(r) /\ Moves(req[p], r)
  <2> HIDE DEF g, s
  <2> QED BY <1>3, <1>4
<1>6. /\ req' = [req EXCEPT ![p] = r]
      /\ UNCHANGED <<tableVars, storeVars, issued, access>>
  BY <1>1 DEF LoadSession
<1> HIDE DEF r
<1> QED BY <1>5, <1>6, RequestStep

(* A session is built from the row as it is now.                           *)
LEMMA ReadUserInv ==
    ASSUME IInv, NEW p \in Procs, ReadUser(p)
    PROVE  IInv' /\ Contract(p)
<1> DEFINE i == req[p]
           g == Carrying(i, "roles", Snapshot(i.uid))
<1>1. PICK o \in Outcomes("postgres") :
        req' = [req EXCEPT ![p] = IF Erred(o) THEN Answer(i, "error")
                                  ELSE IF ~Live(i.uid) THEN Answer(i, "unauthorized")
                                  ELSE g]
  BY DEF ReadUser, Carrying
<1>2. Running(i) /\ ReqInv(i) /\ i.uid \in Users
  BY RunningReq DEF ReadUser, Running
<1>3. ASSUME NEW out \in {"error", "unauthorized"}
      PROVE  ReqInv(Answer(i, out)) /\ Moves(i, Answer(i, out))
  BY <1>2, RefusalMoves
<1>4. ReqInv(g) /\ Moves(i, g)
  <2>1. /\ Snapshot(i.uid) \in Session /\ Snapshot(i.uid).ver = users[i.uid].ver
        /\ Snapshot(i.uid).ver <= users[i.uid].ver
    BY <1>2, SnapshotType
  <2> HIDE DEF i
  <2>2. /\ ReqInv(g) /\ g.pc = "roles" /\ g.sess = Snapshot(i.uid) /\ g.uid = i.uid
    BY <1>2, <2>1, CarryInv DEF Filling
  <2> HIDE DEF g
  <2> QED BY <1>2, <2>1, <2>2 DEF Moves, Accepted
<1> DEFINE r == IF Erred(o) THEN Answer(i, "error")
                ELSE IF ~Live(i.uid) THEN Answer(i, "unauthorized") ELSE g
<1>5. ReqInv(r) /\ Moves(req[p], r)
  <2> HIDE DEF g
  <2> QED BY <1>3, <1>4
<1>6. /\ req' = [req EXCEPT ![p] = r]
      /\ UNCHANGED <<tableVars, storeVars, issued, access>>
  BY <1>1 DEF ReadUser
<1> HIDE DEF r
<1> QED BY <1>5, <1>6, RequestStep

(* The roles and permissions queries: the session gets one more field.     *)
LEMMA ReadRolesInv ==
    ASSUME IInv, NEW p \in Procs, ReadRoles(p)
    PROVE  IInv' /\ Contract(p)
<1> DEFINE i == req[p]
           s == [i.sess EXCEPT !.roles = userRoles[i.uid]]
           g == Carrying(i, "perms", s)
<1>1. PICK o \in Outcomes("postgres") :
        req' = [req EXCEPT ![p] = IF Erred(o) THEN Answer(i, "error") ELSE g]
  <2>1. PICK o \in Outcomes("postgres") :
          req' = [req EXCEPT ![p] = IF Erred(o) THEN Answer(i, "error")
                                    ELSE [i EXCEPT !.pc = "perms",
                                                   !.sess.roles = userRoles[i.uid]]]
    BY DEF ReadRoles
  <2>2. [i EXCEPT !.pc = "perms", !.sess.roles = userRoles[i.uid]] = g
    BY DEF Carrying
  <2> QED BY <2>1, <2>2
<1>2. /\ Running(i) /\ ReqInv(i) /\ i.uid \in Users /\ i.pc = "roles"
      /\ i.sess \in Session /\ userRoles[i.uid] \subseteq Roles
  BY RunningReq DEF ReadRoles, Running, ReqInv, ReqControl, IInv, TypeOK, TableTypeOK
<1>3. ReqInv(Answer(i, "error")) /\ Moves(i, Answer(i, "error"))
  BY <1>2, RefusalMoves
<1>4. ReqInv(g) /\ Moves(i, g)
  <2>1. s \in Session /\ s.ver = i.sess.ver
    BY <1>2 DEF Session
  <2>2. i.sess.ver <= users[i.uid].ver
    BY <1>2, SentinelAssumption DEF ReqInv, ReqVersions
  <2> HIDE DEF i, s
  <2>3. /\ ReqInv(g) /\ g.pc = "perms" /\ g.sess = s /\ g.uid = i.uid
    BY <1>2, <2>1, <2>2, CarryInv DEF Filling
  <2> HIDE DEF g
  <2> QED BY <1>2, <2>1, <2>3 DEF Moves, Accepted, Filling
<1> DEFINE r == IF Erred(o) THEN Answer(i, "error") ELSE g
<1>5. ReqInv(r) /\ Moves(req[p], r)
  <2> HIDE DEF g
  <2> QED BY <1>3, <1>4
<1>6. /\ req' = [req EXCEPT ![p] = r]
      /\ UNCHANGED <<tableVars, storeVars, issued, access>>
  BY <1>1 DEF ReadRoles
<1> HIDE DEF r
<1> QED BY <1>5, <1>6, RequestStep

(* The same for the permissions.                                           *)
LEMMA ReadPermsInv ==
    ASSUME IInv, NEW p \in Procs, ReadPerms(p)
    PROVE  IInv' /\ Contract(p)
<1> DEFINE i == req[p]
           s == [i.sess EXCEPT !.perms = PermsOf(userRoles[i.uid])]
           g == Carrying(i, "fill", s)
<1>1. PICK o \in Outcomes("postgres") :
        req' = [req EXCEPT ![p] = IF Erred(o) THEN Answer(i, "error") ELSE g]
  <2>1. PICK o \in Outcomes("postgres") :
          req' = [req EXCEPT ![p] =
                    IF Erred(o) THEN Answer(i, "error")
                    ELSE [i EXCEPT !.pc = "fill",
                                   !.sess.perms = PermsOf(userRoles[i.uid])]]
    BY DEF ReadPerms
  <2>2. [i EXCEPT !.pc = "fill", !.sess.perms = PermsOf(userRoles[i.uid])] = g
    BY DEF Carrying
  <2> QED BY <2>1, <2>2
<1>2. /\ Running(i) /\ ReqInv(i) /\ i.uid \in Users /\ i.pc = "perms"
      /\ i.sess \in Session /\ PermsOf(userRoles[i.uid]) \subseteq Permissions
  <2>1. /\ Running(i) /\ ReqInv(i) /\ i.uid \in Users /\ i.pc = "perms"
        /\ i.sess \in Session /\ userRoles[i.uid] \subseteq Roles
    BY RunningReq DEF ReadPerms, Running, ReqInv, ReqControl, IInv, TypeOK, TableTypeOK
  <2>2. ASSUME NEW rs \in SUBSET Roles PROVE PermsOf(rs) \subseteq Permissions
    BY RolePermsAssumption DEF PermsOf
  <2> QED BY <2>1, <2>2
<1>3. ReqInv(Answer(i, "error")) /\ Moves(i, Answer(i, "error"))
  BY <1>2, RefusalMoves
<1>4. ReqInv(g) /\ Moves(i, g)
  <2>1. s \in Session /\ s.ver = i.sess.ver
    BY <1>2 DEF Session
  <2>2. i.sess.ver <= users[i.uid].ver
    BY <1>2, SentinelAssumption DEF ReqInv, ReqVersions
  <2> HIDE DEF i, s
  <2>3. /\ ReqInv(g) /\ g.pc = "fill" /\ g.sess = s /\ g.uid = i.uid
    BY <1>2, <2>1, <2>2, CarryInv DEF Filling
  <2> HIDE DEF g
  <2> QED BY <1>2, <2>1, <2>3 DEF Moves, Accepted, Filling
<1> DEFINE r == IF Erred(o) THEN Answer(i, "error") ELSE g
<1>5. ReqInv(r) /\ Moves(req[p], r)
  <2> HIDE DEF g
  <2> QED BY <1>3, <1>4
<1>6. /\ req' = [req EXCEPT ![p] = r]
      /\ UNCHANGED <<tableVars, storeVars, issued, access>>
  BY <1>1 DEF ReadPerms
<1> HIDE DEF r
<1> QED BY <1>5, <1>6, RequestStep

(* What a step that leaves a store alone has to show about it.             *)
SessionsSound(p) ==
    /\ sessions' \in [Users -> Session \cup {NoSession}] /\ SessionVersions'
    /\ \A u \in Users : \/ sessions'[u] \in {sessions[u], NoSession}
                        \/ /\ req[p].pc = "fill" /\ req[p].uid = u
                           /\ sessions'[u] = req[p].sess
RecordsSound ==
    /\ refresh' \in [Tokens -> Record \cup {NoRecord}] /\ RecordVersions'
    /\ \A t \in issued : refresh'[t] \in {refresh[t], NoRecord}
ClientsSound == issued' \subseteq Tokens /\ access' \subseteq Claims /\ ClaimVersions'

(* StoreStep in these terms.                                               *)
LEMMA SoundStep ==
    ASSUME IInv, NEW p \in Procs, NEW r, ReqInv(r), Moves(req[p], r),
           req' = [req EXCEPT ![p] = r], UNCHANGED tableVars,
           SessionsSound(p), RecordsSound, ClientsSound
    PROVE  IInv' /\ Contract(p)
<1>1. StoresKept(p)
  BY DEF StoresKept, SessionsSound, RecordsSound
<1> QED BY <1>1, StoreStep DEF SessionsSound, RecordsSound, ClientsSound

(* A store that is left alone, or loses a key, stays sound.                *)
LEMMA StoresAlone ==
    ASSUME IInv, UNCHANGED tableVars, NEW p \in Procs
    PROVE  /\ UNCHANGED sessions => SessionsSound(p)
           /\ UNCHANGED refresh => RecordsSound
           /\ UNCHANGED <<issued, access>> => ClientsSound
           /\ req[p].tok \in Tokens /\ DeleteRecord(p) => RecordsSound
           /\ req[p].uid \in Users /\ DeleteSession(req[p].uid) => SessionsSound(p)
<1>1. UNCHANGED sessions => SessionsSound(p)
  BY DEF IInv, TypeOK, SessionVersions, tableVars, SessionsSound
<1>2. UNCHANGED refresh => RecordsSound
  BY DEF IInv, TypeOK, RecordVersions, tableVars, RecordsSound
<1>3. UNCHANGED <<issued, access>> => ClientsSound
  BY DEF IInv, TypeOK, ClaimVersions, tableVars, ClientsSound
<1>4. ASSUME req[p].tok \in Tokens, DeleteRecord(p) PROVE RecordsSound
  <2>1. CASE refresh' = [refresh EXCEPT ![req[p].tok] = NoRecord]
    BY <1>4, <2>1 DEF IInv, TypeOK, RecordVersions, tableVars, RecordsSound
  <2>2. CASE refresh' = refresh
    BY <1>2, <2>2
  <2> QED BY <1>4, <2>1, <2>2 DEF DeleteRecord
<1>5. ASSUME req[p].uid \in Users, DeleteSession(req[p].uid) PROVE SessionsSound(p)
  <2>1. CASE sessions' = [sessions EXCEPT ![req[p].uid] = NoSession]
    BY <1>5, <2>1 DEF IInv, TypeOK, SessionVersions, tableVars, SessionsSound
  <2>2. CASE sessions' = sessions
    BY <1>1, <2>2
  <2> QED BY <1>5, <2>1, <2>2 DEF DeleteSession
<1> QED BY <1>1, <1>2, <1>3, <1>4, <1>5

(* The cache gets the session the request built, and the request decides on it. *)
LEMMA FillCacheInv ==
    ASSUME IInv, NEW p \in Procs, FillCache(p)
    PROVE  IInv' /\ Contract(p)
<1> DEFINE i == req[p]
<1>1. /\ Running(i) /\ ReqInv(i) /\ i.uid \in Users /\ i.pc = "fill"
      /\ i.sess \in Session /\ i.sess.ver <= users[i.uid].ver
  BY RunningReq, SentinelAssumption
     DEF FillCache, Running, ReqInv, ReqControl, ReqVersions
<1>2. ReqInv(Decide(i, i.sess)) /\ Moves(i, Decide(i, i.sess))
  BY <1>1, DecideInv DEF Moves, Filling, Vouched
<1>3. SessionsSound(p)
  <2>1. CASE sessions' = [sessions EXCEPT ![i.uid] = i.sess]
    BY <1>1, <2>1 DEF FillCache, IInv, TypeOK, SessionVersions, tableVars, SessionsSound
  <2>2. CASE sessions' = sessions
    BY <2>2, StoresAlone DEF FillCache
  <2> QED BY <2>1, <2>2 DEF FillCache
<1>4. RecordsSound /\ ClientsSound
  BY StoresAlone DEF FillCache
<1>5. req' = [req EXCEPT ![p] = Decide(i, i.sess)] /\ UNCHANGED tableVars
  BY DEF FillCache
<1> HIDE DEF i
<1> QED BY <1>2, <1>3, <1>4, <1>5, SoundStep DEF i

-----------------------------------------------------------------------------
(* The tails of Login, Refresh and Logout.                                 *)

(* The request with the new token it stored.                               *)
Holding(r, t) == [r EXCEPT !.new = t]

(* Holding a new token keeps the request invariant.                        *)
LEMMA HoldingInv ==
    ASSUME NEW r, ReqInv(r), NEW t \in Tokens
    PROVE  /\ ReqInv(Holding(r, t)) /\ Holding(r, t).pc = r.pc
           /\ Holding(r, t).op = r.op /\ Holding(r, t).uid = r.uid
           /\ Holding(r, t).want = r.want /\ Holding(r, t).sess = r.sess
           /\ Holding(r, t).tok = r.tok /\ Holding(r, t).new = t
<1> DEFINE q == Holding(r, t)
<1>1. r \in Request
  BY DEF ReqInv
<1>2. /\ q \in Request /\ q.pc = r.pc /\ q.new = t
      /\ q.op = r.op /\ q.uid = r.uid /\ q.tok = r.tok
      /\ q.want = r.want /\ q.sess = r.sess
  BY <1>1 DEF Request, Holding
<1> HIDE DEF q
<1>3. ReqControl(q) /\ ReqVersions(q)
  BY <1>2 DEF ReqInv, ReqControl, ReqVersions, Running
<1> QED BY <1>2, <1>3 DEF ReqInv, q

(* Tokens made from a session no newer than the row may be delivered.      *)
LEMMA DeliverSound ==
    ASSUME IInv, UNCHANGED tableVars, NEW r, r.uid \in Users, r.sess \in Session,
           r.sess.ver <= users[r.uid].ver, NEW t \in Tokens, Deliver(r, t)
    PROVE  ClientsSound
<1> DEFINE c == [uid |-> r.uid, ver |-> r.sess.ver]
<1>1. c \in Claims /\ c.ver <= users[c.uid].ver
  BY DEF Claims, Session
<1> HIDE DEF c
<1>2. issued' = issued \cup {t} /\ access' = access \cup {c}
  BY DEF Deliver, c
<1> QED BY <1>1, <1>2 DEF IInv, TypeOK, ClaimVersions, tableVars, ClientsSound

(* The new record carries the session's version, under a token nobody has. *)
LEMMA SaveRecordInv ==
    ASSUME IInv, NEW p \in Procs, SaveRecord(p)
    PROVE  IInv' /\ Contract(p)
<1> DEFINE i == req[p]
<1>1. /\ Running(i) /\ ReqInv(i) /\ i.uid \in Users /\ i.pc = "save"
      /\ i.sess \in Session /\ i.sess.ver <= users[i.uid].ver
      /\ i.op = "refresh" => i.tok \in Tokens
  BY RunningReq, SentinelAssumption
     DEF SaveRecord, Running, ReqInv, ReqControl, ReqVersions
<1> DEFINE rec == [uid |-> i.uid, ver |-> i.sess.ver]
<1>2. PICK t \in Tokens, o \in Outcomes("redis") :
        /\ Fresh(t)
        /\ refresh' = IF Applied(o) THEN [refresh EXCEPT ![t] = rec] ELSE refresh
        /\ \/ /\ Erred(o)
              /\ req' = [req EXCEPT ![p] = Answer(i, "error")]
              /\ UNCHANGED <<issued, access>>
           \/ /\ ~Erred(o) /\ i.op = "login"
              /\ req' = [req EXCEPT ![p] = Answer(Holding(i, t), "ok")]
              /\ Deliver(i, t)
           \/ /\ ~Erred(o) /\ i.op = "refresh"
              /\ req' = [req EXCEPT ![p].new = t, ![p].pc = "rotate"]
              /\ UNCHANGED <<issued, access>>
  BY DEF SaveRecord, Holding
<1>3. RecordsSound
  <2>1. rec \in Record /\ rec.ver <= users[rec.uid].ver
    BY <1>1 DEF Record, Session
  <2> HIDE DEF rec, i
  <2>2. t \notin issued
    BY <1>2 DEF Fresh
  <2>3. CASE refresh' = [refresh EXCEPT ![t] = rec]
    BY <2>1, <2>2, <2>3
       DEF SaveRecord, IInv, TypeOK, RecordVersions, tableVars, RecordsSound
  <2>4. CASE refresh' = refresh
    BY <2>4, StoresAlone DEF SaveRecord
  <2> QED BY <1>2, <2>3, <2>4
<1>4. SessionsSound(p) /\ UNCHANGED tableVars
  BY StoresAlone DEF SaveRecord
<1>5. CASE /\ req' = [req EXCEPT ![p] = Answer(i, "error")]
           /\ UNCHANGED <<issued, access>>
  <2>1. ReqInv(Answer(i, "error")) /\ Moves(i, Answer(i, "error")) /\ ClientsSound
    BY <1>1, <1>4, <1>5, RefusalMoves, StoresAlone
  <2> QED BY <2>1, <1>3, <1>4, <1>5, SoundStep
<1>6. CASE /\ i.op = "login" /\ Deliver(i, t)
           /\ req' = [req EXCEPT ![p] = Answer(Holding(i, t), "ok")]
  <2> DEFINE a == Answer(Holding(i, t), "ok")
  <2>1. ReqInv(a) /\ Moves(i, a)
    BY <1>1, <1>6, HoldingInv, RefusalMoves
  <2>2. ClientsSound
    BY <1>1, <1>4, <1>6, DeliverSound
  <2> HIDE DEF a
  <2>3. req' = [req EXCEPT ![p] = a]
    BY <1>6 DEF a
  <2> HIDE DEF i
  <2> QED BY <2>1, <2>2, <2>3, <1>3, <1>4, SoundStep DEF i
<1>7. CASE /\ i.op = "refresh" /\ UNCHANGED <<issued, access>>
           /\ req' = [req EXCEPT ![p].new = t, ![p].pc = "rotate"]
  <2> DEFINE g == At(Holding(i, t), "rotate")
  <2>1. req' = [req EXCEPT ![p] = g]
    BY <1>7 DEF At, Holding, IInv, TypeOK
  <2>2. ReqInv(g) /\ g.pc = "rotate" /\ g.op = i.op /\ g.uid = i.uid /\ g.want = i.want
    <3>1. /\ ReqInv(Holding(i, t)) /\ Running(Holding(i, t))
          /\ Holding(i, t).sess \in Session /\ Holding(i, t).tok \in Tokens
          /\ Holding(i, t).new \in Tokens /\ Holding(i, t).op = "refresh"
      BY <1>1, <1>7, HoldingInv DEF Running
    <3>2. /\ Holding(i, t).op = i.op /\ Holding(i, t).uid = i.uid
          /\ Holding(i, t).want = i.want
      BY <1>1, HoldingInv
    <3> QED BY <3>1, <3>2, AdvanceInv DEF Control
  <2> HIDE DEF g
  <2>3. Moves(i, g)
    BY <1>1, <1>7, <2>2 DEF Moves, Filling, Accepted
  <2>4. ClientsSound
    BY <1>4, <1>7, StoresAlone
  <2> QED BY <2>1, <2>2, <2>3, <2>4, <1>3, <1>4, SoundStep
<1> QED BY <1>2, <1>5, <1>6, <1>7

(* The old record goes and the new tokens are delivered.                   *)
LEMMA RotateInv ==
    ASSUME IInv, NEW p \in Procs, Rotate(p)
    PROVE  IInv' /\ Contract(p)
<1> DEFINE i == req[p]
<1>1. /\ Running(i) /\ ReqInv(i) /\ i.uid \in Users /\ i.op = "refresh"
      /\ i.tok \in Tokens /\ i.new \in Tokens
      /\ i.sess \in Session /\ i.sess.ver <= users[i.uid].ver
  BY RunningReq, SentinelAssumption
     DEF Rotate, Running, ReqInv, ReqControl, ReqVersions
<1>2. ReqInv(Answer(i, "ok")) /\ Moves(i, Answer(i, "ok"))
  BY <1>1, RefusalMoves
<1>3. UNCHANGED tableVars /\ RecordsSound /\ SessionsSound(p)
  BY <1>1, StoresAlone DEF Rotate
<1>4. ClientsSound
  BY <1>1, <1>3, DeliverSound DEF Rotate
<1>5. req' = [req EXCEPT ![p] = Answer(i, "ok")]
  BY DEF Rotate
<1> QED BY <1>2, <1>3, <1>4, <1>5, SoundStep

(* Refresh gives up: on an outdated record, and on an inactive user.       *)
LEMMA DropOutdatedInv ==
    ASSUME IInv, NEW p \in Procs, DropOutdated(p)
    PROVE  IInv' /\ Contract(p)
<1> DEFINE i == req[p]
<1>1. Running(i) /\ ReqInv(i) /\ i.tok \in Tokens
  BY RunningReq DEF DropOutdated, Running, ReqInv, ReqControl
<1>2. ReqInv(Answer(i, "unauthorized")) /\ Moves(i, Answer(i, "unauthorized"))
  BY <1>1, RefusalMoves
<1>3. UNCHANGED tableVars /\ RecordsSound /\ SessionsSound(p) /\ ClientsSound
  BY <1>1, StoresAlone DEF DropOutdated
<1>4. req' = [req EXCEPT ![p] = Answer(i, "unauthorized")]
  BY DEF DropOutdated
<1> QED BY <1>2, <1>3, <1>4, SoundStep

(* The record of an inactive user goes, then the session.                  *)
LEMMA DropBannedInv ==
    ASSUME IInv, NEW p \in Procs, DropBanned(p)
    PROVE  IInv' /\ Contract(p)
<1> DEFINE i == req[p]
           g == At(i, "uncache")
<1>1. Running(i) /\ ReqInv(i) /\ i.tok \in Tokens
  BY RunningReq DEF DropBanned, Running, ReqInv, ReqControl
<1>2. ReqInv(g) /\ Moves(i, g)
  <2>1. ReqInv(g) /\ g.pc = "uncache"
    BY <1>1, AdvanceInv DEF Control
  <2> HIDE DEF g
  <2> QED BY <2>1 DEF Moves, Filling, Accepted
<1>3. UNCHANGED tableVars /\ RecordsSound /\ SessionsSound(p) /\ ClientsSound
  BY <1>1, StoresAlone DEF DropBanned
<1>4. req' = [req EXCEPT ![p] = g]
  BY DEF DropBanned, At
<1> HIDE DEF g
<1> QED BY <1>2, <1>3, <1>4, SoundStep

(* The session of an inactive user goes and the refresh is refused.        *)
LEMMA EvictBannedInv ==
    ASSUME IInv, NEW p \in Procs, EvictBanned(p)
    PROVE  IInv' /\ Contract(p)
<1> DEFINE i == req[p]
<1>1. Running(i) /\ ReqInv(i) /\ i.uid \in Users
  BY RunningReq DEF EvictBanned, Running
<1>2. ReqInv(Answer(i, "unauthorized")) /\ Moves(i, Answer(i, "unauthorized"))
  BY <1>1, RefusalMoves
<1>3. UNCHANGED tableVars /\ RecordsSound /\ SessionsSound(p) /\ ClientsSound
  BY <1>1, StoresAlone DEF EvictBanned
<1>4. req' = [req EXCEPT ![p] = Answer(i, "unauthorized")]
  BY DEF EvictBanned
<1> QED BY <1>2, <1>3, <1>4, SoundStep

(* Logout: the row's version grows, which only makes copies older.         *)
LEMMA BumpVersionInv ==
    ASSUME IInv, NEW p \in Procs, BumpVersion(p)
    PROVE  IInv' /\ Contract(p)
<1> DEFINE i == req[p]
           g == At(i, "clear")
<1>1. /\ Running(i) /\ ReqInv(i) /\ i.uid \in Users /\ i.tok \in Tokens
      /\ i.op = "logout"
  BY RunningReq DEF BumpVersion, Running, ReqInv, ReqControl
<1>2. ReqInv(g) /\ Moves(i, g)
  <2>1. ReqInv(g) /\ g.pc = "clear" /\ g.op = "logout"
    BY <1>1, AdvanceInv DEF Control
  <2> HIDE DEF g
  <2> QED BY <2>1 DEF Moves, Filling, Accepted
<1>3. req' = [req EXCEPT ![p] = g]
  BY DEF BumpVersion, At
<1> HIDE DEF g
<1>4. UNCHANGED <<userRoles, storeVars, issued, access>>
  BY DEF BumpVersion
<1>5. users' \in [Users -> Row] /\ \A u \in Users : users'[u].ver >= users[u].ver
  <2>1. users \in [Users -> Row]
    BY DEF IInv, TypeOK, TableTypeOK
  <2>2. CASE users' = users
    BY <2>1, <2>2 DEF Row
  <2>3. CASE users' = [users EXCEPT ![i.uid].ver = @ + 1]
    <3>1. [users[i.uid] EXCEPT !.ver = @ + 1] \in Row
      BY <2>1, <1>1 DEF Row
    <3>2. users'[i.uid].ver = users[i.uid].ver + 1 /\ users[i.uid].ver \in Nat
      BY <2>1, <2>3, <1>1 DEF Row
    <3> QED BY <2>1, <2>3, <1>1, <3>1, <3>2 DEF Row
  <2> QED BY <2>2, <2>3 DEF BumpVersion, IncrementTokenVersion
<1>6. ASSUME NEW q, ReqInv(q) PROVE ReqInv(q)'
  <2>1. q.uid # NoUser => q.uid \in Users /\ q.want \in Nat
    BY <1>6 DEF ReqInv, Request
  <2>2. ASSUME q.sess # NoSession PROVE q.sess.ver \in Nat
    BY <1>6, <2>2 DEF ReqInv, Request, Session
  <2>3. \A u \in Users : users[u].ver \in Nat /\ users'[u].ver \in Nat
    BY <1>5 DEF IInv, TypeOK, TableTypeOK, Row
  <2>4. ReqVersions(q)'
    BY <1>5, <1>6, <2>1, <2>2, <2>3 DEF ReqInv, ReqVersions
  <2> QED BY <1>6, <2>4 DEF ReqInv, ReqControl
<1>7. SessionVersions' /\ RecordVersions' /\ ClaimVersions'
  <2>1. \A u \in Users : users[u].ver \in Nat /\ users'[u].ver \in Nat
    BY <1>5 DEF IInv, TypeOK, TableTypeOK, Row
  <2>2. SessionVersions'
    BY <1>4, <1>5, <2>1
       DEF IInv, TypeOK, SessionVersions, storeVars, Session
  <2>3. RecordVersions'
    BY <1>4, <1>5, <2>1
       DEF IInv, TypeOK, RecordVersions, storeVars, Record
  <2>4. ClaimVersions'
    BY <1>4, <1>5, <2>1 DEF IInv, TypeOK, ClaimVersions, Claims
  <2> QED BY <2>2, <2>3, <2>4
<1>8. req' \in [Procs -> Request] /\ \A q \in Procs : ReqInv(req[q])'
  <2>1. \A q \in Procs : ReqInv(req'[q])
    BY <1>2, <1>3 DEF IInv, TypeOK
  <2>2. \A q \in Procs : ReqInv(req[q])'
    BY <2>1, <1>6
  <2> QED BY <1>2, <1>3, <2>2 DEF IInv, TypeOK, ReqInv
<1>9. IInv'
  BY <1>4, <1>5, <1>7, <1>8 DEF IInv, TypeOK, TableTypeOK, storeVars
<1>10. StoresKept(p)
  BY <1>4 DEF StoresKept, storeVars, IInv, TypeOK
<1> QED BY <1>2, <1>3, <1>5, <1>9, <1>10 DEF Contract

(* Logout deletes the session, whatever it says.                           *)
LEMMA ClearSessionInv ==
    ASSUME IInv, NEW p \in Procs, ClearSession(p)
    PROVE  IInv' /\ Contract(p)
<1> DEFINE i == req[p]
           g == At(i, "revoke")
<1>1. /\ Running(i) /\ ReqInv(i) /\ i.uid \in Users /\ i.tok \in Tokens
      /\ i.op = "logout"
  BY RunningReq DEF ClearSession, Running, ReqInv, ReqControl
<1>2. ReqInv(g) /\ Moves(i, g)
  <2>1. ReqInv(g) /\ g.pc = "revoke"
    BY <1>1, AdvanceInv DEF Control
  <2> HIDE DEF g
  <2> QED BY <2>1 DEF Moves, Filling, Accepted
<1>3. UNCHANGED tableVars /\ RecordsSound /\ SessionsSound(p) /\ ClientsSound
  BY <1>1, StoresAlone DEF ClearSession
<1>4. req' = [req EXCEPT ![p] = g]
  BY DEF ClearSession, At
<1> HIDE DEF g
<1> QED BY <1>2, <1>3, <1>4, SoundStep

(* Logout deletes the record and answers.                                  *)
LEMMA RevokeInv ==
    ASSUME IInv, NEW p \in Procs, Revoke(p)
    PROVE  IInv' /\ Contract(p)
<1> DEFINE i == req[p]
<1>1. Running(i) /\ ReqInv(i) /\ i.tok \in Tokens /\ i.op = "logout"
  BY RunningReq DEF Revoke, Running, ReqInv, ReqControl
<1>2. ReqInv(Answer(i, "ok")) /\ Moves(i, Answer(i, "ok"))
  BY <1>1, RefusalMoves
<1>3. UNCHANGED tableVars /\ RecordsSound /\ SessionsSound(p) /\ ClientsSound
  BY <1>1, StoresAlone DEF Revoke
<1>4. req' = [req EXCEPT ![p] = Answer(i, "ok")]
  BY DEF Revoke
<1> QED BY <1>2, <1>3, <1>4, SoundStep

(* The goroutine ends.                                                     *)
LEMMA ReturnInv ==
    ASSUME IInv, NEW p \in Procs, Return(p)
    PROVE  IInv' /\ Contract(p)
<1>1. ReqInv(Idle) /\ Idle.pc = "idle"
  BY SentinelAssumption
     DEF Idle, Ops, ReqInv, ReqControl, ReqVersions, Running, Request, Control
<1>2. Moves(req[p], Idle)
  BY <1>1 DEF Moves, Filling, Accepted
<1>3. /\ req' = [req EXCEPT ![p] = Idle]
      /\ UNCHANGED <<tableVars, storeVars, issued, access>>
  BY DEF Return
<1> QED BY <1>1, <1>2, <1>3, RequestStep

(* A TTL runs out: a store loses a key, nothing else happens.              *)
Shrinks == /\ UNCHANGED <<tableVars, req>>
           /\ \A u \in Users : sessions'[u] \in {sessions[u], NoSession}
           /\ \A t \in Tokens : refresh'[t] \in {refresh[t], NoRecord}

(* An expiry keeps the invariant.                                          *)
LEMMA ExpireInv ==
    ASSUME IInv, Expire
    PROVE  IInv' /\ Shrinks
<1>1. UNCHANGED <<tableVars, issued, access, req>>
  BY DEF Expire, ExpireSession, ExpireRecord
<1>2. CASE \E u \in Users : ExpireSession(u)
  <2>1. PICK u \in Users : sessions' = [sessions EXCEPT ![u] = NoSession]
                           /\ UNCHANGED refresh
    BY <1>2 DEF ExpireSession
  <2> QED BY <2>1, <1>1
      DEF IInv, TypeOK, TableTypeOK, Live, SessionVersions, RecordVersions, ClaimVersions,
          ReqInv, ReqControl, ReqVersions, tableVars, Shrinks
<1>3. CASE \E t \in Tokens : ExpireRecord(t)
  <2>1. PICK t \in Tokens : refresh' = [refresh EXCEPT ![t] = NoRecord]
                            /\ UNCHANGED sessions
    BY <1>3 DEF ExpireRecord
  <2> QED BY <2>1, <1>1
      DEF IInv, TypeOK, TableTypeOK, Live, SessionVersions, RecordVersions, ClaimVersions,
          ReqInv, ReqControl, ReqVersions, tableVars, Shrinks
<1> QED BY <1>2, <1>3 DEF Expire

-----------------------------------------------------------------------------
(* The inductive invariant.                                                *)

(* The seeded table and empty stores satisfy the invariant.                *)
LEMMA InitInv == Init => IInv
<1> SUFFICES ASSUME Init PROVE IInv
  OBVIOUS
<1>1. users \in [Users -> Row]
  <2>1. NoRow \in Row
    BY EmailsAssumption DEF NoRow, Row
  <2> QED BY <2>1 DEF Init, TableInit, Row
<1>2. TypeOK
  <2>1. Idle \in Request
    BY DEF Idle, Request, Ops, Control
  <2> QED BY <1>1, <2>1 DEF Init, TableInit, AuthInit, TypeOK, TableTypeOK
<1>3. SessionVersions /\ RecordVersions /\ ClaimVersions
  BY DEF Init, AuthInit, SessionVersions, RecordVersions, ClaimVersions
<1>4. ReqInv(Idle)
  BY DEF Idle, Ops, ReqInv, ReqControl, ReqVersions, Running, Request, Control
<1> QED BY <1>2, <1>3, <1>4 DEF Init, AuthInit, IInv

(* One step of one request.                                                *)
LEMMA ProcInv ==
    ASSUME IInv, NEW p \in Procs, Start(p) \/ Continue(p)
    PROVE  IInv' /\ Contract(p)
<1>1. CASE Start(p)
  BY <1>1, RejectBlankInv, LoginInv, LoadRecordInv, AuthenticateInv DEF Start
<1>2. CASE Continue(p)
  BY <1>2, LoadSessionInv, ReadUserInv, ReadRolesInv, ReadPermsInv, FillCacheInv,
     SaveRecordInv, RotateInv, DropOutdatedInv, DropBannedInv, EvictBannedInv,
     BumpVersionInv, ClearSessionInv, RevokeInv, ReturnInv DEF Continue, Step
<1> QED BY <1>1, <1>2

(* So does a step that changes nothing.                                    *)
LEMMA StutterInv ==
    ASSUME IInv, UNCHANGED vars
    PROVE  IInv'
  BY DEF IInv, TypeOK, TableTypeOK, Live, SessionVersions, RecordVersions,
         ClaimVersions, ReqInv, ReqControl, ReqVersions, vars

(* Every step keeps the invariant.                                         *)
LEMMA NextInv == IInv /\ [Next]_vars => IInv'
<1> SUFFICES ASSUME IInv, [Next]_vars PROVE IInv'
  OBVIOUS
<1>1. CASE \E p \in Procs : Start(p) \/ Continue(p)
  BY <1>1, ProcInv
<1>2. CASE Expire
  BY <1>2, ExpireInv
<1>3. CASE UNCHANGED vars
  BY <1>3, StutterInv
<1> QED BY <1>1, <1>2, <1>3 DEF Next

(* The invariant holds in every behaviour.                                 *)
THEOREM Invariance == Spec => []IInv
  BY InitInv, NextInv, PTL DEF Spec

(* Every store, every set of tokens and every request keeps its shape,     *)
(* however many requests run at once.                                      *)
THEOREM TypeCorrect == Spec => []TypeOK
<1>1. IInv => TypeOK
  BY DEF IInv
<1> QED BY <1>1, Invariance, PTL

(* No copy of a token version, cached, recorded, handed out or in flight,  *)
(* is ahead of the users row (auth/service.go:157, middleware/auth.go:69   *)
(* compare copies with copies).                                            *)
THEOREM VersionsLag == Spec => []NoFutureVersions
<1>1. IInv => NoFutureVersions
  BY DEF IInv, ReqInv, ReqVersions, SessionVersions, RecordVersions, ClaimVersions,
         NoFutureVersions
<1> QED BY <1>1, Invariance, PTL

-----------------------------------------------------------------------------
(* A retired version stays retired.                                        *)

(* The contract of a step keeps a retired version retired.                 *)
LEMMA RetiredStep ==
    ASSUME IInv, IInv', NEW p \in Procs, Contract(p),
           NEW u \in Users, NEW v \in 0 .. MaxVersion, Retired(u, v)
    PROVE  /\ Retired(u, v)'
           /\ \A q \in Procs : Accepts(req'[q], u, v) => Accepts(req[q], u, v)
<1>1. PICK r : req' = [req EXCEPT ![p] = r] /\ Moves(req[p], r)
  BY DEF Contract
<1>2. /\ v \in Nat /\ users[u].ver \in Nat /\ users'[u].ver \in Nat
      /\ users'[u].ver > v
  <2>1. v \in Nat
    BY MaxVersionAssumption
  <2>2. users[u].ver \in Nat /\ users'[u].ver \in Nat
    BY DEF IInv, TypeOK, TableTypeOK, Row
  <2> QED BY <2>1, <2>2 DEF Contract, Retired
<1>3. req'[p] = r /\ \A q \in Procs \ {p} : req'[q] = req[q]
  BY <1>1 DEF IInv, TypeOK
<1>4. sessions'[u] # NoSession => sessions'[u].ver > v
  <2>1. CASE sessions'[u] \in {sessions[u], NoSession}
    BY <2>1 DEF Retired
  <2>2. CASE req[p].pc = "fill" /\ req[p].uid = u /\ sessions'[u] = req[p].sess
    BY <2>2 DEF Retired, Filling
  <2> QED BY <2>1, <2>2 DEF Contract, StoresKept
<1>5. ASSUME NEW q \in Procs, req'[q].uid = u, req'[q].pc \in Filling
      PROVE  req'[q].sess.ver > v
  <2>1. CASE q # p
    BY <1>3, <1>5, <2>1 DEF Retired
  <2>2. CASE q = p
    <3>1. CASE r.sess.ver = users[u].ver
      BY <1>3, <2>2, <3>1 DEF Retired
    <3>2. CASE req[p].pc \in Filling /\ req[p].uid = u /\ r.sess.ver = req[p].sess.ver
      BY <1>3, <2>2, <3>2 DEF Retired
    <3> QED BY <1>1, <1>3, <1>5, <2>2, <3>1, <3>2 DEF Moves
  <2> QED BY <2>1, <2>2
<1>6. Retired(u, v)'
  BY <1>2, <1>4, <1>5 DEF Retired
<1>7. ASSUME NEW q \in Procs, Accepts(req'[q], u, v)
      PROVE  Accepts(req[q], u, v)
  <2>1. CASE q # p
    BY <1>3, <1>7, <2>1
  <2>2. CASE q = p
    <3>1. /\ req[p].uid = u /\ req[p].want = v
          /\ Accepted(req[p]) \/ Vouched(req[p])
      BY <1>1, <1>3, <1>7, <2>2 DEF Moves, Accepts
    <3>2. ~Vouched(req[p])
      BY <1>2, <3>1 DEF Vouched, Retired, Filling
    <3> QED BY <2>2, <3>1, <3>2 DEF Accepts
  <2> QED BY <2>1, <2>2
<1> QED BY <1>6, <1>7

(* Once the row, the cache and every fill in flight are past a token       *)
(* version, they stay past it and no request is decided in favour of a     *)
(* credential of that version, for every number of users, requests and     *)
(* tokens and whichever store calls fail.                                  *)
THEOREM RetirementHolds == Spec => RetiredForGood
<1> DEFINE Kept == \A u \in Users : \A v \in 0 .. MaxVersion : Retired(u, v) =>
                     /\ Retired(u, v)'
                     /\ \A p \in Procs : Accepts(req'[p], u, v) => Accepts(req[p], u, v)
<1>1. ASSUME IInv, IInv', Next PROVE Kept
  <2>1. CASE \E p \in Procs : Start(p) \/ Continue(p)
    <3>1. PICK p \in Procs : Contract(p)
      BY <1>1, <2>1, ProcInv
    <3> QED BY <1>1, <3>1, RetiredStep
  <2>2. CASE Expire
    BY <1>1, <2>2, ExpireInv DEF Shrinks, tableVars, Retired
  <2> QED BY <1>1, <2>1, <2>2 DEF Next
<1>2. UNCHANGED vars => [Kept]_vars
  OBVIOUS
<1>3. IInv /\ IInv' /\ [Next]_vars => [Kept]_vars
  BY <1>1, <1>2
<1>4. Spec => [][Kept]_vars
  BY <1>3, Invariance, PTL DEF Spec
<1> QED BY <1>4 DEF RetiredForGood

(* A refresh token whose record is gone is never honoured again: no step   *)
(* writes a record under a token that reached a client.                    *)
THEOREM TokensStayDead == Spec => NoResurrection
<1> DEFINE Dead == \A t \in Tokens : t \in issued /\ refresh[t] = NoRecord =>
                     refresh'[t] = NoRecord
<1>1. ASSUME IInv, Next PROVE Dead
  <2>1. CASE \E p \in Procs : Start(p) \/ Continue(p)
    BY <1>1, <2>1, ProcInv DEF Contract, StoresKept
  <2>2. CASE Expire
    BY <1>1, <2>2, ExpireInv DEF Shrinks
  <2> QED BY <1>1, <2>1, <2>2 DEF Next
<1>2. IInv /\ [Next]_vars => [Dead]_vars
  BY <1>1
<1>3. Spec => [][Dead]_vars
  BY <1>2, Invariance, PTL DEF Spec
<1> QED BY <1>3 DEF NoResurrection
=============================================================================
