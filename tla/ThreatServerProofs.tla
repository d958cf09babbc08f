------------------------- MODULE ThreatServerProofs -------------------------
(***************************************************************************)
(* Proofs about ThreatServer for any number of goroutines, threats, texts, *)
(* entries and workers, and any capacity of the channel: the server runs   *)
(* the audit queue as AuditService describes it, and the trail says of     *)
(* threats what happened to them, once.                                    *)
(***************************************************************************)
EXTENDS ThreatServer, FiniteSetTheorems, TLAPS

(* A request before, between and after the statements of its handler.      *)
Served(p) ==
    /\ thr[p].pc # "idle" => p \in serving
    /\ thr[p].pc = "write" => thr[p].op = "update" /\ thr[p].row.st = "live"
    /\ thr[p].pc \in {"write", "record"} =>
         thr[p].id \in ThreatIds /\ threats[thr[p].id].st # "absent"
    /\ thr[p].pc = "record" =>
         /\ thr[p].op # "none"
         /\ thr[p].op = "delete" => threats[thr[p].id].st = "gone"
         /\ thr[p].took \/ (thr[p].op = "update" /\ threats[thr[p].id].st = "gone")

(* An entry that is submitted says what is true of the table.              *)
Truthful(e) == about[e] # Nothing => about[e] \in Subjects /\ Accurate(about[e])

(* No two entries, submitted or about to be, say the same.                 *)
Once(op, i) ==
    /\ \A e, f \in About(op, i) : e = f
    /\ \A p, q \in Recording(op, i) : p = q
    /\ About(op, i) = {} \/ Recording(op, i) = {}

Claimed(op, i) == About(op, i) # {} \/ Recording(op, i) # {}

Complete(i) ==
    \A op \in {"create", "delete"} :
        Happened(op, i) /\ <<op, i>> \notin unheard => Claimed(op, i)

TrailInv ==
    /\ ThreatsTypeOK
    /\ about \in [Entries -> {Nothing} \cup Subjects]
    /\ \A e \in Entries : e \in todo <=> about[e] = Nothing
    /\ phase = "stopped" => serving = {}
    /\ \A p \in Procs : Served(p)
    /\ \A e \in Entries : Truthful(e)
    /\ \A i \in ThreatIds : Once("create", i) /\ Once("delete", i) /\ Complete(i)

-----------------------------------------------------------------------------
(* The server runs the audit service.                                      *)

(* Every step of the server is a step of the audit service or none.        *)
LEMMA ServerSteps == [ServerNext]_serverVars => [Audit!Next]_(Audit!vars)
<1>1. UNCHANGED serverVars => UNCHANGED Audit!vars
  BY DEF serverVars, auditVars, Audit!vars
<1>2. ASSUME NEW p \in Procs, Arrive(p) \/ Progress(p) PROVE [Audit!Next]_(Audit!vars)
  BY <1>2 DEF Arrive, Progress, Serve, Submit, WriteEntry, Reply, auditVars,
              Audit!vars, Audit!Next
<1>3. Background => Audit!Next
  BY DEF Background, Audit!Next
<1> QED BY <1>1, <1>2, <1>3 DEF ServerNext

(* The threats handlers drive the audit queue as AuditService says         *)
(* (service.go:229-241, server.go:34-41).                                  *)
THEOREM AuditImplemented == ServerSpec => Audit!Spec
<1>1. ServerInit => Audit!Init
  BY DEF ServerInit
<1> QED BY <1>1, ServerSteps, PTL DEF ServerSpec, Audit!Spec

(* So what is proved of the audit service for any number of handlers holds *)
(* of this one, whose constants meet its assumptions.                      *)
Queue == INSTANCE AuditServiceProofs WITH Handlers <- Procs

(* The two instances are the same specification.                           *)
LEMMA SameAudit ==
    /\ Audit!Init <=> Queue!Init
    /\ ([Audit!Next]_(Audit!vars)) <=> [Queue!Next]_(Queue!vars)
<1>1. ASSUME NEW h \in Procs
      PROVE  /\ Audit!Begin(h) <=> Queue!Begin(h)
             /\ Audit!Write(h) <=> Queue!Write(h)
             /\ Audit!Respond(h) <=> Queue!Respond(h)
             /\ \A e \in Entries : Audit!Record(h, e) <=> Queue!Record(h, e)
  BY DEF Audit!Begin, Queue!Begin, Audit!Write, Queue!Write, Audit!InsertRow,
         Queue!InsertRow, Audit!Respond, Queue!Respond, Audit!Record, Queue!Record,
         Audit!Alive, Queue!Alive, Audit!Free, Queue!Free
<1>2. \A w \in Workers : (Audit!Take(w) <=> Queue!Take(w)) /\ (Audit!Work(w) <=> Queue!Work(w))
  BY DEF Audit!Take, Queue!Take, Audit!Work, Queue!Work, Audit!InsertRow,
         Queue!InsertRow, Audit!Alive, Queue!Alive
<1>3. /\ Audit!Signal <=> Queue!Signal
      /\ Audit!Stop <=> Queue!Stop
      /\ Audit!Kill <=> Queue!Kill
  BY DEF Audit!Signal, Queue!Signal, Audit!Stop, Queue!Stop, Audit!Kill, Queue!Kill,
         Audit!Alive, Queue!Alive
<1>4. Audit!Next <=> Queue!Next
  BY <1>1, <1>2, <1>3 DEF Audit!Next, Queue!Next
<1>5. Audit!Init <=> Queue!Init
  BY DEF Audit!Init, Queue!Init
<1> QED BY <1>4, <1>5 DEF Audit!vars, Queue!vars

(* The assumptions of that specification hold, and the server behaves as   *)
(* it says.                                                                *)
LEMMA QueueApplies ==
    /\ Queue!NoEntryAssumption /\ Queue!QueueSizeAssumption /\ Queue!FiniteAssumption
    /\ ServerSpec => Queue!Spec
<1>1. Queue!NoEntryAssumption
  BY ServerAssumptions
<1>2. Queue!QueueSizeAssumption
  BY ServerAssumptions
<1>3. Queue!FiniteAssumption
  BY ServerAssumptions DEF IsFiniteSet, Queue!IsFiniteSet
<1>4. ServerSpec => Queue!Spec
  <2>1. ServerInit => Queue!Init
    BY SameAudit DEF ServerInit
  <2>2. [ServerNext]_serverVars => [Queue!Next]_(Queue!vars)
    BY ServerSteps, SameAudit
  <2> QED BY <2>1, <2>2, PTL DEF ServerSpec, Queue!Spec
<1> QED BY <1>1, <1>2, <1>3, <1>4

(* Every entry of the server is in one place, with at most one row.        *)
THEOREM QueueInvariant == ServerSpec => []Queue!AInv
  BY QueueApplies, Queue!AuditInvariance, PTL

(* What AuditTrail promises a handler that calls Record holds of the       *)
(* entries the threats handlers submit, while they race, the database      *)
(* fails and the server stops: each is settled at most once, as a row or   *)
(* with a warning, and nothing after the process ended (audit/service.go). *)
THEOREM ServerKeepsTrail == ServerSpec => Queue!ImplementsTrail
  BY QueueApplies, Queue!TrailImplemented, PTL

(* The types of the queue, the pool and the process.                       *)
LEMMA QueueTypes == Queue!AInv => Audit!TypeOK
  BY DEF Queue!AInv, Queue!TypeOK, Audit!TypeOK, Queue!Phases, Audit!Phases

-----------------------------------------------------------------------------
(* What a handler does to its own state and to one row.                    *)
Touched(p, x, i, row) ==
    /\ x \in Handler /\ x.id = i /\ x.pc \in {"write", "record", "done"}
    /\ row \in Row
    /\ thr' = [thr EXCEPT ![p] = x]
    /\ threats' = [threats EXCEPT ![i] = row]
    /\ unheard \subseteq unheard'
    /\ unheard' \subseteq unheard \cup ({"create", "delete"} \X {i})
    /\ threats[i].st # "absent" => row.st # "absent"
    /\ threats[i].st = "gone" => row.st = "gone"
    /\ x.pc = "write" => x.op = "update" /\ x.row.st = "live" /\ row.st # "absent"
    /\ x.pc = "record" =>
         /\ x.op # "none" /\ row.st # "absent"
         /\ x.op = "delete" => threats[i].st # "gone" /\ row.st = "gone"
         /\ x.op = "create" => threats[i].st = "absent"
         /\ x.took \/ (x.op = "update" /\ row.st = "gone")
    /\ threats[i].st = "absent" /\ row.st # "absent" /\ <<"create", i>> \notin unheard' =>
         x.pc = "record" /\ x.op = "create"
    /\ threats[i].st # "gone" /\ row.st = "gone" /\ <<"delete", i>> \notin unheard' =>
         x.pc = "record" /\ x.op = "delete"

(* Such a step claims what it did, and nothing else.                       *)
LEMMA TouchKeeps ==
    ASSUME TrailInv, NEW p \in Procs, p \in serving, thr[p].pc \in {"idle", "write"},
           NEW i \in ThreatIds, NEW x, NEW row, Touched(p, x, i, row),
           UNCHANGED <<auditVars, about>>
    PROVE  TrailInv'
<1>0. /\ threats \in [ThreatIds -> Row] /\ thr \in [Procs -> Handler]
      /\ unheard \subseteq {"create", "delete"} \X ThreatIds
      /\ about \in [Entries -> {Nothing} \cup Subjects]
      /\ about' = about /\ todo' = todo /\ phase' = phase /\ serving' = serving
  BY DEF TrailInv, ThreatsTypeOK, auditVars
<1>1. /\ thr' \in [Procs -> Handler] /\ thr'[p] = x
      /\ \A q \in Procs \ {p} : thr'[q] = thr[q]
      /\ threats' \in [ThreatIds -> Row] /\ threats'[i] = row
      /\ \A j \in ThreatIds \ {i} : threats'[j] = threats[j]
      /\ unheard' \subseteq {"create", "delete"} \X ThreatIds
  BY <1>0 DEF Touched
<1>2. \A j \in ThreatIds : /\ threats[j].st # "absent" => threats'[j].st # "absent"
                           /\ threats[j].st = "gone" => threats'[j].st = "gone"
  BY <1>1 DEF Touched
<1>3. ThreatsTypeOK'
  BY <1>1 DEF ThreatsTypeOK
<1>4. ASSUME NEW q \in Procs PROVE Served(q)'
  <2>1. CASE q = p
    BY <1>0, <1>1, <2>1 DEF Served, Touched
  <2>2. CASE q # p
    BY <1>0, <1>1, <1>2, <2>2 DEF TrailInv, Served
  <2> QED BY <2>1, <2>2
<1>5. ASSUME NEW e \in Entries PROVE Truthful(e)'
  <2>1. Truthful(e)
    BY DEF TrailInv
  <2>2. about[e] # Nothing => about[e].id \in ThreatIds
    BY <2>1 DEF Truthful, Subjects
  <2> QED BY <1>0, <1>2, <2>1, <2>2 DEF Truthful, Accurate
<1>6. ASSUME NEW op \in {"create", "delete"}, NEW j \in ThreatIds
      PROVE  /\ About(op, j)' = About(op, j)
             /\ \/ Recording(op, j)' = Recording(op, j)
                \/ /\ Recording(op, j)' = Recording(op, j) \cup {p}
                   /\ Recording(op, j) = {} /\ About(op, j) = {}
             /\ j = i /\ x.pc = "record" /\ x.op = op => p \in Recording(op, j)'
  <2>1. About(op, j)' = About(op, j)
    BY <1>0 DEF About
  <2>2. p \notin Recording(op, j)
    BY DEF Recording
  <2>3. Recording(op, j)' = IF j = i /\ x.pc = "record" /\ x.op = op
                            THEN Recording(op, j) \cup {p} ELSE Recording(op, j)
    BY <1>1, <2>2 DEF Recording, Touched
  <2>4. ASSUME j = i, x.pc = "record", x.op = op
        PROVE  Recording(op, j) = {} /\ About(op, j) = {}
    <3>1. op = "create" => threats[i].st = "absent"
      BY <2>4 DEF Touched
    <3>2. op = "delete" => threats[i].st # "gone"
      BY <2>4 DEF Touched
    <3>3. ASSUME NEW q \in Recording(op, j) PROVE FALSE
      <4>1. q \in Procs /\ Served(q) /\ thr[q].pc = "record" /\ thr[q].op = op /\ thr[q].id = i
        BY <2>4, <3>3 DEF TrailInv, Recording
      <4> QED BY <3>1, <3>2, <4>1 DEF Served
    <3>4. ASSUME NEW e \in About(op, j) PROVE FALSE
      <4>1. /\ e \in Entries /\ Truthful(e)
            /\ about[e] # Nothing /\ about[e].op = op /\ about[e].id = i
        BY <2>4, <3>4 DEF TrailInv, About
      <4> QED BY <3>1, <3>2, <4>1 DEF Truthful, Accurate
    <3> QED BY <3>3, <3>4
  <2> QED BY <2>1, <2>3, <2>4
<1>7. ASSUME NEW op \in {"create", "delete"}, NEW j \in ThreatIds
      PROVE  Once(op, j)' /\ (Claimed(op, j) => Claimed(op, j)')
  <2>1. Once(op, j)
    BY DEF TrailInv
  <2> QED BY <1>6, <2>1 DEF Once, Claimed
<1>8. ASSUME NEW j \in ThreatIds PROVE Complete(j)'
  <2>1. Complete(j) /\ \A op : <<op, j>> \notin unheard' => <<op, j>> \notin unheard
    BY DEF TrailInv, Touched
  <2>2. CASE j # i
    <3>1. threats'[j] = threats[j]
      BY <1>1, <2>2
    <3> QED BY <1>7, <2>1, <3>1 DEF Complete, Happened
  <2>3. CASE j = i
    <3>1. ASSUME <<"create", i>> \notin unheard', row.st # "absent" PROVE Claimed("create", i)'
      <4>1. CASE threats[i].st = "absent"
        BY <1>6, <3>1, <4>1 DEF Touched, Claimed
      <4>2. CASE threats[i].st # "absent"
        BY <1>7, <2>1, <2>3, <3>1, <4>2 DEF Complete, Happened
      <4> QED BY <4>1, <4>2
    <3>2. ASSUME <<"delete", i>> \notin unheard', row.st = "gone" PROVE Claimed("delete", i)'
      <4>1. CASE threats[i].st # "gone"
        BY <1>6, <3>2, <4>1 DEF Touched, Claimed
      <4>2. CASE threats[i].st = "gone"
        BY <1>7, <2>1, <2>3, <3>2, <4>2 DEF Complete, Happened
      <4> QED BY <4>1, <4>2
    <3> QED BY <1>1, <2>3, <3>1, <3>2 DEF Complete, Happened
  <2> QED BY <2>2, <2>3
<1> QED BY <1>0, <1>3, <1>4, <1>5, <1>7, <1>8 DEF TrailInv

(* The states a handler is left in by its last statement.                  *)
LEMMA Concluded ==
    ASSUME NEW h \in Handler
    PROVE  /\ Refuse(h) \in Handler /\ Refuse(h).id = h.id /\ Refuse(h).op = h.op
           /\ Refuse(h).pc = "done" /\ Succeed(h).took = h.took
           /\ Succeed(h) \in Handler /\ Succeed(h).id = h.id /\ Succeed(h).op = h.op
           /\ Succeed(h).pc = "record"
<1>1. NoRow \in Row
  BY ThreatAssumptions DEF NoRow, Row
<1>2. /\ Refuse(h) \in Handler /\ Refuse(h).id = h.id /\ Refuse(h).op = h.op
      /\ Refuse(h).pc = "done"
  BY <1>1 DEF Refuse, Handler
<1>3. /\ Succeed(h) \in Handler /\ Succeed(h).id = h.id /\ Succeed(h).op = h.op
      /\ Succeed(h).pc = "record" /\ Succeed(h).took = h.took
  BY <1>1 DEF Succeed, Handler
<1> QED BY <1>2, <1>3

(* What a new request is made from.                                        *)
LEMMA NewHandler ==
    ASSUME NEW i \in ThreatIds, NEW op \in {"create", "update", "delete"}
    PROVE  /\ [NoHandler EXCEPT !.op = op, !.id = i] \in Handler
           /\ [NoHandler EXCEPT !.op = op, !.id = i].op = op
           /\ [NoHandler EXCEPT !.op = op, !.id = i].id = i
<1>1. NoRow \in Row
  BY ThreatAssumptions DEF NoRow, Row
<1>2. NoHandler \in Handler
  BY <1>1 DEF NoHandler, Handler
<1> QED BY <1>2 DEF Handler

(* Create.                                                                 *)
LEMMA CreateTouches ==
    ASSUME TrailInv, NEW p \in Procs, p \in serving, NEW i \in ThreatIds,
           NEW t \in Titles \cup {Blank}, NEW s \in Spellings, CreateThreat(p, i, t, s),
           UNCHANGED <<auditVars, about>>
    PROVE  TrailInv'
<1> DEFINE h == [NoHandler EXCEPT !.op = "create", !.id = i]
           g(o) == [h EXCEPT !.took = Applied(o)]
           new == [st |-> "live", title |-> t, severity |-> Lowered[s]]
<1>1. /\ threats \in [ThreatIds -> Row] /\ thr \in [Procs -> Handler]
      /\ thr[p].pc = "idle" /\ threats[i].st = "absent" /\ threats[i] \in Row
  BY DEF TrailInv, ThreatsTypeOK, CreateThreat, Idle
<1>2. h \in Handler /\ h.op = "create" /\ h.id = i
  BY NewHandler
<1> HIDE DEF h
<1>3. CASE t = Blank \/ ~Accepted(s)
  <2>1. thr' = [thr EXCEPT ![p] = Refuse(h)] /\ UNCHANGED <<threats, unheard>>
    BY <1>3 DEF CreateThreat, h
  <2>2. threats' = [threats EXCEPT ![i] = threats[i]]
    BY <1>1, <2>1
  <2>3. Touched(p, Refuse(h), i, threats[i])
    BY <1>1, <1>2, <2>1, <2>2, Concluded DEF Touched
  <2> QED BY <1>1, <2>3, TouchKeeps
<1>4. CASE ~(t = Blank \/ ~Accepted(s))
  <2>1. PICK o \in Outcomes("postgres") :
          /\ threats' = IF Applied(o) THEN [threats EXCEPT ![i] = new] ELSE threats
          /\ thr' = [thr EXCEPT ![p] = Conclude(g(o), o, TRUE)]
          /\ Hear("create", i, o, Applied(o))
    BY <1>4 DEF CreateThreat, h
  <2>2. new \in Row /\ new.st = "live"
    BY <1>4, ThreatAssumptions DEF Row, Accepted
  <2> HIDE DEF new
  <2> DEFINE x == Conclude(g(o), o, TRUE)
             row == IF Applied(o) THEN new ELSE threats[i]
  <2>3. /\ x \in Handler /\ x.id = i /\ x.op = "create"
        /\ x.pc = IF Erred(o) THEN "done" ELSE "record"
        /\ ~Erred(o) => x.took = Applied(o)
    <3>1. g(o) \in Handler /\ g(o).op = "create" /\ g(o).id = i /\ g(o).took = Applied(o)
      BY <1>2 DEF Handler, Applied
    <3> HIDE DEF g
    <3>2. x = IF Erred(o) THEN Refuse(g(o)) ELSE Succeed(g(o))
      BY DEF Conclude
    <3> HIDE DEF x
    <3> QED BY <3>1, <3>2, Concluded
  <2>4. threats' = [threats EXCEPT ![i] = row] /\ row \in Row
    BY <1>1, <2>1, <2>2
  <2>5. /\ Applied(o) => row.st = "live"
        /\ ~Applied(o) => row.st = "absent"
        /\ ~Erred(o) => Applied(o)
    BY <1>1, <2>2 DEF Applied, Erred
  <2>6. /\ unheard \subseteq unheard'
        /\ unheard' \subseteq unheard \cup ({"create", "delete"} \X {i})
        /\ Applied(o) /\ Erred(o) => <<"create", i>> \in unheard'
    BY <2>1 DEF Hear
  <2>7. thr' = [thr EXCEPT ![p] = x]
    BY <2>1
  <2> HIDE DEF x, row
  <2>8. Touched(p, x, i, row)
    BY <1>1, <2>3, <2>4, <2>5, <2>6, <2>7 DEF Touched
  <2> QED BY <1>1, <2>8, TouchKeeps
<1> QED BY <1>3, <1>4

(* The SELECT of Update.                                                   *)
LEMMA LoadTouches ==
    ASSUME TrailInv, NEW p \in Procs, p \in serving, NEW i \in ThreatIds,
           NEW t \in Titles \cup {Keep, Blank}, NEW s \in Spellings \cup {Keep},
           LoadThreat(p, i, t, s), UNCHANGED <<auditVars, about>>
    PROVE  TrailInv'
<1> DEFINE h == [NoHandler EXCEPT !.op = "update", !.id = i]
           y == [h EXCEPT !.pc = "write", !.row = Merge(threats[i], t, s)]
<1>1. /\ threats \in [ThreatIds -> Row] /\ thr \in [Procs -> Handler]
      /\ thr[p].pc = "idle" /\ threats[i] \in Row /\ UNCHANGED <<threats, unheard>>
  BY DEF TrailInv, ThreatsTypeOK, LoadThreat, Idle
<1>2. h \in Handler /\ h.op = "update" /\ h.id = i
  BY NewHandler
<1> HIDE DEF h
<1>3. \/ thr' = [thr EXCEPT ![p] = Refuse(h)]
      \/ Exists(i) /\ ValidUpdate(t, s) /\ thr' = [thr EXCEPT ![p] = y]
  BY DEF LoadThreat, h
<1>4. threats' = [threats EXCEPT ![i] = threats[i]]
  BY <1>1
<1>5. CASE thr' = [thr EXCEPT ![p] = Refuse(h)]
  <2>1. Touched(p, Refuse(h), i, threats[i])
    BY <1>1, <1>2, <1>4, <1>5, Concluded DEF Touched
  <2> QED BY <1>1, <2>1, TouchKeeps
<1>6. CASE Exists(i) /\ ValidUpdate(t, s) /\ thr' = [thr EXCEPT ![p] = y]
  <2>1. Merge(threats[i], t, s) \in Row /\ Merge(threats[i], t, s).st = threats[i].st
    <3> DEFINE title == IF t = Keep THEN threats[i].title ELSE t
               severity == IF s = Keep THEN threats[i].severity ELSE Lowered[s]
    <3>1. title \in Titles /\ severity \in allowedSeverities
      BY <1>1, <1>6 DEF Row, ValidUpdate, Accepted
    <3>2. Merge(threats[i], t, s) = [threats[i] EXCEPT !.title = title, !.severity = severity]
      BY DEF Merge
    <3> HIDE DEF title, severity
    <3> QED BY <1>1, <3>1, <3>2 DEF Row
  <2>2. y \in Handler /\ y.id = i /\ y.pc = "write" /\ y.op = "update" /\ y.row.st = "live"
    BY <1>2, <1>6, <2>1 DEF Handler, Exists
  <2> HIDE DEF y
  <2>3. Touched(p, y, i, threats[i])
    BY <1>1, <1>4, <1>6, <2>2 DEF Touched, Exists
  <2> QED BY <1>1, <2>3, TouchKeeps
<1> QED BY <1>3, <1>5, <1>6

(* Its UPDATE.                                                             *)
LEMMA WriteTouches ==
    ASSUME TrailInv, NEW p \in Procs, p \in serving, WriteThreat(p),
           UNCHANGED <<auditVars, about>>
    PROVE  TrailInv'
<1> DEFINE h == thr[p]
           i == thr[p].id
<1>1. /\ threats \in [ThreatIds -> Row] /\ thr \in [Procs -> Handler]
      /\ h \in Handler /\ h.pc = "write" /\ h.op = "update"
      /\ h.row \in Row /\ h.row.st = "live"
      /\ i \in ThreatIds /\ threats[i].st # "absent" /\ threats[i] \in Row
  BY DEF TrailInv, ThreatsTypeOK, WriteThreat, Served, Handler
<1>2. PICK o \in Outcomes("postgres") :
        /\ threats' = IF Applied(o) /\ Exists(i) THEN [threats EXCEPT ![i] = h.row] ELSE threats
        /\ thr' = [thr EXCEPT ![p] =
                     Conclude([h EXCEPT !.took = Applied(o) /\ Exists(i)], o, TRUE)]
        /\ unheard' = unheard
  BY DEF WriteThreat
<1> DEFINE g == [h EXCEPT !.took = Applied(o) /\ Exists(i)]
           x == Conclude(g, o, TRUE)
           row == IF Applied(o) /\ Exists(i) THEN h.row ELSE threats[i]
<1>3. /\ x \in Handler /\ x.id = i /\ x.op = "update" /\ x.pc \in {"done", "record"}
      /\ x.pc = "record" => x.took \/ ~Exists(i)
  <2>1. /\ g \in Handler /\ g.op = "update" /\ g.id = i
        /\ ~Erred(o) => g.took \/ ~Exists(i)
    BY <1>1 DEF Handler, Applied, Erred, Exists
  <2> HIDE DEF g
  <2>2. x = IF Erred(o) THEN Refuse(g) ELSE Succeed(g)
    BY DEF Conclude
  <2> HIDE DEF x
  <2> QED BY <2>1, <2>2, Concluded
<1>4. threats' = [threats EXCEPT ![i] = row] /\ row \in Row
  BY <1>1, <1>2
<1>5. row.st = threats[i].st
  BY <1>1 DEF Exists
<1>6. x.pc = "record" => x.took \/ row.st = "gone"
  BY <1>1, <1>3, <1>5 DEF Row, Exists
<1>7. thr' = [thr EXCEPT ![p] = x]
  BY <1>2
<1> HIDE DEF x, row, h, i
<1>8. Touched(p, x, i, row)
  BY <1>1, <1>2, <1>3, <1>4, <1>5, <1>6, <1>7 DEF Touched
<1> QED BY <1>1, <1>8, TouchKeeps DEF h

(* Delete.                                                                 *)
LEMMA DeleteTouches ==
    ASSUME TrailInv, NEW p \in Procs, p \in serving, NEW i \in ThreatIds,
           DeleteThreat(p, i), UNCHANGED <<auditVars, about>>
    PROVE  TrailInv'
<1> DEFINE h == [NoHandler EXCEPT !.op = "delete", !.id = i]
           gone == [threats[i] EXCEPT !.st = "gone"]
<1>1. /\ threats \in [ThreatIds -> Row] /\ thr \in [Procs -> Handler]
      /\ thr[p].pc = "idle" /\ threats[i] \in Row
  BY DEF TrailInv, ThreatsTypeOK, DeleteThreat, Idle
<1>2. h \in Handler /\ h.op = "delete" /\ h.id = i
  BY NewHandler
<1> HIDE DEF h
<1>3. PICK o \in Outcomes("postgres") :
        /\ threats' = IF Applied(o) /\ Exists(i) THEN [threats EXCEPT ![i].st = "gone"]
                      ELSE threats
        /\ thr' = [thr EXCEPT ![p] =
                     Conclude([h EXCEPT !.took = Applied(o) /\ Exists(i)], o, Exists(i))]
        /\ Hear("delete", i, o, Applied(o) /\ Exists(i))
  BY DEF DeleteThreat, Deleted, h
<1>4. gone \in Row /\ gone.st = "gone"
  BY <1>1 DEF Row
<1> DEFINE g == [h EXCEPT !.took = Applied(o) /\ Exists(i)]
           x == Conclude(g, o, Exists(i))
           row == IF Applied(o) /\ Exists(i) THEN gone ELSE threats[i]
<1>5. /\ x \in Handler /\ x.id = i /\ x.op = "delete"
      /\ x.pc = IF Erred(o) \/ ~Exists(i) THEN "done" ELSE "record"
      /\ x.pc = "record" => x.took
  <2>1. /\ g \in Handler /\ g.op = "delete" /\ g.id = i
        /\ ~Erred(o) /\ Exists(i) => g.took
    BY <1>2 DEF Handler, Applied, Erred, Exists
  <2> HIDE DEF g
  <2>2. x = IF Erred(o) \/ ~Exists(i) THEN Refuse(g) ELSE Succeed(g)
    BY DEF Conclude
  <2> HIDE DEF x
  <2> QED BY <2>1, <2>2, Concluded
<1>6. threats' = [threats EXCEPT ![i] = row] /\ row \in Row
  BY <1>1, <1>3, <1>4
<1>7. /\ unheard \subseteq unheard'
      /\ unheard' \subseteq unheard \cup ({"create", "delete"} \X {i})
      /\ Applied(o) /\ Exists(i) /\ Erred(o) => <<"delete", i>> \in unheard'
  BY <1>3 DEF Hear
<1>8. /\ row.st = IF Applied(o) /\ Exists(i) THEN "gone" ELSE threats[i].st
      /\ ~Erred(o) => Applied(o)
  BY <1>4 DEF Applied, Erred
<1>9. thr' = [thr EXCEPT ![p] = x]
  BY <1>3
<1> HIDE DEF x, row, gone
<1>10. Touched(p, x, i, row)
  BY <1>1, <1>5, <1>6, <1>7, <1>8, <1>9 DEF Touched, Exists
<1> QED BY <1>1, <1>10, TouchKeeps

(* Every handler, in a request.                                            *)
LEMMA ServeKeeps ==
    ASSUME TrailInv, NEW p \in Procs, Serve(p)
    PROVE  TrailInv'
<1>1. p \in serving /\ UNCHANGED <<auditVars, about>>
  BY DEF Serve
<1>2. CASE WriteThreat(p)
  BY <1>1, <1>2, WriteTouches
<1>3. CASE Start(p)
  <2>1. PICK i \in ThreatIds :
          \/ \E t \in Titles \cup {Blank}, s \in Spellings : CreateThreat(p, i, t, s)
          \/ \E t \in Titles \cup {Keep, Blank}, s \in Spellings \cup {Keep} :
               LoadThreat(p, i, t, s)
          \/ DeleteThreat(p, i)
    BY <1>3 DEF Start
  <2> QED BY <1>1, <2>1, CreateTouches, LoadTouches, DeleteTouches
<1> QED BY <1>2, <1>3 DEF Serve

(* Steps that touch neither the table nor the trail: a request comes or    *)
(* goes, the queue moves, the process ends.                                *)
LEMMA QuietKeeps ==
    ASSUME TrailInv, UNCHANGED <<threats, unheard, about>>, todo' = todo,
           phase' = "stopped" => serving' = {},
           \/ thr' = thr /\ serving \subseteq serving'
           \/ \E p \in Procs : /\ thr[p].pc = "done" /\ serving' = serving \ {p}
                               /\ thr' = [thr EXCEPT ![p] = NoHandler]
    PROVE  TrailInv'
<1>0. /\ thr \in [Procs -> Handler] /\ NoHandler \in Handler /\ NoHandler.pc = "idle"
  <2>1. NoRow \in Row
    BY ThreatAssumptions DEF NoRow, Row
  <2> QED BY <2>1 DEF TrailInv, ThreatsTypeOK, NoHandler, Handler
<1>1. /\ thr' \in [Procs -> Handler]
      /\ \A q \in Procs : \/ thr'[q] = thr[q] /\ (q \in serving => q \in serving')
                          \/ thr'[q].pc = "idle" /\ thr[q].pc = "done"
  BY <1>0
<1>2. ThreatsTypeOK'
  BY <1>1 DEF TrailInv, ThreatsTypeOK
<1>3. \A q \in Procs : Served(q)'
  BY <1>1 DEF TrailInv, Served
<1>4. \A e \in Entries : Truthful(e)'
  BY DEF TrailInv, Truthful, Accurate
<1>5. ASSUME NEW op, NEW i
      PROVE  About(op, i)' = About(op, i) /\ Recording(op, i)' = Recording(op, i)
  BY <1>1 DEF About, Recording
<1>6. ASSUME NEW i \in ThreatIds
      PROVE  Once("create", i)' /\ Once("delete", i)' /\ Complete(i)'
  <2>1. Once("create", i) /\ Once("delete", i) /\ Complete(i)
    BY DEF TrailInv
  <2>2. Once("create", i)' /\ Once("delete", i)'
    BY <1>5, <2>1 DEF Once
  <2>3. \A op \in {"create", "delete"} :
          (Happened(op, i)' <=> Happened(op, i)) /\ (Claimed(op, i)' <=> Claimed(op, i))
    BY <1>5 DEF Happened, Claimed
  <2>4. Complete(i)'
    BY <2>1, <2>3 DEF Complete
  <2> QED BY <2>2, <2>4
<1> QED BY <1>2, <1>3, <1>4, <1>6 DEF TrailInv

(* Submitting turns a claim into an entry.                                 *)
LEMMA SubmitKeeps ==
    ASSUME TrailInv, Audit!TypeOK, NEW p \in Procs, Submit(p)
    PROVE  TrailInv'
<1>0. PICK e \in Entries :
        /\ thr[p].pc = "record" /\ Audit!Record(p, e)
        /\ about' = [about EXCEPT ![e] = [op   |-> thr[p].op, id |-> thr[p].id,
                                          took |-> thr[p].took]]
        /\ thr' = [thr EXCEPT ![p].pc = "done"]
        /\ UNCHANGED <<threats, unheard>>
  BY DEF Submit
<1> DEFINE s == [op |-> thr[p].op, id |-> thr[p].id, took |-> thr[p].took]
           x == [thr[p] EXCEPT !.pc = "done"]
<1>1. /\ e \in todo /\ todo' = todo \ {e} /\ serving' = serving /\ phase' = phase
      /\ p \in serving
  BY <1>0 DEF Audit!Record, Audit!Free
<1>2. /\ thr \in [Procs -> Handler] /\ about \in [Entries -> {Nothing} \cup Subjects]
      /\ about[e] = Nothing /\ todo \subseteq Entries /\ Served(p) /\ thr[p] \in Handler
  BY <1>1 DEF TrailInv, ThreatsTypeOK, Audit!TypeOK
<1>3. s \in Subjects /\ s # Nothing /\ s.op = thr[p].op /\ s.id = thr[p].id
      /\ s.id \in ThreatIds /\ s.took = thr[p].took
  <2>1. /\ thr[p].op \in {"create", "update", "delete"} /\ thr[p].id \in ThreatIds
        /\ thr[p].took \in BOOLEAN
    BY <1>0, <1>2 DEF Served, Handler
  <2> QED BY <2>1, ServerAssumptions DEF Subjects
<1>4. /\ x \in Handler /\ x.pc = "done" /\ x.op = thr[p].op /\ x.id = thr[p].id
      /\ thr' = [thr EXCEPT ![p] = x]
  BY <1>0, <1>2 DEF Handler
<1>5. about' = [about EXCEPT ![e] = s]
  BY <1>0
<1> HIDE DEF x
<1>6. /\ thr' \in [Procs -> Handler] /\ thr'[p] = x
      /\ \A q \in Procs \ {p} : thr'[q] = thr[q]
  BY <1>2, <1>4
<1>7. /\ about' \in [Entries -> {Nothing} \cup Subjects] /\ about'[e] = s
      /\ \A f \in Entries \ {e} : about'[f] = about[f]
  <2> HIDE DEF s
  <2> QED BY <1>2, <1>3, <1>5
<1>8. ThreatsTypeOK'
  BY <1>0, <1>6 DEF TrailInv, ThreatsTypeOK
<1>9. \A q \in Procs : Served(q)'
  BY <1>0, <1>1, <1>4, <1>6 DEF TrailInv, Served
<1>10. \A f \in Entries : Truthful(f)'
  <2>1. Accurate(s)
    BY <1>0, <1>2, <1>3 DEF Served, Accurate
  <2> HIDE DEF s
  <2> QED BY <1>0, <1>3, <1>7, <2>1 DEF TrailInv, Truthful, Accurate
<1>11. ASSUME NEW op \in {"create", "delete"}, NEW i \in ThreatIds
       PROVE  /\ Once(op, i)' /\ (Claimed(op, i) => Claimed(op, i)')
  <2>1. Once(op, i)
    BY DEF TrailInv
  <2>2. e \notin About(op, i)
    BY <1>2 DEF About
  <2>3. p \notin Recording(op, i)'
    BY <1>4, <1>6 DEF Recording
  <2>4. CASE thr[p].op = op /\ thr[p].id = i
    <3>1. p \in Recording(op, i)
      BY <1>0, <2>4 DEF Recording
    <3>2. About(op, i) = {} /\ Recording(op, i) = {p}
      BY <2>1, <3>1 DEF Once
    <3>3. Recording(op, i)' = {}
      BY <1>6, <2>3, <3>2 DEF Recording
    <3>4. About(op, i)' = {e}
      <4>1. s # Nothing /\ s.op = op /\ s.id = i
        BY <1>3, <2>4
      <4> HIDE DEF s
      <4> QED BY <1>7, <3>2, <4>1 DEF About
    <3> QED BY <3>3, <3>4 DEF Once, Claimed
  <2>5. CASE ~(thr[p].op = op /\ thr[p].id = i)
    <3>1. Recording(op, i)' = Recording(op, i)
      BY <1>6, <2>3, <2>5 DEF Recording
    <3>2. About(op, i)' = About(op, i)
      <4>1. ~(s.op = op /\ s.id = i)
        BY <1>3, <2>5
      <4> HIDE DEF s
      <4> QED BY <1>7, <2>2, <4>1 DEF About
    <3> QED BY <2>1, <3>1, <3>2 DEF Once, Claimed
  <2> QED BY <2>4, <2>5
<1>12. \A i \in ThreatIds : Complete(i)'
  BY <1>0, <1>11 DEF TrailInv, Complete, Happened
<1>13. \A f \in Entries : f \in todo' <=> about'[f] = Nothing
  <2> HIDE DEF s
  <2> QED BY <1>1, <1>2, <1>3, <1>7 DEF TrailInv
<1> QED BY <1>1, <1>7, <1>8, <1>9, <1>10, <1>11, <1>12, <1>13 DEF TrailInv

-----------------------------------------------------------------------------
(* The invariant.                                                          *)

(* The server starts with an empty table and an empty trail.               *)
LEMMA ServerStarts == ServerInit => TrailInv
<1> SUFFICES ASSUME ServerInit PROVE TrailInv
  OBVIOUS
<1>1. NoRow \in Row /\ NoRow.st = "absent"
  BY ThreatAssumptions DEF NoRow, Row
<1>2. NoHandler \in Handler /\ NoHandler.pc = "idle"
  BY <1>1 DEF NoHandler, Handler
<1>3. ThreatsTypeOK
  BY <1>1, <1>2 DEF ServerInit, ThreatsInit, ThreatsTypeOK
<1>4. \A p \in Procs : Served(p)
  BY <1>2 DEF ServerInit, ThreatsInit, Served
<1>5. \A e \in Entries : about[e] = Nothing
  BY DEF ServerInit
<1>6. ASSUME NEW op \in {"create", "delete"}, NEW i \in ThreatIds
      PROVE  About(op, i) = {} /\ Recording(op, i) = {}
  BY <1>2, <1>5 DEF About, ServerInit, ThreatsInit, Recording
<1>7. \A i \in ThreatIds : Once("create", i) /\ Once("delete", i) /\ Complete(i)
  BY <1>1, <1>6 DEF ServerInit, ThreatsInit, Once, Complete, Happened
<1> QED BY <1>3, <1>4, <1>5, <1>7 DEF TrailInv, Truthful, ServerInit, Audit!Init

(* Every step keeps it.                                                    *)
LEMMA ServerKeeps == TrailInv /\ Queue!AInv /\ [ServerNext]_serverVars => TrailInv'
<1> SUFFICES ASSUME TrailInv, Audit!TypeOK, [ServerNext]_serverVars PROVE TrailInv'
  BY QueueTypes
<1>0. phase = "stopped" => serving = {}
  BY DEF TrailInv
<1>1. ASSUME NEW p \in Procs, Arrive(p) PROVE TrailInv'
  <2>1. UNCHANGED <<threats, unheard, about, thr, todo, phase>> /\ phase = "running"
        /\ serving \subseteq serving'
    BY <1>1 DEF Arrive, Audit!Begin, threatVars
  <2> QED BY <2>1, QuietKeeps
<1>2. ASSUME NEW p \in Procs, WriteEntry(p) PROVE TrailInv'
  <2>1. UNCHANGED <<threats, unheard, about, thr, todo, phase, serving>>
    BY <1>2 DEF WriteEntry, Audit!Write, threatVars
  <2> QED BY <1>0, <2>1, QuietKeeps
<1>3. ASSUME NEW p \in Procs, Reply(p) PROVE TrailInv'
  <2>1. /\ UNCHANGED <<threats, unheard, about, todo, phase>> /\ serving' = serving \ {p}
        /\ thr[p].pc = "done" /\ thr' = [thr EXCEPT ![p] = NoHandler]
    BY <1>3 DEF Reply, Audit!Respond
  <2> QED BY <1>0, <2>1, QuietKeeps
<1>4. ASSUME Background PROVE TrailInv'
  <2>1. /\ UNCHANGED <<threats, unheard, about, thr, todo, serving>>
        /\ phase' = "stopped" => phase = "stopped" \/ serving = {}
    BY <1>4 DEF Background, threatVars, Audit!Take, Audit!Work, Audit!Signal, Audit!Stop,
                Audit!Kill
  <2> QED BY <1>0, <2>1, QuietKeeps
<1>5. ASSUME UNCHANGED serverVars PROVE TrailInv'
  <2>1. UNCHANGED <<threats, unheard, about, thr, todo, serving, phase>>
    BY <1>5 DEF serverVars, threatVars, auditVars
  <2> QED BY <1>0, <2>1, QuietKeeps
<1> QED BY <1>1, <1>2, <1>3, <1>4, <1>5, ServeKeeps, SubmitKeeps DEF ServerNext, Progress

(* What the trail and the table say of each other.                         *)
THEOREM TrailInvariant == ServerSpec => [](TrailInv /\ Queue!AInv)
  BY ServerStarts, ServerKeeps, QueueInvariant, PTL DEF ServerSpec

-----------------------------------------------------------------------------
(* Variables of the server keep their types: a stored severity has been    *)
(* through normalizeSeverity (service.go:23-32), the queue is never over   *)
(* its capacity.                                                           *)
THEOREM ServerTypeCorrect == ServerSpec => []ServerTypeOK
<1>1. TrailInv /\ Queue!AInv => ServerTypeOK
  BY QueueTypes DEF TrailInv, ServerTypeOK
<1> QED BY <1>1, TrailInvariant, PTL

(* However many requests delete or create the same threat at once, one of  *)
(* them succeeds and the trail says so once (service.go:217-225).          *)
THEOREM RecordedAtMostOnce == ServerSpec => []RecordedOnce
<1>1. ASSUME NEW S, \A x, y \in S : x = y
      PROVE  Cardinality(S) \in {0, 1}
  <2>1. CASE S = {}
    BY <2>1, FS_EmptySet
  <2>2. CASE S # {}
    <3>1. PICK x : S = {x}
      BY <1>1, <2>2
    <3> QED BY <3>1, FS_Singleton
  <2> QED BY <2>1, <2>2
<1>2. TrailInv => RecordedOnce
  <2> SUFFICES ASSUME TrailInv, NEW i \in ThreatIds, NEW op \in {"create", "delete"}
               PROVE  Cardinality(About(op, i)) + Cardinality(Recording(op, i)) <= 1
    BY DEF RecordedOnce
  <2>1. Once(op, i)
    BY DEF TrailInv
  <2>2. /\ Cardinality(About(op, i)) \in {0, 1}
        /\ Cardinality(Recording(op, i)) \in {0, 1}
    BY <1>1, <2>1 DEF Once
  <2>3. Cardinality(About(op, i)) = 0 \/ Cardinality(Recording(op, i)) = 0
    BY <2>1, FS_EmptySet DEF Once
  <2> QED BY <2>2, <2>3
<1> QED BY <1>2, TrailInvariant, PTL

(* An entry in the trail is true of the request that submitted it and of   *)
(* the table: the request's own statement created, updated or deleted the  *)
(* threat, or it is an update whose threat was deleted before its UPDATE,  *)
(* which the code records all the same (service.go:205-211).               *)
THEOREM TrailTruthful == ServerSpec => []TrailMatchesTable
<1>1. TrailInv => TrailMatchesTable
  BY DEF TrailInv, Truthful, TrailMatchesTable
<1> QED BY <1>1, TrailInvariant, PTL

(* Every creation and deletion is recorded, except when the answer of the  *)
(* statement was an error, also at a graceful stop (service.go:136-147,    *)
(* 217-225).                                                               *)
THEOREM TrailComplete == ServerSpec => []NothingUnrecorded
<1>1. TrailInv => NothingUnrecorded
  <2>1. ASSUME TrailInv, phase = "stopped", NEW op, NEW i PROVE Recording(op, i) = {}
    BY <2>1 DEF TrailInv, Served, Recording
  <2> QED BY <2>1 DEF TrailInv, Complete, Claimed, NothingUnrecorded
<1> QED BY <1>1, TrailInvariant, PTL

(* A deleted threat stays deleted: an UPDATE behind the DELETE finds no    *)
(* row (postgres.go:71-80).                                                *)
THEOREM ThreatStaysDeleted == ServerSpec => DeletedForGood
<1>1. ASSUME TrailInv, [ServerNext]_serverVars, NEW i \in ThreatIds, threats[i].st = "gone"
      PROVE  threats'[i] = threats[i]
  <2>0. threats \in [ThreatIds -> Row]
    BY <1>1 DEF TrailInv, ThreatsTypeOK
  <2>1. ASSUME NEW p \in Procs, Serve(p) PROVE threats'[i] = threats[i]
    <3>1. CASE WriteThreat(p)
      BY <1>1, <2>0, <3>1 DEF WriteThreat, Exists
    <3>2. CASE Start(p)
      BY <1>1, <2>0, <3>2 DEF Start, CreateThreat, LoadThreat, DeleteThreat, Exists
    <3> QED BY <2>1, <3>1, <3>2 DEF Serve
  <2>2. ASSUME threats' # threats PROVE \E p \in Procs : Serve(p)
    BY <1>1, <2>2 DEF ServerNext, Arrive, Progress, Submit, WriteEntry, Reply, Background,
                      serverVars, threatVars
  <2> QED BY <2>1, <2>2
<1>2. TrailInv /\ [ServerNext]_serverVars =>
        \A i \in ThreatIds : threats[i].st = "gone" => threats'[i] = threats[i]
  BY <1>1
<1> QED BY <1>2, TrailInvariant, PTL DEF ServerSpec, DeletedForGood

(* What is proved of the audit queue and of the trail together says what   *)
(* audit_logs has: every row is true of its request and of the table, and  *)
(* whatever misses its row is in the process or was logged as failed.      *)
THEOREM StoredTrailTruthful == ServerSpec => []StoredTrail
<1>1. ASSUME TrailInv, Queue!AInv PROVE StoredTrail
  <2>1. Queue!Pending = Audit!Pending
    BY DEF Queue!Pending, Audit!Pending, Queue!Queued, Audit!Queued, Queue!InWork,
           Audit!InWork, Queue!InWrite, Audit!InWrite
  <2>2. ASSUME NEW e \in Entries, e \notin todo
        PROVE  e \in rows \cup warned \cup Audit!Pending
    BY <1>1, <2>1, <2>2 DEF Queue!AInv, Queue!OnePlace, Queue!Settled
  <2>3. ASSUME NEW e \in rows PROVE about[e] # Nothing /\ Accurate(about[e])
    <3>1. e \in Entries /\ e \notin todo
      BY <1>1, <2>3 DEF Queue!AInv, Queue!TypeOK, Queue!OnePlace, Queue!Settled
    <3> QED BY <1>1, <3>1 DEF TrailInv, Truthful
  <2>4. ASSUME NEW i \in ThreatIds, NEW op \in {"create", "delete"},
               Happened(op, i), <<op, i>> \notin unheard, Recording(op, i) = {}
        PROVE  About(op, i) \cap (rows \cup warned \cup Audit!Pending) # {}
    <3>1. PICK e \in About(op, i) : TRUE
      BY <1>1, <2>4 DEF TrailInv, Complete, Claimed
    <3>2. e \in Entries /\ e \notin todo
      BY <1>1, <3>1 DEF About, TrailInv
    <3> QED BY <2>2, <3>1, <3>2
  <2> QED BY <2>3, <2>4 DEF StoredTrail
<1>2. TrailInv /\ Queue!AInv => StoredTrail
  BY <1>1
<1> QED BY <1>2, TrailInvariant, PTL
=============================================================================
