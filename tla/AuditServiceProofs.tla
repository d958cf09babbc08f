------------------------- MODULE AuditServiceProofs -------------------------
(***************************************************************************)
(* Proofs about AuditService for every number of entries, workers and      *)
(* handlers and every capacity of the channel: no entry is lost between    *)
(* the channel and the pool or handled twice, and the service implements   *)
(* AuditTrail up to its fairness.                                          *)
(***************************************************************************)
EXTENDS AuditService, FiniteSetTheorems, TLAPS

(* Handlers write inside a request, and none is left at a graceful stop.   *)
WritesServed == /\ \A h \in Handlers : writing[h] # NoEntry => h \in serving
                /\ phase = "stopped" => serving = {}

AInv == TypeOK /\ OnePlace /\ WritesServed

-----------------------------------------------------------------------------
(* Lemmas about the channel and the goroutines that hold an entry.         *)

Held(S, f)      == {f[x] : x \in S} \ {NoEntry}
Exclusive(S, f) == \A x, y \in S : f[x] = f[y] /\ f[x] # NoEntry => x = y
Elements(q)     == {q[i] : i \in 1 .. Len(q)}
Distinct(q)     == \A i, j \in 1 .. Len(q) : q[i] = q[j] => i = j

(* Sending on the channel.                                                 *)
LEMMA SendElements ==
    ASSUME NEW q \in Seq(Entries), Distinct(q), NEW e \in Entries, e \notin Elements(q)
    PROVE  /\ Append(q, e) \in Seq(Entries) /\ Len(Append(q, e)) = Len(q) + 1
           /\ Elements(Append(q, e)) = Elements(q) \cup {e}
           /\ Distinct(Append(q, e))
<1> DEFINE a == Append(q, e)
<1>1. /\ a \in Seq(Entries) /\ Len(a) = Len(q) + 1 /\ Len(q) \in Nat
      /\ a[Len(q) + 1] = e /\ \A i \in 1 .. Len(q) : a[i] = q[i]
  OBVIOUS
<1> HIDE DEF a
<1>2. Elements(a) = Elements(q) \cup {e}
  BY <1>1 DEF Elements
<1>3. Distinct(a)
  BY <1>1 DEF Elements, Distinct
<1> QED BY <1>1, <1>2, <1>3 DEF a

(* Receiving from it.                                                      *)
LEMMA ReceiveElements ==
    ASSUME NEW q \in Seq(Entries), Distinct(q), q # <<>>
    PROVE  /\ Head(q) \in Elements(q) /\ Head(q) \in Entries
           /\ Tail(q) \in Seq(Entries) /\ Len(Tail(q)) = Len(q) - 1
           /\ Elements(Tail(q)) = Elements(q) \ {Head(q)}
           /\ Distinct(Tail(q))
<1> DEFINE a == Tail(q)
<1>1. /\ a \in Seq(Entries) /\ Len(a) = Len(q) - 1 /\ Len(q) \in Nat /\ Len(q) >= 1
      /\ Head(q) = q[1] /\ Head(q) \in Entries
      /\ \A i \in 1 .. Len(a) : a[i] = q[i + 1]
  OBVIOUS
<1> HIDE DEF a
<1>2. Head(q) \in Elements(q)
  BY <1>1 DEF Elements
<1>3. Elements(a) \subseteq Elements(q) \ {Head(q)}
  BY <1>1 DEF Elements, Distinct
<1>4. Elements(q) \ {Head(q)} \subseteq Elements(a)
  <2> SUFFICES ASSUME NEW i \in 1 .. Len(q), q[i] # q[1] PROVE q[i] \in Elements(a)
    BY <1>1 DEF Elements
  <2>1. i - 1 \in 1 .. Len(a) /\ a[i - 1] = q[i]
    BY <1>1
  <2> QED BY <2>1 DEF Elements
<1>5. Distinct(a)
  BY <1>1 DEF Distinct
<1> QED BY <1>1, <1>2, <1>3, <1>4, <1>5 DEF a

(* The properties of AuditService in these terms.                          *)
LEMMA Places ==
    /\ Queued = Elements(queue)
    /\ InWork = Held(Workers, working)
    /\ InWrite = Held(Handlers, writing)
    /\ OnePlace <=> /\ Entries = todo \cup Pending \cup Settled
                    /\ todo \cap (Pending \cup Settled) = {}
                    /\ Pending \cap Settled = {}
                    /\ Queued \cap (InWork \cup InWrite) = {}
                    /\ InWork \cap InWrite = {}
                    /\ Distinct(queue)
                    /\ Exclusive(Workers, working) /\ Exclusive(Handlers, writing)
  BY DEF Queued, InWork, InWrite, Elements, Held, OnePlace, Distinct, Exclusive

(* An insert of an unsettled entry settles it, as a row or without one.    *)
LEMMA InsertSettles ==
    ASSUME AInv, NEW e \in Entries, e \notin Settled, InsertRow(e)
    PROVE  /\ rows' \subseteq Entries /\ warned' \subseteq Entries
           /\ Settled' = Settled \cup {e}
           /\ \/ rows' = rows \cup {e} /\ warned' \ rows' = warned \ rows
              \/ rows' = rows /\ warned' \ rows' = (warned \ rows) \cup {e}
<1>1. PICK stored \in BOOLEAN, failed \in BOOLEAN :
        /\ stored \/ failed
        /\ rows' = IF stored THEN rows \cup {e} ELSE rows
        /\ warned' = IF failed THEN warned \cup {e} ELSE warned
  BY DEF InsertRow
<1>2. rows \subseteq Entries /\ warned \subseteq Entries /\ e \notin rows /\ e \notin warned
  BY DEF AInv, TypeOK, Settled
<1> QED BY <1>1, <1>2 DEF Settled

-----------------------------------------------------------------------------
(* What each step does to the places an entry can be in.                   *)

(* Record moves an entry from todo to the channel or to the handler.       *)
LEMMA RecordStep ==
    ASSUME AInv, NEW h \in Handlers, NEW e \in Entries, Record(h, e)
    PROVE  /\ AInv'
           /\ Pending' = Pending \cup {e} /\ rows' = rows /\ warned' = warned
           /\ e \notin Pending \cup Settled /\ Alive /\ Alive'
<1>1. /\ e \in todo /\ e \notin Pending \cup Settled /\ Alive /\ Alive'
      /\ todo' = todo \ {e} /\ h \in serving /\ writing[h] = NoEntry
      /\ UNCHANGED <<working, serving, rows, warned, phase>>
  BY DEF Record, Free, AInv, OnePlace, Alive
<1>2. /\ rows' = rows /\ Settled' = Settled /\ InWork' = InWork
      /\ warned' = warned
  BY <1>1 DEF Settled, InWork
<1>3. CASE Len(queue) < QueueSize
  <2>1. queue' = Append(queue, e) /\ writing' = writing
    BY <1>3 DEF Record
  <2>2. /\ queue' \in Seq(Entries) /\ Len(queue') <= QueueSize
        /\ Queued' = Queued \cup {e} /\ Distinct(queue') /\ InWrite' = InWrite
    <3>1. /\ queue \in Seq(Entries) /\ Distinct(queue) /\ e \notin Elements(queue)
          /\ Elements(queue) = Queued
      BY <1>1, Places DEF AInv, TypeOK, Pending
    <3>2. Queued' = Elements(queue')
      BY DEF Queued, Elements
    <3>3. Len(queue) \in Nat
      BY <3>1
    <3> QED BY <2>1, <3>1, <3>2, <3>3, <1>3, SendElements, QueueSizeAssumption
            DEF InWrite
  <2>3. Pending' = Pending \cup {e}
    BY <1>2, <2>2 DEF Pending
  <2>4. Exclusive(Workers, working)' /\ Exclusive(Handlers, writing)'
    BY <1>1, <2>1, Places DEF AInv, Exclusive
  <2>5. OnePlace'
    BY <1>1, <1>2, <2>2, <2>3, <2>4, Places
       DEF AInv, OnePlace, Pending, Distinct, Exclusive
  <2>6. TypeOK' /\ WritesServed'
    BY <1>1, <2>1, <2>2 DEF AInv, TypeOK, WritesServed
  <2> QED BY <1>1, <1>2, <2>3, <2>5, <2>6 DEF AInv
<1>4. CASE ~(Len(queue) < QueueSize)
  <2>1. writing' = [writing EXCEPT ![h] = e] /\ queue' = queue
    BY <1>4 DEF Record
  <2>2. /\ writing' \in [Handlers -> Entries \cup {NoEntry}]
        /\ InWrite' = InWrite \cup {e} /\ Exclusive(Handlers, writing') /\ Queued' = Queued
    <3>1. /\ writing \in [Handlers -> Entries \cup {NoEntry}]
          /\ Exclusive(Handlers, writing) /\ e \notin Held(Handlers, writing)
          /\ Held(Handlers, writing) = InWrite
      BY <1>1, Places DEF AInv, TypeOK, Pending
    <3>2. InWrite' = Held(Handlers, writing')
      BY DEF InWrite, Held
    <3>3. /\ writing' \in [Handlers -> Entries \cup {NoEntry}]
          /\ writing'[h] = e /\ \A x \in Handlers \ {h} : writing'[x] = writing[x]
      BY <2>1, <3>1
    <3>4. /\ Held(Handlers, writing') = Held(Handlers, writing) \cup {e}
          /\ Exclusive(Handlers, writing')
      BY <1>1, <3>1, <3>3, NoEntryAssumption DEF Held, Exclusive
    <3> QED BY <2>1, <3>1, <3>2, <3>3, <3>4 DEF Queued
  <2>3. Pending' = Pending \cup {e}
    BY <1>2, <2>2 DEF Pending
  <2>4. Exclusive(Workers, working)' /\ Exclusive(Handlers, writing)' /\ Distinct(queue)'
    BY <1>1, <2>1, <2>2, Places DEF AInv, Exclusive, Distinct
  <2>5. OnePlace'
    BY <1>1, <1>2, <2>2, <2>3, <2>4, Places
       DEF AInv, OnePlace, Pending, Distinct, Exclusive
  <2>6. TypeOK' /\ WritesServed'
    BY <1>1, <2>1, <2>2 DEF AInv, TypeOK, WritesServed, Alive
  <2> QED BY <1>1, <1>2, <2>3, <2>5, <2>6 DEF AInv
<1> QED BY <1>3, <1>4

(* Write and Work settle the entry a goroutine holds.                      *)
LEMMA WriteStep ==
    ASSUME AInv, NEW h \in Handlers, Write(h)
    PROVE  AInv' /\ \E e \in Entries : Trail!Settle(e)
<1> DEFINE e == writing[h]
<1>1. /\ e \in Entries /\ e \in InWrite /\ e # NoEntry /\ h \in serving /\ InsertRow(e)
      /\ writing' = [writing EXCEPT ![h] = NoEntry] /\ Alive /\ Alive'
      /\ UNCHANGED <<todo, queue, working, serving, phase>>
  BY DEF Write, AInv, TypeOK, WritesServed, InWrite, Alive
<1>2. /\ writing' \in [Handlers -> Entries \cup {NoEntry}]
      /\ InWrite' = InWrite \ {e} /\ Exclusive(Handlers, writing')
  <2>1. /\ writing \in [Handlers -> Entries \cup {NoEntry}]
        /\ Exclusive(Handlers, writing) /\ Held(Handlers, writing) = InWrite
    BY Places DEF AInv, TypeOK
  <2>2. InWrite' = Held(Handlers, writing')
    BY DEF InWrite, Held
  <2>3. /\ writing' \in [Handlers -> Entries \cup {NoEntry}]
        /\ writing'[h] = NoEntry /\ \A x \in Handlers \ {h} : writing'[x] = writing[x]
    BY <1>1, <2>1
  <2>4. /\ Held(Handlers, writing') = Held(Handlers, writing) \ {e}
        /\ Exclusive(Handlers, writing')
    BY <1>1, <2>1, <2>3 DEF Held, Exclusive
  <2> QED BY <2>1, <2>2, <2>3, <2>4
<1> HIDE DEF e
<1>3. e \in Pending /\ e \notin Settled /\ e \notin Queued /\ e \notin InWork
  BY <1>1 DEF AInv, OnePlace, Pending
<1>4. Queued' = Queued /\ InWork' = InWork
  BY <1>1 DEF Queued, InWork
<1>5. Pending' = Pending \ {e}
  BY <1>2, <1>3, <1>4 DEF Pending
<1>6. /\ rows' \subseteq Entries /\ warned' \subseteq Entries
      /\ Settled' = Settled \cup {e}
      /\ \/ rows' = rows \cup {e} /\ warned' \ rows' = warned \ rows
         \/ rows' = rows /\ warned' \ rows' = (warned \ rows) \cup {e}
  BY <1>1, <1>3, InsertSettles
<1>7. OnePlace'
  <2>1. Distinct(queue)' /\ Exclusive(Workers, working)' /\ Exclusive(Handlers, writing)'
    BY <1>1, <1>2, Places DEF AInv, Distinct, Exclusive
  <2> QED BY <1>1, <1>2, <1>3, <1>4, <1>5, <1>6, <2>1
          DEF AInv, OnePlace, Pending, Distinct, Exclusive
<1>8. TypeOK' /\ WritesServed'
  BY <1>1, <1>2, <1>6 DEF AInv, TypeOK, WritesServed
<1>9. Trail!Settle(e)
  BY <1>1, <1>3, <1>5, <1>6 DEF Trail!Settle
<1> QED BY <1>1, <1>6, <1>7, <1>8, <1>9 DEF AInv

(* The same for a worker.                                                  *)
LEMMA WorkStep ==
    ASSUME AInv, NEW w \in Workers, Work(w)
    PROVE  AInv' /\ \E e \in Entries : Trail!Settle(e)
<1> DEFINE e == working[w]
<1>1. /\ e \in Entries /\ e \in InWork /\ e # NoEntry /\ InsertRow(e)
      /\ working' = [working EXCEPT ![w] = NoEntry] /\ Alive /\ Alive'
      /\ UNCHANGED <<todo, queue, serving, writing, phase>>
  BY DEF Work, AInv, TypeOK, InWork, Alive
<1>2. /\ working' \in [Workers -> Entries \cup {NoEntry}]
      /\ InWork' = InWork \ {e} /\ Exclusive(Workers, working')
  <2>1. /\ working \in [Workers -> Entries \cup {NoEntry}]
        /\ Exclusive(Workers, working) /\ Held(Workers, working) = InWork
    BY Places DEF AInv, TypeOK
  <2>2. InWork' = Held(Workers, working')
    BY DEF InWork, Held
  <2>3. /\ working' \in [Workers -> Entries \cup {NoEntry}]
        /\ working'[w] = NoEntry /\ \A x \in Workers \ {w} : working'[x] = working[x]
    BY <1>1, <2>1
  <2>4. /\ Held(Workers, working') = Held(Workers, working) \ {e}
        /\ Exclusive(Workers, working')
    BY <1>1, <2>1, <2>3 DEF Held, Exclusive
  <2> QED BY <2>1, <2>2, <2>3, <2>4
<1> HIDE DEF e
<1>3. e \in Pending /\ e \notin Settled /\ e \notin Queued /\ e \notin InWrite
  BY <1>1 DEF AInv, OnePlace, Pending
<1>4. Queued' = Queued /\ InWrite' = InWrite
  BY <1>1 DEF Queued, InWrite
<1>5. Pending' = Pending \ {e}
  BY <1>2, <1>3, <1>4 DEF Pending
<1>6. /\ rows' \subseteq Entries /\ warned' \subseteq Entries
      /\ Settled' = Settled \cup {e}
      /\ \/ rows' = rows \cup {e} /\ warned' \ rows' = warned \ rows
         \/ rows' = rows /\ warned' \ rows' = (warned \ rows) \cup {e}
  BY <1>1, <1>3, InsertSettles
<1>7. OnePlace'
  <2>1. Distinct(queue)' /\ Exclusive(Workers, working)' /\ Exclusive(Handlers, writing)'
    BY <1>1, <1>2, Places DEF AInv, Distinct, Exclusive
  <2> QED BY <1>1, <1>2, <1>3, <1>4, <1>5, <1>6, <2>1
          DEF AInv, OnePlace, Pending, Distinct, Exclusive
<1>8. TypeOK' /\ WritesServed'
  BY <1>1, <1>2, <1>6 DEF AInv, TypeOK, WritesServed
<1>9. Trail!Settle(e)
  BY <1>1, <1>3, <1>5, <1>6 DEF Trail!Settle
<1> QED BY <1>1, <1>6, <1>7, <1>8, <1>9 DEF AInv

(* Take moves the head of the channel to a worker: the trail does not move. *)
LEMMA TakeStep ==
    ASSUME AInv, NEW w \in Workers, Take(w)
    PROVE  AInv' /\ UNCHANGED Trail!trailVars
<1> DEFINE e == Head(queue)
<1>1. /\ queue \in Seq(Entries) /\ queue # <<>> /\ working[w] = NoEntry
      /\ working' = [working EXCEPT ![w] = e] /\ queue' = Tail(queue)
      /\ UNCHANGED <<todo, serving, writing, rows, warned, phase>>
  BY DEF Take, AInv, TypeOK
<1>2. /\ e \in Queued /\ e \in Entries /\ queue' \in Seq(Entries)
      /\ Len(queue') <= QueueSize /\ Queued' = Queued \ {e} /\ Distinct(queue')
  <2>1. Distinct(queue) /\ Elements(queue) = Queued
    BY Places DEF AInv
  <2>2. Queued' = Elements(queue')
    BY DEF Queued, Elements
  <2>3. Len(queue) \in Nat /\ Len(queue) <= QueueSize
    BY <1>1 DEF AInv, TypeOK
  <2>4. /\ e \in Elements(queue) /\ e \in Entries /\ Tail(queue) \in Seq(Entries)
        /\ Len(Tail(queue)) = Len(queue) - 1
        /\ Elements(Tail(queue)) = Elements(queue) \ {e} /\ Distinct(Tail(queue))
    BY <1>1, <2>1, ReceiveElements
  <2> HIDE DEF e
  <2> QED BY <1>1, <2>1, <2>2, <2>3, <2>4, QueueSizeAssumption
<1> HIDE DEF e
<1>3. e \notin InWork /\ e \notin InWrite
  BY <1>2 DEF AInv, OnePlace
<1>4. /\ working' \in [Workers -> Entries \cup {NoEntry}]
      /\ InWork' = InWork \cup {e} /\ Exclusive(Workers, working')
  <2>1. /\ working \in [Workers -> Entries \cup {NoEntry}]
        /\ Exclusive(Workers, working) /\ e \notin Held(Workers, working)
        /\ Held(Workers, working) = InWork
    BY <1>3, Places DEF AInv, TypeOK
  <2>2. InWork' = Held(Workers, working')
    BY DEF InWork, Held
  <2>3. /\ working' \in [Workers -> Entries \cup {NoEntry}]
        /\ working'[w] = e /\ \A x \in Workers \ {w} : working'[x] = working[x]
    BY <1>1, <1>2, <2>1
  <2>4. /\ Held(Workers, working') = Held(Workers, working) \cup {e}
        /\ Exclusive(Workers, working')
    BY <1>1, <1>2, <2>1, <2>3, NoEntryAssumption DEF Held, Exclusive
  <2> QED BY <2>1, <2>2, <2>3, <2>4
<1>5. InWrite' = InWrite /\ rows' = rows /\ Settled' = Settled
  BY <1>1 DEF InWrite, Settled
<1>6. Pending' = Pending
  BY <1>2, <1>4, <1>5 DEF Pending
<1>7. OnePlace'
  <2>1. Exclusive(Handlers, writing)'
    BY <1>1, Places DEF AInv, Exclusive
  <2> QED BY <1>1, <1>2, <1>3, <1>4, <1>5, <1>6, <2>1
          DEF AInv, OnePlace, Distinct, Exclusive
<1>8. TypeOK' /\ WritesServed'
  BY <1>1, <1>2, <1>4 DEF AInv, TypeOK, WritesServed
<1> QED BY <1>1, <1>5, <1>6, <1>7, <1>8 DEF AInv, Trail!trailVars, Alive

(* The other steps move no entry; Stop and Kill end the trail.             *)
LEMMA QuietStep ==
    ASSUME AInv, UNCHANGED <<todo, queue, working, writing, rows, warned>>
    PROVE  /\ OnePlace'
           /\ Pending' = Pending /\ rows' = rows
<1>1. /\ Queued' = Queued /\ InWork' = InWork /\ InWrite' = InWrite
      /\ rows' = rows /\ Settled' = Settled
  BY DEF Queued, InWork, InWrite, Settled
<1>2. Pending' = Pending
  BY <1>1 DEF Pending
<1>3. OnePlace'
  BY <1>1, <1>2 DEF AInv, OnePlace
<1> QED BY <1>1, <1>2, <1>3

(* A request that begins or ends leaves the trail alone.                   *)
LEMMA HandlerStep ==
    ASSUME AInv, NEW h \in Handlers, Begin(h) \/ Respond(h)
    PROVE  AInv' /\ UNCHANGED Trail!trailVars
<1>1. UNCHANGED <<todo, queue, working, writing, rows, warned, phase>>
  BY DEF Begin, Respond
<1>2. OnePlace' /\ Pending' = Pending /\ rows' = rows
  BY <1>1, QuietStep
<1>3. TypeOK' /\ WritesServed'
  BY <1>1 DEF AInv, TypeOK, WritesServed, Begin, Respond, Free
<1> QED BY <1>1, <1>2, <1>3 DEF AInv, Trail!trailVars, Alive

(* Signal leaves the trail alone, Stop and Kill end it.                    *)
LEMMA PhaseStep ==
    ASSUME AInv, Signal \/ Stop \/ Kill
    PROVE  AInv' /\ (UNCHANGED Trail!trailVars \/ Trail!End)
<1>1. UNCHANGED <<todo, queue, working, serving, writing, rows, warned>>
  BY DEF Signal, Stop, Kill
<1>2. OnePlace' /\ Pending' = Pending /\ rows' = rows
  BY <1>1, QuietStep
<1>3. TypeOK' /\ WritesServed'
  BY <1>1 DEF AInv, TypeOK, WritesServed, Signal, Stop, Kill, Phases
<1>4. UNCHANGED Trail!trailVars \/ Trail!End
  BY <1>1, <1>2 DEF Trail!trailVars, Trail!End, Alive, Signal, Stop, Kill
<1> QED BY <1>2, <1>3, <1>4 DEF AInv

-----------------------------------------------------------------------------
(* The invariant and the refinement.                                       *)

(* The service starts with an empty trail.                                 *)
LEMMA InitTrail == Init => AInv /\ Trail!TrailInit
<1> SUFFICES ASSUME Init PROVE AInv /\ Trail!TrailInit
  OBVIOUS
<1>1. Queued = {} /\ InWork = {} /\ InWrite = {} /\ rows = {} /\ Settled = {}
  BY DEF Init, Queued, InWork, InWrite, Settled
<1>2. TypeOK
  BY QueueSizeAssumption DEF Init, TypeOK, Phases
<1>3. OnePlace /\ WritesServed
  BY <1>1, NoEntryAssumption
     DEF Init, OnePlace, WritesServed, Pending
<1> QED BY <1>1, <1>2, <1>3 DEF AInv, Trail!TrailInit, Init, Pending, Alive

(* Every step keeps the invariant and is a step of the trail or a stutter. *)
LEMMA NextTrail ==
    AInv /\ [Next]_vars => AInv' /\ [Trail!TrailNext]_(Trail!trailVars)
<1> SUFFICES ASSUME AInv, [Next]_vars
             PROVE  AInv' /\ [Trail!TrailNext]_(Trail!trailVars)
  OBVIOUS
<1>1. ASSUME NEW h \in Handlers, Begin(h) \/ Respond(h)
      PROVE  AInv' /\ [Trail!TrailNext]_(Trail!trailVars)
  BY <1>1, HandlerStep
<1>2. ASSUME NEW h \in Handlers, Write(h)
      PROVE  AInv' /\ [Trail!TrailNext]_(Trail!trailVars)
  BY <1>2, WriteStep DEF Trail!TrailNext
<1>3. ASSUME NEW h \in Handlers, NEW e \in Entries, Record(h, e)
      PROVE  AInv' /\ [Trail!TrailNext]_(Trail!trailVars)
  <2>1. Trail!Submit(e)
    <3>1. /\ Pending' = Pending \cup {e} /\ rows' = rows /\ warned' = warned
          /\ e \notin Pending \cup Settled /\ Alive /\ Alive'
      BY <1>3, RecordStep
    <3> QED BY <3>1 DEF Trail!Submit, Settled, Alive
  <2> QED BY <1>3, <2>1, RecordStep DEF Trail!TrailNext
<1>4. ASSUME NEW w \in Workers, Take(w)
      PROVE  AInv' /\ [Trail!TrailNext]_(Trail!trailVars)
  BY <1>4, TakeStep
<1>5. ASSUME NEW w \in Workers, Work(w)
      PROVE  AInv' /\ [Trail!TrailNext]_(Trail!trailVars)
  BY <1>5, WorkStep DEF Trail!TrailNext
<1>6. ASSUME Signal \/ Stop \/ Kill
      PROVE  AInv' /\ [Trail!TrailNext]_(Trail!trailVars)
  BY <1>6, PhaseStep DEF Trail!TrailNext
<1>7. ASSUME UNCHANGED vars
      PROVE  AInv' /\ [Trail!TrailNext]_(Trail!trailVars)
  <2>1. TypeOK' /\ WritesServed' /\ Alive' = Alive
    BY <1>7 DEF vars, AInv, TypeOK, WritesServed, Alive
  <2>2. OnePlace' /\ Pending' = Pending /\ rows' = rows
    BY <1>7, QuietStep DEF vars
  <2> QED BY <1>7, <2>1, <2>2 DEF AInv, Trail!trailVars, vars
<1> QED BY <1>1, <1>2, <1>3, <1>4, <1>5, <1>6, <1>7 DEF Next

(* The invariant holds in every behaviour.                                 *)
THEOREM AuditInvariance == Spec => []AInv
  BY InitTrail, NextTrail, PTL DEF Spec

(* The channel never exceeds its capacity, and every variable keeps its    *)
(* shape.                                                                  *)
THEOREM AuditTypeCorrect == Spec => []TypeOK
<1>1. AInv => TypeOK
  BY DEF AInv
<1> QED BY <1>1, AuditInvariance, PTL

(* Between the channel, the pool, the overflow writes and the table no     *)
(* entry is lost, and none is in two hands (audit/service.go:84-116).      *)
THEOREM EntriesInOnePlace == Spec => []OnePlace
<1>1. AInv => OnePlace
  BY DEF AInv
<1> QED BY <1>1, AuditInvariance, PTL

(* A set that a function of a finite set covers is no larger than it.      *)
LEMMA Covered ==
    ASSUME NEW D, IsFiniteSet(D), NEW f, NEW S, S \subseteq {f[x] : x \in D}
    PROVE  IsFiniteSet(S) /\ Cardinality(S) <= Cardinality(D)
           /\ Cardinality(S) \in Nat /\ Cardinality(D) \in Nat
<1> DEFINE g == [x \in D |-> f[x]]
           T == {f[x] : x \in D}
<1>1. g \in Surjection(D, T)
  BY DEF Surjection
<1>2. IsFiniteSet(T) /\ Cardinality(T) <= Cardinality(D)
  BY <1>1, FS_Surjection
<1>3. IsFiniteSet(S) /\ Cardinality(S) <= Cardinality(T)
  BY <1>2, FS_Subset
<1>4. Cardinality(S) \in Nat /\ Cardinality(T) \in Nat /\ Cardinality(D) \in Nat
  BY <1>2, <1>3, FS_CardinalityType
<1> HIDE DEF T
<1> QED BY <1>2, <1>3, <1>4

(* What the end of the process can lose is bounded by the channel, the     *)
(* pool and the handlers still serving: none of them at a graceful stop    *)
(* (service.go:118-125, server.go:34-41).                                  *)
THEOREM StopLossBounded == Spec => []LossBounded
<1>1. AInv => LossBounded
  <2> SUFFICES ASSUME AInv PROVE LossBounded
    OBVIOUS
  <2>1. phase = "stopped" => Pending = Queued \cup InWork
    BY DEF AInv, WritesServed, InWrite, Pending
  <2>2. Len(queue) \in Nat /\ Len(queue) <= QueueSize /\ serving \subseteq Handlers
    BY DEF AInv, TypeOK
  <2>3. /\ IsFiniteSet(InWork) /\ Cardinality(InWork) <= Cardinality(Workers)
        /\ Cardinality(InWork) \in Nat /\ Cardinality(Workers) \in Nat
    <3>1. InWork \subseteq {working[w] : w \in Workers} /\ IsFiniteSet(Workers)
      BY FiniteAssumption DEF InWork
    <3> QED BY <3>1, Covered
  <2>4. /\ IsFiniteSet(InWrite) /\ Cardinality(InWrite) <= Cardinality(serving)
        /\ Cardinality(InWrite) \in Nat /\ Cardinality(serving) \in Nat
    <3>1. InWrite \subseteq {writing[h] : h \in serving}
      BY DEF InWrite, AInv, WritesServed
    <3>2. IsFiniteSet(serving)
      BY <2>2, FiniteAssumption, FS_Subset
    <3> QED BY <3>1, <3>2, Covered
  <2>5. IsFiniteSet(Queued) /\ Cardinality(Queued) <= QueueSize /\ Cardinality(Queued) \in Nat
    <3>1. IsFiniteSet(1 .. Len(queue)) /\ Cardinality(1 .. Len(queue)) = Len(queue)
      <4>1. /\ IsFiniteSet(1 .. Len(queue))
            /\ Cardinality(1 .. Len(queue)) =
                 IF 1 > Len(queue) THEN 0 ELSE Len(queue) - 1 + 1
        BY <2>2, FS_Interval
      <4> QED BY <2>2, <4>1
    <3>2. /\ IsFiniteSet(Queued) /\ Cardinality(Queued) \in Nat
          /\ Cardinality(Queued) <= Cardinality(1 .. Len(queue))
      BY <3>1, Covered DEF Queued
    <3> QED BY <2>2, <3>1, <3>2, QueueSizeAssumption
  <2>6. /\ IsFiniteSet(Queued \cup InWork)
        /\ Cardinality(Queued \cup InWork) <= Cardinality(Queued) + Cardinality(InWork)
        /\ Cardinality(Queued \cup InWork) \in Nat
    <3>1. /\ Cardinality(Queued \cup InWork) =
                Cardinality(Queued) + Cardinality(InWork) - Cardinality(Queued \cap InWork)
          /\ IsFiniteSet(Queued \cup InWork) /\ IsFiniteSet(Queued \cap InWork)
      BY <2>3, <2>5, FS_Union, FS_Intersection
    <3>2. Cardinality(Queued \cap InWork) \in Nat /\ Cardinality(Queued \cup InWork) \in Nat
      BY <3>1, FS_CardinalityType
    <3> QED BY <2>3, <2>5, <3>1, <3>2
  <2>7. Cardinality(Pending) <= Cardinality(Queued \cup InWork) + Cardinality(InWrite)
        /\ Cardinality(Pending) \in Nat
    <3> DEFINE Q == Queued \cup InWork
    <3>1. /\ Cardinality(Q \cup InWrite) =
                Cardinality(Q) + Cardinality(InWrite) - Cardinality(Q \cap InWrite)
          /\ IsFiniteSet(Q \cup InWrite) /\ IsFiniteSet(Q \cap InWrite)
      BY <2>4, <2>6, FS_Union, FS_Intersection
    <3>2. Cardinality(Q \cap InWrite) \in Nat /\ Cardinality(Q \cup InWrite) \in Nat
      BY <3>1, FS_CardinalityType
    <3>3. Pending = Q \cup InWrite
      BY DEF Pending
    <3> HIDE DEF Q
    <3>4. Cardinality(Q \cup InWrite) <= Cardinality(Q) + Cardinality(InWrite)
      BY <2>4, <2>6, <3>1, <3>2 DEF Q
    <3> QED BY <3>2, <3>3, <3>4 DEF Q
  <2>8. Cardinality(Pending) <= QueueSize + Cardinality(Workers) + Cardinality(serving)
    BY <2>3, <2>4, <2>5, <2>6, <2>7, QueueSizeAssumption
  <2> QED BY <2>1, <2>8 DEF LossBounded, AInv, WritesServed
<1> QED BY <1>1, AuditInvariance, PTL

(* The queue, the pool and the overflow writes together implement the      *)
(* trail: every step of the service submits an entry, settles one that was *)
(* submitted and not settled, ends the trail, or leaves it alone.          *)
THEOREM TrailImplemented == Spec => ImplementsTrail
<1>1. Spec => Trail!TrailSpec
  BY InitTrail, NextTrail, AuditInvariance, PTL DEF Spec, Trail!TrailSpec
<1> QED BY <1>1 DEF ImplementsTrail
=============================================================================
