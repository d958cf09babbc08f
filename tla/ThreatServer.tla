---------------------------- MODULE ThreatServer ----------------------------
(***************************************************************************)
(* The threats handlers in the server that runs them: a request is served  *)
(* while the process lives, a successful handler submits one entry to the  *)
(* audit queue before it answers, workers store the entries behind its     *)
(* back, and a shutdown waits for the handlers.  The queue, the pool and   *)
(* the process are AuditService's, with the goroutines of Threats as its   *)
(* handlers.                                                               *)
(***************************************************************************)
EXTENDS Threats, Naturals, Sequences, FiniteSets

CONSTANTS
    Entries,            \* audit entries, a bound on the requests of a run
    NoEntry,
    Workers,
    QueueSize,
    Nothing             \* what an entry not yet submitted is about

(* The action and resource_id of an entry, and whether the statement of the *)
(* request that submits it changed the row.                                *)
Subjects == [op : {"create", "update", "delete"}, id : ThreatIds, took : BOOLEAN]

ASSUME ServerAssumptions ==
    /\ NoEntry \notin Entries /\ Nothing \notin Subjects
    /\ QueueSize \in Nat
    /\ IsFiniteSet(Workers) /\ IsFiniteSet(Procs)

VARIABLES todo, queue, working, serving, writing, rows, warned, phase,
          about         \* [Entries -> Subjects or Nothing]

auditVars  == <<todo, queue, working, serving, writing, rows, warned, phase>>
serverVars == <<threatVars, auditVars, about>>

Audit == INSTANCE AuditService WITH Handlers <- Procs

-----------------------------------------------------------------------------
ServerInit == /\ ThreatsInit
              /\ Audit!Init
              /\ about = [e \in Entries |-> Nothing]

(* The bound: a request is let in while there is an entry for it.          *)
EntryLeft == Cardinality(serving) < Cardinality(todo)

Arrive(p) == /\ EntryLeft
             /\ Audit!Begin(p)
             /\ UNCHANGED <<threatVars, about>>

(* Handlers run to their end while the process lives, also while draining. *)
Serve(p) == /\ Audit!Alive /\ p \in serving
            /\ Start(p) \/ WriteThreat(p)
            /\ UNCHANGED <<auditVars, about>>

(* recordThreatAction: the entry names the action and the threat.          *)
Submit(p) == \E e \in Entries :
    /\ thr[p].pc = "record"
    /\ Audit!Record(p, e)
    /\ about' = [about EXCEPT ![e] = [op   |-> thr[p].op, id |-> thr[p].id,
                                      took |-> thr[p].took]]
    /\ thr' = [thr EXCEPT ![p].pc = "done"]
    /\ UNCHANGED <<threats, unheard>>

WriteEntry(p) == Audit!Write(p) /\ UNCHANGED <<threatVars, about>>

(* The answer leaves after Record has returned.                            *)
Reply(p) == /\ thr[p].pc = "done"
            /\ Audit!Respond(p)
            /\ thr' = [thr EXCEPT ![p] = NoHandler]
            /\ UNCHANGED <<threats, unheard, about>>

Progress(p) == Serve(p) \/ Submit(p) \/ WriteEntry(p) \/ Reply(p)

Background == /\ \/ \E w \in Workers : Audit!Take(w) \/ Audit!Work(w)
                 \/ Audit!Signal \/ Audit!Stop \/ Audit!Kill
              /\ UNCHANGED <<threatVars, about>>

ServerNext == (\E p \in Procs : Arrive(p) \/ Progress(p)) \/ Background

ServerSpec == ServerInit /\ [][ServerNext]_serverVars

(* Handlers are scheduled and their statements return; Shutdown notices    *)
(* that no handler is left.                                                *)
ServerFairSpec ==
    /\ ServerSpec
    /\ \A p \in Procs : WF_serverVars(Progress(p))
    /\ WF_serverVars(Audit!Stop /\ UNCHANGED <<threatVars, about>>)

-----------------------------------------------------------------------------
(* Properties.                                                             *)

ServerTypeOK ==
    /\ ThreatsTypeOK
    /\ Audit!TypeOK
    /\ about \in [Entries -> {Nothing} \cup Subjects]

About(op, i) == {e \in Entries : /\ about[e] # Nothing
                                 /\ about[e].op = op /\ about[e].id = i}
Recording(op, i) == {p \in Procs : /\ thr[p].pc = "record"
                                   /\ thr[p].op = op /\ thr[p].id = i}

(* However many requests delete the same threat at once, one of them       *)
(* succeeds and the trail says so once; likewise for its creation          *)
(* (threats/service.go:217-225, postgres.go:87-96).                        *)
RecordedOnce ==
    \A i \in ThreatIds, op \in {"create", "delete"} :
        Cardinality(About(op, i)) + Cardinality(Recording(op, i)) <= 1

(* What an entry says happened: the statement of its own request created,  *)
(* updated or deleted the threat, which is there, or gone, accordingly.    *)
(* The code allows one exception, because Update discards the row count of *)
(* its UPDATE (service.go:205): an update is also recorded when the threat *)
(* was deleted before it.                                                  *)
Accurate(a) ==
    LET st == threats[a.id].st
    IN /\ st # "absent"
       /\ a.op = "delete" => st = "gone"
       /\ a.took \/ (a.op = "update" /\ st = "gone")

(* An entry in the trail is true: no request whose statement failed, or    *)
(* changed nothing, is recorded as a success, but for an update behind a   *)
(* deletion (threats/service.go:136-147, 205-211, 217-225).                *)
TrailMatchesTable == \A e \in Entries : about[e] # Nothing => Accurate(about[e])

(* It says no less either: the entry about every creation or deletion is   *)
(* submitted before the request is answered and before a graceful stop,    *)
(* unless the statement that made it was itself answered with an error.    *)
Happened(op, i) == IF op = "delete" THEN threats[i].st = "gone"
                   ELSE threats[i].st # "absent"

NothingUnrecorded ==
    \A i \in ThreatIds, op \in {"create", "delete"} :
        /\ Happened(op, i) /\ <<op, i>> \notin unheard =>
              About(op, i) # {} \/ Recording(op, i) # {}
        /\ phase = "stopped" => Recording(op, i) = {}

(* What audit_logs itself says of threats, behind the queue, the pool and  *)
(* the overflow write: every row is accurate, and every creation and       *)
(* deletion has its row as soon as its handler is past Record, but for the *)
(* entries still in the process and those whose insert was logged as       *)
(* failed (threats/service.go:229-241, audit/service.go:106-125).          *)
StoredTrail ==
    /\ \A e \in rows : about[e] # Nothing /\ Accurate(about[e])
    /\ \A i \in ThreatIds, op \in {"create", "delete"} :
           Happened(op, i) /\ <<op, i>> \notin unheard /\ Recording(op, i) = {} =>
               About(op, i) \cap (rows \cup warned \cup Audit!Pending) # {}

(* A deleted threat stays deleted, whatever updates loaded it before: the  *)
(* UPDATE finds no row (postgres.go:71-80).                                *)
DeletedForGood ==
    [][\A i \in ThreatIds : threats[i].st = "gone" => threats'[i] = threats[i]]_serverVars

(* A shutdown comes to its end although handlers are in the middle of      *)
(* their statements, unless it is killed: no request is let in behind it   *)
(* (server.go:34-41).                                                      *)
DrainEnds == phase = "draining" ~> phase \in {"stopped", "killed"}
=============================================================================
