---------------------------- MODULE AuditService ----------------------------
(***************************************************************************)
(* The audit queue of internal/domain/audit/service.go: handlers submit    *)
(* entries to a bounded channel, a fixed pool of workers inserts them, and *)
(* a handler that finds the channel full inserts its entry itself.  The    *)
(* server's shutdown (pkg/server/server.go, cmd/server/main.go) waits for  *)
(* the handlers, never for the queue.                                      *)
(***************************************************************************)
EXTENDS Naturals, Sequences, FiniteSets

CONSTANTS
    Entries,        \* audit entries; each is submitted at most once
    NoEntry,        \* a worker or handler with nothing to insert
    Workers,        \* defaultWorkerCount goroutines
    Handlers,       \* requests served at a time
    QueueSize       \* defaultQueueSize, the channel's capacity

ASSUME NoEntryAssumption   == NoEntry \notin Entries
ASSUME QueueSizeAssumption == QueueSize \in Nat
ASSUME FiniteAssumption    == IsFiniteSet(Workers) /\ IsFiniteSet(Handlers)

VARIABLES
    todo,           \* entries no handler has submitted yet
    queue,          \* s.queue
    working,        \* [Workers -> Entries or NoEntry], inside insert
    serving,        \* handlers inside a request
    writing,        \* [Handlers -> Entries or NoEntry], inside insert
    rows,           \* entries with a row of audit_logs
    warned,         \* entries whose Insert returned an error
    phase           \* of the process

vars == <<todo, queue, working, serving, writing, rows, warned, phase>>

Phases == {"running", "draining", "stopped", "killed"}
Alive  == phase \in {"running", "draining"}

-----------------------------------------------------------------------------
Init ==
    /\ todo    = Entries
    /\ queue   = <<>>
    /\ working = [w \in Workers |-> NoEntry]
    /\ serving = {}
    /\ writing = [h \in Handlers |-> NoEntry]
    /\ rows    = {}
    /\ warned  = {}
    /\ phase   = "running"

(* repo.Insert: the row may be stored although the call reports an error.  *)
(* The first Insert of an entry fixes its id, the primary key, so another  *)
(* one of the same entry stores nothing.  insert logs the error and        *)
(* forgets the entry.                                                      *)
InsertRow(e) ==
    \E stored, failed \in BOOLEAN :
       /\ stored \/ failed
       /\ stored => e \notin rows
       /\ rows' = IF stored THEN rows \cup {e} ELSE rows
       /\ warned' = IF failed THEN warned \cup {e} ELSE warned

-----------------------------------------------------------------------------
(* Mutant: the listener stays open while the handlers are waited for.      *)
BeginWhileDraining(h) ==
    /\ Alive /\ h \notin serving
    /\ serving' = serving \cup {h}
    /\ UNCHANGED <<todo, queue, working, writing, rows, warned, phase>>

(* Handlers.  A request starts while the server listens.                   *)
Begin(h) == /\ phase = "running" /\ h \notin serving
            /\ serving' = serving \cup {h}
            /\ UNCHANGED <<todo, queue, working, writing, rows, warned, phase>>

Free(h) == h \in serving /\ writing[h] = NoEntry

(* Mutant: the channel is taken for one of twice its size.                 *)
RecordPastCapacity(h, e) ==
    /\ Alive /\ Free(h) /\ e \in todo
    /\ todo' = todo \ {e}
    /\ queue' = Append(queue, e)
    /\ UNCHANGED <<working, serving, writing, rows, warned, phase>>

(* Mutant: the select falls through, the entry is queued and also written. *)
RecordTwice(h, e) ==
    /\ Alive /\ Free(h) /\ e \in todo
    /\ todo' = todo \ {e}
    /\ queue' = IF Len(queue) < QueueSize THEN Append(queue, e) ELSE queue
    /\ writing' = [writing EXCEPT ![h] = e]
    /\ UNCHANGED <<working, serving, rows, warned, phase>>

(* Mutant: the default branch only logs.                                   *)
RecordOrDrop(h, e) ==
    /\ Alive /\ Free(h) /\ e \in todo
    /\ todo' = todo \ {e}
    /\ queue' = IF Len(queue) < QueueSize THEN Append(queue, e) ELSE queue
    /\ UNCHANGED <<working, serving, writing, rows, warned, phase>>

(* Record: the select of enqueue never waits; a full channel makes the     *)
(* handler write the row itself, ahead of everything queued.               *)
Record(h, e) ==
    /\ Alive /\ Free(h) /\ e \in todo
    /\ todo' = todo \ {e}
    /\ IF Len(queue) < QueueSize
       THEN queue' = Append(queue, e) /\ UNCHANGED writing
       ELSE writing' = [writing EXCEPT ![h] = e] /\ UNCHANGED queue
    /\ UNCHANGED <<working, serving, rows, warned, phase>>

Write(h) == /\ Alive /\ writing[h] # NoEntry
            /\ InsertRow(writing[h])
            /\ writing' = [writing EXCEPT ![h] = NoEntry]
            /\ UNCHANGED <<todo, queue, working, serving, phase>>

(* Mutant: the overflow write runs in a goroutine of its own.              *)
RespondEarly(h) == /\ Alive /\ h \in serving
                   /\ serving' = serving \ {h}
                   /\ UNCHANGED <<todo, queue, working, writing, rows, warned, phase>>

Respond(h) == /\ Alive /\ Free(h)
              /\ serving' = serving \ {h}
              /\ UNCHANGED <<todo, queue, working, writing, rows, warned, phase>>

-----------------------------------------------------------------------------
(* Workers.                                                                *)

(* Mutant: workers wait for a full batch.                                  *)
TakeWhenFull(w) ==
    /\ Alive /\ working[w] = NoEntry /\ Len(queue) = QueueSize
    /\ working' = [working EXCEPT ![w] = Head(queue)]
    /\ queue' = Tail(queue)
    /\ UNCHANGED <<todo, serving, writing, rows, warned, phase>>

Take(w) == /\ Alive /\ working[w] = NoEntry /\ queue # <<>>
           /\ working' = [working EXCEPT ![w] = Head(queue)]
           /\ queue' = Tail(queue)
           /\ UNCHANGED <<todo, serving, writing, rows, warned, phase>>

Work(w) == /\ Alive /\ working[w] # NoEntry
           /\ InsertRow(working[w])
           /\ working' = [working EXCEPT ![w] = NoEntry]
           /\ UNCHANGED <<todo, queue, serving, writing, phase>>

-----------------------------------------------------------------------------
(* SIGTERM: Shutdown closes the listeners and waits for the handlers.      *)
Signal == /\ phase = "running"
          /\ phase' = "draining"
          /\ UNCHANGED <<todo, queue, working, serving, writing, rows, warned>>

(* Every handler has returned: StartHTTPServer and main return, and the    *)
(* workers end with the process.                                           *)
Stop == /\ phase = "draining" /\ serving = {}
        /\ phase' = "stopped"
        /\ UNCHANGED <<todo, queue, working, serving, writing, rows, warned>>

(* The shutdown timeout runs out (log.Fatal), or the process is killed.    *)
Kill == /\ Alive
        /\ phase' = "killed"
        /\ UNCHANGED <<todo, queue, working, serving, writing, rows, warned>>

-----------------------------------------------------------------------------
Next == \/ \E h \in Handlers : \/ Begin(h) \/ Write(h) \/ Respond(h)
                               \/ \E e \in Entries : Record(h, e)
        \/ \E w \in Workers : Take(w) \/ Work(w)
        \/ Signal \/ Stop \/ Kill

Spec == Init /\ [][Next]_vars

(* Every goroutine is scheduled and repo.Insert returns.                   *)
FairSpec == Spec /\ \A h \in Handlers : WF_vars(Write(h))
                 /\ \A w \in Workers : WF_vars(Take(w)) /\ WF_vars(Work(w))

-----------------------------------------------------------------------------
(* Properties.                                                             *)

Queued  == {queue[i] : i \in 1 .. Len(queue)}
InWork  == {working[w] : w \in Workers} \ {NoEntry}
InWrite == {writing[h] : h \in Handlers} \ {NoEntry}
Settled == rows \cup warned
Pending == Queued \cup InWork \cup InWrite

(* The type invariant, with the channel never over its capacity.           *)
TypeOK ==
    /\ todo \subseteq Entries
    /\ queue \in Seq(Entries) /\ Len(queue) <= QueueSize
    /\ working \in [Workers -> Entries \cup {NoEntry}]
    /\ serving \subseteq Handlers
    /\ writing \in [Handlers -> Entries \cup {NoEntry}]
    /\ rows \subseteq Entries
    /\ warned \subseteq Entries
    /\ phase \in Phases

(* Every entry is in one place: not yet submitted, in the channel, with    *)
(* one worker, with one handler, or settled.  Nothing is lost between the  *)
(* channel and the pool while the process lives, nothing is handed to two  *)
(* goroutines.                                                             *)
OnePlace ==
    /\ Entries = todo \cup Pending \cup Settled
    /\ todo \cap (Pending \cup Settled) = {}
    /\ Pending \cap Settled = {}
    /\ Queued \cap (InWork \cup InWrite) = {} /\ InWork \cap InWrite = {}
    /\ \A i, j \in 1 .. Len(queue) : queue[i] = queue[j] => i = j
    /\ \A v, w \in Workers : working[v] = working[w] /\ working[v] # NoEntry => v = w
    /\ \A g, h \in Handlers : writing[g] = writing[h] /\ writing[g] # NoEntry => g = h

(* A handler that wrote its entry itself has finished doing so when it     *)
(* responds, so the end of the process, which loses what is pending, never *)
(* loses more than the channel, the pool and the handlers that are still   *)
(* serving hold: none of those at a graceful stop, some after a shutdown   *)
(* timeout (service.go:118-125, server.go:34-41).                          *)
LossBounded ==
    /\ \A h \in Handlers : writing[h] # NoEntry => h \in serving
    /\ phase = "stopped" => Pending = Queued \cup InWork
    /\ Cardinality(Pending) <=
          QueueSize + Cardinality(Workers) + Cardinality(serving)

(* The service implements what AuditTrail promises: every submitted entry  *)
(* is settled once and, while the process lives, in the end.               *)
Trail == INSTANCE AuditTrail WITH pending <- Pending, kept <- rows,
                                  dropped <- warned \ rows, alive <- Alive

ImplementsTrail     == Trail!TrailSpec
ImplementsFairTrail == Trail!FairTrailSpec

(* model/audit_log.go:9 says the audit log keeps a record of user          *)
(* activity: after a graceful stop every entry a handler submitted has a   *)
(* row or a warning.                                                       *)
StopKeepsEntries == phase = "stopped" => Pending = {}
=============================================================================
