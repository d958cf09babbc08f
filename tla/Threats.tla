------------------------------ MODULE Threats ------------------------------
(***************************************************************************)
(* The threats table and the handlers of                                   *)
(* internal/domain/threats/service.go that write it, one action per SQL    *)
(* statement; no transaction spans two of them.  A successful handler ends *)
(* by submitting an audit entry (recordThreatAction): it stops at pc       *)
(* "record", and ThreatServer takes it from there.                         *)
(***************************************************************************)
EXTENDS StoreCalls

CONSTANTS
    Procs,              \* goroutines serving a request
    ThreatIds,          \* primary keys of the threats table, never reused
    Titles,             \* required texts a request may carry, trimmed
    Blank,              \* the text that trims to ""
    Spellings,          \* severities a request may carry
    Severities,         \* the same in lower case and trimmed
    Lowered,            \* [Spellings -> Severities]
    allowedSeverities,
    Keep,               \* a nil field of UpdateThreatInput
    NoThreat            \* no row chosen

ASSUME ThreatAssumptions ==
    /\ Titles # {} /\ Blank \notin Titles
    /\ Lowered \in [Spellings -> Severities]
    /\ allowedSeverities \subseteq Severities /\ allowedSeverities # {}
    /\ Keep \notin Titles \cup {Blank} \cup Spellings
    /\ NoThreat \notin ThreatIds

VARIABLES
    threats,            \* [ThreatIds -> Row], the threats table
    thr,                \* [Procs -> Handler]
    unheard             \* <<op, id>> of the creations and deletions that were
                        \* applied but answered with an error: history, no
                        \* counterpart in the code

threatVars == <<threats, thr, unheard>>

-----------------------------------------------------------------------------
(* title stands for the three required texts and the description, which    *)
(* are checked and merged alike.  A deleted row is gone: no deleted_at.    *)
Row == [st : {"absent", "live", "gone"}, title : Titles,
        severity : allowedSeverities]

Exists(i) == threats[i].st = "live"

NoRow == [st |-> "absent", title |-> CHOOSE t \in Titles : TRUE,
          severity |-> CHOOSE s \in allowedSeverities : TRUE]

(* row is the copy Update holds between its SELECT and its UPDATE.  took   *)
(* is history as well: the request's own statement changed the row.        *)
Handler == [op : {"none", "create", "update", "delete"},
            pc : {"idle", "write", "record", "done"},
            id : ThreatIds \cup {NoThreat}, row : Row, took : BOOLEAN]

NoHandler == [op |-> "none", pc |-> "idle", id |-> NoThreat,
              row |-> NoRow, took |-> FALSE]

Idle(p) == thr[p].pc = "idle"

Refuse(h)  == [h EXCEPT !.pc = "done", !.row = NoRow]
Succeed(h) == [h EXCEPT !.pc = "record", !.row = NoRow]

(* The answer of a handler whose one write had outcome o and found a row.  *)
Conclude(h, o, found) == IF Erred(o) \/ ~found THEN Refuse(h) ELSE Succeed(h)

(* A creation or deletion had outcome o: did the caller hear of its effect? *)
Hear(op, id, o, effect) ==
    unheard' = IF effect /\ Erred(o) THEN unheard \cup {<<op, id>>} ELSE unheard

ThreatsInit == /\ threats = [i \in ThreatIds |-> NoRow]
               /\ thr     = [p \in Procs |-> NoHandler]
               /\ unheard = {}

-----------------------------------------------------------------------------
(* normalizeSeverity lowers and trims, then looks the value up.            *)
Accepted(s) == Lowered[s] \in allowedSeverities

(* Create: every check, then one INSERT with a new uuid.                   *)
CreateThreat(p, i, t, s) ==
    /\ Idle(p) /\ threats[i].st = "absent"
    /\ LET h == [NoHandler EXCEPT !.op = "create", !.id = i]
       IN IF t = Blank \/ ~Accepted(s)
          THEN thr' = [thr EXCEPT ![p] = Refuse(h)] /\ UNCHANGED <<threats, unheard>>
          ELSE \E o \in Outcomes("postgres") :
                 /\ threats' = IF Applied(o)
                      THEN [threats EXCEPT ![i] = [st |-> "live", title |-> t,
                                                   severity |-> Lowered[s]]]
                      ELSE threats
                 /\ thr' = [thr EXCEPT ![p] =
                               Conclude([h EXCEPT !.took = Applied(o)], o, TRUE)]
                 /\ Hear("create", i, o, Applied(o))

-----------------------------------------------------------------------------
(* Update: SELECT, merge the given fields into the copy, UPDATE all.       *)

(* Mutant: a severity that normalizeSeverity rejects is written anyway.    *)
AnyUpdate(t, s) == t # Blank

ValidUpdate(t, s) == t # Blank /\ (s = Keep \/ Accepted(s))

Merge(row, t, s) ==
    [row EXCEPT !.title = IF t = Keep THEN @ ELSE t,
                !.severity = IF s = Keep THEN @ ELSE Lowered[s]]

LoadThreat(p, i, t, s) ==
    /\ Idle(p)
    /\ \E o \in Outcomes("postgres") :
         LET h == [NoHandler EXCEPT !.op = "update", !.id = i]
         IN thr' = [thr EXCEPT ![p] =
              IF Erred(o) \/ ~Exists(i) \/ ~ValidUpdate(t, s)
              THEN Refuse(h)
              ELSE [h EXCEPT !.pc = "write", !.row = Merge(threats[i], t, s)]]
    /\ UNCHANGED <<threats, unheard>>

(* Mutant: gorm's Save, which inserts the row when the UPDATE finds none.  *)
UpsertThreat(p) ==
    /\ thr[p].pc = "write"
    /\ threats' = [threats EXCEPT ![thr[p].id] = thr[p].row]
    /\ thr' = [thr EXCEPT ![p] = Succeed(@)]
    /\ UNCHANGED unheard

(* Mutant: the error of the UPDATE is discarded with its row count.        *)
WriteAnyhow(p) ==
    /\ thr[p].pc = "write"
    /\ \E o \in Outcomes("postgres") :
         LET i    == thr[p].id
             done == Applied(o) /\ Exists(i)
         IN /\ threats' = IF done THEN [threats EXCEPT ![i] = thr[p].row] ELSE threats
            /\ thr' = [thr EXCEPT ![p] = Succeed([@ EXCEPT !.took = done])]
    /\ UNCHANGED unheard

(* UPDATE ... WHERE id.  Whether a row was found is returned by the        *)
(* repository and discarded by the service: without one the update has no  *)
(* effect and still succeeds.                                              *)
WriteThreat(p) ==
    /\ thr[p].pc = "write"
    /\ \E o \in Outcomes("postgres") :
         LET i    == thr[p].id
             done == Applied(o) /\ Exists(i)
         IN /\ threats' = IF done THEN [threats EXCEPT ![i] = thr[p].row] ELSE threats
            /\ thr' = [thr EXCEPT ![p] = Conclude([@ EXCEPT !.took = done], o, TRUE)]
    /\ UNCHANGED unheard

-----------------------------------------------------------------------------
(* Delete: one DELETE, and here a missing row is an error.                 *)

(* Mutants: the number of deleted rows is discarded, as Update does; the   *)
(* entry is left to the caller.                                            *)
DeletedAnything(h, o, found) == Conclude(h, o, TRUE)
DeletedQuietly(h, o, found)  == Refuse(h)

Deleted(h, o, found) == Conclude(h, o, found)

DeleteThreat(p, i) ==
    /\ Idle(p)
    /\ \E o \in Outcomes("postgres") :
         LET h    == [NoHandler EXCEPT !.op = "delete", !.id = i]
             done == Applied(o) /\ Exists(i)
         IN /\ threats' = IF done THEN [threats EXCEPT ![i].st = "gone"] ELSE threats
            /\ thr' = [thr EXCEPT ![p] =
                          Deleted([h EXCEPT !.took = done], o, Exists(i))]
            /\ Hear("delete", i, o, done)

-----------------------------------------------------------------------------
Start(p) == \E i \in ThreatIds :
    \/ \E t \in Titles \cup {Blank}, s \in Spellings : CreateThreat(p, i, t, s)
    \/ \E t \in Titles \cup {Keep, Blank}, s \in Spellings \cup {Keep} :
         LoadThreat(p, i, t, s)
    \/ DeleteThreat(p, i)

(* The type invariant.  A stored severity has been through                 *)
(* normalizeSeverity, whichever handler wrote it last.                     *)
ThreatsTypeOK ==
    /\ threats \in [ThreatIds -> Row]
    /\ thr \in [Procs -> Handler]
    /\ unheard \subseteq {"create", "delete"} \X ThreatIds
=============================================================================
