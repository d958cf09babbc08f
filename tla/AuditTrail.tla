------------------------------ MODULE AuditTrail ------------------------------
(***************************************************************************)
(* What the audit service promises the handlers that call Record: while    *)
(* the process lives, every submitted entry is settled once, either kept   *)
(* as one row or given up with a warning.  When the process ends nothing   *)
(* more is settled.                                                        *)
(***************************************************************************)
CONSTANT Entries

VARIABLES
    pending,        \* submitted, not settled
    kept,           \* rows of audit_logs
    dropped,        \* given up: Insert failed and was only logged
    alive           \* the process is running

trailVars == <<pending, kept, dropped, alive>>

TrailInit == pending = {} /\ kept = {} /\ dropped = {} /\ alive = TRUE

Submit(e) == /\ alive
             /\ e \notin pending \cup kept \cup dropped
             /\ pending' = pending \cup {e}
             /\ UNCHANGED <<kept, dropped, alive>>

Settle(e) == /\ alive
             /\ e \in pending
             /\ pending' = pending \ {e}
             /\ \/ kept' = kept \cup {e} /\ UNCHANGED dropped
                \/ dropped' = dropped \cup {e} /\ UNCHANGED kept
             /\ UNCHANGED alive

End == alive /\ alive' = FALSE /\ UNCHANGED <<pending, kept, dropped>>

TrailNext == (\E e \in Entries : Submit(e) \/ Settle(e)) \/ End

TrailSpec == TrailInit /\ [][TrailNext]_trailVars

FairTrailSpec == TrailSpec /\ \A e \in Entries : WF_trailVars(Settle(e))
=============================================================================
