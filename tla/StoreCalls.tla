----------------------------- MODULE StoreCalls -----------------------------
(***************************************************************************)
(* What a call to PostgreSQL or Redis can come back with.  "ok" took       *)
(* effect and says so, "lost" took effect but reports an error (a broken   *)
(* connection, a cancelled request context), "failed" took no effect.      *)
(***************************************************************************)

CONSTANT Faults         \* the stores whose calls may fail: a subset of Stores

Stores == {"postgres", "redis"}

ASSUME FaultsAssumption == Faults \subseteq Stores

Outcomes(store) == IF store \in Faults THEN {"ok", "lost", "failed"} ELSE {"ok"}
Applied(o) == o # "failed"
Erred(o)   == o # "ok"
=============================================================================
