------------------------------ MODULE Requests ------------------------------
(***************************************************************************)
(* What the components of one process share: the goroutines net/http runs  *)
(* its requests in.  A goroutine serves one request after the other.       *)
(***************************************************************************)
EXTENDS FiniteSets

CONSTANT Procs

ASSUME ProcsAssumption == IsFiniteSet(Procs)
=============================================================================
