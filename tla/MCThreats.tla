----------------------------- MODULE MCThreats -----------------------------
(* An instance of ThreatServer for TLC: a severity typed in capitals, and  *)
(* one that is not allowed.                                                *)
EXTENDS ThreatServer, TLC

CONSTANTS HIGH, high, wrong

MCLowered == (HIGH :> high) @@ (wrong :> wrong)
MCNothing == [op |-> "none", id |-> NoThreat, took |-> FALSE]
=============================================================================
