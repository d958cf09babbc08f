----------------------------- MODULE MCExamples -----------------------------
(* An instance of Examples for TLC.                                        *)
EXTENDS Examples
=============================================================================
