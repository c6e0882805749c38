------------------------------ MODULE MCUsagePool ------------------------------
(* UsagePool for TLC.                                                      *)
EXTENDS UsagePool

CONSTANTS a, b, x, y

OneEach == [sid \in Sids |-> IF sid = x THEN a ELSE b]
=============================================================================
