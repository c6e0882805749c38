------------------------- MODULE MCCollaborativeNotes -------------------------
(* CollaborativeNotes for TLC.                                             *)
EXTENDS CollaborativeNotes

CONSTANTS s1, s2, s3, h1, h2

TwoHosts == [s \in Sids |-> IF s = s2 THEN h2 ELSE h1]
=============================================================================
