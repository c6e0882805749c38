---------------------------- MODULE MCTaskRegistry ----------------------------
(* TaskRegistry for TLC.                                                   *)
EXTENDS TaskRegistry

CONSTANTS t1, t2, t3, chat, i1, i2, s1, s2

TwoHomes == [t \in Tasks |-> IF t = t2 THEN i2 ELSE i1]
OneItem == [t \in Tasks |-> chat]

\* "Stop all tasks associated with a specific item ID" (tasks.py 175): a request
\* that reports success has stopped each task that was registered when it came.
StopsAll ==
    [][\A s \in Stops :
          stop[s].pc # "stopped" /\ stop'[s].pc = "stopped"
          => \A t \in ToSet(stop[s].ids) : ~ Unfinished(t)]_vars
=============================================================================
