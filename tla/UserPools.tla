------------------------------ MODULE UserPools ------------------------------
(***************************************************************************)
(* The pools of Open WebUI's socket server (backend/open_webui/socket/     *)
(* main.py): SESSION_POOL says whose a connection is, USER_POOL lists the  *)
(* connections of each user who is active.                                 *)
(*                                                                         *)
(* One server: its handlers touch the pools without giving up the event    *)
(* loop, so each is one step, and the events of a connection are handled   *)
(* in the order they come, its disconnect last.  A token is given here as  *)
(* the user it decodes to, Nobody when it is missing, expired or of a      *)
(* deleted user.  The order of a user's list is never used; a user whose   *)
(* list is empty has no entry.                                             *)
(***************************************************************************)
EXTENDS Naturals

CONSTANTS Users, Nobody, Sids

ASSUME PoolAssumption == Nobody \notin Users

VARIABLES
    SESSION_POOL,   \* user of each connection, Nobody for no entry
    USER_POOL,      \* how often each user's list has each connection
    connection      \* new, live or gone

pools == <<SESSION_POOL, USER_POOL, connection>>

-----------------------------------------------------------------------------
PoolInit ==
    /\ SESSION_POOL = [sid \in Sids |-> Nobody]
    /\ USER_POOL = [u \in Users |-> [sid \in Sids |-> 0]]
    /\ connection = [sid \in Sids |-> "new"]

Listed(sid, list) == [list EXCEPT ![sid] = @ + 1]

\* The code connect and user_join share.
Entered(sid, u) ==
    IF u = Nobody THEN UNCHANGED <<SESSION_POOL, USER_POOL>>
      ELSE /\ SESSION_POOL' = [SESSION_POOL EXCEPT ![sid] = u]
           /\ USER_POOL' = [USER_POOL EXCEPT ![u] = Listed(sid, @)]

connect(sid, u) ==
    /\ connection[sid] = "new"
    /\ connection' = [connection EXCEPT ![sid] = "live"]
    /\ Entered(sid, u)

user_join(sid, u) ==
    /\ Entered(sid, u)
    /\ UNCHANGED connection

Without_first(sid, list) == [list EXCEPT ![sid] = @ - 1]

Without(sid, list) == [list EXCEPT ![sid] = 0]

disconnect(sid) ==
    /\ connection' = [connection EXCEPT ![sid] = "gone"]
    /\ LET u == SESSION_POOL[sid]
       IN  IF u = Nobody THEN UNCHANGED <<SESSION_POOL, USER_POOL>>
             ELSE /\ SESSION_POOL' = [SESSION_POOL EXCEPT ![sid] = Nobody]
                  /\ USER_POOL' = [USER_POOL EXCEPT ![u] = Without(sid, @)]

\* The server calls a connection's handlers from its connect to its disconnect.
PoolNext ==
    \E sid \in Sids :
        \/ \E u \in Users \cup {Nobody} : connect(sid, u)
        \/ /\ connection[sid] = "live"
           /\ disconnect(sid) \/ \E u \in Users \cup {Nobody} : user_join(sid, u)

PoolSpec == PoolInit /\ [][PoolNext]_pools

-----------------------------------------------------------------------------
Active(u) == \E sid \in Sids : USER_POOL[u][sid] > 0

PoolsTypeOK ==
    /\ SESSION_POOL \in [Sids -> Users \cup {Nobody}]
    /\ USER_POOL \in [Users -> [Sids -> Nat]]
    /\ connection \in [Sids -> {"new", "live", "gone"}]

\* A connection with a user is listed as one of that user's, so that events for
\* the user reach it and its disconnect finds the list it is in
\* (main.py 204-206, 281-284, 633-641).
SessionsListed ==
    \A sid \in Sids :
        SESSION_POOL[sid] # Nobody => USER_POOL[SESSION_POOL[sid]][sid] > 0

\* Only connections that exist have a user: nothing that comes late brings back
\* the session of a connection that is gone.
SessionsLive == \A sid \in Sids : SESSION_POOL[sid] # Nobody => connection[sid] = "live"
=============================================================================
