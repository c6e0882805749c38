-------------------------- MODULE CollaborativeNotes --------------------------
(***************************************************************************)
(* A note that several sessions edit at once: the ydoc handlers of Open    *)
(* WebUI's socket server (backend/open_webui/socket/main.py) and           *)
(* YdocManager (socket/utils.py), for one document.                        *)
(*                                                                         *)
(* Updates commute (Yjs), so a state is the set of the updates in it.      *)
(* Without Redis there is one server and its manager never gives up the    *)
(* event loop: a handler is one step up to where it sends to others or     *)
(* waits for a save it cancels.  With Redis each call of the manager is a  *)
(* step, sessions may be on different servers, and what is sent to a room  *)
(* reaches the members on the sender's server at once, those on another    *)
(* when that server reads it.  The handlers of one connection's events run *)
(* concurrently.                                                           *)
(*                                                                         *)
(* The editor is not in the repository: a client joins, starts from the    *)
(* state it is given, sends each edit with the text it results in, and     *)
(* leaves.  Every session may read the note, and the calls of Redis and of *)
(* the database succeed.                                                   *)
(***************************************************************************)
EXTENDS Naturals, Sequences, FiniteSets, SequencesExt

CONSTANTS
    Sids,           \* connections
    Hosts, HostOf,  \* servers, and the one of each connection
    RedisSids,      \* the connections there are with Redis (a bound)
    MaxEdits,       \* bound on the updates sent, and
    MaxRedisEdits,  \* on those sent with Redis
    Deployments     \* whether REDIS is set: the cases considered

ASSUME NotesAssumption ==
    /\ HostOf \in [Sids -> Hosts]
    /\ RedisSids \subseteq Sids
    /\ MaxEdits \in Nat /\ MaxRedisEdits \in 0..MaxEdits
    /\ Deployments \subseteq BOOLEAN

VARIABLES
    redis,          \* REDIS is not None
    SESSION_POOL,   \* connections with a session
    users,          \* YdocManager: who is in the document
    updates,        \* YdocManager: its updates
    room,           \* members of the document's room
    joining,        \* progress of each connection's join
    parting,        \* progress of each connection's leave and disconnect
    open,           \* connections whose editor shows the document
    seen,           \* updates each editor has
    edits,          \* per update sent: its connection and progress
    bus,            \* updates each server has yet to send to its members
    saves,          \* updates whose debounced save waits
    saved,          \* updates whose text the database was given
    newest          \* update whose handler was the last to stop saves, 0 for none

member_vars == <<SESSION_POOL, users, room, joining, parting, open>>
save_vars == <<saves, saved, newest>>
vars == <<redis, member_vars, updates, seen, edits, bus, save_vars>>

-----------------------------------------------------------------------------
Init ==
    /\ redis \in Deployments
    /\ SESSION_POOL = IF redis THEN RedisSids ELSE Sids
    /\ users = {} /\ updates = {} /\ room = {} /\ open = {}
    /\ joining = [s \in Sids |-> "no"]
    /\ parting = [p \in Sids \X {"leave", "disconnect"} |-> "no"]
    /\ seen = [s \in Sids |-> {}]
    /\ edits = <<>>
    /\ bus = [h \in Hosts |-> <<>>]
    /\ saves = {} /\ saved = {} /\ newest = 0

Joined(s) == s \in open /\ s \in SESSION_POOL /\ s \in room /\ joining[s] = "no"

-----------------------------------------------------------------------------
(* Joining.                                                                *)

AfterJoin_read_first ==
    [adding |-> "reading", reading |-> "entering", entering |-> "no"]

AfterJoin == [adding |-> "entering", entering |-> "reading", reading |-> "no"]

JoinGoesOn(s, step) == joining' = [joining EXCEPT ![s] = AfterJoin[step]]

\* A client opens the note; the handler finds its session and may read.
Opens(s) ==
    /\ s \in SESSION_POOL \ open
    /\ joining[s] = "no"
    /\ open' = open \cup {s}
    /\ IF redis
         THEN /\ joining' = [joining EXCEPT ![s] = "adding"]
              /\ UNCHANGED <<users, room, seen>>
         ELSE /\ users' = users \cup {s}
              /\ room' = room \cup {s}
              /\ seen' = [seen EXCEPT ![s] = updates]
              /\ UNCHANGED joining
    /\ UNCHANGED <<redis, SESSION_POOL, parting, updates, edits, bus, save_vars>>

add_user(s) ==
    /\ joining[s] = "adding"
    /\ users' = users \cup {s}
    /\ JoinGoesOn(s, "adding")
    /\ UNCHANGED <<SESSION_POOL, room, parting, open, seen>>

Admitted(s) == s \in SESSION_POOL

\* Entering a room fails once the connection has ended.
enter_room(s) ==
    /\ joining[s] = "entering"
    /\ IF Admitted(s)
         THEN room' = room \cup {s} /\ JoinGoesOn(s, "entering")
         ELSE joining' = [joining EXCEPT ![s] = "no"] /\ UNCHANGED room
    /\ UNCHANGED <<SESSION_POOL, users, parting, open, seen>>

\* get_updates, and the state sent to the one who joins.
get_updates(s) ==
    /\ joining[s] = "reading"
    /\ seen' = [seen EXCEPT ![s] = IF s \in open THEN @ \cup updates ELSE @]
    /\ JoinGoesOn(s, "reading")
    /\ UNCHANGED <<SESSION_POOL, users, room, parting, open>>

Joins(s) ==
    /\ add_user(s) \/ enter_room(s) \/ get_updates(s)
    /\ UNCHANGED <<redis, updates, edits, bus, save_vars>>

-----------------------------------------------------------------------------
(* Editing.                                                                *)

EditGoesOn(e, step) == edits' = [edits EXCEPT ![e].pc = step]

\* One who has joined edits; the handler is about to stop the saves that wait.
Edits(s) ==
    /\ Joined(s)
    /\ Len(edits) < IF redis THEN MaxRedisEdits ELSE MaxEdits
    /\ edits' = Append(edits, [sid |-> s, pc |-> "stopping"])
    /\ seen' = [seen EXCEPT ![s] = @ \cup {Len(edits) + 1}]
    /\ UNCHANGED <<redis, member_vars, updates, bus, save_vars>>

\* stop_item_tasks cancels saves one by one, and awaits each (TaskRegistry).  It
\* may skip a task of the list it walks, give up at one that is gone, come too
\* late for one or raise, which is ignored: any may be left when it returns.
Cancels(e) ==
    /\ edits[e].pc = "stopping"
    /\ \E x \in saves : saves' = saves \ {x}
    /\ UNCHANGED <<redis, member_vars, updates, seen, edits, bus, saved, newest>>

Stopped(e) ==
    /\ edits[e].pc = "stopping"
    /\ EditGoesOn(e, "stopped")
    /\ newest' = e
    /\ UNCHANGED <<redis, member_vars, updates, seen, bus, saves, saved>>

Broadcast(e) ==
    LET here == HostOf[edits[e].sid]
        near(s) == s \in room \cap open /\ (redis => HostOf[s] = here) /\ s # edits[e].sid
    IN  /\ seen' = [s \in Sids |-> IF near(s) THEN seen[s] \cup {e} ELSE seen[s]]
        /\ bus' = IF redis
                    THEN [h \in Hosts |-> IF h = here THEN bus[h] ELSE Append(bus[h], e)]
                    ELSE bus

append_to_updates(e) ==
    /\ edits[e].pc = "stopped"
    /\ updates' = updates \cup {e}
    /\ IF redis THEN EditGoesOn(e, "appended") /\ UNCHANGED <<seen, bus>>
                ELSE EditGoesOn(e, "sent") /\ Broadcast(e)
    /\ UNCHANGED <<redis, member_vars, save_vars>>

Sent(e) ==
    /\ edits[e].pc = "appended"
    /\ Broadcast(e)
    /\ EditGoesOn(e, "sent")
    /\ UNCHANGED <<redis, member_vars, updates, save_vars>>

SavesWith_first(waiting, e) == IF waiting = {} THEN {e} ELSE waiting

SavesWith(waiting, e) == waiting \cup {e}

SaveCreated(e) ==
    /\ edits[e].pc = "sent"
    /\ EditGoesOn(e, "over")
    /\ saves' = SavesWith(saves, e)
    /\ UNCHANGED <<redis, member_vars, updates, seen, bus, saved, newest>>

\* debounced_save after its delay; without the session it raises.  (The delays
\* of saves on several servers may end in any order.)
document_save_handler(e) ==
    /\ e \in saves
    /\ saved' = IF edits[e].sid \in SESSION_POOL THEN saved \cup {e} ELSE saved
    /\ saves' = saves \ {e}
    /\ UNCHANGED <<redis, member_vars, updates, seen, edits, bus, newest>>

\* A server sends what another has broadcast to its members.
Forwards(h) ==
    /\ bus[h] # <<>>
    /\ seen' = [s \in Sids |->
          IF s \in room \cap open /\ HostOf[s] = h /\ s # edits[Head(bus[h])].sid
            THEN seen[s] \cup {Head(bus[h])} ELSE seen[s]]
    /\ bus' = [bus EXCEPT ![h] = Tail(@)]
    /\ UNCHANGED <<redis, member_vars, updates, edits, save_vars>>

-----------------------------------------------------------------------------
(* Leaving and disconnecting.                                              *)

PartingGoesOn(s, kind, step) == parting' = [parting EXCEPT ![<<s, kind>>] = step]

Abandoned_by_one(s) == s \notin users

Abandoned(s) == users = {}

EditorCloses(s) ==
    /\ open' = open \ {s}
    /\ seen' = [seen EXCEPT ![s] = {}]

\* A client leaves; without Redis all up to the message to the others is one step.
Leaves(s) ==
    /\ s \in open /\ s \in SESSION_POOL
    /\ parting[<<s, "leave">>] = "no"
    /\ EditorCloses(s)
    /\ IF redis
         THEN PartingGoesOn(s, "leave", "removing") /\ UNCHANGED <<users, room>>
         ELSE /\ users' = users \ {s}
              /\ room' = room \ {s}
              /\ PartingGoesOn(s, "leave", "counting")
    /\ UNCHANGED <<redis, SESSION_POOL, joining, updates, edits, bus, save_vars>>

\* The connection ends.
disconnect(s) ==
    /\ s \in SESSION_POOL
    /\ SESSION_POOL' = SESSION_POOL \ {s}
    /\ EditorCloses(s)
    /\ room' = room \ {s}
    /\ IF redis
         THEN /\ PartingGoesOn(s, "disconnect", "removing")
              /\ UNCHANGED <<users, updates>>
         ELSE /\ users' = users \ {s}
              /\ updates' = IF s \in users /\ users' = {} THEN {} ELSE updates
              /\ UNCHANGED parting
    /\ UNCHANGED <<redis, joining, edits, bus, save_vars>>

remove_user(s, kind) ==
    /\ parting[<<s, kind>>] = "removing"
    /\ users' = users \ {s}
    /\ room' = IF kind = "leave" THEN room \ {s} ELSE room
    /\ PartingGoesOn(s, kind, "counting")
    /\ UNCHANGED updates

\* get_users: whether nobody is left.  Without Redis clearing follows at once.
get_users(s, kind) ==
    /\ parting[<<s, kind>>] = "counting"
    /\ PartingGoesOn(s, kind, IF redis /\ Abandoned(s) THEN "clearing" ELSE "no")
    /\ updates' = IF ~ redis /\ Abandoned(s) THEN {} ELSE updates
    /\ UNCHANGED <<users, room>>

clear_updates(s, kind) ==
    /\ parting[<<s, kind>>] = "clearing"
    /\ updates' = {}
    /\ PartingGoesOn(s, kind, "dropping")
    /\ UNCHANGED <<users, room>>

clear_users(s, kind) ==
    /\ parting[<<s, kind>>] = "dropping"
    /\ users' = {}
    /\ PartingGoesOn(s, kind, "no")
    /\ UNCHANGED <<updates, room>>

Parts(s, kind) ==
    /\ \/ remove_user(s, kind) \/ get_users(s, kind)
       \/ clear_updates(s, kind) \/ clear_users(s, kind)
    /\ UNCHANGED <<redis, SESSION_POOL, joining, open, seen, edits, bus, save_vars>>

-----------------------------------------------------------------------------
Next ==
    \/ \E s \in Sids :
          \/ Opens(s) \/ Joins(s) \/ Edits(s) \/ Leaves(s) \/ disconnect(s)
          \/ \E kind \in {"leave", "disconnect"} : Parts(s, kind)
    \/ \E e \in DOMAIN edits :
          \/ Cancels(e) \/ Stopped(e) \/ append_to_updates(e) \/ Sent(e)
          \/ SaveCreated(e)
          \/ document_save_handler(e)
    \/ \E h \in Hosts : Forwards(h)

Spec == Init /\ [][Next]_vars

-----------------------------------------------------------------------------
(* Properties.                                                             *)

PartingSteps == {"no", "removing", "counting", "clearing", "dropping"}

JoiningSteps == {"no", "adding", "entering", "reading"}

Edit == [sid : Sids, pc : {"stopping", "stopped", "appended", "sent", "over"}]

TypeOK ==
    /\ redis \in BOOLEAN
    /\ SESSION_POOL \subseteq Sids /\ users \subseteq Sids
    /\ room \subseteq SESSION_POOL /\ open \subseteq Sids
    /\ updates \subseteq DOMAIN edits
    /\ joining \in [Sids -> JoiningSteps]
    /\ parting \in [Sids \X {"leave", "disconnect"} -> PartingSteps]
    /\ seen \in [Sids -> SUBSET DOMAIN edits]
    /\ edits \in Seq(Edit)
    /\ bus \in [Hosts -> Seq(DOMAIN edits)]
    /\ saves \subseteq DOMAIN edits /\ saved \subseteq DOMAIN edits
    /\ newest \in 0..Len(edits)

\* Whoever has joined has every update of the document that another made, or it
\* is on its way: none is lost between the room and the state that is read
\* (main.py 437-460, 545-563), on one server or several.
NothingMissed ==
    \A s \in Sids : Joined(s) =>
        \A e \in updates :
            \/ e \in seen[s]
            \/ edits[e].sid = s
            \/ edits[e].pc = "appended"
            \/ e \in ToSet(bus[HostOf[s]])

\* On one server the document keeps what those in it have seen, however others
\* leave and disconnect, so that a later one is given the same (600-605 and
\* remove_user_from_all_documents).
KeptWhileOpen ==
    ~ redis =>
        \A s \in Sids : Joined(s) =>
            \A e \in seen[s] : e \in updates \/ edits[e].pc \in {"stopping", "stopped"}

\* When no handler is under way, the text of the edit that stopped the saves last
\* is saved or waits to be, unless its editor is gone: whatever a stop skips or
\* comes too late for, no stop meets a save created after the last of them.
\* That an older text is not saved after it is more than the code ensures.
\* (socket/main.py 535-572.)
LastStopSaved ==
    /\ \A e \in DOMAIN edits : edits[e].pc = "over"
    /\ newest # 0 /\ edits[newest].sid \in SESSION_POOL
    => newest \in saves \cup saved
=============================================================================
