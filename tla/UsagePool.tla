------------------------------ MODULE UsagePool ------------------------------
(***************************************************************************)
(* The models in use in Open WebUI (backend/open_webui/socket/main.py):    *)
(* the usage event that records that a session uses a model, and           *)
(* periodic_usage_pool_cleanup, which removes what is not repeated.  With  *)
(* Redis every server starts a cleaner and RedisLock (socket/utils.py)     *)
(* is to leave one of them.                                                *)
(*                                                                         *)
(* The calls to Redis block the server, so a server does one thing at a    *)
(* time, and between two of its calls the other servers go on.  Without    *)
(* Redis a handler or a round of the cleaner is one step.                  *)
(*                                                                         *)
(* An entry is kept as the time since its updated_at, in the pool and in   *)
(* whatever a server has read of it, so a copy written back later is as    *)
(* old as it is.  A time over TIMEOUT_DURATION is not told from another.   *)
(* The lock expires when its holder is gone or has not renewed it in time. *)
(* Any call to Redis may fail.                                             *)
(***************************************************************************)
EXTENDS Naturals, FiniteSets

CONSTANTS
    Servers,
    Primary,        \* the only server without Redis
    Models, Sids,
    ServerOf,       \* the server of each session when there is Redis
    Deployments,    \* whether WEBSOCKET_MANAGER is redis: the cases considered
    TIMEOUT_DURATION,
    MaxStalls,      \* bound on the locks that expire under a live holder
    MaxCrashes,     \* bound on the servers that crash
    None,           \* no entry of a session
    NoServer, Dead  \* values of the lock: none, and a server that is no more

ASSUME UsageAssumption ==
    /\ Primary \in Servers /\ ServerOf \in [Sids -> Servers]
    /\ Deployments \subseteq BOOLEAN
    /\ TIMEOUT_DURATION \in Nat /\ None \notin Nat
    /\ MaxStalls \in Nat /\ MaxCrashes \in Nat
    /\ {NoServer, Dead} \cap Servers = {} /\ NoServer # Dead

VARIABLES
    redis,          \* WEBSOCKET_MANAGER == "redis"
    USAGE_POOL,     \* per model and session, the time since updated_at
    lock,           \* the value of the lock's key
    cleaner,        \* progress of each server's cleaner
    attempt,        \* its attempts to get the lock
    snapshot,       \* what its round has read and not expired then
    todo,           \* models its round has still to write
    recording,      \* the usage event a server is handling
    stalls, crashes \* counted for their bounds

round == <<snapshot, todo>>
vars == <<redis, USAGE_POOL, lock, cleaner, attempt, round, recording, stalls, crashes>>

-----------------------------------------------------------------------------
Absent == [sid \in Sids |-> None]

NotRecording == [pc |-> "no"]

Init ==
    /\ redis \in Deployments
    /\ USAGE_POOL = [m \in Models |-> Absent]
    /\ lock = NoServer
    /\ cleaner = [s \in Servers |-> IF redis \/ s = Primary THEN "trying" ELSE "down"]
    /\ attempt = [s \in Servers |-> 0]
    /\ snapshot = [s \in Servers |-> USAGE_POOL]
    /\ todo = [s \in Servers |-> {}]
    /\ recording = [s \in Servers |-> NotRecording]
    /\ stalls = 0 /\ crashes = 0

Up(s) == cleaner[s] # "down"

\* The server is in the middle of nothing that blocks its event loop.
Free(s) == Up(s) /\ recording[s].pc = "no" /\ cleaner[s] \notin {"reading", "writing"}

Becomes(s, pc) == cleaner' = [cleaner EXCEPT ![s] = pc]

-----------------------------------------------------------------------------
(* RedisLock; without Redis the three functions return True.               *)

aquire_lock_anyway(s) == TRUE

aquire_lock(s) == ~ redis \/ lock = NoServer

renew_lock(s) == ~ redis \/ lock # NoServer

LockTo(s) == lock' = IF redis THEN s ELSE lock

Retries(s) == attempt[s] < 2

Acquires(s) ==
    /\ Free(s) /\ cleaner[s] = "trying"
    /\ IF aquire_lock(s)
         THEN Becomes(s, "sleeping") /\ LockTo(s) /\ attempt' = [attempt EXCEPT ![s] = 0]
         ELSE /\ Becomes(s, IF Retries(s) THEN "trying" ELSE "out")
              /\ attempt' = [attempt EXCEPT ![s] = @ + 1]
              /\ UNCHANGED lock
    /\ UNCHANGED <<redis, USAGE_POOL, round, recording, stalls, crashes>>

\* A round begins, or the cleaner ends.
Renews(s) ==
    /\ Free(s) /\ cleaner[s] = "sleeping"
    /\ IF renew_lock(s) THEN LockTo(s) /\ Becomes(s, "reading")
                        ELSE Becomes(s, "releasing") /\ UNCHANGED lock
    /\ UNCHANGED <<redis, USAGE_POOL, attempt, round, recording, stalls, crashes>>

\* The value is read; the key is deleted in another call.
Releases(s) ==
    /\ cleaner[s] = "releasing"
    /\ Becomes(s, IF lock = s THEN "deleting" ELSE "out")
    /\ UNCHANGED <<redis, USAGE_POOL, lock, attempt, round, recording, stalls, crashes>>

Deletes(s) ==
    /\ cleaner[s] = "deleting"
    /\ Becomes(s, "out")
    /\ lock' = NoServer
    /\ UNCHANGED <<redis, USAGE_POOL, attempt, round, recording, stalls, crashes>>

-----------------------------------------------------------------------------
(* A round of the cleaner.                                                 *)

InUse(pool) == {m \in Models : pool[m] # Absent}

Expired(time) == time # None /\ time > TIMEOUT_DURATION

\* Only the models that nobody uses any more are cleaned.
Unexpired_models(connections) ==
    IF \A sid \in Sids : connections[sid] = None \/ Expired(connections[sid])
      THEN Absent ELSE connections

\* A model that would be left without connections is not deleted.
Unexpired_undeleted(connections) ==
    IF Unexpired_models(connections) = Absent THEN connections
      ELSE [sid \in Sids |-> IF Expired(connections[sid]) THEN None ELSE connections[sid]]

Unexpired(connections) ==
    [sid \in Sids |-> IF Expired(connections[sid]) THEN None ELSE connections[sid]]

\* What has expired is judged by the time taken here; without Redis the round is
\* done at once.
Reads(s) ==
    /\ cleaner[s] = "reading"
    /\ IF redis
         THEN /\ snapshot' = [snapshot EXCEPT ![s] = [m \in Models |-> Unexpired(USAGE_POOL[m])]]
              /\ todo' = [todo EXCEPT ![s] = InUse(USAGE_POOL)]
              /\ Becomes(s, "writing")
              /\ UNCHANGED USAGE_POOL
         ELSE /\ USAGE_POOL' = [m \in Models |-> Unexpired(USAGE_POOL[m])]
              /\ Becomes(s, "sleeping")
              /\ UNCHANGED round
    /\ UNCHANGED <<redis, lock, attempt, recording, stalls, crashes>>

RoundOver(s) ==
    /\ todo' = [todo EXCEPT ![s] = {}]
    /\ snapshot' = [snapshot EXCEPT ![s] = [m \in Models |-> Absent]]

\* A model that another cleaner has removed is a KeyError, which ends this one.
Writes(s, m) ==
    /\ cleaner[s] = "writing" /\ m \in todo[s]
    /\ IF snapshot[s][m] = Absent /\ USAGE_POOL[m] = Absent
         THEN RoundOver(s) /\ Becomes(s, "releasing") /\ UNCHANGED USAGE_POOL
         ELSE /\ USAGE_POOL' = [USAGE_POOL EXCEPT ![m] = snapshot[s][m]]
              /\ todo' = [todo EXCEPT ![s] = @ \ {m}]
              /\ UNCHANGED <<snapshot, cleaner>>
    /\ UNCHANGED <<redis, lock, attempt, recording, stalls, crashes>>

Sleeps(s) ==
    /\ cleaner[s] = "writing" /\ todo[s] = {}
    /\ Becomes(s, "sleeping")
    /\ RoundOver(s)
    /\ UNCHANGED <<redis, USAGE_POOL, lock, attempt, recording, stalls, crashes>>

-----------------------------------------------------------------------------
(* usage: whether the model is there, its connections, and the entry.      *)

With(connections, sid, time) == [connections EXCEPT ![sid] = time]

usage(s, sid, m) ==
    /\ s = IF redis THEN ServerOf[sid] ELSE Primary
    /\ Free(s)
    /\ IF redis
         THEN /\ recording' = [recording EXCEPT ![s] =
                    [pc |-> IF USAGE_POOL[m] = Absent THEN "set" ELSE "get",
                     sid |-> sid, model |-> m, connections |-> With(Absent, sid, 0)]]
              /\ UNCHANGED USAGE_POOL
         ELSE /\ USAGE_POOL' = [USAGE_POOL EXCEPT ![m] = With(@, sid, 0)]
              /\ UNCHANGED recording
    /\ UNCHANGED <<redis, lock, cleaner, attempt, round, stalls, crashes>>

\* A model removed since it was found is a KeyError: the event is lost.
Gets(s) ==
    LET e == recording[s]
    IN  /\ e.pc = "get"
        /\ recording' = [recording EXCEPT ![s] =
              IF USAGE_POOL[e.model] = Absent THEN NotRecording
                ELSE [e EXCEPT !.pc = "set",
                               !.connections = With(USAGE_POOL[e.model], e.sid, @[e.sid])]]
        /\ UNCHANGED <<redis, USAGE_POOL, lock, cleaner, attempt, round, stalls, crashes>>

Sets(s) ==
    LET e == recording[s]
    IN  /\ e.pc = "set"
        /\ USAGE_POOL' = [USAGE_POOL EXCEPT ![e.model] = e.connections]
        /\ recording' = [recording EXCEPT ![s] = NotRecording]
        /\ UNCHANGED <<redis, lock, cleaner, attempt, round, stalls, crashes>>

-----------------------------------------------------------------------------
(* Time and failures.                                                      *)

Older(connections) ==
    [sid \in Sids |-> IF connections[sid] = None \/ Expired(connections[sid])
                        THEN connections[sid] ELSE connections[sid] + 1]

OlderPool(pool) == [m \in Models |-> Older(pool[m])]

OlderEvent(e) ==
    IF e = NotRecording THEN e ELSE [e EXCEPT !.connections = Older(@)]

Ticks ==
    /\ USAGE_POOL' = OlderPool(USAGE_POOL)
    /\ snapshot' = [s \in Servers |-> OlderPool(snapshot[s])]
    /\ recording' = [s \in Servers |-> OlderEvent(recording[s])]
    /\ UNCHANGED <<redis, lock, cleaner, attempt, todo, stalls, crashes>>

Cleaning(s) == cleaner[s] \in {"sleeping", "reading", "writing"}

HeldLive == lock \in Servers /\ (Cleaning(lock) \/ cleaner[lock] = "deleting")

Expires ==
    /\ lock # NoServer
    /\ HeldLive => stalls < MaxStalls
    /\ stalls' = IF HeldLive THEN stalls + 1 ELSE stalls
    /\ lock' = NoServer
    /\ UNCHANGED <<redis, USAGE_POOL, cleaner, attempt, round, recording, crashes>>

\* The cleaner's loop has a finally, and nothing catches what fails before or in it.
CleanerFails(s) ==
    /\ redis /\ cleaner[s] \notin {"down", "out"}
    /\ cleaner[s] \in {"trying", "sleeping"} => Free(s)
    /\ Becomes(s, IF Cleaning(s) THEN "releasing" ELSE "out")
    /\ RoundOver(s)
    /\ UNCHANGED <<redis, USAGE_POOL, lock, attempt, recording, stalls, crashes>>

\* A call of the event fails: the usage is lost.
UsageFails(s) ==
    /\ recording[s].pc # "no"
    /\ recording' = [recording EXCEPT ![s] = NotRecording]
    /\ UNCHANGED <<redis, USAGE_POOL, lock, cleaner, attempt, round, stalls, crashes>>

\* With Redis the pools and the lock outlive the server.
Crashes(s) ==
    /\ redis /\ Up(s) /\ crashes < MaxCrashes
    /\ crashes' = crashes + 1
    /\ Becomes(s, "down")
    /\ lock' = IF lock = s THEN Dead ELSE lock
    /\ recording' = [recording EXCEPT ![s] = NotRecording]
    /\ RoundOver(s)
    /\ UNCHANGED <<redis, USAGE_POOL, attempt, stalls>>

Restarts(s) ==
    /\ redis /\ ~ Up(s)
    /\ Becomes(s, "trying")
    /\ attempt' = [attempt EXCEPT ![s] = 0]
    /\ UNCHANGED <<redis, USAGE_POOL, lock, round, recording, stalls, crashes>>

-----------------------------------------------------------------------------
Cleans(s) ==
    \/ Acquires(s) \/ Renews(s) \/ Releases(s) \/ Deletes(s)
    \/ Reads(s) \/ Sleeps(s) \/ \E m \in Models : Writes(s, m)

Records(s) == Gets(s) \/ Sets(s)

Next ==
    \/ \E s \in Servers :
          \/ Cleans(s) \/ Records(s) \/ CleanerFails(s) \/ UsageFails(s) \/ Crashes(s) \/ Restarts(s)
          \/ \E sid \in Sids, m \in Models : usage(s, sid, m)
    \/ Ticks \/ Expires

\* A cleaner whose sleep is over gets its turn, however often others do.
Fairness == \A s \in Servers : SF_vars(Cleans(s)) /\ WF_vars(Records(s))

Spec == Init /\ [][Next]_vars /\ Fairness

-----------------------------------------------------------------------------
(* Properties.                                                             *)

Phases == {"down", "trying", "sleeping", "reading", "writing", "releasing", "deleting", "out"}

Connections == [Sids -> {None} \cup 0..(TIMEOUT_DURATION + 1)]

Pools == [Models -> Connections]

UsageEvent == [pc : {"get", "set"}, sid : Sids, model : Models, connections : Connections]

TypeOK ==
    /\ redis \in BOOLEAN
    /\ USAGE_POOL \in Pools
    /\ lock \in Servers \cup {NoServer, Dead}
    /\ cleaner \in [Servers -> Phases]
    /\ attempt \in [Servers -> 0..3]
    /\ snapshot \in [Servers -> Pools]
    /\ todo \in [Servers -> SUBSET Models]
    /\ \A s \in Servers : todo[s] # {} => cleaner[s] = "writing"
    /\ recording \in [Servers -> {NotRecording} \cup UsageEvent]
    /\ stalls \in 0..MaxStalls /\ crashes \in 0..MaxCrashes

\* The server that cleans holds the lock, so no two clean, across crashes and
\* restarts, as long as no lock expires under a live server (main.py 148-197,
\* RedisLock).
CleanerHoldsLock == redis /\ stalls = 0 => \A s \in Servers : Cleaning(s) => lock = s

Nobody == \A s \in Servers : ~ Cleaning(s)

\* Usage that has expired is taken out, or repeated, while any server cleans, even
\* when locks expire, calls fail and servers write over each other's rounds: what
\* they write back is as old as it was (main.py 178-190).
StaleRemoved ==
    \A m \in Models, sid \in Sids :
        Expired(USAGE_POOL[m][sid]) ~> ~ Expired(USAGE_POOL[m][sid]) \/ Nobody

\* What was taken out does not come back for ever once no session reports usage:
\* then either the pool ends without expired entries, or nobody goes on cleaning.
ExpiredStaysOut ==
    <>[][~ \E s \in Servers, sid \in Sids, m \in Models : usage(s, sid, m)]_vars
        => []<>Nobody \/ <>[](\A m \in Models, sid \in Sids : ~ Expired(USAGE_POOL[m][sid]))
=============================================================================
