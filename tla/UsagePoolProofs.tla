---------------------------- MODULE UsagePoolProofs ----------------------------
(***************************************************************************)
(* Proofs about UsagePool, for any number of servers, models and crashes:  *)
(* the server that cleans holds the lock, as long as no lock expires under *)
(* a live server.                                                          *)
(*                                                                         *)
(* CleanerHoldsLock is not inductive: a cleaner that ends deletes the lock *)
(* in a step of its own, so LockInv adds that it still holds it then.      *)
(***************************************************************************)
EXTENDS UsagePool, TLAPS

Holding(s) == Cleaning(s) \/ cleaner[s] = "deleting"

HoldersHold == redis /\ stalls = 0 => \A s \in Servers : Holding(s) => lock = s

LockInv ==
    /\ cleaner \in [Servers -> Phases]
    /\ stalls \in Nat
    /\ HoldersHold

-----------------------------------------------------------------------------
\* A server that moves its cleaner without touching the lock keeps the rest.
LEMMA MovesAlone ==
    ASSUME LockInv, NEW s \in Servers, NEW pc \in Phases, Becomes(s, pc),
           UNCHANGED <<redis, lock, stalls>>,
           pc \in {"sleeping", "reading", "writing", "deleting"} => Holding(s) \/ lock = s
    PROVE  LockInv'
  <1>1. cleaner' \in [Servers -> Phases]
    BY DEF LockInv, Becomes
  <1>2. cleaner'[s] = pc /\ \A r \in Servers \ {s} : cleaner'[r] = cleaner[r]
    BY DEF LockInv, Becomes
  <1>3. HoldersHold'
    <2> SUFFICES ASSUME redis, stalls = 0, NEW r \in Servers, Holding(r)'
                 PROVE  lock = r
      BY DEF HoldersHold
    <2>1. CASE r = s
      BY <1>2, <2>1 DEF LockInv, HoldersHold, Holding, Cleaning
    <2>2. CASE r # s
      BY <1>2, <2>2 DEF LockInv, HoldersHold, Holding, Cleaning
    <2>3. QED
      BY <2>1, <2>2
  <1>4. QED
    BY <1>1, <1>3 DEF LockInv

\* At first nobody has the lock.
LEMMA InitLockInv == Init => LockInv
  BY UsageAssumption DEF Init, LockInv, HoldersHold, Holding, Cleaning, Phases

\* A lock that is acquired was nobody's, so nobody else cleans.
LEMMA AcquiresLockInv ==
    ASSUME LockInv, NEW s \in Servers, Acquires(s)
    PROVE  LockInv'
  <1>1. UNCHANGED <<redis, stalls>>
    BY DEF Acquires
  <1>2. CASE aquire_lock(s)
    <2>1. Becomes(s, "sleeping") /\ LockTo(s)
      BY <1>2 DEF Acquires
    <2>2. cleaner' \in [Servers -> Phases]
      BY <2>1 DEF LockInv, Becomes, Phases
    <2>3. cleaner'[s] = "sleeping" /\ \A r \in Servers \ {s} : cleaner'[r] = cleaner[r]
      BY <2>1 DEF LockInv, Becomes
    <2>4. HoldersHold'
      <3> SUFFICES ASSUME redis, stalls = 0, NEW r \in Servers, Holding(r)'
                   PROVE  lock' = r
        BY <1>1 DEF HoldersHold
      <3>1. lock = NoServer /\ lock' = s
        BY <1>2, <2>1 DEF aquire_lock, LockTo
      <3>2. ASSUME r # s PROVE FALSE
        <4>1. Holding(r)
          BY <2>3, <3>2 DEF Holding, Cleaning
        <4>2. lock = r
          BY <4>1 DEF LockInv, HoldersHold
        <4>3. QED
          BY <3>1, <4>2, UsageAssumption
      <3>3. QED
        BY <3>1, <3>2
    <2>5. QED
      BY <1>1, <2>2, <2>4 DEF LockInv
  <1>3. CASE ~ aquire_lock(s)
    <2>1. PICK pc \in {"trying", "out"} : Becomes(s, pc)
      BY <1>3 DEF Acquires
    <2>2. UNCHANGED lock
      BY <1>3 DEF Acquires
    <2>3. QED
      BY <1>1, <2>1, <2>2, MovesAlone DEF Phases
  <1>4. QED
    BY <1>2, <1>3

\* Renewing sets the lock to the server that, cleaning, held it already.
LEMMA RenewsLockInv ==
    ASSUME LockInv, NEW s \in Servers, Renews(s)
    PROVE  LockInv'
  <1>1. UNCHANGED <<redis, stalls>> /\ cleaner[s] = "sleeping"
    BY DEF Renews
  <1>2. CASE renew_lock(s)
    <2>1. Becomes(s, "reading") /\ LockTo(s)
      BY <1>2 DEF Renews
    <2>2. cleaner' \in [Servers -> Phases]
      BY <2>1 DEF LockInv, Becomes, Phases
    <2>3. cleaner'[s] = "reading" /\ \A r \in Servers \ {s} : cleaner'[r] = cleaner[r]
      BY <2>1 DEF LockInv, Becomes
    <2>4. HoldersHold'
      <3> SUFFICES ASSUME redis, stalls = 0, NEW r \in Servers, Holding(r)'
                   PROVE  lock' = r
        BY <1>1 DEF HoldersHold
      <3>1. lock = s /\ lock' = s
        BY <1>1, <2>1 DEF LockInv, HoldersHold, Holding, Cleaning, LockTo
      <3>2. Holding(r)
        BY <1>1, <2>3 DEF Holding, Cleaning
      <3>3. QED
        BY <3>1, <3>2 DEF LockInv, HoldersHold
    <2>5. QED
      BY <1>1, <2>2, <2>4 DEF LockInv
  <1>3. CASE ~ renew_lock(s)
    <2>1. Becomes(s, "releasing") /\ UNCHANGED lock
      BY <1>3 DEF Renews
    <2>2. QED
      BY <1>1, <2>1, MovesAlone DEF Phases
  <1>4. QED
    BY <1>2, <1>3

\* Deleting frees a lock that no other cleaner can hold.
LEMMA DeletesLockInv ==
    ASSUME LockInv, NEW s \in Servers, Deletes(s)
    PROVE  LockInv'
  <1>1. /\ cleaner[s] = "deleting" /\ Becomes(s, "out")
        /\ UNCHANGED <<redis, stalls>>
    BY DEF Deletes
  <1>2. cleaner' \in [Servers -> Phases]
    BY <1>1 DEF LockInv, Becomes, Phases
  <1>3. cleaner'[s] = "out" /\ \A r \in Servers \ {s} : cleaner'[r] = cleaner[r]
    BY <1>1 DEF LockInv, Becomes
  <1>4. HoldersHold'
    <2> SUFFICES ASSUME redis, stalls = 0, NEW r \in Servers, Holding(r)'
                 PROVE  FALSE
      BY <1>1 DEF HoldersHold
    <2>1. r # s /\ Holding(r)
      BY <1>3 DEF Holding, Cleaning
    <2>2. lock = r /\ lock = s
      BY <1>1, <2>1 DEF LockInv, HoldersHold, Holding
    <2>3. QED
      BY <2>1, <2>2
  <1>5. QED
    BY <1>1, <1>2, <1>4 DEF LockInv

\* A crash leaves the lock to nobody that cleans.
LEMMA CrashesLockInv ==
    ASSUME LockInv, NEW s \in Servers, Crashes(s)
    PROVE  LockInv'
  <1>1. /\ Becomes(s, "down") /\ UNCHANGED <<redis, stalls>>
        /\ lock' = IF lock = s THEN Dead ELSE lock
    BY DEF Crashes
  <1>2. cleaner' \in [Servers -> Phases]
    BY <1>1 DEF LockInv, Becomes, Phases
  <1>3. cleaner'[s] = "down" /\ \A r \in Servers \ {s} : cleaner'[r] = cleaner[r]
    BY <1>1 DEF LockInv, Becomes
  <1>4. HoldersHold'
    <2> SUFFICES ASSUME redis, stalls = 0, NEW r \in Servers, Holding(r)'
                 PROVE  lock' = r
      BY <1>1 DEF HoldersHold
    <2>1. r # s /\ Holding(r)
      BY <1>3 DEF Holding, Cleaning
    <2>2. lock = r
      BY <2>1 DEF LockInv, HoldersHold
    <2>3. QED
      BY <1>1, <2>1, <2>2
  <1>5. QED
    BY <1>1, <1>2, <1>4 DEF LockInv

\* Each step of the cleaner keeps who holds the lock.
LEMMA CleansLockInv ==
    ASSUME LockInv, NEW s \in Servers, Cleans(s)
    PROVE  LockInv'
  <1>1. CASE Releases(s)
    <2>1. PICK pc \in {"deleting", "out"} : Becomes(s, pc) /\ (pc = "deleting" => lock = s)
      BY <1>1 DEF Releases
    <2>2. QED
      BY <1>1, <2>1, MovesAlone DEF Releases, Phases
  <1>2. CASE Reads(s)
    <2>1. PICK pc \in {"writing", "sleeping"} : Becomes(s, pc)
      BY <1>2 DEF Reads
    <2>2. Holding(s) /\ UNCHANGED <<redis, lock, stalls>>
      BY <1>2 DEF Reads, Holding, Cleaning
    <2>3. QED
      BY <2>1, <2>2, MovesAlone DEF Phases
  <1>3. CASE Sleeps(s)
    <2>1. Becomes(s, "sleeping") /\ Holding(s) /\ UNCHANGED <<redis, lock, stalls>>
      BY <1>3 DEF Sleeps, Holding, Cleaning
    <2>2. QED
      BY <2>1, MovesAlone DEF Phases
  <1>4. ASSUME NEW m \in Models, Writes(s, m) PROVE LockInv'
    <2>1. UNCHANGED <<redis, lock, stalls>>
      BY <1>4 DEF Writes
    <2>2. CASE Becomes(s, "releasing")
      BY <2>1, <2>2, MovesAlone DEF Phases
    <2>3. CASE UNCHANGED cleaner
      BY <2>1, <2>3 DEF LockInv, HoldersHold, Holding, Cleaning
    <2>4. QED
      BY <1>4, <2>2, <2>3 DEF Writes
  <1>5. QED
    BY <1>1, <1>2, <1>3, <1>4, AcquiresLockInv, RenewsLockInv, DeletesLockInv DEF Cleans

\* Every step.
LEMMA NextLockInv == LockInv /\ [Next]_vars => LockInv'
  <1> SUFFICES ASSUME LockInv, [Next]_vars
               PROVE  LockInv'
    OBVIOUS
  <1>1. ASSUME UNCHANGED <<redis, lock, cleaner, stalls>> PROVE LockInv'
    BY <1>1 DEF LockInv, HoldersHold, Holding, Cleaning
  <1>2. CASE UNCHANGED vars
    BY <1>1, <1>2 DEF vars
  <1>3. ASSUME NEW s \in Servers, Records(s) PROVE LockInv'
    BY <1>1, <1>3 DEF Records, Gets, Sets
  <1>4. ASSUME NEW s \in Servers, NEW sid \in Sids, NEW m \in Models, usage(s, sid, m)
        PROVE  LockInv'
    BY <1>1, <1>4 DEF usage
  <1>5. CASE Ticks
    BY <1>1, <1>5 DEF Ticks
  <1>6. CASE Expires
    <2>1. UNCHANGED <<redis, cleaner>> /\ lock' = NoServer
      BY <1>6 DEF Expires
    <2>2. stalls' \in Nat /\ (stalls' = 0 => stalls = 0 /\ ~ HeldLive)
      BY <1>6 DEF Expires, LockInv
    <2>3. HoldersHold'
      <3> SUFFICES ASSUME redis, stalls' = 0, NEW r \in Servers, Holding(r)
                   PROVE  FALSE
        BY <2>1 DEF HoldersHold, Holding, Cleaning
      <3>1. lock = r /\ ~ HeldLive
        BY <2>2 DEF LockInv, HoldersHold
      <3>2. QED
        BY <3>1 DEF HeldLive, Holding
    <2>4. QED
      BY <2>1, <2>2, <2>3 DEF LockInv
  <1>7. ASSUME NEW s \in Servers, Restarts(s) PROVE LockInv'
    <2>1. Becomes(s, "trying") /\ UNCHANGED <<redis, lock, stalls>>
      BY <1>7 DEF Restarts
    <2>2. QED
      BY <2>1, MovesAlone DEF Phases
  <1>8. ASSUME NEW s \in Servers, CleanerFails(s) PROVE LockInv'
    <2>1. PICK pc \in {"releasing", "out"} : Becomes(s, pc)
      BY <1>8 DEF CleanerFails
    <2>2. QED
      BY <1>8, <2>1, MovesAlone DEF CleanerFails, Phases
  <1>9. ASSUME NEW s \in Servers, UsageFails(s) PROVE LockInv'
    BY <1>1, <1>9 DEF UsageFails
  <1>10. QED
    BY <1>2, <1>3, <1>4, <1>5, <1>6, <1>7, <1>8, <1>9, CleansLockInv, CrashesLockInv DEF Next

\* The lock is always that of the server that cleans or is about to delete it.
THEOREM LockInvariant == Spec => []LockInv
  BY InitLockInv, NextLockInv, PTL DEF Spec

\* While no lock expires under a live server, whoever cleans holds the lock, so
\* no two servers clean (periodic_usage_pool_cleanup, RedisLock).
THEOREM OneCleans == Spec => []CleanerHoldsLock
  <1>1. LockInv => CleanerHoldsLock
    BY DEF LockInv, HoldersHold, CleanerHoldsLock, Holding
  <1>2. QED
    BY <1>1, LockInvariant, PTL
-----------------------------------------------------------------------------
(* Types.  TypeOK needs that a server still trying has an attempt left.    *)

TypesInv == TypeOK /\ \A s \in Servers : cleaner[s] = "trying" => attempt[s] \in 0..2

Times == {None} \cup 0..(TIMEOUT_DURATION + 1)

\* A tick keeps a time within what is told apart.
LEMMA OlderTime ==
    ASSUME NEW time \in Times, time # None, ~ Expired(time)
    PROVE  time + 1 \in Times
  BY UsageAssumption DEF Times, Expired

\* Connections stay connections when they are cleaned, added to or aged.
LEMMA ConnectionTypes ==
    /\ Absent \in Connections
    /\ [m \in Models |-> Absent] \in Pools
    /\ \A t \in Connections :
          /\ Unexpired(t) \in Connections
          /\ Older(t) \in Connections
          /\ \A sid \in Sids : t[sid] \in Times
          /\ \A sid \in Sids, time \in Times : With(t, sid, time) \in Connections
    /\ 0 \in Times
  <1>1. Connections = [Sids -> Times]
    BY DEF Connections, Times
  <1>2. None \in Times
    BY DEF Times
  <1>3. 0 \in Times
    BY UsageAssumption DEF Times
  <1>4. ASSUME NEW t \in Connections PROVE Older(t) \in Connections
    <2>1. ASSUME NEW sid \in Sids
          PROVE  (IF t[sid] = None \/ Expired(t[sid]) THEN t[sid] ELSE t[sid] + 1) \in Times
      BY <1>1, OlderTime
    <2>2. QED
      BY <1>1, <2>1 DEF Older
  <1>5. ASSUME NEW t \in Connections PROVE Unexpired(t) \in Connections
    BY <1>1, <1>2 DEF Unexpired
  <1>6. Absent \in Connections /\ [m \in Models |-> Absent] \in Pools
    BY <1>1, <1>2 DEF Absent, Pools
  <1>7. QED
    BY <1>1, <1>3, <1>4, <1>5, <1>6 DEF With

\* What a tick makes of a pool and of a usage event.
LEMMA OlderTypes ==
    /\ \A pool \in Pools : OlderPool(pool) \in Pools
    /\ \A e \in {NotRecording} \cup UsageEvent : OlderEvent(e) \in {NotRecording} \cup UsageEvent
  <1>1. ASSUME NEW pool \in Pools PROVE OlderPool(pool) \in Pools
    BY ConnectionTypes DEF OlderPool, Pools
  <1>2. ASSUME NEW e \in UsageEvent PROVE [e EXCEPT !.connections = Older(@)] \in UsageEvent
    BY ConnectionTypes DEF UsageEvent
  <1>3. QED
    BY <1>1, <1>2 DEF OlderEvent

\* A round that is over leaves nothing to write.
LEMMA RoundOverTypes ==
    ASSUME TypesInv, NEW s \in Servers, RoundOver(s)
    PROVE  /\ snapshot' \in [Servers -> Pools]
           /\ todo' \in [Servers -> SUBSET Models]
           /\ todo'[s] = {} /\ \A r \in Servers \ {s} : todo'[r] = todo[r]
  <1>1. snapshot' \in [Servers -> Pools]
    BY ConnectionTypes DEF RoundOver, TypesInv, TypeOK
  <1>2. QED
    BY <1>1 DEF RoundOver, TypesInv, TypeOK

\* At first no model is in use and nobody cleans.
LEMMA InitTypes == Init => TypesInv
  BY UsageAssumption, ConnectionTypes DEF Init, TypesInv, TypeOK, Phases

\* The cleaner's steps around the lock.
LEMMA LockTypes ==
    ASSUME TypesInv, NEW s \in Servers,
           Acquires(s) \/ Renews(s) \/ Releases(s) \/ Deletes(s)
    PROVE  TypesInv'
  <1> USE UsageAssumption DEF Becomes, TypesInv, TypeOK, Phases, round
  <1>1. CASE Acquires(s)
    BY <1>1 DEF Acquires, LockTo, Retries
  <1>2. CASE Renews(s)
    BY <1>2 DEF Renews, LockTo
  <1>3. CASE Releases(s)
    BY <1>3 DEF Releases
  <1>4. CASE Deletes(s)
    BY <1>4 DEF Deletes
  <1>5. QED
    BY <1>1, <1>2, <1>3, <1>4

\* What one write of a round does to the pool and to the round.
LEMMA WritesTypes ==
    ASSUME TypesInv, NEW s \in Servers, NEW m \in Models, Writes(s, m)
    PROVE  TypesInv'
  <1>1. cleaner[s] = "writing" /\ m \in todo[s]
    BY DEF Writes
  <1>2. CASE RoundOver(s) /\ Becomes(s, "releasing") /\ UNCHANGED USAGE_POOL
    BY <1>1, <1>2, RoundOverTypes DEF Writes, Becomes, TypesInv, TypeOK, Phases
  <1>3. CASE /\ USAGE_POOL' = [USAGE_POOL EXCEPT ![m] = snapshot[s][m]]
             /\ todo' = [todo EXCEPT ![s] = @ \ {m}]
             /\ UNCHANGED <<snapshot, cleaner>>
    <2>1. USAGE_POOL' \in Pools
      BY <1>3 DEF TypesInv, TypeOK, Pools
    <2>2. QED
      BY <1>1, <1>3, <2>1 DEF Writes, TypesInv, TypeOK
  <1>4. QED
    BY <1>2, <1>3 DEF Writes

\* The steps of a round.
LEMMA RoundTypes ==
    ASSUME TypesInv, NEW s \in Servers,
           Reads(s) \/ Sleeps(s) \/ \E m \in Models : Writes(s, m)
    PROVE  TypesInv'
  <1>1. CASE Reads(s)
    <2>1. USAGE_POOL' \in Pools
      BY <1>1, ConnectionTypes DEF Reads, TypesInv, TypeOK, Pools
    <2>2. snapshot' \in [Servers -> Pools] /\ todo' \in [Servers -> SUBSET Models]
      <3>1. [m \in Models |-> Unexpired(USAGE_POOL[m])] \in Pools
        BY ConnectionTypes DEF TypesInv, TypeOK, Pools
      <3>2. QED
        BY <1>1, <3>1 DEF Reads, InUse, TypesInv, TypeOK, round
    <2>3. QED
      BY <1>1, <2>1, <2>2 DEF Reads, Becomes, TypesInv, TypeOK, Phases, round
  <1>2. CASE Sleeps(s)
    BY <1>2, RoundOverTypes DEF Sleeps, Becomes, TypesInv, TypeOK, Phases
  <1>3. QED
    BY <1>1, <1>2, WritesTypes

\* A usage event, from its arrival to its entry.
LEMMA RecordTypes ==
    ASSUME TypesInv, NEW s \in Servers,
           Gets(s) \/ Sets(s) \/ \E sid \in Sids, m \in Models : usage(s, sid, m)
    PROVE  TypesInv'
  <1>1. CASE Gets(s)
    <2>1. recording[s] \in UsageEvent
      BY <1>1 DEF Gets, TypesInv, TypeOK, NotRecording
    <2>2. USAGE_POOL[recording[s].model] \in Connections
      BY <2>1 DEF TypesInv, TypeOK, Pools, UsageEvent
    <2>3. PICK c \in Connections :
             c = With(USAGE_POOL[recording[s].model], recording[s].sid,
                      recording[s].connections[recording[s].sid])
      BY <2>1, <2>2, ConnectionTypes DEF UsageEvent
    <2>4. [recording[s] EXCEPT !.pc = "set", !.connections = c] \in UsageEvent
      BY <2>1 DEF UsageEvent
    <2>5. recording' \in [Servers -> {NotRecording} \cup UsageEvent]
      BY <1>1, <2>3, <2>4 DEF Gets, TypesInv, TypeOK
    <2>6. QED
      BY <1>1, <2>5 DEF Gets, TypesInv, TypeOK, round
  <1>2. CASE Sets(s)
    <2>1. recording[s] \in UsageEvent
      BY <1>2 DEF Sets, TypesInv, TypeOK, NotRecording
    <2>2. USAGE_POOL' \in Pools
      BY <1>2, <2>1, ConnectionTypes DEF Sets, TypesInv, TypeOK, Pools, UsageEvent
    <2>3. QED
      BY <1>2, <2>2 DEF Sets, TypesInv, TypeOK, round
  <1>3. ASSUME NEW sid \in Sids, NEW m \in Models, usage(s, sid, m)
        PROVE  TypesInv'
    <2>1. USAGE_POOL' \in Pools
      <3>1. USAGE_POOL[m] \in Connections
        BY DEF TypesInv, TypeOK, Pools
      <3>2. With(USAGE_POOL[m], sid, 0) \in Connections
        BY <3>1, ConnectionTypes
      <3>3. USAGE_POOL' \in {USAGE_POOL, [USAGE_POOL EXCEPT ![m] = With(USAGE_POOL[m], sid, 0)]}
        BY <1>3 DEF usage
      <3>4. QED
        BY <3>2, <3>3 DEF TypesInv, TypeOK, Pools
    <2>2. recording' \in [Servers -> {NotRecording} \cup UsageEvent]
      <3>1. \A pc \in {"get", "set"} :
               [pc |-> pc, sid |-> sid, model |-> m, connections |-> With(Absent, sid, 0)]
                 \in UsageEvent
        BY ConnectionTypes DEF UsageEvent
      <3>2. CASE redis
        BY <1>3, <3>1, <3>2 DEF usage, TypesInv, TypeOK
      <3>3. CASE ~ redis
        BY <1>3, <3>3 DEF usage, TypesInv, TypeOK
      <3>4. QED
        BY <3>2, <3>3
    <2>3. QED
      BY <1>3, <2>1, <2>2 DEF usage, TypesInv, TypeOK, round
  <1>4. QED
    BY <1>1, <1>2, <1>3

\* Time, crashes and restarts.
LEMMA FailureTypes ==
    ASSUME TypesInv,
           \/ Ticks \/ Expires
           \/ \E s \in Servers : CleanerFails(s) \/ UsageFails(s) \/ Crashes(s) \/ Restarts(s)
    PROVE  TypesInv'
  <1>1. CASE Ticks
    <2>1. USAGE_POOL' \in Pools
      BY <1>1, OlderTypes DEF Ticks, TypesInv, TypeOK
    <2>2. snapshot' \in [Servers -> Pools]
      BY <1>1, OlderTypes DEF Ticks, TypesInv, TypeOK
    <2>3. recording' \in [Servers -> {NotRecording} \cup UsageEvent]
      BY <1>1, OlderTypes DEF Ticks, TypesInv, TypeOK
    <2>4. QED
      BY <1>1, <2>1, <2>2, <2>3 DEF Ticks, TypesInv, TypeOK
  <1>2. CASE Expires
    BY <1>2, UsageAssumption DEF Expires, TypesInv, TypeOK, round
  <1>3. ASSUME NEW s \in Servers, Crashes(s)
        PROVE  TypesInv'
    BY <1>3, RoundOverTypes, UsageAssumption
    DEF Crashes, Up, Becomes, TypesInv, TypeOK, Phases
  <1>4. ASSUME NEW s \in Servers, Restarts(s)
        PROVE  TypesInv'
    BY <1>4 DEF Restarts, Up, Becomes, TypesInv, TypeOK, Phases, round
  <1>5. ASSUME NEW s \in Servers, CleanerFails(s)
        PROVE  TypesInv'
    BY <1>5, RoundOverTypes DEF CleanerFails, Becomes, TypesInv, TypeOK, Phases
  <1>6. ASSUME NEW s \in Servers, UsageFails(s)
        PROVE  TypesInv'
    BY <1>6 DEF UsageFails, TypesInv, TypeOK, round
  <1>7. QED
    BY <1>1, <1>2, <1>3, <1>4, <1>5, <1>6

\* Every step.
LEMMA NextTypes == TypesInv /\ [Next]_vars => TypesInv'
  <1> SUFFICES ASSUME TypesInv, [Next]_vars PROVE TypesInv'
    OBVIOUS
  <1>1. CASE UNCHANGED vars
    BY <1>1 DEF vars, round, TypesInv, TypeOK
  <1>2. CASE Next
    BY <1>2, LockTypes, RoundTypes, RecordTypes, FailureTypes DEF Next, Cleans, Records
  <1>3. QED
    BY <1>1, <1>2

\* The variables keep their types, and a server makes at most three attempts to
\* get the lock (periodic_usage_pool_cleanup, main.py 153-166).
THEOREM UsageTypesCorrect == Spec => []TypeOK
  <1>1. TypesInv => TypeOK
    BY DEF TypesInv
  <1>2. QED
    BY <1>1, InitTypes, NextTypes, PTL DEF Spec
=============================================================================
