-------------------------- MODULE TaskRegistryProofs --------------------------
(***************************************************************************)
(* Proofs about TaskRegistry, for any finite set of tasks and any number   *)
(* of instances, items, stop requests and failures: the two tables of an   *)
(* instance agree, Redis lists what runs, and without Redis a task that is *)
(* being stopped has somebody who waits for it.                            *)
(*                                                                         *)
(* LifeInv relates the progress of a task, of its creation and of its      *)
(* clean-up; SavedInv says what Redis keeps of a task whether it still     *)
(* runs or not; TablesAgree and StopWaited are then inductive.             *)
(***************************************************************************)
EXTENDS TaskRegistry, FiniteSetTheorems, TLAPS

-----------------------------------------------------------------------------
(* Lists of tasks.                                                         *)

ListTypes(list) == list \in Seq(Tasks) /\ IsInjective(list)

\* The elements of two sequences that are joined.
LEMMA Concatenated ==
    ASSUME NEW S, NEW a \in Seq(S), NEW b \in Seq(S)
    PROVE  /\ a \o b \in Seq(S)
           /\ Len(a \o b) = Len(a) + Len(b)
           /\ \A i \in 1..Len(a) + Len(b) :
                (a \o b)[i] = IF i <= Len(a) THEN a[i] ELSE b[i - Len(a)]
  OBVIOUS

\* list.remove takes out a task, which a list without duplicates has once.
LEMMA RemovesOne ==
    ASSUME NEW list, ListTypes(list), NEW t \in ToSet(list)
    PROVE  /\ ListTypes(RemoveFirst(list, t))
           /\ ToSet(RemoveFirst(list, t)) = ToSet(list) \ {t}
  <1>1. list \in Seq(Tasks) /\ IsInjective(list)
    BY DEF ListTypes
  <1>2. PICK n \in 1..Len(list) : list[n] = t
    BY <1>1 DEF ToSet
  <1>3. {i \in 1..Len(list) : list[i] = t} = {n}
    BY <1>1, <1>2 DEF IsInjective
  <1>4. Min({n}) = n
    BY <1>2 DEF Min
  <1>5. RemoveFirst(list, t) = SubSeq(list, 1, n - 1) \o SubSeq(list, n + 1, Len(list))
    BY <1>2, <1>3, <1>4 DEF RemoveFirst, RemoveAt, SelectInSeq
  <1> DEFINE before == SubSeq(list, 1, n - 1)
             after == SubSeq(list, n + 1, Len(list))
             rest == before \o after
  <1>6. /\ before \in Seq(Tasks) /\ Len(before) = n - 1
        /\ \A i \in 1..n - 1 : before[i] = list[i]
    BY <1>1, <1>2
  <1>7. /\ after \in Seq(Tasks) /\ Len(after) = Len(list) - n
        /\ \A i \in 1..Len(list) - n : after[i] = list[n + i]
    BY <1>1, <1>2
  <1>8. /\ rest \in Seq(Tasks) /\ DOMAIN rest = 1..Len(list) - 1
        /\ \A i \in 1..Len(list) - 1 : rest[i] = IF i < n THEN list[i] ELSE list[i + 1]
    <2> HIDE DEF before, after
    <2>1. Len(list) \in Nat /\ n - 1 \in Nat /\ Len(list) - n \in Nat
      BY <1>1, <1>2
    <2>2. /\ rest \in Seq(Tasks) /\ Len(rest) = Len(before) + Len(after)
          /\ \A i \in 1..Len(before) + Len(after) :
                rest[i] = IF i <= Len(before) THEN before[i] ELSE after[i - Len(before)]
      BY <1>6, <1>7, Concatenated
    <2> HIDE DEF rest
    <2>3. /\ Len(before) + Len(after) = Len(list) - 1 /\ Len(before) = n - 1
          /\ \A i \in 1..Len(list) - 1 : i <= n - 1 <=> i < n
      BY <1>2, <1>6, <1>7, <2>1
    <2>4. /\ rest \in Seq(Tasks) /\ Len(rest) = Len(list) - 1
          /\ \A i \in 1..Len(list) - 1 :
                rest[i] = IF i < n THEN before[i] ELSE after[i - (n - 1)]
      BY <2>2, <2>3
    <2>5. ASSUME NEW i \in 1..Len(list) - 1
          PROVE  rest[i] = IF i < n THEN list[i] ELSE list[i + 1]
      <3>1. CASE i < n
        BY <1>2, <1>6, <2>1, <2>4, <3>1
      <3>2. CASE ~ i < n
        <4>1. i - (n - 1) \in 1..Len(list) - n /\ n + (i - (n - 1)) = i + 1
          BY <1>2, <2>1, <3>2
        <4>2. QED
          BY <1>7, <2>4, <3>2, <4>1
      <3>3. QED
        BY <3>1, <3>2
    <2>6. QED
      BY <2>4, <2>5
  <1> HIDE DEF rest
  <1>9. IsInjective(rest)
    <2> SUFFICES ASSUME NEW i \in 1..Len(list) - 1, NEW j \in 1..Len(list) - 1,
                        rest[i] = rest[j]
                 PROVE  i = j
      BY <1>8 DEF IsInjective
    <2>1. \A a, b \in 1..Len(list) : list[a] = list[b] => a = b
      BY <1>1 DEF IsInjective
    <2>2. Len(list) \in Nat
      BY <1>1
    <2>3. CASE i < n /\ j < n
      BY <1>8, <2>1, <2>2, <2>3
    <2>4. CASE i >= n /\ j >= n
      BY <1>8, <2>1, <2>2, <2>4
    <2>5. CASE i < n /\ j >= n
      BY <1>8, <2>1, <2>2, <2>5
    <2>6. CASE i >= n /\ j < n
      BY <1>8, <2>1, <2>2, <2>6
    <2>7. QED
      BY <1>2, <2>3, <2>4, <2>5, <2>6
  <1>10. ToSet(rest) = ToSet(list) \ {t}
    <2>1. ASSUME NEW i \in 1..Len(list) - 1
          PROVE  rest[i] \in ToSet(list) \ {t}
      BY <1>1, <1>2, <1>8 DEF ToSet, IsInjective
    <2>2. ASSUME NEW i \in 1..Len(list), list[i] # t
          PROVE  list[i] \in ToSet(rest)
      <3>1. CASE i < n
        BY <1>1, <1>2, <1>8, <3>1 DEF ToSet
      <3>2. CASE i > n
        <4>1. i - 1 \in 1..Len(list) - 1 /\ rest[i - 1] = list[i]
          BY <1>1, <1>2, <1>8, <3>2
        <4>2. QED
          BY <1>8, <4>1 DEF ToSet
      <3>3. QED
        BY <1>2, <2>2, <3>1, <3>2
    <2>3. QED
      BY <1>1, <1>8, <2>1, <2>2 DEF ToSet
  <1>11. QED
    BY <1>5, <1>8, <1>9, <1>10 DEF ListTypes, rest

\* A task that is appended to a list without it is there once.
LEMMA AppendsOne ==
    ASSUME NEW list, ListTypes(list), NEW t \in Tasks, t \notin ToSet(list)
    PROVE  /\ ListTypes(Append(list, t))
           /\ ToSet(Append(list, t)) = ToSet(list) \cup {t}
  <1>1. list \in Seq(Tasks) /\ IsInjective(list) /\ Len(list) \in Nat
        /\ DOMAIN list = 1..Len(list)
    BY DEF ListTypes
  <1> DEFINE longer == Append(list, t)
  <1>2. /\ longer \in Seq(Tasks) /\ DOMAIN longer = 1..Len(list) + 1
        /\ \A i \in 1..Len(list) : longer[i] = list[i]
        /\ longer[Len(list) + 1] = t
    BY <1>1
  <1> HIDE DEF longer
  <1>3. \A i \in 1..Len(list) : list[i] # t
    BY <1>1 DEF ToSet
  <1>4. \A i \in 1..Len(list) + 1 : i \in 1..Len(list) \/ i = Len(list) + 1
    BY <1>1
  <1>5. IsInjective(longer)
    BY <1>1, <1>2, <1>3, <1>4 DEF IsInjective
  <1>6. ToSet(longer) = ToSet(list) \cup {t}
    BY <1>1, <1>2, <1>4 DEF ToSet
  <1>7. QED
    BY <1>2, <1>5, <1>6 DEF ListTypes, longer

-----------------------------------------------------------------------------
(* The invariant.                                                          *)

LifeInv ==
    /\ \A t \in Tasks : /\ home[t] = Nowhere <=> run[t] = "none"
                        /\ run[t] = "none" => creating[t] = "none"
                        /\ cleanup[t] # "none" <=> run[t] = "ended"
    /\ ~ redis => /\ \A t \in Tasks : home[t] \in {Nowhere, Primary}
                  /\ \A i \in Instances : instance[i] = "up"

SavedInv ==
    /\ redis => \A t \in Tasks :
          creating[t] = "returned" /\ cleanup[t] = "none" => t \in redis_tasks
    /\ \A item \in Items : \A t \in redis_items[item] :
          ItemOf[t] = item /\ t \in redis_tasks

RegistryInv == TypeOK /\ LifeInv /\ SavedInv /\ TablesAgree /\ StopWaited

\* What is left of a list and of the requests that go through it.
LEMMA ForgottenResult ==
    ASSUME TypeOK, TablesAgree, NEW t \in Tasks, home[t] \in Instances,
           instance[home[t]] # "down", cleanup[t] # "done", Forgotten(t)
    PROVE  /\ item_tasks' \in [Instances -> [Items -> Seq(Tasks)]]
           /\ \A i \in Instances, item \in Items :
                 IF i = home[t] /\ item = ItemOf[t]
                   THEN /\ IsInjective(item_tasks'[i][item])
                        /\ ToSet(item_tasks'[i][item]) = ToSet(item_tasks[i][item]) \ {t}
                   ELSE item_tasks'[i][item] = item_tasks[i][item]
           /\ stop' \in [Stops -> StopRequest]
           /\ \A s \in Stops : stop'[s].pc = stop[s].pc /\ stop'[s].task = stop[s].task
  <1> DEFINE i == home[t]
             item == ItemOf[t]
             rest == RemoveFirst(item_tasks[i][item], t)
  <1>1. i \in Instances /\ item \in Items
    BY RegistryAssumption
  <1>2. item_tasks[i][item] \in Seq(Tasks)
    BY <1>1 DEF TypeOK
  <1>3. IsInjective(item_tasks[i][item]) /\ t \in ToSet(item_tasks[i][item])
    BY <1>1 DEF TablesAgree
  <1>4. /\ rest \in Seq(Tasks) /\ IsInjective(rest)
        /\ ToSet(rest) = ToSet(item_tasks[i][item]) \ {t}
    BY <1>2, <1>3, RemovesOne DEF ListTypes
  <1>5. item_tasks' = [item_tasks EXCEPT ![i][item] = rest]
    BY DEF Forgotten
  <1> HIDE DEF rest
  <1>6. /\ item_tasks' \in [Instances -> [Items -> Seq(Tasks)]]
        /\ \A j \in Instances, x \in Items :
              item_tasks'[j][x] = IF j = i /\ x = item THEN rest ELSE item_tasks[j][x]
    BY <1>1, <1>4, <1>5 DEF TypeOK
  <1>7. ASSUME NEW s \in Stops
        PROVE  /\ stop'[s] \in StopRequest
               /\ stop'[s].pc = stop[s].pc /\ stop'[s].task = stop[s].task
    <2>1. stop[s] \in StopRequest /\ Len(stop[s].ids) + 1 \in Nat \ {0}
      <3>1. stop[s] \in StopRequest
        BY DEF TypeOK
      <3>2. stop[s].ids \in Seq(Tasks)
        BY <3>1 DEF StopRequest
      <3>3. QED
        BY <3>1, <3>2
    <2>2. [stop[s] EXCEPT !.live = NoItem, !.index = Len(stop[s].ids) + 1] \in StopRequest
      BY <2>1 DEF StopRequest
    <2>3. stop'[s] \in {stop[s],
                        [stop[s] EXCEPT !.live = NoItem, !.index = Len(stop[s].ids) + 1]}
      BY DEF Forgotten
    <2>4. QED
      BY <2>1, <2>2, <2>3 DEF StopRequest
  <1>8. stop' \in [Stops -> StopRequest]
    BY <1>7 DEF Forgotten
  <1>9. QED
    BY <1>1, <1>4, <1>6, <1>7, <1>8

\* A task is forgotten after it has ended, on an instance that is up.
LEMMA ForgetsListed ==
    ASSUME TypeOK, LifeInv, NEW t \in Tasks, cleanup_task(t) \/ local_cleanup(t)
    PROVE  /\ home[t] \in Instances /\ instance[home[t]] # "down"
           /\ cleanup[t] # "done" /\ run[t] = "ended" /\ Forgotten(t)
           /\ UNCHANGED <<redis, instance, home, run, creating, registry, commands, failures>>
  <1>1. /\ cleanup[t] \in {"due", "local"} /\ Forgotten(t)
        /\ UNCHANGED <<redis, instance, home, run, creating, registry, commands, failures>>
    BY DEF cleanup_task, local_cleanup
  <1>2. run[t] = "ended" /\ home[t] # Nowhere
    BY <1>1 DEF LifeInv
  <1>3. home[t] \in Instances
    BY <1>2 DEF TypeOK
  <1>4. instance[home[t]] # "down"
    BY <1>2, <1>3 DEF cleanup_task, local_cleanup, Alive, LifeInv
  <1>5. QED
    BY <1>1, <1>2, <1>3, <1>4

\* A request that begins, or goes on, is a request.
LEMMA RequestTypes ==
    ASSUME TypeOK, NEW s \in Stops
    PROVE  /\ stop[s] \in StopRequest /\ Idle \in StopRequest
           /\ \A result \in {"stopped", "not found", "failed"} : Over(result) \in StopRequest
           /\ \A ids \in Seq(Tasks), live \in Items \cup {NoItem} :
                [Idle EXCEPT !.pc = "going", !.ids = ids, !.live = live] \in StopRequest
           /\ \A ids \in Seq(Tasks) :
                [Idle EXCEPT !.pc = "going", !.ids = ids] \in StopRequest
           /\ [stop[s] EXCEPT !.index = @ + 1] \in StopRequest
           /\ \A t \in Tasks, pc \in {"going", "waiting"} :
                [stop[s] EXCEPT !.pc = pc, !.index = @ + 1, !.task = t] \in StopRequest
  <1>1. stop[s] \in StopRequest
    BY DEF TypeOK
  <1>2. stop[s].index + 1 \in Nat \ {0}
    <2>1. stop[s].index \in Nat \ {0}
      BY <1>1 DEF StopRequest
    <2>2. QED
      BY <2>1
  <1>3. <<>> \in Seq(Tasks)
    OBVIOUS
  <1>4. Idle \in StopRequest
    BY <1>3 DEF StopRequest, Idle
  <1>5. \A result \in {"stopped", "not found", "failed"} : Over(result) \in StopRequest
    BY <1>4 DEF StopRequest, Over
  <1>6. \A ids \in Seq(Tasks), live \in Items \cup {NoItem} :
           [Idle EXCEPT !.pc = "going", !.ids = ids, !.live = live] \in StopRequest
    BY <1>4 DEF StopRequest
  <1>7. \A ids \in Seq(Tasks) : [Idle EXCEPT !.pc = "going", !.ids = ids] \in StopRequest
    BY <1>4 DEF StopRequest
  <1>8. [stop[s] EXCEPT !.index = @ + 1] \in StopRequest
    BY <1>1, <1>2 DEF StopRequest
  <1>9. \A t \in Tasks, pc \in {"going", "waiting"} :
           [stop[s] EXCEPT !.pc = pc, !.index = @ + 1, !.task = t] \in StopRequest
    BY <1>1, <1>2 DEF StopRequest
  <1>10. QED
    BY <1>1, <1>4, <1>5, <1>6, <1>7, <1>8, <1>9

\* The tasks found for an item are a finite set, so its orders are sequences.
LEMMA FoundTypes ==
    ASSUME TypeOK, NEW item \in Items
    PROVE  /\ item_tasks[Primary][item] \in Seq(Tasks)
           /\ redis => SetToSeqs(Found(item)) \subseteq Seq(Tasks)
  <1>1. item_tasks[Primary][item] \in Seq(Tasks)
    BY RegistryAssumption DEF TypeOK
  <1>2. ASSUME redis
        PROVE  SetToSeqs(Found(item)) \subseteq Seq(Tasks)
    <2>1. Found(item) \subseteq Tasks
      BY <1>2 DEF Found, TypeOK
    <2>2. Cardinality(Found(item)) \in Nat
      BY <2>1, RegistryAssumption, FS_Subset, FS_CardinalityType
    <2>3. \A f \in [1..Cardinality(Found(item)) -> Found(item)] : f \in Seq(Tasks)
      BY <2>1, <2>2
    <2>4. QED
      BY <2>3 DEF SetToSeqs
  <1>3. QED
    BY <1>1, <1>2

-----------------------------------------------------------------------------
(* Each step keeps each part of the invariant.                             *)

\* No step takes a variable out of its type.
LEMMA TypePreserved ==
    ASSUME RegistryInv, [Next]_vars
    PROVE  TypeOK'
  <1> TypeOK /\ LifeInv /\ TablesAgree
    BY DEF RegistryInv
  <1> USE RegistryAssumption
  <1>1. ASSUME NEW t \in Tasks, create_task(t)
        PROVE  TypeOK'
    <2> DEFINE i == CreatedOn(t)
               longer == Append(item_tasks[i][ItemOf[t]], t)
    <2>1. i \in Instances /\ ItemOf[t] \in Items
      BY DEF CreatedOn
    <2>2. longer \in Seq(Tasks)
      BY <2>1 DEF TypeOK
    <2>3. item_tasks' = [item_tasks EXCEPT ![i][ItemOf[t]] = longer]
      BY <1>1 DEF create_task, Appended
    <2> HIDE DEF longer
    <2>4. item_tasks' \in [Instances -> [Items -> Seq(Tasks)]]
      BY <2>1, <2>2, <2>3 DEF TypeOK
    <2>5. home' \in [Tasks -> Instances \cup {Nowhere}] /\ tasks' \in [Instances -> SUBSET Tasks]
      BY <1>1, <2>1 DEF create_task, TypeOK
    <2>6. /\ run' \in [Tasks -> {"none", "running", "cancelling", "ended", "lost"}]
          /\ creating' \in [Tasks -> {"none", "saving", "returned", "failed"}]
      BY <1>1 DEF create_task, TypeOK
    <2>7. QED
      BY <1>1, <2>4, <2>5, <2>6 DEF create_task, registry, TypeOK
  <1>2. ASSUME NEW t \in Tasks, redis_save_task(t)
        PROVE  TypeOK'
    <2>1. /\ redis_tasks' \in SUBSET Tasks /\ redis_items' \in [Items -> SUBSET Tasks]
          /\ creating' \in [Tasks -> {"none", "saving", "returned", "failed"}]
          /\ failures' \in 0..MaxFailures
      <3>1. CASE /\ redis_tasks' = redis_tasks \cup {t}
                 /\ redis_items' = [redis_items EXCEPT ![ItemOf[t]] = @ \cup {t}]
                 /\ creating' = [creating EXCEPT ![t] = "returned"]
                 /\ UNCHANGED failures
        BY <3>1 DEF TypeOK
      <3>2. CASE Fails /\ creating' = [creating EXCEPT ![t] = "failed"] /\ UNCHANGED registry
        BY <3>2 DEF registry, Fails, TypeOK
      <3>3. QED
        BY <1>2, <3>1, <3>2, Zenon DEF redis_save_task
    <2>2. QED
      BY <1>2, <2>1 DEF redis_save_task, TypeOK
  <1>3. ASSUME NEW t \in Tasks, Ends(t)
        PROVE  TypeOK'
    BY <1>3 DEF Ends, registry, TypeOK
  <1>4. ASSUME NEW t \in Tasks, cleanup_task(t) \/ local_cleanup(t)
        PROVE  TypeOK'
    <2>1. /\ item_tasks' \in [Instances -> [Items -> Seq(Tasks)]]
          /\ stop' \in [Stops -> StopRequest]
      BY <1>4, ForgetsListed, ForgottenResult
    <2>2. /\ tasks' \in [Instances -> SUBSET Tasks]
          /\ cleanup' \in [Tasks -> {"none", "due", "delete", "local", "done", "failed"}]
      <3>1. /\ tasks' = [tasks EXCEPT ![home[t]] = @ \ {t}]
            /\ cleanup' = [cleanup EXCEPT ![t] = "done"]
            /\ home[t] \in Instances
        BY <1>4, ForgetsListed DEF Forgotten
      <3>2. QED
        BY <3>1 DEF TypeOK
    <2>3. QED
      BY <1>4, <2>1, <2>2, ForgetsListed DEF registry, TypeOK
  <1>5. ASSUME NEW t \in Tasks, redis_cleanup_task(t) \/ redis_delete_item(t)
        PROVE  TypeOK'
    <2>1. /\ redis_tasks' \in SUBSET Tasks /\ redis_items' \in [Items -> SUBSET Tasks]
          /\ failures' \in 0..MaxFailures
      <3>1. failures' \in {failures, failures + 1} /\ (failures' # failures => failures < MaxFailures)
        BY <1>5 DEF redis_cleanup_task, redis_delete_item, Fails
      <3>2. redis_tasks' \in {redis_tasks, Unlisted(t)}
        BY <1>5 DEF redis_cleanup_task, redis_delete_item, registry
      <3>3. redis_items' \in {redis_items, UnlistedItem(t),
                              [redis_items EXCEPT ![ItemOf[t]] = {}]}
        BY <1>5 DEF redis_cleanup_task, redis_delete_item, registry
      <3>4. failures' \in 0..MaxFailures
        BY <3>1 DEF TypeOK
      <3>5. redis_tasks' \in SUBSET Tasks
        BY <3>2 DEF Unlisted, TypeOK
      <3>6. redis_items' \in [Items -> SUBSET Tasks]
        <4>1. redis_items \in [Items -> SUBSET Tasks] /\ ItemOf[t] \in Items
          BY DEF TypeOK
        <4>2. /\ UnlistedItem(t) \in [Items -> SUBSET Tasks]
              /\ [redis_items EXCEPT ![ItemOf[t]] = {}] \in [Items -> SUBSET Tasks]
          BY <4>1 DEF UnlistedItem
        <4>3. QED
          BY <3>3, <4>1, <4>2
      <3>7. QED
        BY <3>4, <3>5, <3>6
    <2>2. cleanup' \in [Tasks -> {"none", "due", "delete", "local", "done", "failed"}]
      BY <1>5 DEF redis_cleanup_task, redis_delete_item, TypeOK
    <2>3. QED
      BY <1>5, <2>1, <2>2 DEF redis_cleanup_task, redis_delete_item, TypeOK
  <1>6. ASSUME NEW s \in Stops, NEW item \in Items, stop_item_tasks(s, item)
        PROVE  TypeOK'
    <2>1. PICK ids \in Seq(Tasks), live \in Items \cup {NoItem} :
            stop' = [stop EXCEPT ![s] =
                       [Idle EXCEPT !.pc = "going", !.ids = ids, !.live = live]]
      BY <1>6, FoundTypes, Zenon DEF stop_item_tasks
    <2>2. stop' \in [Stops -> StopRequest]
      BY <2>1, RequestTypes DEF TypeOK
    <2>3. QED
      BY <1>6, <2>2 DEF stop_item_tasks, registry, TypeOK
  <1>7. ASSUME NEW s \in Stops, NEW t \in Tasks, stop_task_endpoint(s, t)
        PROVE  TypeOK'
    <2>1. stop' \in [Stops -> StopRequest]
      <3>1. <<t>> \in Seq(Tasks)
        OBVIOUS
      <3>2. [Idle EXCEPT !.pc = "going", !.ids = <<t>>] \in StopRequest
        BY <3>1, RequestTypes
      <3>3. QED
        BY <1>7, <3>2 DEF stop_task_endpoint, TypeOK
    <2>2. QED
      BY <1>7, <2>1 DEF stop_task_endpoint, registry, TypeOK
  <1>8. ASSUME NEW s \in Stops, StopProceeds(s)
        PROVE  TypeOK'
    <2>1. CASE stop_task(s)
      <3> DEFINE t == List(s)[stop[s].index]
      <3>1. CASE t \in tasks[Primary]
        <4>1. t \in Tasks
          BY <3>1 DEF TypeOK
        <4> DEFINE pc == IF run[t] = "ended" THEN "going" ELSE "waiting"
        <4>2. /\ tasks' = [tasks EXCEPT ![Primary] = @ \ {t}]
              /\ run' = Cancelled(t)
              /\ stop' = [stop EXCEPT ![s] =
                    [stop[s] EXCEPT !.pc = pc, !.index = @ + 1, !.task = t]]
          BY <2>1, <3>1, Zenon DEF stop_task
        <4>3. stop' \in [Stops -> StopRequest]
          <5>1. pc \in {"going", "waiting"}
            OBVIOUS
          <5> HIDE DEF pc, t
          <5>2. [stop[s] EXCEPT !.pc = pc, !.index = @ + 1, !.task = t] \in StopRequest
            BY <4>1, <5>1, RequestTypes
          <5> DEFINE next == [stop[s] EXCEPT !.pc = pc, !.index = @ + 1, !.task = t]
          <5>3. stop' = [stop EXCEPT ![s] = next]
            BY <4>2
          <5> HIDE DEF next
          <5>4. QED
            BY <5>2, <5>3 DEF TypeOK, next
        <4>4. /\ tasks' \in [Instances -> SUBSET Tasks]
              /\ run' \in [Tasks -> {"none", "running", "cancelling", "ended", "lost"}]
          BY <4>1, <4>2 DEF Cancelled, TypeOK
        <4>5. QED
          BY <2>1, <4>3, <4>4 DEF stop_task, registry, TypeOK
      <3>2. CASE t \notin tasks[Primary]
        <4>1. stop' = [stop EXCEPT ![s] = Over("not found")] /\ UNCHANGED <<tasks, run>>
          BY <2>1, <3>2 DEF stop_task
        <4>2. stop' \in [Stops -> StopRequest]
          BY <4>1, RequestTypes DEF TypeOK
        <4>3. QED
          BY <2>1, <4>1, <4>2 DEF stop_task, registry, TypeOK
      <3>3. QED
        BY <3>1, <3>2
    <2>2. CASE redis_send_command(s)
      <3>1. stop' \in [Stops -> StopRequest]
        <4>1. \/ stop' = [stop EXCEPT ![s] = [stop[s] EXCEPT !.index = @ + 1]]
              \/ stop' = [stop EXCEPT ![s] = Over("failed")]
          BY <2>2 DEF redis_send_command
        <4>2. QED
          BY <4>1, RequestTypes DEF TypeOK
      <3>2. /\ commands' \in [Instances -> SUBSET Tasks]
            /\ failures' \in 0..MaxFailures
        <4>1. CASE /\ commands' = Published(stop[s].ids[stop[s].index])
                   /\ UNCHANGED failures
          <5>1. stop[s].ids[stop[s].index] \in Tasks
            <6>1. stop[s].ids \in Seq(Tasks) /\ stop[s].index \in Nat \ {0}
              BY DEF TypeOK, StopRequest
            <6>2. stop[s].index <= Len(stop[s].ids)
              BY <2>2 DEF redis_send_command
            <6>3. QED
              BY <6>1, <6>2
          <5>2. QED
            BY <4>1, <5>1 DEF Published, TypeOK
        <4>2. CASE Fails /\ UNCHANGED commands
          BY <4>2 DEF Fails, TypeOK
        <4>3. QED
          BY <2>2, <4>1, <4>2 DEF redis_send_command
      <3>3. QED
        BY <2>2, <3>1, <3>2 DEF redis_send_command, registry, TypeOK
    <2>3. CASE stop_returns(s)
      <3>1. stop' \in [Stops -> StopRequest]
        BY <2>3, RequestTypes DEF stop_returns, TypeOK
      <3>2. QED
        BY <2>3, <3>1 DEF stop_returns, registry, TypeOK
    <2>4. CASE stop_raises(s)
      <3>1. Over("failed") \in StopRequest
        BY RequestTypes
      <3>2. stop' \in [Stops -> StopRequest]
        BY <2>4, <3>1 DEF stop_raises, TypeOK
      <3>3. failures' \in 0..MaxFailures
        BY <2>4 DEF stop_raises, Fails, TypeOK
      <3>4. QED
        BY <2>4, <3>2, <3>3 DEF stop_raises, registry, TypeOK
    <2>5. QED
      BY <1>8, <2>1, <2>2, <2>3, <2>4 DEF StopProceeds
  <1>9. ASSUME NEW i \in Instances, redis_task_command_listener(i)
        PROVE  TypeOK'
    <2>1. PICK t \in commands[i] : /\ commands' = [commands EXCEPT ![i] = @ \ {t}]
                                   /\ run' \in {run, Cancelled(t)}
      BY <1>9 DEF redis_task_command_listener
    <2>2. t \in Tasks
      BY <2>1 DEF TypeOK
    <2>3. /\ commands' \in [Instances -> SUBSET Tasks]
          /\ run' \in [Tasks -> {"none", "running", "cancelling", "ended", "lost"}]
      BY <2>1, <2>2 DEF Cancelled, TypeOK
    <2>4. QED
      BY <1>9, <2>3 DEF redis_task_command_listener, registry, TypeOK
  <1>10. ASSUME NEW i \in Instances, ListenerFails(i)
         PROVE  TypeOK'
    <2>1. failures' \in 0..MaxFailures
      BY <1>10 DEF ListenerFails, Fails, TypeOK
    <2>2. QED
      BY <1>10, <2>1 DEF ListenerFails, registry, TypeOK
  <1>11. ASSUME NEW i \in Instances, Crash(i)
         PROVE  TypeOK'
    <2>1. failures' \in 0..MaxFailures
      BY <1>11 DEF Crash, Fails, TypeOK
    <2>2. item_tasks' \in [Instances -> [Items -> Seq(Tasks)]]
      BY <1>11 DEF Crash, TypeOK
    <2>3. run' \in [Tasks -> {"none", "running", "cancelling", "ended", "lost"}]
      BY <1>11 DEF Crash, TypeOK
    <2>4. QED
      BY <1>11, <2>1, <2>2, <2>3 DEF Crash, registry, TypeOK
  <1>12. CASE UNCHANGED vars
    BY <1>12 DEF vars, registry, TypeOK
  <1>13. QED
    BY <1>1, <1>2, <1>3, <1>4, <1>5, <1>6, <1>7, <1>8, <1>9, <1>10, <1>11, <1>12
    DEF Next, Running, CleanUp

\* What a stop request's step, or a command that arrives, leaves alone.
LEMMA StopsOnly ==
    ASSUME TypeOK,
           \/ \E s \in Stops, item \in Items : stop_item_tasks(s, item)
           \/ \E s \in Stops, t \in Tasks : stop_task_endpoint(s, t)
           \/ \E s \in Stops : StopProceeds(s)
           \/ \E i \in Instances : redis_task_command_listener(i)
           \/ \E i \in Instances : ListenerFails(i)
    PROVE  /\ UNCHANGED <<redis, home, creating, cleanup, item_tasks, registry>>
           /\ \A t \in Tasks : \/ run'[t] = run[t]
                               \/ run[t] = "running" /\ run'[t] = "cancelling"
           /\ ~ redis => UNCHANGED instance
           /\ \A i \in Instances : instance'[i] = "down" <=> instance[i] = "down"
  <1>1. ASSUME NEW s \in Stops, StopProceeds(s)
        PROVE  /\ UNCHANGED <<redis, home, creating, cleanup, item_tasks, registry, instance>>
               /\ run' = run \/ \E t \in Tasks : run' = Cancelled(t)
    <2>1. CASE stop_task(s)
      <3> DEFINE t == List(s)[stop[s].index]
      <3>1. UNCHANGED <<redis, home, creating, cleanup, item_tasks, registry, instance>>
        BY <2>1 DEF stop_task, registry
      <3>2. t \in tasks[Primary] => run' = Cancelled(t)
        BY <2>1 DEF stop_task
      <3>3. t \notin tasks[Primary] => run' = run
        BY <2>1 DEF stop_task
      <3>4. t \in tasks[Primary] => t \in Tasks
        BY RegistryAssumption DEF TypeOK
      <3> HIDE DEF t
      <3>5. QED
        BY <3>1, <3>2, <3>3, <3>4
    <2>2. QED
      BY <1>1, <2>1
      DEF StopProceeds, redis_send_command, stop_returns, stop_raises, registry
  <1>2. ASSUME NEW t \in Tasks, run' = Cancelled(t), NEW u \in Tasks
        PROVE  run'[u] = run[u] \/ (run[u] = "running" /\ run'[u] = "cancelling")
    BY <1>2 DEF Cancelled, TypeOK
  <1>3. CASE \E s \in Stops : StopProceeds(s)
    BY <1>1, <1>2, <1>3 DEF registry
  <1>4. ASSUME NEW i \in Instances, redis_task_command_listener(i)
        PROVE  /\ UNCHANGED <<redis, home, creating, cleanup, item_tasks, registry, instance>>
               /\ run' = run \/ \E t \in Tasks : run' = Cancelled(t)
    <2>1. PICK t \in commands[i] : run' \in {run, Cancelled(t)}
      BY <1>4 DEF redis_task_command_listener
    <2>2. t \in Tasks
      BY <2>1 DEF TypeOK
    <2>3. QED
      BY <1>4, <2>1, <2>2 DEF redis_task_command_listener, registry
  <1>5. CASE \E i \in Instances : redis_task_command_listener(i)
    BY <1>2, <1>4, <1>5 DEF registry
  <1>6. CASE \E i \in Instances : ListenerFails(i)
    BY <1>6 DEF ListenerFails, registry, TypeOK
  <1>7. CASE \/ \E s \in Stops, item \in Items : stop_item_tasks(s, item)
             \/ \E s \in Stops, t \in Tasks : stop_task_endpoint(s, t)
    BY <1>7 DEF stop_item_tasks, stop_task_endpoint, registry
  <1>8. QED
    BY <1>3, <1>5, <1>6, <1>7

\* The progress of a task, of its creation and of its clean-up stay in step.
LEMMA LifePreserved ==
    ASSUME RegistryInv, [Next]_vars
    PROVE  LifeInv'
  <1> TypeOK /\ LifeInv
    BY DEF RegistryInv
  <1> USE RegistryAssumption DEF LifeInv, TypeOK
  <1>1. ASSUME NEW t \in Tasks, create_task(t)
        PROVE  LifeInv'
    <2>1. CreatedOn(t) \in Instances /\ CreatedOn(t) # Nowhere /\ (~ redis => CreatedOn(t) = Primary)
      BY DEF CreatedOn
    <2>2. QED
      BY <1>1, <2>1 DEF create_task
  <1>2. ASSUME NEW t \in Tasks, redis_save_task(t)
        PROVE  LifeInv'
    BY <1>2 DEF redis_save_task
  <1>3. ASSUME NEW t \in Tasks, Ends(t)
        PROVE  LifeInv'
    BY <1>3 DEF Ends, Unfinished
  <1>4. ASSUME NEW t \in Tasks, cleanup_task(t) \/ local_cleanup(t)
        PROVE  LifeInv'
    <2>1. /\ run[t] = "ended" /\ cleanup' = [cleanup EXCEPT ![t] = "done"]
          /\ UNCHANGED <<redis, instance, home, run, creating>>
      BY <1>4, ForgetsListed DEF Forgotten
    <2>2. QED
      BY <2>1
  <1>5. ASSUME NEW t \in Tasks, redis_cleanup_task(t) \/ redis_delete_item(t)
        PROVE  LifeInv'
    <2>1. /\ \E step \in {"delete", "local", "failed"} : cleanup' = [cleanup EXCEPT ![t] = step]
          /\ cleanup[t] # "none"
          /\ UNCHANGED <<redis, instance, home, run, creating>>
      BY <1>5 DEF redis_cleanup_task, redis_delete_item
    <2>2. QED
      BY <2>1
  <1>6. ASSUME \/ \E s \in Stops, item \in Items : stop_item_tasks(s, item)
               \/ \E s \in Stops, t \in Tasks : stop_task_endpoint(s, t)
               \/ \E s \in Stops : StopProceeds(s)
               \/ \E i \in Instances : redis_task_command_listener(i)
               \/ \E i \in Instances : ListenerFails(i)
        PROVE  LifeInv'
    <2>1. /\ UNCHANGED <<redis, home, creating, cleanup>>
          /\ \A t \in Tasks : \/ run'[t] = run[t]
                              \/ run[t] = "running" /\ run'[t] = "cancelling"
          /\ ~ redis => UNCHANGED instance
      BY <1>6, StopsOnly
    <2>2. QED
      BY <2>1
  <1>7. ASSUME NEW i \in Instances, Crash(i)
        PROVE  LifeInv'
    BY <1>7 DEF Crash, Unfinished
  <1>8. CASE UNCHANGED vars
    BY <1>8 DEF vars
  <1>9. QED
    BY <1>1, <1>2, <1>3, <1>4, <1>5, <1>6, <1>7, <1>8
    DEF Next, Running, CleanUp

\* A task that has been saved stays in the table until its clean-up.
LEMMA SavedPreserved ==
    ASSUME RegistryInv, [Next]_vars
    PROVE  SavedInv'
  <1> TypeOK /\ LifeInv /\ SavedInv
    BY DEF RegistryInv
  <1> USE RegistryAssumption DEF SavedInv
  <1>1. ASSUME NEW t \in Tasks, create_task(t)
        PROVE  SavedInv'
    BY <1>1 DEF create_task, registry, TypeOK
  <1>2. ASSUME NEW t \in Tasks, redis_save_task(t)
        PROVE  SavedInv'
    <2>1. CASE /\ redis_tasks' = redis_tasks \cup {t}
               /\ redis_items' = [redis_items EXCEPT ![ItemOf[t]] = @ \cup {t}]
               /\ creating' = [creating EXCEPT ![t] = "returned"]
      BY <1>2, <2>1 DEF redis_save_task, TypeOK
    <2>2. CASE creating' = [creating EXCEPT ![t] = "failed"] /\ UNCHANGED registry
      BY <1>2, <2>2 DEF redis_save_task, registry, TypeOK
    <2>3. QED
      BY <1>2, <2>1, <2>2, Zenon DEF redis_save_task
  <1>3. ASSUME NEW t \in Tasks, Ends(t)
        PROVE  SavedInv'
    BY <1>3 DEF Ends, registry, TypeOK
  <1>4. ASSUME NEW t \in Tasks, cleanup_task(t) \/ local_cleanup(t)
        PROVE  SavedInv'
    <2>1. /\ cleanup' = [cleanup EXCEPT ![t] = "done"] /\ UNCHANGED <<redis, creating, registry>>
      BY <1>4, ForgetsListed DEF Forgotten, registry
    <2>2. QED
      BY <2>1 DEF registry, TypeOK
  <1>5. ASSUME NEW t \in Tasks, redis_cleanup_task(t)
        PROVE  SavedInv'
    <2>1. /\ cleanup[t] # "none" /\ UNCHANGED <<redis, creating>>
          /\ \E step \in {"delete", "local", "failed"} : cleanup' = [cleanup EXCEPT ![t] = step]
      BY <1>5 DEF redis_cleanup_task
    <2>2. CASE redis_tasks' = Unlisted(t) /\ redis_items' = UnlistedItem(t)
      <3>1. \A item \in Items : \A u \in redis_items'[item] :
              u \in redis_items[item] /\ u # t
        BY <2>2 DEF UnlistedItem, TypeOK
      <3>2. QED
        BY <2>1, <2>2, <3>1 DEF Unlisted, TypeOK
    <2>3. CASE UNCHANGED registry
      BY <2>1, <2>3 DEF registry, TypeOK
    <2>4. QED
      BY <1>5, <2>2, <2>3 DEF redis_cleanup_task
  <1>6. ASSUME NEW t \in Tasks, redis_delete_item(t)
        PROVE  SavedInv'
    <2>1. /\ cleanup[t] # "none" /\ UNCHANGED <<redis, creating, redis_tasks>>
          /\ \E step \in {"local", "failed"} : cleanup' = [cleanup EXCEPT ![t] = step]
          /\ redis_items' \in {redis_items, [redis_items EXCEPT ![ItemOf[t]] = {}]}
      BY <1>6 DEF redis_delete_item
    <2>2. ASSUME NEW item \in Items
          PROVE  redis_items'[item] \subseteq redis_items[item]
      <3>1. CASE redis_items' = redis_items
        BY <3>1
      <3>2. CASE redis_items' = [redis_items EXCEPT ![ItemOf[t]] = {}]
        BY <3>2 DEF TypeOK
      <3>3. QED
        BY <2>1, <3>1, <3>2
    <2>3. QED
      BY <2>1, <2>2 DEF TypeOK
  <1>7. ASSUME \/ \E s \in Stops, item \in Items : stop_item_tasks(s, item)
               \/ \E s \in Stops, t \in Tasks : stop_task_endpoint(s, t)
               \/ \E s \in Stops : StopProceeds(s)
               \/ \E i \in Instances : redis_task_command_listener(i)
               \/ \E i \in Instances : ListenerFails(i)
        PROVE  SavedInv'
    BY <1>7, StopsOnly DEF registry
  <1>8. ASSUME NEW i \in Instances, Crash(i)
        PROVE  SavedInv'
    BY <1>8 DEF Crash, registry
  <1>9. CASE UNCHANGED vars
    BY <1>9 DEF vars, registry
  <1>10. QED
    BY <1>1, <1>2, <1>3, <1>4, <1>5, <1>6, <1>7, <1>8, <1>9
    DEF Next, Running, CleanUp

\* When the tables and the tasks of an instance are left alone, they agree still.
LEMMA TablesKept ==
    ASSUME TypeOK, TablesAgree, UNCHANGED <<home, item_tasks>>,
           \A i \in Instances : /\ instance'[i] # "down" => instance[i] # "down"
                                /\ tasks'[i] \subseteq tasks[i],
           \A t \in Tasks : /\ cleanup'[t] = "done" <=> cleanup[t] = "done"
                            /\ run'[t] = "running" =>
                                  run[t] = "running" /\ \A i \in Instances :
                                      t \in tasks[i] => t \in tasks'[i]
    PROVE  TablesAgree'
  BY DEF TablesAgree

\* The two tables of a server change together.
LEMMA TablesPreserved ==
    ASSUME RegistryInv, [Next]_vars
    PROVE  TablesAgree'
  <1> TypeOK /\ LifeInv /\ TablesAgree
    BY DEF RegistryInv
  <1> USE RegistryAssumption
  <1>1. ASSUME NEW t \in Tasks, create_task(t)
        PROVE  TablesAgree'
    <2> DEFINE here == CreatedOn(t)
               longer == Append(item_tasks[here][ItemOf[t]], t)
    <2>1. here \in Instances /\ ItemOf[t] \in Items /\ here # Nowhere /\ instance[here] # "down"
      BY <1>1 DEF CreatedOn, create_task
    <2>2. /\ home[t] = Nowhere /\ home' = [home EXCEPT ![t] = here]
          /\ run' = [run EXCEPT ![t] = "running"]
          /\ tasks' = [tasks EXCEPT ![here] = @ \cup {t}]
          /\ item_tasks' = [item_tasks EXCEPT ![here][ItemOf[t]] = longer]
          /\ UNCHANGED <<instance, cleanup>>
      BY <1>1 DEF create_task, Appended
    <2> HIDE DEF here
    <2>3. ListTypes(item_tasks[here][ItemOf[t]]) /\ t \notin ToSet(item_tasks[here][ItemOf[t]])
      BY <2>1, <2>2 DEF TablesAgree, TypeOK, ListTypes
    <2>4. ListTypes(longer) /\ ToSet(longer) = ToSet(item_tasks[here][ItemOf[t]]) \cup {t}
      BY <2>3, AppendsOne
    <2> HIDE DEF longer
    <2>5. \A i \in Instances, item \in Items :
            item_tasks'[i][item] = IF i = here /\ item = ItemOf[t] THEN longer
                                                                  ELSE item_tasks[i][item]
      BY <2>1, <2>2 DEF TypeOK
    <2>6. cleanup[t] # "done"
      BY <2>2 DEF LifeInv
    <2> SUFFICES ASSUME NEW i \in Instances, instance'[i] # "down"
                 PROVE  /\ \A item \in Items :
                              /\ IsInjective(item_tasks'[i][item])
                              /\ ToSet(item_tasks'[i][item]) =
                                   {u \in Tasks : /\ home'[u] = i /\ ItemOf[u] = item
                                                  /\ cleanup'[u] # "done"}
                        /\ tasks'[i] \subseteq UNION {ToSet(item_tasks'[i][item]) : item \in Items}
                        /\ \A u \in Tasks :
                              home'[u] = i /\ run'[u] = "running" => u \in tasks'[i]
      BY DEF TablesAgree
    <2>7. instance[i] # "down"
      BY <2>2
    <2>8. ASSUME NEW item \in Items
          PROVE  /\ IsInjective(item_tasks'[i][item])
                 /\ ToSet(item_tasks'[i][item]) =
                      {u \in Tasks : /\ home'[u] = i /\ ItemOf[u] = item
                                     /\ cleanup'[u] # "done"}
      <3>1. /\ IsInjective(item_tasks[i][item])
            /\ ToSet(item_tasks[i][item]) =
                 {u \in Tasks : /\ home[u] = i /\ ItemOf[u] = item /\ cleanup[u] # "done"}
        BY <2>7 DEF TablesAgree
      <3>2. CASE i = here /\ item = ItemOf[t]
        BY <2>1, <2>2, <2>4, <2>5, <2>6, <3>1, <3>2 DEF ListTypes, TypeOK
      <3>3. CASE ~ (i = here /\ item = ItemOf[t])
        BY <2>1, <2>2, <2>5, <3>1, <3>3 DEF TypeOK
      <3>4. QED
        BY <3>2, <3>3
    <2>9. tasks'[i] \subseteq UNION {ToSet(item_tasks'[i][item]) : item \in Items}
      <3>1. tasks[i] \subseteq UNION {ToSet(item_tasks[i][item]) : item \in Items}
        BY <2>7 DEF TablesAgree
      <3>2. \A item \in Items : ToSet(item_tasks[i][item]) \subseteq ToSet(item_tasks'[i][item])
        BY <2>4, <2>5
      <3>3. i = here => t \in ToSet(item_tasks'[i][ItemOf[t]])
        BY <2>1, <2>4, <2>5
      <3>4. ASSUME NEW u \in tasks'[i]
            PROVE  \E item \in Items : u \in ToSet(item_tasks'[i][item])
        <4>1. CASE u \in tasks[i]
          BY <3>1, <3>2, <4>1
        <4>2. CASE u \notin tasks[i]
          <5>1. u = t /\ i = here
            BY <2>1, <2>2, <3>4, <4>2 DEF TypeOK
          <5>2. QED
            BY <2>1, <3>3, <5>1
        <4>3. QED
          BY <4>1, <4>2
      <3>5. QED
        BY <3>4
    <2>10. \A u \in Tasks : home'[u] = i /\ run'[u] = "running" => u \in tasks'[i]
      BY <2>1, <2>2, <2>7 DEF TablesAgree, TypeOK
    <2>11. QED
      BY <2>8, <2>9, <2>10
  <1>2. ASSUME NEW t \in Tasks, redis_save_task(t)
        PROVE  TablesAgree'
    BY <1>2, TablesKept DEF redis_save_task
  <1>3. ASSUME NEW t \in Tasks, Ends(t)
        PROVE  TablesAgree'
    <2>1. /\ run' = [run EXCEPT ![t] = "ended"] /\ cleanup' = [cleanup EXCEPT ![t] = "due"]
          /\ UNCHANGED <<instance, home, tasks, item_tasks>> /\ cleanup[t] = "none"
      BY <1>3 DEF Ends, Unfinished, LifeInv, TypeOK
    <2>2. \A u \in Tasks : /\ cleanup'[u] = "done" <=> cleanup[u] = "done"
                           /\ run'[u] = "running" => run[u] = "running"
      BY <2>1 DEF TypeOK
    <2>3. QED
      BY <2>1, <2>2, TablesKept
  <1>4. ASSUME NEW t \in Tasks, cleanup_task(t) \/ local_cleanup(t)
        PROVE  TablesAgree'
    <2>1. /\ home[t] \in Instances /\ instance[home[t]] # "down" /\ run[t] = "ended"
          /\ cleanup[t] # "done" /\ Forgotten(t) /\ UNCHANGED <<instance, home, run>>
      BY <1>4, ForgetsListed
    <2>2. /\ tasks' = [tasks EXCEPT ![home[t]] = @ \ {t}]
          /\ cleanup' = [cleanup EXCEPT ![t] = "done"]
      BY <2>1 DEF Forgotten
    <2>3. \A i \in Instances, item \in Items :
             IF i = home[t] /\ item = ItemOf[t]
               THEN /\ IsInjective(item_tasks'[i][item])
                    /\ ToSet(item_tasks'[i][item]) = ToSet(item_tasks[i][item]) \ {t}
               ELSE item_tasks'[i][item] = item_tasks[i][item]
      BY <2>1, ForgottenResult
    <2> SUFFICES ASSUME NEW i \in Instances, instance'[i] # "down"
                 PROVE  /\ \A item \in Items :
                              /\ IsInjective(item_tasks'[i][item])
                              /\ ToSet(item_tasks'[i][item]) =
                                   {u \in Tasks : /\ home'[u] = i /\ ItemOf[u] = item
                                                  /\ cleanup'[u] # "done"}
                        /\ tasks'[i] \subseteq UNION {ToSet(item_tasks'[i][item]) : item \in Items}
                        /\ \A u \in Tasks :
                              home'[u] = i /\ run'[u] = "running" => u \in tasks'[i]
      BY DEF TablesAgree
    <2>4. instance[i] # "down"
      BY <2>1
    <2>5. ASSUME NEW item \in Items
          PROVE  /\ IsInjective(item_tasks'[i][item])
                 /\ ToSet(item_tasks'[i][item]) =
                      {u \in Tasks : /\ home'[u] = i /\ ItemOf[u] = item
                                     /\ cleanup'[u] # "done"}
      <3>1. /\ IsInjective(item_tasks[i][item])
            /\ ToSet(item_tasks[i][item]) =
                 {u \in Tasks : /\ home[u] = i /\ ItemOf[u] = item /\ cleanup[u] # "done"}
        BY <2>4 DEF TablesAgree
      <3>2. CASE i = home[t] /\ item = ItemOf[t]
        BY <2>1, <2>2, <2>3, <3>1, <3>2 DEF TypeOK
      <3>3. CASE ~ (i = home[t] /\ item = ItemOf[t])
        BY <2>1, <2>2, <2>3, <3>1, <3>3 DEF TypeOK
      <3>4. QED
        BY <3>2, <3>3
    <2>6. tasks'[i] \subseteq UNION {ToSet(item_tasks'[i][item]) : item \in Items}
      <3>1. tasks[i] \subseteq UNION {ToSet(item_tasks[i][item]) : item \in Items}
        BY <2>4 DEF TablesAgree
      <3>2. ASSUME NEW u \in tasks'[i]
            PROVE  \E item \in Items : u \in ToSet(item_tasks'[i][item])
        <4>1. u \in tasks[i] /\ (i = home[t] => u # t)
          BY <2>1, <2>2, <3>2 DEF TypeOK
        <4>2. PICK item \in Items : u \in ToSet(item_tasks[i][item])
          BY <3>1, <4>1
        <4>3. QED
          BY <2>3, <4>1, <4>2
      <3>3. QED
        BY <3>2
    <2>7. \A u \in Tasks : home'[u] = i /\ run'[u] = "running" => u \in tasks'[i]
      BY <2>1, <2>2, <2>4 DEF TablesAgree, TypeOK
    <2>8. QED
      BY <2>5, <2>6, <2>7
  <1>5. ASSUME NEW t \in Tasks, redis_cleanup_task(t) \/ redis_delete_item(t)
        PROVE  TablesAgree'
    <2>1. /\ \E step \in {"delete", "local", "failed"} : cleanup' = [cleanup EXCEPT ![t] = step]
          /\ cleanup[t] \in {"due", "delete"}
          /\ UNCHANGED <<instance, home, run, tasks, item_tasks>>
      BY <1>5 DEF redis_cleanup_task, redis_delete_item
    <2>2. \A u \in Tasks : cleanup'[u] = "done" <=> cleanup[u] = "done"
      BY <2>1 DEF TypeOK
    <2>3. QED
      BY <2>1, <2>2, TablesKept
  <1>6. ASSUME \/ \E s \in Stops, item \in Items : stop_item_tasks(s, item)
               \/ \E s \in Stops, t \in Tasks : stop_task_endpoint(s, t)
               \/ \E s \in Stops : StopProceeds(s)
               \/ \E i \in Instances : redis_task_command_listener(i)
               \/ \E i \in Instances : ListenerFails(i)
        PROVE  TablesAgree'
    <2>1. /\ UNCHANGED <<home, cleanup, item_tasks>>
          /\ \A t \in Tasks : \/ run'[t] = run[t]
                              \/ run[t] = "running" /\ run'[t] = "cancelling"
          /\ \A i \in Instances : instance'[i] = "down" <=> instance[i] = "down"
      BY <1>6, StopsOnly
    <2>2. CASE UNCHANGED tasks
      BY <2>1, <2>2, TablesKept
    <2>3. CASE \E s \in Stops : stop_task(s)
      <3>1. PICK s \in Stops : stop_task(s)
        BY <2>3
      <3> DEFINE t == List(s)[stop[s].index]
      <3>2. CASE t \in tasks[Primary]
        <4>1. tasks' = [tasks EXCEPT ![Primary] = @ \ {t}] /\ run' = Cancelled(t)
          BY <3>1, <3>2 DEF stop_task
        <4>2. t \in Tasks
          BY <3>2 DEF TypeOK
        <4> HIDE DEF t
        <4>3. run'[t] # "running"
          BY <4>1, <4>2 DEF Cancelled, TypeOK
        <4>4. /\ \A i \in Instances : tasks'[i] \subseteq tasks[i]
              /\ \A u \in Tasks : u # t => \A i \in Instances :
                                              u \in tasks[i] => u \in tasks'[i]
          BY <4>1 DEF TypeOK
        <4>5. QED
          BY <2>1, <4>3, <4>4, TablesKept
      <3>3. CASE t \notin tasks[Primary]
        BY <2>2, <3>1, <3>3 DEF stop_task
      <3>4. QED
        BY <3>2, <3>3
    <2>4. QED
      BY <1>6, <2>2, <2>3
      DEF stop_item_tasks, stop_task_endpoint, StopProceeds, redis_send_command,
          stop_returns, stop_raises, redis_task_command_listener, ListenerFails
  <1>7. ASSUME NEW i \in Instances, Crash(i)
        PROVE  TablesAgree'
    <2>1. /\ instance' = [instance EXCEPT ![i] = "down"] /\ UNCHANGED <<home, cleanup>>
          /\ run' = [t \in Tasks |-> IF home[t] = i /\ Unfinished(t) THEN "lost" ELSE run[t]]
          /\ tasks' = [tasks EXCEPT ![i] = {}]
          /\ item_tasks' = [item_tasks EXCEPT ![i] = [x \in Items |-> <<>>]]
      BY <1>7 DEF Crash
    <2>2. ASSUME NEW j \in Instances, instance'[j] # "down"
          PROVE  /\ instance[j] # "down" /\ tasks'[j] = tasks[j]
                 /\ item_tasks'[j] = item_tasks[j]
                 /\ \A t \in Tasks : run'[t] = "running" => run[t] = "running"
      BY <2>1, <2>2 DEF TypeOK
    <2>3. QED
      BY <2>1, <2>2 DEF TablesAgree
  <1>8. CASE UNCHANGED vars
    BY <1>8, TablesKept DEF vars
  <1>9. QED
    BY <1>1, <1>2, <1>3, <1>4, <1>5, <1>6, <1>7, <1>8
    DEF Next, Running, CleanUp

\* Without Redis: who waits for a task is left alone until that task has ended.
LEMMA WaitersStay ==
    ASSUME TypeOK, StopWaited, ~ redis', UNCHANGED redis,
           \A t \in Tasks :
              home'[t] # Nowhere /\ t \notin tasks'[Primary] /\ Unfinished(t)' =>
                 home[t] # Nowhere /\ t \notin tasks[Primary] /\ Unfinished(t),
           \A s \in Stops :
              stop[s].pc = "waiting" /\ run'[stop[s].task] # "ended" =>
                 stop'[s].pc = "waiting" /\ stop'[s].task = stop[s].task
    PROVE  StopWaited'
  <1> SUFFICES ASSUME NEW t \in Tasks,
                      home'[t] # Nowhere /\ t \notin tasks'[Primary] /\ Unfinished(t)'
               PROVE  \E s \in Stops : stop'[s].pc = "waiting" /\ stop'[s].task = t
    BY DEF StopWaited
  <1>1. PICK s \in Stops : stop[s].pc = "waiting" /\ stop[s].task = t
    BY DEF StopWaited
  <1>2. run'[t] # "ended"
    BY DEF Unfinished
  <1>3. QED
    BY <1>1, <1>2

\* A task leaves the registry by its clean-up or by a stop that waits for it.
LEMMA WaitedPreserved ==
    ASSUME RegistryInv, [Next]_vars
    PROVE  StopWaited'
  <1> TypeOK /\ LifeInv /\ StopWaited
    BY DEF RegistryInv
  <1> SUFFICES ASSUME ~ redis' PROVE StopWaited'
    BY DEF StopWaited
  <1> USE RegistryAssumption
  <1>1. ASSUME NEW t \in Tasks, create_task(t)
        PROVE  StopWaited'
    <2>1. ~ redis /\ CreatedOn(t) = Primary /\ Primary # Nowhere
      BY <1>1 DEF create_task, CreatedOn
    <2>2. /\ home' = [home EXCEPT ![t] = Primary] /\ run' = [run EXCEPT ![t] = "running"]
          /\ tasks' = [tasks EXCEPT ![Primary] = @ \cup {t}] /\ UNCHANGED <<redis, stop>>
      BY <1>1, <2>1 DEF create_task
    <2>3. t \in tasks'[Primary]
      BY <2>2 DEF TypeOK
    <2>4. \A u \in Tasks :
             home'[u] # Nowhere /\ u \notin tasks'[Primary] /\ Unfinished(u)' =>
                home[u] # Nowhere /\ u \notin tasks[Primary] /\ Unfinished(u)
      BY <2>2, <2>3 DEF TypeOK, Unfinished
    <2>5. QED
      BY <2>2, <2>4, WaitersStay
  <1>2. ASSUME NEW t \in Tasks, redis_save_task(t)
        PROVE  StopWaited'
    BY <1>2, WaitersStay DEF redis_save_task, Unfinished
  <1>3. ASSUME NEW t \in Tasks, Ends(t)
        PROVE  StopWaited'
    <2>1. /\ run' = [run EXCEPT ![t] = "ended"] /\ UNCHANGED <<redis, home, tasks, stop>>
      BY <1>3 DEF Ends
    <2>2. \A u \in Tasks : Unfinished(u)' => Unfinished(u)
      BY <2>1 DEF Unfinished, TypeOK
    <2>3. QED
      BY <2>1, <2>2, WaitersStay
  <1>4. ASSUME NEW t \in Tasks, cleanup_task(t) \/ local_cleanup(t)
        PROVE  StopWaited'
    <2>1. /\ home[t] \in Instances /\ run[t] = "ended" /\ UNCHANGED <<redis, home, run>>
          /\ tasks' = [tasks EXCEPT ![home[t]] = @ \ {t}]
      BY <1>4, ForgetsListed DEF Forgotten
    <2>2. \A s \in Stops : stop'[s].pc = stop[s].pc /\ stop'[s].task = stop[s].task
      <3>1. TablesAgree
        BY DEF RegistryInv
      <3>2. QED
        BY <1>4, <3>1, ForgetsListed, ForgottenResult
    <2>3. \A u \in Tasks : u \notin tasks'[Primary] /\ Unfinished(u)' =>
                              u \notin tasks[Primary] /\ Unfinished(u)
      BY <2>1 DEF Unfinished, TypeOK
    <2>4. QED
      BY <2>1, <2>2, <2>3, WaitersStay
  <1>5. ASSUME NEW s \in Stops, NEW item \in Items, stop_item_tasks(s, item)
        PROVE  StopWaited'
    <2>1. \A r \in Stops : stop[r].pc = "waiting" => stop'[r] = stop[r]
      BY <1>5 DEF stop_item_tasks, Requested, TypeOK
    <2>2. UNCHANGED <<redis, home, run, tasks>>
      BY <1>5 DEF stop_item_tasks
    <2>3. QED
      BY <2>1, <2>2, WaitersStay DEF Unfinished
  <1>6. ASSUME NEW s \in Stops, NEW t \in Tasks, stop_task_endpoint(s, t)
        PROVE  StopWaited'
    <2>1. \A r \in Stops : stop[r].pc = "waiting" => stop'[r] = stop[r]
      BY <1>6 DEF stop_task_endpoint, Requested, TypeOK
    <2>2. UNCHANGED <<redis, home, run, tasks>>
      BY <1>6 DEF stop_task_endpoint
    <2>3. QED
      BY <2>1, <2>2, WaitersStay DEF Unfinished
  <1>7. ASSUME NEW s \in Stops, stop_task(s)
        PROVE  StopWaited'
    <2> DEFINE t == List(s)[stop[s].index]
    <2>1. /\ ~ redis /\ UNCHANGED <<redis, home>>
          /\ stop[s].pc = "waiting" => run[stop[s].task] = "ended"
      BY <1>7 DEF stop_task, Resumed
    <2>2. CASE t \in tasks[Primary]
      <3> DEFINE pc == IF run[t] = "ended" THEN "going" ELSE "waiting"
                 next == [stop[s] EXCEPT !.pc = pc, !.index = @ + 1, !.task = t]
      <3>1. /\ tasks' = [tasks EXCEPT ![Primary] = @ \ {t}]
            /\ run' = Cancelled(t)
            /\ stop' = [stop EXCEPT ![s] = next]
        BY <1>7, <2>2, Zenon DEF stop_task
      <3>2. t \in Tasks /\ stop[s] \in StopRequest
        BY <2>2 DEF TypeOK
      <3>3. next.pc = pc /\ next.task = t
        BY <3>2 DEF StopRequest
      <3>4. run[t] = "ended" \/ pc = "waiting"
        OBVIOUS
      <3> HIDE DEF t, pc, next
      <3>5. /\ \A u \in Tasks : /\ Unfinished(u)' <=> Unfinished(u)
                                /\ run'[u] = "ended" <=> run[u] = "ended"
        BY <3>1, <3>2 DEF Cancelled, Unfinished, TypeOK
      <3>6. ASSUME NEW u \in Tasks,
                   home'[u] # Nowhere /\ u \notin tasks'[Primary] /\ Unfinished(u)'
            PROVE  \E r \in Stops : stop'[r].pc = "waiting" /\ stop'[r].task = u
        <4>1. CASE u = t
          <5>1. pc = "waiting"
            BY <3>4, <3>5, <3>6, <4>1 DEF Unfinished
          <5>2. QED
            BY <3>1, <3>3, <4>1, <5>1 DEF TypeOK
        <4>2. CASE u # t
          <5>1. home[u] # Nowhere /\ u \notin tasks[Primary] /\ Unfinished(u)
            BY <2>1, <3>1, <3>5, <3>6, <4>2 DEF TypeOK
          <5>2. PICK r \in Stops : stop[r].pc = "waiting" /\ stop[r].task = u
            BY <2>1, <5>1 DEF StopWaited
          <5>3. r # s
            BY <2>1, <5>1, <5>2 DEF Unfinished
          <5>4. QED
            BY <3>1, <5>2, <5>3 DEF TypeOK
        <4>3. QED
          BY <4>1, <4>2
      <3>7. QED
        BY <3>6 DEF StopWaited
    <2>3. CASE t \notin tasks[Primary]
      <3>1. stop' = [stop EXCEPT ![s] = Over("not found")] /\ UNCHANGED <<tasks, run>>
        BY <1>7, <2>3 DEF stop_task
      <3>2. \A r \in Stops : r # s => stop'[r] = stop[r]
        BY <3>1 DEF TypeOK
      <3>3. QED
        BY <2>1, <3>1, <3>2, WaitersStay DEF Unfinished
    <2>4. QED
      BY <2>2, <2>3
  <1>8. ASSUME NEW s \in Stops, stop_returns(s) \/ stop_raises(s)
        PROVE  StopWaited'
    <2>1. /\ UNCHANGED <<redis, home, run, tasks>>
          /\ stop[s].pc = "waiting" => run[stop[s].task] = "ended"
          /\ \E result \in {"stopped", "failed"} : stop' = [stop EXCEPT ![s] = Over(result)]
      BY <1>8 DEF stop_returns, stop_raises, Resumed
    <2>2. \A r \in Stops : r # s => stop'[r] = stop[r]
      BY <2>1 DEF TypeOK
    <2>3. QED
      BY <2>1, <2>2, WaitersStay DEF Unfinished
  <1>9. ASSUME NEW i \in Instances, redis_task_command_listener(i)
        PROVE  StopWaited'
    <2>1. /\ UNCHANGED <<redis, home, tasks, stop>>
          /\ \E t \in Tasks : run' \in {run, Cancelled(t)}
      BY <1>9 DEF redis_task_command_listener, TypeOK
    <2>2. \A u \in Tasks : Unfinished(u)' => Unfinished(u)
      BY <2>1 DEF Cancelled, Unfinished, TypeOK
    <2>3. QED
      BY <2>1, <2>2, WaitersStay
  <1>10. ASSUME NEW t \in Tasks, redis_cleanup_task(t) \/ redis_delete_item(t)
         PROVE  StopWaited'
    <2>1. UNCHANGED <<redis, home, run, tasks, stop>>
      BY <1>10 DEF redis_cleanup_task, redis_delete_item
    <2>2. QED
      BY <2>1, WaitersStay DEF Unfinished
  <1>11. /\ \A s \in Stops : ~ redis_send_command(s)
         /\ \A i \in Instances : ~ ListenerFails(i) /\ ~ Crash(i)
    BY DEF redis_send_command, ListenerFails, Crash
  <1>12. CASE UNCHANGED vars
    BY <1>12, WaitersStay DEF vars, Unfinished
  <1>13. QED
    BY <1>1, <1>2, <1>3, <1>4, <1>5, <1>6, <1>7, <1>8, <1>9, <1>10, <1>11, <1>12
    DEF Next, Running, CleanUp, StopProceeds

\* At first there is no task.
LEMMA RegistryInit == Init => RegistryInv
  <1> SUFFICES ASSUME Init PROVE RegistryInv
    OBVIOUS
  <1> USE RegistryAssumption
  <1>1. TypeOK
    <2>1. Idle \in StopRequest /\ <<>> \in Seq(Tasks)
      <3>1. <<>> \in Seq(Tasks)
        OBVIOUS
      <3>2. QED
        BY <3>1 DEF StopRequest, Idle
    <2>2. redis \in BOOLEAN
      BY Zenon DEF Init
    <2>3. QED
      BY <2>1, <2>2 DEF Init, TypeOK
  <1>2. LifeInv /\ SavedInv
    BY DEF Init, LifeInv, SavedInv
  <1>3. TablesAgree
    <2>1. ToSet(<<>>) = {} /\ IsInjective(<<>>)
      BY DEF ToSet, IsInjective
    <2>2. QED
      BY <2>1 DEF Init, TablesAgree
  <1>4. StopWaited
    BY DEF Init, StopWaited
  <1>5. QED
    BY <1>1, <1>2, <1>3, <1>4 DEF RegistryInv

\* Every step keeps every part.
LEMMA RegistryNext == RegistryInv /\ [Next]_vars => RegistryInv'
  BY TypePreserved, LifePreserved, SavedPreserved, TablesPreserved, WaitedPreserved
  DEF RegistryInv

\* The parts of the invariant hold together, always.
LEMMA RegistryInvariant == Spec => []RegistryInv
  BY RegistryInit, RegistryNext, PTL DEF Spec

\* The variables keep their types.
THEOREM RegistryTypesCorrect == Spec => []TypeOK
  <1>1. RegistryInv => TypeOK
    BY DEF RegistryInv
  <1>2. QED
    BY <1>1, RegistryInvariant, PTL

\* The two tables of an instance that is up agree, however creations, stops,
\* clean-ups and crashes interleave (tasks.py 88-94, 108-114, 156).
THEOREM TablesAlwaysAgree == Spec => []TablesAgree
  <1>1. RegistryInv => TablesAgree
    BY DEF RegistryInv
  <1>2. QED
    BY <1>1, RegistryInvariant, PTL

\* Redis lists each task that runs and has been saved (list_tasks, tasks.py 122-128).
THEOREM RunningListed == Spec => []RedisListsRunning
  <1>1. RegistryInv => RedisListsRunning
    BY DEF RegistryInv, LifeInv, SavedInv, RedisListsRunning, Unfinished
  <1>2. QED
    BY <1>1, RegistryInvariant, PTL

\* Without Redis nobody forgets a task that was taken out of the registry to be
\* stopped (stop_task, tasks.py 156-170).
THEOREM StoppedIsWaitedFor == Spec => []StopWaited
  <1>1. RegistryInv => StopWaited
    BY DEF RegistryInv
  <1>2. QED
    BY <1>1, RegistryInvariant, PTL
=============================================================================
