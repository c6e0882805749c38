----------------------------- MODULE TaskRegistry -----------------------------
(***************************************************************************)
(* The task registry of Open WebUI (backend/open_webui/tasks.py): the      *)
(* asyncio tasks that answer chats and save documents, how they are        *)
(* registered, stopped one by one or all of an item (a chat or a           *)
(* document), and cleaned up when they end.                                *)
(*                                                                         *)
(* Without Redis there is one process with two tables, and its event loop  *)
(* switches only where a coroutine waits.  With Redis every instance has   *)
(* its tables, all share a hash of tasks and a set of tasks per item, and  *)
(* stop requests travel over a channel every instance listens to.  Each    *)
(* pipeline is a transaction, and between two calls anything may happen.   *)
(*                                                                         *)
(* Every caller gives an item, so tasks without one are left out.  What a  *)
(* task does is left out: it runs until it ends, and once it is asked to   *)
(* stop it ends, with an error or without (middleware.py 3152-3167 saves,  *)
(* then returns).                                                          *)
(***************************************************************************)
EXTENDS Integers, Sequences, FiniteSets, SequencesExt

CONSTANTS
    Tasks, Items, Instances,
    ItemOf,         \* chat or document each task works for
    HomeOf,         \* instance each task is created on when there is Redis
    Primary,        \* the only instance when there is none
    Stops,          \* stop requests
    RedisTasks,     \* those there are with Redis (a bound)
    RedisStops,     \* the stop requests there are with Redis (a bound)
    Deployments,    \* whether app.state.redis is set: the cases considered
    MaxFailures,    \* bound on failing calls, tasks, listeners and instances
    NoTask, NoItem, Nowhere

ASSUME RegistryAssumption ==
    /\ IsFiniteSet(Tasks)
    /\ ItemOf \in [Tasks -> Items]
    /\ Primary \in Instances
    /\ Deployments \subseteq BOOLEAN
    /\ HomeOf \in [Tasks -> Instances]
    /\ RedisTasks \subseteq Tasks
    /\ RedisStops \subseteq Stops
    /\ MaxFailures \in Nat
    /\ NoTask \notin Tasks /\ NoItem \notin Items /\ Nowhere \notin Instances

VARIABLES
    redis,          \* app.state.redis is not None
    instance,       \* up, deaf (its listener has ended) or down
    home,           \* the instance each task was created on
    run,            \* the asyncio task itself
    creating,       \* create_task of each task
    cleanup,        \* the done callback of each task
    tasks,          \* per instance
    item_tasks,     \* per instance and item, <<>> for no entry
    redis_tasks,    \* hash REDIS_TASKS_KEY
    redis_items,    \* sets REDIS_ITEM_TASKS_KEY:item
    commands,       \* stop commands not yet delivered, per instance
    failures,       \* counted for the bound
    stop            \* progress of each stop request

vars == <<redis, instance, home, run, creating, cleanup, tasks, item_tasks,
          redis_tasks, redis_items, commands, failures, stop>>

registry == <<redis_tasks, redis_items>>

-----------------------------------------------------------------------------
\* ids are the tasks found when the request came; without Redis a request for
\* an item goes through the live list of that item instead, by index.
Idle == [pc |-> "idle", ids |-> <<>>, live |-> NoItem, index |-> 1,
         task |-> NoTask]

Over(result) == [Idle EXCEPT !.pc = result]

Init ==
    /\ redis \in Deployments
    /\ instance = [i \in Instances |-> "up"]
    /\ home = [t \in Tasks |-> Nowhere]
    /\ run = [t \in Tasks |-> "none"]
    /\ creating = [t \in Tasks |-> "none"]
    /\ cleanup = [t \in Tasks |-> "none"]
    /\ tasks = [i \in Instances |-> {}]
    /\ item_tasks = [i \in Instances |-> [x \in Items |-> <<>>]]
    /\ redis_tasks = {}
    /\ redis_items = [x \in Items |-> {}]
    /\ commands = [i \in Instances |-> {}]
    /\ failures = 0
    /\ stop = [s \in Stops |-> Idle]

Unfinished(t) == run[t] \in {"running", "cancelling"}

Alive(t) == home[t] # Nowhere /\ instance[home[t]] # "down"

Fails == failures < MaxFailures /\ failures' = failures + 1

\* A stop request that goes on without having given up the event loop.
Holding == \E s \in Stops : stop[s].pc = "going"

-----------------------------------------------------------------------------
(* Creation.                                                               *)

Appended_replaced(list, t) == <<t>>

Appended(list, t) == Append(list, t)

CreatedOn(t) == IF redis THEN HomeOf[t] ELSE Primary

create_task(t) ==
    /\ home[t] = Nowhere
    /\ redis => t \in RedisTasks
    /\ instance[CreatedOn(t)] # "down"
    /\ home' = [home EXCEPT ![t] = CreatedOn(t)]
    /\ run' = [run EXCEPT ![t] = "running"]
    /\ creating' = [creating EXCEPT ![t] = IF redis THEN "saving" ELSE "returned"]
    /\ tasks' = [tasks EXCEPT ![CreatedOn(t)] = @ \cup {t}]
    /\ item_tasks' = [item_tasks EXCEPT ![CreatedOn(t)][ItemOf[t]] = Appended(@, t)]
    /\ UNCHANGED <<redis, instance, cleanup, registry, commands, stop, failures>>

\* A failed save makes create_task raise; the task goes on.
redis_save_task(t) ==
    /\ creating[t] = "saving"
    /\ Alive(t)
    /\ \/ /\ redis_tasks' = redis_tasks \cup {t}
          /\ redis_items' = [redis_items EXCEPT ![ItemOf[t]] = @ \cup {t}]
          /\ creating' = [creating EXCEPT ![t] = "returned"]
          /\ UNCHANGED failures
       \/ /\ Fails
          /\ creating' = [creating EXCEPT ![t] = "failed"]
          /\ UNCHANGED registry
    /\ UNCHANGED <<redis, instance, home, run, cleanup, tasks, item_tasks,
                   commands, stop>>

-----------------------------------------------------------------------------
(* The task itself, and its clean-up.                                      *)

Ends(t) ==
    /\ Unfinished(t)
    /\ Alive(t)
    /\ run' = [run EXCEPT ![t] = "ended"]
    /\ cleanup' = [cleanup EXCEPT ![t] = "due"]
    /\ UNCHANGED <<redis, instance, home, creating, tasks, item_tasks,
                   registry, commands, stop, failures>>

\* The local tables.  When the list of an item becomes empty it is dropped, and
\* requests that iterate over it keep an empty list that nobody else has.
Forgotten(t) ==
    LET i == home[t]
        item == ItemOf[t]
        rest == RemoveFirst(item_tasks[i][item], t)
    IN  /\ tasks' = [tasks EXCEPT ![i] = @ \ {t}]
        /\ item_tasks' = [item_tasks EXCEPT ![i][item] = rest]
        /\ cleanup' = [cleanup EXCEPT ![t] = "done"]
        /\ stop' = [s \in Stops |->
                      IF rest = <<>> /\ stop[s].live = item
                        THEN [stop[s] EXCEPT !.live = NoItem, !.index = Len(stop[s].ids) + 1]
                        ELSE stop[s]]

\* The callback runs after a request that waits for the task has been resumed.
cleanup_task(t) ==
    /\ ~ redis
    /\ cleanup[t] = "due"
    /\ \A s \in Stops : stop[s].task # t
    /\ Forgotten(t)
    /\ UNCHANGED <<redis, instance, home, run, creating, registry, commands, failures>>

Unlisted(t) == redis_tasks \ {t}

UnlistedItem_kept(t) == redis_items

UnlistedItem(t) == [redis_items EXCEPT ![ItemOf[t]] = @ \ {t}]

redis_cleanup_task(t) ==
    /\ redis
    /\ cleanup[t] = "due"
    /\ Alive(t)
    /\ \/ /\ redis_tasks' = Unlisted(t)
          /\ redis_items' = UnlistedItem(t)
          /\ cleanup' = [cleanup EXCEPT ![t] =
                IF redis_items'[ItemOf[t]] = {} THEN "delete" ELSE "local"]
          /\ UNCHANGED failures
       \/ /\ Fails
          /\ cleanup' = [cleanup EXCEPT ![t] = "failed"]
          /\ UNCHANGED registry
    /\ UNCHANGED <<redis, instance, home, run, creating, tasks, item_tasks,
                   commands, stop>>

\* The set found empty is deleted, with what has been added to it since.
redis_delete_item(t) ==
    /\ cleanup[t] = "delete"
    /\ Alive(t)
    /\ \/ /\ redis_items' = [redis_items EXCEPT ![ItemOf[t]] = {}]
          /\ cleanup' = [cleanup EXCEPT ![t] = "local"]
          /\ UNCHANGED failures
       \/ /\ Fails
          /\ cleanup' = [cleanup EXCEPT ![t] = "failed"]
          /\ UNCHANGED redis_items
    /\ UNCHANGED <<redis, instance, home, run, creating, tasks, item_tasks,
                   redis_tasks, commands, stop>>

local_cleanup(t) ==
    /\ cleanup[t] = "local"
    /\ Alive(t)
    /\ Forgotten(t)
    /\ UNCHANGED <<redis, instance, home, run, creating, registry, commands, failures>>

-----------------------------------------------------------------------------
(* Stopping.                                                               *)

Found(item) == IF redis THEN redis_items[item]
                        ELSE ToSet(item_tasks[Primary][item])

Requested(s) == stop[s].pc = "idle" /\ (redis => s \in RedisStops)

\* stop_item_tasks; a Redis set comes in any order, the local list is live.
stop_item_tasks(s, item) ==
    /\ Requested(s)
    /\ Found(item) # {}
    /\ \E ids \in IF redis THEN SetToSeqs(Found(item)) ELSE {item_tasks[Primary][item]} :
          stop' = [stop EXCEPT ![s] =
                     [Idle EXCEPT !.pc = "going", !.ids = ids,
                                  !.live = IF redis THEN NoItem ELSE item]]
    /\ UNCHANGED <<redis, instance, home, run, creating, cleanup, tasks,
                   item_tasks, registry, commands, failures>>

\* stop_task_endpoint, for an id a client got, which may be an old one.
stop_task_endpoint(s, t) ==
    /\ Requested(s)
    /\ creating[t] = "returned"
    /\ stop' = [stop EXCEPT ![s] = [Idle EXCEPT !.pc = "going", !.ids = <<t>>]]
    /\ UNCHANGED <<redis, instance, home, run, creating, cleanup, tasks,
                   item_tasks, registry, commands, failures>>

List(s) == IF stop[s].live = NoItem THEN stop[s].ids
                                    ELSE item_tasks[Primary][stop[s].live]

Cancelled_never(t) == run

Cancelled(t) == [run EXCEPT ![t] = IF @ = "running" THEN "cancelling" ELSE @]

Resumed_at_once(s) == stop[s].pc \in {"going", "waiting"}

Resumed(s) == \/ stop[s].pc = "going"
              \/ stop[s].pc = "waiting" /\ run[stop[s].task] = "ended"

\* stop_task without Redis: the task leaves `tasks`, is cancelled and awaited;
\* a task that has ended is awaited without giving up the event loop.
stop_task(s) ==
    /\ ~ redis
    /\ Resumed(s)
    /\ stop[s].index <= Len(List(s))
    /\ LET t == List(s)[stop[s].index]
       IN  IF t \in tasks[Primary]
             THEN /\ tasks' = [tasks EXCEPT ![Primary] = @ \ {t}]
                  /\ run' = Cancelled(t)
                  /\ stop' = [stop EXCEPT ![s] =
                       [stop[s] EXCEPT
                          !.pc = IF run[t] = "ended" THEN "going" ELSE "waiting",
                          !.index = @ + 1, !.task = t]]
             ELSE /\ stop' = [stop EXCEPT ![s] =
                                Over("not found")]
                  /\ UNCHANGED <<tasks, run>>
    /\ UNCHANGED <<redis, instance, home, creating, cleanup, item_tasks,
                   registry, commands, failures>>

Published_to_self(t) ==
    [i \in Instances |-> IF i = Primary THEN commands[i] \cup {t} ELSE commands[i]]

Published(t) ==
    [i \in Instances |->
        IF instance[i] = "up" THEN commands[i] \cup {t} ELSE commands[i]]

\* stop_task with Redis: every instance that listens is told.
redis_send_command(s) ==
    /\ redis
    /\ stop[s].pc = "going"
    /\ stop[s].index <= Len(stop[s].ids)
    /\ \/ /\ commands' = Published(stop[s].ids[stop[s].index])
          /\ stop' = [stop EXCEPT ![s].index = @ + 1]
          /\ UNCHANGED failures
       \/ /\ Fails
          /\ stop' = [stop EXCEPT ![s] = Over("failed")]
          /\ UNCHANGED commands
    /\ UNCHANGED <<redis, instance, home, run, creating, cleanup, tasks,
                   item_tasks, registry>>

stop_returns(s) ==
    /\ Resumed(s)
    /\ stop[s].index > Len(List(s))
    /\ stop' = [stop EXCEPT ![s] = Over("stopped")]
    /\ UNCHANGED <<redis, instance, home, run, creating, cleanup, tasks,
                   item_tasks, registry, commands, failures>>

\* The task that was awaited has ended with an error, which leaves stop_task and
\* the request with it.
stop_raises(s) ==
    /\ ~ redis /\ Fails
    /\ Resumed(s)
    /\ stop[s].task # NoTask
    /\ stop' = [stop EXCEPT ![s] = Over("failed")]
    /\ UNCHANGED <<redis, instance, home, run, creating, cleanup, tasks, item_tasks,
                   registry, commands>>

redis_task_command_listener(i) ==
    /\ instance[i] = "up"
    /\ \E t \in commands[i] :
          /\ commands' = [commands EXCEPT ![i] = @ \ {t}]
          /\ run' = IF t \in tasks[i] THEN Cancelled(t) ELSE run
    /\ UNCHANGED <<redis, instance, home, creating, cleanup, tasks, item_tasks,
                   registry, stop, failures>>

-----------------------------------------------------------------------------
(* Failures.                                                               *)

\* The listener's connection raises outside its try: it ends for good.
ListenerFails(i) ==
    /\ redis /\ Fails
    /\ instance[i] = "up"
    /\ instance' = [instance EXCEPT ![i] = "deaf"]
    /\ commands' = [commands EXCEPT ![i] = {}]
    /\ UNCHANGED <<redis, home, run, creating, cleanup, tasks, item_tasks,
                   registry, stop>>

\* An instance dies with its tasks and tables; Redis keeps what it has.
Crash(i) ==
    /\ redis /\ Fails
    /\ instance[i] # "down"
    /\ instance' = [instance EXCEPT ![i] = "down"]
    /\ commands' = [commands EXCEPT ![i] = {}]
    /\ run' = [t \in Tasks |-> IF home[t] = i /\ Unfinished(t) THEN "lost" ELSE run[t]]
    /\ tasks' = [tasks EXCEPT ![i] = {}]
    /\ item_tasks' = [item_tasks EXCEPT ![i] = [x \in Items |-> <<>>]]
    /\ UNCHANGED <<redis, home, creating, cleanup, registry, stop>>

-----------------------------------------------------------------------------
StopProceeds(s) ==
    stop_task(s) \/ redis_send_command(s) \/ stop_returns(s) \/ stop_raises(s)

CleanUp(t) == \/ cleanup_task(t) \/ redis_cleanup_task(t)
              \/ redis_delete_item(t) \/ local_cleanup(t)

Running ==
    \/ \E t \in Tasks : \/ create_task(t)
                        \/ redis_save_task(t)
                        \/ Ends(t)
                        \/ CleanUp(t)
    \/ \E s \in Stops : \/ \E item \in Items : stop_item_tasks(s, item)
                        \/ \E t \in Tasks : stop_task_endpoint(s, t)
    \/ \E i \in Instances : \/ redis_task_command_listener(i)
                            \/ ListenerFails(i)
                            \/ Crash(i)

\* Without Redis a request that has not given up the event loop goes on first.
MayRun == redis \/ ~ Holding

Next == \/ \E s \in Stops : StopProceeds(s)
        \/ MayRun /\ Running

\* Coroutines that can go on do, a task that was asked to stop ends, commands are
\* delivered.  A task nobody stops may run for ever.
Fairness ==
    /\ \A t \in Tasks : /\ WF_vars(redis_save_task(t))
                        /\ WF_vars(MayRun /\ run[t] = "cancelling" /\ Ends(t))
                        /\ WF_vars(MayRun /\ CleanUp(t))
    /\ \A s \in Stops : WF_vars(StopProceeds(s))
    /\ \A i \in Instances : WF_vars(redis_task_command_listener(i))

Spec == Init /\ [][Next]_vars /\ Fairness

-----------------------------------------------------------------------------
(* Properties.                                                             *)

StopRequest ==
    [pc : {"idle", "going", "waiting", "stopped", "not found", "failed"},
     ids : Seq(Tasks), live : Items \cup {NoItem}, index : Nat \ {0},
     task : Tasks \cup {NoTask}]

TypeOK ==
    /\ redis \in BOOLEAN
    /\ instance \in [Instances -> {"up", "deaf", "down"}]
    /\ home \in [Tasks -> Instances \cup {Nowhere}]
    /\ run \in [Tasks -> {"none", "running", "cancelling", "ended", "lost"}]
    /\ creating \in [Tasks -> {"none", "saving", "returned", "failed"}]
    /\ cleanup \in [Tasks -> {"none", "due", "delete", "local", "done", "failed"}]
    /\ tasks \in [Instances -> SUBSET Tasks]
    /\ item_tasks \in [Instances -> [Items -> Seq(Tasks)]]
    /\ redis_tasks \in SUBSET Tasks
    /\ redis_items \in [Items -> SUBSET Tasks]
    /\ commands \in [Instances -> SUBSET Tasks]
    /\ failures \in 0..MaxFailures
    /\ stop \in [Stops -> StopRequest]

\* The two tables of an instance agree whatever creations, stops and clean-ups
\* have interleaved: an item lists each of its tasks once, from creation to
\* clean-up, and `tasks` lacks only those a stop request has taken out
\* (tasks.py 88-94, 108-114, 156).
TablesAgree ==
    \A i \in Instances : instance[i] # "down" =>
        /\ \A item \in Items :
              /\ IsInjective(item_tasks[i][item])
              /\ ToSet(item_tasks[i][item]) =
                    {t \in Tasks : /\ home[t] = i /\ ItemOf[t] = item
                                   /\ cleanup[t] # "done"}
        /\ tasks[i] \subseteq UNION {ToSet(item_tasks[i][item]) : item \in Items}
        /\ \A t \in Tasks :
              home[t] = i /\ run[t] = "running" => t \in tasks[i]

\* The list of all tasks in Redis has every task that runs once create_task has
\* returned, whatever other tasks of its item were cleaned up meanwhile
\* (list_tasks, tasks.py 122-128), and an item's set never lists a task the
\* whole list does not have.
RedisListsRunning ==
    redis => /\ \A t \in Tasks : creating[t] = "returned" /\ Unfinished(t)
                                  => t \in redis_tasks
             /\ \A item \in Items : redis_items[item] \subseteq redis_tasks

\* Without Redis a task that a stop request took out of the registry is never left
\* behind: until it ends, the request waits for it (stop_task, tasks.py 156-170).
StopWaited ==
    ~ redis => \A t \in Tasks :
        /\ home[t] # Nowhere /\ t \notin tasks[Primary] /\ Unfinished(t)
        => \E s \in Stops : stop[s].pc = "waiting" /\ stop[s].task = t

\* A stop request returns: the tasks it waits for are asked to stop and end,
\* and no other request makes it wait (stop_item_tasks, tasks.py 181-186).
StopReturns ==
    \A s \in Stops : stop[s].pc = "going" ~> stop[s].pc \in {"stopped", "not found", "failed"}

\* A stop request for a saved task ends it and clears it from the shared tables
\* for good, on whatever instance it runs, unless the command cannot be sent,
\* that instance dies or no longer listens, or the clean-up cannot reach Redis
\* (tasks.py 36-41, 59-66, 146-152).
StopReaches ==
    redis => \A t \in Tasks :
        /\ \E s \in Stops : stop[s].pc = "going" /\ t \in ToSet(stop[s].ids)
        /\ creating[t] = "returned" /\ Unfinished(t)
        ~> \/ t \notin redis_tasks /\ t \notin redis_items[ItemOf[t]]
           \/ ~ Alive(t) \/ instance[home[t]] = "deaf"
           \/ cleanup[t] = "failed" \/ \E s \in Stops : stop[s].pc = "failed"
=============================================================================
