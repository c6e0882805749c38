---------------------------- MODULE SessionMemory ----------------------------
(***************************************************************************)
(* The session store of the Geoq API (api/utils.py) under concurrent chat  *)
(* requests: the message histories and the user facts of the sessions, in  *)
(* Redis or in this process, and the two nodes of api/graph.py that use    *)
(* them, load_history_memory_and_facts and finalize_answer, statement by   *)
(* statement, because the nodes of a stream run in threads of their own    *)
(* and interleave.  A JSON request runs its whole graph inside the event   *)
(* loop: while it runs no other JSON request advances and no stream starts *)
(* a node, but a node a stream has started goes on in its thread.          *)
(*                                                                         *)
(* A ChatMessageHistory is an object: in_memory_store hands out the object *)
(* it holds, so two requests of a session may work on the same one.        *)
(* Objects are named after the session whose stored object they are, or    *)
(* after the request that built them from Redis.                           *)
(*                                                                         *)
(* The failures both nodes catch are in ConversationGraph; here an answer  *)
(* and a history are always well formed.                                   *)
(*                                                                         *)
(* Data: a message is the request it came with and its part in it.  A fact *)
(* is named after the request that revealed it.  Either a merge adds it to *)
(* what there is, as an element of a list or under a key that no other     *)
(* request fills in (entry "list"), or it is the value of a key that each  *)
(* request fills in (entry "value").                                       *)
(***************************************************************************)
EXTENDS Integers, Sequences, FiniteSets

CONSTANTS
    Requests,           \* the chat requests
    Settings,           \* the settings it may run in, see setting
    Sessions,           \* session ids
    SessionOf,          \* session id of each request
    Earlier,            \* how many messages precede its question
    MAX_HISTORY_LEN,    \* config.py
    Entries,            \* what a request may reveal: "list", "value", see Fact
    MaxReads,           \* bound: reads of the history by later nodes
    MaxRestarts         \* bound on restarts of the process

ASSUME SessionAssumption ==
    /\ Settings \subseteq [redis: BOOLEAN, fails: BOOLEAN, warm: BOOLEAN,
                            streams: SUBSET Requests]
    /\ Sessions \cap Requests = {}
    /\ SessionOf \in [Requests -> Sessions]
    /\ Earlier \in [Requests -> Nat]
    /\ MAX_HISTORY_LEN \in Nat \ {0}
    /\ Entries \subseteq {"list", "value"}
    /\ MaxReads \in Nat \ {0}
    /\ MaxRestarts \in Nat

VARIABLES
    setting,        \* what stays as it is while the process runs
    pc,             \* where each request is
    heap,           \* messages of each history object
    history,        \* the object each request works on
    added,          \* messages of the request put into it so far
    redis_history, redis_facts, in_memory_facts,
    new_facts,      \* what extraction found, then what is about to be saved
    recent_history, \* the conversation the answer is given
    reads,          \* how often a later node has read it
    restarts

vars == <<setting, pc, heap, history, added, redis_history, redis_facts,
          in_memory_facts, new_facts, recent_history, reads, restarts>>

-----------------------------------------------------------------------------
(* A setting: whether there is a Redis, whether its calls may raise and     *)
(* whether it holds the sessions from before, and who asked for a stream.   *)

UseRedis == setting.redis       \* redis_client is not None
RedisFails == setting.fails
WarmRedis == setting.warm
Streams == setting.streams      \* requests with stream = true

-----------------------------------------------------------------------------
\* Something added to the facts, or the value of a key.
Fact == [entry: Entries, of: Requests]

Message == [of: Requests, part: {"earlier", "question", "answer"}]
           \cup {[of |-> "before", part |-> "answer"]}

Before == <<[of |-> "before", part |-> "answer"]>>

Says(r, part) == [of |-> r, part |-> part]

\* The messages of a request, the question last.
RequestMessages(r) ==
    [i \in 1..(Earlier[r] + 1) |->
        Says(r, IF i <= Earlier[r] THEN "earlier" ELSE "question")]

LastMessages(h) ==
    IF Len(h) > MAX_HISTORY_LEN
      THEN SubSeq(h, Len(h) - MAX_HISTORY_LEN + 1, Len(h))
      ELSE h

Init ==
    /\ setting \in Settings
    /\ pc = [r \in Requests |-> "received"]
    /\ heap = [o \in Sessions \cup Requests |-> <<>>]
    /\ history = [r \in Requests |-> r]
    /\ added = [r \in Requests |-> 0]
    /\ redis_history = [s \in Sessions |-> IF WarmRedis THEN Before ELSE <<>>]
    /\ redis_facts = [s \in Sessions |-> {}]
    /\ in_memory_facts = [s \in Sessions |-> {}]
    /\ new_facts = [r \in Requests |-> {}]
    /\ recent_history = [r \in Requests |-> <<>>]
    /\ reads = [r \in Requests |-> 0]
    /\ restarts = 0

-----------------------------------------------------------------------------
(* Scheduling.                                                             *)

Over == {"done", "lost"}

InFlight(r) == pc[r] \notin {"received"} \cup Over

JsonRunning == \E r \in Requests \ Streams : InFlight(r)

\* Where a stream is about to start a node.
NodeStarts == {"received", "route", "finalize"}

MayRun_threads(r) == TRUE

MayRun(r) ==
    IF r \in Streams
      THEN pc[r] \in NodeStarts => ~ JsonRunning
      ELSE pc[r] = "received" => ~ JsonRunning

At(r, place) == pc[r] = place /\ MayRun(r)

\* A request that has saved its answer keeps the event loop.
Goto_never_done(r, place) ==
    pc' = IF place = "done" THEN pc ELSE [pc EXCEPT ![r] = place]

Goto(r, place) == pc' = [pc EXCEPT ![r] = place]

-----------------------------------------------------------------------------
(* The store: histories.                                                   *)

get_session_history_cached(r) ==
    /\ history' = [history EXCEPT ![r] = SessionOf[r]]
    /\ UNCHANGED heap

\* A history found in Redis is a new object.  Otherwise, or when the read
\* fails, the session's object in this process is handed out.
get_session_history(r) ==
    LET s == SessionOf[r]
    IN  \/ /\ UseRedis
           /\ redis_history[s] # <<>>
           /\ history' = [history EXCEPT ![r] = r]
           /\ heap' = [heap EXCEPT ![r] = redis_history[s]]
        \/ /\ \/ ~ UseRedis
              \/ redis_history[s] = <<>>
              \/ RedisFails
           /\ history' = [history EXCEPT ![r] = s]
           /\ UNCHANGED heap

\* In memory the object saved is the object the store already holds.
save_session_history(r) ==
    IF UseRedis
      THEN \/ redis_history' =
                [redis_history EXCEPT ![SessionOf[r]] = heap[history[r]]]
           \/ RedisFails /\ UNCHANGED redis_history
      ELSE UNCHANGED redis_history

StoredHistory(s) == IF UseRedis THEN redis_history[s] ELSE heap[s]

-----------------------------------------------------------------------------
(* The store: facts.                                                       *)

\* The facts a read may return; a failed read falls back to this process.
get_user_facts(s) ==
    IF UseRedis
      THEN {redis_facts[s]} \cup (IF RedisFails THEN {in_memory_facts[s]} ELSE {})
      ELSE {in_memory_facts[s]}

save_user_facts(s, facts) ==
    IF UseRedis
      THEN /\ \/ redis_facts' = [redis_facts EXCEPT ![s] = facts]
              \/ RedisFails /\ UNCHANGED redis_facts
           /\ UNCHANGED in_memory_facts
      ELSE /\ in_memory_facts' = [in_memory_facts EXCEPT ![s] = facts]
           /\ UNCHANGED redis_facts

StoredFacts(s) == IF UseRedis THEN redis_facts[s] ELSE in_memory_facts[s]

-----------------------------------------------------------------------------
(* load_history_memory_and_facts.                                          *)

GetHistory(r) ==
    /\ At(r, "received")
    /\ get_session_history(r)
    /\ Goto(r, "clear")
    /\ UNCHANGED <<added, redis_history, redis_facts, in_memory_facts,
                   new_facts, recent_history, reads, restarts>>

ClearedHistory_kept(h) == h

ClearedHistory(h) == <<>>

ClearHistory(r) ==
    /\ At(r, "clear")
    /\ heap' = [heap EXCEPT ![history[r]] = ClearedHistory(@)]
    /\ Goto(r, "add")
    /\ UNCHANGED <<history, added, redis_history, redis_facts, in_memory_facts,
                   new_facts, recent_history, reads, restarts>>

AddRequestMessage(r) ==
    /\ At(r, "add")
    /\ added[r] < Len(RequestMessages(r))
    /\ heap' = [heap EXCEPT
                  ![history[r]] = Append(@, RequestMessages(r)[added[r] + 1])]
    /\ added' = [added EXCEPT ![r] = @ + 1]
    /\ UNCHANGED <<pc, history, redis_history, redis_facts, in_memory_facts,
                   new_facts, recent_history, reads, restarts>>

CapHistory(r) ==
    /\ At(r, "add")
    /\ added[r] = Len(RequestMessages(r))
    /\ heap' = [heap EXCEPT ![history[r]] = LastMessages(@)]
    /\ Goto(r, "save")
    /\ UNCHANGED <<history, added, redis_history, redis_facts, in_memory_facts,
                   new_facts, recent_history, reads, restarts>>

SaveHistory(r) ==
    /\ At(r, "save")
    /\ save_session_history(r)
    /\ Goto(r, "summarize")
    /\ UNCHANGED <<heap, history, added, redis_facts, in_memory_facts,
                   new_facts, recent_history, reads, restarts>>

\* The facts of a history: what its messages add, and the value its last
\* message gives a key.
Revealed(h) ==
    {f \in Fact : \/ f.entry = "list" /\ \E i \in DOMAIN h : h[i].of = f.of
                  \/ f.entry = "value" /\ h[Len(h)].of = f.of}

\* llm_summarize_memory leaves at once when the history has fewer than two
\* messages.  The extraction call reads the history as it is now and may find
\* nothing (an answer that is not JSON) or fail.
ExtractFacts(r) ==
    LET h == heap[history[r]]
    IN  /\ At(r, "summarize")
        /\ \/ /\ Len(h) < 2
              /\ Goto(r, "route")
              /\ UNCHANGED new_facts
           \/ /\ Len(h) >= 2
              /\ \E found \in {{}, Revealed(h)} :
                   new_facts' = [new_facts EXCEPT ![r] = found]
              /\ Goto(r, "merge")
           \/ /\ Len(h) >= 2
              /\ Goto(r, "route")
              /\ UNCHANGED new_facts
    /\ UNCHANGED <<heap, history, added, redis_history, redis_facts,
                   in_memory_facts, recent_history, reads, restarts>>

\* A list of the facts takes the new elements in; any other value replaces
\* the one its key had, in a dictionary of the facts too (a list there is a
\* value like any other).
Merged(existing, found) ==
    found \cup {f \in existing :
                  f.entry = "list" \/ \A g \in found : g.entry # "value"}

\* The existing facts are read only now, after the call; a merge of values
\* of different types raises and nothing is saved.
MergeFacts(r) ==
    /\ At(r, "merge")
    /\ \/ /\ \E existing \in get_user_facts(SessionOf[r]) :
               new_facts' = [new_facts EXCEPT ![r] = Merged(existing, @)]
          /\ Goto(r, "save_facts")
       \/ Goto(r, "route") /\ UNCHANGED new_facts
    /\ UNCHANGED <<heap, history, added, redis_history, redis_facts,
                   in_memory_facts, recent_history, reads, restarts>>

SaveFacts(r) ==
    /\ At(r, "save_facts")
    /\ save_user_facts(SessionOf[r], new_facts[r])
    /\ Goto(r, "route")
    /\ UNCHANGED <<heap, history, added, redis_history, new_facts,
                   recent_history, reads, restarts>>

-----------------------------------------------------------------------------
(* The nodes between.                                                      *)

\* The routing, the search and both again in a retry read the history, as it
\* is when they run.
Answer(r) ==
    /\ At(r, "route")
    /\ recent_history' = [recent_history EXCEPT ![r] = heap[history[r]]]
    /\ reads' = [reads EXCEPT ![r] = @ + 1]
    /\ \/ Goto(r, "finalize")
       \/ reads[r] + 1 < MaxReads /\ UNCHANGED pc
    /\ UNCHANGED <<heap, history, added, redis_history, redis_facts,
                   in_memory_facts, new_facts, restarts>>

-----------------------------------------------------------------------------
(* finalize_answer.                                                        *)

AddAnswer(r) ==
    /\ At(r, "finalize")
    /\ heap' = [heap EXCEPT ![history[r]] = Append(@, Says(r, "answer"))]
    /\ Goto(r, "save_answer")
    /\ UNCHANGED <<history, added, redis_history, redis_facts, in_memory_facts,
                   new_facts, recent_history, reads, restarts>>

SaveAnswer(r) ==
    /\ At(r, "save_answer")
    /\ save_session_history(r)
    /\ Goto(r, "done")
    /\ UNCHANGED <<heap, history, added, redis_facts, in_memory_facts,
                   new_facts, recent_history, reads, restarts>>

-----------------------------------------------------------------------------
\* The process restarts: requests in flight are lost, and so is everything
\* that is not in Redis.
Restart ==
    /\ restarts < MaxRestarts
    /\ restarts' = restarts + 1
    /\ pc' = [r \in Requests |-> IF InFlight(r) THEN "lost" ELSE pc[r]]
    /\ heap' = [o \in Sessions \cup Requests |-> <<>>]
    /\ in_memory_facts' = [s \in Sessions |-> {}]
    /\ UNCHANGED <<setting, history, added, redis_history, redis_facts,
                   new_facts, recent_history, reads>>

Works(r) ==
    \/ GetHistory(r)
    \/ ClearHistory(r)
    \/ AddRequestMessage(r)
    \/ CapHistory(r)
    \/ SaveHistory(r)
    \/ ExtractFacts(r)
    \/ MergeFacts(r)
    \/ SaveFacts(r)
    \/ Answer(r)
    \/ AddAnswer(r)
    \/ SaveAnswer(r)

Advance(r) == Works(r) /\ UNCHANGED setting

AllOver == (\A r \in Requests : pc[r] \in Over) /\ UNCHANGED vars

Next == (\E r \in Requests : Advance(r)) \/ Restart \/ AllOver

\* A request that can go on does: threads run, model calls return or fail,
\* and the event loop gets to every task that stays ready.
Spec == Init /\ [][Next]_vars /\ \A r \in Requests : WF_vars(Advance(r))

-----------------------------------------------------------------------------
(* Properties.                                                             *)

TypeOK ==
    /\ setting \in Settings
    /\ pc \in [Requests -> NodeStarts \cup Over \cup
                 {"clear", "add", "save", "summarize", "merge", "save_facts",
                  "save_answer"}]
    /\ heap \in [Sessions \cup Requests -> Seq(Message)]
    /\ \A r \in Requests : history[r] \in {r, SessionOf[r]}
    /\ redis_history \in [Sessions -> Seq(Message)]
    /\ redis_facts \in [Sessions -> SUBSET Fact]
    /\ in_memory_facts \in [Sessions -> SUBSET Fact]
    /\ new_facts \in [Requests -> SUBSET Fact]
    /\ restarts \in 0..MaxRestarts

Conversation(r) == LastMessages(RequestMessages(r))

\* Whatever a node reads of the conversation, the first time or in a retry,
\* is the conversation the request's own client sent, whatever other requests
\* of the session do to the stored history between
\* load_history_memory_and_facts and the nodes that read it.
OwnHistorySeen ==
    \A r \in Requests : reads[r] > 0 => recent_history[r] = Conversation(r)

\* When no request of a session is in flight, what the session holds is the
\* conversation of one request, followed by that request's answer unless the
\* process stopped before it or Redis refused it: messages of two requests
\* are never mixed.  This is what graph.py 142 makes of a session; that a
\* session gathers the messages of its requests, as api/MIGRATION-TESTING.md
\* has it, is HistoryGathers of MCSessionMemory, which does not hold.
OneConversation ==
    \A s \in Sessions :
        (\A r \in Requests : SessionOf[r] = s => ~ InFlight(r)) =>
            \/ StoredHistory(s) \in {<<>>, Before}
            \/ \E r \in Requests :
                 /\ SessionOf[r] = s
                 /\ \/ StoredHistory(s) = Append(Conversation(r), Says(r, "answer"))
                    \/ /\ StoredHistory(s) = Conversation(r)
                       /\ pc[r] = "lost" \/ RedisFails

\* Every request is answered, or lost in a restart: a JSON request that holds
\* the event loop for all its nodes (run_graph_blocking) gives it back, and
\* the streams that waited to start a node go on.
AllAnswered == <>(\A r \in Requests : pc[r] \in Over)
=============================================================================
