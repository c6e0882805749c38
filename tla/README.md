# Geoq: a TLA+ verification project

Geoq answers questions about a region from local knowledge and web search.  Its
API (`api/`) runs every chat request through a LangGraph graph of nodes with a
quality loop, streams or returns the answer in the OpenAI format, and keeps a
history and facts per session in Redis or in memory.  A vendored Open WebUI
(`frontend/open-webui`) is the chat client.  Paths below are relative to the
root of the repository.

## 1. Inventory

| Component | State | Operations | Interacts with | What is hard |
|---|---|---|---|---|
| Conversation graph (`api/graph.py`, helpers in `api/utils.py`) | the `ConversationState` dictionary, copied from node to node | ten nodes, three conditional edges | models, vector store, search, session store | a loop that only a counter ends; fields that survive from one attempt into the next; caught failures that leave half a state; edges that raise |
| Chat endpoint (`api/app.py`) | per request: the stream so far, `is_thinking_open`, `has_final_answer_streamed` | validate, stream, run to completion, respond, fall back | runs the graph, saves a fallback | protocol of the stream on every path; an answer sent before it is judged; clients that leave |
| Session and fact store (`api/utils.py` 87-280) | `in_memory_store`, `in_memory_facts`, two Redis keys per session | get and save history, get, merge and save facts | nodes of concurrent requests | shared objects, read-merge-write without a lock, failing Redis, restarts |
| Health and model list (`api/app.py` 470-507) | none | two GETs | | nothing |
| Configuration, prompts, normalization (`api/config.py`, `prompts.py`, `text.py`) | constants | | read by all | caps and switches at their limits |
| Earlier API (`graph-api/`) | as `api/`, with a clarification node and no quality loop | | | as above |
| Knowledge embedding (`embed_qa.py`, `data/`) | vector store on disk | offline load | retriever | nothing concurrent |
| Open WebUI task registry (`backend/open_webui/tasks.py`) | `tasks`, `item_tasks`, two Redis keys | create, stop, list, clean up, command listener | chat middleware, document saves, several servers | creation against clean-up, stop against completion, two stops of one chat |
| Open WebUI socket pools (`socket/main.py`) | `SESSION_POOL`, `USER_POOL` | connect, user-join, disconnect | the tabs of the browser | a connection entered twice, events after its end |
| Open WebUI usage pool and lock (`socket/main.py`, `socket/utils.py`) | `USAGE_POOL`, the lock's key | usage event, periodic clean-up, acquire, renew and release the lock | several servers through Redis | a lock that expires, rounds that write back what they read |
| Open WebUI collaborative notes (`socket/main.py`, `YdocManager` in `socket/utils.py`) | updates and users of a document, rooms, debounced saves | join, update, leave, disconnect, save | task registry, the database, several servers | join against update, last leave against join, overlapping saves |
| Open WebUI direct completion (`utils/chat.py`, `src/routes/+layout.svelte`) | a channel, its queue, the request to the browser | call, acknowledge, relay, end | server and browser over one socket, a model provider | order of acknowledgement and pieces, a stream without an end |
| Open WebUI browser session (`src/routes/+layout.svelte`, `(app)/+layout.svelte`, `auth/+page.svelte`) | stored token, per tab: page, user store, socket | load, check the session, sign in, sign out, connect, reconnect | socket pools; tabs share `localStorage` | tabs that sign in and out under each other, reconnections |
| Open WebUI Redis connections (`utils/redis.py`) | connection cache | calls with retries | all of the above | a retry of what was already done |
| Open WebUI chat middleware (`utils/middleware.py`) | content blocks of the message being streamed | read a stream, cut reasoning tags, save | Geoq's stream | tags split over chunks, saves against edits |
| Open WebUI routers, models, retrieval, storage, other pages | database, files, browser | CRUD | | upstream code without a protocol of its own here |

What makes the modelled components correct:

* graph: it ends; it makes no more attempts than configured and accounts for each;
  it finalizes no answer that should have been retried; the answer that leaves is
  the one judged last; nothing of an earlier attempt's retrieval reaches the model;
* endpoint: one answer per request, in a well-formed stream that always ends; a
  response that reports success was judged; the session and the client agree;
* store: a request is answered from its own conversation, a session holds one
  conversation, every request is answered (that a session gathers the messages of
  its requests, and that a save keeps what the facts had, the repository says and
  the code does not do: section 3);
* task registry: its tables agree, what runs is listed, a stop ends what it is
  for and returns;
* pools and browser: the server sees the events of a connection in a legal order,
  nobody is active by a connection that is gone, a signed-in tab joins and no tab
  goes round between two pages;
* usage pool: one server cleans, and what has expired goes away and stays out;
* notes: nobody in a document misses an update, a document is kept while somebody
  is in it, the last editor's text is saved;
* direct completion: the response is the provider's answer in order and complete,
  a refusal brings no piece of an answer, a request and its channel come to an end.

`PROJECT.json` lists the main hazards at their lines with the properties that
watch them; section 6 has the rest.

## 2. Modules

| Module | Models |
|---|---|
| `ConversationGraph` | one request through the graph: every node with the edge that leaves it |
| `ChatContract` | what the endpoint promises a client (abstract) |
| `ChatCompletions` | the endpoint around `ConversationGraph`; refines `ChatContract` |
| `SessionMemory` | the two nodes that use the store, statement by statement, for concurrent requests |
| `TaskRegistry` | the tasks of the servers, their registration, stop and clean-up |
| `UserPools` | the session and user pools of one socket server, for any client |
| `BrowserSession` | the tabs of a browser and their sockets; extends and refines `UserPools` |
| `UsagePool` | the models in use, the cleaners of the servers and their lock |
| `CollaborativeNotes` | one document that several sessions edit |
| `DirectCompletion` | an answer that the browser fetches for the server |
| `MCChatCompletions` | a statement of the documentation that the code does not keep |
| `MCSessionMemory`, `MCTaskRegistry`, `MCBrowserSession`, `MCUsagePool`, `MCCollaborativeNotes` | the instances of these modules; `MCTaskRegistry` and `MCSessionMemory` also state what a docstring, a comment and a test guide say that the code does not do |
| `ConversationGraphProofs`, `ChatCompletionsProofs`, `TaskRegistryProofs`, `SessionMemoryProofs`, `BrowserSessionProofs`, `UsagePoolProofs`, `CollaborativeNotesProofs`, `DirectCompletionProofs` | the inductive invariants and the theorems |

`ChatCompletions` composes the endpoint with the graph, `BrowserSession` the
browser with the server's pools; `ChatContract` and `UserPools` are the abstract
specifications they are shown to implement.

### ConversationGraph

`node` is the node to run next, `"END"` or `"raised"`; `state` is the
`ConversationState`, one field per key that control depends on; `stored` is the
session's history.  Actions have the names of the node functions and operators
the names of the helpers.  Each node is one step: nodes of one request run one
after another, and what other requests do to the store is in `SessionMemory`.
Model, judge, search, retrieval and Redis answers are nondeterministic over what
the code tells apart, including answers it does not expect (a route outside the
edge map, a score that is not a number, a strategy that is not a string).
Exceptions a node catches are disjuncts of its action, with the fields they set;
exceptions in an edge function lead to `"raised"`.

Data.  An answer is a record: who made it, whether it is an answer, an apology
or empty, in which attempt, and from the local context of which attempt.  A
context is the number of the attempt that retrieved it, 0 for none, so that
stale context is visible.  A history is its length and its final assistant
message; a session may hold one from before, which ends in an earlier answer
(`EarlierAnswer`) when an earlier request was answered.  `earlier` counts the user and assistant messages before the question;
system messages are dropped by the code.

The graph modelled is the one `create_conversation_graph` compiles at
`graph.py` 936-1019.  The first definitions at 609-717 are replaced by the later
ones of the same names before the application uses them.

### ChatCompletions

Extends the graph with the request, the phase of the exchange, the chunks sent
and the two flags of `stream_graph_execution`.  `StreamNode` runs a node and
sends its chunks, since the generator is pulled: no node starts before the
chunks of the one before are sent.  `FailStream` is a node or edge that raises.
`ClientLeaves` may happen whenever the generator waits; the node running in its
thread may still complete.  `RunBlocking`, `Respond` and `RespondFailed` are the
JSON path.  Pieces of 30 characters of one answer are one chunk.  A request with
no message or an unknown role is refused by the request model before any code
of the repository runs and is not modelled.

### SessionMemory

One process of requests on a heap of history objects.  `history[r]` is the
object a request works on: the session's own object when `in_memory_store` hands
it out, an object of the request when it was read from Redis.  The atomic steps
are the single reads and writes of the store and of the shared object.
`MayRun` is the event loop: a JSON request runs `conversation_graph.invoke`
inside a coroutine, so while one is in flight no stream starts a node and no
other request starts; nodes a stream has started go on in their threads.
`setting` is what stays as it is while the process runs: whether there is a Redis,
whether its calls may raise, whether it holds the session from before, and which
requests are streams.

A fact is something a merge adds to what there is (an element of a list, or a key
of a dictionary that no other request fills in), or the value of one key that
requests fill in differently.  `Merged` unites the first and lets a value replace
the one its key had (`utils.py` 258, 263), so that facts do get lost by a merge:
the code has it so, and no property says otherwise.  `Answer` is a read of the
history by a node after `load_history_memory_and_facts`; a request does it up to
`MaxReads` times, since the search and each retry read it again.  The read of the
facts at `graph.py` 163 only feeds prompts and is left out; the read that is
merged and saved is not.

### TaskRegistry

`redis` chooses between the two forms `tasks.py` has.  Without Redis one server
runs, and its event loop switches only where a coroutine waits: a stop request
that has not given it up goes on before anything else (`MayRun`).  With Redis
each call or pipeline is a step, servers may crash, their listeners may end
(`ListenerFails`) and a call may fail (`Fails`).  `create_task` and
`redis_save_task` are the two halves of `create_task`; `cleanup_task`,
`redis_cleanup_task`, `redis_delete_item` and `local_cleanup` the callback of a
task that ended; `stop_item_tasks` and `stop_task_endpoint` start a request,
`stop_task`, `redis_send_command` and `stop_returns` carry it on, and
`redis_task_command_listener` delivers.  Without Redis a request for an item
walks the registry's own list by index, which the clean-up shrinks under it.  A
task is its progress in `run`; one that is asked to stop ends, or ends with an
error, which leaves `stop_task` and the request with it (`stop_raises`).

### UserPools and BrowserSession

A server without Redis handles an event of a socket in one step, so the pools have
three operations, and `PoolNext` lets any client do what the socket library
allows.  A list of connections is a bag, since its order is never used.

`BrowserSession` has the tabs of one browser.  `page` is how far a tab's load has
come, `route` where it is, `user` its user store (`Undefined` before a session is
known, `Nobody` for null), `auth` the token its socket keeps, and `token` what
`localStorage` has for all tabs.  `setupSocket` and `getSessionUser` are the mount
of the root layout, `Mounts` that of the guard or the sign-in page,
`setSessionUser` a sign-in, `checkTokenExpiry` the end of a session, `Connects`,
`getVersion` and `VersionChanged` the socket's connect handler, `Breaks` a
connection that ends with what was under way, `Handles` the server.  What a tab
emits while its socket is down waits in `buffer`.  Signing out leaves the page.
Calls of the page may be refused: `BackendMissing` is a start without a
configuration (the error page, or a handler that throws before it), the second
read of it at a session check leaves a page that does not mount, a sign-in whose
configuration cannot be read stays where it is, and `VersionFails` is the version
that `+layout.svelte` 91 does not get: nothing catches it, and the connect handler
ends before its `user-join`, which `failed` remembers.  `greeting` counts the
connect handlers that wait for a version, since connections may break meanwhile.
The sign-in page goes on with its OAuth and trusted-header sign-ins after it has
sent the tab away (`signins`).
Left out: theme, language, notifications, Python execution, what pages show.

### UsagePool

`Acquires`, `Renews`, `Releases` and `Deletes` are `RedisLock` as
`periodic_usage_pool_cleanup` uses it, `Reads`, `Writes` and `Sleeps` its round,
`usage`, `Gets` and `Sets` the usage event.  The calls to Redis block a server, so
a server is in one of them at a time.  An entry is the time since its
`updated_at`; `Ticks` lets it grow in the pool, in what a round has read and in
the event that is being recorded, so that what is written back is as old as it
was and may bring back what another cleaner has removed.  A lock expires when its
holder is dead, or, counted in `stalls`, under a holder that was too slow.
`CleanerFails` and `UsageFails` are calls to Redis that raise: a round ends in its
`finally`, which may fail too, and a usage event is lost.

### CollaborativeNotes

A document's state is the set of its updates, since Yjs updates commute.  Without
Redis a handler is one step up to where it sends or waits; with it each call of
`YdocManager` is a step, sessions are on different servers and `bus` is what a
server has yet to send to its members.  `Opens`, `add_user`, `enter_room` and
`get_updates` are a join; `Edits`, `Cancels`, `Stopped`, `append_to_updates`,
`Sent` and `SaveCreated` an update; `document_save_handler` the debounced save; `Leaves`,
`disconnect` and the four steps of `Parts` a leave and a disconnect.  The editor
is not in the repository: it is taken to start from the state it is given and to
send each edit with the text it results in.  Before an update,
`stop_item_tasks` cancels saves that wait, one by one (`Cancels`), and may return
with any of them left (`Stopped`): it skips tasks of the list it walks, gives up at
one it does not find, and what it raises is ignored.  So saves overlap.

### DirectCompletion

The server side is `generate_direct_chat_completion`: `event_caller` registers the
channel and sends the request, `Receive` takes what the browser has emitted,
`event_generator` yields it, `Background` closes the channel, `CallTimesOut` and
`Stopped` end the wait.  The browser side is the `chatEventHandler` branch for it:
`chatEventHandler` starts or drops the request, `CompletionFails`,
`CompletionReturns` and `CompletionStarts` are the provider's three ways to
answer, `processStream`, `StreamEnds` and `StreamFails` the relay with its
`finally`.  An acknowledgement carries a body, the set of the fields among
`status` and `error` that are truthy in it: a refusal is acknowledged with the
provider's own body (`+layout.svelte` 367 and 412), and one with a status passes
the check at `chat.py` 112.  A broken connection loses the last of what is under
way.

### Broken variants

Operators such as `MaxReached_off_by_one` are broken variants of the operator
they stand before.  They are used by no specification; replacing the operator by
its variant makes the property named in `PROJECT.json` fail, which shows that
the property depends on that line of code.

## 3. Runs

| Run | Instance | Shows |
|---|---|---|
| `ConversationGraph` | 2 retries, in memory, gate on, history cap 1, a request with and without an earlier message, a session that is new, ends in a question or ends in an earlier answer | types, attempts accounted, gate respected, final answer judged, fresh context, confident local answers, termination |
| `ChatCompletions` | 1 retry, Redis that may refuse a save, both kinds of request, clients that leave, the same sessions | stream protocol, session and client agree, success was judged, every request ends, refinement of `ChatContract` |
| `SessionMemory` | 3 requests of one session, one with two earlier messages, history cap 2, 2 reads each, 1 restart, in three settings: JSON requests in memory, JSON requests with a Redis that refuses any call, 2 streams and a JSON request with a Redis that has the session | no mixed history, answered from the own one, all answered |
| `TaskRegistry` | one chat; without Redis 3 tasks and 2 stop requests, with it 2 tasks on 2 servers, 1 stop request, and 1 failure (a call, a crash, a listener, a task that ends with an error) | tables agree, Redis lists what runs, stops wait, return and reach |
| `DirectCompletion` | 3 pieces, 1 broken connection, streams and plain answers, every body of a refusal | the answer is complete and in order, nothing of a refusal is streamed as a piece, requests and channels end |
| `BrowserSession` | 2 tabs with 2 and 1 connections, one account | refinement of `UserPools`, no ghost connections, tabs settle and join |
| `CollaborativeNotes` | without Redis 3 sessions and 2 edits, with it 2 sessions on 2 servers and 1 edit | no update missed, the document kept, the last editor's text saved |
| `UsagePool` | 2 servers, 2 sessions, 1 model, `TIMEOUT_DURATION` 0, 1 stall, 1 crash, failing calls, with Redis and without | one cleaner, expired usage removed, and gone for good once usage stops |

Both kinds of store are covered: `ConversationGraph` in memory, `ChatCompletions`
with Redis, `SessionMemory` with both.  In memory the stored object can be left
half rebuilt by a failed load; with Redis a save can be refused; the first needs
the graph alone and the second what the client got.

Bounds.  Two retries are one more than the configured number: stale data of the
first attempt can meet the third, and the counter is seen below, at and beyond
each comparison.  The endpoint has one retry, which is enough for an answer sent
before the retry and an answer after it.  `MAX_HISTORY_LEN` 1 with up to one
earlier message is at and above the cap.  In `SessionMemory` the cap 2 is below
what one request brings and above what the others do.  Three requests are enough
for two that interfere and one that observes or waits; two reads are one before
and one after whatever another request does between them; `MaxRestarts` 1 puts a
crash between any two steps.

In `TaskRegistry` three tasks are a stopped one, one whose clean-up moves the
list and one that is skipped or stopped by another; two requests are the fewest
that can take a task from each other.  In `BrowserSession` a tab with two
connections reconnects or reloads once while another signs in and out of the same
token.  In `CollaborativeNotes` one session leaves while one joins and one is in
the document; with Redis one edit is enough for what can be missed, since an
update is missed or not whatever the others are.  In `UsagePool` two servers are
the fewest that compete, and one stall puts two of them into a round; with
`TIMEOUT_DURATION` 0 an entry is in time or expired, which is all the code asks.
Three pieces and one break put the break before, between and after pieces.

Fairness.  `WF(Step)`: a node ends, because every model, search and Redis call
returns or raises after its client's timeout, and LangGraph starts the next
node.  `WF(Work)`: the server goes on with a request; nothing makes a client
leave.  `WF(Advance(r))` for each request: threads run and the event loop is
fair to ready tasks.  `TaskRegistry`: coroutines that can go on do, a task that
was cancelled ends, a published command is delivered to a server that listens; a
task nobody stops may run for ever.  `DirectCompletion`: the server goes on,
`sio.call` times out after 60 s, and a browser that is there goes on, which
includes that a provider ends its stream or fails.  `BrowserSession`: a page that
loads goes on, a socket reconnects, the server handles what it received; nobody
has to open, close or sign in.  `UsagePool`: a cleaner gets its turn though usage
events keep its server busy in between (strong fairness, the event loop's queue),
and a usage event that has begun ends.

Calls that fail.  Model, search, retrieval and Redis calls of the graph may fail
wherever a node makes them, and so may those of the registry (within the one
failure of its run) and of the usage pool, the saves of the endpoint, and the
calls of a page to its backend.  Taken to succeed are, in `SessionMemory`, the
calls of a Redis that serves streams (with a Redis that fails they share objects,
which is among the differences below), and the calls of `CollaborativeNotes` to
Redis and to the database.  A model provider that neither answers nor fails is
outside `DirectCompletion`.

Runs that end in a violation each check one statement of the documentation, a
test guide or a comment:

| Run | Statement | What the code does |
|---|---|---|
| `StreamedAnswer` | "evaluates quality, optionally refines it, and saves the final message" (`docs/ARCHITECTURE.md` 10) | a searched answer is streamed before it is judged (`app.py` 242-252); after a retry the stream carries the rejected answer |
| `StopsAll` | "Stop all tasks associated with a specific item ID" (`tasks.py` 175) | without Redis the loop walks the list that the clean-up of a stopped task shrinks (`tasks.py` 181, 90): it reports success with a task still running |
| `HistoryGathers` | 50 requests of one message each: "`History capped` appears in logs", "`new_len` = `MAX_HISTORY_LEN`" (`api/MIGRATION-TESTING.md` 185-204) | each request clears the stored history and rebuilds it from its own messages (`graph.py` 145): the session holds one question and one answer, whatever came before |
| `ListsKept` | "Merge with existing facts", "Merge lists and remove duplicates" (`utils.py` 251, 260) | read, merge and save are three steps without a lock (`utils.py` 252-273): of two streams that have both read, the second to save drops the elements and keys the first had added |

`HistoryGathers` has three JSON requests, in memory, one after another, with a cap of
3 in the place of 20.  `OneConversation` is the other side of it: what the
code makes of a session instead.

Other differences between text and code met while reading, without a run of their
own: "Max messages to keep" (`config.py` 33) against the answer that is added
after the cap (`graph.py` 848): a history exceeds the cap by that answer, and the
theorem `HistoryIsBounded` says by no more, for caps above 0;
"The chat path reports a useful configuration error at runtime" (`config.py` 20)
against an apology without an error (`utils.py` 668); "Skip evaluation" with the
gate off (`api/complete-graph-visual.md` 408) against a judge that is always
called (`graph.py` 992); "Retrieve personalized facts for a user" (`utils.py` 170)
against one session for all requests without an id (`app.py` 360).
"No retry attempts are shown to user (hidden)" (`graph.py` 829) against an
`error_info` that survives from a retried attempt (`graph.py` 600) and makes the
good answer leave with `finish_reason` "error"; "Context source (RAG/Google/etc)"
(`utils.py` 685) against a judge that is told "Chat" after a fallback
(`graph.py` 739-744); "Retrieve conversation history for a session" (`utils.py`
104) against streams that share the stored object in memory (`utils.py` 136,
`graph.py` 145); "Deep merge logic" (`utils.py` 254) against a dictionary whose
lists, such as `past_mentions.hotels` (`prompts.py` 180-192), are replaced by the
new ones (258), and a failed read taken for no facts (181).

## 4. Proofs

The proof modules prove their theorems for every value of the constants that
satisfies the named assumptions of the modules: `ConfigurationAssumption`,
`SessionAssumption`, `RegistryAssumption` (finitely many tasks),
`BrowserAssumption` (finitely many accounts, distinct connections),
`PoolAssumption`, `UsageAssumption`, `NotesAssumption` and `DirectAssumption`.  The assumptions type the constants and
say nothing of the behaviour.  Every argument is an inductive invariant with one
lemma per action; the last lemmas put them together.

`ConversationGraphProofs`: `TypeCorrect`, `AttemptsAreAccounted`,
`GateIsRespected`, `FinalAnswerIsJudged`, `ContextIsFresh`,
`LocalAnswersAreConfident`, `HistoryIsBounded`, `RetriesAreOfRejected`, for every
number of retries, every history cap, every configuration and requests of any
length.  None of the properties is inductive alone.  That the model gets fresh
context needs to know that the context block is of the current attempt when the
model is called, hence that `rag_context` is when the block is built, hence that
`reranked_docs` is when confidence is checked, and that a first attempt routed to
"chat" starts with none and a retry is never routed to "chat".  The last needs a
judgement to exist in every retry.  `IInv` collects these facts: `AnswerInv`
(what `llm_output` is once answered and once judged), `RetryInv` (when a retry is
possible), `ContextInv` (of which attempt local context is, node by node) and
`StoredInv` (what the session can end with: nothing, the answer, or that of an
earlier request, which outlives the load only if Redis refuses its save or the
load fails).  The argument goes in three stages:
lemmas on what each helper returns, one effect lemma per node (what it sets and
what it leaves alone), and `InvariantPreserved`, one case per node from its
effect lemma.  `HistoryIsBounded` is a second, smaller induction that uses `IInv`
for types only; its statement is in this module and no run checks it.
`RunsFewNodes` is the part of `GraphStops` that is not fairness: `NodesLeft` counts
the nodes ahead in this attempt and eight for each attempt that is left, and every
node that runs makes it smaller, a retry by the attempt it uses up.  LangGraph
itself gives up after 25 nodes by default, which the model does not have: with at
most 16 nodes at the configured one retry, and 24 at two, it is not reached; from
three retries on it may be.

`ChatCompletionsProofs`: `SectionIsWellFormed`, `StreamIsEnded`,
`AnswerIsStreamed`, `SessionAgreesWithClient`, `SuccessIsJudged`,
`ChatTypesCorrect`, for the same constants and any moment at which a client
leaves.  The endpoint only runs the graph's steps, so `IInv` carries over while
the exchange lasts (`GraphStep`); the fallback of a failed response breaks it,
and only when everything is over.  `StreamInv` says that a running stream is
either open (the section and progress lines) or closed (one closing chunk, then
the answer), in step with the two flags.  `AnswersInv` says where the answers in
it come from: `Traced` is inductive because an answer that was the graph's
becomes, at a retry, one a search of an earlier attempt had found.
`EndpointKeepsContract` is the refinement of `ChatContract` but for its fairness:
every step of the endpoint shows a first answer, closes with at most an apology,
leaves, or changes nothing the client sees.  `ContractStep` has a case per action.
It needs `ChatInvariant` for what has been sent and `WayInv`: only streams stream,
and only JSON requests wait for their answer.  `ExchangeIsShort` adds the steps of
the endpoint to `NodesLeft`.

`SessionMemoryProofs`: `SessionTypesCorrect`, `AnsweredFromOwnHistory`,
`HistoriesNeverMixed`, for any number of requests, sessions, messages, reads and
restarts.  The properties do not hold in every setting: two streams of a session
that is kept in memory work on one list and mix it.  The theorems say when they
do, with `Apart` as a hypothesis on the setting, which never changes.  `Serial`:
there are no streams, so that a JSON request has the event loop for itself.
`OwnObjects`: Redis has the session and answers, so that each read builds a list of
the request's own.  Either one keeps histories apart, and the three settings of
the run `SessionMemory` are instances.  `ObjectInv` says who works on which object,
`HeapInv` what it holds at each place of the code and what has been read of it,
`SavedInv` and `KeptInv` what the session is left with in Redis and in memory.
`RequestsComeCloser` holds in every setting: each step of a request leaves it
fewer, and no other step adds any.  Of facts nothing is proved: what one would
like to say of them does not hold (`ListsKept`).

`TaskRegistryProofs`: `TablesAlwaysAgree`, `RunningListed`, `StoppedIsWaitedFor`,
`RegistryTypesCorrect`.  `RegistryInv` adds `LifeInv` (how the progress of a task,
of its creation and of its clean-up belong together) and `SavedInv` (a task that
was saved and not cleaned up is in Redis, and the list of an item has only tasks
of that item which Redis knows).

`BrowserSessionProofs`: `AlwaysListed` and `AlwaysLive` of the pools, for any client.
`BrowserUsesPools` proves the refinement of `UserPools` by
the browser and its server, and `BrowserSessions` transfers the pools' invariants
to them.  Every event that is handled must be one of a connection that is live.
So `BrowserInv` says of what is under way that each event belongs to a live
connection of its own tab, that nothing of a connection follows its disconnect
(`InboxInv`), and that the connection a tab has is live and has not ended
(`LinkInv`).  `OneAccountNoGhosts` is `NoGhosts` for one account, the case the
code gets right; with two accounts on one connection it does not hold
(section 6).

`UsagePoolProofs`: `OneCleans`, that the cleaner holds the lock while no lock
expires under a live server, whatever calls fail; `LockInv` adds that a server
which is about to delete the lock still holds it.  `UsageTypesCorrect`: among the
types are the ages, which no copy lets grow beyond what is told apart.

`CollaborativeNotesProofs`: `NobodyMisses` is inductive with the types of what it
reads.  `DocumentKept` needs `ServerInv`: on one server the room, the users of the
document and the editors that show it are the same sessions, so that a document
without users has no editor, and an update that was sent is in the document.
`LastStopIsSaved` needs `NewestInv`: the edit that stopped saves last has yet to
create its save, or has one that waits or has run, or its editor is gone, or
another edit is stopping saves now and will be the last.  It holds whichever saves
a stop takes or leaves.  `NotesTypesCorrect`.

`DirectCompletionProofs`: `OnlyAccepted`.  The server sees acknowledgements only,
so `AcceptedInv` says that one with a status under way for a stream implies that the
provider accepted or refused with a status, and that there are no pieces on the
way of a provider that has not accepted.  `AnswersAreWhole`: `FlowInv` follows the
call, the wait and the stream, and says in each that what was yielded, then
queued, then under way are the pieces read so far.  `DirectTypesCorrect`.

Every invariant a run checks is stated by one of these theorems.  Only model-
checked is liveness (`GraphStops`, `AllAnswered`, `StopReturns`, `StopReaches`,
`RequestEnds`, `ChannelClosed`, `TabSettles`, `TabJoins`, `StaleRemoved`,
`ExpiredStaysOut`), and of
`ChatContract` that an exchange the client does not leave is closed: fairness and
ENABLED are outside the prover.  Of the graph, the endpoint and finitely many
session requests it is proved that a behaviour takes finitely many steps
(`RunsFewNodes`, `ExchangeIsShort`, `RequestsComeCloser`); that a next step is
always possible until the end is TLC's check for deadlock.

## 5. Not modelled

Of Geoq: the text of prompts, answers and chunks; the ranking of documents beyond
whether there are any and whether they are confident; Redis key expiry (7 and 30
days); summaries and selected history, which only feed prompts; JSON logging;
`graph-api`, the earlier version of the graph; the examples and the offline
embedding.

Of Open WebUI: the browser's own library is not in the repository (`src/lib` is
missing), so the editor of shared notes, the API clients and the stores are
modelled from how the pages use them.  The minified third-party bundle in
`static/swagger-ui` is most of the JavaScript counted in the repository; it is not
part of the program's logic.  Pages other than the layouts and the sign-in page
show components that are missing.  The chat middleware is text processing over
content blocks; the routers, models, retrieval and storage are requests over a
database without a protocol of their own.

Simplifications inside the modelled parts.  A call to Redis is done once or
fails: `utils/redis.py` may repeat one after a Sentinel fail-over.  The graph has no
recursion limit (section 4).
`CollaborativeNotes` has one document, so the loop over the documents of a
session that disconnects is one step of its body; the check that a document
exists is merged with the count of its users; its calls succeed.  `SessionMemory`
has one key of facts that requests give a value, and an answer and a history that
are well formed: the failures the two nodes catch are in `ConversationGraph`.
`BrowserSession` has one browser, and its run one account.  `DirectCompletion` has
one request at a time.

## 6. Plan

Done: the graph, the endpoint and its contract, the session store; the task
registry; the socket pools with the browser as their client; the usage pool and
its lock; shared notes; direct completions; the proofs of section 4.

Left, in this order: `ThinkReader`, the part of the middleware that cuts
reasoning tags, composed with the chunks of `ChatCompletions`; the earlier graph
with its clarification node; the repeated calls of `utils/redis.py`, with the
registry and the lock as callers.

Hazards beyond the properties.  These were met in the code and no property
states them (some are in `PROJECT.json` with a note), because the code makes no
promise about them, or because they lie outside the instances:

* `api/graph.py` 600: an error of an attempt that was retried makes the good answer
  leave as an error; 156: a cap of 0 caps nothing.  `api/utils.py` 136: streams that
  share the stored object in memory; 258: a dictionary of facts loses its lists.
* `api/graph.py` 480: low-confidence context of one attempt is given to the search
  of a later one; 739: the judge's label of an answer after a fallback.
* `backend/open_webui/tasks.py` 64: an item's set is deleted after its count was
  read, and a task may have been added; 32, 86, 119: a failing call ends a
  listener, loses a clean-up or leaves a task running that nobody lists.
* `utils/chat.py` 112: a refusal with a status is taken for a stream, which is empty;
  95: the channel stays registered after a timeout or a refusal;
  159: an error of a plain completion becomes an empty answer.
* `src/routes/+layout.svelte` 91: a version that is refused ends the connect handler
  before its join, so that a socket created without a token stays unknown to the
  server until it connects again; 392: a line of the provider cut by a read is
  sent on as two;
  410-413: a second acknowledgement after a failing stream is ignored; 177: an
  execution answered after its 60 s; 551: two tabs that both take themselves for
  the last active; 651: a failed session check removes the token another tab has
  just stored.
* `socket/main.py` 281: two servers write back the same user's list; 301: a
  connection that joins as a second account stays listed under the first; 427: a
  user added to a document after a crash of its server is never removed; 545:
  an update that comes after the document was cleared starts it anew without the
  earlier ones; 571: an update without data is not saved; 539: a save that a stop has
  left or come too late for may run last, with an older text; 568: a save after the
  session has ended; 165, 190: a cleaner gives up, or fails on an entry another has removed;
  262: usage recorded during a round is lost.
* `socket/utils.py` 190: the updates are deleted after the count of users, while
  another server adds one.
* `utils/redis.py` 51: a call that failed after the server did it is repeated.
