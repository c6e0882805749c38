--------------------------- MODULE MCSessionMemory ---------------------------
(* SessionMemory for TLC: the requests and settings of its configurations, *)
(* and what a test guide and a comment say of the store that the code does *)
(* not do.                                                                 *)
EXTENDS SessionMemory

CONSTANTS r1, r2, r3, default, EarlierMessages

OneSession == {default}
EveryRequest == [r \in Requests |-> default]
SameEarlier == [r \in Requests |-> EarlierMessages]
OneLong == [r \in Requests |-> IF r = r1 THEN EarlierMessages ELSE 0]

InMemory == [redis |-> FALSE, fails |-> FALSE, warm |-> FALSE, streams |-> {}]
FailingRedis == [redis |-> TRUE, fails |-> TRUE, warm |-> TRUE, streams |-> {}]
RedisStreams ==
    [redis |-> TRUE, fails |-> FALSE, warm |-> TRUE, streams |-> {r1, r2}]

OnlyInMemory == {InMemory}
OnlyRedisStreams == {RedisStreams}
SafeSettings == {InMemory, FailingRedis, RedisStreams}

\* "Very Long History" (api/MIGRATION-TESTING.md 185-204): after requests of
\* one message each that together, with their answers, are longer than the
\* cap, "new_len = MAX_HISTORY_LEN": the session has gathered their messages.
HistoryGathers ==
    \A s \in Sessions :
        LET answered == {r \in Requests : SessionOf[r] = s /\ pc[r] = "done"}
        IN  2 * Cardinality(answered) >= MAX_HISTORY_LEN =>
                Len(StoredHistory(s)) >= MAX_HISTORY_LEN

\* "Merge with existing facts", "Merge lists and remove duplicates" (utils.py
\* 251 and 260): no save drops an element of a list the session had, or a key
\* that only one request has filled in.
ListsKept ==
    [][\A s \in Sessions : restarts' = restarts =>
          {f \in StoredFacts(s) : f.entry = "list"} \subseteq StoredFacts(s)']_vars
=============================================================================
