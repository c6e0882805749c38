------------------------- MODULE SessionMemoryProofs -------------------------
(***************************************************************************)
(* Proofs about SessionMemory, for any requests and sessions, any number   *)
(* of messages in a request, any history cap and any number of restarts.   *)
(*                                                                         *)
(* Histories stay apart when no two requests in flight work on the same    *)
(* object.  The code sees to that in two situations, which the hypotheses  *)
(* name: without streams a request has the event loop for itself until it  *)
(* is answered, and a Redis that holds the session and never fails gives   *)
(* every request an object of its own.  Two streams of a session that is   *)
(* kept in memory share its object, and mix their histories.  A setting    *)
(* never changes, so each theorem says in which settings it holds.         *)
(***************************************************************************)
EXTENDS SessionMemory, SequenceTheorems, TLAPS

\* Every request is answered as JSON.
Serial == Streams = {}

\* Every read of a history builds a new object.
OwnObjects == UseRedis /\ WarmRedis /\ ~ RedisFails

Apart == Serial \/ OwnObjects

-----------------------------------------------------------------------------
(* The inductive invariant.                                                *)

\* The types, those TypeOK leaves out included.
TypeInv ==
    /\ TypeOK
    /\ history \in [Requests -> Sessions \cup Requests]
    /\ added \in [Requests -> Nat]
    /\ recent_history \in [Requests -> Seq(Message)]
    /\ reads \in [Requests -> Nat]

\* Who works on which object.
ObjectInv ==
    /\ Serial => \A q, r \in Requests : InFlight(q) /\ InFlight(r) => q = r
    /\ OwnObjects => /\ \A s \in Sessions : redis_history[s] # <<>>
                     /\ \A r \in Requests : InFlight(r) => history[r] = r
    /\ ~ UseRedis =>
          \A r \in Requests : InFlight(r) => history[r] = SessionOf[r]

Rebuilt == {"save", "summarize", "merge", "save_facts", "route", "finalize"}

AnsweredConversation(r) == Append(Conversation(r), Says(r, "answer"))

\* What the object of a request holds, place by place.
Holds(r) ==
    /\ pc[r] \in {"received", "clear"} => added[r] = 0
    /\ pc[r] = "add" =>
          /\ added[r] <= Len(RequestMessages(r))
          /\ heap[history[r]] = SubSeq(RequestMessages(r), 1, added[r])
    /\ pc[r] \in Rebuilt => heap[history[r]] = Conversation(r)
    /\ pc[r] = "save_answer" =>
          heap[history[r]] = AnsweredConversation(r)
    /\ reads[r] > 0 => recent_history[r] = Conversation(r)

HeapInv == Apart => \A r \in Requests : Holds(r)

\* Saved before the answer, and not yet with it.
Halfway == {"summarize", "merge", "save_facts", "route", "finalize",
            "save_answer", "lost"}

SavedInv ==
    Apart /\ UseRedis =>
        \A s \in Sessions :
            \/ redis_history[s] \in {<<>>, Before}
            \/ \E r \in Requests :
                 /\ SessionOf[r] = s
                 /\ \/ redis_history[s] = AnsweredConversation(r)
                    \/ /\ redis_history[s] = Conversation(r)
                       /\ pc[r] \in Halfway \/ RedisFails

Idle(s) == \A r \in Requests : SessionOf[r] = s => ~ InFlight(r)

KeptInv ==
    Apart /\ ~ UseRedis =>
        \A s \in Sessions :
            Idle(s) =>
                \/ heap[s] = <<>>
                \/ \E r \in Requests : /\ SessionOf[r] = s
                                       /\ heap[s] = AnsweredConversation(r)

IInv ==
    /\ TypeInv
    /\ ObjectInv
    /\ HeapInv
    /\ SavedInv
    /\ KeptInv

-----------------------------------------------------------------------------
(* The messages of a request.                                              *)

\* The messages of a request are messages, at least one.
LEMMA RequestMessagesType ==
    ASSUME NEW r \in Requests
    PROVE  /\ RequestMessages(r) \in Seq(Message)
           /\ Len(RequestMessages(r)) \in Nat \ {0}
           /\ \A i \in 1..Len(RequestMessages(r)) :
                  RequestMessages(r)[i] \in Message
  <1>1. Earlier[r] \in Nat
    BY SessionAssumption
  <1> DEFINE n == Earlier[r] + 1
             m(i) == Says(r, IF i <= Earlier[r] THEN "earlier" ELSE "question")
  <1>2. n \in Nat \ {0}
    BY <1>1
  <1>3. \A i \in 1..n : m(i) \in Message
    BY DEF Message, Says
  <1>4. RequestMessages(r) = [i \in 1..n |-> m(i)]
    BY DEF RequestMessages
  <1> HIDE DEF n, m
  <1>5. [i \in 1..n |-> m(i)] \in [1..n -> Message]
    BY <1>3
  <1>6. RequestMessages(r) \in Seq(Message)
    BY <1>2, <1>4, <1>5
  <1>7. Len(RequestMessages(r)) = n
    BY <1>2, <1>4, <1>5
  <1>8. QED
    BY <1>2, <1>3, <1>4, <1>6, <1>7

\* Capping a history leaves a history, and never an empty one of one that was not.
LEMMA LastMessagesType ==
    ASSUME NEW h \in Seq(Message)
    PROVE  /\ LastMessages(h) \in Seq(Message)
           /\ Len(h) > 0 => Len(LastMessages(h)) > 0
  <1>1. MAX_HISTORY_LEN \in Nat \ {0} /\ Len(h) \in Nat
    BY SessionAssumption
  <1>2. CASE Len(h) > MAX_HISTORY_LEN
    <2> DEFINE m == Len(h) - MAX_HISTORY_LEN + 1
    <2>1. LastMessages(h) = SubSeq(h, m, Len(h))
      BY <1>2 DEF LastMessages
    <2>2. m \in 1..Len(h)
      BY <1>1, <1>2
    <2> HIDE DEF m
    <2>3. \A i \in m..Len(h) : h[i] \in Message
      BY <2>2, ElementOfSeq
    <2>4. /\ SubSeq(h, m, Len(h)) \in Seq(Message)
          /\ Len(SubSeq(h, m, Len(h))) = IF m <= Len(h) THEN Len(h) - m + 1 ELSE 0
      BY <1>1, <2>2, <2>3, SubSeqProperties
    <2>5. QED
      BY <1>1, <2>1, <2>2, <2>4
  <1>3. CASE ~ (Len(h) > MAX_HISTORY_LEN)
    BY <1>3 DEF LastMessages
  <1>4. QED
    BY <1>2, <1>3

\* The conversation a request is answered from is a history, and not empty.
LEMMA ConversationType ==
    ASSUME NEW r \in Requests
    PROVE  /\ Conversation(r) \in Seq(Message)
           /\ Conversation(r) # <<>>
           /\ Says(r, "answer") \in Message
           /\ AnsweredConversation(r) \in Seq(Message)
           /\ AnsweredConversation(r) # <<>>
  <1>1. /\ Conversation(r) \in Seq(Message)
        /\ Len(Conversation(r)) > 0
    BY RequestMessagesType, LastMessagesType DEF Conversation
  <1>2. Says(r, "answer") \in Message
    BY DEF Says, Message
  <1>3. /\ AnsweredConversation(r) \in Seq(Message)
        /\ Len(AnsweredConversation(r)) = Len(Conversation(r)) + 1
    BY <1>1, <1>2, AppendProperties DEF AnsweredConversation
  <1>4. Len(<<>>) = 0
    BY EmptySeq
  <1> HIDE DEF Conversation, AnsweredConversation
  <1>5. Len(Conversation(r)) \in Nat
    BY <1>1
  <1>6. Len(AnsweredConversation(r)) > 0
    BY <1>3, <1>5
  <1>7. QED
    BY <1>1, <1>2, <1>3, <1>4, <1>6

-----------------------------------------------------------------------------
(* Types.                                                                  *)

\* A request without an object of its own yet gets one of the two it may have.
LEMMA ObjectType ==
    ASSUME TypeInv, NEW r \in Requests, get_session_history(r)
    PROVE  /\ heap' \in [Sessions \cup Requests -> Seq(Message)]
           /\ history' \in [Requests -> Sessions \cup Requests]
           /\ \A q \in Requests : history'[q] \in {q, SessionOf[q]}
  <1>1. SessionOf[r] \in Sessions
    BY SessionAssumption
  <1>2. redis_history[SessionOf[r]] \in Seq(Message)
    BY <1>1 DEF TypeInv, TypeOK
  <1>3. /\ heap \in [Sessions \cup Requests -> Seq(Message)]
        /\ history \in [Requests -> Sessions \cup Requests]
        /\ \A q \in Requests : history[q] \in {q, SessionOf[q]}
    BY DEF TypeInv, TypeOK
  <1>4. CASE /\ history' = [history EXCEPT ![r] = r]
             /\ heap' = [heap EXCEPT ![r] = redis_history[SessionOf[r]]]
    BY <1>2, <1>3, <1>4
  <1>5. CASE history' = [history EXCEPT ![r] = SessionOf[r]] /\ UNCHANGED heap
    BY <1>1, <1>3, <1>5
  <1>6. QED
    BY <1>4, <1>5, Zenon DEF get_session_history

\* Saving a history or facts keeps the types of the stores.
LEMMA StoreTypes ==
    ASSUME TypeInv, NEW r \in Requests
    PROVE  /\ save_session_history(r) => redis_history' \in [Sessions -> Seq(Message)]
           /\ save_user_facts(SessionOf[r], new_facts[r]) =>
                 /\ redis_facts' \in [Sessions -> SUBSET Fact]
                 /\ in_memory_facts' \in [Sessions -> SUBSET Fact]
           /\ \A existing \in get_user_facts(SessionOf[r]) :
                 existing \in SUBSET Fact
  <1>1. SessionOf[r] \in Sessions
    BY SessionAssumption
  <1>2. heap[history[r]] \in Seq(Message)
    BY DEF TypeInv, TypeOK
  <1>3. save_session_history(r) => redis_history' \in [Sessions -> Seq(Message)]
    BY <1>1, <1>2 DEF save_session_history, TypeInv, TypeOK
  <1>4. save_user_facts(SessionOf[r], new_facts[r]) =>
                 /\ redis_facts' \in [Sessions -> SUBSET Fact]
                 /\ in_memory_facts' \in [Sessions -> SUBSET Fact]
    BY <1>1 DEF save_user_facts, TypeInv, TypeOK
  <1>5. \A existing \in get_user_facts(SessionOf[r]) : existing \in SUBSET Fact
    BY <1>1 DEF get_user_facts, TypeInv, TypeOK
  <1>6. QED
    BY <1>3, <1>4, <1>5

\* The places of a request, as TypeOK lists them.
Places == NodeStarts \cup Over \cup
          {"clear", "add", "save", "summarize", "merge", "save_facts",
           "save_answer"}

\* A request that goes on goes to a place.
LEMMA PlacesType ==
    ASSUME TypeInv, NEW r \in Requests, NEW place \in Places, Goto(r, place)
    PROVE  pc' \in [Requests -> Places]
  BY DEF Goto, TypeInv, TypeOK, Places

\* A request that advances keeps the types.
LEMMA AdvanceTypes ==
    ASSUME TypeInv, NEW r \in Requests, Advance(r)
    PROVE  TypeInv'
  <1>1. SessionOf[r] \in Sessions
    BY SessionAssumption
  <1>2. heap[history[r]] \in Seq(Message) /\ history[r] \in Sessions \cup Requests
    BY DEF TypeInv, TypeOK
  <1>3. /\ setting' = setting /\ setting \in Settings
        /\ pc \in [Requests -> Places]
        /\ heap \in [Sessions \cup Requests -> Seq(Message)]
        /\ \A q \in Requests : history[q] \in {q, SessionOf[q]}
        /\ redis_history \in [Sessions -> Seq(Message)]
        /\ redis_facts \in [Sessions -> SUBSET Fact]
        /\ in_memory_facts \in [Sessions -> SUBSET Fact]
        /\ new_facts \in [Requests -> SUBSET Fact]
        /\ restarts \in 0..MaxRestarts
        /\ history \in [Requests -> Sessions \cup Requests]
        /\ added \in [Requests -> Nat]
        /\ recent_history \in [Requests -> Seq(Message)]
        /\ reads \in [Requests -> Nat]
    BY DEF TypeInv, TypeOK, Places, Advance
  <1>4. SUFFICES
        /\ pc' \in [Requests -> Places]
        /\ heap' \in [Sessions \cup Requests -> Seq(Message)]
        /\ \A q \in Requests : history'[q] \in {q, SessionOf[q]}
        /\ redis_history' \in [Sessions -> Seq(Message)]
        /\ redis_facts' \in [Sessions -> SUBSET Fact]
        /\ in_memory_facts' \in [Sessions -> SUBSET Fact]
        /\ new_facts' \in [Requests -> SUBSET Fact]
        /\ restarts' \in 0..MaxRestarts
        /\ history' \in [Requests -> Sessions \cup Requests]
        /\ added' \in [Requests -> Nat]
        /\ recent_history' \in [Requests -> Seq(Message)]
        /\ reads' \in [Requests -> Nat]
        /\ setting' \in Settings
    BY DEF TypeInv, TypeOK, Places
  <1>5. CASE GetHistory(r)
    <2>1. pc' \in [Requests -> Places]
      BY <1>5, PlacesType DEF GetHistory, Places
    <2>2. QED
      BY <1>3, <1>5, <2>1, ObjectType DEF GetHistory
  <1>6. CASE ClearHistory(r)
    <2>1. pc' \in [Requests -> Places]
      BY <1>6, PlacesType DEF ClearHistory, Places
    <2>2. heap' \in [Sessions \cup Requests -> Seq(Message)]
      BY <1>3, <1>6, EmptySeq DEF ClearHistory, ClearedHistory
    <2>3. QED
      BY <1>3, <1>6, <2>1, <2>2 DEF ClearHistory
  <1>7. CASE AddRequestMessage(r)
    <2>1. added[r] \in Nat
      BY <1>3
    <2>2. added[r] + 1 \in 1..Len(RequestMessages(r))
      BY <1>7, <2>1, RequestMessagesType DEF AddRequestMessage
    <2>3. RequestMessages(r)[added[r] + 1] \in Message
      BY <2>2, RequestMessagesType
    <2>4. Append(heap[history[r]], RequestMessages(r)[added[r] + 1]) \in Seq(Message)
      BY <1>2, <2>3, AppendProperties
    <2>5. heap' \in [Sessions \cup Requests -> Seq(Message)]
      BY <1>3, <1>7, <2>4 DEF AddRequestMessage
    <2>6. added' \in [Requests -> Nat]
      BY <1>3, <1>7 DEF AddRequestMessage
    <2>7. QED
      BY <1>3, <1>7, <2>5, <2>6 DEF AddRequestMessage
  <1>8. CASE CapHistory(r)
    <2>1. pc' \in [Requests -> Places]
      BY <1>8, PlacesType DEF CapHistory, Places
    <2>2. heap' \in [Sessions \cup Requests -> Seq(Message)]
      BY <1>2, <1>3, <1>8, LastMessagesType DEF CapHistory
    <2>3. QED
      BY <1>3, <1>8, <2>1, <2>2 DEF CapHistory
  <1>9. CASE SaveHistory(r)
    <2>1. pc' \in [Requests -> Places]
      BY <1>9, PlacesType DEF SaveHistory, Places
    <2>2. QED
      BY <1>3, <1>9, <2>1, StoreTypes DEF SaveHistory
  <1>10. CASE ExtractFacts(r)
    <2>5. /\ Goto(r, "route") \/ Goto(r, "merge")
          /\ \/ UNCHANGED new_facts
             \/ \E found \in {{}, Revealed(heap[history[r]])} :
                    new_facts' = [new_facts EXCEPT ![r] = found]
          /\ UNCHANGED <<heap, history, added, redis_history, redis_facts,
                         in_memory_facts, recent_history, reads, restarts>>
      BY <1>10, Zenon DEF ExtractFacts
    <2>6. "route" \in Places /\ "merge" \in Places
      BY DEF Places, NodeStarts
    <2>1. pc' \in [Requests -> Places]
      BY <2>5, <2>6, PlacesType, Zenon
    <2>2. Revealed(heap[history[r]]) \in SUBSET Fact
      BY DEF Revealed
    <2>3. new_facts' \in [Requests -> SUBSET Fact]
      <3>1. ASSUME NEW found \in SUBSET Fact,
                   new_facts' = [new_facts EXCEPT ![r] = found]
            PROVE  new_facts' \in [Requests -> SUBSET Fact]
        BY <1>3, <3>1
      <3>2. \A found \in {{}, Revealed(heap[history[r]])} :
                found \in SUBSET Fact
        BY <2>2
      <3>3. QED
        BY <1>3, <2>5, <3>1, <3>2
    <2>4. QED
      BY <1>3, <2>1, <2>3, <2>5
  <1>11. CASE MergeFacts(r)
    <2>1. pc' \in [Requests -> Places]
      BY <1>11, PlacesType DEF MergeFacts, Places, NodeStarts
    <2>2. new_facts' \in [Requests -> SUBSET Fact]
      <3>1. ASSUME NEW found \in SUBSET Fact,
                   new_facts' = [new_facts EXCEPT ![r] = found]
            PROVE  new_facts' \in [Requests -> SUBSET Fact]
        BY <1>3, <3>1
      <3>2. \A existing \in get_user_facts(SessionOf[r]) :
                Merged(existing, new_facts[r]) \in SUBSET Fact
        BY <1>3, StoreTypes DEF Merged
      <3>3. QED
        BY <1>3, <1>11, <3>1, <3>2, Zenon DEF MergeFacts
    <2>3. QED
      BY <1>3, <1>11, <2>1, <2>2 DEF MergeFacts
  <1>12. CASE SaveFacts(r)
    <2>1. pc' \in [Requests -> Places]
      BY <1>12, PlacesType DEF SaveFacts, Places, NodeStarts
    <2>2. QED
      BY <1>3, <1>12, <2>1, StoreTypes DEF SaveFacts
  <1>13. CASE Answer(r)
    <2>1. pc' \in [Requests -> Places]
      BY <1>3, <1>13, PlacesType DEF Answer, Places, NodeStarts
    <2>2. reads' \in [Requests -> Nat]
      BY <1>3, <1>13 DEF Answer
    <2>3. QED
      BY <1>2, <1>3, <1>13, <2>1, <2>2 DEF Answer
  <1>14. CASE AddAnswer(r)
    <2>1. pc' \in [Requests -> Places]
      BY <1>14, PlacesType DEF AddAnswer, Places
    <2>2. Append(heap[history[r]], Says(r, "answer")) \in Seq(Message)
      BY <1>2, ConversationType, AppendProperties
    <2>3. heap' \in [Sessions \cup Requests -> Seq(Message)]
      BY <1>3, <1>14, <2>2 DEF AddAnswer
    <2>4. QED
      BY <1>3, <1>14, <2>1, <2>3 DEF AddAnswer
  <1>15. CASE SaveAnswer(r)
    <2>1. pc' \in [Requests -> Places]
      BY <1>15, PlacesType DEF SaveAnswer, Places, Over
    <2>2. QED
      BY <1>3, <1>15, <2>1, StoreTypes DEF SaveAnswer
  <1>16. QED
    BY <1>5, <1>6, <1>7, <1>8, <1>9, <1>10, <1>11, <1>12, <1>13, <1>14, <1>15
       DEF Advance, Works

\* The initial state has the types.
LEMMA InitTypes == Init => TypeInv
  <1> SUFFICES ASSUME Init PROVE TypeInv
    OBVIOUS
  <1>1. Before \in Seq(Message) /\ <<>> \in Seq(Message)
    BY EmptySeq DEF Before, Message
  <1>2. redis_history \in [Sessions -> Seq(Message)]
    BY <1>1 DEF Init
  <1>3. heap \in [Sessions \cup Requests -> Seq(Message)]
    BY <1>1 DEF Init
  <1>4. pc \in [Requests -> NodeStarts \cup Over \cup
                 {"clear", "add", "save", "summarize", "merge", "save_facts",
                  "save_answer"}]
    BY DEF Init, NodeStarts
  <1>5. restarts \in 0..MaxRestarts
    BY SessionAssumption DEF Init
  <1>6. recent_history \in [Requests -> Seq(Message)]
    BY <1>1 DEF Init
  <1>7. QED
    BY <1>2, <1>3, <1>4, <1>5, <1>6 DEF Init, TypeInv, TypeOK

\* A restart keeps the types.
LEMMA RestartTypes ==
    ASSUME TypeInv, Restart
    PROVE  TypeInv'
  <1>1. heap' \in [Sessions \cup Requests -> Seq(Message)]
    BY EmptySeq DEF Restart
  <1>2. pc' \in [Requests -> NodeStarts \cup Over \cup
                 {"clear", "add", "save", "summarize", "merge", "save_facts",
                  "save_answer"}]
    BY DEF Restart, TypeInv, TypeOK, Over
  <1>3. restarts' \in 0..MaxRestarts
    BY SessionAssumption DEF Restart, TypeInv, TypeOK
  <1>4. QED
    BY <1>1, <1>2, <1>3 DEF Restart, TypeInv, TypeOK

-----------------------------------------------------------------------------
(* What a step of one request leaves alone.                                *)

\* The place, the object and the findings of another request.
Untouched(q) ==
    /\ pc'[q] = pc[q]
    /\ history'[q] = history[q]
    /\ added'[q] = added[q]
    /\ recent_history'[q] = recent_history[q]
    /\ reads'[q] = reads[q]
    /\ new_facts'[q] = new_facts[q]

OthersUntouched(r) ==
    /\ \A q \in Requests : q # r => Untouched(q)
    /\ \A o \in Sessions \cup Requests :
           o # r /\ o # history[r] => heap'[o] = heap[o]

\* A step of a request changes nothing of another, and of the objects only the
\* one it works on, or the one of its own it begins to work on.
LEMMA OthersLeft ==
    ASSUME TypeInv, NEW r \in Requests, Advance(r)
    PROVE  OthersUntouched(r)
  <1>1. /\ DOMAIN pc = Requests /\ DOMAIN history = Requests
        /\ DOMAIN added = Requests /\ DOMAIN new_facts = Requests
        /\ DOMAIN heap = Sessions \cup Requests
    BY DEF TypeInv, TypeOK
  <1>2. \A q \in Requests : q # r => pc'[q] = pc[q]
    BY <1>1 DEF Advance, Works, GetHistory, ClearHistory, AddRequestMessage,
                CapHistory, SaveHistory, ExtractFacts, MergeFacts, SaveFacts,
                Answer, AddAnswer, SaveAnswer, Goto
  <1>3. \A q \in Requests : q # r => history'[q] = history[q]
    BY <1>1 DEF Advance, Works, GetHistory, ClearHistory, AddRequestMessage,
                CapHistory, SaveHistory, ExtractFacts, MergeFacts, SaveFacts,
                Answer, AddAnswer, SaveAnswer, get_session_history
  <1>4. \A q \in Requests : q # r => added'[q] = added[q]
    BY <1>1 DEF Advance, Works, GetHistory, ClearHistory, AddRequestMessage,
                CapHistory, SaveHistory, ExtractFacts, MergeFacts, SaveFacts,
                Answer, AddAnswer, SaveAnswer
  <1>5. \A q \in Requests : q # r => recent_history'[q] = recent_history[q]
    <2>1. recent_history' = recent_history \/ Answer(r)
      BY DEF Advance, Works, GetHistory, ClearHistory, AddRequestMessage,
             CapHistory, SaveHistory, ExtractFacts, MergeFacts, SaveFacts,
             AddAnswer, SaveAnswer
    <2>2. QED
      BY <2>1 DEF Answer, TypeInv
  <1>6. \A q \in Requests : q # r => new_facts'[q] = new_facts[q]
    <2>1. new_facts' = new_facts \/ \E f : new_facts' = [new_facts EXCEPT ![r] = f]
      BY Zenon DEF Advance, Works, GetHistory, ClearHistory, AddRequestMessage,
                   CapHistory, SaveHistory, ExtractFacts, MergeFacts, SaveFacts,
                   Answer, AddAnswer, SaveAnswer
    <2>2. QED
      BY <1>1, <2>1
  <1>7. \A o \in Sessions \cup Requests :
            o # r /\ o # history[r] => heap'[o] = heap[o]
    <2>1. \/ heap' = heap
          \/ \E h : heap' = [heap EXCEPT ![r] = h]
          \/ \E h : heap' = [heap EXCEPT ![history[r]] = h]
      BY Zenon DEF Advance, Works, GetHistory, ClearHistory, AddRequestMessage,
                   CapHistory, SaveHistory, ExtractFacts, MergeFacts, SaveFacts,
                   Answer, AddAnswer, SaveAnswer, get_session_history
    <2>2. QED
      BY <1>1, <2>1
  <1>8. \A q \in Requests : q # r => reads'[q] = reads[q]
    <2>1. reads' = reads \/ Answer(r)
      BY DEF Advance, Works, GetHistory, ClearHistory, AddRequestMessage,
             CapHistory, SaveHistory, ExtractFacts, MergeFacts, SaveFacts,
             AddAnswer, SaveAnswer
    <2>2. QED
      BY <2>1 DEF Answer, TypeInv
  <1>9. QED
    BY <1>2, <1>3, <1>4, <1>5, <1>6, <1>7, <1>8 DEF OthersUntouched, Untouched

\* A setting stays as it is, and with it what follows from it.
LEMMA SettingStays ==
    ASSUME UNCHANGED setting
    PROVE  /\ Serial' = Serial /\ OwnObjects' = OwnObjects /\ Apart' = Apart
           /\ UseRedis' = UseRedis /\ RedisFails' = RedisFails
  BY DEF Serial, OwnObjects, Apart, UseRedis, RedisFails, WarmRedis, Streams

\* Only the first step of a request finds it outside the graph, and only that
\* step changes the object it works on.
LEMMA FirstStep ==
    ASSUME TypeInv, NEW r \in Requests, Advance(r)
    PROVE  GetHistory(r) \/ (InFlight(r) /\ history' = history)
  BY DEF Advance, Works, GetHistory, ClearHistory, AddRequestMessage, CapHistory,
         SaveHistory, ExtractFacts, MergeFacts, SaveFacts, Answer, AddAnswer,
         SaveAnswer, At, InFlight, Over

\* Two requests in flight work on different objects.
LEMMA DifferentObjects ==
    ASSUME TypeInv, ObjectInv, Apart, NEW q \in Requests, NEW r \in Requests,
           q # r, InFlight(q), InFlight(r)
    PROVE  history[q] # history[r]
  BY DEF ObjectInv, Apart

\* So the object of a request holds what it held when another one goes on.
LEMMA OthersHold ==
    ASSUME TypeInv, ObjectInv, Apart, NEW q \in Requests, NEW r \in Requests,
           q # r, Advance(r), Holds(q)
    PROVE  Holds(q)'
  <1>1. /\ Untouched(q)
        /\ \A o \in Sessions \cup Requests :
               o # r /\ o # history[r] => heap'[o] = heap[o]
    BY OthersLeft DEF OthersUntouched
  <1>2. CASE InFlight(q)
    <2>1. /\ history[q] \in Sessions \cup Requests
          /\ history[q] \in {q, SessionOf[q]}
          /\ SessionOf[q] \in Sessions
      BY SessionAssumption DEF TypeInv, TypeOK
    <2>2. history[q] # r
      BY <2>1, SessionAssumption
    <2>3. CASE GetHistory(r)
      <3>1. Serial => FALSE
        BY <1>2, <2>3 DEF Serial, GetHistory, At, MayRun, JsonRunning
      <3>2. OwnObjects
        BY <3>1 DEF Apart
      <3>3. heap' = heap \/ \E h : heap' = [heap EXCEPT ![r] = h]
        BY <2>3, Zenon DEF GetHistory, get_session_history
      <3>4. heap'[history[q]] = heap[history[q]]
        BY <2>1, <2>2, <3>3 DEF TypeInv, TypeOK
      <3>5. QED
        BY <1>1, <3>4 DEF Untouched, Holds
    <2>4. CASE InFlight(r)
      <3>1. heap'[history[q]] = heap[history[q]]
        BY <1>1, <1>2, <2>1, <2>2, <2>4, DifferentObjects
      <3>2. QED
        BY <1>1, <3>1 DEF Untouched, Holds
    <2>5. QED
      BY <2>3, <2>4, FirstStep
  <1>3. CASE ~ InFlight(q)
    <2>1. /\ pc[q] \in {"received"} \cup Over
          /\ pc'[q] = pc[q] /\ added'[q] = added[q]
          /\ recent_history'[q] = recent_history[q] /\ reads'[q] = reads[q]
      BY <1>1, <1>3 DEF InFlight, Untouched
    <2>2. QED
      BY <2>1 DEF Holds, Over, Rebuilt
  <1>4. QED
    BY <1>2, <1>3

-----------------------------------------------------------------------------
(* The histories.                                                          *)

\* One more message of a request makes the next longer prefix of its messages.
LEMMA NextPrefix ==
    ASSUME NEW r \in Requests, NEW n \in Nat, n < Len(RequestMessages(r))
    PROVE  Append(SubSeq(RequestMessages(r), 1, n), RequestMessages(r)[n + 1])
               = SubSeq(RequestMessages(r), 1, n + 1)
  <1> DEFINE m == RequestMessages(r)
  <1>1. m \in Seq(Message) /\ Len(m) \in Nat
    BY RequestMessagesType
  <1> HIDE DEF m
  <1>2. n + 1 \in 1..Len(m) /\ 1 \in 1..Len(m) /\ n + 1 - 1 = n
    BY <1>1 DEF m
  <1>3. SubSeq(m, 1, n + 1) = SubSeq(m, 1, n) \o << m[n + 1] >>
    BY <1>1, <1>2, SubSeqRecursiveSecond
  <1>4. SubSeq(m, 1, n) \in Seq(Message) /\ m[n + 1] \in Message
    <2>1. \A i \in 1..n : m[i] \in Message
      BY <1>1, <1>2, ElementOfSeq
    <2>2. QED
      BY <1>1, <1>2, <2>1, SubSeqProperties, ElementOfSeq
  <1>5. Append(SubSeq(m, 1, n), m[n + 1]) = SubSeq(m, 1, n) \o << m[n + 1] >>
    BY <1>4, AppendIsConcat
  <1>6. QED
    BY <1>3, <1>5 DEF m

\* A request's own step leaves its object holding what the place it comes to
\* says: the history is rebuilt message by message, capped, and answered once.
LEMMA OwnHolds ==
    ASSUME TypeInv, NEW r \in Requests, Advance(r), Holds(r)
    PROVE  Holds(r)'
  <1>1. /\ pc \in [Requests -> Places]
        /\ heap \in [Sessions \cup Requests -> Seq(Message)]
        /\ history \in [Requests -> Sessions \cup Requests]
        /\ history[r] \in Sessions \cup Requests
        /\ added \in [Requests -> Nat]
        /\ recent_history \in [Requests -> Seq(Message)]
        /\ reads \in [Requests -> Nat]
    BY DEF TypeInv, TypeOK, Places
  <1>0. reads \in [Requests -> Nat]
    BY DEF TypeInv
  <1>2. CASE GetHistory(r)
    BY <1>1, <1>2 DEF GetHistory, At, Goto, Holds, Rebuilt
  <1>3. CASE ClearHistory(r)
    <2>1. /\ pc[r] = "clear" /\ pc'[r] = "add"
          /\ added'[r] = 0 /\ heap'[history'[r]] = <<>>
          /\ recent_history' = recent_history /\ reads' = reads
      BY <1>1, <1>3 DEF ClearHistory, ClearedHistory, At, Goto, Holds
    <2>2. SubSeq(RequestMessages(r), 1, 0) = <<>>
      BY SubSeqEmpty
    <2>3. added'[r] <= Len(RequestMessages(r))
      BY <2>1, RequestMessagesType
    <2>4. QED
      BY <2>1, <2>2, <2>3 DEF Holds, Rebuilt
  <1>4. CASE AddRequestMessage(r)
    <2>1. /\ pc[r] = "add" /\ pc'[r] = "add"
          /\ added[r] \in Nat /\ added[r] < Len(RequestMessages(r))
          /\ added'[r] = added[r] + 1
          /\ heap'[history'[r]] =
                Append(heap[history[r]], RequestMessages(r)[added[r] + 1])
          /\ recent_history' = recent_history /\ reads' = reads
      BY <1>1, <1>4 DEF AddRequestMessage, At
    <2>2. heap[history[r]] = SubSeq(RequestMessages(r), 1, added[r])
      BY <2>1 DEF Holds
    <2>3. heap'[history'[r]] = SubSeq(RequestMessages(r), 1, added'[r])
      BY <2>1, <2>2, NextPrefix
    <2>4. added'[r] <= Len(RequestMessages(r))
      BY <2>1, RequestMessagesType
    <2>5. QED
      BY <2>1, <2>3, <2>4 DEF Holds, Rebuilt
  <1>5. CASE CapHistory(r)
    <2>1. /\ pc[r] = "add" /\ pc'[r] = "save"
          /\ added[r] = Len(RequestMessages(r))
          /\ heap'[history'[r]] = LastMessages(heap[history[r]])
          /\ recent_history' = recent_history /\ reads' = reads
      BY <1>1, <1>5 DEF CapHistory, At, Goto
    <2>2. heap[history[r]] =
              SubSeq(RequestMessages(r), 1, Len(RequestMessages(r)))
      BY <2>1 DEF Holds
    <2>3. heap[history[r]] = RequestMessages(r)
      BY <2>2, RequestMessagesType, SubSeqFull
    <2>4. heap'[history'[r]] = Conversation(r)
      BY <2>1, <2>3 DEF Conversation
    <2>5. QED
      BY <2>1, <2>4 DEF Holds, Rebuilt
  <1>6. CASE \/ SaveHistory(r) \/ ExtractFacts(r) \/ MergeFacts(r)
             \/ SaveFacts(r)
    <2>1. /\ pc[r] \in {"save", "summarize", "merge", "save_facts"}
          /\ pc'[r] \in {"summarize", "merge", "save_facts", "route"}
          /\ heap' = heap /\ history' = history
          /\ recent_history' = recent_history /\ reads' = reads
      BY <1>1, <1>6 DEF SaveHistory, ExtractFacts, MergeFacts, SaveFacts, At, Goto
    <2>2. QED
      BY <2>1 DEF Holds, Rebuilt
  <1>7. CASE Answer(r)
    <2>1. /\ pc[r] = "route" /\ pc'[r] \in {"route", "finalize"}
          /\ heap' = heap /\ history' = history
          /\ recent_history'[r] = heap[history[r]]
      BY <1>1, <1>7 DEF Answer, At, Goto
    <2>2. QED
      BY <2>1 DEF Holds, Rebuilt
  <1>8. CASE AddAnswer(r)
    <2>1. /\ pc[r] = "finalize" /\ pc'[r] = "save_answer"
          /\ recent_history' = recent_history /\ reads' = reads
          /\ heap'[history'[r]] = Append(heap[history[r]], Says(r, "answer"))
      BY <1>1, <1>8 DEF AddAnswer, At, Goto
    <2>2. heap'[history'[r]] = AnsweredConversation(r)
      BY <2>1 DEF Holds, Rebuilt, AnsweredConversation
    <2>3. QED
      BY <2>1, <2>2 DEF Holds, Rebuilt
  <1>9. CASE SaveAnswer(r)
    <2>1. /\ pc[r] = "save_answer" /\ pc'[r] = "done"
          /\ recent_history' = recent_history /\ reads' = reads
      BY <1>1, <1>9 DEF SaveAnswer, At, Goto
    <2>2. QED
      BY <2>1 DEF Holds, Rebuilt
  <1>10. QED
    BY <1>2, <1>3, <1>4, <1>5, <1>6, <1>7, <1>8, <1>9 DEF Advance, Works

\* What a request saves is its conversation, with the answer or without.
LEMMA SavesConversation ==
    ASSUME TypeInv, NEW r \in Requests, Advance(r), Holds(r)
    PROVE  \/ /\ redis_history' = redis_history
              /\ UseRedis /\ pc[r] = "save_answer" => RedisFails
           \/ /\ UseRedis /\ pc'[r] = "summarize"
              /\ redis_history' =
                    [redis_history EXCEPT ![SessionOf[r]] = Conversation(r)]
           \/ /\ UseRedis
              /\ redis_history' =
                    [redis_history EXCEPT ![SessionOf[r]] = AnsweredConversation(r)]
  <1>1. pc \in [Requests -> Places]
    BY DEF TypeInv, TypeOK, Places
  <1>2. CASE SaveHistory(r)
    <2>1. pc[r] = "save" /\ pc'[r] = "summarize" /\ save_session_history(r)
      BY <1>1, <1>2 DEF SaveHistory, At, Goto
    <2>2. heap[history[r]] = Conversation(r)
      BY <2>1 DEF Holds, Rebuilt
    <2>3. QED
      BY <2>1, <2>2 DEF save_session_history
  <1>3. CASE SaveAnswer(r)
    <2>1. pc[r] = "save_answer" /\ save_session_history(r)
      BY <1>1, <1>3 DEF SaveAnswer, At
    <2>2. heap[history[r]] = AnsweredConversation(r)
      BY <2>1 DEF Holds
    <2>3. QED
      BY <2>1, <2>2 DEF save_session_history
  <1>4. CASE ~ SaveHistory(r) /\ ~ SaveAnswer(r)
    BY <1>4 DEF Advance, Works, GetHistory, ClearHistory, AddRequestMessage, CapHistory,
                ExtractFacts, MergeFacts, SaveFacts, Answer, AddAnswer, At
  <1>5. QED
    BY <1>2, <1>3, <1>4

-----------------------------------------------------------------------------
(* One step of a request, part by part of the invariant.                   *)

\* Requests without streams take turns, and a Redis that holds a session and
\* never fails goes on holding it.
LEMMA ObjectStep ==
    ASSUME IInv, NEW r \in Requests, Advance(r)
    PROVE  ObjectInv'
  <1>0. Serial' = Serial /\ OwnObjects' = OwnObjects /\ UseRedis' = UseRedis
    BY SettingStays DEF Advance
  <1>1. /\ TypeInv /\ ObjectInv
        /\ Holds(r) \/ ~ Apart
        /\ SessionOf[r] \in Sessions
    BY SessionAssumption DEF IInv, HeapInv
  <1>2. /\ TypeInv /\ OthersUntouched(r)
        /\ GetHistory(r) \/ (InFlight(r) /\ history' = history)
        /\ redis_history \in [Sessions -> Seq(Message)]
        /\ history \in [Requests -> Sessions \cup Requests]
    BY OthersLeft, FirstStep DEF IInv, TypeInv, TypeOK
  <1>3. \A q \in Requests : q # r /\ InFlight(q)' => InFlight(q)
    BY <1>2 DEF OthersUntouched, Untouched, InFlight
  <1>4. ASSUME Serial, NEW q \in Requests, NEW p \in Requests,
               InFlight(q)', InFlight(p)'
        PROVE  q = p
    <2>1. CASE GetHistory(r)
      <3>1. \A x \in Requests : ~ InFlight(x)
        BY <1>4, <2>1 DEF Serial, GetHistory, At, MayRun, JsonRunning
      <3>2. QED
        BY <1>3, <1>4, <3>1
    <2>2. CASE InFlight(r)
      <3>1. \A x \in Requests : InFlight(x)' => x = r
        BY <1>2, <1>3, <1>4, <2>2 DEF IInv, ObjectInv
      <3>2. QED
        BY <1>4, <3>1
    <2>3. QED
      BY <1>2, <2>1, <2>2
  <1>5. ASSUME OwnObjects
        PROVE  \A s \in Sessions : redis_history'[s] # <<>>
    <2>1. Holds(r)
      BY <1>5 DEF IInv, HeapInv, Apart
    <2>2. \A s \in Sessions : redis_history[s] # <<>>
      BY <1>5 DEF IInv, ObjectInv
    <2>3. \/ redis_history' = redis_history
          \/ redis_history' =
                [redis_history EXCEPT ![SessionOf[r]] = Conversation(r)]
          \/ redis_history' =
                [redis_history EXCEPT ![SessionOf[r]] = AnsweredConversation(r)]
      BY <1>2, <2>1, SavesConversation
    <2>4. QED
      BY <1>2, <2>2, <2>3, ConversationType
  <1>6. ASSUME OwnObjects, NEW q \in Requests, InFlight(q)'
        PROVE  history'[q] = q
    <2>1. CASE q # r
      BY <1>2, <1>3, <1>6, <2>1 DEF IInv, ObjectInv, OthersUntouched, Untouched
    <2>2. CASE q = r /\ GetHistory(r)
      <3>1. redis_history[SessionOf[r]] # <<>>
        BY <1>1, <1>6 DEF IInv, ObjectInv
      <3>2. history' = [history EXCEPT ![r] = r]
        BY <1>6, <2>2, <3>1 DEF GetHistory, get_session_history, OwnObjects
      <3>3. QED
        BY <1>2, <2>2, <3>2
    <2>3. CASE q = r /\ InFlight(r) /\ history' = history
      BY <1>6, <2>3 DEF IInv, ObjectInv
    <2>4. QED
      BY <1>2, <2>1, <2>2, <2>3
  <1>7. ASSUME ~ UseRedis, NEW q \in Requests, InFlight(q)'
        PROVE  history'[q] = SessionOf[q]
    <2>1. CASE q # r
      BY <1>2, <1>3, <1>7, <2>1 DEF IInv, ObjectInv, OthersUntouched, Untouched
    <2>2. CASE q = r /\ GetHistory(r)
      BY <1>2, <1>7, <2>2 DEF GetHistory, get_session_history
    <2>3. CASE q = r /\ InFlight(r) /\ history' = history
      BY <1>7, <2>3 DEF IInv, ObjectInv
    <2>4. QED
      BY <1>2, <2>1, <2>2, <2>3
  <1>8. QED
    BY <1>0, <1>4, <1>5, <1>6, <1>7 DEF ObjectInv

\* Every object goes on holding what the place of its request says.
LEMMA HeapStep ==
    ASSUME IInv, NEW r \in Requests, Advance(r)
    PROVE  HeapInv'
  <1> SUFFICES ASSUME Apart, NEW q \in Requests
               PROVE  Holds(q)'
    BY SettingStays DEF HeapInv, Advance
  <1>1. TypeInv /\ ObjectInv /\ Holds(q)
    BY DEF IInv, HeapInv
  <1>2. CASE q = r
    BY <1>1, <1>2, OwnHolds
  <1>3. CASE q # r
    BY <1>1, <1>3, OthersHold
  <1>4. QED
    BY <1>2, <1>3

\* What Redis holds of a session goes on being the conversation of one request.
LEMMA SavedStep ==
    ASSUME IInv, NEW r \in Requests, Advance(r)
    PROVE  SavedInv'
  <1>0. /\ Apart' => Apart
        /\ UseRedis' => UseRedis
        /\ RedisFails => RedisFails'
    BY SettingStays DEF Advance
  <1> SUFFICES ASSUME Apart, UseRedis, NEW s \in Sessions
               PROVE  \/ redis_history'[s] \in {<<>>, Before}
                      \/ \E q \in Requests :
                           /\ SessionOf[q] = s
                           /\ \/ redis_history'[s] = AnsweredConversation(q)
                              \/ /\ redis_history'[s] = Conversation(q)
                                 /\ pc'[q] \in Halfway \/ RedisFails
    BY <1>0 DEF SavedInv
  <1>1. /\ Holds(r) /\ TypeInv /\ SessionOf[r] \in Sessions
        /\ redis_history \in [Sessions -> Seq(Message)]
        /\ pc \in [Requests -> Places]
    BY SessionAssumption DEF IInv, HeapInv, TypeInv, TypeOK, Places
  <1>2. CASE /\ redis_history' = redis_history
             /\ UseRedis /\ pc[r] = "save_answer" => RedisFails
    <2>1. CASE redis_history[s] \in {<<>>, Before}
      BY <1>2, <2>1
    <2>2. CASE \E q \in Requests : /\ SessionOf[q] = s
                                   /\ redis_history[s] = AnsweredConversation(q)
      BY <1>2, <2>2
    <2>3. ASSUME NEW q \in Requests, SessionOf[q] = s,
                 redis_history[s] = Conversation(q),
                 pc[q] \in Halfway \/ RedisFails
          PROVE  pc'[q] \in Halfway \/ RedisFails
      <3>1. CASE q # r
        BY <2>3, <3>1, <1>1, OthersLeft DEF OthersUntouched, Untouched
      <3>2. CASE q = r /\ pc[r] \in Halfway /\ pc[r] # "save_answer"
        BY <1>1, <3>2 DEF Advance, Works, GetHistory, ClearHistory, AddRequestMessage,
                CapHistory, SaveHistory, ExtractFacts, MergeFacts, SaveFacts,
                Answer, AddAnswer, SaveAnswer, At, Goto, Halfway
      <3>3. QED
        BY <1>2, <2>3, <3>1, <3>2
    <2>4. QED
      BY <1>2, <2>1, <2>2, <2>3 DEF IInv, SavedInv
  <1>3. CASE /\ pc'[r] = "summarize"
             /\ redis_history' =
                   [redis_history EXCEPT ![SessionOf[r]] = Conversation(r)]
    <2>1. CASE s = SessionOf[r]
      BY <1>1, <1>3, <2>1 DEF Halfway
    <2>2. CASE s # SessionOf[r]
      <3>1. redis_history'[s] = redis_history[s]
        BY <1>1, <1>3, <2>2
      <3>2. \A q \in Requests : SessionOf[q] = s => pc'[q] = pc[q]
        BY <1>1, <2>2, OthersLeft DEF OthersUntouched, Untouched
      <3>3. QED
        BY <3>1, <3>2 DEF IInv, SavedInv
    <2>3. QED
      BY <2>1, <2>2
  <1>4. CASE redis_history' =
                [redis_history EXCEPT ![SessionOf[r]] = AnsweredConversation(r)]
    <2>1. CASE s = SessionOf[r]
      BY <1>1, <1>4, <2>1
    <2>2. CASE s # SessionOf[r]
      <3>1. redis_history'[s] = redis_history[s]
        BY <1>1, <1>4, <2>2
      <3>2. \A q \in Requests : SessionOf[q] = s => pc'[q] = pc[q]
        BY <1>1, <2>2, OthersLeft DEF OthersUntouched, Untouched
      <3>3. QED
        BY <3>1, <3>2 DEF IInv, SavedInv
    <2>3. QED
      BY <2>1, <2>2
  <1>5. QED
    BY <1>1, <1>2, <1>3, <1>4, SavesConversation

\* In this process a session without a request in flight goes on holding one
\* conversation: the one request that comes to its end leaves its own.
LEMMA KeptStep ==
    ASSUME IInv, NEW r \in Requests, Advance(r)
    PROVE  KeptInv'
  <1> SUFFICES ASSUME Apart, ~ UseRedis, NEW s \in Sessions, Idle(s)'
               PROVE  \/ heap'[s] = <<>>
                      \/ \E q \in Requests :
                            SessionOf[q] = s /\ heap'[s] = AnsweredConversation(q)
    BY SettingStays DEF KeptInv, Advance
  <1>1. /\ Holds(r) /\ TypeInv /\ SessionOf[r] \in Sessions
        /\ history \in [Requests -> Sessions \cup Requests]
        /\ pc \in [Requests -> Places]
        /\ Sessions \cap Requests = {}
    BY SessionAssumption DEF IInv, HeapInv, TypeInv, TypeOK, Places
  <1>2. CASE s = SessionOf[r]
    <2>1. ~ InFlight(r)'
      BY <1>2 DEF Idle
    <2>2. SaveAnswer(r) /\ pc[r] = "save_answer"
      BY <1>1, <2>1 DEF Advance, Works, GetHistory, ClearHistory, AddRequestMessage,
                CapHistory, SaveHistory, ExtractFacts, MergeFacts, SaveFacts,
                Answer, AddAnswer, SaveAnswer, At, Goto, InFlight, Over
    <2>3. heap[history[r]] = AnsweredConversation(r) /\ heap' = heap
      BY <1>1, <2>2 DEF Holds, SaveAnswer
    <2>4. history[r] = s
      BY <1>2, <2>2 DEF IInv, ObjectInv, InFlight, Over
    <2>5. QED
      BY <1>2, <2>3, <2>4
  <1>3. CASE s # SessionOf[r]
    <2>1. OthersUntouched(r)
      BY <1>1, OthersLeft
    <2>2. Idle(s)
      BY <1>3, <2>1 DEF Idle, InFlight, OthersUntouched, Untouched
    <2>3. s # r
      BY <1>1
    <2>4. heap'[s] = heap[s]
      <3>1. CASE InFlight(r)
        <4>1. history[r] = SessionOf[r]
          BY <3>1 DEF IInv, ObjectInv
        <4>2. QED
          BY <1>3, <2>1, <2>3, <4>1 DEF OthersUntouched
      <3>2. CASE GetHistory(r)
        BY <3>2 DEF GetHistory, get_session_history
      <3>3. QED
        BY <1>1, <3>1, <3>2, FirstStep
    <2>5. QED
      BY <2>2, <2>4 DEF IInv, KeptInv
  <1>4. QED
    BY <1>2, <1>3

\* A restart loses the requests in flight and the objects, and so leaves no
\* request with something to keep.
LEMMA RestartStep ==
    ASSUME IInv, Restart
    PROVE  IInv'
  <1>1. /\ pc' = [r \in Requests |-> IF InFlight(r) THEN "lost" ELSE pc[r]]
        /\ heap' = [o \in Sessions \cup Requests |-> <<>>]
        /\ UNCHANGED <<history, added, redis_history, recent_history, reads>>
        /\ Serial' = Serial /\ OwnObjects' = OwnObjects /\ Apart' = Apart
        /\ UseRedis' = UseRedis /\ RedisFails' = RedisFails
    BY SettingStays DEF Restart
  <1>2. TypeInv'
    BY RestartTypes DEF IInv
  <1>3. \A r \in Requests : /\ pc'[r] \in {"received"} \cup Over
                            /\ ~ InFlight(r)'
                            /\ pc'[r] # "lost" => pc'[r] = pc[r]
                            /\ pc[r] \in Halfway => pc'[r] = "lost"
    BY <1>1 DEF InFlight, Over, Halfway
  <1>4. ObjectInv'
    BY <1>1, <1>3 DEF IInv, ObjectInv
  <1>5. HeapInv'
    <2> SUFFICES ASSUME Apart, NEW r \in Requests
                 PROVE  Holds(r)'
      BY <1>1 DEF HeapInv
    <2>1. Holds(r)
      BY DEF IInv, HeapInv
    <2>2. /\ added'[r] = added[r] /\ recent_history'[r] = recent_history[r]
          /\ reads'[r] = reads[r]
      BY <1>1
    <2>3. QED
      BY <1>3, <2>1, <2>2 DEF Holds, Over, Rebuilt
  <1>6. SavedInv'
    BY <1>1, <1>3 DEF IInv, SavedInv, Halfway
  <1>7. KeptInv'
    BY <1>1 DEF KeptInv
  <1>8. QED
    BY <1>2, <1>4, <1>5, <1>6, <1>7 DEF IInv

\* A step that changes nothing keeps the invariant.
LEMMA StutterStep ==
    ASSUME IInv, UNCHANGED vars
    PROVE  IInv'
  <1>1. /\ pc' = pc /\ heap' = heap /\ history' = history /\ added' = added
        /\ redis_history' = redis_history /\ redis_facts' = redis_facts
        /\ in_memory_facts' = in_memory_facts /\ new_facts' = new_facts
        /\ recent_history' = recent_history /\ restarts' = restarts
        /\ reads' = reads /\ setting' = setting
        /\ Serial' = Serial /\ OwnObjects' = OwnObjects /\ Apart' = Apart
        /\ UseRedis' = UseRedis /\ RedisFails' = RedisFails
    BY SettingStays DEF vars
  <1>2. TypeInv'
    BY <1>1 DEF IInv, TypeInv, TypeOK
  <1>3. ObjectInv'
    BY <1>1 DEF IInv, ObjectInv, InFlight
  <1>4. HeapInv'
    BY <1>1 DEF IInv, HeapInv, Holds
  <1>5. SavedInv'
    BY <1>1 DEF IInv, SavedInv
  <1>6. KeptInv'
    BY <1>1 DEF IInv, KeptInv, Idle, InFlight
  <1>7. QED
    BY <1>2, <1>3, <1>4, <1>5, <1>6 DEF IInv

\* The initial state satisfies the invariant.
LEMMA InitHolds == Init => IInv
  <1> SUFFICES ASSUME Init PROVE IInv
    OBVIOUS
  <1>1. TypeInv
    BY InitTypes
  <1>2. /\ pc = [r \in Requests |-> "received"]
        /\ heap = [o \in Sessions \cup Requests |-> <<>>]
        /\ added = [r \in Requests |-> 0]
        /\ reads = [r \in Requests |-> 0]
        /\ redis_history = [s \in Sessions |-> IF WarmRedis THEN Before ELSE <<>>]
    BY DEF Init
  <1>3. \A r \in Requests : pc[r] = "received" /\ ~ InFlight(r)
    BY <1>2 DEF InFlight
  <1>4. Before # <<>>
    BY DEF Before
  <1>5. ObjectInv
    BY <1>2, <1>3, <1>4 DEF ObjectInv, OwnObjects
  <1>6. HeapInv
    BY <1>2, <1>3 DEF HeapInv, Holds, Rebuilt
  <1>7. SavedInv
    BY <1>2 DEF SavedInv
  <1>8. KeptInv
    BY <1>2 DEF KeptInv
  <1>9. QED
    BY <1>1, <1>5, <1>6, <1>7, <1>8 DEF IInv

\* Every step keeps the invariant.
LEMMA NextHolds == IInv /\ [Next]_vars => IInv'
  <1> SUFFICES ASSUME IInv, [Next]_vars PROVE IInv'
    OBVIOUS
  <1>1. ASSUME NEW r \in Requests, Advance(r)
        PROVE  IInv'
    <2>1. TypeInv'
      BY <1>1, AdvanceTypes DEF IInv
    <2>2. QED
      BY <1>1, <2>1, ObjectStep, HeapStep, SavedStep, KeptStep DEF IInv
  <1>2. CASE Restart
    BY <1>2, RestartStep
  <1>3. CASE UNCHANGED vars
    BY <1>3, StutterStep
  <1>4. QED
    BY <1>1, <1>2, <1>3 DEF Next, AllOver

\* So it holds in every reachable state.
LEMMA IInvAlways == Spec => []IInv
  BY InitHolds, NextHolds, PTL DEF Spec

\* A setting that keeps requests apart goes on doing so.
LEMMA ApartAlways == Apart /\ Spec => []Apart
  <1>1. Apart /\ [Next]_vars => Apart'
    BY SettingStays DEF Next, Advance, Restart, AllOver, vars
  <1>2. QED
    BY <1>1, PTL DEF Spec

-----------------------------------------------------------------------------
(* The theorems.                                                           *)

\* The store and the requests keep their types, whatever requests, streams,
\* restarts and failures of Redis there are: an object a request works on is
\* its session's or its own (get_session_history).
THEOREM SessionTypesCorrect == Spec => []TypeOK
  <1>1. IInv => TypeOK
    BY DEF IInv, TypeInv
  <1>2. QED
    BY <1>1, IInvAlways, PTL

\* A request is answered from the conversation its client sent: for JSON
\* requests, because conversation_graph.invoke keeps the event loop to itself,
\* and for streams when Redis holds their session, because get_session_history
\* then builds an object for each of them.
THEOREM AnsweredFromOwnHistory == Apart /\ Spec => []OwnHistorySeen
  <1>1. IInv /\ Apart => OwnHistorySeen
    BY DEF IInv, HeapInv, Holds, OwnHistorySeen
  <1>2. QED
    BY <1>1, IInvAlways, ApartAlways, PTL

\* Under the same hypotheses a session with no request in flight holds the
\* conversation of one request, with its answer unless the process stopped or
\* Redis refused the save (save_session_history): never messages of two.
THEOREM HistoriesNeverMixed == Apart /\ Spec => []OneConversation
  <1>1. ASSUME IInv, Apart, NEW s \in Sessions, Idle(s)
        PROVE  \/ StoredHistory(s) \in {<<>>, Before}
               \/ \E r \in Requests :
                    /\ SessionOf[r] = s
                    /\ \/ StoredHistory(s) = AnsweredConversation(r)
                       \/ /\ StoredHistory(s) = Conversation(r)
                          /\ pc[r] = "lost" \/ RedisFails
    <2>1. CASE UseRedis
      <3>1. \A r \in Requests :
                SessionOf[r] = s /\ pc[r] \in Halfway => pc[r] = "lost"
        BY <1>1 DEF Idle, InFlight, Halfway, Over
      <3>2. StoredHistory(s) = redis_history[s]
        BY <2>1 DEF StoredHistory
      <3>3. QED
        BY <1>1, <2>1, <3>1, <3>2 DEF IInv, SavedInv
    <2>2. CASE ~ UseRedis
      <3>1. StoredHistory(s) = heap[s]
        BY <2>2 DEF StoredHistory
      <3>2. QED
        BY <1>1, <2>2, <3>1 DEF IInv, KeptInv
    <2>3. QED
      BY <2>1, <2>2
  <1>2. IInv /\ Apart => OneConversation
    BY <1>1 DEF OneConversation, Idle, AnsweredConversation
  <1>3. QED
    BY <1>2, IInvAlways, ApartAlways, PTL

-----------------------------------------------------------------------------
(* How far a request is from its answer.                                   *)

PlacesAhead(place) ==
    CASE place = "received" -> 10
      [] place = "clear" -> 9
      [] place = "add" -> 8
      [] place = "save" -> 7
      [] place = "summarize" -> 6
      [] place = "merge" -> 5
      [] place = "save_facts" -> 4
      [] place = "route" -> 3
      [] place = "finalize" -> 2
      [] place = "save_answer" -> 1
      [] OTHER -> 0

\* The steps of a request from here on, at most: a step per place, one per
\* message that has yet to be added, and one per read that may be made.
StepsLeft(r) ==
    PlacesAhead(pc[r]) + (Len(RequestMessages(r)) - added[r])
                       + (MaxReads - reads[r])

AddedInv ==
    \A r \in Requests :
        /\ added[r] <= Len(RequestMessages(r))
        /\ reads[r] <= MaxReads
        /\ PlacesAhead(pc[r]) >= PlacesAhead("route") => reads[r] < MaxReads

AheadInv == TypeInv /\ AddedInv

\* What is left of two bounds is natural, and so is the sum.
LEMMA SumType ==
    ASSUME NEW a \in 0..10, NEW l \in Nat, NEW k \in Nat,
           NEW m \in Nat, NEW x \in Nat, m <= l, x <= k
    PROVE  a + (l - m) + (k - x) \in Nat
  OBVIOUS

\* The number of steps left is a natural number.
LEMMA StepsLeftType ==
    ASSUME AheadInv, NEW r \in Requests
    PROVE  StepsLeft(r) \in Nat
  <1>1. PlacesAhead(pc[r]) \in 0..10
    BY DEF PlacesAhead
  <1>2. Len(RequestMessages(r)) \in Nat /\ added[r] \in Nat
    BY RequestMessagesType DEF AheadInv, TypeInv
  <1>3. /\ added[r] <= Len(RequestMessages(r)) /\ reads[r] <= MaxReads
        /\ reads[r] \in Nat /\ MaxReads \in Nat
    BY SessionAssumption DEF AheadInv, AddedInv, TypeInv
  <1>4. PlacesAhead(pc[r]) + (Len(RequestMessages(r)) - added[r])
                           + (MaxReads - reads[r]) \in Nat
    BY <1>1, <1>2, <1>3, SumType
  <1> QED
    BY <1>4 DEF StepsLeft

\* A request that advances adds one message, reads once more or goes to a place
\* with fewer ahead.
LEMMA PlacesFall ==
    ASSUME AheadInv, NEW r \in Requests, Advance(r)
    PROVE  \/ /\ PlacesAhead(pc'[r]) < PlacesAhead(pc[r])
              /\ added'[r] = added[r] /\ reads'[r] = reads[r]
           \/ /\ pc'[r] = pc[r] /\ reads'[r] = reads[r]
              /\ added[r] < Len(RequestMessages(r))
              /\ added'[r] = added[r] + 1
           \/ /\ pc[r] = "route" /\ added'[r] = added[r]
              /\ reads'[r] = reads[r] + 1
              /\ \/ pc'[r] = "finalize"
                 \/ pc'[r] = "route" /\ reads'[r] < MaxReads
  <1>1. DOMAIN pc = Requests /\ DOMAIN added = Requests /\ DOMAIN reads = Requests
    BY DEF AheadInv, TypeInv, TypeOK
  <1>2. CASE GetHistory(r)
    BY <1>1, <1>2 DEF GetHistory, At, Goto, PlacesAhead
  <1>3. CASE ClearHistory(r)
    BY <1>1, <1>3 DEF ClearHistory, At, Goto, PlacesAhead
  <1>4. CASE AddRequestMessage(r)
    BY <1>1, <1>4 DEF AddRequestMessage
  <1>5. CASE CapHistory(r)
    BY <1>1, <1>5 DEF CapHistory, At, Goto, PlacesAhead
  <1>6. CASE SaveHistory(r)
    BY <1>1, <1>6 DEF SaveHistory, At, Goto, PlacesAhead
  <1>7. CASE ExtractFacts(r)
    BY <1>1, <1>7 DEF ExtractFacts, At, Goto, PlacesAhead
  <1>8. CASE MergeFacts(r)
    BY <1>1, <1>8 DEF MergeFacts, At, Goto, PlacesAhead
  <1>9. CASE SaveFacts(r)
    BY <1>1, <1>9 DEF SaveFacts, At, Goto, PlacesAhead
  <1>10. CASE Answer(r)
    BY <1>1, <1>10 DEF Answer, At, Goto
  <1>11. CASE AddAnswer(r)
    BY <1>1, <1>11 DEF AddAnswer, At, Goto, PlacesAhead
  <1>12. CASE SaveAnswer(r)
    BY <1>1, <1>12 DEF SaveAnswer, At, Goto, PlacesAhead
  <1> QED
    BY <1>2, <1>3, <1>4, <1>5, <1>6, <1>7, <1>8, <1>9, <1>10, <1>11, <1>12
    DEF Advance, Works

\* The sum falls with the places, the messages that are left and the reads.
LEMMA SumFalls ==
    ASSUME NEW a \in 0..10, NEW b \in 0..10, NEW l \in Nat, NEW k \in Nat,
           NEW m \in Nat, NEW n \in Nat, NEW x \in Nat, NEW y \in Nat
    PROVE  \/ b < a /\ n = m /\ y = x
           \/ b = a /\ n = m + 1 /\ y = x
           \/ b <= a /\ n = m /\ y = x + 1
           => b + (l - n) + (k - y) < a + (l - m) + (k - x)
  OBVIOUS

\* The sum does not grow when the places stay or are all behind.
LEMMA SumStays ==
    ASSUME NEW a \in 0..10, NEW b \in {0, a}, NEW l \in Nat, NEW k \in Nat,
           NEW m \in Nat, NEW x \in Nat
    PROVE  b + (l - m) + (k - x) <= a + (l - m) + (k - x)
  OBVIOUS

\* No count passes its bound in a step of PlacesFall.
LEMMA BoundsKept ==
    ASSUME NEW a \in 0..10, NEW b \in 0..10, NEW l \in Nat, NEW k \in Nat,
           NEW m \in Nat, NEW n \in Nat, NEW x \in Nat, NEW y \in Nat,
           m <= l, x <= k, a >= 3 => x < k,
           \/ b < a /\ n = m /\ y = x
           \/ b = a /\ y = x /\ m < l /\ n = m + 1
           \/ a = 3 /\ n = m /\ y = x + 1 /\ (b = 2 \/ y < k)
    PROVE  n <= l /\ y <= k /\ (b >= 3 => y < k)
  OBVIOUS

\* A request that advances has fewer steps left, and no other has more.
LEMMA AdvanceComesCloser ==
    ASSUME AheadInv, NEW r \in Requests, Advance(r)
    PROVE  /\ AddedInv'
           /\ StepsLeft(r)' < StepsLeft(r)
           /\ \A q \in Requests \ {r} : StepsLeft(q)' = StepsLeft(q)
  <1>1. /\ Len(RequestMessages(r)) \in Nat /\ added[r] \in Nat
        /\ reads[r] \in Nat /\ MaxReads \in Nat
        /\ PlacesAhead(pc[r]) \in 0..10 /\ PlacesAhead(pc'[r]) \in 0..10
    BY RequestMessagesType, SessionAssumption DEF AheadInv, TypeInv, PlacesAhead
  <1>2. PlacesAhead("route") = 3 /\ PlacesAhead("finalize") = 2
    BY DEF PlacesAhead
  <1>3. StepsLeft(r)' < StepsLeft(r)
    <2>1. StepsLeft(r)' = PlacesAhead(pc'[r])
                            + (Len(RequestMessages(r)) - added'[r])
                            + (MaxReads - reads'[r])
      BY DEF StepsLeft
    <2>2. \/ /\ PlacesAhead(pc'[r]) < PlacesAhead(pc[r])
             /\ added'[r] = added[r] /\ reads'[r] = reads[r]
          \/ /\ PlacesAhead(pc'[r]) = PlacesAhead(pc[r])
             /\ added'[r] = added[r] + 1 /\ reads'[r] = reads[r]
          \/ /\ PlacesAhead(pc'[r]) <= PlacesAhead(pc[r])
             /\ added'[r] = added[r] /\ reads'[r] = reads[r] + 1
      BY <1>1, <1>2, PlacesFall
    <2>3. added'[r] \in Nat /\ reads'[r] \in Nat
      BY <1>1, <2>2
    <2>4. PlacesAhead(pc'[r]) + (Len(RequestMessages(r)) - added'[r])
                              + (MaxReads - reads'[r])
            < PlacesAhead(pc[r]) + (Len(RequestMessages(r)) - added[r])
                                 + (MaxReads - reads[r])
      BY <1>1, <2>2, <2>3, SumFalls
    <2> QED
      BY <2>1, <2>4 DEF StepsLeft
  <1>4. \A q \in Requests \ {r} :
            pc'[q] = pc[q] /\ added'[q] = added[q] /\ reads'[q] = reads[q]
    BY OthersLeft DEF AheadInv, OthersUntouched, Untouched
  <1>5. /\ added'[r] <= Len(RequestMessages(r))
        /\ reads'[r] <= MaxReads
        /\ PlacesAhead(pc'[r]) >= PlacesAhead("route") => reads'[r] < MaxReads
    <2>1. /\ added[r] <= Len(RequestMessages(r))
          /\ reads[r] <= MaxReads
          /\ PlacesAhead(pc[r]) >= 3 => reads[r] < MaxReads
      BY <1>2 DEF AheadInv, AddedInv
    <2>2. \/ /\ PlacesAhead(pc'[r]) < PlacesAhead(pc[r])
             /\ added'[r] = added[r] /\ reads'[r] = reads[r]
          \/ /\ PlacesAhead(pc'[r]) = PlacesAhead(pc[r])
             /\ reads'[r] = reads[r]
             /\ added[r] < Len(RequestMessages(r))
             /\ added'[r] = added[r] + 1
          \/ /\ PlacesAhead(pc[r]) = 3 /\ added'[r] = added[r]
             /\ reads'[r] = reads[r] + 1
             /\ PlacesAhead(pc'[r]) = 2 \/ reads'[r] < MaxReads
      BY <1>1, <1>2, PlacesFall
    <2>3. added'[r] \in Nat /\ reads'[r] \in Nat
      BY <1>1, <2>2
    <2>4. /\ added'[r] <= Len(RequestMessages(r))
          /\ reads'[r] <= MaxReads
          /\ PlacesAhead(pc'[r]) >= 3 => reads'[r] < MaxReads
      BY <1>1, <2>1, <2>2, <2>3, BoundsKept
    <2> QED
      BY <1>2, <2>4
  <1>6. AddedInv'
    BY <1>4, <1>5 DEF AheadInv, AddedInv
  <1> QED
    BY <1>3, <1>4, <1>6 DEF StepsLeft

\* A restart ends what is in flight and adds nothing to do.
LEMMA RestartComesCloser ==
    ASSUME AheadInv, Restart
    PROVE  AddedInv' /\ \A r \in Requests : StepsLeft(r)' <= StepsLeft(r)
  <1>1. added' = added /\ reads' = reads
    BY DEF Restart
  <1>2. ASSUME NEW r \in Requests
        PROVE  StepsLeft(r)' <= StepsLeft(r)
    <2>1. /\ Len(RequestMessages(r)) \in Nat /\ added[r] \in Nat
          /\ reads[r] \in Nat /\ MaxReads \in Nat
          /\ PlacesAhead(pc[r]) \in 0..10 /\ PlacesAhead("lost") = 0
      BY RequestMessagesType, SessionAssumption
         DEF AheadInv, TypeInv, PlacesAhead
    <2>2. PlacesAhead(pc'[r]) \in {0, PlacesAhead(pc[r])}
      BY <2>1 DEF Restart
    <2>3. StepsLeft(r)' = PlacesAhead(pc'[r])
                            + (Len(RequestMessages(r)) - added[r])
                            + (MaxReads - reads[r])
      BY <1>1 DEF StepsLeft
    <2>4. PlacesAhead(pc'[r]) + (Len(RequestMessages(r)) - added[r])
                              + (MaxReads - reads[r])
            <= PlacesAhead(pc[r]) + (Len(RequestMessages(r)) - added[r])
                                  + (MaxReads - reads[r])
      BY <2>1, <2>2, SumStays
    <2> QED
      BY <2>3, <2>4 DEF StepsLeft
  <1>3. \A r \in Requests :
            PlacesAhead(pc'[r]) >= PlacesAhead("route") => pc'[r] = pc[r]
    BY DEF Restart, PlacesAhead, AheadInv, TypeInv, TypeOK
  <1> QED
    BY <1>1, <1>2, <1>3 DEF AheadInv, AddedInv

\* Nothing has been added at first, and no step adds too much.
LEMMA AheadInvAlways == Spec => []AheadInv
  <1>1. Init => AheadInv
    <2> SUFFICES ASSUME Init PROVE AheadInv
      OBVIOUS
    <2>1. \A r \in Requests : added[r] = 0 /\ reads[r] = 0
      BY DEF Init
    <2>2. MaxReads \in Nat /\ MaxReads > 0
      BY SessionAssumption
    <2> QED
      BY <2>1, <2>2, InitTypes, RequestMessagesType DEF AheadInv, AddedInv
  <1>2. IInv /\ IInv' /\ AheadInv /\ [Next]_vars => AheadInv'
    <2> SUFFICES ASSUME IInv', AheadInv, [Next]_vars PROVE AheadInv'
      OBVIOUS
    <2>1. TypeInv'
      BY DEF IInv
    <2>2. CASE UNCHANGED vars
      BY <2>1, <2>2 DEF AheadInv, AddedInv, vars
    <2>3. CASE \E r \in Requests : Advance(r)
      BY <2>1, <2>3, AdvanceComesCloser DEF AheadInv
    <2>4. CASE Restart
      BY <2>1, <2>4, RestartComesCloser DEF AheadInv
    <2> QED
      BY <2>2, <2>3, <2>4 DEF Next, AllOver
  <1> QED
    BY <1>1, <1>2, IInvAlways, PTL DEF Spec

\* Every request has finitely many steps from its arrival to its answer, ten,
\* one per message and one per read of the history, and a step of one request, or a restart, never adds to
\* what another has yet to do.
THEOREM RequestsComeCloser ==
    Spec => /\ \A r \in Requests : StepsLeft(r) = 10 + Len(RequestMessages(r)) + MaxReads
            /\ [](\A r \in Requests : StepsLeft(r) \in Nat)
            /\ [][/\ \A r \in Requests : StepsLeft(r)' <= StepsLeft(r)
                  /\ \/ restarts' = restarts + 1
                     \/ \E r \in Requests : StepsLeft(r)' < StepsLeft(r)]_vars
  <1>1. Init => \A r \in Requests : StepsLeft(r) = 10 + Len(RequestMessages(r)) + MaxReads
    <2> SUFFICES ASSUME Init, NEW r \in Requests
                 PROVE  StepsLeft(r) = 10 + Len(RequestMessages(r)) + MaxReads
      OBVIOUS
    <2>1. /\ pc[r] = "received" /\ added[r] = 0 /\ reads[r] = 0
          /\ Len(RequestMessages(r)) \in Nat /\ MaxReads \in Nat
      BY RequestMessagesType, SessionAssumption DEF Init
    <2> QED
      BY <2>1 DEF StepsLeft, PlacesAhead
  <1> DEFINE Counted == \A r \in Requests : StepsLeft(r) \in Nat
  <1>2. AheadInv => Counted
    BY StepsLeftType
  <1> DEFINE Closer == /\ \A r \in Requests : StepsLeft(r)' <= StepsLeft(r)
                       /\ \/ restarts' = restarts + 1
                          \/ \E r \in Requests : StepsLeft(r)' < StepsLeft(r)
  <1>3. AheadInv /\ Counted' /\ [Next]_vars => [Closer]_vars
    <2> SUFFICES ASSUME AheadInv, Counted', Next, vars' # vars
                 PROVE  Closer
      OBVIOUS
    <2>1. ASSUME NEW r \in Requests, Advance(r)
          PROVE  Closer
      <3>1. StepsLeft(r)' < StepsLeft(r)
        BY <2>1, AdvanceComesCloser
      <3>2. ASSUME NEW q \in Requests PROVE StepsLeft(q)' <= StepsLeft(q)
        <4>1. StepsLeft(q) \in Nat
          BY StepsLeftType
        <4>2. CASE q = r
          <5>1. StepsLeft(r)' \in Nat
            OBVIOUS
          <5> QED
            BY <3>1, <4>1, <4>2, <5>1
        <4>3. CASE q # r
          BY <2>1, <4>1, <4>3, AdvanceComesCloser
        <4> QED
          BY <4>2, <4>3
      <3> QED
        BY <3>1, <3>2
    <2>2. CASE Restart
      BY <2>2, RestartComesCloser DEF Restart
    <2> QED
      BY <2>1, <2>2 DEF Next, AllOver
  <1>4. Spec => \A r \in Requests : StepsLeft(r) = 10 + Len(RequestMessages(r)) + MaxReads
    BY <1>1, PTL DEF Spec
  <1>5. Spec => []Counted
    BY <1>2, AheadInvAlways, PTL
  <1>6. Spec => [][Closer]_vars
    BY <1>3, <1>5, AheadInvAlways, PTL DEF Spec
  <1> QED
    BY <1>4, <1>5, <1>6
=============================================================================
