-------------------------- MODULE ConversationGraph --------------------------
(***************************************************************************)
(* The conversation graph of the Geoq API: one run of the LangGraph graph  *)
(* that api/graph.py compiles (the second create_conversation_graph, which *)
(* replaces the first), for one chat request.                              *)
(*                                                                         *)
(* `node' is the node the graph runs next, `state' the ConversationState   *)
(* dictionary every node returns a copy of, `stored' what the session      *)
(* store holds for the session.  Each action is one node function together *)
(* with the edge that leaves it.  Model calls answer anything that the     *)
(* node tells apart, and may fail where the node catches the failure.      *)
(*                                                                         *)
(* Data: an answer is who produced it, whether it is an answer, an apology *)
(* or the empty string, the attempt it was produced in and the attempt     *)
(* whose retrieval its local context came from.  A local context is the    *)
(* number of the attempt that retrieved it, 0 for the empty string.  A     *)
(* history is its length and the assistant message it ends with, if any.   *)
(*                                                                         *)
(* LangGraph itself raises after 25 nodes, its default recursion limit.    *)
(* With the retries config.py allows the graph runs fewer (RunsFewNodes),  *)
(* so the limit is left out.                                               *)
(***************************************************************************)
EXTENDS Integers, Sequences

CONSTANTS
    MAX_REFINEMENT_ITERATIONS,  \* config.py: retries after the first attempt
    MAX_HISTORY_LEN,            \* config.py: cap on the loaded history
    ENABLE_QUALITY_GATE,        \* config.py: the gate may be switched off
    Configured,                 \* the models were loaded: llm is not None
    RedisBacked,                \* redis_client is not None: a save may fail
    MaxEarlier                  \* bound: user and assistant messages that
                                \* precede the question in a request

ASSUME ConfigurationAssumption ==
    /\ MAX_REFINEMENT_ITERATIONS \in Nat
    /\ MAX_HISTORY_LEN \in Nat
    /\ MaxEarlier \in Nat
    /\ ENABLE_QUALITY_GATE \in BOOLEAN
    /\ Configured \in BOOLEAN
    /\ RedisBacked \in BOOLEAN

VARIABLES node, state, stored

vars == <<node, state, stored>>

-----------------------------------------------------------------------------
(* Values.                                                                 *)

Routes == {"rag", "google", "chat"}

\* search_strategy of a refinement; "other" is a value in which
\* `"google" in search_strategy' raises (null, a number).
Strategies == {"google_search", "better_rag_query", "other"}

Errors == {"history_load_error", "routing_error", "google_search_error",
           "final_input_build_error", "llm_generation_error"}

Answer == [by: {"google", "llm"}, text: {"answer", "apology", ""},
           attempt: Nat, context: Nat]

NoAnswer == [by |-> "nobody", text |-> "", attempt |-> 0, context |-> 0]

\* "malformed" is a quality_score that cannot be compared with a number.
Evaluation == [quality_score: {"low", "high", "malformed"},
               recommendation: {"accept", "retry"}]

NoEvaluation == [quality_score |-> "none", recommendation |-> "none"]

Acceptable == [quality_score |-> "high", recommendation |-> "accept"]

\* The answer an earlier request left at the end of the session's history.
EarlierAnswer == [by |-> "earlier", text |-> "answer", attempt |-> 0, context |-> 0]

History == [size: Nat, answer: Answer \cup {NoAnswer, EarlierAnswer}]

EmptyHistory == [size |-> 0, answer |-> NoAnswer]

ConversationState ==
    [earlier: Nat,
     history: History,
     route: Routes \cup {"unset", "other"},
     reranked_docs: Nat,
     rag_context: Nat,
     rag_low_conf_context: Nat,
     google_answer: Answer \cup {NoAnswer},
     context_block: Nat,
     llm_output: Answer \cup {NoAnswer},
     iteration_count: Nat,
     quality_evaluation: Evaluation \cup {NoEvaluation},
     previous_answers: Seq(Answer),
     refinement_history: Seq(Strategies),
     error_info: Errors \cup {""}]

Nodes == {"load_history_memory_and_facts", "route_and_refine_query",
          "perform_rag_retrieval", "check_rag_confidence",
          "perform_google_search", "build_final_input",
          "generate_llm_response", "evaluate_response_quality",
          "prepare_retry_iteration", "finalize_answer"}

\* The graph has left its last node, or a node or an edge has raised.
Stopped == {"END", "raised"}

attempt == state.iteration_count + 1

-----------------------------------------------------------------------------
(* A request starts the graph with its messages and nothing else in the    *)
(* state; the session may hold a history of any length from before, which  *)
(* an earlier request has ended with its answer if that was saved.         *)

InitialState(n) ==
    [earlier |-> n, history |-> EmptyHistory, route |-> "unset",
     reranked_docs |-> 0, rag_context |-> 0, rag_low_conf_context |-> 0,
     google_answer |-> NoAnswer, context_block |-> 0, llm_output |-> NoAnswer,
     iteration_count |-> 0, quality_evaluation |-> NoEvaluation,
     previous_answers |-> <<>>, refinement_history |-> <<>>,
     error_info |-> ""]

Init ==
    /\ node = "load_history_memory_and_facts"
    /\ \E n \in 0..MaxEarlier : state = InitialState(n)
    /\ \/ stored = EmptyHistory
       \/ stored \in [size: 1..(MaxEarlier + 1), answer: {NoAnswer, EarlierAnswer}]

-----------------------------------------------------------------------------
(* Session history.                                                        *)

\* messages[-MAX_HISTORY_LEN:] is the whole list when MAX_HISTORY_LEN is 0.
Capped(n) == IF n > MAX_HISTORY_LEN /\ MAX_HISTORY_LEN > 0
               THEN MAX_HISTORY_LEN
               ELSE n

LoadedHistory == [size |-> Capped(state.earlier + 1), answer |-> NoAnswer]

\* A failing SET is logged and swallowed: the session keeps what it held.
save_session_history(h) ==
    \/ stored' = h
    \/ RedisBacked /\ UNCHANGED stored

\* The session's history is rebuilt from the request and saved.  On an
\* exception the store may hold the old history, the new one or, in memory,
\* where the stored object itself is cleared and refilled, a part of it; the
\* graph goes on with a fresh history that is not the session's.
load_history_memory_and_facts ==
    /\ node = "load_history_memory_and_facts"
    /\ \E failed \in BOOLEAN :
         /\ state' = [state EXCEPT
                        !.history = IF failed THEN EmptyHistory
                                              ELSE LoadedHistory,
                        !.error_info = IF failed THEN "history_load_error"
                                                 ELSE @,
                        !.iteration_count = 0,
                        !.previous_answers = <<>>,
                        !.refinement_history = <<>>]
         /\ \/ save_session_history(LoadedHistory)
            \/ failed /\ UNCHANGED stored
            \/ /\ failed /\ ~ RedisBacked
               /\ \E n \in 0..state.earlier :
                    stored' = [size |-> n, answer |-> NoAnswer]
    /\ node' = "route_and_refine_query"

-----------------------------------------------------------------------------
(* Routing.                                                                *)

\* The router's answer is not checked: "other" is any route it may invent.
\* Without a model the call fails and the route is "google".
route_and_refine ==
    IF Configured THEN Routes \cup {"other"} ELSE {"google"}

\* The refinement model's strategy; a failing call is "google_search".
refine_query_for_retry ==
    IF Configured THEN Strategies ELSE {"google_search"}

should_perform_rag_unmapped(route) == route

should_perform_rag(route) ==
    CASE route = "rag"    -> "perform_rag_retrieval"
      [] route = "google" -> "perform_google_search"
      [] route = "chat"   -> "build_final_input"
      [] OTHER            -> "raised"

retrying == state.iteration_count > 0 /\ state.quality_evaluation # NoEvaluation

Refined(strategy) ==
    [state EXCEPT !.route = IF strategy = "google_search" THEN "google"
                                                          ELSE "rag",
                  !.refinement_history = Append(@, strategy)]

RoutingFailed ==
    [state EXCEPT !.route = "google", !.error_info = "routing_error"]

route_and_refine_query ==
    /\ node = "route_and_refine_query"
    /\ \/ /\ ~ retrying
          /\ \E route \in route_and_refine :
               state' = [state EXCEPT !.route = route]
       \/ /\ retrying
          /\ \E strategy \in refine_query_for_retry :
               state' = IF strategy = "other" THEN RoutingFailed
                                              ELSE Refined(strategy)
    /\ node' = should_perform_rag(state'.route)
    /\ UNCHANGED stored

-----------------------------------------------------------------------------
(* Local retrieval.                                                        *)

\* No documents, or an exception, leave nothing to rank.
perform_rag_retrieval ==
    /\ node = "perform_rag_retrieval"
    /\ \E docs \in {0, attempt} :
         state' = [state EXCEPT !.reranked_docs = docs]
    /\ node' = "check_rag_confidence"
    /\ UNCHANGED stored

should_use_google_fallback_by_docs(s) ==
    IF s.reranked_docs # 0 THEN "build_final_input" ELSE "perform_google_search"

should_use_google_fallback_again(s) ==
    IF s.rag_context # 0 THEN "build_final_input" ELSE "perform_rag_retrieval"

should_use_google_fallback(s) ==
    IF s.rag_context # 0 THEN "build_final_input" ELSE "perform_google_search"

WithoutContext_kept(s) == s

\* Nothing ranked, or an exception: the low-confidence context stays.
WithoutContext(s) == [s EXCEPT !.rag_context = 0]

\* build_context_from_docs returns the empty string when the first document
\* alone is longer than its limit.
build_context_from_docs == {0, attempt}

check_rag_confidence ==
    /\ node = "check_rag_confidence"
    /\ \/ state' = WithoutContext(state)
       \/ /\ state.reranked_docs # 0
          /\ \E context \in build_context_from_docs :
               \/ state' = [state EXCEPT !.rag_context = context,
                                         !.rag_low_conf_context = 0]
               \/ state' = [state EXCEPT !.rag_context = 0,
                                         !.rag_low_conf_context = context]
    /\ node' = should_use_google_fallback(state')
    /\ UNCHANGED stored

-----------------------------------------------------------------------------
(* Answering.                                                              *)

\* The search makes a client of its own, so that it may answer although llm
\* is None; a failing call is an apology.
google_search_summary == {"answer", "apology", ""}

GoogleAnswer(text) ==
    [by |-> "google", text |-> text, attempt |-> attempt,
     context |-> state.rag_low_conf_context]

Answered_google_only(s, answer) == [s EXCEPT !.google_answer = answer]

Answered(s, answer) ==
    [s EXCEPT !.google_answer = answer, !.llm_output = answer]

perform_google_search ==
    /\ node = "perform_google_search"
    /\ \/ \E text \in google_search_summary :
            state' = Answered(state, GoogleAnswer(text))
       \/ state' = [Answered(state, GoogleAnswer("apology")) EXCEPT
                      !.error_info = "google_search_error"]
    /\ node' = "evaluate_response_quality"
    /\ UNCHANGED stored

build_final_input ==
    /\ node = "build_final_input"
    /\ \/ state' = [state EXCEPT !.context_block = state.rag_context]
       \/ state' = [state EXCEPT !.context_block = 0,
                                 !.error_info = "final_input_build_error"]
    /\ node' = "generate_llm_response"
    /\ UNCHANGED stored

LlmAnswer(text) ==
    [by |-> "llm", text |-> text, attempt |-> attempt,
     context |-> state.context_block]

generate_llm_response ==
    /\ node = "generate_llm_response"
    /\ \/ /\ Configured
          /\ \E text \in {"answer", ""} :
               state' = [state EXCEPT !.llm_output = LlmAnswer(text)]
       \/ state' = [state EXCEPT !.llm_output = LlmAnswer("apology"),
                                 !.error_info = "llm_generation_error"]
    /\ node' = "evaluate_response_quality"
    /\ UNCHANGED stored

-----------------------------------------------------------------------------
(* Quality gate.                                                           *)

\* A failing judge is an acceptable answer.
evaluate_answer_quality == IF Configured THEN Evaluation ELSE {Acceptable}

\* What the judge is told about the origin of the answer.
context_used ==
    CASE state.route = "google"  -> "Google Search"
      [] state.route # "google" /\ state.rag_context # 0 -> "RAG"
      [] OTHER -> "Chat"

should_refine_answer(e) ==
    /\ ENABLE_QUALITY_GATE
    /\ e.quality_score = "low"
    /\ e.recommendation # "accept"

MaxReached_off_by_one(s) == s.iteration_count > MAX_REFINEMENT_ITERATIONS

MaxReached(s) == s.iteration_count >= MAX_REFINEMENT_ITERATIONS

should_retry_or_finish_score_blind(s) ==
    IF ~ MaxReached(s) /\ s.quality_evaluation.quality_score = "high"
      THEN "prepare_retry_iteration" ELSE "finalize_answer"

\* Comparing a malformed score with the threshold raises a TypeError.
should_retry_or_finish(s) ==
    CASE MaxReached(s) -> "finalize_answer"
      [] ~ MaxReached(s) /\ should_refine_answer(s.quality_evaluation) ->
           "prepare_retry_iteration"
      [] /\ ~ MaxReached(s)
         /\ ENABLE_QUALITY_GATE
         /\ s.quality_evaluation.quality_score = "malformed" -> "raised"
      [] OTHER -> "finalize_answer"

evaluate_response_quality ==
    /\ node = "evaluate_response_quality"
    /\ \E evaluation \in evaluate_answer_quality :
         state' = [state EXCEPT
                     !.quality_evaluation = evaluation,
                     !.previous_answers = Append(@, state.llm_output)]
    /\ node' = should_retry_or_finish(state')
    /\ UNCHANGED stored

NextIteration(n) == n + 1

prepare_retry_iteration ==
    /\ node = "prepare_retry_iteration"
    /\ state' = [state EXCEPT !.iteration_count = NextIteration(@)]
    /\ node' = "route_and_refine_query"
    /\ UNCHANGED stored

Finalized(h, answer) == [size |-> h.size + 1, answer |-> answer]

\* An exception returns the state as it was; nothing is saved then.
finalize_answer ==
    /\ node = "finalize_answer"
    /\ \/ /\ state' = [state EXCEPT
                         !.history = Finalized(@, state.llm_output)]
          /\ save_session_history(state'.history)
       \/ UNCHANGED <<state, stored>>
    /\ node' = "END"

-----------------------------------------------------------------------------
Step ==
    \/ load_history_memory_and_facts
    \/ route_and_refine_query
    \/ perform_rag_retrieval
    \/ check_rag_confidence
    \/ perform_google_search
    \/ build_final_input
    \/ generate_llm_response
    \/ evaluate_response_quality
    \/ prepare_retry_iteration
    \/ finalize_answer

Finished == node \in Stopped /\ UNCHANGED vars

Next == Step \/ Finished

\* The runner goes on to the next node until the graph stops: every model
\* and search call returns or fails after its client's own timeout.
Spec == Init /\ [][Next]_vars /\ WF_vars(Step)

-----------------------------------------------------------------------------
(* Properties.                                                             *)

TypeOK ==
    /\ node \in Nodes \cup Stopped
    /\ state \in ConversationState
    /\ stored \in History

\* The current attempt's answer has been judged.
Judged == node \in {"prepare_retry_iteration", "finalize_answer"} \cup {"END"}

\* The quality loop (graph.py, should_retry_or_finish and
\* prepare_retry_iteration) makes at most MAX_REFINEMENT_ITERATIONS retries,
\* and every attempt, the current one included once it is judged, has left
\* exactly one answer in previous_answers, in the order they were made.
AttemptsAccounted ==
    /\ state.iteration_count <= MAX_REFINEMENT_ITERATIONS
    /\ node # "raised" =>
         Len(state.previous_answers) =
           state.iteration_count + (IF Judged THEN 1 ELSE 0)
    /\ \A i \in 1..Len(state.previous_answers) :
         state.previous_answers[i].attempt = i

\* An answer the judge scored low and advised against is finalized only
\* when no retry is left (the quality gate of graph.py and utils.py).
GateRespected ==
    /\ node \in {"finalize_answer", "END"}
    /\ ENABLE_QUALITY_GATE
    /\ state.iteration_count < MAX_REFINEMENT_ITERATIONS
    => \/ state.quality_evaluation.quality_score = "high"
       \/ state.quality_evaluation.recommendation = "accept"

\* The text that leaves the graph (app.py reads llm_output), the answer the
\* judge saw last and the answer finalize_answer saved are one and the same,
\* made in the last attempt: a session never keeps an attempt that was
\* retried.  The answer of an earlier request may only be left in it when
\* Redis refused the saves, or neither of the two nodes got to its save.
FinalAnswerJudged ==
    LET answers == state.previous_answers
    IN  node = "END" =>
          /\ answers # <<>>
          /\ state.llm_output = answers[Len(answers)]
          /\ state.llm_output.attempt = state.iteration_count + 1
          /\ \/ stored.answer \in {NoAnswer, state.llm_output}
             \/ /\ stored.answer = EarlierAnswer
                /\ RedisBacked \/ state.history = EmptyHistory

\* The state dictionary is carried from attempt to attempt without being
\* reset, yet the language model is only ever given local context that was
\* retrieved in the attempt it answers.
FreshContext ==
    state.llm_output.by = "llm" =>
        state.llm_output.context \in {0, state.llm_output.attempt}

\* A question routed to local knowledge is answered by the language model
\* only from a context the confidence check accepted; anything weaker goes
\* to the search (check_rag_confidence, should_use_google_fallback).
ConfidentLocalAnswers ==
    /\ state.route = "rag"
    /\ node = "generate_llm_response"
    => \/ state.context_block = attempt
       \/ state.error_info = "final_input_build_error"

\* A retry is only ever prepared for an answer the judge has just scored low
\* and advised against.
RetryOnlyWhenRejected ==
    [][node' = "prepare_retry_iteration" =>
         /\ state'.quality_evaluation.quality_score = "low"
         /\ state'.quality_evaluation.recommendation # "accept"
         /\ ENABLE_QUALITY_GATE]_vars

\* The quality loop cannot keep a request for ever: the graph reaches its
\* end, or raises.
GraphStops == <>(node \in Stopped)
=============================================================================
