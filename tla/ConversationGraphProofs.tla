----------------------- MODULE ConversationGraphProofs -----------------------
(***************************************************************************)
(* Proofs about ConversationGraph, for every number of retries, every cap  *)
(* on the history and every configuration.                                 *)
(*                                                                         *)
(* The invariant IInv is TypeOK and one conjunct per thing the nodes rely  *)
(* on without checking it: which fields are set where, and from which      *)
(* attempt they come.                                                      *)
(***************************************************************************)
EXTENDS ConversationGraph, TLAPS

-----------------------------------------------------------------------------
Answering == {"evaluate_response_quality", "prepare_retry_iteration",
              "finalize_answer", "END"}

\* Once answered, llm_output is the answer of the current attempt, and once
\* judged it is the last of previous_answers.
AnswerInv ==
    /\ node \in Answering => /\ state.llm_output \in Answer
                             /\ state.llm_output.attempt = attempt
    /\ Judged => /\ state.previous_answers # <<>>
                 /\ state.llm_output =
                      state.previous_answers[Len(state.previous_answers)]

\* A retry is prepared only while one is left, and has a judgement to use.
RetryInv ==
    /\ node = "load_history_memory_and_facts" => state.iteration_count = 0
    /\ node = "prepare_retry_iteration" =>
         state.iteration_count < MAX_REFINEMENT_ITERATIONS
    /\ node = "prepare_retry_iteration" \/ state.iteration_count > 0 =>
         state.quality_evaluation # NoEvaluation

\* Local context on its way to the model is of the current attempt.
ContextInv ==
    /\ /\ node \in {"load_history_memory_and_facts", "route_and_refine_query"}
       /\ state.iteration_count = 0
       => state.rag_context = 0
    /\ node = "check_rag_confidence" => state.reranked_docs \in {0, attempt}
    /\ node = "build_final_input" => /\ state.rag_context \in {0, attempt}
                                     /\ state.route = "rag" =>
                                          state.rag_context = attempt
    /\ node = "generate_llm_response" => state.context_block \in {0, attempt}

\* Only finalize_answer gives the session an assistant message last; that of
\* an earlier request outlives the loading of the history only if Redis
\* refuses the save or the loading fails.
StoredInv ==
    \/ stored.answer = NoAnswer
    \/ /\ node = "END"
       /\ stored.answer = state.llm_output
    \/ /\ stored.answer = EarlierAnswer
       /\ \/ node = "load_history_memory_and_facts"
          \/ RedisBacked
          \/ state.history = EmptyHistory

IInv ==
    /\ TypeOK
    /\ AttemptsAccounted
    /\ GateRespected
    /\ AnswerInv
    /\ RetryInv
    /\ ContextInv
    /\ FreshContext
    /\ ConfidentLocalAnswers
    /\ StoredInv

-----------------------------------------------------------------------------
(* What the pieces of the nodes return.                                    *)

\* A state dictionary has every field, each with a value of its type.
LEMMA Fields ==
    ASSUME state \in ConversationState
    PROVE  /\ state.earlier \in Nat
           /\ state.history \in History
           /\ state.rag_context \in Nat
           /\ state.rag_low_conf_context \in Nat
           /\ state.context_block \in Nat
           /\ state.llm_output \in Answer \cup {NoAnswer}
           /\ state.iteration_count \in Nat
           /\ state.previous_answers \in Seq(Answer)
BY DEF ConversationState

\* The current attempt is a positive number.
LEMMA AttemptIsPositive ==
    ASSUME state \in ConversationState
    PROVE  attempt \in Nat /\ attempt > 0
<1>1. state.iteration_count \in Nat
  BY Fields
<1> QED BY <1>1 DEF attempt

\* Where a route leads is a node, or the stop of the graph.
LEMMA RouteLeads ==
    ASSUME NEW route
    PROVE  should_perform_rag(route) \in
             {"perform_rag_retrieval", "perform_google_search",
              "build_final_input", "raised"}
BY DEF should_perform_rag

\* So is where a judgement leads.
LEMMA JudgementLeads ==
    ASSUME NEW s
    PROVE  should_retry_or_finish(s) \in
             {"prepare_retry_iteration", "finalize_answer", "raised"}
BY DEF should_retry_or_finish

\* The history a request loads is a history, whatever the cap.
LEMMA LoadedIsHistory ==
    ASSUME state \in ConversationState
    PROVE  LoadedHistory \in History
<1>1. state.earlier + 1 \in Nat
  BY Fields
<1>2. Capped(state.earlier + 1) \in Nat
  BY <1>1, ConfigurationAssumption DEF Capped
<1> QED BY <1>2 DEF LoadedHistory, History

\* What the search and the language model may answer are answers of the
\* current attempt.
LEMMA AnswersOfAttempt ==
    ASSUME state \in ConversationState,
           NEW text \in {"answer", "apology", ""}
    PROVE  /\ GoogleAnswer(text) \in Answer
           /\ GoogleAnswer(text).attempt = attempt
           /\ GoogleAnswer(text).by = "google"
           /\ LlmAnswer(text) \in Answer
           /\ LlmAnswer(text).attempt = attempt
           /\ LlmAnswer(text).context = state.context_block
<1>1. attempt \in Nat /\ state.rag_low_conf_context \in Nat
                      /\ state.context_block \in Nat
  BY Fields, AttemptIsPositive
<1> QED BY <1>1 DEF GoogleAnswer, LlmAnswer, Answer

\* What a search leaves in the state.
LEMMA SearchResult ==
    ASSUME state \in ConversationState, perform_google_search
    PROVE  \E text \in {"answer", "apology", ""} :
             \/ state' = Answered(state, GoogleAnswer(text))
             \/ state' = [Answered(state, GoogleAnswer(text)) EXCEPT
                            !.error_info = "google_search_error"]
BY DEF perform_google_search, google_search_summary

\* What a generation leaves in the state.
LEMMA GenerationResult ==
    ASSUME state \in ConversationState, generate_llm_response
    PROVE  \E text \in {"answer", "apology", ""} :
             \/ state' = [state EXCEPT !.llm_output = LlmAnswer(text)]
             \/ state' = [state EXCEPT !.llm_output = LlmAnswer(text),
                                       !.error_info = "llm_generation_error"]
BY DEF generate_llm_response

\* What a confidence check leaves in the state.
LEMMA ConfidenceResult ==
    ASSUME state \in ConversationState, check_rag_confidence
    PROVE  \E context \in {0, attempt} :
             \/ state' = [state EXCEPT !.rag_context = 0]
             \/ state' = [state EXCEPT !.rag_context = context,
                                       !.rag_low_conf_context = 0]
             \/ state' = [state EXCEPT !.rag_context = 0,
                                       !.rag_low_conf_context = context]
BY DEF check_rag_confidence, WithoutContext, build_context_from_docs

-----------------------------------------------------------------------------
(* Type correctness.                                                       *)

\* No node leaves a field with a value another node or an edge does not
\* expect.
LEMMA TypePreserved == TypeOK /\ AnswerInv /\ [Next]_vars => TypeOK'
<1> SUFFICES ASSUME TypeOK, AnswerInv, [Next]_vars PROVE TypeOK'
  OBVIOUS
<1>a. state \in ConversationState /\ stored \in History /\ node \in Nodes \cup Stopped
  BY DEF TypeOK
<1>b. attempt \in Nat
  BY <1>a, AttemptIsPositive
<1>1. CASE load_history_memory_and_facts
  <2>1. LoadedHistory \in History /\ EmptyHistory \in History
    BY <1>a, LoadedIsHistory DEF EmptyHistory, History
  <2>2. PICK failed \in BOOLEAN :
          /\ state' = [state EXCEPT
                         !.history = IF failed THEN EmptyHistory
                                               ELSE LoadedHistory,
                         !.error_info = IF failed THEN "history_load_error"
                                                  ELSE @,
                         !.iteration_count = 0,
                         !.previous_answers = <<>>,
                         !.refinement_history = <<>>]
          /\ \/ save_session_history(LoadedHistory)
             \/ failed /\ UNCHANGED stored
             \/ /\ failed /\ ~ RedisBacked
                /\ \E n \in 0..state.earlier :
                     stored' = [size |-> n, answer |-> NoAnswer]
    BY <1>1 DEF load_history_memory_and_facts
  <2>3. state' \in ConversationState
    <3> DEFINE h == IF failed THEN EmptyHistory ELSE LoadedHistory
               e == IF failed THEN "history_load_error" ELSE state.error_info
    <3>1. h \in History
      BY <2>1
    <3>2. e \in Errors \cup {""}
      BY <1>a DEF ConversationState, Errors
    <3>3. state' = [state EXCEPT !.history = h, !.error_info = e,
                                 !.iteration_count = 0,
                                 !.previous_answers = <<>>,
                                 !.refinement_history = <<>>]
      BY <1>a, <2>2 DEF ConversationState
    <3>4. <<>> \in Seq(Answer) /\ <<>> \in Seq(Strategies)
      OBVIOUS
    <3> HIDE DEF h, e
    <3> QED BY <1>a, <3>1, <3>2, <3>3, <3>4 DEF ConversationState
  <2>4. \A n \in 0..state.earlier : [size |-> n, answer |-> NoAnswer] \in History
    BY <1>a, Fields DEF History
  <2>5. stored' \in History
    BY <1>a, <2>1, <2>2, <2>4 DEF save_session_history
  <2> QED BY <1>1, <2>3, <2>5 DEF load_history_memory_and_facts, TypeOK, Nodes
<1>2. CASE route_and_refine_query
  <2>1. \/ \E route \in Routes \cup {"other"} :
             state' = [state EXCEPT !.route = route]
        \/ \E strategy \in Strategies :
             state' = IF strategy = "other" THEN RoutingFailed
                                            ELSE Refined(strategy)
    BY <1>2 DEF route_and_refine_query, route_and_refine,
                refine_query_for_retry, Routes, Strategies
  <2>2. ASSUME NEW route \in Routes \cup {"other"},
               state' = [state EXCEPT !.route = route]
        PROVE  state' \in ConversationState
    BY <1>a, <2>2 DEF ConversationState
  <2>3. RoutingFailed \in ConversationState
    BY <1>a DEF RoutingFailed, ConversationState, Routes, Errors
  <2>4. ASSUME NEW strategy \in Strategies
        PROVE  Refined(strategy) \in ConversationState
    <3>1. state.refinement_history \in Seq(Strategies)
      BY <1>a DEF ConversationState
    <3>2. Append(state.refinement_history, strategy) \in Seq(Strategies)
      BY <3>1
    <3>3. (IF strategy = "google_search" THEN "google" ELSE "rag") \in Routes
      BY DEF Routes
    <3> QED BY <1>a, <3>2, <3>3 DEF Refined, ConversationState
  <2>5. state' \in ConversationState
    BY <2>1, <2>2, <2>3, <2>4
  <2> QED BY <1>a, <1>2, <2>5, RouteLeads
          DEF route_and_refine_query, TypeOK, Nodes, Stopped
<1>3. CASE perform_rag_retrieval
  <2>1. PICK docs \in {0, attempt} : state' = [state EXCEPT !.reranked_docs = docs]
    BY <1>3 DEF perform_rag_retrieval
  <2>2. docs \in Nat
    BY <1>b
  <2>3. state' \in ConversationState
    BY <1>a, <2>1, <2>2 DEF ConversationState
  <2> QED BY <1>a, <1>3, <2>3 DEF perform_rag_retrieval, TypeOK, Nodes
<1>4. CASE check_rag_confidence
  <2>1. PICK context \in {0, attempt} :
             \/ state' = [state EXCEPT !.rag_context = 0]
             \/ state' = [state EXCEPT !.rag_context = context,
                                       !.rag_low_conf_context = 0]
             \/ state' = [state EXCEPT !.rag_context = 0,
                                       !.rag_low_conf_context = context]
    BY <1>a, <1>4, ConfidenceResult
  <2>2. context \in Nat
    BY <1>b
  <2>3. /\ [state EXCEPT !.rag_context = 0] \in ConversationState
        /\ [state EXCEPT !.rag_context = context,
                         !.rag_low_conf_context = 0] \in ConversationState
        /\ [state EXCEPT !.rag_context = 0,
                         !.rag_low_conf_context = context] \in ConversationState
    BY <1>a, <2>2 DEF ConversationState
  <2> QED BY <1>a, <1>4, <2>1, <2>3
          DEF check_rag_confidence, should_use_google_fallback, TypeOK, Nodes
<1>5. CASE perform_google_search
  <2>1. PICK text \in {"answer", "apology", ""} :
             \/ state' = Answered(state, GoogleAnswer(text))
             \/ state' = [Answered(state, GoogleAnswer(text)) EXCEPT
                            !.error_info = "google_search_error"]
    BY <1>a, <1>5, SearchResult
  <2>2. GoogleAnswer(text) \in Answer
    BY <1>a, AnswersOfAttempt
  <2>3. Answered(state, GoogleAnswer(text)) \in ConversationState
    BY <1>a, <2>2 DEF Answered, ConversationState
  <2>4. [Answered(state, GoogleAnswer(text)) EXCEPT
           !.error_info = "google_search_error"] \in ConversationState
    BY <2>3 DEF ConversationState, Errors
  <2> QED BY <1>a, <1>5, <2>1, <2>3, <2>4 DEF perform_google_search, TypeOK, Nodes
<1>6. CASE build_final_input
  <2>1. /\ [state EXCEPT !.context_block = state.rag_context] \in ConversationState
        /\ [state EXCEPT !.context_block = 0,
                         !.error_info = "final_input_build_error"]
             \in ConversationState
    BY <1>a, Fields DEF ConversationState, Errors
  <2> QED BY <1>a, <1>6, <2>1 DEF build_final_input, TypeOK, Nodes
<1>7. CASE generate_llm_response
  <2>1. PICK text \in {"answer", "apology", ""} :
             \/ state' = [state EXCEPT !.llm_output = LlmAnswer(text)]
             \/ state' = [state EXCEPT !.llm_output = LlmAnswer(text),
                                       !.error_info = "llm_generation_error"]
    BY <1>a, <1>7, GenerationResult
  <2>2. LlmAnswer(text) \in Answer
    BY <1>a, AnswersOfAttempt
  <2>3. /\ [state EXCEPT !.llm_output = LlmAnswer(text)] \in ConversationState
        /\ [state EXCEPT !.llm_output = LlmAnswer(text),
                         !.error_info = "llm_generation_error"]
             \in ConversationState
    BY <1>a, <2>2 DEF ConversationState, Errors
  <2> QED BY <1>a, <1>7, <2>1, <2>3 DEF generate_llm_response, TypeOK, Nodes
<1>8. CASE evaluate_response_quality
  <2>1. state.llm_output \in Answer
    BY <1>8 DEF evaluate_response_quality, AnswerInv, Answering
  <2>2. PICK evaluation \in evaluate_answer_quality :
          state' = [state EXCEPT
                      !.quality_evaluation = evaluation,
                      !.previous_answers = Append(@, state.llm_output)]
    BY <1>8 DEF evaluate_response_quality
  <2>3. evaluation \in Evaluation
    BY DEF evaluate_answer_quality, Evaluation, Acceptable
  <2>4. Append(state.previous_answers, state.llm_output) \in Seq(Answer)
    BY <1>a, <2>1, Fields
  <2>5. state' \in ConversationState
    BY <1>a, <2>2, <2>3, <2>4 DEF ConversationState
  <2> QED BY <1>a, <1>8, <2>5, JudgementLeads
          DEF evaluate_response_quality, TypeOK, Nodes, Stopped
<1>9. CASE prepare_retry_iteration
  <2>1. state.iteration_count + 1 \in Nat
    BY <1>a, Fields
  <2>2. state' \in ConversationState
    BY <1>a, <1>9, <2>1
    DEF prepare_retry_iteration, NextIteration, ConversationState
  <2> QED BY <1>a, <1>9, <2>2 DEF prepare_retry_iteration, TypeOK, Nodes
<1>10. CASE finalize_answer
  <2>1. state.llm_output \in Answer
    BY <1>10 DEF finalize_answer, AnswerInv, Answering
  <2>2. Finalized(state.history, state.llm_output) \in History
    BY <1>a, <2>1, Fields DEF Finalized, History
  <2>3. [state EXCEPT !.history = Finalized(@, state.llm_output)]
          \in ConversationState
    BY <1>a, <2>2 DEF ConversationState
  <2>4. state' \in ConversationState
    BY <1>a, <1>10, <2>3 DEF finalize_answer
  <2>5. state'.history \in History
    BY <2>4 DEF ConversationState
  <2>6. stored' \in History
    BY <1>a, <1>10, <2>5 DEF finalize_answer, save_session_history
  <2> QED BY <1>10, <2>4, <2>6 DEF finalize_answer, TypeOK, Stopped
<1>11. CASE UNCHANGED vars
  BY <1>11 DEF vars, TypeOK
<1> QED
  BY <1>1, <1>2, <1>3, <1>4, <1>5, <1>6, <1>7, <1>8, <1>9, <1>10, <1>11
  DEF Next, Step, Finished
-----------------------------------------------------------------------------
(* What each node changes, and what of the fields above it leaves alone.   *)

\* The first node resets the quality loop.
LEMMA LoadEffect ==
    ASSUME state \in ConversationState, load_history_memory_and_facts
    PROVE  /\ node = "load_history_memory_and_facts"
           /\ node' = "route_and_refine_query"
           /\ stored'.answer \in {stored.answer, NoAnswer}
           /\ state'.iteration_count = 0
           /\ state'.previous_answers = <<>>
           /\ state'.route = state.route
           /\ state'.reranked_docs = state.reranked_docs
           /\ state'.rag_context = state.rag_context
           /\ state'.context_block = state.context_block
           /\ state'.llm_output = state.llm_output
           /\ state'.quality_evaluation = state.quality_evaluation
<1>1. PICK failed \in BOOLEAN :
        state' = [state EXCEPT
                    !.history = IF failed THEN EmptyHistory
                                          ELSE LoadedHistory,
                    !.error_info = IF failed THEN "history_load_error"
                                             ELSE @,
                    !.iteration_count = 0,
                    !.previous_answers = <<>>,
                    !.refinement_history = <<>>]
  BY DEF load_history_memory_and_facts
<1>2. stored'.answer \in {stored.answer, NoAnswer}
  BY DEF load_history_memory_and_facts, save_session_history, LoadedHistory
<1>3. node = "load_history_memory_and_facts" /\ node' = "route_and_refine_query"
  BY DEF load_history_memory_and_facts
<1> QED BY <1>1, <1>2, <1>3 DEF ConversationState

\* Routing changes the route; a retry never routes to "chat".
LEMMA RouteEffect ==
    ASSUME state \in ConversationState, route_and_refine_query
    PROVE  /\ node = "route_and_refine_query"
           /\ node' = should_perform_rag(state'.route)
           /\ stored' = stored
           /\ state'.route = "chat" => ~ retrying
           /\ state'.reranked_docs = state.reranked_docs
           /\ state'.rag_context = state.rag_context
           /\ state'.context_block = state.context_block
           /\ state'.llm_output = state.llm_output
           /\ state'.iteration_count = state.iteration_count
           /\ state'.quality_evaluation = state.quality_evaluation
           /\ state'.previous_answers = state.previous_answers
BY DEF route_and_refine_query, RoutingFailed, Refined, ConversationState

\* Retrieval ranks documents of the current attempt or none.
LEMMA RetrievalEffect ==
    ASSUME state \in ConversationState, perform_rag_retrieval
    PROVE  /\ node = "perform_rag_retrieval"
           /\ node' = "check_rag_confidence"
           /\ stored' = stored
           /\ state'.reranked_docs \in {0, attempt}
           /\ state'.route = state.route
           /\ state'.rag_context = state.rag_context
           /\ state'.context_block = state.context_block
           /\ state'.llm_output = state.llm_output
           /\ state'.iteration_count = state.iteration_count
           /\ state'.quality_evaluation = state.quality_evaluation
           /\ state'.previous_answers = state.previous_answers
BY DEF perform_rag_retrieval, ConversationState

\* Past the check, local context is of the current attempt or empty, and the
\* model is only reached with a context.
LEMMA ConfidenceEffect ==
    ASSUME state \in ConversationState, check_rag_confidence
    PROVE  /\ node = "check_rag_confidence"
           /\ node' \in {"build_final_input", "perform_google_search"}
           /\ node' = "build_final_input" => state'.rag_context # 0
           /\ stored' = stored
           /\ state'.rag_context \in {0, attempt}
           /\ state'.route = state.route
           /\ state'.reranked_docs = state.reranked_docs
           /\ state'.context_block = state.context_block
           /\ state'.llm_output = state.llm_output
           /\ state'.iteration_count = state.iteration_count
           /\ state'.quality_evaluation = state.quality_evaluation
           /\ state'.previous_answers = state.previous_answers
BY DEF check_rag_confidence, should_use_google_fallback, WithoutContext,
       build_context_from_docs, ConversationState

\* A search answers for the current attempt.
LEMMA SearchEffect ==
    ASSUME state \in ConversationState, perform_google_search
    PROVE  /\ node = "perform_google_search"
           /\ node' = "evaluate_response_quality"
           /\ stored' = stored
           /\ state'.llm_output \in Answer
           /\ state'.llm_output.attempt = attempt
           /\ state'.llm_output.by = "google"
           /\ state'.route = state.route
           /\ state'.reranked_docs = state.reranked_docs
           /\ state'.rag_context = state.rag_context
           /\ state'.context_block = state.context_block
           /\ state'.iteration_count = state.iteration_count
           /\ state'.quality_evaluation = state.quality_evaluation
           /\ state'.previous_answers = state.previous_answers
<1>1. PICK text \in {"answer", "apology", ""} :
         \/ state' = Answered(state, GoogleAnswer(text))
         \/ state' = [Answered(state, GoogleAnswer(text)) EXCEPT
                        !.error_info = "google_search_error"]
  BY SearchResult
<1>2. state'.llm_output = GoogleAnswer(text)
  BY <1>1 DEF Answered, ConversationState
<1>3. /\ GoogleAnswer(text) \in Answer
      /\ GoogleAnswer(text).attempt = attempt
      /\ GoogleAnswer(text).by = "google"
  BY AnswersOfAttempt
<1>4. /\ node = "perform_google_search"
      /\ node' = "evaluate_response_quality"
      /\ stored' = stored
  BY DEF perform_google_search
<1>5. /\ state'.route = state.route
      /\ state'.reranked_docs = state.reranked_docs
      /\ state'.rag_context = state.rag_context
      /\ state'.context_block = state.context_block
      /\ state'.iteration_count = state.iteration_count
      /\ state'.quality_evaluation = state.quality_evaluation
      /\ state'.previous_answers = state.previous_answers
  BY <1>1 DEF Answered, ConversationState
<1> QED BY <1>2, <1>3, <1>4, <1>5

\* The context block holds the local context, or an error says why not.
LEMMA BuildEffect ==
    ASSUME state \in ConversationState, build_final_input
    PROVE  /\ node = "build_final_input"
           /\ node' = "generate_llm_response"
           /\ stored' = stored
           /\ \/ state'.context_block = state.rag_context
              \/ /\ state'.context_block = 0
                 /\ state'.error_info = "final_input_build_error"
           /\ state'.route = state.route
           /\ state'.reranked_docs = state.reranked_docs
           /\ state'.rag_context = state.rag_context
           /\ state'.llm_output = state.llm_output
           /\ state'.iteration_count = state.iteration_count
           /\ state'.quality_evaluation = state.quality_evaluation
           /\ state'.previous_answers = state.previous_answers
BY DEF build_final_input, ConversationState

\* The language model answers for the current attempt, from the context block.
LEMMA GenerateEffect ==
    ASSUME state \in ConversationState, generate_llm_response
    PROVE  /\ node = "generate_llm_response"
           /\ node' = "evaluate_response_quality"
           /\ stored' = stored
           /\ state'.llm_output \in Answer
           /\ state'.llm_output.attempt = attempt
           /\ state'.llm_output.context = state.context_block
           /\ state'.route = state.route
           /\ state'.reranked_docs = state.reranked_docs
           /\ state'.rag_context = state.rag_context
           /\ state'.context_block = state.context_block
           /\ state'.iteration_count = state.iteration_count
           /\ state'.quality_evaluation = state.quality_evaluation
           /\ state'.previous_answers = state.previous_answers
<1>1. PICK text \in {"answer", "apology", ""} :
         \/ state' = [state EXCEPT !.llm_output = LlmAnswer(text)]
         \/ state' = [state EXCEPT !.llm_output = LlmAnswer(text),
                                   !.error_info = "llm_generation_error"]
  BY GenerationResult
<1>2. state'.llm_output = LlmAnswer(text)
  BY <1>1 DEF ConversationState
<1>3. /\ LlmAnswer(text) \in Answer
      /\ LlmAnswer(text).attempt = attempt
      /\ LlmAnswer(text).context = state.context_block
  BY AnswersOfAttempt
<1>4. /\ node = "generate_llm_response"
      /\ node' = "evaluate_response_quality"
      /\ stored' = stored
  BY DEF generate_llm_response
<1>5. /\ state'.route = state.route
      /\ state'.reranked_docs = state.reranked_docs
      /\ state'.rag_context = state.rag_context
      /\ state'.context_block = state.context_block
      /\ state'.iteration_count = state.iteration_count
      /\ state'.quality_evaluation = state.quality_evaluation
      /\ state'.previous_answers = state.previous_answers
  BY <1>1 DEF ConversationState
<1> QED BY <1>2, <1>3, <1>4, <1>5

\* The judgement is kept, and the answer it is about.
LEMMA EvaluateEffect ==
    ASSUME state \in ConversationState, evaluate_response_quality
    PROVE  /\ node = "evaluate_response_quality"
           /\ node' = should_retry_or_finish(state')
           /\ stored' = stored
           /\ state'.quality_evaluation \in Evaluation
           /\ state'.previous_answers =
                Append(state.previous_answers, state.llm_output)
           /\ state'.route = state.route
           /\ state'.reranked_docs = state.reranked_docs
           /\ state'.rag_context = state.rag_context
           /\ state'.context_block = state.context_block
           /\ state'.llm_output = state.llm_output
           /\ state'.iteration_count = state.iteration_count
<1>1. evaluate_answer_quality \subseteq Evaluation
  BY DEF evaluate_answer_quality, Evaluation, Acceptable
<1> QED BY <1>1 DEF evaluate_response_quality, ConversationState

\* Preparing a retry counts it.
LEMMA PrepareEffect ==
    ASSUME state \in ConversationState, prepare_retry_iteration
    PROVE  /\ node = "prepare_retry_iteration"
           /\ node' = "route_and_refine_query"
           /\ stored' = stored
           /\ state'.iteration_count = state.iteration_count + 1
           /\ state'.route = state.route
           /\ state'.reranked_docs = state.reranked_docs
           /\ state'.rag_context = state.rag_context
           /\ state'.context_block = state.context_block
           /\ state'.llm_output = state.llm_output
           /\ state'.quality_evaluation = state.quality_evaluation
           /\ state'.previous_answers = state.previous_answers
BY DEF prepare_retry_iteration, NextIteration, ConversationState

\* Finalizing saves the answer at most, and changes nothing of the attempt.
LEMMA FinalizeEffect ==
    ASSUME state \in ConversationState, finalize_answer
    PROVE  /\ node = "finalize_answer"
           /\ node' = "END"
           /\ stored'.answer \in {stored.answer, state.llm_output}
           /\ state'.route = state.route
           /\ state'.reranked_docs = state.reranked_docs
           /\ state'.rag_context = state.rag_context
           /\ state'.context_block = state.context_block
           /\ state'.llm_output = state.llm_output
           /\ state'.iteration_count = state.iteration_count
           /\ state'.quality_evaluation = state.quality_evaluation
           /\ state'.previous_answers = state.previous_answers
<1>1. \/ UNCHANGED <<state, stored>>
      \/ /\ state' = [state EXCEPT
                         !.history = Finalized(@, state.llm_output)]
         /\ save_session_history(state'.history)
  BY DEF finalize_answer
<1>2. CASE UNCHANGED <<state, stored>>
  BY <1>2 DEF finalize_answer
<1>3. CASE /\ state' = [state EXCEPT
                          !.history = Finalized(@, state.llm_output)]
          /\ save_session_history(state'.history)
  <2>1. state'.history = Finalized(state.history, state.llm_output)
    BY <1>3 DEF ConversationState
  <2>2. stored'.answer \in {stored.answer, state.llm_output}
    BY <1>3, <2>1 DEF save_session_history, Finalized
  <2>3. node = "finalize_answer" /\ node' = "END"
    BY DEF finalize_answer
  <2> QED BY <1>3, <2>2, <2>3 DEF ConversationState
<1> QED BY <1>1, <1>2, <1>3

\* Only the first node and finalize_answer touch the history.
LEMMA HistoryLeftAlone ==
    ASSUME state \in ConversationState,
           \/ route_and_refine_query
           \/ perform_rag_retrieval
           \/ check_rag_confidence
           \/ perform_google_search
           \/ build_final_input
           \/ generate_llm_response
           \/ evaluate_response_quality
           \/ prepare_retry_iteration
    PROVE  state'.history = state.history /\ node # "END" /\ node' # "END"
<1>1. CASE route_and_refine_query
  BY <1>1, RouteLeads
  DEF route_and_refine_query, RoutingFailed, Refined, ConversationState
<1>2. CASE perform_rag_retrieval
  BY <1>2 DEF perform_rag_retrieval, ConversationState
<1>3. CASE check_rag_confidence
  <2>1. node # "END" /\ node' # "END"
    BY <1>3 DEF check_rag_confidence, should_use_google_fallback
  <2> QED BY <1>3, <2>1, ConfidenceResult DEF ConversationState
<1>4. CASE perform_google_search
  <2>1. node # "END" /\ node' # "END"
    BY <1>4 DEF perform_google_search
  <2> QED BY <1>4, <2>1, SearchResult DEF Answered, ConversationState
<1>5. CASE build_final_input
  BY <1>5 DEF build_final_input, ConversationState
<1>6. CASE generate_llm_response
  <2>1. node # "END" /\ node' # "END"
    BY <1>6 DEF generate_llm_response
  <2> QED BY <1>6, <2>1, GenerationResult DEF ConversationState
<1>7. CASE evaluate_response_quality
  <2>1. node # "END" /\ node' # "END"
    BY <1>7, JudgementLeads DEF evaluate_response_quality
  <2>2. state'.history = state.history
    BY <1>7 DEF evaluate_response_quality, ConversationState
  <2> QED BY <2>1, <2>2
<1>8. CASE prepare_retry_iteration
  BY <1>8 DEF prepare_retry_iteration, ConversationState
<1> QED BY <1>1, <1>2, <1>3, <1>4, <1>5, <1>6, <1>7, <1>8

\* No node but finalize_answer gives the session an answer of its own, and the
\* first one leaves an earlier one only as StoredInv has it.
LEMMA StoredStep ==
    ASSUME state \in ConversationState, StoredInv, [Next]_vars
    PROVE  StoredInv'
<1>1. CASE load_history_memory_and_facts
  <2>1. /\ node = "load_history_memory_and_facts"
        /\ stored.answer \in {NoAnswer, EarlierAnswer}
    BY <1>1 DEF load_history_memory_and_facts, StoredInv
  <2>2. CASE state'.history = EmptyHistory
    BY <1>1, <2>1, <2>2, LoadEffect DEF StoredInv
  <2>3. CASE state'.history # EmptyHistory
    <3>1. save_session_history(LoadedHistory)
      BY <1>1, <2>3 DEF load_history_memory_and_facts, ConversationState
    <3> QED BY <2>1, <3>1 DEF save_session_history, LoadedHistory, StoredInv
  <2> QED BY <2>2, <2>3
<1>2. CASE finalize_answer
  <2>1. node = "finalize_answer" /\ node' = "END"
    BY <1>2 DEF finalize_answer
  <2>2. CASE UNCHANGED <<state, stored>>
    BY <2>1, <2>2 DEF StoredInv
  <2>3. CASE /\ state' = [state EXCEPT !.history = Finalized(@, state.llm_output)]
             /\ save_session_history(state'.history)
    <3>1. /\ state'.history.answer = state.llm_output
          /\ state'.llm_output = state.llm_output
      BY <2>3 DEF ConversationState, Finalized
    <3>2. \/ stored' = state'.history
          \/ RedisBacked /\ stored' = stored
      BY <2>3 DEF save_session_history
    <3> QED BY <2>1, <3>1, <3>2 DEF StoredInv
  <2> QED BY <1>2, <2>2, <2>3 DEF finalize_answer
<1>3. CASE \/ route_and_refine_query
           \/ perform_rag_retrieval
           \/ check_rag_confidence
           \/ perform_google_search
           \/ build_final_input
           \/ generate_llm_response
           \/ evaluate_response_quality
           \/ prepare_retry_iteration
  <2>1. /\ state'.history = state.history
        /\ node # "END"
    BY <1>3, HistoryLeftAlone
  <2>2. stored' = stored /\ node # "load_history_memory_and_facts"
    BY <1>3 DEF route_and_refine_query, perform_rag_retrieval,
       check_rag_confidence, perform_google_search, build_final_input,
       generate_llm_response, evaluate_response_quality,
       prepare_retry_iteration
  <2> QED BY <2>1, <2>2 DEF StoredInv
<1>4. CASE UNCHANGED vars
  BY <1>4 DEF vars, StoredInv
<1> QED BY <1>1, <1>2, <1>3, <1>4 DEF Next, Step, Finished

-----------------------------------------------------------------------------
(* The invariant.                                                          *)

\* Where the quality gate sends a judged answer.
LEMMA GateLeads ==
    ASSUME state' \in ConversationState,
           state'.quality_evaluation \in Evaluation
    PROVE  LET next == should_retry_or_finish(state')
           IN  /\ next = "prepare_retry_iteration" =>
                    /\ ~ MaxReached(state')
                    /\ should_refine_answer(state'.quality_evaluation)
               /\ next = "finalize_answer" =>
                    \/ MaxReached(state')
                    \/ ~ ENABLE_QUALITY_GATE
                    \/ state'.quality_evaluation.quality_score = "high"
                    \/ state'.quality_evaluation.recommendation = "accept"
BY DEF should_retry_or_finish, should_refine_answer, Evaluation

\* The invariant holds of every request the graph starts with.
LEMMA InvariantHoldsInitially == Init => IInv
<1> SUFFICES ASSUME Init PROVE IInv
  OBVIOUS
<1>1. PICK n \in 0..MaxEarlier : state = InitialState(n)
  BY DEF Init
<1>2. n \in Nat
  BY ConfigurationAssumption
<1>3. /\ node = "load_history_memory_and_facts"
      /\ stored.answer \in {NoAnswer, EarlierAnswer}
  BY DEF Init, EmptyHistory
<1>4. TypeOK
  <2>1. state \in ConversationState
    <3>1. <<>> \in Seq(Answer) /\ <<>> \in Seq(Strategies)
      OBVIOUS
    <3>2. EmptyHistory \in History
      BY DEF EmptyHistory, History
    <3> QED BY <1>1, <1>2, <3>1, <3>2 DEF InitialState, ConversationState
  <2>2. stored \in History
    BY ConfigurationAssumption DEF Init, History, EmptyHistory
  <2> QED BY <1>3, <2>1, <2>2 DEF TypeOK, Nodes
<1>5. /\ state.iteration_count = 0
      /\ state.previous_answers = <<>>
      /\ state.rag_context = 0
      /\ state.llm_output.by = "nobody"
  BY <1>1 DEF InitialState, NoAnswer
<1>6. AttemptsAccounted
  BY <1>3, <1>5, ConfigurationAssumption DEF AttemptsAccounted, Judged
<1>7. /\ GateRespected
      /\ AnswerInv
      /\ RetryInv
      /\ ContextInv
      /\ FreshContext
      /\ ConfidentLocalAnswers
      /\ StoredInv
  BY <1>3, <1>5 DEF GateRespected, AnswerInv, RetryInv, ContextInv,
     FreshContext, ConfidentLocalAnswers, StoredInv, Judged, Answering
<1> QED BY <1>4, <1>6, <1>7 DEF IInv

\* Every node preserves the invariant.
LEMMA InvariantPreserved == IInv /\ [Next]_vars => IInv'
<1> SUFFICES ASSUME IInv, [Next]_vars PROVE IInv'
  OBVIOUS
<1> USE DEF IInv
<1>t. TypeOK'
  BY TypePreserved
<1>a. state \in ConversationState /\ state' \in ConversationState
  BY <1>t DEF TypeOK
<1>s. StoredInv'
  BY <1>a, StoredStep
<1>b. /\ state.iteration_count \in Nat
      /\ state.previous_answers \in Seq(Answer)
  BY <1>a, Fields
<1>c. MAX_REFINEMENT_ITERATIONS \in Nat
  BY ConfigurationAssumption
<1>1. CASE load_history_memory_and_facts
  <2>0. AttemptsAccounted'
    BY <1>a, <1>c, <1>1, LoadEffect DEF AttemptsAccounted, Judged
  <2>1. GateRespected' /\ RetryInv'
    BY <1>a, <1>1, LoadEffect DEF GateRespected, RetryInv
  <2>2. AnswerInv'
    BY <1>a, <1>b, <1>1, LoadEffect
    DEF AnswerInv, Answering, Judged, attempt
  <2>3. ContextInv' /\ FreshContext' /\ ConfidentLocalAnswers'
    BY <1>a, <1>b, <1>1, LoadEffect
    DEF ContextInv, FreshContext, ConfidentLocalAnswers, AnswerInv, RetryInv,
        Answering, attempt
  <2> QED BY <1>t, <1>s, <2>0, <2>1, <2>2, <2>3
<1>2. CASE route_and_refine_query
  <2>0. /\ node' \in {"perform_rag_retrieval", "perform_google_search",
                     "build_final_input", "raised"}
        /\ node' = "build_final_input" =>
             state'.route = "chat" /\ state.iteration_count = 0
    BY <1>a, <1>b, <1>2, RouteEffect
    DEF should_perform_rag, retrying, RetryInv
  <2>1. AttemptsAccounted'
    BY <1>a, <1>b, <1>c, <1>2, <2>0, RouteEffect DEF AttemptsAccounted, Judged
  <2>2. GateRespected'
    BY <1>a, <1>b, <1>c, <1>2, <2>0, RouteEffect DEF GateRespected
  <2>3. AnswerInv'
    BY <1>a, <1>b, <1>c, <1>2, <2>0, RouteEffect DEF AnswerInv, Answering, Judged, attempt
  <2>4. RetryInv'
    BY <1>a, <1>b, <1>c, <1>2, <2>0, RouteEffect DEF RetryInv
  <2>5. ContextInv'
    BY <1>a, <1>b, <1>c, <1>2, <2>0, RouteEffect DEF ContextInv, attempt
  <2>6. FreshContext'
    BY <1>a, <1>b, <1>c, <1>2, RouteEffect DEF FreshContext, ContextInv, AnswerInv, Answering, attempt
  <2>7. ConfidentLocalAnswers'
    BY <1>a, <1>b, <1>c, <1>2, <2>0, RouteEffect DEF ConfidentLocalAnswers, ContextInv, attempt
  <2> QED BY <1>t, <1>s, <2>1, <2>2, <2>3, <2>4, <2>5, <2>6, <2>7
<1>3. CASE perform_rag_retrieval
  <2>1. AttemptsAccounted' /\ GateRespected' /\ RetryInv'
    BY <1>a, <1>b, <1>c, <1>3, RetrievalEffect
    DEF AttemptsAccounted, GateRespected, RetryInv, Judged
  <2>2. AnswerInv'
    BY <1>a, <1>b, <1>3, RetrievalEffect
    DEF AnswerInv, Answering, Judged, attempt
  <2>3. ContextInv' /\ FreshContext' /\ ConfidentLocalAnswers'
    BY <1>a, <1>b, <1>3, RetrievalEffect
    DEF ContextInv, FreshContext, ConfidentLocalAnswers, AnswerInv, RetryInv,
        Answering, attempt
  <2> QED BY <1>t, <1>s, <2>1, <2>2, <2>3
<1>4. CASE check_rag_confidence
  <2>1. AttemptsAccounted' /\ GateRespected' /\ RetryInv'
    BY <1>a, <1>b, <1>c, <1>4, ConfidenceEffect
    DEF AttemptsAccounted, GateRespected, RetryInv, Judged
  <2>2. AnswerInv'
    BY <1>a, <1>b, <1>4, ConfidenceEffect
    DEF AnswerInv, Answering, Judged, attempt
  <2>3. ContextInv' /\ FreshContext' /\ ConfidentLocalAnswers'
    BY <1>a, <1>b, <1>4, ConfidenceEffect
    DEF ContextInv, FreshContext, ConfidentLocalAnswers, AnswerInv, RetryInv,
        Answering, attempt
  <2> QED BY <1>t, <1>s, <2>1, <2>2, <2>3
<1>5. CASE perform_google_search
  <2>1. AttemptsAccounted' /\ GateRespected' /\ RetryInv'
    BY <1>a, <1>b, <1>c, <1>5, SearchEffect
    DEF AttemptsAccounted, GateRespected, RetryInv, Judged
  <2>2. AnswerInv'
    BY <1>a, <1>b, <1>5, SearchEffect
    DEF AnswerInv, Answering, Judged, attempt
  <2>3. ContextInv' /\ FreshContext' /\ ConfidentLocalAnswers'
    BY <1>a, <1>b, <1>5, SearchEffect
    DEF ContextInv, FreshContext, ConfidentLocalAnswers, AnswerInv, RetryInv,
        Answering, attempt
  <2> QED BY <1>t, <1>s, <2>1, <2>2, <2>3
<1>6. CASE build_final_input
  <2>1. AttemptsAccounted' /\ GateRespected' /\ RetryInv'
    BY <1>a, <1>b, <1>c, <1>6, BuildEffect
    DEF AttemptsAccounted, GateRespected, RetryInv, Judged
  <2>2. AnswerInv'
    BY <1>a, <1>b, <1>6, BuildEffect
    DEF AnswerInv, Answering, Judged, attempt
  <2>3. ContextInv' /\ FreshContext' /\ ConfidentLocalAnswers'
    BY <1>a, <1>b, <1>6, BuildEffect
    DEF ContextInv, FreshContext, ConfidentLocalAnswers, AnswerInv, RetryInv,
        Answering, attempt
  <2> QED BY <1>t, <1>s, <2>1, <2>2, <2>3
<1>7. CASE generate_llm_response
  <2>1. AttemptsAccounted' /\ GateRespected' /\ RetryInv'
    BY <1>a, <1>b, <1>c, <1>7, GenerateEffect
    DEF AttemptsAccounted, GateRespected, RetryInv, Judged
  <2>2. AnswerInv'
    BY <1>a, <1>b, <1>7, GenerateEffect
    DEF AnswerInv, Answering, Judged, attempt
  <2>3. ContextInv' /\ FreshContext' /\ ConfidentLocalAnswers'
    BY <1>a, <1>b, <1>7, GenerateEffect
    DEF ContextInv, FreshContext, ConfidentLocalAnswers, AnswerInv, RetryInv,
        Answering, attempt
  <2> QED BY <1>t, <1>s, <2>1, <2>2, <2>3
<1>8. CASE evaluate_response_quality
  <2>0. /\ state'.quality_evaluation \in Evaluation
        /\ state'.quality_evaluation # NoEvaluation
        /\ node' \in {"prepare_retry_iteration", "finalize_answer", "raised"}
        /\ node' = "prepare_retry_iteration" => ~ MaxReached(state')
        /\ node' = "finalize_answer" =>
             \/ MaxReached(state')
             \/ ~ ENABLE_QUALITY_GATE
             \/ state'.quality_evaluation.quality_score = "high"
             \/ state'.quality_evaluation.recommendation = "accept"
    BY <1>a, <1>8, EvaluateEffect, JudgementLeads, GateLeads
    DEF Evaluation, NoEvaluation
  <2>1. AttemptsAccounted'
    <3>1. node = "evaluate_response_quality"
      BY <1>a, <1>8, EvaluateEffect
    <3>2. /\ state.llm_output.attempt = state.iteration_count + 1
          /\ state.llm_output \in Answer
      BY <3>1 DEF AnswerInv, Answering, attempt
    <3>3. Len(state.previous_answers) = state.iteration_count
      BY <1>b, <3>1 DEF AttemptsAccounted, Judged
    <3>4. state'.previous_answers =
            Append(state.previous_answers, state.llm_output)
      BY <1>a, <1>8, EvaluateEffect
    <3>5. /\ Len(state'.previous_answers) = state.iteration_count + 1
          /\ \A i \in 1..Len(state'.previous_answers) :
               state'.previous_answers[i] =
                 IF i = state.iteration_count + 1 THEN state.llm_output
                                                  ELSE state.previous_answers[i]
      BY <1>b, <3>2, <3>3, <3>4
    <3>6. \A i \in 1..Len(state'.previous_answers) :
            state'.previous_answers[i].attempt = i
      <4> SUFFICES ASSUME NEW i \in 1..Len(state'.previous_answers)
                   PROVE  state'.previous_answers[i].attempt = i
        OBVIOUS
      <4>1. CASE i = state.iteration_count + 1
        BY <3>2, <3>5, <4>1
      <4>2. CASE i # state.iteration_count + 1
        <5>1. i \in 1..Len(state.previous_answers)
          BY <1>b, <3>5, <3>3, <4>2
        <5> QED BY <3>5, <4>2, <5>1 DEF AttemptsAccounted
      <4> QED BY <4>1, <4>2
    <3> QED BY <1>a, <1>b, <1>8, <2>0, <3>5, <3>6, EvaluateEffect
            DEF AttemptsAccounted, Judged
  <2>2. GateRespected'
    BY <1>a, <1>b, <1>c, <1>8, <2>0, EvaluateEffect DEF GateRespected, MaxReached
  <2>3. AnswerInv'
    BY <1>a, <1>b, <1>c, <1>8, EvaluateEffect DEF AnswerInv, Answering, Judged, attempt
  <2>4. RetryInv'
    BY <1>a, <1>b, <1>c, <1>8, <2>0, EvaluateEffect DEF RetryInv, MaxReached
  <2>5. ContextInv'
    BY <1>a, <1>b, <1>c, <1>8, <2>0, EvaluateEffect DEF ContextInv
  <2>6. FreshContext'
    BY <1>a, <1>b, <1>c, <1>8, EvaluateEffect DEF FreshContext, ContextInv, AnswerInv, Answering, attempt
  <2>7. ConfidentLocalAnswers'
    BY <1>a, <1>b, <1>c, <1>8, <2>0, EvaluateEffect DEF ConfidentLocalAnswers
  <2> QED BY <1>t, <1>s, <2>1, <2>2, <2>3, <2>4, <2>5, <2>6, <2>7
<1>9. CASE prepare_retry_iteration
  <2>1. AttemptsAccounted' /\ GateRespected' /\ RetryInv'
    BY <1>a, <1>b, <1>c, <1>9, PrepareEffect
    DEF AttemptsAccounted, GateRespected, RetryInv, Judged
  <2>2. AnswerInv'
    BY <1>a, <1>b, <1>9, PrepareEffect
    DEF AnswerInv, Answering, Judged, attempt
  <2>3. ContextInv' /\ FreshContext' /\ ConfidentLocalAnswers'
    BY <1>a, <1>b, <1>9, PrepareEffect
    DEF ContextInv, FreshContext, ConfidentLocalAnswers, AnswerInv, RetryInv,
        Answering, attempt
  <2> QED BY <1>t, <1>s, <2>1, <2>2, <2>3
<1>10. CASE finalize_answer
  <2>1. AttemptsAccounted' /\ GateRespected' /\ RetryInv'
    BY <1>a, <1>b, <1>c, <1>10, FinalizeEffect
    DEF AttemptsAccounted, GateRespected, RetryInv, Judged
  <2>2. AnswerInv'
    BY <1>a, <1>b, <1>10, FinalizeEffect
    DEF AnswerInv, Answering, Judged, attempt
  <2>3. ContextInv' /\ FreshContext' /\ ConfidentLocalAnswers'
    BY <1>a, <1>b, <1>10, FinalizeEffect
    DEF ContextInv, FreshContext, ConfidentLocalAnswers, AnswerInv, RetryInv,
        Answering, attempt
  <2> QED BY <1>t, <1>s, <2>1, <2>2, <2>3
<1>11. CASE UNCHANGED vars
  BY <1>11, <1>t, <1>s DEF vars, AttemptsAccounted, GateRespected, AnswerInv,
     RetryInv, ContextInv, FreshContext, ConfidentLocalAnswers,
     Judged, Answering, attempt
<1> QED
  BY <1>1, <1>2, <1>3, <1>4, <1>5, <1>6, <1>7, <1>8, <1>9, <1>10, <1>11
  DEF Next, Step, Finished

-----------------------------------------------------------------------------
(* What holds of every behaviour.                                          *)

\* The invariant holds in every state of every behaviour.
LEMMA InvariantHolds == Spec => []IInv
BY InvariantHoldsInitially, InvariantPreserved, PTL DEF Spec

\* No node ever leaves the state dictionary, the session store or the next
\* node outside the values the other nodes and the edges of graph.py expect.
THEOREM TypeCorrect == Spec => []TypeOK
<1>1. IInv => TypeOK
  BY DEF IInv
<1> QED BY <1>1, InvariantHolds, PTL

\* However many retries are configured, the quality loop of graph.py never
\* makes more, and leaves one answer per judged attempt, in order.
THEOREM AttemptsAreAccounted == Spec => []AttemptsAccounted
<1>1. IInv => AttemptsAccounted
  BY DEF IInv
<1> QED BY <1>1, InvariantHolds, PTL

\* With retries left, an answer the judge scored low and advised against
\* never reaches finalize_answer.
THEOREM GateIsRespected == Spec => []GateRespected
<1>1. IInv => GateRespected
  BY DEF IInv
<1> QED BY <1>1, InvariantHolds, PTL

\* The answer a request ends with is the one judged last, made in the last
\* attempt, and the only one of the request the session can have been given.
THEOREM FinalAnswerIsJudged == Spec => []FinalAnswerJudged
<1>1. IInv => FinalAnswerJudged
  BY DEF IInv, AnswerInv, StoredInv, FinalAnswerJudged, Answering, Judged, attempt
<1> QED BY <1>1, InvariantHolds, PTL

\* No retry lets the language model answer from what an earlier attempt
\* retrieved, although nothing resets the state between attempts.
THEOREM ContextIsFresh == Spec => []FreshContext
<1>1. IInv => FreshContext
  BY DEF IInv
<1> QED BY <1>1, InvariantHolds, PTL

\* A question routed to local knowledge reaches the language model with the
\* accepted context of the current attempt, or with the error that lost it.
THEOREM LocalAnswersAreConfident == Spec => []ConfidentLocalAnswers
<1>1. IInv => ConfidentLocalAnswers
  BY DEF IInv
<1> QED BY <1>1, InvariantHolds, PTL

\* No step prepares a retry of an answer the judge has not just rejected.
THEOREM RetriesAreOfRejected == Spec => RetryOnlyWhenRejected
<1> DEFINE Rejected == /\ state'.quality_evaluation.quality_score = "low"
                       /\ state'.quality_evaluation.recommendation # "accept"
                       /\ ENABLE_QUALITY_GATE
<1>1. ASSUME IInv, [Next]_vars
      PROVE  [node' = "prepare_retry_iteration" => Rejected]_vars
  <2>1. state \in ConversationState /\ state' \in ConversationState
    BY <1>1, TypePreserved DEF IInv, TypeOK
  <2>2. CASE evaluate_response_quality
    BY <2>1, <2>2, EvaluateEffect, GateLeads DEF should_refine_answer
  <2>3. CASE route_and_refine_query
    BY <2>1, <2>3, RouteEffect, RouteLeads
  <2>4. CASE check_rag_confidence
    BY <2>1, <2>4, ConfidenceEffect
  <2>5. CASE \/ load_history_memory_and_facts
             \/ perform_rag_retrieval
             \/ perform_google_search
             \/ build_final_input
             \/ generate_llm_response
             \/ prepare_retry_iteration
             \/ finalize_answer
    BY <2>5 DEF load_history_memory_and_facts, perform_rag_retrieval,
       perform_google_search, build_final_input, generate_llm_response,
       prepare_retry_iteration, finalize_answer
  <2> QED BY <1>1, <2>2, <2>3, <2>4, <2>5 DEF Next, Step, Finished
<1> QED BY <1>1, InvariantHolds, PTL DEF Spec, RetryOnlyWhenRejected

\* What a request loads is within the cap of config.py, if there is one.
LEMMA LoadedIsCapped ==
    ASSUME state \in ConversationState, MAX_HISTORY_LEN > 0
    PROVE  LoadedHistory.size <= MAX_HISTORY_LEN
<1>1. state.earlier + 1 \in Nat
  BY Fields
<1> QED BY <1>1, ConfigurationAssumption DEF LoadedHistory, Capped

\* The history a request works on exceeds the cap of config.py 33 ("Max
\* messages to keep") by one message at most, once the graph has ended: it is
\* capped on loading only, and finalize_answer saves one more than the cap.
HistoryBounded ==
    MAX_HISTORY_LEN > 0 =>
        state.history.size <=
          MAX_HISTORY_LEN + (IF node = "END" THEN 1 ELSE 0)

\* However long the request and however many the retries, the history a
\* request works on exceeds the cap by its own answer at most.
THEOREM HistoryIsBounded == Spec => []HistoryBounded
<1>1. Init => HistoryBounded
  <2> SUFFICES ASSUME Init PROVE HistoryBounded
    OBVIOUS
  <2>1. state.history.size = 0
    <3>1. PICK n \in 0..MaxEarlier : state = InitialState(n)
      BY DEF Init
    <3> QED BY <3>1 DEF InitialState, EmptyHistory
  <2> QED BY <2>1, ConfigurationAssumption DEF HistoryBounded
<1>2. IInv /\ HistoryBounded /\ [Next]_vars => HistoryBounded'
  <2> SUFFICES ASSUME IInv, HistoryBounded, [Next]_vars, MAX_HISTORY_LEN > 0
               PROVE  state'.history.size <=
                        MAX_HISTORY_LEN + (IF node' = "END" THEN 1 ELSE 0)
    BY DEF HistoryBounded
  <2>1. state \in ConversationState
    BY DEF IInv, TypeOK
  <2>2. MAX_HISTORY_LEN \in Nat
    BY ConfigurationAssumption
  <2>3. state.history.size \in Nat
    BY <2>1, Fields DEF History
  <2>4. CASE load_history_memory_and_facts
    <3>1. state'.history \in {EmptyHistory, LoadedHistory}
      BY <2>1, <2>4 DEF load_history_memory_and_facts, ConversationState
    <3>2. state'.history.size <= MAX_HISTORY_LEN
      BY <2>1, <2>2, <3>1, LoadedIsCapped DEF EmptyHistory
    <3>3. node' # "END"
      BY <2>4 DEF load_history_memory_and_facts
    <3> QED BY <2>2, <3>2, <3>3
  <2>5. CASE finalize_answer
    <3>1. node = "finalize_answer" /\ node' = "END"
      BY <2>5 DEF finalize_answer
    <3>2. state.history.size <= MAX_HISTORY_LEN
      BY <2>2, <3>1 DEF HistoryBounded
    <3>3. state'.history \in
            {state.history, Finalized(state.history, state.llm_output)}
      BY <2>1, <2>5 DEF finalize_answer, ConversationState
    <3> QED BY <2>2, <2>3, <3>1, <3>2, <3>3 DEF Finalized
  <2>6. CASE \/ route_and_refine_query
             \/ perform_rag_retrieval
             \/ check_rag_confidence
             \/ perform_google_search
             \/ build_final_input
             \/ generate_llm_response
             \/ evaluate_response_quality
             \/ prepare_retry_iteration
    BY <2>1, <2>6, HistoryLeftAlone DEF HistoryBounded
  <2>7. CASE UNCHANGED vars
    BY <2>7 DEF vars, HistoryBounded
  <2> QED BY <2>4, <2>5, <2>6, <2>7 DEF Next, Step, Finished
<1> QED BY <1>1, <1>2, InvariantHolds, PTL DEF Spec
-----------------------------------------------------------------------------
(* How far the graph is from its end.                                      *)

\* The nodes of an attempt from here on, this one included, at most.
NodesAhead(n) ==
    CASE n = "load_history_memory_and_facts" -> 8
      [] n = "route_and_refine_query" -> 7
      [] n = "perform_rag_retrieval" -> 6
      [] n = "check_rag_confidence" -> 5
      [] n = "build_final_input" -> 4
      [] n \in {"perform_google_search", "generate_llm_response"} -> 3
      [] n = "evaluate_response_quality" -> 2
      [] n \in {"prepare_retry_iteration", "finalize_answer"} -> 1
      [] OTHER -> 0

NodesLeft == 8 * (MAX_REFINEMENT_ITERATIONS - state.iteration_count) + NodesAhead(node)

NodesLeftInv == state.iteration_count \in Nat /\ NodesLeft \in Nat

\* The number of nodes left is a natural number, as long as the retries are
\* within their limit.
LEMMA NodesLeftType == IInv => NodesLeftInv
<1> SUFFICES ASSUME IInv PROVE NodesLeftInv
  OBVIOUS
<1>1. NodesAhead(node) \in 0..8
  BY DEF NodesAhead
<1>2. /\ state.iteration_count \in Nat
      /\ state.iteration_count <= MAX_REFINEMENT_ITERATIONS
  BY Fields DEF IInv, TypeOK, AttemptsAccounted
<1> QED BY <1>1, <1>2, ConfigurationAssumption DEF NodesLeft, NodesLeftInv

\* Within an attempt every edge leads to a node with fewer ahead.
LEMMA NodesAheadFalls ==
    ASSUME state \in ConversationState, Step, ~ prepare_retry_iteration
    PROVE  /\ NodesAhead(node') < NodesAhead(node)
           /\ \/ state'.iteration_count = state.iteration_count
              \/ /\ node = "load_history_memory_and_facts"
                 /\ state'.iteration_count = 0
<1>1. CASE load_history_memory_and_facts
  BY <1>1, LoadEffect DEF NodesAhead
<1>2. CASE route_and_refine_query
  BY <1>2, RouteEffect, RouteLeads DEF NodesAhead
<1>3. CASE perform_rag_retrieval
  BY <1>3, RetrievalEffect DEF NodesAhead
<1>4. CASE check_rag_confidence
  BY <1>4, ConfidenceEffect DEF NodesAhead
<1>5. CASE perform_google_search
  BY <1>5, SearchEffect DEF NodesAhead
<1>6. CASE build_final_input
  BY <1>6, BuildEffect DEF NodesAhead
<1>7. CASE generate_llm_response
  BY <1>7, GenerateEffect DEF NodesAhead
<1>8. CASE evaluate_response_quality
  BY <1>8, EvaluateEffect, JudgementLeads DEF NodesAhead
<1>9. CASE finalize_answer
  BY <1>9, FinalizeEffect DEF NodesAhead
<1> QED BY <1>1, <1>2, <1>3, <1>4, <1>5, <1>6, <1>7, <1>8, <1>9 DEF Step

\* Every node that runs brings the graph closer to its end, a retry included.
LEMMA StepComesCloser ==
    ASSUME IInv, Step
    PROVE  NodesLeft' < NodesLeft /\ NodesLeft' \in Nat
<1>1. state \in ConversationState /\ IInv'
  BY InvariantPreserved DEF IInv, TypeOK, Next
<1>2. NodesLeftInv'
  BY <1>1, NodesLeftType, PTL
<1>3. /\ state.iteration_count \in Nat
      /\ NodesAhead(node) \in 0..8 /\ NodesAhead(node') \in 0..8
  BY NodesLeftType DEF NodesAhead, NodesLeftInv
<1>4. CASE prepare_retry_iteration
  <2>1. NodesAhead(node) = 1 /\ NodesAhead(node') = 7
    BY <1>1, <1>4, PrepareEffect DEF NodesAhead
  <2>2. state'.iteration_count = state.iteration_count + 1
    BY <1>1, <1>4, PrepareEffect
  <2> QED BY <1>2, <1>3, <2>1, <2>2, ConfigurationAssumption DEF NodesLeft, NodesLeftInv
<1>5. CASE ~ prepare_retry_iteration
  <2>1. NodesAhead(node') < NodesAhead(node)
    BY <1>1, <1>5, NodesAheadFalls
  <2>2. state'.iteration_count = state.iteration_count
    BY <1>1, <1>5, NodesAheadFalls DEF IInv, RetryInv
  <2> QED BY <1>2, <1>3, <2>1, <2>2, ConfigurationAssumption DEF NodesLeft, NodesLeftInv
<1> QED BY <1>2, <1>4, <1>5 DEF NodesLeftInv

\* A request has all its attempts before it at first.
LEMMA NodesLeftAtFirst == Init => NodesLeft = 8 * (MAX_REFINEMENT_ITERATIONS + 1)
<1> SUFFICES ASSUME Init
             PROVE  NodesLeft = 8 * (MAX_REFINEMENT_ITERATIONS + 1)
  OBVIOUS
<1>1. PICK n \in 0..MaxEarlier : state = InitialState(n)
  BY DEF Init
<1>2. state.iteration_count = 0 /\ node = "load_history_memory_and_facts"
  BY <1>1 DEF Init, InitialState
<1> QED BY <1>2, ConfigurationAssumption DEF NodesLeft, NodesAhead

\* The quality loop is bounded: a request runs eight nodes for each of the
\* MAX_REFINEMENT_ITERATIONS + 1 attempts at most, since each node that runs
\* leaves fewer to run and a retry is paid for by the attempt it uses up.
THEOREM RunsFewNodes ==
    Spec => /\ NodesLeft = 8 * (MAX_REFINEMENT_ITERATIONS + 1)
            /\ [](NodesLeft \in Nat)
            /\ [][NodesLeft' < NodesLeft]_vars
<1>1. Spec => NodesLeft = 8 * (MAX_REFINEMENT_ITERATIONS + 1)
  BY NodesLeftAtFirst, PTL DEF Spec
<1>2. IInv => NodesLeft \in Nat
  BY NodesLeftType DEF NodesLeftInv
<1>3. IInv /\ [Next]_vars => [NodesLeft' < NodesLeft]_vars
  BY StepComesCloser DEF Next, Finished
<1>4. Spec => [](NodesLeft \in Nat)
  BY <1>2, InvariantHolds, PTL
<1>5. Spec => [][NodesLeft' < NodesLeft]_vars
  BY <1>3, InvariantHolds, PTL DEF Spec
<1> QED BY <1>1, <1>4, <1>5
=============================================================================
