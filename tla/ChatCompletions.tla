--------------------------- MODULE ChatCompletions ---------------------------
(***************************************************************************)
(* The chat endpoint of api/app.py around one run of the conversation      *)
(* graph: the request is checked, the graph runs, and the answer leaves as *)
(* one JSON body or as a stream of server-sent chunks that opens a <think> *)
(* section, reports progress in it and closes it before the answer.        *)
(*                                                                         *)
(* The stream is pulled: a node runs, its chunks are sent, and only then   *)
(* does the next node start.  A client may leave a stream at any time; the *)
(* node that is running in its thread then still completes, and none of    *)
(* its chunks is sent.  The blocking path never awaits, so nothing can     *)
(* come between its steps.                                                 *)
(*                                                                         *)
(* Data: a chunk is its kind and the answer it carries, whose pieces of 30 *)
(* characters are one chunk here.                                          *)
(***************************************************************************)
EXTENDS ConversationGraph, SequencesExt

VARIABLES
    request,        \* stream flag and role of the last message
    phase,          \* "received", "streaming", "blocking", "done", "left"
    sent,           \* the chunks of the stream, in order
    is_thinking_open,
    has_final_answer_streamed,
    response        \* the JSON response, or NoResponse

graphVars == vars
streamVars == <<sent, is_thinking_open, has_final_answer_streamed>>
chatVars == <<node, state, stored, request, phase, sent, is_thinking_open,
              has_final_answer_streamed, response>>

-----------------------------------------------------------------------------
Request == [stream: BOOLEAN, last_role: {"system", "user", "assistant"}]

Apology == [NoAnswer EXCEPT !.text = "apology"]

Chunk(kind) == [kind |-> kind, text |-> NoAnswer]
TextChunk(kind, answer) == [kind |-> kind, text |-> answer]

Models == {"Geoq-Critical-Fallback", "Geoq (Google Search)", "Geoq", ""}

Response(status, model, content, finish_reason) ==
    [status |-> status, model |-> model, content |-> content,
     finish_reason |-> finish_reason]

NoResponse == Response(0, "", NoAnswer, "")

ChatInit ==
    /\ Init
    /\ request \in Request
    /\ phase = "received"
    /\ sent = <<>>
    /\ is_thinking_open = FALSE
    /\ has_final_answer_streamed = FALSE
    /\ response = NoResponse

-----------------------------------------------------------------------------
(* The endpoint.                                                           *)

\* 422 when the last message is not the user's; the empty list never gets
\* here, the request model asks for at least one message.
chat_completions ==
    /\ phase = "received"
    /\ IF request.last_role # "user"
         THEN /\ phase' = "done"
              /\ response' = Response(422, "", NoAnswer, "")
         ELSE /\ phase' = IF request.stream THEN "opening" ELSE "blocking"
              /\ UNCHANGED response
    /\ UNCHANGED <<graphVars, request, streamVars>>

-----------------------------------------------------------------------------
(* Streaming: stream_graph_execution.                                      *)

FRIENDLY_STATUSES ==
    {"load_history_memory_and_facts", "perform_rag_retrieval",
     "perform_google_search", "generate_llm_response", "finalize_answer"}

OpenThink ==
    /\ phase = "opening"
    /\ phase' = "streaming"
    /\ sent' = Append(sent, Chunk("think"))
    /\ is_thinking_open' = TRUE
    /\ UNCHANGED <<graphVars, request, has_final_answer_streamed, response>>

StatusChunks(n) ==
    IF n \in FRIENDLY_STATUSES /\ ~ has_final_answer_streamed
      THEN <<Chunk("status")>> ELSE <<>>

IsFinalOutput_every_time(n, s) ==
    /\ s.llm_output.text # ""
    /\ \/ n = "finalize_answer"
       \/ n = "perform_google_search" /\ s.google_answer.text # ""

IsFinalOutput_search_only(n, s) ==
    /\ n = "perform_google_search"
    /\ s.llm_output.text # ""
    /\ ~ has_final_answer_streamed

\* No node named check_clarification_needed is part of the graph.
IsFinalOutput(n, s) ==
    /\ s.llm_output.text # ""
    /\ \/ n = "finalize_answer"
       \/ n = "perform_google_search" /\ s.google_answer.text # ""
    /\ ~ has_final_answer_streamed

AnswerChunks_in_think(answer) == <<TextChunk("answer", answer)>>

AnswerChunks(answer) ==
    (IF is_thinking_open THEN <<Chunk("/think")>> ELSE <<>>)
        \o <<TextChunk("answer", answer)>>

\* A node that completes: its progress line, then the answer if it is the
\* first node whose output counts as final.
StreamNode ==
    /\ phase = "streaming"
    /\ Step
    /\ node' # "raised"
    /\ IF IsFinalOutput(node, state')
         THEN /\ sent' = sent \o StatusChunks(node)
                              \o AnswerChunks(state'.llm_output)
              /\ is_thinking_open' = FALSE
              /\ has_final_answer_streamed' = TRUE
         ELSE /\ sent' = sent \o StatusChunks(node)
              /\ UNCHANGED <<is_thinking_open, has_final_answer_streamed>>
    /\ UNCHANGED <<request, phase, response>>

FinishStream ==
    /\ phase = "streaming"
    /\ node = "END"
    /\ sent' = sent \o (IF is_thinking_open THEN <<Chunk("/think")>> ELSE <<>>)
                    \o <<Chunk("stop"), Chunk("DONE")>>
    /\ phase' = "done"
    /\ UNCHANGED <<graphVars, request, is_thinking_open,
                   has_final_answer_streamed, response>>

FailedStreamEnd_silent == <<TextChunk("error", Apology)>>

\* The error chunk carries an apology and finish_reason "stop".
FailedStreamEnd == <<TextChunk("error", Apology), Chunk("DONE")>>

FailStream ==
    /\ phase = "streaming"
    /\ Step
    /\ node' = "raised"
    /\ sent' = sent \o FailedStreamEnd
    /\ phase' = "done"
    /\ UNCHANGED <<request, is_thinking_open, has_final_answer_streamed, response>>

ClientLeaves ==
    /\ phase \in {"opening", "streaming"}
    /\ phase' = "left"
    /\ \/ UNCHANGED graphVars
       \/ phase = "streaming" /\ Step
    /\ UNCHANGED <<request, streamVars, response>>

-----------------------------------------------------------------------------
(* Blocking: run_graph_blocking and the JSON response.                     *)

RunBlocking ==
    /\ phase = "blocking"
    /\ Step
    /\ UNCHANGED <<request, phase, streamVars, response>>

run_graph_blocking_silent ==
    IF node = "raised"
      THEN [InitialState(state.earlier) EXCEPT !.llm_output = Apology]
      ELSE state

\* When the graph raises, what is left is the initial state and a fallback.
run_graph_blocking ==
    IF node = "raised"
      THEN [InitialState(state.earlier) EXCEPT !.llm_output = Apology,
              !.error_info = "graph_execution_error"]
      ELSE state

ModelName_of_stream(s) == "geoq-0"

ModelName(s) ==
    CASE s.error_info # "" -> "Geoq-Critical-Fallback"
      [] /\ s.error_info = ""
         /\ s.route = "google" \/ s.google_answer.text # "" ->
           "Geoq (Google Search)"
      [] OTHER -> "Geoq"

FinishReason(s) == IF s.error_info = "" THEN "stop" ELSE "error"

JsonResponse_attempt(s) ==
    Response(200, ModelName(s),
             IF s.previous_answers = <<>> THEN s.llm_output
                                          ELSE s.previous_answers[1],
             FinishReason(s))

JsonResponse(s) == Response(200, ModelName(s), s.llm_output, FinishReason(s))

Respond ==
    /\ phase = "blocking"
    /\ node \in Stopped
    /\ response' = JsonResponse(run_graph_blocking)
    /\ phase' = "done"
    /\ UNCHANGED <<graphVars, request, streamVars>>

\* Anything that goes wrong while the response is made: the fallback is
\* saved as the session's last message, if that works, and sent with a 500.
RespondFailed ==
    /\ phase = "blocking"
    /\ node \in Stopped
    /\ response' = Response(500, "Geoq-Critical-Fallback", Apology, "error")
    /\ \/ stored' = Finalized(stored, Apology)
       \/ RedisBacked /\ UNCHANGED stored
    /\ phase' = "done"
    /\ UNCHANGED <<node, state, request, streamVars>>

-----------------------------------------------------------------------------
Work ==
    \/ chat_completions
    \/ OpenThink
    \/ StreamNode
    \/ FinishStream
    \/ FailStream
    \/ RunBlocking
    \/ Respond
    \/ RespondFailed

Over == phase \in {"done", "left"} /\ UNCHANGED chatVars

ChatNext == Work \/ ClientLeaves \/ Over

\* The server keeps running the request; a client need not leave.
ChatSpec == ChatInit /\ [][ChatNext]_chatVars /\ WF_chatVars(Work)

-----------------------------------------------------------------------------
(* Properties.                                                             *)

Kinds == {"think", "status", "/think", "answer", "error", "stop", "DONE"}

ChatTypeOK ==
    /\ node \in Nodes \cup Stopped
    /\ state \in ConversationState
    /\ stored.answer \in Answer \cup {NoAnswer, EarlierAnswer, Apology}
    /\ request \in Request
    /\ phase \in {"received", "opening", "streaming", "blocking", "done", "left"}
    /\ \A i \in DOMAIN sent : /\ sent[i].kind \in Kinds
                              /\ sent[i].text \in Answer \cup {NoAnswer, Apology}
    /\ is_thinking_open \in BOOLEAN
    /\ has_final_answer_streamed \in BOOLEAN
    /\ response.model \in Models

Positions(kind) == {i \in DOMAIN sent : sent[i].kind = kind}

\* Clients cut the message at the <think> tags: the section is opened first
\* and closed at most once, progress lines are inside it and the answer is
\* outside it.
ThinkSection ==
    /\ sent # <<>> => Positions("think") = {1}
    /\ \A i, j \in Positions("/think") : i = j
    /\ \A i \in Positions("answer") : \E j \in Positions("/think") : j < i
    /\ \A i \in Positions("status"), j \in Positions("/think") : i < j

\* A stream the client does not leave ends with [DONE], sent once and last,
\* right after the one chunk that carries a finish_reason; a stream that
\* ends without an error has closed its <think> section.
StreamEnd ==
    LET finishing == Positions("stop") \cup Positions("error")
        last == Len(sent)
    IN  /\ Positions("DONE") # {} => Positions("DONE") = {last}
        /\ phase = "done" /\ sent # <<>> =>
             Positions("DONE") = {last} /\ finishing = {last - 1}
        /\ Positions("stop") # {} => Positions("/think") # {}

\* A stream that ends without an error has carried the final answer, except
\* that the final answer was empty, or that a searched answer of an earlier
\* attempt had been sent before the quality gate asked for a retry.
NoAnswerLost ==
    Positions("stop") # {} =>
        IF Positions("answer") = {}
          THEN state.llm_output.text = ""
          ELSE \A i \in Positions("answer") :
                 \/ sent[i].text = state.llm_output
                 \/ /\ sent[i].text.by = "google"
                    /\ sent[i].text.attempt <= state.iteration_count

\* A JSON client and the session agree: the session's last assistant message
\* is the text of the response, or there is none.  When Redis refuses the
\* saves it may still be an older one: that of an earlier request, or, when
\* the response itself fails, the answer the client missed.  In this process
\* only a request that neither loads nor finalizes leaves the earlier one.
SessionKeepsWhatClientGot ==
    phase = "done" /\ response.status \in {200, 500} =>
        \/ stored.answer \in {NoAnswer, response.content}
        \/ /\ RedisBacked
           /\ \/ stored.answer = EarlierAnswer
              \/ response.status = 500 /\ stored.answer = state.llm_output
        \/ /\ stored.answer = EarlierAnswer
           /\ response.status = 200
           /\ state.history = EmptyHistory

\* A JSON response that reports success carries an answer the judge saw.
SuccessWasJudged ==
    response.status = 200 /\ response.finish_reason = "stop" =>
        /\ node = "END"
        /\ response.content = Last(state.previous_answers)

-----------------------------------------------------------------------------
(* The endpoint implements the contract of ChatContract.                   *)

PossibleAnswers == Answer \cup {Apology}

\* Where the texts a stream shows are, and which of them comes k-th.
ShownAt(chunks) == {i \in DOMAIN chunks : chunks[i].kind \in {"answer", "error"}}

ShownNth(chunks, k) ==
    CHOOSE p \in ShownAt(chunks) : Cardinality({q \in ShownAt(chunks) : q <= p}) = k

TextsOf(chunks) ==
    [k \in 1..Cardinality(ShownAt(chunks)) |-> chunks[ShownNth(chunks, k)].text]

shownTexts ==
    IF request.stream
      THEN TextsOf(sent)
      ELSE IF response.status \in {200, 500} THEN <<response.content>> ELSE <<>>

exchangeStatus ==
    CASE phase = "done" -> "closed"
      [] phase = "left" -> "abandoned"
      [] OTHER -> "open"

Contract == INSTANCE ChatContract WITH
    Answers <- PossibleAnswers,
    Apology <- Apology,
    status <- exchangeStatus,
    shown <- shownTexts

\* The endpoint does what ChatContract promises, streaming or not: at most
\* one answer, an apology after it at most, nothing after the end, and an end;
\* "the final answer is streamed only once" (stream_graph_execution), though the
\* search node may run again in a retry and finalize_answer always runs.
ImplementsContract == Contract!Spec
=============================================================================
