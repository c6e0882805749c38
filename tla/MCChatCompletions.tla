-------------------------- MODULE MCChatCompletions --------------------------
(* ChatCompletions for TLC, and what the documentation says of it that the *)
(* code does not do.                                                       *)
EXTENDS ChatCompletions

\* "evaluates quality, optionally refines it, and saves the final message.
\* The API returns JSON or SSE chunks" (docs/ARCHITECTURE.md): the answer a
\* stream carries is the final one.
StreamedIsFinal ==
    Positions("stop") # {} =>
        \A i \in Positions("answer") : sent[i].text = state.llm_output
=============================================================================
