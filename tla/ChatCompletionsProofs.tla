------------------------ MODULE ChatCompletionsProofs ------------------------
(***************************************************************************)
(* Proofs about ChatCompletions, for every number of retries, every cap on *)
(* the history and every configuration: the stream is well formed on every *)
(* path, the answers in it are accounted for, a JSON response agrees with  *)
(* the session and was judged, and the endpoint implements ChatContract    *)
(* step by step.                                                           *)
(*                                                                         *)
(* The invariant IInv of the graph carries over, since the endpoint only   *)
(* runs its steps; the fallback of a failed response leaves it, but only   *)
(* when the exchange is over.  StreamInv adds what has been sent while the *)
(* stream runs, and AnswersInv where its answers come from.  The contract  *)
(* also needs WayInv: a request keeps the way its answer travels.          *)
(***************************************************************************)
EXTENDS ChatCompletions, ConversationGraphProofs, FiniteSetTheorems

Chunks == [kind : Kinds, text : Answer \cup {NoAnswer, Apology}]

\* A stream before its answer.
OpenStream(s) ==
    /\ s \in Seq(Chunks) /\ Len(s) > 0
    /\ s[1].kind = "think"
    /\ \A i \in 2..Len(s) : s[i].kind = "status"

\* A stream with its answer: chunk c closes the section, and the one answer
\* follows it.
ClosedAt(s, c) ==
    /\ c \in 2..Len(s) - 1 /\ c + 1 = Len(s)
    /\ s[1].kind = "think" /\ s[c].kind = "/think"
    /\ \A i \in 2..c - 1 : s[i].kind = "status"
    /\ \A i \in c + 1..Len(s) : s[i].kind = "answer"

ClosedStream(s) == s \in Seq(Chunks) /\ \E c \in Nat : ClosedAt(s, c)

\* The section of a stream, and the end of one.
SectionOf(s) ==
    /\ \A i \in 1..Len(s) : s[i].kind = "think" <=> i = 1
    /\ \A i, j \in 1..Len(s) : s[i].kind = "/think" /\ s[j].kind = "/think" => i = j
    /\ \A i \in 1..Len(s) : s[i].kind = "answer" =>
          \E j \in 1..Len(s) : s[j].kind = "/think" /\ j < i
    /\ \A i, j \in 1..Len(s) : s[i].kind = "status" /\ s[j].kind = "/think" => i < j

Running(s) == \A i \in 1..Len(s) : s[i].kind \in {"think", "status", "/think", "answer"}

EndOf(s, ph) ==
    /\ \A i \in 1..Len(s) : s[i].kind = "DONE" => i = Len(s)
    /\ ph = "done" /\ s # <<>> => /\ s[Len(s)].kind = "DONE"
                           /\ Len(s) - 1 \in 1..Len(s)
                           /\ \A i \in 1..Len(s) : s[i].kind \in {"stop", "error"} <=> i = Len(s) - 1
    /\ (\E i \in 1..Len(s) : s[i].kind = "stop") => \E i \in 1..Len(s) : s[i].kind = "/think"

\* What sent may be while the stream runs, and its flags.
StreamInv ==
    /\ phase \in {"received", "opening"} => node = "load_history_memory_and_facts"
    /\ phase \in {"received", "opening", "blocking"} =>
          sent = <<>> /\ ~ is_thinking_open /\ ~ has_final_answer_streamed
    /\ phase = "streaming" =>
          \/ OpenStream(sent) /\ is_thinking_open /\ ~ has_final_answer_streamed
          \/ ClosedStream(sent) /\ ~ is_thinking_open /\ has_final_answer_streamed

\* An answer that was sent is one of an earlier attempt's search, or the answer
\* the graph has now.
Traced(answer, s, n) ==
    \/ answer.by = "google" /\ answer.attempt <= s.iteration_count
    \/ /\ answer = s.llm_output
       /\ \/ n = "END"
          \/ /\ n \in Answering \cup {"raised"}
             /\ answer.by = "google" /\ answer.attempt = s.iteration_count + 1

AnswersInv ==
    phase = "streaming" =>
        /\ node = "END" /\ ~ has_final_answer_streamed => state.llm_output.text = ""
        /\ \A i \in 1..Len(sent) : sent[i].kind = "answer" => Traced(sent[i].text, state, node)

ResponseInv ==
    /\ phase # "done" => response = NoResponse
    /\ response.status # 500 => IInv

\* A stream that ends without an error has carried the answer.
AnswersKept(s, st) ==
    (\E i \in 1..Len(s) : s[i].kind = "stop") =>
        IF \A i \in 1..Len(s) : s[i].kind # "answer"
          THEN st.llm_output.text = ""
          ELSE \A i \in 1..Len(s) : s[i].kind = "answer" =>
                 \/ s[i].text = st.llm_output
                 \/ s[i].text.by = "google" /\ s[i].text.attempt <= st.iteration_count

TypesInv ==
    /\ node \in Nodes \cup Stopped
    /\ state \in ConversationState
    /\ stored.answer \in Answer \cup {NoAnswer, EarlierAnswer, Apology}
    /\ request \in Request
    /\ phase \in {"received", "opening", "streaming", "blocking", "done", "left"}
    /\ sent \in Seq(Chunks)
    /\ is_thinking_open \in BOOLEAN
    /\ has_final_answer_streamed \in BOOLEAN
    /\ response.model \in Models

ChatInv ==
    /\ TypesInv
    /\ ResponseInv
    /\ StreamInv
    /\ AnswersInv
    /\ sent # <<>> => SectionOf(sent)
    /\ EndOf(sent, phase)
    /\ AnswersKept(sent, state)
    /\ SessionKeepsWhatClientGot
    /\ SuccessWasJudged

-----------------------------------------------------------------------------
(* The stream.                                                             *)

\* A chunk has the kind and the text it is made with.
LEMMA ChunkTypes ==
    /\ \A kind \in Kinds : Chunk(kind) \in Chunks /\ Chunk(kind).kind = kind
    /\ \A kind \in Kinds, answer \in Answer \cup {NoAnswer, Apology} :
          /\ TextChunk(kind, answer) \in Chunks
          /\ TextChunk(kind, answer).kind = kind
          /\ TextChunk(kind, answer).text = answer
  BY DEF Chunk, TextChunk, Chunks

\* One more chunk.
LEMMA Longer ==
    ASSUME NEW s \in Seq(Chunks), NEW chunk \in Chunks
    PROVE  /\ Append(s, chunk) \in Seq(Chunks)
           /\ Len(Append(s, chunk)) = Len(s) + 1
           /\ \A i \in 1..Len(s) : Append(s, chunk)[i] = s[i]
           /\ Append(s, chunk)[Len(s) + 1] = chunk
           /\ s \o <<chunk>> = Append(s, chunk)
           /\ Len(s) \in Nat
  OBVIOUS

\* The elements of two sequences of chunks that are joined.
LEMMA JoinedChunks ==
    ASSUME NEW a \in Seq(Chunks), NEW b \in Seq(Chunks)
    PROVE  /\ a \o b \in Seq(Chunks)
           /\ Len(a \o b) = Len(a) + Len(b)
           /\ \A i \in 1..Len(a) + Len(b) :
                (a \o b)[i] = IF i <= Len(a) THEN a[i] ELSE b[i - Len(a)]
           /\ Len(a) \in Nat /\ Len(b) \in Nat
  OBVIOUS

\* Two more chunks.
LEMMA TwoChunks ==
    ASSUME NEW s \in Seq(Chunks), NEW more \in Seq(Chunks), Len(more) = 2
    PROVE  /\ s \o more \in Seq(Chunks)
           /\ Len(s \o more) = Len(s) + 2
           /\ \A i \in 1..Len(s) : (s \o more)[i] = s[i]
           /\ (s \o more)[Len(s) + 1] = more[1]
           /\ (s \o more)[Len(s) + 2] = more[2]
           /\ Len(s) \in Nat
  <1>1. /\ Len(s) \in Nat
        /\ \A i \in 1..Len(s) + 2 : (s \o more)[i] = IF i <= Len(s) THEN s[i] ELSE more[i - Len(s)]
    BY JoinedChunks
  <1>2. (s \o more)[Len(s) + 1] = more[1] /\ (s \o more)[Len(s) + 2] = more[2]
    <2>1. Len(s) + 1 \in 1..Len(s) + 2 /\ Len(s) + 2 \in 1..Len(s) + 2
      BY <1>1
    <2>2. /\ ~ (Len(s) + 1 <= Len(s)) /\ ~ (Len(s) + 2 <= Len(s))
          /\ (Len(s) + 1) - Len(s) = 1 /\ (Len(s) + 2) - Len(s) = 2
      BY <1>1
    <2>3. QED
      BY <1>1, <2>1, <2>2
  <1>3. s \o more \in Seq(Chunks) /\ Len(s \o more) = Len(s) + 2
    <2>1. s \o more \in Seq(Chunks) /\ Len(s \o more) = Len(s) + Len(more)
      BY JoinedChunks
    <2>2. QED
      BY <2>1
  <1>4. \A i \in 1..Len(s) : i \in 1..Len(s) + 2 /\ i <= Len(s)
    BY <1>1
  <1>5. QED
    BY <1>1, <1>2, <1>3, <1>4

\* The chunks that close a section and give the answer, or end a stream.
LEMMA Pairs ==
    ASSUME NEW c \in Chunks, NEW d \in Chunks
    PROVE  /\ <<c>> \o <<d>> \in Seq(Chunks) /\ Len(<<c>> \o <<d>>) = 2
           /\ (<<c>> \o <<d>>)[1] = c /\ (<<c>> \o <<d>>)[2] = d
           /\ <<c, d>> \in Seq(Chunks) /\ Len(<<c, d>>) = 2
           /\ <<c, d>>[1] = c /\ <<c, d>>[2] = d
  <1>1. <<c>> \in Seq(Chunks) /\ Len(<<c>>) = 1 /\ <<c>>[1] = c
    OBVIOUS
  <1>2. <<d>> \in Seq(Chunks) /\ Len(<<d>>) = 1 /\ <<d>>[1] = d
    OBVIOUS
  <1> DEFINE a == <<c>>
             b == <<d>>
  <1> HIDE DEF a, b
  <1>3. /\ a \in Seq(Chunks) /\ Len(a) = 1 /\ a[1] = c
        /\ b \in Seq(Chunks) /\ Len(b) = 1 /\ b[1] = d
    BY <1>1, <1>2 DEF a, b
  <1>4. /\ a \o b \in Seq(Chunks) /\ Len(a \o b) = 2
        /\ \A i \in 1..2 : (a \o b)[i] = IF i <= 1 THEN a[i] ELSE b[i - 1]
    BY <1>3, JoinedChunks
  <1>5. (a \o b)[1] = c /\ (a \o b)[2] = d
    BY <1>3, <1>4
  <1>6. QED
    BY <1>4, <1>5 DEF a, b

\* A progress line keeps a stream open.
LEMMA StatusStaysOpen ==
    ASSUME NEW s, OpenStream(s)
    PROVE  OpenStream(Append(s, Chunk("status")))
  <1> DEFINE all == Append(s, Chunk("status"))
  <1>1. s \in Seq(Chunks) /\ Len(s) > 0 /\ s[1].kind = "think"
        /\ \A i \in 2..Len(s) : s[i].kind = "status"
    BY DEF OpenStream
  <1>2. Chunk("status") \in Chunks /\ Chunk("status").kind = "status"
    BY ChunkTypes DEF Kinds
  <1>3. /\ all \in Seq(Chunks) /\ Len(all) = Len(s) + 1 /\ Len(s) \in Nat
        /\ \A i \in 1..Len(s) : all[i] = s[i]
        /\ all[Len(s) + 1] = Chunk("status")
    BY <1>1, <1>2, Longer
  <1> HIDE DEF all
  <1>4. \A i \in 2..Len(all) : all[i].kind = "status"
    BY <1>1, <1>2, <1>3
  <1>5. QED
    BY <1>1, <1>3, <1>4 DEF OpenStream, all

\* Every answer of a stream is this one.
Carries(s, answer) ==
    \A i \in 1..Len(s) : s[i].kind = "answer" => s[i].text = answer

\* The answer closes it, and is the only one.
LEMMA AnswerCloses ==
    ASSUME NEW s, OpenStream(s), NEW answer \in Answer \cup {NoAnswer, Apology}, NEW all,
           all = s \o (<<Chunk("/think")>> \o <<TextChunk("answer", answer)>>)
    PROVE  ClosedStream(all) /\ Carries(all, answer)
  <1> DEFINE c == Len(s) + 1
  <1>1. s \in Seq(Chunks) /\ Len(s) > 0 /\ s[1].kind = "think"
        /\ \A i \in 2..Len(s) : s[i].kind = "status"
    BY DEF OpenStream
  <1>2. /\ Chunk("/think") \in Chunks /\ Chunk("/think").kind = "/think"
        /\ TextChunk("answer", answer) \in Chunks
        /\ TextChunk("answer", answer).kind = "answer"
        /\ TextChunk("answer", answer).text = answer
    BY ChunkTypes DEF Kinds
  <1>3. /\ all \in Seq(Chunks) /\ Len(all) = Len(s) + 2 /\ Len(s) \in Nat
        /\ \A i \in 1..Len(s) : all[i] = s[i]
        /\ all[c] = Chunk("/think")
        /\ all[Len(s) + 2] = TextChunk("answer", answer)
    <2> DEFINE more == <<Chunk("/think")>> \o <<TextChunk("answer", answer)>>
    <2>1. /\ more \in Seq(Chunks) /\ Len(more) = 2 /\ more[1] = Chunk("/think")
          /\ more[2] = TextChunk("answer", answer)
      BY <1>2, Pairs
    <2> HIDE DEF more
    <2>2. /\ s \o more \in Seq(Chunks) /\ Len(s \o more) = Len(s) + 2 /\ Len(s) \in Nat
          /\ \A i \in 1..Len(s) : (s \o more)[i] = s[i]
          /\ (s \o more)[Len(s) + 1] = more[1] /\ (s \o more)[Len(s) + 2] = more[2]
      BY <1>1, <2>1, TwoChunks
    <2>3. QED
      BY <2>1, <2>2 DEF more
  <1>4. c \in 2..Len(all) - 1
    BY <1>1, <1>3
  <1>5. all[1].kind = "think" /\ all[c].kind = "/think"
    BY <1>1, <1>2, <1>3
  <1>6. \A i \in 2..c - 1 : all[i].kind = "status"
    BY <1>1, <1>3
  <1>7. \A i \in c + 1..Len(all) : i = Len(s) + 2
    BY <1>3
  <1>8. \A i \in c + 1..Len(all) : all[i].kind = "answer"
    BY <1>2, <1>3, <1>7
  <1>9. \A i \in 1..Len(all) : all[i].kind = "answer" => all[i].text = answer
    <2> SUFFICES ASSUME NEW i \in 1..Len(all), all[i].kind = "answer"
                 PROVE  all[i].text = answer
      OBVIOUS
    <2>1. i = 1 \/ i \in 2..c - 1 \/ i = c \/ i \in c + 1..Len(all)
      BY <1>3
    <2>2. i \in c + 1..Len(all)
      BY <1>5, <1>6, <2>1
    <2>3. QED
      BY <1>2, <1>3, <1>7, <2>2
  <1>10. ClosedAt(all, c) /\ c \in Nat
    <2>1. c + 1 = Len(all) /\ c \in Nat
      BY <1>3
    <2> HIDE DEF c
    <2> QED
      BY <1>4, <1>5, <1>6, <1>8, <2>1 DEF ClosedAt
  <1>11. ClosedStream(all)
    BY <1>3, <1>10 DEF ClosedStream
  <1>12. QED
    BY <1>9, <1>11 DEF Carries

\* A stream that runs has the section and no end.
LEMMA OpenSection ==
    ASSUME NEW s, OpenStream(s)
    PROVE  /\ SectionOf(s) /\ Running(s) /\ s \in Seq(Chunks)
           /\ \A i \in 1..Len(s) : s[i].kind \in {"think", "status"}
  <1>1. s \in Seq(Chunks) /\ Len(s) > 0 /\ Len(s) \in Nat /\ s[1].kind = "think"
        /\ \A i \in 2..Len(s) : s[i].kind = "status"
    BY DEF OpenStream
  <1>2. \A i \in 1..Len(s) : IF i = 1 THEN s[i].kind = "think" ELSE s[i].kind = "status"
    BY <1>1
  <1>3. QED
    BY <1>1, <1>2 DEF SectionOf, Running

\* With its answer, a stream has its section, closed.
LEMMA ClosedSection ==
    ASSUME NEW s, ClosedStream(s)
    PROVE  /\ SectionOf(s) /\ Running(s) /\ s \in Seq(Chunks)
           /\ \E i \in 1..Len(s) : s[i].kind = "/think"
           /\ \E i \in 1..Len(s) : s[i].kind = "answer"
  <1>1. PICK c \in Nat : ClosedAt(s, c)
    BY DEF ClosedStream
  <1>2. s \in Seq(Chunks) /\ Len(s) \in Nat /\ c \in 2..Len(s) - 1
    BY <1>1 DEF ClosedStream, ClosedAt
  <1>3. \A i \in 1..Len(s) : s[i].kind = IF i = 1 THEN "think" ELSE
                                         IF i < c THEN "status" ELSE
                                         IF i = c THEN "/think" ELSE "answer"
    BY <1>1, <1>2 DEF ClosedAt
  <1>4. /\ c \in 1..Len(s) /\ Len(s) \in 1..Len(s) /\ Len(s) > c
    BY <1>2
  <1>5. QED
    BY <1>2, <1>3, <1>4 DEF SectionOf, Running

\* The section may be closed without an answer, when none was made.
LEMMA ClosedEmpty ==
    ASSUME NEW s, OpenStream(s), NEW all, all = Append(s, Chunk("/think"))
    PROVE  /\ SectionOf(all) /\ Running(all) /\ all \in Seq(Chunks) /\ Len(all) > 0
           /\ \E i \in 1..Len(all) : all[i].kind = "/think"
           /\ \A i \in 1..Len(all) : all[i].kind # "answer"
  <1>1. s \in Seq(Chunks) /\ Len(s) > 0 /\ s[1].kind = "think"
        /\ \A i \in 2..Len(s) : s[i].kind = "status"
    BY DEF OpenStream
  <1>2. Chunk("/think") \in Chunks /\ Chunk("/think").kind = "/think"
    BY ChunkTypes DEF Kinds
  <1>3. /\ all \in Seq(Chunks) /\ Len(all) = Len(s) + 1 /\ Len(s) \in Nat
        /\ \A i \in 1..Len(s) : all[i] = s[i]
        /\ all[Len(s) + 1] = Chunk("/think")
    BY <1>1, <1>2, Longer
  <1>4. \A i \in 1..Len(all) : all[i].kind = IF i = 1 THEN "think" ELSE
                                             IF i <= Len(s) THEN "status" ELSE "/think"
    BY <1>1, <1>2, <1>3
  <1>5. Len(all) \in 1..Len(all) /\ Len(all) > 1
    BY <1>1, <1>3
  <1>6. SectionOf(all)
    BY <1>1, <1>3, <1>4, <1>5 DEF SectionOf
  <1>7. Running(all)
    BY <1>4 DEF Running
  <1>8. QED
    BY <1>3, <1>4, <1>5, <1>6, <1>7, <1>1

HasClosed(s) == \E i \in 1..Len(s) : s[i].kind = "/think"

HasStop(s) == \E i \in 1..Len(s) : s[i].kind = "stop"

SameAnswers(s, all) ==
    /\ \A i \in 1..Len(s) : i \in 1..Len(all) /\ all[i] = s[i]
    /\ \A i \in 1..Len(all) : all[i].kind = "answer" => i \in 1..Len(s) /\ all[i] = s[i]

\* The two chunks that end a stream leave its section and its answers alone.
LEMMA Ended ==
    ASSUME NEW s \in Seq(Chunks), Len(s) > 0, SectionOf(s), Running(s),
           NEW c \in Chunks, NEW d \in Chunks,
           c.kind \in {"stop", "error"}, d.kind = "DONE",
           c.kind = "stop" => HasClosed(s),
           NEW all, all = s \o <<c, d>>
    PROVE  /\ all \in Seq(Chunks) /\ all # <<>>
           /\ SectionOf(all) /\ EndOf(all, "done")
           /\ SameAnswers(s, all) /\ (HasStop(all) => c.kind = "stop")
  <1> DEFINE more == <<c, d>>
  <1>1. more \in Seq(Chunks) /\ Len(more) = 2 /\ more[1] = c /\ more[2] = d /\ all = s \o more
    BY Pairs
  <1> HIDE DEF more
  <1>2. /\ all \in Seq(Chunks) /\ Len(all) = Len(s) + 2 /\ Len(s) \in Nat
        /\ \A i \in 1..Len(s) : all[i] = s[i]
        /\ all[Len(s) + 1] = c /\ all[Len(s) + 2] = d
    BY <1>1, TwoChunks
  <1>3. \A i \in 1..Len(all) : i \in 1..Len(s) \/ i = Len(s) + 1 \/ i = Len(s) + 2
    BY <1>2
  <1>4. \A i \in 1..Len(s) : /\ i \in 1..Len(all) /\ all[i] = s[i] /\ i < Len(s) + 1
                             /\ all[i].kind \in {"think", "status", "/think", "answer"}
    BY <1>2 DEF Running
  <1>5. /\ Len(s) + 1 \in 1..Len(all) /\ Len(s) + 2 \in 1..Len(all)
        /\ Len(all) - 1 = Len(s) + 1 /\ all # <<>>
    BY <1>2
  <1>6. \A i \in 1..Len(all) : all[i].kind \in {"think", "status", "/think", "answer"}
                                 => i \in 1..Len(s) /\ all[i] = s[i]
    BY <1>2, <1>3, <1>4
  <1>7. SectionOf(all)
    <2>1. \A i \in 1..Len(all) : all[i].kind = "think" <=> i = 1
      <3>1. 1 \in 1..Len(s)
        BY <1>2
      <3>2. QED
        BY <1>4, <1>6, <3>1 DEF SectionOf
    <2>2. \A i, j \in 1..Len(all) : all[i].kind = "/think" /\ all[j].kind = "/think" => i = j
      BY <1>6 DEF SectionOf
    <2>3. \A i \in 1..Len(all) : all[i].kind = "answer" =>
              \E j \in 1..Len(all) : all[j].kind = "/think" /\ j < i
      <3> SUFFICES ASSUME NEW i \in 1..Len(all), all[i].kind = "answer"
                   PROVE  \E j \in 1..Len(all) : all[j].kind = "/think" /\ j < i
        OBVIOUS
      <3>1. i \in 1..Len(s) /\ s[i].kind = "answer"
        BY <1>6
      <3>2. PICK j \in 1..Len(s) : s[j].kind = "/think" /\ j < i
        BY <3>1 DEF SectionOf
      <3>3. QED
        BY <1>4, <3>2
    <2>4. \A i, j \in 1..Len(all) : all[i].kind = "status" /\ all[j].kind = "/think" => i < j
      BY <1>6 DEF SectionOf
    <2>5. QED
      BY <2>1, <2>2, <2>3, <2>4 DEF SectionOf
  <1>8. EndOf(all, "done")
    <2>1. \A i \in 1..Len(all) : all[i].kind = "DONE" => i = Len(all)
      BY <1>2, <1>3, <1>4
    <2>2. /\ all[Len(all)].kind = "DONE" /\ Len(all) - 1 \in 1..Len(all)
          /\ \A i \in 1..Len(all) : all[i].kind \in {"stop", "error"} <=> i = Len(all) - 1
      BY <1>2, <1>3, <1>4, <1>5
    <2>3. (\E i \in 1..Len(all) : all[i].kind = "stop") => \E i \in 1..Len(all) : all[i].kind = "/think"
      <3>1. (\E i \in 1..Len(all) : all[i].kind = "stop") => c.kind = "stop"
        BY <1>2, <1>3, <1>4
      <3>2. QED
        BY <1>4, <3>1 DEF HasClosed
    <2>4. QED
      BY <2>1, <2>2, <2>3 DEF EndOf
  <1>9. HasStop(all) => c.kind = "stop"
    BY <1>2, <1>3, <1>4 DEF HasStop
  <1>10. SameAnswers(s, all)
    BY <1>4, <1>6 DEF SameAnswers
  <1>11. QED
    BY <1>2, <1>5, <1>7, <1>8, <1>9, <1>10

\* A stream that runs has not ended.
LEMMA NotEnded ==
    ASSUME NEW s, Running(s), NEW ph, ph # "done"
    PROVE  /\ EndOf(s, ph)
           /\ \A i \in 1..Len(s) : s[i].kind # "stop"
  <1>1. \A i \in 1..Len(s) : s[i].kind # "stop" /\ s[i].kind # "DONE"
    BY DEF Running
  <1>2. QED
    BY <1>1 DEF EndOf

-----------------------------------------------------------------------------
(* The graph under the endpoint.                                           *)

\* What the endpoint relies on of a step of the graph: the invariant, where
\* the end and the search lead, and that sent answers stay accounted for.
LEMMA GraphStep ==
    ASSUME IInv, Step
    PROVE  /\ IInv'
           /\ node \in Nodes
           /\ node' = "END" => node = "finalize_answer"
           /\ node = "finalize_answer" => node' = "END"
           /\ node = "perform_google_search" =>
                /\ node' = "evaluate_response_quality"
                /\ state'.llm_output.by = "google"
                /\ state'.llm_output.attempt = state'.iteration_count + 1
           /\ \A answer \in Answer \cup {NoAnswer, Apology} :
                Traced(answer, state, node) => Traced(answer, state', node')
  <1>1. IInv'
    BY InvariantPreserved DEF Next
  <1>2. state \in ConversationState /\ state' \in ConversationState /\ node' \in Nodes \cup Stopped
    BY <1>1 DEF IInv, TypeOK
  <1>3. state.iteration_count \in Nat /\ state'.iteration_count \in Nat
    BY <1>2 DEF ConversationState
  <1>4. /\ node = "load_history_memory_and_facts" => state.iteration_count = 0
        /\ node' \in Answering => state'.llm_output.attempt = attempt'
    BY <1>1 DEF IInv, RetryInv, AnswerInv
  <1> DEFINE Effect ==
        /\ node \in Nodes
        /\ node' = "END" => node = "finalize_answer"
        /\ node = "finalize_answer" => node' = "END"
        /\ node = "perform_google_search" =>
             /\ node' = "evaluate_response_quality"
             /\ state'.llm_output.by = "google"
             /\ state'.llm_output.attempt = state'.iteration_count + 1
        /\ node \notin {"evaluate_response_quality", "prepare_retry_iteration",
                        "finalize_answer"} =>
             state'.iteration_count >= state.iteration_count
        /\ node \in {"evaluate_response_quality", "prepare_retry_iteration",
                     "finalize_answer"} =>
             /\ state'.llm_output = state.llm_output
             /\ \/ /\ node' \in Answering \cup {"raised"}
                   /\ state'.iteration_count = state.iteration_count
                \/ state'.iteration_count = state.iteration_count + 1
  <1>5. Effect
    <2>1. CASE load_history_memory_and_facts
      BY <1>2, <1>3, <1>4, <2>1, LoadEffect DEF Nodes
    <2>2. CASE route_and_refine_query
      <3>1. should_perform_rag(state'.route) \in
              {"perform_rag_retrieval", "perform_google_search", "build_final_input", "raised"}
        BY RouteLeads
      <3>2. QED
        BY <1>2, <1>3, <2>2, <3>1, RouteEffect DEF Nodes
    <2>3. CASE perform_rag_retrieval
      BY <1>2, <1>3, <2>3, RetrievalEffect DEF Nodes
    <2>4. CASE check_rag_confidence
      BY <1>2, <1>3, <2>4, ConfidenceEffect DEF Nodes
    <2>5. CASE perform_google_search
      BY <1>2, <1>3, <1>4, <2>5, SearchEffect DEF Nodes, attempt
    <2>6. CASE build_final_input
      BY <1>2, <1>3, <2>6, BuildEffect DEF Nodes
    <2>7. CASE generate_llm_response
      BY <1>2, <1>3, <2>7, GenerateEffect DEF Nodes
    <2>8. CASE evaluate_response_quality
      <3>1. should_retry_or_finish(state') \in
              {"prepare_retry_iteration", "finalize_answer", "raised"}
        BY JudgementLeads
      <3>2. QED
        BY <1>2, <1>3, <2>8, <3>1, EvaluateEffect DEF Nodes, Answering
    <2>9. CASE prepare_retry_iteration
      BY <1>2, <1>3, <2>9, PrepareEffect DEF Nodes
    <2>10. CASE finalize_answer
      BY <1>2, <1>3, <2>10, FinalizeEffect DEF Nodes, Answering
    <2> QED
      BY <2>1, <2>2, <2>3, <2>4, <2>5, <2>6, <2>7, <2>8, <2>9, <2>10 DEF Step
  <1>6. ASSUME NEW answer \in Answer \cup {NoAnswer, Apology}, Traced(answer, state, node)
        PROVE  Traced(answer, state', node')
    <2>0. answer.attempt \in Nat
      <3>1. Apology.attempt = 0 /\ NoAnswer.attempt = 0
        BY DEF Apology, NoAnswer
      <3>2. \A a \in Answer : a.attempt \in Nat
        BY DEF Answer
      <3> QED
        BY <3>1, <3>2
    <2>1. CASE answer.by = "google" /\ answer.attempt <= state.iteration_count
      <3>1. state'.iteration_count >= state.iteration_count
        BY <1>3, <1>5
      <3>2. answer.by = "google" /\ answer.attempt <= state'.iteration_count
        BY <1>3, <2>0, <2>1, <3>1
      <3> QED
        BY <3>2 DEF Traced
    <2>2. CASE /\ answer = state.llm_output
               /\ node \in Answering \cup {"raised"}
               /\ answer.by = "google" /\ answer.attempt = state.iteration_count + 1
      <3>1. node \in {"evaluate_response_quality", "prepare_retry_iteration", "finalize_answer"}
        BY <1>5, <2>2 DEF Nodes, Answering
      <3> QED
        BY <1>3, <1>5, <2>2, <3>1 DEF Traced, Answering
    <2> QED
      BY <1>5, <1>6, <2>1, <2>2 DEF Traced, Nodes
  <1> QED
    BY <1>1, <1>5, <1>6

\* Before anything is sent there is nothing to check.
LEMMA EmptyStream ==
    /\ \A ph : EndOf(<<>>, ph)
    /\ \A st : AnswersKept(<<>>, st)
  BY DEF EndOf, AnswersKept

-----------------------------------------------------------------------------
(* The endpoint's steps, one by one.                                       *)

\* A request starts with nothing sent and no response.
LEMMA ChatInvariantInitially == ChatInit => ChatInv
  <1> SUFFICES ASSUME ChatInit
               PROVE  ChatInv
    OBVIOUS
  <1>1. /\ IInv /\ node = "load_history_memory_and_facts"
        /\ stored.answer \in {NoAnswer, EarlierAnswer}
    BY InvariantHoldsInitially DEF ChatInit, Init, EmptyHistory
  <1>2. state \in ConversationState
    BY <1>1 DEF IInv, TypeOK
  <1>3. /\ sent = <<>> /\ phase = "received" /\ response = NoResponse
        /\ is_thinking_open = FALSE /\ has_final_answer_streamed = FALSE
        /\ request \in Request
    BY DEF ChatInit
  <1>4. response.model = ""
    BY <1>3 DEF NoResponse, Response
  <1>9. response.status = 0
    BY <1>3 DEF NoResponse, Response
  <1>5. TypesInv
    <2>1. is_thinking_open \in BOOLEAN /\ has_final_answer_streamed \in BOOLEAN
      BY <1>3
    <2>2. sent \in Seq(Chunks)
      BY <1>3
    <2> QED
      BY <1>1, <1>2, <1>3, <1>4, <2>1, <2>2 DEF TypesInv, Nodes, Models
  <1>6. EndOf(sent, phase) /\ AnswersKept(sent, state)
    BY <1>3, EmptyStream
  <1>7. ResponseInv /\ StreamInv /\ AnswersInv
    BY <1>1, <1>3 DEF ResponseInv, StreamInv, AnswersInv
  <1>8. SessionKeepsWhatClientGot /\ SuccessWasJudged
    BY <1>3, <1>9 DEF SessionKeepsWhatClientGot, SuccessWasJudged
  <1> QED
    BY <1>3, <1>5, <1>6, <1>7, <1>8 DEF ChatInv

\* A step that leaves the graph alone keeps its invariant.
LEMMA GraphRests ==
    ASSUME UNCHANGED graphVars, ResponseInv
    PROVE  response.status # 500 => IInv'
  <1>1. IInv => IInv'
    BY InvariantPreserved DEF graphVars
  <1> QED
    BY <1>1 DEF ResponseInv

\* A refused request is over, an accepted one has sent nothing yet.
LEMMA RequestChecked ==
    ASSUME ChatInv, chat_completions
    PROVE  ChatInv'
  <1>1. /\ phase = "received" /\ response = NoResponse /\ sent = <<>>
        /\ ~ is_thinking_open /\ ~ has_final_answer_streamed
    BY DEF chat_completions, ChatInv, ResponseInv, StreamInv
  <1>2. /\ node' = node /\ state' = state /\ stored' = stored /\ request' = request
        /\ sent' = sent /\ is_thinking_open' = is_thinking_open
        /\ has_final_answer_streamed' = has_final_answer_streamed
    BY DEF chat_completions, graphVars, vars, streamVars
  <1>3. response.status = 0
    BY <1>1 DEF NoResponse, Response
  <1>4. IInv'
    <2>1. UNCHANGED graphVars
      BY DEF chat_completions
    <2>2. response.status # 500 /\ ResponseInv
      BY <1>3 DEF ChatInv
    <2> QED
      BY <2>1, <2>2, GraphRests
  <1>5. \/ phase' = "done" /\ response' = Response(422, "", NoAnswer, "")
        \/ phase' \in {"opening", "blocking"} /\ response' = response
    BY DEF chat_completions
  <1>6. TypesInv'
    <2>1. Response(422, "", NoAnswer, "").model = ""
      BY DEF Response
    <2>2. response'.model \in Models
      BY <1>5, <2>1 DEF ChatInv, TypesInv, Models
    <2>3. phase' \in {"opening", "blocking", "done"}
      BY <1>5
    <2> QED
      BY <1>1, <1>2, <2>2, <2>3 DEF ChatInv, TypesInv
  <1>7. EndOf(sent', phase') /\ AnswersKept(sent', state')
    BY <1>1, <1>2, EmptyStream
  <1>8. ResponseInv'
    BY <1>1, <1>4, <1>5 DEF ResponseInv
  <1>9. StreamInv'
    <2>1. node = "load_history_memory_and_facts"
      BY <1>1 DEF ChatInv, StreamInv
    <2> QED
      BY <1>1, <1>2, <1>5, <2>1 DEF StreamInv
  <1>10. AnswersInv'
    BY <1>5 DEF AnswersInv
  <1>11. SessionKeepsWhatClientGot' /\ SuccessWasJudged'
    <2>1. Response(422, "", NoAnswer, "").status = 422
      BY DEF Response
    <2>2. response'.status = 422 \/ response'.status = 0
      BY <1>3, <1>5, <2>1
    <2> QED
      BY <2>2 DEF SessionKeepsWhatClientGot, SuccessWasJudged
  <1> QED
    BY <1>1, <1>2, <1>6, <1>7, <1>8, <1>9, <1>10, <1>11 DEF ChatInv

\* The first chunk opens the section.
LEMMA ThinkOpens ==
    ASSUME ChatInv, OpenThink
    PROVE  ChatInv'
  <1>1. phase = "opening" /\ response = NoResponse /\ sent = <<>> /\ ~ has_final_answer_streamed
    BY DEF OpenThink, ChatInv, ResponseInv, StreamInv
  <1>2. /\ node' = node /\ state' = state /\ stored' = stored /\ request' = request
        /\ has_final_answer_streamed' = has_final_answer_streamed /\ response' = response
        /\ phase' = "streaming" /\ is_thinking_open' = TRUE
        /\ sent' = Append(sent, Chunk("think"))
    BY DEF OpenThink, graphVars, vars
  <1>3. response.status = 0
    BY <1>1 DEF NoResponse, Response
  <1>4. IInv'
    <2>1. UNCHANGED graphVars
      BY DEF OpenThink
    <2>2. response.status # 500 /\ ResponseInv
      BY <1>3 DEF ChatInv
    <2> QED
      BY <2>1, <2>2, GraphRests
  <1>5. OpenStream(sent')
    <2>1. Chunk("think") \in Chunks /\ Chunk("think").kind = "think"
      BY ChunkTypes DEF Kinds
    <2>2. sent' = <<Chunk("think")>>
      BY <1>1, <1>2
    <2>3. sent' \in Seq(Chunks) /\ Len(sent') = 1 /\ sent'[1].kind = "think"
      BY <2>1, <2>2
    <2> QED
      BY <2>3 DEF OpenStream
  <1>6. SectionOf(sent') /\ Running(sent') /\ sent' \in Seq(Chunks)
        /\ \A i \in 1..Len(sent') : sent'[i].kind \in {"think", "status"}
    BY <1>5, OpenSection
  <1>7. EndOf(sent', phase') /\ AnswersKept(sent', state')
    BY <1>2, <1>6, NotEnded DEF AnswersKept
  <1>8. TypesInv'
    BY <1>2, <1>6 DEF ChatInv, TypesInv
  <1>9. ResponseInv' /\ StreamInv'
    BY <1>1, <1>2, <1>4, <1>5 DEF ResponseInv, StreamInv
  <1>10. AnswersInv'
    BY <1>1, <1>2, <1>6 DEF ChatInv, StreamInv, AnswersInv
  <1>11. SessionKeepsWhatClientGot' /\ SuccessWasJudged'
    BY <1>2, <1>3 DEF SessionKeepsWhatClientGot, SuccessWasJudged
  <1> QED
    BY <1>2, <1>6, <1>7, <1>8, <1>9, <1>10, <1>11 DEF ChatInv

\* What is left to show of a step after which the stream goes on.
LEMMA StreamGoesOn ==
    ASSUME ChatInv, phase = "streaming", phase' = phase, request' = request,
           response' = response, response.status = 0,
           IInv', SectionOf(sent'), Running(sent'), sent' \in Seq(Chunks),
           node' \in Nodes \cup Stopped, state' \in ConversationState,
           stored'.answer \in Answer \cup {NoAnswer, EarlierAnswer},
           is_thinking_open' \in BOOLEAN, has_final_answer_streamed' \in BOOLEAN,
           AnswersInv', StreamInv'
    PROVE  ChatInv'
  <1>1. TypesInv'
    BY DEF ChatInv, TypesInv
  <1>2. EndOf(sent', phase') /\ AnswersKept(sent', state')
    BY NotEnded DEF AnswersKept
  <1>3. ResponseInv'
    BY DEF ChatInv, ResponseInv
  <1>4. SessionKeepsWhatClientGot' /\ SuccessWasJudged'
    BY DEF SessionKeepsWhatClientGot, SuccessWasJudged
  <1> QED
    BY <1>1, <1>2, <1>3, <1>4 DEF ChatInv

\* Without an answer in the stream the graph's node sends its progress line,
\* and the answer if it is final.
LEMMA NodeStreamed ==
    ASSUME ChatInv, StreamNode
    PROVE  ChatInv'
  <1>1. phase = "streaming" /\ response = NoResponse /\ Step /\ node' # "raised"
    BY DEF StreamNode, ChatInv, ResponseInv
  <1>2. response.status = 0
    BY <1>1 DEF NoResponse, Response
  <1>3. IInv
    BY <1>2 DEF ChatInv, ResponseInv
  <1>4. /\ IInv' /\ node \in Nodes
        /\ node' = "END" => node = "finalize_answer"
        /\ node = "finalize_answer" => node' = "END"
        /\ node = "perform_google_search" =>
             /\ node' = "evaluate_response_quality"
             /\ state'.llm_output.by = "google"
             /\ state'.llm_output.attempt = state'.iteration_count + 1
        /\ \A answer \in Answer \cup {NoAnswer, Apology} :
             Traced(answer, state, node) => Traced(answer, state', node')
    BY <1>1, <1>3, GraphStep
  <1>5. request' = request /\ phase' = phase /\ response' = response
    BY DEF StreamNode
  <1>6. /\ node' \in Nodes \cup Stopped /\ state' \in ConversationState
        /\ stored'.answer \in Answer \cup {NoAnswer, EarlierAnswer}
    BY <1>4 DEF IInv, TypeOK, History
  <1>7. state'.llm_output \in Answer \cup {NoAnswer, Apology}
    BY <1>6 DEF ConversationState
  <1>8. CASE OpenStream(sent) /\ is_thinking_open /\ ~ has_final_answer_streamed
    <2> DEFINE mid == sent \o StatusChunks(node)
    <2>1. sent \in Seq(Chunks)
      BY <1>8 DEF OpenStream
    <2>2. StatusChunks(node) \in {<<>>, <<Chunk("status")>>}
      BY DEF StatusChunks
    <2>3. OpenStream(mid)
      <3>1. CASE StatusChunks(node) = <<>>
        <4>1. sent \o <<>> = sent
          BY <2>1
        <4> QED
          BY <1>8, <3>1, <4>1
      <3>2. CASE StatusChunks(node) = <<Chunk("status")>>
        <4>1. Chunk("status") \in Chunks
          BY ChunkTypes DEF Kinds
        <4>2. sent \o <<Chunk("status")>> = Append(sent, Chunk("status"))
          BY <2>1, <4>1, Longer
        <4>3. OpenStream(Append(sent, Chunk("status")))
          BY <1>8, StatusStaysOpen
        <4> QED
          BY <3>2, <4>2, <4>3
      <3> QED
        BY <2>2, <3>1, <3>2
    <2> HIDE DEF mid
    <2> DEFINE Goes == /\ SectionOf(sent') /\ Running(sent') /\ sent' \in Seq(Chunks)
                       /\ AnswersInv' /\ StreamInv'
                       /\ is_thinking_open' \in BOOLEAN /\ has_final_answer_streamed' \in BOOLEAN
    <2>4. ASSUME IsFinalOutput(node, state')
          PROVE  Goes
      <3>1. sent' = mid \o AnswerChunks(state'.llm_output)
            /\ is_thinking_open' = FALSE /\ has_final_answer_streamed' = TRUE
        BY <2>4 DEF StreamNode, mid
      <3>2. AnswerChunks(state'.llm_output) =
              <<Chunk("/think")>> \o <<TextChunk("answer", state'.llm_output)>>
        BY <1>8 DEF AnswerChunks
      <3>3. ClosedStream(sent') /\ Carries(sent', state'.llm_output)
        <4>1. sent' = mid \o (<<Chunk("/think")>> \o <<TextChunk("answer", state'.llm_output)>>)
          BY <3>1, <3>2
        <4> QED
          BY <1>7, <2>3, <4>1, AnswerCloses
      <3>4. node \in {"finalize_answer", "perform_google_search"}
        BY <2>4 DEF IsFinalOutput
      <3>5. Traced(state'.llm_output, state', node')
        BY <1>4, <3>4 DEF Traced, Answering
      <3>6. AnswersInv'
        BY <3>1, <3>3, <3>5 DEF AnswersInv, Carries
      <3>7. StreamInv'
        BY <1>1, <1>5, <3>1, <3>3 DEF StreamInv
      <3>8. SectionOf(sent') /\ Running(sent') /\ sent' \in Seq(Chunks)
        BY <3>3, ClosedSection
      <3> QED
        BY <3>1, <3>6, <3>7, <3>8
    <2>5. ASSUME ~ IsFinalOutput(node, state')
          PROVE  Goes
      <3>1. sent' = mid /\ is_thinking_open' = is_thinking_open
            /\ has_final_answer_streamed' = has_final_answer_streamed
        BY <2>5 DEF StreamNode, mid
      <3>2. SectionOf(sent') /\ Running(sent') /\ sent' \in Seq(Chunks)
            /\ \A i \in 1..Len(sent') : sent'[i].kind \in {"think", "status"}
        BY <2>3, <3>1, OpenSection
      <3>3. node' = "END" => state'.llm_output.text = ""
        BY <1>4, <1>8, <2>5 DEF IsFinalOutput
      <3>4. AnswersInv'
        BY <3>2, <3>3 DEF AnswersInv
      <3>5. StreamInv'
        BY <1>1, <1>5, <1>8, <2>3, <3>1 DEF StreamInv
      <3>6. is_thinking_open' \in BOOLEAN /\ has_final_answer_streamed' \in BOOLEAN
        BY <3>1 DEF ChatInv, TypesInv
      <3> QED
        BY <3>2, <3>4, <3>5, <3>6
    <2>6. Goes
      BY <2>4, <2>5
    <2> QED
      BY <1>1, <1>2, <1>4, <1>5, <1>6, <2>6, StreamGoesOn
  <1>9. CASE ClosedStream(sent) /\ ~ is_thinking_open /\ has_final_answer_streamed
    <2>1. SectionOf(sent) /\ Running(sent) /\ sent \in Seq(Chunks)
      BY <1>9, ClosedSection
    <2>2. sent' = sent
      <3>1. StatusChunks(node) = <<>>
        BY <1>9 DEF StatusChunks
      <3>2. ~ IsFinalOutput(node, state')
        BY <1>9 DEF IsFinalOutput
      <3>3. sent' = sent \o <<>>
        BY <3>1, <3>2 DEF StreamNode
      <3>4. sent \o <<>> = sent
        BY <2>1
      <3> QED
        BY <3>3, <3>4
    <2>3. is_thinking_open' = is_thinking_open /\ has_final_answer_streamed' = has_final_answer_streamed
      BY <1>9 DEF StreamNode, IsFinalOutput
    <2>4. StreamInv'
      BY <1>1, <1>5, <1>9, <2>2, <2>3 DEF StreamInv
    <2>5. AnswersInv'
      <3>1. \A i \in 1..Len(sent) : sent[i].kind = "answer" =>
                /\ Traced(sent[i].text, state, node)
                /\ sent[i].text \in Answer \cup {NoAnswer, Apology}
        <4>1. \A i \in 1..Len(sent) : sent[i] \in Chunks
          BY <2>1
        <4>2. \A i \in 1..Len(sent) : sent[i].text \in Answer \cup {NoAnswer, Apology}
          BY <4>1 DEF Chunks
        <4> QED
          BY <1>1, <4>2 DEF ChatInv, AnswersInv
      <3>2. \A i \in 1..Len(sent) : sent[i].kind = "answer" => Traced(sent[i].text, state', node')
        BY <1>4, <3>1
      <3> QED
        BY <1>9, <2>2, <2>3, <3>2 DEF AnswersInv
    <2>6. is_thinking_open' \in BOOLEAN /\ has_final_answer_streamed' \in BOOLEAN
      BY <2>3 DEF ChatInv, TypesInv
    <2> QED
      BY <1>1, <1>2, <1>4, <1>5, <1>6, <2>1, <2>2, <2>4, <2>5, <2>6, StreamGoesOn
  <1> QED
    BY <1>1, <1>8, <1>9 DEF ChatInv, StreamInv

\* What is left to show of a step that ends the stream.
LEMMA StreamEnds ==
    ASSUME ChatInv, phase = "streaming", phase' = "done", request' = request,
           response' = response, response.status = 0, IInv',
           is_thinking_open' = is_thinking_open,
           has_final_answer_streamed' = has_final_answer_streamed,
           sent' \in Seq(Chunks), SectionOf(sent'), EndOf(sent', "done"),
           AnswersKept(sent', state')
    PROVE  ChatInv'
  <1>1. /\ node' \in Nodes \cup Stopped /\ state' \in ConversationState
        /\ stored'.answer \in Answer \cup {NoAnswer, EarlierAnswer}
    BY DEF IInv, TypeOK, History
  <1>2. TypesInv'
    BY <1>1 DEF ChatInv, TypesInv
  <1>3. ResponseInv' /\ StreamInv' /\ AnswersInv'
    BY DEF ResponseInv, StreamInv, AnswersInv
  <1>4. SessionKeepsWhatClientGot' /\ SuccessWasJudged'
    BY DEF SessionKeepsWhatClientGot, SuccessWasJudged
  <1> QED
    BY <1>2, <1>3, <1>4 DEF ChatInv

\* A stream that ends without an error has shown what the graph ended with,
\* or had nothing to show.
LEMMA StreamFinishes ==
    ASSUME ChatInv, FinishStream
    PROVE  ChatInv'
  <1>1. phase = "streaming" /\ response = NoResponse /\ node = "END"
    BY DEF FinishStream, ChatInv, ResponseInv
  <1>2. response.status = 0
    BY <1>1 DEF NoResponse, Response
  <1>3. /\ node' = node /\ state' = state /\ stored' = stored /\ request' = request
        /\ response' = response /\ phase' = "done"
        /\ is_thinking_open' = is_thinking_open
        /\ has_final_answer_streamed' = has_final_answer_streamed
        /\ sent' = (sent \o (IF is_thinking_open THEN <<Chunk("/think")>> ELSE <<>>))
                     \o <<Chunk("stop"), Chunk("DONE")>>
    BY DEF FinishStream, graphVars, vars
  <1>4. IInv'
    <2>1. UNCHANGED graphVars
      BY DEF FinishStream
    <2>2. response.status # 500
      BY <1>2
    <2>3. ResponseInv
      BY DEF ChatInv
    <2> QED
      BY <2>1, <2>2, <2>3, GraphRests
  <1>5. /\ Chunk("stop") \in Chunks /\ Chunk("stop").kind = "stop"
        /\ Chunk("DONE") \in Chunks /\ Chunk("DONE").kind = "DONE"
        /\ Chunk("/think") \in Chunks
    BY ChunkTypes DEF Kinds
  <1>6. CASE OpenStream(sent) /\ is_thinking_open /\ ~ has_final_answer_streamed
    <2> DEFINE mid == Append(sent, Chunk("/think"))
    <2>1. /\ SectionOf(mid) /\ Running(mid) /\ mid \in Seq(Chunks) /\ Len(mid) > 0
          /\ \E i \in 1..Len(mid) : mid[i].kind = "/think"
          /\ \A i \in 1..Len(mid) : mid[i].kind # "answer"
      BY <1>6, ClosedEmpty
    <2>2. sent' = mid \o <<Chunk("stop"), Chunk("DONE")>>
      <3>1. sent \o <<Chunk("/think")>> = mid
        BY <1>5, <1>6, Longer DEF OpenStream
      <3> QED
        BY <1>3, <1>6, <3>1
    <2> HIDE DEF mid
    <2>3. /\ sent' \in Seq(Chunks) /\ sent' # <<>>
          /\ SectionOf(sent') /\ EndOf(sent', "done") /\ SameAnswers(mid, sent')
      <3>1. HasClosed(mid)
        BY <2>1 DEF HasClosed
      <3> QED
        BY <1>5, <2>1, <2>2, <3>1, Ended
    <2>4. \A i \in 1..Len(sent') : sent'[i].kind # "answer"
      BY <2>1, <2>3 DEF SameAnswers
    <2>5. state.llm_output.text = ""
      BY <1>1, <1>6 DEF ChatInv, AnswersInv
    <2>6. AnswersKept(sent', state')
      BY <1>3, <2>4, <2>5 DEF AnswersKept
    <2> QED
      BY <1>1, <1>2, <1>3, <1>4, <2>3, <2>6, StreamEnds
  <1>7. CASE ClosedStream(sent) /\ ~ is_thinking_open /\ has_final_answer_streamed
    <2>1. /\ SectionOf(sent) /\ Running(sent) /\ sent \in Seq(Chunks) /\ Len(sent) > 0
          /\ \E i \in 1..Len(sent) : sent[i].kind = "/think"
          /\ \E i \in 1..Len(sent) : sent[i].kind = "answer"
      <3>1. PICK i \in 1..Len(sent) : sent[i].kind = "answer"
        BY <1>7, ClosedSection
      <3>2. Len(sent) > 0
        BY <3>1
      <3> QED
        BY <1>7, <3>2, ClosedSection
    <2>2. sent' = sent \o <<Chunk("stop"), Chunk("DONE")>>
      <3>1. sent \o <<>> = sent
        BY <2>1
      <3> QED
        BY <1>3, <1>7, <3>1
    <2>3. /\ sent' \in Seq(Chunks) /\ sent' # <<>>
          /\ SectionOf(sent') /\ EndOf(sent', "done") /\ SameAnswers(sent, sent')
      <3>1. HasClosed(sent)
        BY <2>1 DEF HasClosed
      <3> QED
        BY <1>5, <2>1, <2>2, <3>1, Ended
    <2>4. \E i \in 1..Len(sent') : sent'[i].kind = "answer"
      BY <2>1, <2>3 DEF SameAnswers
    <2>5. \A i \in 1..Len(sent) : sent[i].kind = "answer" => Traced(sent[i].text, state, node)
      BY <1>1 DEF ChatInv, AnswersInv
    <2>6. \A i \in 1..Len(sent') : sent'[i].kind = "answer" =>
              \/ sent'[i].text = state'.llm_output
              \/ sent'[i].text.by = "google" /\ sent'[i].text.attempt <= state'.iteration_count
      <3> SUFFICES ASSUME NEW i \in 1..Len(sent'), sent'[i].kind = "answer"
                   PROVE  \/ sent'[i].text = state'.llm_output
                          \/ /\ sent'[i].text.by = "google"
                             /\ sent'[i].text.attempt <= state'.iteration_count
        OBVIOUS
      <3>1. i \in 1..Len(sent) /\ sent'[i] = sent[i]
        BY <2>3 DEF SameAnswers
      <3>2. Traced(sent'[i].text, state', node')
        BY <1>3, <2>5, <3>1
      <3> QED
        BY <3>2 DEF Traced
    <2>7. AnswersKept(sent', state')
      BY <2>4, <2>6 DEF AnswersKept
    <2> QED
      BY <1>1, <1>2, <1>3, <1>4, <2>3, <2>7, StreamEnds
  <1> QED
    BY <1>1, <1>6, <1>7 DEF ChatInv, StreamInv

\* A graph that raises ends the stream with an apology.
LEMMA StreamFails ==
    ASSUME ChatInv, FailStream
    PROVE  ChatInv'
  <1>1. phase = "streaming" /\ response = NoResponse /\ Step
    BY DEF FailStream, ChatInv, ResponseInv
  <1>2. response.status = 0
    BY <1>1 DEF NoResponse, Response
  <1>3. IInv'
    BY <1>1, <1>2, GraphStep DEF ChatInv, ResponseInv
  <1>4. /\ request' = request /\ response' = response /\ phase' = "done"
        /\ is_thinking_open' = is_thinking_open
        /\ has_final_answer_streamed' = has_final_answer_streamed
        /\ sent' = sent \o <<TextChunk("error", Apology), Chunk("DONE")>>
    BY DEF FailStream, FailedStreamEnd
  <1>5. /\ TextChunk("error", Apology) \in Chunks /\ TextChunk("error", Apology).kind = "error"
        /\ Chunk("DONE") \in Chunks /\ Chunk("DONE").kind = "DONE"
    BY ChunkTypes DEF Kinds
  <1>6. SectionOf(sent) /\ Running(sent) /\ sent \in Seq(Chunks) /\ Len(sent) > 0
    <2>1. CASE OpenStream(sent)
      BY <2>1, OpenSection DEF OpenStream
    <2>2. CASE ClosedStream(sent)
      <3>1. PICK i \in 1..Len(sent) : sent[i].kind = "answer"
        BY <2>2, ClosedSection
      <3>2. Len(sent) > 0
        BY <3>1
      <3> QED
        BY <2>2, <3>2, ClosedSection
    <2> QED
      BY <1>1, <2>1, <2>2 DEF ChatInv, StreamInv
  <1>7. /\ sent' \in Seq(Chunks) /\ sent' # <<>>
        /\ SectionOf(sent') /\ EndOf(sent', "done")
        /\ ~ HasStop(sent')
    <2> DEFINE c == TextChunk("error", Apology)
               d == Chunk("DONE")
    <2>1. c \in Chunks /\ d \in Chunks /\ c.kind = "error" /\ d.kind = "DONE"
          /\ sent' = sent \o <<c, d>>
      BY <1>4, <1>5
    <2> HIDE DEF c, d
    <2>2. c.kind # "stop" /\ c.kind \in {"stop", "error"}
      BY <2>1
    <2> QED
      BY <1>6, <2>1, <2>2, Ended
  <1>8. AnswersKept(sent', state')
    BY <1>7 DEF AnswersKept, HasStop
  <1> QED
    BY <1>1, <1>2, <1>3, <1>4, <1>7, <1>8, StreamEnds

\* A client that leaves stops the sending, and at most one node still runs.
LEMMA ClientHasLeft ==
    ASSUME ChatInv, ClientLeaves
    PROVE  ChatInv'
  <1>1. phase \in {"opening", "streaming"} /\ response = NoResponse
    BY DEF ClientLeaves, ChatInv, ResponseInv
  <1>2. response.status = 0
    BY <1>1 DEF NoResponse, Response
  <1>3. IInv
    BY <1>2 DEF ChatInv, ResponseInv
  <1>4. /\ request' = request /\ response' = response /\ phase' = "left" /\ sent' = sent
        /\ is_thinking_open' = is_thinking_open
        /\ has_final_answer_streamed' = has_final_answer_streamed
    BY DEF ClientLeaves, streamVars
  <1>5. IInv'
    <2>1. CASE UNCHANGED graphVars
      BY <1>3, <2>1, InvariantPreserved DEF graphVars
    <2>2. CASE Step
      BY <1>3, <2>2, GraphStep
    <2> QED
      BY <2>1, <2>2 DEF ClientLeaves
  <1>6. /\ node' \in Nodes \cup Stopped /\ state' \in ConversationState
        /\ stored'.answer \in Answer \cup {NoAnswer, EarlierAnswer}
    BY <1>5 DEF IInv, TypeOK, History
  <1>7. TypesInv'
    BY <1>4, <1>6 DEF ChatInv, TypesInv
  <1>8. (sent # <<>> => SectionOf(sent)) /\ EndOf(sent', phase')
        /\ \A i \in 1..Len(sent) : sent[i].kind # "stop"
    <2>1. CASE phase = "opening"
      <3>1. sent = <<>>
        BY <2>1 DEF ChatInv, StreamInv
      <3> QED
        BY <1>4, <3>1, EmptyStream
    <2>2. CASE phase = "streaming"
      <3>1. Running(sent)
        BY <2>2, OpenSection, ClosedSection DEF ChatInv, StreamInv
      <3>2. phase' # "done"
        BY <1>4
      <3> QED
        BY <1>4, <3>1, <3>2, NotEnded DEF ChatInv
    <2> QED
      BY <1>1, <2>1, <2>2
  <1>9. AnswersKept(sent', state')
    BY <1>4, <1>8 DEF AnswersKept
  <1>10. ResponseInv' /\ StreamInv' /\ AnswersInv'
    BY <1>1, <1>4, <1>5 DEF ResponseInv, StreamInv, AnswersInv
  <1>11. SessionKeepsWhatClientGot' /\ SuccessWasJudged'
    BY <1>2, <1>4 DEF SessionKeepsWhatClientGot, SuccessWasJudged
  <1> QED
    BY <1>4, <1>7, <1>8, <1>9, <1>10, <1>11 DEF ChatInv

\* Running the graph for a JSON response.
LEMMA GraphRuns ==
    ASSUME ChatInv, RunBlocking
    PROVE  ChatInv'
  <1>1. phase = "blocking" /\ response = NoResponse /\ Step /\ sent = <<>>
        /\ ~ is_thinking_open /\ ~ has_final_answer_streamed
    BY DEF RunBlocking, ChatInv, ResponseInv, StreamInv
  <1>2. response.status = 0
    BY <1>1 DEF NoResponse, Response
  <1>3. IInv'
    BY <1>1, <1>2, GraphStep DEF ChatInv, ResponseInv
  <1>4. /\ request' = request /\ response' = response /\ phase' = phase /\ sent' = sent
        /\ is_thinking_open' = is_thinking_open
        /\ has_final_answer_streamed' = has_final_answer_streamed
    BY DEF RunBlocking, streamVars
  <1>5. /\ node' \in Nodes \cup Stopped /\ state' \in ConversationState
        /\ stored'.answer \in Answer \cup {NoAnswer, EarlierAnswer}
    BY <1>3 DEF IInv, TypeOK, History
  <1>6. TypesInv'
    BY <1>4, <1>5 DEF ChatInv, TypesInv
  <1>7. EndOf(sent', phase') /\ AnswersKept(sent', state')
    BY <1>1, <1>4, EmptyStream
  <1>8. ResponseInv' /\ StreamInv' /\ AnswersInv'
    BY <1>1, <1>3, <1>4 DEF ResponseInv, StreamInv, AnswersInv
  <1>9. SessionKeepsWhatClientGot' /\ SuccessWasJudged'
    BY <1>2, <1>4 DEF SessionKeepsWhatClientGot, SuccessWasJudged
  <1> QED
    BY <1>1, <1>4, <1>6, <1>7, <1>8, <1>9 DEF ChatInv

\* What a JSON response says of the run it is made from.
LEMMA ResponseOf ==
    ASSUME node \in Stopped
    PROVE  LET r == JsonResponse(run_graph_blocking)
           IN  /\ r.content = IF node = "raised" THEN Apology ELSE state.llm_output
               /\ node = "raised" => r.finish_reason = "error"
  <1>1. CASE node = "raised"
    <2> DEFINE s == [InitialState(state.earlier) EXCEPT !.llm_output = Apology,
                       !.error_info = "graph_execution_error"]
    <2>1. run_graph_blocking = s
      BY <1>1 DEF run_graph_blocking
    <2>2. s.llm_output = Apology /\ s.error_info = "graph_execution_error"
      BY DEF InitialState
    <2> HIDE DEF s
    <2>3. JsonResponse(s).content = Apology /\ JsonResponse(s).finish_reason = "error"
      BY <2>2 DEF JsonResponse, Response, FinishReason
    <2> QED
      BY <1>1, <2>1, <2>3
  <1>2. CASE node # "raised"
    <2>1. run_graph_blocking = state
      BY <1>2 DEF run_graph_blocking
    <2>2. JsonResponse(state).content = state.llm_output
      BY DEF JsonResponse, Response
    <2> QED
      BY <1>2, <2>1, <2>2
  <1> QED
    BY <1>1, <1>2

\* Every response of a run has status 200 and a model name of the code.
LEMMA ResponseForm ==
    ASSUME NEW s
    PROVE  /\ JsonResponse(s).model \in Models
           /\ JsonResponse(s).status = 200
  <1>1. ModelName(s) \in Models
    BY DEF ModelName, Models
  <1>2. JsonResponse(s).model = ModelName(s)
    BY DEF JsonResponse, Response
  <1>3. JsonResponse(s).status = 200
    BY DEF JsonResponse, Response
  <1> QED
    BY <1>1, <1>2, <1>3

\* The response carries what the session was given, if it was given anything.
LEMMA Responded ==
    ASSUME ChatInv, Respond
    PROVE  ChatInv'
  <1>1. phase = "blocking" /\ response = NoResponse /\ node \in Stopped /\ sent = <<>>
    BY DEF Respond, ChatInv, ResponseInv, StreamInv
  <1>2. response.status = 0
    BY <1>1 DEF NoResponse, Response
  <1>3. IInv
    BY <1>2 DEF ChatInv, ResponseInv
  <1>4. /\ node' = node /\ state' = state /\ stored' = stored /\ request' = request
        /\ sent' = sent /\ is_thinking_open' = is_thinking_open
        /\ has_final_answer_streamed' = has_final_answer_streamed
        /\ phase' = "done" /\ response' = JsonResponse(run_graph_blocking)
    BY DEF Respond, graphVars, vars, streamVars
  <1>5. IInv'
    BY <1>3, <1>4, InvariantPreserved DEF vars
  <1>6. response'.model \in Models
    BY <1>4, ResponseForm
  <1>7. response'.status = 200
    BY <1>4, ResponseForm
  <1>8. /\ response'.content = IF node = "raised" THEN Apology ELSE state.llm_output
        /\ node = "raised" => response'.finish_reason = "error"
    BY <1>1, <1>4, ResponseOf
  <1>9. TypesInv'
    BY <1>4, <1>6 DEF ChatInv, TypesInv
  <1>10. EndOf(sent', phase') /\ AnswersKept(sent', state')
    BY <1>1, <1>4, EmptyStream
  <1>11. StreamInv' /\ AnswersInv'
    BY <1>4 DEF StreamInv, AnswersInv
  <1>12. ResponseInv'
    BY <1>4, <1>5 DEF ResponseInv
  <1>13. SessionKeepsWhatClientGot'
    <2>1. \/ stored.answer = NoAnswer
          \/ node = "END" /\ stored.answer = state.llm_output
          \/ /\ stored.answer = EarlierAnswer
             /\ RedisBacked \/ state.history = EmptyHistory
      BY <1>1, <1>3 DEF IInv, StoredInv, Stopped
    <2>2. node = "END" => response'.content = state.llm_output
      BY <1>8
    <2>3. \/ stored'.answer \in {NoAnswer, response'.content}
          \/ /\ stored'.answer = EarlierAnswer
             /\ RedisBacked \/ state'.history = EmptyHistory
      BY <1>4, <2>1, <2>2
    <2> QED
      BY <1>7, <2>3 DEF SessionKeepsWhatClientGot
  <1>14. SuccessWasJudged'
    <2> SUFFICES ASSUME response'.finish_reason = "stop"
                 PROVE  node' = "END" /\ response'.content = Last(state'.previous_answers)
      BY DEF SuccessWasJudged
    <2>1. node = "END" /\ response'.content = state.llm_output
      BY <1>1, <1>8 DEF Stopped
    <2>2. state.llm_output = state.previous_answers[Len(state.previous_answers)]
      BY <1>3, <2>1 DEF IInv, AnswerInv, Judged
    <2> QED
      BY <1>4, <2>1, <2>2 DEF Last
  <1> QED
    BY <1>1, <1>4, <1>9, <1>10, <1>11, <1>12, <1>13, <1>14 DEF ChatInv

\* A response that fails replaces the last message, or leaves the answer.
LEMMA ResponseHasFailed ==
    ASSUME ChatInv, RespondFailed
    PROVE  ChatInv'
  <1>1. phase = "blocking" /\ response = NoResponse /\ sent = <<>>
    BY DEF RespondFailed, ChatInv, ResponseInv, StreamInv
  <1>2. response.status = 0
    BY <1>1 DEF NoResponse, Response
  <1>3. IInv
    BY <1>2 DEF ChatInv, ResponseInv
  <1>4. /\ node' = node /\ state' = state /\ request' = request
        /\ sent' = sent /\ is_thinking_open' = is_thinking_open
        /\ has_final_answer_streamed' = has_final_answer_streamed
        /\ phase' = "done"
        /\ response' = Response(500, "Geoq-Critical-Fallback", Apology, "error")
        /\ stored' = Finalized(stored, Apology) \/ (RedisBacked /\ stored' = stored)
    BY DEF RespondFailed, streamVars
  <1>5. response'.model \in Models /\ response'.content = Apology
    BY <1>4 DEF Response, Models
  <1>6. response'.status = 500
    BY <1>4 DEF Response
  <1>7. stored'.answer = Apology \/ (RedisBacked /\ stored' = stored)
    BY <1>4 DEF Finalized
  <1>8. TypesInv'
    BY <1>4, <1>5, <1>7 DEF ChatInv, TypesInv
  <1>9. EndOf(sent', phase') /\ AnswersKept(sent', state')
    BY <1>1, <1>4, EmptyStream
  <1>10. StreamInv' /\ AnswersInv'
    BY <1>4 DEF StreamInv, AnswersInv
  <1>11. ResponseInv'
    BY <1>4, <1>6 DEF ResponseInv
  <1>12. SessionKeepsWhatClientGot'
    <2>1. stored.answer \in {NoAnswer, EarlierAnswer, state.llm_output}
      BY <1>3 DEF IInv, StoredInv
    <2>2. \/ stored'.answer \in {NoAnswer, response'.content}
          \/ RedisBacked /\ stored'.answer \in {EarlierAnswer, state'.llm_output}
      BY <1>4, <1>5, <1>7, <2>1
    <2> QED
      BY <1>6, <2>2 DEF SessionKeepsWhatClientGot
  <1>13. SuccessWasJudged'
    BY <1>6 DEF SuccessWasJudged
  <1> QED
    BY <1>1, <1>4, <1>8, <1>9, <1>10, <1>11, <1>12, <1>13 DEF ChatInv

-----------------------------------------------------------------------------
(* The invariant, and what it implies.                                     *)

\* A stutter keeps the invariant.
LEMMA ChatRests ==
    ASSUME ChatInv, UNCHANGED chatVars
    PROVE  ChatInv'
  <1>1. /\ node' = node /\ state' = state /\ stored' = stored /\ request' = request
        /\ phase' = phase /\ sent' = sent /\ is_thinking_open' = is_thinking_open
        /\ has_final_answer_streamed' = has_final_answer_streamed /\ response' = response
    BY DEF chatVars
  <1>2. IInv => IInv'
    BY <1>1, InvariantPreserved DEF vars
  <1>3. TypesInv'
    BY <1>1 DEF ChatInv, TypesInv
  <1>4. ResponseInv'
    BY <1>1, <1>2 DEF ChatInv, ResponseInv
  <1>5. StreamInv' /\ AnswersInv'
    BY <1>1 DEF ChatInv, StreamInv, AnswersInv
  <1>6. SessionKeepsWhatClientGot' /\ SuccessWasJudged'
    BY <1>1 DEF ChatInv, SessionKeepsWhatClientGot, SuccessWasJudged
  <1> QED
    BY <1>1, <1>3, <1>4, <1>5, <1>6 DEF ChatInv

\* So does every step of the endpoint.
LEMMA ChatInvariantPreserved == ChatInv /\ [ChatNext]_chatVars => ChatInv'
  <1> SUFFICES ASSUME ChatInv, [ChatNext]_chatVars
               PROVE  ChatInv'
    OBVIOUS
  <1>1. CASE chat_completions
    BY <1>1, RequestChecked
  <1>2. CASE OpenThink
    BY <1>2, ThinkOpens
  <1>3. CASE StreamNode
    BY <1>3, NodeStreamed
  <1>4. CASE FinishStream
    BY <1>4, StreamFinishes
  <1>5. CASE FailStream
    BY <1>5, StreamFails
  <1>6. CASE RunBlocking
    BY <1>6, GraphRuns
  <1>7. CASE Respond
    BY <1>7, Responded
  <1>8. CASE RespondFailed
    BY <1>8, ResponseHasFailed
  <1>9. CASE ClientLeaves
    BY <1>9, ClientHasLeft
  <1>10. CASE UNCHANGED chatVars
    BY <1>10, ChatRests
  <1> QED
    BY <1>1, <1>2, <1>3, <1>4, <1>5, <1>6, <1>7, <1>8, <1>9, <1>10 DEF ChatNext, Work, Over

\* The invariant holds of every run of the endpoint.
LEMMA ChatInvariant == ChatSpec => []ChatInv
  BY ChatInvariantInitially, ChatInvariantPreserved, PTL DEF ChatSpec

\* The chunks of a stream, the flags and the model name of a response stay
\* what stream_graph_execution and create_openai_response of app.py make.
THEOREM ChatTypesCorrect == ChatSpec => []ChatTypeOK
  <1>1. ChatInv => ChatTypeOK
    <2> SUFFICES ASSUME ChatInv
                 PROVE  ChatTypeOK
      OBVIOUS
    <2>1. sent \in Seq(Chunks)
      BY DEF ChatInv, TypesInv
    <2>2. \A i \in DOMAIN sent : sent[i] \in Chunks
      BY <2>1
    <2>3. \A i \in DOMAIN sent : /\ sent[i].kind \in Kinds
                                 /\ sent[i].text \in Answer \cup {NoAnswer, Apology}
      BY <2>2 DEF Chunks
    <2> QED
      BY <2>3 DEF ChatInv, TypesInv, ChatTypeOK
  <1> QED
    BY <1>1, ChatInvariant, PTL

\* However the graph goes and whenever the client leaves, a stream opens its
\* <think> section first, closes it at most once, and has its progress in it
\* and its answer after it (stream_graph_execution of app.py).
THEOREM SectionIsWellFormed == ChatSpec => []ThinkSection
  <1>1. ChatInv => ThinkSection
    <2> SUFFICES ASSUME ChatInv
                 PROVE  ThinkSection
      OBVIOUS
    <2>1. sent \in Seq(Chunks) /\ DOMAIN sent = 1..Len(sent) /\ Len(sent) \in Nat
      BY DEF ChatInv, TypesInv
    <2>2. CASE sent = <<>>
      BY <2>2 DEF ThinkSection, Positions
    <2>3. CASE sent # <<>>
      <3>1. SectionOf(sent)
        BY <2>3 DEF ChatInv
      <3>2. 1 \in 1..Len(sent)
        BY <2>1, <2>3
      <3>3. \A kind, i : i \in Positions(kind) <=> i \in 1..Len(sent) /\ sent[i].kind = kind
        BY <2>1 DEF Positions
      <3>4. Positions("think") = {1}
        BY <3>1, <3>2, <3>3 DEF SectionOf
      <3>5. \A i, j \in Positions("/think") : i = j
        BY <3>1, <3>3 DEF SectionOf
      <3>6. \A i \in Positions("answer") : \E j \in Positions("/think") : j < i
        <4> SUFFICES ASSUME NEW i \in Positions("answer")
                     PROVE  \E j \in Positions("/think") : j < i
          OBVIOUS
        <4>1. PICK j \in 1..Len(sent) : sent[j].kind = "/think" /\ j < i
          BY <3>1, <3>3 DEF SectionOf
        <4> QED
          BY <3>3, <4>1
      <3>7. \A i \in Positions("status"), j \in Positions("/think") : i < j
        BY <3>1, <3>3 DEF SectionOf
      <3> QED
        BY <3>4, <3>5, <3>6, <3>7 DEF ThinkSection
    <2> QED
      BY <2>2, <2>3
  <1> QED
    BY <1>1, ChatInvariant, PTL

\* Whether the graph ends or raises, and with or without an answer, a stream
\* the client stays for ends with one finishing chunk and [DONE]; without an
\* error its section has been closed (stream_graph_execution of app.py).
THEOREM StreamIsEnded == ChatSpec => []StreamEnd
  <1>1. ChatInv => StreamEnd
    <2> SUFFICES ASSUME ChatInv
                 PROVE  StreamEnd
      OBVIOUS
    <2>1. sent \in Seq(Chunks) /\ DOMAIN sent = 1..Len(sent) /\ Len(sent) \in Nat
      BY DEF ChatInv, TypesInv
    <2>2. EndOf(sent, phase)
      BY DEF ChatInv
    <2>3. \A kind, i : i \in Positions(kind) <=> i \in 1..Len(sent) /\ sent[i].kind = kind
      BY <2>1 DEF Positions
    <2>4. \A i \in Positions("DONE") : i = Len(sent)
      BY <2>2, <2>3 DEF EndOf
    <2>5. Positions("DONE") # {} => Positions("DONE") = {Len(sent)}
      BY <2>4
    <2>6. ASSUME phase = "done", sent # <<>>
          PROVE  /\ Positions("DONE") = {Len(sent)}
                 /\ Positions("stop") \cup Positions("error") = {Len(sent) - 1}
      <3>1. /\ sent[Len(sent)].kind = "DONE" /\ Len(sent) - 1 \in 1..Len(sent)
            /\ \A i \in 1..Len(sent) : sent[i].kind \in {"stop", "error"} <=> i = Len(sent) - 1
        BY <2>2, <2>6 DEF EndOf
      <3>2. Len(sent) \in 1..Len(sent)
        <4>1. Len(sent) - 1 \in 1..Len(sent)
          BY <3>1
        <4> QED
          BY <2>1, <4>1
      <3>3. Positions("DONE") = {Len(sent)}
        BY <2>3, <2>5, <3>1, <3>2
      <3>4. \A i : i \in Positions("stop") \cup Positions("error") <=> i = Len(sent) - 1
        BY <2>3, <3>1
      <3> QED
        BY <3>3, <3>4
    <2>7. Positions("stop") # {} => Positions("/think") # {}
      BY <2>2, <2>3 DEF EndOf
    <2> QED
      BY <2>5, <2>6, <2>7 DEF StreamEnd
  <1> QED
    BY <1>1, ChatInvariant, PTL

\* However many attempts the quality gate asks for, a stream that ends
\* without an error has shown the answer the graph ended with, or one a search
\* of an earlier attempt had found; only an empty answer is not shown.
THEOREM AnswerIsStreamed == ChatSpec => []NoAnswerLost
  <1>1. ChatInv => NoAnswerLost
    <2> SUFFICES ASSUME ChatInv
                 PROVE  NoAnswerLost
      OBVIOUS
    <2>1. DOMAIN sent = 1..Len(sent)
      BY DEF ChatInv, TypesInv
    <2>2. AnswersKept(sent, state)
      BY DEF ChatInv
    <2>3. \A kind, i : i \in Positions(kind) <=> i \in 1..Len(sent) /\ sent[i].kind = kind
      BY <2>1 DEF Positions
    <2>4. CASE Positions("stop") = {}
      BY <2>4 DEF NoAnswerLost
    <2>5. CASE Positions("stop") # {} /\ Positions("answer") = {}
      <3>1. state.llm_output.text = ""
        BY <2>2, <2>3, <2>5 DEF AnswersKept
      <3> QED
        BY <2>5, <3>1 DEF NoAnswerLost
    <2>6. CASE Positions("stop") # {} /\ Positions("answer") # {}
      <3>1. \A i \in 1..Len(sent) : sent[i].kind = "answer" =>
                \/ sent[i].text = state.llm_output
                \/ sent[i].text.by = "google" /\ sent[i].text.attempt <= state.iteration_count
        BY <2>2, <2>3, <2>6 DEF AnswersKept
      <3> QED
        BY <2>3, <2>6, <3>1 DEF NoAnswerLost
    <2> QED
      BY <2>4, <2>5, <2>6
  <1> QED
    BY <1>1, ChatInvariant, PTL

\* Whichever save fails, the session ends with the message a JSON client was
\* given or with none, but for an older one that no save has replaced: that of
\* an earlier request when Redis refuses the saves (or, in this process, when
\* the request neither loads nor finalizes), and the answer the client missed
\* when the response failed after the graph and Redis refuses the fallback.
THEOREM SessionAgreesWithClient == ChatSpec => []SessionKeepsWhatClientGot
  <1>1. ChatInv => SessionKeepsWhatClientGot
    BY DEF ChatInv
  <1> QED
    BY <1>1, ChatInvariant, PTL

\* A JSON response that reports finish_reason "stop" carries the answer the
\* quality gate judged last, never one a raise or a retry left behind.
THEOREM SuccessIsJudged == ChatSpec => []SuccessWasJudged
  <1>1. ChatInv => SuccessWasJudged
    BY DEF ChatInv
  <1> QED
    BY <1>1, ChatInvariant, PTL

-----------------------------------------------------------------------------
(* The endpoint implements ChatContract, step by step.                     *)

\* Chunks with nothing to show.
LEMMA NothingShown ==
    ASSUME NEW s, ShownAt(s) = {}
    PROVE  TextsOf(s) = <<>>
  <1>1. Cardinality(ShownAt(s)) = 0
    BY FS_EmptySet
  <1>2. 1..Cardinality(ShownAt(s)) = {}
    BY <1>1
  <1>3. QED
    BY <1>2 DEF TextsOf

\* One text to show.
LEMMA OneShown ==
    ASSUME NEW s, NEW p \in Nat, ShownAt(s) = {p}
    PROVE  TextsOf(s) = <<s[p].text>>
  <1>1. Cardinality({p}) = 1
    BY FS_Singleton
  <1>2. {q \in {p} : q <= p} = {p}
    OBVIOUS
  <1>3. ShownNth(s, 1) = p
    BY <1>1, <1>2 DEF ShownNth
  <1>4. TextsOf(s) = [k \in 1..1 |-> s[ShownNth(s, k)].text]
    BY <1>1 DEF TextsOf
  <1>5. QED
    BY <1>3, <1>4

\* Two texts to show, in the order of their chunks.
LEMMA TwoShown ==
    ASSUME NEW s, NEW p \in Nat, NEW q \in Nat, p < q, ShownAt(s) = {p, q}
    PROVE  TextsOf(s) = <<s[p].text, s[q].text>>
  <1>1. /\ Cardinality({p}) = 1 /\ IsFiniteSet({p})
        /\ Cardinality({p, q}) = 2
    <2>1. Cardinality({p}) = 1 /\ IsFiniteSet({p})
      BY FS_Singleton
    <2>2. {p} \cup {q} = {p, q} /\ q \notin {p}
      OBVIOUS
    <2>3. Cardinality({p} \cup {q}) = Cardinality({p}) + 1
      BY <2>1, <2>2, FS_AddElement
    <2>4. QED
      BY <2>1, <2>2, <2>3
  <1>2. {x \in {p, q} : x <= p} = {p} /\ {x \in {p, q} : x <= q} = {p, q}
    OBVIOUS
  <1>3. ShownNth(s, 1) = p
    <2>1. ShownNth(s, 1) =
              CHOOSE y \in {p, q} : Cardinality({x \in {p, q} : x <= y}) = 1
      BY DEF ShownNth
    <2>2. \A y \in {p, q} : Cardinality({x \in {p, q} : x <= y}) = 1 <=> y = p
      BY <1>1, <1>2
    <2>3. QED
      BY <2>1, <2>2
  <1>4. ShownNth(s, 2) = q
    <2>1. ShownNth(s, 2) =
              CHOOSE y \in {p, q} : Cardinality({x \in {p, q} : x <= y}) = 2
      BY DEF ShownNth
    <2>2. \A y \in {p, q} : Cardinality({x \in {p, q} : x <= y}) = 2 <=> y = q
      BY <1>1, <1>2
    <2>3. QED
      BY <2>1, <2>2
  <1>5. TextsOf(s) = [k \in 1..2 |-> s[ShownNth(s, k)].text]
    BY <1>1 DEF TextsOf
  <1> DEFINE x(k) == s[ShownNth(s, k)].text
  <1>6. x(1) = s[p].text /\ x(2) = s[q].text
    BY <1>3, <1>4
  <1>7. TextsOf(s) = [k \in 1..2 |-> x(k)]
    BY <1>5
  <1> HIDE DEF x
  <1>8. QED
    BY <1>6, <1>7

\* Before its answer a stream shows nothing, and neither does the empty one.
LEMMA OpenShown ==
    ASSUME NEW s, OpenStream(s) \/ s = <<>>
    PROVE  ShownAt(s) = {}
  <1>1. CASE OpenStream(s)
    BY <1>1, OpenSection DEF ShownAt
  <1>2. CASE s = <<>>
    BY <1>2 DEF ShownAt
  <1>3. QED
    BY <1>1, <1>2

\* With its answer it shows just that, in its last chunk.
LEMMA ClosedShown ==
    ASSUME NEW s, ClosedStream(s)
    PROVE  /\ ShownAt(s) = {Len(s)} /\ Len(s) \in Nat \ {0}
           /\ s[Len(s)].kind = "answer"
  <1>1. PICK c \in Nat : ClosedAt(s, c)
    BY DEF ClosedStream
  <1>2. s \in Seq(Chunks) /\ Len(s) \in Nat /\ c \in 2..Len(s) - 1 /\ c + 1 = Len(s)
    BY <1>1 DEF ClosedStream, ClosedAt
  <1>3. \A i \in 1..Len(s) : s[i].kind = IF i = 1 THEN "think" ELSE
                                         IF i < c THEN "status" ELSE
                                         IF i = c THEN "/think" ELSE "answer"
    BY <1>1, <1>2 DEF ClosedAt
  <1>4. DOMAIN s = 1..Len(s)
    BY <1>2
  <1>5. \A i \in 1..Len(s) : s[i].kind \in {"answer", "error"} <=> i = Len(s)
    BY <1>2, <1>3
  <1>6. Len(s) \in 1..Len(s)
    BY <1>2
  <1>7. s[Len(s)].kind = "answer"
    BY <1>2, <1>3, <1>6
  <1>8. ShownAt(s) = {Len(s)}
    BY <1>4, <1>5, <1>6 DEF ShownAt
  <1>9. QED
    BY <1>6, <1>7, <1>8

EndShows(s, c, all) ==
    /\ ShownAt(all) = ShownAt(s) \cup (IF c.kind = "error" THEN {Len(s) + 1} ELSE {})
    /\ \A i \in ShownAt(s) : all[i] = s[i]
    /\ all[Len(s) + 1] = c

\* The two chunks that end a stream show what the first of them shows, after
\* everything else.
LEMMA EndShown ==
    ASSUME NEW s \in Seq(Chunks), NEW c \in Chunks, NEW d \in Chunks,
           c.kind \in {"stop", "error"}, d.kind = "DONE",
           NEW all, all = s \o <<c, d>>
    PROVE  EndShows(s, c, all)
  <1> DEFINE more == <<c, d>>
  <1>1. more \in Seq(Chunks) /\ Len(more) = 2 /\ more[1] = c /\ more[2] = d
    BY Pairs
  <1>2. all = s \o more
    OBVIOUS
  <1> HIDE DEF more
  <1>3. /\ all \in Seq(Chunks) /\ Len(all) = Len(s) + 2 /\ Len(s) \in Nat
        /\ \A i \in 1..Len(s) : all[i] = s[i]
        /\ all[Len(s) + 1] = c /\ all[Len(s) + 2] = d
    BY <1>1, <1>2, TwoChunks
  <1>4. DOMAIN s = 1..Len(s) /\ DOMAIN all = 1..Len(s) + 2
    BY <1>3
  <1>5. \A i : i \in ShownAt(s) <=>
                  i \in 1..Len(s) /\ s[i].kind \in {"answer", "error"}
    BY <1>4 DEF ShownAt
  <1>6. \A i : i \in ShownAt(all) <=>
                  i \in 1..Len(s) + 2 /\ all[i].kind \in {"answer", "error"}
    BY <1>4 DEF ShownAt
  <1>7. \A i : i \in ShownAt(all) <=>
                  \/ i \in ShownAt(s)
                  \/ i = Len(s) + 1 /\ c.kind = "error"
    <2>1. \A i : i \in 1..Len(s) + 2 <=>
                    i \in 1..Len(s) \/ i = Len(s) + 1 \/ i = Len(s) + 2
      BY <1>3
    <2>2. all[Len(s) + 2].kind \notin {"answer", "error"}
      BY <1>3
    <2>3. all[Len(s) + 1].kind \in {"answer", "error"} <=> c.kind = "error"
      BY <1>3
    <2>4. QED
      BY <1>3, <1>5, <1>6, <2>1, <2>2, <2>3
  <1>8. ShownAt(all) = ShownAt(s) \cup
             (IF c.kind = "error" THEN {Len(s) + 1} ELSE {})
    BY <1>7
  <1>9. \A i \in ShownAt(s) : all[i] = s[i]
    BY <1>3, <1>5
  <1>10. QED
    BY <1>3, <1>8, <1>9 DEF EndShows

\* Only streams stream, and only JSON requests wait for their answer.
WayInv ==
    /\ phase \in {"opening", "streaming"} => request.stream
    /\ phase = "blocking" => ~ request.stream

\* A request keeps its way of answering from chat_completions on.
LEMMA WayKept == WayInv /\ [ChatNext]_chatVars => WayInv'
  <1> SUFFICES ASSUME WayInv, [ChatNext]_chatVars PROVE WayInv'
    OBVIOUS
  <1>1. CASE chat_completions
    BY <1>1 DEF chat_completions, WayInv
  <1>2. CASE request' = request /\ phase' = phase
    BY <1>2 DEF WayInv
  <1>3. CASE /\ request' = request
             /\ phase = "opening" /\ phase' = "streaming"
    BY <1>3 DEF WayInv
  <1>4. CASE phase' \in {"done", "left"}
    BY <1>4 DEF WayInv
  <1>5. \/ request' = request /\ phase' = phase
        \/ request' = request /\ phase = "opening" /\ phase' = "streaming"
        \/ phase' \in {"done", "left"}
        \/ chat_completions
    BY Zenon DEF ChatNext, Work, Over, OpenThink, StreamNode, FinishStream,
                 FailStream, ClientLeaves, RunBlocking, Respond, RespondFailed,
                 chatVars
  <1> QED
    BY <1>1, <1>2, <1>3, <1>4, <1>5

\* Before the answer is on its way nothing is shown, either way.
LEMMA NothingYet ==
    ASSUME ChatInv, phase \in {"received", "opening", "blocking"}
    PROVE  shownTexts = <<>> /\ exchangeStatus = "open"
  <1>1. sent = <<>> /\ response = NoResponse
    BY DEF ChatInv, StreamInv, ResponseInv
  <1>2. response.status = 0
    BY <1>1 DEF NoResponse, Response
  <1>3. TextsOf(sent) = <<>>
    BY <1>1, OpenShown, NothingShown
  <1>4. shownTexts = <<>>
    BY <1>2, <1>3 DEF shownTexts
  <1>5. exchangeStatus = "open"
    BY DEF exchangeStatus
  <1> QED
    BY <1>4, <1>5

\* What a stream that runs shows: nothing, or one answer, its last chunk.
LEMMA ShownWhileStreaming ==
    ASSUME ChatInv, WayInv, phase = "streaming"
    PROVE  /\ exchangeStatus = "open" /\ shownTexts = TextsOf(sent)
           /\ sent \in Seq(Chunks)
           /\ \/ /\ OpenStream(sent) /\ ShownAt(sent) = {} /\ TextsOf(sent) = <<>>
                 /\ ~ has_final_answer_streamed /\ is_thinking_open
              \/ /\ ClosedStream(sent) /\ ShownAt(sent) = {Len(sent)}
                 /\ Len(sent) \in Nat \ {0}
                 /\ sent[Len(sent)].kind = "answer"
                 /\ TextsOf(sent) = <<sent[Len(sent)].text>>
                 /\ has_final_answer_streamed /\ ~ is_thinking_open
  <1>1. exchangeStatus = "open"
    BY DEF exchangeStatus
  <1>2. shownTexts = TextsOf(sent)
    BY DEF WayInv, shownTexts
  <1>3. sent \in Seq(Chunks)
    BY DEF ChatInv, TypesInv
  <1>4. CASE OpenStream(sent) /\ is_thinking_open /\ ~ has_final_answer_streamed
    BY <1>1, <1>2, <1>3, <1>4, OpenShown, NothingShown
  <1>5. CASE ClosedStream(sent) /\ ~ is_thinking_open /\ has_final_answer_streamed
    <2>1. /\ ShownAt(sent) = {Len(sent)} /\ Len(sent) \in Nat \ {0}
          /\ sent[Len(sent)].kind = "answer"
      BY <1>5, ClosedShown
    <2>2. TextsOf(sent) = <<sent[Len(sent)].text>>
      BY <2>1, OneShown
    <2> QED
      BY <1>1, <1>2, <1>3, <1>5, <2>1, <2>2
  <1> QED
    BY <1>4, <1>5 DEF ChatInv, StreamInv

\* An answer that was judged is one.
LEMMA JudgedIsAnswer ==
    ASSUME NEW s \in ConversationState, s.previous_answers # <<>>,
           s.llm_output = s.previous_answers[Len(s.previous_answers)]
    PROVE  s.llm_output \in Answer
  <1>1. s.previous_answers \in Seq(Answer)
    BY DEF ConversationState
  <1>2. Len(s.previous_answers) \in 1..Len(s.previous_answers)
    BY <1>1
  <1> QED
    BY <1>1, <1>2

\* What is sent as an answer is one, and not the initial state's.
LEMMA TracedIsAnswer ==
    ASSUME NEW answer \in Answer \cup {NoAnswer, Apology}, NEW s, NEW n,
           Traced(answer, s, n), n = "END" => s.llm_output \in Answer
    PROVE  answer \in PossibleAnswers
  <1>1. CASE answer.by = "google"
    <2>1. NoAnswer.by = "nobody"
      BY DEF NoAnswer
    <2>2. answer # NoAnswer
      BY <1>1, <2>1
    <2> QED
      BY <2>2 DEF PossibleAnswers
  <1>2. CASE n = "END" /\ answer = s.llm_output
    BY <1>2 DEF PossibleAnswers
  <1> QED
    BY <1>1, <1>2 DEF Traced

\* A step that shows nothing new and does not end the exchange.
LEMMA ContractRests ==
    ASSUME exchangeStatus' = exchangeStatus, shownTexts' = shownTexts
    PROVE  [Contract!Next]_(Contract!vars)
  BY DEF Contract!vars

\* A step that shows the answer.
LEMMA ContractShows ==
    ASSUME exchangeStatus = "open", exchangeStatus' = "open", shownTexts = <<>>,
           NEW answer \in PossibleAnswers, shownTexts' = <<answer>>
    PROVE  [Contract!Next]_(Contract!vars)
  <1>1. <<answer>> \in Contract!OneAnswer
    BY DEF Contract!OneAnswer
  <1> QED
    BY <1>1 DEF Contract!Next, Contract!Show

\* A step that ends the exchange.
LEMMA ContractCloses ==
    ASSUME exchangeStatus = "open", exchangeStatus' = "closed",
           \/ shownTexts' = shownTexts
           \/ shownTexts' = Append(shownTexts, Apology)
           \/ shownTexts = <<>> /\ \E answer \in PossibleAnswers :
                                       shownTexts' = <<answer>>
    PROVE  [Contract!Next]_(Contract!vars)
  <1>1. \A answer \in PossibleAnswers : <<answer>> \in Contract!OneAnswer
    BY DEF Contract!OneAnswer
  <1> QED
    BY <1>1 DEF Contract!Next, Contract!Close

\* The exchange starts open, with nothing shown.
LEMMA ContractStarts == ChatInit => Contract!Init
  <1> SUFFICES ASSUME ChatInit PROVE Contract!Init
    OBVIOUS
  <1>1. sent = <<>> /\ response = NoResponse /\ phase = "received"
    BY DEF ChatInit
  <1>2. response.status = 0
    BY <1>1 DEF NoResponse, Response
  <1>3. TextsOf(sent) = <<>>
    BY <1>1, OpenShown, NothingShown
  <1>4. shownTexts = <<>>
    BY <1>2, <1>3 DEF shownTexts
  <1>5. exchangeStatus = "open"
    BY <1>1 DEF exchangeStatus
  <1> QED
    BY <1>4, <1>5 DEF Contract!Init

\* A node of the graph shows the answer when it is the first that has one.
LEMMA NodeShows ==
    ASSUME ChatInv, ChatInv', WayInv, WayInv', StreamNode
    PROVE  [Contract!Next]_(Contract!vars)
  <1>1. /\ phase = "streaming" /\ phase' = "streaming"
        /\ request' = request /\ response' = response
    BY DEF StreamNode
  <1>2. /\ exchangeStatus = "open" /\ shownTexts = TextsOf(sent)
        /\ exchangeStatus' = "open" /\ shownTexts' = TextsOf(sent')
    <2>1. exchangeStatus = "open" /\ exchangeStatus' = "open"
      BY <1>1 DEF exchangeStatus
    <2>2. shownTexts = TextsOf(sent) /\ shownTexts' = TextsOf(sent')
      BY <1>1 DEF shownTexts, WayInv
    <2> QED
      BY <2>1, <2>2
  <1>3. CASE ClosedStream(sent) /\ has_final_answer_streamed
    <2>1. StatusChunks(node) = <<>> /\ ~ IsFinalOutput(node, state')
      BY <1>3 DEF StatusChunks, IsFinalOutput
    <2>2. sent' = sent \o <<>> /\ sent \in Seq(Chunks)
      BY <2>1 DEF StreamNode, ChatInv, TypesInv
    <2>3. sent' = sent
      BY <2>2
    <2> QED
      BY <1>2, <2>3, ContractRests
  <1>4. CASE OpenStream(sent)
    <2>1. TextsOf(sent) = <<>>
      BY <1>4, OpenShown, NothingShown
    <2>2. CASE OpenStream(sent')
      <3>1. TextsOf(sent') = <<>>
        BY <2>2, OpenShown, NothingShown
      <3> QED
        BY <1>2, <2>1, <3>1, ContractRests
    <2>3. CASE ClosedStream(sent')
      <3>1. /\ ShownAt(sent') = {Len(sent')} /\ Len(sent') \in Nat \ {0}
            /\ sent'[Len(sent')].kind = "answer"
        BY <2>3, ClosedShown
      <3>2. TextsOf(sent') = <<sent'[Len(sent')].text>>
        BY <3>1, OneShown
      <3>3. sent'[Len(sent')].text \in PossibleAnswers
        <4>1. Len(sent') \in 1..Len(sent')
          BY <3>1
        <4>2. response'.status = 0
          <5>1. response = NoResponse
            BY <1>1 DEF ChatInv, ResponseInv
          <5> QED
            BY <1>1, <5>1 DEF NoResponse, Response
        <4>3. IInv'
          BY <4>2 DEF ChatInv, ResponseInv
        <4>4. Traced(sent'[Len(sent')].text, state', node')
          BY <1>1, <3>1, <4>1 DEF ChatInv, AnswersInv
        <4>5. sent'[Len(sent')].text \in Answer \cup {NoAnswer, Apology}
          <5>1. sent' \in Seq(Chunks)
            BY DEF ChatInv, TypesInv
          <5>2. sent'[Len(sent')] \in Chunks
            BY <4>1, <5>1
          <5> QED
            BY <5>2 DEF Chunks
        <4>6. node' = "END" => state'.llm_output \in Answer
          <5>1. /\ state' \in ConversationState
                /\ node' = "END" =>
                     /\ state'.previous_answers # <<>>
                     /\ state'.llm_output =
                          state'.previous_answers[Len(state'.previous_answers)]
            BY <4>3 DEF IInv, TypeOK, AnswerInv, Judged
          <5> QED
            BY <5>1, JudgedIsAnswer
        <4> QED
          BY <4>4, <4>5, <4>6, TracedIsAnswer
      <3> QED
        BY <1>2, <2>1, <3>2, <3>3, ContractShows
    <2>4. OpenStream(sent') \/ ClosedStream(sent')
      BY <1>1 DEF ChatInv, StreamInv
    <2> QED
      BY <2>2, <2>3, <2>4
  <1> QED
    BY <1>1, <1>3, <1>4 DEF ChatInv, StreamInv

\* The end of a stream without an error shows nothing more.
LEMMA StopShowsNothing ==
    ASSUME NEW s \in Seq(Chunks), NEW all, all = s \o <<Chunk("stop"), Chunk("DONE")>>
    PROVE  /\ ShownAt(all) = ShownAt(s)
           /\ \A i \in ShownAt(s) : all[i] = s[i]
  <1> DEFINE c == Chunk("stop")
             d == Chunk("DONE")
  <1>1. c \in Chunks /\ c.kind = "stop" /\ d \in Chunks /\ d.kind = "DONE"
    BY ChunkTypes DEF Kinds
  <1>2. all = s \o <<c, d>>
    OBVIOUS
  <1> HIDE DEF c, d
  <1>3. c.kind \in {"stop", "error"} /\ c.kind # "error"
    BY <1>1
  <1>4. EndShows(s, c, all)
    BY <1>1, <1>2, <1>3, EndShown
  <1> QED
    BY <1>3, <1>4 DEF EndShows

\* The end of a stream with an error shows the apology, last.
LEMMA ErrorShowsApology ==
    ASSUME NEW s \in Seq(Chunks), NEW all, all = s \o FailedStreamEnd
    PROVE  /\ ShownAt(all) = ShownAt(s) \cup {Len(s) + 1}
           /\ \A i \in ShownAt(s) : all[i] = s[i]
           /\ all[Len(s) + 1].text = Apology
  <1> DEFINE c == TextChunk("error", Apology)
             d == Chunk("DONE")
  <1>1. /\ c \in Chunks /\ c.kind = "error" /\ c.text = Apology
        /\ d \in Chunks /\ d.kind = "DONE"
    BY ChunkTypes DEF Kinds
  <1>2. all = s \o <<c, d>>
    BY DEF FailedStreamEnd
  <1> HIDE DEF c, d
  <1>3. c.kind \in {"stop", "error"}
    BY <1>1
  <1>4. EndShows(s, c, all)
    BY <1>1, <1>2, <1>3, EndShown
  <1> QED
    BY <1>1, <1>4 DEF EndShows

\* A stream whose graph has ended closes the exchange and shows nothing more.
LEMMA FinishCloses ==
    ASSUME ChatInv, WayInv, FinishStream
    PROVE  [Contract!Next]_(Contract!vars)
  <1>1. /\ phase = "streaming" /\ phase' = "done" /\ request' = request
        /\ sent' = (sent \o (IF is_thinking_open THEN <<Chunk("/think")>> ELSE <<>>))
                     \o <<Chunk("stop"), Chunk("DONE")>>
    BY DEF FinishStream
  <1>2. Chunk("/think") \in Chunks
    BY ChunkTypes DEF Kinds
  <1>3. exchangeStatus = "open" /\ exchangeStatus' = "closed"
    BY <1>1 DEF exchangeStatus
  <1>4. shownTexts = TextsOf(sent) /\ shownTexts' = TextsOf(sent')
    BY <1>1 DEF shownTexts, WayInv
  <1>5. CASE OpenStream(sent) /\ is_thinking_open
    <2> DEFINE mid == Append(sent, Chunk("/think"))
    <2>1. /\ Running(mid) /\ mid \in Seq(Chunks)
          /\ \A i \in 1..Len(mid) : mid[i].kind # "answer"
      BY <1>5, ClosedEmpty
    <2>2. sent' = mid \o <<Chunk("stop"), Chunk("DONE")>>
      <3>1. sent \o <<Chunk("/think")>> = mid
        BY <1>2, <1>5, Longer DEF OpenStream
      <3> QED
        BY <1>1, <1>5, <3>1
    <2> HIDE DEF mid
    <2>3. ShownAt(mid) = {}
      BY <2>1 DEF ShownAt, Running
    <2>4. ShownAt(sent') = {}
      BY <2>1, <2>2, <2>3, StopShowsNothing
    <2>5. TextsOf(sent') = <<>> /\ TextsOf(sent) = <<>>
      BY <1>5, <2>4, OpenShown, NothingShown
    <2> QED
      BY <1>3, <1>4, <2>5, ContractCloses
  <1>6. CASE ClosedStream(sent) /\ ~ is_thinking_open
    <2>1. /\ ShownAt(sent) = {Len(sent)} /\ Len(sent) \in Nat \ {0}
          /\ TextsOf(sent) = <<sent[Len(sent)].text>> /\ sent \in Seq(Chunks)
      BY <1>6, ClosedShown, ClosedSection, OneShown
    <2>2. sent' = sent \o <<Chunk("stop"), Chunk("DONE")>>
      <3>1. sent \o <<>> = sent
        BY <2>1
      <3> QED
        BY <1>1, <1>6, <3>1
    <2>3. /\ ShownAt(sent') = {Len(sent)}
          /\ sent'[Len(sent)] = sent[Len(sent)]
      <3>1. /\ ShownAt(sent') = ShownAt(sent)
            /\ \A i \in ShownAt(sent) : sent'[i] = sent[i]
        BY <2>1, <2>2, StopShowsNothing
      <3> QED
        BY <2>1, <3>1
    <2>4. TextsOf(sent') = TextsOf(sent)
      <3>1. TextsOf(sent') = <<sent'[Len(sent)].text>>
        BY <2>1, <2>3, OneShown
      <3> QED
        BY <2>1, <2>3, <3>1
    <2> QED
      BY <1>3, <1>4, <2>4, ContractCloses
  <1> QED
    BY <1>1, <1>5, <1>6 DEF ChatInv, StreamInv

\* A stream whose graph raises closes it with an apology, after the answer if
\* that was already shown.
LEMMA FailureApologises ==
    ASSUME ChatInv, WayInv, FailStream
    PROVE  [Contract!Next]_(Contract!vars)
  <1>1. /\ phase = "streaming" /\ phase' = "done" /\ request' = request
        /\ sent' = sent \o FailedStreamEnd
    BY DEF FailStream
  <1>2. exchangeStatus = "open" /\ exchangeStatus' = "closed"
    BY <1>1 DEF exchangeStatus
  <1>3. shownTexts = TextsOf(sent) /\ shownTexts' = TextsOf(sent')
    BY <1>1 DEF shownTexts, WayInv
  <1>4. sent \in Seq(Chunks) /\ Len(sent) \in Nat
    BY DEF ChatInv, TypesInv
  <1>5. /\ ShownAt(sent') = ShownAt(sent) \cup {Len(sent) + 1}
        /\ \A i \in ShownAt(sent) : sent'[i] = sent[i]
        /\ sent'[Len(sent) + 1].text = Apology
    BY <1>1, <1>4, ErrorShowsApology
  <1>6. CASE OpenStream(sent)
    <2>1. ShownAt(sent) = {} /\ TextsOf(sent) = <<>>
      BY <1>6, OpenShown, NothingShown
    <2>2. ShownAt(sent') = {Len(sent) + 1} /\ Len(sent) + 1 \in Nat
      BY <1>4, <1>5, <2>1
    <2>3. TextsOf(sent') = <<Apology>>
      <3>1. TextsOf(sent') = <<sent'[Len(sent) + 1].text>>
        BY <2>2, OneShown
      <3> QED
        BY <1>5, <3>1
    <2>4. shownTexts' = Append(shownTexts, Apology)
      BY <1>3, <2>1, <2>3
    <2> QED
      BY <1>2, <2>4, ContractCloses
  <1>7. CASE ClosedStream(sent)
    <2>1. /\ ShownAt(sent) = {Len(sent)} /\ Len(sent) \in Nat \ {0}
          /\ TextsOf(sent) = <<sent[Len(sent)].text>>
      BY <1>7, ClosedShown, OneShown
    <2>2. /\ ShownAt(sent') = {Len(sent), Len(sent) + 1}
          /\ Len(sent) + 1 \in Nat /\ Len(sent) < Len(sent) + 1
          /\ sent'[Len(sent)] = sent[Len(sent)]
      BY <1>4, <1>5, <2>1
    <2>3. TextsOf(sent') = <<sent[Len(sent)].text, Apology>>
      <3>1. TextsOf(sent') = <<sent'[Len(sent)].text, sent'[Len(sent) + 1].text>>
        BY <2>1, <2>2, TwoShown
      <3> QED
        BY <1>5, <2>2, <3>1
    <2>4. shownTexts' = Append(shownTexts, Apology)
      BY <1>3, <2>1, <2>3
    <2> QED
      BY <1>2, <2>4, ContractCloses
  <1> QED
    BY <1>1, <1>6, <1>7 DEF ChatInv, StreamInv

\* A client that leaves abandons the exchange; nothing of a node that still
\* completes is shown.
LEMMA LeavingAbandons ==
    ASSUME WayInv, ClientLeaves
    PROVE  [Contract!Next]_(Contract!vars)
  <1>1. /\ phase \in {"opening", "streaming"} /\ phase' = "left"
        /\ request' = request /\ sent' = sent
    BY DEF ClientLeaves, streamVars
  <1>2. exchangeStatus = "open" /\ exchangeStatus' = "abandoned"
    BY <1>1 DEF exchangeStatus
  <1>3. shownTexts' = shownTexts
    BY <1>1 DEF shownTexts, WayInv
  <1> QED
    BY <1>2, <1>3 DEF Contract!Next, Contract!Abandon

\* A request that is refused is closed with nothing shown; one that is taken
\* stays open.
LEMMA RequestRestsOrCloses ==
    ASSUME ChatInv, ChatInv', chat_completions
    PROVE  [Contract!Next]_(Contract!vars)
  <1>1. shownTexts = <<>> /\ exchangeStatus = "open" /\ sent = <<>>
    BY NothingYet DEF chat_completions, ChatInv, StreamInv
  <1>2. CASE request.last_role # "user"
    <2>1. /\ phase' = "done" /\ sent' = sent
          /\ response' = Response(422, "", NoAnswer, "")
      BY <1>2 DEF chat_completions, streamVars
    <2>2. response'.status = 422
      BY <2>1 DEF Response
    <2>3. TextsOf(sent') = <<>>
      BY <1>1, <2>1, OpenShown, NothingShown
    <2>4. shownTexts' = <<>>
      BY <2>2, <2>3 DEF shownTexts
    <2>5. exchangeStatus' = "closed"
      BY <2>1 DEF exchangeStatus
    <2> QED
      BY <1>1, <2>4, <2>5, ContractCloses
  <1>3. CASE request.last_role = "user"
    <2>1. phase' \in {"opening", "blocking"} /\ sent' = sent /\ response' = response
      BY <1>3 DEF chat_completions, streamVars
    <2>2. response = NoResponse
      BY DEF chat_completions, ChatInv, ResponseInv
    <2>3. response'.status = 0
      BY <2>1, <2>2 DEF NoResponse, Response
    <2>4. TextsOf(sent') = <<>>
      BY <1>1, <2>1, OpenShown, NothingShown
    <2>5. shownTexts' = <<>>
      BY <2>3, <2>4 DEF shownTexts
    <2>6. exchangeStatus' = "open"
      BY <2>1 DEF exchangeStatus
    <2> QED
      BY <1>1, <2>5, <2>6, ContractRests
  <1> QED
    BY <1>2, <1>3

\* The first chunk shows nothing.
LEMMA OpeningRests ==
    ASSUME ChatInv, WayInv, ChatInv', WayInv', OpenThink
    PROVE  [Contract!Next]_(Contract!vars)
  <1>1. phase = "opening" /\ phase' = "streaming" /\ is_thinking_open'
    BY DEF OpenThink
  <1>2. shownTexts = <<>> /\ exchangeStatus = "open"
    BY <1>1, NothingYet
  <1>3. OpenStream(sent')
    BY <1>1 DEF ChatInv, StreamInv
  <1>4. TextsOf(sent') = <<>>
    BY <1>3, OpenShown, NothingShown
  <1>5. shownTexts' = <<>>
    BY <1>1, <1>4 DEF shownTexts, WayInv
  <1>6. exchangeStatus' = "open"
    BY <1>1 DEF exchangeStatus
  <1> QED
    BY <1>2, <1>5, <1>6, ContractRests

\* A node of a run that nobody sees.
LEMMA RunningRests ==
    ASSUME RunBlocking
    PROVE  [Contract!Next]_(Contract!vars)
  <1>1. request' = request /\ phase' = phase /\ sent' = sent /\ response' = response
    BY DEF RunBlocking, streamVars
  <1>2. exchangeStatus' = exchangeStatus
    BY <1>1 DEF exchangeStatus
  <1>3. shownTexts' = shownTexts
    BY <1>1 DEF shownTexts
  <1> QED
    BY <1>2, <1>3, ContractRests

\* The JSON response shows the answer of the run, or the apology of a run that
\* raised, and closes the exchange.
LEMMA ResponseCloses ==
    ASSUME ChatInv, WayInv, Respond
    PROVE  [Contract!Next]_(Contract!vars)
  <1>1. /\ phase = "blocking" /\ phase' = "done" /\ request' = request
        /\ node \in Stopped /\ response' = JsonResponse(run_graph_blocking)
    BY DEF Respond
  <1>2. shownTexts = <<>> /\ exchangeStatus = "open" /\ exchangeStatus' = "closed"
    BY <1>1, NothingYet DEF exchangeStatus
  <1>3. response'.status = 200
    BY <1>1, ResponseForm
  <1>4. response'.content = IF node = "raised" THEN Apology ELSE state.llm_output
    BY <1>1, ResponseOf
  <1>5. response'.content \in PossibleAnswers
    <2>1. CASE node = "raised"
      BY <1>4, <2>1 DEF PossibleAnswers
    <2>2. CASE node = "END"
      <3>1. response = NoResponse
        BY <1>1 DEF ChatInv, ResponseInv
      <3>2. response.status = 0
        BY <3>1 DEF NoResponse, Response
      <3>3. IInv
        BY <3>2 DEF ChatInv, ResponseInv
      <3>4. /\ state \in ConversationState /\ state.previous_answers # <<>>
            /\ state.llm_output = state.previous_answers[Len(state.previous_answers)]
        BY <2>2, <3>3 DEF IInv, TypeOK, AnswerInv, Judged
      <3>5. state.llm_output \in Answer
        BY <3>4, JudgedIsAnswer
      <3> QED
        BY <1>4, <2>2, <3>5 DEF PossibleAnswers
    <2> QED
      BY <1>1, <2>1, <2>2 DEF Stopped
  <1>6. shownTexts' = <<response'.content>>
    BY <1>1, <1>3 DEF shownTexts, WayInv
  <1> QED
    BY <1>2, <1>5, <1>6, ContractCloses

\* A response that fails shows the fallback and closes it too.
LEMMA FallbackCloses ==
    ASSUME ChatInv, WayInv, RespondFailed
    PROVE  [Contract!Next]_(Contract!vars)
  <1>1. /\ phase = "blocking" /\ phase' = "done" /\ request' = request
        /\ response' = Response(500, "Geoq-Critical-Fallback", Apology, "error")
    BY DEF RespondFailed
  <1>2. shownTexts = <<>> /\ exchangeStatus = "open" /\ exchangeStatus' = "closed"
    BY <1>1, NothingYet DEF exchangeStatus
  <1>3. response'.status = 500
    BY <1>1 DEF Response
  <1>4. response'.content = Apology
    BY <1>1 DEF Response
  <1>5. shownTexts' = <<Apology>>
    <2>1. shownTexts' = <<response'.content>>
      BY <1>1, <1>3 DEF shownTexts, WayInv
    <2> QED
      BY <1>4, <2>1
  <1>6. Apology \in PossibleAnswers
    BY DEF PossibleAnswers
  <1> QED
    BY <1>2, <1>5, <1>6, ContractCloses

\* A stutter of the endpoint is one of the contract.
LEMMA StutterRests ==
    ASSUME UNCHANGED chatVars
    PROVE  [Contract!Next]_(Contract!vars)
  <1>1. request' = request /\ phase' = phase /\ sent' = sent /\ response' = response
    BY DEF chatVars
  <1>2. exchangeStatus' = exchangeStatus
    BY <1>1 DEF exchangeStatus
  <1>3. shownTexts' = shownTexts
    BY <1>1 DEF shownTexts
  <1> QED
    BY <1>2, <1>3, ContractRests

\* Every step of the endpoint is a step of the contract or a stutter of it.
LEMMA ContractStep ==
    ChatInv /\ ChatInv' /\ WayInv /\ WayInv' /\ [ChatNext]_chatVars
        => [Contract!Next]_(Contract!vars)
  <1> SUFFICES ASSUME ChatInv, ChatInv', WayInv, WayInv', [ChatNext]_chatVars
               PROVE  [Contract!Next]_(Contract!vars)
    OBVIOUS
  <1>1. CASE chat_completions
    BY <1>1, RequestRestsOrCloses
  <1>2. CASE OpenThink
    BY <1>2, OpeningRests
  <1>3. CASE StreamNode
    BY <1>3, NodeShows
  <1>4. CASE FinishStream
    BY <1>4, FinishCloses
  <1>5. CASE FailStream
    BY <1>5, FailureApologises
  <1>6. CASE RunBlocking
    BY <1>6, RunningRests
  <1>7. CASE Respond
    BY <1>7, ResponseCloses
  <1>8. CASE RespondFailed
    BY <1>8, FallbackCloses
  <1>9. CASE ClientLeaves
    BY <1>9, LeavingAbandons
  <1>10. CASE UNCHANGED chatVars
    BY <1>10, StutterRests
  <1> QED
    BY <1>1, <1>2, <1>3, <1>4, <1>5, <1>6, <1>7, <1>8, <1>9, <1>10 DEF ChatNext, Work, Over

\* Streaming or not, however the graph goes and whenever the client leaves,
\* the endpoint of app.py does what ChatContract allows: it shows at most one
\* answer, though the search node may run again and finalize_answer always
\* runs, apologises at most once and only as it ends, and then shows nothing.
THEOREM EndpointKeepsContract ==
    ChatSpec => Contract!Init /\ [][Contract!Next]_(Contract!vars)
  <1>1. ChatInit => Contract!Init
    BY ContractStarts
  <1>2. ChatInit => WayInv
    BY DEF ChatInit, WayInv
  <1>3. ChatSpec => []WayInv
    BY <1>2, WayKept, PTL DEF ChatSpec
  <1>4. ChatInv /\ ChatInv' /\ WayInv /\ WayInv' /\ [ChatNext]_chatVars
            => [Contract!Next]_(Contract!vars)
    BY ContractStep
  <1> QED
    BY <1>1, <1>3, <1>4, ChatInvariant, PTL DEF ChatSpec
-----------------------------------------------------------------------------
(* How far an exchange is from its end.                                    *)

\* The steps of the endpoint besides the nodes, and with them.
PhasesAhead ==
    CASE phase = "received" -> 3
      [] phase = "opening" -> 2
      [] OTHER -> 1

WorkLeft == IF phase \in {"done", "left"} THEN 0 ELSE NodesLeft + PhasesAhead

\* What is left is a natural number, and something as long as it is not over.
LEMMA WorkLeftType ==
    ASSUME ChatInv
    PROVE  /\ WorkLeft \in Nat
           /\ phase \notin {"done", "left"} =>
                /\ IInv /\ NodesLeft \in Nat
                /\ PhasesAhead \in 1..3
                /\ WorkLeft = NodesLeft + PhasesAhead
  <1>1. PhasesAhead \in 1..3
    BY DEF PhasesAhead
  <1>2. phase \notin {"done", "left"} => IInv
    <2>1. ResponseInv
      BY DEF ChatInv
    <2>2. NoResponse.status # 500
      BY DEF NoResponse, Response
    <2> QED
      BY <2>1, <2>2 DEF ResponseInv
  <1>3. phase \notin {"done", "left"} => NodesLeft \in Nat
    BY <1>2, NodesLeftType DEF NodesLeftInv
  <1> QED
    BY <1>1, <1>2, <1>3 DEF WorkLeft

\* A sum falls when one part does and the other does not grow.
LEMMA SumFalls ==
    ASSUME NEW m \in Nat, NEW n \in Nat, NEW i \in 1..3, NEW j \in 1..3
    PROVE  /\ n < m /\ j = i => n + j < m + i
           /\ n = m /\ j < i => n + j < m + i
  OBVIOUS

\* Every step of the endpoint leaves less work, by a node that has run or by
\* going on to the next phase.
LEMMA ChatComesCloser ==
    ASSUME ChatInv, Work \/ ClientLeaves
    PROVE  WorkLeft' < WorkLeft
  <1>1. phase \notin {"done", "left"}
    BY DEF Work, ClientLeaves, chat_completions, OpenThink, StreamNode,
           FinishStream, FailStream, RunBlocking, Respond, RespondFailed
  <1>2. IInv
    BY <1>1, WorkLeftType
  <1>3. /\ NodesLeft \in Nat /\ PhasesAhead \in 1..3
         /\ WorkLeft = NodesLeft + PhasesAhead
    BY <1>1, WorkLeftType
  <1>4. CASE phase' \in {"done", "left"}
    BY <1>4, <1>3 DEF WorkLeft
  <1>5. CASE /\ UNCHANGED graphVars /\ phase' \notin {"done", "left"}
             /\ PhasesAhead' < PhasesAhead /\ PhasesAhead' \in 1..3
    <2>1. NodesLeft' = NodesLeft
      BY <1>5 DEF graphVars, vars, NodesLeft
    <2>2. WorkLeft' = NodesLeft' + PhasesAhead'
      BY <1>5 DEF WorkLeft
    <2>3. PhasesAhead' < PhasesAhead /\ PhasesAhead' \in 1..3
      BY <1>5
    <2>4. NodesLeft' + PhasesAhead' < NodesLeft + PhasesAhead
      BY <1>3, <2>1, <2>3, SumFalls
    <2> QED
      BY <1>3, <2>2, <2>4
  <1>6. CASE Step /\ phase' = phase
    <2>1. NodesLeft' < NodesLeft /\ NodesLeft' \in Nat
      BY <1>2, <1>6, StepComesCloser
    <2>2. PhasesAhead' = PhasesAhead
      BY <1>6 DEF PhasesAhead
    <2>3. WorkLeft' = NodesLeft' + PhasesAhead'
      BY <1>1, <1>6 DEF WorkLeft
    <2>4. NodesLeft' + PhasesAhead' < NodesLeft + PhasesAhead
      BY <1>3, <2>1, <2>2, SumFalls
    <2> QED
      BY <1>3, <2>3, <2>4
  <1>7. CASE chat_completions
    <2>1. CASE request.last_role = "user"
      <3>1. /\ phase = "received" /\ phase' \in {"opening", "blocking"}
            /\ UNCHANGED graphVars
        BY <1>7, <2>1 DEF chat_completions
      <3>2. PhasesAhead' < PhasesAhead /\ PhasesAhead' \in 1..3
        BY <3>1 DEF PhasesAhead
      <3> QED
        BY <1>5, <3>1, <3>2
    <2>2. CASE request.last_role # "user"
      BY <1>4, <1>7, <2>2 DEF chat_completions
    <2> QED
      BY <2>1, <2>2
  <1>8. CASE OpenThink
    <2>1. PhasesAhead' < PhasesAhead /\ PhasesAhead' \in 1..3
      BY <1>8 DEF OpenThink, PhasesAhead
    <2> QED
      BY <1>5, <1>8, <2>1 DEF OpenThink
  <1>9. CASE StreamNode \/ RunBlocking
    BY <1>6, <1>9 DEF StreamNode, RunBlocking
  <1>10. CASE FinishStream \/ FailStream \/ Respond \/ RespondFailed \/ ClientLeaves
    BY <1>4, <1>10 DEF FinishStream, FailStream, Respond, RespondFailed, ClientLeaves
  <1> QED
    BY <1>7, <1>8, <1>9, <1>10 DEF Work

\* No request occupies the server for more than the nodes of its attempts and
\* three steps of the endpoint, streaming or not, and whenever the client leaves.
THEOREM ExchangeIsShort ==
    ChatSpec => /\ WorkLeft = 8 * (MAX_REFINEMENT_ITERATIONS + 1) + 3
                /\ [](WorkLeft \in Nat)
                /\ [][WorkLeft' < WorkLeft]_chatVars
  <1>1. ChatInit => WorkLeft = 8 * (MAX_REFINEMENT_ITERATIONS + 1) + 3
    <2> SUFFICES ASSUME ChatInit
                 PROVE  WorkLeft = 8 * (MAX_REFINEMENT_ITERATIONS + 1) + 3
      OBVIOUS
    <2>1. NodesLeft = 8 * (MAX_REFINEMENT_ITERATIONS + 1)
      BY NodesLeftAtFirst DEF ChatInit
    <2> QED
      BY <2>1 DEF ChatInit, WorkLeft, PhasesAhead
  <1>2. ChatInv => WorkLeft \in Nat
    BY WorkLeftType
  <1>3. ChatInv /\ [ChatNext]_chatVars => [WorkLeft' < WorkLeft]_chatVars
    BY ChatComesCloser DEF ChatNext, Over
  <1>4. ChatSpec => WorkLeft = 8 * (MAX_REFINEMENT_ITERATIONS + 1) + 3
    BY <1>1, PTL DEF ChatSpec
  <1>5. ChatSpec => [](WorkLeft \in Nat)
    BY <1>2, ChatInvariant, PTL
  <1>6. ChatSpec => [][WorkLeft' < WorkLeft]_chatVars
    BY <1>3, ChatInvariant, PTL DEF ChatSpec
  <1> QED
    BY <1>4, <1>5, <1>6
=============================================================================
