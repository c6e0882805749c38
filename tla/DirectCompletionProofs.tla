------------------------ MODULE DirectCompletionProofs ------------------------
(***************************************************************************)
(* Proofs about DirectCompletion, for answers of any length and any number *)
(* of broken connections: nothing of a refusal is streamed, and on a       *)
(* connection that holds a response is whole.                              *)
(*                                                                         *)
(* The server sees acknowledgements only, so AcceptedInv says what one     *)
(* means while it is under way: one with a status is emitted after the     *)
(* provider accepted, or is a refusal with a status of its own, and only a *)
(* provider that accepted has sent pieces.  The provider is not asked      *)
(* again.  FlowInv follows an answer from the browser to the response: the *)
(* acknowledgement is first, and nothing comes between the pieces.         *)
(***************************************************************************)
EXTENDS DirectCompletion, TLAPS

Accepted == {"answering", "complete", "failed"}

Streamed == Accepted \cup {"refused_with_status"}

Positive == {ack \in Acks : "status" \in ack.body}

Numbered == [type : {"piece"}, number : 1..MaxPieces]

Holds(messages, kinds) == \E i \in 1..Len(messages) : messages[i] \in kinds

AcceptedInv ==
    /\ TypeOK
    /\ client \in {"idle", "asking"} => provider \notin Streamed
    /\ client = "reading" => provider \in Accepted
    /\ stream /\ Holds(up, Positive) => provider \in Streamed
    /\ provider \notin Accepted => /\ ~ Holds(queue, Numbered)
                                  /\ ~ Holds(up, Numbered)
    /\ StreamsOnlyAccepted

-----------------------------------------------------------------------------
(* Messages.                                                               *)

\* What the browser sends is an acknowledgement or a piece, never both.
LEMMA MessageTypes ==
    ASSUME TypeOK
    PROVE  /\ \A n \in 1..MaxPieces : Piece(n) \in Pieces
           /\ Done \in Pieces
           /\ Acks \cap Pieces = {}
           /\ Positive \subseteq Acks
  BY DEF TypeOK, Piece, Done, Acks, Pieces, Positive

\* An acknowledgement is one of Acks, and has the fields of its body.
LEMMA AckType ==
    ASSUME TypeOK, NEW body \in Bodies
    PROVE  /\ Ack(body) \in Acks
           /\ Ack(body) \in Positive => "status" \in body
  <1>1. breaks \in 0..MaxBreaks
    BY DEF TypeOK
  <1> QED
    BY <1>1 DEF Ack, Acks, Positive

\* The two bodies the browser makes itself.
LEMMA OwnBodies == {} \in Bodies /\ {"status"} \in Bodies
  BY DEF Bodies

\* Neither an acknowledgement nor the end is a piece of an answer.
LEMMA OnlyNumbered ==
    /\ Acks \cap Numbered = {}
    /\ Done \notin Numbered
    /\ \A m \in Pieces : m \in Numbered \/ m.type = "done"
  BY DEF Acks, Pieces, Done, Numbered

\* A sequence joined to another holds what either holds.
LEMMA Joined ==
    ASSUME NEW S, NEW kinds, NEW a \in Seq(S), NEW b \in Seq(S)
    PROVE  /\ a \o b \in Seq(S)
           /\ Holds(a \o b, kinds) <=> Holds(a, kinds) \/ Holds(b, kinds)
  <1>1. /\ a \o b \in Seq(S)
        /\ Len(a \o b) = Len(a) + Len(b)
        /\ \A i \in 1..Len(a) + Len(b) :
             (a \o b)[i] = IF i <= Len(a) THEN a[i] ELSE b[i - Len(a)]
    OBVIOUS
  <1>2. ASSUME Holds(a \o b, kinds)
        PROVE  Holds(a, kinds) \/ Holds(b, kinds)
    <2>1. PICK i \in 1..Len(a) + Len(b) : (a \o b)[i] \in kinds
      BY <1>1, <1>2 DEF Holds
    <2>2. CASE i <= Len(a)
      BY <1>1, <2>1, <2>2 DEF Holds
    <2>3. CASE i > Len(a)
      <3>1. i - Len(a) \in 1..Len(b) /\ b[i - Len(a)] \in kinds
        BY <1>1, <2>1, <2>3
      <3>2. QED
        BY <3>1 DEF Holds
    <2>4. QED
      BY <2>2, <2>3
  <1>3. ASSUME Holds(a, kinds)
        PROVE  Holds(a \o b, kinds)
    BY <1>1, <1>3 DEF Holds
  <1>4. ASSUME Holds(b, kinds)
        PROVE  Holds(a \o b, kinds)
    <2>1. PICK i \in 1..Len(b) : b[i] \in kinds
      BY <1>4 DEF Holds
    <2>2. i + Len(a) \in 1..Len(a) + Len(b) /\ (a \o b)[i + Len(a)] = b[i]
      BY <1>1, <2>1
    <2>3. QED
      BY <1>1, <2>1, <2>2 DEF Holds
  <1>5. QED
    BY <1>1, <1>2, <1>3, <1>4

\* What is left of what was under way holds nothing new.
LEMMA Survive ==
    ASSUME TypeOK, NEW kept \in 0..Len(up), NEW kinds
    PROVE  /\ Survivors(kept) \in Seq(Acks \cup Pieces)
           /\ Holds(Survivors(kept), kinds) => Holds(up, kinds)
  <1>1. /\ SubSeq(up, 1, kept) \in Seq(Acks \cup Pieces)
        /\ Len(SubSeq(up, 1, kept)) = kept
        /\ \A i \in 1..kept : SubSeq(up, 1, kept)[i] = up[i]
    BY DEF TypeOK
  <1>2. QED
    BY <1>1 DEF Survivors, Holds, TypeOK

\* What the browser emits in one step.
LEMMA Emitted ==
    ASSUME TypeOK, NEW more \in Seq(Acks \cup Pieces), up' = up \o more
    PROVE  /\ up' \in Seq(Acks \cup Pieces)
           /\ Holds(up', Positive) => Holds(up, Positive) \/ Holds(more, Positive)
           /\ Holds(up', Numbered) => Holds(up, Numbered) \/ Holds(more, Numbered)
  BY Joined DEF TypeOK

\* One acknowledgement and the end.
LEMMA AckAndDone ==
    ASSUME TypeOK, NEW body \in Bodies
    PROVE  /\ <<Ack(body)>> \o <<Done>> \in Seq(Acks \cup Pieces)
           /\ ~ Holds(<<Ack(body)>> \o <<Done>>, Numbered)
           /\ "status" \notin body => ~ Holds(<<Ack(body)>> \o <<Done>>, Positive)
  <1>1. /\ <<Ack(body)>> \in Seq(Acks \cup Pieces)
        /\ <<Done>> \in Seq(Acks \cup Pieces)
        /\ ~ Holds(<<Ack(body)>>, Numbered) /\ ~ Holds(<<Done>>, Numbered)
        /\ ~ Holds(<<Done>>, Positive)
        /\ "status" \notin body => ~ Holds(<<Ack(body)>>, Positive)
    <2>1. /\ Ack(body) \in Acks /\ Ack(body) \notin Numbered
          /\ Ack(body) \in Positive => "status" \in body
          /\ Done \in Pieces /\ Done \notin Numbered /\ Done \notin Positive
      BY AckType, MessageTypes, OnlyNumbered
    <2> QED
      BY <2>1 DEF Holds
  <1> QED
    BY <1>1, Joined

-----------------------------------------------------------------------------
\* At first nothing has been sent.
LEMMA InitAccepted == Init => AcceptedInv
  <1> SUFFICES ASSUME Init PROVE AcceptedInv
    OBVIOUS
  <1>1. TypeOK
    <2>1. queue \in Seq(Pieces) /\ up \in Seq(Acks \cup Pieces) /\ out \in Seq(1..MaxPieces)
      BY DEF Init
    <2>2. read \in 0..MaxPieces /\ breaks \in 0..MaxBreaks
      BY DirectAssumption DEF Init
    <2>3. stream \in BOOLEAN /\ listening \in BOOLEAN /\ down \in BOOLEAN
      BY Zenon DEF Init
    <2>4. QED
      BY <2>1, <2>2, <2>3 DEF Init, TypeOK
  <1>2. ~ Holds(up, Positive) /\ ~ Holds(up, Numbered) /\ ~ Holds(queue, Numbered)
    BY DEF Init, Holds
  <1>3. QED
    BY <1>1, <1>2 DEF Init, AcceptedInv, Accepted, Streamed, StreamsOnlyAccepted

\* The server's own steps: only an acknowledgement makes it stream.
LEMMA ServerAccepted ==
    ASSUME AcceptedInv,
           \/ event_caller \/ event_generator \/ Background
           \/ CallTimesOut \/ Stopped
    PROVE  AcceptedInv'
  <1> USE DEF AcceptedInv, TypeOK, StreamsOnlyAccepted, Accepted, Streamed, Holds
  <1>1. CASE event_caller
    BY <1>1 DEF event_caller, ListensBeforeCall
  <1>2. CASE event_generator
    <2>1. queue # <<>> /\ Head(queue) \in Pieces /\ Tail(queue) \in Seq(Pieces)
      BY <1>2 DEF event_generator
    <2>2. Head(queue).type # "done" => Head(queue).number \in 1..MaxPieces
      BY <2>1 DEF Pieces, Done
    <2>3. out' \in Seq(1..MaxPieces) /\ queue' \in Seq(Pieces)
      <3>1. CASE Head(queue).type = "done"
        BY <1>2, <2>1, <3>1 DEF event_generator
      <3>2. CASE Head(queue).type # "done"
        <4>1. out' = Append(out, Head(queue).number) /\ queue' = Tail(queue)
          BY <1>2, <3>2, Zenon DEF event_generator
        <4>2. QED
          BY <2>1, <2>2, <3>2, <4>1
      <3>3. QED
        BY <3>1, <3>2
    <2>4. /\ server' \in {server, "ended"} /\ server = "streaming"
          /\ UNCHANGED <<stream, listening, down, up, client, read, provider, breaks>>
      BY <1>2 DEF event_generator
    <2>5. TypeOK'
      BY <2>3, <2>4
    <2>6. provider \notin Accepted => out' = out
      <3>1. provider \notin Accepted => Head(queue) \notin Numbered
        BY <2>1
      <3> QED
        BY <1>2, <2>1, <3>1, OnlyNumbered DEF event_generator
    <2>7. Holds(queue', Numbered) => Holds(queue, Numbered)
      <3>1. \A i \in 1..Len(queue') : queue'[i] = queue[i + 1] /\ i + 1 \in 1..Len(queue)
        BY <1>2, <2>1 DEF event_generator
      <3> QED
        BY <3>1
    <2>8. StreamsOnlyAccepted'
      BY <2>4, <2>6
    <2>9. QED
      BY <2>4, <2>5, <2>7, <2>8
  <1>3. CASE Background
    BY <1>3 DEF Background, background
  <1>4. CASE CallTimesOut
    BY <1>4 DEF CallTimesOut
  <1>5. CASE Stopped
    BY <1>5 DEF Stopped
  <1>6. QED
    BY <1>1, <1>2, <1>3, <1>4, <1>5

\* A message that arrives: a stream begins only with a positive acknowledgement.
LEMMA ReceiveAccepted ==
    ASSUME AcceptedInv, Receive
    PROVE  AcceptedInv'
  <1>1. /\ up # <<>> /\ Head(up) \in Acks \cup Pieces
        /\ up' \in Seq(Acks \cup Pieces)
        /\ \A i \in 1..Len(up') : up'[i] = up[i + 1] /\ i + 1 \in 1..Len(up)
        /\ Head(up) = up[1] /\ 1 \in 1..Len(up)
    BY DEF Receive, AcceptedInv, TypeOK
  <1>2. /\ Holds(up', Positive) => Holds(up, Positive)
        /\ Holds(up', Numbered) => Holds(up, Numbered)
    BY <1>1 DEF Holds
  <1>3. CASE Head(up).type = "ack"
    <2>1. Head(up) \in Acks
      BY <1>1, <1>3 DEF Pieces, Done
    <2>2. server' \in {server, Answered(Head(up).body)} /\ UNCHANGED <<listening, queue>>
      BY <1>3 DEF Receive, ack_callback
    <2>3. Answered(Head(up).body) \in {"streaming", "returned", "raised"}
      BY DEF Answered
    <2>4. Answered(Head(up).body) = "streaming" => stream /\ Head(up) \in Positive
      BY <2>1 DEF Answered, Positive
    <2>5. Answered(Head(up).body) = "streaming" => provider \in Streamed
      BY <1>1, <2>4 DEF AcceptedInv, Holds
    <2>6. UNCHANGED <<stream, out, down, client, read, provider, breaks>>
      BY DEF Receive
    <2>7. TypeOK'
      BY <1>1, <2>2, <2>3, <2>6 DEF AcceptedInv, TypeOK
    <2>8. StreamsOnlyAccepted'
      BY <2>2, <2>3, <2>5, <2>6
      DEF AcceptedInv, StreamsOnlyAccepted, Accepted, Streamed
    <2>9. QED
      BY <1>2, <2>2, <2>6, <2>7, <2>8 DEF AcceptedInv
  <1>4. CASE Head(up).type # "ack"
    <2>1. Head(up) \in Pieces
      BY <1>1, <1>4 DEF Acks
    <2>2. Append(queue, Head(up)) \in Seq(Pieces) /\ queue \in Seq(Pieces)
      BY <2>1 DEF AcceptedInv, TypeOK
    <2>3. message_listener(Head(up))
      BY <1>4, Zenon DEF Receive
    <2>4. queue' \in {queue, Append(queue, Head(up))} /\ UNCHANGED <<server, listening>>
      BY <2>3, Zenon DEF message_listener
    <2>5. UNCHANGED <<stream, out, down, client, read, provider, breaks>>
      BY DEF Receive
    <2>6. TypeOK'
      BY <1>1, <2>2, <2>4, <2>5 DEF AcceptedInv, TypeOK
    <2>7. Holds(queue', Numbered) => Holds(queue, Numbered) \/ Holds(up, Numbered)
      <3>1. CASE queue' = Append(queue, Head(up))
        <4>1. /\ Len(queue') = Len(queue) + 1 /\ queue'[Len(queue) + 1] = up[1]
              /\ \A i \in 1..Len(queue) : queue'[i] = queue[i]
          BY <1>1, <2>2, <3>1
        <4> QED
          BY <1>1, <2>2, <4>1 DEF Holds
      <3>2. CASE queue' = queue
        BY <3>2
      <3> QED
        BY <2>4, <3>1, <3>2
    <2>8. QED
      BY <1>2, <2>4, <2>5, <2>6, <2>7 DEF AcceptedInv, StreamsOnlyAccepted
  <1>5. QED
    BY <1>3, <1>4

\* The browser's steps.  The provider is asked once, and what is emitted of one
\* that has not accepted is no piece, and has a status only if the provider's
\* body has.
LEMMA BrowserAccepted ==
    ASSUME AcceptedInv, Browser
    PROVE  AcceptedInv'
  <1> USE DEF AcceptedInv, StreamsOnlyAccepted, Accepted, Streamed
  <1>1. CASE chatEventHandler
    <2>1. /\ client = "idle" /\ client' \in {"dropped", "asking"}
          /\ provider' \in {provider, "asked"} /\ down' = FALSE
          /\ UNCHANGED <<stream, server, listening, queue, out, up, read, breaks>>
      BY <1>1 DEF chatEventHandler
    <2>2. TypeOK'
      BY <2>1 DEF TypeOK
    <2>3. provider \notin Streamed /\ provider' \notin Streamed
      BY <2>1
    <2>4. ~ Holds(up', Positive) \/ ~ stream'
      BY <2>1, <2>3
    <2>5. ~ Holds(queue', Numbered) /\ ~ Holds(up', Numbered) /\ out' = <<>>
      BY <2>1, <2>3
    <2>6. StreamsOnlyAccepted'
      BY <2>1, <2>3, <2>5
    <2> QED
      BY <2>1, <2>2, <2>3, <2>4, <2>5, <2>6
  <1>2. CASE CompletionFails
    <2>1. PICK body \in Bodies :
             /\ provider' = IF "status" \in body THEN "refused_with_status"
                                                 ELSE "refused"
             /\ up' = up \o WithDone(<<Ack(body)>>, TRUE)
      BY <1>2 DEF CompletionFails
    <2>2. /\ up' \in Seq(Acks \cup Pieces)
          /\ Holds(up', Numbered) => Holds(up, Numbered)
          /\ "status" \notin body => (Holds(up', Positive) => Holds(up, Positive))
      BY <2>1, AckAndDone, Emitted DEF WithDone
    <2>3. client = "asking" /\ client' = "over" /\ provider \notin Streamed
      BY <1>2 DEF CompletionFails
    <2>4. UNCHANGED <<stream, server, listening, queue, out, down, read, breaks>>
      BY <1>2 DEF CompletionFails
    <2>5. TypeOK'
      BY <2>1, <2>2, <2>3, <2>4 DEF TypeOK
    <2>6. ~ Holds(up', Numbered) /\ ~ Holds(queue', Numbered) /\ out' = <<>>
      BY <2>2, <2>3, <2>4
    <2>7. StreamsOnlyAccepted'
      BY <2>1, <2>3, <2>4, <2>6
    <2>8. stream' /\ Holds(up', Positive) => provider' \in Streamed
      BY <2>1, <2>2, <2>3, <2>4
    <2>9. QED
      BY <2>3, <2>5, <2>6, <2>7, <2>8
  <1>3. CASE CompletionReturns
    <2>1. PICK body \in Bodies : up' = up \o (<<Ack(body)>> \o <<Done>>)
      BY <1>3 DEF CompletionReturns, WithDone
    <2>2. <<Ack(body)>> \o <<Done>> \in Seq(Acks \cup Pieces)
      BY AckType, MessageTypes
    <2>3. up' \in Seq(Acks \cup Pieces)
      BY <2>1, <2>2 DEF TypeOK
    <2>4. QED
      BY <1>3, <2>3 DEF CompletionReturns, TypeOK
  <1>4. CASE CompletionStarts
    <2>1. up' \in Seq(Acks \cup Pieces)
      BY <1>4, AckType, OwnBodies DEF CompletionStarts, TypeOK
    <2>2. provider' = "answering"
      BY <1>4 DEF CompletionStarts, AcksResponse
    <2>3. QED
      BY <1>4, <2>1, <2>2 DEF CompletionStarts, TypeOK
  <1>5. CASE processStream
    <2>1. read' \in 0..MaxPieces /\ read' \in 1..MaxPieces
      BY <1>5, DirectAssumption DEF processStream, TypeOK
    <2>2. up' \in Seq(Acks \cup Pieces)
      BY <1>5, <2>1, MessageTypes DEF processStream, TypeOK
    <2>3. QED
      BY <1>5, <2>1, <2>2 DEF processStream, TypeOK
  <1>6. CASE StreamEnds
    <2>1. up' = up \o (<<>> \o <<Done>>)
      BY <1>6 DEF StreamEnds, WithDone
    <2>2. up' \in Seq(Acks \cup Pieces)
      BY <2>1, MessageTypes DEF TypeOK
    <2>3. QED
      BY <1>6, <2>2 DEF StreamEnds, TypeOK
  <1>7. CASE StreamFails
    <2>1. up' = up \o (<<Ack({})>> \o <<Done>>)
      BY <1>7 DEF StreamFails, WithDone
    <2>2. <<Ack({})>> \o <<Done>> \in Seq(Acks \cup Pieces)
      BY AckType, OwnBodies, MessageTypes
    <2>3. up' \in Seq(Acks \cup Pieces)
      BY <2>1, <2>2 DEF TypeOK
    <2>4. QED
      BY <1>7, <2>3 DEF StreamFails, TypeOK
  <1>8. QED
    BY <1>1, <1>2, <1>3, <1>4, <1>5, <1>6, <1>7 DEF Browser

\* A connection that comes back or a tab that closes acknowledges nothing.
LEMMA ConnectionAccepted ==
    ASSUME AcceptedInv, Reconnects \/ TabCloses
    PROVE  AcceptedInv'
  <1>1. PICK kept \in 0..Len(up) : up' = Survivors(kept)
    BY DEF Reconnects, TabCloses
  <1>2. /\ up' \in Seq(Acks \cup Pieces)
        /\ Holds(up', Positive) => Holds(up, Positive)
        /\ Holds(up', Numbered) => Holds(up, Numbered)
    BY <1>1, Survive DEF AcceptedInv
  <1>3. breaks' \in 0..MaxBreaks /\ client' \in {client, "gone"}
    BY DirectAssumption DEF Reconnects, TabCloses, AcceptedInv, TypeOK
  <1>4. TypeOK'
    BY <1>2, <1>3 DEF Reconnects, TabCloses, AcceptedInv, TypeOK
  <1>5. UNCHANGED <<server, stream, provider, queue, out>>
    BY DEF Reconnects, TabCloses
  <1>6. QED
    BY <1>2, <1>3, <1>4, <1>5 DEF AcceptedInv, StreamsOnlyAccepted

\* Every step.
LEMMA NextAccepted == AcceptedInv /\ [Next]_vars => AcceptedInv'
  <1> SUFFICES ASSUME AcceptedInv, [Next]_vars PROVE AcceptedInv'
    OBVIOUS
  <1>1. CASE UNCHANGED vars
    BY <1>1 DEF vars, AcceptedInv, TypeOK, StreamsOnlyAccepted, Holds
  <1>2. CASE Next
    BY <1>2, ServerAccepted, ReceiveAccepted, BrowserAccepted, ConnectionAccepted
    DEF Next, Server
  <1>3. QED
    BY <1>1, <1>2

\* An acknowledgement with a status that is under way to a stream, or was received,
\* is of a provider that accepted or whose refusal has one, and only a provider that
\* accepted has sent pieces (+layout.svelte 364-416).
THEOREM AcceptedInvariant == Spec => []AcceptedInv
  BY InitAccepted, NextAccepted, PTL DEF Spec

\* The variables keep their types: what the server queues is a piece or the end,
\* never an acknowledgement.
THEOREM DirectTypesCorrect == Spec => []TypeOK
  <1>1. AcceptedInv => TypeOK
    BY DEF AcceptedInv
  <1>2. QED
    BY <1>1, AcceptedInvariant, PTL

\* Nothing a provider says when it refuses is streamed, and its refusal is raised
\* unless it has a status, however connections break and calls time out
\* (chat.py 112-145, +layout.svelte 364-373 and 412).
THEOREM OnlyAccepted == Spec => []StreamsOnlyAccepted
  <1>1. AcceptedInv => StreamsOnlyAccepted
    BY DEF AcceptedInv
  <1>2. QED
    BY <1>1, AcceptedInvariant, PTL

-----------------------------------------------------------------------------
(* A stream on a connection that holds.                                    *)

\* The messages s that follow the first n of r pieces: the rest of the pieces, in
\* order, and then what ends the channel.
Whole(s, n, r, progress) ==
    /\ r - n \in 0..Len(s)
    /\ \A i \in 1..Len(s) : IF i <= r - n THEN s[i] = Piece(n + i)
                                          ELSE s[i] \in Acks \cup {Done}
    /\ progress = "reading" => Len(s) = r - n

FirstAcks == [type : {"ack"}, body : Bodies, sid : {0}]

FirstPositive == {ack \in FirstAcks : "status" \in ack.body}

\* Nothing has begun.
CalledInv ==
    /\ client = "idle" /\ ~ down
    /\ up = <<>> /\ queue = <<>> /\ out = <<>> /\ read = 0

\* The server waits: an acknowledgement comes first, and if it is positive the
\* answer is behind it.
WaitingInv ==
    /\ listening /\ queue = <<>> /\ out = <<>>
    /\ client \in {"idle", "dropped", "asking"} => up = <<>> /\ read = 0
    /\ client \in {"reading", "over"} =>
         /\ up # <<>>
         /\ up[1] \in FirstAcks
         /\ up[1] \in FirstPositive => Whole(Tail(up), 0, read, client)

\* The server streams: the answer is in what was yielded, queued and is under way.
StreamingInv ==
    /\ listening /\ client \in {"reading", "over"}
    /\ \A i \in 1..Len(out) : out[i] = i
    /\ Whole(queue \o up, Len(out), read, client)

FlowInv ==
    /\ server = "streaming" => stream
    /\ breaks = 0 /\ client # "gone" =>
         /\ server = "called" => CalledInv
         /\ server = "waiting" /\ stream => WaitingInv
         /\ server = "streaming" => StreamingInv

\* A piece is neither an acknowledgement nor the end.
LEMMA PieceIsNoEnd ==
    ASSUME NEW k
    PROVE  /\ Piece(k) \notin Acks \cup {Done}
           /\ Piece(k).type = "piece" /\ Piece(k).number = k
           /\ Done.type = "done"
           /\ \A m \in Acks : m.type = "ack"
  BY DEF Piece, Acks, Done

\* What is queued is never an acknowledgement.
LEMMA EndTypes == \A m \in Pieces : m \notin Acks
  BY DEF Pieces, Done, Acks

\* One piece more, read and emitted.
LEMMA OnePieceMore ==
    ASSUME NEW s \in Seq(Acks \cup Pieces), NEW n \in Nat, NEW r \in Nat,
           Whole(s, n, r, "reading"), Piece(r + 1) \in Pieces
    PROVE  Whole(Append(s, Piece(r + 1)), n, r + 1, "reading")
  <1> DEFINE t == Append(s, Piece(r + 1))
  <1>1. /\ t \in Seq(Acks \cup Pieces) /\ Len(t) = Len(s) + 1 /\ Len(s) \in Nat
        /\ \A i \in 1..Len(s) : t[i] = s[i]
        /\ t[Len(s) + 1] = Piece(r + 1)
    OBVIOUS
  <1> HIDE DEF t
  <1>2. Len(s) = r - n /\ \A i \in 1..Len(s) : s[i] = Piece(n + i)
    BY DEF Whole
  <1>3. /\ (r + 1) - n \in 0..Len(t) /\ Len(t) = (r + 1) - n
        /\ n + (Len(s) + 1) = r + 1
    BY <1>1, <1>2
  <1>4. \A i \in 1..Len(t) : i <= (r + 1) - n /\ t[i] = Piece(n + i)
    <2> SUFFICES ASSUME NEW i \in 1..Len(t)
                 PROVE  i <= (r + 1) - n /\ t[i] = Piece(n + i)
      OBVIOUS
    <2>1. i \in 1..Len(s) \/ i = Len(s) + 1
      BY <1>1
    <2>2. i <= (r + 1) - n
      BY <1>3
    <2> QED
      BY <1>1, <1>2, <1>3, <2>1, <2>2
  <1> QED
    BY <1>3, <1>4 DEF Whole, t

\* What comes behind the pieces does not touch them.
LEMMA NoPieceMore ==
    ASSUME NEW s \in Seq(Acks \cup Pieces), NEW n \in Nat, NEW r \in Nat, NEW progress,
           Whole(s, n, r, progress), NEW more \in Seq(Acks \cup {Done})
    PROVE  Whole(s \o more, n, r, "over")
  <1>1. /\ Len(s \o more) = Len(s) + Len(more) /\ Len(s) \in Nat /\ Len(more) \in Nat
        /\ \A i \in 1..Len(s) + Len(more) :
             (s \o more)[i] = IF i <= Len(s) THEN s[i] ELSE more[i - Len(s)]
    OBVIOUS
  <1> DEFINE t == s \o more
  <1>2. /\ Len(t) = Len(s) + Len(more)
        /\ \A i \in 1..Len(t) : t[i] = IF i <= Len(s) THEN s[i] ELSE more[i - Len(s)]
    BY <1>1
  <1> HIDE DEF t
  <1>3. r - n \in 0..Len(t) /\ r - n <= Len(s)
    BY <1>1, <1>2 DEF Whole
  <1>4. ASSUME NEW i \in 1..Len(t)
        PROVE  IF i <= r - n THEN t[i] = Piece(n + i) ELSE t[i] \in Acks \cup {Done}
    <2>1. CASE i <= Len(s)
      <3>1. t[i] = s[i] /\ i \in 1..Len(s)
        BY <1>1, <1>2, <2>1
      <3> QED
        BY <3>1 DEF Whole
    <2>2. CASE i > Len(s)
      <3>1. t[i] = more[i - Len(s)] /\ i - Len(s) \in 1..Len(more)
        BY <1>1, <1>2, <2>2
      <3>2. more[i - Len(s)] \in Acks \cup {Done}
        BY <3>1
      <3> QED
        BY <1>1, <1>3, <2>2, <3>1, <3>2
    <2> QED
      BY <1>1, <2>1, <2>2
  <1> QED
    BY <1>3, <1>4 DEF Whole, t

\* A message that goes from the socket to the queue stays where it was.
LEMMA MessageMoves ==
    ASSUME NEW S, NEW a \in Seq(S), NEW b \in Seq(S), b # <<>>
    PROVE  Append(a, Head(b)) \o Tail(b) = a \o b
  <1> DEFINE x == Append(a, Head(b)) \o Tail(b)
             y == a \o b
  <1>1. /\ Len(b) \in Nat \ {0} /\ Head(b) = b[1] /\ Head(b) \in S
        /\ Tail(b) \in Seq(S) /\ Len(Tail(b)) = Len(b) - 1
        /\ \A i \in 1..Len(b) - 1 : Tail(b)[i] = b[i + 1]
        /\ Len(a) \in Nat
    OBVIOUS
  <1>2. /\ Append(a, Head(b)) \in Seq(S) /\ Len(Append(a, Head(b))) = Len(a) + 1
        /\ \A i \in 1..Len(a) : Append(a, Head(b))[i] = a[i]
        /\ Append(a, Head(b))[Len(a) + 1] = b[1]
    BY <1>1
  <1>3. /\ y \in Seq(S) /\ Len(y) = Len(a) + Len(b)
        /\ \A i \in 1..Len(a) + Len(b) : y[i] = IF i <= Len(a) THEN a[i] ELSE b[i - Len(a)]
    OBVIOUS
  <1>4. /\ x \in Seq(S) /\ Len(x) = Len(a) + Len(b)
        /\ \A i \in 1..Len(a) + Len(b) :
              x[i] = IF i <= Len(a) + 1 THEN Append(a, Head(b))[i]
                                        ELSE Tail(b)[i - (Len(a) + 1)]
    BY <1>1, <1>2
  <1> HIDE DEF x, y
  <1>5. ASSUME NEW i \in 1..Len(a) + Len(b)
        PROVE  x[i] = y[i]
    <2>1. CASE i <= Len(a)
      <3>1. i \in 1..Len(a) /\ i <= Len(a) + 1
        BY <1>1, <2>1
      <3>2. x[i] = Append(a, Head(b))[i]
        BY <1>4, <3>1
      <3>3. Append(a, Head(b))[i] = a[i] /\ y[i] = a[i]
        BY <1>2, <1>3, <2>1, <3>1
      <3> QED
        BY <3>2, <3>3
    <2>2. CASE i = Len(a) + 1
      <3>1. y[i] = b[1]
        <4>1. ~ (i <= Len(a)) /\ i - Len(a) = 1
          BY <1>1, <2>2
        <4> QED
          BY <1>3, <4>1
      <3> QED
        BY <1>1, <1>2, <1>4, <2>2, <3>1
    <2>3. CASE i > Len(a) + 1
      <3>1. /\ i - (Len(a) + 1) \in 1..Len(b) - 1
            /\ (i - (Len(a) + 1)) + 1 = i - Len(a)
        BY <1>1, <2>3
      <3>2. x[i] = b[i - Len(a)]
        <4>1. ~ (i <= Len(a) + 1)
          BY <1>1, <2>3
        <4>2. x[i] = Tail(b)[i - (Len(a) + 1)]
          BY <1>4, <4>1
        <4> QED
          BY <1>1, <3>1, <4>2
      <3>3. y[i] = b[i - Len(a)]
        BY <1>1, <1>3, <2>3
      <3> QED
        BY <3>2, <3>3
    <2> QED
      BY <1>1, <2>1, <2>2, <2>3
  <1>6. x = y
    BY <1>3, <1>4, <1>5
  <1> QED
    BY <1>6 DEF x, y

\* An acknowledgement that nobody waits for is taken from behind the pieces.
LEMMA AckDropped ==
    ASSUME NEW a \in Seq(Acks \cup Pieces), NEW b \in Seq(Acks \cup Pieces), b # <<>>,
           Head(b) \in Acks, NEW n \in Nat, NEW r \in Nat, NEW progress,
           Whole(a \o b, n, r, progress)
    PROVE  Whole(a \o Tail(b), n, r, progress)
  <1> DEFINE x == a \o Tail(b)
             y == a \o b
  <1>1. /\ Len(b) \in Nat \ {0} /\ Head(b) = b[1]
        /\ Tail(b) \in Seq(Acks \cup Pieces) /\ Len(Tail(b)) = Len(b) - 1
        /\ \A i \in 1..Len(b) - 1 : Tail(b)[i] = b[i + 1]
        /\ Len(a) \in Nat
    OBVIOUS
  <1>2. /\ Len(y) = Len(a) + Len(b)
        /\ \A i \in 1..Len(a) + Len(b) : y[i] = IF i <= Len(a) THEN a[i] ELSE b[i - Len(a)]
    OBVIOUS
  <1>3. /\ Len(x) = Len(a) + (Len(b) - 1)
        /\ \A i \in 1..Len(a) + (Len(b) - 1) :
              x[i] = IF i <= Len(a) THEN a[i] ELSE Tail(b)[i - Len(a)]
    BY <1>1
  <1>4. Whole(y, n, r, progress)
    OBVIOUS
  <1> HIDE DEF x, y
  <1>5. y[Len(a) + 1] = Head(b) /\ Len(a) + 1 \in 1..Len(y)
    <2>1. Len(a) + 1 \in 1..Len(a) + Len(b) /\ ~ (Len(a) + 1 <= Len(a))
          /\ (Len(a) + 1) - Len(a) = 1
      BY <1>1
    <2> QED
      BY <1>1, <1>2, <2>1
  <1>6. r - n <= Len(a)
    <2> SUFFICES ASSUME Len(a) + 1 <= r - n PROVE FALSE
      BY <1>1
    <2>1. y[Len(a) + 1] = Piece(n + (Len(a) + 1))
      BY <1>4, <1>5 DEF Whole
    <2> QED
      BY <1>5, <2>1, PieceIsNoEnd
  <1>7. progress # "reading"
    BY <1>1, <1>2, <1>4, <1>6 DEF Whole
  <1>8. r - n \in 0..Len(x)
    BY <1>1, <1>3, <1>4, <1>6 DEF Whole
  <1>9. ASSUME NEW i \in 1..Len(x)
        PROVE  IF i <= r - n THEN x[i] = Piece(n + i) ELSE x[i] \in Acks \cup {Done}
    <2>1. CASE i <= Len(a)
      <3>1. x[i] = y[i] /\ i \in 1..Len(y)
        BY <1>1, <1>2, <1>3, <2>1
      <3> QED
        BY <1>4, <3>1 DEF Whole
    <2>2. CASE i > Len(a)
      <3>1. /\ i - Len(a) \in 1..Len(b) - 1 /\ (i - Len(a)) + 1 = (i + 1) - Len(a)
            /\ i + 1 \in 1..Len(a) + Len(b) /\ ~ (i + 1 <= Len(a)) /\ ~ (i <= Len(a))
        BY <1>1, <1>3, <2>2
      <3>2. x[i] = b[(i + 1) - Len(a)]
        BY <1>1, <1>3, <3>1
      <3>3. y[i + 1] = b[(i + 1) - Len(a)]
        BY <1>2, <3>1
      <3>4. ~ (i + 1 <= r - n) /\ ~ (i <= r - n) /\ i + 1 \in 1..Len(y)
        BY <1>1, <1>2, <1>6, <2>2, <3>1
      <3>5. y[i + 1] \in Acks \cup {Done}
        BY <1>4, <3>4 DEF Whole
      <3> QED
        BY <3>2, <3>3, <3>4, <3>5
    <2> QED
      BY <1>1, <2>1, <2>2
  <1>10. Whole(x, n, r, progress)
    BY <1>7, <1>8, <1>9 DEF Whole
  <1> QED
    BY <1>10 DEF x

\* A piece that is yielded was the next one.
LEMMA PieceYielded ==
    ASSUME NEW a \in Seq(Pieces), NEW b \in Seq(Acks \cup Pieces), a # <<>>,
           Head(a) # Done, NEW n \in Nat, NEW r \in Nat, NEW progress,
           Whole(a \o b, n, r, progress)
    PROVE  /\ Head(a) = Piece(n + 1)
           /\ Whole(Tail(a) \o b, n + 1, r, progress)
  <1> DEFINE x == Tail(a) \o b
             y == a \o b
  <1>1. /\ Len(a) \in Nat \ {0} /\ Head(a) = a[1] /\ Head(a) \in Pieces
        /\ Tail(a) \in Seq(Pieces) /\ Len(Tail(a)) = Len(a) - 1
        /\ \A i \in 1..Len(a) - 1 : Tail(a)[i] = a[i + 1]
        /\ Len(b) \in Nat
    OBVIOUS
  <1>2. /\ Len(y) = Len(a) + Len(b)
        /\ \A i \in 1..Len(a) + Len(b) : y[i] = IF i <= Len(a) THEN a[i] ELSE b[i - Len(a)]
    <2>1. a \in Seq(Acks \cup Pieces)
      OBVIOUS
    <2> QED
      BY <2>1
  <1>3. /\ Len(x) = (Len(a) - 1) + Len(b)
        /\ \A i \in 1..(Len(a) - 1) + Len(b) :
              x[i] = IF i <= Len(a) - 1 THEN Tail(a)[i] ELSE b[i - (Len(a) - 1)]
    <2>1. Tail(a) \in Seq(Acks \cup Pieces)
      BY <1>1
    <2> QED
      BY <1>1, <2>1
  <1>4. Whole(y, n, r, progress)
    OBVIOUS
  <1> HIDE DEF x, y
  <1>5. \A i \in 1..Len(x) : x[i] = y[i + 1] /\ i + 1 \in 1..Len(y)
    <2> SUFFICES ASSUME NEW i \in 1..Len(x)
                 PROVE  x[i] = y[i + 1] /\ i + 1 \in 1..Len(y)
      OBVIOUS
    <2>1. i + 1 \in 1..Len(y)
      BY <1>1, <1>2, <1>3
    <2>2. CASE i <= Len(a) - 1
      BY <1>1, <1>2, <1>3, <2>1, <2>2
    <2>3. CASE i > Len(a) - 1
      <3>1. i - (Len(a) - 1) = (i + 1) - Len(a) /\ ~ (i + 1 <= Len(a))
        BY <1>1, <1>3, <2>3
      <3>2. x[i] = b[i - (Len(a) - 1)]
        BY <1>1, <1>3, <2>3
      <3>3. y[i + 1] = b[(i + 1) - Len(a)]
        BY <1>1, <1>2, <2>1, <3>1
      <3> QED
        BY <2>1, <3>1, <3>2, <3>3
    <2> QED
      BY <1>1, <1>3, <2>1, <2>2, <2>3
  <1>6. y[1] = Head(a) /\ 1 \in 1..Len(y) /\ Len(x) = Len(y) - 1 /\ Len(y) \in Nat
    BY <1>1, <1>2, <1>3
  <1>7. Head(a) \notin Acks \cup {Done}
    BY <1>1, PieceIsNoEnd, EndTypes
  <1>8. 1 <= r - n /\ Head(a) = Piece(n + 1)
    BY <1>4, <1>6, <1>7 DEF Whole
  <1>9. r - (n + 1) \in 0..Len(x) /\ (progress = "reading" => Len(x) = r - (n + 1))
    BY <1>4, <1>6, <1>8 DEF Whole
  <1>10. ASSUME NEW i \in 1..Len(x)
         PROVE  IF i <= r - (n + 1) THEN x[i] = Piece((n + 1) + i)
                                    ELSE x[i] \in Acks \cup {Done}
    <2>1. (i <= r - (n + 1) <=> i + 1 <= r - n) /\ (n + 1) + i = n + (i + 1)
      BY <1>6
    <2> QED
      BY <1>4, <1>5, <2>1 DEF Whole
  <1>11. Whole(x, n + 1, r, progress)
    BY <1>9, <1>10 DEF Whole
  <1> QED
    BY <1>8, <1>11 DEF x

\* Before the server is called nothing has happened.
LEMMA FlowInitially == Init => FlowInv
  BY DEF Init, FlowInv, CalledInv

\* The call is made: the channel is there before the request goes out.
LEMMA CallFlows ==
    ASSUME TypeOK, FlowInv, event_caller
    PROVE  FlowInv'
  <1>1. server = "called" /\ server' = "waiting" /\ listening' = stream
        /\ UNCHANGED <<stream, queue, out, up, client, read, breaks>>
    BY DEF event_caller, ListensBeforeCall
  <1>2. ASSUME breaks = 0, client # "gone", stream
        PROVE  WaitingInv'
    <2>1. CalledInv
      BY <1>1, <1>2 DEF FlowInv
    <2> QED
      BY <1>1, <1>2, <2>1 DEF CalledInv, WaitingInv
  <1> QED
    BY <1>1, <1>2 DEF FlowInv

\* The server's steps that end its part.
LEMMA ServerLeavesFlow ==
    ASSUME FlowInv, Background \/ CallTimesOut \/ Stopped
    PROVE  FlowInv'
  <1>1. server' \in {"closed", "raised", "ended"}
    BY DEF Background, background, CallTimesOut, Stopped
  <1> QED
    BY <1>1 DEF FlowInv

\* A message arrives: the acknowledgement starts the stream with the answer
\* behind it, and what follows is queued in its place.
LEMMA ReceiveFlows ==
    ASSUME TypeOK, FlowInv, Receive
    PROVE  FlowInv'
  <1>1. /\ up # <<>> /\ up \in Seq(Acks \cup Pieces) /\ up' = Tail(up)
        /\ queue \in Seq(Pieces) /\ queue \in Seq(Acks \cup Pieces)
        /\ out \in Seq(1..MaxPieces) /\ Len(out) \in Nat /\ read \in Nat
        /\ Head(up) = up[1] /\ Head(up) \in Acks \cup Pieces
        /\ Tail(up) \in Seq(Acks \cup Pieces)
    <2>1. queue \in Seq(Pieces) /\ up \in Seq(Acks \cup Pieces) /\ up # <<>>
          /\ up' = Tail(up)
      BY DEF Receive, TypeOK
    <2>2. out \in Seq(1..MaxPieces) /\ Len(out) \in Nat /\ read \in Nat
      BY DirectAssumption DEF TypeOK
    <2> QED
      BY <2>1, <2>2
  <1>2. UNCHANGED <<stream, out, client, read, breaks>>
    BY DEF Receive
  <1>3. CASE Head(up).type = "ack"
    <2>1. /\ queue' = queue /\ listening' = listening
          /\ server' = IF server = "waiting" /\ Head(up).sid = 0
                         THEN Answered(Head(up).body) ELSE server
      BY <1>3 DEF Receive, ack_callback
    <2>2. Head(up) \in Acks
      BY <1>1, <1>3 DEF Pieces, Done
    <2>3. CASE server = "waiting" /\ Head(up).sid = 0
      <3>1. server' = Answered(Head(up).body)
        BY <2>1, <2>3
      <3>2. server' \in {"streaming", "returned", "raised"}
        BY <3>1 DEF Answered
      <3>3. server' = "streaming" => stream /\ "status" \in Head(up).body
        BY <3>1 DEF Answered
      <3>4. ASSUME breaks = 0, client # "gone", server' = "streaming"
            PROVE  StreamingInv'
        <4>1. WaitingInv
          BY <2>3, <3>3, <3>4 DEF FlowInv
        <4>2. client \in {"reading", "over"}
          BY <1>1, <4>1, <3>4 DEF WaitingInv, TypeOK
        <4>3. up[1] \in FirstPositive
          BY <1>1, <2>2, <2>3, <3>3, <3>4 DEF FirstPositive, FirstAcks, Acks
        <4>4. Whole(Tail(up), 0, read, client) /\ listening /\ queue = <<>> /\ out = <<>>
          BY <4>1, <4>2, <4>3 DEF WaitingInv
        <4>5. queue' \o up' = Tail(up) /\ Len(out') = 0
          BY <1>1, <1>2, <2>1, <4>4
        <4>6. out' = <<>> /\ read' = read /\ client' = client /\ listening'
          BY <1>2, <2>1, <4>4
        <4>7. Whole(queue' \o up', Len(out'), read', client')
          BY <4>4, <4>5, <4>6
        <4>8. \A i \in 1..Len(out') : out'[i] = i
          BY <4>5
        <4> QED
          BY <4>2, <4>6, <4>7, <4>8 DEF StreamingInv
      <3> QED
        BY <1>2, <3>2, <3>3, <3>4 DEF FlowInv
    <2>4. CASE ~ (server = "waiting" /\ Head(up).sid = 0)
      <3>1. server' = server
        BY <2>1, <2>4
      <3>2. ASSUME breaks = 0, client # "gone", server = "called"
            PROVE  FALSE
        BY <1>1, <3>2 DEF FlowInv, CalledInv
      <3>3. ASSUME breaks = 0, client # "gone", server = "waiting", stream
            PROVE  FALSE
        <4>1. WaitingInv
          BY <3>3 DEF FlowInv
        <4>2. client \in {"reading", "over"}
          BY <1>1, <3>3, <4>1 DEF WaitingInv, TypeOK
        <4>3. up[1].sid = 0
          BY <4>1, <4>2 DEF WaitingInv, FirstAcks
        <4> QED
          BY <1>1, <2>4, <3>3, <4>3
      <3>4. ASSUME breaks = 0, client # "gone", server = "streaming"
            PROVE  StreamingInv'
        <4>1. StreamingInv
          BY <3>4 DEF FlowInv
        <4>2. Whole(queue \o up, Len(out), read, client)
          BY <4>1 DEF StreamingInv
        <4>3. Whole(queue \o Tail(up), Len(out), read, client)
          BY <1>1, <2>2, <4>2, AckDropped
        <4> QED
          BY <1>1, <1>2, <2>1, <4>1, <4>3 DEF StreamingInv
      <3> QED
        BY <1>2, <3>1, <3>2, <3>3, <3>4 DEF FlowInv
    <2> QED
      BY <2>3, <2>4
  <1>4. CASE Head(up).type # "ack"
    <2>1. /\ server' = server /\ listening' = listening
          /\ queue' = IF listening THEN Append(queue, Head(up)) ELSE queue
      <3>1. message_listener(Head(up))
        BY <1>4, Zenon DEF Receive
      <3> QED
        BY <3>1 DEF message_listener
    <2>2. Head(up) \notin Acks
      BY <1>4, PieceIsNoEnd
    <2>3. ASSUME breaks = 0, client # "gone", server = "called"
          PROVE  FALSE
      BY <1>1, <2>3 DEF FlowInv, CalledInv
    <2>4. ASSUME breaks = 0, client # "gone", server = "waiting", stream
          PROVE  FALSE
      <3>1. WaitingInv
        BY <2>4 DEF FlowInv
      <3>2. client \in {"reading", "over"}
        BY <1>1, <2>4, <3>1 DEF WaitingInv, TypeOK
      <3>3. up[1] \in FirstAcks
        BY <3>1, <3>2 DEF WaitingInv
      <3>4. FirstAcks \subseteq Acks
        BY DirectAssumption DEF FirstAcks, Acks
      <3> QED
        BY <1>1, <2>2, <3>3, <3>4
    <2>5. ASSUME breaks = 0, client # "gone", server = "streaming"
          PROVE  StreamingInv'
      <3>1. StreamingInv
        BY <2>5 DEF FlowInv
      <3>2. queue' = Append(queue, Head(up))
        BY <2>1, <3>1 DEF StreamingInv
      <3>3. queue' \o up' = queue \o up
        BY <1>1, <3>2, MessageMoves
      <3> QED
        BY <1>2, <2>1, <3>1, <3>3 DEF StreamingInv
    <2> QED
      BY <1>2, <2>1, <2>3, <2>4, <2>5 DEF FlowInv
  <1> QED
    BY <1>3, <1>4

\* What is yielded is the next piece.
LEMMA YieldFlows ==
    ASSUME TypeOK, FlowInv, event_generator
    PROVE  FlowInv'
  <1>1. /\ server = "streaming" /\ queue # <<>> /\ queue' = Tail(queue)
        /\ UNCHANGED <<stream, listening, up, client, read, breaks>>
    BY DEF event_generator
  <1>2. CASE Head(queue).type = "done"
    <2>1. server' = "ended"
      BY <1>2, Zenon DEF event_generator
    <2> QED
      BY <2>1 DEF FlowInv
  <1>3. CASE Head(queue).type # "done"
    <2>1. out' = Append(out, Head(queue).number) /\ server' = server
      BY <1>3, Zenon DEF event_generator
    <2>2. Head(queue) # Done
      BY <1>3, PieceIsNoEnd
    <2>3. ASSUME breaks = 0, client # "gone"
          PROVE  StreamingInv'
      <3>1. StreamingInv
        BY <1>1, <2>3 DEF FlowInv
      <3>2. /\ queue \in Seq(Pieces) /\ up \in Seq(Acks \cup Pieces)
            /\ out \in Seq(1..MaxPieces) /\ Len(out) \in Nat /\ read \in Nat
        BY DirectAssumption DEF TypeOK
      <3>3. Whole(queue \o up, Len(out), read, client)
        BY <3>1 DEF StreamingInv
      <3>4. /\ Head(queue) = Piece(Len(out) + 1)
            /\ Whole(Tail(queue) \o up, Len(out) + 1, read, client)
        BY <1>1, <2>2, <3>2, <3>3, PieceYielded
      <3>5. out' = Append(out, Len(out) + 1)
        BY <2>1, <3>4, PieceIsNoEnd
      <3>6. Len(out') = Len(out) + 1 /\ \A i \in 1..Len(out') : out'[i] = i
        <4>1. \A i \in 1..Len(out) : out[i] = i
          BY <3>1 DEF StreamingInv
        <4> QED
          BY <3>2, <3>5, <4>1
      <3> QED
        BY <1>1, <3>1, <3>4, <3>6 DEF StreamingInv
    <2> QED
      BY <1>1, <2>1, <2>3 DEF FlowInv
  <1> QED
    BY <1>2, <1>3

\* What the browser puts behind a first acknowledgement that is under way.
LEMMA BehindFirst ==
    ASSUME NEW s \in Seq(Acks \cup Pieces), s # <<>>, NEW more \in Seq(Acks \cup Pieces)
    PROVE  /\ s \o more # <<>> /\ (s \o more)[1] = s[1]
           /\ Tail(s \o more) = Tail(s) \o more
           /\ Tail(s) \in Seq(Acks \cup Pieces)
  <1>1. /\ Len(s) \in Nat \ {0} /\ Len(more) \in Nat
        /\ s \o more \in Seq(Acks \cup Pieces) /\ Len(s \o more) = Len(s) + Len(more)
        /\ \A i \in 1..Len(s) + Len(more) :
              (s \o more)[i] = IF i <= Len(s) THEN s[i] ELSE more[i - Len(s)]
        /\ Tail(s) \in Seq(Acks \cup Pieces) /\ Len(Tail(s)) = Len(s) - 1
        /\ \A i \in 1..Len(s) - 1 : Tail(s)[i] = s[i + 1]
    OBVIOUS
  <1>2. s \o more # <<>> /\ (s \o more)[1] = s[1]
    BY <1>1
  <1> DEFINE all == s \o more
             x == Tail(all)
             y == Tail(s) \o more
  <1>3. /\ x \in Seq(Acks \cup Pieces) /\ Len(x) = (Len(s) + Len(more)) - 1
        /\ \A i \in 1..(Len(s) + Len(more)) - 1 : x[i] = all[i + 1]
    <2>1. all \in Seq(Acks \cup Pieces) /\ all # <<>> /\ Len(all) = Len(s) + Len(more)
      BY <1>1, <1>2
    <2> HIDE DEF all
    <2> QED
      BY <2>1
  <1>4. /\ y \in Seq(Acks \cup Pieces) /\ Len(y) = (Len(s) - 1) + Len(more)
        /\ \A i \in 1..(Len(s) - 1) + Len(more) :
              y[i] = IF i <= Len(s) - 1 THEN Tail(s)[i] ELSE more[i - (Len(s) - 1)]
    BY <1>1
  <1>5. \A i \in 1..Len(s) + Len(more) : all[i] = IF i <= Len(s) THEN s[i] ELSE more[i - Len(s)]
    BY <1>1
  <1> HIDE DEF all, x, y
  <1>6. ASSUME NEW i \in 1..(Len(s) + Len(more)) - 1
        PROVE  x[i] = y[i]
    <2>1. i + 1 \in 1..Len(s) + Len(more) /\ i \in 1..(Len(s) - 1) + Len(more)
      BY <1>1
    <2>2. CASE i <= Len(s) - 1
      <3>1. i \in 1..Len(s) - 1 /\ i + 1 <= Len(s)
        BY <1>1, <2>2
      <3>2. y[i] = s[i + 1]
        BY <1>1, <1>4, <2>1, <2>2, <3>1
      <3>3. x[i] = s[i + 1]
        BY <1>3, <1>5, <2>1, <3>1
      <3> QED
        BY <3>2, <3>3
    <2>3. CASE i > Len(s) - 1
      <3>1. ~ (i <= Len(s) - 1) /\ ~ (i + 1 <= Len(s)) /\ i - (Len(s) - 1) = (i + 1) - Len(s)
        BY <1>1, <2>3
      <3>2. y[i] = more[i - (Len(s) - 1)]
        BY <1>4, <2>1, <3>1
      <3>3. x[i] = more[(i + 1) - Len(s)]
        BY <1>3, <1>5, <2>1, <3>1
      <3> QED
        BY <3>1, <3>2, <3>3
    <2> QED
      BY <1>1, <2>2, <2>3
  <1>7. x = y
    BY <1>1, <1>3, <1>4, <1>6
  <1> QED
    BY <1>1, <1>2, <1>7 DEF x, y, all

\* The browser emits behind what it has emitted.
LEMMA EmittedBehind ==
    ASSUME NEW a \in Seq(Acks \cup Pieces), NEW b \in Seq(Acks \cup Pieces),
           NEW more \in Seq(Acks \cup Pieces)
    PROVE  a \o (b \o more) = (a \o b) \o more
  OBVIOUS

\* What is emitted at the end of an answer: no piece.
LEMMA StreamEndFlows ==
    ASSUME TypeOK, FlowInv, client = "reading", client' = "over",
           NEW more \in Seq(Acks \cup {Done}), up' = up \o more,
           UNCHANGED <<stream, server, listening, queue, out, read, breaks>>
    PROVE  FlowInv'
  <1>1. /\ up \in Seq(Acks \cup Pieces) /\ queue \in Seq(Acks \cup Pieces)
        /\ more \in Seq(Acks \cup Pieces) /\ read \in Nat /\ Len(out) \in Nat
    BY DirectAssumption, MessageTypes DEF TypeOK
  <1>2. ASSUME breaks = 0, server = "waiting", stream
        PROVE  WaitingInv'
    <2>1. WaitingInv
      BY <1>2 DEF FlowInv
    <2>2. /\ up # <<>> /\ up[1] \in FirstAcks
          /\ up[1] \in FirstPositive => Whole(Tail(up), 0, read, "reading")
      BY <2>1 DEF WaitingInv
    <2>3. /\ up' # <<>> /\ up'[1] = up[1] /\ Tail(up') = Tail(up) \o more
          /\ Tail(up) \in Seq(Acks \cup Pieces)
      BY <1>1, <2>2, BehindFirst
    <2>4. up[1] \in FirstPositive => Whole(Tail(up'), 0, read, "over")
      BY <1>1, <2>2, <2>3, NoPieceMore
    <2> QED
      BY <2>1, <2>2, <2>3, <2>4 DEF WaitingInv
  <1>3. ASSUME breaks = 0, server = "streaming"
        PROVE  StreamingInv'
    <2>1. StreamingInv
      BY <1>3 DEF FlowInv
    <2>2. Whole(queue \o up, Len(out), read, "reading") /\ queue \o up \in Seq(Acks \cup Pieces)
      BY <1>1, <2>1 DEF StreamingInv
    <2>3. queue \o up' = (queue \o up) \o more
      BY <1>1, EmittedBehind
    <2>4. Whole(queue \o up', Len(out), read, "over")
      BY <1>1, <2>2, <2>3, NoPieceMore
    <2> QED
      BY <2>1, <2>4 DEF StreamingInv
  <1>4. ASSUME breaks = 0, server = "called"
        PROVE  FALSE
    BY <1>4 DEF FlowInv, CalledInv
  <1> QED
    BY <1>2, <1>3, <1>4 DEF FlowInv

\* A piece that is read is emitted behind the others.
LEMMA ReadFlows ==
    ASSUME TypeOK, FlowInv, processStream
    PROVE  FlowInv'
  <1>1. /\ client = "reading" /\ client' = "reading" /\ read' = read + 1
        /\ up' = Append(up, Piece(read + 1))
        /\ UNCHANGED <<stream, server, listening, queue, out, breaks>>
    BY DEF processStream
  <1>2. /\ up \in Seq(Acks \cup Pieces) /\ queue \in Seq(Acks \cup Pieces)
        /\ read \in Nat /\ Len(out) \in Nat /\ read + 1 \in 1..MaxPieces
    BY DirectAssumption DEF TypeOK, processStream
  <1>3. Piece(read + 1) \in Pieces
    BY <1>2, MessageTypes
  <1> DEFINE more == <<Piece(read + 1)>>
  <1>4. more \in Seq(Acks \cup Pieces) /\ up' = up \o more
    BY <1>1, <1>2, <1>3
  <1>5. \A s \in Seq(Acks \cup Pieces) : s \o more = Append(s, Piece(read + 1))
    BY <1>3
  <1> HIDE DEF more
  <1>6. ASSUME breaks = 0, server = "waiting", stream
        PROVE  WaitingInv'
    <2>1. WaitingInv
      BY <1>1, <1>6 DEF FlowInv
    <2>2. /\ up # <<>> /\ up[1] \in FirstAcks
          /\ up[1] \in FirstPositive => Whole(Tail(up), 0, read, "reading")
      BY <1>1, <2>1 DEF WaitingInv
    <2>3. /\ up' # <<>> /\ up'[1] = up[1] /\ Tail(up') = Tail(up) \o more
          /\ Tail(up) \in Seq(Acks \cup Pieces)
      BY <1>2, <1>4, <2>2, BehindFirst
    <2>4. up[1] \in FirstPositive => Whole(Tail(up'), 0, read + 1, "reading")
      BY <1>2, <1>3, <1>5, <2>2, <2>3, OnePieceMore
    <2> QED
      BY <1>1, <2>1, <2>2, <2>3, <2>4 DEF WaitingInv
  <1>7. ASSUME breaks = 0, server = "streaming"
        PROVE  StreamingInv'
    <2>1. StreamingInv
      BY <1>1, <1>7 DEF FlowInv
    <2>2. Whole(queue \o up, Len(out), read, "reading") /\ queue \o up \in Seq(Acks \cup Pieces)
      BY <1>1, <1>2, <2>1 DEF StreamingInv
    <2>3. queue \o up' = Append(queue \o up, Piece(read + 1))
      BY <1>2, <1>4, <1>5, <2>2, EmittedBehind
    <2>4. Whole(queue \o up', Len(out), read + 1, "reading")
      BY <1>2, <1>3, <2>2, <2>3, OnePieceMore
    <2> QED
      BY <1>1, <2>1, <2>4 DEF StreamingInv
  <1>8. ASSUME breaks = 0, server = "called"
        PROVE  FALSE
    BY <1>1, <1>8 DEF FlowInv, CalledInv
  <1> QED
    BY <1>1, <1>6, <1>7, <1>8 DEF FlowInv

\* The answer of the provider, or none, is acknowledged first of all.
LEMMA FirstEmission ==
    ASSUME TypeOK, FlowInv, client = "asking", client' \in {"reading", "over"},
           NEW body \in Bodies,
           NEW more \in Seq(Acks \cup {Done}), up' = up \o (<<Ack(body)>> \o more),
           client' = "reading" => more = <<>>,
           UNCHANGED <<stream, server, listening, queue, out, read, breaks>>
    PROVE  FlowInv'
  <1>1. ASSUME breaks = 0, server = "waiting", stream
        PROVE  WaitingInv'
    <2>1. WaitingInv
      BY <1>1 DEF FlowInv
    <2>2. up = <<>> /\ read = 0
      BY <2>1 DEF WaitingInv
    <2>3. /\ Ack(body) \in Acks /\ more \in Seq(Acks \cup Pieces)
          /\ <<Ack(body)>> \in Seq(Acks \cup Pieces)
      BY AckType, MessageTypes
    <2>4. up' = <<Ack(body)>> \o more
      BY <2>2, <2>3
    <2>5. up' # <<>> /\ up'[1] = Ack(body)
      <3>1. <<Ack(body)>> # <<>> /\ <<Ack(body)>>[1] = Ack(body)
        OBVIOUS
      <3> QED
        BY <2>3, <2>4, <3>1, BehindFirst
    <2>6. Ack(body) \in FirstAcks
      BY <1>1 DEF Ack, FirstAcks
    <2>7. Tail(up') = more
      <3>1. Tail(<<Ack(body)>>) = <<>> /\ <<Ack(body)>> # <<>>
        OBVIOUS
      <3>2. Tail(<<Ack(body)>> \o more) = Tail(<<Ack(body)>>) \o more
        BY <2>3, <3>1, BehindFirst
      <3>3. <<>> \o more = more
        BY <2>3
      <3> QED
        BY <2>4, <3>1, <3>2, <3>3
    <2>8. Whole(Tail(up'), 0, read', client')
      BY <2>2, <2>3, <2>7 DEF Whole
    <2> QED
      BY <2>1, <2>5, <2>6, <2>8 DEF WaitingInv
  <1>2. ASSUME breaks = 0, server \in {"called", "streaming"}
        PROVE  FALSE
    BY <1>2 DEF FlowInv, CalledInv, StreamingInv
  <1> QED
    BY <1>1, <1>2 DEF FlowInv

\* The browser's steps.
LEMMA BrowserFlows ==
    ASSUME TypeOK, FlowInv, Browser
    PROVE  FlowInv'
  <1>1. CASE chatEventHandler
    <2>1. /\ down /\ client = "idle" /\ client' \in {"dropped", "asking"}
          /\ UNCHANGED <<stream, server, listening, queue, out, up, read, breaks>>
      BY <1>1 DEF chatEventHandler
    <2>2. ASSUME breaks = 0, server = "waiting", stream
          PROVE  WaitingInv'
      BY <2>1, <2>2 DEF FlowInv, WaitingInv
    <2>3. ASSUME breaks = 0, server \in {"called", "streaming"}
          PROVE  FALSE
      BY <2>1, <2>3 DEF FlowInv, CalledInv, StreamingInv
    <2> QED
      BY <2>1, <2>2, <2>3 DEF FlowInv
  <1>2. CASE CompletionFails
    <2>1. PICK body \in Bodies : up' = up \o WithDone(<<Ack(body)>>, TRUE)
      BY <1>2 DEF CompletionFails
    <2>2. <<Done>> \in Seq(Acks \cup {Done})
      OBVIOUS
    <2>3. up' = up \o (<<Ack(body)>> \o <<Done>>)
      BY <2>1 DEF WithDone
    <2>4. /\ client = "asking" /\ client' = "over"
          /\ UNCHANGED <<stream, server, listening, queue, out, read, breaks>>
      BY <1>2 DEF CompletionFails
    <2> QED
      BY <2>2, <2>3, <2>4, FirstEmission
  <1>3. CASE CompletionReturns
    <2>1. <<Done>> \in Seq(Acks \cup {Done})
      OBVIOUS
    <2>2. PICK body \in Bodies : up' = up \o (<<Ack(body)>> \o <<Done>>)
      BY <1>3 DEF CompletionReturns, WithDone
    <2>3. /\ client = "asking" /\ client' = "over" /\ ~ stream
          /\ UNCHANGED <<stream, server, listening, queue, out, read, breaks>>
      BY <1>3 DEF CompletionReturns
    <2> QED
      BY <2>1, <2>2, <2>3, FirstEmission
  <1>4. CASE CompletionStarts
    <2>1. Ack({"status"}) \in Acks /\ {"status"} \in Bodies
      BY AckType, OwnBodies
    <2>2. up' = up \o (<<Ack({"status"})>> \o <<>>)
      <3>1. up' = Append(up, Ack({"status"})) /\ up \in Seq(Acks \cup Pieces)
        BY <1>4 DEF CompletionStarts, TypeOK
      <3>2. <<Ack({"status"})>> \o <<>> = <<Ack({"status"})>>
        OBVIOUS
      <3>3. Append(up, Ack({"status"})) = up \o <<Ack({"status"})>>
        BY <2>1, <3>1
      <3> QED
        BY <3>1, <3>2, <3>3
    <2>3. /\ client = "asking" /\ client' = "reading"
          /\ UNCHANGED <<stream, server, listening, queue, out, read, breaks>>
      BY <1>4 DEF CompletionStarts
    <2>4. <<>> \in Seq(Acks \cup {Done})
      OBVIOUS
    <2> QED
      BY <2>1, <2>2, <2>3, <2>4, FirstEmission
  <1>5. CASE processStream
    BY <1>5, ReadFlows
  <1>6. CASE StreamEnds
    <2>1. <<>> \o <<Done>> \in Seq(Acks \cup {Done})
      OBVIOUS
    <2>2. up' = up \o (<<>> \o <<Done>>) /\ client = "reading" /\ client' = "over"
          /\ UNCHANGED <<stream, server, listening, queue, out, read, breaks>>
      BY <1>6 DEF StreamEnds, WithDone
    <2> QED
      BY <2>1, <2>2, StreamEndFlows
  <1>7. CASE StreamFails
    <2>1. <<Ack({})>> \o <<Done>> \in Seq(Acks \cup {Done})
      BY AckType, OwnBodies
    <2>2. up' = up \o (<<Ack({})>> \o <<Done>>) /\ client = "reading" /\ client' = "over"
          /\ UNCHANGED <<stream, server, listening, queue, out, read, breaks>>
      BY <1>7 DEF StreamFails, WithDone
    <2> QED
      BY <2>1, <2>2, StreamEndFlows
  <1> QED
    BY <1>1, <1>2, <1>3, <1>4, <1>5, <1>6, <1>7 DEF Browser

\* A connection that breaks, or a tab that closes, promises nothing more.
LEMMA BreakFlows ==
    ASSUME TypeOK, FlowInv, Reconnects \/ TabCloses
    PROVE  FlowInv'
  <1>1. CASE Reconnects
    <2>1. breaks' # 0 /\ UNCHANGED <<server, stream>>
      BY <1>1, DirectAssumption DEF Reconnects, TypeOK
    <2> QED
      BY <2>1 DEF FlowInv
  <1>2. CASE TabCloses
    <2>1. client' = "gone" /\ UNCHANGED <<server, stream>>
      BY <1>2 DEF TabCloses
    <2> QED
      BY <2>1 DEF FlowInv
  <1> QED
    BY <1>1, <1>2

\* Every step keeps the stream whole while its connection holds.
LEMMA NextFlows == TypeOK /\ FlowInv /\ [Next]_vars => FlowInv'
  <1> SUFFICES ASSUME TypeOK, FlowInv, [Next]_vars PROVE FlowInv'
    OBVIOUS
  <1>1. CASE UNCHANGED vars
    BY <1>1 DEF vars, FlowInv, CalledInv, WaitingInv, StreamingInv
  <1>2. CASE Next
    BY <1>2, CallFlows, ReceiveFlows, YieldFlows, ServerLeavesFlow, BrowserFlows, BreakFlows
    DEF Next, Server
  <1> QED
    BY <1>1, <1>2

\* For answers of any length, on a connection that holds: what was yielded, what is
\* queued and what is under way are the pieces the browser has read, in order and
\* without a gap (chat.py 94-135, +layout.svelte 371-416).
THEOREM AnswersAreWhole == Spec => []NothingMissing
  <1>1. TypeOK /\ FlowInv => NothingMissing
    <2> SUFFICES ASSUME TypeOK, FlowInv, breaks = 0, client # "gone", server = "streaming"
                 PROVE  NothingMissing
      BY DEF NothingMissing
    <2>1. StreamingInv
      BY DEF FlowInv
    <2> DEFINE coming == queue \o up
               missing == read - Len(out)
    <2>2. /\ \A i \in 1..Len(out) : out[i] = i
          /\ missing \in 0..Len(coming)
      BY <2>1 DEF StreamingInv, Whole
    <2>3. ASSUME NEW i \in 1..Len(coming)
          PROVE  IF i <= missing THEN coming[i] = Piece(Len(out) + i)
                                 ELSE coming[i].type # "piece"
      <3>1. IF i <= missing THEN coming[i] = Piece(Len(out) + i)
                            ELSE coming[i] \in Acks \cup {Done}
        BY <2>1 DEF StreamingInv, Whole
      <3>2. \A m \in Acks \cup {Done} : m.type # "piece"
        BY PieceIsNoEnd
      <3> QED
        BY <3>1, <3>2
    <2> QED
      BY <2>2, <2>3 DEF NothingMissing
  <1>2. Spec => []TypeOK
    BY DirectTypesCorrect
  <1>3. Spec => []FlowInv
    BY <1>2, FlowInitially, NextFlows, PTL DEF Spec
  <1> QED
    BY <1>1, <1>2, <1>3, PTL
=============================================================================
