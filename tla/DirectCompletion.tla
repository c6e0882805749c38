--------------------------- MODULE DirectCompletion ---------------------------
(***************************************************************************)
(* A chat completion over a direct connection: the Open WebUI server asks  *)
(* the user's browser to call the model provider and to relay the answer   *)
(* (generate_direct_chat_completion in backend/open_webui/utils/chat.py,   *)
(* chatEventHandler in src/routes/+layout.svelte).                         *)
(*                                                                         *)
(* The server opens a channel, sends the request over the socket with      *)
(* sio.call and waits for its acknowledgement.  The browser acknowledges,  *)
(* emits what it reads on the channel and then {done: true}; the server    *)
(* queues what comes on the channel for the response it streams.           *)
(*                                                                         *)
(* A socket delivers in order.  When its connection breaks, what is under  *)
(* way may be lost; the client library reconnects with a new session id    *)
(* and sends on it what was emitted meanwhile.  An acknowledgement counts  *)
(* only under the session id that was asked.                               *)
(*                                                                         *)
(* Data: a piece is what one read of the provider's stream gives between   *)
(* two line breaks; the pieces of an answer are numbered from 1.  A body,  *)
(* what an acknowledgement carries, is the set of those fields the server  *)
(* looks at that are truthy in it; an Error object has none.               *)
(***************************************************************************)
EXTENDS Integers, Sequences

CONSTANTS
    MaxPieces,      \* bound on the pieces of an answer
    MaxBreaks       \* bound on broken connections

ASSUME DirectAssumption == MaxPieces \in Nat /\ MaxBreaks \in Nat

VARIABLES
    stream,         \* form_data["stream"]
    server,         \* progress of generate_direct_chat_completion
    listening,      \* the channel is in sio.handlers
    queue,          \* q
    out,            \* pieces yielded to the response
    down,           \* the request on its way to the browser
    up,             \* what the browser has emitted, oldest first
    client,         \* progress of chatEventHandler
    read,           \* pieces read from the provider
    provider,       \* what the provider did
    breaks          \* broken connections; the session id is new after the first

vars == <<stream, server, listening, queue, out, down, up, client, read,
          provider, breaks>>

-----------------------------------------------------------------------------
Bodies == SUBSET {"status", "error"}

Ack(body) == [type |-> "ack", body |-> body, sid |-> breaks]
Piece(n) == [type |-> "piece", number |-> n]
Done == [type |-> "done"]

Init ==
    /\ stream \in BOOLEAN
    /\ server = "called"
    /\ listening = FALSE
    /\ queue = <<>>
    /\ out = <<>>
    /\ down = FALSE
    /\ up = <<>>
    /\ client = "idle"
    /\ read = 0
    /\ provider = "unasked"
    /\ breaks = 0

-----------------------------------------------------------------------------
(* The server.                                                             *)

ListensBeforeCall_late == FALSE

\* sio.on comes before the call.
ListensBeforeCall == stream

event_caller ==
    /\ server = "called"
    /\ listening' = ListensBeforeCall
    /\ down' = TRUE
    /\ server' = "waiting"
    /\ UNCHANGED <<stream, queue, out, up, client, read, provider, breaks>>

\* What the call returns decides: a stream needs a status, a plain answer must
\* not say "error"; anything else raises.
Answered(body) ==
    CASE stream /\ "status" \in body -> "streaming"
      [] ~ stream /\ "error" \notin body -> "returned"
      [] OTHER -> "raised"

message_listener(message) ==
    /\ queue' = IF listening THEN Append(queue, message) ELSE queue
    /\ UNCHANGED <<server, listening>>

ack_callback(ack) ==
    /\ server' = IF server = "waiting" /\ ack.sid = 0
                   THEN Answered(ack.body) ELSE server
    /\ UNCHANGED <<listening, queue>>

Receive ==
    /\ up # <<>>
    /\ up' = Tail(up)
    /\ IF Head(up).type = "ack" THEN ack_callback(Head(up))
                                ELSE message_listener(Head(up))
    /\ UNCHANGED <<stream, out, down, client, read, provider, breaks>>

\* sio.call gives up after 60 s and raises; the channel stays registered.
CallTimesOut ==
    /\ server = "waiting"
    /\ server' = "raised"
    /\ UNCHANGED <<stream, listening, queue, out, down, up, client, read,
                   provider, breaks>>

event_generator ==
    /\ server = "streaming"
    /\ queue # <<>>
    /\ queue' = Tail(queue)
    /\ IF Head(queue).type = "done"
         THEN server' = "ended" /\ UNCHANGED out
         ELSE out' = Append(out, Head(queue).number) /\ UNCHANGED server
    /\ UNCHANGED <<stream, listening, down, up, client, read, provider, breaks>>

\* The reader of the response goes away, or its task is stopped.
Stopped ==
    /\ server \in {"waiting", "streaming"}
    /\ server' = IF server = "streaming" THEN "ended" ELSE "raised"
    /\ UNCHANGED <<stream, listening, queue, out, down, up, client, read,
                   provider, breaks>>

background_none == UNCHANGED <<server, listening>>

background == listening' = FALSE /\ server' = "closed"

Background ==
    /\ server = "ended"
    /\ background
    /\ UNCHANGED <<stream, queue, out, down, up, client, read, provider, breaks>>

-----------------------------------------------------------------------------
(* The browser.                                                            *)

WithDone_on_success(messages, failed) == messages \o (IF failed THEN <<>> ELSE <<Done>>)

\* Emitted after whatever else this step emits, in `finally`.
WithDone(messages, failed) == messages \o <<Done>>

\* A hidden tab, another chat or a signed-out user drop the request.
chatEventHandler ==
    /\ down
    /\ client = "idle"
    /\ down' = FALSE
    /\ \/ client' = "dropped" /\ UNCHANGED provider
       \/ client' = "asking" /\ provider' = "asked"
    /\ UNCHANGED <<stream, server, listening, queue, out, up, read, breaks>>

\* The provider cannot be reached, is not configured, or refuses.  A refusal is
\* acknowledged with its own body, which may well have a status: the server
\* takes that for the {status: true} of a stream.
CompletionFails ==
    /\ client = "asking"
    /\ client' = "over"
    /\ \E body \in Bodies :
          /\ provider' = IF "status" \in body THEN "refused_with_status"
                                              ELSE "refused"
          /\ up' = up \o WithDone(<<Ack(body)>>, TRUE)
    /\ UNCHANGED <<stream, server, listening, queue, out, down, read, breaks>>

\* The body of a plain answer is the provider's, too.
CompletionReturns ==
    /\ client = "asking"
    /\ ~ stream
    /\ client' = "over"
    /\ provider' = "complete"
    /\ \E body \in Bodies : up' = up \o WithDone(<<Ack(body)>>, FALSE)
    /\ UNCHANGED <<stream, server, listening, queue, out, down, read, breaks>>

AcksResponse_unchecked(accepted) == TRUE

AcksResponse(accepted) == accepted

CompletionStarts ==
    /\ client = "asking"
    /\ stream
    /\ \E accepted \in BOOLEAN :
          /\ AcksResponse(accepted)
          /\ client' = "reading"
          /\ provider' = IF accepted THEN "answering" ELSE "refused"
    /\ up' = Append(up, Ack({"status"}))
    /\ UNCHANGED <<stream, server, listening, queue, out, down, read, breaks>>

processStream ==
    /\ client = "reading"
    /\ read < MaxPieces
    /\ read' = read + 1
    /\ up' = Append(up, Piece(read'))
    /\ UNCHANGED <<stream, server, listening, queue, out, down, client,
                   provider, breaks>>

StreamEnds ==
    /\ client = "reading"
    /\ client' = "over"
    /\ provider' = IF provider = "answering" THEN "complete" ELSE provider
    /\ up' = up \o WithDone(<<>>, FALSE)
    /\ UNCHANGED <<stream, server, listening, queue, out, down, read, breaks>>

\* A second acknowledgement, which the server no longer waits for.
StreamFails ==
    /\ client = "reading"
    /\ client' = "over"
    /\ provider' = "failed"
    /\ up' = up \o WithDone(<<Ack({})>>, TRUE)
    /\ UNCHANGED <<stream, server, listening, queue, out, down, read, breaks>>

-----------------------------------------------------------------------------
(* The connection.                                                         *)

Survivors(kept) == SubSeq(up, 1, kept)

\* What was under way last is lost; the next session goes on.
Reconnects ==
    /\ breaks < MaxBreaks
    /\ breaks' = breaks + 1
    /\ \E kept \in 0..Len(up) : up' = Survivors(kept)
    /\ down' = FALSE
    /\ UNCHANGED <<stream, server, listening, queue, out, client, read, provider>>

TabCloses ==
    /\ client # "gone"
    /\ client' = "gone"
    /\ \E kept \in 0..Len(up) : up' = Survivors(kept)
    /\ down' = FALSE
    /\ UNCHANGED <<stream, server, listening, queue, out, read, provider, breaks>>

-----------------------------------------------------------------------------
Server == event_caller \/ Receive \/ event_generator \/ Background

Browser == \/ chatEventHandler \/ CompletionFails \/ CompletionReturns
           \/ CompletionStarts \/ processStream \/ StreamEnds \/ StreamFails

Next == Server \/ CallTimesOut \/ Stopped \/ Browser \/ Reconnects \/ TabCloses

\* The server goes on, a call times out, and a browser that is there goes on.
\* Nobody has to stop a response, and nothing has to break.
Spec == /\ Init /\ [][Next]_vars
        /\ WF_vars(Server) /\ WF_vars(CallTimesOut) /\ WF_vars(Browser)

-----------------------------------------------------------------------------
(* Properties.                                                             *)

Acks == [type : {"ack"}, body : Bodies, sid : 0..MaxBreaks]

Pieces == [type : {"piece"}, number : 1..MaxPieces] \cup {Done}

TypeOK ==
    /\ stream \in BOOLEAN
    /\ server \in {"called", "waiting", "streaming", "returned", "raised",
                   "ended", "closed"}
    /\ listening \in BOOLEAN
    /\ queue \in Seq(Pieces)
    /\ up \in Seq(Acks \cup Pieces)
    /\ out \in Seq(1..MaxPieces)
    /\ down \in BOOLEAN
    /\ client \in {"idle", "dropped", "asking", "reading", "over", "gone"}
    /\ read \in 0..MaxPieces
    /\ provider \in {"unasked", "asked", "refused", "refused_with_status",
                     "answering", "complete", "failed"}
    /\ breaks \in 0..MaxBreaks

\* On a connection that held, the response has, at every moment, the first pieces
\* of the answer and nothing is missing between what was yielded, what is queued
\* and what is still under way: no piece comes before somebody listens
\* (chat.py 94-98, +layout.svelte 371-416).
NothingMissing ==
    LET coming == queue \o up
        missing == read - Len(out)
    IN  breaks = 0 /\ client # "gone" /\ server = "streaming" =>
          /\ \A i \in 1..Len(out) : out[i] = i
          /\ missing \in 0..Len(coming)
          /\ \A i \in 1..Len(coming) :
                IF i <= missing THEN coming[i] = Piece(Len(out) + i)
                                ELSE coming[i].type # "piece"

\* What a provider says when it refuses is never streamed as an answer, and its
\* refusal is raised in the server, unless the refusal's body has a status of its
\* own: that one is streamed as an answer without a piece (chat.py 112-145,
\* +layout.svelte 364-373 and 412).
StreamsOnlyAccepted ==
    LET accepted == provider \in {"answering", "complete", "failed"}
    IN  /\ ~ accepted => out = <<>>
        /\ server \in {"streaming", "ended", "closed"} =>
             accepted \/ provider = "refused_with_status"

\* As long as the tab is there and its connection holds, a request is over in the
\* end, whatever the browser and the provider do (finally, +layout.svelte 418).
RequestEnds ==
    server = "waiting" ~> \/ server \in {"returned", "raised", "closed"}
                          \/ breaks > 0 \/ client = "gone"

\* A channel that served a stream is taken out of the handlers when the stream is
\* over, also when its reader went away first (chat.py 134-138).
ChannelClosed == server = "streaming" ~> ~ listening \/ breaks > 0 \/ client = "gone"
=============================================================================
