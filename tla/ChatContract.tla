---------------------------- MODULE ChatContract -----------------------------
(***************************************************************************)
(* What POST /v1/chat/completions promises its client, whichever way the   *)
(* answer travels: at most one answer is shown, an apology may be shown in *)
(* its place or after it, nothing is shown once the exchange is closed,    *)
(* and an exchange the client does not leave is closed.                    *)
(***************************************************************************)
EXTENDS Naturals, Sequences

CONSTANTS Answers, Apology

VARIABLES
    status,     \* "open", "closed", or "abandoned" by the client
    shown       \* the texts the client was given as the assistant's message

vars == <<status, shown>>

Init == status = "open" /\ shown = <<>>

OneAnswer == [1..1 -> Answers]

Show ==
    /\ status = "open"
    /\ shown = <<>>
    /\ shown' \in OneAnswer
    /\ UNCHANGED status

\* Closing comes with the answer itself, with an apology, or with neither.
Close ==
    /\ status = "open"
    /\ status' = "closed"
    /\ \/ UNCHANGED shown
       \/ shown' = Append(shown, Apology)
       \/ shown = <<>> /\ shown' \in OneAnswer

Abandon ==
    /\ status = "open"
    /\ status' = "abandoned"
    /\ UNCHANGED shown

Next ==
    \/ Show
    \/ Close
    \/ Abandon

Spec == Init /\ [][Next]_vars /\ WF_vars(Close)
=============================================================================
