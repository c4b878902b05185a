---------------------------- MODULE Conversation ----------------------------
(***************************************************************************)
(* What a session promises the turns that read it: a transcript that only  *)
(* grows, where every question is asked once and an answer follows its own *)
(* question at once.  A question may stay without an answer.               *)
(***************************************************************************)
EXTENDS Sequences

CONSTANTS
    Sessions,   \* session ids
    Turns       \* chat requests

VARIABLE transcript  \* [Sessions -> messages in the order they are read]

Asked(s, q) ==
    \E i \in DOMAIN transcript[s] : transcript[s][i].turn = q

Init == transcript = [s \in Sessions |-> <<>>]

\* The user's message is logged.
Ask(s, q) ==
    /\ \A r \in Sessions : ~Asked(r, q)
    /\ transcript' = [transcript EXCEPT ![s] =
                        Append(@, [turn |-> q, role |-> "user"])]

\* The assistant's message is logged behind it.
Answer(s, q) ==
    /\ transcript[s] # <<>>
    /\ transcript[s][Len(transcript[s])] = [turn |-> q, role |-> "user"]
    /\ transcript' = [transcript EXCEPT ![s] =
                        Append(@, [turn |-> q, role |-> "assistant"])]

Next == \E s \in Sessions, q \in Turns : Ask(s, q) \/ Answer(s, q)

Spec == Init /\ [][Next]_transcript

=============================================================================
