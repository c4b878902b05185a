------------------------------ MODULE ChatPage ------------------------------
(***************************************************************************)
(* The chat page and the session id it shares with every later instance of *)
(* itself: questions sent, answers that come late or not at all, a new     *)
(* session, leaving the page and coming back, and a reload of the browser. *)
(*                                                                         *)
(* The service answers in the session it is asked in, or in a new one if   *)
(* it is asked in none; that session carries the name of its question.     *)
(***************************************************************************)
EXTENDS Integers, Sequences

CONSTANT Questions  \* what the user sends, each once

ASSUME QuestionsAssumption == "none" \notin Questions

VARIABLES
    sessionId,  \* signal and localStorage entry of ChatSessionService
    thread,     \* signal messages of the page on the screen
    sending,    \* signal sending of that page
    request,    \* POST /chat: [stage, session, here], here while its page lives
    patient     \* history: the user has waited for every answer

vars == <<sessionId, thread, sending, request, patient>>

Sessions == Questions \cup {"none"}

\* An assistant message that answers nothing yet is pending; one that shows an
\* error has the role "error" here.
Message(role, question, pending) ==
    [role |-> role, question |-> question, pending |-> pending]

Init ==
    /\ sessionId = "none"
    /\ thread = <<>>
    /\ sending = FALSE
    /\ request = [q \in Questions |->
                    [stage |-> "unasked", session |-> "none", here |-> FALSE]]
    /\ patient = TRUE

-----------------------------------------------------------------------------
\* Faulty: the page goes on before the answer is there.
SendAhead(q) ==
    /\ request[q].stage = "unasked"
    /\ thread' = thread \o << Message("user", q, FALSE),
                              Message("assistant", q, TRUE) >>
    /\ sending' = TRUE
    /\ request' = [request EXCEPT ![q] = [stage |-> "sent", here |-> TRUE,
                                          session |-> sessionId]]
    /\ UNCHANGED <<sessionId, patient>>

\* onSend, from an input that is disabled while an answer is awaited.
Send(q) ==
    /\ ~sending
    /\ request[q].stage = "unasked"
    /\ thread' = thread \o << Message("user", q, FALSE),
                              Message("assistant", q, TRUE) >>
    /\ sending' = TRUE
    /\ request' = [request EXCEPT ![q] = [stage |-> "sent", here |-> TRUE,
                                          session |-> sessionId]]
    /\ UNCHANGED <<sessionId, patient>>

\* replacePending: the first pending bubble, or one at the end.
ReplacePending(answer) ==
    LET waiting == {i \in DOMAIN thread : thread[i].pending}
        first == CHOOSE i \in waiting : \A j \in waiting : i <= j
    IN IF waiting = {} THEN Append(thread, answer)
                       ELSE [thread EXCEPT ![first] = answer]

\* Faulty: an error leaves sending set.
ShowStuck(q, role) ==
    IF request[q].here
    THEN /\ thread' = ReplacePending(Message(role, q, FALSE))
         /\ sending' = (role = "error")
    ELSE UNCHANGED <<thread, sending>>

\* What next and error do to the page; one that is gone changes signals that
\* nobody shows.
Show(q, role) ==
    IF request[q].here
    THEN thread' = ReplacePending(Message(role, q, FALSE)) /\ sending' = FALSE
    ELSE UNCHANGED <<thread, sending>>

\* Faulty: the session of the answer is forgotten.
ReceiveForgetting(q) ==
    /\ request[q].stage = "answered"
    /\ request' = [request EXCEPT ![q].stage = "over"]
    /\ Show(q, "assistant")
    /\ UNCHANGED <<sessionId, patient>>

\* next: the session id is set whatever has happened since.
Receive(q) ==
    /\ request[q].stage = "answered"
    /\ request' = [request EXCEPT ![q].stage = "over"]
    /\ sessionId' = request[q].session
    /\ Show(q, "assistant")
    /\ UNCHANGED patient

\* error.
ReceiveError(q) ==
    /\ request[q].stage = "failed"
    /\ request' = [request EXCEPT ![q].stage = "over"]
    /\ Show(q, "error")
    /\ UNCHANGED <<sessionId, patient>>

\* Faulty: the input is freed while the answer is still on its way.
NewSessionFreeing ==
    /\ patient' = (patient /\ ~sending)
    /\ sessionId' = "none"
    /\ thread' = <<>>
    /\ sending' = FALSE
    /\ UNCHANGED request

\* newSession: its button is never disabled, and sending stays as it is.
NewSession ==
    /\ patient' = (patient /\ ~sending)
    /\ sessionId' = "none"
    /\ thread' = <<>>
    /\ UNCHANGED <<sending, request>>

\* To the admin page and back: a new page, while requests go on.
Leave ==
    /\ patient' = (patient /\ ~sending)
    /\ thread' = <<>>
    /\ sending' = FALSE
    /\ request' = [q \in Questions |-> [request[q] EXCEPT !.here = FALSE]]
    /\ UNCHANGED sessionId

\* A reload: requests in flight are dropped, the session id is read back.
Reload ==
    /\ patient' = (patient /\ ~sending)
    /\ thread' = <<>>
    /\ sending' = FALSE
    /\ request' = [q \in Questions |->
                    IF request[q].stage = "unasked" THEN request[q]
                    ELSE [request[q] EXCEPT !.stage = "over", !.here = FALSE]]
    /\ UNCHANGED sessionId

-----------------------------------------------------------------------------
(* The service and the network.                                            *)

\* POST /chat ends in the session asked for, or in a new one.
Answer(q) ==
    /\ request[q].stage = "sent"
    /\ request' = [request EXCEPT
            ![q].stage = "answered",
            ![q].session = IF request[q].session = "none"
                           THEN q ELSE request[q].session]
    /\ UNCHANGED <<sessionId, thread, sending, patient>>

\* It fails, or its answer is lost.
Lose(q) ==
    /\ request[q].stage \in {"sent", "answered"}
    /\ request' = [request EXCEPT ![q].stage = "failed"]
    /\ UNCHANGED <<sessionId, thread, sending, patient>>

-----------------------------------------------------------------------------
Next ==
    \/ \E q \in Questions :
            Send(q) \/ Receive(q) \/ ReceiveError(q) \/ Answer(q) \/ Lose(q)
    \/ NewSession \/ Leave \/ Reload

Spec == Init /\ [][Next]_vars

\* Requests come back, with an answer or an error, and their callbacks run.
FairSpec ==
    /\ Spec
    /\ \A q \in Questions : WF_vars(Answer(q) \/ Lose(q))
                            /\ WF_vars(Receive(q) \/ ReceiveError(q))

-----------------------------------------------------------------------------
(* Properties.                                                             *)

Awaited == {q \in Questions : /\ request[q].here
                              /\ request[q].stage \in
                                    {"sent", "answered", "failed"}}

\* Types; the input is disabled exactly while an answer to this page is on its
\* way.
TypeOK ==
    /\ sessionId \in Sessions
    /\ thread \in Seq([role : {"user", "assistant", "error"},
                       question : Questions, pending : BOOLEAN])
    /\ sending \in BOOLEAN
    /\ request \in [Questions -> [stage : {"unasked", "sent", "answered",
                                           "failed", "over"},
                                  session : Sessions, here : BOOLEAN]]
    /\ patient \in BOOLEAN
    /\ sending <=> Awaited # {}

\* A page awaits one answer at most, and a bubble that waits is the last one
\* and waits for that answer, whatever the user does meanwhile.
OneAwaited ==
    /\ \A p, q \in Awaited : p = q
    /\ \A i \in DOMAIN thread : thread[i].pending =>
            i = Len(thread) /\ thread[i].question \in Awaited

\* An answer under a question is the answer to it, also when it comes late and
\* the thread has been emptied since.
AnswerUnderItsQuestion ==
    \A i \in 2..Len(thread) :
        thread[i].role # "user" /\ thread[i - 1].role = "user" =>
            thread[i].question = thread[i - 1].question

\* For a user who waits for each answer, the answered questions on the screen
\* were answered in the session the next question will be sent in: what the
\* user sees is what the service takes for the conversation.
ThreadIsSession ==
    patient => \A i \in DOMAIN thread :
        thread[i].role = "assistant" /\ ~thread[i].pending =>
            request[thread[i].question].session = sessionId

\* A page that awaits an answer comes to an end of it.
AnswerShown == sending ~> ~sending

=============================================================================
