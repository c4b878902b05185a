--------------------------- MODULE ChatPageProofs ---------------------------
(***************************************************************************)
(* Theorems about ChatPage, for any number of questions.                   *)
(***************************************************************************)
EXTENDS ChatPage, SequenceTheorems, TLAPS

\* A bubble that waits is the assistant's, and the thread never ends with a
\* question: under each one there is a bubble at once.
ThreadShape ==
    /\ \A i \in DOMAIN thread : thread[i].pending => thread[i].role = "assistant"
    /\ thread # <<>> => thread[Len(thread)].role # "user"

PageInv == TypeOK /\ OneAwaited /\ AnswerUnderItsQuestion /\ ThreadShape

Bubble == [role : {"user", "assistant", "error"}, question : Questions,
           pending : BOOLEAN]

\* The bubble that waits is the last one, so that it is this one an answer
\* replaces; without one the answer comes behind.
LEMMA Replaced ==
    ASSUME PageInv, NEW q \in Awaited, NEW role \in {"assistant", "error"}
    PROVE  LET new == ReplacePending(Message(role, q, FALSE))
               n == Len(thread)
           IN  /\ new \in Seq(Bubble)
               /\ \A i \in DOMAIN new : ~new[i].pending
               /\ new # <<>> => new[Len(new)].role # "user"
               /\ \A i \in 2..Len(new) :
                    new[i].role # "user" /\ new[i - 1].role = "user" =>
                        new[i].question = new[i - 1].question
               /\ \A i \in DOMAIN new : \/ new[i] = Message(role, q, FALSE)
                                        \/ i \in DOMAIN thread /\ new[i] = thread[i]
  <1> DEFINE m == Message(role, q, FALSE)
             n == Len(thread)
             new == ReplacePending(m)
             W == {i \in DOMAIN thread : thread[i].pending}
  <1>1. /\ thread \in Seq(Bubble) /\ n \in Nat /\ q \in Questions /\ m \in Bubble
        /\ ~m.pending /\ m.role # "user" /\ m.question = q
    BY DEF PageInv, TypeOK, Bubble, Awaited, Message
  <1>2. \A i \in W : i = n /\ thread[i].question = q
    BY <1>1 DEF PageInv, OneAwaited
  <1>3. CASE W = {}
    <2>1. new = Append(thread, m)
      BY <1>3 DEF ReplacePending
    <2> HIDE DEF new, m
    <2>2. \A i \in 1..n : new[i] = thread[i]
      BY <1>1, <2>1
    <2>3. new \in Seq(Bubble) /\ Len(new) = n + 1 /\ new[n + 1] = m
      BY <1>1, <2>1
    <2>4. \A i \in DOMAIN new : ~new[i].pending
      BY <1>1, <1>3, <2>2, <2>3
    <2>5. ASSUME NEW i \in 2..Len(new), new[i].role # "user",
                 new[i - 1].role = "user"
          PROVE  new[i].question = new[i - 1].question
      <3>1. CASE i = n + 1
        BY <1>1, <2>2, <2>3, <2>5, <3>1 DEF PageInv, ThreadShape
      <3>2. CASE i # n + 1
        BY <1>1, <2>2, <2>3, <2>5, <3>2 DEF PageInv, AnswerUnderItsQuestion
      <3> QED
        BY <3>1, <3>2
    <2>6. new # <<>> => new[Len(new)].role # "user"
      BY <1>1, <2>3
    <2>7. \A i \in DOMAIN new :
            new[i] = m \/ (i \in DOMAIN thread /\ new[i] = thread[i])
      <3>1. DOMAIN new = 1..(n + 1) /\ DOMAIN thread = 1..n
        BY <1>1, <2>3
      <3>2. n \in Nat /\ new[n + 1] = m
        BY <1>1, <2>3
      <3> QED
        BY <2>2, <3>1, <3>2
    <2> QED
      BY <2>3, <2>4, <2>5, <2>6, <2>7 DEF new, m
  <1>4. CASE W # {}
    <2>1. W = {n} /\ n \in 1..n
      BY <1>1, <1>2, <1>4
    <2>2. new = [thread EXCEPT ![n] = m]
      <3>1. n = CHOOSE i \in W : \A j \in W : i <= j
        BY <1>1, <2>1
      <3> QED
        BY <2>1, <3>1 DEF ReplacePending
    <2> HIDE DEF new, m
    <2>3. /\ new \in Seq(Bubble) /\ Len(new) = n /\ new[n] = m
          /\ \A i \in 1..n : i # n => new[i] = thread[i]
      BY <1>1, <2>1, <2>2
    <2>4. \A i \in DOMAIN new : ~new[i].pending
      BY <1>1, <2>1, <2>3
    <2>5. ASSUME NEW i \in 2..Len(new), new[i].role # "user",
                 new[i - 1].role = "user"
          PROVE  new[i].question = new[i - 1].question
      <3>1. CASE i = n
        <4>1. thread[n].role # "user" /\ thread[n].question = q
          BY <1>2, <2>1 DEF PageInv, ThreadShape
        <4> QED
          BY <1>1, <2>3, <2>5, <3>1, <4>1 DEF PageInv, AnswerUnderItsQuestion
      <3>2. CASE i # n
        BY <1>1, <2>3, <2>5, <3>2 DEF PageInv, AnswerUnderItsQuestion
      <3> QED
        BY <3>1, <3>2
    <2>6. new # <<>> => new[Len(new)].role # "user"
      BY <1>1, <2>3
    <2>7. \A i \in DOMAIN new :
            new[i] = m \/ (i \in DOMAIN thread /\ new[i] = thread[i])
      <3>1. DOMAIN new = 1..n /\ DOMAIN thread = 1..n
        BY <1>1, <2>3
      <3>2. \A i \in 1..n : i # n => new[i] = thread[i]
        BY <2>3
      <3> QED
        BY <2>3, <3>1, <3>2
    <2> QED
      BY <2>3, <2>4, <2>5, <2>6, <2>7 DEF new, m
  <1> QED
    BY <1>3, <1>4

\* A message of the thread is about a question.
LEMMA ThreadTypes ==
    ASSUME PageInv
    PROVE  /\ thread \in Seq(Bubble) /\ DOMAIN thread = 1..Len(thread)
           /\ \A i \in DOMAIN thread : thread[i].question \in Questions
  <1>1. thread \in Seq(Bubble)
    BY DEF PageInv, TypeOK, Bubble
  <1>2. \A i \in DOMAIN thread : thread[i] \in Bubble
    BY <1>1
  <1> QED
    BY <1>1, <1>2 DEF Bubble

LEMMA PageInvInit == Init => PageInv
  <1> SUFFICES ASSUME Init PROVE PageInv
    OBVIOUS
  <1>1. Awaited = {} /\ thread = <<>>
    BY DEF Init, Awaited
  <1>2. TypeOK
    <2>1. thread \in Seq([role : {"user", "assistant", "error"},
                          question : Questions, pending : BOOLEAN])
      BY <1>1
    <2>2. request \in [Questions -> [stage : {"unasked", "sent", "answered",
                                             "failed", "over"},
                                    session : Sessions, here : BOOLEAN]]
      BY DEF Init, Sessions
    <2> QED
      BY <1>1, <2>1, <2>2 DEF Init, TypeOK, Sessions
  <1>3. OneAwaited /\ AnswerUnderItsQuestion /\ ThreadShape
    BY <1>1 DEF OneAwaited, AnswerUnderItsQuestion, ThreadShape
  <1> QED
    BY <1>2, <1>3 DEF PageInv

\* An answer or an error at the page it is for, or at none.
LEMMA ShowStep ==
    ASSUME PageInv, NEW q \in Questions, NEW role \in {"assistant", "error"},
           request[q].stage \in {"answered", "failed"},
           request' = [request EXCEPT ![q].stage = "over"],
           Show(q, role), sessionId' \in Sessions, UNCHANGED patient
    PROVE  PageInv'
  <1>1. request' \in [Questions -> [stage : {"unasked", "sent", "answered",
                                             "failed", "over"},
                                    session : Sessions, here : BOOLEAN]]
    BY DEF PageInv, TypeOK
  <1>2. Awaited' = Awaited \ {q}
    BY DEF Awaited, PageInv, TypeOK
  <1>3. CASE request[q].here
    <2>1. q \in Awaited /\ Awaited' = {}
      BY <1>2, <1>3 DEF Awaited, PageInv, OneAwaited
    <2>2. thread' = ReplacePending(Message(role, q, FALSE)) /\ ~sending'
      BY <1>3 DEF Show
    <2>3. thread' \in Seq(Bubble) /\ \A i \in DOMAIN thread' : ~thread'[i].pending
      BY <2>1, <2>2, Replaced
    <2>4. ThreadShape' /\ AnswerUnderItsQuestion'
      BY <2>1, <2>2, <2>3, Replaced DEF ThreadShape, AnswerUnderItsQuestion
    <2>5. TypeOK'
      BY <1>1, <2>1, <2>2, <2>3, <1>3 DEF PageInv, TypeOK, Bubble, Show
    <2>6. OneAwaited'
      BY <2>1, <2>3 DEF OneAwaited
    <2> QED
      BY <2>4, <2>5, <2>6 DEF PageInv
  <1>4. CASE ~request[q].here
    <2>1. Awaited' = Awaited /\ UNCHANGED <<thread, sending>>
      BY <1>2, <1>4 DEF Awaited, Show
    <2> QED
      BY <1>1, <2>1 DEF PageInv, TypeOK, OneAwaited, AnswerUnderItsQuestion,
         ThreadShape
  <1> QED
    BY <1>3, <1>4

\* A question and the bubble under it, behind what was there.
LEMMA Sent ==
    ASSUME PageInv, NEW q \in Questions, Send(q)
    PROVE  /\ thread' \in Seq(Bubble) /\ Len(thread') = Len(thread) + 2
           /\ \A i \in 1..Len(thread) : thread'[i] = thread[i]
           /\ thread'[Len(thread) + 1] = Message("user", q, FALSE)
           /\ thread'[Len(thread) + 2] = Message("assistant", q, TRUE)
  <1> DEFINE n == Len(thread)
             two == << Message("user", q, FALSE), Message("assistant", q, TRUE) >>
  <1>1. thread \in Seq(Bubble) /\ n \in Nat /\ two \in Seq(Bubble) /\ Len(two) = 2
    BY DEF PageInv, TypeOK, Bubble, Message
  <1>2. /\ thread' \in Seq(Bubble) /\ Len(thread') = n + 2
        /\ \A i \in 1..n : thread'[i] = thread[i]
        /\ thread'[n + 1] = Message("user", q, FALSE)
        /\ thread'[n + 2] = Message("assistant", q, TRUE)
    <2>1. thread' = thread \o two
      BY DEF Send
    <2> HIDE DEF two
    <2>2. two[1] = Message("user", q, FALSE) /\ two[2] = Message("assistant", q, TRUE)
      BY DEF two
    <2>3. /\ thread \o two \in Seq(Bubble)
          /\ Len(thread \o two) = n + 2
          /\ \A i \in 1..n + 2 :
                (thread \o two)[i] = IF i <= n THEN thread[i] ELSE two[i - n]
      <3>1. thread \in Seq(Bubble) /\ two \in Seq(Bubble)
        BY <1>1
      <3>2. /\ thread \o two \in Seq(Bubble)
            /\ Len(thread \o two) = n + Len(two)
            /\ \A i \in 1..n + Len(two) :
                (thread \o two)[i] = IF i <= n THEN thread[i] ELSE two[i - n]
        BY <3>1, ConcatProperties, Zenon
      <3> QED
        BY <1>1, <3>2
    <2>4. Len(thread') = n + 2 /\ thread' \in Seq(Bubble)
      BY <2>1, <2>3
    <2>5. /\ \A i \in 1..n : thread'[i] = thread[i]
          /\ thread'[n + 1] = two[1] /\ thread'[n + 2] = two[2]
      BY <1>1, <2>1, <2>3
    <2> QED
      BY <2>2, <2>4, <2>5
  <1> QED
    BY <1>2

LEMMA SendStep == ASSUME PageInv, NEW q \in Questions, Send(q) PROVE PageInv'
  <1> DEFINE n == Len(thread)
  <1>1. thread \in Seq(Bubble) /\ n \in Nat
    BY DEF PageInv, TypeOK, Bubble
  <1>2. /\ thread' \in Seq(Bubble) /\ Len(thread') = n + 2
        /\ \A i \in 1..n : thread'[i] = thread[i]
        /\ thread'[n + 1] = Message("user", q, FALSE)
        /\ thread'[n + 2] = Message("assistant", q, TRUE)
    BY Sent
  <1>3. Awaited = {}
    BY DEF Send, PageInv, TypeOK
  <1>4. Awaited' = {q}
    BY <1>3 DEF Send, Awaited, PageInv, TypeOK
  <1>5. TypeOK'
    BY <1>2, <1>4 DEF Send, PageInv, TypeOK, Bubble
  <1>6. \A i \in DOMAIN thread' : thread'[i].pending <=> i = n + 2
    BY <1>1, <1>2, <1>3 DEF PageInv, OneAwaited, Message
  <1>7. OneAwaited' /\ ThreadShape'
    BY <1>1, <1>2, <1>4, <1>6 DEF OneAwaited, ThreadShape, Message
  <1>8. ASSUME NEW i \in 2..Len(thread'), thread'[i].role # "user",
               thread'[i - 1].role = "user"
        PROVE  thread'[i].question = thread'[i - 1].question
    <2>1. CASE i <= n
      BY <1>1, <1>2, <1>8, <2>1 DEF PageInv, AnswerUnderItsQuestion
    <2>2. CASE i = n + 1
      BY <1>1, <1>2, <1>8, <2>2 DEF Message
    <2>3. CASE i = n + 2
      BY <1>1, <1>2, <2>3 DEF Message
    <2> QED
      BY <1>1, <1>2, <2>1, <2>2, <2>3
  <1>9. AnswerUnderItsQuestion'
    BY <1>8 DEF AnswerUnderItsQuestion
  <1> QED
    BY <1>5, <1>7, <1>9 DEF PageInv

LEMMA PageInvNext == PageInv /\ [Next]_vars => PageInv'
  <1> SUFFICES ASSUME PageInv, [Next]_vars PROVE PageInv'
    OBVIOUS
  <1> USE DEF PageInv, TypeOK, OneAwaited, AnswerUnderItsQuestion, ThreadShape,
              Awaited
  <1>1. ASSUME NEW q \in Questions, Send(q) PROVE PageInv'
    BY ONLY PageInv, <1>1, SendStep
  <1>2. ASSUME NEW q \in Questions, Receive(q) PROVE PageInv'
    <2>1. request[q].session \in Sessions
      OBVIOUS
    <2> QED
      BY ONLY PageInv, <1>2, <2>1, ShowStep DEF Receive
  <1>3. ASSUME NEW q \in Questions, ReceiveError(q) PROVE PageInv'
    <2>1. sessionId \in Sessions
      OBVIOUS
    <2> QED
      BY ONLY PageInv, <1>3, <2>1, ShowStep DEF ReceiveError
  <1>4. ASSUME NEW q \in Questions, Answer(q) \/ Lose(q) PROVE PageInv'
    <2>1. Awaited' = Awaited
      BY <1>4 DEF Answer, Lose
    <2>2. request' \in [Questions -> [stage : {"unasked", "sent", "answered",
                                             "failed", "over"},
                                    session : Sessions, here : BOOLEAN]]
      BY <1>4 DEF Answer, Lose, Sessions
    <2>3. UNCHANGED <<sessionId, thread, sending, patient>>
      BY <1>4 DEF Answer, Lose
    <2> HIDE DEF Awaited
    <2> QED
      BY <2>1, <2>2, <2>3
  <1>5. CASE NewSession
    BY <1>5 DEF NewSession, Sessions
  <1>6. CASE Leave
    <2>1. request' \in [Questions -> [stage : {"unasked", "sent", "answered",
                                             "failed", "over"},
                                    session : Sessions, here : BOOLEAN]]
      BY <1>6 DEF Leave
    <2>2. \A q \in Questions :
            ~(request'[q].here /\ request'[q].stage \in {"sent", "answered", "failed"})
      BY <1>6 DEF Leave
    <2>3. Awaited' = {}
      BY <2>2
    <2>4. thread' = <<>> /\ sending' = FALSE /\ sessionId' = sessionId
      BY <1>6 DEF Leave
    <2>5. patient' \in BOOLEAN
      BY <1>6 DEF Leave
    <2> HIDE DEF Awaited
    <2>6. thread' \in Seq([role : {"user", "assistant", "error"},
                           question : Questions, pending : BOOLEAN])
      BY <2>4
    <2>7. TypeOK'
      BY <2>1, <2>3, <2>4, <2>5, <2>6
    <2> QED
      BY <2>3, <2>4, <2>7
  <1>7. CASE Reload
    <2>1. request' \in [Questions -> [stage : {"unasked", "sent", "answered",
                                             "failed", "over"},
                                    session : Sessions, here : BOOLEAN]]
      BY <1>7 DEF Reload
    <2>2. \A q \in Questions :
            ~(request'[q].here /\ request'[q].stage \in {"sent", "answered", "failed"})
      BY <1>7 DEF Reload
    <2>3. Awaited' = {}
      BY <2>2
    <2>4. thread' = <<>> /\ sending' = FALSE /\ sessionId' = sessionId
      BY <1>7 DEF Reload
    <2>5. patient' \in BOOLEAN
      BY <1>7 DEF Reload
    <2> HIDE DEF Awaited
    <2>6. thread' \in Seq([role : {"user", "assistant", "error"},
                           question : Questions, pending : BOOLEAN])
      BY <2>4
    <2>7. TypeOK'
      BY <2>1, <2>3, <2>4, <2>5, <2>6
    <2> QED
      BY <2>3, <2>4, <2>7
  <1>8. CASE UNCHANGED vars
    BY <1>8 DEF vars
  <1> QED
    BY <1>1, <1>2, <1>3, <1>4, <1>5, <1>6, <1>7, <1>8 DEF Next

-----------------------------------------------------------------------------
(* The session on the screen.                                              *)

Shown(i) == thread[i].role = "assistant" /\ ~thread[i].pending

InFlight(q) == request[q].stage \in {"sent", "answered", "failed"}

\* A question whose answer is shown is over.  For a user who waits, a request
\* belongs to the page, was sent in its session, and comes back in it, or in a
\* new one if there is none yet.
SessionInv ==
    /\ \A i \in DOMAIN thread : Shown(i) => request[thread[i].question].stage = "over"
    /\ patient =>
        /\ \A q \in Questions : InFlight(q) => request[q].here
        /\ \A q \in Questions : request[q].stage = "sent" => request[q].session = sessionId
        /\ \A q \in Questions : request[q].stage = "answered" =>
                /\ request[q].session # "none"
                /\ sessionId # "none" => request[q].session = sessionId
        /\ \A i \in DOMAIN thread : Shown(i) =>
                /\ sessionId # "none"
                /\ request[thread[i].question].session = sessionId

LEMMA SessionInvInit == Init => SessionInv
  BY DEF Init, SessionInv, InFlight, Shown

\* Every bubble of the new thread was there before, or answers q.
LEMMA ShowSession ==
    ASSUME PageInv, SessionInv, NEW q \in Questions,
           NEW role \in {"assistant", "error"}, InFlight(q),
           request' = [request EXCEPT ![q].stage = "over"], Show(q, role),
           UNCHANGED patient,
           \/ role = "error" /\ sessionId' = sessionId
           \/ request[q].stage = "answered" /\ sessionId' = request[q].session
    PROVE  SessionInv'
  <1>1. \A i \in DOMAIN thread' :
            \/ thread'[i] = Message(role, q, FALSE)
            \/ i \in DOMAIN thread /\ thread'[i] = thread[i]
    <2>1. CASE request[q].here
      <3>1. q \in Awaited /\ thread' = ReplacePending(Message(role, q, FALSE))
        BY <2>1 DEF Show, Awaited, InFlight
      <3> QED
        BY <3>1, Replaced
    <2>2. CASE ~request[q].here
      BY <2>2 DEF Show
    <2> QED
      BY <2>1, <2>2
  <1>2. \A p \in Questions \ {q} : request'[p] = request[p]
    BY DEF PageInv, TypeOK
  <1>3. request'[q].stage = "over" /\ request'[q].session = request[q].session
    BY DEF PageInv, TypeOK
  <1>4. \A i \in DOMAIN thread : thread[i].question \in Questions
    BY ThreadTypes
  <1>5. \A i \in DOMAIN thread : Shown(i) => thread[i].question # q
    BY DEF SessionInv, InFlight
  <1>6. patient => \A p \in Questions : InFlight(p) => p = q
    BY DEF PageInv, SessionInv, OneAwaited, InFlight, Awaited
  <1>7. \A i \in DOMAIN thread' : Shown(i)' =>
            \/ role = "assistant" /\ thread'[i].question = q
            \/ i \in DOMAIN thread /\ Shown(i) /\ thread'[i] = thread[i]
    BY <1>1 DEF Shown, Message
  <1>8. \A i \in DOMAIN thread' : Shown(i)' =>
            request'[thread'[i].question].stage = "over"
    BY <1>2, <1>3, <1>4, <1>5, <1>7 DEF SessionInv
  <1>9. ASSUME patient
        PROVE  /\ \A p \in Questions : ~InFlight(p)'
               /\ \A i \in DOMAIN thread' : Shown(i)' =>
                    /\ sessionId' # "none"
                    /\ request'[thread'[i].question].session = sessionId'
    <2>1. \A p \in Questions : ~InFlight(p)'
      BY <1>2, <1>3, <1>6, <1>9 DEF InFlight
    <2>2. ASSUME NEW i \in DOMAIN thread', Shown(i)'
          PROVE  /\ sessionId' # "none"
                 /\ request'[thread'[i].question].session = sessionId'
      <3>1. CASE role = "assistant" /\ thread'[i].question = q
        BY <1>3, <1>9, <3>1 DEF SessionInv
      <3>2. CASE i \in DOMAIN thread /\ Shown(i) /\ thread'[i] = thread[i]
        BY <1>2, <1>4, <1>5, <1>9, <3>2 DEF SessionInv
      <3> QED
        BY <1>7, <2>2, <3>1, <3>2
    <2> QED
      BY <2>1, <2>2
  <1> QED
    BY <1>8, <1>9 DEF SessionInv, InFlight

LEMMA SessionInvNext == PageInv /\ SessionInv /\ [Next]_vars => SessionInv'
  <1> SUFFICES ASSUME PageInv, SessionInv, [Next]_vars PROVE SessionInv'
    OBVIOUS
  <1>1. /\ request \in [Questions -> [stage : {"unasked", "sent", "answered",
                                             "failed", "over"},
                                    session : Sessions, here : BOOLEAN]]
        /\ \A i \in DOMAIN thread : thread[i].question \in Questions
    BY ThreadTypes DEF PageInv, TypeOK
  <1>2. ASSUME NEW q \in Questions, Send(q) PROVE SessionInv'
    <2>1. \A i \in DOMAIN thread' : Shown(i)' =>
                i \in DOMAIN thread /\ Shown(i) /\ thread'[i] = thread[i]
      <3>0. /\ thread' \in Seq(Bubble) /\ Len(thread') = Len(thread) + 2
            /\ \A i \in 1..Len(thread) : thread'[i] = thread[i]
            /\ thread'[Len(thread) + 1] = Message("user", q, FALSE)
            /\ thread'[Len(thread) + 2] = Message("assistant", q, TRUE)
        BY <1>2, Sent
      <3>1. /\ DOMAIN thread' = 1..(Len(thread) + 2) /\ Len(thread) \in Nat
            /\ DOMAIN thread = 1..Len(thread)
        BY <3>0, ThreadTypes
      <3>2. \A i \in DOMAIN thread' : i \in DOMAIN thread \/ i = Len(thread) + 1
                                        \/ i = Len(thread) + 2
        BY <3>1
      <3>3. \A i \in {Len(thread) + 1, Len(thread) + 2} : ~Shown(i)'
        BY <3>0 DEF Shown, Message
      <3>4. \A i \in DOMAIN thread : thread'[i] = thread[i]
        BY <3>0, <3>1
      <3> QED
        BY <3>2, <3>3, <3>4 DEF Shown
    <2>2. patient => \A p \in Questions : ~InFlight(p)
      BY <1>2 DEF PageInv, TypeOK, SessionInv, Awaited, InFlight, Send
    <2>3. request' = [request EXCEPT ![q] = [stage |-> "sent", here |-> TRUE,
                                             session |-> sessionId]]
          /\ UNCHANGED <<sessionId, patient>> /\ request[q].stage = "unasked"
      BY <1>2 DEF Send
    <2>4. \A i \in DOMAIN thread' : Shown(i)' =>
            request'[thread'[i].question] = request[thread[i].question]
      BY <1>1, <2>1, <2>3 DEF SessionInv
    <2> QED
      BY <1>1, <2>1, <2>2, <2>3, <2>4 DEF SessionInv, InFlight
  <1>3. ASSUME NEW q \in Questions, Receive(q) PROVE SessionInv'
    BY <1>3, ShowSession DEF Receive, InFlight
  <1>4. ASSUME NEW q \in Questions, ReceiveError(q) PROVE SessionInv'
    BY <1>4, ShowSession DEF ReceiveError, InFlight
  <1>5. ASSUME NEW q \in Questions, Answer(q) \/ Lose(q) PROVE SessionInv'
    <2>1. InFlight(q) /\ UNCHANGED <<sessionId, thread, patient>>
      BY <1>5 DEF Answer, Lose, InFlight
    <2>2. \A i \in DOMAIN thread : Shown(i) =>
            request'[thread[i].question] = request[thread[i].question]
      BY <1>1, <1>5, <2>1 DEF SessionInv, Answer, Lose, InFlight
    <2> QED
      BY <1>1, <1>5, <2>1, <2>2, QuestionsAssumption
         DEF SessionInv, Answer, Lose, InFlight, Shown
  <1>6. CASE NewSession
    <2>1. patient' => patient /\ \A q \in Questions : ~InFlight(q)
      BY <1>6 DEF NewSession, PageInv, TypeOK, SessionInv, Awaited, InFlight
    <2> QED
      BY <1>6, <2>1 DEF NewSession, SessionInv, InFlight, Shown
  <1>7. CASE Leave
    <2>1. patient' => patient /\ \A q \in Questions : ~InFlight(q)
      BY <1>7 DEF Leave, PageInv, TypeOK, SessionInv, Awaited, InFlight
    <2> QED
      BY <1>1, <1>7, <2>1 DEF Leave, SessionInv, InFlight, Shown
  <1>8. CASE Reload
    <2>1. \A q \in Questions : ~InFlight(q)'
      BY <1>1, <1>8 DEF Reload, InFlight
    <2> QED
      <3>1. thread' = <<>>
        BY <1>8 DEF Reload
      <3>2. DOMAIN thread' = {}
        BY <3>1
      <3>3. \A q \in Questions : request'[q].stage \notin {"sent", "answered"}
        BY <2>1 DEF InFlight
      <3> QED
        BY <2>1, <3>2, <3>3 DEF SessionInv, Shown
  <1>9. CASE UNCHANGED vars
    BY <1>9 DEF vars, SessionInv, InFlight, Shown
  <1> QED
    BY <1>2, <1>3, <1>4, <1>5, <1>6, <1>7, <1>8, <1>9 DEF Next

\* The input is disabled exactly while an answer to the page is on its way.
THEOREM TypeCorrect == Spec => []TypeOK
  BY PageInvInit, PageInvNext, PTL DEF Spec, PageInv

\* Whatever the user does, a page awaits one answer and shows one bubble that
\* waits for it, at the end.
THEOREM AwaitedCorrect == Spec => []OneAwaited
  BY PageInvInit, PageInvNext, PTL DEF Spec, PageInv

\* In whatever order answers come, none stands under another question.
THEOREM AnswersCorrect == Spec => []AnswerUnderItsQuestion
  BY PageInvInit, PageInvNext, PTL DEF Spec, PageInv

\* For a user who waits for each answer, what is on the screen was answered in
\* the session the next question will be sent in.
THEOREM SessionCorrect == Spec => []ThreadIsSession
  <1>1. PageInv /\ SessionInv => ThreadIsSession
    BY DEF SessionInv, ThreadIsSession, Shown
  <1> QED
    BY <1>1, PageInvInit, PageInvNext, SessionInvInit, SessionInvNext, PTL
       DEF Spec

=============================================================================
