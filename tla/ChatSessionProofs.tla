------------------------- MODULE ChatSessionProofs -------------------------
(***************************************************************************)
(* Theorems about ChatSession, for any number of turns, sessions and       *)
(* workers.                                                                *)
(***************************************************************************)
EXTENDS ChatSession, FiniteSetTheorems, WellFoundedInduction, TLAPS

\* Turns that have logged nothing and have no number in hand.
Early == {"idle", "read", "userSeq", "refused"} \cup Awaiting

Fields == {"pc", "session", "worker", "length", "history", "seq"}

States == {"idle"} \cup Awaiting \cup Storing \cup Ended

\* The types the proof needs; what a history holds it does not.
Types ==
    /\ sessions \in SUBSET Sessions
    /\ messages \in [Sessions -> Seq(Message)]
    /\ DOMAIN turn = Turns
    /\ \A q \in Turns : /\ DOMAIN turn[q] = Fields
                        /\ turn[q].pc \in States
                        /\ turn[q].session \in Sessions
                        /\ turn[q].worker \in Workers
                        /\ turn[q].length \in 0..MaxLength
                        /\ turn[q].seq \in Nat
    /\ loop \in [Workers -> Turns \cup {Nobody}]
    /\ ready \in [Workers -> BOOLEAN]
    /\ faults \in 0..MaxFaults
    /\ before \in [Turns -> SUBSET Turns]

Exclusive ==
    \A q \in Turns : (loop[turn[q].worker] = q) <=> (turn[q].pc \in Storing)

LoopInv == Types /\ Exclusive

\* A message lies in the session of its turn, and tells how far that has come.
Owned ==
    \A s \in Sessions : \A i \in DOMAIN messages[s] :
        /\ turn[messages[s][i].turn].session = s
        /\ turn[messages[s][i].turn].pc \notin Early \cup {"userRow"}
        /\ messages[s][i].role = "assistant"
            => turn[messages[s][i].turn].pc = "answered"

\* A turn logs each of its two messages once ...
LoggedOnce ==
    \A s \in Sessions : \A i, k \in DOMAIN messages[s] :
        messages[s][i].turn = messages[s][k].turn
            /\ messages[s][i].role = messages[s][k].role => i = k

\* ... and has logged the messages it is past.
Logged(q, role) ==
    \E i \in DOMAIN messages[turn[q].session] :
        /\ messages[turn[q].session][i].turn = q
        /\ messages[turn[q].session][i].role = role

LoggedSoFar ==
    \A q \in Turns :
        /\ turn[q].pc \in {"assistantSeq", "assistantRow", "answered"}
            => Logged(q, "user")
        /\ turn[q].pc = "answered" => Logged(q, "assistant")

\* A session with messages has a highest number.
Highest ==
    \A s \in Sessions :
        messages[s] # <<>> =>
            \E k \in DOMAIN messages[s] : \A i \in DOMAIN messages[s] :
                messages[s][i].seq <= messages[s][k].seq

\* The number n a turn has in hand is one above a message's, or 0; above those
\* of every turn it was asked after, and above that of its own question.
InHand(q, rows, n, asked, pc) ==
    /\ n = 0 \/ \E k \in DOMAIN rows : rows[k].seq = n - 1
    /\ \A i \in DOMAIN rows : rows[i].turn \in asked => rows[i].seq < n
    /\ pc = "assistantRow" =>
            \A i \in DOMAIN rows : rows[i].turn = q => rows[i].seq < n

NumberInHand ==
    \A q \in Turns : turn[q].pc \in {"userRow", "assistantRow"} =>
        InHand(q, messages[turn[q].session], turn[q].seq, before[q], turn[q].pc)

\* A turn is asked after answered ones only.
AskedAfter == \A q \in Turns : \A p \in before[q] : turn[p].pc = "answered"

LogInv == /\ Owned
          /\ LoggedOnce
          /\ LoggedSoFar
          /\ Highest
          /\ NumberInHand
          /\ AskedAfter
          /\ SeqGapless
          /\ QuestionFirst
          /\ TurnsInOrder

IInv == LoopInv /\ LogInv

-----------------------------------------------------------------------------
(* Numbers.                                                                *)

\* The next number is above every one there, and follows one, or is the first.
LEMMA NextSeqFollows ==
    ASSUME Types, Highest, NEW s \in Sessions
    PROVE  LET rows == messages[s]
               n == NextSeq(rows)
           IN  /\ n \in Nat
               /\ \A i \in DOMAIN rows : rows[i].seq < n
               /\ n = 0 \/ \E k \in DOMAIN rows : rows[k].seq = n - 1
  <1> DEFINE rows == messages[s]
             seqs == {rows[i].seq : i \in DOMAIN rows}
             top == CHOOSE n \in seqs : \A i \in DOMAIN rows : rows[i].seq <= n
  <1>1. rows \in Seq(Message)
    BY DEF Types
  <1>2. \A i \in DOMAIN rows : rows[i].seq \in Nat
    <2>1. \A i \in DOMAIN rows : rows[i] \in Message
      <3> HIDE DEF rows
      <3> QED
        BY <1>1
    <2> QED
      BY <2>1 DEF Message
  <1>3. CASE rows = <<>>
    <2>1. NextSeq(rows) = 0 /\ DOMAIN rows = {}
      BY <1>3 DEF NextSeq
    <2> QED
      BY <2>1
  <1>4. CASE rows # <<>>
    <2>1. \E n \in seqs : \A i \in DOMAIN rows : rows[i].seq <= n
      BY <1>4 DEF Highest
    <2>2. top \in seqs /\ \A i \in DOMAIN rows : rows[i].seq <= top
      BY <2>1
    <2>3. NextSeq(rows) = 1 + top
      BY <1>4 DEF NextSeq
    <2> HIDE DEF top
    <2>4. PICK k \in DOMAIN rows : rows[k].seq = top
      BY <2>2
    <2>5. top \in Nat
      BY <1>2, <2>4
    <2> QED
      BY <1>2, <2>2, <2>3, <2>4, <2>5
  <1> QED
    BY <1>3, <1>4

-----------------------------------------------------------------------------
(* The loop.                                                               *)

\* A turn changes its place, its history and its number, nothing else.
Moves(q, pc, seq) ==
    /\ DOMAIN turn' = Turns
    /\ \A p \in Turns : /\ DOMAIN turn'[p] = Fields
                        /\ turn'[p].session = turn[p].session
                        /\ turn'[p].worker = turn[p].worker
                        /\ turn'[p].length = turn[p].length
                        /\ p # q => /\ turn'[p].pc = turn[p].pc
                                    /\ turn'[p].seq = turn[p].seq
    /\ turn'[q].pc = pc
    /\ turn'[q].seq = seq

LEMMA MovesPc ==
    ASSUME Types, NEW q \in Turns, NEW pc, turn' = [turn EXCEPT ![q].pc = pc]
    PROVE  Moves(q, pc, turn[q].seq)
  BY DEF Types, Fields, Moves

LEMMA MovesHistory ==
    ASSUME Types, NEW q \in Turns, NEW pc, NEW h,
           turn' = [turn EXCEPT ![q].pc = pc, ![q].history = h]
    PROVE  Moves(q, pc, turn[q].seq)
  BY DEF Types, Fields, Moves

LEMMA MovesSeq ==
    ASSUME Types, NEW q \in Turns, NEW pc, NEW n,
           turn' = [turn EXCEPT ![q].pc = pc, ![q].seq = n]
    PROVE  Moves(q, pc, n)
  BY DEF Types, Fields, Moves

LEMMA MovesOver ==
    ASSUME Types, NEW q \in Turns, NEW pc, NEW h, NEW n,
           turn' = [turn EXCEPT ![q].pc = pc, ![q].history = h, ![q].seq = n]
    PROVE  Moves(q, pc, n)
  BY DEF Types, Fields, Moves

\* A turn may take the loop, keep it or give it back, as its new place asks.
LEMMA LoopStep ==
    ASSUME LoopInv, NEW q \in Turns, NEW pc \in States, NEW n \in Nat,
           Moves(q, pc, n), MayRun(q),
           \/ pc \in Storing /\ Take(q)
           \/ pc \notin Storing /\ Release(q)
           \/ (pc \in Storing <=> turn[q].pc \in Storing) /\ loop' = loop,
           sessions' \in SUBSET Sessions,
           messages' \in [Sessions -> Seq(Message)],
           ready' \in [Workers -> BOOLEAN],
           faults' = faults,
           before' \in [Turns -> SUBSET Turns]
    PROVE  LoopInv'
  <1>1. /\ \A p \in Turns : /\ turn[p].worker \in Workers
                            /\ turn'[p].worker = turn[p].worker
                            /\ p # q => turn'[p].pc = turn[p].pc
                            /\ p # Nobody
        /\ turn'[q].pc = pc
        /\ loop \in [Workers -> Turns \cup {Nobody}]
        /\ loop[turn[q].worker] \in {q, Nobody}
    BY TurnsAssumption DEF LoopInv, Types, Moves, MayRun
  <1>2. loop' \in [Workers -> Turns \cup {Nobody}]
    BY <1>1 DEF Take, Release
  <1>3. Types'
    <2>1. \A p \in Turns : /\ DOMAIN turn'[p] = Fields
                           /\ turn'[p].pc \in States
                           /\ turn'[p].session \in Sessions
                           /\ turn'[p].worker \in Workers
                           /\ turn'[p].length \in 0..MaxLength
                           /\ turn'[p].seq \in Nat
      BY DEF LoopInv, Types, Moves
    <2>2. DOMAIN turn' = Turns /\ faults' \in 0..MaxFaults
      BY DEF LoopInv, Types, Moves
    <2> QED
      BY <1>2, <2>1, <2>2 DEF Types
  <1>4. ASSUME NEW p \in Turns
        PROVE  (loop'[turn'[p].worker] = p) <=> (turn'[p].pc \in Storing)
    <2>1. (loop[turn[p].worker] = p) <=> (turn[p].pc \in Storing)
      BY DEF LoopInv, Exclusive
    <2>2. (loop[turn[q].worker] = q) <=> (turn[q].pc \in Storing)
      BY DEF LoopInv, Exclusive
    <2>3. CASE Take(q) /\ pc \in Storing
      BY <1>1, <2>1, <2>2, <2>3 DEF Take
    <2>4. CASE Release(q) /\ pc \notin Storing
      BY <1>1, <2>1, <2>2, <2>4 DEF Release
    <2>5. CASE (pc \in Storing <=> turn[q].pc \in Storing) /\ loop' = loop
      BY <1>1, <2>1, <2>2, <2>5
    <2> QED
      BY <2>3, <2>4, <2>5
  <1> QED
    BY <1>3, <1>4 DEF LoopInv, Exclusive

-----------------------------------------------------------------------------
(* What is logged.                                                         *)

\* A step that logs nothing and chooses no number: turns go on before they
\* have logged anything, or are cut off, and one may arrive after those that
\* are answered.
LEMMA LogKept ==
    ASSUME LoopInv, LogInv, messages' = messages,
           before' \in [Turns -> SUBSET Turns],
           \A q \in Turns :
              /\ turn'[q].session = turn[q].session
              /\ \/ turn'[q].pc = turn[q].pc /\ turn'[q].seq = turn[q].seq
                 \/ turn[q].pc \in Early /\ turn'[q].pc \in Early
                 \/ turn[q].pc # "answered" /\ turn'[q].pc \in {"failed", "lost"}
              /\ \/ before'[q] = before[q]
                 \/ /\ turn[q].pc = "idle" /\ turn'[q].pc \in Early
                    /\ \A p \in before'[q] : turn[p].pc = "answered"
    PROVE  LogInv'
  <1>1. /\ before \in [Turns -> SUBSET Turns]
        /\ \A q \in Turns : turn[q].session \in Sessions
        /\ \A s \in Sessions : \A i \in DOMAIN messages[s] :
                messages[s][i].turn \in Turns
    <2>1. \A s \in Sessions : messages[s] \in Seq(Message)
      BY DEF LoopInv, Types
    <2>2. ASSUME NEW s \in Sessions, NEW i \in DOMAIN messages[s]
          PROVE  messages[s][i].turn \in Turns
      <3>1. messages[s][i] \in Message
        BY <2>1, <2>2
      <3> QED
        BY <3>1 DEF Message
    <2> QED
      BY <2>2 DEF LoopInv, Types
  <1>2. \A q \in Turns : turn[q].pc = "answered" => turn'[q].pc = "answered"
    BY DEF Early, Awaiting
  <1>3. \A q \in Turns : turn'[q].pc \in Early => turn[q].pc \in Early
    BY DEF Early, Awaiting
  <1>4. \A q \in Turns :
            turn'[q].pc \in {"userRow", "assistantSeq", "assistantRow", "answered"}
                => turn'[q].pc = turn[q].pc /\ turn'[q].seq = turn[q].seq
                    /\ before'[q] = before[q]
    BY DEF Early, Awaiting
  <1>5. Owned'
    BY <1>1, <1>2, <1>3, <1>4 DEF LogInv, Owned, Early, Awaiting
  <1>6. LoggedOnce' /\ Highest' /\ SeqGapless' /\ QuestionFirst'
    BY DEF LogInv, LoggedOnce, Highest, SeqGapless, QuestionFirst
  <1>7. LoggedSoFar'
    BY <1>1, <1>4 DEF LogInv, LoggedSoFar, Logged
  <1>8. NumberInHand'
    <2> SUFFICES ASSUME NEW q \in Turns,
                        turn'[q].pc \in {"userRow", "assistantRow"}
                 PROVE  InHand(q, messages[turn'[q].session], turn'[q].seq,
                               before'[q], turn'[q].pc)
      BY DEF NumberInHand
    <2>1. /\ turn'[q].pc = turn[q].pc /\ turn'[q].seq = turn[q].seq
          /\ before'[q] = before[q] /\ turn'[q].session = turn[q].session
      BY <1>4
    <2> QED
      BY <2>1 DEF LogInv, NumberInHand
  <1>9. AskedAfter'
    BY <1>1, <1>2 DEF LogInv, AskedAfter
  <1>10. TurnsInOrder'
    <2> SUFFICES ASSUME NEW s \in Sessions, NEW i \in DOMAIN messages[s],
                        NEW k \in DOMAIN messages[s],
                        messages[s][i].turn \in before'[messages[s][k].turn]
                 PROVE  messages[s][i].seq < messages[s][k].seq
      BY DEF TurnsInOrder
    <2>1. turn[messages[s][k].turn].pc # "idle"
      BY DEF LogInv, Owned, Early
    <2>2. before'[messages[s][k].turn] = before[messages[s][k].turn]
      BY <1>1, <2>1
    <2> QED
      BY <2>2 DEF LogInv, TurnsInOrder
  <1> QED
    BY <1>5, <1>6, <1>7, <1>8, <1>9, <1>10 DEF LogInv

\* The first statement of append_message: the number it chooses is above all
\* those that are there.
LEMMA LogChooses ==
    ASSUME LoopInv, LogInv, NEW q \in Turns, ChooseSeq(q)
    PROVE  LogInv'
  <1> DEFINE pc == IF turn[q].pc = "userSeq" THEN "userRow" ELSE "assistantRow"
             n == NextSeq(messages[turn[q].session])
  <1>1. /\ turn[q].pc \in {"userSeq", "assistantSeq"}
        /\ turn' = [turn EXCEPT ![q].pc = pc, ![q].seq = n]
        /\ messages' = messages /\ before' = before
    <2>1. turn' = [turn EXCEPT
                  ![q].pc = IF turn[q].pc = "userSeq" THEN "userRow"
                            ELSE "assistantRow",
                  ![q].seq = NextSeq(messages[turn[q].session])]
      BY DEF ChooseSeq, LoopInv, Types, Fields
    <2> QED
      BY <2>1 DEF ChooseSeq
  <1>2. turn[q].session \in Sessions /\ before \in [Turns -> SUBSET Turns]
    BY DEF LoopInv, Types
  <1>3. /\ n \in Nat
        /\ \A i \in DOMAIN messages[turn[q].session] :
                messages[turn[q].session][i].seq < n
        /\ n = 0 \/ \E k \in DOMAIN messages[turn[q].session] :
                        messages[turn[q].session][k].seq = n - 1
    BY <1>2, NextSeqFollows DEF LoopInv, LogInv
  <1> HIDE DEF n
  <1>4. Moves(q, pc, n)
    BY <1>1, MovesSeq DEF LoopInv
  <1> HIDE DEF pc
  <1>5. /\ pc \in {"userRow", "assistantRow"}
        /\ pc = "userRow" => turn[q].pc = "userSeq"
        /\ pc = "assistantRow" => turn[q].pc = "assistantSeq"
    BY <1>1 DEF pc
  <1>6. /\ \A p \in Turns : /\ turn'[p].session = turn[p].session
                            /\ p # q => /\ turn'[p].pc = turn[p].pc
                                        /\ turn'[p].seq = turn[p].seq
        /\ turn'[q].pc = pc /\ turn'[q].seq = n
    BY <1>4 DEF Moves
  <1>7. \A s \in Sessions : \A i \in DOMAIN messages[s] :
            messages[s][i].turn \in Turns
    <2>1. \A s \in Sessions : messages[s] \in Seq(Message)
      BY DEF LoopInv, Types
    <2>2. ASSUME NEW s \in Sessions, NEW i \in DOMAIN messages[s]
          PROVE  messages[s][i].turn \in Turns
      <3>1. messages[s][i] \in Message
        BY <2>1, <2>2
      <3> QED
        BY <3>1 DEF Message
    <2> QED
      BY <2>2
  <1>8. Owned'
    <2> SUFFICES ASSUME NEW s \in Sessions, NEW i \in DOMAIN messages[s]
                 PROVE  LET m == messages[s][i]
                        IN /\ turn'[m.turn].session = s
                           /\ turn'[m.turn].pc \notin Early \cup {"userRow"}
                           /\ m.role = "assistant"
                                => turn'[m.turn].pc = "answered"
      <3>1. messages' = messages
        BY <1>1
      <3> QED
        BY <3>1 DEF Owned
    <2>1. LET m == messages[s][i]
          IN /\ m.turn \in Turns
             /\ turn[m.turn].session = s
             /\ turn[m.turn].pc \notin Early \cup {"userRow"}
             /\ m.role = "assistant" => turn[m.turn].pc = "answered"
      BY <1>7 DEF LogInv, Owned
    <2> QED
      BY <1>1, <1>5, <1>6, <2>1 DEF Early, Awaiting
  <1>9. LoggedOnce' /\ Highest' /\ SeqGapless' /\ QuestionFirst'
    BY <1>1 DEF LogInv, LoggedOnce, Highest, SeqGapless, QuestionFirst
  <1>13. TurnsInOrder'
    <2>1. messages' = messages /\ before' = before
      BY <1>1
    <2> SUFFICES ASSUME NEW s \in Sessions, NEW i \in DOMAIN messages[s],
                        NEW k \in DOMAIN messages[s],
                        messages[s][i].turn \in before[messages[s][k].turn]
                 PROVE  messages[s][i].seq < messages[s][k].seq
      BY <2>1 DEF TurnsInOrder
    <2> QED
      BY DEF LogInv, TurnsInOrder
  <1>10. LoggedSoFar'
    <2>1. messages' = messages
      BY <1>1
    <2>2. \A p \in Turns : \A role : Logged(p, role) => Logged(p, role)'
      BY <1>6, <2>1 DEF Logged
    <2>3. \A p \in Turns : p # q => turn'[p].pc = turn[p].pc
      BY <1>6
    <2>4. turn'[q].pc = "assistantRow" => turn[q].pc = "assistantSeq"
      BY <1>5, <1>6
    <2>5. turn'[q].pc # "answered" /\ turn'[q].pc # "assistantSeq"
      BY <1>5, <1>6
    <2>6. \A p \in Turns :
            /\ turn'[p].pc \in {"assistantSeq", "assistantRow", "answered"}
                => Logged(p, "user")
            /\ turn'[p].pc = "answered" => Logged(p, "assistant")
      BY <2>3, <2>4, <2>5 DEF LogInv, LoggedSoFar
    <2> QED
      BY <2>2, <2>6 DEF LoggedSoFar
  <1>11. NumberInHand'
    <2> SUFFICES ASSUME NEW p \in Turns,
                        turn'[p].pc \in {"userRow", "assistantRow"}
                 PROVE  InHand(p, messages[turn[p].session], turn'[p].seq,
                               before[p], turn'[p].pc)
      BY <1>1, <1>6 DEF NumberInHand
    <2>1. CASE p = q
      BY <1>3, <1>6, <2>1 DEF InHand
    <2>2. CASE p # q
      BY <1>6, <2>2 DEF LogInv, NumberInHand
    <2> QED
      BY <2>1, <2>2
  <1>12. AskedAfter'
    BY <1>1, <1>2, <1>6 DEF LogInv, AskedAfter
  <1> QED
    BY <1>8, <1>9, <1>10, <1>11, <1>12, <1>13 DEF LogInv

\* The second one: a turn that has this number in hand logs its next message.
LEMMA LogInserts ==
    ASSUME LoopInv, LogInv, NEW q \in Turns, NEW role \in {"user", "assistant"},
           NEW length \in 0..MaxLength, NEW pc,
           turn[q].pc = IF role = "user" THEN "userRow" ELSE "assistantRow",
           pc = IF role = "user" THEN "assistantSeq" ELSE "answered",
           AppendMessage(q, role, length), Moves(q, pc, 0), before' = before
    PROVE  messages' \in [Sessions -> Seq(Message)] /\ LogInv'
  <1> DEFINE home == turn[q].session
             m == [turn |-> q, role |-> role, seq |-> turn[q].seq,
                   length |-> length]
             last == Len(messages[home]) + 1
  <1>1. /\ home \in Sessions /\ turn[q].seq \in Nat
        /\ messages \in [Sessions -> Seq(Message)]
        /\ before \in [Turns -> SUBSET Turns]
    BY DEF LoopInv, Types
  <1>2. m \in Message /\ m.turn = q /\ m.role = role /\ m.seq = turn[q].seq
    BY <1>1 DEF Message
  <1>3. messages' = [messages EXCEPT ![home] = Append(@, m)]
    BY DEF AppendMessage
  <1> HIDE DEF m
  <1>4. messages' \in [Sessions -> Seq(Message)]
    BY <1>1, <1>2, <1>3
  <1>5. \A s \in Sessions : s # home => messages'[s] = messages[s]
    BY <1>1, <1>3
  <1>6. messages'[home] = Append(messages[home], m)
    BY <1>1, <1>3
  <1>7. /\ DOMAIN messages'[home] = DOMAIN messages[home] \cup {last}
        /\ last \notin DOMAIN messages[home]
        /\ \A i \in DOMAIN messages[home] : messages'[home][i] = messages[home][i]
        /\ messages'[home][last] = m
    BY <1>1, <1>2, <1>6
  <1> HIDE DEF last
  <1>8. \A s \in Sessions : \A i \in DOMAIN messages[s] :
            /\ i \in DOMAIN messages'[s]
            /\ messages'[s][i] = messages[s][i]
            /\ messages[s][i].turn \in Turns
            /\ messages[s][i].seq \in Nat
    <2>1. ASSUME NEW s \in Sessions, NEW i \in DOMAIN messages[s]
          PROVE  messages[s][i].turn \in Turns /\ messages[s][i].seq \in Nat
      <3>1. messages[s][i] \in Message
        BY <1>1, <2>1
      <3> QED
        BY <3>1 DEF Message
    <2> QED
      BY <1>5, <1>7, <2>1
  <1>9. \A s \in Sessions : \A i \in DOMAIN messages'[s] :
            \/ i \in DOMAIN messages[s] /\ messages'[s][i] = messages[s][i]
            \/ s = home /\ i = last /\ messages'[s][i] = m
    BY <1>5, <1>7
  <1>10. last \in DOMAIN messages'[home] /\ messages'[home][last] = m
    BY <1>7
  <1>11. /\ \A p \in Turns : /\ turn'[p].session = turn[p].session
                             /\ p # q => /\ turn'[p].pc = turn[p].pc
                                         /\ turn'[p].seq = turn[p].seq
         /\ turn'[q].pc = pc
    BY DEF Moves
  <1>12. /\ pc \in {"assistantSeq", "answered"}
         /\ turn[q].pc \in {"userRow", "assistantRow"}
         /\ role = "user" <=> pc = "assistantSeq"
         /\ role = "user" <=> turn[q].pc = "userRow"
         /\ role = "assistant" <=> pc = "answered"
    OBVIOUS
  <1>13. InHand(q, messages[home], turn[q].seq, before[q], turn[q].pc)
    BY <1>12 DEF LogInv, NumberInHand
  <1>14. \A s \in Sessions : \A i \in DOMAIN messages[s] :
            messages[s][i].turn = q => s = home /\ turn[q].pc = "assistantRow"
                                       /\ messages[s][i].role = "user"
    <2>1. \A s \in Sessions : \A i \in DOMAIN messages[s] :
            messages[s][i].turn = q =>
                /\ s = home
                /\ turn[q].pc # "userRow"
                /\ messages[s][i].role = "assistant" => turn[q].pc = "answered"
      BY DEF LogInv, Owned
    <2>2. \A s \in Sessions : \A i \in DOMAIN messages[s] :
            messages[s][i].role \in {"user", "assistant"}
      <3>1. ASSUME NEW s \in Sessions, NEW i \in DOMAIN messages[s]
            PROVE  messages[s][i] \in Message
        BY <1>1, <3>1
      <3> QED
        BY <3>1 DEF Message
    <2> QED
      BY <1>12, <2>1, <2>2
  <1>15. Owned'
    <2> SUFFICES ASSUME NEW s \in Sessions, NEW i \in DOMAIN messages'[s]
                 PROVE  /\ turn'[messages'[s][i].turn].session = s
                        /\ turn'[messages'[s][i].turn].pc
                                \notin Early \cup {"userRow"}
                        /\ messages'[s][i].role = "assistant"
                            => turn'[messages'[s][i].turn].pc = "answered"
      BY DEF Owned
    <2>1. CASE s = home /\ messages'[s][i] = m
      BY <1>2, <1>11, <1>12, <2>1 DEF Early, Awaiting
    <2>2. CASE i \in DOMAIN messages[s] /\ messages'[s][i] = messages[s][i]
      <3>1. /\ messages[s][i].turn \in Turns
            /\ turn[messages[s][i].turn].session = s
            /\ turn[messages[s][i].turn].pc \notin Early \cup {"userRow"}
            /\ messages[s][i].role = "assistant"
                => turn[messages[s][i].turn].pc = "answered"
        BY <1>8, <2>2 DEF LogInv, Owned
      <3>2. CASE messages[s][i].turn # q
        BY <1>11, <2>2, <3>1, <3>2
      <3>3. CASE messages[s][i].turn = q
        BY <1>11, <1>12, <1>14, <2>2, <3>1, <3>3 DEF Early, Awaiting
      <3> QED
        BY <3>2, <3>3
    <2> QED
      BY <1>9, <2>1, <2>2
  <1>16. LoggedOnce'
    <2> SUFFICES ASSUME NEW s \in Sessions, NEW i \in DOMAIN messages'[s],
                        NEW k \in DOMAIN messages'[s],
                        messages'[s][i].turn = messages'[s][k].turn,
                        messages'[s][i].role = messages'[s][k].role
                 PROVE  i = k
      BY DEF LoggedOnce
    <2>1. \A j \in DOMAIN messages[s] :
            ~(messages[s][j].turn = m.turn /\ messages[s][j].role = m.role)
      BY <1>2, <1>12, <1>14
    <2>2. CASE i \in DOMAIN messages[s] /\ messages'[s][i] = messages[s][i]
               /\ k \in DOMAIN messages[s] /\ messages'[s][k] = messages[s][k]
      BY <2>2 DEF LogInv, LoggedOnce
    <2> QED
      BY <1>9, <2>1, <2>2
  <1>17. LoggedSoFar'
    <2>1. \A p \in Turns : \A r : Logged(p, r) => Logged(p, r)'
      <3> SUFFICES ASSUME NEW p \in Turns, NEW r, Logged(p, r)
                   PROVE  Logged(p, r)'
        OBVIOUS
      <3>1. PICK i \in DOMAIN messages[turn[p].session] :
                /\ messages[turn[p].session][i].turn = p
                /\ messages[turn[p].session][i].role = r
        BY DEF Logged
      <3>2. turn[p].session \in Sessions /\ turn'[p].session = turn[p].session
        BY <1>11 DEF LoopInv, Types
      <3> QED
        BY <1>8, <3>1, <3>2 DEF Logged
    <2>2. Logged(q, role)'
      BY <1>2, <1>10, <1>11 DEF Logged
    <2>3. \A p \in Turns \ {q} : turn'[p].pc = turn[p].pc
      BY <1>11
    <2>4. turn[q].pc = "assistantRow" => Logged(q, "user")
      BY DEF LogInv, LoggedSoFar
    <2> SUFFICES ASSUME NEW p \in Turns
                 PROVE  /\ turn'[p].pc \in {"assistantSeq", "assistantRow",
                                            "answered"} => Logged(p, "user")'
                        /\ turn'[p].pc = "answered" => Logged(p, "assistant")'
      BY DEF LoggedSoFar
    <2>5. CASE p # q
      BY <2>1, <2>3, <2>5 DEF LogInv, LoggedSoFar
    <2>6. CASE p = q
      <3>1. CASE role = "user"
        BY <1>11, <1>12, <2>2, <2>6, <3>1
      <3>2. CASE role = "assistant"
        BY <1>11, <1>12, <2>1, <2>2, <2>4, <2>6, <3>2
      <3> QED
        BY <3>1, <3>2
    <2> QED
      BY <2>5, <2>6
  <1>18. Highest'
    <2> SUFFICES ASSUME NEW s \in Sessions, messages'[s] # <<>>
                 PROVE  \E k \in DOMAIN messages'[s] : \A i \in DOMAIN messages'[s] :
                            messages'[s][i].seq <= messages'[s][k].seq
      BY DEF Highest
    <2>1. CASE s # home
      BY <1>5, <2>1 DEF LogInv, Highest
    <2>2. CASE s = home /\ messages[home] = <<>>
      BY <1>1, <1>2, <1>7, <2>2
    <2>3. CASE s = home /\ messages[home] # <<>>
      <3>1. PICK k \in DOMAIN messages[home] : \A i \in DOMAIN messages[home] :
                messages[home][i].seq <= messages[home][k].seq
        BY <1>1, <2>3 DEF LogInv, Highest
      <3>2. CASE m.seq <= messages[home][k].seq
        BY <1>1, <1>7, <2>3, <3>1, <3>2
      <3>3. CASE ~(m.seq <= messages[home][k].seq)
        <4>1. \A i \in DOMAIN messages[home] : messages[home][i].seq <= m.seq
          BY <1>1, <1>2, <1>8, <3>1, <3>3
        <4>2. \A i \in DOMAIN messages'[home] :
                messages'[home][i].seq <= messages'[home][last].seq
          BY <1>1, <1>2, <1>7, <4>1
        <4> QED
          BY <1>10, <2>3, <4>2
      <3> QED
        BY <3>2, <3>3
    <2> QED
      BY <2>1, <2>2, <2>3
  <1>19. SeqGapless'
    <2> SUFFICES ASSUME NEW s \in Sessions, NEW i \in DOMAIN messages'[s]
                 PROVE  \/ messages'[s][i].seq = 0
                        \/ \E k \in DOMAIN messages'[s] :
                              messages'[s][k].seq = messages'[s][i].seq - 1
      BY DEF SeqGapless
    <2>1. CASE s = home /\ messages'[s][i] = m
      BY <1>2, <1>8, <1>13, <2>1 DEF InHand
    <2>2. CASE i \in DOMAIN messages[s] /\ messages'[s][i] = messages[s][i]
      BY <1>8, <2>2 DEF LogInv, SeqGapless
    <2> QED
      BY <1>9, <2>1, <2>2
  <1>20. QuestionFirst'
    <2> SUFFICES ASSUME NEW s \in Sessions, NEW i \in DOMAIN messages'[s],
                        messages'[s][i].role = "assistant"
                 PROVE  \E k \in DOMAIN messages'[s] :
                            /\ messages'[s][k].turn = messages'[s][i].turn
                            /\ messages'[s][k].role = "user"
                            /\ messages'[s][k].seq < messages'[s][i].seq
      BY DEF QuestionFirst
    <2>1. CASE s = home /\ messages'[s][i] = m
      <3>1. role = "assistant" /\ turn[q].pc = "assistantRow"
        BY <1>2, <1>12, <2>1
      <3>2. PICK k \in DOMAIN messages[home] : /\ messages[home][k].turn = q
                                               /\ messages[home][k].role = "user"
        BY <3>1 DEF LogInv, LoggedSoFar, Logged
      <3>3. messages[home][k].seq < turn[q].seq
        BY <1>13, <3>1, <3>2 DEF InHand
      <3> QED
        BY <1>1, <1>2, <1>8, <2>1, <3>2, <3>3
    <2>2. CASE i \in DOMAIN messages[s] /\ messages'[s][i] = messages[s][i]
      BY <1>8, <2>2 DEF LogInv, QuestionFirst
    <2> QED
      BY <1>9, <2>1, <2>2
  <1>21. AskedAfter'
    BY <1>1, <1>11, <1>12 DEF LogInv, AskedAfter
  <1>22. q \notin UNION {before[p] : p \in Turns}
    BY <1>12 DEF LogInv, AskedAfter
  <1>23. TurnsInOrder'
    <2> SUFFICES ASSUME NEW s \in Sessions, NEW i \in DOMAIN messages'[s],
                        NEW k \in DOMAIN messages'[s],
                        messages'[s][i].turn \in before[messages'[s][k].turn]
                 PROVE  messages'[s][i].seq < messages'[s][k].seq
      BY DEF TurnsInOrder
    <2>1. messages'[s][k].turn \in Turns
      BY <1>2, <1>8, <1>9
    <2>2. messages'[s][i] # m
      BY <1>2, <1>22, <2>1
    <2>3. i \in DOMAIN messages[s] /\ messages'[s][i] = messages[s][i]
      BY <1>9, <2>2
    <2>4. CASE s = home /\ messages'[s][k] = m
      BY <1>2, <1>13, <2>3, <2>4 DEF InHand
    <2>5. CASE k \in DOMAIN messages[s] /\ messages'[s][k] = messages[s][k]
      BY <2>3, <2>5 DEF LogInv, TurnsInOrder
    <2> QED
      BY <1>9, <2>4, <2>5
  <1>24. NumberInHand'
    <2> SUFFICES ASSUME NEW p \in Turns,
                        turn'[p].pc \in {"userRow", "assistantRow"}
                 PROVE  InHand(p, messages'[turn'[p].session], turn'[p].seq,
                               before[p], turn'[p].pc)
      BY DEF NumberInHand
    <2>1. p # q
      BY <1>11, <1>12
    <2>2. /\ turn'[p].pc = turn[p].pc /\ turn'[p].seq = turn[p].seq
          /\ turn'[p].session = turn[p].session /\ turn[p].session \in Sessions
      BY <1>11, <2>1 DEF LoopInv, Types
    <2>3. InHand(p, messages[turn[p].session], turn[p].seq, before[p], turn[p].pc)
      BY <2>2 DEF LogInv, NumberInHand
    <2>4. q \notin before[p]
      BY <1>22
    <2> DEFINE s == turn[p].session
    <2>5. \/ turn[p].seq = 0
          \/ \E k \in DOMAIN messages'[s] : messages'[s][k].seq = turn[p].seq - 1
      BY <1>8, <2>2, <2>3 DEF InHand
    <2>6. \A i \in DOMAIN messages'[s] :
            messages'[s][i].turn \in before[p] => messages'[s][i].seq < turn[p].seq
      BY <1>2, <1>9, <2>2, <2>3, <2>4 DEF InHand
    <2>7. turn[p].pc = "assistantRow" =>
            \A i \in DOMAIN messages'[s] :
                messages'[s][i].turn = p => messages'[s][i].seq < turn[p].seq
      BY <1>2, <1>9, <2>1, <2>2, <2>3 DEF InHand
    <2> QED
      BY <2>2, <2>5, <2>6, <2>7 DEF InHand
  <1> QED
    BY <1>4, <1>15, <1>16, <1>17, <1>18, <1>19, <1>20, <1>21, <1>23, <1>24
    DEF LogInv

-----------------------------------------------------------------------------
(* Steps.                                                                  *)

LEMMA InitKept == Init => IInv
  <1> SUFFICES ASSUME Init
               PROVE  IInv
    OBVIOUS
  <1>1. \A q \in Turns : /\ turn[q].pc = "idle" /\ turn[q].seq = 0
                         /\ turn[q].session \in Sessions
                         /\ turn[q].worker \in Workers
                         /\ turn[q].length \in 1..MaxLength
                         /\ DOMAIN turn[q] = Fields
    BY DEF Init, Fields
  <1>2. Types
    <2>1. sessions \in SUBSET Sessions /\ DOMAIN turn = Turns
      BY DEF Init
    <2>2. messages \in [Sessions -> Seq(Message)]
      BY DEF Init
    <2>3. \A q \in Turns : turn[q].length \in 0..MaxLength /\ turn[q].seq \in Nat
                           /\ turn[q].pc \in States
      BY <1>1, HistoryAssumption DEF States
    <2>4. /\ loop \in [Workers -> Turns \cup {Nobody}]
          /\ ready \in [Workers -> BOOLEAN]
          /\ before \in [Turns -> SUBSET Turns]
      BY DEF Init
    <2>5. faults \in 0..MaxFaults
      BY HistoryAssumption DEF Init
    <2> QED
      BY <1>1, <2>1, <2>2, <2>3, <2>4, <2>5 DEF Types
  <1>3. Exclusive
    BY <1>1, TurnsAssumption DEF Init, Exclusive, Storing
  <1>4. \A s \in Sessions : messages[s] = <<>> /\ DOMAIN messages[s] = {}
    BY DEF Init
  <1>5. Owned /\ LoggedOnce /\ Highest /\ SeqGapless /\ QuestionFirst /\ TurnsInOrder
    BY <1>4 DEF Owned, LoggedOnce, Highest, SeqGapless, QuestionFirst, TurnsInOrder
  <1>6. LoggedSoFar /\ NumberInHand
    BY <1>1 DEF LoggedSoFar, NumberInHand
  <1>7. AskedAfter
    BY DEF Init, AskedAfter
  <1> QED
    BY <1>2, <1>3, <1>5, <1>6, <1>7 DEF IInv, LoopInv, LogInv

\* A step between two statements that log: the turn goes on, or is over.
LEMMA QuietStep ==
    ASSUME IInv, NEW q \in Turns, NEW pc \in States, NEW n \in Nat,
           Moves(q, pc, n), MayRun(q),
           \/ pc \in Storing /\ Take(q)
           \/ pc \notin Storing /\ Release(q)
           \/ (pc \in Storing <=> turn[q].pc \in Storing) /\ loop' = loop,
           sessions' \in SUBSET Sessions, messages' = messages,
           ready' \in [Workers -> BOOLEAN], faults' = faults,
           \/ turn[q].pc \in Early /\ pc \in Early
           \/ turn[q].pc # "answered" /\ pc \in {"failed", "lost"},
           before' \in [Turns -> SUBSET Turns],
           \A p \in Turns :
              \/ before'[p] = before[p]
              \/ /\ p = q /\ turn[q].pc = "idle" /\ pc \in Early
                 /\ \A o \in before'[q] : turn[o].pc = "answered"
    PROVE  IInv'
  <1>1. LoopInv /\ LogInv
    BY DEF IInv
  <1>2. LoopInv'
    <2>1. messages' \in [Sessions -> Seq(Message)]
      BY <1>1 DEF LoopInv, Types
    <2> QED
      BY <1>1, <2>1, LoopStep
  <1>3. \A p \in Turns :
              /\ turn'[p].session = turn[p].session
              /\ \/ turn'[p].pc = turn[p].pc /\ turn'[p].seq = turn[p].seq
                 \/ turn[p].pc \in Early /\ turn'[p].pc \in Early
                 \/ turn[p].pc # "answered" /\ turn'[p].pc \in {"failed", "lost"}
              /\ \/ before'[p] = before[p]
                 \/ /\ turn[p].pc = "idle" /\ turn'[p].pc \in Early
                    /\ \A o \in before'[p] : turn[o].pc = "answered"
    BY DEF Moves
  <1> QED
    BY <1>1, <1>2, <1>3, LogKept DEF IInv

\* Whoever is between two awaits has the loop.
LEMMA StoringRuns ==
    ASSUME LoopInv, NEW q \in Turns, turn[q].pc \in Storing
    PROVE  MayRun(q)
  BY DEF LoopInv, Exclusive, MayRun

LEMMA ReceiveKept ==
    ASSUME IInv, NEW q \in Turns, Receive(q)
    PROVE  IInv'
  <1>1. LoopInv /\ Types
    BY DEF IInv, LoopInv
  <1>2. Moves(q, "read", turn[q].seq)
    BY <1>1, MovesPc DEF Receive
  <1>3. /\ MayRun(q) /\ Take(q) /\ "read" \in Storing /\ "read" \in States
        /\ turn[q].pc \in Early /\ "read" \in Early
    BY DEF Receive, MayRun, Storing, States, Early
  <1>4. /\ sessions' \in SUBSET Sessions
        /\ messages' = messages /\ ready' = ready /\ faults' = faults
        /\ turn[q].seq \in Nat /\ ready \in [Workers -> BOOLEAN]
    BY <1>1 DEF Receive, Types
  <1>5. /\ before' \in [Turns -> SUBSET Turns]
        /\ \A p \in Turns :
              \/ before'[p] = before[p]
              \/ /\ p = q /\ turn[q].pc = "idle" /\ "read" \in Early
                 /\ \A o \in before'[q] : turn[o].pc = "answered"
    BY <1>1, <1>3 DEF Receive, Types
  <1> QED
    BY <1>2, <1>3, <1>4, <1>5, QuietStep

\* What all the other quiet steps have in common.
LEMMA QuietFrame ==
    ASSUME IInv, NEW q \in Turns, NEW pc \in States, NEW n \in Nat,
           Moves(q, pc, n), MayRun(q),
           \/ pc \in Storing /\ Take(q)
           \/ pc \notin Storing /\ Release(q)
           \/ (pc \in Storing <=> turn[q].pc \in Storing) /\ loop' = loop,
           \/ ready' = ready
           \/ ready' = [ready EXCEPT ![turn[q].worker] = TRUE],
           UNCHANGED <<sessions, messages, faults, before>>,
           \/ turn[q].pc \in Early /\ pc \in Early
           \/ turn[q].pc # "answered" /\ pc = "failed"
    PROVE  IInv'
  <1>1. /\ sessions \in SUBSET Sessions
        /\ ready' \in [Workers -> BOOLEAN]
        /\ before \in [Turns -> SUBSET Turns]
    BY DEF IInv, LoopInv, Types
  <1> QED
    BY <1>1, QuietStep

LEMMA QuietKept ==
    ASSUME IInv, NEW q \in Turns,
           \/ ReadHistory(q) \/ Rewrite(q) \/ Probe(q) \/ RetrieveGrounded(q)
           \/ RetrieveNothing(q) \/ Generate(q) \/ Refuse(q) \/ Fail(q)
    PROVE  IInv'
  <1>1. LoopInv /\ Types /\ turn[q].seq \in Nat
    BY DEF IInv, LoopInv, Types
  <1>2. CASE ReadHistory(q)
    <2>1. PICK p \in MostRecent(messages[turn[q].session]) :
            LET history == ApplyHistoryBudget(messages[turn[q].session], p)
            IN \E pc \in {"chat", IF Rewriting /\ history # <<>>
                                  THEN "rewrite" ELSE Lookup(q)} :
                    turn' = [turn EXCEPT ![q].pc = pc, ![q].history = history]
      BY <1>2 DEF ReadHistory
    <2> DEFINE history == ApplyHistoryBudget(messages[turn[q].session], p)
    <2>2. PICK pc \in {"chat", IF Rewriting /\ history # <<>>
                                  THEN "rewrite" ELSE Lookup(q)} :
                    turn' = [turn EXCEPT ![q].pc = pc, ![q].history = history]
      BY <2>1
    <2> HIDE DEF history
    <2>3. pc \in {"chat", "rewrite", "retrieve", "probe"}
      BY <2>2 DEF Lookup
    <2>4. Moves(q, pc, turn[q].seq)
      BY <1>1, <2>2, MovesHistory
    <2>5. /\ turn[q].pc = "read" /\ Release(q)
          /\ UNCHANGED <<sessions, messages, ready, faults, before>>
      BY <1>2 DEF ReadHistory
    <2>6. MayRun(q) /\ turn[q].pc \in Early
      BY <1>1, <2>5, StoringRuns DEF Storing, Early
    <2>7. pc \in States /\ pc \in Early /\ pc \notin Storing
      BY <2>3 DEF States, Early, Awaiting, Storing
    <2> QED
      BY <1>1, <2>4, <2>5, <2>6, <2>7, QuietFrame
  <1>3. CASE Rewrite(q)
    <2>1. /\ Moves(q, Lookup(q), turn[q].seq) /\ MayRun(q)
          /\ UNCHANGED <<sessions, messages, loop, ready, faults, before>>
      BY <1>1, <1>3, MovesPc DEF Rewrite
    <2>2. /\ turn[q].pc \in Early /\ turn[q].pc \notin Storing
          /\ Lookup(q) \in States /\ Lookup(q) \in Early /\ Lookup(q) \notin Storing
      BY <1>3 DEF Rewrite, Lookup, States, Early, Awaiting, Storing
    <2> QED
      BY <1>1, <2>1, <2>2, QuietFrame
  <1>4. CASE Probe(q)
    <2>1. /\ Moves(q, "retrieve", turn[q].seq) /\ MayRun(q)
          /\ ready' = [ready EXCEPT ![turn[q].worker] = TRUE]
          /\ UNCHANGED <<sessions, messages, loop, faults, before>>
      BY <1>1, <1>4, MovesPc DEF Probe
    <2>2. /\ turn[q].pc \in Early /\ turn[q].pc \notin Storing
          /\ "retrieve" \in States /\ "retrieve" \in Early
          /\ "retrieve" \notin Storing
      BY <1>4 DEF Probe, States, Early, Awaiting, Storing
    <2> QED
      BY <1>1, <2>1, <2>2, QuietFrame
  <1>5. CASE RetrieveGrounded(q)
    <2>1. /\ Moves(q, "chat", turn[q].seq) /\ MayRun(q)
          /\ UNCHANGED <<sessions, messages, loop, ready, faults, before>>
      BY <1>1, <1>5, MovesPc DEF RetrieveGrounded
    <2>2. /\ turn[q].pc \in Early /\ turn[q].pc \notin Storing
          /\ "chat" \in States /\ "chat" \in Early /\ "chat" \notin Storing
      BY <1>5 DEF RetrieveGrounded, States, Early, Awaiting, Storing
    <2> QED
      BY <1>1, <2>1, <2>2, QuietFrame
  <1>6. CASE RetrieveNothing(q) \/ Generate(q)
    <2>1. /\ Moves(q, "userSeq", turn[q].seq) /\ MayRun(q) /\ Take(q)
          /\ UNCHANGED <<sessions, messages, ready, faults, before>>
      BY <1>1, <1>6, MovesHistory DEF RetrieveNothing, Generate
    <2>2. /\ turn[q].pc \in Early
          /\ "userSeq" \in States /\ "userSeq" \in Early /\ "userSeq" \in Storing
      BY <1>6 DEF RetrieveNothing, Generate, States, Early, Awaiting, Storing
    <2> QED
      BY <1>1, <2>1, <2>2, QuietFrame
  <1>7. CASE Refuse(q)
    <2>1. /\ Moves(q, "refused", 0) /\ MayRun(q) /\ loop' = loop
          /\ UNCHANGED <<sessions, messages, ready, faults, before>>
      BY <1>1, <1>7, MovesOver DEF Refuse, Over
    <2>2. /\ turn[q].pc \in Early /\ turn[q].pc \notin Storing
          /\ "refused" \in States /\ "refused" \in Early /\ "refused" \notin Storing
      BY <1>7 DEF Refuse, States, Early, Awaiting, Storing, Ended
    <2> QED
      BY <2>1, <2>2, QuietFrame
  <1>8. CASE Fail(q)
    <2>1. /\ Moves(q, "failed", 0) /\ MayRun(q) /\ Release(q)
          /\ UNCHANGED <<sessions, messages, ready, faults, before>>
      BY <1>1, <1>8, MovesOver DEF Fail, Over
    <2>2. /\ turn[q].pc # "answered" /\ "failed" \in States
          /\ "failed" \notin Storing
      BY <1>8 DEF Fail, States, Storing, Ended
    <2> QED
      BY <2>1, <2>2, QuietFrame
  <1> QED
    BY <1>2, <1>3, <1>4, <1>5, <1>6, <1>7, <1>8

LEMMA ChooseSeqKept ==
    ASSUME IInv, NEW q \in Turns, ChooseSeq(q)
    PROVE  IInv'
  <1> DEFINE pc == IF turn[q].pc = "userSeq" THEN "userRow" ELSE "assistantRow"
             n == NextSeq(messages[turn[q].session])
  <1>1. LoopInv /\ LogInv /\ Types /\ Highest /\ turn[q].session \in Sessions
    BY DEF IInv, LoopInv, LogInv, Types
  <1>2. /\ turn[q].pc \in {"userSeq", "assistantSeq"}
        /\ turn' = [turn EXCEPT ![q].pc = pc, ![q].seq = n]
        /\ UNCHANGED <<sessions, messages, loop, ready, faults, before>>
    BY <1>1 DEF ChooseSeq, Types, Fields
  <1>3. n \in Nat
    BY <1>1, NextSeqFollows
  <1> HIDE DEF n
  <1>4. Moves(q, pc, n)
    BY <1>1, <1>2, MovesSeq
  <1>5. pc \in States /\ pc \in Storing /\ turn[q].pc \in Storing
    BY <1>2 DEF States, Storing
  <1> HIDE DEF pc
  <1>6. MayRun(q)
    BY <1>1, <1>5, StoringRuns
  <1>7. LoopInv'
    <2>1. /\ sessions' \in SUBSET Sessions
          /\ messages' \in [Sessions -> Seq(Message)]
          /\ ready' \in [Workers -> BOOLEAN]
          /\ before' \in [Turns -> SUBSET Turns]
          /\ loop' = loop /\ faults' = faults
      BY <1>1, <1>2 DEF Types
    <2> QED
      BY <1>1, <1>3, <1>4, <1>5, <1>6, <2>1, LoopStep
  <1> QED
    BY <1>1, <1>7, LogChooses DEF IInv

LEMMA InsertKept ==
    ASSUME IInv, NEW q \in Turns, InsertUser(q) \/ InsertAssistant(q)
    PROVE  IInv'
  <1>1. LoopInv /\ LogInv /\ Types
    BY DEF IInv, LoopInv
  <1>2. /\ sessions' \in SUBSET Sessions
        /\ ready' \in [Workers -> BOOLEAN]
        /\ before' \in [Turns -> SUBSET Turns]
        /\ faults' = faults /\ before' = before
    BY <1>1 DEF Types, InsertUser, InsertAssistant
  <1>3. CASE InsertUser(q)
    <2>1. /\ turn[q].pc = "userRow" /\ loop' = loop
          /\ AppendMessage(q, "user", turn[q].length)
          /\ turn[q].length \in 0..MaxLength
          /\ Moves(q, "assistantSeq", 0)
      BY <1>1, <1>3, MovesSeq DEF InsertUser, Types
    <2>2. messages' \in [Sessions -> Seq(Message)] /\ LogInv'
      <3>1. /\ "user" \in {"user", "assistant"}
            /\ turn[q].pc = IF "user" = "user" THEN "userRow" ELSE "assistantRow"
            /\ "assistantSeq" = IF "user" = "user" THEN "assistantSeq"
                                ELSE "answered"
        BY <2>1
      <3> QED
        BY <1>1, <1>2, <2>1, <3>1, LogInserts
    <2>3. /\ turn[q].pc \in Storing /\ "assistantSeq" \in Storing
          /\ "assistantSeq" \in States
      BY <2>1 DEF Storing, States
    <2>4. MayRun(q)
      BY <1>1, <2>3, StoringRuns
    <2>5. LoopInv'
      BY <1>1, <1>2, <2>1, <2>2, <2>3, <2>4, LoopStep
    <2> QED
      BY <2>2, <2>5 DEF IInv
  <1>4. CASE InsertAssistant(q)
    <2>1. PICK length \in 0..MaxLength : AppendMessage(q, "assistant", length)
      BY <1>4 DEF InsertAssistant
    <2>2. /\ turn[q].pc = "assistantRow" /\ Release(q)
          /\ Moves(q, "answered", 0)
      BY <1>1, <1>4, MovesSeq DEF InsertAssistant
    <2>3. messages' \in [Sessions -> Seq(Message)] /\ LogInv'
      <3>1. /\ "assistant" \in {"user", "assistant"}
            /\ turn[q].pc = IF "assistant" = "user" THEN "userRow"
                            ELSE "assistantRow"
            /\ "answered" = IF "assistant" = "user" THEN "assistantSeq"
                            ELSE "answered"
        BY <2>2
      <3> QED
        BY <1>1, <1>2, <2>1, <2>2, <3>1, LogInserts
    <2>4. /\ turn[q].pc \in Storing /\ "answered" \notin Storing
          /\ "answered" \in States
      BY <2>2 DEF Storing, States, Ended
    <2>5. MayRun(q)
      BY <1>1, <2>4, StoringRuns
    <2>6. LoopInv'
      BY <1>1, <1>2, <2>2, <2>3, <2>4, <2>5, LoopStep
    <2> QED
      BY <2>3, <2>6 DEF IInv
  <1> QED
    BY <1>3, <1>4

LEMMA CrashKept ==
    ASSUME IInv, NEW w \in Workers, Crash(w)
    PROVE  IInv'
  <1> DEFINE dying == {q \in Turns : turn[q].worker = w
                                     /\ turn[q].pc \in Awaiting \cup Storing}
  <1>1. LoopInv /\ LogInv /\ Types /\ Exclusive
    BY DEF IInv, LoopInv
  <1>2. \A q \in Turns :
            /\ DOMAIN turn'[q] = Fields
            /\ turn'[q].session = turn[q].session
            /\ turn'[q].worker = turn[q].worker
            /\ turn'[q].length = turn[q].length
            /\ q \notin dying => /\ turn'[q].pc = turn[q].pc
                                 /\ turn'[q].seq = turn[q].seq
            /\ q \in dying => turn'[q].pc = "lost" /\ turn'[q].seq = 0
    BY <1>1 DEF Crash, Types, Fields
  <1>3. /\ faults < MaxFaults /\ faults' = faults + 1
        /\ loop' = [loop EXCEPT ![w] = Nobody]
        /\ ready' = [ready EXCEPT ![w] = FALSE]
        /\ DOMAIN turn' = Turns
        /\ UNCHANGED <<sessions, messages, before>>
    BY DEF Crash
  <1>4. Types'
    <2>1. \A q \in Turns : /\ turn'[q].pc \in States
                           /\ turn'[q].session \in Sessions
                           /\ turn'[q].worker \in Workers
                           /\ turn'[q].length \in 0..MaxLength
                           /\ turn'[q].seq \in Nat
      BY <1>1, <1>2 DEF Types, States, Ended
    <2>2. faults' \in 0..MaxFaults
      BY <1>1, <1>3, HistoryAssumption DEF Types
    <2>3. /\ loop' \in [Workers -> Turns \cup {Nobody}]
          /\ ready' \in [Workers -> BOOLEAN]
          /\ before' \in [Turns -> SUBSET Turns]
          /\ messages' \in [Sessions -> Seq(Message)]
          /\ sessions' \in SUBSET Sessions
      BY <1>1, <1>3 DEF Types
    <2> QED
      BY <1>2, <1>3, <2>1, <2>2, <2>3 DEF Types
  <1>5. ASSUME NEW q \in Turns
        PROVE  (loop'[turn'[q].worker] = q) <=> (turn'[q].pc \in Storing)
    <2>1. /\ (loop[turn[q].worker] = q) <=> (turn[q].pc \in Storing)
          /\ turn[q].worker \in Workers /\ q # Nobody
          /\ loop \in [Workers -> Turns \cup {Nobody}]
      BY <1>1, TurnsAssumption DEF Exclusive, Types
    <2>2. CASE turn[q].worker = w
      <3>1. turn'[q].pc \notin Storing
        BY <1>2, <2>2 DEF Storing
      <3>2. loop'[turn'[q].worker] = Nobody
        BY <1>2, <1>3, <2>1, <2>2
      <3> QED
        BY <2>1, <3>1, <3>2
    <2>3. CASE turn[q].worker # w
      BY <1>2, <1>3, <2>1, <2>3
    <2> QED
      BY <2>2, <2>3
  <1>6. LogInv'
    <2>1. \A q \in Turns :
              /\ turn'[q].session = turn[q].session
              /\ \/ turn'[q].pc = turn[q].pc /\ turn'[q].seq = turn[q].seq
                 \/ turn[q].pc # "answered" /\ turn'[q].pc = "lost"
      BY <1>2 DEF Awaiting, Storing
    <2>2. before' \in [Turns -> SUBSET Turns]
      BY <1>4 DEF Types
    <2> QED
      BY <1>1, <1>3, <2>1, <2>2, LogKept
  <1> QED
    BY <1>4, <1>5, <1>6 DEF IInv, LoopInv, Exclusive

LEMMA StutterKept ==
    ASSUME IInv, UNCHANGED vars
    PROVE  IInv'
  <1>1. LoopInv'
    BY DEF IInv, LoopInv, Types, Exclusive, vars
  <1>2. LogInv'
    BY LogKept DEF IInv, LoopInv, Types, vars
  <1> QED
    BY <1>1, <1>2 DEF IInv

LEMMA StepKept ==
    ASSUME IInv, [Next]_vars
    PROVE  IInv'
  <1>1. ASSUME NEW q \in Turns, Receive(q)
        PROVE  IInv'
    BY <1>1, ReceiveKept
  <1>2. ASSUME NEW q \in Turns, TurnStep(q)
        PROVE  IInv'
    BY <1>2, QuietKept, ChooseSeqKept, InsertKept DEF TurnStep
  <1>3. ASSUME NEW w \in Workers, Crash(w)
        PROVE  IInv'
    BY <1>3, CrashKept
  <1> QED
    BY <1>1, <1>2, <1>3, StutterKept DEF Next

LEMMA Invariance == Spec => []IInv
  BY InitKept, StepKept, PTL DEF Spec

-----------------------------------------------------------------------------
(* Theorems.                                                               *)

\* chat(): types, and a worker's event loop is held by the one turn that is
\* between two of its awaits, through failures and deaths.
THEOREM TypeCorrect == Spec => []TypeOK
  <1>1. IInv => TypeOK
    <2> SUFFICES ASSUME IInv
                 PROVE  TypeOK
      OBVIOUS
    <2>1. \A s \in Sessions : \A i \in DOMAIN messages[s] :
            messages[s][i] \in Message
      <3>1. ASSUME NEW s \in Sessions, NEW i \in DOMAIN messages[s]
            PROVE  messages[s][i] \in Message
        <4>1. messages[s] \in Seq(Message)
          BY DEF IInv, LoopInv, Types
        <4> QED
          BY <4>1
      <3> QED
        BY <3>1
    <2> QED
      BY <2>1 DEF IInv, LoopInv, Types, Exclusive, TypeOK, States
  <1> QED
    BY <1>1, Invariance, PTL

\* append_message: however many workers number the messages of a session at
\* the same time, no number is jumped over.
THEOREM NumbersCorrect == Spec => []SeqGapless
  <1>1. IInv => SeqGapless
    BY DEF IInv, LogInv
  <1> QED
    BY <1>1, Invariance, PTL

\* chat(): an answer is logged with a higher number than its question,
\* whatever other workers log in between.
THEOREM QuestionCorrect == Spec => []QuestionFirst
  <1>1. IInv => QuestionFirst
    BY DEF IInv, LogInv
  <1> QED
    BY <1>1, Invariance, PTL

\* append_message: the messages of a client that waits for its answers are
\* numbered in the order in which it asked, on whatever workers.
THEOREM OrderCorrect == Spec => []TurnsInOrder
  <1>1. IInv => TurnsInOrder
    BY DEF IInv, LogInv
  <1> QED
    BY <1>1, Invariance, PTL

\* chat(): a turn that is answered has logged its two messages and no more,
\* one that is refused none.
THEOREM LogCorrect == Spec => []LoggedWhole
  <1>1. IInv => LoggedWhole
    <2> SUFFICES ASSUME IInv, NEW q \in Turns
                 PROVE  LET rows == messages[turn[q].session]
                            mine == {i \in DOMAIN rows : rows[i].turn = q}
                        IN /\ turn[q].pc = "answered" => Cardinality(mine) = 2
                           /\ turn[q].pc = "refused" => mine = {}
      BY DEF LoggedWhole
    <2> DEFINE rows == messages[turn[q].session]
               mine == {i \in DOMAIN rows : rows[i].turn = q}
    <2>1. turn[q].session \in Sessions /\ rows \in Seq(Message)
      BY DEF IInv, LoopInv, Types
    <2>2. turn[q].pc = "refused" => mine = {}
      BY <2>1 DEF IInv, LogInv, Owned, Early
    <2>3. ASSUME turn[q].pc = "answered"
          PROVE  Cardinality(mine) = 2
      <3>1. PICK i \in DOMAIN rows : rows[i].turn = q /\ rows[i].role = "user"
        BY <2>3 DEF IInv, LogInv, LoggedSoFar, Logged
      <3>2. PICK k \in DOMAIN rows : rows[k].turn = q /\ rows[k].role = "assistant"
        BY <2>3 DEF IInv, LogInv, LoggedSoFar, Logged
      <3>3. \A j \in DOMAIN rows : rows[j].role \in {"user", "assistant"}
        <4>1. ASSUME NEW j \in DOMAIN rows
              PROVE  rows[j] \in Message
          <5> HIDE DEF rows
          <5> QED
            BY <2>1, <4>1
        <4> QED
          BY <4>1 DEF Message
      <3>4. \A j \in mine : j = i \/ j = k
        BY <2>1, <3>1, <3>2, <3>3 DEF IInv, LogInv, LoggedOnce
      <3>5. mine = {i} \cup {k} /\ i # k
        BY <3>1, <3>2, <3>4
      <3> HIDE DEF mine
      <3>6. IsFiniteSet({i}) /\ Cardinality({i}) = 1
        BY FS_Singleton
      <3>7. Cardinality({i} \cup {k}) = 2
        <4>1. k \notin {i}
          BY <3>5
        <4>2. Cardinality({i} \cup {k}) = 1 + 1
          BY <3>6, <4>1, FS_AddElement
        <4> QED
          BY <4>2
      <3> QED
        BY <3>5, <3>7
    <2> QED
      BY <2>2, <2>3
  <1> QED
    BY <1>1, Invariance, PTL

-----------------------------------------------------------------------------
(* Sessions whose turns do not log at the same time.                       *)

\* From the number of its first message to its second message.
Logging == {"userRow", "assistantSeq", "assistantRow"}

\* Two turns of a session are never both logging.
OneLogs ==
    \A p, q \in Turns :
        turn[p].session = turn[q].session
            /\ turn[p].pc \in Logging /\ turn[q].pc \in Logging => p = q

\* There is one worker.
OneLoop == \A v, w \in Workers : v = w

\* The messages of a session are numbered by their places,
Dense == \A s \in Sessions : \A i \in DOMAIN messages[s] : messages[s][i].seq = i - 1

\* the number in hand is that of the next place,
NextPlace ==
    \A q \in Turns : turn[q].pc \in {"userRow", "assistantRow"} =>
        turn[q].seq = Len(messages[turn[q].session])

\* and a question that is being answered is the last message.
AtTheEnd ==
    \A q \in Turns : turn[q].pc \in {"assistantSeq", "assistantRow"} =>
        LET rows == messages[turn[q].session]
        IN rows # <<>> /\ rows[Len(rows)].turn = q /\ rows[Len(rows)].role = "user"

Serial == Dense /\ NextPlace /\ AtTheEnd

\* The transcript of Conversation, and the messages as they lie.
Transcript == [s \in Sessions |-> Numbered(messages[s])]

Entry(m) == [turn |-> m.turn, role |-> m.role]

LEMMA DenseNumbered ==
    ASSUME NEW rows \in Seq(Message), \A i \in DOMAIN rows : rows[i].seq = i - 1
    PROVE  Numbered(rows) = [i \in 1..Len(rows) |-> Entry(rows[i])]
  <1> SUFFICES ASSUME NEW i \in 1..Len(rows)
               PROVE  LET here == {k \in DOMAIN rows : rows[k].seq = i - 1}
                      IN (IF here = {} THEN [turn |-> Nobody, role |-> "none"]
                          ELSE LET m == rows[CHOOSE k \in here : TRUE]
                               IN [turn |-> m.turn, role |-> m.role])
                         = Entry(rows[i])
    BY DEF Numbered
  <1> DEFINE here == {k \in DOMAIN rows : rows[k].seq = i - 1}
  <1>1. here = {i}
    <2>1. DOMAIN rows = 1..Len(rows) /\ Len(rows) \in Nat
      OBVIOUS
    <2>2. \A k \in DOMAIN rows : k - 1 = i - 1 => k = i
      BY <2>1
    <2> QED
      BY <2>1, <2>2
  <1>2. (CHOOSE k \in here : TRUE) = i
    BY <1>1
  <1> HIDE DEF here
  <1> QED
    BY <1>1, <1>2 DEF Entry

LEMMA AppendAsFunction ==
    ASSUME NEW L \in Nat, NEW T, NEW f \in [1..L -> T], NEW e
    PROVE  Append(f, e) =
            [i \in 1..(L + 1) |-> IF i = L + 1 THEN e ELSE f[i]]
  <1> DEFINE g == Append(f, e)
  <1>1. f \in Seq(T \cup {e}) /\ Len(f) = L
    OBVIOUS
  <1>2. /\ g \in Seq(T \cup {e}) /\ Len(g) = L + 1
        /\ \A i \in 1..L : g[i] = f[i]
        /\ g[L + 1] = e
    BY <1>1
  <1> HIDE DEF g
  <1>3. g \in [1..(L + 1) -> T \cup {e}]
    BY <1>2
  <1>4. \A i \in 1..(L + 1) : g[i] = IF i = L + 1 THEN e ELSE f[i]
    BY <1>2
  <1>5. g = [i \in 1..(L + 1) |-> IF i = L + 1 THEN e ELSE f[i]]
    BY <1>3, <1>4
  <1> QED
    BY <1>5 DEF g

\* With one event loop between them, two turns never log at the same time.
LEMMA OneLoopLogs == IInv /\ OneLoop => OneLogs
  <1>1. Logging \subseteq Storing
    BY DEF Logging, Storing
  <1> QED
    BY <1>1 DEF IInv, LoopInv, Types, Exclusive, OneLoop, OneLogs

\* A step that logs nothing and chooses no number.
LEMMA SerialKept ==
    ASSUME Serial, UNCHANGED messages,
           \A q \in Turns :
              /\ turn'[q].session = turn[q].session
              /\ turn'[q].pc \in {"userRow", "assistantSeq", "assistantRow"}
                    => turn'[q].pc = turn[q].pc /\ turn'[q].seq = turn[q].seq
    PROVE  Serial'
  <1>1. Dense'
    BY DEF Serial, Dense
  <1>2. NextPlace'
    BY DEF Serial, NextPlace
  <1>3. AtTheEnd'
    BY DEF Serial, AtTheEnd
  <1> QED
    BY <1>1, <1>2, <1>3 DEF Serial

LEMMA DenseNext ==
    ASSUME NEW rows \in Seq(Message), \A i \in DOMAIN rows : rows[i].seq = i - 1,
           NEW n \in Nat, \A i \in DOMAIN rows : rows[i].seq < n,
           n = 0 \/ \E k \in DOMAIN rows : rows[k].seq = n - 1
    PROVE  n = Len(rows)
  <1>1. DOMAIN rows = 1..Len(rows) /\ Len(rows) \in Nat
    OBVIOUS
  <1>2. n <= Len(rows)
    BY <1>1
  <1>3. Len(rows) = 0 \/ Len(rows) - 1 < n
    <2> SUFFICES ASSUME Len(rows) # 0 PROVE Len(rows) - 1 < n
      OBVIOUS
    <2>1. Len(rows) \in DOMAIN rows
      BY <1>1
    <2> QED
      BY <2>1
  <1>4. \A x, y \in Nat : x <= y /\ (y = 0 \/ y - 1 < x) => x = y
    OBVIOUS
  <1> QED
    BY <1>1, <1>2, <1>3, <1>4

LEMMA SerialChooses ==
    ASSUME IInv, Serial, NEW q \in Turns, ChooseSeq(q)
    PROVE  Serial' /\ UNCHANGED messages
  <1> DEFINE pc == IF turn[q].pc = "userSeq" THEN "userRow" ELSE "assistantRow"
             rows == messages[turn[q].session]
             n == NextSeq(rows)
  <1>1. /\ LoopInv /\ Types /\ Highest
        /\ turn[q].session \in Sessions /\ rows \in Seq(Message)
    BY DEF IInv, LoopInv, LogInv, Types
  <1>2. /\ turn[q].pc \in {"userSeq", "assistantSeq"}
        /\ turn' = [turn EXCEPT ![q].pc = pc, ![q].seq = n]
        /\ messages' = messages
    BY <1>1 DEF ChooseSeq, Types, Fields
  <1>3. n = Len(rows)
    <2>1. /\ n \in Nat
          /\ \A i \in DOMAIN rows : rows[i].seq < n
          /\ n = 0 \/ \E k \in DOMAIN rows : rows[k].seq = n - 1
      BY <1>1, NextSeqFollows
    <2>2. \A i \in DOMAIN rows : rows[i].seq = i - 1
      BY <1>1 DEF Serial, Dense
    <2> HIDE DEF n, rows
    <2> QED
      BY <1>1, <2>1, <2>2, DenseNext
  <1> HIDE DEF n
  <1>4. Moves(q, pc, n)
    BY <1>1, <1>2, MovesSeq
  <1>5. NextPlace'
    BY <1>2, <1>3, <1>4 DEF Serial, NextPlace, Moves
  <1>6. AtTheEnd'
    BY <1>2, <1>4 DEF Serial, AtTheEnd, Moves
  <1>7. Dense'
    BY <1>2 DEF Serial, Dense
  <1> QED
    BY <1>2, <1>5, <1>6, <1>7 DEF Serial

\* Logging a message adds it to the transcript.
LEMMA SerialAppends ==
    ASSUME IInv, Serial, NEW q \in Turns, NEW role \in {"user", "assistant"},
           NEW length \in 0..MaxLength, AppendMessage(q, role, length),
           turn[q].seq = Len(messages[turn[q].session]),
           messages' \in [Sessions -> Seq(Message)]
    PROVE  /\ Dense'
           /\ Transcript' = [Transcript EXCEPT ![turn[q].session] =
                                Append(@, [turn |-> q, role |-> role])]
           /\ \A s \in Sessions : Transcript[s] =
                    [i \in 1..Len(messages[s]) |-> Entry(messages[s][i])]
  <1> DEFINE s == turn[q].session
             m == [turn |-> q, role |-> role, seq |-> turn[q].seq,
                   length |-> length]
  <1>1. messages \in [Sessions -> Seq(Message)] /\ s \in Sessions
    BY DEF IInv, LoopInv, Types
  <1>2. messages' = [messages EXCEPT ![s] = Append(messages[s], m)]
    BY <1>1 DEF AppendMessage
  <1>3. /\ messages'[s] = Append(messages[s], m)
        /\ \A r \in Sessions \ {s} : messages'[r] = messages[r]
    BY <1>1, <1>2
  <1>4. /\ Len(messages'[s]) = Len(messages[s]) + 1
        /\ DOMAIN messages[s] = 1..Len(messages[s])
        /\ DOMAIN messages'[s] = 1..(Len(messages[s]) + 1)
        /\ Len(messages[s]) \in Nat
        /\ \A i \in 1..Len(messages[s]) : messages'[s][i] = messages[s][i]
        /\ messages'[s][Len(messages[s]) + 1] = m
    <2>1. messages[s] \in Seq(Message)
      BY <1>1
    <2> HIDE DEF s, m
    <2> QED
      BY <1>3, <2>1
  <1>5. \A r \in Sessions : \A i \in DOMAIN messages[r] : messages[r][i].seq = i - 1
    BY DEF Serial, Dense
  <1>6. m.seq = Len(messages[s]) /\ Entry(m) = [turn |-> q, role |-> role]
    BY DEF Entry
  <1> HIDE DEF s, m
  <1>7. \A r \in Sessions : \A i \in DOMAIN messages'[r] :
            messages'[r][i].seq = i - 1
    <2> SUFFICES ASSUME NEW r \in Sessions, NEW i \in DOMAIN messages'[r]
                 PROVE  messages'[r][i].seq = i - 1
      OBVIOUS
    <2>1. CASE r # s
      BY <1>3, <1>5, <2>1
    <2>2. CASE r = s /\ i = Len(messages[s]) + 1
      BY <1>4, <1>6, <2>2
    <2>3. CASE r = s /\ i # Len(messages[s]) + 1
      <3>1. i \in 1..Len(messages[s])
        BY <1>4, <2>3
      <3> QED
        BY <1>1, <1>4, <1>5, <2>3, <3>1
    <2> QED
      BY <2>1, <2>2, <2>3
  <1>8. \A r \in Sessions :
            /\ Numbered(messages[r]) =
                    [i \in 1..Len(messages[r]) |-> Entry(messages[r][i])]
            /\ Numbered(messages'[r]) =
                    [i \in 1..Len(messages'[r]) |-> Entry(messages'[r][i])]
    <2> TAKE r \in Sessions
    <2>1. messages[r] \in Seq(Message) /\ messages'[r] \in Seq(Message)
      BY <1>1
    <2> QED
      BY <1>5, <1>7, <2>1, DenseNumbered
  <1>9. Numbered(messages'[s]) =
            Append(Numbered(messages[s]), [turn |-> q, role |-> role])
    <2> DEFINE L == Len(messages[s])
               old == [i \in 1..L |-> Entry(messages[s][i])]
    <2>1. /\ old \in [1..L -> {Entry(messages[s][i]) : i \in 1..L}]
          /\ L \in Nat
      BY <1>4
    <2>2. Append(old, Entry(m)) =
            [i \in 1..(L + 1) |-> IF i = L + 1 THEN Entry(m) ELSE old[i]]
      <3> HIDE DEF old, L
      <3> QED
        BY <2>1, AppendAsFunction
    <2>3. [i \in 1..(L + 1) |-> Entry(messages'[s][i])] =
            [i \in 1..(L + 1) |-> IF i = L + 1 THEN Entry(m) ELSE old[i]]
      <3> SUFFICES ASSUME NEW i \in 1..(L + 1)
                   PROVE  Entry(messages'[s][i]) =
                            IF i = L + 1 THEN Entry(m) ELSE old[i]
        OBVIOUS
      <3>1. i # L + 1 => i \in 1..L
        BY <1>4
      <3> QED
        BY <1>4, <3>1
    <2> HIDE DEF old
    <2>4. Numbered(messages[s]) = old /\ s \in Sessions
      BY <1>1, <1>8 DEF old
    <2> QED
      BY <1>4, <1>6, <1>8, <2>2, <2>3, <2>4
  <1>10. Transcript' = [Transcript EXCEPT ![s] =
                            Append(@, [turn |-> q, role |-> role])]
    BY <1>1, <1>3, <1>9 DEF Transcript
  <1>11. Dense'
    BY <1>7 DEF Dense
  <1> QED
    BY <1>8, <1>10, <1>11 DEF s, Transcript

\* Steps that log nothing leave the transcript alone.
LEMMA QuietSerial ==
    ASSUME IInv, Serial,
           \/ \E q \in Turns :
                \/ Receive(q) \/ ReadHistory(q) \/ Rewrite(q) \/ Probe(q)
                \/ RetrieveGrounded(q) \/ RetrieveNothing(q) \/ Generate(q)
                \/ Refuse(q) \/ Fail(q)
           \/ \E w \in Workers : Crash(w)
           \/ UNCHANGED vars
    PROVE  Serial' /\ UNCHANGED messages
  <1> DEFINE late == {"userRow", "assistantSeq", "assistantRow"}
             Still == \A q \in Turns :
                        /\ turn'[q].session = turn[q].session
                        /\ turn'[q].pc \in late
                            => turn'[q].pc = turn[q].pc /\ turn'[q].seq = turn[q].seq
  <1>1. Types
    BY DEF IInv, LoopInv
  <1>2. ASSUME NEW q \in Turns, NEW pc, NEW n, Moves(q, pc, n), pc \notin late
        PROVE  Still
    BY <1>2 DEF Moves
  <1>3. ASSUME NEW q \in Turns,
               \/ Receive(q) \/ ReadHistory(q) \/ Rewrite(q) \/ Probe(q)
               \/ RetrieveGrounded(q) \/ RetrieveNothing(q) \/ Generate(q)
               \/ Refuse(q) \/ Fail(q)
        PROVE  Still /\ UNCHANGED messages
    <2> HIDE DEF Still
    <2>1. CASE Receive(q)
      <3>1. Moves(q, "read", turn[q].seq)
        BY <1>1, <2>1, MovesPc DEF Receive
      <3> QED
        BY <1>2, <2>1, <3>1 DEF Receive
    <2>2. CASE ReadHistory(q)
      <3>1. PICK p \in MostRecent(messages[turn[q].session]) :
              LET history == ApplyHistoryBudget(messages[turn[q].session], p)
              IN \E pc \in {"chat", IF Rewriting /\ history # <<>>
                                    THEN "rewrite" ELSE Lookup(q)} :
                      turn' = [turn EXCEPT ![q].pc = pc, ![q].history = history]
        BY <2>2 DEF ReadHistory
      <3> DEFINE history == ApplyHistoryBudget(messages[turn[q].session], p)
      <3>2. PICK pc \in {"chat", IF Rewriting /\ history # <<>>
                                    THEN "rewrite" ELSE Lookup(q)} :
                      turn' = [turn EXCEPT ![q].pc = pc, ![q].history = history]
        BY <3>1
      <3> HIDE DEF history
      <3>3. Moves(q, pc, turn[q].seq) /\ pc \notin late
        BY <1>1, <3>2, MovesHistory DEF Lookup
      <3> QED
        BY <1>2, <2>2, <3>3 DEF ReadHistory
    <2>3. CASE Rewrite(q)
      <3>1. Moves(q, Lookup(q), turn[q].seq) /\ Lookup(q) \notin late
        BY <1>1, <2>3, MovesPc DEF Rewrite, Lookup
      <3> QED
        BY <1>2, <2>3, <3>1 DEF Rewrite
    <2>4. CASE Probe(q)
      <3>1. Moves(q, "retrieve", turn[q].seq)
        BY <1>1, <2>4, MovesPc DEF Probe
      <3> QED
        BY <1>2, <2>4, <3>1 DEF Probe
    <2>5. CASE RetrieveGrounded(q)
      <3>1. Moves(q, "chat", turn[q].seq)
        BY <1>1, <2>5, MovesPc DEF RetrieveGrounded
      <3> QED
        BY <1>2, <2>5, <3>1 DEF RetrieveGrounded
    <2>6. CASE RetrieveNothing(q) \/ Generate(q)
      <3>1. Moves(q, "userSeq", turn[q].seq)
        BY <1>1, <2>6, MovesHistory DEF RetrieveNothing, Generate
      <3> QED
        BY <1>2, <2>6, <3>1 DEF RetrieveNothing, Generate
    <2>7. CASE Refuse(q)
      <3>1. Moves(q, "refused", 0)
        BY <1>1, <2>7, MovesOver DEF Refuse, Over
      <3> QED
        BY <1>2, <2>7, <3>1 DEF Refuse, Over
    <2>8. CASE Fail(q)
      <3>1. Moves(q, "failed", 0)
        BY <1>1, <2>8, MovesOver DEF Fail, Over
      <3> QED
        BY <1>2, <2>8, <3>1 DEF Fail, Over
    <2> QED
      BY <1>3, <2>1, <2>2, <2>3, <2>4, <2>5, <2>6, <2>7, <2>8
  <1>4. ASSUME NEW w \in Workers, Crash(w)
        PROVE  Still /\ UNCHANGED messages
    BY <1>1, <1>4 DEF Crash, Types, Fields
  <1>5. ASSUME UNCHANGED vars
        PROVE  Still /\ UNCHANGED messages
    BY <1>5 DEF vars
  <1>6. Still /\ UNCHANGED messages
    BY <1>3, <1>4, <1>5
  <1> QED
    BY <1>6, SerialKept

\* The user's message asks, and nothing of its turn was said before.
LEMMA SerialAsks ==
    ASSUME IInv, OneLogs, Serial, messages' \in [Sessions -> Seq(Message)],
           NEW q \in Turns, InsertUser(q)
    PROVE  Serial' /\ Talk!Ask(turn[q].session, q)
  <1>1. /\ Types /\ turn[q].pc = "userRow" /\ turn[q].session \in Sessions
        /\ turn[q].length \in 0..MaxLength
        /\ AppendMessage(q, "user", turn[q].length)
        /\ turn[q].seq = Len(messages[turn[q].session])
        /\ messages' \in [Sessions -> Seq(Message)]
    BY DEF IInv, LoopInv, Types, InsertUser, Serial, NextPlace
  <1>2. Moves(q, "assistantSeq", 0)
    BY <1>1, MovesSeq DEF InsertUser
  <1>3. /\ Dense'
        /\ Transcript' = [Transcript EXCEPT ![turn[q].session] =
                            Append(@, [turn |-> q, role |-> "user"])]
        /\ \A s \in Sessions : Transcript[s] =
                [i \in 1..Len(messages[s]) |-> Entry(messages[s][i])]
    BY <1>1, SerialAppends
  <1>4. \A p \in Turns : p # q /\ turn[p].pc \in Logging =>
            messages'[turn[p].session] = messages[turn[p].session]
    <2>1. turn[q].pc \in Logging
      BY <1>1 DEF Logging
    <2>2. \A s \in Sessions \ {turn[q].session} : messages'[s] = messages[s]
      BY <1>1 DEF AppendMessage, Types
    <2> QED
      BY <1>1, <2>1, <2>2 DEF OneLogs, Types
  <1>5. NextPlace'
    BY <1>2, <1>4 DEF Serial, NextPlace, Moves, Logging
  <1>6. AtTheEnd'
    <2> DEFINE rows == messages[turn[q].session]
               m == [turn |-> q, role |-> "user", seq |-> turn[q].seq,
                     length |-> turn[q].length]
    <2>1. messages'[turn[q].session] = Append(rows, m) /\ rows \in Seq(Message)
      BY <1>1 DEF AppendMessage, Types
    <2> DEFINE new == Append(rows, m)
    <2>2. new # <<>> /\ new[Len(new)] = m
      <3> HIDE DEF rows, m
      <3> QED
        BY <2>1
    <2> HIDE DEF new
    <2>3. messages'[turn[q].session] = new
      BY <2>1 DEF new
    <2> QED
      BY <1>2, <1>4, <2>2, <2>3 DEF Serial, AtTheEnd, Moves, Logging
  <1>7. ASSUME NEW r \in Sessions, NEW i \in DOMAIN Transcript[r]
        PROVE  Transcript[r][i].turn # q
    <2>1. messages[r] \in Seq(Message)
      BY <1>1 DEF Types
    <2>2. Transcript[r] = [k \in 1..Len(messages[r]) |-> Entry(messages[r][k])]
      BY <1>3
    <2>3. i \in 1..Len(messages[r])
      BY <2>2
    <2>4. i \in DOMAIN messages[r] /\ Transcript[r][i] = Entry(messages[r][i])
      BY <2>1, <2>2, <2>3
    <2>5. messages[r][i].turn # q
      BY <1>1, <2>4 DEF IInv, LogInv, Owned
    <2> QED
      BY <2>4, <2>5 DEF Entry
  <1>8. Talk!Ask(turn[q].session, q)
    BY <1>3, <1>7 DEF Talk!Ask, Talk!Asked, Transcript
  <1> QED
    BY <1>3, <1>5, <1>6, <1>8 DEF Serial

\* The assistant's message answers the question at the end.
LEMMA SerialAnswers ==
    ASSUME IInv, OneLogs, Serial, messages' \in [Sessions -> Seq(Message)],
           NEW q \in Turns, InsertAssistant(q)
    PROVE  Serial' /\ Talk!Answer(turn[q].session, q)
  <1>1. PICK length \in 0..MaxLength : AppendMessage(q, "assistant", length)
    BY DEF InsertAssistant
  <1>2. /\ Types /\ turn[q].pc = "assistantRow" /\ turn[q].session \in Sessions
        /\ turn[q].seq = Len(messages[turn[q].session])
        /\ messages' \in [Sessions -> Seq(Message)]
    BY DEF IInv, LoopInv, Types, InsertAssistant, Serial, NextPlace
  <1>3. Moves(q, "answered", 0)
    BY <1>2, MovesSeq DEF InsertAssistant
  <1>4. /\ Dense'
        /\ Transcript' = [Transcript EXCEPT ![turn[q].session] =
                            Append(@, [turn |-> q, role |-> "assistant"])]
        /\ \A s \in Sessions : Transcript[s] =
                [i \in 1..Len(messages[s]) |-> Entry(messages[s][i])]
    BY <1>1, <1>2, SerialAppends
  <1>5. \A p \in Turns : p # q /\ turn[p].pc \in Logging =>
            messages'[turn[p].session] = messages[turn[p].session]
    <2>1. turn[q].pc \in Logging
      BY <1>2 DEF Logging
    <2>2. \A s \in Sessions \ {turn[q].session} : messages'[s] = messages[s]
      BY <1>1, <1>2 DEF AppendMessage, Types
    <2> QED
      BY <1>2, <2>1, <2>2 DEF OneLogs, Types
  <1>6. NextPlace' /\ AtTheEnd'
    BY <1>3, <1>5 DEF Serial, NextPlace, AtTheEnd, Moves, Logging
  <1>7. /\ Transcript[turn[q].session] # <<>>
        /\ Transcript[turn[q].session][Len(Transcript[turn[q].session])]
                = [turn |-> q, role |-> "user"]
    <2> DEFINE rows == messages[turn[q].session]
    <2>1. /\ rows # <<>> /\ rows[Len(rows)].turn = q
          /\ rows[Len(rows)].role = "user" /\ rows \in Seq(Message)
      BY <1>2 DEF Serial, AtTheEnd, Types
    <2>2. Transcript[turn[q].session] = [i \in 1..Len(rows) |-> Entry(rows[i])]
      BY <1>2, <1>4
    <2> HIDE DEF rows
    <2>3. Len(rows) \in 1..Len(rows)
      BY <2>1
    <2> DEFINE said == [i \in 1..Len(rows) |-> Entry(rows[i])]
    <2>4. said \in Seq({Entry(rows[i]) : i \in 1..Len(rows)}) /\ Len(said) = Len(rows)
      BY <2>3
    <2>5. said # <<>> /\ said[Len(said)] = Entry(rows[Len(rows)])
      BY <2>3, <2>4
    <2> QED
      BY <2>1, <2>2, <2>5 DEF Entry
  <1>8. Talk!Answer(turn[q].session, q)
    BY <1>4, <1>7 DEF Talk!Answer, Transcript
  <1> QED
    BY <1>4, <1>6, <1>8 DEF Serial

LEMMA SerialNext ==
    IInv /\ OneLogs /\ Serial /\ [Next]_vars
        => Serial' /\ (Talk!Next \/ UNCHANGED Transcript)
  <1> SUFFICES ASSUME IInv, OneLogs, Serial, [Next]_vars
               PROVE  Serial' /\ (Talk!Next \/ UNCHANGED Transcript)
    OBVIOUS
  <1>1. messages' \in [Sessions -> Seq(Message)]
    BY StepKept DEF IInv, LoopInv, Types
  <1>2. ASSUME Serial' /\ UNCHANGED messages
        PROVE  Serial' /\ (Talk!Next \/ UNCHANGED Transcript)
    BY <1>2 DEF Transcript
  <1>3. ASSUME NEW q \in Turns, InsertUser(q)
        PROVE  Serial' /\ Talk!Next
    <2>1. turn[q].session \in Sessions
      BY DEF IInv, LoopInv, Types
    <2> QED
      BY <1>1, <1>3, <2>1, SerialAsks DEF Talk!Next
  <1>4. ASSUME NEW q \in Turns, InsertAssistant(q)
        PROVE  Serial' /\ Talk!Next
    <2>1. turn[q].session \in Sessions
      BY DEF IInv, LoopInv, Types
    <2> QED
      BY <1>1, <1>4, <2>1, SerialAnswers DEF Talk!Next
  <1> QED
    BY <1>2, <1>3, <1>4, SerialChooses, QuietSerial DEF Next, TurnStep

LEMMA SerialInit == Init => Serial /\ Talk!Init
  <1> SUFFICES ASSUME Init PROVE Serial /\ Talk!Init
    OBVIOUS
  <1>1. \A q \in Turns : turn[q].pc = "idle"
    BY DEF Init
  <1>2. Serial
    BY <1>1 DEF Init, Serial, Dense, NextPlace, AtTheEnd
  <1>3. Numbered(<<>>) = <<>>
    BY DEF Numbered
  <1>4. Talk!Init
    BY <1>3 DEF Init, Talk!Init
  <1> QED
    BY <1>2, <1>4

\* chat() on any number of workers: a session is a conversation, turn after
\* turn, each question logged once and its answer right behind it, as long as
\* two of its turns are never between their first number and their last insert
\* at the same time.
THEOREM ConversationKept == Spec /\ []OneLogs => ConversationHolds
  <1>1. Init => Serial /\ Talk!Init
    BY SerialInit
  <1>2. IInv /\ OneLogs /\ Serial /\ [Next]_vars
            => Serial' /\ [Talk!Next]_Transcript
    BY SerialNext
  <1> QED
    BY <1>1, <1>2, Invariance, PTL
       DEF Spec, ConversationHolds, Talk!Spec, Transcript

\* chat() on one worker: turns of a session overlap at their awaits, and the
\* session is a conversation all the same.
THEOREM ConversationRefined == OneLoop /\ Spec => ConversationHolds
  <1>1. OneLoop => OneLoop'
    BY DEF OneLoop
  <1> QED
    BY <1>1, OneLoopLogs, Invariance, ConversationKept, PTL

-----------------------------------------------------------------------------
(* The order of a history.                                                 *)

LEMMA TopOf ==
    ASSUME NEW N \in Nat, NEW S \in SUBSET (0..N), S # {}
    PROVE  \E n \in S : \A m \in S : m <= n
  <1> DEFINE T == {N - n : n \in S}
  <1>1. T \subseteq Nat /\ T # {}
    <2>1. \A n \in S : n \in 0..N
      OBVIOUS
    <2>2. \A n \in S : N - n \in Nat
      BY <2>1
    <2> QED
      BY <2>2
  <1>2. PICK x \in T : \A y \in T : ~(<<y, x>> \in OpToRel(<, Nat))
    <2> HIDE DEF T
    <2> QED
      BY <1>1, NatLessThanWellFounded, WFMin
  <1>3. PICK n \in S : x = N - n
    OBVIOUS
  <1>4. ASSUME NEW m \in S
        PROVE  m <= n
    <2>1. /\ N - m \in T /\ N - m \in Nat /\ N - n \in Nat
          /\ m \in 0..N /\ n \in 0..N
      OBVIOUS
    <2>2. ~(N - m < N - n)
      BY <1>2, <1>3, <2>1 DEF OpToRel
    <2> QED
      BY <2>1, <2>2
  <1> QED
    BY <1>4

\* apply_history_budget keeps a part of the query's rows, turned round: the
\* query lists them by falling number, so the history has them by rising place.
LEMMA HistorySorted ==
    ASSUME NEW rows \in Seq(Message), \A i \in DOMAIN rows : rows[i].seq = i - 1,
           NEW p \in MostRecent(rows)
    PROVE  LET h == ApplyHistoryBudget(rows, p)
           IN \A i, j \in DOMAIN h : i < j => h[i] < h[j]
  <1> DEFINE n == IF Len(rows) < MaxMessages THEN Len(rows) ELSE MaxMessages
  <1>1. n \in Nat /\ DOMAIN rows = 1..Len(rows) /\ Len(rows) \in Nat
    BY HistoryAssumption
  <1>2. /\ p \in [1..n -> DOMAIN rows]
        /\ \A i, j \in 1..n :
                i < j => p[i] # p[j] /\ rows[p[i]].seq >= rows[p[j]].seq
    BY DEF MostRecent
  <1> HIDE DEF n
  <1>3. \A i, j \in 1..n : i < j => p[j] < p[i]
    <2> SUFFICES ASSUME NEW i \in 1..n, NEW j \in 1..n, i < j
                 PROVE  p[j] < p[i]
      OBVIOUS
    <2>1. p[i] \in DOMAIN rows /\ p[j] \in DOMAIN rows
      BY <1>2
    <2>2. rows[p[i]].seq = p[i] - 1 /\ rows[p[j]].seq = p[j] - 1
      BY <2>1
    <2>3. p[i] # p[j] /\ p[i] - 1 >= p[j] - 1
      BY <1>2, <2>2
    <2> QED
      BY <1>1, <2>1, <2>3
  <1>4. Len(p) = n
    BY <1>1, <1>2
  <1> DEFINE chars == Chars(rows, p)
             fitting == {m \in 0..Len(p) : \A i \in 2..m : chars[i] <= MaxChars}
             kept == CHOOSE m \in fitting : \A k \in fitting : k <= m
  <1>5. kept \in 0..n
    <2>1. fitting \in SUBSET (0..n) /\ 0 \in fitting
      BY <1>1, <1>4
    <2> HIDE DEF fitting
    <2>2. \E m \in fitting : \A k \in fitting : k <= m
      BY <1>1, <2>1, TopOf
    <2> QED
      BY <2>1, <2>2
  <1>6. ApplyHistoryBudget(rows, p) = Chronological(SubSeq(p, 1, kept))
    BY DEF ApplyHistoryBudget
  <1> HIDE DEF kept
  <1>7. /\ Len(SubSeq(p, 1, kept)) = kept
        /\ \A i \in 1..kept : SubSeq(p, 1, kept)[i] = p[i]
    <2>1. p \in Seq(DOMAIN rows)
      BY <1>1, <1>2
    <2> QED
      BY <1>4, <1>5, <2>1
  <1>8. Chronological(SubSeq(p, 1, kept)) =
            [i \in 1..kept |-> SubSeq(p, 1, kept)[kept + 1 - i]]
    BY <1>7 DEF Chronological
  <1>9. ASSUME NEW i \in 1..kept, NEW j \in 1..kept, i < j
        PROVE  SubSeq(p, 1, kept)[kept + 1 - i] < SubSeq(p, 1, kept)[kept + 1 - j]
    <2>1. /\ kept + 1 - i \in 1..kept /\ kept + 1 - j \in 1..kept
          /\ kept + 1 - j < kept + 1 - i
          /\ 1..kept \subseteq 1..n
      BY <1>1, <1>5, <1>9
    <2> QED
      BY <1>3, <1>7, <2>1
  <1> DEFINE f == [i \in 1..kept |-> SubSeq(p, 1, kept)[kept + 1 - i]]
  <1>10. \A i, j \in DOMAIN f : i < j => f[i] < f[j]
    BY <1>9
  <1>11. ApplyHistoryBudget(rows, p) = f
    BY <1>6, <1>8
  <1> HIDE DEF f, fitting, chars
  <1> QED
    BY <1>10, <1>11

\* A history stays as it was read until it is dropped.
LEMMA SortedNext ==
    IInv /\ Serial /\ HistoryIsChronological /\ [Next]_vars
        => HistoryIsChronological'
  <1> SUFFICES ASSUME IInv, Serial, HistoryIsChronological, [Next]_vars,
                      NEW q \in Turns
               PROVE  \A i, j \in DOMAIN turn'[q].history :
                        i < j => turn'[q].history[i] < turn'[q].history[j]
    BY DEF HistoryIsChronological
  <1>1. /\ DOMAIN turn = Turns
        /\ \A p \in Turns : DOMAIN turn[p] = Fields
        /\ turn[q].session \in Sessions
        /\ messages \in [Sessions -> Seq(Message)]
    BY DEF IInv, LoopInv, Types
  <1>2. ASSUME turn'[q].history \in {turn[q].history, <<>>}
        PROVE  \A i, j \in DOMAIN turn'[q].history :
                 i < j => turn'[q].history[i] < turn'[q].history[j]
    BY <1>2 DEF HistoryIsChronological
  <1>3. ASSUME ReadHistory(q)
        PROVE  \A i, j \in DOMAIN turn'[q].history :
                 i < j => turn'[q].history[i] < turn'[q].history[j]
    <2> DEFINE rows == messages[turn[q].session]
    <2>1. PICK p \in MostRecent(rows) :
            LET history == ApplyHistoryBudget(rows, p)
            IN \E pc \in {"chat", IF Rewriting /\ history # <<>>
                                  THEN "rewrite" ELSE Lookup(q)} :
                    turn' = [turn EXCEPT ![q].pc = pc, ![q].history = history]
      BY <1>3 DEF ReadHistory
    <2> DEFINE history == ApplyHistoryBudget(rows, p)
    <2>2. PICK pc : turn' = [turn EXCEPT ![q].pc = pc, ![q].history = history]
      BY <2>1
    <2>3. \A i, j \in DOMAIN history : i < j => history[i] < history[j]
      <3>1. rows \in Seq(Message) /\ \A i \in DOMAIN rows : rows[i].seq = i - 1
        BY <1>1 DEF Serial, Dense
      <3> HIDE DEF rows
      <3> QED
        BY <3>1, HistorySorted
    <2> HIDE DEF history
    <2>4. turn'[q].history = history
      BY <1>1, <2>2 DEF Fields
    <2> QED
      BY <2>3, <2>4
  <1>4. ASSUME NEW p \in Turns, p # q, ReadHistory(p)
        PROVE  turn'[q].history = turn[q].history
    BY <1>1, <1>4 DEF ReadHistory
  <1>5. ASSUME NEW p \in Turns,
               \/ Receive(p) \/ Rewrite(p) \/ Probe(p) \/ RetrieveGrounded(p)
               \/ ChooseSeq(p) \/ InsertUser(p) \/ InsertAssistant(p)
        PROVE  turn'[q].history = turn[q].history
    <2>1. CASE Receive(p)
      BY <1>1, <2>1 DEF Receive, Fields
    <2>2. CASE Rewrite(p)
      BY <1>1, <2>2 DEF Rewrite, Fields
    <2>3. CASE Probe(p)
      <3>1. turn' = [turn EXCEPT ![p].pc = "retrieve"]
        BY <2>3 DEF Probe
      <3> QED
        BY <1>1, <3>1 DEF Fields
    <2>7. CASE RetrieveGrounded(p)
      <3>1. turn' = [turn EXCEPT ![p].pc = "chat"]
        BY <2>7 DEF RetrieveGrounded
      <3> QED
        BY <1>1, <3>1 DEF Fields
    <2>4. CASE ChooseSeq(p)
      <3>1. turn' = [turn EXCEPT
                  ![p].pc = IF turn[p].pc = "userSeq" THEN "userRow"
                            ELSE "assistantRow",
                  ![p].seq = NextSeq(messages[turn[p].session])]
        BY <1>1, <2>4 DEF ChooseSeq, Fields
      <3> QED
        BY <1>1, <3>1 DEF Fields
    <2>5. CASE InsertUser(p)
      BY <1>1, <2>5 DEF InsertUser, Fields
    <2>6. CASE InsertAssistant(p)
      BY <1>1, <2>6 DEF InsertAssistant, Fields
    <2> QED
      BY <1>5, <2>1, <2>2, <2>3, <2>4, <2>5, <2>6, <2>7
  <1>6. ASSUME NEW p \in Turns,
               RetrieveNothing(p) \/ Generate(p) \/ Refuse(p) \/ Fail(p)
        PROVE  turn'[q].history \in {turn[q].history, <<>>}
    BY <1>1, <1>6 DEF RetrieveNothing, Generate, Refuse, Fail, Over, Fields
  <1>7. ASSUME NEW w \in Workers, Crash(w)
        PROVE  turn'[q].history \in {turn[q].history, <<>>}
    BY <1>1, <1>7 DEF Crash, Fields
  <1>8. ASSUME UNCHANGED vars
        PROVE  turn'[q].history = turn[q].history
    BY <1>8 DEF vars
  <1> QED
    BY <1>2, <1>3, <1>4, <1>5, <1>6, <1>7, <1>8 DEF Next, TurnStep

\* get_recent_messages on any number of workers: a history is read in the order
\* in which its messages were logged, unless two turns of its session log at
\* the same time.
THEOREM HistoryKept == Spec /\ []OneLogs => []HistoryIsChronological
  <1>1. Init => Serial /\ HistoryIsChronological
    <2>1. Init => HistoryIsChronological
      BY DEF Init, HistoryIsChronological
    <2> QED
      BY <2>1, SerialInit
  <1>2. IInv /\ OneLogs /\ Serial /\ [Next]_vars => Serial'
    BY SerialNext
  <1> QED
    BY <1>1, <1>2, SortedNext, Invariance, PTL DEF Spec

\* The same on one worker, which keeps its loop while it logs.
THEOREM HistoryCorrect == OneLoop /\ Spec => []HistoryIsChronological
  <1>1. OneLoop => OneLoop'
    BY DEF OneLoop
  <1> QED
    BY <1>1, OneLoopLogs, Invariance, HistoryKept, PTL

-----------------------------------------------------------------------------
(* The sum of the lengths of a history.                                    *)

\* Induction up to N, for a set of numbers.
LEMMA UpTo ==
    ASSUME NEW N \in Nat, NEW S, 0 \in S,
           \A n \in 0..(N - 1) : n \in S => n + 1 \in S
    PROVE  0..N \subseteq S
  <1> DEFINE without == (0..N) \ S
  <1> SUFFICES ASSUME without # {}
               PROVE  FALSE
    OBVIOUS
  <1>1. PICK n \in without : \A m \in without : ~(<<m, n>> \in OpToRel(<, Nat))
    <2>1. without \subseteq Nat
      OBVIOUS
    <2> HIDE DEF without
    <2> QED
      BY <2>1, NatLessThanWellFounded, WFMin
  <1>2. n \in 1..N /\ n - 1 \in 0..(N - 1) /\ n - 1 \in Nat /\ n \in Nat
            /\ n - 1 < n /\ (n - 1) + 1 = n
    OBVIOUS
  <1>3. n - 1 \notin without
    <2> HIDE DEF without
    <2> QED
      BY <1>1, <1>2 DEF OpToRel
  <1>4. n - 1 \in S
    BY <1>2, <1>3
  <1> QED
    BY <1>2, <1>4

\* There is a function that sums up d.
LEMMA SumExists ==
    ASSUME NEW N \in Nat, NEW d \in [1..N -> Nat]
    PROVE  \E f \in [0..N -> Nat] :
                f = [i \in 0..N |-> IF i = 0 THEN 0 ELSE f[i - 1] + d[i]]
  <1> DEFINE Sums(n, f) ==
                /\ f \in [0..n -> Nat]
                /\ f[0] = 0
                /\ \A i \in 1..n : f[i] = f[i - 1] + d[i]
             summed == {n \in 0..N : \E f : Sums(n, f)}
  <1>1. \E f : Sums(0, f)
    <2> DEFINE f == [i \in 0..0 |-> 0]
    <2>1. Sums(0, f)
      OBVIOUS
    <2> QED
      BY <2>1
  <1>2. ASSUME NEW n \in Nat, n < N, NEW f, Sums(n, f)
        PROVE  \E g : Sums(n + 1, g)
    <2> DEFINE g == [i \in 0..(n + 1) |-> IF i = n + 1 THEN f[n] + d[n + 1] ELSE f[i]]
    <2>1. n \in 0..n /\ n + 1 \in 1..N /\ 0 \in 0..n /\ 0 # n + 1
      BY <1>2
    <2>2. g[0] = 0
      BY <1>2, <2>1
    <2>3. g \in [0..(n + 1) -> Nat]
      <3>1. f[n] + d[n + 1] \in Nat
        BY <1>2, <2>1
      <3>2. \A i \in 0..(n + 1) : i # n + 1 => f[i] \in Nat
        BY <1>2
      <3> QED
        BY <3>1, <3>2
    <2>4. ASSUME NEW i \in 1..(n + 1)
          PROVE  g[i] = g[i - 1] + d[i]
      <3>1. i \in 0..(n + 1) /\ i - 1 \in 0..(n + 1) /\ i - 1 # n + 1
        OBVIOUS
      <3>2. CASE i = n + 1
        BY <3>1, <3>2
      <3>3. CASE i # n + 1
        <4>1. i \in 1..n
          BY <3>3
        <4> QED
          BY <1>2, <3>1, <3>3, <4>1
      <3> QED
        BY <3>2, <3>3
    <2> HIDE DEF g
    <2> QED
      BY <2>2, <2>3, <2>4
  <1>4. \E f : Sums(N, f)
    <2> HIDE DEF Sums
    <2>1. 0 \in summed
      BY <1>1
    <2>2. ASSUME NEW n \in 0..(N - 1), n \in summed
          PROVE  n + 1 \in summed
      <3>1. n \in Nat /\ n < N /\ n + 1 \in 0..N
        OBVIOUS
      <3>2. PICK f : Sums(n, f)
        BY <2>2
      <3>3. \E g : Sums(n + 1, g)
        BY <1>2, <3>1, <3>2
      <3> QED
        BY <3>1, <3>3
    <2>3. 0..N \subseteq summed
      <3> HIDE DEF summed
      <3> QED
        BY <2>1, <2>2, UpTo
    <2> QED
      BY <2>3
  <1>5. PICK f : Sums(N, f)
    BY <1>4
  <1>6. f = [i \in 0..N |-> IF i = 0 THEN 0 ELSE f[i - 1] + d[i]]
    <2>1. \A i \in 0..N : f[i] = IF i = 0 THEN 0 ELSE f[i - 1] + d[i]
      BY <1>5
    <2> QED
      BY <1>5, <2>1
  <1> QED
    BY <1>5, <1>6

\* Messages at places of a session have lengths.
LEMMA CharsSum ==
    ASSUME NEW rows, NEW p \in Seq(DOMAIN rows),
           \A k \in DOMAIN rows : rows[k].length \in Nat
    PROVE  /\ Chars(rows, p) \in [0..Len(p) -> Nat]
           /\ Chars(rows, p)[0] = 0
           /\ \A i \in 1..Len(p) :
                Chars(rows, p)[i] = Chars(rows, p)[i - 1] + rows[p[i]].length
  <1> DEFINE N == Len(p)
             d == [i \in 1..N |-> rows[p[i]].length]
             Body(f) == [i \in 0..N |-> IF i = 0 THEN 0 ELSE f[i - 1] + rows[p[i]].length]
             sum == CHOOSE f : f = Body(f)
  <1>1. N \in Nat /\ d \in [1..N -> Nat]
    <2>1. \A i \in 1..Len(p) : p[i] \in DOMAIN rows
      OBVIOUS
    <2> QED
      BY <2>1
  <1>2. PICK f \in [0..N -> Nat] :
                f = [i \in 0..N |-> IF i = 0 THEN 0 ELSE f[i - 1] + d[i]]
    <2> HIDE DEF d, N
    <2> QED
      BY <1>1, SumExists
  <1>3. f = Body(f)
    <2>1. [i \in 0..N |-> IF i = 0 THEN 0 ELSE f[i - 1] + d[i]] = Body(f)
      <3>1. \A i \in 0..N : i # 0 => i \in 1..N
        BY <1>1
      <3>2. \A i \in 0..N : i # 0 => d[i] = rows[p[i]].length
        BY <3>1
      <3> HIDE DEF d, N
      <3> QED
        BY <3>2
    <2> QED
      BY <1>2, <2>1
  <1>4. Chars(rows, p) = sum
    BY DEF Chars
  <1>5. sum = Body(sum)
    <2> HIDE DEF Body
    <2> QED
      BY <1>3
  <1> HIDE DEF sum
  <1>6. \A i \in 0..N : sum[i] = IF i = 0 THEN 0 ELSE sum[i - 1] + rows[p[i]].length
    BY <1>5
  <1>7. \A i \in 0..N : f[i] = IF i = 0 THEN 0 ELSE f[i - 1] + rows[p[i]].length
    BY <1>3
  <1> HIDE DEF N, d, Body
  <1>8. \A i \in 0..N : sum[i] = f[i]
    <2> DEFINE same == {i \in 0..N : sum[i] = f[i]}
    <2>1. 0 \in same
      BY <1>1, <1>6, <1>7
    <2>2. ASSUME NEW n \in 0..(N - 1), n \in same
          PROVE  n + 1 \in same
      <3>1. n + 1 \in 0..N /\ n + 1 # 0 /\ (n + 1) - 1 = n
        BY <1>1
      <3> QED
        BY <1>6, <1>7, <2>2, <3>1
    <2>3. 0..N \subseteq same
      <3> HIDE DEF same
      <3> QED
        BY <1>1, <2>1, <2>2, UpTo
    <2> QED
      BY <2>3
  <1>9. sum \in [0..N -> Nat]
    <2>1. sum = [i \in 0..N |-> sum[i]]
      BY <1>5 DEF Body
    <2>2. \A i \in 0..N : sum[i] \in Nat
      BY <1>2, <1>8
    <2> QED
      BY <2>1, <2>2
  <1>10. 0 \in 0..N /\ \A i \in 1..N : i \in 0..N /\ i # 0
    BY <1>1
  <1>11. /\ sum \in [0..N -> Nat]
         /\ sum[0] = 0
         /\ \A i \in 1..N : sum[i] = sum[i - 1] + rows[p[i]].length
    BY <1>6, <1>9, <1>10
  <1> QED
    BY <1>4, <1>11 DEF N

\* The lengths add up to the same from either end.
LEMMA CharsReversed ==
    ASSUME NEW rows, NEW p \in Seq(DOMAIN rows), NEW n \in 0..Len(p),
           NEW h \in Seq(DOMAIN rows), Len(h) = n,
           \A i \in 1..n : h[i] = p[n + 1 - i],
           \A k \in DOMAIN rows : rows[k].length \in Nat
    PROVE  Chars(rows, h)[n] = Chars(rows, p)[n]
  <1> DEFINE P == Chars(rows, p)
             H == Chars(rows, h)
             same == {j \in 0..n : H[j] + P[n - j] = P[n]}
  <1>1. n \in Nat /\ Len(p) \in Nat /\ n <= Len(p)
    OBVIOUS
  <1>2. /\ P \in [0..Len(p) -> Nat] /\ P[0] = 0
        /\ \A i \in 1..Len(p) : P[i] = P[i - 1] + rows[p[i]].length
    BY CharsSum
  <1>3. /\ H \in [0..n -> Nat] /\ H[0] = 0
        /\ \A i \in 1..n : H[i] = H[i - 1] + rows[h[i]].length
    BY CharsSum
  <1> HIDE DEF P, H
  <1>4. 0 \in same
    <2>1. n - 0 = n /\ P[n] \in Nat /\ 0 \in 0..n
      BY <1>1, <1>2
    <2> QED
      BY <1>3, <2>1
  <1>5. ASSUME NEW j \in 0..(n - 1), j \in same
        PROVE  j + 1 \in same
    <2>1. /\ j + 1 \in 1..n /\ (j + 1) - 1 = j /\ n + 1 - (j + 1) = n - j
          /\ n - j \in 1..n /\ n - j \in 1..Len(p) /\ (n - j) - 1 = n - (j + 1)
          /\ j + 1 \in 0..n /\ j \in 0..n
          /\ n - j \in 0..Len(p) /\ n - (j + 1) \in 0..Len(p) /\ n \in 0..Len(p)
      BY <1>1
    <2>2. h[j + 1] = p[n - j] /\ h[j + 1] \in DOMAIN rows
      BY <2>1
    <2>3. H[j + 1] = H[j] + rows[p[n - j]].length
      BY <1>3, <2>1, <2>2
    <2>4. P[n - j] = P[n - (j + 1)] + rows[p[n - j]].length
      BY <1>2, <2>1
    <2>5. H[j] + P[n - j] = P[n]
      BY <1>5
    <2>6. /\ rows[p[n - j]].length \in Nat /\ H[j] \in Nat /\ H[j + 1] \in Nat
          /\ P[n] \in Nat /\ P[n - j] \in Nat /\ P[n - (j + 1)] \in Nat
      BY <1>2, <1>3, <2>1, <2>2
    <2>7. \A a, b, c, d, e, l \in Nat :
            a = b + l /\ c = d + l /\ b + c = e => a + d = e
      OBVIOUS
    <2>8. H[j + 1] + P[n - (j + 1)] = P[n]
      BY <2>3, <2>4, <2>5, <2>6, <2>7
    <2> QED
      BY <2>1, <2>8
  <1>6. 0..n \subseteq same
    <2> HIDE DEF same
    <2> QED
      BY <1>1, <1>4, <1>5, UpTo
  <1>7. n \in same
    BY <1>1, <1>6
  <1>8. H[n] + P[0] = P[n]
    BY <1>1, <1>7
  <1> QED
    BY <1>1, <1>2, <1>3, <1>8 DEF P, H

-----------------------------------------------------------------------------
(* The window.                                                             *)

\* apply_history_budget: how much of the query's rows is kept.
LEMMA BudgetKeeps ==
    ASSUME NEW rows \in Seq(Message), NEW p \in MostRecent(rows)
    PROVE  \E kept \in 0..Len(p) :
              /\ ApplyHistoryBudget(rows, p) \in Seq(DOMAIN rows)
              /\ Len(ApplyHistoryBudget(rows, p)) = kept
              /\ \A i \in 1..kept :
                    ApplyHistoryBudget(rows, p)[i] = p[kept + 1 - i]
              /\ \A i \in 2..kept : Chars(rows, p)[i] <= MaxChars
              /\ kept < Len(p) =>
                    kept >= 1 /\ Chars(rows, p)[kept + 1] > MaxChars
  <1> DEFINE chars == Chars(rows, p)
             fitting == {m \in 0..Len(p) : \A i \in 2..m : chars[i] <= MaxChars}
             kept == CHOOSE m \in fitting : \A k \in fitting : k <= m
             n == IF Len(rows) < MaxMessages THEN Len(rows) ELSE MaxMessages
             f == [i \in 1..kept |-> p[kept + 1 - i]]
  <1>1. n \in Nat /\ p \in [1..n -> DOMAIN rows]
    BY HistoryAssumption DEF MostRecent
  <1> HIDE DEF n
  <1>2. p \in Seq(DOMAIN rows) /\ Len(p) = n
    BY <1>1
  <1>3. kept \in fitting /\ \A k \in fitting : k <= kept
    <2>1. fitting \in SUBSET (0..n) /\ 0 \in fitting
      BY <1>1, <1>2
    <2> HIDE DEF fitting
    <2>2. \E m \in fitting : \A k \in fitting : k <= m
      BY <1>1, <2>1, TopOf
    <2> QED
      BY <2>2
  <1>4. ApplyHistoryBudget(rows, p) = Chronological(SubSeq(p, 1, kept))
    BY DEF ApplyHistoryBudget
  <1> HIDE DEF kept
  <1>5. kept \in 0..n
    BY <1>2, <1>3
  <1>6. /\ Len(SubSeq(p, 1, kept)) = kept
        /\ \A i \in 1..kept : SubSeq(p, 1, kept)[i] = p[i]
    BY <1>2, <1>5
  <1>7. ApplyHistoryBudget(rows, p) = f
    <2>1. Chronological(SubSeq(p, 1, kept)) =
            [i \in 1..kept |-> SubSeq(p, 1, kept)[kept + 1 - i]]
      BY <1>6 DEF Chronological
    <2>2. \A i \in 1..kept : kept + 1 - i \in 1..kept
      BY <1>5
    <2> QED
      BY <1>4, <1>6, <2>1, <2>2
  <1>8. f \in Seq(DOMAIN rows) /\ Len(f) = kept
    <2>1. \A i \in 1..kept : p[kept + 1 - i] \in DOMAIN rows
      BY <1>1, <1>5
    <2> QED
      BY <1>5, <2>1
  <1>9. \A i \in 2..kept : chars[i] <= MaxChars
    BY <1>3
  <1>10. ASSUME kept < n
         PROVE  kept >= 1 /\ chars[kept + 1] > MaxChars
    <2>0. chars \in [0..n -> Nat]
      <3>1. \A k \in DOMAIN rows : rows[k].length \in Nat
        <4>1. \A k \in DOMAIN rows : rows[k] \in Message
          OBVIOUS
        <4> QED
          BY <4>1, HistoryAssumption DEF Message
      <3> QED
        BY <1>2, <3>1, CharsSum
    <2> HIDE DEF chars
    <2>1. kept + 1 \notin fitting /\ kept + 1 \in 0..n /\ kept \in Nat
      <3>1. kept + 1 > kept /\ kept \in Nat
        BY <1>5
      <3> HIDE DEF fitting
      <3> QED
        BY <1>1, <1>3, <1>5, <1>10, <3>1
    <2>2. PICK i \in 2..(kept + 1) : ~(chars[i] <= MaxChars)
      BY <1>2, <2>1
    <2>3. i = kept + 1
      <3>1. i \notin 2..kept
        BY <1>9, <2>2 DEF chars
      <3> QED
        BY <2>1, <2>2, <3>1
    <2> QED
      BY <2>0, <2>1, <2>2, <2>3, HistoryAssumption
  <1> HIDE DEF f, fitting
  <1>11. \A i \in 1..kept : f[i] = p[kept + 1 - i]
    BY DEF f
  <1> QED
    BY <1>2, <1>5, <1>7, <1>8, <1>9, <1>10, <1>11

\* get_recent_messages: what is kept is a window.
LEMMA WindowRead ==
    ASSUME NEW rows \in Seq(Message), NEW p \in MostRecent(rows)
    PROVE  IsWindow(rows, ApplyHistoryBudget(rows, p))
  <1> DEFINE n == IF Len(rows) < MaxMessages THEN Len(rows) ELSE MaxMessages
             h == ApplyHistoryBudget(rows, p)
             inside == {h[i] : i \in DOMAIN h}
             outside == DOMAIN rows \ inside
  <1>1. /\ n \in Nat /\ Len(rows) \in Nat /\ DOMAIN rows = 1..Len(rows)
        /\ n <= MaxMessages /\ n <= Len(rows)
        /\ n < Len(rows) => n = MaxMessages
    BY HistoryAssumption
  <1>2. /\ p \in [1..n -> DOMAIN rows]
        /\ \A i, j \in 1..n :
                i < j => p[i] # p[j] /\ rows[p[i]].seq >= rows[p[j]].seq
        /\ \A k \in DOMAIN rows : \A i \in 1..n :
                (\A j \in 1..n : p[j] # k) => rows[k].seq <= rows[p[i]].seq
    BY DEF MostRecent
  <1>3. \A k \in DOMAIN rows : rows[k].seq \in Nat /\ rows[k].length \in Nat
    <2>1. \A k \in DOMAIN rows : rows[k] \in Message
      OBVIOUS
    <2> QED
      BY <2>1, HistoryAssumption DEF Message
  <1> HIDE DEF n
  <1>4. p \in Seq(DOMAIN rows) /\ Len(p) = n
    BY <1>1, <1>2
  <1>5. PICK kept \in 0..n :
              /\ h \in Seq(DOMAIN rows)
              /\ Len(h) = kept
              /\ \A i \in 1..kept : h[i] = p[kept + 1 - i]
              /\ \A i \in 2..kept : Chars(rows, p)[i] <= MaxChars
              /\ kept < n => kept >= 1 /\ Chars(rows, p)[kept + 1] > MaxChars
    BY <1>4, BudgetKeeps
  <1> HIDE DEF h
  <1>6. Chars(rows, h)[Len(h)] = Chars(rows, p)[kept]
    BY <1>3, <1>4, <1>5, CharsReversed
  <1>7. DOMAIN h = 1..kept /\ kept \in Nat /\ kept <= n
    BY <1>1, <1>5
  <1>8. inside = {p[i] : i \in 1..kept}
    <2>1. ASSUME NEW i \in 1..kept
          PROVE  kept + 1 - i \in 1..kept /\ i = kept + 1 - (kept + 1 - i)
      BY <1>7
    <2>2. ASSUME NEW i \in DOMAIN h
          PROVE  h[i] \in {p[j] : j \in 1..kept}
      BY <1>5, <1>7, <2>1
    <2>3. ASSUME NEW i \in 1..kept
          PROVE  p[i] \in inside
      <3>1. h[kept + 1 - i] = p[i]
        BY <1>5, <2>1
      <3> QED
        BY <1>7, <2>1, <3>1
    <2> QED
      BY <2>2, <2>3
  <1>9. \A i, j \in 1..kept : i # j => p[i] # p[j]
    <2>1. \A i, j \in 1..kept : i # j => i < j \/ j < i
      BY <1>7
    <2>2. 1..kept \subseteq 1..n
      BY <1>1, <1>7
    <2> QED
      BY <1>2, <2>1, <2>2
  <1>10. IsFiniteSet(inside) /\ Cardinality(inside) = kept
    <2> DEFINE f == [i \in 1..kept |-> p[i]]
    <2>1. f \in Bijection(1..kept, inside)
      <3>1. \A i \in 1..kept : f[i] = p[i] /\ p[i] \in inside
        BY <1>8
      <3>2. \A k \in inside : \E i \in 1..kept : f[i] = k
        BY <1>8
      <3>3. f \in [1..kept -> inside]
        BY <3>1
      <3> HIDE DEF inside, f
      <3> QED
        <4>1. \A i, j \in 1..kept : f[i] = f[j] => i = j
          BY <1>9, <3>1
        <4>2. f \in Injection(1..kept, inside)
          BY <3>3, <4>1 DEF Injection, IsInjective
        <4>3. f \in Surjection(1..kept, inside)
          BY <3>2, <3>3 DEF Surjection
        <4> QED
          BY <4>2, <4>3 DEF Bijection
    <2>2. ExistsBijection(1..kept, inside)
      BY <2>1 DEF ExistsBijection
    <2> HIDE DEF inside
    <2> QED
      BY <1>7, <2>2, FS_CountingElements, FS_NatBijection
  <1>11. \A i, j \in DOMAIN h : i < j => rows[h[i]].seq <= rows[h[j]].seq
    <2> SUFFICES ASSUME NEW i \in 1..kept, NEW j \in 1..kept, i < j
                 PROVE  rows[h[i]].seq <= rows[h[j]].seq
      BY <1>7
    <2>1. /\ kept + 1 - j < kept + 1 - i
          /\ kept + 1 - i \in 1..n /\ kept + 1 - j \in 1..n
      BY <1>1, <1>7
    <2>2. h[i] = p[kept + 1 - i] /\ h[j] = p[kept + 1 - j]
      BY <1>5
    <2>3. rows[p[kept + 1 - j]].seq >= rows[p[kept + 1 - i]].seq
      BY <1>2, <2>1
    <2>4. h[i] \in DOMAIN rows /\ h[j] \in DOMAIN rows
      BY <1>2, <2>1, <2>2
    <2> QED
      BY <1>3, <2>2, <2>3, <2>4
  <1>12. \A k \in outside, i \in inside : rows[k].seq <= rows[i].seq
    <2> SUFFICES ASSUME NEW k \in outside, NEW i \in 1..kept
                 PROVE  rows[k].seq <= rows[p[i]].seq
      BY <1>8
    <2>1. i \in 1..n /\ k \in DOMAIN rows
      BY <1>1, <1>7
    <2>2. CASE \A j \in 1..n : p[j] # k
      BY <1>2, <2>1, <2>2
    <2>3. ASSUME NEW j \in 1..n, p[j] = k
          PROVE  rows[k].seq <= rows[p[i]].seq
      <3>1. j \notin 1..kept
        BY <1>8, <2>3
      <3>2. i < j
        BY <1>1, <1>7, <3>1
      <3>3. rows[p[i]].seq >= rows[p[j]].seq
        BY <1>2, <2>1, <3>2
      <3>4. p[i] \in DOMAIN rows
        BY <1>2, <2>1
      <3> QED
        BY <1>3, <2>1, <2>3, <3>3, <3>4
    <2> QED
      BY <2>2, <2>3
  <1>13. Len(h) > 1 => Chars(rows, h)[Len(h)] <= MaxChars
    <2>1. kept > 1 => kept \in 2..kept
      BY <1>7
    <2> QED
      BY <1>5, <1>6, <2>1
  <1>14. ASSUME outside # {}
         PROVE  \/ Len(h) = MaxMessages
                \/ /\ h # <<>>
                   /\ \E k \in outside :
                        Chars(rows, h)[Len(h)] + rows[k].length > MaxChars
    <2>1. CASE kept = n
      <3>1. n # Len(rows)
        <4> SUFFICES ASSUME n = Len(rows)
                     PROVE  FALSE
          OBVIOUS
        <4>1. inside \subseteq DOMAIN rows
          <5>1. 1..kept \subseteq 1..n
            BY <1>1, <1>7
          <5> QED
            BY <1>2, <1>8, <5>1
        <4>2. IsFiniteSet(DOMAIN rows) /\ Cardinality(DOMAIN rows) = n
          <5>1. IsFiniteSet(1..n) /\ Cardinality(1..n) = n
            <6>1. /\ IsFiniteSet(1..n)
                  /\ Cardinality(1..n) = IF 1 > n THEN 0 ELSE n - 1 + 1
              <7>1. 1 \in Int /\ n \in Int
                BY <1>1
              <7> QED
                BY <7>1, FS_Interval
            <6> QED
              BY <1>1, <6>1
          <5>2. DOMAIN rows = 1..n
            BY <1>1
          <5> QED
            BY <1>1, <5>1, <5>2
        <4> HIDE DEF inside
        <4>3. DOMAIN rows = inside
          BY <1>10, <2>1, <4>1, <4>2, FS_Subset
        <4> QED
          BY <1>14, <4>3
      <3>2. n < Len(rows)
        <4>1. \A a, b \in Nat : a <= b /\ a # b => a < b
          OBVIOUS
        <4> QED
          BY <1>1, <3>1, <4>1
      <3>3. n = MaxMessages
        BY <1>1, <3>2
      <3> QED
        BY <1>5, <2>1, <3>3
    <2>2. CASE kept # n
      <3>1. kept < n /\ kept + 1 \in 1..n /\ kept >= 1
        BY <1>1, <1>5, <1>7, <2>2
      <3>2. p[kept + 1] \in outside
        <4>1. kept + 1 \notin 1..kept /\ 1..kept \subseteq 1..n
          BY <1>7, <1>1
        <4>2. \A i \in 1..kept : p[i] # p[kept + 1]
          <5>1. \A i \in 1..kept : i < kept + 1
            BY <1>7
          <5> QED
            BY <1>2, <3>1, <4>1, <5>1
        <4> QED
          BY <1>2, <1>8, <3>1, <4>2
      <3>3. Chars(rows, p)[kept + 1] = Chars(rows, p)[kept] + rows[p[kept + 1]].length
        <4>1. (kept + 1) - 1 = kept
          BY <1>7
        <4>2. \A i \in 1..Len(p) :
                Chars(rows, p)[i] = Chars(rows, p)[i - 1] + rows[p[i]].length
          BY <1>3, <1>4, CharsSum
        <4> QED
          BY <1>4, <3>1, <4>1, <4>2
      <3>4. h # <<>>
        BY <1>5, <3>1
      <3> HIDE DEF outside
      <3> QED
        BY <1>5, <1>6, <3>1, <3>2, <3>3, <3>4
    <2> QED
      BY <2>1, <2>2
  <1>15. Cardinality(inside) = Len(h) /\ Len(h) <= MaxMessages
    BY <1>1, <1>5, <1>7, <1>10, HistoryAssumption
  <1> DEFINE chars == Chars(rows, h)[Len(h)]
  <1>16. /\ Len(h) > 1 => chars <= MaxChars
         /\ outside # {} =>
            \/ Len(h) = MaxMessages
            \/ /\ h # <<>>
               /\ \E k \in outside : chars + rows[k].length > MaxChars
    BY <1>13, <1>14
  <1> QED
    BY <1>11, <1>12, <1>15, <1>16 DEF IsWindow, h

\* The step of a turn out of "read" that does not end it is ReadHistory.
LEMMA WindowStep ==
    ASSUME Types, Next, NEW q \in Turns,
           turn[q].pc = "read", turn'[q].pc \in Awaiting
    PROVE  IsWindow(messages[turn[q].session], turn'[q].history)
  <1>1. /\ DOMAIN turn = Turns
        /\ \A p \in Turns : DOMAIN turn[p] = Fields
        /\ messages[turn[q].session] \in Seq(Message)
    BY DEF Types
  <1>2. CASE ReadHistory(q)
    <2> DEFINE rows == messages[turn[q].session]
    <2>1. PICK p \in MostRecent(rows) :
            LET history == ApplyHistoryBudget(rows, p)
            IN \E pc \in {"chat", IF Rewriting /\ history # <<>>
                                  THEN "rewrite" ELSE Lookup(q)} :
                    turn' = [turn EXCEPT ![q].pc = pc, ![q].history = history]
      BY <1>2 DEF ReadHistory
    <2> DEFINE history == ApplyHistoryBudget(rows, p)
    <2>2. PICK pc : turn' = [turn EXCEPT ![q].pc = pc, ![q].history = history]
      BY <2>1
    <2>3. IsWindow(rows, history)
      <3>1. rows \in Seq(Message)
        BY <1>1
      <3> HIDE DEF rows
      <3> QED
        BY <3>1, WindowRead
    <2> HIDE DEF history
    <2>4. turn'[q].history = history
      BY <1>1, <2>2 DEF Fields
    <2> QED
      BY <2>3, <2>4
  <1>3. ASSUME NEW p \in Turns, p # q, Receive(p) \/ TurnStep(p)
        PROVE  turn'[q] = turn[q]
    <2>1. \E r : turn' = [turn EXCEPT ![p] = r]
      BY <1>1, <1>3 DEF Receive, TurnStep, ReadHistory, Rewrite, Probe,
                        RetrieveGrounded, RetrieveNothing, Generate, ChooseSeq,
                        InsertUser, InsertAssistant, Refuse, Fail, Over
    <2> QED
      BY <1>1, <1>3, <2>1
  <1>4. ASSUME Receive(q) \/ TurnStep(q)
        PROVE  ReadHistory(q)
    <2>1. turn[q].pc = "read"
      OBVIOUS
    <2>2. ~Fail(q)
      BY <1>1 DEF Fail, Over, Awaiting, Fields
    <2> QED
      BY <1>4, <2>1, <2>2
         DEF Receive, TurnStep, Rewrite, Probe, RetrieveGrounded,
             RetrieveNothing, Generate, ChooseSeq, InsertUser, InsertAssistant,
             Refuse
  <1>5. ASSUME NEW w \in Workers, Crash(w)
        PROVE  turn'[q].pc \in {turn[q].pc, "lost"}
    BY <1>1, <1>5 DEF Crash, Fields
  <1>6. "read" \notin Awaiting /\ "lost" \notin Awaiting
    BY DEF Awaiting
  <1> QED
    BY <1>2, <1>3, <1>4, <1>5, <1>6 DEF Next

\* get_recent_messages and apply_history_budget (FR-6.13): what a turn reads is
\* the longest window of its session that fits, on any number of workers.
THEOREM WindowCorrect == Spec => HistoryIsWindow
  <1>1. IInv /\ [Next]_vars =>
            [\A q \in Turns :
                turn[q].pc = "read" /\ turn'[q].pc \in Awaiting
                    => IsWindow(messages[turn[q].session], turn'[q].history)]_vars
    BY WindowStep DEF IInv, LoopInv
  <1> QED
    BY <1>1, Invariance, PTL DEF Spec, HistoryIsWindow

-----------------------------------------------------------------------------
(* How far a turn is, and what it waits for.                               *)

\* The places of a turn, in the order of the handler.
Place(pc) ==
    CASE pc = "idle" -> 0
      [] pc = "read" -> 1
      [] pc = "rewrite" -> 2
      [] pc = "probe" -> 3
      [] pc = "retrieve" -> 4
      [] pc = "chat" -> 5
      [] pc = "userSeq" -> 6
      [] pc = "userRow" -> 7
      [] pc = "assistantSeq" -> 8
      [] pc = "assistantRow" -> 9
      [] OTHER -> 10

\* Whoever has the loop of a worker is a turn of that worker.
Held == \A w \in Workers : loop[w] # Nobody => turn[loop[w]].worker = w

\* A turn goes on, or stays as it is; and it stays on its worker.
Onward ==
    \A q \in Turns :
        /\ turn'[q] # turn[q] => Place(turn'[q].pc) > Place(turn[q].pc)
        /\ turn'[q].worker = turn[q].worker

\* One turn goes on and the others stay.
LEMMA OneOnward ==
    ASSUME Types, NEW q \in Turns, NEW pc, NEW h, NEW n,
           \/ turn' = [turn EXCEPT ![q].pc = pc]
           \/ turn' = [turn EXCEPT ![q].pc = pc, ![q].history = h]
           \/ turn' = [turn EXCEPT ![q].pc = pc, ![q].seq = n]
           \/ turn' = [turn EXCEPT ![q].pc = pc, ![q].history = h, ![q].seq = n],
           Place(pc) > Place(turn[q].pc)
    PROVE  Onward
  <1>1. \A p \in Turns : p # q => turn'[p] = turn[p]
    BY DEF Types
  <1>2. turn'[q].pc = pc /\ turn'[q].worker = turn[q].worker
    BY DEF Types, Fields
  <1> QED
    BY <1>1, <1>2 DEF Onward

LEMMA StepOnward ==
    ASSUME Types, NEW q \in Turns, Receive(q) \/ TurnStep(q)
    PROVE  Onward
  <1>1. CASE Receive(q)
    <2>1. turn' = [turn EXCEPT ![q].pc = "read"] /\ turn[q].pc = "idle"
      BY <1>1 DEF Receive
    <2>2. Place("read") > Place("idle")
      BY DEF Place
    <2> QED
      BY <2>1, <2>2, OneOnward
  <1>2. CASE ReadHistory(q)
    <2>1. PICK p \in MostRecent(messages[turn[q].session]) :
            LET history == ApplyHistoryBudget(messages[turn[q].session], p)
            IN \E pc \in {"chat", IF Rewriting /\ history # <<>>
                                  THEN "rewrite" ELSE Lookup(q)} :
                    turn' = [turn EXCEPT ![q].pc = pc, ![q].history = history]
      BY <1>2 DEF ReadHistory
    <2> DEFINE history == ApplyHistoryBudget(messages[turn[q].session], p)
    <2>2. PICK pc \in {"chat", IF Rewriting /\ history # <<>>
                                  THEN "rewrite" ELSE Lookup(q)} :
                    turn' = [turn EXCEPT ![q].pc = pc, ![q].history = history]
      BY <2>1
    <2> HIDE DEF history
    <2>3. pc \in {"chat", "rewrite", "retrieve", "probe"}
      BY <2>2 DEF Lookup
    <2>4. Place(pc) > Place(turn[q].pc)
      BY <1>2, <2>3 DEF ReadHistory, Place
    <2> QED
      BY <2>2, <2>4, OneOnward
  <1>3. CASE Rewrite(q)
    <2>1. Place(Lookup(q)) > Place(turn[q].pc)
      BY <1>3 DEF Rewrite, Lookup, Place
    <2> QED
      BY <1>3, <2>1, OneOnward DEF Rewrite
  <1>4. CASE Probe(q) \/ RetrieveGrounded(q)
    <2>1. PICK pc \in {"retrieve", "chat"} :
            turn' = [turn EXCEPT ![q].pc = pc] /\ Place(pc) > Place(turn[q].pc)
      BY <1>4 DEF Probe, RetrieveGrounded, Place
    <2> QED
      BY <2>1, OneOnward
  <1>5. CASE RetrieveNothing(q) \/ Generate(q)
    <2>1. /\ turn' = [turn EXCEPT ![q].pc = "userSeq", ![q].history = <<>>]
          /\ Place("userSeq") > Place(turn[q].pc)
      BY <1>5 DEF RetrieveNothing, Generate, Place
    <2> QED
      BY <2>1, OneOnward
  <1>6. CASE ChooseSeq(q)
    <2> DEFINE pc == IF turn[q].pc = "userSeq" THEN "userRow" ELSE "assistantRow"
               n == NextSeq(messages[turn[q].session])
    <2>1. turn' = [turn EXCEPT ![q].pc = pc, ![q].seq = n]
      BY <1>6 DEF ChooseSeq, Types, Fields
    <2>2. Place(pc) > Place(turn[q].pc)
      BY <1>6 DEF ChooseSeq, Place
    <2> HIDE DEF pc, n
    <2> QED
      BY <2>1, <2>2, OneOnward
  <1>7. CASE InsertUser(q) \/ InsertAssistant(q)
    <2>1. PICK pc \in {"assistantSeq", "answered"} :
            /\ turn' = [turn EXCEPT ![q].pc = pc, ![q].seq = 0]
            /\ Place(pc) > Place(turn[q].pc)
      BY <1>7 DEF InsertUser, InsertAssistant, Place
    <2> QED
      BY <2>1, OneOnward
  <1>8. CASE Refuse(q) \/ Fail(q)
    <2>1. PICK pc \in {"refused", "failed"} :
            /\ turn' = [turn EXCEPT ![q].pc = pc, ![q].history = <<>>,
                                    ![q].seq = 0]
            /\ Place(pc) > Place(turn[q].pc)
      BY <1>8 DEF Refuse, Fail, Over, Storing, Place
    <2> QED
      BY <2>1, OneOnward
  <1> QED
    BY <1>1, <1>2, <1>3, <1>4, <1>5, <1>6, <1>7, <1>8 DEF TurnStep

LEMMA CrashOnward ==
    ASSUME Types, NEW w \in Workers, Crash(w)
    PROVE  Onward
  <1> DEFINE dying == {q \in Turns : turn[q].worker = w
                                     /\ turn[q].pc \in Awaiting \cup Storing}
  <1> SUFFICES ASSUME NEW q \in Turns
               PROVE  /\ turn'[q] # turn[q]
                            => Place(turn'[q].pc) > Place(turn[q].pc)
                      /\ turn'[q].worker = turn[q].worker
    BY DEF Onward
  <1>1. turn'[q] = IF q \in dying
                   THEN [turn[q] EXCEPT !.pc = "lost", !.history = <<>>, !.seq = 0]
                   ELSE turn[q]
    BY DEF Crash
  <1>2. CASE q \in dying
    <2>1. turn'[q].pc = "lost" /\ turn'[q].worker = turn[q].worker
      BY <1>1, <1>2 DEF Types, Fields
    <2>2. Place("lost") = 10 /\ Place(turn[q].pc) \in 0..9
      BY <1>2 DEF Place, Awaiting, Storing
    <2> QED
      BY <2>1, <2>2
  <1>3. CASE q \notin dying
    BY <1>1, <1>3
  <1> QED
    BY <1>2, <1>3

LEMMA NextOnward == Types /\ [Next]_vars => Onward
  <1>1. UNCHANGED vars => Onward
    BY DEF vars, Onward
  <1> QED
    BY <1>1, StepOnward, CrashOnward DEF Next

LEMMA HeldInit == Init => Held
  BY DEF Init, Held

LEMMA HeldNext == LoopInv /\ Held /\ [Next]_vars => Held'
  <1> SUFFICES ASSUME LoopInv, Held, [Next]_vars PROVE Held'
    OBVIOUS
  <1>1. /\ loop \in [Workers -> Turns \cup {Nobody}]
        /\ \A q \in Turns : /\ turn[q].worker \in Workers
                            /\ turn'[q].worker = turn[q].worker
                            /\ q # Nobody
    BY NextOnward, TurnsAssumption DEF LoopInv, Types, Onward
  <1>2. ASSUME NEW q \in Turns, Take(q) \/ Release(q) \/ loop' = loop
        PROVE  Held'
    <2> SUFFICES ASSUME NEW w \in Workers, loop'[w] # Nobody
                 PROVE  turn'[loop'[w]].worker = w
      BY DEF Held
    <2>1. CASE loop'[w] = loop[w]
      BY <1>1, <2>1 DEF Held
    <2>2. CASE loop'[w] # loop[w]
      <3>1. w = turn[q].worker /\ loop'[w] = q
        BY <1>1, <1>2, <2>2 DEF Take, Release
      <3> QED
        BY <1>1, <3>1
    <2> QED
      BY <2>1, <2>2
  <1>3. ASSUME NEW q \in Turns, Receive(q) \/ TurnStep(q)
        PROVE  Take(q) \/ Release(q) \/ loop' = loop
    BY <1>3 DEF Receive, TurnStep, ReadHistory, Rewrite, Probe,
                RetrieveGrounded, RetrieveNothing, Generate, ChooseSeq,
                InsertUser, InsertAssistant, Refuse, Fail
  <1>4. ASSUME NEW w \in Workers, Crash(w)
        PROVE  Held'
    <2>1. loop' = [loop EXCEPT ![w] = Nobody]
      BY <1>4 DEF Crash
    <2> QED
      BY <1>1, <2>1 DEF Held
  <1>5. UNCHANGED vars => Held'
    BY DEF vars, Held
  <1> QED
    BY <1>2, <1>3, <1>4, <1>5 DEF Next

\* chat(): a turn only ever goes on, so that it takes at most ten steps, and
\* once it is answered, refused, failed or lost nothing happens to it again.
THEOREM TurnsAdvance ==
    Spec => [][\A q \in Turns : turn'[q] # turn[q] =>
                    Place(turn'[q].pc) > Place(turn[q].pc)]_vars
  <1>1. IInv /\ [Next]_vars =>
            [\A q \in Turns : turn'[q] # turn[q] =>
                    Place(turn'[q].pc) > Place(turn[q].pc)]_vars
    BY NextOnward DEF IInv, LoopInv, Onward
  <1> QED
    BY <1>1, Invariance, PTL DEF Spec

\* A turn under way can go on, or waits for one of its own worker that can: one
\* between two awaits, which needs nothing but the database.  No failure and no
\* death leaves an event loop behind with nobody to give it back.
THEOREM LoopServed ==
    Spec => [](\A q \in Turns : turn[q].pc \in Awaiting \cup Storing =>
                  \E p \in Turns :
                      /\ turn[p].worker = turn[q].worker
                      /\ MayRun(p)
                      /\ p = q \/ turn[p].pc \in Storing)
  <1>1. IInv /\ Held =>
            \A q \in Turns : turn[q].pc \in Awaiting \cup Storing =>
                  \E p \in Turns :
                      /\ turn[p].worker = turn[q].worker
                      /\ MayRun(p)
                      /\ p = q \/ turn[p].pc \in Storing
    <2> SUFFICES ASSUME IInv, Held, NEW q \in Turns
                 PROVE  \E p \in Turns :
                            /\ turn[p].worker = turn[q].worker
                            /\ MayRun(p)
                            /\ p = q \/ turn[p].pc \in Storing
      OBVIOUS
    <2>1. /\ loop[turn[q].worker] \in Turns \cup {Nobody}
          /\ turn[q].worker \in Workers /\ Exclusive
      BY DEF IInv, LoopInv, Types
    <2>2. CASE loop[turn[q].worker] = Nobody
      BY <2>2 DEF MayRun
    <2>3. CASE loop[turn[q].worker] # Nobody
      <3> DEFINE p == loop[turn[q].worker]
      <3>1. p \in Turns /\ turn[p].worker = turn[q].worker
        BY <2>1, <2>3 DEF Held
      <3>2. turn[p].pc \in Storing /\ MayRun(p)
        BY <2>1, <3>1 DEF Exclusive, MayRun
      <3> QED
        BY <3>1, <3>2
    <2> QED
      BY <2>2, <2>3
  <1>2. Spec => []Held
    <2>1. IInv /\ Held /\ [Next]_vars => Held'
      BY HeldNext DEF IInv
    <2> QED
      BY <2>1, HeldInit, Invariance, PTL DEF Spec
  <1> QED
    BY <1>1, <1>2, Invariance, PTL

-----------------------------------------------------------------------------
(* What a conversation is worth to its readers.                            *)

Said == [turn : Turns, role : {"user", "assistant"}]

\* An answer stands right behind its own question ...
AnswersFollow ==
    \A s \in Sessions : \A i \in DOMAIN Transcript[s] :
        Transcript[s][i].role = "assistant" =>
            /\ i - 1 \in DOMAIN Transcript[s]
            /\ Transcript[s][i - 1] = [turn |-> Transcript[s][i].turn,
                                       role |-> "user"]

\* ... and no question is asked twice, nor in two sessions.
AskedOnce ==
    \A r, s \in Sessions :
        \A i \in DOMAIN Transcript[r] : \A k \in DOMAIN Transcript[s] :
            Transcript[r][i].turn = Transcript[s][k].turn
                /\ Transcript[r][i].role = "user"
                /\ Transcript[s][k].role = "user" => r = s /\ i = k

Readable == Transcript \in [Sessions -> Seq(Said)] /\ AnswersFollow /\ AskedOnce

\* What is said next stands at the end.
LEMMA SaidNext ==
    ASSUME Transcript \in [Sessions -> Seq(Said)], NEW s \in Sessions,
           NEW m \in Said,
           Transcript' = [Transcript EXCEPT ![s] = Append(@, m)]
    PROVE  /\ Transcript' \in [Sessions -> Seq(Said)]
           /\ \A r \in Sessions \ {s} : Transcript'[r] = Transcript[r]
           /\ Len(Transcript[s]) \in Nat
           /\ DOMAIN Transcript[s] = 1..Len(Transcript[s])
           /\ DOMAIN Transcript'[s] = 1..(Len(Transcript[s]) + 1)
           /\ \A i \in 1..Len(Transcript[s]) : Transcript'[s][i] = Transcript[s][i]
           /\ Transcript'[s][Len(Transcript[s]) + 1] = m
  <1> DEFINE old == Transcript[s]
             new == Transcript'[s]
  <1>1. old \in Seq(Said) /\ new = Append(old, m)
    OBVIOUS
  <1>2. /\ Transcript' \in [Sessions -> Seq(Said)]
        /\ \A r \in Sessions \ {s} : Transcript'[r] = Transcript[r]
    <2>1. Append(old, m) \in Seq(Said)
      <3> HIDE DEF old
      <3> QED
        BY <1>1
    <2> QED
      BY <2>1
  <1> HIDE DEF old, new
  <1>3. /\ Len(old) \in Nat /\ DOMAIN old = 1..Len(old)
        /\ DOMAIN new = 1..(Len(old) + 1)
        /\ \A i \in 1..Len(old) : new[i] = old[i]
        /\ new[Len(old) + 1] = m
    BY <1>1
  <1> QED
    BY <1>2, <1>3 DEF old, new

LEMMA ReadableAsk ==
    ASSUME Readable, NEW s \in Sessions, NEW q \in Turns,
           \A r \in Sessions : \A i \in DOMAIN Transcript[r] :
                Transcript[r][i].turn # q,
           Transcript' = [Transcript EXCEPT ![s] =
                            Append(@, [turn |-> q, role |-> "user"])]
    PROVE  Readable'
  <1> DEFINE m == [turn |-> q, role |-> "user"]
             L == Len(Transcript[s])
  <1>1. m \in Said /\ m.turn = q /\ m.role = "user"
    BY DEF Said
  <1>2. /\ Transcript' \in [Sessions -> Seq(Said)]
        /\ \A r \in Sessions \ {s} : Transcript'[r] = Transcript[r]
        /\ L \in Nat
        /\ DOMAIN Transcript[s] = 1..L
        /\ DOMAIN Transcript'[s] = 1..(L + 1)
        /\ \A i \in 1..L : Transcript'[s][i] = Transcript[s][i]
        /\ Transcript'[s][L + 1] = m
    BY <1>1, SaidNext DEF Readable
  <1> HIDE DEF m, L
  <1>3. ASSUME NEW r \in Sessions, NEW i \in DOMAIN Transcript'[r]
        PROVE  \/ r = s /\ i = L + 1 /\ Transcript'[r][i] = m
               \/ i \in DOMAIN Transcript[r] /\ Transcript'[r][i] = Transcript[r][i]
    BY <1>2
  <1>4. AnswersFollow'
    <2> SUFFICES ASSUME NEW r \in Sessions, NEW i \in DOMAIN Transcript'[r],
                        Transcript'[r][i].role = "assistant"
                 PROVE  /\ i - 1 \in DOMAIN Transcript'[r]
                        /\ Transcript'[r][i - 1] =
                             [turn |-> Transcript'[r][i].turn, role |-> "user"]
      BY DEF AnswersFollow
    <2>1. i \in DOMAIN Transcript[r] /\ Transcript'[r][i] = Transcript[r][i]
      BY <1>1, <1>3
    <2>2. /\ i - 1 \in DOMAIN Transcript[r]
          /\ Transcript[r][i - 1] = [turn |-> Transcript[r][i].turn,
                                     role |-> "user"]
      BY <2>1 DEF Readable, AnswersFollow
    <2>3. /\ i - 1 \in DOMAIN Transcript'[r]
          /\ Transcript'[r][i - 1] = Transcript[r][i - 1]
      BY <1>2, <2>2
    <2> QED
      BY <2>1, <2>2, <2>3
  <1>5. AskedOnce'
    <2> SUFFICES ASSUME NEW r \in Sessions, NEW t \in Sessions,
                        NEW i \in DOMAIN Transcript'[r],
                        NEW k \in DOMAIN Transcript'[t],
                        Transcript'[r][i].turn = Transcript'[t][k].turn,
                        Transcript'[r][i].role = "user",
                        Transcript'[t][k].role = "user"
                 PROVE  r = t /\ i = k
      BY DEF AskedOnce
    <2>1. CASE i \in DOMAIN Transcript[r] /\ Transcript'[r][i] = Transcript[r][i]
      <3>1. Transcript'[r][i].turn # q
        BY <2>1
      <3>2. /\ k \in DOMAIN Transcript[t]
            /\ Transcript'[t][k] = Transcript[t][k]
        BY <1>1, <1>3, <3>1
      <3> QED
        BY <2>1, <3>2 DEF Readable, AskedOnce
    <2>2. CASE r = s /\ i = L + 1 /\ Transcript'[r][i] = m
      <3>1. Transcript'[t][k].turn = q
        BY <1>1, <2>2
      <3>2. t = s /\ k = L + 1
        BY <1>3, <3>1
      <3> QED
        BY <2>2, <3>2
    <2> QED
      BY <1>3, <2>1, <2>2
  <1> QED
    BY <1>2, <1>4, <1>5 DEF Readable

LEMMA ReadableAnswer ==
    ASSUME Readable, NEW s \in Sessions, NEW q \in Turns,
           Transcript[s] # <<>>,
           Transcript[s][Len(Transcript[s])] = [turn |-> q, role |-> "user"],
           Transcript' = [Transcript EXCEPT ![s] =
                            Append(@, [turn |-> q, role |-> "assistant"])]
    PROVE  Readable'
  <1> DEFINE m == [turn |-> q, role |-> "assistant"]
             L == Len(Transcript[s])
  <1>1. m \in Said /\ m.turn = q /\ m.role = "assistant"
    BY DEF Said
  <1>2. /\ Transcript' \in [Sessions -> Seq(Said)]
        /\ \A r \in Sessions \ {s} : Transcript'[r] = Transcript[r]
        /\ L \in Nat
        /\ DOMAIN Transcript[s] = 1..L
        /\ DOMAIN Transcript'[s] = 1..(L + 1)
        /\ \A i \in 1..L : Transcript'[s][i] = Transcript[s][i]
        /\ Transcript'[s][L + 1] = m
    BY <1>1, SaidNext DEF Readable
  <1>3. L \in 1..L /\ Transcript'[s][L] = [turn |-> q, role |-> "user"]
    <2>1. L # 0
      <3>1. Transcript[s] \in Seq(Said)
        BY DEF Readable
      <3> QED
        BY <3>1
    <2> HIDE DEF L
    <2>2. L \in 1..L
      BY <1>2, <2>1
    <2> QED
      BY <1>2, <2>2 DEF L
  <1> HIDE DEF m, L
  <1>4. ASSUME NEW r \in Sessions, NEW i \in DOMAIN Transcript'[r]
        PROVE  \/ r = s /\ i = L + 1 /\ Transcript'[r][i] = m
               \/ i \in DOMAIN Transcript[r] /\ Transcript'[r][i] = Transcript[r][i]
    BY <1>2
  <1>5. AnswersFollow'
    <2> SUFFICES ASSUME NEW r \in Sessions, NEW i \in DOMAIN Transcript'[r],
                        Transcript'[r][i].role = "assistant"
                 PROVE  /\ i - 1 \in DOMAIN Transcript'[r]
                        /\ Transcript'[r][i - 1] =
                             [turn |-> Transcript'[r][i].turn, role |-> "user"]
      BY DEF AnswersFollow
    <2>1. CASE r = s /\ i = L + 1 /\ Transcript'[r][i] = m
      <3>1. i - 1 = L /\ L \in 1..(L + 1)
        BY <1>2, <1>3, <2>1
      <3> QED
        BY <1>1, <1>2, <1>3, <2>1, <3>1
    <2>2. CASE i \in DOMAIN Transcript[r] /\ Transcript'[r][i] = Transcript[r][i]
      <3>1. /\ i - 1 \in DOMAIN Transcript[r]
            /\ Transcript[r][i - 1] = [turn |-> Transcript[r][i].turn,
                                       role |-> "user"]
        BY <2>2 DEF Readable, AnswersFollow
      <3>2. /\ i - 1 \in DOMAIN Transcript'[r]
            /\ Transcript'[r][i - 1] = Transcript[r][i - 1]
        BY <1>2, <3>1
      <3> QED
        BY <2>2, <3>1, <3>2
    <2> QED
      BY <1>4, <2>1, <2>2
  <1>6. AskedOnce'
    BY <1>1, <1>4 DEF Readable, AskedOnce
  <1> QED
    BY <1>2, <1>5, <1>6 DEF Readable

\* Conversation, what every session that implements it is: an answer stands
\* right behind its own question, and no question is there twice.
THEOREM ConversationReadable == ConversationHolds => []Readable
  <1>1. Talk!Init => Readable
    <2> SUFFICES ASSUME Talk!Init PROVE Readable
      OBVIOUS
    <2>1. Transcript = [s \in Sessions |-> <<>>]
      BY DEF Talk!Init, Transcript
    <2>2. \A s \in Sessions : Transcript[s] = <<>> /\ DOMAIN Transcript[s] = {}
      BY <2>1
    <2>3. Transcript \in [Sessions -> Seq(Said)]
      BY <2>1
    <2> QED
      BY <2>2, <2>3 DEF Readable, AnswersFollow, AskedOnce
  <1>2. Readable /\ [Talk!Next]_Transcript => Readable'
    <2> SUFFICES ASSUME Readable, [Talk!Next]_Transcript PROVE Readable'
      OBVIOUS
    <2>1. ASSUME NEW s \in Sessions, NEW q \in Turns, Talk!Ask(s, q)
          PROVE  Readable'
      <3>1. /\ \A r \in Sessions : \A i \in DOMAIN Transcript[r] :
                    Transcript[r][i].turn # q
            /\ Transcript' = [Transcript EXCEPT ![s] =
                            Append(@, [turn |-> q, role |-> "user"])]
        BY <2>1 DEF Talk!Ask, Talk!Asked, Transcript
      <3> QED
        BY <3>1, ReadableAsk
    <2>2. ASSUME NEW s \in Sessions, NEW q \in Turns, Talk!Answer(s, q)
          PROVE  Readable'
      <3>1. /\ Transcript[s] # <<>>
            /\ Transcript[s][Len(Transcript[s])] = [turn |-> q, role |-> "user"]
            /\ Transcript' = [Transcript EXCEPT ![s] =
                            Append(@, [turn |-> q, role |-> "assistant"])]
        BY <2>2 DEF Talk!Answer, Transcript
      <3> QED
        BY <3>1, ReadableAnswer
    <2>3. UNCHANGED Transcript => Readable'
      BY DEF Readable, AnswersFollow, AskedOnce
    <2> QED
      BY <2>1, <2>2, <2>3 DEF Talk!Next
  <1> QED
    BY <1>1, <1>2, PTL DEF ConversationHolds, Talk!Spec, Transcript

\* append_message: what get_recent_messages finds in a session is readable,
\* unless two turns of it log at the same time.
THEOREM ReadableCorrect == Spec /\ []OneLogs => []Readable
  BY ConversationKept, ConversationReadable, PTL

=============================================================================
