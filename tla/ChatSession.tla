---------------------------- MODULE ChatSession -----------------------------
(***************************************************************************)
(* POST /chat: one turn of a conversation, from the history it reads to    *)
(* the two messages it logs, with the awaits on the model providers in     *)
(* between.                                                                *)
(*                                                                         *)
(* A worker is a process with one event loop: a turn that has the loop     *)
(* keeps it until its next await, also across several database             *)
(* transactions.  Workers share the database, so statements of turns of    *)
(* different workers interleave (READ COMMITTED).  Two requests may name   *)
(* the same session: the page keeps the session id where every tab of the  *)
(* browser finds it.                                                       *)
(***************************************************************************)
EXTENDS Integers, Sequences, FiniteSets

CONSTANTS
    Sessions,     \* session ids
    Turns,        \* chat requests that may arrive
    Workers,      \* worker processes of the service
    MaxLength,    \* longest message, in characters
    MaxMessages,  \* history_max_messages
    MaxChars,     \* history_max_chars
    Rewriting,    \* query_rewrite_enabled
    MaxFaults     \* bound on deaths of a worker

Nobody == "nobody"

ASSUME TurnsAssumption == Nobody \notin Turns
ASSUME HistoryAssumption == /\ MaxLength \in Nat \ {0}
                            /\ MaxMessages \in Nat
                            /\ MaxChars \in Nat
                            /\ Rewriting \in BOOLEAN
                            /\ MaxFaults \in Nat

VARIABLES
    sessions,  \* rows of chat_sessions
    messages,  \* chat_messages: [Sessions -> rows in the order they commit]
    turn,      \* [Turns -> the local state of the request]
    loop,      \* [Workers -> the turn that has the event loop, or Nobody]
    ready,     \* [Workers -> whether app.state.vector_table is set]
    faults,    \* number of deaths so far
    before     \* history: [Turns -> turns answered before this one arrived]

vars == <<sessions, messages, turn, loop, ready, faults, before>>

-----------------------------------------------------------------------------
(* The history of a session.                                               *)

Message == [turn : Turns, role : {"user", "assistant"}, seq : Nat,
            length : 0..MaxLength]

\* Faulty: max(seq), without the one.
NextSeqRepeating(rows) ==
    IF rows = <<>> THEN 0
    ELSE CHOOSE n \in {rows[i].seq : i \in DOMAIN rows} :
            \A i \in DOMAIN rows : rows[i].seq <= n

\* Faulty: count(*).
NextSeqCounting(rows) == Len(rows)

\* coalesce(max(seq), -1) + 1
NextSeq(rows) ==
    IF rows = <<>> THEN 0
    ELSE 1 + CHOOSE n \in {rows[i].seq : i \in DOMAIN rows} :
                \A i \in DOMAIN rows : rows[i].seq <= n

\* ORDER BY seq DESC LIMIT MaxMessages, as places in rows; rows with the same
\* number come in any order.
MostRecent(rows) ==
    LET n == IF Len(rows) < MaxMessages THEN Len(rows) ELSE MaxMessages
    IN {p \in [1..n -> DOMAIN rows] :
            /\ \A i, j \in 1..n :
                    i < j => p[i] # p[j] /\ rows[p[i]].seq >= rows[p[j]].seq
            /\ \A k \in DOMAIN rows : \A i \in 1..n :
                    (\A j \in 1..n : p[j] # k) => rows[k].seq <= rows[p[i]].seq}

\* Characters of the messages at the first i places of p.
Chars(rows, p) ==
    LET sum[i \in 0..Len(p)] ==
            IF i = 0 THEN 0 ELSE sum[i - 1] + rows[p[i]].length
    IN sum

\* The places in reverse.
Chronological(p) == [i \in 1..Len(p) |-> p[Len(p) + 1 - i]]

\* Faulty: the budget is looked at before the message is counted.
ApplyHistoryBudgetLate(rows, p) ==
    LET chars == Chars(rows, p)
        fitting == {n \in 0..Len(p) : \A i \in 2..n : chars[i - 1] <= MaxChars}
        kept == CHOOSE n \in fitting : \A m \in fitting : m <= n
    IN Chronological(SubSeq(p, 1, kept))

\* Faulty: the messages stay most recent first.
ApplyHistoryBudgetUnturned(rows, p) ==
    LET chars == Chars(rows, p)
        fitting == {n \in 0..Len(p) : \A i \in 2..n : chars[i] <= MaxChars}
        kept == CHOOSE n \in fitting : \A m \in fitting : m <= n
    IN SubSeq(p, 1, kept)

\* The loop stops at the first message that does not fit, but takes the most
\* recent one whatever its length.
ApplyHistoryBudget(rows, p) ==
    LET chars == Chars(rows, p)
        fitting == {n \in 0..Len(p) : \A i \in 2..n : chars[i] <= MaxChars}
        kept == CHOOSE n \in fitting : \A m \in fitting : m <= n
    IN Chronological(SubSeq(p, 1, kept))

-----------------------------------------------------------------------------
(* Turns.                                                                  *)

\* Suspended at an await of a model provider.
Awaiting == {"rewrite", "probe", "retrieve", "chat"}

\* With the event loop, at a statement of the database.
Storing == {"read", "userSeq", "userRow", "assistantSeq", "assistantRow"}

Ended == {"answered", "refused",  \* 200, 502
          "failed",               \* 500
          "lost"}                 \* the worker died

TurnState == [pc : {"idle"} \cup Awaiting \cup Storing \cup Ended,
              session : Sessions, worker : Workers, length : 0..MaxLength,
              history : Seq(Nat), seq : Nat]

\* A turn may go on when nobody else has the loop of its worker.
MayRun(q) == loop[turn[q].worker] \in {q, Nobody}

Take(q) == loop' = [loop EXCEPT ![turn[q].worker] = q]

Release(q) == loop' = [loop EXCEPT ![turn[q].worker] = Nobody]

\* What a request names is settled before it arrives; no message is empty.
Init ==
    /\ sessions = {}
    /\ messages = [s \in Sessions |-> <<>>]
    /\ turn \in [Turns -> [pc : {"idle"}, session : Sessions,
                           worker : Workers, length : 1..MaxLength,
                           history : {<<>>}, seq : {0}]]
    /\ loop = [w \in Workers |-> Nobody]
    /\ ready = [w \in Workers |-> FALSE]
    /\ faults = 0
    /\ before = [q \in Turns |-> {}]

\* A request reaches its worker; get_or_create_session.  The id is the one the
\* request names, known or not, or a fresh one.
Receive(q) ==
    /\ turn[q].pc = "idle"
    /\ loop[turn[q].worker] = Nobody
    /\ Take(q)
    /\ sessions' = sessions \cup {turn[q].session}
    /\ turn' = [turn EXCEPT ![q].pc = "read"]
    /\ before' = [before EXCEPT ![q] = {p \in Turns : turn[p].pc = "answered"}]
    /\ UNCHANGED <<messages, ready, faults>>

\* Where a data question goes on: get_vector_table awaits a probe of the
\* embedding provider once in the life of a worker.
Lookup(q) == IF ready[turn[q].worker] THEN "retrieve" ELSE "probe"

\* get_recent_messages, and on to the first await: small talk is answered at
\* once; a rewrite needs a history.
ReadHistory(q) ==
    LET rows == messages[turn[q].session]
    IN /\ turn[q].pc = "read"
       /\ Release(q)
       /\ \E p \in MostRecent(rows) :
            LET history == ApplyHistoryBudget(rows, p)
            IN \E pc \in {"chat", IF Rewriting /\ history # <<>>
                                  THEN "rewrite" ELSE Lookup(q)} :
                    turn' = [turn EXCEPT ![q].pc = pc, ![q].history = history]
       /\ UNCHANGED <<sessions, messages, ready, faults, before>>

\* Faulty: a rewrite that fails is tried again, from the history on, for as long
\* as it takes.
RewriteRetrying(q) ==
    /\ turn[q].pc = "rewrite"
    /\ MayRun(q)
    /\ \/ /\ turn' = [turn EXCEPT ![q].pc = Lookup(q)]
          /\ UNCHANGED loop
       \/ /\ turn' = [turn EXCEPT ![q].pc = "read", ![q].history = <<>>]
          /\ Take(q)
    /\ UNCHANGED <<sessions, messages, ready, faults, before>>

\* rewrite_query: with or without a rewritten question, the turn goes on.
Rewrite(q) ==
    /\ turn[q].pc = "rewrite"
    /\ MayRun(q)
    /\ turn' = [turn EXCEPT ![q].pc = Lookup(q)]
    /\ UNCHANGED <<sessions, messages, loop, ready, faults, before>>

\* The probe has answered: ensure_schema.
Probe(q) ==
    /\ turn[q].pc = "probe"
    /\ MayRun(q)
    /\ ready' = [ready EXCEPT ![turn[q].worker] = TRUE]
    /\ turn' = [turn EXCEPT ![q].pc = "retrieve"]
    /\ UNCHANGED <<sessions, messages, loop, faults, before>>

\* The query is embedded and chunks are found: on to the chat provider.
RetrieveGrounded(q) ==
    /\ turn[q].pc = "retrieve"
    /\ MayRun(q)
    /\ turn' = [turn EXCEPT ![q].pc = "chat"]
    /\ UNCHANGED <<sessions, messages, loop, ready, faults, before>>

\* Nothing is found: the fixed answer, and no await before it is logged.
RetrieveNothing(q) ==
    /\ turn[q].pc = "retrieve"
    /\ MayRun(q)
    /\ Take(q)
    /\ turn' = [turn EXCEPT ![q].pc = "userSeq", ![q].history = <<>>]
    /\ UNCHANGED <<sessions, messages, ready, faults, before>>

\* The chat provider has answered.
Generate(q) ==
    /\ turn[q].pc = "chat"
    /\ MayRun(q)
    /\ Take(q)
    /\ turn' = [turn EXCEPT ![q].pc = "userSeq", ![q].history = <<>>]
    /\ UNCHANGED <<sessions, messages, ready, faults, before>>

\* append_message, first statement.
ChooseSeq(q) ==
    /\ turn[q].pc \in {"userSeq", "assistantSeq"}
    /\ turn' = [turn EXCEPT
                  ![q].pc = IF @ = "userSeq" THEN "userRow" ELSE "assistantRow",
                  ![q].seq = NextSeq(messages[turn[q].session])]
    /\ UNCHANGED <<sessions, messages, loop, ready, faults, before>>

\* append_message, second statement and commit, of the message of this role.
AppendMessage(q, role, length) ==
    messages' = [messages EXCEPT ![turn[q].session] =
                    Append(@, [turn |-> q, role |-> role, seq |-> turn[q].seq,
                               length |-> length])]

\* Faulty: logging gives the event loop away between the two messages.
InsertUserAwaiting(q) ==
    /\ turn[q].pc = "userRow"
    /\ AppendMessage(q, "user", turn[q].length)
    /\ Release(q)
    /\ turn' = [turn EXCEPT ![q].pc = "assistantSeq", ![q].seq = 0]
    /\ UNCHANGED <<sessions, ready, faults, before>>

InsertUser(q) ==
    /\ turn[q].pc = "userRow"
    /\ AppendMessage(q, "user", turn[q].length)
    /\ turn' = [turn EXCEPT ![q].pc = "assistantSeq", ![q].seq = 0]
    /\ UNCHANGED <<sessions, loop, ready, faults, before>>

\* The answer may be any text, an empty one too; then the response is sent.
InsertAssistant(q) ==
    /\ turn[q].pc = "assistantRow"
    /\ \E length \in 0..MaxLength : AppendMessage(q, "assistant", length)
    /\ Release(q)
    /\ turn' = [turn EXCEPT ![q].pc = "answered", ![q].seq = 0]
    /\ UNCHANGED <<sessions, ready, faults, before>>

\* What an exception leaves of a turn.
Over(q, pc) ==
    /\ turn' = [turn EXCEPT ![q].pc = pc, ![q].history = <<>>, ![q].seq = 0]
    /\ UNCHANGED <<sessions, messages, ready, faults, before>>

\* Faulty: the try block goes on to the end of the handler.
RefuseAnywhere(q) ==
    /\ turn[q].pc \in {"probe", "retrieve", "chat"} \cup Storing
    /\ MayRun(q)
    /\ Release(q)
    /\ Over(q, "refused")

\* An embedding or chat provider fails: 502, before anything is logged.
Refuse(q) ==
    /\ turn[q].pc \in {"probe", "retrieve", "chat"}
    /\ MayRun(q)
    /\ UNCHANGED loop
    /\ Over(q, "refused")

\* The database fails: 500, and what is logged stays logged.
Fail(q) ==
    /\ turn[q].pc \in Storing \cup {"probe", "retrieve"}
    /\ MayRun(q)
    /\ Release(q)
    /\ Over(q, "failed")

\* A worker dies with its turns; another takes its place.
Crash(w) ==
    LET dying == {q \in Turns : turn[q].worker = w
                                /\ turn[q].pc \in Awaiting \cup Storing}
    IN /\ faults < MaxFaults
       /\ faults' = faults + 1
       /\ loop' = [loop EXCEPT ![w] = Nobody]
       /\ ready' = [ready EXCEPT ![w] = FALSE]
       /\ turn' = [q \in Turns |->
                     IF q \in dying
                     THEN [turn[q] EXCEPT !.pc = "lost", !.history = <<>>,
                                          !.seq = 0]
                     ELSE turn[q]]
       /\ UNCHANGED <<sessions, messages, before>>

-----------------------------------------------------------------------------
TurnStep(q) ==
    \/ ReadHistory(q)
    \/ Rewrite(q)
    \/ Probe(q)
    \/ RetrieveGrounded(q)
    \/ RetrieveNothing(q)
    \/ Generate(q)
    \/ ChooseSeq(q)
    \/ InsertUser(q)
    \/ InsertAssistant(q)
    \/ Refuse(q)
    \/ Fail(q)

Next ==
    \/ \E q \in Turns : Receive(q) \/ TurnStep(q)
    \/ \E w \in Workers : Crash(w)

Spec == Init /\ [][Next]_vars

\* The event loop serves every turn whose await is over, and the provider
\* clients give up on a call after a time.
FairSpec == Spec /\ \A q \in Turns : WF_vars(TurnStep(q))

-----------------------------------------------------------------------------
(* Properties.                                                             *)

\* Types; and the event loop is held by turns between two awaits only.
TypeOK ==
    /\ sessions \in SUBSET Sessions
    /\ \A s \in Sessions : \A i \in DOMAIN messages[s] :
            messages[s][i] \in Message
    /\ DOMAIN turn = Turns
    /\ \A q \in Turns :
            /\ turn[q].pc \in {"idle"} \cup Awaiting \cup Storing \cup Ended
            /\ turn[q].session \in Sessions
            /\ turn[q].worker \in Workers
            /\ turn[q].seq \in Nat
            /\ (loop[turn[q].worker] = q) <=> (turn[q].pc \in Storing)
    /\ loop \in [Workers -> Turns \cup {Nobody}]
    /\ ready \in [Workers -> BOOLEAN]
    /\ faults \in 0..MaxFaults
    /\ before \in [Turns -> SUBSET Turns]

\* The numbers of a session's messages have no gap, however many workers
\* number them at the same time: reading the maximum and inserting are two
\* statements, so a number may be given twice, but none is jumped over.
SeqGapless ==
    \A s \in Sessions : \A i \in DOMAIN messages[s] :
        messages[s][i].seq = 0
            \/ \E k \in DOMAIN messages[s] :
                    messages[s][k].seq = messages[s][i].seq - 1

\* In a turn the user speaks first: a history never shows an answer ahead of
\* its question, even when the numbers of several workers collide.
QuestionFirst ==
    \A s \in Sessions : \A i \in DOMAIN messages[s] :
        messages[s][i].role = "assistant" =>
            \E k \in DOMAIN messages[s] :
                /\ messages[s][k].turn = messages[s][i].turn
                /\ messages[s][k].role = "user"
                /\ messages[s][k].seq < messages[s][i].seq

\* A client that waits for an answer before it asks again finds its turns in
\* that order in the session, on whatever workers they ran.
TurnsInOrder ==
    \A s \in Sessions : \A i, k \in DOMAIN messages[s] :
        messages[s][i].turn \in before[messages[s][k].turn]
            => messages[s][i].seq < messages[s][k].seq

\* An answered turn is in the session with both of its messages, and a 502
\* leaves nothing there: the message can be sent again as if for the first
\* time.
LoggedWhole ==
    \A q \in Turns :
        LET mine == {i \in DOMAIN messages[turn[q].session] :
                        messages[turn[q].session][i].turn = q}
        IN /\ turn[q].pc = "answered" => Cardinality(mine) = 2
           /\ turn[q].pc = "refused" => mine = {}

\* A window of the session's messages: the newest ones, in the order of their
\* numbers, within both limits, and as many as the limits allow.
IsWindow(rows, h) ==
    LET inside == {h[i] : i \in DOMAIN h}
        outside == DOMAIN rows \ inside
        chars == Chars(rows, h)[Len(h)]
    IN /\ Cardinality(inside) = Len(h)
       /\ Len(h) <= MaxMessages
       /\ Len(h) > 1 => chars <= MaxChars
       /\ \A i, j \in DOMAIN h : i < j => rows[h[i]].seq <= rows[h[j]].seq
       /\ \A k \in outside, i \in inside : rows[k].seq <= rows[i].seq
       /\ outside # {} =>
            \/ Len(h) = MaxMessages
            \/ /\ h # <<>>
               /\ \E k \in outside : chars + rows[k].length > MaxChars

\* The history a turn reads is the longest window of the session that fits,
\* and never empty for want of room (FR-6.13).
HistoryIsWindow ==
    [][\A q \in Turns :
        turn[q].pc = "read" /\ turn'[q].pc \in Awaiting
            => IsWindow(messages[turn[q].session], turn'[q].history)]_vars

\* session_store.py: the history is returned "in chronological order".
HistoryIsChronological ==
    \A q \in Turns :
        LET h == turn[q].history
        IN \A i, j \in DOMAIN h : i < j => h[i] < h[j]

\* The messages of a session by number: one for each number, or none when no
\* message has it.
Numbered(rows) ==
    [i \in 1..Len(rows) |->
        LET here == {k \in DOMAIN rows : rows[k].seq = i - 1}
        IN IF here = {} THEN [turn |-> Nobody, role |-> "none"]
           ELSE LET m == rows[CHOOSE k \in here : TRUE]
                IN [turn |-> m.turn, role |-> m.role]]

\* With one worker a session is a conversation: turns one after the other.
Talk == INSTANCE Conversation WITH
            transcript <- [s \in Sessions |-> Numbered(messages[s])]

ConversationHolds == Talk!Spec

\* A request that arrives is answered, or refused, or fails, unless its worker
\* dies; whatever the others do, or die of.
EveryTurnEnds ==
    \A q \in Turns : turn[q].pc = "read" ~> turn[q].pc \in Ended

=============================================================================
