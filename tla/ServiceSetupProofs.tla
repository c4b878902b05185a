------------------------- MODULE ServiceSetupProofs -------------------------
(***************************************************************************)
(* Theorems about ServiceSetup, for any number of workers and requests and *)
(* of tables in a run.                                                     *)
(***************************************************************************)
EXTENDS ServiceSetup, SequenceTheorems, TLAPS

Entry == Ops \X (Tables \cup {"chat", "query", "probe", "job"})

\* Entries that make table t, or make sure of it, and those that embed.
Makes(t) == {<<"check", t>>, <<"create", t>>, <<"table", t>>}

Embeds == {<<"embed", "chunks">>, <<"embed", "query">>, <<"embed", "probe">>}

Ahead(list, i, S) == \E k \in 1..(i - 1) : list[k] \in S

\* The tables an entry fails without, if that is a failure of its request.
Needs(e, kind) ==
    IF e[1] = "accept" THEN {"jobs"}
    ELSE IF e[1] \in {"use", "search", "upsert"} /\ kind \notin {"reset", "poll"}
    THEN {e[2]}
    ELSE {}

\* What entry i of a list needs is there, or comes before it in the list: its
\* table, a dimension for a chunks table, a vector and a Table to search with.
EntryProvided(list, i, kind, T, dim, vec, tab) ==
    /\ list[i][1] = "check" => /\ i < Len(list)
                               /\ list[i + 1] = <<"create", list[i][2]>>
    /\ \A t \in Needs(list[i], kind) : t \in T \/ Ahead(list, i, Makes(t))
    /\ list[i] \in {<<"check", "chunks">>, <<"create", "chunks">>}
        => dim \/ Ahead(list, i, Embeds)
    /\ list[i][1] \in {"search", "upsert"} =>
            /\ list[i][2] = "chunks"
            /\ vec \/ Ahead(list, i, Embeds)
            /\ tab \/ Ahead(list, i, Makes("chunks"))
    /\ list[i] \in {<<"table", "chunks">>, <<"check", "sessions">>}
        => kind \notin Tools
    /\ list[i][1] = "table" => list[i][2] = "chunks"
    /\ list[i][1] = "create" => list[i][2] \in Tables

Provided(list, kind, T, dim, vec, tab) ==
    \A i \in 1..Len(list) : EntryProvided(list, i, kind, T, dim, vec, tab)

-----------------------------------------------------------------------------
(* Lists.                                                                  *)

LEMMA ProvidedMore ==
    ASSUME NEW list, NEW kind, NEW T, NEW dim, NEW vec, NEW tab,
           Provided(list, kind, T, dim, vec, tab),
           NEW T2, T \subseteq T2, NEW dim2, dim => dim2, NEW vec2, vec => vec2,
           NEW tab2, tab => tab2
    PROVE  Provided(list, kind, T2, dim2, vec2, tab2)
  BY DEF Provided, EntryProvided

\* When the first entry has done what it is for, the rest has what it needs.
LEMMA ProvidedTail ==
    ASSUME NEW list \in Seq(Entry), list # <<>>, NEW kind,
           NEW T, NEW dim \in BOOLEAN, NEW vec \in BOOLEAN, NEW tab \in BOOLEAN,
           Provided(list, kind, T, dim, vec, tab),
           NEW T2, T \subseteq T2, NEW dim2 \in BOOLEAN, dim => dim2,
           NEW vec2 \in BOOLEAN, vec => vec2, NEW tab2 \in BOOLEAN, tab => tab2,
           \A t : list[1] \in {<<"create", t>>, <<"table", t>>} => t \in T2,
           list[1] \in Embeds => dim2 /\ vec2,
           list[1] \in {<<"create", "chunks">>, <<"table", "chunks">>} => tab2
    PROVE  Provided(Tail(list), kind, T2, dim2, vec2, tab2)
  <1> DEFINE rest == Tail(list)
  <1>1. /\ rest \in Seq(Entry) /\ Len(list) \in Nat /\ Len(rest) \in Nat
        /\ Len(list) = Len(rest) + 1
        /\ \A i \in 1..Len(rest) : rest[i] = list[i + 1]
    OBVIOUS
  <1> HIDE DEF rest
  <1> SUFFICES ASSUME NEW i \in 1..Len(rest)
               PROVE  EntryProvided(rest, i, kind, T2, dim2, vec2, tab2)
    BY DEF Provided, rest
  <1>2. /\ i \in Nat /\ i + 1 \in 1..Len(list) /\ 1 \in 1..Len(list)
        /\ rest[i] = list[i + 1]
    BY <1>1
  <1>3. EntryProvided(list, i + 1, kind, T, dim, vec, tab)
        /\ EntryProvided(list, 1, kind, T, dim, vec, tab)
    BY <1>2 DEF Provided
  <1>4. ASSUME NEW S, Ahead(list, i + 1, S)
        PROVE  list[1] \in S \/ Ahead(rest, i, S)
    <2>1. PICK k \in 1..i : list[k] \in S
      BY <1>2, <1>4 DEF Ahead
    <2>2. CASE k # 1
      <3>1. k - 1 \in 1..(i - 1) /\ k - 1 \in 1..Len(rest) /\ (k - 1) + 1 = k
        BY <1>1, <1>2, <2>2
      <3>2. rest[k - 1] = list[k]
        BY <1>1, <3>1
      <3> QED
        BY <2>1, <3>1, <3>2 DEF Ahead
    <2> QED
      BY <2>1, <2>2
  <1>5. ASSUME NEW t, Ahead(list, i + 1, Makes(t)), rest[i][1] # "create",
               list[1] \notin {<<"create", t>>, <<"table", t>>}
        PROVE  Ahead(rest, i, Makes(t))
    <2>1. CASE list[1] = <<"check", t>>
      <3>1. list[2] = <<"create", t>>
        BY <1>3, <2>1 DEF EntryProvided
      <3>2. rest[1] = <<"create", t>> /\ 1 \in 1..Len(rest)
        BY <1>1, <3>1
      <3>3. i # 1
        BY <1>5, <3>2
      <3>4. 1 \in 1..(i - 1)
        BY <1>2, <3>3
      <3> QED
        BY <3>2, <3>4 DEF Ahead, Makes
    <2>2. CASE list[1] # <<"check", t>>
      BY <1>4, <1>5, <2>2 DEF Makes
    <2> QED
      BY <2>1, <2>2
  <1>6. rest[i][1] = "check" => /\ i < Len(rest)
                                /\ rest[i + 1] = <<"create", rest[i][2]>>
    BY <1>1, <1>2, <1>3 DEF EntryProvided
  <1>7. \A t \in Needs(rest[i], kind) : t \in T2 \/ Ahead(rest, i, Makes(t))
    <2> SUFFICES ASSUME NEW t \in Needs(rest[i], kind), t \notin T2
                 PROVE  Ahead(rest, i, Makes(t))
      OBVIOUS
    <2>1. t \in T \/ Ahead(list, i + 1, Makes(t))
      BY <1>2, <1>3 DEF EntryProvided
    <2>2. rest[i][1] # "create"
      BY DEF Needs
    <2>3. list[1] \notin {<<"create", t>>, <<"table", t>>}
      OBVIOUS
    <2> QED
      BY <1>5, <2>1, <2>2, <2>3
  <1>8. rest[i] \in {<<"check", "chunks">>, <<"create", "chunks">>}
            => dim2 \/ Ahead(rest, i, Embeds)
    BY <1>2, <1>3, <1>4 DEF EntryProvided
  <1>9. rest[i][1] \in {"search", "upsert"} =>
            /\ rest[i][2] = "chunks"
            /\ vec2 \/ Ahead(rest, i, Embeds)
            /\ tab2 \/ Ahead(rest, i, Makes("chunks"))
    BY <1>2, <1>3, <1>4, <1>5 DEF EntryProvided
  <1>10. /\ rest[i] \in {<<"table", "chunks">>, <<"check", "sessions">>}
            => kind \notin Tools
         /\ rest[i][1] = "table" => rest[i][2] = "chunks"
         /\ rest[i][1] = "create" => rest[i][2] \in Tables
    BY <1>2, <1>3 DEF EntryProvided
  <1> QED
    BY <1>6, <1>7, <1>8, <1>9, <1>10 DEF EntryProvided

\* One list after another: the second may count on what the first creates.
LEMMA ProvidedAfter ==
    ASSUME NEW s \in Seq(Entry), NEW u \in Seq(Entry), NEW kind, NEW T, NEW T2,
           NEW dim, NEW vec, NEW tab, NEW dim2, NEW vec2, NEW tab2,
           Provided(s, kind, T, dim, vec, tab),
           Provided(u, kind, T2, dim2, vec2, tab2),
           \A t \in T2 : t \in T \/ \E k \in 1..Len(s) : s[k] \in Makes(t),
           dim2 => dim \/ \E k \in 1..Len(s) : s[k] \in Embeds,
           vec2 => vec \/ \E k \in 1..Len(s) : s[k] \in Embeds,
           tab2 => tab \/ \E k \in 1..Len(s) : s[k] \in Makes("chunks")
    PROVE  /\ s \o u \in Seq(Entry)
           /\ Provided(s \o u, kind, T, dim, vec, tab)
  <1> DEFINE l == s \o u
             n == Len(s)
  <1>1. /\ l \in Seq(Entry) /\ Len(l) = n + Len(u) /\ n \in Nat /\ Len(u) \in Nat
        /\ \A i \in 1..n : l[i] = s[i]
        /\ \A i \in 1..Len(u) : l[i + n] = u[i]
    OBVIOUS
  <1> HIDE DEF l
  <1> SUFFICES ASSUME NEW i \in 1..Len(l)
               PROVE  EntryProvided(l, i, kind, T, dim, vec, tab)
    BY <1>1 DEF Provided, l
  <1>2. CASE i \in 1..n
    <2>1. EntryProvided(s, i, kind, T, dim, vec, tab) /\ l[i] = s[i]
      BY <1>1, <1>2 DEF Provided
    <2>2. \A S : Ahead(s, i, S) => Ahead(l, i, S)
      BY <1>1, <1>2 DEF Ahead
    <2>3. l[i][1] = "check" => i < Len(l) /\ l[i + 1] = <<"create", l[i][2]>>
      BY <1>1, <1>2, <2>1 DEF EntryProvided
    <2> QED
      BY <2>1, <2>2, <2>3 DEF EntryProvided
  <1>3. CASE i \notin 1..n
    <2> DEFINE j == i - n
    <2>1. j \in 1..Len(u) /\ i = j + n
      BY <1>1, <1>3
    <2>2. EntryProvided(u, j, kind, T2, dim2, vec2, tab2) /\ l[i] = u[j]
      BY <1>1, <2>1 DEF Provided
    <2> HIDE DEF j
    <2>3. ASSUME NEW S, Ahead(u, j, S)
          PROVE  Ahead(l, i, S)
      <3>1. PICK k \in 1..(j - 1) : u[k] \in S
        BY <2>3 DEF Ahead
      <3>2. k + n \in 1..(i - 1) /\ l[k + n] = u[k]
        BY <1>1, <2>1, <3>1
      <3> QED
        BY <3>1, <3>2 DEF Ahead
    <2>4. ASSUME NEW S, \E k \in 1..n : s[k] \in S
          PROVE  Ahead(l, i, S)
      <3>1. PICK k \in 1..n : s[k] \in S
        BY <2>4
      <3>2. k \in 1..(i - 1) /\ l[k] = s[k]
        BY <1>1, <2>1
      <3> QED
        BY <3>1, <3>2 DEF Ahead
    <2>5. l[i][1] = "check" => i < Len(l) /\ l[i + 1] = <<"create", l[i][2]>>
      <3> SUFFICES ASSUME l[i][1] = "check"
                   PROVE  i < Len(l) /\ l[i + 1] = <<"create", l[i][2]>>
        OBVIOUS
      <3>1. j < Len(u) /\ u[j + 1] = <<"create", l[i][2]>>
        BY <2>2 DEF EntryProvided
      <3>2. j + 1 \in 1..Len(u) /\ (j + 1) + n = i + 1 /\ i < Len(l)
        BY <1>1, <2>1, <3>1
      <3>3. l[(j + 1) + n] = u[j + 1]
        BY <1>1, <3>2
      <3> QED
        BY <3>1, <3>2, <3>3
    <2> QED
      BY <2>2, <2>3, <2>4, <2>5 DEF EntryProvided
  <1> QED
    BY <1>1, <1>2, <1>3

LEMMA ProvidedConcat ==
    ASSUME NEW s \in Seq(Entry), NEW u \in Seq(Entry), NEW kind, NEW T, NEW T2,
           Provided(s, kind, T, FALSE, FALSE, FALSE),
           Provided(u, kind, T2, FALSE, FALSE, FALSE),
           \A t \in T2 : t \in T \/ \E k \in 1..Len(s) : s[k] \in Makes(t)
    PROVE  /\ s \o u \in Seq(Entry)
           /\ Provided(s \o u, kind, T, FALSE, FALSE, FALSE)
  BY ProvidedAfter

-----------------------------------------------------------------------------
(* What each kind of request does asks for nothing it has not made sure of. *)

LEMMA EnsureProvided ==
    ASSUME NEW t \in {"sessions", "jobs", "watermarks"}, NEW kind, NEW T,
           t = "sessions" => kind \notin Tools
    PROVE  /\ Ensure(t) \in Seq(Entry) /\ Len(Ensure(t)) = 2
           /\ Ensure(t)[2] \in Makes(t)
           /\ Provided(Ensure(t), kind, T, FALSE, FALSE, FALSE)
  <1> DEFINE l == Ensure(t)
  <1>1. l = << <<"check", t>>, <<"create", t>> >>
    BY DEF Ensure
  <1>2. /\ l \in Seq(Entry) /\ Len(l) = 2
        /\ l[1] = <<"check", t>> /\ l[2] = <<"create", t>>
    BY <1>1 DEF Entry, Ops, Tables
  <1> HIDE DEF l
  <1>3. ASSUME NEW i \in 1..Len(l)
        PROVE  EntryProvided(l, i, kind, T, FALSE, FALSE, FALSE)
    <2>1. i = 1 \/ i = 2
      BY <1>2
    <2> QED
      BY <1>2, <2>1 DEF EntryProvided, Needs, Tables
  <1>4. l[2] \in Makes(t)
    BY <1>2 DEF Makes
  <1>5. Provided(l, kind, T, FALSE, FALSE, FALSE)
    BY <1>3 DEF Provided
  <1> QED
    BY <1>2, <1>4, <1>5 DEF l

LEMMA EnsureThen ==
    ASSUME NEW t \in {"sessions", "jobs", "watermarks"}, NEW kind, NEW T,
           t = "sessions" => kind \notin Tools,
           NEW u \in Seq(Entry), Provided(u, kind, T \cup {t}, FALSE, FALSE, FALSE)
    PROVE  /\ Ensure(t) \o u \in Seq(Entry)
           /\ Provided(Ensure(t) \o u, kind, T, FALSE, FALSE, FALSE)
  <1>1. /\ Ensure(t) \in Seq(Entry) /\ Len(Ensure(t)) = 2
        /\ Ensure(t)[2] \in Makes(t)
        /\ Provided(Ensure(t), kind, T, FALSE, FALSE, FALSE)
    BY EnsureProvided
  <1>2. \A x \in T \cup {t} :
            x \in T \/ \E k \in 1..Len(Ensure(t)) : Ensure(t)[k] \in Makes(x)
    <2>1. 2 \in 1..Len(Ensure(t))
      BY <1>1
    <2> QED
      BY <1>1, <2>1
  <1> DEFINE s == Ensure(t)
             T2 == T \cup {t}
  <1> HIDE DEF s, T2
  <1>3. /\ s \in Seq(Entry) /\ Provided(s, kind, T, FALSE, FALSE, FALSE)
        /\ Provided(u, kind, T2, FALSE, FALSE, FALSE)
        /\ \A x \in T2 : x \in T \/ \E k \in 1..Len(s) : s[k] \in Makes(x)
    BY <1>1, <1>2 DEF s, T2
  <1>4. s \o u \in Seq(Entry) /\ Provided(s \o u, kind, T, FALSE, FALSE, FALSE)
    BY <1>3, ProvidedConcat
  <1> QED
    BY <1>4 DEF s

\* Statements on tables that are there, awaits of the chat model, and the
\* acceptance of a job.
LEMMA PlainProvided ==
    ASSUME NEW l \in Seq(Entry), NEW kind, NEW T,
           \A i \in 1..Len(l) :
              /\ l[i][1] \in {"use", "call", "rewrite", "reflect", "accept"}
              /\ l[i][1] = "use" => l[i][2] \in T \/ kind \in {"reset", "poll"}
              /\ l[i][1] = "accept" => "jobs" \in T
    PROVE  Provided(l, kind, T, FALSE, FALSE, FALSE)
  <1> SUFFICES ASSUME NEW i \in 1..Len(l)
               PROVE  EntryProvided(l, i, kind, T, FALSE, FALSE, FALSE)
    BY DEF Provided
  <1>1. Needs(l[i], kind) \subseteq T
    BY DEF Needs
  <1>2. l[i][1] \notin {"check", "create", "search", "upsert", "table"}
    OBVIOUS
  <1> QED
    BY <1>1, <1>2 DEF EntryProvided

LEMMA GreetingProvided ==
    /\ Greeting \in Seq(Entry)
    /\ Provided(Greeting, "greeting", {}, FALSE, FALSE, FALSE)
  <1> DEFINE l == << <<"use", "sessions">>, <<"call", "chat">>, <<"use", "sessions">> >>
  <1>1. /\ l \in Seq(Entry) /\ Len(l) = 3
        /\ l[1] = <<"use", "sessions">> /\ l[2] = <<"call", "chat">>
        /\ l[3] = <<"use", "sessions">>
    BY DEF Entry, Ops, Tables
  <1> HIDE DEF l
  <1>2. \A i \in 1..Len(l) : i = 1 \/ i = 2 \/ i = 3
    BY <1>1
  <1>3. Provided(l, "greeting", {"sessions"}, FALSE, FALSE, FALSE)
    <2>1. \A i \in 1..Len(l) :
              /\ l[i][1] \in {"use", "call", "rewrite", "reflect", "accept"}
              /\ l[i][1] = "use" => l[i][2] \in {"sessions"}
              /\ l[i][1] # "accept"
      BY <1>1, <1>2
    <2> QED
      BY <1>1, <2>1, PlainProvided
  <1>4. "greeting" \notin Tools
    BY DEF Tools
  <1>6. /\ Ensure("sessions") \o l \in Seq(Entry)
        /\ Provided(Ensure("sessions") \o l, "greeting", {}, FALSE, FALSE, FALSE)
    <2>1. Provided(l, "greeting", {} \cup {"sessions"}, FALSE, FALSE, FALSE)
      <3>1. {} \cup {"sessions"} = {"sessions"}
        OBVIOUS
      <3> QED
        BY <1>3, <3>1
    <2> QED
      BY <1>1, <1>4, <2>1, EnsureThen
  <1> QED
    BY <1>6 DEF Greeting, l

\* A question may find its table in app.state, or makes one.
LEMMA QuestionProvided ==
    /\ Question \in Seq(Entry)
    /\ Provided(Question, "question", {}, FALSE, FALSE, FALSE)
  <1> DEFINE l == << <<"use", "sessions">>, <<"rewrite", "chat">>,
                     <<"table", "chunks">>, <<"embed", "query">>,
                     <<"search", "chunks">>, <<"call", "chat">>,
                     <<"use", "sessions">> >>
  <1>1. /\ l \in Seq(Entry) /\ Len(l) = 7
        /\ l[1] = <<"use", "sessions">> /\ l[2] = <<"rewrite", "chat">>
        /\ l[3] = <<"table", "chunks">> /\ l[4] = <<"embed", "query">>
        /\ l[5] = <<"search", "chunks">> /\ l[6] = <<"call", "chat">>
        /\ l[7] = <<"use", "sessions">>
    BY DEF Entry, Ops, Tables
  <1> HIDE DEF l
  <1>2. \A i \in 1..Len(l) : i \in {1, 2, 3, 4, 5, 6, 7}
    BY <1>1
  <1>3. "question" \notin Tools
    BY DEF Tools
  <1>4. Ahead(l, 5, Makes("chunks")) /\ Ahead(l, 5, Embeds)
    <2>1. 3 \in 1..(5 - 1) /\ 4 \in 1..(5 - 1)
      OBVIOUS
    <2> QED
      BY <1>1, <2>1 DEF Ahead, Makes, Embeds
  <1>5. Provided(l, "question", {"sessions"}, FALSE, FALSE, FALSE)
    <2> SUFFICES ASSUME NEW i \in 1..Len(l)
                 PROVE  EntryProvided(l, i, "question", {"sessions"}, FALSE,
                                      FALSE, FALSE)
      BY DEF Provided
    <2>1. CASE i = 5
      BY <1>1, <1>4, <2>1 DEF EntryProvided, Needs, Tables
    <2>2. CASE i # 5
      BY <1>1, <1>2, <1>3, <2>2 DEF EntryProvided, Needs, Tables
    <2> QED
      BY <2>1, <2>2
  <1>7. /\ Ensure("sessions") \o l \in Seq(Entry)
        /\ Provided(Ensure("sessions") \o l, "question", {}, FALSE, FALSE, FALSE)
    <2>1. Provided(l, "question", {} \cup {"sessions"}, FALSE, FALSE, FALSE)
      <3>1. {} \cup {"sessions"} = {"sessions"}
        OBVIOUS
      <3> QED
        BY <1>5, <3>1
    <2> QED
      BY <1>1, <1>3, <2>1, EnsureThen
  <1> QED
    BY <1>7 DEF Question, l

LEMMA ConcatEntries ==
    ASSUME NEW s \in Seq(Entry), NEW u \in Seq(Entry)
    PROVE  /\ s \o u \in Seq(Entry) /\ Len(s \o u) = Len(s) + Len(u)
           /\ Len(s) \in Nat
           /\ \A i \in 1..Len(s) : (s \o u)[i] = s[i]
           /\ \A i \in 1..Len(u) : (s \o u)[i + Len(s)] = u[i]
  OBVIOUS

LEMMA TwoMore ==
    ASSUME NEW s \in Seq(Entry), NEW u \in Seq(Entry), Len(u) = 2
    PROVE  /\ s \o u \in Seq(Entry) /\ Len(s \o u) = Len(s) + 2
           /\ \A i \in 1..Len(s) : (s \o u)[i] = s[i]
           /\ (s \o u)[Len(s) + 1] = u[1] /\ (s \o u)[Len(s) + 2] = u[2]
  <1> DEFINE l == s \o u
             n == Len(s)
  <1>1. /\ l \in Seq(Entry) /\ Len(l) = n + Len(u) /\ n \in Nat
        /\ \A i \in 1..n : l[i] = s[i]
        /\ \A i \in 1..Len(u) : l[i + n] = u[i]
    BY ConcatEntries
  <1> HIDE DEF l, n
  <1>2. 1 \in 1..Len(u) /\ 2 \in 1..Len(u) /\ 1 + n = n + 1 /\ 2 + n = n + 2
    BY <1>1
  <1>3. l[n + 1] = u[1] /\ l[n + 2] = u[2]
    BY <1>1, <1>2
  <1> QED
    BY <1>1, <1>3 DEF l, n

\* The part of a run that is repeated, entry by entry.
LEMMA OneTableEntries ==
    /\ Len(OneTable) = 6
    /\ OneTable[1] = <<"use", "watermarks">>
    /\ OneTable[2] = <<"embed", "chunks">>
    /\ OneTable[3] = <<"check", "chunks">>
    /\ OneTable[4] = <<"create", "chunks">>
    /\ OneTable[5] = <<"upsert", "chunks">>
    /\ OneTable[6] = <<"use", "watermarks">>
  <1> DEFINE a == << <<"use", "watermarks">>, <<"embed", "chunks">> >>
             b == Ensure("chunks")
             c == << <<"upsert", "chunks">>, <<"use", "watermarks">> >>
  <1>1. /\ a \in Seq(Entry) /\ b \in Seq(Entry) /\ c \in Seq(Entry)
        /\ Len(a) = 2 /\ Len(b) = 2 /\ Len(c) = 2
        /\ a[1] = <<"use", "watermarks">> /\ a[2] = <<"embed", "chunks">>
        /\ b[1] = <<"check", "chunks">> /\ b[2] = <<"create", "chunks">>
        /\ c[1] = <<"upsert", "chunks">> /\ c[2] = <<"use", "watermarks">>
    BY DEF Ensure, Entry, Ops, Tables
  <1>2. OneTable = (a \o b) \o c
    BY DEF OneTable
  <1> HIDE DEF a, b, c
  <1> DEFINE ab == a \o b
  <1>3. /\ ab \in Seq(Entry) /\ Len(ab) = 4
        /\ ab[1] = a[1] /\ ab[2] = a[2] /\ ab[3] = b[1] /\ ab[4] = b[2]
    <2>1. /\ ab \in Seq(Entry) /\ Len(ab) = Len(a) + 2
          /\ \A i \in 1..Len(a) : ab[i] = a[i]
          /\ ab[Len(a) + 1] = b[1] /\ ab[Len(a) + 2] = b[2]
      BY <1>1, TwoMore
    <2> HIDE DEF ab
    <2> QED
      BY <1>1, <2>1
  <1> HIDE DEF ab
  <1>4. /\ Len(ab \o c) = 6
        /\ (ab \o c)[1] = ab[1] /\ (ab \o c)[2] = ab[2] /\ (ab \o c)[3] = ab[3]
        /\ (ab \o c)[4] = ab[4] /\ (ab \o c)[5] = c[1] /\ (ab \o c)[6] = c[2]
    <2> DEFINE l == ab \o c
    <2>1. /\ Len(l) = Len(ab) + 2
          /\ \A i \in 1..Len(ab) : l[i] = ab[i]
          /\ l[Len(ab) + 1] = c[1] /\ l[Len(ab) + 2] = c[2]
      BY <1>1, <1>3, TwoMore
    <2> HIDE DEF l
    <2>2. /\ Len(l) = 6 /\ l[1] = ab[1] /\ l[2] = ab[2] /\ l[3] = ab[3]
          /\ l[4] = ab[4] /\ l[5] = c[1] /\ l[6] = c[2]
      BY <1>3, <2>1
    <2> QED
      BY <2>2 DEF l
  <1> QED
    BY <1>1, <1>2, <1>3, <1>4 DEF ab

\* Places in the repetition.
LEMMA Places ==
    ASSUME NEW n \in Nat, NEW i \in 1..(n * 6), NEW m, m = ((i - 1) % 6) + 1
    PROVE  /\ m \in 1..6
           /\ m > 1 => i - 1 \in 1..(n * 6) /\ (((i - 1) - 1) % 6) + 1 = m - 1
           /\ m < 6 => i + 1 \in 1..(n * 6) /\ (((i + 1) - 1) % 6) + 1 = m + 1
  BY SMTT(30)

LEMMA TablesProvided ==
    ASSUME NEW n \in Nat, NEW kind
    PROVE  /\ TablesOf(n) \in Seq(Entry)
           /\ Provided(TablesOf(n), kind, {"watermarks"}, FALSE, FALSE, FALSE)
  <1> DEFINE l == TablesOf(n)
  <1>1. CASE n = 0
    <2>1. l = << <<"use", "watermarks">> >>
      BY <1>1 DEF TablesOf
    <2>2. l \in Seq(Entry) /\ Len(l) = 1 /\ l[1] = <<"use", "watermarks">>
      BY <2>1 DEF Entry, Ops, Tables
    <2> HIDE DEF l
    <2>3. \A i \in 1..Len(l) : l[i][1] = "use" /\ l[i][2] \in {"watermarks"}
      BY <2>2
    <2>4. Provided(l, kind, {"watermarks"}, FALSE, FALSE, FALSE)
      BY <2>2, <2>3, PlainProvided
    <2> QED
      BY <2>2, <2>4 DEF l
  <1>2. CASE n # 0
    <2> DEFINE at(i) == ((i - 1) % 6) + 1
    <2>1. l = [i \in 1..(n * 6) |-> OneTable[at(i)]]
      BY <1>2, OneTableEntries DEF TablesOf
    <2>2. \A i \in 1..(n * 6) : at(i) \in 1..6
      BY Places
    <2>3. \A m \in 1..6 : OneTable[m] \in Entry
      <3>1. \A m \in 1..6 : m \in {1, 2, 3, 4, 5, 6}
        OBVIOUS
      <3>2. /\ <<"use", "watermarks">> \in Entry /\ <<"embed", "chunks">> \in Entry
            /\ <<"check", "chunks">> \in Entry /\ <<"create", "chunks">> \in Entry
            /\ <<"upsert", "chunks">> \in Entry
        BY DEF Entry, Ops, Tables
      <3> QED
        BY <3>1, <3>2, OneTableEntries
    <2>4. /\ l \in Seq(Entry) /\ Len(l) = n * 6 /\ n * 6 \in Nat
          /\ \A i \in 1..(n * 6) : l[i] = OneTable[at(i)]
      <3>1. n * 6 \in Nat
        OBVIOUS
      <3>2. l \in [1..(n * 6) -> Entry]
        BY <2>1, <2>2, <2>3
      <3>3. \A i \in 1..(n * 6) : l[i] = OneTable[at(i)]
        BY <2>1
      <3> HIDE DEF l
      <3>4. l \in Seq(Entry) /\ Len(l) = n * 6
        BY <3>1, <3>2
      <3> QED
        BY <3>1, <3>3, <3>4
    <2> HIDE DEF l
    <2> SUFFICES ASSUME NEW i \in 1..Len(l)
                 PROVE  EntryProvided(l, i, kind, {"watermarks"}, FALSE, FALSE,
                                      FALSE)
      BY <2>4 DEF Provided, l
    <2> DEFINE m == at(i)
    <2>5. /\ i \in 1..(n * 6) /\ m \in 1..6 /\ l[i] = OneTable[m]
          /\ m > 1 => i - 1 \in 1..(n * 6) /\ at(i - 1) = m - 1
          /\ m < 6 => i + 1 \in 1..(n * 6) /\ at(i + 1) = m + 1
      BY <2>4, Places
    <2>6. /\ m > 1 => l[i - 1] = OneTable[m - 1]
          /\ m < 6 => l[i + 1] = OneTable[m + 1]
      BY <2>4, <2>5
    <2>7. m = 5 => /\ i - 3 \in 1..(n * 6) /\ l[i - 3] = OneTable[2]
      <3> SUFFICES ASSUME m = 5
                   PROVE  /\ i - 3 \in 1..(n * 6) /\ l[i - 3] = OneTable[2]
        OBVIOUS
      <3>1. i - 1 \in 1..(n * 6) /\ at(i - 1) = 4
        BY <2>5
      <3>2. (i - 1) - 1 \in 1..(n * 6) /\ at((i - 1) - 1) = 3
        BY <3>1, Places
      <3>3. ((i - 1) - 1) - 1 \in 1..(n * 6) /\ at(((i - 1) - 1) - 1) = 2
        BY <3>2, Places
      <3>4. ((i - 1) - 1) - 1 = i - 3
        BY <2>5
      <3> QED
        BY <2>4, <3>3, <3>4
    <2> HIDE DEF m, at
    <2>8. m \in {1, 2, 3, 4, 5, 6}
      BY <2>5
    <2>9. CASE m \in {1, 2, 6}
      BY <2>5, <2>9, OneTableEntries DEF EntryProvided, Needs, Tables
    <2>10. CASE m = 3
      <3>1. /\ l[i] = <<"check", "chunks">> /\ l[i + 1] = <<"create", "chunks">>
            /\ i < Len(l)
        BY <2>4, <2>5, <2>6, <2>10, OneTableEntries
      <3>2. Ahead(l, i, Embeds)
        <4>1. i - 1 \in 1..(i - 1) /\ l[i - 1] = <<"embed", "chunks">>
          BY <2>5, <2>6, <2>10, OneTableEntries
        <4> QED
          BY <4>1 DEF Ahead, Embeds
      <3> QED
        BY <3>1, <3>2 DEF EntryProvided, Needs, Tables
    <2>11. CASE m = 4
      <3>1. l[i] = <<"create", "chunks">>
        BY <2>5, <2>11, OneTableEntries
      <3>2. Ahead(l, i, Embeds)
        <4>1. i - 1 \in 1..(n * 6) /\ at(i - 1) = 3
          BY <2>5, <2>11
        <4>2. (i - 1) - 1 \in 1..(n * 6) /\ at((i - 1) - 1) = 2
          BY <4>1, Places DEF at
        <4>3. (i - 1) - 1 \in 1..(i - 1) /\ l[(i - 1) - 1] = <<"embed", "chunks">>
          BY <2>4, <2>5, <4>2, OneTableEntries
        <4> QED
          BY <4>3 DEF Ahead, Embeds
      <3> QED
        BY <3>1, <3>2 DEF EntryProvided, Needs, Tables
    <2>12. CASE m = 5
      <3>1. l[i] = <<"upsert", "chunks">>
        BY <2>5, <2>12, OneTableEntries
      <3>2. Ahead(l, i, Embeds)
        <4>1. i - 3 \in 1..(i - 1) /\ l[i - 3] = <<"embed", "chunks">>
          BY <2>5, <2>7, <2>12, OneTableEntries
        <4> QED
          BY <4>1 DEF Ahead, Embeds
      <3>3. Ahead(l, i, Makes("chunks"))
        <4>1. i - 1 \in 1..(i - 1) /\ l[i - 1] = <<"create", "chunks">>
          BY <2>5, <2>6, <2>12, OneTableEntries
        <4> QED
          BY <4>1 DEF Ahead, Makes
      <3> QED
        BY <3>1, <3>2, <3>3 DEF EntryProvided, Needs, Tables
    <2> QED
      BY <2>8, <2>9, <2>10, <2>11, <2>12
  <1> QED
    BY <1>1, <1>2

LEMMA RunProvided ==
    ASSUME NEW n \in Nat, NEW kind, NEW T
    PROVE  Run(n) \in Seq(Entry) /\ Provided(Run(n), kind, T, FALSE, FALSE, FALSE)
  <1> DEFINE u == TablesOf(n)
  <1>1. u \in Seq(Entry) /\ Provided(u, kind, {"watermarks"}, FALSE, FALSE, FALSE)
    BY TablesProvided
  <1> HIDE DEF u
  <1>2. Provided(u, kind, T \cup {"watermarks"}, FALSE, FALSE, FALSE)
    BY <1>1, ProvidedMore
  <1>3. /\ Ensure("watermarks") \o u \in Seq(Entry)
        /\ Provided(Ensure("watermarks") \o u, kind, T, FALSE, FALSE, FALSE)
    BY <1>1, <1>2, EnsureThen
  <1> QED
    BY <1>3 DEF Run, u

\* A list after another that asks for no more than is there.
LEMMA ThenProvided ==
    ASSUME NEW s \in Seq(Entry), NEW u \in Seq(Entry), NEW kind, NEW T,
           Provided(s, kind, T, FALSE, FALSE, FALSE),
           Provided(u, kind, T, FALSE, FALSE, FALSE)
    PROVE  /\ s \o u \in Seq(Entry)
           /\ Provided(s \o u, kind, T, FALSE, FALSE, FALSE)
  <1>1. \A t \in T : t \in T \/ \E i \in 1..Len(s) : s[i] \in Makes(t)
    OBVIOUS
  <1> QED
    BY <1>1, ProvidedConcat

\* Concatenation, as an operator the provers leave alone.
Cat(x, y) == x \o y

LEMMA Regrouped ==
    \A x, y, z \in Seq(Entry) : /\ Cat(x, y) \in Seq(Entry)
                                /\ Cat(Cat(x, y), z) = Cat(x, Cat(y, z))
  BY ConcatAssociative DEF Cat

LEMMA FiveParts ==
    \A a, b, c, d, e \in Seq(Entry) :
        Cat(Cat(Cat(Cat(a, b), c), d), e) = Cat(a, Cat(b, Cat(c, Cat(d, e))))
  <1> TAKE a, b, c, d, e \in Seq(Entry)
  <1>1. Cat(a, b) \in Seq(Entry) /\ Cat(d, e) \in Seq(Entry)
    BY Regrouped
  <1>2. /\ Cat(Cat(a, b), c) \in Seq(Entry)
        /\ Cat(c, Cat(d, e)) \in Seq(Entry)
    BY <1>1, Regrouped
  <1>3. Cat(Cat(Cat(Cat(a, b), c), d), e) = Cat(Cat(Cat(a, b), c), Cat(d, e))
    BY <1>2, Regrouped
  <1>4. Cat(Cat(Cat(a, b), c), Cat(d, e)) = Cat(Cat(a, b), Cat(c, Cat(d, e)))
    BY <1>1, Regrouped
  <1>5. Cat(Cat(a, b), Cat(c, Cat(d, e))) = Cat(a, Cat(b, Cat(c, Cat(d, e))))
    BY <1>2, Regrouped
  <1> QED
    BY <1>3, <1>4, <1>5

LEMMA IngestProvided ==
    ASSUME NEW n \in Nat
    PROVE  /\ Ingest(n) \in Seq(Entry)
           /\ Provided(Ingest(n), "ingest", {}, FALSE, FALSE, FALSE)
  <1> DEFINE a == Ensure("jobs")
             b == Ensure("watermarks")
             c == << <<"use", "jobs">>, <<"accept", "job">>, <<"use", "jobs">> >>
             d == Run(n)
             e == << <<"use", "jobs">> >>
             T == ({} \cup {"jobs"}) \cup {"watermarks"}
  <1>1. /\ c \in Seq(Entry) /\ Len(c) = 3 /\ c[1] = <<"use", "jobs">>
        /\ c[2] = <<"accept", "job">> /\ c[3] = <<"use", "jobs">>
        /\ e \in Seq(Entry) /\ Len(e) = 1 /\ e[1] = <<"use", "jobs">>
    BY DEF Entry, Ops, Tables
  <1>2. /\ a \in Seq(Entry) /\ b \in Seq(Entry) /\ d \in Seq(Entry)
        /\ Provided(d, "ingest", T, FALSE, FALSE, FALSE)
    BY RunProvided, EnsureProvided
  <1>3. Ingest(n) = (((a \o b) \o c) \o d) \o e
    BY DEF Ingest
  <1>4. "jobs" \in T
    OBVIOUS
  <1> HIDE DEF a, b, c, d, e, T
  <1>5. Provided(c, "ingest", T, FALSE, FALSE, FALSE)
    <2>1. \A i \in 1..Len(c) : i = 1 \/ i = 2 \/ i = 3
      BY <1>1
    <2>2. \A i \in 1..Len(c) :
              /\ c[i][1] \in {"use", "call", "rewrite", "reflect", "accept"}
              /\ c[i][1] = "use" => c[i][2] \in T
      BY <1>1, <1>4, <2>1
    <2> QED
      BY <1>1, <1>4, <2>2, PlainProvided
  <1>6. Provided(e, "ingest", T, FALSE, FALSE, FALSE)
    <2>1. \A i \in 1..Len(e) :
              /\ e[i][1] \in {"use", "call", "rewrite", "reflect", "accept"}
              /\ e[i][1] = "use" => e[i][2] \in T
      BY <1>1, <1>4
    <2> QED
      BY <1>1, <1>4, <2>1, PlainProvided
  <1>7. d \o e \in Seq(Entry) /\ Provided(d \o e, "ingest", T, FALSE, FALSE, FALSE)
    BY <1>1, <1>2, <1>6, ThenProvided
  <1> DEFINE u == c \o (d \o e)
  <1>8. u \in Seq(Entry) /\ Provided(u, "ingest", T, FALSE, FALSE, FALSE)
    BY <1>1, <1>5, <1>7, ThenProvided
  <1> HIDE DEF u
  <1>9. /\ b \o u \in Seq(Entry)
        /\ Provided(b \o u, "ingest", {} \cup {"jobs"}, FALSE, FALSE, FALSE)
    BY <1>8, EnsureThen DEF T, b
  <1>10. /\ a \o (b \o u) \in Seq(Entry)
         /\ Provided(a \o (b \o u), "ingest", {}, FALSE, FALSE, FALSE)
    BY <1>9, EnsureThen DEF a
  <1>11. Ingest(n) = a \o (b \o u)
    <2>1. a \in Seq(Entry) /\ b \in Seq(Entry) /\ c \in Seq(Entry)
          /\ d \in Seq(Entry) /\ e \in Seq(Entry)
      BY <1>1, <1>2
    <2>2. Cat(Cat(Cat(Cat(a, b), c), d), e) = Cat(a, Cat(b, Cat(c, Cat(d, e))))
      BY <2>1, FiveParts
    <2> QED
      BY <1>3, <2>2 DEF u, Cat
  <1> QED
    BY <1>10, <1>11

LEMMA EvaluateProvided ==
    /\ Evaluate \in Seq(Entry)
    /\ Provided(Evaluate, "evaluate", {}, FALSE, FALSE, FALSE)
  <1> DEFINE l == Evaluate
  <1>1. /\ l \in Seq(Entry) /\ Len(l) = 5
        /\ l[1] = <<"embed", "probe">> /\ l[2] = <<"check", "chunks">>
        /\ l[3] = <<"create", "chunks">> /\ l[4] = <<"embed", "query">>
        /\ l[5] = <<"search", "chunks">>
    <2> DEFINE a == << <<"embed", "probe">> >>
               b == Ensure("chunks")
               c == << <<"embed", "query">>, <<"search", "chunks">> >>
               ab == a \o b
    <2>1. /\ a \in Seq(Entry) /\ b \in Seq(Entry) /\ c \in Seq(Entry)
          /\ Len(a) = 1 /\ Len(b) = 2 /\ Len(c) = 2
          /\ a[1] = <<"embed", "probe">>
          /\ b[1] = <<"check", "chunks">> /\ b[2] = <<"create", "chunks">>
          /\ c[1] = <<"embed", "query">> /\ c[2] = <<"search", "chunks">>
      BY DEF Ensure, Entry, Ops, Tables
    <2>2. l = ab \o c
      BY DEF Evaluate
    <2> HIDE DEF a, b, c, l
    <2>3. /\ ab \in Seq(Entry) /\ Len(ab) = Len(a) + 2
          /\ \A i \in 1..Len(a) : ab[i] = a[i]
          /\ ab[Len(a) + 1] = b[1] /\ ab[Len(a) + 2] = b[2]
      BY <2>1, TwoMore
    <2> HIDE DEF ab
    <2>4. Len(ab) = 3 /\ ab[1] = a[1] /\ ab[2] = b[1] /\ ab[3] = b[2]
      BY <2>1, <2>3
    <2>5. /\ l \in Seq(Entry) /\ Len(l) = Len(ab) + 2
          /\ \A i \in 1..Len(ab) : l[i] = ab[i]
          /\ l[Len(ab) + 1] = c[1] /\ l[Len(ab) + 2] = c[2]
      BY <2>1, <2>2, <2>3, TwoMore
    <2>6. /\ Len(l) = 5 /\ l[1] = ab[1] /\ l[2] = ab[2] /\ l[3] = ab[3]
          /\ l[4] = c[1] /\ l[5] = c[2]
      BY <2>4, <2>5
    <2> QED
      BY <2>1, <2>4, <2>5, <2>6
  <1> HIDE DEF l
  <1>2. \A i \in 1..Len(l) : i \in {1, 2, 3, 4, 5}
    BY <1>1
  <1>3. /\ Ahead(l, 2, Embeds) /\ Ahead(l, 3, Embeds) /\ Ahead(l, 5, Embeds)
        /\ Ahead(l, 5, Makes("chunks"))
    <2>1. 1 \in 1..(2 - 1) /\ 1 \in 1..(3 - 1) /\ 1 \in 1..(5 - 1) /\ 3 \in 1..(5 - 1)
      OBVIOUS
    <2> QED
      BY <1>1, <2>1 DEF Ahead, Makes, Embeds
  <1>4. Provided(l, "evaluate", {}, FALSE, FALSE, FALSE)
    <2> SUFFICES ASSUME NEW i \in 1..Len(l)
                 PROVE  EntryProvided(l, i, "evaluate", {}, FALSE, FALSE, FALSE)
      BY DEF Provided
    <2>1. CASE i = 5
      <3>1. Needs(l[i], "evaluate") \subseteq {"chunks"}
        BY <1>1, <2>1 DEF Needs
      <3> QED
        BY <1>1, <1>3, <2>1, <3>1 DEF EntryProvided
    <2>2. CASE i \in {1, 2, 3, 4}
      BY <1>1, <1>2, <1>3, <2>2 DEF EntryProvided, Needs, Tables
    <2> QED
      BY <1>2, <2>1, <2>2
  <1> QED
    BY <1>1, <1>4 DEF l

LEMMA ResetProvided ==
    /\ Reset \in Seq(Entry) /\ Provided(Reset, "reset", {}, FALSE, FALSE, FALSE)
    /\ Poll \in Seq(Entry) /\ Provided(Poll, "poll", {}, FALSE, FALSE, FALSE)
  <1>1. /\ Reset \in Seq(Entry) /\ Len(Reset) = 3
        /\ Reset[1] = <<"reflect", "chunks">> /\ Reset[2] = <<"use", "chunks">>
        /\ Reset[3] = <<"use", "watermarks">>
        /\ Poll \in Seq(Entry) /\ Len(Poll) = 1 /\ Poll[1] = <<"use", "jobs">>
    BY DEF Reset, Poll, Entry, Ops, Tables
  <1>2. \A i \in 1..Len(Reset) : i \in {1, 2, 3}
    BY <1>1
  <1>3. \A i \in 1..Len(Reset) :
            Reset[i][1] \in {"use", "call", "rewrite", "reflect"}
    BY <1>1, <1>2
  <1>4. \A i \in 1..Len(Poll) : Poll[i][1] = "use"
    BY <1>1
  <1> QED
    BY <1>1, <1>3, <1>4, PlainProvided

\* Whatever a request or a tool is asked to do.
LEMMA ProgramsProvided ==
    ASSUME NEW kind \in KindNames, NEW todo \in Programs(kind)
    PROVE  /\ todo \in Seq(Entry)
           /\ Provided(todo, kind, {}, FALSE, FALSE, FALSE)
  <1>1. /\ kind = "ingest" => \E n \in Nat : todo = Ingest(n)
        /\ kind = "cli" => \E n \in Nat : todo = Run(n)
        /\ kind = "question" => todo = Question
        /\ kind = "greeting" => todo = Greeting
        /\ kind = "poll" => todo = Poll
        /\ kind = "reset" => todo = Reset
        /\ kind = "evaluate" => todo = Evaluate
    BY BoundsAssumption DEF Programs
  <1>2. kind \in {"ingest", "cli", "question", "greeting", "poll", "reset", "evaluate"}
    BY DEF KindNames, Tools
  <1>3. CASE kind = "ingest"
    BY <1>1, <1>3, IngestProvided
  <1>4. CASE kind = "cli"
    BY <1>1, <1>4, RunProvided
  <1> QED
    BY <1>1, <1>2, <1>3, <1>4, QuestionProvided, GreetingProvided, ResetProvided,
       EvaluateProvided

-----------------------------------------------------------------------------
(* The invariant.                                                          *)

Request == [kind : KindNames \cup {"none"},
            at : Workers \cup {NoWorker},
            todo : Seq(Entry),
            vector_table : Dims \cup {0},
            vector : Dims \cup {0},
            latched : Dims \cup {0},
            outcome : Outcomes]

\* A request q on tables T, with a provider that knows dimension d, a model that
\* answers with dimension m and was replaced c times: it asks for nothing it has
\* not made sure of, and what it has in hand fits.
Sound(q, T, d, m, c) ==
    /\ Provided(q.todo, q.kind, T, d # 0, q.vector # 0, q.vector_table # 0)
    /\ q.todo # <<>> => /\ q.kind \in KindNames
                        /\ q.kind \notin Tools => q.at \in Workers
                        /\ q.kind \in Tools => q.at = NoWorker
    /\ q.outcome = "accepted" => "jobs" \in T
    /\ q.outcome = "missing" => q.kind \in {"reset", "poll"}
    /\ q.vector_table # 0 => "chunks" \in T
    /\ c = 0 => /\ q.vector \in {0, m} /\ q.vector_table \in {0, m}
                /\ q.latched \in {0, m} /\ q.outcome # "refused"

\* The dimension the provider of a request knows.
Knows(q, known) == IF q.kind \in Tools THEN q.latched ELSE known[q.at]

WorkersOK ==
    \A w \in Workers : /\ ready[w] => "sessions" \in tables
                       /\ handle[w] # 0 => "chunks" \in tables
                       /\ handle[w] \in {0, latched[w]}
                       /\ changes = 0 => latched[w] \in {0, model}

RequestsOK ==
    \A r \in Requests :
        Sound(req[r], tables, Knows(req[r], latched), model, changes)

IInv ==
    /\ TypeOK
    /\ changes = 0 => column \in {0, model}
    /\ WorkersOK
    /\ RequestsOK

LEMMA Types == TypeOK <=> /\ tables \subseteq Tables
                          /\ column \in Dims \cup {0}
                          /\ column # 0 <=> "chunks" \in tables
                          /\ model \in Dims
                          /\ latched \in [Workers -> Dims \cup {0}]
                          /\ handle \in [Workers -> Dims \cup {0}]
                          /\ ready \in [Workers -> BOOLEAN]
                          /\ req \in [Requests -> Request]
                          /\ faults \in 0..MaxFaults
                          /\ changes \in 0..MaxChanges
  BY DEF TypeOK, Request, Entry

LEMMA DimsPositive == Dims \subseteq Nat /\ 0 \notin Dims
  BY DimsAssumption

-----------------------------------------------------------------------------
(* What the steps do to a request.                                         *)

LEMMA NothingProvided ==
    ASSUME NEW kind, NEW T, NEW dim, NEW vec, NEW tab
    PROVE  <<>> \in Seq(Entry) /\ Provided(<<>>, kind, T, dim, vec, tab)
  <1>1. <<>> \in Seq(Entry) /\ Len(<<>>) = 0
    OBVIOUS
  <1>2. 1..Len(<<>>) = {}
    BY <1>1
  <1> QED
    BY <1>1, <1>2 DEF Provided

\* A request at rest, however it ended.
LEMMA RestSound ==
    ASSUME NEW q \in Request, q.todo = <<>>, q.vector = 0, q.vector_table = 0,
           q.latched = 0, q.outcome # "accepted",
           q.outcome = "missing" => q.kind \in {"reset", "poll"},
           NEW T, NEW d, NEW m, NEW c, c = 0 => q.outcome # "refused"
    PROVE  Sound(q, T, d, m, c)
  BY NothingProvided DEF Sound

LEMMA IdleSound ==
    ASSUME NEW T, NEW d, NEW m, NEW c
    PROVE  Idle \in Request /\ Sound(Idle, T, d, m, c)
  <1>1. Idle \in Request
    BY NothingProvided DEF Idle, Request, Outcomes
  <1> QED
    BY <1>1, RestSound DEF Idle

LEMMA GoesSound ==
    ASSUME NEW q \in Request, NEW list \in Seq(Entry),
           NEW T, NEW d, NEW m, NEW c,
           Sound([q EXCEPT !.todo = list], T, d, m, c)
    PROVE  /\ Goes(q, list) \in Request
           /\ Sound(Goes(q, list), T, d, m, c)
           /\ Goes(q, list).kind = q.kind
           /\ Goes(q, list).at = q.at
  <1>1. CASE list # <<>>
    <2>1. Goes(q, list) = [q EXCEPT !.todo = list]
      BY <1>1 DEF Goes
    <2> QED
      BY <2>1 DEF Request
  <1>2. CASE list = <<>>
    <2> DEFINE g == Goes(q, list)
    <2>1. /\ g = [Idle EXCEPT !.kind = q.kind, !.at = q.at,
                     !.outcome = IF q.outcome \in {"none", "accepted"}
                                 THEN "answered" ELSE q.outcome]
      BY <1>2 DEF Goes
    <2>2. /\ g.todo = <<>> /\ g.vector = 0 /\ g.vector_table = 0 /\ g.latched = 0
          /\ g.kind = q.kind /\ g.at = q.at
          /\ g.outcome = IF q.outcome \in {"none", "accepted"}
                         THEN "answered" ELSE q.outcome
          /\ g \in Request
      BY <2>1, IdleSound DEF Idle, Request, Outcomes
    <2>3. /\ q.outcome = "missing" => q.kind \in {"reset", "poll"}
          /\ c = 0 => q.outcome # "refused"
      BY DEF Sound, Request
    <2> HIDE DEF g
    <2>4. Sound(g, T, d, m, c)
      BY <2>2, <2>3, RestSound
    <2> QED
      BY <2>2, <2>4 DEF g
  <1> QED
    BY <1>1, <1>2

Raised(q, why) ==
    [Idle EXCEPT !.kind = q.kind, !.at = q.at,
                 !.todo = IF q.outcome = "accepted" THEN << <<"use", "jobs">> >>
                                                    ELSE <<>>,
                 !.outcome = why]

LEMMA RaiseSound ==
    ASSUME NEW q \in Request, NEW T, NEW d, NEW m, NEW c, NEW why \in Outcomes,
           q.todo # <<>>, Sound(q, T, d, m, c),
           why # "accepted",
           why = "missing" => q.kind \in {"reset", "poll"},
           c = 0 => why # "refused",
           NEW d2
    PROVE  Raised(q, why) \in Request /\ Sound(Raised(q, why), T, d2, m, c)
  <1> DEFINE g == Raised(q, why)
  <1> SUFFICES g \in Request /\ Sound(g, T, d2, m, c)
    OBVIOUS
  <1> DEFINE l == << <<"use", "jobs">> >>
  <1>1. l \in Seq(Entry) /\ Len(l) = 1 /\ l[1] = <<"use", "jobs">> /\ l # <<>>
    BY DEF Entry, Ops, Tables
  <1> HIDE DEF l
  <1>2. /\ g.todo = IF q.outcome = "accepted" THEN l ELSE <<>>
        /\ g.vector = 0 /\ g.vector_table = 0 /\ g.latched = 0
        /\ g.kind = q.kind /\ g.at = q.at /\ g.outcome = why
        /\ g \in Request
    BY <1>1, NothingProvided DEF Idle, Request, l, Raised
  <1> HIDE DEF g
  <1>3. CASE q.outcome # "accepted"
    BY <1>2, <1>3, RestSound
  <1>4. CASE q.outcome = "accepted"
    <2>1. "jobs" \in T
      BY <1>4 DEF Sound
    <2>2. \A i \in 1..Len(l) : l[i][1] = "use" /\ l[i][2] \in T
      BY <1>1, <2>1
    <2>3. Provided(l, q.kind, T, FALSE, FALSE, FALSE)
      BY <1>1, <2>2, PlainProvided
    <2>4. Provided(l, q.kind, T, d2 # 0, FALSE, FALSE)
      BY <2>3, ProvidedMore
    <2> QED
      BY <1>2, <1>4, <2>4 DEF Sound
  <1> QED
    BY <1>2, <1>3, <1>4

\* More tables and more known dimensions do a request no harm.
LEMMA SoundMore ==
    ASSUME NEW q \in Request, NEW T, NEW T2, T \subseteq T2, NEW d, NEW d2,
           q.todo # <<>> => (d # 0 => d2 # 0),
           NEW m, NEW c, Sound(q, T, d, m, c)
    PROVE  Sound(q, T2, d2, m, c)
  <1>1. Provided(q.todo, q.kind, T2, d2 # 0, q.vector # 0, q.vector_table # 0)
    <2>1. CASE q.todo = <<>>
      BY <2>1, NothingProvided
    <2>2. CASE q.todo # <<>>
      <3>1. Provided(q.todo, q.kind, T, d # 0, q.vector # 0, q.vector_table # 0)
        BY DEF Sound
      <3>2. d # 0 => d2 # 0
        BY <2>2
      <3> QED
        BY <3>1, <3>2, ProvidedMore
    <2> QED
      BY <2>1, <2>2
  <1> QED
    BY <1>1 DEF Sound

\* One request moves; what the others rely on only grows.
LEMMA OneMoves ==
    ASSUME IInv, NEW r \in Requests, NEW q \in Request,
           req' = [req EXCEPT ![r] = q],
           tables \subseteq tables', model' = model, changes' = changes,
           \A w \in Workers : latched[w] # 0 => latched'[w] # 0,
           Sound(q, tables', Knows(q, latched'), model, changes)
    PROVE  req' \in [Requests -> Request] /\ RequestsOK'
  <1>1. req \in [Requests -> Request] /\ req' \in [Requests -> Request]
    BY Types DEF IInv
  <1>2. ASSUME NEW s \in Requests
        PROVE  Sound(req'[s], tables', Knows(req'[s], latched'), model', changes')
    <2>1. CASE s = r
      BY <1>1, <2>1
    <2>2. CASE s # r
      <3> DEFINE p == req[s]
      <3>1. p \in Request /\ req'[s] = p
        BY <1>1, <2>2
      <3>2. Sound(p, tables, Knows(p, latched), model, changes)
        BY DEF IInv, RequestsOK
      <3> HIDE DEF p
      <3>3. p.todo # <<>> => (Knows(p, latched) # 0 => Knows(p, latched') # 0)
        BY <3>2 DEF Sound, Knows
      <3>4. Sound(p, tables', Knows(p, latched'), model, changes)
        BY <3>1, <3>2, <3>3, SoundMore
      <3> QED
        BY <3>1, <3>4
    <2> QED
      BY <2>1, <2>2
  <1> QED
    BY <1>1, <1>2 DEF RequestsOK

\* The first entry of a running request.
LEMMA Front ==
    ASSUME IInv, NEW r \in Requests, Running(r)
    PROVE  LET q == req[r]
               list == req[r].todo
           IN  /\ q \in Request /\ list \in Seq(Entry) /\ list # <<>>
               /\ Sound(q, tables, Knows(q, latched), model, changes)
               /\ list[1] = <<Op(r), On(r)>>
               /\ Op(r) = "check" => /\ 1 < Len(list)
                                     /\ list[2] = <<"create", On(r)>>
               /\ Op(r) = "create" => On(r) \in Tables
               /\ Op(r) \in {"use", "search", "upsert"} =>
                    On(r) \in tables \/ q.kind \in {"reset", "poll"}
               /\ Op(r) = "accept" => "jobs" \in tables
               /\ Op(r) \in {"check", "create"} /\ On(r) = "chunks" =>
                    Knows(q, latched) # 0
               /\ Op(r) \in {"search", "upsert"} =>
                    On(r) = "chunks" /\ q.vector # 0 /\ q.vector_table # 0
               /\ Op(r) = "table" => On(r) = "chunks" /\ q.kind \notin Tools
               /\ Op(r) = "check" /\ On(r) = "sessions" => q.kind \notin Tools
               /\ IsTool(r) <=> q.kind \in Tools
               /\ Dimension(r) = Knows(q, latched)
               /\ q.kind \notin Tools => At(r) \in Workers
               /\ q.kind \in Tools => At(r) = NoWorker
               /\ q.kind \in KindNames
  <1> DEFINE q == req[r]
             list == req[r].todo
  <1>1. q \in Request /\ list \in Seq(Entry)
    BY Types DEF IInv, Request
  <1>2. list # <<>> /\ Op(r) = list[1][1] /\ On(r) = list[1][2]
    BY <1>1 DEF Running, Op, On
  <1>3. Sound(q, tables, Knows(q, latched), model, changes)
    BY DEF IInv, RequestsOK
  <1>4. /\ IsTool(r) <=> q.kind \in Tools
        /\ Dimension(r) = Knows(q, latched)
        /\ q.kind \notin Tools => At(r) \in Workers
        /\ q.kind \in Tools => At(r) = NoWorker
        /\ q.kind \in KindNames
    BY <1>2, <1>3 DEF IsTool, Dimension, Knows, At, Sound
  <1> HIDE DEF q
  <1> DEFINE d == Knows(q, latched)
  <1>5. q.todo = list
    BY DEF q
  <1> HIDE DEF list, d
  <1>6. 1 \in 1..Len(list) /\ list[1] \in Entry
    BY <1>1, <1>2
  <1>7. list[1] = <<Op(r), On(r)>>
    BY <1>2, <1>6 DEF Entry
  <1>8. EntryProvided(list, 1, q.kind, tables, d # 0, q.vector # 0,
                      q.vector_table # 0)
    BY <1>3, <1>5, <1>6 DEF Sound, Provided, d
  <1>9. \A S : ~Ahead(list, 1, S)
    BY DEF Ahead
  <1>10. /\ Op(r) = "check" => 1 < Len(list) /\ list[2] = <<"create", On(r)>>
         /\ Op(r) = "create" => On(r) \in Tables
         /\ Op(r) \in {"use", "search", "upsert"} =>
                On(r) \in tables \/ q.kind \in {"reset", "poll"}
         /\ Op(r) = "accept" => "jobs" \in tables
    <2>1. Op(r) = "check" => 1 < Len(list) /\ list[2] = <<"create", On(r)>>
      BY <1>2, <1>8 DEF EntryProvided
    <2>2. Op(r) = "create" => On(r) \in Tables
      BY <1>2, <1>8 DEF EntryProvided
    <2>3. \A t \in Needs(list[1], q.kind) : t \in tables
      BY <1>8, <1>9 DEF EntryProvided
    <2>4. Op(r) \in {"use", "search", "upsert"} =>
                On(r) \in tables \/ q.kind \in {"reset", "poll"}
      BY <1>2, <2>3 DEF Needs
    <2>5. Op(r) = "accept" => "jobs" \in tables
      BY <1>2, <2>3 DEF Needs
    <2> QED
      BY <2>1, <2>2, <2>4, <2>5
  <1>11. /\ Op(r) \in {"check", "create"} /\ On(r) = "chunks" => d # 0
         /\ Op(r) \in {"search", "upsert"} =>
                On(r) = "chunks" /\ q.vector # 0 /\ q.vector_table # 0
         /\ Op(r) = "table" => On(r) = "chunks" /\ q.kind \notin Tools
         /\ Op(r) = "check" /\ On(r) = "sessions" => q.kind \notin Tools
    BY <1>2, <1>7, <1>8, <1>9 DEF EntryProvided
  <1> QED
    BY <1>1, <1>2, <1>3, <1>4, <1>5, <1>7, <1>10, <1>11 DEF q, list, d

\* The rest of the list, for a request whose first entry has done its work.
LEMMA After ==
    ASSUME NEW q \in Request, q.todo # <<>>, NEW T, NEW d, NEW m, NEW c,
           Sound(q, T, d, m, c),
           NEW g \in Request, g.todo = Tail(q.todo), g.kind = q.kind, g.at = q.at,
           NEW T2, T \subseteq T2, NEW d2, d # 0 => d2 # 0,
           q.vector # 0 => g.vector # 0, q.vector_table # 0 => g.vector_table # 0,
           \A t : q.todo[1] \in {<<"create", t>>, <<"table", t>>} => t \in T2,
           q.todo[1] \in Embeds => d2 # 0 /\ g.vector # 0,
           q.todo[1] \in {<<"create", "chunks">>, <<"table", "chunks">>}
                => g.vector_table # 0,
           g.outcome \in {q.outcome, "accepted"},
           g.outcome = "accepted" => "jobs" \in T2,
           g.vector_table # 0 => "chunks" \in T2,
           c = 0 => /\ g.vector \in {0, m} /\ g.vector_table \in {0, m}
                    /\ g.latched \in {0, m}
    PROVE  Sound(g, T2, d2, m, c)
  <1>1. q.todo \in Seq(Entry)
    BY DEF Request
  <1>2. Provided(q.todo, q.kind, T, d # 0, q.vector # 0, q.vector_table # 0)
    BY DEF Sound
  <1>3. Provided(g.todo, g.kind, T2, d2 # 0, g.vector # 0, g.vector_table # 0)
    <2> DEFINE D == d # 0
               V == q.vector # 0
               B == q.vector_table # 0
               D2 == d2 # 0
               V2 == g.vector # 0
               B2 == g.vector_table # 0
               l == q.todo
    <2>1. /\ l \in Seq(Entry) /\ l # <<>> /\ Provided(l, q.kind, T, D, V, B)
          /\ D \in BOOLEAN /\ V \in BOOLEAN /\ B \in BOOLEAN
          /\ D2 \in BOOLEAN /\ V2 \in BOOLEAN /\ B2 \in BOOLEAN
          /\ D => D2
          /\ V => V2
          /\ B => B2
          /\ l[1] \in Embeds => D2 /\ V2
          /\ l[1] \in {<<"create", "chunks">>, <<"table", "chunks">>} => B2
      BY <1>1, <1>2
    <2>2. \A t : l[1] \in {<<"create", t>>, <<"table", t>>} => t \in T2
      OBVIOUS
    <2> HIDE DEF D, V, B, D2, V2, B2, l
    <2>3. Provided(Tail(l), q.kind, T2, D2, V2, B2)
      BY <2>1, <2>2, ProvidedTail
    <2> QED
      BY <2>3 DEF D2, V2, B2, l
  <1> QED
    BY <1>3 DEF Sound

LEMMA GoesKnows ==
    ASSUME NEW q \in Request, NEW list \in Seq(Entry), NEW known,
           NEW T, NEW m, NEW c,
           Sound([q EXCEPT !.todo = list], T, Knows(q, known), m, c)
    PROVE  /\ Goes(q, list) \in Request
           /\ Sound(Goes(q, list), T, Knows(Goes(q, list), known), m, c)
           /\ Goes(q, list).kind = q.kind
           /\ Goes(q, list).at = q.at
  <1> DEFINE g == Goes(q, list)
  <1>1. /\ g \in Request /\ Sound(g, T, Knows(q, known), m, c)
        /\ g.kind = q.kind /\ g.at = q.at
    BY GoesSound
  <1>2. g.todo # <<>> => Knows(g, known) = Knows(q, known)
    <2>1. CASE list # <<>>
      BY <2>1 DEF Goes, Knows, Request
    <2>2. CASE list = <<>>
      BY <2>2 DEF Goes, Idle
    <2> QED
      BY <2>1, <2>2
  <1> HIDE DEF g
  <1>3. Sound(g, T, Knows(g, known), m, c)
    BY <1>1, <1>2, SoundMore
  <1> QED
    BY <1>1, <1>3 DEF g

LEMMA Quiet ==
    ASSUME IInv, NEW r \in Requests, NEW q \in Request,
           req' = [req EXCEPT ![r] = q],
           UNCHANGED <<tables, column, model, latched, handle, ready, changes>>,
           faults' \in 0..MaxFaults,
           Sound(q, tables, Knows(q, latched), model, changes)
    PROVE  IInv'
  <1>1. req' \in [Requests -> Request] /\ RequestsOK'
    BY OneMoves
  <1>2. TypeOK'
    BY <1>1 DEF IInv, TypeOK, Request, Entry
  <1>3. WorkersOK' /\ (changes' = 0 => column' \in {0, model'})
    BY DEF IInv, WorkersOK
  <1> QED
    BY <1>1, <1>2, <1>3 DEF IInv

\* The entries that make no table and embed nothing.
LEMMA AdvanceSound ==
    ASSUME IInv, NEW r \in Requests, Running(r),
           Op(r) \notin {"create", "table", "embed"}
    PROVE  LET g == Goes(req[r], Tail(req[r].todo))
           IN  /\ g \in Request
               /\ Sound(g, tables, Knows(g, latched), model, changes)
  <1> DEFINE q == req[r]
             h == [q EXCEPT !.todo = Tail(q.todo)]
             d == Knows(q, latched)
  <1>1. /\ q \in Request /\ q.todo \in Seq(Entry) /\ q.todo # <<>>
        /\ Sound(q, tables, d, model, changes)
        /\ q.todo[1] = <<Op(r), On(r)>>
    BY Front
  <1> HIDE DEF q, d
  <1>2. Tail(q.todo) \in Seq(Entry)
    BY <1>1
  <1>3. /\ h \in Request /\ h.todo = Tail(q.todo) /\ h.kind = q.kind
        /\ h.at = q.at /\ h.vector = q.vector /\ h.vector_table = q.vector_table
        /\ h.latched = q.latched /\ h.outcome = q.outcome
    BY <1>1, <1>2 DEF Request
  <1> HIDE DEF h
  <1>4. /\ q.outcome = "accepted" => "jobs" \in tables
        /\ q.vector_table # 0 => "chunks" \in tables
        /\ changes = 0 => /\ q.vector \in {0, model}
                          /\ q.vector_table \in {0, model}
                          /\ q.latched \in {0, model}
    BY <1>1 DEF Sound
  <1>5. /\ \A t : q.todo[1] \notin {<<"create", t>>, <<"table", t>>}
        /\ q.todo[1] \notin Embeds
    BY <1>1 DEF Embeds
  <1>6. Sound(h, tables, d, model, changes)
    <2>1. \A t : q.todo[1] \in {<<"create", t>>, <<"table", t>>} => t \in tables
      BY <1>5
    <2>2. q.todo[1] \notin {<<"create", "chunks">>, <<"table", "chunks">>}
      BY <1>5
    <2> QED
      BY <1>1, <1>3, <1>4, <1>5, <2>1, <2>2, After
  <1>7. LET g == Goes(q, Tail(q.todo))
        IN  /\ g \in Request
            /\ Sound(g, tables, Knows(g, latched), model, changes)
    BY <1>1, <1>2, <1>6, GoesKnows DEF h, d
  <1> QED
    BY <1>7 DEF q

LEMMA ContinueInv ==
    ASSUME IInv, NEW r \in Requests, Running(r), Continue(r),
           Op(r) \notin {"create", "table", "embed"},
           UNCHANGED <<tables, column, model, latched, handle, ready, faults, changes>>
    PROVE  IInv'
  <1> DEFINE g == Goes(req[r], Tail(req[r].todo))
  <1>1. g \in Request /\ Sound(g, tables, Knows(g, latched), model, changes)
    BY AdvanceSound
  <1>2. req' = [req EXCEPT ![r] = g]
    BY DEF Continue, Past
  <1>3. faults' \in 0..MaxFaults
    BY DEF IInv, TypeOK
  <1> HIDE DEF g
  <1> QED
    BY <1>1, <1>2, <1>3, Quiet

LEMMA RaiseInv ==
    ASSUME IInv, NEW r \in Requests, Running(r), NEW why \in Outcomes,
           Raise(r, why), why # "accepted",
           why = "missing" => req[r].kind \in {"reset", "poll"},
           changes = 0 => why # "refused",
           faults' \in 0..MaxFaults,
           UNCHANGED <<tables, column, model, latched, handle, ready, changes>>
    PROVE  IInv'
  <1> DEFINE q == req[r]
             g == Raised(q, why)
  <1>1. /\ q \in Request /\ q.todo # <<>>
        /\ Sound(q, tables, Knows(q, latched), model, changes)
    BY Front
  <1>2. req' = [req EXCEPT ![r] = g]
    BY DEF Raise, Raised
  <1>3. why = "missing" => q.kind \in {"reset", "poll"}
    OBVIOUS
  <1> HIDE DEF q
  <1>4. ASSUME NEW d2
        PROVE  g \in Request /\ Sound(g, tables, d2, model, changes)
    BY <1>1, <1>3, RaiseSound
  <1> HIDE DEF g
  <1> QED
    BY <1>2, <1>4, Quiet

-----------------------------------------------------------------------------
(* Every step keeps the invariant.                                         *)

LEMMA InitInv == Init => IInv
  <1> SUFFICES ASSUME Init PROVE IInv
    OBVIOUS
  <1>1. req \in [Requests -> Request] /\ \A r \in Requests : req[r] = Idle
    BY IdleSound DEF Init
  <1>2. RequestsOK
    BY <1>1, IdleSound DEF RequestsOK
  <1>3. TypeOK
    <2>1. tables = {} /\ column = 0 /\ model \in Dims
      BY DimsAssumption DEF Init
    <2>2. 0 \in 0..MaxFaults /\ 0 \in 0..MaxChanges
      BY BoundsAssumption
    <2> QED
      BY <1>1, <2>1, <2>2, Types DEF Init
  <1>4. WorkersOK /\ (changes = 0 => column \in {0, model})
    BY DEF Init, WorkersOK
  <1> QED
    BY <1>2, <1>3, <1>4 DEF IInv

LEMMA FromNothing ==
    ASSUME NEW kind \in KindNames, NEW todo \in Programs(kind), NEW T, NEW dim
    PROVE  Provided(todo, kind, T, dim, FALSE, FALSE)
  <1>1. Provided(todo, kind, {}, FALSE, FALSE, FALSE)
    BY ProgramsProvided
  <1> QED
    BY <1>1 DEF Provided, EntryProvided

LEMMA StartInv ==
    ASSUME IInv, NEW r \in Requests, Start(r)
    PROVE  IInv'
  <1>1. PICK kind \in Kinds[r] : \E todo \in Programs(kind) :
                \E w \in IF kind \in Tools THEN {NoWorker} ELSE Home[r] :
                    req' = [req EXCEPT
                            ![r] = [Idle EXCEPT !.kind = kind, !.at = w,
                                                !.todo = todo]]
    BY DEF Start
  <1>a. PICK todo \in Programs(kind) :
                \E w \in IF kind \in Tools THEN {NoWorker} ELSE Home[r] :
                    req' = [req EXCEPT
                            ![r] = [Idle EXCEPT !.kind = kind, !.at = w,
                                                !.todo = todo]]
    BY <1>1
  <1>b. PICK w \in IF kind \in Tools THEN {NoWorker} ELSE Home[r] :
                req' = [req EXCEPT
                        ![r] = [Idle EXCEPT !.kind = kind, !.at = w,
                                            !.todo = todo]]
    BY <1>a
  <1>2. /\ kind \in KindNames
        /\ kind \notin Tools => w \in Workers
        /\ kind \in Tools => w = NoWorker
    BY <1>b, RequestsAssumption
  <1>3. todo \in Seq(Entry) /\ Provided(todo, kind, {}, FALSE, FALSE, FALSE)
    BY <1>2, ProgramsProvided
  <1> DEFINE q == [Idle EXCEPT !.kind = kind, !.at = w, !.todo = todo]
  <1>4. /\ q \in Request /\ q.kind = kind /\ q.at = w /\ q.todo = todo
        /\ q.vector = 0 /\ q.vector_table = 0 /\ q.latched = 0
        /\ q.outcome = "none"
    BY <1>2, <1>3 DEF Idle, Request, Outcomes
  <1>5. req' = [req EXCEPT ![r] = q]
    BY <1>b
  <1> HIDE DEF q
  <1>6. Sound(q, tables, Knows(q, latched), model, changes)
    <2>1. ASSUME NEW d
          PROVE  Sound(q, tables, d, model, changes)
      <3>1. Provided(todo, kind, tables, d # 0, FALSE, FALSE)
        <4> DEFINE dim == d # 0
        <4> HIDE DEF dim
        <4>1. Provided(todo, kind, tables, dim, FALSE, FALSE)
          BY <1>2, FromNothing
        <4> QED
          BY <4>1 DEF dim
      <3> QED
        BY <1>2, <1>4, <3>1 DEF Sound
    <2> QED
      BY <2>1
  <1>7. /\ UNCHANGED <<tables, column, model, latched, handle, ready, changes>>
        /\ faults' \in 0..MaxFaults
    BY DEF Start, IInv, TypeOK
  <1> QED
    BY <1>4, <1>5, <1>6, <1>7, Quiet

LEMMA UseInv ==
    ASSUME IInv, NEW r \in Requests, Use(r)
    PROVE  IInv'
  <1>1. Running(r) /\ Op(r) = "use" /\ faults' \in 0..MaxFaults
    BY DEF Use, MayRun, IInv, TypeOK
  <1>2. CASE On(r) \in tables
    BY <1>1, <1>2, ContinueInv DEF Use
  <1>3. CASE On(r) \notin tables
    <2>1. req[r].kind \in {"reset", "poll"}
      BY <1>1, <1>3, Front
    <2>2. Raise(r, "missing") /\ "missing" \in Outcomes
      BY <1>3 DEF Use, Outcomes
    <2> QED
      BY <1>1, <2>1, <2>2, RaiseInv DEF Use
  <1> QED
    BY <1>2, <1>3

LEMMA ReflectInv ==
    ASSUME IInv, NEW r \in Requests, Reflect(r)
    PROVE  IInv'
  <1>1. Running(r) /\ Op(r) = "reflect" /\ faults' \in 0..MaxFaults
    BY DEF Reflect, MayRun, IInv, TypeOK
  <1>2. CASE On(r) \in tables
    BY <1>1, <1>2, ContinueInv DEF Reflect
  <1>3. CASE On(r) \notin tables
    <2> DEFINE q == req[r]
               g == Goes(q, <<>>)
               h == [q EXCEPT !.todo = <<>>]
    <2>1. /\ q \in Request
          /\ Sound(q, tables, Knows(q, latched), model, changes)
      BY <1>1, Front
    <2> HIDE DEF q
    <2>2. Sound(h, tables, Knows(q, latched), model, changes)
      BY <2>1, NothingProvided DEF Sound, Request
    <2>3. /\ g \in Request
          /\ Sound(g, tables, Knows(g, latched), model, changes)
      BY <2>1, <2>2, NothingProvided, GoesKnows
    <2>4. req' = [req EXCEPT ![r] = g]
      BY <1>3 DEF Reflect, q
    <2> HIDE DEF g
    <2> QED
      BY <1>1, <2>3, <2>4, Quiet DEF Reflect
  <1> QED
    BY <1>2, <1>3

LEMMA SearchInv ==
    ASSUME IInv, NEW r \in Requests, Search(r)
    PROVE  IInv'
  <1>1. Running(r) /\ Op(r) = "search" /\ faults' \in 0..MaxFaults
    BY DEF Search, MayRun, IInv, TypeOK
  <1>2. CASE On(r) \notin tables /\ Raise(r, "missing")
    <2>1. req[r].kind \in {"reset", "poll"} /\ "missing" \in Outcomes
      BY <1>1, <1>2, Front DEF Outcomes
    <2> QED
      BY <1>1, <1>2, <2>1, RaiseInv DEF Search
  <1>3. CASE Continue(r)
    BY <1>1, <1>3, ContinueInv DEF Search
  <1>4. CASE /\ Raise(r, "refused")
             /\ \/ req[r].vector # req[r].vector_table
                \/ req[r].vector # column /\ On(r) \in tables
    <2>1. changes # 0
      <3> SUFFICES ASSUME changes = 0 PROVE FALSE
        OBVIOUS
      <3>1. /\ On(r) = "chunks" /\ req[r].vector # 0 /\ req[r].vector_table # 0
            /\ Sound(req[r], tables, Knows(req[r], latched), model, changes)
        BY <1>1, Front
      <3>2. req[r].vector = model /\ req[r].vector_table = model
        BY <3>1 DEF Sound
      <3>3. On(r) \in tables => column = model
        BY <3>1 DEF IInv, TypeOK
      <3> QED
        BY <1>4, <3>2, <3>3
    <2>2. "refused" \in Outcomes
      BY DEF Outcomes
    <2> QED
      BY <1>1, <1>4, <2>1, <2>2, RaiseInv DEF Search
  <1> QED
    BY <1>2, <1>3, <1>4 DEF Search

LEMMA UpsertInv ==
    ASSUME IInv, NEW r \in Requests, Upsert(r)
    PROVE  IInv'
  <1>1. Running(r) /\ Op(r) = "upsert" /\ faults' \in 0..MaxFaults
    BY DEF Upsert, MayRun, IInv, TypeOK
  <1>2. CASE On(r) \notin tables
    <2>1. req[r].kind \in {"reset", "poll"} /\ "missing" \in Outcomes
      BY <1>1, <1>2, Front DEF Outcomes
    <2>2. Raise(r, "missing")
      BY <1>2 DEF Upsert
    <2> QED
      BY <1>1, <2>1, <2>2, RaiseInv DEF Upsert
  <1>3. CASE /\ On(r) \in tables
             /\ req[r].vector = req[r].vector_table /\ req[r].vector = column
    BY <1>1, <1>3, ContinueInv DEF Upsert
  <1>4. CASE /\ On(r) \in tables
             /\ ~(req[r].vector = req[r].vector_table /\ req[r].vector = column)
    <2>1. changes # 0
      <3> SUFFICES ASSUME changes = 0 PROVE FALSE
        OBVIOUS
      <3>1. /\ On(r) = "chunks" /\ req[r].vector # 0 /\ req[r].vector_table # 0
            /\ Sound(req[r], tables, Knows(req[r], latched), model, changes)
        BY <1>1, Front
      <3>2. req[r].vector = model /\ req[r].vector_table = model
        BY <3>1 DEF Sound
      <3>3. column = model
        BY <1>4, <3>1 DEF IInv, TypeOK
      <3> QED
        BY <1>4, <3>2, <3>3
    <2>2. Raise(r, "refused") /\ "refused" \in Outcomes
      BY <1>4 DEF Upsert, Outcomes
    <2> QED
      BY <1>1, <2>1, <2>2, RaiseInv DEF Upsert
  <1> QED
    BY <1>2, <1>3, <1>4

LEMMA FaultInv ==
    ASSUME IInv, NEW r \in Requests, Fault(r)
    PROVE  IInv'
  <1>1. Running(r) /\ Raise(r, "raised") /\ "raised" \in Outcomes
    BY DEF Fault, MayRun, Outcomes
  <1>2. faults' \in 0..MaxFaults
    BY BoundsAssumption DEF Fault, IInv, TypeOK
  <1> QED
    BY <1>1, <1>2, RaiseInv DEF Fault

LEMMA AnsweredInv ==
    ASSUME IInv, NEW r \in Requests, Answered(r)
    PROVE  IInv'
  <1>1. Running(r) /\ Op(r) \in {"call", "rewrite", "accept"}
    BY DEF Answered, MayRun
  <1> DEFINE g == Goes(req[r], Tail(req[r].todo))
  <1>2. g \in Request /\ Sound(g, tables, Knows(g, latched), model, changes)
    BY <1>1, AdvanceSound
  <1>3. Op(r) = "accept" => "jobs" \in tables
    BY <1>1, Front
  <1>4. req' = [req EXCEPT ![r] = [g EXCEPT
                    !.outcome = IF Op(r) = "accept" THEN "accepted" ELSE g.outcome]]
    BY DEF Answered, Past
  <1> HIDE DEF g
  <1> DEFINE h == [g EXCEPT
                    !.outcome = IF Op(r) = "accept" THEN "accepted" ELSE g.outcome]
  <1>5. /\ h \in Request /\ h.todo = g.todo /\ h.kind = g.kind /\ h.at = g.at
        /\ h.vector = g.vector /\ h.vector_table = g.vector_table
        /\ h.latched = g.latched
        /\ h.outcome = IF Op(r) = "accept" THEN "accepted" ELSE g.outcome
    BY <1>2 DEF Request, Outcomes
  <1>6. req' = [req EXCEPT ![r] = h]
    BY <1>4
  <1> HIDE DEF h
  <1>7. Sound(h, tables, Knows(h, latched), model, changes)
    BY <1>2, <1>3, <1>5 DEF Sound, Knows
  <1> QED
    BY <1>5, <1>6, <1>7, Quiet DEF Answered, IInv, TypeOK

\* What the request is left with when the table is there.
LEMMA KeptFacts ==
    ASSUME IInv, NEW r \in Requests, Running(r), Op(r) \in {"check", "create"}
    PROVE  LET t == On(r)
               q == req[r]
               k == Kept(r, t)
           IN  /\ k \in Request /\ k.todo = q.todo /\ k.kind = q.kind
               /\ k.at = q.at /\ k.vector = q.vector /\ k.latched = q.latched
               /\ k.outcome = q.outcome
               /\ q.vector_table # 0 => k.vector_table # 0
               /\ t = "chunks" => k.vector_table # 0
               /\ t # "chunks" => k.vector_table = q.vector_table
               /\ changes = 0 => k.vector_table \in {0, model}
               /\ Dimension(r) \in Dims \cup {0}
               /\ changes = 0 => Dimension(r) \in {0, model}
               /\ t = "chunks" => Dimension(r) # 0
  <1> DEFINE t == On(r)
             q == req[r]
             k == Kept(r, t)
             d == Dimension(r)
  <1>1. /\ q \in Request /\ Sound(q, tables, Knows(q, latched), model, changes)
        /\ t = "chunks" => d # 0
        /\ d = Knows(q, latched)
        /\ q.kind \notin Tools => q.at \in Workers
    BY Front DEF At
  <1>2. /\ d \in Dims \cup {0}
        /\ changes = 0 => d \in {0, model}
    <2>1. CASE q.kind \in Tools
      BY <1>1, <2>1 DEF Knows, Sound, Request
    <2>2. CASE q.kind \notin Tools
      <3>1. d = latched[q.at] /\ q.at \in Workers
        BY <1>1, <2>2 DEF Knows
      <3> QED
        BY <3>1 DEF IInv, TypeOK, WorkersOK
    <2> QED
      BY <2>1, <2>2
  <1>3. t = "chunks" => (Known(r, t) <=> q.vector_table # 0)
    BY DEF Known
  <1>4. k = [q EXCEPT !.vector_table = IF t = "chunks" /\ ~Known(r, t)
                                       THEN d ELSE q.vector_table]
    BY DEF Kept
  <1>5. changes = 0 => q.vector_table \in {0, model}
    BY <1>1 DEF Sound
  <1> HIDE DEF t, q, k, d
  <1>6. /\ k \in Request /\ k.todo = q.todo /\ k.kind = q.kind
        /\ k.at = q.at /\ k.vector = q.vector /\ k.latched = q.latched
        /\ k.outcome = q.outcome
        /\ k.vector_table = IF t = "chunks" /\ ~Known(r, t)
                            THEN d ELSE q.vector_table
    BY <1>1, <1>2, <1>4 DEF Request
  <1>7. /\ q.vector_table # 0 => k.vector_table # 0
        /\ t = "chunks" => k.vector_table # 0
        /\ t # "chunks" => k.vector_table = q.vector_table
        /\ changes = 0 => k.vector_table \in {0, model}
    BY <1>1, <1>2, <1>3, <1>5, <1>6
  <1> QED
    BY <1>1, <1>2, <1>6, <1>7 DEF t, q, k, d

\* What a worker keeps of a table that is there.
LEMMA KeepInv ==
    ASSUME IInv, NEW r \in Requests, Running(r), Op(r) \in {"check", "create"},
           Keep(r, On(r)), On(r) \in tables', tables \subseteq tables',
           UNCHANGED <<model, latched, changes>>
    PROVE  /\ WorkersOK'
           /\ ready' \in [Workers -> BOOLEAN]
           /\ handle' \in [Workers -> Dims \cup {0}]
  <1>1. /\ Dimension(r) \in Dims \cup {0}
        /\ req[r].kind = "question" => Dimension(r) = latched[At(r)]
    BY KeptFacts DEF Dimension, IsTool, Tools
  <1>2. /\ ready' = [w \in Workers |-> ready[w] \/ (w = At(r) /\ On(r) = "sessions")]
        /\ handle' = [w \in Workers |->
                IF w = At(r) /\ On(r) = "chunks" /\ req[r].kind = "question"
                THEN Dimension(r) ELSE handle[w]]
    BY DEF Keep
  <1>3. /\ ready \in [Workers -> BOOLEAN]
        /\ handle \in [Workers -> Dims \cup {0}]
    BY DEF IInv, TypeOK
  <1>4. /\ ready' \in [Workers -> BOOLEAN]
        /\ handle' \in [Workers -> Dims \cup {0}]
    BY <1>1, <1>2, <1>3
  <1>5. ASSUME NEW w \in Workers
        PROVE  /\ ready[w]' => "sessions" \in tables'
               /\ handle[w]' # 0 => "chunks" \in tables'
               /\ handle[w]' \in {0, latched[w]'}
               /\ changes' = 0 => latched[w]' \in {0, model'}
    <2>1. /\ ready[w] => "sessions" \in tables
          /\ handle[w] # 0 => "chunks" \in tables
          /\ handle[w] \in {0, latched[w]}
          /\ changes = 0 => latched[w] \in {0, model}
      BY DEF IInv, WorkersOK
    <2>2. /\ ready[w]' => ready[w] \/ On(r) = "sessions"
          /\ \/ handle[w]' = handle[w]
             \/ handle[w]' = latched[w] /\ On(r) = "chunks"
      BY <1>1, <1>2
    <2> QED
      BY <2>1, <2>2
  <1> QED
    BY <1>4, <1>5 DEF WorkersOK

LEMMA CreateInv ==
    ASSUME IInv, NEW r \in Requests, Create(r)
    PROVE  IInv'
  <1>1. Running(r) /\ Op(r) = "create" /\ faults' \in 0..MaxFaults
    BY DEF Create, MayRun, IInv, TypeOK
  <1>2. CASE On(r) \in tables
    <2>1. Raise(r, "raised") /\ "raised" \in Outcomes
      BY <1>2 DEF Create, Outcomes
    <2> QED
      BY <1>1, <1>2, <2>1, RaiseInv DEF Create
  <1>3. CASE On(r) \notin tables
    <2> DEFINE t == On(r)
               q == req[r]
               k == Kept(r, t)
               h == [k EXCEPT !.todo = Tail(q.todo)]
               g == Goes(k, Tail(q.todo))
               d == Knows(q, latched)
    <2>1. /\ tables' = tables \cup {t} /\ t \in Tables
          /\ column' = IF t = "chunks" THEN Dimension(r) ELSE column
          /\ Keep(r, t)
          /\ req' = [req EXCEPT ![r] = g]
          /\ UNCHANGED <<model, latched, faults, changes>>
      <3>1. t \in Tables
        BY <1>1, Front
      <3> QED
        BY <1>3, <3>1 DEF Create
    <2>2. /\ q \in Request /\ q.todo \in Seq(Entry) /\ q.todo # <<>>
          /\ Sound(q, tables, d, model, changes)
          /\ q.todo[1] = <<"create", t>>
      BY <1>1, Front
    <2>3. /\ k \in Request /\ k.todo = q.todo /\ k.kind = q.kind
          /\ k.at = q.at /\ k.vector = q.vector /\ k.latched = q.latched
          /\ k.outcome = q.outcome
          /\ q.vector_table # 0 => k.vector_table # 0
          /\ t = "chunks" => k.vector_table # 0
          /\ t # "chunks" => k.vector_table = q.vector_table
          /\ changes = 0 => k.vector_table \in {0, model}
          /\ Dimension(r) \in Dims \cup {0}
          /\ changes = 0 => Dimension(r) \in {0, model}
          /\ t = "chunks" => Dimension(r) # 0
      BY <1>1, KeptFacts
    <2> HIDE DEF t, q, k, d
    <2>4. Tail(q.todo) \in Seq(Entry)
      BY <2>2
    <2>5. /\ h \in Request /\ h.todo = Tail(q.todo) /\ h.kind = q.kind
          /\ h.at = q.at /\ h.vector = q.vector /\ h.vector_table = k.vector_table
          /\ h.latched = q.latched /\ h.outcome = q.outcome
      BY <2>3, <2>4 DEF Request
    <2> HIDE DEF h
    <2>6. /\ q.outcome = "accepted" => "jobs" \in tables
          /\ q.vector_table # 0 => "chunks" \in tables
          /\ changes = 0 => q.vector \in {0, model} /\ q.latched \in {0, model}
      BY <2>2 DEF Sound
    <2>7. Sound(h, tables', d, model, changes)
      <3>1. /\ tables \subseteq tables' /\ t \in tables'
            /\ h.outcome = "accepted" => "jobs" \in tables'
            /\ h.vector_table # 0 => "chunks" \in tables'
        BY <2>1, <2>3, <2>5, <2>6
      <3>2. \A x : q.todo[1] \in {<<"create", x>>, <<"table", x>>} => x \in tables'
        BY <2>2, <3>1
      <3>3. /\ q.todo[1] \notin Embeds
            /\ q.todo[1] \in {<<"create", "chunks">>, <<"table", "chunks">>}
                => h.vector_table # 0
        BY <2>2, <2>3, <2>5 DEF Embeds
      <3> QED
        BY <2>2, <2>3, <2>5, <2>6, <3>1, <3>2, <3>3, After
    <2>8. /\ g \in Request
          /\ Sound(g, tables', Knows(g, latched), model, changes)
      <3>1. Sound(h, tables', Knows(k, latched), model, changes)
        BY <2>3, <2>7 DEF d, Knows
      <3> QED
        BY <2>3, <2>4, <3>1, GoesKnows DEF h
    <2> HIDE DEF g
    <2>9. req' \in [Requests -> Request] /\ RequestsOK'
      BY <2>1, <2>8, OneMoves
    <2>10. /\ WorkersOK'
           /\ ready' \in [Workers -> BOOLEAN]
           /\ handle' \in [Workers -> Dims \cup {0}]
      BY <1>1, <2>1, KeepInv DEF t
    <2>11. /\ column' \in Dims \cup {0}
           /\ (column' # 0 <=> "chunks" \in tables')
           /\ changes' = 0 => column' \in {0, model'}
      BY <1>3, <2>1, <2>3 DEF IInv, TypeOK, t
    <2>12. TypeOK'
      BY <1>1, <2>1, <2>9, <2>10, <2>11 DEF IInv, TypeOK, Request, Entry
    <2> QED
      BY <2>9, <2>10, <2>11, <2>12 DEF IInv
  <1> QED
    BY <1>2, <1>3

LEMMA SecondLeft ==
    ASSUME NEW l \in Seq(Entry), 1 < Len(l)
    PROVE  /\ Tail(l) \in Seq(Entry) /\ Tail(l) # <<>> /\ Tail(l)[1] = l[2]
           /\ Tail(Tail(l)) \in Seq(Entry)
  <1> DEFINE u == Tail(l)
  <1>1. u \in Seq(Entry) /\ Len(u) = Len(l) - 1 /\ Len(l) \in Nat
    OBVIOUS
  <1>2. u[1] = l[2]
    OBVIOUS
  <1> HIDE DEF u
  <1>3. u # <<>> /\ Tail(u) \in Seq(Entry)
    BY <1>1
  <1> QED
    BY <1>1, <1>2, <1>3 DEF u

LEMMA CheckInv ==
    ASSUME IInv, NEW r \in Requests, Check(r)
    PROVE  IInv'
  <1>1. /\ Running(r) /\ Op(r) = "check" /\ faults' \in 0..MaxFaults
        /\ UNCHANGED <<tables, column, model, latched, faults, changes>>
    BY DEF Check, MayRun, IInv, TypeOK
  <1>2. CASE ~(Known(r, On(r)) \/ On(r) \in tables)
    <2>1. Continue(r) /\ UNCHANGED <<handle, ready>>
      BY <1>2 DEF Check
    <2> QED
      BY <1>1, <2>1, ContinueInv
  <1>3. CASE Known(r, On(r)) \/ On(r) \in tables
    <2> DEFINE t == On(r)
               q == req[r]
               k == Kept(r, t)
               h == [k EXCEPT !.todo = Tail(q.todo)]
               e == [k EXCEPT !.todo = Tail(Tail(q.todo))]
               g == Goes(k, Tail(Tail(q.todo)))
               d == Knows(q, latched)
    <2>1. Keep(r, t) /\ req' = [req EXCEPT ![r] = g]
      BY <1>3 DEF Check
    <2>2. /\ q \in Request /\ q.todo \in Seq(Entry) /\ q.todo # <<>>
          /\ Sound(q, tables, d, model, changes)
          /\ q.todo[1] = <<"check", t>>
          /\ 1 < Len(q.todo) /\ q.todo[2] = <<"create", t>>
          /\ t = "sessions" => q.kind \notin Tools
          /\ q.kind \notin Tools => At(r) \in Workers
      BY <1>1, Front
    <2>3. /\ k \in Request /\ k.todo = q.todo /\ k.kind = q.kind
          /\ k.at = q.at /\ k.vector = q.vector /\ k.latched = q.latched
          /\ k.outcome = q.outcome
          /\ q.vector_table # 0 => k.vector_table # 0
          /\ t = "chunks" => k.vector_table # 0
          /\ t # "chunks" => k.vector_table = q.vector_table
          /\ changes = 0 => k.vector_table \in {0, model}
      BY <1>1, KeptFacts
    <2>4. t \in tables
      <3>1. t = "sessions" /\ ready[At(r)] => "sessions" \in tables
        BY <2>2 DEF IInv, WorkersOK
      <3>2. q.vector_table # 0 => "chunks" \in tables
        BY <2>2 DEF Sound
      <3> QED
        BY <1>3, <3>1, <3>2 DEF Known
    <2> HIDE DEF t, q, k, d
    <2>5. /\ Tail(q.todo) \in Seq(Entry) /\ Tail(q.todo) # <<>>
          /\ Tail(q.todo)[1] = <<"create", t>>
          /\ Tail(Tail(q.todo)) \in Seq(Entry)
      BY <2>2, SecondLeft
    <2>6. /\ h \in Request /\ h.todo = Tail(q.todo) /\ h.kind = q.kind
          /\ h.at = q.at /\ h.vector = q.vector /\ h.vector_table = k.vector_table
          /\ h.latched = q.latched /\ h.outcome = q.outcome
          /\ e \in Request /\ e.todo = Tail(h.todo) /\ e.kind = h.kind
          /\ e.at = h.at /\ e.vector = h.vector
          /\ e.vector_table = h.vector_table
          /\ e.latched = h.latched /\ e.outcome = h.outcome
      BY <2>3, <2>5 DEF Request
    <2> HIDE DEF h, e
    <2>7. /\ q.outcome = "accepted" => "jobs" \in tables
          /\ k.vector_table # 0 => "chunks" \in tables
          /\ changes = 0 => /\ q.vector \in {0, model}
                            /\ k.vector_table \in {0, model}
                            /\ q.latched \in {0, model}
      BY <2>2, <2>3, <2>4 DEF Sound
    <2>8. Sound(h, tables, d, model, changes)
      <3>1. /\ q.todo[1] \notin Embeds
            /\ q.todo[1] \notin {<<"create", "chunks">>, <<"table", "chunks">>}
        BY <2>2 DEF Embeds
      <3>2. \A x : q.todo[1] \in {<<"create", x>>, <<"table", x>>} => x \in tables
        BY <2>2
      <3> QED
        BY <2>2, <2>3, <2>6, <2>7, <3>1, <3>2, After
    <2>9. Sound(e, tables, d, model, changes)
      <3>1. /\ h.todo # <<>> /\ h.todo[1] = <<"create", t>>
        BY <2>5, <2>6
      <3>2. /\ h.todo[1] \notin Embeds
            /\ h.todo[1] \in {<<"create", "chunks">>, <<"table", "chunks">>}
                => e.vector_table # 0
        BY <2>3, <2>6, <3>1 DEF Embeds
      <3>3. \A x : h.todo[1] \in {<<"create", x>>, <<"table", x>>} => x \in tables
        BY <2>4, <3>1
      <3>4. /\ e.outcome \in {h.outcome, "accepted"}
            /\ e.outcome = "accepted" => "jobs" \in tables
            /\ e.vector_table # 0 => "chunks" \in tables
            /\ changes = 0 => /\ e.vector \in {0, model}
                              /\ e.vector_table \in {0, model}
                              /\ e.latched \in {0, model}
        BY <2>6, <2>7
      <3> QED
        BY <2>6, <2>8, <3>1, <3>2, <3>3, <3>4, After
    <2>10. /\ g \in Request
           /\ Sound(g, tables, Knows(g, latched), model, changes)
      <3>1. e = [k EXCEPT !.todo = Tail(Tail(q.todo))]
        BY DEF e
      <3>2. Sound(e, tables, Knows(k, latched), model, changes)
        BY <2>3, <2>9 DEF d, Knows
      <3> QED
        BY <2>3, <2>5, <3>1, <3>2, GoesKnows
    <2> HIDE DEF g
    <2>11. req' \in [Requests -> Request] /\ RequestsOK'
      BY <1>1, <2>1, <2>10, OneMoves
    <2>12. /\ WorkersOK'
           /\ ready' \in [Workers -> BOOLEAN]
           /\ handle' \in [Workers -> Dims \cup {0}]
      BY <1>1, <2>1, <2>4, KeepInv DEF t
    <2>13. TypeOK' /\ (changes' = 0 => column' \in {0, model'})
      BY <1>1, <2>11, <2>12 DEF IInv, TypeOK, Request, Entry
    <2> QED
      BY <2>11, <2>12, <2>13 DEF IInv
  <1> QED
    BY <1>2, <1>3

\* The probe and the table before what follows the table in a question.
LEMMA ProbeThen ==
    ASSUME NEW u \in Seq(Entry), NEW kind, NEW T, NEW dim, NEW vec, NEW tab,
           Provided(u, kind, T \cup {"chunks"}, TRUE, TRUE, TRUE)
    PROVE  LET l == << <<"embed", "probe">> >> \o Ensure("chunks") \o u
           IN  l \in Seq(Entry) /\ Provided(l, kind, T, dim, vec, tab)
  <1> DEFINE a == << <<"embed", "probe">> >>
             b == Ensure("chunks")
             s == a \o b
             T2 == T \cup {"chunks"}
  <1>1. /\ a \in Seq(Entry) /\ b \in Seq(Entry) /\ Len(a) = 1 /\ Len(b) = 2
        /\ a[1] = <<"embed", "probe">>
        /\ b[1] = <<"check", "chunks">> /\ b[2] = <<"create", "chunks">>
    BY DEF Ensure, Entry, Ops, Tables
  <1> HIDE DEF a, b
  <1>2. /\ s \in Seq(Entry) /\ Len(s) = Len(a) + 2
        /\ \A i \in 1..Len(a) : s[i] = a[i]
        /\ s[Len(a) + 1] = b[1] /\ s[Len(a) + 2] = b[2]
    BY <1>1, TwoMore
  <1> HIDE DEF s, T2
  <1>3. /\ Len(s) = 3 /\ s[1] = <<"embed", "probe">>
        /\ s[2] = <<"check", "chunks">> /\ s[3] = <<"create", "chunks">>
    BY <1>1, <1>2
  <1>4. \A i \in 1..Len(s) : i \in {1, 2, 3}
    BY <1>3
  <1>5. Ahead(s, 2, Embeds) /\ Ahead(s, 3, Embeds)
    <2>1. 1 \in 1..(2 - 1) /\ 1 \in 1..(3 - 1)
      OBVIOUS
    <2> QED
      BY <1>3, <2>1 DEF Ahead, Embeds
  <1>6. Provided(s, kind, T, dim, vec, tab)
    <2> SUFFICES ASSUME NEW i \in 1..Len(s)
                 PROVE  EntryProvided(s, i, kind, T, dim, vec, tab)
      BY DEF Provided
    <2> QED
      BY <1>3, <1>4, <1>5 DEF EntryProvided, Needs, Tables
  <1>7. /\ 1 \in 1..Len(s) /\ s[1] \in Embeds
        /\ 3 \in 1..Len(s) /\ s[3] \in Makes("chunks")
    BY <1>3 DEF Embeds, Makes
  <1>8. /\ \A t \in T2 : t \in T \/ \E i \in 1..Len(s) : s[i] \in Makes(t)
        /\ \E i \in 1..Len(s) : s[i] \in Embeds
        /\ \E i \in 1..Len(s) : s[i] \in Makes("chunks")
    BY <1>7 DEF T2
  <1>9. Provided(u, kind, T2, TRUE, TRUE, TRUE)
    BY DEF T2
  <1>10. s \o u \in Seq(Entry) /\ Provided(s \o u, kind, T, dim, vec, tab)
    BY <1>2, <1>6, <1>8, <1>9, ProvidedAfter
  <1> QED
    BY <1>10 DEF s, a, b

LEMMA VectorTableInv ==
    ASSUME IInv, NEW r \in Requests, VectorTable(r)
    PROVE  IInv'
  <1>1. /\ Running(r) /\ Op(r) = "table" /\ faults' \in 0..MaxFaults
        /\ UNCHANGED <<tables, column, model, latched, handle, ready, changes>>
    BY DEF VectorTable, MayRun, IInv, TypeOK
  <1> DEFINE q == req[r]
             d == Knows(q, latched)
             rest == Tail(q.todo)
             full == << <<"embed", "probe">> >> \o Ensure("chunks") \o rest
             g == IF handle[At(r)] # 0
                  THEN [q EXCEPT !.todo = rest, !.vector_table = handle[At(r)]]
                  ELSE [q EXCEPT !.todo = full]
  <1>2. /\ q \in Request /\ q.todo \in Seq(Entry) /\ q.todo # <<>>
        /\ Sound(q, tables, d, model, changes)
        /\ q.todo[1] = <<"table", "chunks">>
        /\ q.kind \notin Tools /\ At(r) \in Workers
    BY <1>1, Front
  <1>3. req' = [req EXCEPT ![r] = g]
    BY DEF VectorTable
  <1>4. /\ q.outcome = "accepted" => "jobs" \in tables
        /\ q.vector_table # 0 => "chunks" \in tables
        /\ changes = 0 => /\ q.vector \in {0, model}
                          /\ q.vector_table \in {0, model}
                          /\ q.latched \in {0, model}
    BY <1>2 DEF Sound
  <1>5. /\ handle[At(r)] \in Dims \cup {0}
        /\ handle[At(r)] # 0 => "chunks" \in tables
        /\ changes = 0 => handle[At(r)] \in {0, model}
    BY <1>2 DEF IInv, TypeOK, WorkersOK
  <1>6. rest \in Seq(Entry)
    BY <1>2
  <1> HIDE DEF q, d, rest, full
  <1>7. CASE handle[At(r)] # 0
    <2> DEFINE h == [q EXCEPT !.todo = rest, !.vector_table = handle[At(r)]]
    <2>1. /\ h \in Request /\ h.todo = Tail(q.todo) /\ h.kind = q.kind
          /\ h.at = q.at /\ h.vector = q.vector
          /\ h.vector_table = handle[At(r)]
          /\ h.latched = q.latched /\ h.outcome = q.outcome
      BY <1>2, <1>5, <1>6 DEF Request, rest
    <2> HIDE DEF h
    <2>2. Sound(h, tables, d, model, changes)
      <3>1. /\ q.todo[1] \notin Embeds /\ h.vector_table # 0
        BY <1>2, <1>7, <2>1 DEF Embeds
      <3>2. \A t : q.todo[1] \in {<<"create", t>>, <<"table", t>>} => t \in tables
        BY <1>2, <1>5, <1>7
      <3>3. /\ h.outcome = "accepted" => "jobs" \in tables
            /\ h.vector_table # 0 => "chunks" \in tables
            /\ changes = 0 => /\ h.vector \in {0, model}
                              /\ h.vector_table \in {0, model}
                              /\ h.latched \in {0, model}
        BY <1>4, <1>5, <2>1
      <3> QED
        BY <1>2, <2>1, <3>1, <3>2, <3>3, After
    <2>3. Knows(h, latched) = d
      BY <2>1 DEF d, Knows
    <2>4. g = h
      BY <1>7 DEF h
    <2> HIDE DEF g
    <2> QED
      BY <1>1, <1>3, <2>1, <2>2, <2>3, <2>4, Quiet
  <1>8. CASE handle[At(r)] = 0
    <2>1. Provided(q.todo, q.kind, tables, d # 0, q.vector # 0, q.vector_table # 0)
      BY <1>2 DEF Sound
    <2> DEFINE D == d # 0
               V == q.vector # 0
               B == q.vector_table # 0
               T2 == tables \cup {"chunks"}
               l == q.todo
    <2>2. /\ D \in BOOLEAN /\ V \in BOOLEAN /\ B \in BOOLEAN
          /\ l \in Seq(Entry) /\ l # <<>> /\ l[1] = <<"table", "chunks">>
          /\ Provided(l, q.kind, tables, D, V, B)
          /\ tables \subseteq T2 /\ "chunks" \in T2
          /\ rest = Tail(l)
      BY <1>2, <2>1 DEF rest
    <2> HIDE DEF D, V, B, T2, l
    <2>3. Provided(rest, q.kind, T2, TRUE, TRUE, TRUE)
      <3>1. \A t : l[1] \in {<<"create", t>>, <<"table", t>>} => t \in T2
        BY <2>2
      <3> QED
        BY <2>2, <3>1, ProvidedTail
    <2>4. full \in Seq(Entry) /\ Provided(full, q.kind, tables, D, V, B)
      <3>1. Provided(rest, q.kind, tables \cup {"chunks"}, TRUE, TRUE, TRUE)
        BY <2>3 DEF T2
      <3> QED
        BY <1>6, <3>1, ProbeThen DEF full
    <2> DEFINE h == [q EXCEPT !.todo = full]
    <2>5. /\ h \in Request /\ h.todo = full /\ h.kind = q.kind
          /\ h.at = q.at /\ h.vector = q.vector
          /\ h.vector_table = q.vector_table
          /\ h.latched = q.latched /\ h.outcome = q.outcome
      BY <1>2, <2>4 DEF Request
    <2>6. g = h
      BY <1>8
    <2> HIDE DEF h, g
    <2>7. Provided(h.todo, h.kind, tables, d # 0, h.vector # 0, h.vector_table # 0)
      BY <2>4, <2>5 DEF D, V, B
    <2>8. /\ q.kind \in KindNames /\ q.at \in Workers
      BY <1>2 DEF Sound
    <2>9. Sound(h, tables, d, model, changes)
      BY <1>2, <1>4, <2>5, <2>7, <2>8 DEF Sound
    <2>10. Knows(h, latched) = d
      BY <2>5 DEF d, Knows
    <2> QED
      BY <1>1, <1>3, <2>5, <2>6, <2>9, <2>10, Quiet
  <1> QED
    BY <1>7, <1>8

LEMMA EmbeddedInv ==
    ASSUME IInv, NEW r \in Requests, Embedded(r)
    PROVE  IInv'
  <1>1. /\ Running(r) /\ Op(r) = "embed" /\ faults' \in 0..MaxFaults
        /\ UNCHANGED <<tables, column, model, handle, ready, changes>>
    BY DEF Embedded, MayRun, IInv, TypeOK
  <1> DEFINE q == req[r]
             d == Knows(q, latched)
             d2 == Knows(q, latched')
             rest == Tail(q.todo)
             p == Goes(q, rest)
             known == IF IsTool(r) THEN Latch(p.latched) ELSE p.latched
             g == [p EXCEPT !.vector = model, !.latched = known]
  <1>2. /\ q \in Request /\ q.todo \in Seq(Entry) /\ q.todo # <<>>
        /\ Sound(q, tables, d, model, changes)
        /\ q.todo[1] = <<"embed", On(r)>>
        /\ IsTool(r) <=> q.kind \in Tools
        /\ q.kind \notin Tools => At(r) \in Workers
        /\ q.at = At(r)
    BY <1>1, Front DEF At
  <1>3. req' = [req EXCEPT ![r] = g]
    BY DEF Embedded, Past
  <1>4. model \in Dims /\ model # 0 /\ latched \in [Workers -> Dims \cup {0}]
    BY DimsPositive DEF IInv, TypeOK
  <1>5. latched' = [w \in Workers |->
            IF w = At(r) THEN Latch(latched[w]) ELSE latched[w]]
    BY DEF Embedded
  <1>6. /\ latched' \in [Workers -> Dims \cup {0}]
        /\ \A w \in Workers :
                /\ latched[w] # 0 => latched'[w] = latched[w]
                /\ latched'[w] \in {latched[w], model}
        /\ q.kind \notin Tools => latched'[q.at] # 0
    BY <1>2, <1>4, <1>5 DEF Latch
  <1>7. rest \in Seq(Entry)
    BY <1>2
  <1>8. /\ q.outcome = "accepted" => "jobs" \in tables
        /\ q.outcome = "missing" => q.kind \in {"reset", "poll"}
        /\ q.vector_table # 0 => "chunks" \in tables
        /\ changes = 0 => /\ q.vector_table \in {0, model}
                          /\ q.latched \in {0, model}
                          /\ q.outcome # "refused"
    BY <1>2 DEF Sound
  <1> HIDE DEF q, d, d2, rest
  <1>9. g \in Request /\ Sound(g, tables, Knows(g, latched'), model, changes)
    <2>1. CASE rest = <<>>
      <3>1. p = [Idle EXCEPT !.kind = q.kind, !.at = q.at,
                     !.outcome = IF q.outcome \in {"none", "accepted"}
                                 THEN "answered" ELSE q.outcome]
        BY <2>1 DEF Goes
      <3>2. /\ p \in Request /\ p.todo = <<>> /\ p.kind = q.kind
            /\ p.vector_table = 0 /\ p.latched = 0
            /\ p.outcome # "accepted"
            /\ p.outcome = "missing" => q.outcome = "missing"
            /\ p.outcome = "refused" => q.outcome = "refused"
        BY <1>2, <3>1, IdleSound DEF Idle, Request, Outcomes
      <3> HIDE DEF p
      <3>3. known \in {0, model}
        BY <3>2 DEF Latch
      <3> HIDE DEF known
      <3>4. /\ g \in Request /\ g.todo = <<>> /\ g.kind = q.kind
            /\ g.vector = model /\ g.vector_table = 0 /\ g.latched = known
            /\ g.outcome = p.outcome
        BY <1>4, <3>2, <3>3 DEF Request
      <3> HIDE DEF g
      <3>5. Provided(g.todo, g.kind, tables, Knows(g, latched') # 0,
                     g.vector # 0, g.vector_table # 0)
        BY <3>4, NothingProvided
      <3> QED
        BY <1>8, <3>2, <3>3, <3>4, <3>5 DEF Sound
    <2>2. CASE rest # <<>>
      <3>1. p = [q EXCEPT !.todo = rest]
        BY <2>2 DEF Goes
      <3>2. /\ p \in Request /\ p.todo = rest /\ p.kind = q.kind /\ p.at = q.at
            /\ p.vector_table = q.vector_table /\ p.latched = q.latched
            /\ p.outcome = q.outcome
        BY <1>2, <1>7, <3>1 DEF Request
      <3> HIDE DEF p
      <3>3. /\ known \in Dims \cup {0}
            /\ q.latched # 0 => known = q.latched
            /\ q.kind \in Tools => known # 0
            /\ changes = 0 => known \in {0, model}
        BY <1>2, <1>4, <1>8, <3>2 DEF Latch, Request
      <3> HIDE DEF known
      <3>4. /\ g \in Request /\ g.todo = Tail(q.todo) /\ g.kind = q.kind
            /\ g.at = q.at /\ g.vector = model /\ g.latched = known
            /\ g.vector_table = q.vector_table /\ g.outcome = q.outcome
        BY <1>4, <3>2, <3>3 DEF Request, rest
      <3> HIDE DEF g
      <3>5. Knows(g, latched') # 0
        BY <1>6, <3>3, <3>4 DEF Knows
      <3>6. /\ q.todo[1] \notin {<<"create", "chunks">>, <<"table", "chunks">>}
            /\ \A t : q.todo[1] \in {<<"create", t>>, <<"table", t>>} => t \in tables
        BY <1>2
      <3> DEFINE e == Knows(g, latched')
      <3>7. e # 0
        BY <3>5
      <3> HIDE DEF e
      <3>8. Sound(g, tables, e, model, changes)
        BY <1>2, <1>4, <1>8, <3>3, <3>4, <3>6, <3>7, After
      <3> QED
        BY <3>4, <3>8 DEF e
    <2> QED
      BY <2>1, <2>2
  <1> HIDE DEF g
  <1>10. req' \in [Requests -> Request] /\ RequestsOK'
    BY <1>1, <1>3, <1>6, <1>9, OneMoves
  <1>11. WorkersOK'
    BY <1>1, <1>6 DEF IInv, WorkersOK
  <1>12. TypeOK' /\ (changes' = 0 => column' \in {0, model'})
    BY <1>1, <1>6, <1>10 DEF IInv, TypeOK, Request, Entry
  <1> QED
    BY <1>10, <1>11, <1>12 DEF IInv

LEMMA RestartInv ==
    ASSUME IInv, NEW w \in Workers, Restart(w)
    PROVE  IInv'
  <1>1. req' = [r \in Requests |-> IF At(r) = w THEN Idle ELSE req[r]]
    BY DEF Restart
  <1>2. req \in [Requests -> Request] /\ latched \in [Workers -> Dims \cup {0}]
    BY Types DEF IInv
  <1>3. req' \in [Requests -> Request]
    BY <1>1, <1>2, IdleSound
  <1>4. UNCHANGED <<tables, column, model, changes>>
        /\ latched' = [latched EXCEPT ![w] = 0]
        /\ handle' = [handle EXCEPT ![w] = 0]
        /\ ready' = [ready EXCEPT ![w] = FALSE]
    BY DEF Restart
  <1>5. ASSUME NEW r \in Requests
        PROVE  Sound(req'[r], tables', Knows(req'[r], latched'), model', changes')
    <2>1. CASE At(r) = w
      BY <1>1, <1>4, <2>1, IdleSound
    <2>2. CASE At(r) # w
      <3> DEFINE q == req[r]
      <3>1. q \in Request /\ req'[r] = q /\ q.at # w
        BY <1>1, <1>2, <2>2 DEF At
      <3>2. Sound(q, tables, Knows(q, latched), model, changes)
        BY DEF IInv, RequestsOK
      <3> HIDE DEF q
      <3>3. q.todo # <<>> => Knows(q, latched') = Knows(q, latched)
        BY <1>2, <1>4, <3>1, <3>2 DEF Knows, Sound
      <3>4. Sound(q, tables, Knows(q, latched'), model, changes)
        BY <3>1, <3>2, <3>3, SoundMore
      <3> QED
        BY <1>4, <3>1, <3>4
    <2> QED
      BY <2>1, <2>2
  <1>6. RequestsOK'
    BY <1>5 DEF RequestsOK
  <1>7. WorkersOK' /\ (changes' = 0 => column' \in {0, model'})
    BY <1>4 DEF IInv, TypeOK, WorkersOK
  <1>8. faults' \in 0..MaxFaults
    BY BoundsAssumption DEF Restart, IInv, TypeOK
  <1>9. TypeOK'
    BY <1>3, <1>4, <1>8 DEF IInv, TypeOK, Request, Entry
  <1> QED
    BY <1>6, <1>7, <1>9 DEF IInv

LEMMA ChangeModelInv ==
    ASSUME IInv, ChangeModel
    PROVE  IInv'
  <1>1. /\ changes' \in 0..MaxChanges /\ changes' # 0 /\ model' \in Dims
        /\ UNCHANGED <<tables, column, latched, handle, ready, req, faults>>
    BY BoundsAssumption DEF ChangeModel, IInv, TypeOK
  <1>2. RequestsOK'
    BY <1>1 DEF IInv, RequestsOK, Sound
  <1> QED
    BY <1>1, <1>2 DEF IInv, TypeOK, WorkersOK

LEMMA StutterInv ==
    ASSUME IInv, UNCHANGED vars
    PROVE  IInv'
  BY DEF IInv, TypeOK, WorkersOK, RequestsOK, vars

LEMMA Correct == Spec => []IInv
  <1>1. Init => IInv
    BY InitInv
  <1>2. IInv /\ [Next]_vars => IInv'
    <2> SUFFICES ASSUME IInv, [Next]_vars PROVE IInv'
      OBVIOUS
    <2>1. CASE \E r \in Requests : Start(r) \/ Step(r) \/ Fault(r)
      <3>1. PICK r \in Requests : Start(r) \/ Step(r) \/ Fault(r)
        BY <2>1
      <3> QED
        BY <3>1, StartInv, CheckInv, CreateInv, UseInv, ReflectInv,
           VectorTableInv, AnsweredInv, EmbeddedInv, SearchInv, UpsertInv,
           FaultInv DEF Step
    <2>2. CASE \E w \in Workers : Restart(w)
      BY <2>2, RestartInv
    <2>3. CASE ChangeModel
      BY <2>3, ChangeModelInv
    <2>4. CASE UNCHANGED vars
      BY <2>4, StutterInv
    <2> QED
      BY <2>1, <2>2, <2>3, <2>4 DEF Next
  <1> QED
    BY <1>1, <1>2, PTL DEF Spec

-----------------------------------------------------------------------------
(* The theorems.                                                           *)

\* Every variable stays within its type, and the column of chunks has a
\* dimension exactly as long as the table exists.
THEOREM TypeCorrect == Spec => []TypeOK
  <1>1. IInv => TypeOK
    BY DEF IInv
  <1> QED
    BY <1>1, Correct, PTL

\* A turn, an ingestion or a tool makes sure of every table before it uses it
\* (get_session_store, start_ingestion, get_vector_table, ensure_schema), so
\* that none meets a missing one, whatever the other processes do; and what a
\* worker remembers in app.state of the tables is so.
THEOREM TablesCorrect == Spec => []OwnTablesThere
  <1>1. IInv => OwnTablesThere
    BY DEF IInv, OwnTablesThere, WorkersOK, RequestsOK, Sound
  <1> QED
    BY <1>1, Correct, PTL

\* As long as the embedding model is not replaced no vector is refused,
\* whichever request embedded first and whoever created the chunks table; and
\* a worker's table always has the dimension its provider knows.
THEOREM DimensionsCorrect == Spec => []DimensionsAgree
  <1>1. IInv => DimensionsAgree
    BY DEF IInv, DimensionsAgree, WorkersOK, RequestsOK, Sound
  <1> QED
    BY <1>1, Correct, PTL

-----------------------------------------------------------------------------
(* Who waits for whom.                                                     *)

\* Of the requests a worker has begun, one at most is between two awaits.
OneBetween ==
    \A r, s \in Requests :
        r # s /\ Running(r) /\ Running(s) /\ At(r) \in Workers /\ At(s) = At(r)
            => Awaits(r) \/ Awaits(s)

LEMMA GoesHome ==
    ASSUME NEW q \in Request, NEW list
    PROVE  Goes(q, list).at = q.at /\ "at" \in DOMAIN Goes(q, list)
  <1>1. CASE list # <<>>
    <2> DEFINE g == [q EXCEPT !.todo = list]
    <2>1. Goes(q, list) = g
      BY <1>1 DEF Goes
    <2>2. DOMAIN g = DOMAIN q /\ g.at = q.at /\ "at" \in DOMAIN q
      BY DEF Request
    <2> HIDE DEF g
    <2> QED
      BY <2>1, <2>2
  <1>2. CASE list = <<>>
    <2> DEFINE o == IF q.outcome \in {"none", "accepted"} THEN "answered"
                                                          ELSE q.outcome
               g == [Idle EXCEPT !.kind = q.kind, !.at = q.at, !.outcome = o]
    <2>1. Goes(q, list) = g
      BY <1>2 DEF Goes
    <2> HIDE DEF o
    <2>2. g.at = q.at /\ "at" \in DOMAIN g
      BY DEF Idle
    <2> HIDE DEF g
    <2> QED
      BY <2>1, <2>2
  <1> QED
    BY <1>1, <1>2

\* What a request does leaves it with its worker.
LEMMA StaysHome ==
    ASSUME IInv, NEW r \in Requests, Step(r) \/ Fault(r)
    PROVE  /\ MayRun(r)
           /\ \E q : req' = [req EXCEPT ![r] = q] /\ q.at = req[r].at
  <1> DEFINE Goal == \E q : req' = [req EXCEPT ![r] = q] /\ q.at = req[r].at
  <1>1. req \in [Requests -> Request] /\ req[r] \in Request
    BY Types DEF IInv
  <1>2. MayRun(r)
    BY DEF Step, Fault, Check, Create, Use, Reflect, VectorTable, Answered,
           Embedded, Search, Upsert
  <1>3. ASSUME NEW why, Raise(r, why) PROVE Goal
    <2> DEFINE todo == IF req[r].outcome = "accepted" THEN << <<"use", "jobs">> >>
                                                      ELSE <<>>
               q == [Idle EXCEPT !.kind = req[r].kind, !.at = req[r].at,
                                 !.todo = todo, !.outcome = why]
    <2>1. req' = [req EXCEPT ![r] = q]
      BY <1>3 DEF Raise
    <2> HIDE DEF todo
    <2>2. q.at = req[r].at
      BY DEF Idle
    <2> HIDE DEF q
    <2> QED
      BY <2>1, <2>2
  <1>4. ASSUME Continue(r) PROVE Goal
    BY <1>1, <1>4, GoesHome DEF Continue, Past
  <1>5. ASSUME Fault(r) PROVE Goal
    BY <1>3, <1>5 DEF Fault
  <1>6. ASSUME Use(r) \/ Search(r) \/ Upsert(r) PROVE Goal
    BY <1>3, <1>4, <1>6 DEF Use, Search, Upsert
  <1>7. ASSUME Check(r) \/ Create(r) PROVE Goal
    <2>1. Running(r) /\ Op(r) \in {"check", "create"}
      BY <1>7 DEF Check, Create, MayRun
    <2> DEFINE k == Kept(r, On(r))
    <2>2. k \in Request /\ k.at = req[r].at /\ k.todo = req[r].todo
      BY <2>1, KeptFacts
    <2>3. \/ Continue(r) \/ Raise(r, "raised")
          \/ req' = [req EXCEPT ![r] = Goes(k, Tail(Tail(req[r].todo)))]
          \/ req' = [req EXCEPT ![r] = Goes(k, Tail(req[r].todo))]
      BY <1>1, <1>7 DEF Check, Create
    <2> HIDE DEF k
    <2> QED
      BY <1>3, <1>4, <2>2, <2>3, GoesHome
  <1>8. ASSUME Reflect(r) PROVE Goal
    <2>1. Continue(r) \/ req' = [req EXCEPT ![r] = Goes(req[r], <<>>)]
      BY <1>1, <1>8 DEF Reflect
    <2> QED
      BY <1>1, <1>4, <2>1, GoesHome
  <1>9. ASSUME VectorTable(r) PROVE Goal
    <2>1. PICK todo, table :
            req' = [req EXCEPT ![r] = [req[r] EXCEPT !.todo = todo,
                                                     !.vector_table = table]]
      <3>1. [req[r] EXCEPT !.todo = << <<"embed", "probe">> >>
                                    \o Ensure("chunks") \o Tail(req[r].todo)]
            = [req[r] EXCEPT !.todo = << <<"embed", "probe">> >>
                                    \o Ensure("chunks") \o Tail(req[r].todo),
                             !.vector_table = req[r].vector_table]
        BY <1>1 DEF Request
      <3> QED
        BY <1>9, <3>1 DEF VectorTable
    <2>2. [req[r] EXCEPT !.todo = todo, !.vector_table = table].at = req[r].at
      BY <1>1 DEF Request
    <2> QED
      BY <2>1, <2>2
  <1>10. ASSUME Answered(r) PROVE Goal
    <2> DEFINE p == Past(r)
    <2>1. p.at = req[r].at /\ "at" \in DOMAIN p
      BY <1>1, GoesHome DEF Past
    <2>2. PICK o : req' = [req EXCEPT ![r] = [p EXCEPT !.outcome = o]]
      BY <1>10 DEF Answered
    <2> HIDE DEF p
    <2>3. [p EXCEPT !.outcome = o].at = p.at
      BY <2>1
    <2> QED
      BY <2>1, <2>2, <2>3
  <1>11. ASSUME Embedded(r) PROVE Goal
    <2> DEFINE p == Past(r)
    <2>1. p.at = req[r].at /\ "at" \in DOMAIN p
      BY <1>1, GoesHome DEF Past
    <2>2. PICK v, l : req' = [req EXCEPT ![r] = [p EXCEPT !.vector = v,
                                                          !.latched = l]]
      BY <1>11 DEF Embedded
    <2> HIDE DEF p
    <2>3. [p EXCEPT !.vector = v, !.latched = l].at = p.at
      BY <2>1
    <2> QED
      BY <2>1, <2>2, <2>3
  <1> QED
    BY <1>2, <1>5, <1>6, <1>7, <1>8, <1>9, <1>10, <1>11 DEF Step

LEMMA OneBetweenNext ==
    IInv /\ OneBetween /\ [Next]_vars => OneBetween'
  <1> SUFFICES ASSUME IInv, OneBetween, [Next]_vars
               PROVE  OneBetween'
    OBVIOUS
  <1>1. req \in [Requests -> Request]
    BY Types DEF IInv
  \* One request moves, and finds the loop of its worker free.
  <1>2. ASSUME NEW r \in Requests, NEW q, req' = [req EXCEPT ![r] = q],
               q.at \in Workers => LoopFree(q.at, r)
        PROVE  OneBetween'
    <2>1. /\ req'[r] = q
          /\ \A s \in Requests \ {r} : req'[s] = req[s]
      BY <1>1, <1>2
    <2>2. \A s \in Requests \ {r} : /\ Running(s)' = Running(s)
                                    /\ Awaits(s)' = Awaits(s)
                                    /\ At(s)' = At(s)
      BY <2>1 DEF Running, Awaits, Op, At
    <2>3. \A s \in Requests \ {r} :
                Running(s)' /\ At(s)' \in Workers /\ At(s)' = At(r)'
                    => Awaits(s)'
      BY <1>2, <2>1, <2>2 DEF LoopFree, At
    <2> QED
      BY <2>2, <2>3 DEF OneBetween
  <1>3. ASSUME NEW r \in Requests, Start(r)
        PROVE  OneBetween'
    <2>1. PICK kind, todo, w :
                /\ w \in IF kind \in Tools THEN {NoWorker} ELSE Home[r]
                /\ kind \in Tools \/ LoopFree(w, r)
                /\ req' = [req EXCEPT
                        ![r] = [Idle EXCEPT !.kind = kind, !.at = w,
                                            !.todo = todo]]
      BY <1>3 DEF Start
    <2>2. [Idle EXCEPT !.kind = kind, !.at = w, !.todo = todo].at = w
      BY DEF Idle
    <2> QED
      BY <1>2, <2>1, <2>2, RequestsAssumption
  <1>4. ASSUME NEW r \in Requests, Step(r) \/ Fault(r)
        PROVE  OneBetween'
    <2>1. PICK q : req' = [req EXCEPT ![r] = q] /\ q.at = req[r].at
      BY <1>4, StaysHome
    <2>2. req[r].at \in Workers => LoopFree(req[r].at, r)
      <3>1. MayRun(r) /\ Sound(req[r], tables, Knows(req[r], latched), model, changes)
        BY <1>4, StaysHome DEF IInv, RequestsOK
      <3> QED
        BY <3>1, RequestsAssumption DEF MayRun, Running, IsTool, At, Sound
    <2> QED
      BY <1>2, <2>1, <2>2
  <1>5. ASSUME NEW w \in Workers, Restart(w)
        PROVE  OneBetween'
    <2>1. \A s \in Requests : req'[s] = IF At(s) = w THEN Idle ELSE req[s]
      BY <1>5 DEF Restart
    <2>2. \A s \in Requests : Running(s)' => /\ Running(s)
                                             /\ Awaits(s)' = Awaits(s)
                                             /\ At(s)' = At(s)
      BY <2>1 DEF Running, Awaits, Op, At, Idle
    <2> QED
      BY <2>2 DEF OneBetween
  <1>6. ChangeModel \/ UNCHANGED vars => req' = req
    BY DEF ChangeModel, vars
  <1>7. req' = req => OneBetween'
    BY DEF OneBetween, Running, Awaits, Op, At
  <1> QED
    BY <1>3, <1>4, <1>5, <1>6, <1>7, Zenon DEF Next

\* A request under way can go on, or one of its worker can that is between two
\* awaits and needs nothing but the database.  Nobody waits for a request of
\* another process, and neither a failure nor a death leaves a loop taken.  It
\* is what QuestionsServed rests on.
THEOREM NobodyStuck ==
    Spec => [](\A r \in Requests : Running(r) =>
                  \/ MayRun(r)
                  \/ \E s \in Requests : At(s) = At(r) /\ MayRun(s) /\ ~Awaits(s))
  <1>1. IInv /\ OneBetween =>
            \A r \in Requests : Running(r) =>
                  \/ MayRun(r)
                  \/ \E s \in Requests : At(s) = At(r) /\ MayRun(s) /\ ~Awaits(s)
    <2> SUFFICES ASSUME IInv, OneBetween, NEW r \in Requests, Running(r),
                        ~MayRun(r)
                 PROVE  \E s \in Requests :
                            At(s) = At(r) /\ MayRun(s) /\ ~Awaits(s)
      OBVIOUS
    <2>1. ~IsTool(r) /\ ~LoopFree(At(r), r)
      BY DEF MayRun
    <2>2. At(r) \in Workers
      BY <2>1 DEF IInv, RequestsOK, Sound, Running, IsTool, At
    <2>3. PICK s \in Requests \ {r} : At(s) = At(r) /\ Running(s) /\ ~Awaits(s)
      BY <2>1 DEF LoopFree
    <2>4. LoopFree(At(s), s)
      BY <2>2, <2>3 DEF LoopFree, OneBetween
    <2> QED
      BY <2>3, <2>4 DEF MayRun
  <1>2. Init => OneBetween
    BY DEF Init, OneBetween, Running, Idle
  <1> QED
    BY <1>1, <1>2, OneBetweenNext, Correct, PTL DEF Spec

=============================================================================
