---------------------------- MODULE ServiceSetup ----------------------------
(***************************************************************************)
(* How the service comes to have its tables.  Nothing is created when a    *)
(* process starts: every request creates the tables it needs if they are   *)
(* not there, and a worker remembers some of what it has found, in         *)
(* app.state and in its embedding provider.  The chunks table is created   *)
(* for vectors of the dimension the provider answered with first.          *)
(*                                                                         *)
(* A request is the list of the statements and calls it still has to make. *)
(* A worker runs one request at a time and changes to another only where   *)
(* the running one awaits a provider; the workers and the command line     *)
(* tools share nothing but the database.                                   *)
(***************************************************************************)
EXTENDS Integers, Sequences

CONSTANTS
    Workers,     \* processes of the API, each with its own app.state
    NoWorker,    \* where a tool runs
    Requests,    \* requests and runs of a tool, made again when they are over
    Home,        \* the workers that may get a request
    Kinds,       \* the kinds of request it may be
    Dims,        \* dimensions a model's vectors may have
    FirstDim,    \* that of the embedding model in the settings
    MaxTables,   \* bound: tables with rows in one ingestion
    MaxFaults,   \* bound: statements and calls that fail, and processes that die
    MaxChanges   \* bound: times the embedding model is replaced

\* The ingestion command and the evaluation script, processes of their own.
Tools == {"cli", "evaluate"}

KindNames == {"question", "greeting", "ingest", "poll", "reset"} \cup Tools

ASSUME RequestsAssumption ==
    /\ NoWorker \notin Workers
    /\ Home \in [Requests -> SUBSET Workers]
    /\ Kinds \in [Requests -> SUBSET KindNames]
ASSUME DimsAssumption == Dims \subseteq Nat \ {0} /\ FirstDim \in Dims
ASSUME BoundsAssumption ==
    MaxTables \in Nat /\ MaxFaults \in Nat /\ MaxChanges \in Nat

VARIABLES
    tables,    \* tables of the vector database that exist
    column,    \* dimension of the column chunks.embedding, 0 without the table
    model,     \* dimension of the vectors the embedding model answers with
    latched,   \* dimension a worker's embedding provider knows, 0 for None
    handle,    \* dimension of app.state.vector_table, 0 for None
    ready,     \* app.state.session_schema_ready
    req,       \* the requests
    faults,    \* failures and deaths so far
    changes    \* replacements of the model so far

vars == <<tables, column, model, latched, handle, ready, req, faults, changes>>

Tables == {"sessions", "jobs", "watermarks", "chunks"}

Ops == {"check", "create", "use", "reflect", "call", "rewrite", "embed",
        "table", "search", "upsert", "accept"}

\* vector_table is the dimension of the table the request holds, vector that of
\* the last embedding it was given, and latched what the provider of a tool
\* knows; outcome is how it ended, or that its job was accepted.
Idle == [kind |-> "none", at |-> NoWorker, todo |-> <<>>, vector_table |-> 0,
         vector |-> 0, latched |-> 0, outcome |-> "none"]

-----------------------------------------------------------------------------
(* What each kind of request does, from the first statement to the last.   *)

\* create_all with checkfirst: has_table, and CREATE TABLE if it has not.
Ensure(t) == << <<"check", t>>, <<"create", t>> >>

\* Small talk, and a question; without history to rewrite it with, or a chunk
\* to answer it from, the call stands for none.
Greeting == Ensure("sessions") \o
    << <<"use", "sessions">>, <<"call", "chat">>, <<"use", "sessions">> >>

Question == Ensure("sessions") \o
    << <<"use", "sessions">>, <<"rewrite", "chat">>, <<"table", "chunks">>,
       <<"embed", "query">>, <<"search", "chunks">>, <<"call", "chat">>,
       <<"use", "sessions">> >>

\* A table with rows: its watermark, one batch, and its watermark again.
OneTable == << <<"use", "watermarks">>, <<"embed", "chunks">> >>
            \o Ensure("chunks")
            \o << <<"upsert", "chunks">>, <<"use", "watermarks">> >>

\* The n tables with rows of a run, one after the other, or one without.
TablesOf(n) ==
    IF n = 0 THEN << <<"use", "watermarks">> >>
    ELSE [i \in 1..(n * Len(OneTable)) |-> OneTable[((i - 1) % Len(OneTable)) + 1]]

\* Faulty: the run relies on the request that started it.
RunTrusting(n) == TablesOf(n)

\* run_ingestion_for_tables.
Run(n) == Ensure("watermarks") \o TablesOf(n)

\* start_ingestion, and _run_ingestion_job once the answer is out.
Ingest(n) == Ensure("jobs") \o Ensure("watermarks") \o
    << <<"use", "jobs">>, <<"accept", "job">>, <<"use", "jobs">> >>
    \o Run(n) \o << <<"use", "jobs">> >>

Reset == << <<"reflect", "chunks">>, <<"use", "chunks">>, <<"use", "watermarks">> >>

Poll == << <<"use", "jobs">> >>

Evaluate == << <<"embed", "probe">> >> \o Ensure("chunks")
            \o << <<"embed", "query">>, <<"search", "chunks">> >>

Programs(kind) ==
    CASE kind = "question" -> {Question}
      [] kind = "greeting" -> {Greeting}
      [] kind = "ingest" -> {Ingest(n) : n \in 0..MaxTables}
      [] kind = "poll" -> {Poll}
      [] kind = "reset" -> {Reset}
      [] kind = "cli" -> {Run(n) : n \in 0..MaxTables}
      [] kind = "evaluate" -> {Evaluate}

-----------------------------------------------------------------------------
Init ==
    /\ tables = {}
    /\ column = 0
    /\ model = FirstDim
    /\ latched = [w \in Workers |-> 0]
    /\ handle = [w \in Workers |-> 0]
    /\ ready = [w \in Workers |-> FALSE]
    /\ req = [r \in Requests |-> Idle]
    /\ faults = 0
    /\ changes = 0

Running(r) == req[r].todo # <<>>

Op(r) == Head(req[r].todo)[1]
On(r) == Head(req[r].todo)[2]

\* Awaiting a provider, or the moment between the answer and the job.
Awaits(r) == Op(r) \in {"call", "rewrite", "embed", "accept"}

At(r) == req[r].at
IsTool(r) == req[r].kind \in Tools

\* The event loop of the worker is at one request at a time; a tool is alone.
LoopFree(w, r) ==
    \A s \in Requests \ {r} : At(s) = w /\ Running(s) => Awaits(s)

MayRun(r) == Running(r) /\ (IsTool(r) \/ LoopFree(At(r), r))

\* embedding_provider.dimension
Dimension(r) == IF IsTool(r) THEN req[r].latched ELSE latched[At(r)]

\* The request goes on with the list; the last statement ends it well unless
\* it is the one that records a failure.
Goes(request, list) ==
    IF list # <<>> THEN [request EXCEPT !.todo = list]
    ELSE [Idle EXCEPT
            !.kind = request.kind, !.at = request.at,
            !.outcome = IF request.outcome \in {"none", "accepted"}
                        THEN "answered" ELSE request.outcome]

\* The request when its first entry is done.
Past(r) == Goes(req[r], Tail(req[r].todo))

Continue(r) == req' = [req EXCEPT ![r] = Past(r)]

\* An exception: an accepted job is marked failed, anything else is over.
Raise(r, why) ==
    req' = [req EXCEPT ![r] =
        [Idle EXCEPT
            !.kind = req[r].kind, !.at = req[r].at,
            !.todo = IF req[r].outcome = "accepted" THEN << <<"use", "jobs">> >>
                                                    ELSE <<>>,
            !.outcome = why]]

-----------------------------------------------------------------------------
(* Requests.                                                               *)

Start(r) ==
    /\ ~Running(r)
    /\ \E kind \in Kinds[r] : \E todo \in Programs(kind) :
            \E w \in IF kind \in Tools THEN {NoWorker} ELSE Home[r] :
                /\ kind \in Tools \/ LoopFree(w, r)
                /\ req' = [req EXCEPT
                        ![r] = [Idle EXCEPT !.kind = kind, !.at = w,
                                            !.todo = todo]]
    /\ UNCHANGED <<tables, column, model, latched, handle, ready, faults, changes>>

\* What the process need not look up: the sessions it has ensured before, the
\* table the run has in hand.
Known(r, t) == \/ t = "sessions" /\ ready[At(r)]
               \/ t = "chunks" /\ req[r].vector_table # 0

\* What is kept of a table that is there: the flag in app.state, and the Table
\* with the provider's dimension, in app.state for a question.
Keep(r, t) ==
    /\ ready' = [w \in Workers |-> ready[w] \/ (w = At(r) /\ t = "sessions")]
    /\ handle' = [w \in Workers |->
            IF w = At(r) /\ t = "chunks" /\ req[r].kind = "question"
            THEN Dimension(r) ELSE handle[w]]

Kept(r, t) ==
    [req[r] EXCEPT !.vector_table = IF t = "chunks" /\ ~Known(r, t)
                                    THEN Dimension(r) ELSE @]

\* Faulty: without checkfirst.
CheckNothing(r) ==
    /\ MayRun(r)
    /\ Op(r) = "check"
    /\ IF Known(r, On(r))
       THEN /\ Keep(r, On(r))
            /\ req' = [req EXCEPT
                    ![r] = Goes(Kept(r, On(r)), Tail(Tail(@.todo)))]
       ELSE Continue(r) /\ UNCHANGED <<handle, ready>>
    /\ UNCHANGED <<tables, column, model, latched, faults, changes>>

\* The table is there, or known to be: nothing to create.  An existing chunks
\* table is taken with whatever dimension it has.
Check(r) ==
    /\ MayRun(r)
    /\ Op(r) = "check"
    /\ IF Known(r, On(r)) \/ On(r) \in tables
       THEN /\ Keep(r, On(r))
            /\ req' = [req EXCEPT
                    ![r] = Goes(Kept(r, On(r)), Tail(Tail(@.todo)))]
       ELSE Continue(r) /\ UNCHANGED <<handle, ready>>
    /\ UNCHANGED <<tables, column, model, latched, faults, changes>>

\* CREATE TABLE, which fails when another process has created it since.  For
\* chunks the extension is created before, if it is not there.
Create(r) ==
    /\ MayRun(r)
    /\ Op(r) = "create"
    /\ IF On(r) \in tables
       THEN Raise(r, "raised") /\ UNCHANGED <<tables, column, handle, ready>>
       ELSE /\ tables' = tables \cup {On(r)}
            /\ column' = IF On(r) = "chunks" THEN Dimension(r) ELSE column
            /\ Keep(r, On(r))
            /\ req' = [req EXCEPT ![r] = Goes(Kept(r, On(r)), Tail(@.todo))]
    /\ UNCHANGED <<model, latched, faults, changes>>

\* A statement on a table.
Use(r) ==
    /\ MayRun(r)
    /\ Op(r) = "use"
    /\ IF On(r) \in tables THEN Continue(r) ELSE Raise(r, "missing")
    /\ UNCHANGED <<tables, column, model, latched, handle, ready, faults, changes>>

\* reflect_existing_chunks_table: without the table a reset is over.
Reflect(r) ==
    /\ MayRun(r)
    /\ Op(r) = "reflect"
    /\ IF On(r) \in tables
       THEN Continue(r)
       ELSE req' = [req EXCEPT ![r] = Goes(@, <<>>)]
    /\ UNCHANGED <<tables, column, model, latched, handle, ready, faults, changes>>

\* get_vector_table: the worker's table, or a probe and ensure_schema.
VectorTable(r) ==
    /\ MayRun(r)
    /\ Op(r) = "table"
    /\ req' = [req EXCEPT ![r] =
            IF handle[At(r)] # 0
            THEN [req[r] EXCEPT !.todo = Tail(@), !.vector_table = handle[At(r)]]
            ELSE [req[r] EXCEPT !.todo = << <<"embed", "probe">> >>
                                    \o Ensure("chunks") \o Tail(@)]]
    /\ UNCHANGED <<tables, column, model, latched, handle, ready, faults, changes>>

\* The chat model answers, or the response with the job id is sent.
Answered(r) ==
    /\ MayRun(r)
    /\ Op(r) \in {"call", "rewrite", "accept"}
    /\ req' = [req EXCEPT ![r] =
            [Past(r) EXCEPT
                !.outcome = IF Op(r) = "accept" THEN "accepted" ELSE @]]
    /\ UNCHANGED <<tables, column, model, latched, handle, ready, faults, changes>>

\* Faulty: only a dimension given at construction is known.
LatchNever(known) == known

\* Faulty: the number of embeddings, which is a dimension of nothing.
LatchCount(known) == IF known = 0 THEN CHOOSE d \in Dims : d # model ELSE known

\* The provider keeps the dimension of the first answer it gets.
Latch(known) == IF known = 0 THEN model ELSE known

\* embed() answers.
Embedded(r) ==
    /\ MayRun(r)
    /\ Op(r) = "embed"
    /\ latched' = [w \in Workers |->
            IF w = At(r) THEN Latch(latched[w]) ELSE latched[w]]
    /\ req' = [req EXCEPT ![r] =
            [Past(r) EXCEPT
                !.vector = model,
                !.latched = IF IsTool(r) THEN Latch(@) ELSE @]]
    /\ UNCHANGED <<tables, column, model, handle, ready, faults, changes>>

\* The distance to a vector of another dimension than the Table's is refused
\* before it is sent; to one of another than the column's by the database, if
\* it has a row to compare.
Search(r) ==
    /\ MayRun(r)
    /\ Op(r) = "search"
    /\ \/ On(r) \notin tables /\ Raise(r, "missing")
       \/ On(r) \in tables /\ req[r].vector = req[r].vector_table /\ Continue(r)
       \/ req[r].vector # req[r].vector_table /\ Raise(r, "refused")
       \/ req[r].vector # column /\ On(r) \in tables /\ Raise(r, "refused")
    /\ UNCHANGED <<tables, column, model, latched, handle, ready, faults, changes>>

\* upsert_chunks: the vectors must have the Table's dimension (its own check)
\* and the column's.
Upsert(r) ==
    /\ MayRun(r)
    /\ Op(r) = "upsert"
    /\ IF On(r) \notin tables THEN Raise(r, "missing")
       ELSE IF req[r].vector = req[r].vector_table /\ req[r].vector = column
            THEN Continue(r)
            ELSE Raise(r, "refused")
    /\ UNCHANGED <<tables, column, model, latched, handle, ready, faults, changes>>

-----------------------------------------------------------------------------
(* Failures.                                                               *)

\* A statement or a call raises; a rewrite that fails is given up.
Fault(r) ==
    /\ MayRun(r)
    /\ Op(r) \notin {"table", "rewrite", "accept"}
    /\ faults < MaxFaults
    /\ faults' = faults + 1
    /\ Raise(r, "raised")
    /\ UNCHANGED <<tables, column, model, latched, handle, ready, changes>>

\* A worker dies and is started again: app.state and the provider are new.
Restart(w) ==
    /\ faults < MaxFaults
    /\ faults' = faults + 1
    /\ latched' = [latched EXCEPT ![w] = 0]
    /\ handle' = [handle EXCEPT ![w] = 0]
    /\ ready' = [ready EXCEPT ![w] = FALSE]
    /\ req' = [r \in Requests |->
            IF At(r) = w THEN Idle ELSE req[r]]
    /\ UNCHANGED <<tables, column, model, changes>>

\* The embedding model is replaced behind its name.
ChangeModel ==
    /\ changes < MaxChanges
    /\ changes' = changes + 1
    /\ model' \in Dims \ {model}
    /\ UNCHANGED <<tables, column, latched, handle, ready, req, faults>>

Step(r) ==
    \/ Check(r) \/ Create(r) \/ Use(r) \/ Reflect(r) \/ VectorTable(r)
    \/ Answered(r) \/ Embedded(r) \/ Search(r) \/ Upsert(r)

Next ==
    \/ \E r \in Requests : Start(r) \/ Step(r) \/ Fault(r)
    \/ \E w \in Workers : Restart(w)
    \/ ChangeModel

Spec == Init /\ [][Next]_vars

\* A worker is asked questions again and again.  Its loop takes up what can go
\* on in the order in which it could, so that no request waits for ever while
\* the loop is free again and again.
AlwaysAsks(r, w) == Kinds[r] = {"question"} /\ Home[r] = {w}

Fairness ==
    \A r \in Requests :
        /\ SF_vars(Step(r))
        /\ (\E w \in Workers : AlwaysAsks(r, w)) => SF_vars(Start(r))

FairSpec == Spec /\ Fairness

-----------------------------------------------------------------------------
(* Properties.                                                             *)

Outcomes == {"none", "accepted", "answered", "missing", "refused", "raised"}

\* Types; the column has a dimension exactly if the chunks table exists.
TypeOK ==
    /\ tables \subseteq Tables
    /\ column \in Dims \cup {0}
    /\ column # 0 <=> "chunks" \in tables
    /\ model \in Dims
    /\ latched \in [Workers -> Dims \cup {0}]
    /\ handle \in [Workers -> Dims \cup {0}]
    /\ ready \in [Workers -> BOOLEAN]
    /\ req \in [Requests -> [kind : KindNames \cup {"none"},
                             at : Workers \cup {NoWorker},
                             todo : Seq(Ops \X (Tables \cup
                                        {"chat", "query", "probe", "job"})),
                             vector_table : Dims \cup {0},
                             vector : Dims \cup {0},
                             latched : Dims \cup {0},
                             outcome : Outcomes]]
    /\ faults \in 0..MaxFaults
    /\ changes \in 0..MaxChanges

\* Turns, ingestions and the tools never meet a table that is not there,
\* whatever other processes do, in whatever state they found the database and
\* however often they were restarted; and what a worker remembers of the tables
\* is so.  (A reset before the first ingestion and the poll of a job when there
\* never was one do meet a missing table.)
OwnTablesThere ==
    /\ \A r \in Requests :
            req[r].outcome = "missing" => req[r].kind \in {"reset", "poll"}
    /\ \A w \in Workers : /\ ready[w] => "sessions" \in tables
                          /\ handle[w] # 0 => "chunks" \in tables

\* The dimension is the same everywhere as long as the model is: no vector is
\* refused.  After a change a worker still has the table and the dimension
\* belong together, so that it is the model that they do not fit.
DimensionsAgree ==
    /\ changes = 0 => /\ column \in {0, model}
                      /\ \A w \in Workers : latched[w] \in {0, model}
                      /\ \A r \in Requests : req[r].outcome # "refused"
    /\ \A w \in Workers : handle[w] \in {0, latched[w]}

\* Once the model is the one the chunks table was created for and the worker
\* does not remember another, a worker answers questions, again and again:
\* neither a race for a table nor a failure on the way leaves it without.
QuestionsServed ==
    \A w \in Workers : \A r \in Requests :
        AlwaysAsks(r, w)
            => (<>[](column \in {0, model} /\ latched[w] \in {0, model})
                => []<>(req[r].outcome = "answered"))

=============================================================================
