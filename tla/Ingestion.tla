----------------------------- MODULE Ingestion ------------------------------
(***************************************************************************)
(* Incremental ingestion of source tables into the vector store: extract,  *)
(* normalize, chunk, embed, upsert, and a persisted watermark per table;   *)
(* with the job rows of the admin API, the vector-store reset, and source  *)
(* tables that are edited while they are read.                             *)
(*                                                                         *)
(* Every run (an API background task or the CLI) and every reset request   *)
(* takes one step per database transaction.  Inside one worker the event   *)
(* loop only switches tasks at an await, but several workers and the CLI   *)
(* share the two databases, so transactions of different runs interleave   *)
(* freely.  Each page of the source is one statement and sees the rows     *)
(* committed when it runs (READ COMMITTED).                                *)
(***************************************************************************)
EXTENDS Integers, FiniteSets

CONSTANTS
    Tables,       \* source tables, numbered by their place in tables.yaml
    Watermarked,  \* the tables configured with a watermark_column
    Rows,         \* primary keys, in primary-key order
    MaxVersion,   \* contents a row can have: 1..MaxVersion
    MaxStamp,     \* updated_at values: 1..MaxStamp, and 0 for NULL
    MaxChunks,    \* most chunks a row's text is split into
    ChunkCount,   \* chunks of row r with content v: ChunkCount[r][v]
    BatchSize,    \* batch_size of the tables: page size and flush threshold
    Runs,         \* ingestion runs that may be started
    Resets,       \* reset requests that may arrive
    FirstRows,    \* [Tables -> row values the table may start with]
    MaxEdits,     \* bound on edits of the source tables
    MaxFaults     \* bound on crashes and failures of an error handler

NoTable == 0

ASSUME TablesAssumption == /\ Tables \subseteq Nat \ {NoTable}
                           /\ Watermarked \subseteq Tables
ASSUME RowsAssumption == Rows \subseteq Nat /\ IsFiniteSet(Rows)
ASSUME BoundsAssumption == /\ MaxVersion \in Nat
                           /\ MaxStamp \in Nat
                           /\ MaxChunks \in Nat
                           /\ MaxEdits \in Nat
                           /\ MaxFaults \in Nat
ASSUME ChunkCountAssumption ==
    ChunkCount \in [Rows -> [1..MaxVersion -> 0..MaxChunks]]
ASSUME BatchSizeAssumption == BatchSize \in Nat \ {0}

VARIABLES
    source,       \* [Tables -> [Rows -> the row's value, or Absent]]
    store,        \* chunks: [Tables -> [Rows -> [Index -> version, 0 if none]]]
    watermark,    \* ingestion_watermarks: [Tables -> stamp, 0 if no row]
    chunksTable,  \* whether the chunks table has been created
    status,       \* ingestion_jobs.status: [Runs -> status, "none" if no row]
    run,          \* [Runs -> the local state of the run]
    reset,        \* [Resets -> the local state of the reset request]
    edits,        \* number of edits of the source so far
    faults,       \* number of faults so far
    exposed       \* history: [Tables -> rows an edit or a reset has put out
                  \* of reach of the next incremental scan]

vars == <<source, store, watermark, chunksTable, status, run, reset, edits,
          faults, exposed>>

-----------------------------------------------------------------------------
(* Data.                                                                   *)

Index == 0..(MaxChunks - 1)

Absent == [version |-> 0, stamp |-> 0]

\* Values a row of table t can have; no watermark column, no stamp.
RowValues(t) ==
    {Absent} \cup
    [version : 1..MaxVersion, stamp : IF t \in Watermarked THEN 0..MaxStamp
                                                           ELSE {0}]

Live(row) == row.version # 0

\* iter_rows' WHERE clause: present only once a watermark is known, and then
\* strict, so that a NULL stamp never passes it.
Qualifies(row, since) == Live(row) /\ (since # 0 => row.stamp > since)

Matching(rows, since) == {r \in Rows : Qualifies(rows[r], since)}

Rank(S, r) == Cardinality({q \in S : q <= r})

\* Faulty: pages that overlap by one row.
PageOfOverlapping(rows, since, offset) ==
    LET S == Matching(rows, since)
    IN {r \in S : offset <= Rank(S, r) /\ Rank(S, r) <= offset + BatchSize}

\* ORDER BY pk LIMIT BatchSize OFFSET offset
PageOf(rows, since, offset) ==
    LET S == Matching(rows, since)
    IN {r \in S : offset < Rank(S, r) /\ Rank(S, r) <= offset + BatchSize}

\* A fetched row, carrying the values it had when its page was read.
PageRow == [row : Rows, version : 1..MaxVersion, stamp : 0..MaxStamp]

\* "at" tells apart two readings of one row in different pages: the list of
\* pending chunks holds both.
Chunk == [row : Rows, index : Index, version : 1..MaxVersion, at : Nat]

\* Faulty: enumerate(texts, start=1).
ChunksFromOne(p, at) ==
    {[row |-> p.row, index |-> i, version |-> p.version, at |-> at] :
        i \in 1..ChunkCount[p.row][p.version]}

ChunksOf(p, at) ==
    {[row |-> p.row, index |-> i, version |-> p.version, at |-> at] :
        i \in {i \in Index : i < ChunkCount[p.row][p.version]}}

\* The same chunk_id twice: ON CONFLICT DO UPDATE refuses the statement.
Duplicated(chunks) ==
    \E c, d \in chunks : c # d /\ c.row = d.row /\ c.index = d.index

Upserted(rows, chunks) ==
    [r \in Rows |-> [i \in Index |->
        IF \E c \in chunks : c.row = r /\ c.index = i
        THEN (CHOOSE c \in chunks : c.row = r /\ c.index = i).version
        ELSE rows[r][i]]]

NoChunks == [r \in Rows |-> [i \in Index |-> 0]]

\* Every chunk of row r's current content is in the vector store.
Stored(t, r) ==
    \A i \in Index : i < ChunkCount[r][source[t][r].version]
                        => store[t][r][i] = source[t][r].version

-----------------------------------------------------------------------------
(* Runs.                                                                   *)

\* Statements of _ingest_table: the next page, the rows of a page, the two
\* flushes, and the watermark written last.
Scanning == {"scan", "rows", "flush", "mark"}

PCs == Scanning \cup {"new",      \* not started
                      "created",  \* job row inserted, task queued
                      "next",     \* between two tables
                      "failing",  \* in the except clause, before mark_failed
                      "ended",    \* returned
                      "escaped",  \* an exception left the background task
                      "crashed"}  \* the process died

RunState == [pc : PCs, todo : SUBSET Tables, table : Tables \cup {NoTable},
             since : 0..MaxStamp, offset : Nat, page : SUBSET PageRow,
             eof : BOOLEAN, pending : SUBSET Chunk, max : 0..MaxStamp]

\* A run outside _ingest_table has none of its local variables.
At(pc, todo) == [pc |-> pc, todo |-> todo, table |-> NoTable, since |-> 0,
                 offset |-> 0, page |-> {}, eof |-> FALSE, pending |-> {},
                 max |-> 0]

Active(t) == {j \in Runs : run[j].pc \in Scanning /\ run[j].table = t}

\* A row at or below the watermark is not read by the next incremental scan.
Covered(row, mark) == Live(row) /\ mark # 0 /\ row.stamp <= mark

\* While a run is reading the table an exposed row stays so: the run may have
\* read it already.  Once nobody does, the next scan reads it again unless the
\* watermark covers it.
Settle(rows, cells, mark, busy) ==
    IF busy THEN rows ELSE {r \in rows : Covered(cells[r], mark)}

\* exposed' when run j stops scanning and leaves these watermarks behind.
ExposedAfter(j, marks) ==
    LET t == run[j].table
    IN IF run[j].pc \in Scanning
       THEN [exposed EXCEPT ![t] = Settle(@, source[t], marks[t],
                                          Active(t) \ {j} # {})]
       ELSE exposed

\* Faulty: no flush after the loop.
ResumeWithoutTail(page, pending, eof) ==
    IF page # {} THEN "rows" ELSE IF ~eof THEN "scan" ELSE "mark"

\* Where the loop over rows goes on: the page, the next page, the trailing
\* flush of what is left, or the watermark.
Resume(page, pending, eof) ==
    IF page # {} THEN "rows"
    ELSE IF ~eof THEN "scan"
    ELSE IF pending # {} THEN "flush"
    ELSE "mark"

-----------------------------------------------------------------------------
Init ==
    /\ source \in [Tables -> [Rows -> UNION {FirstRows[t] : t \in Tables}]]
    /\ \A t \in Tables, r \in Rows :
            source[t][r] \in FirstRows[t] \cap RowValues(t)
    /\ store = [t \in Tables |-> NoChunks]
    /\ watermark = [t \in Tables |-> 0]
    /\ chunksTable = FALSE
    /\ status = [j \in Runs |-> "none"]
    /\ run = [j \in Runs |-> At("new", {})]
    /\ reset = [k \in Resets |-> [pc |-> "idle", scope |-> {}]]
    /\ edits = 0
    /\ faults = 0
    /\ exposed = [t \in Tables |-> {}]

\* POST /admin/ingest: no table named means all of them; an unknown one is
\* refused before any row is written.  Nothing asks whether a run is active.
StartIngestion(j, requested) ==
    /\ run[j].pc = "new"
    /\ status' = [status EXCEPT ![j] = "pending"]
    /\ run' = [run EXCEPT ![j] = At("created", IF requested = {}
                                               THEN Tables ELSE requested)]
    /\ UNCHANGED <<source, store, watermark, chunksTable, reset, edits,
                   faults, exposed>>

\* python -m ragchatbot.ingestion.pipeline: every table, and no job row.
StartCli(j) ==
    /\ run[j].pc = "new"
    /\ run' = [run EXCEPT ![j] = At("next", Tables)]
    /\ UNCHANGED <<source, store, watermark, chunksTable, status, reset,
                   edits, faults, exposed>>

MarkRunning(j) ==
    /\ run[j].pc = "created"
    /\ status' = [status EXCEPT ![j] = "running"]
    /\ run' = [run EXCEPT ![j].pc = "next"]
    /\ UNCHANGED <<source, store, watermark, chunksTable, reset, edits,
                   faults, exposed>>

\* The next table in configuration order; its watermark is read here and used
\* for every page of the scan.
ReadWatermark(j, t) ==
    /\ run[j].pc = "next"
    /\ t \in run[j].todo
    /\ \A u \in run[j].todo : t <= u
    /\ run' = [run EXCEPT ![j].pc = "scan",
                          ![j].table = t,
                          ![j].since = watermark[t]]
    /\ UNCHANGED <<source, store, watermark, chunksTable, status, reset,
                   edits, faults, exposed>>

FetchPage(j) ==
    LET me == run[j]
        rows == source[me.table]
        found == PageOf(rows, me.since, me.offset)
        page == {[row |-> r, version |-> rows[r].version,
                  stamp |-> rows[r].stamp] : r \in found}
        eof == Cardinality(found) < BatchSize
    IN /\ me.pc = "scan"
       /\ run' = [run EXCEPT ![j] =
                    [me EXCEPT !.pc = Resume(page, me.pending, eof),
                               !.page = page,
                               !.eof = eof,
                               !.offset = IF eof THEN @ ELSE @ + BatchSize]]
       /\ UNCHANGED <<source, store, watermark, chunksTable, status, reset,
                      edits, faults, exposed>>

\* Faulty: the stamp of the last row read instead of the greatest.
ProcessRowLastStamp(j) ==
    LET me == run[j]
    IN /\ me.pc = "rows"
       /\ \E p \in me.page :
            LET page == me.page \ {p}
                pending == me.pending \cup ChunksOf(p, me.offset)
            IN /\ \A q \in me.page : p.row <= q.row
               /\ run' = [run EXCEPT ![j] =
                    [me EXCEPT !.pc = IF Cardinality(pending) >= BatchSize
                                      THEN "flush"
                                      ELSE Resume(page, pending, me.eof),
                               !.page = page,
                               !.pending = pending,
                               !.max = IF p.stamp # 0 THEN p.stamp ELSE @]]
       /\ UNCHANGED <<source, store, watermark, chunksTable, status, reset,
                      edits, faults, exposed>>

\* One turn of the loop: the next row in key order moves the running maximum
\* and adds its chunks; a full batch is flushed before the next row.
ProcessRow(j) ==
    LET me == run[j]
    IN /\ me.pc = "rows"
       /\ \E p \in me.page :
            LET page == me.page \ {p}
                pending == me.pending \cup ChunksOf(p, me.offset)
            IN /\ \A q \in me.page : p.row <= q.row
               /\ run' = [run EXCEPT ![j] =
                    [me EXCEPT !.pc = IF Cardinality(pending) >= BatchSize
                                      THEN "flush"
                                      ELSE Resume(page, pending, me.eof),
                               !.page = page,
                               !.pending = pending,
                               !.max = IF p.stamp > @ THEN p.stamp ELSE @]]
       /\ UNCHANGED <<source, store, watermark, chunksTable, status, reset,
                      edits, faults, exposed>>

\* Faulty: batches of exactly batch_size chunks, the rest stays pending.
FlushTruncated(j) ==
    LET me == run[j]
    IN /\ me.pc = "flush"
       /\ ~Duplicated(me.pending)
       /\ \E batch \in SUBSET me.pending :
            /\ Cardinality(batch) <= BatchSize
            /\ batch = me.pending \/ Cardinality(batch) = BatchSize
            /\ store' = [store EXCEPT ![me.table] = Upserted(@, batch)]
            /\ run' = [run EXCEPT ![j] =
                    [me EXCEPT !.pc = Resume(me.page, me.pending \ batch, me.eof),
                               !.pending = @ \ batch]]
       /\ chunksTable' = TRUE
       /\ UNCHANGED <<source, watermark, status, reset, edits, faults,
                      exposed>>

\* embed, create the chunks table if this run has not yet, upsert.
Flush(j) ==
    LET me == run[j]
    IN /\ me.pc = "flush"
       /\ ~Duplicated(me.pending)
       /\ store' = [store EXCEPT ![me.table] = Upserted(@, me.pending)]
       /\ chunksTable' = TRUE
       /\ run' = [run EXCEPT ![j] =
                    [me EXCEPT !.pc = Resume(me.page, {}, me.eof),
                               !.pending = {}]]
       /\ UNCHANGED <<source, watermark, status, reset, edits, faults,
                      exposed>>

\* Faulty: the running maximum is kept for the next table.
SetWatermarkKeepingMax(j) ==
    LET me == run[j]
        t == me.table
    IN /\ me.pc = "mark"
       /\ watermark' = [watermark EXCEPT ![t] = IF me.max # 0 THEN me.max
                                                             ELSE @]
       /\ exposed' = ExposedAfter(j, watermark')
       /\ run' = [run EXCEPT ![j] = [At("next", me.todo \ {t})
                                        EXCEPT !.max = me.max]]
       /\ UNCHANGED <<source, store, chunksTable, status, reset, edits,
                      faults>>

SetWatermark(j) ==
    LET me == run[j]
        t == me.table
    IN /\ me.pc = "mark"
       /\ watermark' = [watermark EXCEPT ![t] = IF me.max # 0 THEN me.max
                                                             ELSE @]
       /\ exposed' = ExposedAfter(j, watermark')
       /\ run' = [run EXCEPT ![j] = At("next", me.todo \ {t})]
       /\ UNCHANGED <<source, store, chunksTable, status, reset, edits,
                      faults>>

\* Faulty: success is recorded after the first table.
FinishEarly(j) ==
    /\ run[j].pc = "next"
    /\ status' = [status EXCEPT ![j] = IF @ = "none" THEN @ ELSE "succeeded"]
    /\ run' = [run EXCEPT ![j].pc = "ended"]
    /\ UNCHANGED <<source, store, watermark, chunksTable, reset, edits,
                   faults, exposed>>

\* Every table done: the API run records it, the CLI just returns.
Finish(j) ==
    /\ run[j].pc = "next"
    /\ run[j].todo = {}
    /\ status' = [status EXCEPT ![j] = IF @ = "none" THEN @ ELSE "succeeded"]
    /\ run' = [run EXCEPT ![j].pc = "ended"]
    /\ UNCHANGED <<source, store, watermark, chunksTable, reset, edits,
                   faults, exposed>>

\* Faulty: a batch that cannot be embedded or stored is logged and dropped.
RaiseSwallowed(j) ==
    LET me == run[j]
    IN /\ me.pc = "flush"
       /\ run' = [run EXCEPT ![j] =
                    [me EXCEPT !.pc = Resume(me.page, {}, me.eof),
                               !.pending = {}]]
       /\ UNCHANGED <<source, store, watermark, chunksTable, status, reset,
                      edits, faults, exposed>>

\* Faulty: the except clause logs the exception and nothing else.
RaiseUnrecorded(j) ==
    LET me == run[j]
    IN /\ me.pc \in Scanning \cup {"created", "next"}
       /\ run' = [run EXCEPT ![j] = At("ended", me.todo)]
       /\ exposed' = ExposedAfter(j, watermark)
       /\ UNCHANGED <<source, store, watermark, chunksTable, status, reset,
                      edits, faults>>

\* Any statement may raise: a database error, a template that names a missing
\* column, the embedding provider, a duplicated chunk.  The exception unwinds
\* to the except clause of the API run; the CLI has none.  A flush that fails
\* after ensure_schema leaves the chunks table behind.
Raise(j) ==
    LET me == run[j]
    IN /\ me.pc \in Scanning \cup {"created", "next"}
       /\ chunksTable' \in IF me.pc = "flush" THEN {chunksTable, TRUE}
                                              ELSE {chunksTable}
       /\ run' = [run EXCEPT ![j] = At(IF status[j] = "none" THEN "ended"
                                       ELSE "failing", me.todo)]
       /\ exposed' = ExposedAfter(j, watermark)
       /\ UNCHANGED <<source, store, watermark, status, reset, edits, faults>>

MarkFailed(j) ==
    /\ run[j].pc = "failing"
    /\ status' = [status EXCEPT ![j] = "failed"]
    /\ run' = [run EXCEPT ![j].pc = "ended"]
    /\ UNCHANGED <<source, store, watermark, chunksTable, reset, edits,
                   faults, exposed>>

\* The database is unreachable for the except clause too.
MarkFailedRaises(j) ==
    /\ faults < MaxFaults
    /\ run[j].pc = "failing"
    /\ faults' = faults + 1
    /\ run' = [run EXCEPT ![j].pc = "escaped"]
    /\ UNCHANGED <<source, store, watermark, chunksTable, status, reset,
                   edits, exposed>>

\* The process dies; nothing looks at the job again when it comes back.
Crash(j) ==
    LET me == run[j]
    IN /\ faults < MaxFaults
       /\ me.pc \in Scanning \cup {"created", "next", "failing"}
       /\ faults' = faults + 1
       /\ run' = [run EXCEPT ![j] = At("crashed", me.todo)]
       /\ exposed' = ExposedAfter(j, watermark)
       /\ UNCHANGED <<source, store, watermark, chunksTable, status, reset,
                      edits>>

-----------------------------------------------------------------------------
(* POST /admin/vector-store/reset: two transactions.                       *)

\* delete_chunks.  The watermark still covers rows that are gone, and a run in
\* the middle of the table will not read its first pages again.
ResetDeleteChunks(k, requested) ==
    LET scope == IF requested = {} THEN Tables ELSE requested
    IN /\ reset[k].pc = "idle"
       /\ chunksTable
       /\ store' = [t \in Tables |-> IF t \in scope THEN NoChunks
                                                    ELSE store[t]]
       /\ reset' = [reset EXCEPT ![k] = [pc |-> "deleting", scope |-> scope]]
       /\ exposed' = [t \in Tables |->
                        IF t \in scope
                        THEN Settle(Rows, source[t], watermark[t],
                                    Active(t) # {})
                        ELSE exposed[t]]
       /\ UNCHANGED <<source, watermark, chunksTable, status, run, edits,
                      faults>>

\* delete_watermarks.  A run that is still reading keeps its own since.
ResetDeleteWatermarks(k) ==
    LET scope == reset[k].scope
    IN /\ reset[k].pc = "deleting"
       /\ watermark' = [t \in Tables |-> IF t \in scope THEN 0
                                                        ELSE watermark[t]]
       /\ reset' = [reset EXCEPT ![k].pc = "answered"]
       /\ exposed' = [t \in Tables |->
                        IF t \in scope
                        THEN Settle(exposed[t], source[t], 0, Active(t) # {})
                        ELSE exposed[t]]
       /\ UNCHANGED <<source, store, chunksTable, status, run, edits, faults>>

\* A crash or a database error between the two.
ResetAborts(k) ==
    /\ faults < MaxFaults
    /\ reset[k].pc = "deleting"
    /\ faults' = faults + 1
    /\ reset' = [reset EXCEPT ![k].pc = "aborted"]
    /\ UNCHANGED <<source, store, watermark, chunksTable, status, run, edits,
                   exposed>>

\* No chunks table yet: answered at once, and the watermarks stay.
ResetNothing(k, requested) ==
    /\ reset[k].pc = "idle"
    /\ ~chunksTable
    /\ reset' = [reset EXCEPT ![k] =
                    [pc |-> "answered",
                     scope |-> IF requested = {} THEN Tables ELSE requested]]
    /\ UNCHANGED <<source, store, watermark, chunksTable, status, run, edits,
                   faults, exposed>>

-----------------------------------------------------------------------------
(* The surroundings.                                                       *)

\* get_vector_table: the first chat request creates the chunks table as well.
ChatEnsuresTable ==
    /\ ~chunksTable
    /\ chunksTable' = TRUE
    /\ UNCHANGED <<source, store, watermark, status, run, reset, edits,
                   faults, exposed>>

\* An insert, an update or a delete commits in the source, with any stamp: a
\* late commit may carry an old one.  Besides the row itself, a row behind it
\* is exposed when it drops out of a result set that is being paged through.
EditSource(t, r, new) ==
    LET old == source[t][r]
        shifted == \E j \in Active(t) : Qualifies(old, run[j].since)
                                        /\ ~Qualifies(new, run[j].since)
        touched == {r} \cup {q \in Rows : q > r /\ shifted}
    IN /\ edits < MaxEdits
       /\ new # old
       /\ edits' = edits + 1
       /\ source' = [source EXCEPT ![t][r] = new]
       /\ exposed' = [exposed EXCEPT ![t] =
                        Settle(@ \cup touched, source'[t], watermark[t],
                               Active(t) # {})]
       /\ UNCHANGED <<store, watermark, chunksTable, status, run, reset,
                      faults>>

-----------------------------------------------------------------------------
\* Steps a run takes by itself once it has been started.
RunStep(j) ==
    \/ MarkRunning(j)
    \/ \E t \in Tables : ReadWatermark(j, t)
    \/ FetchPage(j)
    \/ ProcessRow(j)
    \/ Flush(j)
    \/ SetWatermark(j)
    \/ Finish(j)
    \/ Raise(j)
    \/ MarkFailed(j)

ResetStep(k) ==
    \/ \E requested \in SUBSET Tables : \/ ResetDeleteChunks(k, requested)
                                        \/ ResetNothing(k, requested)
    \/ ResetDeleteWatermarks(k)
    \/ ResetAborts(k)

Next ==
    \/ \E j \in Runs :
        \/ \E requested \in SUBSET Tables : StartIngestion(j, requested)
        \/ StartCli(j)
        \/ RunStep(j)
        \/ MarkFailedRaises(j)
        \/ Crash(j)
    \/ \E k \in Resets : ResetStep(k)
    \/ ChatEnsuresTable
    \/ \E t \in Tables : \E r \in Rows, new \in RowValues(t) :
            EditSource(t, r, new)

Spec == Init /\ [][Next]_vars

\* The event loop keeps scheduling a background task that can go on.
FairSpec == Spec /\ \A j \in Runs : WF_vars(RunStep(j))

-----------------------------------------------------------------------------
(* Properties.                                                             *)

\* The ranges of the variables.
Types ==
    /\ source \in [Tables -> [Rows -> [version : 0..MaxVersion,
                                       stamp : 0..MaxStamp]]]
    /\ \A t \in Tables, r \in Rows : source[t][r] \in RowValues(t)
    /\ store \in [Tables -> [Rows -> [Index -> 0..MaxVersion]]]
    /\ watermark \in [Tables -> 0..MaxStamp]
    /\ chunksTable \in BOOLEAN
    /\ status \in [Runs -> {"none", "pending", "running", "succeeded",
                            "failed"}]
    /\ run \in [Runs -> RunState]
    /\ \A j \in Runs : run[j].pc \in Scanning => run[j].table \in run[j].todo
    /\ reset \in [Resets -> [pc : {"idle", "deleting", "answered", "aborted"},
                             scope : SUBSET Tables]]
    /\ edits \in 0..MaxEdits
    /\ faults \in 0..MaxFaults
    /\ exposed \in [Tables -> SUBSET Rows]

\* Types.  The index of a chunk, stored or pending, stays below the number of
\* chunks of the row's version it is of; and a run outside _ingest_table has
\* none of its locals: no table, cursor, page, batch or running maximum.
TypeOK ==
    /\ Types
    /\ \A t \in Tables, r \in Rows, i \in Index :
            store[t][r][i] # 0 => i < ChunkCount[r][store[t][r][i]]
    /\ \A j \in Runs : /\ \A c \in run[j].pending :
                                c.index < ChunkCount[c.row][c.version]
                       /\ run[j].pc \notin Scanning
                            => run[j] = At(run[j].pc, run[j].todo)

\* The reason a watermark may exist at all: a row the next incremental scan
\* will not read is in the vector store with the content it has now.  It must
\* survive a crash or an error between any two transactions, because the
\* watermark is written after the last flush (pipeline.py), and runs that
\* overlap.  Left out are the rows of "exposed", which an edit during a scan or
\* a reset has put out of reach: what the code does about those is the subject
\* of NothingSkipped.
WatermarkSound ==
    \A t \in Tables : \A r \in Rows \ exposed[t] :
        Covered(source[t][r], watermark[t]) => Stored(t, r)

\* Where a row that a scan owes to the vector store is, at every moment of the
\* scan: already there, on the page in hand, among the pending chunks, or ahead
\* of the OFFSET of the pages still to be fetched.  It is what the order
\* "fetch, chunk, flush, then write the watermark" is there to keep.
Progress(j) ==
    LET me == run[j]
        t == me.table
    IN me.pc \in Scanning =>
        /\ \A p \in me.page \cup me.pending :
                p.row \notin exposed[t]
                    => p.version = source[t][p.row].version
        /\ \A r \in Rows \ exposed[t] :
                Live(source[t][r]) =>
                    \/ Stored(t, r)
                    \/ \E p \in me.page : p.row = r
                    \/ \A i \in Index :
                            i < ChunkCount[r][source[t][r].version]
                                => \E c \in me.pending : c.row = r /\ c.index = i
                    \/ /\ ~me.eof
                       /\ r \in Matching(source[t], me.since)
                       /\ me.offset < Rank(Matching(source[t], me.since), r)

ScanProgress == \A j \in Runs : Progress(j)

\* When a run has left its loop over a table and is about to write the
\* watermark, every row of the table is in the vector store with its current
\* content: the scan skipped none between two pages, and no batch was dropped.
\* It holds for tables without a watermark column as well.
ScanIsComplete ==
    \A j \in Runs : run[j].pc = "mark" =>
        \A r \in Rows \ exposed[run[j].table] :
            Live(source[run[j].table][r]) => Stored(run[j].table, r)

\* A batch carries no chunk_id twice while nobody edits the table, so the
\* INSERT ... ON CONFLICT of upsert_chunks is accepted by the database.
NoDuplicateBatch ==
    \A j \in Runs :
        run[j].pc \in Scanning /\ exposed[run[j].table] = {}
            => ~Duplicated(run[j].pending)

\* What a question finds of a record is of one version of it: while the record
\* is in the store, every chunk its text of that version has is there, in that
\* version.  A flush must not part the chunks of a record, and neither runs that
\* overlap nor a reset, a crash or a failure between two batches may mix them.
RecordsWhole ==
    0 \in Index => \A t \in Tables, r \in Rows :
        LET version == store[t][r][0]
        IN version # 0 => \A i \in Index : i < ChunkCount[r][version]
                                => store[t][r][i] = version

\* Where a run moves a table's cursor to: past the one it read, and, as long as
\* no edit and no reset came in between, to the latest stamp of that table.  Of
\* the tables a run goes through one after the other "each table advances its
\* own updated_at cursor independently": neither the running maximum of one nor
\* a page that is read short may show in the cursor of another.
CursorAdvances ==
    [][\A j \in Runs :
        LET t == run[j].table
        IN run[j].pc = "mark" /\ run'[j].pc = "next"
           /\ watermark'[t] # watermark[t]
            => /\ t \in Watermarked
               /\ watermark'[t] > run[j].since
               /\ exposed[t] = {} =>
                    /\ \E r \in Rows : source[t][r].stamp = watermark'[t]
                    /\ \A r \in Rows : source[t][r].stamp <= watermark'[t]]_vars

\* The job row seen through GET /admin/ingest/{job_id} behaves as JobLifecycle
\* says: one way to one verdict, and success only with no table left.
Jobs == INSTANCE JobLifecycle WITH
            Jobs <- Runs,
            left <- [j \in Runs |-> IF status[j] = "none" THEN {}
                                                          ELSE run[j].todo]

JobLifecycleHolds == Jobs!Spec

\* A job that was accepted gets its verdict, however it interleaves with other
\* runs, resets and edits of the source.  Two things may keep it from it, and
\* nothing else does: its process dies, or mark_failed itself raises in the
\* except clause of _run_ingestion_job.
EveryJobFinishes ==
    \A j \in Runs : status[j] = "pending"
                        ~> \/ status[j] \in {"succeeded", "failed"}
                           \/ run[j].pc \in {"crashed", "escaped"}

-----------------------------------------------------------------------------
(* What the documentation says, and the code does not do.                  *)

\* watermark_store.py: delete_watermarks is "paired with a vector-store reset
\* so a wiped table doesn't silently skip rows on the next incremental
\* ingestion".  Once no reset and no run is under way, a row the next scan
\* would not read is in the store.
NothingSkipped ==
    \A t \in Tables :
        Active(t) = {} /\ (\A k \in Resets : reset[k].pc # "deleting")
            => \A r \in Rows :
                  Covered(source[t][r], watermark[t]) => Stored(t, r)

=============================================================================
