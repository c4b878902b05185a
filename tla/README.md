# Formal model of the configurable RAG chatbot

TLA+ specifications of the program in `src/ragchatbot` and of the Angular
pages that drive it, TLC configurations that check them on small instances, and
TLAPS proofs about them. The modules are translated from the code; line
references are in `PROJECT.json` (`map`).

## 1. The system

| component | state it keeps | operations | talks to |
|---|---|---|---|
| ingestion run (`ingestion/*`, `db/source_adapter.py`, `db/watermark_store.py`) | locals of one run: the watermark it started from, OFFSET, page, pending chunks, running maximum; `ingestion_watermarks` | `run_ingestion_for_tables`, `_ingest_table`, `_flush`, `get/set/delete_watermark` | source DB (pages), embedding provider (await), vector DB |
| ingestion jobs and admin API (`api/routes/admin.py`, `db/job_store.py`) | `ingestion_jobs` rows | start, poll, reset, source-db status | background task per job; vector DB |
| vector store (`db/vector_store.py`) | chunks table, created lazily | `ensure_schema`, `upsert_chunks`, `delete_chunks`, similarity and hybrid search | ingestion writes, retrieval reads |
| chat (`api/routes/chat.py`, `chat/*`, `db/session_store.py`) | `chat_sessions`, `chat_messages` with a sequence number per session | one turn: history, small talk, rewrite, retrieve, generate, log | providers (awaits), vector DB |
| retrieval (`retrieval/*`) | none | pool, RBAC filter, rerank, threshold, confidence | vector store, reranker provider |
| providers (`providers/*`) | the embedding dimension, latched at the first call | `embed`, `generate`, `rerank` | remote model services |
| lazy set-up (`api/main.py`, `api/dependencies.py`) | `vector_table`, `session_schema_ready` on `app.state` | created at the first request that needs them | vector DB, provider |
| record texts and chunks (`ingestion/extractor.py`, `normalizer.py`, `chunker.py`) | none; locals of one record | columns and related rows, text by default or template, sentences packed into chunks, metadata | ingestion runs |
| evaluation script (`scripts/eval_retrieval.py`) | none | probe, table, one retrieval per labelled query | providers, vector DB |
| configuration (`config/*`) | none after start | load and validate settings and `tables.yaml` | every other part |
| web pages (`frontend/src/app`) | chat messages and session id; job being polled | send, new session, start ingestion, poll, reset | the API |

Interaction. One worker is one event loop: route handlers and ingestion tasks
only give way at an `await` (provider calls), and their database calls block.
Several workers and the CLI share the source and the vector database, so across
processes any two database transactions may interleave; that is the granularity
of the model. No code path opens one transaction around two of the stores'
operations, so every pair of them can be separated by a crash.

What is hard. A run holds a watermark, an offset and a batch in memory for as
long as it reads a table, and writes the watermark last; meanwhile rows are
edited, another run may read the same table, a reset may wipe it, any statement
may raise and the process may die. The reset is two transactions and has an
early return. A job's verdict is written by the same code that fails. A chat
turn reads the history before three awaits and writes two messages after them.
Tables are created by whichever request needs one first, and what a worker
remembers of them and of the model it never asks again.

What makes each part correct:

* ingestion: a row the next incremental scan will not read is stored with its
  current content; a scan leaves no row behind; a batch never holds a chunk
  twice; a cursor comes to the latest stamp of its own table;
* jobs: one way to one verdict, success only when every table is done, a
  verdict eventually;
* reset: no watermark is left over rows that are gone;
* chat: messages of a session have an order, a turn answers the history it
  read, a failed turn leaves no half-turn;
* retrieval: only chunks the caller may see, the best ones, in order, and no
  answer below the threshold;
* set-up: no request of a turn or a run meets a missing table, one dimension
  everywhere as long as the model stays, and a worker that failed serves again;
* records: every sentence in one chunk, chunks of the size asked for, metadata
  that name the record;
* pages: the page shows the session it is in, a poll ends with the job's verdict.

## 2. Modules

| module | what it is |
|---|---|
| `Ingestion.tla` | ingestion runs, job rows, reset, and a source that is edited underneath |
| `JobLifecycle.tla` | abstract specification of a job row as a client sees it |
| `ChatSession.tla` | chat turns over the session store, on one event loop or several |
| `Conversation.tla` | abstract specification of a session: turns one after the other |
| `Retrieval.tla` | what `retrieve` makes of a store, a query and a caller |
| `IngestionPanel.tla` | the admin page's polling panel over the rows of `JobLifecycle` |
| `ChatPage.tla` | the chat page, its requests and the session id it keeps |
| `ServiceSetup.tla` | how the tables and the dimension come to be, by several workers and tools |
| `Records.tla` | from a fetched row to its chunks and their metadata |
| `MCIngestion.tla`, `MCChatSession.tla`, `MCRetrieval.tla`, `MCServiceSetup.tla`, `MCRecords.tla` | values and symmetry for TLC |
| `IngestionProofs.tla`, `JobLifecycleProofs.tla`, `IngestionPanelProofs.tla`, `RetrievalProofs.tla`, `RecordsProofs.tla`, `ChatPageProofs.tla`, `ChatSessionProofs.tla`, `ServiceSetupProofs.tla` | theorems |

Composition. `JobLifecycle` stands between the two halves of an ingestion: it is
what `Ingestion` implements (checked and proved) and what `IngestionPanel`
extends, so that what the panel shows rests on what a run does. `Retrieval` and
the rest of a chat turn share no state but the chunks: `ChatSession` takes "found
something" and "found nothing" as the two outcomes of `retrieve`, and
`Ingestion` and `Retrieval` meet in the store. `ServiceSetup` is about what comes
before: it takes each kind of request as the list of its statements, without
what they read and write, and the other modules rest on its result that the
tables are there. `Records` is what `Ingestion` takes as a number of chunks per
row version. `ChatPage` takes from the service
only that an answer comes in the session asked for or in a new one.

Each definition whose comment begins with "Faulty" is not part of the model: it
is an action or helper with a likely bug put in, kept to show that a property
notices it.

### Ingestion

State and code:

| variable | code |
|---|---|
| `source` | the configured tables; a row is a version (its content) and a stamp (`updated_at`, 0 for NULL) |
| `store` | the chunks table: which version of a row each of its chunk indices holds |
| `watermark` | `ingestion_watermarks`, 0 for no row |
| `chunksTable` | whether `ensure_schema` has created the chunks table |
| `status` | `ingestion_jobs.status` |
| `run` | the locals of `_ingest_table` and of the loop around it, and where the run is |
| `reset` | where a reset request is between its two transactions |
| `exposed` | history variable, explained below |

Each action is one database transaction with the local code up to the next one:
`StartIngestion`, `StartCli`, `MarkRunning`, `ReadWatermark`, `FetchPage`,
`ProcessRow` (one turn of the row loop), `Flush` (embed, create the table,
upsert), `SetWatermark`, `Finish`, `Raise` (any statement), `MarkFailed`,
`MarkFailedRaises`, `Crash`; `ResetDeleteChunks`, `ResetDeleteWatermarks`,
`ResetAborts`, `ResetNothing` (the early return); `ChatEnsuresTable` (the chat
route creates the table too); `EditSource` (any insert, update or delete, with
any stamp: a late commit carries an old one).

Abstractions. A row's text is not spelled out: `ChunkCount[r][v]` says how many
chunks version v of row r has, and any such function is allowed, so that rows
without text and rows that shrink are covered. `batch_size` is one number for
page size and flush threshold, as in `TableConfig`. The source is read at READ
COMMITTED, one snapshot per page, which is the default of PostgreSQL, SQL
Server and Oracle. Child tables (`relations`) and embeddings are left out.
`RecordsWhole` is about what a flush must not do: the batch it stores may hold
more chunks than `batch_size`, never a part of a record.
Tables are numbered in configuration order.

`exposed[t]` are the rows an edit or a reset has put out of reach of the next
incremental scan: a row edited while a run reads the table, or given a stamp at
or below the watermark; the rows behind it when it drops out of a result that
is being paged by LIMIT/OFFSET; every covered row when its chunks are deleted.
A row leaves it again when nobody reads the table and the watermark does not
cover it. The code cannot protect those rows and nothing says it does, with the
exception of the reset; `WatermarkSound` says that no other row is ever lost,
and the runs that expect a violation show the documented cases.

### ChatSession and Conversation

| variable | code |
|---|---|
| `sessions`, `messages` | rows of `chat_sessions` and `chat_messages`; a message is its turn, role, number and length |
| `turn` | the locals of `chat()` and where it is |
| `loop` | which coroutine a worker's event loop is in; it changes hands at awaits only |
| `ready` | `app.state.vector_table` of a worker |
| `before` | history variable: the turns whose answers the client had when it asked |

A turn reads its history, may rewrite the question, may have to probe the
embedding provider for the table, retrieves, generates, and appends two
messages; each append is two statements, the maximum and the insert. Between two
awaits nothing of the same worker runs; statements of different workers
interleave freely. Every await can raise (`Refuse` 502, `Fail` 500) and a worker
can die anywhere (`Crash`). Whether a message is small talk is any choice,
prompts are left out, and the reranker's await is part of the retrieval's. No
code reads `chat_sessions`. Lengths stand for characters.

With one worker each session implements `Conversation`: a question, its answer,
the next question, with a turn cut off after its question where the code fails
between the two inserts. With several workers it does not, and what is left is
`SeqGapless`, `QuestionFirst` and `TurnsInOrder`.

### Retrieval

One query: a store (which chunks there are, their similarity to the query, their
keyword rank, their tags), the caller's roles, and the two settings
`keyword_weight` and `rerank_enabled` are chosen at the start; then `Select` (the
`ORDER BY ... LIMIT` of the pool, with ties in any order), `SimilaritySearch` or
`HybridSearch`, and `Rerank` with any scores, negative ones too. Scores are
integers and the blend is multiplied out, so that its comparisons are exact.

### IngestionPanel

The panel's signals, the poll it is subscribed to, the POST and the GETs in
flight. `StartJob`, `Started`, `StartFailed`, `Tick` (the interval with
`switchMap`), `Deliver` (`takeWhile`, inclusive), `DeliverError`, `Destroy`; the
network answers or loses a request at any time; jobs take the steps of
`JobLifecycle`, or stop taking them. Starting twice is prevented by the disabled button, which is the
guard of `StartJob`. Callbacks run after the panel is destroyed, as they do in
the code, since nobody unsubscribes from the POST.

### ChatPage

The thread, `sending`, the session id (signal and localStorage entry, always set
together), and one request per question. The session id belongs to a root
service and outlives the page; the other signals are those of the page on the
screen. `Leave` is a change of route and back, after which callbacks of old
requests still set the session id; `Reload` drops the requests and keeps the id.
`patient` is a history variable.

### ServiceSetup

| variable | code |
|---|---|
| `tables`, `column` | the tables of the vector database, the dimension of `chunks.embedding` |
| `model`, `latched` | what the embedding model answers with; `_dimension` of a worker's provider |
| `handle`, `ready` | `app.state.vector_table` and `app.state.session_schema_ready` of a worker |
| `req` | requests and tools: what each still has to do, the table it holds, its last vector, how it ended |

A kind of request is the list of its statements and calls in the order of the
code: `Question`, `Greeting`, `Ingest` (the request and its background task),
`Poll`, `Reset`, and the tools `Run` (the ingestion command) and `Evaluate`. A
creation is two entries, `Check` and `Create`, since `create_all` with
`checkfirst` asks first and another process may create in between; the first
one of a question is skipped if `app.state` knows the table. `Use`, `Search`
and `Upsert` raise if the table is missing; `Search` and `Upsert` refuse
vectors of another dimension, the table object's or the column's. `Embedded`
latches. `Fault` makes any statement or call raise, `Restart` empties a worker,
`ChangeModel` puts another model behind the name. Two requests of one worker
alternate at awaits only. What statements read and write is in the other modules.

### Records

One record: its row, related rows, the table's configuration and the two chunk
settings are chosen at the start. `Extract` builds the columns (exclusions
first, related rows over them), `NormalizeDefault` or `NormalizeTemplate` the
text, which is the list of the lengths of its sentences, `AddSentence` and
`CloseChunk` are the two branches of the loop of `chunk_text`, `Finish` what
comes after it, `Raise` the errors. `strip()` may shorten an overlap, so the
tail a chunk takes over has any length up to `chunk_overlap` (`Tails`). `Raise`
stands for the primary key or a `local_key` that is not among the columns
(`KeyError`), a failing read of a related table, and a template that does not
fit.

### Properties and runs

| run | checks | shows |
|---|---|---|
| `ingestion_edits` | `TypeOK`, `WatermarkSound`, `ScanProgress`, `NoDuplicateBatch`, `RecordsWhole`, `CursorAdvances` | two runs, pages of two, rows of two and one chunks, a crash, a reset, an edit |
| `ingestion_tables` | `CursorAdvances`, `JobLifecycleHolds`, `EveryJobFinishes` | three tables, the second without a watermark column, by two runs of API and CLI |
| `ingestion_reset_race` | `NothingSkipped` violated | finding 1 |
| `chat_workers` | `TypeOK`, `SeqGapless`, `QuestionFirst`, `TurnsInOrder`, `LoggedWhole` | three turns, two sessions, two workers, one death |
| `chat_loop` | `HistoryIsChronological`, `HistoryIsWindow`, `ConversationHolds`, `EveryTurnEnds` | three turns of one session on one worker |
| `chat_order` | `HistoryIsChronological` violated | finding 2: the same with two workers |
| `retrieval` | `TypeOK`, `OnlyGrounding`, `FullUnlessStarved`, `NoInversion`, `ConfidenceHonest` | every store of up to three chunks, both searches, with and without reranker |
| `retrieval_starved` | `NotStarved` violated | finding 3 |
| `panel` | `PanelTypeOK`, `ShownFollows`, `LatestOnly`, `VerdictShown`, `PollEnds` | three starts, every order of ticks and answers |
| `page` | `TypeOK`, `OneAwaited`, `AnswerUnderItsQuestion`, `ThreadIsSession`, `AnswerShown` | three questions of a user who may wait for nothing |
| `setup` | `TypeOK`, `OwnTablesThere`, `DimensionsAgree`, `QuestionsServed` | a question again and again at one worker and, beside it, one request after the other of any kind, anywhere |
| `records` | `SentencesKept`, `PackedTight`, `NamesTheirRecord` | every text of up to three sentences, every row of two columns |

Bounds. Ingestion: two runs are enough for every pairwise overlap; pages of two
over three rows of two and one chunks, some of them absent, give a scan a full
last page, a short one, a batch that spans two pages and a batch larger than
`batch_size`; two stamps give a watermark a row above, at and below it, and rows
whose last one has not the latest stamp; one edit and one fault at any moment
are what a single-cause failure needs. `ingestion_tables` has a table between
two with watermark columns, of which the first has the later stamps, so that a
maximum that leaked from one to the other would show in `CursorAdvances`; one
row a table is enough for that, the rest of a scan is in `ingestion_edits`.
Chat: three
turns give a third one that follows two which collide; lengths 0 to 2 against a
budget of 3 and three messages reach both limits, and a message that is too long
by itself. Retrieval: a pool of two for one result and three chunks leave one
outside the pool; similarities lie below, at and above the threshold. Panel:
three jobs are a poll before the last one and one before that. Page: three
questions are one in flight, one after it and one more. Set-up: two requests
under way at a time are what a race for one table needs, at one worker (around
an await), at two, or with a tool; a third one racing for the same table finds
what the second one does. Two dimensions, one change, and one failure or restart
at any moment; runs over up to two tables with rows, the second of which finds
the chunks table in hand. Records: sentences that fit into a chunk twice, or not
at all, three of them so that a chunk has one before and one after; two columns,
one with the name of a metadata key. `MaxEdits`, `MaxFaults` and `MaxChanges`
bound the counters; each run, reset, turn, job and question is used once, which
bounds the behaviours, so that deadlock is checked in `page` and `setup` only,
where the system can always go on.

Symmetry is used where only safety is checked: runs and resets, turns, workers
and sessions, chunks and roles are interchangeable.

Fairness. `Ingestion!FairSpec` asks for weak fairness of each run's own steps:
the event loop goes on with a task that can go on. It does not ask for `Crash`
nor for `MarkFailedRaises`; `EveryJobFinishes` says that these two are the only
ends of an accepted job without a verdict (nothing recovers it).
`ChatSession!FairSpec` asks for each turn's own steps: the loop is fair and the
HTTP clients of the providers have timeouts. `FairPanelSpec` asks for the timer,
for an answer or an error to every request some time, and that the panel hears
one if it is there to be heard; all of it weak, and nothing of the jobs. So two
things may go on for ever, and `VerdictShown` and `PollEnds` name them as their
only exceptions:

* a job that never gets a verdict (`Endless`): its process died (`admin.py:162`)
  or `mark_failed` raised (`admin.py:137`), the two ends that
  `EveryJobFinishes` exempts. The panel then polls for as long as it is open,
  and if it was destroyed with its POST in flight, for as long as the browser's
  page lives, since nobody unsubscribes from the interval started afterwards;
* a service that from some time on is slower than the interval of 1.5 s
  (`Unheard`): `switchMap` gives up every GET before its answer comes.

A slow answer now and then, an overtaken one, or a verdict given between two
polls is no exception. `ChatPage!FairSpec` asks for an answer or
an error to every request. `ServiceSetup!FairSpec` asks for strong fairness of
each request's steps, since another request of the worker may have the loop in
between: asyncio takes up what is ready in the order in which it became so; and
that the question of `QuestionsServed` is asked again and again.

### Findings

1. A reset during a run (`NothingSkipped`). The run has read page 1, the reset
   deletes chunks and watermark, the run stores page 2 and writes its
   watermark: page 1 is gone and covered. A crash between the two transactions
   of the reset has the same effect.
2. Two workers number the messages of one session (`HistoryIsChronological`):
   the maximum is read in one statement and used in another.
3. Restricted chunks fill the candidate pool (`NotStarved`): the pool is taken
   before roles are looked at.

Also met while modelling, without a run of their own:

* a reset before the chunks table exists returns before `delete_watermarks`
  (`admin.py:108`), so the watermark that an ingestion of rows without text has
  left stays, although README.md:181 says that it is cleared;
* a reset when there are chunks but no watermarks table (the evaluation script
  or a first question creates only the former) deletes and answers 500, and the
  poll of a job when there never was one answers 500 and not 404: the two kinds
  of request `OwnTablesThere` leaves out;
* `mark_failed` may itself raise (`MarkFailedRaises`), which leaves a job, and
  whoever polls it, without a verdict for ever;
* overlapping runs can take a cursor back, which costs work and no row;
* a worker that has latched a dimension refuses the vectors of another model
  until it is restarted, and `upsert_chunks` compares with the dimension of the
  table object it was given, which is the provider's, and not, as its docstring
  says, with that of the column, which is left to the database;
* another model of the same dimension is noticed by nobody;
* a column called `access_tags` or `source_table` takes the place of the
  metadata entry (`NamesTheirRecord` says when);
* a watermark column that is a number becomes a date in `SourceRecord`;
* the cross-encoder's score becomes the confidence;
* an answer that arrives after New session puts the old session id back
  (`ThreadIsSession` is about a user who waits).

## 3. Proofs

`IngestionProofs` proves, for all constants that meet the named assumptions
(finitely many rows with natural keys, a positive batch size, a chunk count for
every version):

* `TypeCorrect`: `Spec => []TypeOK`, the ranges (`TypesCorrect`) with the indices
  of chunks and the locals a run has given up;
* `WatermarkCorrect`: `Spec => []WatermarkSound`;
* `ProgressCorrect`: `Spec => []ScanProgress`;
* `ScanCorrect`: `Spec => []ScanIsComplete`;
* `BatchCorrect`: `Spec => []NoDuplicateBatch`;
* `RecordsCorrect`: `Spec => []RecordsWhole`;
* `CursorCorrect`: `Spec => CursorAdvances`, up to the latest stamp of the table;
* `BoundsCorrect`: a page and a batch stay as small as the code means them to be;
* `RunsDescend`: every step of a run takes it closer to its end;
* `ExposedCoveredCorrect`, `UntouchedCorrect`, `QuietCorrect`, `ResetMends`: what
  is out of reach of the next scan, and by what.

`WatermarkSound` is not inductive: that `SetWatermark` keeps it depends on what
the scan has done before. The invariant `IInv` adds `ScanProgress`, which says
where each row a scan owes is (stored, on the page, pending, or with a rank
beyond the offset), and `Shape`, which says which loop variables are in use at
which point of a run. The argument about pages is `FullPage`: if a row of the
result is behind a page, the page is full, because ranks are distinct and a
window of ranks holds no more rows than its length (`RankWindow`); so a short
page ends the scan rightly. An edit keeps `ScanProgress` because a row that is
not exposed keeps its rank or gains (`RankGrows`). One lemma per action that
touches the data carries the step; the rest follow from frame lemmas. `BInv`
adds what `TypeCorrect`, `BatchCorrect`, `RecordsCorrect` and `CursorCorrect`
need: a run outside `_ingest_table` has none of its locals (`Fresh`); a stored
chunk is one its row's version has (`Numbered`); a batch holds whole rows, the stamps in hand are
the table's own and above the cursor, and while nobody edits or resets the table
the rows of the batch come before those of the page, which come before those not
fetched, and only rows of the last two kinds have stamps above the running
maximum (`Batches`, with `PassIn` and `SeenIn`).
`RunsDescend` orders the states of a run by its stage, the tables it has left,
the rows it may still ask for, the rows of its page and its batch; that no offset
passes the number of rows there can be (`Bounded`) is `FullPage` again.

`exposed` is a history variable, so the last four theorems say what its content
means. A row is in it when nobody reads the table only if the watermark covers
it (`ExposedCovered`). A step that neither edits a table nor takes its chunks
(`Calm`) adds nothing to it (`CalmStep`). Hence `NothingSkipped`, which finding 1
refutes, holds until the first edit or reset (`QuietCorrect`), and again, for a
table, from a reset that finds nobody reading it and goes all the way until the
next edit or reset (`ResetMends`): what mends the damage of a reset in a race is
another reset at rest.

`JobLifecycleProofs` proves `JobsRefined`: `Spec => JobLifecycleHolds`. The
mapping reads the tables left of a job from the loop of its run; a step of
`Ingestion` that touches a job row or that loop is the step of the same name
there, and every other one is a stutter. Then it proves what a verdict is worth.
It is the last thing a job does (`VerdictFinal`): nothing is stored and no
cursor moves for it afterwards. A run that has left a table behind has stored it
whole (`TableDone`, from
`ScanProgress` at the write of the watermark), no other run takes back what is
stored (`StoredStays`), and a success leaves no table to do, so "succeeded" says
that every row is in the store (`SuccessTruthful`), for tables without a
watermark as well, as long as no row was out of reach when the job took the
table and nobody edits or resets it; an operator who resets at rest and ingests
again has everything back (`RebuildComplete`). And `JobsServed`: a job without a
verdict has a run that may take its next step, or that has died or failed in its
except clause.

`IngestionPanelProofs` proves `PanelTypeOK`, `ShownFollows`, `LatestOnly`,
`VerdictIsFinal` and `ShownNeverReturns`, the last two of which no run checks,
for any number of jobs. `PanelInv` adds what makes them inductive: at most one
GET is in flight, it is for the job polled, and an answer on its way is a status
that job has had and not one before what is shown. `GoneSilent` is the part of
`PollEnds` that needs no fairness: a panel that is gone and has the answer to its
POST never polls again.

`RetrievalProofs` proves all safety properties of a search for every store,
weight, limit and reranker: `TypeOK`, `OnlyGrounding`, `NoInversion`,
`FullUnlessStarved`, `ConfidenceHonest`. The invariant says that pool and choice
stay what the search has made of them. `BlendMonotone` says that the blended
score grows with both of its parts, for which the highest keyword rank must
exist (`KeywordRank`); `BeforeTransfers` that who comes before the better of two
comes before the worse, so that the better one is among the first `TopK` if the
worse one is. `FullUnlessStarved` counts: the first `TopK` of a total order are
`TopK`, or all there are (`TopSize`), and a chunk left out of the pool has the
pool full of chunks that are as near, of which only the hidden ones are lost
(`PoolFull`). The same count gives the price of finding 3: a hidden chunk costs
one result at most (`HiddenCost`), and a caller from whom nothing is hidden is
never starved (`OpenCorrect`).

`ChatSessionProofs` proves, for any number of turns, sessions and workers,
`TypeOK`, `SeqGapless`, `QuestionFirst`, `TurnsInOrder` and `LoggedWhole`. The
invariant adds that a message tells how far its turn has come (`Owned`), that it
is logged once, and what is known of the number a turn has in hand between the
two statements of `append_message`: it follows one that is there, and is above
those of the turns answered before and of the turn's own question
(`NumberInHand`).

It proves also that the store implements `Conversation` (`ConversationKept`) and
that histories are chronological (`HistoryKept`), on any number of workers, under
one condition, `OneLogs`: two turns of a session are never both between the read
of their first number and their last insert. Then messages are numbered by their
places, the number in hand is that of the next place, and a question that is
being answered is the last message (`Serial`). The condition is the exact cause
of finding 2, and one worker is enough for it, since all of this lies between two
awaits (`OneLoopLogs`); so `ConversationRefined` and `HistoryCorrect` follow from
`OneLoop`. `ConversationReadable` says what the abstract specification is worth
to a reader: an answer stands right behind its question, and no question twice.

`WindowCorrect` (`HistoryIsWindow`) needs the sum of the lengths of a history,
which `get_recent_messages` takes from its end and the property from its start.
That there is such a sum, that it has the values of its recurrence and that it
does not depend on the direction is proved with the library's theorem that the
naturals are well-founded (`UpTo`, `SumExists`, `CharsSum`, `CharsReversed`).

Two theorems carry what `EveryTurnEnds` rests on besides fairness: no step takes
a turn back (`TurnsAdvance`), and a turn that cannot go on waits for one of its
own worker that needs nothing but the database (`LoopServed`).

`ChatPageProofs` proves `TypeOK`, `OneAwaited`, `AnswerUnderItsQuestion` and
`ThreadIsSession` for any number of questions. The bubble that waits is the
assistant's and the last one, a thread without it never ends with a question,
and for a user who waits every request in flight belongs to the page and to the
session it keeps.

`ServiceSetupProofs` proves `TypeOK`, `OwnTablesThere` and `DimensionsAgree` for
any number of workers and requests, for the lists of statements every kind of
request has. The invariant says of every list that each of its entries finds its
table there, or made earlier in the list, and that whoever holds a vector or a
table has the dimension that goes with it. `NobodyStuck` is the part of
`QuestionsServed` that needs no fairness: of the requests a worker has begun one
at most is between two awaits (`OneBetween`), so a request that cannot go on
waits for one that needs nothing but the database.

`RecordsProofs` proves `SentencesKept` and `PackedTight` for
every text and every chunk size and overlap, with `TypeOK`, which no run
checks, and `NamesTheirRecord` for every row. The invariant is the conjunction
of the first three with what a chunk being packed looks like (`Shape`).

Assumed are only the named assumptions of the modules, which TLC evaluates, and
what the statement of a theorem names (`OneLogs`, `OneLoop`, `Calm`). The
theorems that begin with `Spec => [](... /\ [][Calm(t)]_vars => ...)` speak of the
time after which a table is left alone; as a behaviour may stutter for ever at
any point, they say the same of any stretch of it up to the next disturbance.

Only model-checked: the liveness properties (`EveryJobFinishes`,
`EveryTurnEnds`, `VerdictShown`, `PollEnds`, `AnswerShown`, `QuestionsServed`),
since the rules for fairness need ENABLED, which is out of the prover's reach.
What they rest on besides fairness is proved where it is not plain: progress
towards an end (`RunsDescend`, with finitely many tables; `TurnsAdvance`), and
somebody who may go on (`JobsServed`, `LoopServed`, `NobodyStuck`). Every other
property of a passing run is proved. The two that a run refutes are proved under
the condition they lack (`QuietCorrect`, `OpenCorrect`), as is the third under
`OneLogs`.

## 4. Plan

Done: all modules above, and the proofs.

What would come next: isolation levels above READ COMMITTED for the pages of a
scan; a scan whose texts are those of `Records` instead of any number of chunks;
a measure for the statements a request of `ServiceSetup` has left, as
`RunsDescend` has one for a run.

## 5. Not modelled

* `config/*`: read before a request or a run begins and never written. Its
  values are constants of the modules, with assumptions where the code relies on
  one it does not check (`batch_size`).
* What a model answers, and the wire formats of `ollama_provider.py` and
  `azure_openai_provider.py`: pure I/O. Their results, failures and awaits, and
  the dimension they latch, are in `ServiceSetup` and `ChatSession`.
* Child tables in a scan (`relations`): the related rows of a record are in
  `Records`; that a change of one does not move its parent's `updated_at` is a
  hazard no promise of the code speaks of.
* The precision and recall that `scripts/eval_retrieval.py` prints; its probe,
  its table and its search are a tool of `ServiceSetup`.
* The reset and status panels (one request each), and the layout and styling
  components of the web pages.
