--------------------------- MODULE IngestionPanel ---------------------------
(***************************************************************************)
(* The ingestion panel of the admin page: it starts a job, polls it every  *)
(* POLL_INTERVAL_MS until it has a verdict, and shows what it is told.     *)
(* Requests and answers take any time and may fail on the way; the job     *)
(* rows behind GET /admin/ingest/{job_id} follow JobLifecycle.             *)
(*                                                                         *)
(* One instance of the component, from its creation to after its           *)
(* destruction: callbacks of requests still in flight run all the same.    *)
(***************************************************************************)
EXTENDS JobLifecycle, Integers

NoJob == [id |-> "none", status |-> "none"]

Active == {"pending", "running"}

ASSUME JobsAssumption == "none" \notin Jobs

VARIABLES
    alive,     \* the component is on the page
    starting,  \* signal starting
    shown,     \* signal job: its id and the status shown, or NoJob
    error,     \* signal requestError is set
    post,      \* the POST in flight, or its answer: [stage, id]
    poll,      \* the job pollSub asks for, or "none" if unsubscribed
    gets,      \* GETs in flight: [stage, status], status once answered
    latest     \* history: the job of the last POST that was answered

panel == <<alive, starting, shown, error, post, poll, gets, latest>>

allVars == <<status, left, panel>>

Idle == [stage |-> "idle", id |-> "none"]

Asked == [stage |-> "sent", status |-> "none"]

PanelInit ==
    /\ Init
    /\ alive = TRUE
    /\ starting = FALSE
    /\ shown = NoJob
    /\ error = FALSE
    /\ post = Idle
    /\ poll = "none"
    /\ gets = {}
    /\ latest = "none"

-----------------------------------------------------------------------------
(* The component.                                                          *)

\* Faulty: the poll of the previous job is left running.
StartKeepingPoll ==
    /\ alive /\ ~starting
    /\ starting' = TRUE
    /\ error' = FALSE
    /\ shown' = NoJob
    /\ post' = [stage |-> "sent", id |-> "none"]
    /\ UNCHANGED <<status, left, alive, poll, gets, latest>>

\* start(); the button is disabled while a start is under way.  Unsubscribing
\* cancels a GET in flight.
StartJob ==
    /\ alive /\ ~starting
    /\ starting' = TRUE
    /\ error' = FALSE
    /\ shown' = NoJob
    /\ poll' = "none"
    /\ gets' = {}
    /\ post' = [stage |-> "sent", id |-> "none"]
    /\ UNCHANGED <<status, left, alive, latest>>

\* next: the job id arrives and the interval starts.  Nobody has unsubscribed
\* from the POST, so a panel that is gone starts to poll, too.
Started ==
    /\ post.stage = "created"
    /\ starting' = FALSE
    /\ poll' = post.id
    /\ latest' = post.id
    /\ post' = Idle
    /\ UNCHANGED <<status, left, alive, shown, error, gets>>

\* Faulty: the button stays disabled.
StartFailedStuck ==
    /\ post.stage = "error"
    /\ error' = TRUE
    /\ post' = Idle
    /\ UNCHANGED <<status, left, alive, starting, shown, poll, gets, latest>>

\* error: the button is enabled again.
StartFailed ==
    /\ post.stage = "error"
    /\ starting' = FALSE
    /\ error' = TRUE
    /\ post' = Idle
    /\ UNCHANGED <<status, left, alive, shown, poll, gets, latest>>

\* Faulty: mergeMap.
TickMerging ==
    /\ poll # "none"
    /\ gets' = gets \cup {Asked}
    /\ UNCHANGED <<status, left, alive, starting, shown, error, post, poll,
                   latest>>

\* The interval fires: switchMap gives up the GET before and sends another.
Tick ==
    /\ poll # "none"
    /\ gets' = {Asked}
    /\ UNCHANGED <<status, left, alive, starting, shown, error, post, poll,
                   latest>>

\* Faulty: takeWhile without its inclusive flag.
DeliverExclusive(g) ==
    /\ g \in gets /\ g.stage = "answered"
    /\ shown' = IF g.status \in Active THEN [id |-> poll, status |-> g.status]
                                       ELSE shown
    /\ poll' = IF g.status \in Active THEN poll ELSE "none"
    /\ gets' = IF g.status \in Active THEN gets \ {g} ELSE {}
    /\ UNCHANGED <<status, left, alive, starting, error, post, latest>>

\* Faulty: no takeWhile.
DeliverForever(g) ==
    /\ g \in gets /\ g.stage = "answered"
    /\ shown' = [id |-> poll, status |-> g.status]
    /\ gets' = gets \ {g}
    /\ UNCHANGED <<status, left, alive, starting, error, post, poll, latest>>

\* An answer arrives and is shown; a verdict is the last one (takeWhile,
\* inclusive).
Deliver(g) ==
    /\ g \in gets /\ g.stage = "answered"
    /\ shown' = [id |-> poll, status |-> g.status]
    /\ poll' = IF g.status \in Active THEN poll ELSE "none"
    /\ gets' = IF g.status \in Active THEN gets \ {g} ELSE {}
    /\ UNCHANGED <<status, left, alive, starting, error, post, latest>>

\* An error of one GET ends the interval.
DeliverError(g) ==
    /\ g \in gets /\ g.stage = "error"
    /\ error' = TRUE
    /\ poll' = "none"
    /\ gets' = {}
    /\ UNCHANGED <<status, left, alive, starting, shown, post, latest>>

\* ngOnDestroy: the user leaves the page.
Destroy ==
    /\ alive
    /\ alive' = FALSE
    /\ poll' = "none"
    /\ gets' = {}
    /\ UNCHANGED <<status, left, starting, shown, error, post, latest>>

-----------------------------------------------------------------------------
(* The network and the service.                                            *)

\* POST /admin/ingest creates a row and answers with its id.
CreateJob(j) ==
    /\ post.stage = "sent"
    /\ \E wanted \in SUBSET Tables : Create(j, wanted)
    /\ post' = [stage |-> "created", id |-> j]
    /\ UNCHANGED <<alive, starting, shown, error, poll, gets, latest>>

\* The POST is refused, or its answer is lost after the row was created.
LosePost ==
    /\ post.stage \in {"sent", "created"}
    /\ post' = [stage |-> "error", id |-> "none"]
    /\ UNCHANGED <<status, left, alive, starting, shown, error, poll, gets,
                   latest>>

\* GET /admin/ingest/{job_id} reads the row.
AnswerGet(g) ==
    /\ g \in gets /\ g.stage = "sent"
    /\ gets' = (gets \ {g}) \cup {[stage |-> "answered",
                                   status |-> status[poll]]}
    /\ UNCHANGED <<status, left, alive, starting, shown, error, post, poll,
                   latest>>

LoseGet(g) ==
    /\ g \in gets /\ g.stage # "error"
    /\ gets' = (gets \ {g}) \cup {[stage |-> "error", status |-> "none"]}
    /\ UNCHANGED <<status, left, alive, starting, shown, error, post, poll,
                   latest>>

\* The background task of a job.
JobStep(j) ==
    /\ \/ Start(j)
       \/ \E t \in Tables : FinishTable(j, t)
       \/ Succeed(j)
       \/ Fail(j)
    /\ UNCHANGED panel

-----------------------------------------------------------------------------
PanelNext ==
    \/ StartJob \/ Started \/ StartFailed \/ Tick \/ Destroy
    \/ \E g \in gets : Deliver(g) \/ DeliverError(g) \/ AnswerGet(g)
                       \/ LoseGet(g)
    \/ \E j \in Jobs : CreateJob(j) \/ JobStep(j)
    \/ LosePost

PanelSpec == PanelInit /\ [][PanelNext]_allVars

\* Something the panel asked for comes to it.
Hears == \E g \in gets : Deliver(g) \/ DeliverError(g)

\* The timer fires and every request comes back or is lost.  Nothing is assumed
\* of the jobs, which may stay without a verdict for ever, nor that an answer
\* comes back within the interval: switchMap gives up every slower one.
FairPanelSpec ==
    /\ PanelSpec
    /\ WF_allVars(Started \/ StartFailed)
    /\ WF_allVars(LosePost \/ \E j \in Jobs : CreateJob(j))
    /\ WF_allVars(Tick)
    /\ WF_allVars(\E g \in gets : AnswerGet(g) \/ LoseGet(g))
    /\ WF_allVars(Hears)

-----------------------------------------------------------------------------
(* Properties.                                                             *)

\* How far along its life a status is.
Rank(s) == IF s = "none" THEN 0 ELSE IF s = "pending" THEN 1
           ELSE IF s = "running" THEN 2 ELSE 3

\* Types; a GET is only in flight while the panel polls.
PanelTypeOK ==
    /\ status \in [Jobs -> Statuses]
    /\ left \in [Jobs -> SUBSET Tables]
    /\ {alive, starting, error} \subseteq BOOLEAN
    /\ shown \in [id : Jobs, status : Statuses \ {"none"}] \cup {NoJob}
    /\ post \in [stage : {"created"}, id : Jobs]
                \cup [stage : {"idle", "sent", "error"}, id : {"none"}]
    /\ poll \in Jobs \cup {"none"}
    /\ gets \subseteq [stage : {"sent", "error"}, status : {"none"}]
                      \cup [stage : {"answered"}, status : Statuses \ {"none"}]
    /\ poll = "none" => gets = {}
    /\ starting <=> post # Idle
    /\ latest \in Jobs \cup {"none"}

\* The panel never shows a status its job has not reached, nor one that an
\* answer on its way would take back: answers overtaken by a later one are
\* given up.
ShownFollows ==
    /\ shown # NoJob => Rank(shown.status) <= Rank(status[shown.id])
    /\ \A g \in gets : g.stage = "answered" /\ shown # NoJob =>
            Rank(shown.status) <= Rank(g.status)

\* A status once shown is never replaced by an earlier one of the same job.
ShownNeverReturns ==
    [][shown # NoJob /\ shown'.id = shown.id
            => Rank(shown'.status) >= Rank(shown.status)]_allVars

\* A verdict that is shown is the verdict of the job, and the polling is over.
VerdictIsFinal ==
    shown # NoJob /\ shown.status \notin Active =>
        status[shown.id] = shown.status /\ poll = "none"

\* What is shown and what is asked for is the job of the last start, never one
\* before it; and while a start is under way nothing is shown or asked for.
LatestOnly ==
    /\ poll \in {latest, "none"}
    /\ shown.id \in {latest, "none"}
    /\ starting => shown = NoJob /\ poll = "none"

\* The service has become slower than POLL_INTERVAL_MS for good: from some time
\* on the timer gives up every GET before its answer arrives.
Unheard == <>[](poll # "none") /\ <>[][~Hears]_allVars

\* The panel asks for a job that never gets a verdict: its process has died, or
\* mark_failed has raised (what EveryJobFinishes of Ingestion has to exempt).
Endless(j) == [](poll = j /\ status[j] \in Active)

\* A panel that polls a job comes to show its verdict.  What may keep it from
\* that is a request that fails, a user who leaves or starts another job, a job
\* that never gets a verdict and a service that is never again heard in time;
\* of a slow answer, an overtaken one or a verdict given between two polls,
\* none does.
VerdictShown ==
    \/ Unheard
    \/ \A j \in Jobs :
            poll = j ~> \/ shown.id = j /\ shown.status \notin Active
                        \/ error \/ ~alive \/ starting
                        \/ Endless(j)

\* A panel that is gone stops polling, also when the answer to its POST came
\* after it had been destroyed and nobody is left to unsubscribe.  Only the
\* answers stop it then: of a job that never gets a verdict, or from a service
\* too slow to be heard, it goes on asking for as long as the browser's page
\* lives.
PollEnds ==
    \/ Unheard
    \/ ~alive ~> \/ [](poll = "none")
                  \/ \E j \in Jobs : Endless(j)

=============================================================================
