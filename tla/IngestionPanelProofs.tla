------------------------ MODULE IngestionPanelProofs ------------------------
(***************************************************************************)
(* Theorems about IngestionPanel, for any number of jobs and tables.       *)
(***************************************************************************)
EXTENDS IngestionPanel, TLAPS

\* What the panel holds is about the job it polls: one GET at most is in
\* flight, and an answer on its way is a status that job has had.
PollInv ==
    /\ \A g, h \in gets : g = h
    /\ poll # "none" => status[poll] # "none"
    /\ post.stage = "created" => status[post.id] # "none"
    /\ shown # NoJob => status[shown.id] # "none"
    /\ \A g \in gets : g.stage = "answered" =>
            /\ Rank(g.status) <= Rank(status[poll])
            /\ g.status \notin Active => status[poll] = g.status
    /\ \A g \in gets : g.stage = "answered" /\ shown # NoJob =>
            Rank(shown.status) <= Rank(g.status)

PanelInv ==
    /\ PanelTypeOK
    /\ ShownFollows
    /\ VerdictIsFinal
    /\ LatestOnly
    /\ PollInv

\* A job only goes on while it is active, and does not go back.
LEMMA JobGoesOn ==
    ASSUME PanelTypeOK, NEW j \in Jobs, JobStep(j)
    PROVE  /\ status' \in [Jobs -> Statuses] /\ left' \in [Jobs -> SUBSET Tables]
           /\ \A i \in Jobs : /\ Rank(status[i]) <= Rank(status'[i])
                              /\ status[i] # "none" => status'[i] # "none"
                              /\ status[i] \in Active \cup {"none"}
                                    \/ status'[i] = status[i]
           /\ UNCHANGED panel
  <1> USE DEF PanelTypeOK, Statuses, Rank, Active
  <1>1. CASE Start(j)
    BY <1>1 DEF Start, JobStep
  <1>2. CASE \E t \in Tables : FinishTable(j, t)
    BY <1>2 DEF FinishTable, JobStep
  <1>3. CASE Succeed(j)
    BY <1>3 DEF Succeed, JobStep
  <1>4. CASE Fail(j)
    BY <1>4 DEF Fail, JobStep
  <1> QED
    BY <1>1, <1>2, <1>3, <1>4 DEF JobStep

LEMMA PanelInvInit == PanelInit => PanelInv
  <1> SUFFICES ASSUME PanelInit PROVE PanelInv
    OBVIOUS
  <1> USE JobsAssumption DEF PanelInit, Init, NoJob, Idle
  <1>1. PanelTypeOK
    BY DEF PanelTypeOK, Statuses
  <1>2. ShownFollows /\ VerdictIsFinal /\ LatestOnly /\ PollInv
    BY DEF ShownFollows, VerdictIsFinal, LatestOnly, PollInv
  <1> QED
    BY <1>1, <1>2 DEF PanelInv

LEMMA PanelInvNext == PanelInv /\ [PanelNext]_allVars => PanelInv'
  <1> SUFFICES ASSUME PanelInv, [PanelNext]_allVars
               PROVE  PanelInv'
    OBVIOUS
  <1> USE JobsAssumption
          DEF PanelInv, PanelTypeOK, ShownFollows, VerdictIsFinal, LatestOnly,
              PollInv, Statuses, NoJob, Idle, Active, Asked, Rank
  <1>1. CASE StartJob
    BY <1>1 DEF StartJob
  <1>2. CASE Started
    <2>1. /\ post.id \in Jobs /\ starting /\ shown = NoJob /\ poll = "none"
          /\ gets = {} /\ status[post.id] # "none"
      BY <1>2 DEF Started
    <2>2. PanelTypeOK'
      BY <1>2, <2>1 DEF Started
    <2>3. ShownFollows' /\ VerdictIsFinal' /\ LatestOnly' /\ PollInv'
      BY <1>2, <2>1 DEF Started
    <2> QED
      BY <2>2, <2>3
  <1>3. CASE StartFailed
    BY <1>3 DEF StartFailed
  <1>4. CASE Tick
    BY <1>4 DEF Tick
  <1>5. CASE Destroy
    BY <1>5 DEF Destroy
  <1>6. ASSUME NEW g \in gets, Deliver(g)
        PROVE  PanelInv'
    BY <1>6 DEF Deliver
  <1>7. ASSUME NEW g \in gets, DeliverError(g)
        PROVE  PanelInv'
    BY <1>7 DEF DeliverError
  <1>8. ASSUME NEW g \in gets, AnswerGet(g)
        PROVE  PanelInv'
    BY <1>8 DEF AnswerGet
  <1>9. ASSUME NEW g \in gets, LoseGet(g)
        PROVE  PanelInv'
    BY <1>9 DEF LoseGet
  <1>10. ASSUME NEW j \in Jobs, CreateJob(j)
         PROVE  PanelInv'
    BY <1>10 DEF CreateJob, Create
  <1>11. ASSUME NEW j \in Jobs, JobStep(j)
         PROVE  PanelInv'
    BY <1>11, JobGoesOn DEF panel
  <1>12. CASE LosePost
    BY <1>12 DEF LosePost
  <1>13. CASE UNCHANGED allVars
    BY <1>13 DEF allVars, panel
  <1> QED
    BY <1>1, <1>2, <1>3, <1>4, <1>5, <1>6, <1>7, <1>8, <1>9, <1>10, <1>11,
       <1>12, <1>13 DEF PanelNext

\* Whatever is lost, late or overtaken, the panel's signals and its requests
\* keep their types.
THEOREM TypeCorrect == PanelSpec => []PanelTypeOK
  BY PanelInvInit, PanelInvNext, PTL DEF PanelSpec, PanelInv

\* What the panel shows is a status its job has had.
THEOREM PanelCorrect == PanelSpec => []ShownFollows
  BY PanelInvInit, PanelInvNext, PTL DEF PanelSpec, PanelInv

\* A verdict on the screen is the job's verdict.
THEOREM VerdictCorrect == PanelSpec => []VerdictIsFinal
  BY PanelInvInit, PanelInvNext, PTL DEF PanelSpec, PanelInv

\* The panel polls and shows the job of the last start alone.
THEOREM LatestCorrect == PanelSpec => []LatestOnly
  BY PanelInvInit, PanelInvNext, PTL DEF PanelSpec, PanelInv

\* A status once shown is never replaced by an earlier one of the same job.
THEOREM ShownForward == PanelSpec => ShownNeverReturns
  <1>1. PanelInv /\ [PanelNext]_allVars =>
            [shown # NoJob /\ shown'.id = shown.id
                => Rank(shown'.status) >= Rank(shown.status)]_allVars
    <2> SUFFICES ASSUME PanelInv, PanelNext, shown # NoJob,
                        shown'.id = shown.id
                 PROVE  Rank(shown'.status) >= Rank(shown.status)
      BY DEF allVars, panel, Rank
    <2>1. ASSUME NEW g \in gets, Deliver(g)
          PROVE  Rank(shown'.status) >= Rank(shown.status)
      BY <2>1 DEF Deliver, PanelInv, PollInv, Rank
    <2>2. ASSUME shown' = shown
          PROVE  Rank(shown'.status) >= Rank(shown.status)
      BY <2>2 DEF Rank
    <2>3. CASE StartJob
      BY <2>3, JobsAssumption DEF StartJob, PanelInv, PanelTypeOK, NoJob
    <2> QED
      BY <2>1, <2>2, <2>3 DEF PanelNext, Started, StartFailed, Tick, Destroy,
         DeliverError, AnswerGet, LoseGet, CreateJob, JobStep, LosePost, panel
  <1> QED
    BY <1>1, PanelInvInit, PanelInvNext, PTL DEF PanelSpec, ShownNeverReturns

\* ngOnDestroy: once a panel is gone and the answer to its POST has come, it
\* polls no more, and no request of it is left.  Before that, Started is the one
\* step that makes it poll again, and only the job it has just created.
THEOREM GoneSilent ==
    /\ PanelSpec => [](~alive /\ ~starting /\ poll = "none"
                        => [](poll = "none" /\ gets = {}))
    /\ PanelSpec => [][~alive /\ poll = "none" /\ poll' # "none"
                        => /\ starting /\ ~starting'
                           /\ post.stage = "created" /\ poll' = post.id]_allVars
  <1> DEFINE Gone == ~alive /\ ~starting /\ poll = "none"
             Silent == poll = "none" /\ gets = {}
             Revived == ~alive /\ poll = "none" /\ poll' # "none"
                        => /\ starting /\ ~starting'
                           /\ post.stage = "created" /\ poll' = post.id
  <1>1. PanelInv /\ Gone => Silent
    BY DEF PanelInv, PanelTypeOK
  <1>2. PanelInv /\ Gone /\ [PanelNext]_allVars => Gone'
    <2> SUFFICES ASSUME PanelInv, Gone, [PanelNext]_allVars PROVE Gone'
      OBVIOUS
    <2>1. post = Idle /\ gets = {}
      BY DEF PanelInv, PanelTypeOK
    <2>2. CASE UNCHANGED allVars
      BY <2>2 DEF allVars, panel
    <2> QED
      BY <2>1, <2>2 DEF PanelNext, StartJob, Started, StartFailed, Tick, Destroy,
                        CreateJob, JobStep, LosePost, Idle, panel
  <1>3. PanelInv /\ [PanelNext]_allVars => [Revived]_allVars
    <2> SUFFICES ASSUME PanelInv, PanelNext PROVE Revived
      OBVIOUS
    <2> QED
      BY DEF PanelInv, PanelTypeOK, PanelNext, StartJob, Started, StartFailed,
             Tick, Destroy, Deliver, DeliverError, AnswerGet, LoseGet,
             CreateJob, JobStep, LosePost, Idle, panel
  <1> HIDE DEF Gone, Silent, Revived
  <1>4. PanelSpec => [](Gone => []Silent)
    BY <1>1, <1>2, PanelInvInit, PanelInvNext, PTL DEF PanelSpec
  <1>5. PanelSpec => [][Revived]_allVars
    BY <1>3, PanelInvInit, PanelInvNext, PTL DEF PanelSpec
  <1> QED
    BY <1>4, <1>5 DEF Gone, Silent, Revived

=============================================================================
